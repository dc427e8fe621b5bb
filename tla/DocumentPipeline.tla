-------------------------- MODULE DocumentPipeline --------------------------
(***************************************************************************)
(* A source file from ingest_document to the chunks of chunk_document, in  *)
(* either boundary mode.                                                   *)
(***************************************************************************)
EXTENDS Ingestion, LayoutPacking, TokenWindows

VARIABLE chunks  \* of the layout_aware mode

vars == <<ingestion, windowing, chunks>>

Init ==
  /\ IngestionInit
  /\ config \in {CHOOSE c \in Config : TRUE}
  /\ count = 0 /\ aligned = {} /\ start = 0 /\ end = 0 /\ windows = <<>>
  /\ chunks = <<>>

Ingest == IngestionStep /\ UNCHANGED <<windowing, chunks>>

-----------------------------------------------------------------------------
(* _chunk_document_sync *)

(* How many tokens end with each letter that a token ends with.            *)
LetterPositions(text) ==
  {Cardinality({e \in TokenEnds(text) : e <= 2 * i}) :
     i \in {0} \cup {j \in DOMAIN text : 2 * j \in TokenEnds(text)}}

Tokenize ==
  /\ phase = "document"
  /\ config' \in {c \in Config : c.mode = "token_window"}
  /\ phase' = "windows"
  /\ count' = Cardinality(TokenEnds(document.text))
  /\ aligned' = LetterPositions(document.text)
  /\ UNCHANGED <<parser, assembly, format, headers, document, start, end, windows, chunks>>

ChunkByWindows == phase = "windows" /\ WindowStep /\ UNCHANGED <<ingestion, chunks>>

PackLayout ==
  /\ phase = "document"
  /\ config' \in {c \in Config : c.mode = "layout_aware"}
  /\ IF CanPack(document, config')
     THEN phase' = "chunked" /\ chunks' = Chunks(document, config'.window)
     ELSE phase' = "unchunkable" /\ UNCHANGED chunks
  /\ UNCHANGED <<parser, assembly, format, headers, document, count, aligned, start, end, windows>>

Next == Ingest \/ Tokenize \/ ChunkByWindows \/ PackLayout

Spec == Init /\ [][Next]_vars

-----------------------------------------------------------------------------
Ranged(d) == ToSet(d.layout) \cup UNION {ToSet(t.cells) : t \in ToSet(d.tables)}

(* html_tables.py:69, docx.py:228, email.py:342, pdf.py:277: every layout *)
(* span and table cell of a document, also of one read through an email,   *)
(* marks in characters and in bytes exactly the text it was read from.     *)
SpansAreExact ==
  document.text # <<>> =>
    \A s \in Ranged(document) :
      /\ Slice(document.text, s.range.sc, s.range.ec) = s.of
      /\ s.range.sb = ByteLen(SubSeq(document.text, 1, s.range.sc))
      /\ s.range.eb = ByteLen(SubSeq(document.text, 1, s.range.ec))

(* contracts/documents.py:60: what an adapter puts together satisfies the  *)
(* contract of Document, except that a DOCX table without rows leaves a    *)
(* separator, and the next one takes its segment id (docx.py:121).         *)
IngestedIsValid ==
  phase = "refused" /\ document.text # <<>> =>
    format = "docx" /\ ~UniqueIds(document.map)

-----------------------------------------------------------------------------
Chunked == phase = "chunked"

(* Whether a block fits a window together with the blanks after it, which  *)
(* _with_gap_blocks makes a part of it.                                    *)
Fits(b) ==
  \E f \in ToSet(WithGapBlocks(document, Blocks(document))) :
    f.start = b.start /\ ~TooLong(document, config.window, f.start, f.end)

(* packing.py:91, 127: layout-aware chunks cover the text in order, each  *)
(* span of the flow that fits a window and each table lies in one chunk,   *)
(* and a table chunk has no other text but the blanks after the table.     *)
LayoutChunksTile ==
  Chunked =>
    /\ chunks[1].start = 0 /\ Last(chunks).end = Len(document.text)
    /\ \A k \in DOMAIN chunks : k > 1 => chunks[k].start = chunks[k - 1].end
    /\ \A b \in Blocks(document) :
         b.kind = "table" \/ Fits(b) =>
           \E c \in ToSet(chunks) : c.start <= b.start /\ b.end <= c.end /\ b.id \in c.ids
    /\ \A c \in ToSet(chunks), t \in ToSet(document.tables) :
         c.kind = "table" /\ t.id \in c.ids =>
           /\ c.start = t.range.sc
           /\ ToSet(Slice(document.text, t.range.ec, c.end)) \subseteq Blank

(* packing.py:154, 247: a chunk above the window says so, and is a table   *)
(* or a single letter; what no window holds is cut as late as it can be.   *)
ChunksFitOrSayWhy ==
  Chunked =>
    \A k \in DOMAIN chunks :
      LET c == chunks[k]
      IN  /\ TooLong(document, config.window, c.start, c.end) =>
               \/ c.reason = "atomic_table_overflow" /\ config.oversized
               \/ c.reason = "oversized_sentence" /\ c.end = c.start + 1
          /\ c.reason = "oversized_sentence" /\ k < Len(chunks)
               /\ chunks[k + 1].reason = "oversized_sentence"
               /\ chunks[k + 1].ids = c.ids =>
                 \/ TooLong(document, config.window, c.start, c.end + 1)
                 \/ document.text[c.end] = Stop

(* tokenizer.py:98: the parent of a chunk is the section the text before   *)
(* it belongs to: no heading, if it is not blank, begins in between but    *)
(* one too long for a window, whose pieces are overflow chunks.            *)
HierarchyPointsBack ==
  Chunked =>
    \A k \in DOMAIN chunks :
      LET parent == ParentOf(document, chunks, k)
      IN  parent # 0 \/ chunks[k].kind # "section" =>
            \A h \in {b \in Blocks(document) : b.kind = "section"} :
              /\ h.start < chunks[k].start /\ HasContent(document, h.start, h.end)
              /\ parent = 0 \/ chunks[parent].end <= h.start
              => ~Fits(h)
=============================================================================
