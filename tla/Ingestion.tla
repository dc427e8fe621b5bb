----------------------------- MODULE Ingestion -----------------------------
(***************************************************************************)
(* ingest_document: the adapter of the source's format reads it, and the   *)
(* Document contract validates what the adapter put together.  An email    *)
(* with an HTML body goes through the HTML parser and imports its result.  *)
(*                                                                         *)
(* Bounds: MaxSegments segments of a DOCX document; the other inputs are   *)
(* the sets below.                                                         *)
(***************************************************************************)
EXTENDS HtmlParser

CONSTANTS
  PlainText,    \* contents of text and Markdown files
  Paragraph,    \* the texts of paragraphs, empty ones included
  DocxTable,    \* tables, as rows of cell texts
  MaxSegments,
  PdfSource,    \* sequences of pages: their text, words and tables
  Message       \* email messages

ParagraphRole == {"heading", "list_item", "paragraph"}

(* What the parsers of the formats hand to the adapters.                   *)
PdfPages == Seq([text : Text, words : Seq(Text), tables : Seq(Seq(Seq(Text)))])

ASSUME InputAssumption ==
  /\ Plain # {}
  /\ RoleOf \in [BlockTag -> ParagraphRole]
  /\ Data \subseteq Text /\ PlainText \subseteq Text /\ Paragraph \subseteq Text
  /\ DocxTable \subseteq Seq(Seq(Text))
  /\ PdfSource \subseteq PdfPages
  /\ \A m \in Message : m.headers \in Seq(Text \ {<<>>}) /\ m.body \in Text

VARIABLES
  format,
  phase,     \* reading, document or refused
  headers,   \* of an email, the assembler with its headers
  document   \* the Document, as given to its contract

ingestion == <<parser, assembly, format, phase, headers, document>>

NoDocument == [text |-> <<>>]

IngestionInit ==
  /\ ParserInit
  /\ format \in {"plain_text", "html", "docx", "pdf", "email"}
  /\ phase = IF format = "email" THEN "message" ELSE "reading"
  /\ headers = Empty
  /\ document = NoDocument

Reading(f) == format = f /\ phase = "reading"
ParserIsDone ==
  /\ assembly' = Empty
  /\ ignoring' = FALSE /\ inTitle' = FALSE
  /\ block' = Closed /\ parts' = <<>>
  /\ stack' = <<>> /\ row' = NoRow /\ cell' = NoCell
  /\ heard' = 0

-----------------------------------------------------------------------------
(* The contract of Document. *)

UniqueIds(seq) == \A i, j \in DOMAIN seq : seq[i].id = seq[j].id => i = j

PageMapIsOrdered(d) ==
  \A i \in DOMAIN d.pages :
    /\ d.pages[i].ec <= Len(d.text) /\ d.pages[i].eb <= ByteLen(d.text)
    /\ i > 1 => /\ d.pages[i].sc >= d.pages[i - 1].ec
                /\ d.pages[i].sb >= d.pages[i - 1].eb

SourceMapCovers(d) ==
  d.map # <<>> =>
    /\ \A i \in DOMAIN d.map :
         /\ d.map[i].range.sc = IF i = 1 THEN 0 ELSE d.map[i - 1].range.ec
         /\ d.map[i].range.sb = IF i = 1 THEN 0 ELSE d.map[i - 1].range.eb
    /\ Last(d.map).range.ec = Len(d.text)
    /\ Last(d.map).range.eb = ByteLen(d.text)

IsRange(range) == range.sc < range.ec /\ range.sb < range.eb  \* TextRange

RangeIsWithin(d, range) ==
  IsRange(range) /\ range.ec <= Len(d.text) /\ range.eb <= ByteLen(d.text)

PageIsKnown(d, page) == page \in DOMAIN d.pages

CellIsWithin(table, c) ==
  /\ table.range.sc <= c.range.sc /\ c.range.ec <= table.range.ec
  /\ table.range.sb <= c.range.sb /\ c.range.eb <= table.range.eb

(* The id of a cell is its row and column.                                 *)
CellsAreApart(cells) ==
  \A i, j \in DOMAIN cells :
    cells[i].row = cells[j].row /\ cells[i].column = cells[j].column => i = j

IsValid(d) ==
  /\ PageMapIsOrdered(d)
  /\ UniqueIds(d.map) /\ UniqueIds(d.layout) /\ UniqueIds(d.tables)
  /\ SourceMapCovers(d)
  /\ \A s \in ToSet(d.map) : RangeIsWithin(d, s.range)
  /\ \A s \in ToSet(d.layout) \cup ToSet(d.tables) :
       PageIsKnown(d, s.page) /\ RangeIsWithin(d, s.range)
  /\ \A t \in ToSet(d.tables) :
       /\ t.cells # <<>> /\ CellsAreApart(t.cells)
       /\ \A c \in ToSet(t.cells) : RangeIsWithin(d, c.range) /\ CellIsWithin(t, c)

Page(first, end, firstByte, endByte) ==
  [sc |-> first, ec |-> end, sb |-> firstByte, eb |-> endByte]

OnePage(a) ==
  [text |-> a.text, pages |-> <<Page(0, Len(a.text), 0, ByteLen(a.text))>>,
   map |-> a.map, layout |-> a.layout, tables |-> a.tables]

(* Whatever the adapter returns goes to the contract, unless it is empty.  *)
Construct(d) ==
  /\ document' = d
  /\ phase' = IF d.text # <<>> /\ IsValid(d) THEN "document" ELSE "refused"
  /\ ParserIsDone
  /\ headers' = Empty
  /\ UNCHANGED format

(* IngestionError: nothing is returned.                                    *)
Refuse ==
  /\ phase' = "refused"
  /\ ParserIsDone
  /\ headers' = Empty
  /\ UNCHANGED <<format, document>>

-----------------------------------------------------------------------------
(* Text and Markdown *)

ReadPlain ==
  /\ Reading("plain_text")
  /\ \E text \in PlainText :
       Construct(OnePage([Empty EXCEPT !.text = text, !.map =
         IF text = <<>> THEN <<>>
         ELSE <<[id |-> <<"source">>, kind |-> "source",
                 range |-> Page(0, Len(text), 0, ByteLen(text))]>>]))

-----------------------------------------------------------------------------
(* extract_html_document *)

ParseHtml ==
  /\ format \in {"html", "email"} /\ phase = "reading"
  /\ ParserStep
  /\ UNCHANGED <<format, phase, headers, document>>

RefuseTable == format \in {"html", "email"} /\ phase = "reading" /\ TableIsRefused /\ Refuse

EndOfHtml ==
  /\ Reading("html")
  /\ IF assembly.text = <<>> THEN Refuse ELSE Construct(OnePage(assembly))

-----------------------------------------------------------------------------
(* extract_docx_document: the paragraphs and tables of the body in order.  *)

ReadParagraph ==
  /\ Reading("docx") /\ Len(assembly.map) < MaxSegments
  /\ \E text \in Paragraph \ {<<>>}, role \in ParagraphRole :
       assembly' = AddBlock(assembly, text, role)
  /\ UNCHANGED <<parser, format, phase, headers, document>>

TableRows(rows) ==
  FlattenSeq([i \in DOMAIN rows |-> IF rows[i] = <<>> THEN <<>> ELSE <<rows[i]>>])

(* The separator is added before the rows are looked at.                   *)
ReadTable ==
  /\ Reading("docx") /\ Len(assembly.map) < MaxSegments
  /\ \E rows \in DocxTable :
       LET cells == TableRows(rows)
       IN  IF HasEmptyCell(cells) THEN Refuse
           ELSE /\ assembly' = IF cells = <<>> THEN AddSeparator(assembly)
                               ELSE AddRows(AddSeparator(assembly), cells)
                /\ UNCHANGED <<parser, format, phase, headers, document>>

EndOfDocx ==
  /\ Reading("docx")
  /\ IF assembly.text = <<>> THEN Refuse ELSE Construct(OnePage(assembly))

-----------------------------------------------------------------------------
(* extract_pdf_document *)

(* _join_pages: pages, with a generated separator between them.            *)
PageSeparator == <<NewLine, NewLine>>

JoinPage(acc, i, text) ==
  LET before == IF i = 1 THEN acc.a
                ELSE AddSegment(acc.a, PageSeparator, <<"page-separator", i>>, "generated")
      after == IF text = <<>> THEN before
               ELSE AddSegment(before, text, <<"page", i>>, "unmapped")
  IN  [a |-> after,
       pages |-> Append(acc.pages, Page(before.char, after.char, before.byte, after.byte))]

JoinedPages(pages) ==
  LET joined[n \in 0 .. Len(pages)] ==
        IF n = 0 THEN [a |-> Empty, pages |-> <<>>]
        ELSE JoinPage(joined[n - 1], n, pages[n].text)
  IN  joined[Len(pages)]

(* str.find of one piece after the other, each from the end of the last.   *)
Places(text, piece, cursor) ==
  {p \in cursor .. Len(text) - Len(piece) : Slice(text, p, p + Len(piece)) = piece}

FindNext(acc, text, piece) ==
  LET places == Places(text, piece, acc.cursor)
      start == CHOOSE p \in places : \A q \in places : p <= q
  IN  IF ~acc.found \/ piece = <<>> \/ places = {}
      THEN [acc EXCEPT !.found = FALSE]
      ELSE [cursor |-> start + Len(piece), found |-> TRUE,
            starts |-> Append(acc.starts, start)]

Aligned(text, pieces) ==
  LET search[n \in 0 .. Len(pieces)] ==
        IF n = 0 THEN [cursor |-> 0, found |-> TRUE, starts |-> <<>>]
        ELSE FindNext(search[n - 1], text, pieces[n])
  IN  search[Len(pieces)]

InPage(page, text, start, piece) ==
  [sc |-> page.sc + start, ec |-> page.sc + start + Len(piece),
   sb |-> page.sb + ByteLen(SubSeq(text, 1, start)),
   eb |-> page.sb + ByteLen(SubSeq(text, 1, start + Len(piece)))]

WordSpans(source, number, page) ==
  LET starts == Aligned(source.text, source.words).starts
  IN  [k \in DOMAIN source.words |->
         Span(<<"word", number, k>>, number, "unknown",
              InPage(page, source.text, starts[k], source.words[k]), source.words[k])]

(* From the first start to the last end.                                   *)
Hull(ranges) ==
  [sc |-> Min({r.sc : r \in ranges}), ec |-> Max({r.ec : r \in ranges}),
   sb |-> Min({r.sb : r \in ranges}), eb |-> Max({r.eb : r \in ranges})]

PdfTable(source, number, page, k) ==
  LET pieces == FlattenSeq(source.tables[k])
      starts == Aligned(source.text, pieces).starts
      cells == [c \in DOMAIN pieces |->
                  [row |-> 1, column |-> c, of |-> pieces[c],
                   range |-> InPage(page, source.text, starts[c], pieces[c])]]
  IN  [id |-> <<"table", number, k>>, page |-> number, cells |-> cells,
       range |-> Hull({cells[c].range : c \in DOMAIN cells})]

PageIsAligned(source) ==
  /\ Aligned(source.text, source.words).found
  /\ \A k \in DOMAIN source.tables :
       /\ FlattenSeq(source.tables[k]) # <<>>
       /\ Aligned(source.text, FlattenSeq(source.tables[k])).found

ReadPdf ==
  /\ Reading("pdf")
  /\ \E source \in PdfSource :
       LET joined == JoinedPages(source)
       IN  IF \/ \A i \in DOMAIN source : source[i].text = <<>>
              \/ \E i \in DOMAIN source : ~PageIsAligned(source[i])
           THEN Refuse
           ELSE Construct(
             [text |-> joined.a.text, pages |-> joined.pages, map |-> joined.a.map,
              layout |-> FlattenSeq([i \in DOMAIN source |->
                           WordSpans(source[i], i, joined.pages[i])]),
              tables |-> FlattenSeq([i \in DOMAIN source |->
                           [k \in DOMAIN source[i].tables |->
                              PdfTable(source[i], i, joined.pages[i], k)]])])

-----------------------------------------------------------------------------
(* extract_email_document *)

(* _select_body_part: the first plain alternative, else the first in HTML; *)
(* a nested part is noticed when it comes before a plain one.              *)
BodyType(m) ==
  LET decisive == SelectSeq(m.parts, LAMBDA p : p \in {"plain", "nested"})
  IN  CASE m.structure = "single"      -> m.parts[1]
        [] m.structure = "mixed"       -> "unsupported"
        [] decisive # <<>>             -> IF decisive[1] = "plain" THEN "plain" ELSE "unsupported"
        [] "html" \in ToSet(m.parts)   -> "html"
        [] OTHER                       -> "unsupported"

(* _normalize_plain_body: no blanks at the ends of lines and of the text.   *)
PlainBody(text) ==
  LET words == {i \in DOMAIN text : text[i] \notin Blank}
      endsLine(i) == \E j \in i .. Len(text) :
                       text[j] = NewLine /\ \A k \in i .. j - 1 : text[k] = Space
      kept == {i \in DOMAIN text :
                 /\ \E j \in words : j <= i
                 /\ \E j \in words : j >= i
                 /\ text[i] = Space => ~endsLine(i)}
  IN  LettersAt(text, kept)

HeaderLabel == <<CHOOSE l \in Plain : TRUE, Space>>

(* _append_headers: label, value and separator of each.                    *)
AddHeader(a, i, value, separator) ==
  LET labelled == AddSegment(a, HeaderLabel, <<"header-label", i>>, "generated")
      valued == AddSegment(labelled, value, <<"header-value", i>>, "unmapped")
  IN  AddSegment(valued, separator, <<"header-separator", i>>, "generated")

WithHeaders(values) ==
  LET added[n \in 0 .. Len(values)] ==
        IF n = 0 THEN Empty
        ELSE AddHeader(added[n - 1], n, values[n],
                       IF n = Len(values) THEN <<NewLine, NewLine>> ELSE <<NewLine>>)
  IN  added[Len(values)]

ReadMessage ==
  /\ format = "email" /\ phase = "message"
  /\ \E m \in Message :
       CASE m.attached \/ BodyType(m) \notin {"plain", "html"} -> Refuse
         [] ~m.attached /\ BodyType(m) = "plain" ->
              IF PlainBody(m.body) = <<>> THEN Refuse
              ELSE Construct(OnePage(AddSegment(WithHeaders(m.headers), PlainBody(m.body),
                                                <<"body">>, "unmapped")))
         [] ~m.attached /\ BodyType(m) = "html" ->
              /\ phase' = "reading"
              /\ headers' = WithHeaders(m.headers)
              /\ UNCHANGED <<parser, assembly, format, document>>

(* import_result, _shift_layout_spans and _shift_table_spans               *)
CharsOnly(range, h) == Shift(range, h.char, h.char)  \* variant: bytes by characters
Moved(range, h) == Shift(range, h.char, h.byte)

Imported(h, a) ==
  LET ranged(s) == [s EXCEPT !.range = Moved(@, h)]
      apart(s) == [ranged(s) EXCEPT !.id = <<"email-body", @>>]
  IN  [text |-> h.text \o a.text,
       map |-> h.map \o [i \in DOMAIN a.map |-> apart(a.map[i])],
       char |-> h.char + Len(a.text), byte |-> h.byte + ByteLen(a.text),
       layout |-> [i \in DOMAIN a.layout |-> apart(a.layout[i])],
       tables |-> [i \in DOMAIN a.tables |->
         [apart(a.tables[i]) EXCEPT !.cells = [c \in DOMAIN @ |-> ranged(@[c])]]]]

EndOfEmail ==
  /\ Reading("email")
  /\ IF assembly.text = <<>> THEN Refuse ELSE Construct(OnePage(Imported(headers, assembly)))

-----------------------------------------------------------------------------
IngestionStep ==
  \/ ReadPlain
  \/ ParseHtml \/ RefuseTable \/ EndOfHtml
  \/ ReadParagraph \/ ReadTable \/ EndOfDocx
  \/ ReadPdf
  \/ ReadMessage \/ EndOfEmail
=============================================================================
