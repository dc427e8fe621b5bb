--------------------------- MODULE LayoutPacking ---------------------------
(***************************************************************************)
(* pack_boundary_aware_chunks: the layout of a document cut into blocks    *)
(* that cover its text, and the blocks packed into chunks of at most a     *)
(* window of tokens.  The encoding is the tokenizer's: a token for each    *)
(* byte, where a blank is one with the letter after it.                    *)
(***************************************************************************)
EXTENDS TextAssembly

(* 2i is the end of letter i, 2i - 1 lies inside of it.                    *)
TokenEnds(text) ==
  {2 * i : i \in {j \in DOMAIN text : ~(/\ text[j] = Space /\ j < Len(text)
                                        /\ text[j + 1] \notin Blank)}}
  \cup {2 * i - 1 : i \in {j \in DOMAIN text : text[j] \in Wide}}

Tokens(d, first, end) == Cardinality(TokenEnds(Slice(d.text, first, end)))

-----------------------------------------------------------------------------
(* collect_chunk_boundaries *)

PagesAreContiguous(d) ==
  /\ \A i \in DOMAIN d.pages :
       /\ d.pages[i].sc = IF i = 1 THEN 0 ELSE d.pages[i - 1].ec
       /\ d.pages[i].sb = IF i = 1 THEN 0 ELSE d.pages[i - 1].eb
  /\ Last(d.pages).ec = Len(d.text) /\ Last(d.pages).eb = ByteLen(d.text)

IsWithinPage(range, page) ==
  /\ page.sc <= range.sc /\ range.ec <= page.ec
  /\ page.sb <= range.sb /\ range.eb <= page.eb

BoundariesHold(d) ==
  /\ PagesAreContiguous(d)
  /\ \A s \in ToSet(d.layout) \cup ToSet(d.tables) : IsWithinPage(s.range, d.pages[s.page])

-----------------------------------------------------------------------------
(* _collect_blocks *)

Block(first, end, kind, id) == [start |-> first, end |-> end, kind |-> kind, id |-> id]
Mixed(first, end) == Block(first, end, "mixed", <<>>)

Blocks(d) ==
  LET tables == {Block(t.range.sc, t.range.ec, "table", t.id) : t \in ToSet(d.tables)}
      flow == {s \in ToSet(d.layout) :
                 /\ s.role \in {"heading", "paragraph", "list_item"}
                 /\ ~\E t \in tables : t.start <= s.range.sc /\ s.range.ec <= t.end}
      spans == {Block(s.range.sc, s.range.ec,
                      IF s.role = "heading" THEN "section" ELSE s.role, s.id) : s \in flow}
  IN  tables \cup spans

(* Of two that begin together the code sorts one before the other and      *)
(* then refuses them, like all that overlap.                               *)
BlocksOverlap(blocks) ==
  \E a, b \in blocks : a # b /\ a.start <= b.start /\ b.start < a.end

(* The elements of a set of positions in their order.                      *)
InOrder(positions) ==
  [k \in 1 .. Cardinality(positions) |->
     CHOOSE p \in positions : Cardinality({q \in positions : q <= p}) = k]

Sorted(blocks) ==
  LET starts == InOrder({b.start : b \in blocks})
  IN  [k \in DOMAIN starts |-> CHOOSE b \in blocks : b.start = starts[k]]

(* _with_gap_blocks: a blank gap goes to the block before it.              *)
GapsDropped(d, filled, first, end) == filled  \* variant: text of no span is left out

FillGap(d, filled, first, end) ==
  LET gap == Slice(d.text, first, end)
  IN  CASE gap = <<>> -> filled
        [] gap # <<>> /\ filled # <<>> /\ ToSet(gap) \subseteq Blank ->
             [filled EXCEPT ![Len(filled)].end = end]
        [] OTHER -> Append(filled, Mixed(first, end))

WithBlock(d, acc, b) ==
  [cursor |-> b.end,
   filled |-> Append(FillGap(d, acc.filled, acc.cursor, b.start), b)]

WithGapBlocks(d, blocks) ==
  LET sorted == Sorted(blocks)
      added[n \in 0 .. Len(sorted)] ==
        IF n = 0 THEN [cursor |-> 0, filled |-> <<>>]
        ELSE WithBlock(d, added[n - 1], sorted[n])
      between == added[Len(sorted)]
  IN  IF between.cursor < Len(d.text)
      THEN Append(between.filled, Mixed(between.cursor, Len(d.text)))
      ELSE between.filled

-----------------------------------------------------------------------------
(* The chunks of blocks, and of parts of a block that is too large. *)

Packed(first, end, kind, ids, reason) ==
  [start |-> first, end |-> end, kind |-> kind, ids |-> ids, reason |-> reason]

PackBlocks(blocks) ==
  LET kinds == {b.kind : b \in ToSet(blocks)} \ {"mixed"}
      kind == CASE "section" \in kinds -> "section"
                [] kinds \in {{"paragraph"}, {"list_item"}} -> CHOOSE k \in kinds : TRUE
                [] OTHER -> "mixed"
  IN  Packed(blocks[1].start, Last(blocks).end, kind,
             {b.id : b \in ToSet(blocks)} \ {<<>>}, "boundary")

PackSlice(block, first, end, reason) ==
  Packed(first, end, IF reason = "boundary" THEN block.kind ELSE "overflow",
         {block.id} \ {<<>>}, reason)

(* _split_by_character_window: as far as no start of the slice is too long *)
Best(d, window, p, end) ==
  Max({p + 1} \cup {q \in p + 1 .. end : \A r \in p + 1 .. q : Tokens(d, p, r) <= window})

CutOnce(d, window, block, end, acc) ==
  LET best == Best(d, window, acc.start, end)
  IN  IF acc.start = end THEN acc
      ELSE [start |-> best,
            chunks |-> Append(acc.chunks, PackSlice(block, acc.start, best, "oversized_sentence"))]

SplitByWindow(d, window, block, first, end) ==
  LET cut[n \in 0 .. end - first] ==
        IF n = 0 THEN [start |-> first, chunks |-> <<>>]
        ELSE CutOnce(d, window, block, end, cut[n - 1])
  IN  cut[end - first].chunks

SentenceEnds(d, block) ==
  {block.end} \cup
    {i \in block.start + 1 .. block.end :
       d.text[i] = Stop /\ (i = block.end \/ d.text[i + 1] \in Blank)}

TooLong(d, window, first, end) == Tokens(d, first, end) > window

(* _split_oversized_text_block: sentences together while they fit.         *)
Held(block, acc) ==
  IF acc.end > acc.start
  THEN Append(acc.chunks, PackSlice(block, acc.start, acc.end, "boundary"))
  ELSE acc.chunks

AddSentence(d, window, block, acc, end) ==
  CASE TooLong(d, window, acc.end, end) ->
         [start |-> end, end |-> end,
          chunks |-> Held(block, acc) \o SplitByWindow(d, window, block, acc.end, end)]
    [] ~TooLong(d, window, acc.end, end) /\ TooLong(d, window, acc.start, end) ->
         [start |-> acc.end, end |-> end, chunks |-> Held(block, acc)]
    [] OTHER -> [acc EXCEPT !.end = end]

SplitOversized(d, window, block) ==
  LET ends == InOrder(SentenceEnds(d, block))
      added[n \in 0 .. Len(ends)] ==
        IF n = 0 THEN [start |-> block.start, end |-> block.start, chunks |-> <<>>]
        ELSE AddSentence(d, window, block, added[n - 1], ends[n])
  IN  Held(block, added[Len(ends)])

PackTable(d, window, block) ==
  Packed(block.start, block.end, "table", {block.id},
         IF TooLong(d, window, block.start, block.end)
         THEN "atomic_table_overflow" ELSE "boundary")

-----------------------------------------------------------------------------
(* pack_boundary_aware_chunks *)

Flush(acc) ==
  IF acc.current = <<>> THEN acc
  ELSE [chunks |-> Append(acc.chunks, PackBlocks(acc.current)), current |-> <<>>]

BlockIsTooLong(d, window, current, block) ==  \* variant: only the new block is counted
  TooLong(d, window, block.start, block.end)

Outgrown(d, window, current, block) ==
  current # <<>> /\ TooLong(d, window, current[1].start, block.end)

PackBlock(d, window, acc, block) ==
  CASE block.kind = "table" ->
         [Flush(acc) EXCEPT !.chunks = Append(@, PackTable(d, window, block))]
    [] block.kind # "table" /\ TooLong(d, window, block.start, block.end) ->
         [Flush(acc) EXCEPT !.chunks = @ \o SplitOversized(d, window, block)]
    [] OTHER ->
         LET before == IF block.kind = "section" \/ Outgrown(d, window, acc.current, block)
                       THEN Flush(acc) ELSE acc
         IN  [before EXCEPT !.current = Append(@, block)]

Chunks(d, window) ==
  LET blocks == WithGapBlocks(d, Blocks(d))
      packed[n \in 0 .. Len(blocks)] ==
        IF n = 0 THEN [chunks |-> <<>>, current |-> <<>>]
        ELSE PackBlock(d, window, packed[n - 1], blocks[n])
  IN  Flush(packed[Len(blocks)]).chunks

TablesAreTooLong(d, window) ==
  \E b \in ToSet(WithGapBlocks(d, Blocks(d))) :
    b.kind = "table" /\ TooLong(d, window, b.start, b.end)

(* _build_chunk_from_packed counts tokens from the start of the text.      *)
Advances(d, chunk) == Tokens(d, 0, chunk.start) < Tokens(d, 0, chunk.end)

CanPack(d, config) ==
  /\ BoundariesHold(d)
  /\ ~BlocksOverlap(Blocks(d))
  /\ config.oversized \/ ~TablesAreTooLong(d, config.window)
  /\ \A c \in ToSet(Chunks(d, config.window)) : Advances(d, c)

(* _attach_layout_hierarchy: the last section chunk before it that has a   *)
(* line to name the section by, or 0.                                      *)
HasContent(d, first, end) == ~(ToSet(Slice(d.text, first, end)) \subseteq Blank)
LeadsSection(d, chunk) == chunk.kind = "section" /\ HasContent(d, chunk.start, chunk.end)
AnyParent(d, chunks, k) == IF k = 1 THEN 0 ELSE 1  \* variant: the first chunk of all
ParentOf(d, chunks, k) ==
  LET leaders == {j \in 1 .. k - 1 : LeadsSection(d, chunks[j])}
  IN  IF chunks[k].kind = "section" \/ leaders = {} THEN 0 ELSE Max(leaders)
=============================================================================
