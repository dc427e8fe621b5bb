---------------------------- MODULE TextAssembly ----------------------------
(***************************************************************************)
(* The text of a document as the DOCX, HTML and email adapters put it      *)
(* together: segment by segment, with the source map, the layout spans and *)
(* the tables that refer to it.                                            *)
(*                                                                         *)
(* A text is a sequence of letters; of a letter only its width in UTF-8    *)
(* bytes matters, and whether it is blank or ends a sentence.  A range has *)
(* character and byte offsets.  A span keeps in "of" the text its adapter  *)
(* was given for it, which the code does not store.                        *)
(***************************************************************************)
EXTENDS Sequences, SequencesExt, FiniteSets, Naturals

CONSTANTS
  Plain,  \* letters of one byte
  Wide    \* letters of two bytes

Space == "space"
NewLine == "newline"
Stop == "stop"  \* ends a sentence before a blank
Blank == {Space, NewLine}
Letter == Plain \cup Wide \cup Blank \cup {Stop}
Text == Seq(Letter)

ByteLen(text) == Len(text) + Cardinality({i \in DOMAIN text : text[i] \in Wide})

Slice(text, first, end) == SubSeq(text, first + 1, end)
Shift(range, chars, bytes) ==
  [sc |-> range.sc + chars, ec |-> range.ec + chars,
   sb |-> range.sb + bytes, eb |-> range.eb + bytes]

(* The letters at some places of a text.                                   *)
LettersAt(text, places) ==
  FlattenSeq([i \in DOMAIN text |-> IF i \in places THEN <<text[i]>> ELSE <<>>])

(* str.split and " ".join: blanks at the ends go, runs become one space.   *)
Normalized(text) ==
  LET words == {i \in DOMAIN text : text[i] \notin Blank}
      kept == {i \in DOMAIN text :
                 \/ i \in words
                 \/ i + 1 \in words /\ \E j \in words : j < i}
      spaced == [i \in DOMAIN text |-> IF text[i] \in Blank THEN Space ELSE text[i]]
  IN  LettersAt(spaced, kept)

-----------------------------------------------------------------------------
(* _TextAssembler *)

Empty == [text |-> <<>>, map |-> <<>>, char |-> 0, byte |-> 0,
          layout |-> <<>>, tables |-> <<>>]

AddSegment(a, text, id, kind) ==
  LET range == [sc |-> a.char, ec |-> a.char + Len(text),
                sb |-> a.byte, eb |-> a.byte + ByteLen(text)]
  IN  [a EXCEPT !.text = @ \o text,
                !.map = Append(@, [id |-> id, kind |-> kind, range |-> range]),
                !.char = range.ec, !.byte = range.eb]

(* block_index: the paragraphs and tables so far.                          *)
ParagraphIndex(a) ==  \* variant: the tables are not counted
  Cardinality({k \in DOMAIN a.layout : a.layout[k].role \notin {"table", "table_cell"}})
BlockIndex(a) == Cardinality({k \in DOMAIN a.layout : a.layout[k].role # "table_cell"})

AddSeparator(a) ==
  IF a.map = <<>> THEN a
  ELSE AddSegment(a, <<NewLine>>, <<"separator", BlockIndex(a)>>, "generated")

Span(id, page, role, range, of) ==
  [id |-> id, page |-> page, role |-> role, range |-> range, of |-> of]

AddBlock(a, text, role) ==
  LET index == BlockIndex(a)
      b == AddSegment(AddSeparator(a), text, <<"block", index>>, "unmapped")
  IN  [b EXCEPT !.layout =
         Append(@, Span(<<"block", index>>, 1, role, Last(b.map).range, text))]

-----------------------------------------------------------------------------
(* append_html_table_rows, _append_table of the DOCX adapter *)

HasEmptyCell(rows) == \E i \in DOMAIN rows : \E j \in DOMAIN rows[i] : rows[i][j] = <<>>

JoinedRow(row) == Tail(FlattenSeq([j \in DOMAIN row |-> <<Space>> \o row[j]]))

AddRow(a, table, index, row) ==
  LET separated ==
        IF index = 1 THEN a
        ELSE AddSegment(a, <<NewLine>>, <<"row-separator", table, index>>, "generated")
  IN  AddSegment(separated, JoinedRow(row), <<"row", table, index>>, "unmapped")

(* The ranges of the cells of a row, counted inside of its text.           *)
CellsOf(row, index, range) ==
  LET start[j \in 1 .. Len(row) + 1] ==
        IF j = 1 THEN 0 ELSE start[j - 1] + Len(row[j - 1]) + 1
      bytes(n) == ByteLen(SubSeq(JoinedRow(row), 1, n))
  IN  [j \in DOMAIN row |->
         [row |-> index, column |-> j, of |-> row[j],
          range |-> [sc |-> range.sc + start[j],
                     ec |-> range.sc + start[j] + Len(row[j]),
                     sb |-> range.sb + bytes(start[j]),
                     eb |-> range.sb + bytes(start[j] + Len(row[j]))]]]

TableSpan(table, range, cells) ==
  [id |-> <<"table", table>>, page |-> 1, range |-> range, cells |-> cells]

TableLayout(table, range, text, cells) ==
  <<Span(<<"table", table>>, 1, "table", range, text)>>
    \o [k \in DOMAIN cells |->
          Span(<<"cell", table, cells[k].row, cells[k].column>>, 1, "table_cell",
               cells[k].range, cells[k].of)]

(* The assembler after so many of the rows.                                *)
WithRows(a, rows) ==
  LET added[n \in 0 .. Len(rows)] ==
        IF n = 0 THEN a ELSE AddRow(added[n - 1], Len(a.tables), n, rows[n])
  IN  added

AddRows(a, rows) ==
  LET table == Len(a.tables)
      after == WithRows(a, rows)
      filled == after[Len(rows)]
      cells == FlattenSeq([n \in DOMAIN rows |->
                             CellsOf(rows[n], n, Last(after[n].map).range)])
      range == [sc |-> a.char, ec |-> filled.char, sb |-> a.byte, eb |-> filled.byte]
      text == Slice(filled.text, range.sc, range.ec)
  IN  [filled EXCEPT
         !.tables = Append(@, TableSpan(table, range, cells)),
         !.layout = @ \o TableLayout(table, range, text, cells)]
=============================================================================
