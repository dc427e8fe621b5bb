----------------------------- MODULE HtmlParser -----------------------------
(***************************************************************************)
(* _HtmlBoundaryParser: the callbacks of html.parser.HTMLParser on any     *)
(* sequence of tags and data, as HTML lets end tags be left out and pages  *)
(* nest tables.  Inside of script and style the library reports data only. *)
(*                                                                         *)
(* Bounds: MaxHeard letters of data, MaxCells cells and MaxTables tables.  *)
(***************************************************************************)
EXTENDS TextAssembly

CONSTANTS
  BlockTag,  \* h1..h6, p and li
  RoleOf,    \* the layout role of each
  Data,      \* the texts between tags
  MaxHeard, MaxCells, MaxTables

VARIABLES
  assembly,  \* the assembler, the layout spans and the tables
  ignoring,  \* _ignored_depth > 0
  inTitle,   \* _in_title
  block,     \* _current_block_tag
  parts,     \* _current_block_parts
  stack,     \* _table_stack: the rows of the open tables
  row,       \* _current_row
  cell,      \* _current_cell_parts
  heard      \* how many letters of data, for MaxHeard

parser == <<ignoring, inTitle, block, parts, stack, row, cell, heard>>

Closed == "closed"
NoCell == <<Closed>>
NoRow == <<NoCell>>

ParserInit ==
  /\ assembly = Empty
  /\ ignoring = FALSE /\ inTitle = FALSE
  /\ block = Closed /\ parts = <<>>
  /\ stack = <<>> /\ row = NoRow /\ cell = NoCell
  /\ heard = 0

InTable == stack # <<>>
Rows(a) == FlattenSeq([i \in DOMAIN a.tables |-> a.tables[i].cells])
CellCount == Len(Rows(assembly)) + Len(FlattenSeq(FlattenSeq(stack))) + Len(row)

(* _flush_open_block: a block without text leaves no trace.                *)
Flushed ==
  IF block = Closed \/ Normalized(parts) = <<>> THEN assembly
  ELSE AddBlock(assembly, Normalized(parts), RoleOf[block])

FlushOpenBlock ==
  /\ assembly' = Flushed
  /\ block' = Closed /\ parts' = <<>>

-----------------------------------------------------------------------------
(* handle_starttag *)

OpenIgnored ==
  /\ ~ignoring /\ ignoring' = TRUE
  /\ UNCHANGED <<assembly, inTitle, block, parts, stack, row, cell, heard>>

OpenTitle ==
  /\ ~ignoring /\ inTitle' = TRUE
  /\ UNCHANGED <<assembly, ignoring, block, parts, stack, row, cell, heard>>

OpenTable ==
  /\ ~ignoring /\ Len(stack) + Len(assembly.tables) < MaxTables
  /\ FlushOpenBlock
  /\ stack' = Append(stack, <<>>)
  /\ UNCHANGED <<ignoring, inTitle, row, cell, heard>>

OpenRow ==
  /\ ~ignoring /\ InTable
  /\ row' = <<>>
  /\ UNCHANGED <<assembly, ignoring, inTitle, block, parts, stack, cell, heard>>

OpenCell ==
  /\ ~ignoring /\ InTable /\ CellCount < MaxCells
  /\ cell' = <<>>
  /\ UNCHANGED <<assembly, ignoring, inTitle, block, parts, stack, row, heard>>

(* A block that is still open ends where the next one starts.              *)
OpenBlock(tag) ==
  /\ ~ignoring
  /\ assembly' = Flushed
  /\ block' = tag /\ parts' = <<>>
  /\ UNCHANGED <<ignoring, inTitle, stack, row, cell, heard>>

-----------------------------------------------------------------------------
(* handle_endtag *)

CloseIgnored ==
  /\ ignoring /\ ignoring' = FALSE
  /\ UNCHANGED <<assembly, inTitle, block, parts, stack, row, cell, heard>>

CloseTitle ==
  /\ ~ignoring /\ inTitle' = FALSE
  /\ UNCHANGED <<assembly, ignoring, block, parts, stack, row, cell, heard>>

(* _close_table_cell: a cell outside of a row stays open.                  *)
CloseCell ==
  /\ ~ignoring /\ InTable /\ cell # NoCell /\ row # NoRow
  /\ row' = Append(row, Normalized(cell))
  /\ cell' = NoCell
  /\ UNCHANGED <<assembly, ignoring, inTitle, block, parts, stack, heard>>

CloseRow ==
  /\ ~ignoring /\ InTable /\ row # NoRow
  /\ stack' = IF row = <<>> THEN stack
              ELSE [stack EXCEPT ![Len(stack)] = Append(@, row)]
  /\ row' = NoRow
  /\ UNCHANGED <<assembly, ignoring, inTitle, block, parts, cell, heard>>

(* _append_table of the rows of the innermost table.                       *)
CloseTable ==
  /\ ~ignoring /\ InTable
  /\ ~HasEmptyCell(Last(stack))
  /\ assembly' = IF Last(stack) = <<>> THEN assembly
                 ELSE AddRows(AddSeparator(assembly), Last(stack))
  /\ stack' = Front(stack)
  /\ UNCHANGED <<ignoring, inTitle, block, parts, row, cell, heard>>

CloseBlock(tag) ==
  /\ ~ignoring /\ tag = block
  /\ FlushOpenBlock
  /\ UNCHANGED <<ignoring, inTitle, stack, row, cell, heard>>

-----------------------------------------------------------------------------
(* handle_data: what is in no cell and no block goes nowhere.              *)

HandleData(text) ==
  /\ heard < MaxHeard
  /\ ~ignoring /\ ~inTitle
  /\ heard' = heard + Len(text)
  /\ CASE cell # NoCell  -> cell' = cell \o text /\ UNCHANGED parts
       [] cell = NoCell /\ block # Closed -> parts' = parts \o text /\ UNCHANGED cell
       [] OTHER          -> UNCHANGED <<cell, parts>>
  /\ UNCHANGED <<assembly, ignoring, inTitle, block, stack, row>>

ParserStep ==
  \/ OpenIgnored \/ OpenTitle \/ OpenTable \/ OpenRow \/ OpenCell
  \/ CloseIgnored \/ CloseTitle \/ CloseCell \/ CloseRow \/ CloseTable
  \/ \E tag \in BlockTag : OpenBlock(tag) \/ CloseBlock(tag)
  \/ \E text \in Data : HandleData(text)

(* The exception of a table with a cell without text.                      *)
TableIsRefused == ~ignoring /\ InTable /\ HasEmptyCell(Last(stack))
=============================================================================
