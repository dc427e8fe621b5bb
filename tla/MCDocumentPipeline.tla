------------------------- MODULE MCDocumentPipeline -------------------------
(***************************************************************************)
(* Letters "a" and "b" of one byte and "e" of two; pages of headings,      *)
(* paragraphs and tables; PDF pages with and without words and tables,     *)
(* some with tables whose cells occur twice, one with a table that has no  *)
(* cell; emails of each structure.  Windows of two and three tokens.       *)
(***************************************************************************)
EXTENDS DocumentPipeline

A == <<"a">>
E == <<"e">>
MCPlain == {"a", "b"}
MCWide == {"e"}
MCBlockTag == {"h1", "p"}
MCRoleOf == [t \in MCBlockTag |-> IF t = "h1" THEN "heading" ELSE "paragraph"]
MCData == {A, <<Space, "e", Space, Space>>, <<NewLine>>}

MCPlainText == {<<>>, E, <<"a", Space, "e", "b">>, <<"e", "e", Space, "a", NewLine, "b">>}
MCParagraph == {<<>>, E, <<"a", Stop, Space, "e">>, <<"e", "a", "b">>}
MCDocxTable == {<<>>, << <<>> >>, << <<A, E>>, <<E>> >>, << <<A, <<>> >> >>}

PdfPage(text, words, tables) == [text |-> text, words |-> words, tables |-> tables]
Words == <<A, <<"b">>, A>>
Line == <<"a", Space, "b", Space, "a">>
MCPdfSource ==
  {<<PdfPage(<<>>, <<>>, <<>>)>>,
   <<PdfPage(Line, Words, <<>>)>>,
   <<PdfPage(Line, Words, << << <<A>> >> >>)>>,
   <<PdfPage(Line, Words, << << <<>> >> >>)>>,
   <<PdfPage(Line, Words, << << << <<"b">>, A >> >> >>)>>,
   <<PdfPage(Line, Words, << << <<A, A>> >>, << << <<"b">> >> >> >>)>>,
   <<PdfPage(Line, Words, << << << <<"b">> >> >> >>)>>,
   <<PdfPage(Line, Words, << << <<A, A>> >>, << <<A>> >> >>)>>,
   <<PdfPage(<<"a", Space, "b">>, <<A>>, << << <<A>> >> >>)>>,
   <<PdfPage(Line, <<A, A, <<"b">> >>, <<>>)>>,
   <<PdfPage(<<"e", "a">>, <<E, A>>, << << <<A>> >> >>)>>,
   <<PdfPage(E, <<E>>, <<>>), PdfPage(<<>>, <<>>, <<>>)>>,
   <<PdfPage(E, <<E>>, <<>>), PdfPage(Line, Words, <<>>)>>}

Mail(attached, structure, sections, values, body) ==
  [attached |-> attached, structure |-> structure, parts |-> sections,
   headers |-> values, body |-> body]
MCMessage ==
  {Mail(TRUE, "mixed", <<"plain">>, <<>>, A),
   Mail(FALSE, "single", <<"plain">>, <<E, A>>, <<Space, "e", Space, NewLine, "a">>),
   Mail(FALSE, "single", <<"plain">>, <<>>, <<Space>>),
   Mail(FALSE, "single", <<"html">>, <<E>>, <<>>),
   Mail(FALSE, "alternative", <<"html", "plain", "nested">>, <<A>>, E),
   Mail(FALSE, "alternative", <<"html", "nested">>, <<A>>, E)}

MCConfig ==
  [mode : {"token_window"}, window : {2, 3}, overlap : {0, 1}, oversized : {TRUE}]
  \cup [mode : {"layout_aware"}, window : {2, 3}, overlap : {0}, oversized : BOOLEAN]
=============================================================================
