----------------------------- MODULE SourceText -----------------------------
(***************************************************************************)
(* The texts a candidate is about and how the code compares them: finding  *)
(* a value in a chunk (executor/text_utils.py) and deciding whether a span *)
(* supports a value (source_support.py).                                   *)
(*                                                                         *)
(* A text is a sequence of atoms, words and separators; an atom counts for *)
(* one character and for one or two bytes.  The lexicon below has one word *)
(* of every kind the code tells apart; positions count from 0, as in the   *)
(* code.                                                                   *)
(***************************************************************************)
EXTENDS Integers, FiniteSets, Sequences, SequencesExt

Space == "space"
NewLine == "newline"
Hash == "#"
Stop == "."
Blank == {Space, NewLine}

WidthOf(atom) == IF atom = "half" THEN 2 ELSE 1
FoldOf(atom) == IF atom = "Began" THEN "began" ELSE atom
IsLower(atom) == atom \in {"began", "commenced", "about", "with", "under", "target"}
HasToken(atom) == atom \notin Blank \cup {Hash, Stop, "half"}

(* _canonical_token: the inflections of a word share a stem.               *)
StemOf(atom) == IF FoldOf(atom) \in {"began", "commenced"} THEN "commenc" ELSE FoldOf(atom)

ByteLen(text) == Len(text) + Cardinality({i \in DOMAIN text : WidthOf(text[i]) = 2})
Slice(text, start, end) == SubSeq(text, start + 1, end)
Fold(text) == [i \in DOMAIN text |-> FoldOf(text[i])]

(* The bytes of a text, each with its place, and those between two places. *)
Bytes(text) ==
  {<<ByteLen(Slice(text, 0, p[1] - 1)) + p[2], text[p[1]], p[2]>> :
     p \in {q \in (DOMAIN text) \X {1, 2} : q[2] <= WidthOf(text[q[1]])}}
ByteSlice(text, start, end) ==
  {<<byte[1] - start, byte[2], byte[3]>> :
     byte \in {b \in Bytes(text) : start < b[1] /\ b[1] <= end}}

IsBlank(text) == ToSet(text) \subseteq Blank

Words(text) == {i \in DOMAIN text : text[i] \notin Blank}
Stripped(text) ==
  IF IsBlank(text) THEN <<>> ELSE SubSeq(text, Min(Words(text)), Max(Words(text)))

-----------------------------------------------------------------------------
(* normalize_whitespace_with_mapping: a run of blanks becomes one space at *)
(* the place of its first blank, none at either end.                       *)
KeptPositions(text) ==
  LET words == Words(text)
  IN  {i \in DOMAIN text : i \in words \/ (i - 1 \in words /\ \E w \in words : w > i)}
Kth(positions, k) ==
  CHOOSE i \in positions : Cardinality({j \in positions : j <= i}) = k
Collapsed(text) ==
  LET kept == KeptPositions(text)
  IN  [k \in 1..Cardinality(kept) |->
         IF text[Kth(kept, k)] \in Blank THEN Space ELSE text[Kth(kept, k)]]

ExactMatches(text, source) ==
  {i \in 0..(Len(text) - Len(source)) : Slice(text, i, i + Len(source)) = source}
OccursIn(text, source) == ExactMatches(text, source) # {}

(* re.finditer returns no match that overlaps one it has returned before.  *)
CaseInsensitiveMatches(text, source) ==
  LET found == ExactMatches(Fold(text), Fold(source))
      isOverlapped(taken, i) == \E j \in taken : j < i /\ i < j + Len(source)
  IN  CHOOSE taken \in SUBSET found : taken = {i \in found : ~isOverlapped(taken, i)}

(* The stretches from a word to a word that collapse to what the value     *)
(* collapses to.                                                           *)
WhitespaceMatches(text, source) ==
  IF IsBlank(source) \/ ToSet(source) \cap Blank = {} THEN {}
  ELSE {s \in {<<w[1] - 1, w[2]>> : w \in Words(text) \X Words(text)} :
          s[1] < s[2] /\ Collapsed(Slice(text, s[1], s[2])) = Collapsed(source)}

WithLength(starts, length) == {<<i, i + length>> : i \in starts}

ExactSpans(text, source) == WithLength(ExactMatches(text, source), Len(source))

FirstFound(ways) ==
  LET successful == {k \in DOMAIN ways : ways[k] # {}}
  IN  IF successful = {} THEN {} ELSE ways[Min(successful)]

(* find_value_matches: the first way of looking that finds something.      *)
ValueMatches(text, value) ==
  FirstFound(<<ExactSpans(text, value),
               IF IsBlank(value) THEN {} ELSE ExactSpans(text, Stripped(value)),
               WithLength(CaseInsensitiveMatches(text, value), Len(value)),
               WhitespaceMatches(text, value)>>)

StartsInHeading(text, start) ==
  LET breaks == {i \in 1..start : text[i] = NewLine}
      line == Slice(text, IF breaks = {} THEN 0 ELSE Max(breaks), start)
  IN  ~IsBlank(line) /\ line[Min(Words(line))] = Hash

-----------------------------------------------------------------------------
(* A span contains a value up to case and whitespace.                      *)
ContainsLoosely(source, value) == OccursIn(Fold(Collapsed(source)), Fold(Collapsed(value)))

(* _source_supports_value of the resolution.                               *)
HoldsValue(source, value) ==
  \/ OccursIn(source, value)
  \/ OccursIn(source, Stripped(value))
  \/ ContainsLoosely(source, value)

Stems(text) == {StemOf(text[i]) : i \in {j \in DOMAIN text : HasToken(text[j])}}

(* value_is_source_supported: contained, or made of words of the source;   *)
(* source_traced_label_value asks the same of a label.                     *)
Supports(source, value) ==
  \/ ContainsLoosely(source, value)
  \/ Stems(value) # {} /\ Stems(value) \subseteq Stems(source)

-----------------------------------------------------------------------------
(* sentence_spans: a sentence ends at a full stop that blanks and no lower *)
(* case word follow, or at an empty line; headings are no sentences.       *)
EndsSentence(text, i) ==
  LET rest == SubSeq(text, i + 1, Len(text))
  IN  \/ /\ text[i] = Stop
         /\ rest = <<>> \/ rest[1] \in Blank
         /\ IsBlank(rest) \/ ~IsLower(Stripped(rest)[1])
      \/ /\ text[i] = NewLine
         /\ rest # <<>> /\ rest[1] = NewLine

SentenceSpans(text) ==
  LET ends == {i \in DOMAIN text : EndsSentence(text, i)} \cup {Len(text)}
      from(e) == Max({0} \cup {i \in ends : i < e})
      trimmed(e) == {w \in Words(text) : from(e) < w /\ w <= e}
  IN  {<<Min(trimmed(e)) - 1, Max(trimmed(e))>> :
         e \in {i \in ends : /\ trimmed(i) # {}
                             /\ text[Min(trimmed(i))] # Hash
                             /\ \E w \in trimmed(i) : HasToken(text[w]) \/ text[w] = "half"}}
=============================================================================
