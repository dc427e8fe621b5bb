-------------------------- MODULE TextSpans_proofs --------------------------
(***************************************************************************)
(* Places in a text: the span of a candidate on its way from the claim of  *)
(* the model to the verifier, for any chunks, payloads and corrections     *)
(* (CandidateEvidence), and the windows that a text is cut into, for every *)
(* window and overlap (TokenWindows).                                      *)
(***************************************************************************)
EXTENDS CandidateEvidence, TokenWindows, FiniteSetTheorems, WellFoundedInduction, TLAPS

-----------------------------------------------------------------------------
(* Positions and slices                                                    *)

(* A set of numbers has a least one: the segments 0 .. x are finite, and   *)
(* the strict subset order on finite sets is well founded.                 *)
LEMMA LeastElement ==
  ASSUME NEW T \in SUBSET Nat, T # {}
  PROVE  \E x \in T : \A y \in T : x <= y
<1> DEFINE Segments == {0 .. x : x \in T}
<1>1. Segments \subseteq FiniteSubsetsOf(Nat)
  <2>1. ASSUME NEW x \in T PROVE IsFiniteSet(0 .. x)
    <3>1. x \in Int /\ 0 \in Int
      OBVIOUS
    <3>2. QED
      BY <3>1, FS_Interval
  <2>2. QED
    BY <2>1 DEF FiniteSubsetsOf
<1>2. Segments # {}
  OBVIOUS
<1>3. \E s \in Segments : \A t \in Segments :
        ~ (<<t, s>> \in StrictSubsetOrdering(Nat))
  <2> HIDE DEF Segments
  <2> QED
    BY <1>1, <1>2, FS_StrictSubsetOrderingWellFounded, WFMin
<1>4. PICK x \in T : \A y \in T :
        ~ (<<0 .. y, 0 .. x>> \in StrictSubsetOrdering(Nat))
  BY <1>3
<1>5. ASSUME NEW y \in T, y < x PROVE FALSE
  <2>1. 0 .. y \in SUBSET Nat /\ 0 .. x \in SUBSET Nat
    OBVIOUS
  <2>2. 0 .. y \subseteq 0 .. x /\ x \in 0 .. x /\ x \notin 0 .. y
    BY <1>5
  <2>3. QED
    BY <1>4, <2>1, <2>2 DEF StrictSubsetOrdering
<1>6. QED
  BY <1>5

LEMMA MinIsFirst ==
  ASSUME NEW S \in SUBSET Nat, S # {}
  PROVE  Min(S) \in S /\ \A y \in S : Min(S) <= y
<1>1. \E x \in S : \A y \in S : x <= y
  BY LeastElement
<1>2. QED
  BY <1>1 DEF Min

LEMMA MaxIsLast ==
  ASSUME NEW n \in Nat, NEW S \in SUBSET (0 .. n), S # {}
  PROVE  Max(S) \in S /\ \A y \in S : y <= Max(S)
<1> DEFINE Gaps == {n - x : x \in S}
<1>1. Gaps \in SUBSET Nat /\ Gaps # {}
  <2>1. \A x \in S : x \in 0 .. n
    OBVIOUS
  <2>2. \A x \in S : n - x \in Nat
    BY <2>1
  <2>3. QED
    BY <2>2
<1>2. PICK z \in Gaps : \A y \in Gaps : z <= y
  <2> HIDE DEF Gaps
  <2> QED
    BY <1>1, LeastElement
<1>3. PICK x \in S : z = n - x
  OBVIOUS
<1>4. ASSUME NEW y \in S PROVE x >= y
  <2>1. n - y \in Gaps
    OBVIOUS
  <2>2. n - x <= n - y
    BY <1>2, <1>3, <2>1
  <2>3. QED
    BY <2>2
<1>5. Max(S) \in S /\ \A y \in S : Max(S) >= y
  BY <1>4 DEF Max
<1>6. QED
  BY <1>5

LEMMA SlicesAreTexts ==
  ASSUME NEW t \in Text, NEW a \in Nat, NEW b \in Nat, a <= b, b <= Len(t)
  PROVE  /\ Slice(t, a, b) \in Text
         /\ Len(Slice(t, a, b)) = b - a
         /\ \A k \in 1 .. b - a : Slice(t, a, b)[k] = t[a + k]
<1>1. /\ SubSeq(t, a + 1, b) \in Seq(Atom)
      /\ Len(SubSeq(t, a + 1, b)) = b - a
      /\ \A k \in 1 .. b - a : SubSeq(t, a + 1, b)[k] = t[a + k]
  BY DEF Text
<1>2. QED
  BY <1>1 DEF Slice, Text

LEMMA WordsArePositions ==
  ASSUME NEW t \in Text
  PROVE  /\ Len(t) \in Nat /\ DOMAIN t = 1 .. Len(t)
         /\ Words(t) \in SUBSET (1 .. Len(t)) /\ Words(t) \in SUBSET Nat
         /\ ~IsBlank(t) => Words(t) # {}
BY DEF Text, Words, IsBlank, ToSet

LEMMA StrippedIsText ==
  ASSUME NEW t \in Text
  PROVE  Stripped(t) \in Text
<1>1. CASE IsBlank(t)
  BY <1>1 DEF Stripped, Text
<1>2. CASE ~IsBlank(t)
  <2> DEFINE a == Min(Words(t))
             b == Max(Words(t))
  <2>1. /\ Words(t) # {} /\ Words(t) \in SUBSET (1 .. Len(t)) /\ Len(t) \in Nat
        /\ Words(t) \in SUBSET (0 .. Len(t)) /\ Words(t) \in SUBSET Nat
    BY <1>2, WordsArePositions
  <2>2. a \in Words(t) /\ b \in Words(t) /\ a <= b
    BY <2>1, MinIsFirst, MaxIsLast
  <2>3. a \in 1 .. Len(t) /\ b \in 1 .. Len(t)
    BY <2>1, <2>2
  <2> HIDE DEF a, b
  <2>4. SubSeq(t, a, b) \in Text
    BY <2>1, <2>2, <2>3 DEF Text
  <2>5. QED
    BY <1>2, <2>4 DEF Stripped, a, b
<1>3. QED
  BY <1>1, <1>2

-----------------------------------------------------------------------------
(* Matches of a value                                                      *)

LEMMA FoldedLength ==
  ASSUME NEW t \in Text
  PROVE  DOMAIN Fold(t) = DOMAIN t /\ Len(Fold(t)) = Len(t)
<1>1. Len(t) \in Nat /\ DOMAIN t = 1 .. Len(t)
  BY WordsArePositions
<1>2. DOMAIN Fold(t) = 1 .. Len(t)
  BY <1>1 DEF Fold
<1>3. Len(Fold(t)) = Len(t)
  BY <1>1, <1>2 DEF Fold
<1>4. QED
  BY <1>1, <1>2, <1>3

(* The matches that re.finditer returns are determined from the left.      *)
LEMMA TakenExists ==
  ASSUME NEW n \in Nat, NEW l \in Nat, NEW found \in SUBSET (0 .. n)
  PROVE  \E taken \in SUBSET found :
           taken = {i \in found : ~ \E j \in taken : j < i /\ i < j + l}
<1> DEFINE Free(taken, m) ==
             {i \in found : i < m /\ ~ \E j \in taken : j < i /\ i < j + l}
           Bad == {m \in Nat : ~ \E taken \in SUBSET found : taken = Free(taken, m)}
<1>1. \A i \in found : i \in Nat /\ i <= n
  OBVIOUS
<1>2. Bad = {}
  <2> SUFFICES ASSUME Bad # {} PROVE FALSE
    OBVIOUS
  <2>1. PICK m \in Bad : \A k \in Bad : m <= k
    <3>1. Bad \in SUBSET Nat
      OBVIOUS
    <3> HIDE DEF Bad
    <3>2. QED
      BY <3>1, LeastElement
  <2>2. m \in Nat
    OBVIOUS
  <2>3. m # 0
    <3>1. \A i \in found : ~(i < 0)
      BY <1>1
    <3>2. {} = Free({}, 0)
      BY <3>1
    <3>3. QED
      BY <3>2
  <2>4. m - 1 \in Nat /\ m - 1 \notin Bad
    <3>1. m - 1 \in Nat /\ ~(m <= m - 1)
      BY <2>2, <2>3
    <3> HIDE DEF Bad
    <3>2. QED
      BY <2>1, <3>1
  <2>5. PICK taken \in SUBSET found : taken = Free(taken, m - 1)
    BY <2>4
  <2> DEFINE next == taken \cup {i \in found : /\ i = m - 1
                                             /\ ~ \E j \in taken : j < i /\ i < j + l}
  <2>6. \A i \in taken : i \in Nat /\ i < m - 1
    BY <1>1, <2>5
  <2>7. ASSUME NEW i \in found, i < m
        PROVE  (\E j \in next : j < i /\ i < j + l) <=> (\E j \in taken : j < i /\ i < j + l)
    <3>1. \A j \in next : j \in taken \/ j = m - 1
      OBVIOUS
    <3>2. i \in Nat /\ ~(m - 1 < i)
      BY <1>1, <2>2, <2>7
    <3>3. \A j \in next : j < i => j \in taken
      BY <3>1, <3>2
    <3>4. taken \subseteq next
      OBVIOUS
    <3> HIDE DEF next
    <3>5. QED
      BY <3>3, <3>4
  <2>8. next \in SUBSET found
    OBVIOUS
  <2>9. next = Free(next, m)
    <3>1. ASSUME NEW i \in next PROVE i \in Free(next, m)
      <4>1. i \in found /\ i < m /\ ~ \E j \in taken : j < i /\ i < j + l
        <5>1. CASE i \in taken
          BY <2>2, <2>5, <2>6, <5>1
        <5>2. CASE i \notin taken
          BY <2>2, <5>2
        <5>3. QED
          BY <5>1, <5>2
      <4> HIDE DEF next
      <4>2. QED
        BY <2>7, <4>1
    <3>2. ASSUME NEW i \in Free(next, m) PROVE i \in next
      <4>1. i \in found /\ i < m /\ ~ \E j \in taken : j < i /\ i < j + l
        <5> HIDE DEF next
        <5> QED
          BY <2>7
      <4>2. i < m - 1 \/ i = m - 1
        BY <1>1, <2>2, <4>1
      <4>3. i < m - 1 => i \in taken
        BY <2>5, <4>1
      <4>4. QED
        BY <4>1, <4>2, <4>3
    <3> HIDE DEF next
    <3>3. QED
      BY <3>1, <3>2
  <2>10. m \notin Bad
    <3> HIDE DEF next
    <3> QED
      BY <2>8, <2>9
  <2>11. QED
    BY <2>1, <2>10
<1>3. n + 1 \in Nat /\ n + 1 \notin Bad
  <2> HIDE DEF Bad
  <2> QED
    BY <1>2
<1>4. PICK taken \in SUBSET found : taken = Free(taken, n + 1)
  BY <1>3
<1>5. \A i \in found : i < n + 1
  BY <1>1
<1>6. taken = {i \in found : ~ \E j \in taken : j < i /\ i < j + l}
  BY <1>4, <1>5
<1>7. QED
  BY <1>6

Fits(m, t) ==
  m = <<m[1], m[2]>> /\ m[1] \in Nat /\ m[2] \in Nat /\ m[1] <= m[2] /\ m[2] <= Len(t)

LEMMA PairsFit ==
  ASSUME NEW t \in Text, NEW a \in Nat, NEW b \in Nat, a <= b, b <= Len(t),
         NEW m, m = <<a, b>>
  PROVE  Fits(m, t)
<1>1. m[1] = a /\ m[2] = b
  OBVIOUS
<1>2. m = <<m[1], m[2]>>
  BY <1>1
<1>3. m[1] \in Nat /\ m[2] \in Nat /\ m[1] <= m[2] /\ m[2] <= Len(t)
  BY <1>1
<1>4. QED
  BY <1>2, <1>3, Zenon DEF Fits

LEMMA ExactMatchesFit ==
  ASSUME NEW t \in Text, NEW v \in Text
  PROVE  /\ \A i \in ExactMatches(t, v) : i \in Nat /\ i + Len(v) <= Len(t)
         /\ \A m \in ExactSpans(t, v) : Fits(m, t)
<1>1. Len(t) \in Nat /\ Len(v) \in Nat
  BY WordsArePositions
<1>2. \A i \in ExactMatches(t, v) : i \in Nat /\ i + Len(v) <= Len(t)
  BY <1>1 DEF ExactMatches
<1>3. ASSUME NEW m \in ExactSpans(t, v) PROVE Fits(m, t)
  <2>1. PICK i \in ExactMatches(t, v) : m = <<i, i + Len(v)>>
    BY DEF ExactSpans, WithLength
  <2>2. i \in Nat /\ i + Len(v) \in Nat /\ i <= i + Len(v) /\ i + Len(v) <= Len(t)
    BY <1>1, <1>2, <2>1
  <2>3. QED
    BY <2>1, <2>2, PairsFit
<1>4. QED
  BY <1>2, <1>3

LEMMA CaseInsensitiveMatchesFit ==
  ASSUME NEW t \in Text, NEW v \in Text,
         NEW m \in WithLength(CaseInsensitiveMatches(t, v), Len(v))
  PROVE  /\ Fits(m, t)
         /\ Slice(Fold(t), m[1], m[2]) = Fold(v)
<1> DEFINE found == ExactMatches(Fold(t), Fold(v))
           Left(taken) == {i \in found : ~ \E j \in taken : j < i /\ i < j + Len(v)}
<1>1. Len(t) \in Nat /\ Len(v) \in Nat /\ Len(Fold(t)) = Len(t) /\ Len(Fold(v)) = Len(v)
  BY WordsArePositions, FoldedLength
<1>2. \A i \in found : i \in Nat /\ i + Len(v) <= Len(t)
  BY <1>1 DEF ExactMatches
<1>3. found \in SUBSET (0 .. Len(t))
  <2> HIDE DEF found
  <2>1. \A i \in found : i \in 0 .. Len(t)
    BY <1>1, <1>2
  <2>2. QED
    BY <2>1
<1>4. \E taken \in SUBSET found : taken = Left(taken)
  <2> HIDE DEF found
  <2> QED
    BY <1>1, <1>3, TakenExists, ZenonT(60)
<1>5. CaseInsensitiveMatches(t, v) = CHOOSE taken \in SUBSET found : taken = Left(taken)
  BY DEF CaseInsensitiveMatches
<1>6. CaseInsensitiveMatches(t, v) \in SUBSET found
  <2> HIDE DEF found, Left
  <2> QED
    BY <1>4, <1>5
<1>7. PICK i \in found : m = <<i, i + Len(v)>>
  <2> HIDE DEF found
  <2> QED
    BY <1>6 DEF WithLength
<1>8. i \in Nat /\ i + Len(v) <= Len(t) /\ m[1] = i /\ m[2] = i + Len(v)
  <2> HIDE DEF found
  <2> QED
    BY <1>2, <1>7
<1>9. Slice(Fold(t), i, i + Len(v)) = Fold(v)
  BY <1>1 DEF ExactMatches
<1>10. i + Len(v) \in Nat /\ i <= i + Len(v)
  BY <1>1, <1>8
<1>11. Fits(m, t)
  BY <1>7, <1>8, <1>10, PairsFit
<1>12. Slice(Fold(t), m[1], m[2]) = Fold(v)
  <2> HIDE DEF found
  <2> QED
    BY <1>8, <1>9
<1>13. QED
  BY <1>11, <1>12

LEMMA WhitespaceMatchesFit ==
  ASSUME NEW t \in Text, NEW v \in Text, NEW m \in WhitespaceMatches(t, v)
  PROVE  Fits(m, t)
<1>1. /\ m \in {<<w[1] - 1, w[2]>> : w \in Words(t) \X Words(t)}
      /\ m[1] < m[2]
  BY DEF WhitespaceMatches
<1>2. PICK w \in Words(t) \X Words(t) : m = <<w[1] - 1, w[2]>>
  BY <1>1
<1>3. w[1] \in 1 .. Len(t) /\ w[2] \in 1 .. Len(t) /\ Len(t) \in Nat
  <2>1. w[1] \in Words(t) /\ w[2] \in Words(t)
    BY <1>2
  <2>2. Words(t) \in SUBSET (1 .. Len(t)) /\ Len(t) \in Nat
    BY WordsArePositions
  <2>3. QED
    BY <2>1, <2>2
<1>4. m[1] = w[1] - 1 /\ m[2] = w[2]
  BY <1>2
<1>5. w[1] - 1 \in Nat /\ w[2] \in Nat /\ w[1] - 1 <= w[2] /\ w[2] <= Len(t)
  BY <1>1, <1>3, <1>4
<1>6. QED
  BY <1>2, <1>5, PairsFit

(* Whichever way of looking finds the value, it finds it inside the text.  *)
LEMMA MatchesFit ==
  ASSUME NEW t \in Text, NEW v \in Text
  PROVE  \A m \in ValueMatches(t, v) : Fits(m, t)
<1> DEFINE ways == <<ExactSpans(t, v),
                     IF IsBlank(v) THEN {} ELSE ExactSpans(t, Stripped(v)),
                     WithLength(CaseInsensitiveMatches(t, v), Len(v)),
                     WhitespaceMatches(t, v)>>
           found == {k \in DOMAIN ways : ways[k] # {}}
<1>1. ASSUME NEW k \in DOMAIN ways PROVE \A m \in ways[k] : Fits(m, t)
  <2>1. k = 1 \/ k = 2 \/ k = 3 \/ k = 4
    OBVIOUS
  <2>2. CASE k = 1
    BY <2>2, ExactMatchesFit
  <2>3. CASE k = 2
    BY <2>3, StrippedIsText, ExactMatchesFit
  <2>4. CASE k = 3
    BY <2>4, CaseInsensitiveMatchesFit
  <2>5. CASE k = 4
    BY <2>5, WhitespaceMatchesFit
  <2>6. QED
    BY <2>1, <2>2, <2>3, <2>4, <2>5
<1>2. ValueMatches(t, v) = IF found = {} THEN {} ELSE ways[Min(found)]
  BY DEF ValueMatches, FirstFound
<1>3. DOMAIN ways \in SUBSET Nat
  OBVIOUS
<1>4. found # {} => Min(found) \in DOMAIN ways
  <2>1. found \in SUBSET Nat /\ found \subseteq DOMAIN ways
    BY <1>3
  <2> HIDE DEF found, ways
  <2>2. QED
    BY <2>1, MinIsFirst
<1>5. QED
  <2> HIDE DEF found, ways
  <2> QED
    BY <1>1, <1>2, <1>4

LEMMA MatchesAreFinite ==
  ASSUME NEW t \in Text, NEW v \in Text
  PROVE  IsFiniteSet(ValueMatches(t, v))
<1> DEFINE P == 0 .. Len(t)
<1>1. Len(t) \in Nat
  BY WordsArePositions
<1>2. IsFiniteSet(P)
  <2>1. 0 \in Int /\ Len(t) \in Int
    BY <1>1
  <2>2. QED
    BY <2>1, FS_Interval
<1>3. IsFiniteSet(P \X P)
  <2> HIDE DEF P
  <2> QED
    BY <1>2, FS_Product
<1>4. ValueMatches(t, v) \subseteq P \X P
  <2>1. SUFFICES ASSUME NEW m \in ValueMatches(t, v) PROVE m \in P \X P
    OBVIOUS
  <2>2. Fits(m, t)
    BY MatchesFit
  <2>3. m = <<m[1], m[2]>> /\ m[1] \in P /\ m[2] \in P
    BY <1>1, <2>2 DEF Fits
  <2> HIDE DEF P
  <2>4. QED
    BY <2>3
<1>5. QED
  BY <1>3, <1>4, FS_Subset

-----------------------------------------------------------------------------
(* What the executor makes of a payload                                    *)

Typed(p) == p.value \in Text /\ p.start \in Nat /\ p.length \in Nat

(* A draft, or a span that was resolved, is a stretch of its chunk.        *)
Inside(d, c) ==
  /\ d.start \in Int /\ d.text \in Text
  /\ c.start <= d.start /\ d.start + Len(d.text) <= c.start + Len(c.text)
  /\ \A k \in 1 .. Len(d.text) : d.text[k] = c.text[d.start - c.start + k]

LEMMA ChunksAreTyped ==
  ASSUME NEW c \in Chunks
  PROVE  /\ c.text \in Text /\ Len(c.text) \in Nat /\ Len(c.text) > 0
         /\ c.start \in Nat /\ c.startByte \in Nat
<1>1. c.text \in Seq(Atom) /\ c.text # <<>> /\ c.start \in Nat /\ c.startByte \in Nat
  BY EvidenceAssumption DEF Text
<1>2. Len(c.text) \in Nat /\ Len(c.text) > 0
  BY <1>1
<1>3. QED
  BY <1>1, <1>2 DEF Text

LEMMA SlicesAreInside ==
  ASSUME NEW c \in Chunks, NEW a \in Nat, NEW b \in Nat, a <= b, b <= Len(c.text),
         NEW d, d.start = c.start + a, d.text = Slice(c.text, a, b)
  PROVE  Inside(d, c)
<1>1. c.text \in Text /\ Len(c.text) \in Nat /\ c.start \in Nat
  BY ChunksAreTyped
<1>2. /\ d.text \in Text /\ Len(d.text) = b - a
      /\ \A k \in 1 .. b - a : d.text[k] = c.text[a + k]
  <2>1. /\ Slice(c.text, a, b) \in Text /\ Len(Slice(c.text, a, b)) = b - a
        /\ \A k \in 1 .. b - a : Slice(c.text, a, b)[k] = c.text[a + k]
    BY <1>1, SlicesAreTexts
  <2>2. QED
    BY <2>1
<1>3. d.start - c.start = a
  BY <1>1
<1>4. \A k \in 1 .. Len(d.text) : d.text[k] = c.text[d.start - c.start + k]
  BY <1>2, <1>3
<1>5. d.start \in Int /\ c.start <= d.start /\ d.start + Len(d.text) <= c.start + Len(c.text)
  BY <1>1, <1>2
<1>6. QED
  BY <1>2, <1>4, <1>5 DEF Inside

LEMMA SentencesFit ==
  ASSUME NEW t \in Text, NEW s \in SentenceSpans(t)
  PROVE  Fits(s, t)
<1> DEFINE ends == {i \in DOMAIN t : EndsSentence(t, i)} \cup {Len(t)}
           from(e) == Max({0} \cup {i \in ends : i < e})
           trimmed(e) == {w \in Words(t) : from(e) < w /\ w <= e}
<1>1. PICK e \in ends : trimmed(e) # {} /\ s = <<Min(trimmed(e)) - 1, Max(trimmed(e))>>
  BY DEF SentenceSpans
<1>2. trimmed(e) \subseteq Words(t)
  OBVIOUS
<1> HIDE DEF trimmed
<1>3. /\ Len(t) \in Nat /\ trimmed(e) \in SUBSET Nat /\ trimmed(e) \in SUBSET (0 .. Len(t))
      /\ trimmed(e) \in SUBSET (1 .. Len(t))
  BY <1>2, WordsArePositions
<1>4. /\ Min(trimmed(e)) \in trimmed(e) /\ Max(trimmed(e)) \in trimmed(e)
      /\ Min(trimmed(e)) <= Max(trimmed(e))
  BY <1>1, <1>3, MinIsFirst, MaxIsLast
<1>5. Min(trimmed(e)) \in 1 .. Len(t) /\ Max(trimmed(e)) \in 1 .. Len(t)
  BY <1>3, <1>4
<1> DEFINE first == Min(trimmed(e))
           last == Max(trimmed(e))
<1>6. /\ first - 1 \in Nat /\ last \in Nat /\ first - 1 <= last /\ last <= Len(t)
      /\ s = <<first - 1, last>>
  BY <1>1, <1>3, <1>4, <1>5
<1> HIDE DEF first, last
<1>7. QED
  BY <1>6, PairsFit

LEMMA PayloadsAreTyped ==
  ASSUME NEW c \in Chunks, NEW p \in Payload(c) \cup DerivedPayloads(c)
  PROVE  Typed(p)
<1>1. /\ c.text \in Text /\ Len(c.text) \in Nat
      /\ c.start \in Nat /\ c.startByte \in Nat
  BY ChunksAreTyped
<1>2. CASE p \in Payload(c)
  <2>1. p.value \in Text /\ p.start \in Nat /\ p.length \in Nat
    BY <1>2, EvidenceAssumption
  <2>2. QED
    BY <2>1 DEF Typed
<1>3. CASE p \in DerivedPayloads(c)
  <2> DEFINE verbs(s) == {i \in s[1] .. (s[2] - 1) :
                            FoldOf(c.text[i + 1]) \in {"began", "commenced"}}
             made(category, field, value, first, length) ==
               [category |-> category, field |-> field, value |-> value,
                start |-> c.start + first, length |-> length]
  <2>1. PICK s \in SentenceSpans(c.text), category \in DOMAIN ApprovedFields :
          /\ verbs(s) # {}
          /\ p \in {made(category, "event_type", <<"launch">>, Min(verbs(s)), 1)}
                   \cup {made(category, field, Slice(c.text, s[1], s[2]), s[1], s[2] - s[1]) :
                           field \in ApprovedFields[category] \cap {"summary", "asset_detail"}}
    BY <1>3 DEF DerivedPayloads
  <2>2. s[1] \in Nat /\ s[2] \in Nat /\ s[1] <= s[2] /\ s[2] <= Len(c.text)
    BY <1>1, SentencesFit DEF Fits
  <2>3. CASE p = made(category, "event_type", <<"launch">>, Min(verbs(s)), 1)
    <3>1. verbs(s) \in SUBSET Nat
      BY <2>2
    <3>2. Min(verbs(s)) \in Nat
      <4> HIDE DEF verbs
      <4> QED
        BY <2>1, <3>1, MinIsFirst
    <3>3. p.value = <<"launch">> /\ p.start = c.start + Min(verbs(s)) /\ p.length = 1
      BY <2>3
    <3> HIDE DEF verbs
    <3>4. <<"launch">> \in Text
      <4>1. "launch" \in Atom
        BY AtomAssumption
      <4>2. QED
        BY <4>1 DEF Text
    <3>5. c.start + Min(verbs(s)) \in Nat
      BY <1>1, <3>2
    <3>6. QED
      BY <3>3, <3>4, <3>5 DEF Typed
  <2>4. CASE \E field : p = made(category, field, Slice(c.text, s[1], s[2]), s[1], s[2] - s[1])
    <3>1. p.value = Slice(c.text, s[1], s[2]) /\ p.start = c.start + s[1] /\ p.length = s[2] - s[1]
      BY <2>4
    <3>2. Slice(c.text, s[1], s[2]) \in Text
      BY <1>1, <2>2, SlicesAreTexts
    <3>3. QED
      BY <1>1, <2>2, <3>1, <3>2 DEF Typed
  <2>5. QED
    BY <2>1, <2>3, <2>4
<1>4. QED
  BY <1>2, <1>3

LEMMA ResolutionsAreInside ==
  ASSUME NEW c \in Chunks, NEW p, Typed(p)
  PROVE  Inside(ResolveSource(p, c), c)
<1>1. /\ c.text \in Text /\ Len(c.text) \in Nat /\ Len(c.text) > 0 /\ c.start \in Nat
      /\ p.value \in Text /\ p.start \in Nat /\ p.length \in Nat
  BY ChunksAreTyped DEF Typed
<1> DEFINE ms == Matches(p, c)
           near == AdjacentMatches(p, c, ms)
<1>2. \A m \in ms : Fits(m, c.text)
  BY <1>1, MatchesFit DEF Matches
<1>3. near \subseteq ms
  <2> HIDE DEF ms
  <2> QED
    BY DEF AdjacentMatches
<1>4. ASSUME NEW m \in ms PROVE Inside(Spot(c, m), c)
  <2>1. m[1] \in Nat /\ m[2] \in Nat /\ m[1] <= m[2] /\ m[2] <= Len(c.text)
    BY <1>2 DEF Fits
  <2>2. Spot(c, m).start = c.start + m[1] /\ Spot(c, m).text = Slice(c.text, m[1], m[2])
    BY DEF Spot
  <2>3. QED
    BY <2>1, <2>2, SlicesAreInside
<1>5. ASSUME ClaimFits(p, c) PROVE Inside(ClaimWithReasons(p, c, ms), c)
  <2> DEFINE a == p.start - c.start
             b == a + p.length
  <2>1. a \in Nat /\ b \in Nat /\ a <= b /\ b <= Len(c.text) /\ p.start = c.start + a
    BY <1>1, <1>5 DEF ClaimFits, RelativeStart
  <2>2. /\ ClaimWithReasons(p, c, ms).start = p.start
        /\ ClaimWithReasons(p, c, ms).text = Slice(c.text, a, b)
    BY DEF ClaimWithReasons, Claimed, RelativeStart
  <2> HIDE DEF a, b
  <2>3. QED
    BY <2>1, <2>2, SlicesAreInside
<1>6. Inside(Fallback(c, ms), c)
  <2>1. 0 \in Nat /\ 1 \in Nat /\ 0 <= 1 /\ 1 <= Len(c.text) /\ c.start = c.start + 0
    BY <1>1
  <2>2. Fallback(c, ms).start = c.start /\ Fallback(c, ms).text = Slice(c.text, 0, 1)
    BY DEF Fallback
  <2>3. Fallback(c, ms).start = c.start + 0
    BY <2>1, <2>2
  <2>4. QED
    BY <2>1, <2>2, <2>3, SlicesAreInside
<1>7. Cardinality(ms) = 1 => ms # {}
  BY FS_EmptySet
<1>8. ResolveSource(p, c) = Resolution(p, c, ms, near)
  BY DEF ResolveSource, ResolveAmong
<1> HIDE DEF ms, near
<1>9. Cardinality(ms) = 1 => Inside(Spot(c, CHOOSE m \in ms : TRUE), c)
  BY <1>4, <1>7
<1>10. near # {} => Inside(Spot(c, CHOOSE m \in near : TRUE), c)
  BY <1>3, <1>4
<1>11. QED
  BY <1>5, <1>6, <1>8, <1>9, <1>10 DEF Resolution, ClaimHolds

-----------------------------------------------------------------------------
(* The normalizers stay inside the chunk, and but for two of them inside   *)
(* what they were given                                                    *)

(* A draft that is a part of another, as it is or with a value of its own. *)
Lies(e, d) == d.start <= e.start /\ e.start + Len(e.text) <= d.start + Len(d.text)
IsPart(e, d) == Lies(e, d) /\ (e = d \/ e.value = e.text)

(* A draft that begins in another and goes on no further than a clause.    *)
GoesOn(e, d, c) ==
  LET edge == d.start - c.start + Len(d.text)
      last == e.start - c.start + Len(e.text)
  IN  /\ d.start <= e.start /\ e.start <= d.start + Len(d.text)
      /\ last > edge => {Stop, NewLine} \cap ToSet(Slice(c.text, edge, last)) = {}
      /\ e = d \/ e.value = e.text

LEMMA DraftsArePartsOfThemselves ==
  ASSUME NEW c \in Chunks, NEW d, Inside(d, c)
  PROVE  IsPart(d, d) /\ GoesOn(d, d, c)
<1>1. d.start \in Int /\ Len(d.text) \in Nat /\ c.start \in Nat
  BY ChunksAreTyped, WordsArePositions DEF Inside
<1>2. QED
  BY <1>1 DEF IsPart, Lies, GoesOn

LEMMA PartsAreInside ==
  ASSUME NEW c \in Chunks, NEW d, Inside(d, c), NEW a \in Nat, NEW b \in Nat,
         a <= b, b <= Len(d.text)
  PROVE  /\ \A value : Inside(Part(d, a, b, value), c) /\ Lies(Part(d, a, b, value), d)
         /\ Inside(Itself(d, a, b), c) /\ IsPart(Itself(d, a, b), d)
         /\ Itself(d, a, b).start + Len(Itself(d, a, b).text) = d.start + b
<1>1. /\ Slice(d.text, a, b) \in Text /\ Len(Slice(d.text, a, b)) = b - a
      /\ \A k \in 1 .. b - a : Slice(d.text, a, b)[k] = d.text[a + k]
  BY SlicesAreTexts DEF Inside
<1>2. /\ d.start \in Int /\ Len(d.text) \in Nat /\ c.start \in Nat /\ Len(c.text) \in Nat
      /\ c.start <= d.start /\ d.start + Len(d.text) <= c.start + Len(c.text)
  BY ChunksAreTyped, WordsArePositions DEF Inside
<1>3. \A k \in 1 .. b - a : Slice(d.text, a, b)[k] = c.text[(d.start + a) - c.start + k]
  <2> SUFFICES ASSUME NEW k \in 1 .. b - a
               PROVE  Slice(d.text, a, b)[k] = c.text[(d.start + a) - c.start + k]
    OBVIOUS
  <2>1. a + k \in 1 .. Len(d.text) /\ d.start - c.start + (a + k) = (d.start + a) - c.start + k
    BY <1>2
  <2>2. d.text[a + k] = c.text[d.start - c.start + (a + k)]
    BY <2>1 DEF Inside
  <2>3. QED
    BY <1>1, <2>1, <2>2
<1>4. ASSUME NEW value
      PROVE  /\ Inside(Part(d, a, b, value), c) /\ Lies(Part(d, a, b, value), d)
             /\ Part(d, a, b, value).start + Len(Part(d, a, b, value).text) = d.start + b
  <2>1. /\ Part(d, a, b, value).start = d.start + a
        /\ Part(d, a, b, value).text = Slice(d.text, a, b)
    BY DEF Part
  <2>2. QED
    <3> DEFINE q == Part(d, a, b, value)
               s == Slice(d.text, a, b)
    <3>1. q.start = d.start + a /\ q.text = s
      BY <2>1
    <3> HIDE DEF q, s
    <3>2. /\ q.start \in Int /\ q.text \in Text /\ Len(q.text) = b - a
          /\ c.start <= q.start /\ q.start + Len(q.text) <= c.start + Len(c.text)
      <4>1. /\ d.start + a \in Int /\ c.start <= d.start + a
            /\ (d.start + a) + (b - a) <= c.start + Len(c.text)
        BY <1>2, SMTT(30)
      <4>2. s \in Text /\ Len(s) = b - a
        BY <1>1 DEF s
      <4>3. QED
        BY <3>1, <4>1, <4>2
    <3>3. \A k \in 1 .. Len(q.text) : q.text[k] = c.text[q.start - c.start + k]
      BY <1>3, <3>1, <3>2 DEF s
    <3>4. Inside(q, c)
      BY <3>2, <3>3 DEF Inside
    <3>5. Lies(q, d) /\ q.start + Len(q.text) = d.start + b
      BY <1>2, <3>1, <3>2 DEF Lies
    <3>6. QED
      BY <3>4, <3>5 DEF q
<1>5. Itself(d, a, b).value = Itself(d, a, b).text
  BY DEF Itself, Part
<1>6. QED
  BY <1>4, <1>5 DEF Itself, IsPart

LEMMA FollowsIsText ==
  ASSUME NEW c \in Chunks, NEW d, Inside(d, c)
  PROVE  /\ Follows(c, d) \in Text /\ Len(Follows(c, d)) \in Nat /\ Len(d.text) \in Nat
         /\ d.start + Len(d.text) + Len(Follows(c, d)) = c.start + Len(c.text)
         /\ \A k \in 1 .. Len(Follows(c, d)) :
              Follows(c, d)[k] = c.text[d.start - c.start + Len(d.text) + k]
<1> DEFINE a == d.start - c.start + Len(d.text)
<1>1. /\ d.start \in Int /\ Len(d.text) \in Nat /\ c.start \in Nat /\ Len(c.text) \in Nat
      /\ c.start <= d.start /\ d.start + Len(d.text) <= c.start + Len(c.text)
      /\ c.text \in Text
  BY ChunksAreTyped, WordsArePositions DEF Inside
<1>2. a \in Nat /\ a <= Len(c.text) /\ d.start + Len(d.text) + (Len(c.text) - a) = c.start + Len(c.text)
  BY <1>1
<1> HIDE DEF a
<1>3. /\ Slice(c.text, a, Len(c.text)) \in Text
      /\ Len(Slice(c.text, a, Len(c.text))) = Len(c.text) - a
      /\ \A k \in 1 .. Len(c.text) - a : Slice(c.text, a, Len(c.text))[k] = c.text[a + k]
  <2> DEFINE b == Len(c.text)
  <2>1. b \in Nat /\ a <= b /\ b <= Len(c.text)
    BY <1>1, <1>2
  <2> HIDE DEF b
  <2>2. /\ Slice(c.text, a, b) \in Text /\ Len(Slice(c.text, a, b)) = b - a
        /\ \A k \in 1 .. b - a : Slice(c.text, a, b)[k] = c.text[a + k]
    BY <1>1, <1>2, <2>1, SlicesAreTexts
  <2>3. QED
    BY <2>2 DEF b
<1>4. Follows(c, d) = Slice(c.text, a, Len(c.text))
  BY DEF Follows, a
<1>5. Len(c.text) - a \in Nat
  BY <1>1, <1>2
<1>6. /\ Follows(c, d) \in Text /\ Len(Follows(c, d)) \in Nat
      /\ d.start + Len(d.text) + Len(Follows(c, d)) = c.start + Len(c.text)
  BY <1>1, <1>2, <1>3, <1>4, <1>5
<1>7. \A k \in 1 .. Len(Follows(c, d)) : Follows(c, d)[k] = c.text[a + k]
  BY <1>3, <1>4
<1>8. QED
  BY <1>1, <1>6, <1>7 DEF a

LEMMA ExtensionsAreInside ==
  ASSUME NEW c \in Chunks, NEW d, Inside(d, c), NEW more \in Text,
         Len(more) <= Len(Follows(c, d)),
         \A k \in 1 .. Len(more) : more[k] = Follows(c, d)[k]
  PROVE  Inside(Extended(d, more), c)
<1>1. d.text \in Text /\ d.start \in Int /\ c.start <= d.start
  BY DEF Inside
<1>2. /\ d.text \o more \in Text /\ Len(d.text \o more) = Len(d.text) + Len(more)
      /\ Len(more) \in Nat
  BY <1>1 DEF Text
<1>3. Extended(d, more).start = d.start /\ Extended(d, more).text = d.text \o more
  BY DEF Extended
<1>4. /\ Len(Follows(c, d)) \in Nat /\ Len(d.text) \in Nat
      /\ d.start + Len(d.text) + Len(Follows(c, d)) = c.start + Len(c.text)
  BY FollowsIsText
<1>5. d.start + (Len(d.text) + Len(more)) <= c.start + Len(c.text)
  BY <1>1, <1>2, <1>4
<1>6. ASSUME NEW k \in 1 .. Len(d.text \o more)
      PROVE  (d.text \o more)[k] = c.text[d.start - c.start + k]
  <2> DEFINE n == Len(d.text)
  <2>1. n \in Nat /\ c.start \in Nat /\ k \in 1 .. n + Len(more)
    BY <1>2, <1>4, ChunksAreTyped
  <2>2. CASE k <= n
    <3>1. (d.text \o more)[k] = d.text[k]
      BY <1>1, <2>1, <2>2 DEF Text
    <3>2. QED
      BY <2>1, <2>2, <3>1 DEF Inside
  <2>3. CASE ~(k <= n)
    <3>1. (d.text \o more)[k] = more[k - n]
      BY <1>1, <1>2, <2>1, <2>3 DEF Text
    <3>2. k - n \in 1 .. Len(more) /\ k - n \in 1 .. Len(Follows(c, d))
      BY <1>2, <1>4, <2>1, <2>3
    <3>3. Follows(c, d)[k - n] = c.text[d.start - c.start + n + (k - n)]
      BY <3>2, FollowsIsText
    <3>4. d.start - c.start + n + (k - n) = d.start - c.start + k
      BY <1>1, <2>1
    <3>5. QED
      BY <3>1, <3>2, <3>3, <3>4
  <2>4. QED
    BY <2>2, <2>3
<1>7. QED
  BY <1>1, <1>2, <1>3, <1>5, <1>6 DEF Inside

(* What follows a draft, up to the end of its clause at most.              *)
Continues(more, d, c) ==
  /\ more \in Text /\ Len(more) <= Len(Follows(c, d))
  /\ \A k \in 1 .. Len(more) : more[k] = Follows(c, d)[k] /\ more[k] \notin {Stop, NewLine}

IsInClause(c, at, n) == {Stop, NewLine} \cap ToSet(Slice(c.text, at, at + n)) = {}

LEMMA ExtensionsGoOn ==
  ASSUME NEW c \in Chunks, NEW d, Inside(d, c), NEW more, Continues(more, d, c)
  PROVE  /\ Extended(d, more).start = d.start
         /\ Extended(d, more).value = Extended(d, more).text
         /\ Len(Extended(d, more).text) = Len(d.text) + Len(more)
         /\ IsInClause(c, d.start - c.start + Len(d.text), Len(more))
<1> DEFINE edge == d.start - c.start + Len(d.text)
           last == edge + Len(more)
           added == Slice(c.text, edge, last)
<1>1. /\ d.start \in Int /\ c.start <= d.start /\ c.start \in Nat
      /\ c.text \in Text /\ Len(c.text) \in Nat /\ Len(more) \in Nat /\ d.text \in Text
      /\ more \in Text /\ Len(more) <= Len(Follows(c, d))
      /\ \A k \in 1 .. Len(more) : more[k] = Follows(c, d)[k] /\ more[k] \notin {Stop, NewLine}
  BY ChunksAreTyped, WordsArePositions DEF Inside, Continues
<1>2. /\ Len(Follows(c, d)) \in Nat /\ Len(d.text) \in Nat
      /\ d.start + Len(d.text) + Len(Follows(c, d)) = c.start + Len(c.text)
      /\ \A k \in 1 .. Len(Follows(c, d)) : Follows(c, d)[k] = c.text[edge + k]
  BY FollowsIsText
<1>3. /\ Extended(d, more).start = d.start
      /\ Extended(d, more).value = Extended(d, more).text
      /\ Len(Extended(d, more).text) = Len(d.text) + Len(more)
  <2>1. /\ Extended(d, more).start = d.start /\ Extended(d, more).text = d.text \o more
        /\ Extended(d, more).value = d.text \o more
    BY DEF Extended
  <2>2. Len(d.text \o more) = Len(d.text) + Len(more)
    BY <1>1 DEF Text
  <2>3. QED
    BY <2>1, <2>2
<1>4. edge \in Nat /\ last \in Nat /\ edge <= last /\ last <= Len(c.text) /\ last - edge = Len(more)
  <2> DEFINE x == d.start
             z == c.start
             l == Len(d.text)
             f == Len(Follows(c, d))
             n == Len(c.text)
             k == Len(more)
  <2>1. /\ x \in Int /\ z \in Nat /\ z <= x /\ x + l + f = z + n
        /\ l \in Nat /\ f \in Nat /\ n \in Nat /\ k \in Nat /\ k <= f
    BY <1>1, <1>2
  <2> HIDE DEF x, z, l, f, n, k
  <2>2. LET a == x - z + l
        IN  a \in Nat /\ a + k \in Nat /\ a <= a + k /\ a + k <= n /\ (a + k) - a = k
    BY <2>1
  <2>3. QED
    BY <2>2 DEF x, z, l, f, n, k
<1>5. \A k \in 1 .. Len(more) : more[k] = c.text[edge + k]
  BY <1>1, <1>2
<1> HIDE DEF edge, last
<1>6. added \in Text /\ Len(added) = Len(more) /\ \A k \in 1 .. Len(more) : added[k] = more[k]
  <2>1. /\ added \in Text /\ Len(added) = last - edge
        /\ \A k \in 1 .. (last - edge) : added[k] = c.text[edge + k]
    BY <1>1, <1>4, SlicesAreTexts, ZenonT(60)
  <2> HIDE DEF added
  <2>2. QED
    BY <1>4, <1>5, <2>1
<1> HIDE DEF added
<1>7. DOMAIN added = 1 .. Len(more)
  BY <1>6, WordsArePositions
<1>8. {Stop, NewLine} \cap ToSet(added) = {}
  BY <1>1, <1>6, <1>7 DEF ToSet
<1>9. QED
  BY <1>3, <1>8 DEF IsInClause, added, last, edge

(* The same for a draft that a part at the end of another was made to.     *)
LEMMA ClausesGoOn ==
  ASSUME NEW c \in Chunks, NEW d, Inside(d, c), NEW b, Inside(b, c), d.start <= b.start,
         b.start + Len(b.text) = d.start + Len(d.text), NEW more, Continues(more, b, c)
  PROVE  GoesOn(Extended(b, more), d, c)
<1> DEFINE edge == d.start - c.start + Len(d.text)
           e == Extended(b, more)
<1>1. /\ d.start \in Int /\ b.start \in Int /\ c.start \in Nat /\ Len(more) \in Nat
      /\ Len(d.text) \in Nat /\ Len(b.text) \in Nat
  <2>1. /\ d.start \in Int /\ b.start \in Int /\ d.text \in Text /\ b.text \in Text
        /\ more \in Text
    BY DEF Inside, Continues
  <2>2. QED
    BY <2>1, ChunksAreTyped, WordsArePositions
<1>2. edge = b.start - c.start + Len(b.text)
  <2> DEFINE x == d.start
             y == b.start
             z == c.start
             l == Len(d.text)
             n == Len(b.text)
  <2>1. /\ x \in Int /\ y \in Int /\ z \in Nat /\ l \in Nat /\ n \in Nat
        /\ y + n = x + l
    BY <1>1
  <2> HIDE DEF x, y, z, l, n
  <2>2. x - z + l = y - z + n
    BY <2>1
  <2>3. QED
    BY <2>2 DEF x, y, z, l, n
<1> HIDE DEF edge
<1>3. /\ e.start = b.start /\ e.value = e.text /\ Len(e.text) = Len(b.text) + Len(more)
      /\ IsInClause(c, edge, Len(more))
  BY <1>2, ExtensionsGoOn
<1> HIDE DEF e
<1>4. e.start - c.start + Len(e.text) = edge + Len(more)
  BY <1>1, <1>2, <1>3
<1>5. e.start <= d.start + Len(d.text)
  BY <1>1, <1>3
<1>6. QED
  BY <1>3, <1>4, <1>5 DEF GoesOn, IsInClause, edge, e

LEMMA LabelsAreInside ==
  ASSUME NEW c \in Chunks, NEW d, Inside(d, c)
  PROVE  Inside(NormalizeLabel(d, c), c) /\ Lies(NormalizeLabel(d, c), d)
<1> DEFINE found == ExactMatches(Fold(d.text), <<"commenced">>)
<1>1. Len(d.text) \in Nat /\ Len(Fold(d.text)) = Len(d.text)
  BY WordsArePositions, FoldedLength DEF Inside
<1>2. Len(<<"commenced">>) = 1
  OBVIOUS
<1>3. found \in SUBSET (0 .. Len(d.text) - 1) /\ found \in SUBSET Nat
  BY <1>1, <1>2 DEF ExactMatches
<1>4. NormalizeLabel(d, c) =
        IF found = {} THEN d ELSE Part(d, Min(found), Min(found) + 1, <<"launch">>)
  BY DEF NormalizeLabel
<1> HIDE DEF found
<1>5. CASE found # {}
  <2>1. Min(found) \in 0 .. Len(d.text) - 1
    BY <1>3, <1>5, MinIsFirst
  <2>2. /\ Min(found) \in Nat /\ Min(found) + 1 \in Nat /\ Min(found) <= Min(found) + 1
        /\ Min(found) + 1 <= Len(d.text)
    BY <1>1, <1>3, <2>1
  <2>3. /\ Inside(Part(d, Min(found), Min(found) + 1, <<"launch">>), c)
        /\ Lies(Part(d, Min(found), Min(found) + 1, <<"launch">>), d)
    BY <2>2, PartsAreInside
  <2>4. QED
    BY <1>4, <1>5, <2>3
<1>6. QED
  BY <1>4, <1>5, DraftsArePartsOfThemselves DEF IsPart

(* The amount of a prior period is one of the value or of the place it was *)
(* found at, wherever in the chunk it stands with a quarter.               *)
LEMMA PriorPeriodsAreInside ==
  ASSUME NEW c \in Chunks, NEW d, Inside(d, c), d.value \in Text
  PROVE  LET e == NormalizePriorPeriod(d, c)
         IN  /\ Inside(e, c)
             /\ \/ e = d
                \/ /\ e.value = e.text
                   /\ \E n \in Number \cap ToSet(d.value \o d.text) :
                        e.text = <<n, Space, "in Q1">>
<1> DEFINE said == d.value \o d.text
           numbers == {i \in DOMAIN said : said[i] \in Number}
           amount == said[Min(numbers)]
           phrase == <<amount, Space, "in Q1">>
           found == IF numbers = {} THEN {} ELSE ExactMatches(c.text, phrase)
           distance(i) == LET z == i - (d.start - c.start) IN IF z < 0 THEN -z ELSE z
           nearest == {i \in found : \A j \in found : \/ distance(i) < distance(j)
                                                      \/ distance(i) = distance(j) /\ i <= j}
           first == Min(nearest)
<1>1. c.text \in Text /\ Len(c.text) \in Nat /\ c.start \in Nat /\ d.start \in Int
  BY ChunksAreTyped DEF Inside
<1>2. \A i \in found : i \in Nat /\ i + 3 <= Len(c.text) /\ Slice(c.text, i, i + 3) = phrase
  <2>1. Len(phrase) = 3
    BY SMTT(30)
  <2>2. \A i \in found : i \in ExactMatches(c.text, phrase)
    OBVIOUS
  <2> HIDE DEF found, phrase
  <2>3. \A i \in ExactMatches(c.text, phrase) :
          i \in 0 .. (Len(c.text) - 3) /\ Slice(c.text, i, i + 3) = phrase
    BY <2>1 DEF ExactMatches
  <2>4. QED
    BY <1>1, <2>2, <2>3, SMTT(30)
<1>3. NormalizePriorPeriod(d, c) =
        IF found = {} THEN d
        ELSE [start |-> c.start + first, text |-> Slice(c.text, first, first + 3),
              value |-> Slice(c.text, first, first + 3)]
  BY DEF NormalizePriorPeriod
<1>said. found # {} => amount \in Number \cap ToSet(said)
  <2>1. DOMAIN said \in SUBSET Nat
    <3>1. d.value \in Seq(Atom) /\ d.text \in Seq(Atom)
      BY DEF Inside, Text
    <3>2. said \in Seq(Atom)
      BY <3>1
    <3> HIDE DEF said
    <3>3. QED
      BY <3>2
  <2> HIDE DEF said
  <2>2. numbers \in SUBSET Nat
    BY <2>1
  <2>3. found # {} => numbers # {}
    OBVIOUS
  <2>4. found # {} => Min(numbers) \in numbers
    <3> HIDE DEF numbers, found
    <3> QED
      BY <2>2, <2>3, MinIsFirst, SMTT(30)
  <2>5. QED
    BY <2>4 DEF ToSet
<1> HIDE DEF found, phrase
<1>4. CASE found # {}
  <2>1. \A i \in found : distance(i) \in Nat
    BY <1>1, <1>2
  <2> HIDE DEF distance
  <2> DEFINE distances == {distance(i) : i \in found}
  <2>2. PICK z \in distances : \A y \in distances : z <= y
    <3>1. distances \in SUBSET Nat /\ distances # {}
      BY <1>4, <2>1
    <3> HIDE DEF distances
    <3>2. QED
      BY <3>1, LeastElement
  <2> DEFINE close == {i \in found : distance(i) = z}
  <2>3. close \in SUBSET Nat /\ close # {}
    BY <1>2, <2>2
  <2>4. PICK i \in close : \A j \in close : i <= j
    <3> HIDE DEF close
    <3> QED
      BY <2>3, LeastElement
  <2>5. i \in found /\ distance(i) = z
    OBVIOUS
  <2>6. ASSUME NEW j \in found
        PROVE  distance(i) < distance(j) \/ (distance(i) = distance(j) /\ i <= j)
    <3>1. distance(j) \in Nat /\ distance(i) \in Nat /\ distance(i) <= distance(j)
      BY <2>1, <2>2, <2>5
    <3>2. distance(i) = distance(j) => i <= j
      BY <2>4, <2>5
    <3>3. QED
      BY <3>1, <3>2
  <2>7. i \in nearest
    BY <2>5, <2>6
  <2>8. nearest \in SUBSET Nat /\ nearest \subseteq found
    BY <1>2
  <2> HIDE DEF nearest
  <2>9. first \in found
    BY <2>7, <2>8, MinIsFirst
  <2> HIDE DEF first
  <2> DEFINE last == first + 3
  <2>10. /\ first \in Nat /\ last \in Nat /\ first <= last /\ last <= Len(c.text)
         /\ last - first = 3
    BY <1>2, <2>9
  <2>11. /\ NormalizePriorPeriod(d, c).start = c.start + first
         /\ NormalizePriorPeriod(d, c).text = Slice(c.text, first, last)
    BY <1>3, <1>4
  <2> HIDE DEF last
  <2>12. Inside(NormalizePriorPeriod(d, c), c)
    BY <2>10, <2>11, SlicesAreInside
  <2>13. /\ NormalizePriorPeriod(d, c).value = NormalizePriorPeriod(d, c).text
         /\ NormalizePriorPeriod(d, c).text = phrase
    BY <1>2, <1>3, <1>4, <2>9 DEF last
  <2>14. QED
    BY <1>4, <1>said, <2>12, <2>13 DEF phrase
<1>5. QED
  BY <1>3, <1>4

LEMMA PrefixesAgree ==
  ASSUME NEW s \in Text, NEW t \in Text, IsPrefix(s, t)
  PROVE  Len(s) <= Len(t) /\ \A k \in 1 .. Len(s) : s[k] = t[k]
<1>1. /\ Len(s) \in Nat /\ Len(t) \in Nat /\ Len(s) <= Len(t)
      /\ SubSeq(s, 1, Len(s)) = SubSeq(t, 1, Len(s))
  BY WordsArePositions DEF IsPrefix
<1>2. \A k \in 1 .. Len(s) : SubSeq(s, 1, Len(s))[k] = s[k] /\ SubSeq(t, 1, Len(s))[k] = t[k]
  BY <1>1 DEF Text
<1>3. QED
  BY <1>1, <1>2

LEMMA EffectiveDatesAreInside ==
  ASSUME NEW c \in Chunks, NEW d, Inside(d, c)
  PROVE  Inside(NormalizeEffectiveDate(d, c), c) /\ GoesOn(NormalizeEffectiveDate(d, c), d, c)
<1> DEFINE more == <<Space, "meeting">>
<1>1. more \in Text /\ Len(more) = 2 /\ \A k \in 1 .. 2 : more[k] \notin {Stop, NewLine}
  BY AtomAssumption DEF Text, Space, Stop, NewLine
<1>2. ASSUME IsPrefix(more, Follows(c, d))
      PROVE  Inside(Extended(d, more), c) /\ GoesOn(Extended(d, more), d, c)
  <2> HIDE DEF more
  <2>1. /\ Len(more) <= Len(Follows(c, d))
        /\ \A k \in 1 .. Len(more) : more[k] = Follows(c, d)[k]
    BY <1>1, <1>2, FollowsIsText, PrefixesAgree, ZenonT(60)
  <2>2. Inside(Extended(d, more), c)
    BY <1>1, <2>1, ExtensionsAreInside
  <2>3. GoesOn(Extended(d, more), d, c)
    <3>1. d.start \in Int
      BY DEF Inside
    <3>2. d.start <= d.start /\ d.start + Len(d.text) = d.start + Len(d.text)
      BY <3>1
    <3>3. Continues(more, d, c)
      BY <1>1, <2>1 DEF Continues
    <3>4. QED
      BY <3>2, <3>3, ClausesGoOn
  <2>4. QED
    BY <2>2, <2>3
<1>3. QED
  BY <1>2, DraftsArePartsOfThemselves DEF NormalizeEffectiveDate

LEMMA LeadingIsPosition ==
  ASSUME NEW t \in Text
  PROVE  Leading(t) \in 0 .. Len(t)
<1>1. /\ Len(t) \in Nat /\ Words(t) \in SUBSET (1 .. Len(t)) /\ Words(t) \in SUBSET Nat
      /\ ~IsBlank(t) => Words(t) # {}
  BY WordsArePositions
<1>2. CASE IsBlank(t)
  BY <1>1, <1>2 DEF Leading
<1>3. CASE ~IsBlank(t)
  <2>1. Min(Words(t)) \in 1 .. Len(t)
    BY <1>1, <1>3, MinIsFirst
  <2>2. Leading(t) = Min(Words(t)) - 1
    BY <1>3 DEF Leading
  <2>3. QED
    BY <1>1, <2>1, <2>2
<1>4. QED
  BY <1>2, <1>3

LEMMA RolesAreInside ==
  ASSUME NEW c \in Chunks, NEW d, Inside(d, c)
  PROVE  Inside(NormalizeRole(d, c), c) /\ IsPart(NormalizeRole(d, c), d)
<1> DEFINE n == Leading(d.text)
           l == Len(d.text)
           source == Slice(d.text, n, l)
<1>1. d.text \in Text /\ l \in Nat /\ n \in Nat /\ n <= l /\ l <= Len(d.text)
  BY WordsArePositions, LeadingIsPosition DEF Inside
<1> HIDE DEF n, l
<1>2. source \in Text /\ Len(source) = l - n
  BY <1>1, SlicesAreTexts
<1>3. ASSUME NEW number, IsPrefix(<<number, Space, "target">>, source)
      PROVE  Inside(Itself(d, n, n + 1), c) /\ IsPart(Itself(d, n, n + 1), d)
  <2> DEFINE phrase == <<number, Space, "target">>
  <2>1. Len(phrase) = 3
    OBVIOUS
  <2>2. Len(phrase) <= Len(source)
    <3> HIDE DEF source, phrase
    <3> QED
      BY <1>3 DEF IsPrefix, phrase
  <2> HIDE DEF source, phrase
  <2>3. n + 1 \in Nat /\ n <= n + 1 /\ n + 1 <= Len(d.text)
    BY <1>1, <1>2, <2>1, <2>2
  <2>4. QED
    BY <1>1, <2>3, PartsAreInside
<1>4. NormalizeRole(d, c) =
        IF \E number \in Number : IsPrefix(<<number, Space, "target">>, source)
        THEN Itself(d, n, n + 1) ELSE d
  BY DEF NormalizeRole, n, l
<1> HIDE DEF source
<1>5. QED
  BY <1>3, <1>4, DraftsArePartsOfThemselves

LEMMA ConditionsAreInside ==
  ASSUME NEW c \in Chunks, NEW d, Inside(d, c)
  PROVE  Inside(NormalizeCondition(d, c), c) /\ GoesOn(NormalizeCondition(d, c), d, c)
<1> DEFINE bare == IF IsPrefix(<<"with", Space>>, d.text)
                   THEN Itself(d, 2, Len(d.text)) ELSE d
           rest == Follows(c, bare)
           ends == {i \in DOMAIN rest : rest[i] \in {Stop, NewLine}}
           clause == IF ends = {} THEN rest ELSE Slice(rest, 0, Min(ends) - 1)
<1>1. Inside(bare, c) /\ IsPart(bare, d) /\ bare.start + Len(bare.text) = d.start + Len(d.text)
  <2>1. CASE IsPrefix(<<"with", Space>>, d.text)
    <3> DEFINE phrase == <<"with", Space>>
               l == Len(d.text)
    <3>1. Len(phrase) = 2
      OBVIOUS
    <3>2. Len(phrase) <= l
      BY <2>1 DEF IsPrefix
    <3>3. l \in Nat /\ l <= Len(d.text)
      BY WordsArePositions DEF Inside
    <3> HIDE DEF phrase, l
    <3>4. 2 \in Nat /\ 2 <= l
      BY <3>1, <3>2
    <3>5. /\ Inside(Itself(d, 2, l), c) /\ IsPart(Itself(d, 2, l), d)
          /\ Itself(d, 2, l).start + Len(Itself(d, 2, l).text) = d.start + l
      BY <3>3, <3>4, PartsAreInside
    <3>6. QED
      BY <2>1, <3>5 DEF l
  <2>2. QED
    BY <2>1, DraftsArePartsOfThemselves
<1>2. NormalizeCondition(d, c) =
        IF IsPrefix(<<Space, "under", Space>>, rest) THEN Extended(bare, clause) ELSE bare
  BY DEF NormalizeCondition
<1> HIDE DEF bare
<1>3. rest \in Text /\ Len(rest) \in Nat
  BY <1>1, FollowsIsText
<1>4. /\ clause \in Text /\ Len(clause) <= Len(rest)
      /\ \A k \in 1 .. Len(clause) : clause[k] = rest[k] /\ clause[k] \notin {Stop, NewLine}
  <2>1. CASE ends = {}
    <3>1. \A k \in 1 .. Len(rest) : rest[k] \notin {Stop, NewLine}
      BY <1>3, <2>1, WordsArePositions
    <3>2. QED
      BY <1>3, <2>1, <3>1
  <2>2. CASE ends # {}
    <3>1. ends \in SUBSET Nat /\ ends \in SUBSET (1 .. Len(rest))
      BY <1>3, WordsArePositions
    <3>2. clause = Slice(rest, 0, Min(ends) - 1)
      BY <2>2
    <3>outside. ASSUME NEW k \in 1 .. Len(rest), k \notin ends
               PROVE  rest[k] \notin {Stop, NewLine}
      BY <1>3, <3>outside, WordsArePositions
    <3> HIDE DEF clause, ends, rest
    <3>3. Min(ends) \in 1 .. Len(rest) /\ \A k \in ends : Min(ends) <= k
      BY <2>2, <3>1, MinIsFirst
    <3> DEFINE b == Min(ends) - 1
    <3>4. /\ b \in Nat /\ 0 \in Nat /\ 0 <= b /\ b <= Len(rest) /\ b - 0 = b
          /\ \A k \in 1 .. b : k \in 1 .. Len(rest) /\ k \notin ends
      BY <1>3, <3>3
    <3> HIDE DEF b
    <3>5. /\ Slice(rest, 0, b) \in Text /\ Len(Slice(rest, 0, b)) = b - 0
          /\ \A k \in 1 .. b - 0 : Slice(rest, 0, b)[k] = rest[0 + k]
      BY <1>3, <3>4, SlicesAreTexts
    <3>6. clause = Slice(rest, 0, b)
      BY <3>2 DEF b
    <3>7. \A k \in 1 .. b : clause[k] = rest[k] /\ clause[k] \notin {Stop, NewLine}
      BY <3>4, <3>5, <3>6, <3>outside
    <3>8. QED
      BY <3>4, <3>5, <3>6, <3>7
  <2>3. QED
    BY <2>1, <2>2
<1> HIDE DEF clause
<1>5. Inside(Extended(bare, clause), c)
  BY <1>1, <1>4, ExtensionsAreInside
<1>6. GoesOn(Extended(bare, clause), d, c)
  <2>1. Continues(clause, bare, c)
    BY <1>4 DEF Continues
  <2>2. QED
    BY <1>1, <2>1, ClausesGoOn DEF IsPart, Lies
<1>7. GoesOn(bare, d, c)
  <2> HIDE DEF bare
  <2>1. /\ bare.start \in Int /\ Len(bare.text) \in Nat /\ d.start \in Int
        /\ Len(d.text) \in Nat /\ c.start \in Nat
    <3>1. bare.start \in Int /\ bare.text \in Text /\ d.start \in Int /\ d.text \in Text
      BY <1>1 DEF Inside
    <3>2. QED
      BY <3>1, ChunksAreTyped, WordsArePositions
  <2> DEFINE x == d.start
             y == bare.start
             z == c.start
             l == Len(d.text)
             n == Len(bare.text)
  <2>2. /\ x \in Int /\ y \in Int /\ z \in Nat /\ l \in Nat /\ n \in Nat
        /\ x <= y /\ y + n <= x + l
    BY <1>1, <2>1 DEF IsPart, Lies
  <2> HIDE DEF x, y, z, l, n
  <2>3. y <= x + l /\ ~(y - z + n > x - z + l)
    BY <2>2
  <2>4. QED
    BY <1>1, <2>2, <2>3 DEF IsPart, Lies, GoesOn, x, y, z, l, n
<1>8. QED
  BY <1>1, <1>2, <1>5, <1>6, <1>7

LEMMA QualifiersAreInside ==
  ASSUME NEW c \in Chunks, NEW d, Inside(d, c), d.value \in Text
  PROVE  Inside(NormalizeQualifier(d, c), c) /\ IsPart(NormalizeQualifier(d, c), d)
<1> DEFINE ms == ValueMatches(d.text, d.value)
           m == CHOOSE x \in ms : TRUE
<1>1. d.text \in Text
  BY DEF Inside
<1>2. \A x \in ms : Fits(x, d.text)
  BY <1>1, MatchesFit
<1>3. NormalizeQualifier(d, c) =
        IF Cardinality(ms) = 1 /\ m # <<0, Len(d.text)>> THEN Itself(d, m[1], m[2]) ELSE d
  BY DEF NormalizeQualifier
<1> HIDE DEF ms
<1>4. ASSUME Cardinality(ms) = 1
      PROVE  Inside(Itself(d, m[1], m[2]), c) /\ IsPart(Itself(d, m[1], m[2]), d)
  <2>1. ms # {}
    BY <1>4, FS_EmptySet
  <2>2. m \in ms
    BY <2>1
  <2> HIDE DEF m
  <2>3. m[1] \in Nat /\ m[2] \in Nat /\ m[1] <= m[2] /\ m[2] <= Len(d.text)
    BY <1>2, <2>2 DEF Fits
  <2>4. QED
    BY <2>3, PartsAreInside
<1>5. QED
  BY <1>3, <1>4, DraftsArePartsOfThemselves

LEMMA AssetDetailsAreInside ==
  ASSUME NEW c \in Chunks, NEW d, Inside(d, c)
  PROVE  Inside(NormalizeAssetDetail(d, c), c) /\ IsPart(NormalizeAssetDetail(d, c), d)
<1> DEFINE verbs == {i \in DOMAIN d.text :
                       /\ d.text[i] = "owns" /\ i + 1 \in DOMAIN d.text
                       /\ d.text[i + 1] \in Blank /\ \E w \in Words(d.text) : w > i}
           n == Min(verbs)
           last == Max(Words(d.text))
           until == IF d.text[last] = Stop THEN last - 1 ELSE last
           inside == {w \in Words(d.text) : n < w /\ w <= until}
<1>1. NormalizeAssetDetail(d, c) =
        IF verbs # {} /\ \E w \in inside : d.text[w] \in Number
        THEN Itself(d, Min(inside) - 1, Max(inside)) ELSE d
  BY DEF NormalizeAssetDetail
<1>2. inside \subseteq Words(d.text)
  OBVIOUS
<1> HIDE DEF inside, verbs
<1>3. /\ Len(d.text) \in Nat /\ inside \in SUBSET Nat /\ inside \in SUBSET (0 .. Len(d.text))
      /\ inside \in SUBSET (1 .. Len(d.text))
  <2>1. Words(d.text) \in SUBSET (1 .. Len(d.text)) /\ Len(d.text) \in Nat
    BY WordsArePositions DEF Inside
  <2>2. QED
    BY <1>2, <2>1
<1>4. ASSUME inside # {}
      PROVE  /\ Inside(Itself(d, Min(inside) - 1, Max(inside)), c)
             /\ IsPart(Itself(d, Min(inside) - 1, Max(inside)), d)
  <2> DEFINE a == Min(inside) - 1
             b == Max(inside)
  <2>1. /\ Min(inside) \in inside /\ Max(inside) \in inside
        /\ Min(inside) <= Max(inside)
    BY <1>3, <1>4, MinIsFirst, MaxIsLast
  <2>2. Min(inside) \in 1 .. Len(d.text) /\ Max(inside) \in 1 .. Len(d.text)
    BY <1>3, <2>1
  <2>3. a \in Nat /\ b \in Nat /\ a <= b /\ b <= Len(d.text)
    BY <1>3, <2>1, <2>2
  <2> HIDE DEF a, b
  <2>4. Inside(Itself(d, a, b), c) /\ IsPart(Itself(d, a, b), d)
    BY <2>3, PartsAreInside
  <2>5. QED
    BY <2>4 DEF a, b
<1>5. QED
  BY <1>1, <1>4, DraftsArePartsOfThemselves

LEMMA SpeakersAreInside ==
  ASSUME NEW c \in Chunks, NEW d, Inside(d, c)
  PROVE  Inside(NormalizeSpeaker(d, c), c) /\ IsPart(NormalizeSpeaker(d, c), d)
<1> DEFINE phrase == <<"CEO", Space>>
           l == Len(d.text)
<1>1. Len(phrase) = 2
  OBVIOUS
<1>2. l \in Nat /\ l <= Len(d.text)
  BY WordsArePositions DEF Inside
<1>3. ASSUME IsPrefix(phrase, d.text)
      PROVE  Inside(Itself(d, 2, l), c) /\ IsPart(Itself(d, 2, l), d)
  <2>1. Len(phrase) <= l
    BY <1>3 DEF IsPrefix
  <2> HIDE DEF phrase, l
  <2>2. 2 \in Nat /\ 2 <= l
    BY <1>1, <2>1
  <2>3. QED
    BY <1>2, <2>2, PartsAreInside
<1>4. QED
  BY <1>3, DraftsArePartsOfThemselves DEF NormalizeSpeaker

(* What prepare_candidate_payload makes of a payload lies in the chunk.    *)
LEMMA DraftsAreInside ==
  ASSUME NEW c \in Chunks, NEW p \in Payload(c) \cup DerivedPayloads(c)
  PROVE  Inside(Prepare(p, ResolveSource(p, c), c), c)
<1> DEFINE r == ResolveSource(p, c)
           d == Draft(p, r)
<1>1. Typed(p) /\ Inside(r, c)
  BY PayloadsAreTyped, ResolutionsAreInside
<1>2. d.start = r.start /\ d.text = r.text /\ d.value = p.value
  BY DEF Draft
<1>3. Inside(d, c) /\ d.value \in Text
  BY <1>1, <1>2 DEF Inside, Typed
<1>4. Prepare(p, r, c) = IF r.reasons # {} THEN d ELSE Normalized(p.field, d, c)
  BY DEF Prepare
<1> HIDE DEF d
<1>5. Inside(Normalized(p.field, d, c), c)
  BY <1>3, LabelsAreInside, PriorPeriodsAreInside, EffectiveDatesAreInside, RolesAreInside,
     ConditionsAreInside, QualifiersAreInside, AssetDetailsAreInside, SpeakersAreInside
     DEF Normalized
<1>6. QED
  BY <1>3, <1>4, <1>5

(* What a normalizer makes of a draft: a part of it, for some fields with  *)
(* the rest of its clause, and for one the amount with a quarter.          *)
IsTaken(e, d, field, c) ==
  \/ field \notin NormalizedField /\ e = d
  \/ field \in NormalizedField /\ Lies(e, d)
  \/ field \in {"effective_date", "condition"} /\ GoesOn(e, d, c)
  \/ /\ field = "prior_period_value"
     /\ \E n \in Number \cap ToSet(d.value \o d.text) : e.text = <<n, Space, "in Q1">>

LEMMA DraftsAreTaken ==
  ASSUME NEW c \in Chunks, NEW d, Inside(d, c), d.value \in Text, NEW field
  PROVE  LET e == Normalized(field, d, c)
         IN  IsTaken(e, d, field, c) /\ (e = d \/ e.value = e.text \/ field \in LabelField)
<1> DEFINE e == Normalized(field, d, c)
<1>1. CASE field \notin NormalizedField
  <2>1. e = d
    BY <1>1 DEF Normalized, NormalizedField
  <2>2. QED
    BY <1>1, <2>1 DEF IsTaken
<1>2. CASE field = "event_type"
  <2>1. e = NormalizeLabel(d, c)
    BY <1>2 DEF Normalized
  <2>2. QED
    BY <1>2, <2>1, LabelsAreInside DEF IsTaken, NormalizedField, LabelField
<1>3. CASE field = "prior_period_value"
  <2>1. e = NormalizePriorPeriod(d, c)
    BY <1>3 DEF Normalized
  <2>2. \/ e = d
        \/ /\ e.value = e.text
           /\ \E n \in Number \cap ToSet(d.value \o d.text) : e.text = <<n, Space, "in Q1">>
    BY <2>1, PriorPeriodsAreInside
  <2>3. Lies(d, d)
    BY DraftsArePartsOfThemselves DEF IsPart
  <2> HIDE DEF e
  <2>4. QED
    BY <1>3, <2>2, <2>3 DEF IsTaken, NormalizedField, e
<1>4. CASE field = "effective_date"
  <2>1. e = NormalizeEffectiveDate(d, c)
    BY <1>4 DEF Normalized
  <2>2. GoesOn(e, d, c)
    BY <2>1, EffectiveDatesAreInside
  <2> HIDE DEF e
  <2>3. e = d \/ e.value = e.text
    BY <2>2 DEF GoesOn
  <2>4. QED
    BY <1>4, <2>2, <2>3 DEF IsTaken, e
<1>5. CASE field = "condition"
  <2>1. e = NormalizeCondition(d, c)
    BY <1>5 DEF Normalized
  <2>2. GoesOn(e, d, c)
    BY <2>1, ConditionsAreInside
  <2> HIDE DEF e
  <2>3. e = d \/ e.value = e.text
    BY <2>2 DEF GoesOn
  <2>4. QED
    BY <1>5, <2>2, <2>3 DEF IsTaken, e
<1>6. CASE field \in {"target_value", "notable_qualifier", "asset_detail", "speaker"}
  <2>1. e \in {NormalizeRole(d, c), NormalizeQualifier(d, c), NormalizeAssetDetail(d, c),
               NormalizeSpeaker(d, c)}
    BY <1>6 DEF Normalized
  <2>2. IsPart(e, d)
    BY <2>1, RolesAreInside, QualifiersAreInside, AssetDetailsAreInside, SpeakersAreInside
  <2> HIDE DEF e
  <2>3. QED
    BY <1>6, <2>2 DEF IsPart, IsTaken, NormalizedField, e
<1>7. QED
  BY <1>1, <1>2, <1>3, <1>4, <1>5, <1>6 DEF NormalizedField

-----------------------------------------------------------------------------
(* What the stages make of a candidate                                     *)

LEMMA BytesAreCounted ==
  ASSUME NEW t \in Text
  PROVE  ByteLen(t) \in Nat
<1> DEFINE wide == {i \in DOMAIN t : WidthOf(t[i]) = 2}
<1>1. Len(t) \in Nat /\ DOMAIN t = 1 .. Len(t)
  BY WordsArePositions
<1>2. IsFiniteSet(1 .. Len(t))
  <2>1. 1 \in Int /\ Len(t) \in Int
    BY <1>1
  <2>2. QED
    BY <2>1, FS_Interval
<1>3. wide \subseteq 1 .. Len(t)
  BY <1>1
<1>4. Cardinality(wide) \in Nat
  <2> HIDE DEF wide
  <2>1. IsFiniteSet(wide)
    BY <1>2, <1>3, FS_Subset
  <2>2. QED
    BY <2>1, FS_CardinalityType
<1>5. QED
  BY <1>1, <1>4 DEF ByteLen

(* SpanAt makes a placed span of a position and a text inside the chunk.   *)
LEMMA PlacedSpans ==
  ASSUME NEW c, NEW at \in Int, NEW t \in Text,
         c.start <= at, at + Len(t) <= c.start + Len(c.text)
  PROVE  SpanIsPlaced(SpanAt(c, at, t), c)
<1>1. SpanAt(c, at, t).start = at /\ SpanAt(c, at, t).text = t
      /\ SpanAt(c, at, t).end = at + Len(t)
  BY DEF SpanAt
<1>2. QED
  BY <1>1 DEF SpanIsPlaced

LEMMA PlacedSpansAreTyped ==
  ASSUME NEW c \in Chunks, NEW span, SpanIsPlaced(span, c)
  PROVE  /\ span.start \in Int /\ span.end \in Int /\ span.text \in Text
         /\ Len(span.text) \in Nat /\ span.end = span.start + Len(span.text)
         /\ span.startByte = c.startByte + ByteLen(Slice(c.text, 0, span.start - c.start))
         /\ span.endByte = span.startByte + ByteLen(span.text)
<1>1. span.start \in Int /\ span.text \in Text /\ Len(span.text) \in Nat
  BY WordsArePositions DEF SpanIsPlaced
<1>2. /\ span.end = span.start + Len(span.text)
      /\ span.startByte = c.startByte + ByteLen(Slice(c.text, 0, span.start - c.start))
      /\ span.endByte = c.startByte + ByteLen(Slice(c.text, 0, span.start - c.start))
                        + ByteLen(span.text)
  BY DEF SpanIsPlaced, SpanAt
<1>3. QED
  BY <1>1, <1>2

(* A span that matches its chunk has the chunk's characters, and its bytes *)
(* are where its characters are.                                           *)
LEMMA MatchingSpansAreGrounded ==
  ASSUME NEW c \in Chunks, NEW span, SpanIsPlaced(span, c), SpanMatches(span, c)
  PROVE  /\ \A k \in 1 .. (span.end - span.start) :
              span.text[k] = c.text[span.start - c.start + k]
         /\ span.startByte - c.startByte = ByteLen(SubSeq(c.text, 1, span.start - c.start))
         /\ span.endByte - span.startByte = ByteLen(span.text)
<1> DEFINE a == span.start - c.start
           b == span.end - c.start
<1>1. /\ c.text \in Text /\ Len(c.text) \in Nat /\ c.start \in Nat /\ c.startByte \in Nat
  BY ChunksAreTyped
<1>2. /\ span.start \in Int /\ span.end \in Int /\ span.text \in Text
      /\ Len(span.text) \in Nat /\ span.end = span.start + Len(span.text)
      /\ span.startByte = c.startByte + ByteLen(Slice(c.text, 0, a))
      /\ span.endByte = span.startByte + ByteLen(span.text)
  BY PlacedSpansAreTyped
<1>3. c.start <= span.start /\ span.end <= c.start + Len(c.text)
  BY DEF SpanIsPlaced
<1>4. a \in Nat /\ b \in Nat /\ a <= b /\ b <= Len(c.text) /\ a <= Len(c.text)
      /\ b - a = span.end - span.start
  <2> DEFINE from == span.start
             upto == span.end
             origin == c.start
             wide == Len(c.text)
             long == Len(span.text)
  <2>1. /\ from \in Int /\ upto = from + long /\ origin <= from /\ upto <= origin + wide
        /\ origin \in Nat /\ wide \in Nat /\ long \in Nat
    BY <1>1, <1>2, <1>3
  <2> HIDE DEF from, upto, origin, wide, long
  <2>2. /\ from - origin \in Nat /\ upto - origin \in Nat /\ from - origin <= upto - origin
        /\ upto - origin <= wide /\ from - origin <= wide
        /\ (upto - origin) - (from - origin) = upto - from
    BY <2>1
  <2>3. QED
    BY <2>2 DEF from, upto, origin, wide
<1>5. Slice(c.text, a, b) = span.text
  BY DEF SpanMatches
<1> HIDE DEF a, b
<1>6. \A k \in 1 .. b - a : span.text[k] = c.text[a + k]
  <2>1. \A k \in 1 .. b - a : Slice(c.text, a, b)[k] = c.text[a + k]
    BY <1>1, <1>4, SlicesAreTexts
  <2>2. QED
    BY <1>5, <2>1
<1>7. Slice(c.text, 0, a) = SubSeq(c.text, 1, a)
  BY DEF Slice
<1>8. Slice(c.text, 0, a) \in Text
  <2>1. 0 \in Nat /\ 0 <= a
    BY <1>4
  <2>2. QED
    BY <1>1, <1>4, <2>1, SlicesAreTexts
<1>9. ByteLen(SubSeq(c.text, 1, a)) \in Nat /\ ByteLen(span.text) \in Nat
  BY <1>2, <1>7, <1>8, BytesAreCounted
<1>10. span.startByte - c.startByte = ByteLen(SubSeq(c.text, 1, a))
  <2>1. span.startByte = c.startByte + ByteLen(SubSeq(c.text, 1, a))
    BY <1>2, <1>7
  <2>2. QED
    BY <1>1, <1>9, <2>1
<1>11. span.endByte - span.startByte = ByteLen(span.text)
  <2>1. span.startByte \in Nat
    <3>1. span.startByte = c.startByte + ByteLen(SubSeq(c.text, 1, a))
      BY <1>2, <1>7
    <3>2. QED
      BY <1>1, <1>9, <3>1
  <2>2. QED
    BY <1>2, <1>9, <2>1
<1>12. QED
  BY <1>4, <1>6, <1>10, <1>11 DEF a

LEMMA BuiltSpansArePlaced ==
  ASSUME NEW c \in Chunks, NEW p \in Payload(c) \cup DerivedPayloads(c)
  PROVE  SpanIsPlaced(Built(p, c).span, c)
<1> DEFINE d == Prepare(p, ResolveSource(p, c), c)
<1>1. Inside(d, c)
  BY DraftsAreInside
<1>2. Built(p, c).span = SpanAt(c, d.start, d.text)
  BY DEF Built, BuildCandidate
<1> HIDE DEF d
<1>3. d.start \in Int /\ d.text \in Text
      /\ c.start <= d.start /\ d.start + Len(d.text) <= c.start + Len(c.text)
  BY <1>1 DEF Inside
<1>4. QED
  BY <1>2, <1>3, PlacedSpans

(* Nothing of what the verifier's own checks look for is wrong with a      *)
(* candidate it accepts; with a candidate nothing is wrong with, only an   *)
(* objection that is a judgement is left of the model's.                   *)
LEMMA VerifierIsMechanical ==
  ASSUME NEW c, NEW o, NEW v
  PROVE  LET r == VerifierReport(v, o, c)
         IN  /\ r.accepted => /\ SpanMatches(o.span, c) /\ IsApproved(o)
                              /\ IsLabel(o) \/ IsSupported(o)
             /\ /\ v.code \in RejectionReasonCode \cup {"none"} /\ (v.code = "none" => v.decision = "accept")
                /\ ~r.accepted /\ IsMechanicallyValid(o, c)
                => /\ \E code \in JudgementCode : r.reasons = {code}
                   /\ r.spanVerified /\ r.categoryVerified
<1> DEFINE r == VerifierReport(v, o, c)
           left == {code \in Objections(v) : ~IsFalse(code, o, c)}
           reasons == left \cup VerifierChecks(o, c)
<1>1. /\ r.accepted = (reasons = {}) /\ r.reasons = reasons
      /\ r.spanVerified = (reasons \cap {"invented_span", "invalid_source_offsets",
                                         "ambiguous_source_span"} = {})
      /\ r.categoryVerified = (reasons \cap {"category_not_approved", "schema_violation"} = {})
  BY DEF VerifierReport
<1>2. ASSUME VerifierChecks(o, c) = {}
      PROVE  SpanMatches(o.span, c) /\ IsApproved(o) /\ (IsLabel(o) \/ IsSupported(o))
  <2>1. SlotReasons(o) = {} /\ ~(~SpanMatches(o.span, c) \/ (NeedsSupport(o) /\ ~IsSupported(o)))
    BY <1>2 DEF VerifierChecks
  <2>2. IsApproved(o)
    BY <2>1 DEF SlotReasons, IsApproved
  <2>3. QED
    BY <2>1, <2>2 DEF NeedsSupport
<1>3. ASSUME v.code \in RejectionReasonCode \cup {"none"}, v.code = "none" => v.decision = "accept",
             reasons # {}, IsMechanicallyValid(o, c)
      PROVE  reasons = {v.code} /\ v.code \in JudgementCode
  <2>1. IsApproved(o) /\ SpanMatches(o.span, c) /\ IsSupported(o)
    BY <1>3 DEF IsMechanicallyValid
  <2>2. VerifierChecks(o, c) = {}
    <3>1. SlotReasons(o) = {}
      BY <2>1 DEF SlotReasons, IsApproved
    <3>2. QED
      BY <2>1, <3>1 DEF VerifierChecks
  <2>3. ASSUME NEW code \in left PROVE code = v.code /\ code \in JudgementCode
    <3>1. code = v.code /\ v.decision # "accept" /\ ~IsFalse(code, o, c)
      BY <2>3 DEF Objections
    <3>2. code \in RejectionReasonCode
      BY <1>3, <3>1
    <3>3. QED
      BY <2>1, <3>1, <3>2 DEF RejectionReasonCode, JudgementCode, IsFalse
  <2>4. QED
    BY <1>3, <2>2, <2>3
<1> HIDE DEF left, r
<1>4. ASSUME r.accepted
      PROVE  SpanMatches(o.span, c) /\ IsApproved(o) /\ (IsLabel(o) \/ IsSupported(o))
  BY <1>1, <1>2, <1>4
<1>5. ASSUME v.code \in RejectionReasonCode \cup {"none"}, v.code = "none" => v.decision = "accept",
             ~r.accepted, IsMechanicallyValid(o, c)
      PROVE  /\ \E code \in JudgementCode : r.reasons = {code}
             /\ r.spanVerified /\ r.categoryVerified
  <2>1. reasons = {v.code} /\ v.code \in JudgementCode
    BY <1>1, <1>3, <1>5
  <2>2. v.code \notin {"invented_span", "invalid_source_offsets", "ambiguous_source_span",
                       "category_not_approved", "schema_violation"}
    BY <2>1 DEF JudgementCode
  <2> HIDE DEF reasons
  <2>3. QED
    BY <1>1, <2>1, <2>2
<1>6. QED
  BY <1>4, <1>5 DEF r

-----------------------------------------------------------------------------
(* The bytes of a stretch                                                  *)

LEMMA ShiftedSets ==
  ASSUME NEW n \in Nat, NEW S \in SUBSET (1 .. n), NEW d \in Int, NEW T,
         T = {i + d : i \in S}
  PROVE  /\ IsFiniteSet(S) /\ Cardinality(S) \in Nat
         /\ IsFiniteSet(T) /\ Cardinality(T) = Cardinality(S)
<1> DEFINE f == [i \in S |-> i + d]
<1>1. IsFiniteSet(S)
  <2>1. IsFiniteSet(1 .. n)
    <3>1. 1 \in Int /\ n \in Int
      OBVIOUS
    <3>2. QED
      BY <3>1, FS_Interval
  <2>2. QED
    BY <2>1, FS_Subset
<1>2. \A i \in S : i \in Int
  OBVIOUS
<1>3. f \in [S -> T] /\ \A i \in S : f[i] = i + d
  OBVIOUS
<1>4. \A i, j \in S : f[i] = f[j] => i = j
  BY <1>2, <1>3
<1>5. \A t \in T : \E i \in S : f[i] = t
  BY <1>3
<1> HIDE DEF f
<1>6. f \in Bijection(S, T)
  BY <1>3, <1>4, <1>5 DEF Bijection, Injection, Surjection, IsInjective
<1>7. ExistsBijection(S, T)
  BY <1>6 DEF ExistsBijection
<1>8. QED
  BY <1>1, <1>7, FS_Bijection, FS_CardinalityType

(* The bytes of a stretch that is cut in two.                              *)
LEMMA BytesAddUp ==
  ASSUME NEW t \in Text, NEW a \in Nat, NEW b \in Nat, a <= b, b <= Len(t)
  PROVE  /\ ByteLen(Slice(t, 0, a)) \in Nat /\ ByteLen(Slice(t, a, b)) \in Nat
         /\ ByteLen(Slice(t, 0, b)) = ByteLen(Slice(t, 0, a)) + ByteLen(Slice(t, a, b))
<1> DEFINE head == Slice(t, 0, a)
           tail == Slice(t, a, b)
           both == Slice(t, 0, b)
           wide(s) == {i \in DOMAIN s : WidthOf(s[i]) = 2}
           moved == {i + a : i \in wide(tail)}
<1>1. /\ head \in Text /\ Len(head) = a /\ \A k \in 1 .. a : head[k] = t[k]
      /\ tail \in Text /\ Len(tail) = b - a /\ \A k \in 1 .. b - a : tail[k] = t[a + k]
      /\ both \in Text /\ Len(both) = b /\ \A k \in 1 .. b : both[k] = t[k]
  <2>1. /\ 0 \in Nat /\ 0 <= a /\ 0 <= b /\ Len(t) \in Nat /\ a <= Len(t)
        /\ a - 0 = a /\ b - 0 = b
    BY WordsArePositions
  <2>2. /\ head \in Text /\ Len(head) = a - 0 /\ \A k \in 1 .. a - 0 : head[k] = t[0 + k]
    BY <2>1, SlicesAreTexts
  <2>3. /\ both \in Text /\ Len(both) = b - 0 /\ \A k \in 1 .. b - 0 : both[k] = t[0 + k]
    BY <2>1, SlicesAreTexts
  <2>4. /\ tail \in Text /\ Len(tail) = b - a /\ \A k \in 1 .. b - a : tail[k] = t[a + k]
    BY SlicesAreTexts
  <2>5. \A k \in Nat : 0 + k = k
    OBVIOUS
  <2> HIDE DEF head, tail, both
  <2>6. QED
    BY <2>1, <2>2, <2>3, <2>4, <2>5
<1>2. ByteLen(head) \in Nat /\ ByteLen(tail) \in Nat
  BY <1>1, BytesAreCounted
<1> HIDE DEF head, tail, both
<1>3. DOMAIN head = 1 .. a /\ DOMAIN tail = 1 .. b - a /\ DOMAIN both = 1 .. b
  BY <1>1, WordsArePositions
<1>4. /\ ByteLen(head) = a + Cardinality(wide(head))
      /\ ByteLen(tail) = (b - a) + Cardinality(wide(tail))
      /\ ByteLen(both) = b + Cardinality(wide(both))
  BY <1>1 DEF ByteLen
<1>5. /\ wide(head) = {i \in 1 .. a : WidthOf(t[i]) = 2}
      /\ wide(tail) = {i \in 1 .. b - a : WidthOf(t[a + i]) = 2}
      /\ wide(both) = {i \in 1 .. b : WidthOf(t[i]) = 2}
  BY <1>1, <1>3
<1>6. moved = {i \in (a + 1) .. b : WidthOf(t[i]) = 2}
  <2>1. \A i \in (a + 1) .. b : i - a \in 1 .. b - a /\ a + (i - a) = i /\ (i - a) + a = i
    OBVIOUS
  <2>2. \A i \in 1 .. b - a : i + a \in (a + 1) .. b /\ a + i = i + a
    OBVIOUS
  <2>3. moved = {i + a : i \in {k \in 1 .. b - a : WidthOf(t[a + k]) = 2}}
    BY <1>5
  <2> HIDE DEF moved
  <2>4. ASSUME NEW i \in moved PROVE i \in (a + 1) .. b /\ WidthOf(t[i]) = 2
    BY <2>2, <2>3
  <2>5. ASSUME NEW i \in (a + 1) .. b, WidthOf(t[i]) = 2 PROVE i \in moved
    <3>1. i - a \in {k \in 1 .. b - a : WidthOf(t[a + k]) = 2} /\ (i - a) + a = i
      BY <2>1, <2>5
    <3>2. QED
      BY <2>3, <3>1
  <2>6. QED
    BY <2>4, <2>5
<1>7. wide(both) = wide(head) \cup moved /\ wide(head) \cap moved = {}
  BY <1>5, <1>6
<1>8. /\ wide(head) \in SUBSET (1 .. a)
      /\ wide(tail) \in SUBSET (1 .. b - a) /\ b - a \in Nat
  BY <1>5
<1> HIDE DEF wide
<1>9. /\ IsFiniteSet(wide(tail)) /\ Cardinality(wide(tail)) \in Nat
      /\ IsFiniteSet(moved) /\ Cardinality(moved) = Cardinality(wide(tail))
  <2> HIDE DEF moved
  <2> DEFINE n == b - a
  <2>1. wide(tail) \in SUBSET (1 .. n) /\ n \in Nat /\ a \in Int
    BY <1>8
  <2>2. moved = {i + a : i \in wide(tail)}
    BY DEF moved
  <2> HIDE DEF n
  <2>3. QED
    BY <2>1, <2>2, ShiftedSets
<1>10. IsFiniteSet(wide(head)) /\ Cardinality(wide(head)) \in Nat
  <2>1. IsFiniteSet(1 .. a)
    <3>1. 1 \in Int /\ a \in Int
      OBVIOUS
    <3>2. QED
      BY <3>1, FS_Interval
  <2>2. QED
    BY <1>8, <2>1, FS_Subset, FS_CardinalityType
<1> HIDE DEF moved
<1>11. Cardinality(wide(both)) = Cardinality(wide(head)) + Cardinality(wide(tail))
  <2>1. Cardinality(wide(both)) =
          Cardinality(wide(head)) + Cardinality(moved) - Cardinality({})
    BY <1>7, <1>9, <1>10, FS_Union, ZenonT(60)
  <2>2. Cardinality({}) = 0
    BY FS_EmptySet
  <2>3. QED
    BY <1>9, <1>10, <2>1, <2>2
<1>12. ByteLen(both) = ByteLen(head) + ByteLen(tail)
  BY <1>4, <1>9, <1>10, <1>11
<1>13. QED
  BY <1>2, <1>12 DEF head, tail, both

LEMMA OneAtomsBytes ==
  ASSUME NEW t \in Text, NEW i \in 1 .. Len(t)
  PROVE  /\ ByteLen(Slice(t, 0, i - 1)) \in Nat /\ WidthOf(t[i]) \in {1, 2}
         /\ ByteLen(Slice(t, 0, i)) = ByteLen(Slice(t, 0, i - 1)) + WidthOf(t[i])
<1> DEFINE a == i - 1
           one == Slice(t, a, i)
           wide == {k \in DOMAIN one : WidthOf(one[k]) = 2}
<1>1. Len(t) \in Nat /\ a \in Nat /\ i \in Nat /\ a <= i /\ i <= Len(t) /\ i - a = 1 /\ a + 1 = i
  BY WordsArePositions
<1>2. WidthOf(t[i]) \in {1, 2}
  BY DEF WidthOf
<1> HIDE DEF a
<1>3. one \in Text /\ Len(one) = 1 /\ one[1] = t[i]
  <2>1. one \in Text /\ Len(one) = i - a /\ \A k \in 1 .. i - a : one[k] = t[a + k]
    BY <1>1, SlicesAreTexts
  <2> HIDE DEF one
  <2>2. QED
    BY <1>1, <2>1
<1>4. /\ ByteLen(Slice(t, 0, a)) \in Nat
      /\ ByteLen(Slice(t, 0, i)) = ByteLen(Slice(t, 0, a)) + ByteLen(one)
  BY <1>1, BytesAddUp
<1> HIDE DEF one
<1>5. DOMAIN one = {1} /\ ByteLen(one) = 1 + Cardinality(wide)
  BY <1>3, WordsArePositions DEF ByteLen
<1>6. Cardinality(wide) = IF WidthOf(t[i]) = 2 THEN 1 ELSE 0
  <2>1. wide = IF WidthOf(t[i]) = 2 THEN {1} ELSE {}
    BY <1>3, <1>5
  <2> HIDE DEF wide
  <2>2. QED
    BY <2>1, FS_EmptySet, FS_Singleton
<1>7. ByteLen(one) = WidthOf(t[i])
  BY <1>2, <1>5, <1>6
<1>8. QED
  BY <1>2, <1>4, <1>7 DEF a

(* The bytes of a stretch of a text are those of the text between the      *)
(* places where the bytes of the stretch begin and end.                    *)
ByteAt(t, i, k) == <<ByteLen(Slice(t, 0, i - 1)) + k, t[i], k>>

LEMMA BytesAre ==
  ASSUME NEW t \in Text
  PROVE  /\ \A i \in 1 .. Len(t), k \in {1, 2} : k <= WidthOf(t[i]) => ByteAt(t, i, k) \in Bytes(t)
         /\ \A y \in Bytes(t) : \E i \in 1 .. Len(t), k \in {1, 2} :
              k <= WidthOf(t[i]) /\ y = ByteAt(t, i, k)
<1>1. DOMAIN t = 1 .. Len(t)
  BY WordsArePositions
<1> DEFINE places == {q \in (DOMAIN t) \X {1, 2} : q[2] <= WidthOf(t[q[1]])}
<1>2. Bytes(t) = {ByteAt(t, p[1], p[2]) : p \in places}
  BY DEF Bytes, ByteAt
<1>3. ASSUME NEW i \in 1 .. Len(t), NEW k \in {1, 2}, k <= WidthOf(t[i])
      PROVE  ByteAt(t, i, k) \in Bytes(t)
  <2>1. <<i, k>> \in places
    BY <1>1, <1>3
  <2>2. <<i, k>>[1] = i /\ <<i, k>>[2] = k
    OBVIOUS
  <2> HIDE DEF places
  <2>3. QED
    BY <1>2, <2>1, <2>2
<1>4. ASSUME NEW y \in Bytes(t)
      PROVE  \E i \in 1 .. Len(t), k \in {1, 2} : k <= WidthOf(t[i]) /\ y = ByteAt(t, i, k)
  <2>1. PICK p \in places : y = ByteAt(t, p[1], p[2])
    BY <1>2
  <2>2. p[1] \in 1 .. Len(t) /\ p[2] \in {1, 2} /\ p[2] <= WidthOf(t[p[1]])
    BY <1>1
  <2>3. QED
    BY <2>1, <2>2
<1>5. QED
  BY <1>3, <1>4

LEMMA BytesOfAStretch ==
  ASSUME NEW t \in Text, NEW a \in Nat, NEW b \in Nat, a <= b, b <= Len(t)
  PROVE  ByteSlice(t, ByteLen(Slice(t, 0, a)), ByteLen(Slice(t, 0, b))) = Bytes(Slice(t, a, b))
<1> DEFINE s == Slice(t, a, b)
           B(i) == ByteLen(Slice(t, 0, i))
           lo == B(a)
           hi == B(b)
<1>1. /\ Len(t) \in Nat
      /\ s \in Text /\ Len(s) = b - a /\ \A k \in 1 .. b - a : s[k] = t[a + k]
  BY SlicesAreTexts, WordsArePositions
<1>2. ASSUME NEW i \in 0 .. Len(t), NEW j \in 0 .. Len(t), i <= j
      PROVE  B(i) \in Nat /\ B(j) \in Nat /\ B(i) <= B(j)
  <2>1. i \in Nat /\ j \in Nat /\ j <= Len(t)
    BY <1>1
  <2>2. /\ ByteLen(Slice(t, 0, i)) \in Nat /\ ByteLen(Slice(t, i, j)) \in Nat
        /\ ByteLen(Slice(t, 0, j)) = ByteLen(Slice(t, 0, i)) + ByteLen(Slice(t, i, j))
    BY <1>2, <2>1, BytesAddUp
  <2>3. QED
    BY <2>2
<1>3. a \in 0 .. Len(t) /\ b \in 0 .. Len(t) /\ lo \in Nat /\ hi \in Nat
  <2>1. a \in 0 .. Len(t) /\ b \in 0 .. Len(t)
    BY <1>1
  <2>2. QED
    BY <1>2, <2>1
(* Bytes before those of an atom of the stretch, in the text and in the    *)
(* stretch.                                                                *)
<1>4. ASSUME NEW m \in 1 .. b - a
      PROVE  /\ ByteLen(Slice(s, 0, m - 1)) \in Nat
             /\ B(a + m - 1) = lo + ByteLen(Slice(s, 0, m - 1))
  <2> DEFINE i == a + m - 1
             n == m - 1
  <2>1. /\ i \in Nat /\ a <= i /\ i <= Len(t) /\ n \in Nat /\ 0 \in Nat /\ 0 <= n
        /\ n <= Len(s) /\ i - a = n /\ n - 0 = n /\ i <= b
    BY <1>1
  <2> HIDE DEF s, i, n
  <2>2. /\ ByteLen(Slice(t, a, i)) \in Nat
        /\ ByteLen(Slice(t, 0, i)) = ByteLen(Slice(t, 0, a)) + ByteLen(Slice(t, a, i))
    BY <2>1, BytesAddUp
  <2>3. Slice(t, a, i) = Slice(s, 0, n)
    <3>1. /\ Slice(t, a, i) \in Text /\ Len(Slice(t, a, i)) = i - a
          /\ \A k \in 1 .. i - a : Slice(t, a, i)[k] = t[a + k]
      BY <2>1, SlicesAreTexts
    <3>2. /\ Slice(s, 0, n) \in Text /\ Len(Slice(s, 0, n)) = n - 0
          /\ \A k \in 1 .. n - 0 : Slice(s, 0, n)[k] = s[0 + k]
      BY <1>1, <2>1, SlicesAreTexts
    <3>3. \A k \in 1 .. n : 0 + k = k /\ k \in 1 .. b - a
      BY <1>1, <2>1
    <3>4. \A k \in 1 .. n : Slice(t, a, i)[k] = Slice(s, 0, n)[k]
      BY <1>1, <2>1, <3>1, <3>2, <3>3
    <3>5. QED
      BY <2>1, <3>1, <3>2, <3>4 DEF Text
  <2>4. QED
    BY <2>2, <2>3 DEF i, n
<1>5. ASSUME NEW i \in 1 .. Len(t), NEW k \in {1, 2}, k <= WidthOf(t[i])
      PROVE  B(i - 1) + k \in Nat /\ B(i - 1) < B(i - 1) + k /\ B(i - 1) + k <= B(i)
  BY <1>5, OneAtomsBytes
<1> HIDE DEF B
<1>6. ASSUME NEW y \in Bytes(s) PROVE y \in ByteSlice(t, lo, hi)
  <2>1. PICK m \in 1 .. Len(s), k \in {1, 2} : k <= WidthOf(s[m]) /\ y = ByteAt(s, m, k)
    <3> HIDE DEF s
    <3> QED
      BY <1>1, BytesAre
  <2> HIDE DEF s
  <2> DEFINE i == a + m
             x == ByteAt(t, i, k)
             c == ByteLen(Slice(s, 0, m - 1))
  <2>2. m \in 1 .. b - a /\ i \in 1 .. Len(t) /\ s[m] = t[i] /\ i - 1 = a + m - 1
        /\ i \in 0 .. Len(t) /\ i - 1 \in 0 .. Len(t) /\ i <= b /\ a <= i - 1
    BY <1>1
  <2>3. x \in Bytes(t)
    BY <2>1, <2>2, BytesAre
  <2>4. B(i - 1) = lo + c /\ c \in Nat
    <3>1. B(a + m - 1) = lo + c /\ c \in Nat
      BY <1>4, <2>2
    <3>2. QED
      BY <2>2, <3>1
  <2>5. x[1] = B(i - 1) + k /\ x[2] = t[i] /\ x[3] = k
    BY DEF ByteAt, B
  <2>6. lo < x[1] /\ x[1] <= hi /\ x[1] - lo = c + k
    <3>1. B(i - 1) + k \in Nat /\ B(i - 1) < B(i - 1) + k /\ B(i - 1) + k <= B(i)
      BY <1>5, <2>1, <2>2
    <3>2. B(i) <= hi /\ B(i) \in Nat
      BY <1>2, <1>3, <2>2
    <3> HIDE DEF lo, hi, c, x
    <3>3. k \in Nat /\ lo \in Nat /\ hi \in Nat
      BY <1>3
    <3>4. lo < x[1] /\ x[1] <= hi
      BY <2>4, <2>5, <3>1, <3>2, <3>3
    <3>5. x[1] - lo = c + k
      BY <2>4, <2>5, <3>3
    <3>6. QED
      BY <3>4, <3>5
  <2>7. y = <<c + k, s[m], k>>
    BY <2>1 DEF ByteAt
  <2> HIDE DEF x, c
  <2>8. y = <<x[1] - lo, x[2], x[3]>>
    BY <2>2, <2>5, <2>6, <2>7
  <2>9. QED
    BY <2>3, <2>6, <2>8 DEF ByteSlice
<1>7. ASSUME NEW y \in ByteSlice(t, lo, hi) PROVE y \in Bytes(s)
  <2>1. PICK x \in Bytes(t) : lo < x[1] /\ x[1] <= hi /\ y = <<x[1] - lo, x[2], x[3]>>
    BY DEF ByteSlice
  <2>2. PICK i \in 1 .. Len(t), k \in {1, 2} : k <= WidthOf(t[i]) /\ x = ByteAt(t, i, k)
    BY BytesAre
  <2>3. x[1] = B(i - 1) + k /\ x[2] = t[i] /\ x[3] = k
    BY <2>2 DEF ByteAt, B
  <2>4. B(i - 1) + k \in Nat /\ B(i - 1) < B(i - 1) + k /\ B(i - 1) + k <= B(i)
    BY <1>5, <2>2
  <2>5. i \in 0 .. Len(t) /\ i - 1 \in 0 .. Len(t)
    BY <1>1
  <2>6. a < i
    <3>1. SUFFICES ASSUME i <= a PROVE FALSE
      BY <1>1
    <3>2. B(i) <= lo /\ B(i) \in Nat
      BY <1>2, <1>3, <2>5, <3>1
    <3>3. QED
      BY <1>3, <2>1, <2>3, <2>4, <3>2
  <2>7. i <= b
    <3>1. SUFFICES ASSUME b <= i - 1 PROVE FALSE
      BY <1>1
    <3>2. hi <= B(i - 1) /\ B(i - 1) \in Nat
      BY <1>2, <1>3, <2>5, <3>1
    <3>3. QED
      BY <1>3, <2>1, <2>3, <2>4, <3>2
  <2> DEFINE m == i - a
             c == ByteLen(Slice(s, 0, m - 1))
  <2>8. m \in 1 .. b - a /\ a + m = i /\ a + m - 1 = i - 1
    BY <1>1, <2>6, <2>7
  <2>9. B(i - 1) = lo + c /\ c \in Nat
    <3> HIDE DEF m
    <3>1. B(a + m - 1) = lo + c /\ c \in Nat
      BY <1>4, <2>8
    <3>2. QED
      BY <2>8, <3>1
  <2> HIDE DEF s, m
  <2>10. s[m] = t[i] /\ m \in 1 .. Len(s)
    BY <1>1, <2>8
  <2>11. ByteAt(s, m, k) \in Bytes(s)
    BY <1>1, <2>2, <2>10, BytesAre
  <2>12. x[1] - lo = c + k
    BY <1>3, <2>3, <2>9
  <2>13. ByteAt(s, m, k) = <<c + k, s[m], k>>
    BY DEF ByteAt
  <2>14. y = ByteAt(s, m, k)
    BY <2>1, <2>3, <2>10, <2>12, <2>13
  <2>15. QED
    BY <2>11, <2>14
<1>8. QED
  <2> HIDE DEF s, lo, hi
  <2>1. ByteSlice(t, lo, hi) = Bytes(s)
    BY <1>6, <1>7
  <2>2. QED
    BY <2>1 DEF s, lo, hi, B

(* A stretch of a chunk matches the chunk, in characters and in bytes.     *)
LEMMA StretchesMatch ==
  ASSUME NEW c \in Chunks, NEW d, Inside(d, c)
  PROVE  SpanMatches(SpanAt(c, d.start, d.text), c)
<1> DEFINE span == SpanAt(c, d.start, d.text)
           a == d.start - c.start
           b == a + Len(d.text)
           B(i) == ByteLen(Slice(c.text, 0, i))
<1>1. /\ c.text \in Text /\ Len(c.text) \in Nat /\ c.start \in Nat /\ c.startByte \in Nat
      /\ d.start \in Int /\ d.text \in Text /\ Len(d.text) \in Nat
      /\ c.start <= d.start /\ d.start + Len(d.text) <= c.start + Len(c.text)
      /\ \A k \in 1 .. Len(d.text) : d.text[k] = c.text[d.start - c.start + k]
  BY ChunksAreTyped, WordsArePositions DEF Inside
<1>2. a \in Nat /\ b \in Nat /\ a <= b /\ b <= Len(c.text) /\ b - a = Len(d.text)
      /\ d.start + Len(d.text) - c.start = b
  <2> DEFINE x == d.start
             y == c.start
             l == Len(d.text)
             m == Len(c.text)
  <2>1. x \in Int /\ y \in Nat /\ l \in Nat /\ m \in Nat /\ y <= x /\ x + l <= y + m
    BY <1>1
  <2>2. a = x - y /\ b = x - y + l
    OBVIOUS
  <2> HIDE DEF x, y, l, m, a, b
  <2>3. a \in Nat /\ b \in Nat /\ a <= b /\ b <= m /\ b - a = l /\ x + l - y = b
    BY <2>1, <2>2
  <2>4. QED
    BY <2>3 DEF x, y, l, m
<1>3. /\ span.start = d.start /\ span.text = d.text
      /\ span.end = d.start + Len(d.text)
      /\ span.startByte = c.startByte + B(a)
      /\ span.endByte = c.startByte + B(a) + ByteLen(d.text)
  BY DEF SpanAt
<1> HIDE DEF span
<1>4. Slice(c.text, a, b) = d.text
  <2>1. \A k \in 1 .. b - a : d.text[k] = c.text[a + k]
    BY <1>1, <1>2
  <2> HIDE DEF a, b
  <2>2. /\ Slice(c.text, a, b) \in Text /\ Len(Slice(c.text, a, b)) = b - a
        /\ \A k \in 1 .. b - a : Slice(c.text, a, b)[k] = c.text[a + k]
    BY <1>1, <1>2, SlicesAreTexts, ZenonT(60)
  <2>3. \A k \in 1 .. b - a : Slice(c.text, a, b)[k] = d.text[k]
    BY <2>1, <2>2
  <2>4. QED
    BY <1>1, <1>2, <2>2, <2>3, SMTT(30) DEF Text
<1>5. span.start - c.start = a /\ span.end - c.start = b
  BY <1>1, <1>3
<1> HIDE DEF a, b
<1>6. B(a) \in Nat /\ ByteLen(d.text) \in Nat /\ B(b) = B(a) + ByteLen(d.text)
  <2>1. /\ ByteLen(Slice(c.text, 0, a)) \in Nat /\ ByteLen(Slice(c.text, a, b)) \in Nat
        /\ ByteLen(Slice(c.text, 0, b)) =
             ByteLen(Slice(c.text, 0, a)) + ByteLen(Slice(c.text, a, b))
    BY <1>1, <1>2, BytesAddUp, ZenonT(60)
  <2>2. QED
    BY <1>4, <2>1
<1>7. B(b) <= ByteLen(c.text)
  <2> DEFINE n == Len(c.text)
  <2>1. n \in Nat /\ n <= Len(c.text) /\ b <= n
    BY <1>1, <1>2
  <2>2. Slice(c.text, 0, n) = c.text
    BY <1>1 DEF Slice, Text
  <2> HIDE DEF n
  <2>3. /\ ByteLen(Slice(c.text, 0, b)) \in Nat /\ ByteLen(Slice(c.text, b, n)) \in Nat
        /\ ByteLen(Slice(c.text, 0, n)) =
             ByteLen(Slice(c.text, 0, b)) + ByteLen(Slice(c.text, b, n))
    BY <1>1, <1>2, <2>1, BytesAddUp, ZenonT(60)
  <2>4. QED
    BY <2>2, <2>3
<1>8. ByteSlice(c.text, B(a), B(b)) = Bytes(d.text)
  <2>1. ByteSlice(c.text, ByteLen(Slice(c.text, 0, a)), ByteLen(Slice(c.text, 0, b)))
          = Bytes(Slice(c.text, a, b))
    BY <1>1, <1>2, BytesOfAStretch
  <2>2. QED
    BY <1>4, <2>1
<1> HIDE DEF B
<1>9. span.startByte - c.startByte = B(a) /\ span.endByte - c.startByte = B(b)
  <2>1. c.startByte + B(a) + ByteLen(d.text) = c.startByte + B(b)
    BY <1>1, <1>6
  <2>2. QED
    BY <1>1, <1>3, <1>6, <2>1
<1>10. c.startByte <= span.startByte /\ span.endByte <= c.startByte + ByteLen(c.text)
  <2>1. ByteLen(c.text) \in Nat /\ B(b) \in Nat
    BY <1>1, <1>6, BytesAreCounted
  <2>2. c.startByte + B(a) + ByteLen(d.text) <= c.startByte + ByteLen(c.text)
    BY <1>1, <1>6, <1>7, <2>1
  <2>3. c.startByte <= c.startByte + B(a)
    BY <1>1, <1>6
  <2>4. QED
    BY <1>3, <2>2, <2>3
<1>11. c.start <= span.start /\ span.end <= c.start + Len(c.text)
  BY <1>1, <1>3
<1>12. QED
  <2>1. SpanMatches(span, c)
    BY <1>3, <1>4, <1>5, <1>8, <1>9, <1>10, <1>11 DEF SpanMatches
  <2>2. QED
    BY <2>1 DEF span

-----------------------------------------------------------------------------
(* What is left of a text when its blanks are collapsed                    *)

(* The k-th of finitely many positions.                                    *)
LEMMA KthExists ==
  ASSUME NEW n \in Nat, NEW S \in SUBSET (1 .. n)
  PROVE  /\ Cardinality(S) \in Nat
         /\ \A k \in 1 .. Cardinality(S) : \E i \in S : Cardinality({j \in S : j <= i}) = k
<1> DEFINE upTo(i) == {j \in S : j <= i}
           Lost == {k \in Nat : /\ k \in 1 .. Cardinality(S)
                                /\ ~ \E i \in S : Cardinality(upTo(i)) = k}
<1>1. IsFiniteSet(S) /\ \A i \in S : i \in Nat
  <2>1. IsFiniteSet(1 .. n)
    <3>1. 1 \in Int /\ n \in Int
      OBVIOUS
    <3>2. QED
      BY <3>1, FS_Interval
  <2>2. IsFiniteSet(S)
    BY <2>1, FS_Subset
  <2>3. \A i \in S : i \in Nat
    OBVIOUS
  <2>4. QED
    BY <2>2, <2>3
<1>2. Cardinality(S) \in Nat
  BY <1>1, FS_CardinalityType
<1>3. \A T \in SUBSET S : IsFiniteSet(T) /\ (Cardinality(T) = Cardinality(S) => T = S)
  BY <1>1, FS_Subset
<1>4. Lost = {}
  <2> SUFFICES ASSUME Lost # {} PROVE FALSE
    OBVIOUS
  <2>1. PICK k \in Lost : \A m \in Lost : k <= m
    <3>1. Lost \in SUBSET Nat
      OBVIOUS
    <3> HIDE DEF Lost
    <3>2. QED
      BY <3>1, LeastElement
  <2>2. k \in 1 .. Cardinality(S) /\ k \in Nat /\ ~ \E i \in S : Cardinality(upTo(i)) = k
    OBVIOUS
  (* The positions up to the one before, none at first.                    *)
  <2>3. \E T \in SUBSET S : /\ Cardinality(T) = k - 1
                            /\ \A j \in T, i \in S \ T : j < i
    <3>1. CASE k = 1
      <4>1. Cardinality({}) = 0
        BY FS_EmptySet
      <4>2. Cardinality({}) = k - 1
        BY <3>1, <4>1
      <4>3. QED
        BY <4>2
    <3>2. CASE k # 1
      <4>1. k - 1 \in 1 .. Cardinality(S) /\ k - 1 \in Nat /\ ~(k <= k - 1)
        BY <1>2, <2>2, <3>2
      <4>2. k - 1 \notin Lost
        <5> HIDE DEF Lost
        <5> QED
          BY <2>1, <4>1
      <4>3. PICK i \in S : Cardinality(upTo(i)) = k - 1
        BY <4>1, <4>2
      <4>4. upTo(i) \in SUBSET S /\ \A j \in upTo(i), h \in S \ upTo(i) : j < h
        BY <1>1
      <4>5. QED
        BY <4>3, <4>4
    <3>3. QED
      BY <3>1, <3>2
  <2>4. PICK T \in SUBSET S : /\ Cardinality(T) = k - 1
                              /\ \A j \in T, i \in S \ T : j < i
    BY <2>3
  <2>5. S \ T # {} /\ S \ T \in SUBSET Nat
    <3>1. k - 1 # Cardinality(S)
      BY <1>2, <2>2
    <3>2. T # S
      BY <2>4, <3>1
    <3>3. QED
      BY <1>1, <3>2
  <2>6. PICK i \in S \ T : \A j \in S \ T : i <= j
    <3> DEFINE R == S \ T
    <3> HIDE DEF R
    <3>1. R # {} /\ R \in SUBSET Nat
      BY <2>5 DEF R
    <3>2. \E i \in R : \A j \in R : i <= j
      BY <3>1, LeastElement
    <3>3. QED
      BY <3>2 DEF R
  <2>7. upTo(i) = T \cup {i}
    <3>1. ASSUME NEW j \in upTo(i) PROVE j \in T \cup {i}
      <4>1. j \in S /\ j <= i /\ j \in Nat /\ i \in Nat
        BY <1>1
      <4>2. j \notin T => j = i
        BY <2>6, <4>1
      <4>3. QED
        BY <4>2
    <3>2. ASSUME NEW j \in T \cup {i} PROVE j \in upTo(i)
      <4>1. j \in S /\ i \in S /\ j \in Nat /\ i \in Nat
        BY <1>1
      <4>2. j \in T => j < i
        BY <2>4
      <4>3. j <= i
        BY <4>1, <4>2
      <4>4. QED
        BY <4>1, <4>3
    <3> HIDE DEF upTo
    <3>3. QED
      BY <3>1, <3>2
  <2>8. Cardinality(T \cup {i}) = k
    <3>1. IsFiniteSet(T) /\ i \notin T
      BY <1>3
    <3>2. Cardinality(T \cup {i}) = Cardinality(T) + 1
      BY <3>1, FS_AddElement
    <3>3. QED
      BY <2>2, <2>4, <3>2
  <2>9. QED
    BY <2>2, <2>7, <2>8
<1>5. QED
  BY <1>2, <1>4

LEMMA KthIsPosition ==
  ASSUME NEW n \in Nat, NEW S \in SUBSET (1 .. n), NEW k \in 1 .. Cardinality(S)
  PROVE  Kth(S, k) \in S /\ Cardinality({j \in S : j <= Kth(S, k)}) = k
<1>1. \E i \in S : Cardinality({j \in S : j <= i}) = k
  BY KthExists
<1>2. QED
  BY <1>1 DEF Kth

LEMMA KthIsUnique ==
  ASSUME NEW n \in Nat, NEW S \in SUBSET (1 .. n), NEW i \in S, NEW h \in S,
         Cardinality({j \in S : j <= i}) = Cardinality({j \in S : j <= h})
  PROVE  i = h
<1>1. \A j \in S : j \in Nat
  OBVIOUS
<1>2. ASSUME NEW x \in S, NEW y \in S, x < y,
             Cardinality({j \in S : j <= x}) = Cardinality({j \in S : j <= y})
      PROVE  FALSE
  <2> DEFINE X == {j \in S : j <= x}
             Y == {j \in S : j <= y}
  <2>1. x \in Nat /\ y \in Nat /\ ~(y <= x) /\ y <= y
    BY <1>1, <1>2
  <2>2. y \in Y /\ y \notin X
    BY <2>1
  <2>3. X \in SUBSET Y
    <3>1. \A j \in X : j \in S /\ j \in Nat /\ j <= x
      BY <1>1
    <3>2. \A j \in X : j <= y
      BY <1>2, <2>1, <3>1
    <3>3. QED
      BY <3>1, <3>2
  <2>4. IsFiniteSet(Y)
    <3>1. IsFiniteSet(1 .. n)
      <4>1. 1 \in Int /\ n \in Int
        OBVIOUS
      <4>2. QED
        BY <4>1, FS_Interval
    <3>2. Y \subseteq S
      OBVIOUS
    <3> HIDE DEF Y
    <3>3. Y \in SUBSET (1 .. n)
      BY <3>2
    <3>4. QED
      BY <3>1, <3>3, FS_Subset
  <2>5. Cardinality(X) = Cardinality(Y)
    BY <1>2
  <2> HIDE DEF X, Y
  <2>6. QED
    BY <2>2, <2>3, <2>4, <2>5, FS_Subset
<1>3. i < h \/ h < i \/ i = h
  BY <1>1
<1>4. QED
  BY <1>2, <1>3

(* Positions that are all moved by one distance keep their order.          *)
LEMMA KthMoves ==
  ASSUME NEW n \in Nat, NEW S \in SUBSET (1 .. n), NEW m \in Nat, NEW T \in SUBSET (1 .. m),
         NEW d \in Int, T = {i + d : i \in S}
  PROVE  /\ Cardinality(T) = Cardinality(S)
         /\ \A k \in 1 .. Cardinality(S) : Kth(T, k) = Kth(S, k) + d
<1>1. Cardinality(T) = Cardinality(S)
  BY ShiftedSets
<1>2. ASSUME NEW k \in 1 .. Cardinality(S) PROVE Kth(T, k) = Kth(S, k) + d
  <2> DEFINE i == Kth(S, k)
             h == Kth(T, k)
             I == {j \in S : j <= i}
             H == {j \in T : j <= i + d}
  <2>1. i \in S /\ Cardinality(I) = k
    BY KthIsPosition
  <2>2. h \in T /\ Cardinality({j \in T : j <= h}) = k
    BY <1>1, KthIsPosition
  <2> HIDE DEF i, h
  <2>3. \A j \in S : j \in Int
    OBVIOUS
  <2>4. i + d \in T
    BY <2>1
  <2>5. H = {j + d : j \in I}
    <3>1. i \in Int
      BY <2>1, <2>3
    <3>2. ASSUME NEW x \in H PROVE x \in {j + d : j \in I}
      <4>1. PICK j \in S : x = j + d
        OBVIOUS
      <4>2. j <= i
        <5>1. x <= i + d /\ j \in Int
          BY <2>3
        <5>2. QED
          BY <3>1, <4>1, <5>1
      <4>3. QED
        BY <4>1, <4>2
    <3>3. ASSUME NEW x \in {j + d : j \in I} PROVE x \in H
      <4>1. PICK j \in I : x = j + d
        OBVIOUS
      <4>2. j \in S /\ j <= i /\ j \in Int
        BY <2>3
      <4>3. x \in T /\ x <= i + d
        BY <3>1, <4>1, <4>2
      <4>4. QED
        BY <4>3
    <3>4. QED
      BY <3>2, <3>3
  <2>6. Cardinality(H) = Cardinality(I)
    <3>1. I \in SUBSET (1 .. n)
      OBVIOUS
    <3> HIDE DEF I, H
    <3>2. QED
      BY <2>5, <3>1, ShiftedSets
  <2>7. h = i + d
    BY <2>1, <2>2, <2>4, <2>6, KthIsUnique
  <2>8. QED
    BY <2>7 DEF i, h
<1>3. QED
  BY <1>1, <1>2

LEMMA CollapsedIs ==
  ASSUME NEW t \in Text
  PROVE  /\ KeptPositions(t) \in SUBSET (1 .. Len(t)) /\ Len(t) \in Nat
         /\ Cardinality(KeptPositions(t)) \in Nat
         /\ Collapsed(t) = [k \in 1 .. Cardinality(KeptPositions(t)) |->
                              IF t[Kth(KeptPositions(t), k)] \in Blank THEN Space
                              ELSE t[Kth(KeptPositions(t), k)]]
         /\ \A k \in 1 .. Cardinality(KeptPositions(t)) :
              Kth(KeptPositions(t), k) \in KeptPositions(t)
<1>1. KeptPositions(t) \in SUBSET (1 .. Len(t)) /\ Len(t) \in Nat
  BY WordsArePositions DEF KeptPositions
<1>2. Cardinality(KeptPositions(t)) \in Nat
  BY <1>1, KthExists
<1>3. \A k \in 1 .. Cardinality(KeptPositions(t)) :
        Kth(KeptPositions(t), k) \in KeptPositions(t)
  BY <1>1, KthIsPosition
<1>4. QED
  BY <1>1, <1>2, <1>3 DEF Collapsed

LEMMA OccursInItself ==
  ASSUME NEW n \in Nat, NEW x, x = [k \in 1 .. n |-> x[k]]
  PROVE  OccursIn(x, x)
<1> DEFINE S == {x[k] : k \in 1 .. n}
<1>1. x \in Seq(S) /\ Len(x) = n
  <2>1. x \in [1 .. n -> S]
    OBVIOUS
  <2> HIDE DEF S
  <2>2. x \in Seq(S)
    BY <2>1
  <2>3. QED
    BY <2>1, <2>2
<1> HIDE DEF S
<1>2. Slice(x, 0, 0 + Len(x)) = x
  <2>1. SubSeq(x, 1, n) = x
    BY <1>1
  <2>2. 0 + 1 = 1 /\ 0 + n = n
    OBVIOUS
  <2>3. QED
    BY <1>1, <2>1, <2>2 DEF Slice
<1>3. 0 \in 0 .. (Len(x) - Len(x))
  BY <1>1
<1>4. 0 \in ExactMatches(x, x)
  BY <1>2, <1>3 DEF ExactMatches
<1>5. QED
  BY <1>4 DEF OccursIn

LEMMA CollapsedAlikeIsContained ==
  ASSUME NEW s, NEW v \in Text, Fold(Collapsed(s)) = Fold(Collapsed(v))
  PROVE  ContainsLoosely(s, v)
<1> DEFINE n == Cardinality(KeptPositions(v))
           x == Fold(Collapsed(v))
<1>1. n \in Nat /\ DOMAIN Collapsed(v) = 1 .. n
  BY CollapsedIs
<1>2. x = [k \in 1 .. n |-> x[k]]
  <2> HIDE DEF n
  <2> QED
    BY <1>1 DEF Fold
<1>3. OccursIn(x, x)
  <2> HIDE DEF n, x
  <2> QED
    BY <1>1, <1>2, OccursInItself
<1>4. QED
  BY <1>3 DEF ContainsLoosely

(* Texts that differ in case only collapse to texts that do.               *)
LEMMA AlikeCollapsesAlike ==
  ASSUME NEW s \in Text, NEW v \in Text, Len(s) = Len(v),
         \A k \in 1 .. Len(s) : FoldOf(s[k]) = FoldOf(v[k])
  PROVE  Fold(Collapsed(s)) = Fold(Collapsed(v))
<1> DEFINE n == Len(s)
           kept == KeptPositions(v)
<1>1. n \in Nat /\ DOMAIN s = 1 .. n /\ DOMAIN v = 1 .. n
  BY WordsArePositions
<1>2. \A atom : FoldOf(atom) \in Blank <=> atom \in Blank
  BY DEF FoldOf, Blank, Space, NewLine
<1>3. \A k \in 1 .. n : s[k] \in Blank <=> v[k] \in Blank
  BY <1>2
<1>4. Words(s) = Words(v)
  BY <1>1, <1>3 DEF Words
<1>5. KeptPositions(s) = kept
  BY <1>1, <1>4 DEF KeptPositions
<1> DEFINE left(t, i) == IF t[i] \in Blank THEN Space ELSE t[i]
<1>6. /\ kept \in SUBSET (1 .. n)
      /\ Collapsed(v) = [k \in 1 .. Cardinality(kept) |-> left(v, Kth(kept, k))]
      /\ Collapsed(s) = [k \in 1 .. Cardinality(kept) |-> left(s, Kth(kept, k))]
      /\ \A k \in 1 .. Cardinality(kept) : Kth(kept, k) \in kept
  BY <1>5, CollapsedIs
<1>7. \A i \in 1 .. n : FoldOf(left(s, i)) = FoldOf(left(v, i))
  BY <1>3
<1> HIDE DEF kept, left, n
<1>8. \A k \in 1 .. Cardinality(kept) :
        FoldOf(left(s, Kth(kept, k))) = FoldOf(left(v, Kth(kept, k)))
  BY <1>6, <1>7
<1>9. QED
  BY <1>6, <1>8 DEF Fold

(* Blanks at either end leave nothing.                                     *)
LEMMA StrippedCollapsesAlike ==
  ASSUME NEW v \in Text, ~IsBlank(v)
  PROVE  Stripped(v) \in Text /\ Collapsed(Stripped(v)) = Collapsed(v)
<1> DEFINE first == Min(Words(v))
           last == Max(Words(v))
           d == first - 1
           l == last - d
           s == Stripped(v)
<1>1. /\ Words(v) # {} /\ Words(v) \in SUBSET (1 .. Len(v)) /\ Len(v) \in Nat
      /\ Words(v) \in SUBSET (0 .. Len(v)) /\ Words(v) \in SUBSET Nat
      /\ DOMAIN v = 1 .. Len(v)
  BY WordsArePositions
<1>2. /\ first \in Words(v) /\ last \in Words(v) /\ first <= last
      /\ \A w \in Words(v) : first <= w /\ w <= last
  BY <1>1, MinIsFirst, MaxIsLast
<1>3. first \in 1 .. Len(v) /\ last \in 1 .. Len(v)
  BY <1>1, <1>2
<1> HIDE DEF first, last
<1>4. d \in Nat /\ l \in Nat /\ d + 1 = first /\ d + l = last /\ d + l <= Len(v)
  BY <1>1, <1>2, <1>3
<1> HIDE DEF d, l
<1>5. s = SubSeq(v, first, last) /\ s \in Text
  BY StrippedIsText DEF Stripped, first, last
<1> HIDE DEF s
<1>6. Len(s) = l /\ DOMAIN s = 1 .. l /\ \A k \in 1 .. l : s[k] = v[k + d]
  <2>1. s = Slice(v, d, last)
    BY <1>4, <1>5 DEF Slice
  <2>2. /\ last \in Nat /\ d <= last /\ last <= Len(v) /\ last - d = l
    BY <1>1, <1>3, <1>4
  <2>3. Len(Slice(v, d, last)) = last - d
        /\ \A k \in 1 .. last - d : Slice(v, d, last)[k] = v[d + k]
    BY <1>4, <2>2, SlicesAreTexts
  <2>4. \A k \in 1 .. l : d + k = k + d
    BY <1>4
  <2>5. Len(s) = l /\ \A k \in 1 .. l : s[k] = v[k + d]
    BY <2>1, <2>2, <2>3, <2>4
  <2>6. QED
    BY <1>5, <2>5, WordsArePositions
<1>7. \A i \in 1 .. l : i \in Words(s) <=> i + d \in Words(v)
  <2>1. \A i \in 1 .. l : i + d \in 1 .. Len(v)
    BY <1>1, <1>4
  <2>2. QED
    BY <1>1, <1>6, <2>1 DEF Words
<1>8. \A w \in Words(v) : w - d \in 1 .. l /\ (w - d) + d = w /\ w - d \in Words(s)
  <2>1. \A w \in Words(v) : w - d \in 1 .. l /\ (w - d) + d = w
    BY <1>1, <1>2, <1>3, <1>4
  <2>2. QED
    BY <1>7, <2>1
<1> DEFINE K == KeptPositions(s)
           T == KeptPositions(v)
<1>9. \A i \in 1 .. l : i \in K <=> i + d \in T
  <2> SUFFICES ASSUME NEW i \in 1 .. l PROVE i \in K <=> i + d \in T
    OBVIOUS
  <2>1. i + d \in 1 .. Len(v)
    BY <1>1, <1>4
  <2>2. i \in Words(s) <=> i + d \in Words(v)
    BY <1>7
  <2>3. i - 1 \in Words(s) <=> (i + d) - 1 \in Words(v)
    <3>1. (i + d) - 1 = (i - 1) + d
      BY <1>4
    <3>2. CASE i = 1
      <4>1. i - 1 \notin Words(s)
        BY <1>6, <3>2 DEF Words
      <4>2. (i + d) - 1 = d /\ ~(first <= d)
        BY <1>3, <1>4, <3>2
      <4>3. QED
        BY <1>2, <4>1, <4>2
    <3>3. CASE i # 1
      <4>1. i - 1 \in 1 .. l
        BY <1>4, <3>3
      <4>2. QED
        BY <1>7, <3>1, <4>1
    <3>4. QED
      BY <3>2, <3>3
  <2>4. (\E w \in Words(s) : w > i) <=> (\E w \in Words(v) : w > i + d)
    <3>1. ASSUME NEW w \in Words(s), w > i PROVE \E x \in Words(v) : x > i + d
      <4>1. w \in 1 .. l
        BY <1>6 DEF Words
      <4>2. w + d \in Words(v) /\ w + d > i + d
        BY <1>4, <1>7, <3>1, <4>1
      <4>3. QED
        BY <4>2
    <3>2. ASSUME NEW w \in Words(v), w > i + d PROVE \E x \in Words(s) : x > i
      <4>1. w - d \in Words(s) /\ w \in Nat
        BY <1>1, <1>8
      <4>2. w - d > i
        BY <1>4, <3>2, <4>1
      <4>3. QED
        BY <4>1, <4>2
    <3>3. QED
      BY <3>1, <3>2
  <2>5. QED
    BY <1>1, <1>6, <2>1, <2>2, <2>3, <2>4 DEF KeptPositions
<1>10. K \in SUBSET (1 .. l) /\ T \in SUBSET (1 .. Len(v))
  BY <1>1, <1>6 DEF KeptPositions
<1>11. \A j \in T : j - d \in 1 .. l /\ (j - d) + d = j
  <2> SUFFICES ASSUME NEW j \in T PROVE j - d \in 1 .. l /\ (j - d) + d = j
    OBVIOUS
  <2>1. j \in 1 .. Len(v)
    BY <1>10
  <2>2. CASE j \in Words(v)
    BY <1>8, <2>2
  <2>3. CASE j \notin Words(v)
    <3>1. j - 1 \in Words(v) /\ \E w \in Words(v) : w > j
      BY <2>3 DEF KeptPositions
    <3>2. first <= j - 1 /\ j <= last
      <4>1. PICK w \in Words(v) : w > j
        BY <3>1
      <4>2. w <= last /\ w \in Nat
        BY <1>1, <1>2
      <4>3. QED
        BY <1>2, <1>3, <2>1, <3>1, <4>1, <4>2
    <3>3. QED
      BY <1>3, <1>4, <2>1, <3>2
  <2>4. QED
    BY <2>2, <2>3
<1>12. T = {i + d : i \in K}
  <2>1. ASSUME NEW j \in T PROVE j \in {i + d : i \in K}
    <3>1. j - d \in 1 .. l /\ (j - d) + d = j
      BY <1>11
    <3>2. j - d \in K
      BY <1>9, <3>1
    <3> HIDE DEF K, T
    <3>3. QED
      BY <3>1, <3>2
  <2>2. ASSUME NEW i \in K PROVE i + d \in T
    BY <1>9, <1>10
  <2> HIDE DEF K, T
  <2>3. QED
    BY <2>1, <2>2
<1> DEFINE left(t, i) == IF t[i] \in Blank THEN Space ELSE t[i]
<1>13. /\ Collapsed(s) = [k \in 1 .. Cardinality(K) |-> left(s, Kth(K, k))]
       /\ Collapsed(v) = [k \in 1 .. Cardinality(T) |-> left(v, Kth(T, k))]
       /\ \A k \in 1 .. Cardinality(K) : Kth(K, k) \in K
  BY <1>5, CollapsedIs
<1> HIDE DEF K, T
<1>14. Cardinality(T) = Cardinality(K)
       /\ \A k \in 1 .. Cardinality(K) : Kth(T, k) = Kth(K, k) + d
  <2>1. d \in Int /\ Len(v) \in Nat
    BY <1>1, <1>4
  <2>2. QED
    BY <1>4, <1>10, <1>12, <2>1, KthMoves
<1>15. \A i \in K : left(s, i) = left(v, i + d)
  BY <1>6, <1>10
<1> HIDE DEF left
<1>16. \A k \in 1 .. Cardinality(K) : left(s, Kth(K, k)) = left(v, Kth(T, k))
  BY <1>13, <1>14, <1>15
<1>17. Collapsed(s) = Collapsed(v)
  BY <1>13, <1>14, <1>16
<1>18. QED
  BY <1>5, <1>17 DEF s

LEMMA FoldedSlices ==
  ASSUME NEW t \in Text, NEW v \in Text, NEW a \in Nat, NEW b \in Nat,
         a <= b, b <= Len(t), Slice(Fold(t), a, b) = Fold(v)
  PROVE  Len(v) = b - a /\ \A i \in 1 .. b - a : FoldOf(t[a + i]) = FoldOf(v[i])
<1> DEFINE n == Len(t)
           S == {Fold(t)[k] : k \in 1 .. n}
<1>1. /\ n \in Nat /\ DOMAIN t = 1 .. n /\ DOMAIN Fold(t) = 1 .. n
      /\ \A k \in 1 .. n : Fold(t)[k] = FoldOf(t[k])
  BY WordsArePositions DEF Fold
<1>2. /\ DOMAIN v = 1 .. Len(v) /\ Len(v) \in Nat
      /\ Len(Fold(v)) = Len(v) /\ \A k \in 1 .. Len(v) : Fold(v)[k] = FoldOf(v[k])
  BY WordsArePositions, FoldedLength DEF Fold
<1>3. Fold(t) \in Seq(S) /\ Len(Fold(t)) = n
  <2>1. Fold(t) \in [1 .. n -> S]
    BY <1>1 DEF Fold
  <2> HIDE DEF S
  <2>2. Fold(t) \in Seq(S)
    BY <1>1, <2>1
  <2>3. QED
    BY <2>2, FoldedLength
<1> HIDE DEF S
<1>4. /\ Len(SubSeq(Fold(t), a + 1, b)) = b - a
      /\ \A k \in 1 .. b - a : SubSeq(Fold(t), a + 1, b)[k] = Fold(t)[a + k]
  BY <1>1, <1>3
<1>5. Len(v) = b - a
  BY <1>2, <1>4 DEF Slice
<1>6. ASSUME NEW i \in 1 .. b - a PROVE FoldOf(t[a + i]) = FoldOf(v[i])
  <2>1. a + i \in 1 .. n
    BY <1>1
  <2>2. Fold(v)[i] = Fold(t)[a + i]
    BY <1>4 DEF Slice
  <2>3. QED
    BY <1>1, <1>2, <1>5, <2>1, <2>2
<1>7. QED
  BY <1>5, <1>6

(* Whichever way of looking finds the value, the place supports it.        *)
LEMMA MatchesSupport ==
  ASSUME NEW t \in Text, NEW v \in Text
  PROVE  \A m \in ValueMatches(t, v) : Supports(Slice(t, m[1], m[2]), v)
<1> DEFINE ways == <<ExactSpans(t, v),
                     IF IsBlank(v) THEN {} ELSE ExactSpans(t, Stripped(v)),
                     WithLength(CaseInsensitiveMatches(t, v), Len(v)),
                     WhitespaceMatches(t, v)>>
           found == {k \in DOMAIN ways : ways[k] # {}}
<1>1. ASSUME NEW k \in DOMAIN ways, NEW m \in ways[k]
      PROVE  ContainsLoosely(Slice(t, m[1], m[2]), v)
  <2>1. k = 1 \/ k = 2 \/ k = 3 \/ k = 4
    OBVIOUS
  <2>2. ASSUME NEW w, m \in ExactSpans(t, w) PROVE Slice(t, m[1], m[2]) = w
    BY <2>2 DEF ExactSpans, WithLength, ExactMatches
  <2>3. CASE k = 1
    <3>1. Slice(t, m[1], m[2]) = v
      BY <1>1, <2>2, <2>3
    <3>2. QED
      BY <3>1, CollapsedAlikeIsContained
  <2>4. CASE k = 2
    <3>1. ~IsBlank(v) /\ m \in ExactSpans(t, Stripped(v))
      BY <1>1, <2>4
    <3>2. Slice(t, m[1], m[2]) = Stripped(v)
      BY <2>2, <3>1
    <3>3. QED
      BY <3>1, <3>2, StrippedCollapsesAlike, CollapsedAlikeIsContained
  <2>5. CASE k = 3
    <3>1. m \in WithLength(CaseInsensitiveMatches(t, v), Len(v))
      BY <1>1, <2>5
    <3> DEFINE a == m[1]
               b == m[2]
               s == Slice(t, a, b)
    <3>2. Fits(m, t) /\ Slice(Fold(t), a, b) = Fold(v)
      BY <3>1, CaseInsensitiveMatchesFit
    <3>3. a \in Nat /\ b \in Nat /\ a <= b /\ b <= Len(t) /\ Len(t) \in Nat
      BY <3>2, WordsArePositions DEF Fits
    <3> HIDE DEF a, b
    <3>4. s \in Text /\ Len(s) = b - a /\ \A i \in 1 .. b - a : s[i] = t[a + i]
      BY <3>3, SlicesAreTexts
    <3>5. Len(v) = b - a /\ \A i \in 1 .. b - a : FoldOf(t[a + i]) = FoldOf(v[i])
      BY <3>2, <3>3, FoldedSlices
    <3> HIDE DEF s
    <3>6. Fold(Collapsed(s)) = Fold(Collapsed(v))
      BY <3>4, <3>5, AlikeCollapsesAlike
    <3>7. QED
      BY <3>6, CollapsedAlikeIsContained DEF s, a, b
  <2>6. CASE k = 4
    <3>1. Collapsed(Slice(t, m[1], m[2])) = Collapsed(v)
      BY <1>1, <2>6 DEF WhitespaceMatches
    <3>2. QED
      BY <3>1, CollapsedAlikeIsContained
  <2>7. QED
    BY <2>1, <2>3, <2>4, <2>5, <2>6
<1>2. ValueMatches(t, v) = IF found = {} THEN {} ELSE ways[Min(found)]
  BY DEF ValueMatches, FirstFound
<1>3. DOMAIN ways \in SUBSET Nat
  OBVIOUS
<1>4. found # {} => Min(found) \in DOMAIN ways
  <2>1. found \in SUBSET Nat /\ found \subseteq DOMAIN ways
    BY <1>3
  <2> HIDE DEF found, ways
  <2>2. QED
    BY <2>1, MinIsFirst
<1>5. QED
  <2> HIDE DEF found, ways
  <2> QED
    BY <1>1, <1>2, <1>4 DEF Supports

-----------------------------------------------------------------------------
(* What the executor keeps and what it moves                               *)

(* A right claim resolves to itself, and what the normalizers make of it   *)
(* matches the chunk, so the executor's checks find nothing.               *)
LEMMA GoodClaimsPass ==
  ASSUME NEW c \in Chunks, NEW p \in Payload(c) \cup DerivedPayloads(c),
         p.category \in DOMAIN ApprovedFields, p.field \in ApprovedFields[p.category],
         ClaimHolds(p, c), ~IsShortAndRepeated(c, Claimed(p, c))
  PROVE  ExecutorReasons(ResolveSource(p, c), Built(p, c), c) = {}
<1> DEFINE r == ResolveSource(p, c)
           d == Prepare(p, r, c)
<1>1. r.reasons = {}
  <2>1. r = ClaimWithReasons(p, c, Matches(p, c))
    BY DEF ResolveSource, ResolveAmong, Resolution
  <2>2. HoldsValue(Claimed(p, c), p.value)
    BY DEF ClaimHolds
  <2> HIDE DEF r
  <2>3. QED
    BY <2>1, <2>2 DEF ClaimWithReasons
<1>2. Inside(d, c)
  BY DraftsAreInside
<1>3. /\ Built(p, c).category = p.category /\ Built(p, c).field = p.field
      /\ Built(p, c).span = SpanAt(c, d.start, d.text)
  BY DEF Built, BuildCandidate
<1>4. SlotReasons(Built(p, c)) = {}
  BY <1>3 DEF SlotReasons
<1> HIDE DEF r, d
<1>5. SpanMatches(Built(p, c).span, c)
  BY <1>2, <1>3, StretchesMatch
<1>6. ExecutorReasons(r, Built(p, c), c) = {}
  BY <1>1, <1>4, <1>5 DEF ExecutorReasons
<1>7. QED
  BY <1>6 DEF r

(* A resolution without reasons is the text of a place the value may be    *)
(* taken from, and holds the value where the claim does not.               *)
IsAt(r, place, c) ==
  /\ Fits(place, c.text)
  /\ r.start = c.start + place[1] /\ r.text = Slice(c.text, place[1], place[2])

LEMMA RepairsHoldTheValue ==
  ASSUME NEW c \in Chunks, NEW p, Typed(p), ResolveSource(p, c).reasons = {}
  PROVE  /\ \E place \in EvidencePlaces(p, c) : IsAt(ResolveSource(p, c), place, c)
         /\ ClaimHolds(p, c) \/ Matches(p, c) = {}
              \/ Supports(ResolveSource(p, c).text, p.value)
<1> DEFINE ms == Matches(p, c)
           near == AdjacentMatches(p, c, ms)
           r == ResolveSource(p, c)
           claim == ClaimWithReasons(p, c, ms)
           claimed == <<RelativeStart(p, c), RelativeStart(p, c) + p.length>>
<1>1. /\ c.text \in Text /\ Len(c.text) \in Nat /\ c.start \in Nat
      /\ p.value \in Text /\ p.start \in Nat /\ p.length \in Nat
  BY ChunksAreTyped DEF Typed
<1>2. r = IF ClaimHolds(p, c) THEN claim
          ELSE IF Cardinality(ms) = 1 THEN Spot(c, CHOOSE m \in ms : TRUE)
          ELSE IF ~ClaimFits(p, c) THEN Fallback(c, ms)
          ELSE IF near # {} THEN Spot(c, CHOOSE m \in near : TRUE)
          ELSE claim
  BY DEF ResolveSource, ResolveAmong, Resolution
<1>3. ASSUME NEW m \in ms
      PROVE  Supports(Spot(c, m).text, p.value) /\ IsAt(Spot(c, m), m, c)
  <2>1. Supports(Slice(c.text, m[1], m[2]), p.value) /\ Fits(m, c.text)
    BY <1>1, MatchesSupport, MatchesFit DEF Matches
  <2>2. Spot(c, m).start = c.start + m[1] /\ Spot(c, m).text = Slice(c.text, m[1], m[2])
    BY DEF Spot
  <2>3. QED
    BY <2>1, <2>2 DEF IsAt
<1>4. ASSUME NEW m \in near
      PROVE  m \in ms /\ p.field \in OffsetRepairField /\ ~StartsInHeading(c.text, m[1])
  <2> HIDE DEF ms
  <2> QED
    BY DEF AdjacentMatches
<1>5. ASSUME ClaimFits(p, c)
      PROVE  IsAt(claim, claimed, c)
  <2> DEFINE a == RelativeStart(p, c)
             b == a + p.length
  <2>1. a \in Nat /\ b \in Nat /\ a <= b /\ b <= Len(c.text) /\ p.start = c.start + a
    BY <1>1, <1>5 DEF ClaimFits, RelativeStart
  <2>2. claim.start = p.start /\ claim.text = Slice(c.text, a, b)
    BY DEF ClaimWithReasons, Claimed
  <2> HIDE DEF a, b, claim
  <2>3. claimed = <<a, b>>
    BY DEF a, b
  <2> HIDE DEF claimed
  <2>4. Fits(claimed, c.text) /\ claimed[1] = a /\ claimed[2] = b
    BY <1>1, <2>1, <2>3, PairsFit
  <2>5. QED
    BY <2>1, <2>2, <2>4 DEF IsAt
<1>6. Fallback(c, ms).reasons # {}
  BY DEF Fallback
<1>7. IsFiniteSet(ms) /\ (Cardinality(ms) = 1 => ms # {})
  BY <1>1, MatchesAreFinite, FS_EmptySet DEF Matches
<1>8. r.reasons = {}
  OBVIOUS
<1>9. ClaimHolds(p, c) => ClaimFits(p, c)
  BY DEF ClaimHolds
<1>10. EvidencePlaces(p, c) =
         IF ClaimHolds(p, c) \/ ms = {} THEN {claimed}
         ELSE {m \in ms : \/ Cardinality(ms) = 1
                          \/ p.field \in OffsetRepairField /\ ~StartsInHeading(c.text, m[1])}
  BY DEF EvidencePlaces
<1>11. ASSUME ClaimFits(p, c), ~ClaimHolds(p, c), claim.reasons = {}
       PROVE  ~(Cardinality(ms) > 1)
  <2>1. ~HoldsValue(Claimed(p, c), p.value)
    BY <1>11 DEF ClaimHolds
  <2> HIDE DEF ms
  <2>2. QED
    BY <1>11, <2>1 DEF ClaimWithReasons
<1> HIDE DEF r, ms, near, claim, claimed
<1>12. CASE ClaimFits(p, c) /\ r = claim /\ (ClaimHolds(p, c) \/ Cardinality(ms) # 1)
  <2>1. ClaimHolds(p, c) \/ ms = {}
    <3>1. SUFFICES ASSUME ~ClaimHolds(p, c) PROVE ms = {}
      OBVIOUS
    <3>2. ~(Cardinality(ms) > 1) /\ Cardinality(ms) # 1
      BY <1>8, <1>11, <1>12, <3>1
    <3>3. Cardinality(ms) \in Nat /\ (Cardinality(ms) = 0 => ms = {})
      BY <1>7, FS_CardinalityType, FS_EmptySet
    <3>4. QED
      BY <3>2, <3>3
  <2>2. EvidencePlaces(p, c) = {claimed} /\ IsAt(r, claimed, c)
    BY <1>5, <1>10, <1>12, <2>1
  <2>3. QED
    BY <2>1, <2>2 DEF r, ms
<1>13. CASE ~(ClaimFits(p, c) /\ r = claim /\ (ClaimHolds(p, c) \/ Cardinality(ms) # 1))
  <2>1. /\ ~ClaimHolds(p, c)
        /\ \/ Cardinality(ms) = 1 /\ r = Spot(c, CHOOSE m \in ms : TRUE)
           \/ near # {} /\ r = Spot(c, CHOOSE m \in near : TRUE)
    BY <1>2, <1>6, <1>8, <1>9, <1>13
  <2>2. PICK m \in ms :
          /\ r = Spot(c, m)
          /\ \/ Cardinality(ms) = 1
             \/ p.field \in OffsetRepairField /\ ~StartsInHeading(c.text, m[1])
    <3>1. CASE Cardinality(ms) = 1 /\ r = Spot(c, CHOOSE m \in ms : TRUE)
      BY <1>7, <3>1
    <3>2. CASE near # {} /\ r = Spot(c, CHOOSE m \in near : TRUE)
      BY <1>4, <3>2
    <3>3. QED
      BY <2>1, <3>1, <3>2
  <2>3. m \in EvidencePlaces(p, c)
    BY <1>10, <2>1, <2>2
  <2>4. Supports(r.text, p.value) /\ IsAt(r, m, c)
    BY <1>3, <2>2
  <2>5. QED
    BY <2>3, <2>4 DEF r
<1>14. QED
  BY <1>12, <1>13

(* What is built of a resolution without reasons was taken from its place, *)
(* and its span supports its value unless it is a label.                   *)
LEMMA BuiltIsTaken ==
  ASSUME NEW c \in Chunks, NEW p \in Payload(c) \cup DerivedPayloads(c),
         ResolveSource(p, c).reasons = {}
  PROVE  /\ \E place \in EvidencePlaces(p, c) :
              \/ IsTakenFrom(place, Built(p, c).span, p.field, c)
              \/ IsAmountOf(place, Built(p, c).span.text, p, c)
         /\ ClaimHolds(p, c) \/ Matches(p, c) = {}
              \/ IsLabel(Built(p, c)) \/ IsSupported(Built(p, c))
<1> DEFINE r == ResolveSource(p, c)
           d == Draft(p, r)
           e == Prepare(p, r, c)
           o == Built(p, c)
<1>1. Typed(p) /\ Inside(r, c)
  BY PayloadsAreTyped, ResolutionsAreInside
<1>2. d.start = r.start /\ d.text = r.text /\ d.value = p.value
  BY DEF Draft
<1>3. Inside(d, c) /\ d.value \in Text
  BY <1>1, <1>2 DEF Inside, Typed
<1>4. e = Normalized(p.field, d, c)
  BY DEF Prepare
<1>5. o.span = SpanAt(c, e.start, e.text) /\ o.value = e.value /\ o.field = p.field
  BY DEF Built, BuildCandidate
<1>6. Inside(e, c)
  BY DraftsAreInside
<1> HIDE DEF d, e, o
<1>7. /\ IsTaken(e, d, p.field, c)
      /\ e = d \/ e.value = e.text \/ p.field \in LabelField
  BY <1>3, <1>4, DraftsAreTaken
<1>8. PICK place \in EvidencePlaces(p, c) : IsAt(r, place, c)
  BY <1>1, RepairsHoldTheValue
<1>9. o.span.start = e.start /\ o.span.end = e.start + Len(e.text) /\ o.span.text = e.text
  BY <1>5 DEF SpanAt
<1>10. IsTakenFrom(place, o.span, p.field, c) \/ IsAmountOf(place, o.span.text, p, c)
  <2> DEFINE z == c.start
             a == place[1]
             b == place[2]
             x == e.start
             l == Len(e.text)
             n == Len(d.text)
  <2>1. a \in Nat /\ b \in Nat /\ a <= b /\ d.start = z + a /\ d.text = Slice(c.text, a, b)
    BY <1>2, <1>8 DEF IsAt, Fits
  <2>2. /\ z \in Nat /\ x \in Int /\ l \in Nat /\ n = b - a
    <3>1. c.text \in Text /\ b <= Len(c.text) /\ z \in Nat
      BY <1>8, ChunksAreTyped DEF IsAt, Fits
    <3>2. Len(Slice(c.text, a, b)) = b - a
      BY <2>1, <3>1, SlicesAreTexts
    <3>3. x \in Int /\ e.text \in Text
      BY <1>6 DEF Inside
    <3>4. QED
      BY <2>1, <3>1, <3>2, <3>3, WordsArePositions
  <2>3. CASE p.field \notin NormalizedField /\ e = d
    <3>1. x = z + a /\ l = n
      BY <2>1, <2>3
    <3> HIDE DEF a, b, x, z, l, n
    <3>2. x - z = a /\ (x + l) - z = b /\ a <= x - z /\ x - z <= b /\ ~((x + l) - z > b)
      BY <2>1, <2>2, <3>1
    <3>3. QED
      BY <1>9, <3>2 DEF IsTakenFrom, a, b, x, z, l
  <2>4. CASE p.field \in NormalizedField /\ Lies(e, d)
    <3>1. z + a <= x /\ x + l <= z + a + n
      BY <2>1, <2>4 DEF Lies
    <3> HIDE DEF a, b, x, z, l, n
    <3>2. a <= x - z /\ x - z <= b /\ ~((x + l) - z > b)
      BY <2>1, <2>2, <3>1
    <3>3. QED
      BY <1>9, <2>4, <3>2 DEF IsTakenFrom, a, b, x, z, l
  <2>5. CASE p.field \in {"effective_date", "condition"} /\ GoesOn(e, d, c)
    <3>1. /\ z + a <= x /\ x <= z + a + n
          /\ x - z + l > (z + a) - z + n =>
               {Stop, NewLine} \cap ToSet(Slice(c.text, (z + a) - z + n, x - z + l)) = {}
      BY <2>1, <2>5 DEF GoesOn
    <3>2. p.field \in NormalizedField
      BY <2>5 DEF NormalizedField
    <3> HIDE DEF a, b, x, z, l, n
    <3>3. /\ a <= x - z /\ x - z <= b
          /\ (x + l) - z = x - z + l /\ (z + a) - z + n = b
      BY <2>1, <2>2, <3>1
    <3>4. (x + l) - z > b => {Stop, NewLine} \cap ToSet(Slice(c.text, b, (x + l) - z)) = {}
      BY <3>1, <3>3
    <3>5. QED
      BY <1>9, <2>5, <3>2, <3>3, <3>4 DEF IsTakenFrom, a, b, x, z, l
  <2>6. CASE /\ p.field = "prior_period_value"
             /\ \E q \in Number \cap ToSet(d.value \o d.text) : e.text = <<q, Space, "in Q1">>
    BY <1>2, <1>9, <2>1, <2>6 DEF IsAmountOf
  <2>7. QED
    BY <1>7, <2>3, <2>4, <2>5, <2>6 DEF IsTaken
<1>11. ClaimHolds(p, c) \/ Matches(p, c) = {} \/ IsLabel(o) \/ IsSupported(o)
  <2>1. ClaimHolds(p, c) \/ Matches(p, c) = {} \/ Supports(r.text, p.value)
    BY <1>1, RepairsHoldTheValue
  <2> HIDE DEF r
  <2>2. ASSUME e = d PROVE o.span.text = r.text /\ o.value = p.value
    BY <1>2, <1>5, <1>9, <2>2
  <2>3. ASSUME e.value = e.text PROVE Supports(o.span.text, o.value)
    <3>1. e.text \in Text
      BY <1>6 DEF Inside
    <3>2. ContainsLoosely(e.text, e.text)
      BY <3>1, CollapsedAlikeIsContained
    <3>3. QED
      BY <1>5, <1>9, <2>3, <3>2 DEF Supports
  <2>4. QED
    BY <1>5, <1>7, <2>1, <2>2, <2>3 DEF IsSupported, IsLabel
<1>12. QED
  BY <1>10, <1>11 DEF o

-----------------------------------------------------------------------------
(* What the critic may do to a candidate                                   *)

LEMMA StretchesOccur ==
  ASSUME NEW s \in Text, NEW t \in Text, NEW i \in Nat, i + Len(s) <= Len(t),
         \A k \in 1 .. Len(s) : s[k] = t[i + k]
  PROVE  OccursIn(t, s)
<1> DEFINE n == Len(s)
           b == i + n
           x == Slice(t, i, b)
<1>1. n \in Nat /\ i <= b /\ b <= Len(t) /\ b \in Nat /\ b - i = n /\ Len(t) \in Nat
  BY WordsArePositions
<1> HIDE DEF b
<1>2. x \in Text /\ Len(x) = n /\ \A k \in 1 .. n : x[k] = t[i + k]
  <2>1. /\ x \in Text /\ Len(x) = b - i
        /\ \A k \in 1 .. b - i : x[k] = t[i + k]
    BY <1>1, SlicesAreTexts
  <2> HIDE DEF x
  <2>2. QED
    BY <1>1, <2>1
<1> HIDE DEF x
<1>3. x = s
  <2>1. x \in [1 .. n -> Atom] /\ s \in [1 .. n -> Atom]
    BY <1>1, <1>2 DEF Text
  <2>2. \A k \in 1 .. n : x[k] = s[k]
    BY <1>2
  <2> HIDE DEF n
  <2> DEFINE places == 1 .. n
  <2> HIDE DEF places
  <2>3. x = [k \in places |-> x[k]] /\ s = [k \in places |-> s[k]]
    BY <2>1, Zenon DEF places
  <2>4. \A k \in places : x[k] = s[k]
    BY <2>2 DEF places
  <2>5. [k \in places |-> x[k]] = [k \in places |-> s[k]]
    BY <2>4, Zenon
  <2>6. QED
    BY <2>3, <2>5, Zenon
<1>4. i \in ExactMatches(t, s)
  <2>1. Slice(t, i, i + Len(s)) = s
    BY <1>3 DEF x, b
  <2>2. i \in 0 .. (Len(t) - Len(s))
    BY <1>1 DEF b
  <2>3. QED
    BY <2>1, <2>2 DEF ExactMatches
<1>5. QED
  BY <1>4 DEF OccursIn

(* What a correction does to the candidate the executor built.             *)
LEMMA MergedFields ==
  ASSUME NEW c, NEW p, NEW k
  PROVE  LET o == Built(p, c)
             m == MergedCorrection(k, o, c)
         IN  /\ m.span = SpanAt(c, CorrectedStart(k, o), CorrectedText(k, o))
             /\ m.verbatim = o.verbatim
BY DEF MergedCorrection, Built, BuildCandidate

(* The critic hands on the candidate it was given, or one whose span lies  *)
(* in that of the original, with its text still in value_verbatim, with    *)
(* the same value, and in the same slot unless the original had a defect.  *)
Narrowed(m, o, c) ==
  /\ o.span.start <= m.span.start /\ m.span.end <= o.span.end
  /\ OccursIn(m.verbatim, m.span.text)
  /\ m.value = o.value
  /\ IsSameSlot(m, o) \/ ~IsMechanicallyValid(o, c)

LEMMA BuiltVerbatimIsItsText ==
  ASSUME NEW c \in Chunks, NEW p \in Payload(c) \cup DerivedPayloads(c)
  PROVE  LET o == Built(p, c)
         IN  /\ o.verbatim = o.span.text /\ o.span.text \in Text
             /\ \A k \in 1 .. Len(o.span.text) :
                  o.span.text[k] = c.text[o.span.start - c.start + k]
<1> DEFINE d == Prepare(p, ResolveSource(p, c), c)
<1>1. Inside(d, c)
  BY DraftsAreInside
<1>2. /\ Built(p, c).verbatim = d.text /\ Built(p, c).span.text = d.text
      /\ Built(p, c).span.start = d.start
  BY DEF Built, BuildCandidate, SpanAt
<1> HIDE DEF d
<1>3. QED
  BY <1>1, <1>2 DEF Inside

LEMMA CandidatesNarrowThemselves ==
  ASSUME NEW c \in Chunks, NEW p \in Payload(c) \cup DerivedPayloads(c)
  PROVE  Narrowed(Built(p, c), Built(p, c), c)
<1> DEFINE o == Built(p, c)
           t == o.span.text
<1>1. SpanIsPlaced(o.span, c) /\ o.verbatim = t /\ t \in Text
  BY BuiltSpansArePlaced, BuiltVerbatimIsItsText
<1> HIDE DEF o
<1>2. o.span.start \in Int /\ o.span.end \in Int
  BY <1>1, PlacedSpansAreTyped
<1>3. OccursIn(o.verbatim, t)
  <2> HIDE DEF t
  <2>1. Len(t) \in Nat
    BY <1>1, WordsArePositions
  <2>2. 0 \in Nat /\ 0 + Len(t) <= Len(t) /\ \A k \in 1 .. Len(t) : t[k] = t[0 + k]
    BY <2>1
  <2>3. QED
    BY <1>1, <2>2, StretchesOccur
<1>4. QED
  BY <1>2, <1>3 DEF Narrowed, IsSameSlot, o

LEMMA CorrectionsOnlyNarrow ==
  ASSUME NEW c \in Chunks, NEW p \in Payload(c) \cup DerivedPayloads(c),
         NEW k \in Correction(Built(p, c)),
         StructuralReasons(k, Built(p, c), c) = {},
         CorrectionReasons(MergedCorrection(k, Built(p, c), c), Built(p, c), c) = {},
         ~IsOriginalKept(Built(p, c), MergedCorrection(k, Built(p, c), c), {}, c)
  PROVE  /\ SpanIsPlaced(MergedCorrection(k, Built(p, c), c).span, c)
         /\ Narrowed(MergedCorrection(k, Built(p, c), c), Built(p, c), c)
<1> DEFINE o == Built(p, c)
           m == MergedCorrection(k, o, c)
           s == CorrectedStart(k, o)
           t == CorrectedText(k, o)
<1>1. m.span = SpanAt(c, s, t) /\ m.verbatim = o.verbatim
  BY MergedFields
<1>original. /\ o.verbatim = o.span.text /\ o.span.text \in Text
             /\ \A n \in 1 .. Len(o.span.text) :
                  o.span.text[n] = c.text[o.span.start - c.start + n]
  BY BuiltVerbatimIsItsText
<1>2. SpanIsPlaced(o.span, c)
  BY BuiltSpansArePlaced
<1>3. k.start \in Nat \cup {NoStart} /\ k.text \in Text
  BY EvidenceAssumption
<1> HIDE DEF o, m
<1>4. s \in Int /\ t \in Text
  <2>1. o.span.start \in Int /\ o.span.text \in Text
    BY <1>2, PlacedSpansAreTyped
  <2>2. QED
    BY <1>3, <2>1 DEF CorrectedStart, CorrectedText, NoStart
<1>5. IsSliceOf(k, o, c) /\ KeepsItsMetadata(m, o)
  BY DEF StructuralReasons, o, m
<1>6. 0 <= s - c.start /\ (s - c.start) + Len(t) <= Len(c.text)
  BY <1>5 DEF IsSliceOf
<1> HIDE DEF s, t
<1>7. SpanIsPlaced(m.span, c)
  <2>1. c.start \in Nat /\ Len(c.text) \in Nat /\ Len(t) \in Nat
    BY <1>4, ChunksAreTyped, WordsArePositions
  <2>2. c.start <= s /\ s + Len(t) <= c.start + Len(c.text)
    BY <1>4, <1>6, <2>1
  <2>3. QED
    BY <1>1, <1>4, <2>2, PlacedSpans
<1>8. ~Expands(m, o)
  <2>1. "expands" \notin CorrectionReasons(m, o, c)
    BY DEF o, m
  <2>2. QED
    BY <2>1 DEF CorrectionReasons
<1>9. o.span.start <= m.span.start /\ m.span.end <= o.span.end
  <2>1. /\ o.span.start \in Int /\ m.span.start \in Int
        /\ o.span.end \in Int /\ m.span.end \in Int
    BY <1>2, <1>7, PlacedSpansAreTyped
  <2>2. QED
    BY <1>8, <2>1 DEF Expands
<1>10. m.value = o.value
  BY <1>5 DEF KeepsItsMetadata
<1>11. IsSameSlot(m, o) \/ ~IsMechanicallyValid(o, c)
  BY DEF IsOriginalKept, o, m
<1>12. OccursIn(m.verbatim, m.span.text)
  <2> DEFINE x == o.span.text
             z == c.start
             i == s - o.span.start
  <2>1. /\ m.span.start = s /\ m.span.text = t /\ m.span.end = s + Len(t)
        /\ o.span.start \in Int /\ o.span.end = o.span.start + Len(x)
    BY <1>1, <1>2, PlacedSpansAreTyped DEF SpanAt
  <2>2. Len(x) \in Nat /\ Len(t) \in Nat /\ z \in Nat
    BY <1>4, <1>original, ChunksAreTyped, WordsArePositions
  <2> HIDE DEF x
  <2>3. i \in Nat /\ i + Len(t) <= Len(x)
    BY <1>4, <1>9, <2>1, <2>2
  <2>4. ASSUME NEW n \in 1 .. Len(t) PROVE t[n] = x[i + n]
    <3>1. t[n] = c.text[s - z + n]
      <4> DEFINE a == s - z
                 b == a + Len(t)
      <4>1. t = Slice(c.text, a, b)
        BY <1>5 DEF IsSliceOf, s, t
      <4>2. /\ a \in Nat /\ b \in Nat /\ a <= b /\ b <= Len(c.text) /\ b - a = Len(t)
            /\ c.text \in Text
        BY <1>4, <1>6, <2>2, ChunksAreTyped
      <4> HIDE DEF a, b
      <4>3. \A q \in 1 .. b - a : Slice(c.text, a, b)[q] = c.text[a + q]
        BY <4>2, SlicesAreTexts
      <4>4. t[n] = c.text[a + n]
        BY <4>1, <4>2, <4>3
      <4>5. QED
        BY <4>4 DEF a
    <3>2. x[i + n] = c.text[o.span.start - z + (i + n)]
      <4> HIDE DEF i
      <4>1. i + n \in 1 .. Len(x)
        BY <2>2, <2>3
      <4> DEFINE j == i + n
      <4> HIDE DEF j
      <4>2. x[j] = c.text[o.span.start - z + j]
        BY <1>original, <4>1 DEF x, j
      <4>3. QED
        BY <4>2 DEF j
    <3>3. o.span.start - z + (i + n) = s - z + n
      BY <1>4, <2>1, <2>2, SMTT(30)
    <3>4. QED
      BY <3>1, <3>2, <3>3
  <2> HIDE DEF i
  <2>5. OccursIn(x, t)
    BY <1>4, <1>original, <2>3, <2>4, StretchesOccur DEF x
  <2>6. QED
    BY <1>1, <1>original, <2>1, <2>5 DEF x
<1>13. QED
  BY <1>7, <1>9, <1>10, <1>11, <1>12 DEF Narrowed, o, m

LEMMA CriticReportsNarrow ==
  ASSUME NEW c \in Chunks, NEW p \in Payload(c) \cup DerivedPayloads(c),
         NEW v, v.correction \in Correction(Built(p, c)) \cup {NoCorrection}
  PROVE  LET m == CriticReport(v, Built(p, c), c).candidate
         IN  SpanIsPlaced(m.span, c) /\ Narrowed(m, Built(p, c), c)
<1> DEFINE o == Built(p, c)
           r == CriticReport(v, o, c)
           k == v.correction
           m == MergedCorrection(k, o, c)
<1>1. SpanIsPlaced(o.span, c) /\ Narrowed(o, o, c)
  BY BuiltSpansArePlaced, CandidatesNarrowThemselves
<1>2. Accepted(o).candidate = o /\ Rejected(o).candidate = o /\ AcceptedAs(m).candidate = m
  BY DEF Accepted, Rejected, AcceptedAs
<1>3. r \in {Accepted(o), Rejected(o)} \/ r = CorrectionReport(k, o, c)
  BY DEF CriticReport
<1>4. \/ CorrectionReport(k, o, c) \in {Accepted(o), Rejected(o)}
      \/ /\ CorrectionReport(k, o, c) = AcceptedAs(m)
         /\ StructuralReasons(k, o, c) = {}
         /\ CorrectionReasons(m, o, c) = {}
         /\ ~IsOriginalKept(o, m, {}, c)
  BY DEF CorrectionReport
<1>5. ASSUME StructuralReasons(k, o, c) = {} PROVE k \in Correction(o)
  <2>1. k.given
    BY <1>5 DEF StructuralReasons
  <2>2. ~NoCorrection.given
    BY DEF NoCorrection
  <2>3. k # NoCorrection
    BY <2>1, <2>2
  <2>4. QED
    BY <2>3
<1>6. CASE r \in {Accepted(o), Rejected(o)}
  BY <1>1, <1>2, <1>6
<1>7. CASE r \notin {Accepted(o), Rejected(o)}
  <2>1. /\ r = AcceptedAs(m) /\ StructuralReasons(k, o, c) = {}
        /\ CorrectionReasons(m, o, c) = {} /\ ~IsOriginalKept(o, m, {}, c)
    BY <1>3, <1>4, <1>7
  <2>2. k \in Correction(o)
    BY <1>5, <2>1
  <2>3. SpanIsPlaced(m.span, c) /\ Narrowed(m, o, c)
    BY <2>1, <2>2, CorrectionsOnlyNarrow
  <2>4. QED
    BY <1>2, <2>1, <2>3
<1>8. QED
  BY <1>6, <1>7

-----------------------------------------------------------------------------
(* The steps                                                               *)

(* The candidate that is reviewed is one that the executor built.          *)
LEMMA CriticStep ==
  ASSUME EvidenceInv, CriticReviews
  PROVE  /\ stage = "executed" /\ stage' \in {"reviewed", "dropped"}
         /\ chunk' = chunk /\ original' = original /\ verified' = verified
         /\ SpanIsPlaced(candidate'.span, chunk) /\ Narrowed(candidate', original, chunk)
<1>1. PICK v \in CriticVerdict :
        /\ candidate' = CriticReport(v, candidate, chunk).candidate
        /\ stage' \in {"reviewed", "dropped"}
  BY DEF CriticReviews
<1>2. /\ stage = "executed" /\ chunk' = chunk /\ original' = original
      /\ verified' = verified
  BY DEF CriticReviews
<1>3. /\ chunk \in Chunks /\ payload \in Payload(chunk) \cup DerivedPayloads(chunk)
      /\ candidate = Built(payload, chunk) /\ original = candidate
  BY <1>2 DEF EvidenceInv
<1>4. v.correction \in Correction(candidate) \cup {NoCorrection}
  BY <1>1 DEF CriticVerdict, Verdict
<1>5. /\ SpanIsPlaced(candidate'.span, chunk)
      /\ Narrowed(candidate', Built(payload, chunk), chunk)
  BY <1>1, <1>3, <1>4, CriticReportsNarrow
<1>6. QED
  BY <1>1, <1>2, <1>3, <1>5

LEMMA VerifierStep ==
  ASSUME VerifierReviews
  PROVE  /\ stage = "reviewed" /\ stage' \in {"verified", "unverified"}
         /\ UNCHANGED <<chunk, payload, candidate, original>>
         /\ \E v : /\ verified' = VerifierReport(v, candidate, chunk)
                   /\ v.code \in RejectionReasonCode \cup {"none"}
                   /\ v.code = "none" => v.decision = "accept"
         /\ stage' = "verified" => verified'.accepted
         /\ stage' = "unverified" => ~verified'.accepted
<1>1. PICK v \in Verdict({"accept"}, {"none"}, {FALSE}, {NoCorrection})
                 \cup Verdict({"reject"}, RejectionReasonCode, {FALSE}, {NoCorrection}) :
        verified' = VerifierReport(v, candidate, chunk)
  BY DEF VerifierReviews
<1>2. v.code \in RejectionReasonCode \cup {"none"} /\ (v.code = "none" => v.decision = "accept")
  BY <1>1 DEF Verdict, RejectionReasonCode
<1>3. /\ stage = "reviewed" /\ UNCHANGED <<chunk, payload, candidate, original>>
      /\ stage' = IF verified'.accepted THEN "verified" ELSE "unverified"
  BY DEF VerifierReviews
<1>4. QED
  BY <1>1, <1>2, <1>3

(* A rejection for a missing verdict cannot be built.                      *)
LEMMA MissesRaise ==
  ASSUME CriticMisses \/ VerifierMisses
  PROVE  stage' = "raised" /\ chunk' = chunk
BY DEF CriticMisses, VerifierMisses, RejectionReasonCode

LEMMA ExecuteStep ==
  ASSUME EvidenceInv, Execute
  PROVE  /\ chunk' = chunk /\ payload' = payload
         /\ payload \in Payload(chunk) \cup DerivedPayloads(chunk)
         /\ \/ stage' = "raised"
            \/ /\ stage' = IF ExecutorReasons(ResolveSource(payload, chunk),
                                             Built(payload, chunk), chunk) = {}
                          THEN "executed" ELSE "refused"
               /\ candidate' = Built(payload, chunk) /\ original' = candidate'
<1>1. /\ stage = "proposed" /\ chunk' = chunk /\ payload' = payload
      /\ Materialize(ResolveSource(payload, chunk),
                     Prepare(payload, ResolveSource(payload, chunk), chunk))
  BY DEF Execute
<1>2. payload \in Payload(chunk) \cup DerivedPayloads(chunk)
  BY <1>1 DEF EvidenceInv
<1>3. \/ stage' = "raised"
      \/ /\ stage' = IF ExecutorReasons(ResolveSource(payload, chunk),
                                       Built(payload, chunk), chunk) = {}
                    THEN "executed" ELSE "refused"
         /\ candidate' = Built(payload, chunk) /\ original' = candidate'
  BY <1>1 DEF Materialize, Built
<1>4. QED
  BY <1>1, <1>2, <1>3

(* The invariant of the review: EvidenceInv, with what has been decided of *)
(* the candidate by the stage it is in.                                    *)
Reviewed ==
  /\ EvidenceInv /\ GoodClaimsAreKept /\ RepairsAreCertain
  /\ AcceptedIsGrounded /\ ReviewOnlyNarrows /\ RejectionsAreNotContradicted

LEMMA ReviewedInit == Init => Reviewed
BY DEF Init, Reviewed, EvidenceInv, GoodClaimsAreKept, RepairsAreCertain,
       AcceptedIsGrounded, ReviewOnlyNarrows, RejectionsAreNotContradicted

LEMMA ReviewedStep == Reviewed /\ [Next]_vars => Reviewed'
<1> SUFFICES ASSUME Reviewed, [Next]_vars PROVE Reviewed'
  OBVIOUS
<1> EvidenceInv
  BY DEF Reviewed
<1>1. CASE Execute
  <2>1. /\ chunk' = chunk /\ payload' = payload
        /\ payload \in Payload(chunk) \cup DerivedPayloads(chunk)
        /\ \/ stage' = "raised"
           \/ /\ stage' = IF ExecutorReasons(ResolveSource(payload, chunk),
                                            Built(payload, chunk), chunk) = {}
                         THEN "executed" ELSE "refused"
              /\ candidate' = Built(payload, chunk) /\ original' = candidate'
    BY <1>1, ExecuteStep
  <2>2. chunk \in Chunks
    BY DEF EvidenceInv
  <2>3. SpanIsPlaced(Built(payload, chunk).span, chunk)
    BY <2>1, <2>2, BuiltSpansArePlaced
  <2>4. EvidenceInv'
    BY <2>1, <2>2, <2>3 DEF EvidenceInv
  <2>5. AcceptedIsGrounded' /\ ReviewOnlyNarrows' /\ RejectionsAreNotContradicted'
    BY <2>1 DEF AcceptedIsGrounded, ReviewOnlyNarrows, RejectionsAreNotContradicted
  <2>6. GoodClaimsAreKept'
    <3>1. SUFFICES ASSUME stage' = "refused", IsGoodClaim' PROVE FALSE
      BY DEF GoodClaimsAreKept
    <3>2. /\ payload.category \in DOMAIN ApprovedFields
          /\ payload.field \in ApprovedFields[payload.category]
          /\ ClaimHolds(payload, chunk)
          /\ ~IsShortAndRepeated(chunk, Claimed(payload, chunk))
      BY <2>1, <3>1 DEF IsGoodClaim
    <3>3. QED
      BY <2>1, <2>2, <3>1, <3>2, GoodClaimsPass
  <2>7. RepairsAreCertain'
    <3>1. SUFFICES ASSUME stage' = "executed" PROVE RepairsAreCertain'
      BY DEF RepairsAreCertain
    <3>2. candidate' = Built(payload, chunk)
      BY <2>1, <3>1
    <3>3. ResolveSource(payload, chunk).reasons = {}
      BY <2>1, <3>1 DEF ExecutorReasons
    <3>4. /\ \E place \in EvidencePlaces(payload, chunk) :
               \/ IsTakenFrom(place, Built(payload, chunk).span, payload.field, chunk)
               \/ IsAmountOf(place, Built(payload, chunk).span.text, payload, chunk)
          /\ ClaimHolds(payload, chunk) \/ Matches(payload, chunk) = {}
               \/ IsLabel(Built(payload, chunk)) \/ IsSupported(Built(payload, chunk))
      BY <2>1, <2>2, <3>3, BuiltIsTaken
    <3>5. QED
      BY <2>1, <3>2, <3>4 DEF RepairsAreCertain
  <2>8. QED
    BY <2>4, <2>5, <2>6, <2>7 DEF Reviewed
<1>2. CASE CriticMisses \/ VerifierMisses
  <2>1. stage' = "raised" /\ chunk' = chunk
    BY <1>2, MissesRaise
  <2>2. EvidenceInv'
    BY <2>1 DEF EvidenceInv
  <2>3. AcceptedIsGrounded' /\ ReviewOnlyNarrows' /\ RejectionsAreNotContradicted'
    BY <2>1 DEF AcceptedIsGrounded, ReviewOnlyNarrows, RejectionsAreNotContradicted
  <2>4. GoodClaimsAreKept' /\ RepairsAreCertain'
    BY <2>1 DEF GoodClaimsAreKept, RepairsAreCertain
  <2>5. QED
    BY <2>2, <2>3, <2>4 DEF Reviewed
<1>3. CASE CriticReviews
  <2>1. /\ stage = "executed" /\ stage' \in {"reviewed", "dropped"}
        /\ chunk' = chunk /\ original' = original /\ verified' = verified
        /\ SpanIsPlaced(candidate'.span, chunk) /\ Narrowed(candidate', original, chunk)
    BY <1>3, CriticStep
  <2>2. EvidenceInv'
    <3>1. SpanIsPlaced(original.span, chunk)
      BY <2>1 DEF EvidenceInv
    <3>2. QED
      BY <2>1, <3>1 DEF EvidenceInv
  <2>3. ReviewOnlyNarrows'
    BY <2>1 DEF Narrowed, ReviewOnlyNarrows
  <2>4. AcceptedIsGrounded' /\ RejectionsAreNotContradicted'
    BY <2>1 DEF AcceptedIsGrounded, RejectionsAreNotContradicted
  <2>5. GoodClaimsAreKept' /\ RepairsAreCertain'
    BY <2>1 DEF GoodClaimsAreKept, RepairsAreCertain
  <2>6. QED
    BY <2>2, <2>3, <2>4, <2>5 DEF Reviewed
<1>4. CASE VerifierReviews
  <2>1. /\ stage = "reviewed" /\ stage' \in {"verified", "unverified"}
        /\ UNCHANGED <<chunk, payload, candidate, original>>
        /\ stage' = "verified" => verified'.accepted
        /\ stage' = "unverified" => ~verified'.accepted
    BY <1>4, VerifierStep
  <2>2. PICK v : /\ verified' = VerifierReport(v, candidate, chunk)
                 /\ v.code \in RejectionReasonCode \cup {"none"}
                 /\ v.code = "none" => v.decision = "accept"
    BY <1>4, VerifierStep
  <2>3. chunk \in Chunks /\ SpanIsPlaced(candidate.span, chunk)
    BY <2>1 DEF EvidenceInv
  <2>4. EvidenceInv'
    BY <2>1 DEF EvidenceInv
  <2>5. ReviewOnlyNarrows'
    <3>1. ReviewOnlyNarrows
      BY DEF Reviewed
    <3>2. QED
      BY <2>1, <3>1 DEF ReviewOnlyNarrows
  <2>6. AcceptedIsGrounded'
    <3>1. SUFFICES ASSUME stage' = "verified" PROVE AcceptedIsGrounded'
      BY DEF AcceptedIsGrounded
    <3>2. /\ SpanMatches(candidate.span, chunk) /\ IsApproved(candidate)
          /\ IsLabel(candidate) \/ IsSupported(candidate)
      BY <2>1, <2>2, <3>1, VerifierIsMechanical
    <3>3. QED
      BY <2>1, <2>3, <3>2, MatchingSpansAreGrounded DEF AcceptedIsGrounded
  <2>7. RejectionsAreNotContradicted'
    <3>1. SUFFICES ASSUME stage' = "unverified", IsMechanicallyValid(candidate, chunk)
                   PROVE  RejectionsAreNotContradicted'
      BY <2>1 DEF RejectionsAreNotContradicted
    <3>2. /\ \E code \in JudgementCode : verified'.reasons = {code}
          /\ verified'.spanVerified /\ verified'.categoryVerified
      BY <2>1, <2>2, <3>1, VerifierIsMechanical
    <3>3. QED
      BY <3>2 DEF RejectionsAreNotContradicted
  <2>8. GoodClaimsAreKept' /\ RepairsAreCertain'
    BY <2>1 DEF GoodClaimsAreKept, RepairsAreCertain
  <2>9. QED
    BY <2>4, <2>5, <2>6, <2>7, <2>8 DEF Reviewed
<1>5. CASE UNCHANGED vars
  <2>1. /\ EvidenceInv' /\ AcceptedIsGrounded' /\ ReviewOnlyNarrows'
        /\ RejectionsAreNotContradicted'
    BY <1>5 DEF vars, Reviewed, EvidenceInv, AcceptedIsGrounded, ReviewOnlyNarrows,
                RejectionsAreNotContradicted
  <2>2. GoodClaimsAreKept' /\ RepairsAreCertain'
    BY <1>5 DEF vars, Reviewed, GoodClaimsAreKept, IsGoodClaim, RepairsAreCertain
  <2>3. QED
    BY <2>1, <2>2 DEF Reviewed
<1>6. QED
  BY <1>1, <1>2, <1>3, <1>4, <1>5 DEF Next

LEMMA ReviewedAlways == Spec => []Reviewed
BY ReviewedInit, ReviewedStep, PTL DEF Spec

(* The executor drops no claim of its model that lies in the chunk, holds  *)
(* the value, names a slot of the plan and is unambiguous; the normalizers *)
(* do not move it to where its check would refuse it.                      *)
THEOREM RightClaimsSurvive == Spec => []GoodClaimsAreKept
<1>1. Reviewed => GoodClaimsAreKept
  BY DEF Reviewed
<1>2. QED
  BY <1>1, ReviewedAlways, PTL

(* The span that the executor hands on, after its normalizers, is that of  *)
(* the claim or, if the claim does not hold the value, of the one place    *)
(* that does, or of one outside of headings for the fields next to their   *)
(* header; a normalizer takes a part of it, goes on to the end of a clause *)
(* or, for a prior period, takes the amount with a quarter.  The span then *)
(* supports the value that is handed on, but for a label.                  *)
THEOREM RepairsAreRight == Spec => []RepairsAreCertain
<1>1. Reviewed => RepairsAreCertain
  BY DEF Reviewed
<1>2. QED
  BY <1>1, ReviewedAlways, PTL

(* Whatever the models propose, correct and object, a candidate that the   *)
(* verifier accepts has the characters and the byte offsets of its place   *)
(* in the chunk, a slot of the plan, and a value its span supports.        *)
THEOREM AcceptedStaysGrounded == Spec => []AcceptedIsGrounded
<1>1. Reviewed => AcceptedIsGrounded
  BY DEF Reviewed
<1>2. QED
  BY <1>1, ReviewedAlways, PTL

(* No correction of the critic's model widens the evidence of a candidate, *)
(* takes its span out of its value_verbatim, changes its value, or moves a *)
(* candidate nothing is wrong with to another slot.                        *)
THEOREM ReviewNarrows == Spec => []ReviewOnlyNarrows
<1>1. Reviewed => ReviewOnlyNarrows
  BY DEF Reviewed
<1>2. QED
  BY <1>1, ReviewedAlways, PTL

(* No objection of the verifier's model that its checks can see to be      *)
(* false rejects a candidate, nor clears a flag of its report: of all the  *)
(* codes of a rejection only the four that are a judgement are left.       *)
THEOREM ChecksAreNotOverruled == Spec => []RejectionsAreNotContradicted
<1>1. Reviewed => RejectionsAreNotContradicted
  BY DEF Reviewed
<1>2. QED
  BY <1>1, ReviewedAlways, PTL

-----------------------------------------------------------------------------
(* The windows of a text                                                   *)

Position == 0 .. count

WindowsType ==
  /\ config \in Config
  /\ count \in Nat \ {0}
  /\ aligned \in SUBSET Position /\ 0 \in aligned /\ count \in aligned
  /\ start \in Position /\ end \in Position
  /\ windows \in Seq([start : Position, end : Position])

LastEnd == windows[Len(windows)].end

(* Where the next window may start, and that it will go further.           *)
NextIsClose ==
  /\ windows = <<>> => start = 0
  /\ windows # <<>> =>
       /\ LastEnd = count => start = count
       /\ LastEnd < count => start <= LastEnd /\ start >= LastEnd - config.overlap
       /\ end > 0 => end > LastEnd
  /\ end > 0 => start \in aligned /\ start < end
  /\ start = count => windows # <<>> /\ LastEnd = count

WindowsInv == WindowsType /\ NextIsClose /\ WindowsCover

LEMMA ConfigType ==
  ASSUME config \in Config
  PROVE  config.window \in Nat /\ config.overlap \in Nat /\ config.overlap < config.window
  BY ConfigAssumption

LEMMA InitHolds == WindowsInit => WindowsInv
  BY DEF WindowsInit, WindowsInv, WindowsType, NextIsClose, WindowsCover, Position, LastEnd

(* While a position is looked for nothing is appended.                     *)
LEMMA SeekingHolds ==
  ASSUME WindowsInv, SkipStart \/ OpenWindow \/ SkipEnd
  PROVE  WindowsInv'
<1>1. config.window \in Nat /\ config.overlap \in Nat /\ config.overlap < config.window
  BY ConfigType DEF WindowsInv, WindowsType
<1>2. UNCHANGED <<config, count, aligned, windows>>
  BY DEF SkipStart, OpenWindow, SkipEnd
<1>3. windows # <<>> => LastEnd \in aligned /\ LastEnd \in Position
  <2>1. windows # <<>> => Len(windows) \in DOMAIN windows
    BY DEF WindowsInv, WindowsType
  <2>2. QED
    BY <2>1 DEF WindowsInv, WindowsType, WindowsCover, LastEnd
<1>4. WindowsType'
  BY <1>1, <1>2 DEF WindowsInv, WindowsType, Position, SkipStart, OpenWindow, SkipEnd,
     Seeking, Capped
<1>5. NextIsClose'
  <2>1. CASE SkipStart
    BY <2>1, <1>1, <1>2, <1>3
    DEF SkipStart, WindowsInv, WindowsType, Position, NextIsClose, Seeking, LastEnd
  <2>2. CASE OpenWindow
    <3>1. /\ start \in Nat /\ start < count /\ count \in Nat /\ start \in aligned
          /\ end' = Capped(start + config.window) /\ UNCHANGED start
      BY <2>2 DEF OpenWindow, WindowsInv, WindowsType, Position, Seeking
    <3>2. end' > start /\ (end' = count \/ end' = start + config.window)
      BY <3>1, <1>1 DEF Capped
    <3>3. windows # <<>> => /\ LastEnd \in Nat /\ LastEnd < count
                            /\ start <= LastEnd /\ start >= LastEnd - config.overlap
      BY <3>1, <1>3 DEF WindowsInv, NextIsClose, Position, WindowsType
    <3>4. windows # <<>> => end' > LastEnd
      BY <3>1, <3>2, <3>3, <1>1
    <3>5. LastEnd' = LastEnd
      BY <1>2 DEF LastEnd
    <3>6. QED
      BY <3>1, <3>2, <3>3, <3>4, <3>5, <1>2 DEF WindowsInv, NextIsClose
  <2>3. CASE SkipEnd
    BY <2>3, <1>1, <1>2, <1>3
    DEF SkipEnd, WindowsInv, WindowsType, Position, NextIsClose, Seeking, LastEnd
  <2>4. QED
    BY <2>1, <2>2, <2>3
<1>6. WindowsCover'
  <2>1. start' = count' => windows' # <<>> /\ LastEnd' = count'
    BY <1>5 DEF NextIsClose
  <2>2. QED
    BY <1>2, <2>1 DEF WindowsInv, WindowsCover, LastEnd
<1>7. QED
  BY <1>4, <1>5, <1>6 DEF WindowsInv

LEMMA ClosingHolds ==
  ASSUME WindowsInv, CloseWindow
  PROVE  WindowsInv'
<1>1. config.window \in Nat /\ config.overlap \in Nat /\ config.overlap < config.window
  BY ConfigType DEF WindowsInv, WindowsType
<1>2. /\ start \in Nat /\ end \in Nat /\ count \in Nat /\ start < end /\ end <= count
      /\ start \in aligned /\ end \in aligned /\ start \in Position /\ end \in Position
  BY DEF WindowsInv, WindowsType, NextIsClose, Position, CloseWindow, Seeking
<1> DEFINE window == [start |-> start, end |-> end]
           n == Len(windows)
<1>3. /\ windows \in Seq([start : Position, end : Position]) /\ n \in Nat
      /\ windows' = Append(windows, window) /\ window.start = start /\ window.end = end
      /\ UNCHANGED <<config, count, aligned>>
  BY DEF WindowsInv, WindowsType, CloseWindow
<1>4. /\ windows' \in Seq([start : Position, end : Position])
      /\ Len(windows') = n + 1 /\ windows' # <<>> /\ windows'[n + 1] = window
      /\ \A i \in 1 .. n : windows'[i] = windows[i]
  BY <1>2, <1>3
<1>5. LastEnd' = end
  BY <1>3, <1>4 DEF LastEnd
<1>6. /\ start' \in Nat /\ start' <= count
      /\ end < count => start' <= end /\ start' >= end - config.overlap
      /\ end = count => start' = count
  <2>1. CASE end = count
    BY <2>1, <1>2 DEF CloseWindow
  <2>2. CASE end # count
    <3>1. start' = NextStart(start, end)
      BY <2>2 DEF CloseWindow
    <3>2. QED
      BY <3>1, <2>2, <1>1, <1>2 DEF NextStart
  <2>3. QED
    BY <2>1, <2>2
<1>7. WindowsType'
  BY <1>3, <1>4, <1>6 DEF WindowsInv, WindowsType, CloseWindow, Position
<1>8. NextIsClose'
  BY <1>2, <1>3, <1>4, <1>5, <1>6 DEF NextIsClose, CloseWindow
<1>9. \A i \in DOMAIN windows' :
        /\ windows'[i].start \in aligned /\ windows'[i].end \in aligned
        /\ i = 1 => windows'[i].start = 0
        /\ i > 1 => /\ windows'[i].start <= windows'[i - 1].end
                    /\ windows'[i].end > windows'[i - 1].end
                    /\ windows'[i].start >= windows'[i - 1].end - config.overlap
  <2>1. SUFFICES ASSUME NEW i \in 1 .. n + 1
        PROVE /\ windows'[i].start \in aligned /\ windows'[i].end \in aligned
              /\ i = 1 => windows'[i].start = 0
              /\ i > 1 => /\ windows'[i].start <= windows'[i - 1].end
                          /\ windows'[i].end > windows'[i - 1].end
                          /\ windows'[i].start >= windows'[i - 1].end - config.overlap
    BY <1>4
  <2>2. CASE i \in 1 .. n
    <3>1. windows'[i] = windows[i] /\ (i > 1 => windows'[i - 1] = windows[i - 1])
      BY <2>2, <1>3, <1>4
    <3>2. QED
      BY <2>2, <3>1, <1>3 DEF WindowsInv, WindowsCover
  <2>3. CASE i = n + 1 /\ n = 0
    <3>1. windows = <<>> /\ start = 0
      BY <2>3, <1>3 DEF WindowsInv, NextIsClose
    <3>2. QED
      BY <2>3, <3>1, <1>2, <1>3, <1>4
  <2>4. CASE i = n + 1 /\ n > 0
    <3>1. windows'[i - 1].end = LastEnd /\ windows # <<>> /\ LastEnd \in Position
      <4>1. n \in 1 .. n /\ i - 1 = n
        BY <2>4, <1>3
      <4>2. windows'[n] = windows[n]
        BY <4>1, <1>4
      <4>3. LastEnd = windows[n].end /\ LastEnd \in Position
        <5>1. n \in DOMAIN windows
          BY <4>1, <1>3
        <5>2. windows[n].end \in aligned
          BY <5>1 DEF WindowsInv, WindowsCover
        <5>3. QED
          BY <5>2 DEF LastEnd, WindowsInv, WindowsType
      <4>4. windows # <<>>
        BY <2>4
      <4>5. QED
        BY <4>1, <4>2, <4>3, <4>4
    <3>2. LastEnd < count /\ start <= LastEnd /\ start >= LastEnd - config.overlap
          /\ end > LastEnd
      BY <3>1, <1>2 DEF WindowsInv, NextIsClose, CloseWindow, Position
    <3>3. QED
      BY <2>4, <3>1, <3>2, <1>2, <1>3, <1>4
  <2>5. QED
    BY <2>2, <2>3, <2>4, <1>3
<1>10. WindowsCover'
  <2>1. start' = count' => windows' # <<>> /\ LastEnd' = count'
    BY <1>8 DEF NextIsClose
  <2>2. QED
    BY <1>3, <1>9, <2>1 DEF WindowsCover, LastEnd
<1>11. QED
  BY <1>7, <1>8, <1>10 DEF WindowsInv

(* tokenizer.py:46: in every text, whatever its letters and the tokens are *)
(* and for every window and overlap, the windows cut no letter, leave no   *)
(* gap, go on at every step and in the end reach the end of the text.      *)
THEOREM WindowsCoverTheText == WindowsSpec => []WindowsCover
<1>1. WindowsInit => WindowsInv
  BY InitHolds
<1>2. WindowsInv /\ [WindowStep]_windowing => WindowsInv'
  <2>1. SUFFICES ASSUME WindowsInv, [WindowStep]_windowing PROVE WindowsInv'
    OBVIOUS
  <2>2. CASE UNCHANGED windowing
    BY <2>1, <2>2 DEF windowing, WindowsInv, WindowsType, NextIsClose, WindowsCover,
       Position, LastEnd
  <2>3. QED
    BY <2>1, <2>2, SeekingHolds, ClosingHolds DEF WindowStep
<1>3. WindowsInv => WindowsCover
  BY DEF WindowsInv
<1>4. QED
  BY <1>1, <1>2, <1>3, PTL DEF WindowsSpec
=============================================================================
