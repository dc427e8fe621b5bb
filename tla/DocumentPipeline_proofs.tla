----------------------- MODULE DocumentPipeline_proofs -----------------------
(***************************************************************************)
(* The offsets of the spans of every ingested document, and the chunks of  *)
(* every document that the layout_aware mode packs, for texts of any       *)
(* length and any letters.                                                 *)
(*                                                                         *)
(* A range marks a text in another when the other is a text before it, it, *)
(* and a text after it, and the range's offsets are the lengths of these   *)
(* in characters and bytes (Marks).  An assembler is exact on a text when  *)
(* the text is its own, its offsets are the text's lengths, and all its    *)
(* spans and cells are marked in it (ExactOn).  Appending keeps both.      *)
(*                                                                         *)
(* The blocks of a document that its contract and the overlap check let    *)
(* through follow one another; with the gaps filled they tile the text     *)
(* (Tiled), and they are packed into a row of chunks one block at a time   *)
(* (Packs).  What the row says of the chunks is an invariant of that loop, *)
(* and so are the loops that split a block too large for a window.         *)
(***************************************************************************)
EXTENDS DocumentPipeline, FiniteSetTheorems, SequenceTheorems, WellFoundedInduction, TLAPS

-----------------------------------------------------------------------------
(* Induction without a predicate parameter: sets stand for predicates.     *)

(* A set of naturals that is not empty has a least element.                *)
LEMMA LeastElement ==
  ASSUME NEW T \in SUBSET Nat, T # {}
  PROVE  \E x \in T : \A y \in T : x <= y
<1> DEFINE Segments == {0 .. x : x \in T}
<1>1. Segments \subseteq FiniteSubsetsOf(Nat)
  <2>1. ASSUME NEW x \in T PROVE IsFiniteSet(0 .. x)
    <3>1. x \in Int /\ 0 \in Int
      OBVIOUS
    <3>2. QED
      BY <3>1, FS_Interval
  <2>2. QED
    BY <2>1 DEF FiniteSubsetsOf
<1>2. Segments # {}
  OBVIOUS
<1>3. \E s \in Segments : \A t \in Segments :
        ~ (<<t, s>> \in StrictSubsetOrdering(Nat))
  <2> HIDE DEF Segments
  <2> QED
    BY <1>1, <1>2, FS_StrictSubsetOrderingWellFounded, WFMin
<1>4. PICK x \in T : \A y \in T :
        ~ (<<0 .. y, 0 .. x>> \in StrictSubsetOrdering(Nat))
  BY <1>3
<1>5. ASSUME NEW y \in T, y < x PROVE FALSE
  <2>1. 0 .. y \in SUBSET Nat /\ 0 .. x \in SUBSET Nat
    OBVIOUS
  <2>2. 0 .. y \subseteq 0 .. x /\ x \in 0 .. x /\ x \notin 0 .. y
    BY <1>5
  <2>3. QED
    BY <1>4, <2>1, <2>2 DEF StrictSubsetOrdering
<1>6. QED
  BY <1>5

(* A bounded set of naturals that is not empty has a greatest element.     *)
LEMMA GreatestElement ==
  ASSUME NEW T \in SUBSET Nat, T # {}, NEW n \in Nat, \A x \in T : x <= n
  PROVE  Max(T) \in T /\ \A y \in T : y <= Max(T)
<1> DEFINE U == {n - x : x \in T}
<1>1. U \in SUBSET Nat /\ U # {}
  <2>1. \A x \in T : n - x \in Nat
    OBVIOUS
  <2>2. QED
    BY <2>1
<1>2. PICK u \in U : \A v \in U : u <= v
  <2> HIDE DEF U
  <2> QED
    BY <1>1, LeastElement
<1>3. PICK x \in T : u = n - x
  BY <1>2
<1>4. ASSUME NEW y \in T PROVE x >= y
  <2>1. n - y \in U /\ x \in Nat /\ y \in Nat
    OBVIOUS
  <2>2. n - x <= n - y
    BY <1>2, <1>3, <2>1
  <2>3. QED
    BY <2>1, <2>2
<1>5. \E z \in T : \A y \in T : z >= y
  BY <1>4
<1>6. Max(T) \in T /\ \A y \in T : Max(T) >= y
  BY <1>5 DEF Max
<1>7. QED
  BY <1>6

(* The least element of a set is its Min, and the greatest its Max.        *)
LEMMA LeastIsMin ==
  ASSUME NEW T \in SUBSET Nat, NEW x \in T, \A y \in T : x <= y
  PROVE  Min(T) = x
<1>1. \A u, v \in Nat : u <= v /\ v <= u => u = v
  OBVIOUS
<1>2. Min(T) \in T /\ \A y \in T : Min(T) <= y
  BY DEF Min
<1>3. Min(T) <= x /\ x <= Min(T) /\ x \in Nat /\ Min(T) \in Nat
  BY <1>2
<1>4. QED
  BY <1>1, <1>3

LEMMA GreatestIsMax ==
  ASSUME NEW T \in SUBSET Nat, NEW x \in T, \A y \in T : y <= x
  PROVE  Max(T) = x
<1>1. \A u, v \in Nat : u <= v /\ v <= u => u = v
  OBVIOUS
<1>2. x \in T /\ \A y \in T : x >= y
  OBVIOUS
<1>3. Max(T) \in T /\ \A y \in T : Max(T) >= y
  BY <1>2 DEF Max
<1>4. x <= Max(T) /\ Max(T) <= x /\ x \in Nat /\ Max(T) \in Nat
  BY <1>3
<1>5. QED
  BY <1>1, <1>4

(* What holds at 0 and from each place to the next holds on all of 0 .. n. *)
LEMMA Reaches ==
  ASSUME NEW n \in Nat, NEW T, 0 \in T, \A i \in 1 .. n : i - 1 \in T => i \in T
  PROVE  \A i \in 0 .. n : i \in T
<1> DEFINE Missed == (0 .. n) \ T
<1>1. SUFFICES ASSUME Missed # {} PROVE FALSE
  OBVIOUS
<1>2. PICK m \in Missed : \A y \in Missed : m <= y
  <2>1. Missed \in SUBSET Nat
    OBVIOUS
  <2> HIDE DEF Missed
  <2>2. QED
    BY <1>1, <2>1, LeastElement
<1>3. m \in 1 .. n /\ m - 1 \in 0 .. n
  OBVIOUS
<1>4. m - 1 \in T
  BY <1>2, <1>3
<1>5. QED
  BY <1>3, <1>4

(* A function on 0 .. n that is defined from one place to the next exists. *)
Follows(f, n, x, step) == f[0] = x /\ \A i \in 1 .. n : f[i] = step[i][f[i - 1]]

(* From any first value the steps can be followed to the end.              *)
LEMMA Iterates ==
  ASSUME NEW n \in Nat, NEW S, NEW x \in S, NEW step \in [1 .. n -> [S -> S]]
  PROVE  \E f \in [0 .. n -> S] : Follows(f, n, x, step)
<1> DEFINE Holds(f, m) == f[0] = x /\ \A i \in 1 .. m : f[i] = step[i][f[i - 1]]
           T == {m \in 0 .. n : \E f \in [0 .. m -> S] : Holds(f, m)}
<1>1. 0 \in T
  <2> DEFINE f == [i \in 0 .. 0 |-> x]
  <2>1. f \in [0 .. 0 -> S] /\ Holds(f, 0) /\ 0 \in 0 .. n
    OBVIOUS
  <2> HIDE DEF f, Holds
  <2>2. QED
    BY <2>1
<1>2. ASSUME NEW m \in 1 .. n, m - 1 \in T PROVE m \in T
  <2>1. PICK f \in [0 .. m - 1 -> S] : Holds(f, m - 1)
    BY <1>2
  <2> DEFINE g == [i \in 0 .. m |-> IF i = m THEN step[m][f[m - 1]] ELSE f[i]]
  <2>2. step[m][f[m - 1]] \in S
    OBVIOUS
  <2>3. /\ g \in [0 .. m -> S] /\ g[m] = step[m][f[m - 1]]
        /\ \A i \in 0 .. m - 1 : g[i] = f[i]
    BY <2>2
  <2>4. Holds(g, m)
    <3> HIDE DEF g
    <3>1. g[0] = x
      BY <2>1, <2>3
    <3>2. ASSUME NEW i \in 1 .. m PROVE g[i] = step[i][g[i - 1]]
      <4>1. CASE i = m
        BY <2>3, <4>1
      <4>2. CASE i # m
        BY <2>1, <2>3, <4>2
      <4>3. QED
        BY <4>1, <4>2
    <3>3. QED
      BY <3>1, <3>2
  <2> HIDE DEF g, Holds
  <2>5. QED
    BY <2>3, <2>4
<1>3. n \in T
  <2> HIDE DEF T
  <2>1. n \in 0 .. n
    OBVIOUS
  <2>2. QED
    BY <1>1, <1>2, <2>1, Reaches
<1>4. QED
  BY <1>3 DEF Follows

(* FlattenSeq puts sequences one after the other.                          *)
Chain(f, n, ss) == f[0] = <<>> /\ \A i \in 1 .. n : f[i] = f[i - 1] \o ss[i]

(* FlattenSeq is the last of the prefixes that a chain builds.             *)
LEMMA Flattening ==
  ASSUME NEW S, NEW n \in Nat, NEW ss \in [1 .. n -> Seq(S)]
  PROVE  \E f \in [0 .. n -> Seq(S)] : Chain(f, n, ss) /\ FlattenSeq(ss) = f[n]
<1> DEFINE step == [i \in 1 .. n |-> [s \in Seq(S) |-> s \o ss[i]]]
<1>1. ss \in Seq(Seq(S)) /\ Len(ss) = n /\ <<>> \in Seq(S)
  OBVIOUS
<1>2. step \in [1 .. n -> [Seq(S) -> Seq(S)]]
  OBVIOUS
<1>3. PICK f \in [0 .. n -> Seq(S)] : Follows(f, n, <<>>, step)
  <2> HIDE DEF step
  <2> QED
    BY <1>1, <1>2, Iterates
<1>11. f[0] = <<>> /\ \A i \in 1 .. n : f[i] = step[i][f[i - 1]]
  BY <1>3 DEF Follows
<1>4. ASSUME NEW i \in 1 .. n PROVE f[i] = f[i - 1] \o ss[i]
  <2>1. f[i - 1] \in Seq(S)
    OBVIOUS
  <2>2. QED
    BY <1>11, <2>1
<1> HIDE DEF step
<1>8. n > 0 => f[1] = ss[1]
  <2>1. n > 0 => /\ 1 \in 1 .. n /\ 1 - 1 = 0 /\ ss[1] \in Seq(S)
    OBVIOUS
  <2>2. n > 0 => f[1] = f[0] \o ss[1]
    BY <1>4, <2>1
  <2>3. QED
    BY <1>11, <2>1, <2>2, ConcatEmptySeq
<1>5. CASE n = 0
  BY <1>1, <1>11, <1>5 DEF FlattenSeq, Chain
<1>6. CASE n > 0
  <2> DEFINE Holds(g) == g = [i \in 1 .. n |-> IF i = 1 THEN ss[i] ELSE g[i - 1] \o ss[i]]
             h == [i \in 1 .. n |-> f[i]]
  <2>1. Holds(h)
    <3>1. ASSUME NEW i \in 1 .. n
          PROVE  f[i] = IF i = 1 THEN ss[i] ELSE h[i - 1] \o ss[i]
      <4>1. CASE i = 1
        BY <1>6, <1>8, <4>1
      <4>2. CASE i # 1
        <5>1. i - 1 \in 1 .. n /\ h[i - 1] = f[i - 1]
          BY <4>2
        <5>2. QED
          BY <1>4, <4>2, <5>1
      <4>3. QED
        BY <4>1, <4>2
    <3>2. QED
      BY <3>1
  <2>2. Holds(CHOOSE g : Holds(g))
    <3> HIDE DEF Holds, h
    <3> QED
      BY <2>1
  <2>3. FlattenSeq(ss) = (CHOOSE g : Holds(g))[n]
    BY <1>1, <1>6 DEF FlattenSeq
  <2>7. PICK flatten : Holds(flatten) /\ FlattenSeq(ss) = flatten[n]
    <3> HIDE DEF Holds
    <3> QED
      BY <2>2, <2>3
  <2> DEFINE T == {i \in 0 .. n : i = 0 \/ flatten[i] = f[i]}
  <2>4. \A i \in 0 .. n : i \in T
    <3>1. 0 \in T
      OBVIOUS
    <3>2. ASSUME NEW i \in 1 .. n, i - 1 \in T PROVE i \in T
      <4>1. flatten[i] = IF i = 1 THEN ss[i] ELSE flatten[i - 1] \o ss[i]
        BY <2>7
      <4>2. CASE i = 1
        BY <1>6, <1>8, <4>1, <4>2
      <4>3. CASE i # 1
        <5>1. flatten[i - 1] = f[i - 1]
          BY <3>2, <4>3
        <5>2. flatten[i] = f[i]
          BY <1>4, <4>1, <4>3, <5>1
        <5>3. QED
          BY <5>2
      <4>4. QED
        BY <4>2, <4>3
    <3> HIDE DEF T
    <3>3. QED
      BY <3>1, <3>2, Reaches
  <2>5. flatten[n] = f[n]
    BY <1>6, <2>4
  <2>6. QED
    BY <1>11, <1>4, <2>7, <2>5 DEF Chain
<1>7. n = 0 \/ n > 0
  OBVIOUS
<1>10. QED
  BY <1>5, <1>6, <1>7

-----------------------------------------------------------------------------
(* Texts and what marks a part of one                                      *)

(* Concatenation under a name of its own, as far as it is associative.     *)
Then(s, t) == s \o t

(* Two texts joined are a text, as long as both together.                  *)
LEMMA TextsJoin ==
  ASSUME NEW s \in Text, NEW t \in Text
  PROVE  /\ Then(s, t) \in Text
         /\ Len(s) \in Nat /\ Len(t) \in Nat /\ Len(Then(s, t)) = Len(s) + Len(t)
BY DEF Text, Then

(* In which order three texts are joined does not matter.                  *)
LEMMA TextsAssociate ==
  ASSUME NEW s \in Text, NEW t \in Text, NEW u \in Text
  PROVE  Then(Then(s, t), u) = Then(s, Then(t, u))
BY DEF Text, Then

(* A set of places has as many members once it is moved.                   *)
LEMMA ShiftedSets ==
  ASSUME NEW n \in Nat, NEW S \in SUBSET (1 .. n), NEW d \in Int, NEW T,
         T = {i + d : i \in S}
  PROVE  /\ IsFiniteSet(S) /\ Cardinality(S) \in Nat
         /\ IsFiniteSet(T) /\ Cardinality(T) = Cardinality(S)
<1> DEFINE f == [i \in S |-> i + d]
<1>1. IsFiniteSet(S)
  <2>1. IsFiniteSet(1 .. n)
    <3>1. 1 \in Int /\ n \in Int
      OBVIOUS
    <3>2. QED
      BY <3>1, FS_Interval
  <2>2. QED
    BY <2>1, FS_Subset
<1>2. \A i \in S : i \in Int
  OBVIOUS
<1>3. f \in [S -> T] /\ \A i \in S : f[i] = i + d
  OBVIOUS
<1>4. \A i, j \in S : f[i] = f[j] => i = j
  BY <1>2, <1>3
<1>5. \A t \in T : \E i \in S : f[i] = t
  BY <1>3
<1> HIDE DEF f
<1>6. f \in Bijection(S, T)
  BY <1>3, <1>4, <1>5 DEF Bijection, Injection, Surjection, IsInjective
<1>7. ExistsBijection(S, T)
  BY <1>6 DEF ExistsBijection
<1>8. QED
  BY <1>1, <1>7, FS_Bijection, FS_CardinalityType

(* The UTF-8 length of two texts joined is the sum of theirs, so that the  *)
(* assembler can count bytes as it appends (add_segment).                  *)
LEMMA BytesAddUp ==
  ASSUME NEW s \in Text, NEW t \in Text
  PROVE  /\ ByteLen(s) \in Nat /\ ByteLen(t) \in Nat
         /\ ByteLen(s \o t) = ByteLen(s) + ByteLen(t)
<1> DEFINE m == Len(s)
           n == Len(t)
           wide(x) == {i \in DOMAIN x : x[i] \in Wide}
           moved == {i + m : i \in wide(t)}
<1>1. /\ m \in Nat /\ DOMAIN s = 1 .. m /\ n \in Nat /\ DOMAIN t = 1 .. n
      /\ DOMAIN (s \o t) = 1 .. m + n /\ Len(s \o t) = m + n
      /\ \A i \in 1 .. m : (s \o t)[i] = s[i]
      /\ \A i \in 1 .. n : (s \o t)[i + m] = t[i]
  BY DEF Text
<1> HIDE DEF m, n
<1>2. wide(s) \in SUBSET (1 .. m) /\ wide(t) \in SUBSET (1 .. n)
  BY <1>1
<1>3. wide(s \o t) = wide(s) \cup moved /\ wide(s) \cap moved = {}
  <2>1. ASSUME NEW i \in wide(s \o t) PROVE i \in wide(s) \cup moved
    <3>1. i \in 1 .. m + n /\ (s \o t)[i] \in Wide
      BY <1>1, <2>1
    <3>2. CASE i <= m
      BY <1>1, <3>1, <3>2
    <3>3. CASE i > m
      <4>1. i - m \in 1 .. n /\ (i - m) + m = i
        BY <1>1, <3>1, <3>3
      <4>2. i - m \in wide(t)
        BY <1>1, <3>1, <4>1
      <4>3. QED
        BY <4>1, <4>2
    <3>4. QED
      BY <1>1, <3>1, <3>2, <3>3
  <2>2. ASSUME NEW i \in wide(s) PROVE i \in wide(s \o t)
    BY <1>1, <2>2
  <2>3. ASSUME NEW j \in wide(t) PROVE j + m \in wide(s \o t) /\ j + m \notin 1 .. m
    BY <1>1, <2>3
  <2> HIDE DEF wide
  <2>4. QED
    BY <1>2, <2>1, <2>2, <2>3
<1>4. /\ ByteLen(s) = m + Cardinality(wide(s))
      /\ ByteLen(t) = n + Cardinality(wide(t))
      /\ ByteLen(s \o t) = m + n + Cardinality(wide(s \o t))
  BY <1>1 DEF ByteLen, m, n
<1> HIDE DEF wide
<1>5. /\ IsFiniteSet(wide(t)) /\ Cardinality(wide(t)) \in Nat
      /\ IsFiniteSet(moved) /\ Cardinality(moved) = Cardinality(wide(t))
  <2> HIDE DEF moved
  <2>1. moved = {i + m : i \in wide(t)} /\ m \in Int
    BY <1>1 DEF moved
  <2>2. QED
    BY <1>1, <1>2, <2>1, ShiftedSets, ZenonT(60)
<1>6. IsFiniteSet(wide(s)) /\ Cardinality(wide(s)) \in Nat
  <2>1. IsFiniteSet(1 .. m)
    <3>1. 1 \in Int /\ m \in Int
      BY <1>1
    <3>2. QED
      BY <3>1, FS_Interval
  <2>2. QED
    BY <1>2, <2>1, FS_Subset, FS_CardinalityType
<1> HIDE DEF moved
<1>7. Cardinality(wide(s \o t)) = Cardinality(wide(s)) + Cardinality(wide(t))
  <2>1. Cardinality(wide(s \o t)) =
          Cardinality(wide(s)) + Cardinality(moved) - Cardinality({})
    BY <1>3, <1>5, <1>6, FS_Union
  <2>2. Cardinality({}) = 0
    BY FS_EmptySet
  <2>3. QED
    BY <1>5, <1>6, <2>1, <2>2
<1>8. QED
  BY <1>1, <1>4, <1>5, <1>6, <1>7

(* The range is that of the part between what is before and after it.      *)
Marks(text, range, of) ==
  \E before, after \in Text :
    /\ text = Then(before, Then(of, after))
    /\ range.sc = Len(before) /\ range.ec = Len(before) + Len(of)
    /\ range.sb = ByteLen(before) /\ range.eb = ByteLen(before) + ByteLen(of)

(* A range that marks a text in another is the slice it is read back with, *)
(* in characters and, at the ends, in bytes.                               *)
LEMMA MarksAreExact ==
  ASSUME NEW text \in Text, NEW of \in Text, NEW range, Marks(text, range, of)
  PROVE  /\ Slice(text, range.sc, range.ec) = of
         /\ range.sb = ByteLen(SubSeq(text, 1, range.sc))
         /\ range.eb = ByteLen(SubSeq(text, 1, range.ec))
         /\ range.sc \in Nat /\ range.ec \in Nat /\ range.sb \in Nat /\ range.eb \in Nat
         /\ range.sc <= range.ec /\ range.ec <= Len(text)
<1>1. PICK before \in Text, after \in Text :
        /\ text = Then(before, Then(of, after))
        /\ range.sc = Len(before) /\ range.ec = Len(before) + Len(of)
        /\ range.sb = ByteLen(before) /\ range.eb = ByteLen(before) + ByteLen(of)
  BY DEF Marks
<1>11. text = before \o (of \o after)
  BY <1>1 DEF Then
<1>2. SubSeq(text, Len(before) + 1, Len(before) + Len(of)) = of
  BY <1>11 DEF Text
<1>3. SubSeq(text, 1, Len(before)) = before
  BY <1>11 DEF Text
<1>4. SubSeq(text, 1, Len(before) + Len(of)) = before \o of
  BY <1>11 DEF Text
<1>5. /\ Len(before) \in Nat /\ Len(of) \in Nat /\ Len(after) \in Nat
      /\ Len(text) = Len(before) + (Len(of) + Len(after))
  BY <1>11 DEF Text
<1>6. /\ ByteLen(before) \in Nat /\ ByteLen(of) \in Nat
      /\ ByteLen(before \o of) = ByteLen(before) + ByteLen(of)
  BY BytesAddUp
<1>7. /\ Slice(text, range.sc, range.ec) = of
      /\ SubSeq(text, 1, range.sc) = before /\ SubSeq(text, 1, range.ec) = before \o of
  BY <1>1, <1>2, <1>3, <1>4 DEF Slice
<1>8. /\ range.sb = ByteLen(SubSeq(text, 1, range.sc))
      /\ range.eb = ByteLen(SubSeq(text, 1, range.ec))
  BY <1>1, <1>6, <1>7
<1>9. /\ range.sc \in Nat /\ range.ec \in Nat /\ range.sb \in Nat /\ range.eb \in Nat
      /\ range.sc <= range.ec /\ range.ec <= Len(text)
  BY <1>1, <1>5, <1>6
<1>10. QED
  BY <1>7, <1>8, <1>9

(* A part of a part, counted from the start of the whole.                  *)
LEMMA MarksNest ==
  ASSUME NEW text \in Text, NEW part \in Text, NEW of \in Text, NEW outer, NEW range,
         Marks(text, outer, part), Marks(part, range, of)
  PROVE  Marks(text, Shift(range, outer.sc, outer.sb), of)
<1>1. PICK b1 \in Text, a1 \in Text :
        /\ text = Then(b1, Then(part, a1))
        /\ outer.sc = Len(b1) /\ outer.sb = ByteLen(b1)
  BY DEF Marks
<1>2. PICK b2 \in Text, a2 \in Text :
        /\ part = Then(b2, Then(of, a2))
        /\ range.sc = Len(b2) /\ range.ec = Len(b2) + Len(of)
        /\ range.sb = ByteLen(b2) /\ range.eb = ByteLen(b2) + ByteLen(of)
  BY DEF Marks
<1> DEFINE before == Then(b1, b2)
           after == Then(a2, a1)
<1>3. before \in Text /\ after \in Text /\ Len(before) = Len(b1) + Len(b2)
  BY TextsJoin
<1>4. text = Then(before, Then(of, after))
  <2>1. Then(of, a2) \in Text /\ Then(of, after) \in Text
    BY <1>3, TextsJoin
  <2>2. Then(part, a1) = Then(b2, Then(of, after))
    BY <1>2, <2>1, TextsAssociate
  <2>3. Then(b1, Then(b2, Then(of, after))) = Then(before, Then(of, after))
    BY <2>1, TextsAssociate
  <2>4. QED
    BY <1>1, <2>2, <2>3
<1>5. /\ ByteLen(b1) \in Nat /\ ByteLen(b2) \in Nat /\ ByteLen(of) \in Nat
      /\ ByteLen(before) = ByteLen(b1) + ByteLen(b2)
  BY BytesAddUp DEF Then
<1>6. Len(b1) \in Nat /\ Len(b2) \in Nat /\ Len(of) \in Nat
  BY DEF Text
<1> HIDE DEF before, after
<1> DEFINE moved == Shift(range, outer.sc, outer.sb)
<1>7. /\ moved.sc = range.sc + outer.sc /\ moved.ec = range.ec + outer.sc
      /\ moved.sb = range.sb + outer.sb /\ moved.eb = range.eb + outer.sb
  BY DEF Shift
<1> HIDE DEF moved
<1>8. /\ moved.sc = Len(before) /\ moved.ec = Len(before) + Len(of)
      /\ moved.sb = ByteLen(before) /\ moved.eb = ByteLen(before) + ByteLen(of)
  BY <1>1, <1>2, <1>3, <1>5, <1>6, <1>7
<1>9. Marks(text, moved, of)
  BY <1>3, <1>4, <1>8 DEF Marks
<1>10. QED
  BY <1>9 DEF moved

(* What is marked stays so when a text goes on.                            *)
LEMMA MarksStay ==
  ASSUME NEW text \in Text, NEW of \in Text, NEW more \in Text, NEW range,
         Marks(text, range, of)
  PROVE  Marks(text \o more, range, of) /\ text \o more \in Text
<1>1. PICK before \in Text, after \in Text :
        /\ text = Then(before, Then(of, after))
        /\ range.sc = Len(before) /\ range.ec = Len(before) + Len(of)
        /\ range.sb = ByteLen(before) /\ range.eb = ByteLen(before) + ByteLen(of)
  BY DEF Marks
<1>2. /\ Then(after, more) \in Text /\ Then(text, more) \in Text
      /\ Then(text, more) = Then(before, Then(of, Then(after, more)))
  <2>1. Then(of, after) \in Text /\ Then(after, more) \in Text /\ Then(text, more) \in Text
    BY TextsJoin
  <2>2. Then(text, more) = Then(before, Then(Then(of, after), more))
    BY <1>1, <2>1, TextsAssociate
  <2>3. Then(Then(of, after), more) = Then(of, Then(after, more))
    BY TextsAssociate
  <2>4. QED
    BY <2>1, <2>2, <2>3
<1>3. Marks(Then(text, more), range, of)
  BY <1>1, <1>2 DEF Marks
<1>4. QED
  BY <1>2, <1>3 DEF Then

(* What is found at a place of a text is marked by its offsets.            *)
LEMMA FoundIsMarked ==
  ASSUME NEW text \in Text, NEW of \in Text, NEW p \in Nat, p + Len(of) <= Len(text),
         Slice(text, p, p + Len(of)) = of,
         NEW range, range.sc = p, range.ec = p + Len(of),
         range.sb = ByteLen(SubSeq(text, 1, p)),
         range.eb = ByteLen(SubSeq(text, 1, p + Len(of)))
  PROVE  Marks(text, range, of)
<1> DEFINE q == p + Len(of)
           before == SubSeq(text, 1, p)
           after == SubSeq(text, q + 1, Len(text))
<1>1. /\ Len(text) \in Nat /\ Len(of) \in Nat /\ q \in Nat /\ p <= q /\ q <= Len(text)
  BY DEF Text
<1>2. /\ before \in Text /\ after \in Text /\ Len(before) = p
      /\ SubSeq(text, 1, q) \in Text
  BY <1>1 DEF Text
<1>3. SubSeq(text, p + 1, q) = of
  BY DEF Slice
<1>4. SubSeq(text, 1, q) = before \o of
  <2>1. SubSeq(text, 1, p) \o SubSeq(text, p + 1, q) = SubSeq(text, 1, q)
    <3> HIDE DEF q
    <3>1. 1 \in 1 .. Len(text) + 1 /\ p \in 1 - 1 .. Len(text) /\ q \in p .. Len(text)
      BY <1>1
    <3>2. text \in Seq(Letter)
      BY DEF Text
    <3>3. QED
      BY <3>1, <3>2, ConcatAdjacentSubSeq
  <2>2. QED
    BY <1>3, <2>1
<1>5. text = Then(before, Then(of, after))
  <2> HIDE DEF q
  <2>1. SubSeq(text, 1, q) \o after = text
    <3>1. 1 \in 1 .. Len(text) + 1 /\ q \in 1 - 1 .. Len(text) /\ Len(text) \in q .. Len(text)
      BY <1>1
    <3>2. text \in Seq(Letter)
      BY DEF Text
    <3>3. SubSeq(text, 1, q) \o SubSeq(text, q + 1, Len(text)) = SubSeq(text, 1, Len(text))
      BY <3>1, <3>2, ConcatAdjacentSubSeq
    <3>4. QED
      BY <3>2, <3>3, SubSeqFull
  <2>2. Then(Then(before, of), after) = text
    BY <1>4, <2>1 DEF Then
  <2> HIDE DEF before, after
  <2>3. QED
    BY <1>2, <2>2, TextsAssociate
<1> HIDE DEF before, after
<1>6. /\ range.sb = ByteLen(before)
      /\ range.eb = ByteLen(before) + ByteLen(of)
  <2>1. range.sb = ByteLen(before) /\ range.eb = ByteLen(before \o of)
    BY <1>4 DEF before
  <2>2. ByteLen(before \o of) = ByteLen(before) + ByteLen(of)
    BY <1>2, BytesAddUp
  <2>3. QED
    BY <2>1, <2>2
<1>7. QED
  BY <1>1, <1>2, <1>5, <1>6 DEF Marks

-----------------------------------------------------------------------------
(* Rows of cells                                                           *)

(* The first letter of two joined texts is the first one's.                *)
LEMMA TailsJoin ==
  ASSUME NEW s \in Text, NEW t \in Text, Len(s) > 0
  PROVE  Tail(s) \in Text /\ Tail(Then(s, t)) = Then(Tail(s), t)
<1>1. s # <<>> /\ s \o t # <<>> /\ s \in Seq(Letter) /\ t \in Seq(Letter)
  BY DEF Text
<1>2. Tail(s) \in Seq(Letter) /\ Tail(s \o t) \in Seq(Letter)
  BY <1>1
<1>3. Tail(s \o t) = Tail(s) \o t
  BY <1>1
<1>4. QED
  BY <1>2, <1>3 DEF Then, Text

(* What lies between two texts is the slice between their lengths.         *)
LEMMA MiddlesAreSlices ==
  ASSUME NEW before \in Text, NEW of \in Text, NEW after \in Text
  PROVE  Slice(Then(before, Then(of, after)), Len(before), Len(before) + Len(of)) = of
BY DEF Slice, Then, Text

(* Each prefix of a chain is a prefix of the whole.                        *)
LEMMA PartsFollow ==
  ASSUME NEW n \in Nat, NEW f \in [0 .. n -> Text], NEW ss \in [1 .. n -> Text],
         Chain(f, n, ss), NEW m \in 0 .. n
  PROVE  \E rest \in Text : f[n] = Then(f[m], rest)
<1> DEFINE T == {i \in 0 .. n : i >= m => \E rest \in Text : f[i] = Then(f[m], rest)}
<1>1. \A i \in 0 .. n : i \in T
  <2>1. f[m] = Then(f[m], <<>>) /\ <<>> \in Text
    BY DEF Then, Text
  <2>2. m \in T /\ 0 \in T
    BY <2>1
  <2>3. ASSUME NEW i \in 1 .. n, i - 1 \in T PROVE i \in T
    <3>1. CASE i <= m
      BY <2>2, <3>1
    <3>2. CASE i > m
      <4>1. PICK rest \in Text : f[i - 1] = Then(f[m], rest)
        BY <2>3, <3>2
      <4>2. f[i] = Then(Then(f[m], rest), ss[i])
        BY <4>1 DEF Then, Chain
      <4>3. f[i] = Then(f[m], Then(rest, ss[i])) /\ Then(rest, ss[i]) \in Text
        BY <4>2, TextsAssociate, TextsJoin
      <4>4. QED
        BY <4>3
    <3>3. QED
      BY <3>1, <3>2
  <2> HIDE DEF T
  <2>4. QED
    BY <2>2, <2>3, Reaches
<1>2. QED
  BY <1>1

(* The text of a row has each cell after the cells and spaces before it.   *)
StartsOf(line) ==
  LET begins[j \in 1 .. Len(line) + 1] ==
        IF j = 1 THEN 0 ELSE begins[j - 1] + Len(line[j - 1]) + 1
  IN  begins

(* A row's text, its cells joined by spaces, holds each cell at the start  *)
(* that is counted for it (local_char).                                    *)
LEMMA RowsHoldCells ==
  ASSUME NEW line \in Seq(Text), line # <<>>
  PROVE  /\ JoinedRow(line) \in Text
         /\ \A j \in 1 .. Len(line) :
              LET p == StartsOf(line)[j]
              IN  /\ p \in Nat /\ p + Len(line[j]) <= Len(JoinedRow(line))
                  /\ Slice(JoinedRow(line), p, p + Len(line[j])) = line[j]
<1> DEFINE n == Len(line)
           ss == [j \in 1 .. n |-> <<Space>> \o line[j]]
<1>1. /\ n \in Nat /\ n >= 1 /\ DOMAIN line = 1 .. n /\ \A j \in 1 .. n : line[j] \in Text
  OBVIOUS
<1>2. <<Space>> \in Text /\ Len(<<Space>>) = 1
  BY DEF Text, Letter, Blank
<1>3. ss \in [1 .. n -> Text]
  BY <1>1, <1>2, TextsJoin DEF Then
<1>4. FlattenSeq(ss) = FlattenSeq([j \in DOMAIN line |-> <<Space>> \o line[j]])
  BY <1>1
<1> HIDE DEF n
<1>5. PICK f \in [0 .. n -> Text] :
        Chain(f, n, ss) /\ FlattenSeq(ss) = f[n]
  <2> HIDE DEF ss
  <2> QED
    BY <1>1, <1>3, Flattening DEF Text
<1>12. f[0] = <<>> /\ \A i \in 1 .. n : f[i] = f[i - 1] \o ss[i]
  BY <1>5 DEF Chain
<1>6. ASSUME NEW j \in 1 .. n
      PROVE  \E rest \in Text : f[n] = Then(Then(f[j - 1], <<Space>>), Then(line[j], rest))
  <2>1. PICK rest \in Text : f[n] = Then(f[j], rest)
    <3> HIDE DEF ss
    <3>1. j \in 0 .. n
      OBVIOUS
    <3>2. QED
      BY <1>1, <1>3, <1>5, <3>1, PartsFollow
  <2>2. f[j] = Then(f[j - 1], Then(<<Space>>, line[j]))
    BY <1>12 DEF Then
  <2>6. j - 1 \in 0 .. n /\ j \in 0 .. n
    BY <1>1
  <2>7. f[j - 1] \in Text /\ line[j] \in Text
    BY <1>1, <2>6
  <2>3. f[j - 1] \in Text /\ line[j] \in Text /\ Then(<<Space>>, line[j]) \in Text
    BY <1>2, <2>7, TextsJoin
  <2>4. f[j] = Then(Then(f[j - 1], <<Space>>), line[j])
    BY <1>2, <2>2, <2>3, TextsAssociate
  <2>8. Then(f[j - 1], <<Space>>) \in Text
    BY <1>2, <2>3, TextsJoin
  <2>5. f[n] = Then(Then(f[j - 1], <<Space>>), Then(line[j], rest))
    BY <2>1, <2>3, <2>4, <2>8, TextsAssociate
  <2>9. QED
    BY <2>5
<1>7. JoinedRow(line) = Tail(f[n])
  BY <1>4, <1>5 DEF JoinedRow
<1>8. StartsOf(line) = [j \in 1 .. n + 1 |->
                         IF j = 1 THEN 0 ELSE StartsOf(line)[j - 1] + Len(line[j - 1]) + 1]
  <2> DEFINE Holds(g) == g = [j \in 1 .. n + 1 |->
                                IF j = 1 THEN 0 ELSE g[j - 1] + Len(line[j - 1]) + 1]
             h == [j \in 1 .. n + 1 |-> Len(f[j - 1])]
  <2>1. Holds(h)
    <3>1. ASSUME NEW j \in 1 .. n + 1
          PROVE  h[j] = IF j = 1 THEN 0 ELSE h[j - 1] + Len(line[j - 1]) + 1
      <4>1. CASE j = 1
        BY <1>1, <1>12, <4>1
      <4>2. CASE j # 1
        <5>1. j - 1 \in 1 .. n /\ (j - 1) - 1 \in 0 .. n
          BY <1>1, <4>2
        <5>2. Len(ss[j - 1]) = 1 + Len(line[j - 1]) /\ ss[j - 1] \in Text
          BY <1>1, <1>2, <5>1, TextsJoin DEF Then
        <5>3. f[j - 1] = f[(j - 1) - 1] \o ss[j - 1]
          BY <1>12, <5>1
        <5> HIDE DEF ss
        <5>4. Len(f[j - 1]) = Len(f[(j - 1) - 1]) + Len(ss[j - 1])
          BY <5>1, <5>2, <5>3, TextsJoin DEF Then
        <5>5. Len(f[(j - 1) - 1]) \in Nat /\ Len(line[j - 1]) \in Nat
          BY <1>1, <5>1, TextsJoin
        <5> DEFINE before == Len(f[(j - 1) - 1])
                   own == Len(line[j - 1])
                   spaced == Len(ss[j - 1])
        <5>9. /\ Len(f[j - 1]) = before + spaced
              /\ spaced = 1 + own /\ before \in Nat /\ own \in Nat
          BY <5>2, <5>4, <5>5
        <5>6. h[j] = Len(f[j - 1]) /\ h[j - 1] = Len(f[(j - 1) - 1])
          BY <1>1, <5>1, <4>2
        <5> HIDE DEF h, before, own, spaced
        <5>7. Len(f[j - 1]) = before + own + 1
          BY <5>9
        <5>8. QED
          BY <4>2, <5>6, <5>7 DEF before, own
      <4>3. QED
        BY <4>1, <4>2
    <3>2. QED
      BY <3>1
  <2>2. Holds(CHOOSE g : Holds(g))
    <3> HIDE DEF Holds, h
    <3> QED
      BY <2>1
  <2>3. StartsOf(line) = CHOOSE g : Holds(g)
    BY DEF StartsOf, n
  <2>4. QED
    BY <2>2, <2>3
<1>9. \A j \in 0 .. n : StartsOf(line)[j + 1] = Len(f[j])
  <2> DEFINE T == {j \in 0 .. n : StartsOf(line)[j + 1] = Len(f[j])}
  <2>1. 0 \in T
    BY <1>1, <1>12, <1>8
  <2>2. ASSUME NEW j \in 1 .. n, j - 1 \in T PROVE j \in T
    <3>1. /\ j + 1 \in 1 .. n + 1 /\ j + 1 # 1 /\ (j + 1) - 1 = j /\ (j - 1) + 1 = j
          /\ j - 1 \in 0 .. n
      BY <1>1
    <3>2. StartsOf(line)[j + 1] = StartsOf(line)[j] + Len(line[j]) + 1
      BY <1>8, <3>1
    <3>3. StartsOf(line)[j] = Len(f[j - 1])
      BY <2>2, <3>1
    <3>4. Len(ss[j]) = 1 + Len(line[j]) /\ ss[j] \in Text /\ f[j] = f[j - 1] \o ss[j]
      BY <1>1, <1>2, <1>12, TextsJoin DEF Then
    <3> HIDE DEF ss
    <3>5. /\ Len(f[j]) = Len(f[j - 1]) + Len(ss[j])
          /\ Len(f[j - 1]) \in Nat /\ Len(line[j]) \in Nat
      BY <1>1, <3>1, <3>4, TextsJoin DEF Then
    <3> DEFINE before == Len(f[j - 1])
               own == Len(line[j])
               spaced == Len(ss[j])
    <3>6. /\ Len(f[j]) = before + spaced
          /\ spaced = 1 + own /\ before \in Nat /\ own \in Nat
      BY <3>4, <3>5
    <3>8. StartsOf(line)[j + 1] = before + own + 1
      BY <3>2, <3>3
    <3> HIDE DEF before, own, spaced
    <3>9. Len(f[j]) = StartsOf(line)[j + 1]
      BY <3>6, <3>8
    <3>7. QED
      BY <3>9
  <2> HIDE DEF T
  <2>3. \A j \in 0 .. n : j \in T
    BY <1>1, <2>1, <2>2, Reaches
  <2>4. QED
    BY <2>3 DEF T
<1> HIDE DEF ss
<1>10. ASSUME NEW j \in 1 .. n
       PROVE  LET p == StartsOf(line)[j]
              IN  /\ JoinedRow(line) \in Text
                  /\ p \in Nat /\ p + Len(line[j]) <= Len(JoinedRow(line))
                  /\ Slice(JoinedRow(line), p, p + Len(line[j])) = line[j]
  <2>1. PICK rest \in Text : f[n] = Then(Then(f[j - 1], <<Space>>), Then(line[j], rest))
    BY <1>6
  <2> DEFINE first == Then(f[j - 1], <<Space>>)
             p == StartsOf(line)[j]
  <2>2. f[j - 1] \in Text /\ line[j] \in Text
    BY <1>1
  <2>3. first \in Text /\ Len(first) = Len(f[j - 1]) + 1 /\ Len(f[j - 1]) \in Nat
    BY <1>2, <2>2, TextsJoin
  <2>4. p = Len(f[j - 1])
    <3>1. j - 1 \in 0 .. n /\ (j - 1) + 1 = j
      BY <1>1
    <3>2. QED
      BY <1>9, <3>1
  <2> HIDE DEF first, p
  <2>5. /\ Tail(first) \in Text /\ Len(Tail(first)) = p
        /\ Tail(Then(first, Then(line[j], rest))) = Then(Tail(first), Then(line[j], rest))
    <3>1. Then(line[j], rest) \in Text
      BY <2>2, TextsJoin
    <3>2. Len(Tail(first)) = Len(first) - 1
      BY <2>3 DEF Text
    <3>3. QED
      BY <2>3, <2>4, <3>1, <3>2, TailsJoin
  <2>6. JoinedRow(line) = Then(Tail(first), Then(line[j], rest))
    BY <1>7, <2>1, <2>5 DEF first
  <2>7. p \in Nat /\ Len(line[j]) \in Nat /\ Len(rest) \in Nat
    BY <2>2, <2>3, <2>4 DEF Text
  <2>8. /\ JoinedRow(line) \in Text
        /\ Len(JoinedRow(line)) = p + (Len(line[j]) + Len(rest))
    <3>1. /\ Then(line[j], rest) \in Text
          /\ Len(Then(line[j], rest)) = Len(line[j]) + Len(rest)
      BY <2>2, TextsJoin
    <3>2. Tail(first) \in Text /\ Len(Tail(first)) = p
      BY <2>5
    <3> HIDE DEF first
    <3>3. /\ Then(Tail(first), Then(line[j], rest)) \in Text
          /\ Len(Then(Tail(first), Then(line[j], rest))) =
               Len(Tail(first)) + Len(Then(line[j], rest))
      BY <3>1, <3>2, TextsJoin
    <3>4. QED
      BY <2>6, <3>1, <3>2, <3>3
  <2>9. Slice(JoinedRow(line), p, p + Len(line[j])) = line[j]
    <3>1. Tail(first) \in Text /\ Len(Tail(first)) = p
      BY <2>5
    <3> DEFINE head == Tail(first)
    <3>2. head \in Text /\ Len(head) = p /\ JoinedRow(line) = Then(head, Then(line[j], rest))
      BY <2>6, <3>1
    <3> HIDE DEF head
    <3>3. Slice(Then(head, Then(line[j], rest)), Len(head), Len(head) + Len(line[j])) = line[j]
      BY <2>2, <3>2, MiddlesAreSlices
    <3>4. QED
      BY <3>2, <3>3
  <2>10. QED
    BY <2>7, <2>8, <2>9 DEF p
<1>11. QED
  BY <1>1, <1>10 DEF n

-----------------------------------------------------------------------------
(* An assembler whose spans and cells mark the text they were given        *)

TextRange == [sc : Nat, ec : Nat, sb : Nat, eb : Nat]
SegmentTag == {"separator", "block", "row-separator", "row", "page-separator", "page",
               "header-label", "header-value", "header-separator"}
SegmentId == {<<"body">>} \cup (SegmentTag \X Nat) \cup (SegmentTag \X Nat \X Nat)
SegmentKind == {"generated", "unmapped"}
Segment == [id : SegmentId, kind : SegmentKind, range : TextRange]
SpanTag == {"block", "table", "cell"}
SpanId == (SpanTag \X Nat) \cup (SpanTag \X Nat \X Nat \X Nat)
Role == ParagraphRole \cup {"table", "table_cell"}

SpanOn(text) ==
  {s \in [id : SpanId, page : Nat, role : Role, range : TextRange, of : Text] :
     Marks(text, s.range, s.of)}
CellOn(text) ==
  {c \in [row : Nat, column : Nat, range : TextRange, of : Text] :
     Marks(text, c.range, c.of)}
TableOn(text) ==
  [id : SpanId, page : Nat, range : TextRange, cells : Seq(CellOn(text))]

ExactOn(text) ==
  [text : {text}, map : Seq(Segment), char : {Len(text)}, byte : {ByteLen(text)},
   layout : Seq(SpanOn(text)), tables : Seq(TableOn(text))]

Extends(t, s) == \E more \in Text : t = Then(s, more)

(* A text that extends an extension extends the first.                     *)
LEMMA ExtensionsCompose ==
  ASSUME NEW s \in Text, NEW t \in Text, NEW u, Extends(t, s), Extends(u, t)
  PROVE  Extends(u, s)
BY TextsAssociate, TextsJoin DEF Extends

(* Appending to a text, or leaving it, extends it.                         *)
LEMMA TextsExtendThemselves ==
  ASSUME NEW s \in Text
  PROVE  Extends(s, s) /\ \A more \in Text : Then(s, more) \in Text /\ Extends(Then(s, more), s)
<1>1. <<>> \in Text /\ s = Then(s, <<>>)
  BY DEF Text, Then
<1>2. QED
  BY <1>1, TextsJoin DEF Extends

(* A sequence over a set is one over any larger set.                       *)
LEMMA MembersStay ==
  ASSUME NEW S, NEW T, S \subseteq T, NEW q \in Seq(S)
  PROVE  q \in Seq(T)
OBVIOUS

(* Spans, cells and tables of a text are those of every text that extends  *)
(* it: the assembler only appends.                                         *)
LEMMA MarkedStays ==
  ASSUME NEW s \in Text, NEW t \in Text, Extends(t, s)
  PROVE  /\ SpanOn(s) \subseteq SpanOn(t) /\ CellOn(s) \subseteq CellOn(t)
         /\ TableOn(s) \subseteq TableOn(t)
<1>1. PICK more \in Text : t = s \o more
  BY DEF Extends, Then
<1>2. \A range : \A of \in Text : Marks(s, range, of) => Marks(t, range, of)
  BY <1>1, MarksStay
<1>3. SpanOn(s) \subseteq SpanOn(t)
  BY <1>2 DEF SpanOn
<1>4. CellOn(s) \subseteq CellOn(t)
  BY <1>2 DEF CellOn
<1>5. Seq(CellOn(s)) \subseteq Seq(CellOn(t))
  BY <1>4, MembersStay
<1>6. TableOn(s) \subseteq TableOn(t)
  <2> HIDE DEF CellOn
  <2> DEFINE S == Seq(CellOn(s))
             T == Seq(CellOn(t))
  <2>1. S \subseteq T
    BY <1>5
  <2>2. /\ TableOn(s) = [id : SpanId, page : Nat, range : TextRange, cells : S]
        /\ TableOn(t) = [id : SpanId, page : Nat, range : TextRange, cells : T]
    BY DEF TableOn
  <2> HIDE DEF S, T
  <2>3. QED
    BY <2>1, <2>2
<1>7. QED
  BY <1>3, <1>4, <1>6

(* An assembler that was just constructed is exact on the empty text.      *)
LEMMA EmptyIsExact == Empty \in ExactOn(<<>>) /\ <<>> \in Text
<1>1. <<>> \in Text /\ ByteLen(<<>>) = 0
  <2>1. {i \in DOMAIN <<>> : <<>>[i] \in Wide} = {}
    OBVIOUS
  <2>2. Cardinality({}) = 0
    BY FS_EmptySet
  <2>3. QED
    BY <2>1, <2>2 DEF ByteLen, Text
<1>2. QED
  BY <1>1 DEF Empty, ExactOn

(* What AddSegment does to an exact assembler.                             *)
Adds(a, s, b, text) ==
  \E t \in Text :
    /\ t = Then(s, text) /\ Extends(t, s) /\ b \in ExactOn(t)
    /\ b.layout = a.layout /\ b.tables = a.tables
    /\ Last(b.map).range \in TextRange
    /\ Last(b.map).range = [sc |-> a.char, ec |-> b.char, sb |-> a.byte, eb |-> b.byte]
    /\ Marks(t, Last(b.map).range, text)

(* A segment leaves all that is marked, and marks its own text.            *)
LEMMA SegmentsMark ==
  ASSUME NEW a, NEW s \in Text, a \in ExactOn(s), NEW text \in Text,
         NEW id \in SegmentId, NEW kind \in SegmentKind
  PROVE  Adds(a, s, AddSegment(a, text, id, kind), text)
<1> DEFINE b == AddSegment(a, text, id, kind)
           t == Then(s, text)
           range == [sc |-> a.char, ec |-> a.char + Len(text),
                     sb |-> a.byte, eb |-> a.byte + ByteLen(text)]
           segment == [id |-> id, kind |-> kind, range |-> range]
<1>1. /\ t \in Text /\ Extends(t, s) /\ Len(t) = Len(s) + Len(text)
      /\ Len(s) \in Nat /\ Len(text) \in Nat
  BY TextsJoin, TextsExtendThemselves
<1>2. /\ ByteLen(s) \in Nat /\ ByteLen(text) \in Nat
      /\ ByteLen(t) = ByteLen(s) + ByteLen(text)
  BY BytesAddUp DEF Then
<1>3. /\ a.text = s /\ a.char = Len(s) /\ a.byte = ByteLen(s) /\ a.map \in Seq(Segment)
      /\ a.layout \in Seq(SpanOn(s)) /\ a.tables \in Seq(TableOn(s))
  BY DEF ExactOn
<1>4. /\ range \in TextRange
      /\ range.ec = Len(t) /\ range.eb = ByteLen(t)
      /\ range.sc = Len(s) /\ range.sb = ByteLen(s)
  BY <1>1, <1>2, <1>3 DEF TextRange
<1>5. Marks(t, range, text)
  <2>1. <<>> \in Text /\ text = Then(text, <<>>)
    BY DEF Text, Then
  <2>2. t = Then(s, Then(text, <<>>))
    BY <2>1
  <2> HIDE DEF t
  <2>3. range.ec = Len(s) + Len(text) /\ range.eb = ByteLen(s) + ByteLen(text)
    BY <1>1, <1>2, <1>4
  <2> HIDE DEF range
  <2>4. QED
    BY <1>4, <2>1, <2>2, <2>3 DEF Marks
<1>6. /\ segment \in Segment /\ segment.range = range
  BY <1>4 DEF Segment
<1>7. b = [a EXCEPT !.text = t, !.map = Append(a.map, segment),
                    !.char = range.ec, !.byte = range.eb]
  BY <1>3 DEF AddSegment, Then
<1>8. /\ a.layout \in Seq(SpanOn(t)) /\ a.tables \in Seq(TableOn(t))
  <2> HIDE DEF t
  <2>1. SpanOn(s) \subseteq SpanOn(t) /\ TableOn(s) \subseteq TableOn(t)
    BY <1>1, MarkedStays
  <2>2. QED
    BY <1>3, <2>1, MembersStay
<1>9. /\ Append(a.map, segment) \in Seq(Segment)
      /\ Last(Append(a.map, segment)) = segment
  <2> HIDE DEF segment
  <2>1. /\ Append(a.map, segment) \in Seq(Segment)
        /\ Len(Append(a.map, segment)) = Len(a.map) + 1
        /\ Append(a.map, segment)[Len(a.map) + 1] = segment
    BY <1>3, <1>6
  <2>2. QED
    BY <2>1 DEF Last
<1> HIDE DEF b, t, range, segment
<1>10. /\ b \in ExactOn(t) /\ b.layout = a.layout /\ b.tables = a.tables
       /\ b.map = Append(a.map, segment) /\ b.char = range.ec /\ b.byte = range.eb
  BY <1>3, <1>4, <1>7, <1>8, <1>9 DEF ExactOn
<1>11. Last(b.map).range = range
  BY <1>6, <1>9, <1>10
<1>12. range = [sc |-> a.char, ec |-> b.char, sb |-> a.byte, eb |-> b.byte]
  BY <1>10 DEF range
<1>13. Adds(a, s, b, text)
  BY <1>1, <1>4, <1>5, <1>10, <1>11, <1>12 DEF Adds, t
<1>14. QED
  BY <1>13 DEF b

(* The index of the next block counts the blocks of the layout.            *)
LEMMA BlocksAreCounted ==
  ASSUME NEW a, NEW s, a \in ExactOn(s)
  PROVE  BlockIndex(a) \in Nat
<1> DEFINE n == Len(a.layout)
           blocks == {k \in DOMAIN a.layout : a.layout[k].role # "table_cell"}
<1>1. n \in Nat /\ DOMAIN a.layout = 1 .. n
  BY DEF ExactOn
<1>2. blocks \in SUBSET (1 .. n) /\ 0 \in Int /\ blocks = {i + 0 : i \in blocks}
  BY <1>1
<1> HIDE DEF n, blocks
<1>3. Cardinality(blocks) \in Nat
  BY <1>1, <1>2, ShiftedSets
<1>4. QED
  BY <1>3 DEF BlockIndex, blocks

(* A segment of the assembler's own: its text follows what is there.       *)
LEMMA SeparatorsMark ==
  ASSUME NEW a, NEW s \in Text, a \in ExactOn(s), NEW b, b = AddSeparator(a)
  PROVE  \E t \in Text : /\ Extends(t, s) /\ b \in ExactOn(t)
                         /\ b.layout = a.layout /\ b.tables = a.tables
<1>1. CASE a.map = <<>>
  BY <1>1, TextsExtendThemselves DEF AddSeparator
<1>2. CASE a.map # <<>>
  <2> DEFINE id == <<"separator", BlockIndex(a)>>
  <2>1. id \in SegmentId /\ "generated" \in SegmentKind /\ <<NewLine>> \in Text
    BY BlocksAreCounted DEF SegmentId, SegmentTag, SegmentKind, Text, Letter, Blank
  <2>2. b = AddSegment(a, <<NewLine>>, id, "generated")
    BY <1>2 DEF AddSeparator
  <2> HIDE DEF id
  <2>3. Adds(a, s, b, <<NewLine>>)
    BY <2>1, <2>2, SegmentsMark
  <2>4. QED
    BY <2>3 DEF Adds
<1>3. QED
  BY <1>1, <1>2

(* _append_block: the text grows by a separator and the block, and the new *)
(* span marks the block's text.                                            *)
LEMMA BlocksMark ==
  ASSUME NEW a, NEW s \in Text, a \in ExactOn(s), NEW text \in Text, NEW role \in ParagraphRole
  PROVE  \E t \in Text : Extends(t, s) /\ AddBlock(a, text, role) \in ExactOn(t)
<1> DEFINE index == BlockIndex(a)
           separated == AddSeparator(a)
           b == AddSegment(separated, text, <<"block", index>>, "unmapped")
           span == Span(<<"block", index>>, 1, role, Last(b.map).range, text)
<1>1. index \in Nat
  BY BlocksAreCounted
<1>2. PICK u \in Text : Extends(u, s) /\ separated \in ExactOn(u)
  BY SeparatorsMark
<1>3. <<"block", index>> \in SegmentId /\ <<"block", index>> \in SpanId
      /\ "unmapped" \in SegmentKind
  BY <1>1 DEF SegmentId, SegmentTag, SegmentKind, SpanId, SpanTag
<1> DEFINE t == Then(u, text)
<1>4. /\ t \in Text /\ Extends(t, u) /\ b \in ExactOn(t)
      /\ Last(b.map).range \in TextRange /\ Marks(t, Last(b.map).range, text)
  <2> HIDE DEF index, separated
  <2>1. Adds(separated, u, b, text)
    BY <1>2, <1>3, SegmentsMark
  <2>2. QED
    BY <2>1 DEF Adds
<1>5. Extends(t, s)
  <2> HIDE DEF t
  <2> QED
    BY <1>2, <1>4, ExtensionsCompose
<1>6. span \in SpanOn(t)
  <2> HIDE DEF b, index, t
  <2> QED
    BY <1>3, <1>4 DEF SpanOn, Span, Role
<1>7. AddBlock(a, text, role) = [b EXCEPT !.layout = Append(b.layout, span)]
  BY DEF AddBlock
<1> HIDE DEF b, span, t
<1>8. [b EXCEPT !.layout = Append(b.layout, span)] \in ExactOn(t)
  <2>1. b.layout \in Seq(SpanOn(t))
    BY <1>4 DEF ExactOn
  <2>2. Append(b.layout, span) \in Seq(SpanOn(t))
    BY <1>6, <2>1
  <2> DEFINE layout == Append(b.layout, span)
  <2> HIDE DEF layout
  <2>3. [b EXCEPT !.layout = layout] \in ExactOn(t)
    BY <1>4, <2>2 DEF ExactOn, layout
  <2>4. QED
    BY <2>3 DEF layout
<1>9. QED
  BY <1>4, <1>5, <1>7, <1>8

-----------------------------------------------------------------------------
(* The rows of a table                                                     *)

Cells == Seq(Text) \ {<<>>}  \* of a row

(* A row of a table is appended like a block and marked by its segment.    *)
LEMMA RowsMark ==
  ASSUME NEW a, NEW s \in Text, a \in ExactOn(s), NEW table \in Nat, NEW index \in Nat,
         NEW line \in Cells, NEW b, b = AddRow(a, table, index, line)
  PROVE  \E t \in Text : /\ Extends(t, s) /\ b \in ExactOn(t)
                         /\ b.layout = a.layout /\ b.tables = a.tables
                         /\ Last(b.map).range \in TextRange
                         /\ Marks(t, Last(b.map).range, JoinedRow(line))
<1> DEFINE separated ==
             IF index = 1 THEN a
             ELSE AddSegment(a, <<NewLine>>, <<"row-separator", table, index>>, "generated")
<1>1. PICK u \in Text : /\ Extends(u, s) /\ separated \in ExactOn(u)
                        /\ separated.layout = a.layout /\ separated.tables = a.tables
  <2>1. CASE index = 1
    BY <2>1, TextsExtendThemselves
  <2>2. CASE index # 1
    <3> DEFINE id == <<"row-separator", table, index>>
    <3>1. id \in SegmentId /\ "generated" \in SegmentKind /\ <<NewLine>> \in Text
      BY DEF SegmentId, SegmentTag, SegmentKind, Text, Letter, Blank
    <3>2. separated = AddSegment(a, <<NewLine>>, id, "generated")
      BY <2>2
    <3> HIDE DEF id, separated
    <3>3. Adds(a, s, separated, <<NewLine>>)
      BY <3>1, <3>2, SegmentsMark
    <3>4. QED
      BY <3>3 DEF Adds
  <2>3. QED
    BY <2>1, <2>2
<1>2. <<"row", table, index>> \in SegmentId /\ "unmapped" \in SegmentKind
  BY DEF SegmentId, SegmentTag, SegmentKind
<1>3. JoinedRow(line) \in Text
  BY RowsHoldCells DEF Cells
<1>4. b = AddSegment(separated, JoinedRow(line), <<"row", table, index>>, "unmapped")
  BY DEF AddRow
<1> HIDE DEF separated
<1> DEFINE t == Then(u, JoinedRow(line))
<1>5. /\ t \in Text /\ Extends(t, u) /\ b \in ExactOn(t)
      /\ b.layout = separated.layout /\ b.tables = separated.tables
      /\ Last(b.map).range \in TextRange
      /\ Marks(t, Last(b.map).range, JoinedRow(line))
  <2>1. Adds(separated, u, b, JoinedRow(line))
    BY <1>1, <1>2, <1>3, <1>4, SegmentsMark
  <2>2. QED
    BY <2>1 DEF Adds
<1> HIDE DEF t
<1>6. Extends(t, s)
  BY <1>1, <1>5, ExtensionsCompose
<1>7. QED
  BY <1>1, <1>5, <1>6

(* The ranges of the cells mark them in any text that the row is marked in. *)
LEMMA CellsMark ==
  ASSUME NEW t \in Text, NEW line \in Cells, NEW index \in Nat, NEW range \in TextRange,
         Marks(t, range, JoinedRow(line))
  PROVE  CellsOf(line, index, range) \in Seq(CellOn(t))
<1> DEFINE text == JoinedRow(line)
           n == Len(line)
           p(j) == StartsOf(line)[j]
           own(j) == [sc |-> p(j), ec |-> p(j) + Len(line[j]),
                      sb |-> ByteLen(SubSeq(text, 1, p(j))),
                      eb |-> ByteLen(SubSeq(text, 1, p(j) + Len(line[j])))]
           made(j) == [row |-> index, column |-> j, of |-> line[j],
                        range |-> Shift(own(j), range.sc, range.sb)]
<1>1. n \in Nat /\ DOMAIN line = 1 .. n /\ line \in Seq(Text) /\ line # <<>>
  BY DEF Cells
<1>2. text \in Text /\ \A j \in 1 .. n : /\ p(j) \in Nat /\ p(j) + Len(line[j]) <= Len(text)
                                        /\ Slice(text, p(j), p(j) + Len(line[j])) = line[j]
  BY <1>1, RowsHoldCells
<1>3. ASSUME NEW j \in 1 .. n PROVE made(j) \in CellOn(t)
  <2>1. line[j] \in Text
    BY <1>1
  <2>2. Marks(text, own(j), line[j])
    <3> DEFINE q == p(j)
               o == own(j)
    <3>1. /\ q \in Nat /\ q + Len(line[j]) <= Len(text)
          /\ Slice(text, q, q + Len(line[j])) = line[j]
      BY <1>2
    <3>2. /\ o.sc = q /\ o.ec = q + Len(line[j])
          /\ o.sb = ByteLen(SubSeq(text, 1, q))
          /\ o.eb = ByteLen(SubSeq(text, 1, q + Len(line[j])))
      OBVIOUS
    <3> HIDE DEF q, o, text
    <3>3. Marks(text, o, line[j])
      BY <1>2, <2>1, <3>1, <3>2, FoundIsMarked
    <3>4. QED
      BY <3>3 DEF o
  <2> HIDE DEF own
  <2>3. Marks(t, Shift(own(j), range.sc, range.sb), line[j])
    <3> HIDE DEF text
    <3>1. Marks(t, range, text)
      BY DEF text
    <3>2. QED
      BY <1>2, <2>1, <2>2, <3>1, MarksNest
  <2>4. Shift(own(j), range.sc, range.sb) \in TextRange
    <3> DEFINE r == Shift(own(j), range.sc, range.sb)
    <3>1. r = [sc |-> r.sc, ec |-> r.ec, sb |-> r.sb, eb |-> r.eb]
      BY DEF Shift
    <3> HIDE DEF r
    <3>2. /\ r.sc \in Nat /\ r.ec \in Nat /\ r.sb \in Nat /\ r.eb \in Nat
      BY <2>1, <2>3, MarksAreExact DEF r
    <3>3. QED
      BY <3>1, <3>2 DEF r, TextRange
  <2>5. j \in Nat
    BY <1>1
  <2>6. QED
    BY <2>1, <2>3, <2>4, <2>5 DEF CellOn
<1>4. CellsOf(line, index, range) = [j \in 1 .. n |-> made(j)]
  <2>1. CellsOf(line, index, range) =
          [j \in DOMAIN line |->
             [row |-> index, column |-> j, of |-> line[j],
              range |-> [sc |-> range.sc + p(j), ec |-> range.sc + p(j) + Len(line[j]),
                         sb |-> range.sb + ByteLen(SubSeq(text, 1, p(j))),
                         eb |-> range.sb + ByteLen(SubSeq(text, 1, p(j) + Len(line[j])))]]]
    BY DEF CellsOf, StartsOf
  <2>2. ASSUME NEW j \in 1 .. n
        PROVE  [row |-> index, column |-> j, of |-> line[j],
                range |-> [sc |-> range.sc + p(j), ec |-> range.sc + p(j) + Len(line[j]),
                           sb |-> range.sb + ByteLen(SubSeq(text, 1, p(j))),
                           eb |-> range.sb + ByteLen(SubSeq(text, 1, p(j) + Len(line[j])))]]
               = made(j)
    <3>1. line[j] \in Text
      BY <1>1
    <3>2. /\ p(j) \in Nat /\ Len(line[j]) \in Nat /\ p(j) + Len(line[j]) <= Len(text)
      BY <1>2, <3>1 DEF Text
    <3>3. /\ SubSeq(text, 1, p(j)) \in Text
          /\ SubSeq(text, 1, p(j) + Len(line[j])) \in Text
      <4> DEFINE q == p(j)
                 m == p(j) + Len(line[j])
      <4>1. q \in Nat /\ m \in Nat /\ q <= Len(text) /\ m <= Len(text)
        BY <1>2, <3>2 DEF Text
      <4> HIDE DEF q, m, text
      <4>2. SubSeq(text, 1, q) \in Text /\ SubSeq(text, 1, m) \in Text
        BY <1>2, <4>1 DEF Text
      <4>3. QED
        BY <4>2 DEF q, m
    <3>4. /\ ByteLen(SubSeq(text, 1, p(j))) \in Nat
          /\ ByteLen(SubSeq(text, 1, p(j) + Len(line[j]))) \in Nat
      BY <3>3, BytesAddUp
    <3>5. range.sc \in Nat /\ range.sb \in Nat
      BY DEF TextRange
    <3> HIDE DEF text, p
    <3>6. QED
      BY <3>2, <3>4, <3>5, SMTT(30) DEF Shift
  <2> HIDE DEF made, p, text
  <2>3. QED
    BY <1>1, <2>1, <2>2
<1> HIDE DEF made
<1>5. QED
  BY <1>1, <1>3, <1>4

(* The assembler after each of the rows: the text of each is marked there, *)
(* and no text is taken back.                                              *)
RowsAreMarked(f, s, rows) ==
  \A i \in 0 .. Len(rows) :
    \E t \in Text :
      /\ Extends(t, s) /\ f[i] \in ExactOn(t)
      /\ i > 0 => /\ Last(f[i].map).range \in TextRange
                  /\ Marks(t, Last(f[i].map).range, JoinedRow(rows[i]))
      /\ i > 0 => \E u \in Text : f[i - 1] \in ExactOn(u) /\ Extends(t, u)

(* An assembler is exact on one text only: the one it holds.               *)
LEMMA TextsAreTheirOwn ==
  ASSUME NEW a, NEW s, NEW t, a \in ExactOn(s), a \in ExactOn(t)
  PROVE  s = t
BY DEF ExactOn

(* Every row of a table is marked when it is appended, and neither layout  *)
(* nor tables change until the table is complete.                          *)
LEMMA RowsAreAdded ==
  ASSUME NEW a, NEW s \in Text, a \in ExactOn(s), NEW rows \in Seq(Cells)
  PROVE  /\ RowsAreMarked(WithRows(a, rows), s, rows)
         /\ \A i \in 0 .. Len(rows) :
              /\ WithRows(a, rows)[i].layout = a.layout
              /\ WithRows(a, rows)[i].tables = a.tables
         /\ WithRows(a, rows)[0] = a
         /\ \A i \in 1 .. Len(rows) :
              WithRows(a, rows)[i] = AddRow(WithRows(a, rows)[i - 1], Len(a.tables), i, rows[i])
<1> DEFINE n == Len(rows)
           table == Len(a.tables)
           S == {x \in UNION {ExactOn(t) : t \in {t \in Text : Extends(t, s)}} :
                   x.layout = a.layout /\ x.tables = a.tables}
           step == [i \in 1 .. n |-> [x \in S |-> AddRow(x, table, i, rows[i])]]
           Holds(g) == g = [i \in 0 .. n |->
                              IF i = 0 THEN a ELSE AddRow(g[i - 1], table, i, rows[i])]
           added == WithRows(a, rows)
<1>1. n \in Nat /\ table \in Nat /\ \A i \in 1 .. n : rows[i] \in Cells
  BY DEF ExactOn
<1>2. a \in S
  BY TextsExtendThemselves
<1>3. ASSUME NEW i \in 1 .. n, NEW x \in S
      PROVE  /\ AddRow(x, table, i, rows[i]) \in S
             /\ \E t, u \in Text :
                  /\ Extends(u, s) /\ x \in ExactOn(u) /\ Extends(t, u)
                  /\ Extends(t, s) /\ AddRow(x, table, i, rows[i]) \in ExactOn(t)
                  /\ Last(AddRow(x, table, i, rows[i]).map).range \in TextRange
                  /\ Marks(t, Last(AddRow(x, table, i, rows[i]).map).range, JoinedRow(rows[i]))
  <2> DEFINE b == AddRow(x, table, i, rows[i])
  <2>1. PICK u \in Text : Extends(u, s) /\ x \in ExactOn(u)
    OBVIOUS
  <2>2. i \in Nat /\ rows[i] \in Cells
    BY <1>1
  <2> HIDE DEF table, b
  <2>3. PICK t \in Text : /\ Extends(t, u) /\ b \in ExactOn(t)
                          /\ b.layout = x.layout /\ b.tables = x.tables
                          /\ Last(b.map).range \in TextRange
                          /\ Marks(t, Last(b.map).range, JoinedRow(rows[i]))
    BY <1>1, <2>1, <2>2, RowsMark DEF b
  <2>4. Extends(t, s)
    BY <2>1, <2>3, ExtensionsCompose
  <2>5. b \in S
    BY <2>3, <2>4
  <2> HIDE DEF S
  <2>6. QED
    BY <2>1, <2>3, <2>4, <2>5 DEF b
<1>4. step \in [1 .. n -> [S -> S]]
  BY <1>3
<1>5. PICK f \in [0 .. n -> S] : Follows(f, n, a, step)
  <2> HIDE DEF step, S, n
  <2> QED
    BY <1>1, <1>2, <1>4, Iterates
<1>6. \E g : Holds(g)
  <2>1. ASSUME NEW i \in 0 .. n
        PROVE  f[i] = IF i = 0 THEN a ELSE AddRow(f[i - 1], table, i, rows[i])
    <3>1. CASE i = 0
      BY <1>5, <3>1 DEF Follows
    <3>2. CASE i # 0
      <4>1. i \in 1 .. n /\ i - 1 \in 0 .. n
        BY <1>1, <3>2
      <4>2. f[i] = step[i][f[i - 1]] /\ f[i - 1] \in S
        BY <1>5, <4>1 DEF Follows
      <4> HIDE DEF S
      <4>3. step[i][f[i - 1]] = AddRow(f[i - 1], table, i, rows[i])
        BY <4>1, <4>2
      <4>4. QED
        BY <3>2, <4>2, <4>3
    <3>3. QED
      BY <3>1, <3>2
  <2> HIDE DEF S, table
  <2>2. f = [i \in 0 .. n |-> f[i]]
    OBVIOUS
  <2>3. Holds(f)
    BY <2>1, <2>2
  <2>4. QED
    BY <2>3
<1>7. added = [i \in 0 .. n |->
                 IF i = 0 THEN a ELSE AddRow(added[i - 1], table, i, rows[i])]
  <2>1. added = CHOOSE g : Holds(g)
    BY DEF WithRows
  <2> HIDE DEF Holds, added
  <2>2. Holds(added)
    BY <1>6, <2>1
  <2>3. QED
    BY <2>2 DEF Holds
<1> HIDE DEF added, S, step, table, n
<1>8. added[0] = a /\ \A i \in 1 .. n : added[i] = AddRow(added[i - 1], table, i, rows[i])
  <2>1. 0 \in 0 .. n /\ \A i \in 1 .. n : i \in 0 .. n /\ i # 0
    BY <1>1
  <2>2. QED
    BY <1>7, <2>1
<1>9. \A i \in 0 .. n : added[i] \in S
  <2> DEFINE T == {i \in 0 .. n : added[i] \in S}
  <2>1. 0 \in T
    BY <1>1, <1>2, <1>8
  <2>2. ASSUME NEW i \in 1 .. n, i - 1 \in T PROVE i \in T
    <3>1. added[i - 1] \in S /\ i \in 0 .. n
      BY <1>1, <2>2
    <3>2. QED
      BY <1>3, <1>8, <3>1
  <2> HIDE DEF T
  <2>3. \A i \in 0 .. n : i \in T
    BY <1>1, <2>1, <2>2, Reaches
  <2>4. QED
    BY <2>3 DEF T
<1>10. ASSUME NEW i \in 0 .. n
       PROVE  \E t \in Text :
                /\ Extends(t, s) /\ added[i] \in ExactOn(t)
                /\ i > 0 => /\ Last(added[i].map).range \in TextRange
                            /\ Marks(t, Last(added[i].map).range, JoinedRow(rows[i]))
                /\ i > 0 => \E u \in Text : added[i - 1] \in ExactOn(u) /\ Extends(t, u)
  <2>1. CASE i = 0
    BY <1>8, <2>1, TextsExtendThemselves
  <2>2. CASE i # 0
    <3>1. i \in 1 .. n /\ i - 1 \in 0 .. n
      BY <1>1, <2>2
    <3>2. added[i - 1] \in S /\ added[i] = AddRow(added[i - 1], table, i, rows[i])
      BY <1>8, <1>9, <3>1
    <3>3. QED
      BY <1>3, <3>1, <3>2
  <2>3. QED
    BY <2>1, <2>2
<1>11. \A i \in 0 .. n : added[i].layout = a.layout /\ added[i].tables = a.tables
  BY <1>9 DEF S
<1>12. RowsAreMarked(added, s, rows)
  BY <1>10 DEF RowsAreMarked, n
<1>13. QED
  BY <1>8, <1>11, <1>12 DEF added, n, table

(* A row is still marked when the last row has been appended.              *)
LEMMA RowsStayMarked ==
  ASSUME NEW f, NEW s \in Text, NEW rows \in Seq(Cells), RowsAreMarked(f, s, rows),
         NEW t \in Text, f[Len(rows)] \in ExactOn(t), NEW i \in 1 .. Len(rows)
  PROVE  /\ Last(f[i].map).range \in TextRange
         /\ Marks(t, Last(f[i].map).range, JoinedRow(rows[i]))
<1> DEFINE n == Len(rows)
           T == {j \in 0 .. n : j >= i =>
                   \E u \in Text : f[j] \in ExactOn(u) /\ Marks(u, Last(f[i].map).range,
                                                                JoinedRow(rows[i]))}
<1>1. n \in Nat /\ i \in 0 .. n /\ n \in 0 .. n /\ i > 0 /\ n >= i
  OBVIOUS
<1>2. JoinedRow(rows[i]) \in Text
  <2>1. rows[i] \in Cells
    OBVIOUS
  <2>2. QED
    BY <2>1, RowsHoldCells DEF Cells
<1>3. PICK ti \in Text : /\ f[i] \in ExactOn(ti) /\ Last(f[i].map).range \in TextRange
                         /\ Marks(ti, Last(f[i].map).range, JoinedRow(rows[i]))
  BY <1>1 DEF RowsAreMarked
<1>4. \A j \in 0 .. n : j \in T
  <2>1. 0 \in T
    BY <1>1
  <2>2. ASSUME NEW j \in 1 .. n, j - 1 \in T PROVE j \in T
    <3>1. CASE j < i
      BY <3>1
    <3>2. CASE j = i
      BY <1>1, <1>3, <3>2
    <3>3. CASE j > i
      <4>1. j - 1 >= i /\ j \in 0 .. n /\ j > 0
        BY <1>1, <3>3
      <4>2. PICK u \in Text : f[j - 1] \in ExactOn(u) /\ Marks(u, Last(f[i].map).range,
                                                               JoinedRow(rows[i]))
        BY <2>2, <4>1
      <4>3. PICK tj \in Text, v \in Text :
              f[j] \in ExactOn(tj) /\ f[j - 1] \in ExactOn(v) /\ Extends(tj, v)
        BY <4>1 DEF RowsAreMarked
      <4>4. u = v
        BY <4>2, <4>3, TextsAreTheirOwn
      <4>5. PICK more \in Text : tj = u \o more
        BY <4>3, <4>4 DEF Extends, Then
      <4>6. Marks(tj, Last(f[i].map).range, JoinedRow(rows[i]))
        BY <1>2, <4>2, <4>5, MarksStay
      <4>7. QED
        BY <4>1, <4>3, <4>6
    <3>4. QED
      BY <1>1, <3>1, <3>2, <3>3
  <2> HIDE DEF T, n
  <2>3. QED
    BY <1>1, <2>1, <2>2, Reaches
<1>5. PICK u \in Text : f[n] \in ExactOn(u) /\ Marks(u, Last(f[i].map).range,
                                                     JoinedRow(rows[i]))
  BY <1>1, <1>4
<1>6. u = t
  BY <1>5, TextsAreTheirOwn
<1>7. QED
  BY <1>3, <1>5, <1>6

(* Sequences over a set, one after the other, are one over it.             *)
LEMMA FlatIsSequence ==
  ASSUME NEW S, NEW n \in Nat, NEW ss \in [1 .. n -> Seq(S)]
  PROVE  FlattenSeq(ss) \in Seq(S)
<1>1. PICK f \in [0 .. n -> Seq(S)] : Chain(f, n, ss) /\ FlattenSeq(ss) = f[n]
  BY Flattening
<1>2. n \in 0 .. n
  OBVIOUS
<1>3. QED
  BY <1>1, <1>2

(* append_html_table_rows: the cells of a table and their layout spans     *)
(* mark the cells' texts, computed after the rows were all appended.       *)
LEMMA TablesMark ==
  ASSUME NEW a, NEW s \in Text, a \in ExactOn(s), NEW rows \in Seq(Cells)
  PROVE  \E t \in Text : Extends(t, s) /\ AddRows(a, rows) \in ExactOn(t)
<1> DEFINE n == Len(rows)
           table == Len(a.tables)
           after == WithRows(a, rows)
           filled == after[n]
           ss == [i \in DOMAIN rows |-> CellsOf(rows[i], i, Last(after[i].map).range)]
           cells == FlattenSeq(ss)
           range == [sc |-> a.char, ec |-> filled.char, sb |-> a.byte, eb |-> filled.byte]
           text == Slice(filled.text, range.sc, range.ec)
           span == Span(<<"table", table>>, 1, "table", range, text)
           spans == [k \in DOMAIN cells |->
                       Span(<<"cell", table, cells[k].row, cells[k].column>>, 1, "table_cell",
                            cells[k].range, cells[k].of)]
           tableSpan == TableSpan(table, range, cells)
<1>1. /\ n \in Nat /\ DOMAIN rows = 1 .. n /\ table \in Nat
      /\ \A i \in 1 .. n : rows[i] \in Cells
  BY DEF ExactOn
<1>2. /\ RowsAreMarked(after, s, rows)
      /\ filled.layout = a.layout /\ filled.tables = a.tables
  <2>1. n \in 0 .. n
    BY <1>1
  <2>2. QED
    BY <2>1, RowsAreAdded
<1>3. PICK t \in Text : Extends(t, s) /\ filled \in ExactOn(t)
  <2>1. n \in 0 .. n
    BY <1>1
  <2> HIDE DEF after
  <2>2. QED
    BY <1>2, <2>1 DEF RowsAreMarked
<1> HIDE DEF after
<1>4. ss \in [1 .. n -> Seq(CellOn(t))]
  <2>1. ASSUME NEW i \in 1 .. n
        PROVE  CellsOf(rows[i], i, Last(after[i].map).range) \in Seq(CellOn(t))
    <3>1. /\ Last(after[i].map).range \in TextRange
          /\ Marks(t, Last(after[i].map).range, JoinedRow(rows[i]))
      BY <1>2, <1>3, RowsStayMarked
    <3>2. i \in Nat /\ rows[i] \in Cells
      BY <1>1
    <3>3. QED
      BY <3>1, <3>2, CellsMark
  <2>2. QED
    BY <1>1, <2>1
<1>5. cells \in Seq(CellOn(t))
  <2> HIDE DEF ss, n
  <2> QED
    BY <1>1, <1>4, FlatIsSequence
<1> HIDE DEF cells, ss
<1>6. /\ a.char = Len(s) /\ a.byte = ByteLen(s)
      /\ filled.text = t /\ filled.char = Len(t) /\ filled.byte = ByteLen(t)
  BY <1>3 DEF ExactOn
<1> HIDE DEF filled
<1>7. /\ text \in Text /\ Marks(t, range, text) /\ range \in TextRange
  <2>1. PICK more \in Text : t = Then(s, more)
    BY <1>3 DEF Extends
  <2>2. /\ Len(t) = Len(s) + Len(more) /\ Len(s) \in Nat /\ Len(more) \in Nat
    BY <2>1, TextsJoin
  <2>3. /\ ByteLen(t) = ByteLen(s) + ByteLen(more)
        /\ ByteLen(s) \in Nat /\ ByteLen(more) \in Nat
    BY <2>1, BytesAddUp DEF Then
  <2>4. <<>> \in Text /\ more = Then(more, <<>>)
    BY DEF Text, Then
  <2>5. /\ range.sc = Len(s) /\ range.ec = Len(s) + Len(more)
        /\ range.sb = ByteLen(s) /\ range.eb = ByteLen(s) + ByteLen(more)
        /\ range \in TextRange
    BY <1>6, <2>2, <2>3 DEF TextRange
  <2>6. text = Slice(t, Len(s), Len(s) + Len(more))
    BY <1>6, <2>5
  <2> HIDE DEF range, text
  <2>7. Slice(Then(s, Then(more, <<>>)), Len(s), Len(s) + Len(more)) = more
    BY <2>4, MiddlesAreSlices
  <2>8. text = more
    BY <2>1, <2>4, <2>6, <2>7
  <2>9. QED
    BY <2>1, <2>4, <2>5, <2>8 DEF Marks
<1>8. span \in SpanOn(t)
  <2>1. <<"table", table>> \in SpanId /\ "table" \in Role
    BY <1>1 DEF SpanId, SpanTag, Role
  <2> HIDE DEF range, text, table
  <2>2. QED
    BY <1>7, <2>1 DEF SpanOn, Span
<1>9. spans \in Seq(SpanOn(t)) /\ Len(cells) \in Nat /\ DOMAIN cells = 1 .. Len(cells)
  <2>1. ASSUME NEW k \in 1 .. Len(cells)
        PROVE  Span(<<"cell", table, cells[k].row, cells[k].column>>, 1, "table_cell",
                    cells[k].range, cells[k].of) \in SpanOn(t)
    <3>1. cells[k] \in CellOn(t)
      BY <1>5
    <3>2. <<"cell", table, cells[k].row, cells[k].column>> \in SpanId /\ "table_cell" \in Role
      BY <1>1, <3>1 DEF SpanId, SpanTag, Role, CellOn
    <3> HIDE DEF table
    <3>3. QED
      BY <3>1, <3>2 DEF SpanOn, Span, CellOn
  <2>2. Len(cells) \in Nat /\ DOMAIN cells = 1 .. Len(cells)
    BY <1>5
  <2>3. QED
    BY <2>1, <2>2
<1>10. tableSpan \in TableOn(t)
  <2>1. <<"table", table>> \in SpanId
    BY <1>1 DEF SpanId, SpanTag
  <2> HIDE DEF range, table
  <2>2. QED
    BY <1>5, <1>7, <2>1 DEF TableOn, TableSpan
<1> DEFINE layout == filled.layout \o (<<span>> \o spans)
           tables == Append(filled.tables, tableSpan)
<1>11. AddRows(a, rows) = [filled EXCEPT !.tables = tables, !.layout = layout]
  BY DEF AddRows, TableLayout, after, filled, cells, ss
<1> HIDE DEF span, spans, tableSpan, range, text
<1>12. layout \in Seq(SpanOn(t)) /\ tables \in Seq(TableOn(t))
  <2>1. filled.layout \in Seq(SpanOn(t)) /\ filled.tables \in Seq(TableOn(t))
    BY <1>3 DEF ExactOn
  <2>2. <<span>> \o spans \in Seq(SpanOn(t))
    BY <1>8, <1>9
  <2>3. layout \in Seq(SpanOn(t))
    BY <2>1, <2>2
  <2>4. tables \in Seq(TableOn(t))
    BY <1>10, <2>1
  <2>5. QED
    BY <2>3, <2>4
<1> HIDE DEF layout, tables
<1>13. AddRows(a, rows) \in ExactOn(t)
  BY <1>3, <1>11, <1>12 DEF ExactOn
<1>14. QED
  BY <1>3, <1>13

-----------------------------------------------------------------------------
(* What the adapters give to the assembler are texts                       *)

(* Some letters of a text are a text.                                      *)
LEMMA LettersAreText ==
  ASSUME NEW text \in Text, NEW places
  PROVE  LettersAt(text, places) \in Text
<1> DEFINE ss == [i \in DOMAIN text |-> IF i \in places THEN <<text[i]>> ELSE <<>>]
<1>1. Len(text) \in Nat /\ DOMAIN text = 1 .. Len(text)
      /\ \A i \in 1 .. Len(text) : text[i] \in Letter
  BY DEF Text
<1>2. ss \in [1 .. Len(text) -> Seq(Letter)]
  BY <1>1
<1> HIDE DEF ss
<1>3. FlattenSeq(ss) \in Seq(Letter)
  BY <1>1, <1>2, FlatIsSequence
<1>4. QED
  BY <1>3 DEF LettersAt, Text, ss

(* _normalize_text gives a text.                                           *)
LEMMA NormalizedIsText ==
  ASSUME NEW text \in Text
  PROVE  Normalized(text) \in Text
<1> DEFINE spaced == [i \in DOMAIN text |-> IF text[i] \in Blank THEN Space ELSE text[i]]
<1>1. spaced \in Text
  BY DEF Text, Letter, Blank
<1>2. QED
  BY <1>1, LettersAreText DEF Normalized

(* The plain body of an email is a text.                                   *)
LEMMA PlainBodyIsText ==
  ASSUME NEW text \in Text
  PROVE  PlainBody(text) \in Text
BY LettersAreText DEF PlainBody

-----------------------------------------------------------------------------
(* The HTML parser                                                         *)

IsExact(a) == \E t \in Text : a \in ExactOn(t)

ParserIsExact ==
  /\ IsExact(assembly)
  /\ block \in BlockTag \cup {Closed} /\ parts \in Text
  /\ stack \in Seq(Seq(Cells))
  /\ row \in Seq(Text) \cup {NoRow} /\ cell \in Text \cup {NoCell}

(* Flushing the open block keeps the assembler exact: a block with no text *)
(* is dropped, any other appended.                                         *)
LEMMA FlushedIsExact ==
  ASSUME ParserIsExact
  PROVE  IsExact(Flushed)
<1>1. PICK s \in Text : assembly \in ExactOn(s)
  BY DEF ParserIsExact, IsExact
<1>2. CASE block = Closed \/ Normalized(parts) = <<>>
  BY <1>1, <1>2 DEF Flushed, IsExact
<1>3. CASE ~(block = Closed \/ Normalized(parts) = <<>>)
  <2>1. Normalized(parts) \in Text /\ RoleOf[block] \in ParagraphRole
    BY <1>3, NormalizedIsText, InputAssumption DEF ParserIsExact
  <2>2. \E t \in Text :
          Extends(t, s) /\ AddBlock(assembly, Normalized(parts), RoleOf[block]) \in ExactOn(t)
    BY <1>1, <2>1, BlocksMark
  <2>3. QED
    BY <1>3, <2>2 DEF Flushed, IsExact
<1>4. QED
  BY <1>2, <1>3

(* So does a table behind a separator.                                     *)
LEMMA SeparatedTablesAreExact ==
  ASSUME NEW a, IsExact(a), NEW rows \in Seq(Cells)
  PROVE  IsExact(AddSeparator(a)) /\ IsExact(AddRows(AddSeparator(a), rows))
<1>1. PICK s \in Text : a \in ExactOn(s)
  BY DEF IsExact
<1>2. PICK u \in Text : AddSeparator(a) \in ExactOn(u)
  BY <1>1, SeparatorsMark
<1>3. \E t \in Text : Extends(t, u) /\ AddRows(AddSeparator(a), rows) \in ExactOn(t)
  BY <1>2, TablesMark
<1>4. QED
  BY <1>2, <1>3 DEF IsExact

(* A parser begins with an empty assembler and no open block.              *)
LEMMA ParserStartsExact ==
  ASSUME ParserInit
  PROVE  ParserIsExact
BY EmptyIsExact DEF ParserInit, ParserIsExact, IsExact

(* What is left of the state once the parser is done is what it began with. *)
LEMMA DoneParserIsExact ==
  ASSUME ParserIsDone
  PROVE  ParserIsExact'
BY EmptyIsExact DEF ParserIsDone, ParserIsExact, IsExact

(* Every tag, text and end of the input keeps the HTML parser's assembler  *)
(* exact, in whatever order they come.                                     *)
LEMMA ParserStaysExact ==
  ASSUME ParserIsExact, ParserStep
  PROVE  ParserIsExact'
<1> USE DEF ParserIsExact
<1>0. <<>> \in Text /\ <<>> \in Seq(Text) /\ <<>> \in Seq(Cells)
  BY DEF Text
<1>10. IsExact(Flushed)
  BY FlushedIsExact
<1>1. CASE OpenIgnored \/ OpenTitle \/ CloseIgnored \/ CloseTitle
  BY <1>1 DEF OpenIgnored, OpenTitle, CloseIgnored, CloseTitle
<1>2. CASE OpenTable
  <2>1. Append(stack, <<>>) \in Seq(Seq(Cells))
    BY <1>0
  <2>2. QED
    BY <1>0, <1>2, <1>10, <2>1 DEF OpenTable, FlushOpenBlock
<1>3. CASE OpenRow
  BY <1>0, <1>3 DEF OpenRow
<1>4. CASE OpenCell
  BY <1>0, <1>4 DEF OpenCell
<1>5. CASE CloseCell
  <2>1. Normalized(cell) \in Text
    BY <1>5, NormalizedIsText DEF CloseCell
  <2>2. row \in Seq(Text)
    BY <1>5 DEF CloseCell
  <2>3. Append(row, Normalized(cell)) \in Seq(Text)
    BY <2>1, <2>2
  <2>4. QED
    BY <1>5, <2>3 DEF CloseCell
<1>6. CASE CloseRow
  <2>1. row \in Seq(Text) /\ stack # <<>>
    BY <1>6 DEF CloseRow, InTable
  <2>2. ASSUME row # <<>>
        PROVE  [stack EXCEPT ![Len(stack)] = Append(@, row)] \in Seq(Seq(Cells))
    <3>1. row \in Cells /\ Len(stack) \in DOMAIN stack
      BY <2>1, <2>2 DEF Cells
    <3>2. Append(stack[Len(stack)], row) \in Seq(Cells)
      BY <3>1
    <3>3. QED
      BY <3>1, <3>2
  <2>3. QED
    BY <1>6, <2>2 DEF CloseRow
<1>7. CASE CloseTable
  <2>1. stack # <<>>
    BY <1>7 DEF CloseTable, InTable
  <2>2. Last(stack) \in Seq(Cells) /\ Front(stack) \in Seq(Seq(Cells))
    <3>1. stack \in Seq(Seq(Cells))
      OBVIOUS
    <3>2. Last(stack) \in Seq(Cells)
      BY <2>1, <3>1 DEF Last
    <3>3. Front(stack) \in Seq(Seq(Cells))
      BY <2>1, <3>1 DEF Front
    <3>4. QED
      BY <3>2, <3>3
  <2>3. IsExact(AddRows(AddSeparator(assembly), Last(stack)))
    BY <2>2, SeparatedTablesAreExact
  <2>4. QED
    BY <1>7, <2>2, <2>3 DEF CloseTable
<1>8. ASSUME NEW tag \in BlockTag, OpenBlock(tag) \/ CloseBlock(tag)
      PROVE  ParserIsExact'
  BY <1>0, <1>8, <1>10 DEF OpenBlock, CloseBlock, FlushOpenBlock
<1>9. ASSUME NEW text \in Data, HandleData(text)
      PROVE  ParserIsExact'
  <2>1. text \in Text
    BY InputAssumption
  <2>2. CASE cell # NoCell
    <3>1. cell \o text \in Text
      BY <2>1, <2>2 DEF Text
    <3>2. QED
      BY <1>9, <2>2, <3>1 DEF HandleData
  <2>3. CASE cell = NoCell /\ block # Closed
    <3>1. parts \o text \in Text
      BY <2>1 DEF Text
    <3>2. QED
      BY <1>9, <2>3, <3>1 DEF HandleData
  <2>4. CASE cell = NoCell /\ block = Closed
    BY <1>9, <2>4 DEF HandleData
  <2>5. QED
    BY <2>2, <2>3, <2>4
<1>11. QED
  BY <1>1, <1>2, <1>3, <1>4, <1>5, <1>6, <1>7, <1>8, <1>9 DEF ParserStep

-----------------------------------------------------------------------------
(* Documents                                                               *)

IsSequence(s) == Len(s) \in Nat /\ DOMAIN s = 1 .. Len(s)
HasPlace(s) == s.range.sc \in Nat /\ s.range.ec \in Nat /\ s.id # <<>>

(* The spans and tables of a document have ids, and ranges of offsets.     *)
Shaped(d) ==
  /\ IsSequence(d.layout) /\ IsSequence(d.tables)
  /\ \A s \in ToSet(d.layout) \cup ToSet(d.tables) : HasPlace(s)

ExactDocument(d) ==
  d.text # <<>> =>
    /\ d.text \in Text /\ Shaped(d)
    /\ \A s \in Ranged(d) : s.of \in Text /\ Marks(d.text, s.range, s.of)

(* A span, or a table, of an assembler has an id and a range of offsets.   *)
LEMMA SpansHavePlaces ==
  ASSUME NEW t, NEW s, s \in SpanOn(t) \/ s \in TableOn(t)
  PROVE  /\ "range" \in DOMAIN s /\ "id" \in DOMAIN s /\ s.range \in TextRange /\ HasPlace(s)
<1>1. ASSUME NEW id \in SpanId PROVE id # <<>>
  <2>1. CASE id \in SpanTag \X Nat
    <3>1. PICK x \in SpanTag, n \in Nat : id = <<x, n>>
      BY <2>1
    <3>2. QED
      BY <3>1
  <2>2. CASE id \in SpanTag \X Nat \X Nat \X Nat
    <3>1. PICK x \in SpanTag, n \in Nat, j \in Nat, k \in Nat : id = <<x, n, j, k>>
      BY <2>2
    <3>2. QED
      BY <3>1
  <2>3. QED
    BY <2>1, <2>2 DEF SpanId
<1>2. "range" \in DOMAIN s /\ "id" \in DOMAIN s /\ s.range \in TextRange /\ s.id \in SpanId
  <2>1. CASE s \in SpanOn(t)
    <3>1. s \in [id : SpanId, page : Nat, role : Role, range : TextRange, of : Text]
      BY <2>1 DEF SpanOn
    <3>2. QED
      BY <3>1
  <2>2. CASE s \in TableOn(t)
    <3> DEFINE S == Seq(CellOn(t))
    <3>1. s \in [id : SpanId, page : Nat, range : TextRange, cells : S]
      BY <2>2 DEF TableOn
    <3> HIDE DEF S
    <3>2. QED
      BY <3>1
  <2>3. QED
    BY <2>1, <2>2
<1>3. s.range.sc \in Nat /\ s.range.ec \in Nat
  BY <1>2 DEF TextRange
<1>4. QED
  BY <1>1, <1>2, <1>3 DEF HasPlace

(* So a document is shaped as an assembler is.                             *)
LEMMA SpansAreShaped ==
  ASSUME NEW t, NEW d, d.layout \in Seq(SpanOn(t)), d.tables \in Seq(TableOn(t))
  PROVE  Shaped(d)
<1> DEFINE X == SpanOn(t)
           Y == TableOn(t)
           f == d.layout
           g == d.tables
<1>1. /\ IsSequence(f) /\ IsSequence(g)
      /\ \A s \in ToSet(f) : s \in X
      /\ \A s \in ToSet(g) : s \in Y
  <2>1. f \in Seq(X) /\ g \in Seq(Y)
    OBVIOUS
  <2> HIDE DEF X, Y, f, g
  <2>2. QED
    BY <2>1 DEF IsSequence, ToSet
<1>2. \A s \in ToSet(f) \cup ToSet(g) : HasPlace(s)
  BY <1>1, SpansHavePlaces
<1>3. QED
  BY <1>1, <1>2 DEF Shaped

(* What an exact assembler builds is a document with exact ranges.         *)
LEMMA AssembledIsExact ==
  ASSUME NEW a, NEW t \in Text, a \in ExactOn(t)
  PROVE  ExactDocument(OnePage(a))
<1> DEFINE d == OnePage(a)
<1>1. /\ d.text = t /\ d.layout \in Seq(SpanOn(t)) /\ d.tables \in Seq(TableOn(t))
  BY DEF OnePage, ExactOn
<1> HIDE DEF d
<1>2. \A s \in ToSet(d.layout) : s.of \in Text /\ Marks(t, s.range, s.of)
  BY <1>1 DEF ToSet, SpanOn
<1>3. ASSUME NEW table \in ToSet(d.tables), NEW c \in ToSet(table.cells)
      PROVE  c.of \in Text /\ Marks(t, c.range, c.of)
  <2>1. table.cells \in Seq(CellOn(t))
    <3>1. table \in TableOn(t)
      BY <1>1 DEF ToSet
    <3> DEFINE S == Seq(CellOn(t))
    <3>2. TableOn(t) = [id : SpanId, page : Nat, range : TextRange, cells : S]
      BY DEF TableOn
    <3> HIDE DEF S
    <3>3. table.cells \in S
      BY <3>1, <3>2
    <3>4. QED
      BY <3>3 DEF S
  <2>2. c \in CellOn(t)
    BY <2>1 DEF ToSet
  <2>3. QED
    BY <2>2 DEF CellOn
<1>4. Shaped(d)
  BY <1>1, SpansAreShaped
<1>5. ExactDocument(d)
  BY <1>1, <1>2, <1>3, <1>4 DEF ExactDocument, Ranged
<1>6. QED
  BY <1>5 DEF d

(* Rows without cells are dropped before a table is appended.              *)
LEMMA TableRowsHaveCells ==
  ASSUME NEW rows \in Seq(Seq(Text))
  PROVE  TableRows(rows) \in Seq(Cells)
<1> DEFINE ss == [i \in DOMAIN rows |-> IF rows[i] = <<>> THEN <<>> ELSE <<rows[i]>>]
<1>1. /\ Len(rows) \in Nat /\ DOMAIN rows = 1 .. Len(rows)
      /\ \A i \in 1 .. Len(rows) : rows[i] \in Seq(Text)
  OBVIOUS
<1>2. ASSUME NEW i \in 1 .. Len(rows)
      PROVE  (IF rows[i] = <<>> THEN <<>> ELSE <<rows[i]>>) \in Seq(Cells)
  <2>1. rows[i] # <<>> => rows[i] \in Cells
    BY <1>1 DEF Cells
  <2> HIDE DEF Cells
  <2>2. QED
    BY <2>1
<1>3. ss \in [1 .. Len(rows) -> Seq(Cells)]
  BY <1>1, <1>2
<1> HIDE DEF ss
<1>4. FlattenSeq(ss) \in Seq(Cells)
  BY <1>1, <1>3, FlatIsSequence
<1>5. QED
  BY <1>4 DEF TableRows, ss

-----------------------------------------------------------------------------
(* Emails                                                                  *)

(* _append_headers, one header after the other: each label and value is    *)
(* where its spans say.                                                    *)
HeaderSeparator(values, i) ==
  IF i = Len(values) THEN <<NewLine, NewLine>> ELSE <<NewLine>>

HeadersFollow(f, values) ==
  /\ f[0] = Empty
  /\ \A i \in 1 .. Len(values) :
       f[i] = AddHeader(f[i - 1], i, values[i], HeaderSeparator(values, i))
  /\ \A i \in 0 .. Len(values) : IsExact(f[i])

LEMMA HeadersAreAdded ==
  ASSUME NEW values \in Seq(Text)
  PROVE  \E f : HeadersFollow(f, values) /\ WithHeaders(values) = f[Len(values)]
<1> DEFINE n == Len(values)
           S == UNION {ExactOn(t) : t \in Text}
           separator(i) == HeaderSeparator(values, i)
           step == [i \in 1 .. n |-> [x \in S |-> AddHeader(x, i, values[i], separator(i))]]
           Holds(g) == g = [i \in 0 .. n |->
                              IF i = 0 THEN Empty
                              ELSE AddHeader(g[i - 1], i, values[i], separator(i))]
<1>1. n \in Nat /\ \A i \in 1 .. n : values[i] \in Text
  OBVIOUS
<1>2. Empty \in S
  BY EmptyIsExact
<1>3. ASSUME NEW i \in 1 .. n, NEW x \in S
      PROVE  AddHeader(x, i, values[i], separator(i)) \in S
  <2> DEFINE labelled == AddSegment(x, HeaderLabel, <<"header-label", i>>, "generated")
             valued == AddSegment(labelled, values[i], <<"header-value", i>>, "unmapped")
             b == AddSegment(valued, separator(i), <<"header-separator", i>>, "generated")
  <2>1. PICK s \in Text : x \in ExactOn(s)
    OBVIOUS
  <2>2. /\ <<"header-label", i>> \in SegmentId /\ <<"header-value", i>> \in SegmentId
        /\ <<"header-separator", i>> \in SegmentId
        /\ "generated" \in SegmentKind /\ "unmapped" \in SegmentKind
    BY <1>1 DEF SegmentId, SegmentTag, SegmentKind
  <2>3. HeaderLabel \in Text
    <3>1. (CHOOSE l \in Plain : TRUE) \in Plain
      BY InputAssumption
    <3>2. QED
      BY <3>1 DEF HeaderLabel, Text, Letter, Blank
  <2>4. separator(i) \in Text /\ values[i] \in Text
    <3>1. NewLine \in Letter
      BY DEF Letter, Blank
    <3>2. <<NewLine, NewLine>> \in Seq(Letter) /\ <<NewLine>> \in Seq(Letter)
      BY <3>1
    <3>3. QED
      BY <1>1, <3>2 DEF Text, HeaderSeparator
  <2> HIDE DEF separator
  <2>5. PICK t \in Text : labelled \in ExactOn(t)
    <3>1. Adds(x, s, labelled, HeaderLabel)
      BY <2>1, <2>2, <2>3, SegmentsMark
    <3>2. QED
      BY <3>1 DEF Adds
  <2> HIDE DEF labelled
  <2>6. PICK u \in Text : valued \in ExactOn(u)
    <3>1. Adds(labelled, t, valued, values[i])
      BY <2>2, <2>4, <2>5, SegmentsMark
    <3>2. QED
      BY <3>1 DEF Adds
  <2> HIDE DEF valued
  <2>7. b \in S
    <3>1. Adds(valued, u, b, separator(i))
      BY <2>2, <2>4, <2>6, SegmentsMark
    <3>2. QED
      BY <3>1 DEF Adds
  <2>8. QED
    BY <2>7 DEF AddHeader, labelled, valued
<1>4. step \in [1 .. n -> [S -> S]]
  BY <1>3
<1>5. PICK f \in [0 .. n -> S] : Follows(f, n, Empty, step)
  <2> HIDE DEF step, S, n
  <2> QED
    BY <1>1, <1>2, <1>4, Iterates
<1>6. \E g : Holds(g)
  <2> HIDE DEF separator
  <2>1. ASSUME NEW i \in 0 .. n
        PROVE  f[i] = IF i = 0 THEN Empty
                      ELSE AddHeader(f[i - 1], i, values[i], separator(i))
    <3>1. CASE i = 0
      BY <1>5, <3>1 DEF Follows
    <3>2. CASE i # 0
      <4>1. i \in 1 .. n /\ i - 1 \in 0 .. n
        BY <1>1, <3>2
      <4>2. f[i] = step[i][f[i - 1]] /\ f[i - 1] \in S
        BY <1>5, <4>1 DEF Follows
      <4> HIDE DEF S
      <4>3. step[i][f[i - 1]] = AddHeader(f[i - 1], i, values[i], separator(i))
        BY <4>1, <4>2
      <4>4. QED
        BY <3>2, <4>2, <4>3
    <3>3. QED
      BY <3>1, <3>2
  <2> HIDE DEF S
  <2>2. f = [i \in 0 .. n |-> f[i]]
    OBVIOUS
  <2>3. Holds(f)
    BY <2>1, <2>2
  <2>4. QED
    BY <2>3
<1>7. PICK added : Holds(added) /\ WithHeaders(values) = added[n]
  <2>1. WithHeaders(values) = (CHOOSE g : Holds(g))[n]
    BY DEF WithHeaders, HeaderSeparator
  <2> HIDE DEF Holds
  <2>2. Holds(CHOOSE g : Holds(g))
    BY <1>6
  <2>3. QED
    BY <2>1, <2>2
<1> HIDE DEF S, step, n, separator
<1>8. \A i \in 0 .. n : added[i] \in S
  <2> DEFINE T == {i \in 0 .. n : added[i] \in S}
  <2>1. 0 \in T
    BY <1>1, <1>2, <1>7
  <2>2. ASSUME NEW i \in 1 .. n, i - 1 \in T PROVE i \in T
    <3>1. added[i - 1] \in S /\ i \in 0 .. n /\ i # 0
      BY <1>1, <2>2
    <3>2. added[i] = AddHeader(added[i - 1], i, values[i], separator(i))
      BY <1>7, <3>1
    <3>3. QED
      BY <1>3, <3>1, <3>2
  <2> HIDE DEF T
  <2>3. \A i \in 0 .. n : i \in T
    BY <1>1, <2>1, <2>2, Reaches
  <2>4. QED
    BY <2>3 DEF T
<1>9. \A i \in 0 .. n : IsExact(added[i])
  BY <1>8 DEF S, IsExact
<1>10. /\ added[0] = Empty
       /\ \A i \in 1 .. n : added[i] = AddHeader(added[i - 1], i, values[i], separator(i))
  <2>1. 0 \in 0 .. n /\ \A i \in 1 .. n : i \in 0 .. n /\ i # 0
    BY <1>1
  <2>2. QED
    BY <1>7, <2>1
<1>11. HeadersFollow(added, values)
  BY <1>9, <1>10 DEF HeadersFollow, n, separator
<1>12. QED
  BY <1>7, <1>11 DEF n

LEMMA HeadersAreExact ==
  ASSUME NEW values \in Seq(Text)
  PROVE  IsExact(WithHeaders(values))
<1>1. PICK f : HeadersFollow(f, values) /\ WithHeaders(values) = f[Len(values)]
  BY HeadersAreAdded
<1>2. Len(values) \in 0 .. Len(values)
  OBVIOUS
<1>3. QED
  BY <1>1, <1>2 DEF HeadersFollow

(* What moves behind the headers keeps its place there.                    *)
LEMMA MovedHasPlace ==
  ASSUME NEW h, h.char \in Nat, NEW x, "range" \in DOMAIN x, "id" \in DOMAIN x,
         x.range \in TextRange, NEW r, r = Moved(x.range, h)
  PROVE  HasPlace([[x EXCEPT !.range = r] EXCEPT !.id = <<"email-body", @>>])
<1> DEFINE y == [[x EXCEPT !.range = r] EXCEPT !.id = <<"email-body", @>>]
<1>1. r.sc \in Nat /\ r.ec \in Nat
  <2> DEFINE range == x.range
             n == h.char
  <2>1. range.sc \in Nat /\ range.ec \in Nat /\ n \in Nat
    BY DEF TextRange
  <2>2. r.sc = range.sc + n /\ r.ec = range.ec + n
    BY DEF Moved, Shift
  <2> HIDE DEF range, n
  <2>3. QED
    BY <2>1, <2>2
<1>2. y.range = r /\ y.id = <<"email-body", x.id>>
  OBVIOUS
<1>3. <<"email-body", x.id>> # <<>>
  OBVIOUS
<1> HIDE DEF y
<1>4. HasPlace(y)
  BY <1>1, <1>2, <1>3 DEF HasPlace
<1>5. QED
  BY <1>4 DEF y

(* What the HTML body marks, its ranges mark behind the headers.           *)
LEMMA ImportedIsExact ==
  ASSUME NEW h, NEW a, IsExact(h), IsExact(a)
  PROVE  ExactDocument(OnePage(Imported(h, a)))
<1>1. PICK s \in Text, t \in Text : h \in ExactOn(s) /\ a \in ExactOn(t)
  BY DEF IsExact
<1> DEFINE d == OnePage(Imported(h, a))
           text == Then(s, t)
           outer == [sc |-> Len(s), ec |-> Len(s) + Len(t),
                     sb |-> ByteLen(s), eb |-> ByteLen(s) + ByteLen(t)]
           ranged(x) == [x EXCEPT !.range = Moved(@, h)]
           apart(x) == [ranged(x) EXCEPT !.id = <<"email-body", @>>]
<1>2. text \in Text /\ Marks(text, outer, t)
  <2>1. <<>> \in Text /\ t = Then(t, <<>>) /\ text \in Text
    BY TextsJoin DEF Text, Then
  <2>2. text = Then(s, Then(t, <<>>))
    BY <2>1
  <2>3. /\ outer.sc = Len(s) /\ outer.ec = Len(s) + Len(t)
        /\ outer.sb = ByteLen(s) /\ outer.eb = ByteLen(s) + ByteLen(t)
    OBVIOUS
  <2> HIDE DEF outer, text
  <2>4. QED
    BY <2>1, <2>2, <2>3 DEF Marks
<1>3. ASSUME NEW range, NEW of \in Text, Marks(t, range, of)
      PROVE  Marks(text, Moved(range, h), of)
  <2>1. outer.sc = h.char /\ outer.sb = h.byte
    BY <1>1 DEF ExactOn
  <2> HIDE DEF outer, text
  <2>2. Marks(text, Shift(range, outer.sc, outer.sb), of)
    BY <1>2, <1>3, MarksNest
  <2>3. QED
    BY <2>1, <2>2 DEF Moved
<1>4. /\ h.text = s /\ a.text = t
      /\ a.layout \in Seq(SpanOn(t)) /\ a.tables \in Seq(TableOn(t))
  BY <1>1 DEF ExactOn
<1>5. /\ d.text = text
      /\ d.layout = [i \in DOMAIN a.layout |-> apart(a.layout[i])]
      /\ d.tables = [i \in DOMAIN a.tables |->
           [apart(a.tables[i]) EXCEPT !.cells = [c \in DOMAIN @ |-> ranged(@[c])]]]
  BY <1>4 DEF OnePage, Imported, Then
<1>6. h.char \in Nat
  BY <1>1 DEF ExactOn, Text
<1>7. ASSUME NEW i \in DOMAIN a.layout
      PROVE  /\ apart(a.layout[i]).of \in Text
             /\ Marks(text, apart(a.layout[i]).range, apart(a.layout[i]).of)
             /\ HasPlace(apart(a.layout[i]))
  <2> DEFINE x == a.layout[i]
             r == Moved(x.range, h)
  <2>1. x \in SpanOn(t)
    BY <1>4
  <2> HIDE DEF text, x, r
  <2>2. /\ x.of \in Text /\ Marks(t, x.range, x.of)
    BY <2>1 DEF SpanOn
  <2>3. [[x EXCEPT !.range = r] EXCEPT !.id = <<"email-body", @>>].range = r
    BY <2>1 DEF SpanOn
  <2>4. [[x EXCEPT !.range = r] EXCEPT !.id = <<"email-body", @>>].of = x.of
    BY <2>1 DEF SpanOn
  <2>5. Marks(text, r, x.of)
    BY <1>3, <2>2 DEF r
  <2>6. apart(x).range = r /\ apart(x).of = x.of
    BY <2>3, <2>4 DEF r
  <2>7. HasPlace(apart(x))
    <3>1. "range" \in DOMAIN x /\ "id" \in DOMAIN x /\ x.range \in TextRange /\ h.char \in Nat
      BY <1>6, <2>1, SpansHavePlaces
    <3>2. HasPlace([[x EXCEPT !.range = r] EXCEPT !.id = <<"email-body", @>>])
      BY <3>1, MovedHasPlace DEF r
    <3>3. QED
      BY <3>2 DEF r
  <2> HIDE DEF apart
  <2>8. QED
    BY <2>2, <2>5, <2>6, <2>7 DEF x
<1>8. ASSUME NEW i \in DOMAIN a.tables
      PROVE  /\ \A c \in ToSet(d.tables[i].cells) :
                  c.of \in Text /\ Marks(text, c.range, c.of)
             /\ HasPlace(d.tables[i])
  <2> DEFINE x == a.tables[i]
             y == apart(x)
             cells == x.cells
  <2>1. x \in TableOn(t) /\ cells \in Seq(CellOn(t))
    <3>1. x \in TableOn(t)
      BY <1>4
    <3> DEFINE S == Seq(CellOn(t))
    <3>2. TableOn(t) = [id : SpanId, page : Nat, range : TextRange, cells : S]
      BY DEF TableOn
    <3> HIDE DEF S, x
    <3>3. x.cells \in S
      BY <3>1, <3>2, SMTT(30)
    <3>4. QED
      BY <3>1, <3>3 DEF S
  <2>2. d.tables[i] = [y EXCEPT !.cells = [c \in DOMAIN @ |-> ranged(@[c])]]
    BY <1>5
  <2> HIDE DEF d, x, text
  <2>3. "cells" \in DOMAIN y /\ y.cells = cells
    BY <2>1 DEF TableOn
  <2>4. HasPlace(y) /\ "range" \in DOMAIN y /\ "id" \in DOMAIN y
    <3> DEFINE r == Moved(x.range, h)
    <3>1. "range" \in DOMAIN x /\ "id" \in DOMAIN x /\ x.range \in TextRange /\ h.char \in Nat
      BY <1>6, <2>1, SpansHavePlaces
    <3> HIDE DEF r
    <3>2. HasPlace([[x EXCEPT !.range = r] EXCEPT !.id = <<"email-body", @>>])
      BY <3>1, MovedHasPlace DEF r
    <3>3. /\ "range" \in DOMAIN [[x EXCEPT !.range = r] EXCEPT !.id = <<"email-body", @>>]
          /\ "id" \in DOMAIN [[x EXCEPT !.range = r] EXCEPT !.id = <<"email-body", @>>]
      BY <3>1
    <3>4. QED
      BY <3>2, <3>3 DEF r
  <2> HIDE DEF y, cells
  <2>5. d.tables[i].cells = [c \in DOMAIN cells |-> ranged(cells[c])]
    BY <2>2, <2>3
  <2>6. HasPlace(d.tables[i])
    <3> DEFINE moved == [c \in DOMAIN y.cells |-> ranged(y.cells[c])]
    <3>1. d.tables[i] = [y EXCEPT !.cells = moved]
      BY <2>2
    <3> HIDE DEF moved
    <3>2. d.tables[i].range = y.range /\ d.tables[i].id = y.id
      BY <2>4, <3>1
    <3>3. QED
      BY <2>4, <3>2 DEF HasPlace
  <2>7. ASSUME NEW k \in DOMAIN cells
        PROVE  ranged(cells[k]).of \in Text /\ Marks(text, ranged(cells[k]).range,
                                                     ranged(cells[k]).of)
    <3> DEFINE c == cells[k]
               r == Moved(c.range, h)
    <3>1. c \in CellOn(t)
      BY <2>1
    <3> HIDE DEF c, r
    <3>2. c.of \in Text /\ Marks(t, c.range, c.of)
      BY <3>1 DEF CellOn
    <3>3. [c EXCEPT !.range = r].range = r /\ [c EXCEPT !.range = r].of = c.of
      BY <3>1 DEF CellOn
    <3>4. Marks(text, r, c.of)
      BY <1>3, <3>2 DEF r
    <3>5. ranged(c).range = r /\ ranged(c).of = c.of
      BY <3>3 DEF r
    <3>6. QED
      BY <3>2, <3>4, <3>5 DEF c
  <2> HIDE DEF ranged
  <2>8. QED
    BY <2>5, <2>7, <2>6 DEF ToSet
<1> HIDE DEF apart, ranged
<1>9. Shaped(d)
  <2>1. IsSequence(a.layout) /\ IsSequence(a.tables)
    <3> DEFINE X == SpanOn(t)
               Y == TableOn(t)
               f == a.layout
               g == a.tables
    <3>1. f \in Seq(X) /\ g \in Seq(Y)
      BY <1>4
    <3> HIDE DEF X, Y, f, g
    <3>2. QED
      BY <3>1 DEF IsSequence, f, g
  <2> HIDE DEF d, text
  <2>2. IsSequence(d.layout) /\ IsSequence(d.tables)
    BY <1>5, <2>1 DEF IsSequence
  <2>3. \A x \in ToSet(d.layout) : \E i \in DOMAIN a.layout : x = apart(a.layout[i])
    BY <1>5 DEF ToSet
  <2>4. \A x \in ToSet(d.tables) : \E i \in DOMAIN a.tables : x = d.tables[i]
    BY <1>5 DEF ToSet
  <2>5. \A x \in ToSet(d.layout) \cup ToSet(d.tables) : HasPlace(x)
    BY <1>7, <1>8, <2>3, <2>4
  <2>6. QED
    BY <2>2, <2>5 DEF Shaped
<1>10. /\ \A x \in ToSet(d.layout) : x.of \in Text /\ Marks(text, x.range, x.of)
      /\ \A table \in ToSet(d.tables) : \A c \in ToSet(table.cells) :
           c.of \in Text /\ Marks(text, c.range, c.of)
  <2> HIDE DEF text
  <2>1. \A x \in ToSet(d.layout) : \E i \in DOMAIN a.layout : x = apart(a.layout[i])
    BY <1>5 DEF ToSet
  <2>2. \A table \in ToSet(d.tables) : \E i \in DOMAIN a.tables : table = d.tables[i]
    BY <1>5 DEF ToSet
  <2> HIDE DEF d
  <2>3. \A x \in ToSet(d.layout) : x.of \in Text /\ Marks(text, x.range, x.of)
    BY <1>7, <2>1
  <2>4. QED
    BY <1>8, <2>2, <2>3
<1> HIDE DEF d
<1>11. ExactDocument(d)
  BY <1>2, <1>5, <1>10, <1>9 DEF ExactDocument, Ranged
<1>12. QED
  BY <1>11 DEF d

-----------------------------------------------------------------------------
(* PDF pages                                                               *)

AtPlace(text, piece, p) ==
  p \in Nat /\ p + Len(piece) <= Len(text) /\ Slice(text, p, p + Len(piece)) = piece

Search == [cursor : Nat, found : BOOLEAN, starts : Seq(Nat)]

FindsNext(acc, next, text, piece) ==
  next.found =>
    /\ acc.found /\ piece # <<>>
    /\ \E p \in Nat : /\ AtPlace(text, piece, p) /\ next.starts = Append(acc.starts, p)
                     /\ acc.cursor <= p /\ next.cursor = p + Len(piece)

(* One step of _extract_table_spans: a cell that is found is found at its  *)
(* place, behind the last one, and the search goes on behind it.           *)
LEMMA NextIsFound ==
  ASSUME NEW acc \in Search, NEW text \in Text, NEW piece \in Text
  PROVE  /\ FindNext(acc, text, piece) \in Search
         /\ FindsNext(acc, FindNext(acc, text, piece), text, piece)
<1> DEFINE places == Places(text, piece, acc.cursor)
           first == CHOOSE p \in places : \A q \in places : p <= q
           next == FindNext(acc, text, piece)
<1>1. acc.cursor \in Nat /\ Len(text) \in Nat /\ Len(piece) \in Nat /\ acc.starts \in Seq(Nat)
  BY DEF Search, Text
<1>2. \A p \in places : /\ p \in Nat /\ p + Len(piece) <= Len(text)
                        /\ Slice(text, p, p + Len(piece)) = piece /\ acc.cursor <= p
  BY <1>1 DEF Places
<1>3. CASE ~acc.found \/ piece = <<>> \/ places = {}
  <2>1. next = [acc EXCEPT !.found = FALSE]
    BY <1>3 DEF FindNext
  <2> HIDE DEF next
  <2>2. next \in Search /\ ~next.found
    BY <2>1 DEF Search
  <2>3. QED
    BY <2>2 DEF FindsNext, next
<1>4. CASE ~(~acc.found \/ piece = <<>> \/ places = {})
  <2>1. first \in places
    <3>1. places \in SUBSET Nat /\ places # {}
      BY <1>2, <1>4
    <3> HIDE DEF places
    <3>2. \E p \in places : \A q \in places : p <= q
      BY <3>1, LeastElement
    <3>3. QED
      BY <3>2
  <2>2. next = [cursor |-> first + Len(piece), found |-> TRUE,
                starts |-> Append(acc.starts, first)]
    BY <1>4 DEF FindNext
  <2> HIDE DEF places, first, next
  <2>3. first \in Nat /\ AtPlace(text, piece, first) /\ acc.cursor <= first
    BY <1>2, <2>1 DEF AtPlace
  <2>4. first + Len(piece) \in Nat /\ Append(acc.starts, first) \in Seq(Nat)
    BY <1>1, <2>3
  <2>5. /\ next \in Search /\ next.starts = Append(acc.starts, first)
        /\ next.cursor = first + Len(piece)
    BY <2>2, <2>4 DEF Search
  <2>6. QED
    BY <1>4, <2>3, <2>5 DEF FindsNext, next
<1>5. QED
  BY <1>3, <1>4

AllFound(text, pieces, acc, n) ==
  acc.found =>
    /\ Len(acc.starts) = n
    /\ \A k \in 1 .. n : /\ pieces[k] # <<>> /\ AtPlace(text, pieces[k], acc.starts[k])
                         /\ acc.starts[k] + Len(pieces[k]) <= acc.cursor
    /\ \A j, k \in 1 .. n : j < k => acc.starts[j] + Len(pieces[j]) <= acc.starts[k]

(* When every piece of a page is found, each is at its own place, behind   *)
(* the ones before it.                                                     *)
LEMMA AlignedAreFound ==
  ASSUME NEW text \in Text, NEW pieces \in Seq(Text)
  PROVE  AllFound(text, pieces, Aligned(text, pieces), Len(pieces))
<1> DEFINE n == Len(pieces)
           nothing == [cursor |-> 0, found |-> TRUE, starts |-> <<>>]
           step == [i \in 1 .. n |-> [x \in Search |-> FindNext(x, text, pieces[i])]]
           Holds(g) == g = [i \in 0 .. n |->
                              IF i = 0 THEN nothing ELSE FindNext(g[i - 1], text, pieces[i])]
<1>1. n \in Nat /\ \A i \in 1 .. n : pieces[i] \in Text
  OBVIOUS
<1>lengths. \A x \in Text : Len(x) \in Nat
  BY DEF Text
<1>2. nothing \in Search /\ nothing.starts = <<>>
  BY DEF Search
<1> HIDE DEF n, nothing
<1>3. step \in [1 .. n -> [Search -> Search]]
  BY <1>1, NextIsFound
<1>4. PICK f \in [0 .. n -> Search] : Follows(f, n, nothing, step)
  <2> HIDE DEF step
  <2> QED
    BY <1>1, <1>2, <1>3, Iterates
<1>5. \E g : Holds(g)
  <2>1. ASSUME NEW i \in 0 .. n
        PROVE  f[i] = IF i = 0 THEN nothing ELSE FindNext(f[i - 1], text, pieces[i])
    <3>1. CASE i = 0
      BY <1>4, <3>1 DEF Follows
    <3>2. CASE i # 0
      <4>1. i \in 1 .. n /\ i - 1 \in 0 .. n
        BY <1>1, <3>2
      <4>2. f[i] = step[i][f[i - 1]] /\ f[i - 1] \in Search
        BY <1>4, <4>1 DEF Follows
      <4>3. step[i][f[i - 1]] = FindNext(f[i - 1], text, pieces[i])
        BY <4>1, <4>2
      <4>4. QED
        BY <3>2, <4>2, <4>3
    <3>3. QED
      BY <3>1, <3>2
  <2>2. f = [i \in 0 .. n |-> f[i]]
    OBVIOUS
  <2>3. Holds(f)
    BY <2>1, <2>2
  <2>4. QED
    BY <2>3
<1>6. PICK search : Holds(search) /\ Aligned(text, pieces) = search[n]
  <2>1. Aligned(text, pieces) = (CHOOSE g : Holds(g))[n]
    BY DEF Aligned, n, nothing
  <2> HIDE DEF Holds
  <2>2. Holds(CHOOSE g : Holds(g))
    BY <1>5
  <2>3. QED
    BY <2>1, <2>2
<1> HIDE DEF step
<1>7. \A i \in 0 .. n : search[i] \in Search /\ AllFound(text, pieces, search[i], i)
  <2> DEFINE T == {i \in 0 .. n : search[i] \in Search /\ AllFound(text, pieces, search[i], i)}
  <2>1. 0 \in T
    <3>1. search[0] = nothing
      BY <1>1, <1>6
    <3>2. Len(nothing.starts) = 0
      BY <1>2
    <3>3. QED
      BY <1>1, <1>2, <3>1, <3>2 DEF AllFound
  <2>2. ASSUME NEW i \in 1 .. n, i - 1 \in T PROVE i \in T
    <3> DEFINE acc == search[i - 1]
               next == search[i]
    <3>1. acc \in Search /\ AllFound(text, pieces, acc, i - 1) /\ i \in 0 .. n /\ i # 0
      BY <1>1, <2>2
    <3>2. next = FindNext(acc, text, pieces[i])
      BY <1>6, <3>1
    <3> HIDE DEF acc, next
    <3>3. next \in Search /\ FindsNext(acc, next, text, pieces[i])
      BY <1>1, <3>1, <3>2, NextIsFound
    <3>4. ASSUME next.found
          PROVE  /\ Len(next.starts) = i
                 /\ \A k \in 1 .. i : /\ pieces[k] # <<>>
                                      /\ AtPlace(text, pieces[k], next.starts[k])
                                      /\ next.starts[k] + Len(pieces[k]) <= next.cursor
                 /\ \A j, k \in 1 .. i :
                      j < k => next.starts[j] + Len(pieces[j]) <= next.starts[k]
      <4>1. PICK p \in Nat : /\ AtPlace(text, pieces[i], p) /\ next.starts = Append(acc.starts, p)
                            /\ acc.cursor <= p /\ next.cursor = p + Len(pieces[i])
        BY <3>3, <3>4 DEF FindsNext
      <4>2. /\ acc.starts \in Seq(Nat) /\ Len(acc.starts) = i - 1 /\ acc.cursor \in Nat
            /\ \A k \in 1 .. i - 1 : /\ pieces[k] # <<>>
                                     /\ AtPlace(text, pieces[k], acc.starts[k])
                                     /\ acc.starts[k] + Len(pieces[k]) <= acc.cursor
            /\ \A j, k \in 1 .. i - 1 :
                 j < k => acc.starts[j] + Len(pieces[j]) <= acc.starts[k]
        BY <3>1, <3>3, <3>4 DEF FindsNext, AllFound, Search
      <4>6. pieces[i] # <<>>
        BY <3>3, <3>4 DEF FindsNext
      <4>3. /\ Len(next.starts) = i /\ next.starts[i] = p
            /\ \A k \in 1 .. i - 1 : next.starts[k] = acc.starts[k]
        BY <4>1, <4>2
      <4>7. ASSUME NEW k \in 1 .. i - 1
            PROVE  /\ next.starts[k] + Len(pieces[k]) <= p
                   /\ next.starts[k] + Len(pieces[k]) <= next.cursor
        <5>1. k \in 1 .. n
          BY <1>1
        <5>2. Len(pieces[k]) \in Nat /\ Len(pieces[i]) \in Nat
          BY <1>1, <1>lengths, <5>1
        <5>3. acc.starts[k] \in Nat
          <6> DEFINE starts == acc.starts
          <6>1. starts \in Seq(Nat) /\ k \in 1 .. Len(starts)
            BY <4>2
          <6> HIDE DEF starts
          <6>2. starts[k] \in Nat
            BY <6>1
          <6>3. QED
            BY <6>2 DEF starts
        <5> DEFINE before == acc.starts[k]
                   length == Len(pieces[k])
                   more == Len(pieces[i])
                   cursor == acc.cursor
        <5>4. /\ before + length <= cursor /\ next.starts[k] = before
              /\ before \in Nat /\ length \in Nat /\ more \in Nat
              /\ cursor \in Nat /\ cursor <= p
          BY <4>1, <4>2, <4>3, <5>2, <5>3
        <5> HIDE DEF before, length, more, cursor
        <5>7. before + length <= p /\ before + length <= p + more
          BY <5>4
        <5>5. before + length <= p /\ before + length <= p + Len(pieces[i])
          BY <5>7 DEF more
        <5>6. QED
          BY <4>1, <5>4, <5>5 DEF length
      <4>4. ASSUME NEW k \in 1 .. i
            PROVE  /\ pieces[k] # <<>> /\ AtPlace(text, pieces[k], next.starts[k])
                   /\ next.starts[k] + Len(pieces[k]) <= next.cursor
        <5>1. CASE k = i
          <6>1. Len(pieces[i]) \in Nat
            BY <1>1, <1>lengths
          <6>2. QED
            BY <4>1, <4>3, <4>6, <5>1, <6>1
        <5>2. CASE k # i
          <6>1. k \in 1 .. i - 1
            BY <5>2
          <6>2. QED
            BY <4>2, <4>3, <4>7, <6>1
        <5>3. QED
          BY <5>1, <5>2
      <4>8. ASSUME NEW j \in 1 .. i, NEW k \in 1 .. i, j < k
            PROVE  next.starts[j] + Len(pieces[j]) <= next.starts[k]
        <5>1. j \in 1 .. i - 1
          BY <4>8
        <5>2. CASE k = i
          BY <4>3, <4>7, <5>1, <5>2
        <5>3. CASE k # i
          <6>1. k \in 1 .. i - 1
            BY <5>3
          <6>2. QED
            BY <4>2, <4>3, <4>8, <5>1, <6>1
        <5>4. QED
          BY <5>2, <5>3
      <4>5. QED
        BY <4>3, <4>4, <4>8
    <3>5. QED
      BY <3>1, <3>3, <3>4 DEF AllFound, next
  <2> HIDE DEF T
  <2>3. \A i \in 0 .. n : i \in T
    BY <1>1, <2>1, <2>2, Reaches
  <2>4. QED
    BY <2>3 DEF T
<1>8. n \in 0 .. n
  BY <1>1
<1>9. QED
  BY <1>6, <1>7, <1>8 DEF n

(* A shifted range that marks a text is typed.                             *)
LEMMA MarkedRanges ==
  ASSUME NEW text \in Text, NEW of \in Text, NEW range, NEW chars, NEW bytes,
         Marks(text, Shift(range, chars, bytes), of)
  PROVE  Shift(range, chars, bytes) \in TextRange
<1> DEFINE r == Shift(range, chars, bytes)
<1>1. r = [sc |-> r.sc, ec |-> r.ec, sb |-> r.sb, eb |-> r.eb]
  BY DEF Shift
<1> HIDE DEF r
<1>2. /\ r.sc \in Nat /\ r.ec \in Nat /\ r.sb \in Nat /\ r.eb \in Nat
  BY MarksAreExact DEF r
<1>3. QED
  BY <1>1, <1>2 DEF r, TextRange

(* A place in a page, shifted by where the page begins in the document,    *)
(* marks the piece found there.                                            *)
LEMMA PlacesAreMarked ==
  ASSUME NEW t \in Text, NEW text \in Text, NEW page \in TextRange, Marks(t, page, text),
         NEW piece \in Text, NEW p, AtPlace(text, piece, p)
  PROVE  InPage(page, text, p, piece) \in TextRange /\ Marks(t, InPage(page, text, p, piece), piece)
<1> DEFINE q == p + Len(piece)
           own == [sc |-> p, ec |-> q,
                   sb |-> ByteLen(SubSeq(text, 1, p)), eb |-> ByteLen(SubSeq(text, 1, q))]
<1>1. /\ p \in Nat /\ Len(piece) \in Nat /\ Len(text) \in Nat /\ q \in Nat
      /\ p <= Len(text) /\ q <= Len(text)
      /\ Slice(text, p, q) = piece
  BY DEF AtPlace, Text
<1>2. Marks(text, own, piece)
  <2>1. /\ own.sc = p /\ own.ec = p + Len(piece)
        /\ own.sb = ByteLen(SubSeq(text, 1, p))
        /\ own.eb = ByteLen(SubSeq(text, 1, p + Len(piece)))
    OBVIOUS
  <2> HIDE DEF own
  <2>2. QED
    BY <1>1, <2>1, FoundIsMarked
<1>3. Marks(t, Shift(own, page.sc, page.sb), piece)
  <2> HIDE DEF own
  <2> QED
    BY <1>2, MarksNest
<1>4. Shift(own, page.sc, page.sb) \in TextRange
  <2> HIDE DEF own
  <2> QED
    BY <1>3, MarkedRanges
<1>5. InPage(page, text, p, piece) = Shift(own, page.sc, page.sb)
  <2> HIDE DEF q
  <2>1. SubSeq(text, 1, p) \in Text /\ SubSeq(text, 1, q) \in Text
    BY <1>1 DEF Text
  <2>2. ByteLen(SubSeq(text, 1, p)) \in Nat /\ ByteLen(SubSeq(text, 1, q)) \in Nat
    BY <2>1, BytesAddUp
  <2>3. page.sc \in Nat /\ page.sb \in Nat
    BY DEF TextRange
  <2>4. /\ p + page.sc = page.sc + p
        /\ q + page.sc = page.sc + p + Len(piece)
        /\ ByteLen(SubSeq(text, 1, p)) + page.sb = page.sb + ByteLen(SubSeq(text, 1, p))
        /\ ByteLen(SubSeq(text, 1, q)) + page.sb = page.sb + ByteLen(SubSeq(text, 1, q))
    BY <1>1, <2>2, <2>3 DEF q
  <2>5. InPage(page, text, p, piece) =
          [sc |-> page.sc + p, ec |-> page.sc + p + Len(piece),
           sb |-> page.sb + ByteLen(SubSeq(text, 1, p)),
           eb |-> page.sb + ByteLen(SubSeq(text, 1, q))]
    BY DEF InPage, q
  <2>6. QED
    BY <2>4, <2>5 DEF Shift
<1>6. QED
  BY <1>3, <1>4, <1>5

PagesAreMarked(acc, source, n) ==
  \E t \in Text :
    /\ acc.a \in ExactOn(t) /\ acc.pages \in Seq(TextRange) /\ Len(acc.pages) = n
    /\ \A k \in 1 .. n : Marks(t, acc.pages[k], source[k].text)

(* What a page of a PDF holds is made of texts.                            *)
LEMMA PagesAreTyped ==
  ASSUME NEW source \in PdfPages, NEW i \in 1 .. Len(source)
  PROVE  /\ i \in Nat /\ i - 1 \in Nat /\ source[i].text \in Text
         /\ source[i].words \in Seq(Text) /\ source[i].tables \in Seq(Seq(Seq(Text)))
         /\ \A k \in 1 .. Len(source) : source[k].text \in Text
<1> DEFINE W == Seq(Text)
           V == Seq(Seq(Seq(Text)))
           R == [text : Text, words : W, tables : V]
<1>1. source \in Seq(R)
  BY DEF PdfPages
<1> HIDE DEF R
<1>2. i \in Nat /\ i - 1 \in Nat /\ \A k \in 1 .. Len(source) : source[k] \in R
  BY <1>1
<1> HIDE DEF W, V
<1>3. \A x \in R : x.text \in Text /\ x.words \in W /\ x.tables \in V
  BY DEF R
<1>4. QED
  BY <1>2, <1>3 DEF W, V

(* _join_pages, one page: the pages before keep their marks and the new    *)
(* one is marked behind the separator, an empty page included.             *)
LEMMA PagesJoin ==
  ASSUME NEW acc, NEW source \in PdfPages, NEW i \in 1 .. Len(source),
         PagesAreMarked(acc, source, i - 1)
  PROVE  PagesAreMarked(JoinPage(acc, i, source[i].text), source, i)
<1> DEFINE text == source[i].text
           before == IF i = 1 THEN acc.a
                     ELSE AddSegment(acc.a, PageSeparator, <<"page-separator", i>>, "generated")
           after == IF text = <<>> THEN before
                    ELSE AddSegment(before, text, <<"page", i>>, "unmapped")
           range == Page(before.char, after.char, before.byte, after.byte)
           next == JoinPage(acc, i, text)
<1>1. /\ i \in Nat /\ i - 1 \in Nat /\ text \in Text
      /\ \A k \in 1 .. Len(source) : source[k].text \in Text
  BY PagesAreTyped
<1>2. PICK s \in Text :
        /\ acc.a \in ExactOn(s) /\ acc.pages \in Seq(TextRange) /\ Len(acc.pages) = i - 1
        /\ \A k \in 1 .. i - 1 : Marks(s, acc.pages[k], source[k].text)
  BY DEF PagesAreMarked
<1>3. /\ <<"page-separator", i>> \in SegmentId /\ <<"page", i>> \in SegmentId
      /\ "generated" \in SegmentKind /\ "unmapped" \in SegmentKind
  BY <1>1 DEF SegmentId, SegmentTag, SegmentKind
<1>4. PageSeparator \in Text
  <2>1. NewLine \in Letter
    BY DEF Letter, Blank
  <2>2. <<NewLine, NewLine>> \in Seq(Letter)
    BY <2>1
  <2>3. QED
    BY <2>2 DEF PageSeparator, Text
<1>5. PICK u \in Text : Extends(u, s) /\ before \in ExactOn(u)
  <2>1. CASE i = 1
    BY <1>2, <2>1, TextsExtendThemselves
  <2>2. CASE i # 1
    <3>1. before = AddSegment(acc.a, PageSeparator, <<"page-separator", i>>, "generated")
      BY <2>2
    <3> HIDE DEF before
    <3>2. Adds(acc.a, s, before, PageSeparator)
      BY <1>2, <1>3, <1>4, <3>1, SegmentsMark
    <3>3. QED
      BY <3>2 DEF Adds
  <2>3. QED
    BY <2>1, <2>2
<1> HIDE DEF before
<1>6. before.char = Len(u) /\ before.byte = ByteLen(u) /\ Len(u) \in Nat /\ ByteLen(u) \in Nat
  BY <1>5, TextsJoin, BytesAddUp DEF ExactOn
<1>7. PICK t \in Text : /\ Extends(t, u) /\ after \in ExactOn(t)
                        /\ range \in TextRange /\ Marks(t, range, text)
  <2>1. CASE text = <<>>
    <3>1. after = before
      BY <2>1
    <3>2. <<>> \in Text /\ u = Then(u, Then(<<>>, <<>>)) /\ Len(<<>>) = 0 /\ ByteLen(<<>>) = 0
      <4>1. <<>> \in Text /\ Then(<<>>, <<>>) = <<>> /\ u = Then(u, <<>>)
        BY DEF Text, Then
      <4>2. ByteLen(<<>>) = 0
        BY EmptyIsExact DEF Empty, ExactOn
      <4>3. QED
        BY <4>1, <4>2
    <3>3. /\ range.sc = Len(u) /\ range.ec = Len(u) + Len(<<>>)
          /\ range.sb = ByteLen(u) /\ range.eb = ByteLen(u) + ByteLen(<<>>)
          /\ range \in TextRange
      BY <1>6, <3>1, <3>2 DEF Page, TextRange
    <3> HIDE DEF range, after
    <3>4. Marks(u, range, <<>>)
      BY <3>2, <3>3 DEF Marks
    <3>5. QED
      BY <1>5, <2>1, <3>1, <3>3, <3>4, TextsExtendThemselves
  <2>2. CASE text # <<>>
    <3>1. after = AddSegment(before, text, <<"page", i>>, "unmapped")
      BY <2>2
    <3> HIDE DEF after
    <3>2. Adds(before, u, after, text)
      BY <1>1, <1>3, <1>5, <3>1, SegmentsMark
    <3>3. PICK t \in Text :
            /\ t = Then(u, text) /\ Extends(t, u) /\ after \in ExactOn(t)
            /\ Last(after.map).range \in TextRange
            /\ Last(after.map).range = [sc |-> before.char, ec |-> after.char,
                                        sb |-> before.byte, eb |-> after.byte]
            /\ Marks(t, Last(after.map).range, text)
      BY <3>2 DEF Adds
    <3>4. range = Last(after.map).range
      BY <3>3 DEF Page
    <3>5. QED
      BY <3>3, <3>4
  <2>3. QED
    BY <2>1, <2>2
<1>8. next = [a |-> after, pages |-> Append(acc.pages, range)]
  BY DEF JoinPage, before
<1> HIDE DEF after, range, next, text
<1>9. /\ Append(acc.pages, range) \in Seq(TextRange) /\ Len(Append(acc.pages, range)) = i
      /\ Append(acc.pages, range)[i] = range
      /\ \A k \in 1 .. i - 1 : Append(acc.pages, range)[k] = acc.pages[k]
  BY <1>1, <1>2, <1>7
<1>10. PICK more \in Text : t = s \o more
  <2>1. Extends(t, s)
    BY <1>5, <1>7, ExtensionsCompose
  <2>2. QED
    BY <2>1 DEF Extends, Then
<1>11. ASSUME NEW k \in 1 .. i
       PROVE  Marks(t, Append(acc.pages, range)[k], source[k].text)
  <2>1. CASE k = i
    BY <1>7, <1>9, <2>1 DEF text
  <2>2. CASE k # i
    <3>1. k \in 1 .. i - 1 /\ k \in 1 .. Len(source)
      BY <1>1, <2>2
    <3>2. Marks(s, acc.pages[k], source[k].text) /\ source[k].text \in Text
      BY <1>1, <1>2, <3>1
    <3>3. Marks(t, acc.pages[k], source[k].text)
      BY <1>10, <3>2, MarksStay
    <3>4. QED
      BY <1>9, <3>1, <3>3
  <2>3. QED
    BY <2>1, <2>2
<1>12. PagesAreMarked(next, source, i)
  BY <1>7, <1>8, <1>9, <1>11 DEF PagesAreMarked
<1>13. QED
  BY <1>12 DEF next, text

(* What the pages are joined to, one after the other.                      *)
PagesFollow(joined, source) ==
  /\ joined[0] = [a |-> Empty, pages |-> <<>>]
  /\ \A i \in 1 .. Len(source) : joined[i] = JoinPage(joined[i - 1], i, source[i].text)
  /\ \A i \in 0 .. Len(source) : PagesAreMarked(joined[i], source, i)

LEMMA PagesAreJoined ==
  ASSUME NEW source \in PdfPages
  PROVE  \E joined : PagesFollow(joined, source) /\ JoinedPages(source) = joined[Len(source)]
<1> DEFINE n == Len(source)
           nothing == [a |-> Empty, pages |-> <<>>]
           Holds(g) == g = [i \in 0 .. n |-> IF i = 0 THEN nothing
                                            ELSE JoinPage(g[i - 1], i, source[i].text)]
           Reach(m) == \E f : /\ f = [i \in 0 .. m |-> f[i]] /\ f[0] = nothing
                             /\ \A i \in 1 .. m : f[i] = JoinPage(f[i - 1], i, source[i].text)
<1>1. n \in Nat
  BY DEF PdfPages
<1> HIDE DEF n
<1>2. \A m \in 0 .. n : Reach(m)
  <2> DEFINE T == {m \in 0 .. n : Reach(m)}
  <2>1. 0 \in T
    <3> DEFINE f == [i \in 0 .. 0 |-> nothing]
    <3>1. f[0] = nothing /\ f = [i \in 0 .. 0 |-> f[i]]
      OBVIOUS
    <3> HIDE DEF f, nothing
    <3>2. Reach(0)
      BY <3>1
    <3> HIDE DEF Reach
    <3>3. QED
      BY <1>1, <3>2
  <2>2. ASSUME NEW m \in 1 .. n, m - 1 \in T PROVE m \in T
    <3>1. PICK f : /\ f = [i \in 0 .. m - 1 |-> f[i]] /\ f[0] = nothing
                   /\ \A i \in 1 .. m - 1 : f[i] = JoinPage(f[i - 1], i, source[i].text)
      BY <2>2
    <3> DEFINE g == [i \in 0 .. m |->
                       IF i = m THEN JoinPage(f[m - 1], m, source[m].text) ELSE f[i]]
    <3> HIDE DEF nothing
    <3>2. /\ g = [i \in 0 .. m |-> g[i]] /\ g[m] = JoinPage(f[m - 1], m, source[m].text)
          /\ \A i \in 0 .. m - 1 : g[i] = f[i]
      BY <1>1
    <3> HIDE DEF g
    <3>7. 0 \in 0 .. m - 1
      BY <1>1
    <3>3. g[0] = nothing
      BY <3>1, <3>2, <3>7
    <3>4. ASSUME NEW i \in 1 .. m PROVE g[i] = JoinPage(g[i - 1], i, source[i].text)
      <4>1. i - 1 \in 0 .. m - 1
        BY <1>1
      <4>2. CASE i = m
        BY <3>2, <4>1, <4>2
      <4>3. CASE i # m
        <5>1. i \in 1 .. m - 1
          BY <1>1, <4>3
        <5>2. i \in 0 .. m - 1
          BY <5>1
        <5>3. g[i] = f[i] /\ g[i - 1] = f[i - 1]
          BY <3>2, <4>1, <5>2
        <5>4. f[i] = JoinPage(f[i - 1], i, source[i].text)
          BY <3>1, <5>1
        <5>5. QED
          BY <5>3, <5>4
      <4>4. QED
        BY <4>2, <4>3
    <3>5. Reach(m)
      BY <3>2, <3>3, <3>4
    <3> HIDE DEF Reach
    <3>6. QED
      BY <1>1, <3>5
  <2> HIDE DEF T
  <2>3. \A m \in 0 .. n : m \in T
    BY <1>1, <2>1, <2>2, Reaches
  <2>4. QED
    BY <2>3 DEF T
<1>3. \E g : Holds(g)
  <2>1. n \in 0 .. n
    BY <1>1
  <2>2. PICK f : /\ f = [i \in 0 .. n |-> f[i]] /\ f[0] = nothing
                 /\ \A i \in 1 .. n : f[i] = JoinPage(f[i - 1], i, source[i].text)
    BY <1>2, <2>1
  <2> HIDE DEF nothing
  <2>3. ASSUME NEW i \in 0 .. n
        PROVE  f[i] = IF i = 0 THEN nothing ELSE JoinPage(f[i - 1], i, source[i].text)
    <3>1. i # 0 => i \in 1 .. n
      BY <1>1
    <3>2. QED
      BY <2>2, <3>1
  <2>4. Holds(f)
    BY <2>2, <2>3
  <2>5. QED
    BY <2>4
<1>4. PICK joined : Holds(joined) /\ JoinedPages(source) = joined[n]
  <2>1. JoinedPages(source) = (CHOOSE g : Holds(g))[n]
    BY DEF JoinedPages, n
  <2> HIDE DEF Holds
  <2>2. Holds(CHOOSE g : Holds(g))
    BY <1>3
  <2>3. QED
    BY <2>1, <2>2
<1>5. /\ joined[0] = nothing
      /\ \A i \in 1 .. n : joined[i] = JoinPage(joined[i - 1], i, source[i].text)
  <2>1. 0 \in 0 .. n /\ \A i \in 1 .. n : i \in 0 .. n /\ i # 0
    BY <1>1
  <2> HIDE DEF nothing
  <2>2. QED
    BY <1>4, <2>1
<1>6. \A i \in 0 .. n : PagesAreMarked(joined[i], source, i)
  <2> DEFINE T == {i \in 0 .. n : PagesAreMarked(joined[i], source, i)}
  <2>1. 0 \in T
    <3>1. PagesAreMarked(nothing, source, 0)
      BY EmptyIsExact DEF PagesAreMarked
    <3>2. QED
      BY <1>1, <1>5, <3>1
  <2>2. ASSUME NEW i \in 1 .. n, i - 1 \in T PROVE i \in T
    <3>1. PagesAreMarked(joined[i - 1], source, i - 1) /\ i \in 0 .. n
      BY <1>1, <2>2
    <3>2. i \in 1 .. Len(source)
      BY DEF n
    <3>3. PagesAreMarked(JoinPage(joined[i - 1], i, source[i].text), source, i)
      BY <3>1, <3>2, PagesJoin
    <3>4. QED
      BY <1>5, <3>1, <3>3
  <2> HIDE DEF T
  <2>3. \A i \in 0 .. n : i \in T
    BY <1>1, <2>1, <2>2, Reaches
  <2>4. QED
    BY <2>3 DEF T
<1>7. PagesFollow(joined, source)
  BY <1>5, <1>6 DEF n, PagesFollow
<1>8. QED
  BY <1>4, <1>7 DEF n

(* So every page's text is marked in the joined text.                      *)
LEMMA JoinedPagesAreMarked ==
  ASSUME NEW source \in PdfPages
  PROVE  PagesAreMarked(JoinedPages(source), source, Len(source))
<1>1. Len(source) \in 0 .. Len(source)
  BY DEF PdfPages
<1>2. QED
  BY <1>1, PagesAreJoined DEF PagesFollow

(* A PDF whose words and cells were all aligned is a document with exact   *)
(* ranges, for any pages.                                                  *)
LEMMA PdfIsExact ==
  ASSUME NEW source \in PdfPages, \A i \in DOMAIN source : PageIsAligned(source[i]),
         NEW d,
         LET joined == JoinedPages(source)
         IN  d = [text |-> joined.a.text, pages |-> joined.pages, map |-> joined.a.map,
                  layout |-> FlattenSeq([i \in DOMAIN source |->
                               WordSpans(source[i], i, joined.pages[i])]),
                  tables |-> FlattenSeq([i \in DOMAIN source |->
                               [k \in DOMAIN source[i].tables |->
                                  PdfTable(source[i], i, joined.pages[i], k)]])]
  PROVE  ExactDocument(d)
<1> DEFINE n == Len(source)
           joined == JoinedPages(source)
           spans == [i \in DOMAIN source |-> WordSpans(source[i], i, joined.pages[i])]
           tables == [i \in DOMAIN source |-> [k \in DOMAIN source[i].tables |->
                                                PdfTable(source[i], i, joined.pages[i], k)]]
<1>1. n \in Nat /\ DOMAIN source = 1 .. n
  BY DEF PdfPages
<1>2. PICK t \in Text :
        /\ joined.a \in ExactOn(t) /\ joined.pages \in Seq(TextRange) /\ Len(joined.pages) = n
        /\ \A k \in 1 .. n : Marks(t, joined.pages[k], source[k].text)
  BY JoinedPagesAreMarked DEF PagesAreMarked
<1>3. d.text = t /\ d.layout = FlattenSeq(spans) /\ d.tables = FlattenSeq(tables)
  BY <1>2 DEF ExactOn
<1> HIDE DEF joined
<1>4. ASSUME NEW i \in 1 .. n
      PROVE  /\ i \in Nat /\ source[i].text \in Text /\ source[i].words \in Seq(Text)
             /\ source[i].tables \in Seq(Seq(Seq(Text)))
             /\ joined.pages[i] \in TextRange /\ Marks(t, joined.pages[i], source[i].text)
             /\ PageIsAligned(source[i])
  BY <1>1, <1>2, PagesAreTyped
<1>aligned. \A i \in 1 .. n : PageIsAligned(source[i])
  BY <1>4
<1>grids. ASSUME NEW i \in 1 .. n, NEW k \in DOMAIN source[i].tables
          PROVE  source[i].tables[k] \in Seq(Seq(Text))
  <2> DEFINE G == Seq(Seq(Text))
             given == source[i].tables
  <2>1. given \in Seq(G) /\ k \in DOMAIN given
    BY <1>4
  <2> HIDE DEF G, given
  <2>2. given[k] \in G
    BY <2>1
  <2>3. QED
    BY <2>2 DEF G, given
<1> DEFINE M == {s \in [id : {<<"word", i, k>> : i \in Nat, k \in Nat}, page : Nat,
                        role : {"unknown"}, range : TextRange, of : Text] :
                   Marks(t, s.range, s.of)}
           W == UNION {{PdfTable(source[i], i, joined.pages[i], k) :
                          k \in DOMAIN source[i].tables} : i \in 1 .. n}
<1>5. ASSUME NEW i \in 1 .. n PROVE WordSpans(source[i], i, joined.pages[i]) \in Seq(M)
  <2> DEFINE text == source[i].text
             words == source[i].words
             starts == Aligned(text, words).starts
             range(k) == InPage(joined.pages[i], text, starts[k], words[k])
  <2>1. Len(words) \in Nat /\ DOMAIN words = 1 .. Len(words)
    BY <1>4
  <2>2. ASSUME NEW k \in 1 .. Len(words)
        PROVE  Span(<<"word", i, k>>, i, "unknown", range(k), words[k]) \in M
    <3>1. words[k] \in Text /\ k \in Nat
      BY <1>4
    <3>2. AtPlace(text, words[k], starts[k])
      BY <1>4, AlignedAreFound DEF AllFound, PageIsAligned
    <3> HIDE DEF text, words, starts
    <3>3. range(k) \in TextRange /\ Marks(t, range(k), words[k])
      BY <1>4, <3>1, <3>2, PlacesAreMarked DEF text
    <3> HIDE DEF range
    <3>4. QED
      BY <1>4, <3>1, <3>3 DEF Span
  <2>3. WordSpans(source[i], i, joined.pages[i]) =
          [k \in 1 .. Len(words) |-> Span(<<"word", i, k>>, i, "unknown", range(k), words[k])]
    BY <2>1 DEF WordSpans
  <2> HIDE DEF M, range, words
  <2>4. QED
    BY <2>1, <2>2, <2>3
<1>6. d.layout \in Seq(M)
  <2>1. spans \in [1 .. n -> Seq(M)]
    BY <1>1, <1>5
  <2> HIDE DEF spans, M
  <2>2. QED
    BY <1>1, <1>3, <2>1, FlatIsSequence
<1>7. ASSUME NEW i \in 1 .. n, NEW k \in DOMAIN source[i].tables
      PROVE  PdfTable(source[i], i, joined.pages[i], k).cells \in Seq(CellOn(t))
  <2> DEFINE text == source[i].text
             grid == source[i].tables[k]
             pieces == FlattenSeq(grid)
             starts == Aligned(text, pieces).starts
             range(c) == InPage(joined.pages[i], text, starts[c], pieces[c])
             made(c) == [row |-> 1, column |-> c, of |-> pieces[c], range |-> range(c)]
  <2>1. grid \in Seq(Seq(Text))
    BY <1>grids
  <2>2. pieces \in Seq(Text)
    <3>1. Len(grid) \in Nat /\ grid \in [1 .. Len(grid) -> Seq(Text)]
      BY <2>1
    <3> HIDE DEF grid
    <3>2. QED
      BY <3>1, FlatIsSequence
  <2>3. Aligned(text, pieces).found
    BY <1>aligned, Zenon DEF PageIsAligned
  <2>4. PdfTable(source[i], i, joined.pages[i], k).cells = [c \in DOMAIN pieces |-> made(c)]
    BY Zenon DEF PdfTable
  <2> HIDE DEF pieces, text, grid
  <2>5. Len(pieces) \in Nat /\ DOMAIN pieces = 1 .. Len(pieces)
    BY <2>2
  <2>6. ASSUME NEW c \in 1 .. Len(pieces) PROVE made(c) \in CellOn(t)
    <3>1. pieces[c] \in Text /\ c \in Nat /\ text \in Text
      BY <1>4, <2>2 DEF text
    <3>2. AtPlace(text, pieces[c], starts[c])
      BY <2>2, <2>3, <3>1, AlignedAreFound DEF AllFound
    <3> HIDE DEF starts
    <3>3. range(c) \in TextRange /\ Marks(t, range(c), pieces[c])
      BY <1>4, <3>1, <3>2, PlacesAreMarked DEF text
    <3> HIDE DEF range
    <3>4. QED
      BY <3>1, <3>3 DEF CellOn
  <2> HIDE DEF made
  <2>7. QED
    BY <2>4, <2>5, <2>6
<1>8. d.tables \in Seq(W)
  <2>1. ASSUME NEW i \in 1 .. n
        PROVE  [k \in DOMAIN source[i].tables |-> PdfTable(source[i], i, joined.pages[i], k)]
               \in Seq(W)
    <3>1. /\ Len(source[i].tables) \in Nat
          /\ DOMAIN source[i].tables = 1 .. Len(source[i].tables)
      BY <1>4
    <3>2. \A k \in DOMAIN source[i].tables : PdfTable(source[i], i, joined.pages[i], k) \in W
      OBVIOUS
    <3> HIDE DEF W
    <3>3. QED
      BY <3>1, <3>2
  <2>2. tables \in [1 .. n -> Seq(W)]
    BY <1>1, <2>1
  <2> HIDE DEF tables, W
  <2>3. QED
    BY <1>1, <1>3, <2>2, FlatIsSequence
<1>9. ASSUME NEW s \in ToSet(d.layout) PROVE s.of \in Text /\ Marks(t, s.range, s.of)
  <2>1. s \in M
    <3> HIDE DEF M
    <3> QED
      BY <1>6 DEF ToSet
  <2>2. QED
    BY <2>1
<1>10. ASSUME NEW table \in ToSet(d.tables), NEW c \in ToSet(table.cells)
       PROVE  c.of \in Text /\ Marks(t, c.range, c.of)
  <2>1. table \in W
    <3> HIDE DEF W
    <3> QED
      BY <1>8 DEF ToSet
  <2>2. table.cells \in Seq(CellOn(t))
    <3>1. PICK i \in 1 .. n : \E k \in DOMAIN source[i].tables :
                                table = PdfTable(source[i], i, joined.pages[i], k)
      BY <2>1
    <3>2. QED
      BY <1>7, <3>1
  <2>3. c \in CellOn(t)
    BY <2>2 DEF ToSet
  <2>4. QED
    BY <2>3 DEF CellOn
<1>11. ASSUME NEW i \in 1 .. n, NEW k \in DOMAIN source[i].tables
       PROVE  HasPlace(PdfTable(source[i], i, joined.pages[i], k))
  <2> DEFINE table == PdfTable(source[i], i, joined.pages[i], k)
             grids == table.cells
             X == CellOn(t)
             grid == source[i].tables[k]
             pieces == FlattenSeq(grid)
             made(c) == [row |-> 1, column |-> c, of |-> pieces[c],
                         range |-> InPage(joined.pages[i], source[i].text,
                                          Aligned(source[i].text, pieces).starts[c], pieces[c])]
  <2>1. grids = [c \in DOMAIN pieces |-> made(c)]
    BY Zenon DEF PdfTable
  <2>2. pieces # <<>>
    BY <1>aligned, Zenon DEF PageIsAligned
  <2>3. pieces \in Seq(Text)
    <3>1. grid \in Seq(Seq(Text))
      BY <1>grids
    <3>2. Len(grid) \in Nat /\ grid \in [1 .. Len(grid) -> Seq(Text)]
      BY <3>1
    <3> HIDE DEF grid
    <3>3. QED
      BY <3>2, FlatIsSequence
  <2>4. grids \in Seq(X)
    BY <1>7, Zenon
  <2>5. /\ table.range = Hull({grids[c].range : c \in DOMAIN grids})
        /\ table.id = <<"table", i, k>>
    BY Zenon DEF PdfTable
  <2> HIDE DEF pieces, made, table, grids, X
  <2>6. 1 \in DOMAIN pieces
    BY <2>2, <2>3
  <2>7. 1 \in DOMAIN grids
    BY <2>1, <2>6
  <2>8. \A c \in DOMAIN grids : grids[c] \in X
    BY <2>4
  <2> DEFINE ranges == {grids[c].range : c \in DOMAIN grids}
             firsts == {r.sc : r \in ranges}
             ends == {r.ec : r \in ranges}
  <2>9. table.range.sc \in Nat /\ table.range.ec \in Nat
    <3>1. \A r \in ranges : r.sc \in Nat /\ r.ec \in Nat /\ r.ec <= Len(t)
      BY <1>1, <2>8, MarksAreExact DEF X, CellOn
    <3>2. ranges # {}
      BY <2>7
    <3> HIDE DEF ranges
    <3>3. firsts \in SUBSET Nat /\ firsts # {}
      BY <3>1, <3>2
    <3>4. Min(firsts) \in Nat
      <4> HIDE DEF firsts
      <4>1. PICK x \in firsts : \A y \in firsts : x <= y
        BY <3>3, LeastElement
      <4>2. QED
        BY <3>3, <4>1, LeastIsMin
    <3>5. ends \in SUBSET Nat /\ ends # {} /\ \A x \in ends : x <= Len(t)
      BY <3>1, <3>2
    <3>6. Max(ends) \in Nat
      <4>1. Len(t) \in Nat
        BY <1>1 DEF Text
      <4> HIDE DEF ends
      <4>2. QED
        BY <3>5, <4>1, GreatestElement
    <3>7. table.range = Hull(ranges)
      BY <2>5 DEF ranges
    <3>8. table.range.sc = Min(firsts) /\ table.range.ec = Max(ends)
      BY <3>7 DEF Hull
    <3>9. QED
      BY <3>4, <3>6, <3>8
  <2>10. HasPlace(table)
    BY <2>5, <2>9 DEF HasPlace
  <2>11. QED
    BY <2>10 DEF table
<1>12. Shaped(d)
  <2>1. IsSequence(d.layout) /\ IsSequence(d.tables)
    <3> HIDE DEF M, W
    <3> QED
      BY <1>6, <1>8 DEF IsSequence
  <2>2. ASSUME NEW s \in ToSet(d.layout) PROVE HasPlace(s)
    <3>1. s \in M
      <4> HIDE DEF M
      <4> QED
        BY <1>6 DEF ToSet
    <3>2. /\ s \in [id : {<<"word", i, k>> : i \in Nat, k \in Nat}, page : Nat,
                    role : {"unknown"}, range : TextRange, of : Text]
      BY <3>1
    <3>3. s.range \in TextRange /\ s.id \in {<<"word", i, k>> : i \in Nat, k \in Nat}
      BY <3>2
    <3>4. s.id # <<>>
      <4>1. PICK i \in Nat, k \in Nat : s.id = <<"word", i, k>>
        BY <3>3
      <4>2. QED
        BY <4>1
    <3>5. QED
      BY <3>3, <3>4 DEF TextRange, HasPlace
  <2>3. ASSUME NEW s \in ToSet(d.tables) PROVE HasPlace(s)
    <3>1. s \in W
      <4> HIDE DEF W
      <4> QED
        BY <1>8 DEF ToSet
    <3>2. QED
      BY <1>11, <3>1
  <2>4. QED
    BY <2>1, <2>2, <2>3 DEF Shaped
<1>13. QED
  BY <1>3, <1>9, <1>10, <1>12 DEF ExactDocument, Ranged

(* Each step leads from one set of values to the next, and f takes them.   *)
Leads(n, T, x, step) ==
  x \in T[0] /\ \A i \in 1 .. n : \A y \in T[i - 1] : step[i][y] \in T[i]
Takes(f, n, T, x, step) ==
  /\ f = [i \in 0 .. n |-> f[i]] /\ f[0] = x
  /\ \A i \in 0 .. n : f[i] \in T[i]
  /\ \A i \in 1 .. n : f[i] = step[i][f[i - 1]]

(* A recursion whose every step leads from one set of values to the next   *)
(* is defined to its end.                                                  *)
LEMMA Recursion ==
  ASSUME NEW n \in Nat, NEW T, NEW x, NEW step, Leads(n, T, x, step)
  PROVE  \E f : Takes(f, n, T, x, step)
<1> USE DEF Leads, Takes
<1> DEFINE Holds(f, m) == /\ f = [i \in 0 .. m |-> f[i]] /\ f[0] = x
                          /\ \A i \in 0 .. m : f[i] \in T[i]
                          /\ \A i \in 1 .. m : f[i] = step[i][f[i - 1]]
           Defined == {m \in 0 .. n : \E f : Holds(f, m)}
<1>1. 0 \in Defined
  <2> DEFINE f == [i \in 0 .. 0 |-> x]
  <2>1. f = [i \in 0 .. 0 |-> f[i]] /\ f[0] = x
    OBVIOUS
  <2>2. 0 .. 0 = {0} /\ 1 .. 0 = {} /\ 0 \in 0 .. n
    OBVIOUS
  <2> HIDE DEF f
  <2>3. Holds(f, 0)
    BY <2>1, <2>2
  <2> HIDE DEF Holds
  <2>4. QED
    BY <2>2, <2>3
<1>2. ASSUME NEW m \in 1 .. n, m - 1 \in Defined PROVE m \in Defined
  <2>1. PICK f : Holds(f, m - 1)
    BY <1>2
  <2> DEFINE g == [i \in 0 .. m |-> IF i = m THEN step[m][f[m - 1]] ELSE f[i]]
  <2>2. /\ m \in 0 .. m /\ m \in Nat /\ m - 1 \in 0 .. m - 1 /\ 0 \in 0 .. m - 1
        /\ \A i \in 0 .. m - 1 : i \in 0 .. m /\ i # m
        /\ \A i \in 1 .. m : i - 1 \in 0 .. m - 1
    OBVIOUS
  <2>3. /\ g = [i \in 0 .. m |-> g[i]] /\ g[m] = step[m][f[m - 1]]
        /\ \A i \in 0 .. m - 1 : g[i] = f[i]
    BY <2>2
  <2> HIDE DEF g
  <2>4. f[m - 1] \in T[m - 1] /\ step[m][f[m - 1]] \in T[m]
    BY <2>1, <2>2
  <2>5. ASSUME NEW i \in 0 .. m PROVE g[i] \in T[i]
    <3>1. CASE i = m
      BY <2>3, <2>4, <3>1
    <3>2. CASE i # m
      <4>1. i \in 0 .. m - 1
        BY <3>2
      <4>2. QED
        BY <2>1, <2>3, <4>1
    <3>3. QED
      BY <3>1, <3>2
  <2>6. ASSUME NEW i \in 1 .. m PROVE g[i] = step[i][g[i - 1]]
    <3>1. CASE i = m
      BY <2>2, <2>3, <3>1
    <3>2. CASE i # m
      <4>1. i \in 1 .. m - 1 /\ i \in 0 .. m - 1 /\ i - 1 \in 0 .. m - 1
        BY <3>2
      <4>2. QED
        BY <2>1, <2>3, <4>1
    <3>3. QED
      BY <3>1, <3>2
  <2>7. g[0] = x
    BY <2>1, <2>2, <2>3
  <2>8. Holds(g, m)
    BY <2>3, <2>5, <2>6, <2>7
  <2>9. m \in 0 .. n
    OBVIOUS
  <2> HIDE DEF Holds
  <2>10. QED
    BY <2>8, <2>9
<1>3. n \in Defined
  <2> HIDE DEF Defined
  <2>1. \A i \in 0 .. n : i \in Defined
    BY <1>1, <1>2, Reaches
  <2>2. QED
    BY <2>1
<1>4. QED
  BY <1>3

-----------------------------------------------------------------------------
(* Positions in order                                                      *)

Ascending(s, S) ==
  /\ s \in Seq(S) /\ \A x \in S : \E i \in 1 .. Len(s) : s[i] = x
  /\ \A i, j \in 1 .. Len(s) : i < j => s[i] < s[j]

(* A function on 1 .. n is a sequence of length n.                         *)
LEMMA FunctionsAreSequences ==
  ASSUME NEW S, NEW n \in Nat, NEW f \in [1 .. n -> S]
  PROVE  f \in Seq(S) /\ Len(f) = n
OBVIOUS

(* InOrder lists a finite set of positions from the first to the last.     *)
LEMMA PositionsAreOrdered ==
  ASSUME NEW S \in SUBSET Nat, IsFiniteSet(S)
  PROVE  Ascending(InOrder(S), S)
<1> DEFINE n == Cardinality(S)
           upTo(p) == {q \in S : q <= p}
           rank == [p \in S |-> Cardinality(upTo(p))]
<1>1. n \in Nat
  BY FS_CardinalityType
<1>2. ASSUME NEW p \in S PROVE rank[p] \in 1 .. n
  <2>1. upTo(p) \in SUBSET S /\ p \in upTo(p)
    OBVIOUS
  <2> HIDE DEF upTo
  <2>2. IsFiniteSet(upTo(p)) /\ Cardinality(upTo(p)) <= n
    BY <2>1, FS_Subset
  <2>3. Cardinality(upTo(p)) \in Nat /\ Cardinality(upTo(p)) # 0
    BY <2>1, <2>2, FS_CardinalityType, FS_EmptySet
  <2>4. QED
    BY <1>1, <2>2, <2>3
<1>3. ASSUME NEW p \in S, NEW q \in S, p < q PROVE rank[p] < rank[q]
  <2>1. p \in Nat /\ q \in Nat /\ \A r \in S : r \in Nat
    OBVIOUS
  <2>5. upTo(p) \in SUBSET upTo(q) /\ q \in upTo(q) /\ q \notin upTo(p) /\ upTo(q) \in SUBSET S
    <3>1. \A r \in S : r <= p => r <= q
      BY <1>3, <2>1
    <3>2. ~ (q <= p) /\ q <= q
      BY <1>3, <2>1
    <3>3. QED
      BY <3>1, <3>2
  <2> HIDE DEF upTo
  <2>2. IsFiniteSet(upTo(q))
    BY <2>5, FS_Subset
  <2>3. /\ Cardinality(upTo(p)) <= Cardinality(upTo(q))
        /\ Cardinality(upTo(p)) # Cardinality(upTo(q))
    BY <2>2, <2>5, FS_Subset
  <2>4. rank[p] \in 1 .. n /\ rank[q] \in 1 .. n
    BY <1>2
  <2>6. QED
    BY <2>3, <2>4
<1>4. rank \in Injection(S, 1 .. n)
  <2>1. rank \in [S -> 1 .. n]
    BY <1>2
  <2>2. ASSUME NEW p \in S, NEW q \in S, rank[p] = rank[q] PROVE p = q
    <3>1. rank[p] \in 1 .. n /\ p \in Nat /\ q \in Nat
      BY <1>2
    <3> HIDE DEF rank
    <3>2. QED
      BY <1>3, <2>2, <3>1
  <2> HIDE DEF rank
  <2>3. QED
    BY <2>1, <2>2 DEF Injection, IsInjective
<1>5. rank \in Surjection(S, 1 .. n)
  <2>1. IsFiniteSet(1 .. n) /\ Cardinality(1 .. n) = n
    <3>1. 1 \in Int /\ n \in Int
      BY <1>1
    <3>2. QED
      BY <1>1, <3>1, FS_Interval
  <2> HIDE DEF rank
  <2>2. QED
    BY <1>4, <2>1, FS_Injection
<1>6. ASSUME NEW k \in 1 .. n
      PROVE  InOrder(S)[k] \in S /\ rank[InOrder(S)[k]] = k
  <2>1. \E p \in S : rank[p] = k
    <3> HIDE DEF rank
    <3> QED
      BY <1>5 DEF Surjection
  <2>2. \E p \in S : Cardinality(upTo(p)) = k
    BY <2>1
  <2>3. InOrder(S)[k] = CHOOSE p \in S : Cardinality(upTo(p)) = k
    BY DEF InOrder
  <2> HIDE DEF upTo
  <2>4. InOrder(S)[k] \in S /\ Cardinality(upTo(InOrder(S)[k])) = k
    BY <2>2, <2>3
  <2>5. QED
    BY <2>4
<1>7. InOrder(S) \in Seq(S) /\ Len(InOrder(S)) = n
  <2>1. InOrder(S) = [k \in 1 .. n |-> InOrder(S)[k]]
    BY DEF InOrder
  <2>2. InOrder(S) \in [1 .. n -> S]
    BY <1>6, <2>1
  <2>3. QED
    BY <1>1, <2>2, FunctionsAreSequences
<1> HIDE DEF rank
<1>8. ASSUME NEW p \in S PROVE \E i \in 1 .. n : InOrder(S)[i] = p
  <2>1. rank[p] \in 1 .. n
    BY <1>2
  <2>2. InOrder(S)[rank[p]] \in S /\ rank[InOrder(S)[rank[p]]] = rank[p]
    BY <1>6, <2>1
  <2>3. InOrder(S)[rank[p]] = p
    BY <1>4, <2>2 DEF Injection, IsInjective
  <2>4. QED
    BY <2>1, <2>3
<1>9. ASSUME NEW i \in 1 .. n, NEW j \in 1 .. n, i < j
      PROVE  InOrder(S)[i] < InOrder(S)[j]
  <2>1. /\ InOrder(S)[i] \in S /\ rank[InOrder(S)[i]] = i
        /\ InOrder(S)[j] \in S /\ rank[InOrder(S)[j]] = j
    BY <1>6
  <2>2. ASSUME NEW p \in S, NEW q \in S, rank[p] < rank[q] PROVE p < q
    <3>1. p \in Nat /\ q \in Nat /\ rank[p] \in 1 .. n /\ rank[q] \in 1 .. n
      BY <1>2
    <3>2. CASE q < p
      <4>1. rank[q] < rank[p]
        BY <1>3, <3>2
      <4>2. QED
        BY <2>2, <3>1, <4>1
    <3>3. CASE p = q
      BY <2>2, <3>1, <3>3
    <3>4. QED
      BY <3>1, <3>2, <3>3
  <2>3. QED
    BY <1>9, <2>1, <2>2
<1>10. QED
  BY <1>7, <1>8, <1>9 DEF Ascending

-----------------------------------------------------------------------------
(* Ranges that follow each other                                           *)

(* None of the ranges of f is empty, each begins where the one before it   *)
(* ends, the first at p, and the last ends at q.                           *)
Abut(f, p, q) ==
  /\ \A i \in 1 .. Len(f) : /\ f[i].start \in Nat /\ f[i].end \in Nat
                            /\ f[i].start < f[i].end
  /\ f = <<>> => p = q
  /\ f # <<>> => f[1].start = p /\ f[Len(f)].end = q
  /\ \A i \in 2 .. Len(f) : f[i].start = f[i - 1].end

(* Ranges up to q and ranges from q on are ranges in a row.                *)
LEMMA RowsOfRangesJoin ==
  ASSUME NEW S, NEW s \in Seq(S), NEW t \in Seq(S), NEW p, NEW q, NEW r,
         Abut(s, p, q), Abut(t, q, r)
  PROVE  Abut(s \o t, p, r)
<1> DEFINE m == Len(s)
           n == Len(t)
           u == s \o t
<1>1. /\ m \in Nat /\ n \in Nat /\ Len(u) = m + n
      /\ \A i \in 1 .. m : u[i] = s[i]
      /\ \A i \in m + 1 .. m + n : u[i] = t[i - m]
  OBVIOUS
<1>2. (s = <<>> <=> m = 0) /\ (t = <<>> <=> n = 0) /\ (u = <<>> <=> m + n = 0)
  BY <1>1
<1> HIDE DEF u, m, n
<1>3. ASSUME NEW i \in 1 .. Len(u)
      PROVE  u[i].start \in Nat /\ u[i].end \in Nat /\ u[i].start < u[i].end
  <2>1. CASE i <= m
    BY <1>1, <2>1 DEF Abut, m
  <2>2. CASE i > m
    <3>1. i \in m + 1 .. m + n /\ i - m \in 1 .. n
      BY <1>1, <2>2
    <3>2. QED
      BY <1>1, <3>1 DEF Abut, n
  <2>3. QED
    BY <1>1, <2>1, <2>2
<1>4. u = <<>> => p = r
  BY <1>1, <1>2 DEF Abut
<1>5. ASSUME u # <<>> PROVE u[1].start = p /\ u[Len(u)].end = r
  <2>1. CASE m = 0
    <3>1. s = <<>> /\ t # <<>> /\ 1 \in m + 1 .. m + n /\ n \in m + 1 .. m + n
      BY <1>1, <1>2, <1>5, <2>1
    <3>2. u[1] = t[1] /\ u[Len(u)] = t[n]
      BY <1>1, <2>1, <3>1
    <3>3. QED
      BY <3>1, <3>2 DEF Abut, n
  <2>2. CASE m # 0 /\ n = 0
    <3>1. s # <<>> /\ t = <<>> /\ 1 \in 1 .. m /\ m \in 1 .. m
      BY <1>1, <1>2, <2>2
    <3>2. u[1] = s[1] /\ u[Len(u)] = s[m]
      BY <1>1, <2>2, <3>1
    <3>3. QED
      BY <3>1, <3>2 DEF Abut, m
  <2>3. CASE m # 0 /\ n # 0
    <3>1. s # <<>> /\ t # <<>> /\ 1 \in 1 .. m /\ m + n \in m + 1 .. m + n
      BY <1>1, <1>2, <2>3
    <3>2. u[1] = s[1] /\ u[Len(u)] = t[n]
      BY <1>1, <3>1
    <3>3. QED
      BY <3>1, <3>2 DEF Abut, n
  <2>4. QED
    BY <2>1, <2>2, <2>3
<1>6. ASSUME NEW i \in 2 .. Len(u) PROVE u[i].start = u[i - 1].end
  <2>1. CASE i <= m
    <3>1. i \in 2 .. m /\ i \in 1 .. m /\ i - 1 \in 1 .. m
      BY <1>1, <2>1
    <3>2. QED
      BY <1>1, <3>1 DEF Abut, m
  <2>2. CASE i = m + 1
    <3>1. m \in 1 .. m /\ i \in m + 1 .. m + n /\ s # <<>> /\ t # <<>>
      BY <1>1, <1>2, <2>2
    <3>2. u[i] = t[1] /\ u[i - 1] = s[m]
      BY <1>1, <2>2, <3>1
    <3>3. QED
      BY <3>1, <3>2 DEF Abut, m
  <2>3. CASE i > m + 1
    <3>1. /\ i \in m + 1 .. m + n /\ i - 1 \in m + 1 .. m + n /\ i - m \in 2 .. n
          /\ (i - 1) - m = (i - m) - 1
      BY <1>1, <2>3
    <3>2. u[i] = t[i - m] /\ u[i - 1] = t[(i - m) - 1]
      BY <1>1, <3>1
    <3>3. QED
      BY <3>1, <3>2 DEF Abut, n
  <2>4. QED
    BY <1>1, <2>1, <2>2, <2>3
<1>7. Abut(u, p, r)
  BY <1>3, <1>4, <1>5, <1>6 DEF Abut
<1>8. QED
  BY <1>7 DEF u

(* One range alone abuts on its own ends.                                  *)
LEMMA OneRangeAbuts ==
  ASSUME NEW x, x.start \in Nat, x.end \in Nat, x.start < x.end
  PROVE  Abut(<<x>>, x.start, x.end)
BY DEF Abut

(* A range in a row lies before every later one, and between p and q.      *)
LEMMA RowsOfRangesAscend ==
  ASSUME NEW S, NEW f \in Seq(S), NEW p, NEW q, Abut(f, p, q), NEW j \in 1 .. Len(f)
  PROVE  /\ \A i \in 1 .. j - 1 : f[i].end <= f[j].start /\ f[i].start < f[j].start
         /\ p <= f[j].start /\ f[j].end <= q
<1> DEFINE n == Len(f)
<1>1. n \in Nat /\ j \in Nat
  OBVIOUS
<1>2. \A i \in 1 .. n : /\ f[i].start \in Nat /\ f[i].end \in Nat /\ f[i].start < f[i].end
  BY DEF Abut
<1>3. \A i \in 2 .. n : f[i].start = f[i - 1].end
  BY DEF Abut
<1>4. f # <<>> /\ f[1].start = p /\ f[n].end = q
  <2>1. f # <<>>
    BY <1>1
  <2>2. QED
    BY <2>1 DEF Abut
<1> HIDE DEF n
<1>5. ASSUME NEW i \in 1 .. n
      PROVE  \A k \in 0 .. n - i : f[i].start <= f[i + k].start
                                   /\ (k > 0 => f[i].end <= f[i + k].start)
  <2> DEFINE T == {k \in 0 .. n - i : f[i].start <= f[i + k].start
                                     /\ (k > 0 => f[i].end <= f[i + k].start)}
  <2>1. n - i \in Nat
    BY <1>1
  <2>2. 0 \in T
    BY <1>2, <2>1
  <2>3. ASSUME NEW k \in 1 .. n - i, k - 1 \in T PROVE k \in T
    <3>1. i + k \in 2 .. n /\ i + (k - 1) \in 1 .. n /\ (i + k) - 1 = i + (k - 1) /\ i + k \in 1 .. n
      BY <1>1
    <3>2. f[i + k].start = f[i + (k - 1)].end
      BY <1>3, <3>1
    <3>3. /\ f[i].start \in Nat /\ f[i].end \in Nat /\ f[i].start < f[i].end
          /\ f[i + k].start \in Nat
          /\ f[i + (k - 1)].start \in Nat /\ f[i + (k - 1)].end \in Nat
          /\ f[i + (k - 1)].start < f[i + (k - 1)].end
      BY <1>2, <3>1
    <3>4. CASE k = 1
      <4>1. i + (k - 1) = i
        BY <1>1, <3>4
      <4>2. QED
        BY <3>2, <3>3, <4>1
    <3>5. CASE k # 1
      <4>1. f[i].end <= f[i + (k - 1)].start
        BY <2>3, <3>5
      <4>2. QED
        BY <3>2, <3>3, <4>1, SMTT(30)
    <3>6. QED
      BY <3>4, <3>5
  <2> HIDE DEF T
  <2>4. \A k \in 0 .. n - i : k \in T
    BY <2>1, <2>2, <2>3, Reaches
  <2>5. QED
    BY <2>4 DEF T
<1>6. ASSUME NEW i \in 1 .. j - 1 PROVE f[i].end <= f[j].start /\ f[i].start < f[j].start
  <2>1. i \in 1 .. n /\ j - i \in 0 .. n - i /\ j - i > 0 /\ i + (j - i) = j /\ j \in 1 .. n
    BY <1>1 DEF n
  <2>2. f[i].end <= f[j].start
    BY <1>5, <2>1
  <2>3. QED
    BY <1>2, <2>1, <2>2
<1>7. p <= f[j].start
  <2>1. 1 \in 1 .. n /\ j - 1 \in 0 .. n - 1 /\ 1 + (j - 1) = j
    BY <1>1 DEF n
  <2>2. QED
    BY <1>4, <1>5, <2>1
<1>8. f[j].end <= q
  <2>1. CASE j = n
    <3>1. f[n].end \in Nat
      BY <1>1, <1>2, <2>1 DEF n
    <3>2. QED
      BY <1>4, <2>1, <3>1
  <2>2. CASE j # n
    <3>1. j \in 1 .. n /\ n \in 1 .. n /\ n - j \in 0 .. n - j /\ n - j > 0 /\ j + (n - j) = n
      BY <1>1, <2>2 DEF n
    <3>2. f[j].end <= f[n].start
      BY <1>5, <3>1
    <3>3. /\ f[j].end \in Nat /\ f[n].start \in Nat /\ f[n].end \in Nat
          /\ f[n].start < f[n].end
      BY <1>2, <3>1
    <3>4. f[n].end = q
      BY <1>4
    <3>5. QED
      BY <3>2, <3>3, <3>4
  <2>3. QED
    BY <2>1, <2>2
<1>9. QED
  BY <1>6, <1>7, <1>8

-----------------------------------------------------------------------------
(* The blocks of a document                                                *)

BlockKind == {"section", "paragraph", "list_item", "table", "mixed"}
BlockOn(I) == [start : Nat, end : Nat, kind : BlockKind, id : I]

(* The layout and the tables of a document, as far as the packing reads    *)
(* them: I holds the ids, and <<>> stands for none.                        *)
LaidOut(d, I) ==
  /\ d.text \in Text /\ d.text # <<>> /\ <<>> \in I
  /\ IsFiniteSet(Blocks(d)) /\ Blocks(d) \subseteq BlockOn(I)
  /\ \A b \in Blocks(d) : /\ b.kind # "mixed" /\ b.id # <<>>
                          /\ b.start < b.end /\ b.end <= Len(d.text)
  /\ \A a, b \in Blocks(d) :
       a.kind # "table" /\ b.kind # "table" /\ a.id = b.id => a = b
  /\ \A b \in Blocks(d), t \in ToSet(d.tables) :
       b.kind = "table" /\ b.id = t.id => b.start = t.range.sc /\ b.end = t.range.ec

(* Blocks that do not overlap, sorted, lie one behind the other.           *)
LEMMA BlocksAreSorted ==
  ASSUME NEW d, NEW I, LaidOut(d, I), ~BlocksOverlap(Blocks(d))
  PROVE  LET s == Sorted(Blocks(d))
         IN  /\ s \in Seq(Blocks(d))
             /\ \A b \in Blocks(d) : \E i \in 1 .. Len(s) : s[i] = b
             /\ \A i, j \in 1 .. Len(s) : i < j => s[i].end <= s[j].start
<1> DEFINE B == Blocks(d)
           P == {b.start : b \in B}
           starts == InOrder(P)
           n == Len(starts)
           s == Sorted(B)
<1>1. \A b \in B : b.start \in Nat /\ b.end \in Nat /\ b.start < b.end
  BY DEF LaidOut, BlockOn
<1>2. IsFiniteSet(B)
  BY DEF LaidOut
<1>3. ~BlocksOverlap(B)
  OBVIOUS
<1> HIDE DEF B
<1>4. P \in SUBSET Nat /\ IsFiniteSet(P)
  <2>1. P \in SUBSET Nat
    BY <1>1
  <2>2. IsFiniteSet(P)
    <3> DEFINE f == [b \in B |-> b.start]
    <3>1. f \in Surjection(B, P)
      BY DEF Surjection
    <3> HIDE DEF P, f
    <3>2. QED
      BY <1>2, <3>1, FS_Surjection
  <2>3. QED
    BY <2>1, <2>2
<1>5. Ascending(starts, P)
  <2> HIDE DEF P
  <2> QED
    BY <1>4, PositionsAreOrdered
<1>6. n \in Nat /\ DOMAIN starts = 1 .. n /\ \A i \in 1 .. n : starts[i] \in P
  <2>1. starts \in Seq(P)
    BY <1>5 DEF Ascending
  <2> HIDE DEF starts, P
  <2>2. QED
    BY <2>1
<1>7. ASSUME NEW k \in 1 .. n PROVE s[k] \in B /\ s[k].start = starts[k]
  <2>1. \E b \in B : b.start = starts[k]
    BY <1>6
  <2>2. s[k] = CHOOSE b \in B : b.start = starts[k]
    BY <1>6 DEF Sorted
  <2>3. QED
    BY <2>1, <2>2
<1>8. s \in Seq(B) /\ Len(s) = n
  <2>1. s = [k \in 1 .. n |-> s[k]]
    <3>1. DOMAIN InOrder(P) = 1 .. n
      BY <1>6
    <3> DEFINE pick(k) == CHOOSE b \in B : b.start = InOrder(P)[k]
    <3>2. s = [k \in DOMAIN InOrder(P) |-> pick(k)]
      BY DEF Sorted
    <3> HIDE DEF n, s, pick, P
    <3>3. s = [k \in 1 .. n |-> pick(k)]
      BY <3>1, <3>2
    <3>4. QED
      BY <3>3
  <2>2. s \in [1 .. n -> B]
    BY <1>7, <2>1
  <2>3. QED
    BY <1>6, <2>2, FunctionsAreSequences
<1> HIDE DEF s
<1>9. ASSUME NEW b \in B, NEW c \in B, b.start = c.start PROVE b = c
  BY <1>1, <1>3, <1>9 DEF BlocksOverlap
<1>10. ASSUME NEW b \in B PROVE \E i \in 1 .. n : s[i] = b
  <2>1. b.start \in P
    OBVIOUS
  <2> HIDE DEF P
  <2>2. PICK i \in 1 .. n : starts[i] = b.start
    BY <1>5, <2>1 DEF Ascending
  <2>3. s[i] = b
    BY <1>7, <1>9, <2>2
  <2>4. QED
    BY <2>3
<1>11. ASSUME NEW i \in 1 .. n, NEW j \in 1 .. n, i < j PROVE s[i].end <= s[j].start
  <2>1. s[i] \in B /\ s[j] \in B /\ s[i].start = starts[i] /\ s[j].start = starts[j]
    BY <1>7
  <2>2. starts[i] < starts[j]
    <3> HIDE DEF P
    <3> QED
      BY <1>5, <1>11 DEF Ascending
  <2>3. s[i].start < s[j].start
    BY <2>1, <2>2
  <2>4. s[i] # s[j] /\ s[i].start <= s[j].start
    BY <1>1, <2>1, <2>3
  <2>5. ~ (s[j].start < s[i].end)
    BY <1>3, <2>1, <2>4 DEF BlocksOverlap
  <2>6. QED
    BY <1>1, <2>1, <2>5
<1>12. QED
  BY <1>8, <1>10, <1>11 DEF B, s

-----------------------------------------------------------------------------
(* The gaps between the blocks                                             *)

(* A block of the text as _with_gap_blocks may leave it: with the blanks   *)
(* behind it.                                                              *)
Stretches(d, b, f) ==
  /\ f.start = b.start /\ f.kind = b.kind /\ f.id = b.id /\ b.end <= f.end
  /\ ToSet(Slice(d.text, b.end, f.end)) \subseteq Blank

(* f holds the blocks of bs and blocks of text that is in none of them, no *)
(* two of these in a row.                                                  *)
Fills(d, I, f, bs) ==
  /\ f \in Seq(BlockOn(I))
  /\ \A b \in bs : \E i \in 1 .. Len(f) : Stretches(d, b, f[i])
  /\ \A i \in 1 .. Len(f) : \/ f[i].kind = "mixed" /\ f[i].id = <<>>
                            \/ \E b \in bs : Stretches(d, b, f[i])
  /\ \A i \in 2 .. Len(f) : f[i].kind # "mixed" \/ f[i - 1].kind # "mixed"

(* A slice of a text: its letters, and none when it ends where it starts.  *)
LEMMA SlicesHold ==
  ASSUME NEW text \in Text, NEW p \in Nat, NEW q \in Nat, q <= Len(text)
  PROVE  /\ Slice(text, p, q) = <<>> <=> q <= p
         /\ p <= q => Len(Slice(text, p, q)) = q - p
         /\ \A i \in 1 .. q - p : Slice(text, p, q)[i] = text[p + i]
         /\ ToSet(Slice(text, p, q)) = {text[i] : i \in p + 1 .. q}
<1>1. Len(text) \in Nat /\ text \in Seq(Letter)
  BY DEF Text
<1> DEFINE s == Slice(text, p, q)
<1>2. s = [i \in 1 .. (IF p <= q THEN q - p ELSE 0) |-> text[p + i]]
  BY <1>1 DEF Slice
<1>3. /\ p <= q => Len(s) = q - p /\ DOMAIN s = 1 .. q - p
      /\ q <= p => s = <<>> /\ DOMAIN s = {}
      /\ q > p => s # <<>>
      /\ \A i \in 1 .. q - p : s[i] = text[p + i]
  <2>1. s \in Seq(Letter)
    BY <1>1 DEF Slice
  <2>2. QED
    BY <1>1, <1>2, <2>1
<1> HIDE DEF s
<1>4. ToSet(s) = {text[i] : i \in p + 1 .. q}
  <2>1. DOMAIN s = 1 .. q - p
    BY <1>3
  <2>2. ASSUME NEW i \in 1 .. q - p PROVE s[i] \in {text[k] : k \in p + 1 .. q}
    <3>1. p + i \in p + 1 .. q
      OBVIOUS
    <3>2. QED
      BY <1>3, <3>1
  <2>3. ASSUME NEW k \in p + 1 .. q PROVE text[k] \in ToSet(s)
    <3>1. k - p \in 1 .. q - p /\ p + (k - p) = k
      OBVIOUS
    <3>2. s[k - p] = text[k]
      BY <1>3, <3>1
    <3>3. QED
      BY <2>1, <3>1, <3>2 DEF ToSet
  <2>4. QED
    BY <2>1, <2>2, <2>3 DEF ToSet
<1>5. QED
  BY <1>3, <1>4 DEF s

(* One more block behind blocks in a row.                                  *)
LEMMA OneMoreFills ==
  ASSUME NEW d, NEW I, NEW f, NEW bs, NEW c, NEW more, Fills(d, I, f, bs), Abut(f, 0, c),
         NEW b \in BlockOn(I), b.start = c, b.start < b.end,
         b.kind = "mixed" => b.id = <<>> /\ (f # <<>> => f[Len(f)].kind # "mixed"),
         b.kind # "mixed" => ToSet(Slice(d.text, b.end, b.end)) \subseteq Blank,
         more = IF b.kind = "mixed" THEN bs ELSE bs \cup {b}
  PROVE  Fills(d, I, Append(f, b), more) /\ Abut(Append(f, b), 0, b.end)
<1> DEFINE g == Append(f, b)
           m == Len(f)
<1>1. /\ f \in Seq(BlockOn(I)) /\ m \in Nat /\ g \in Seq(BlockOn(I)) /\ Len(g) = m + 1
      /\ g[m + 1] = b /\ \A i \in 1 .. m : g[i] = f[i]
  <2> HIDE DEF m
  <2>1. f \in Seq(BlockOn(I))
    BY DEF Fills
  <2>2. QED
    BY <2>1 DEF m
<1>2. b.start \in Nat /\ b.end \in Nat
  BY DEF BlockOn
<1>3. Abut(g, 0, b.end)
  <2>1. <<b>> \in Seq(BlockOn(I)) /\ g = f \o <<b>>
    BY <1>1
  <2>2. Abut(<<b>>, b.start, b.end)
    BY <1>2, OneRangeAbuts
  <2> HIDE DEF g
  <2>3. QED
    BY <1>1, <2>1, <2>2, RowsOfRangesJoin
<1> HIDE DEF g
<1>4. b.kind # "mixed" => Stretches(d, b, b)
  BY <1>2 DEF Stretches
<1>5. ASSUME NEW x \in more PROVE \E i \in 1 .. Len(g) : Stretches(d, x, g[i])
  <2>1. CASE x \in bs
    <3>1. PICK i \in 1 .. m : Stretches(d, x, f[i])
      BY <2>1 DEF Fills, m
    <3>2. i \in 1 .. Len(g) /\ g[i] = f[i]
      BY <1>1, <3>1
    <3>3. QED
      BY <3>1, <3>2
  <2>2. CASE x \notin bs
    <3>1. x = b /\ b.kind # "mixed" /\ m + 1 \in 1 .. Len(g)
      BY <1>1, <2>2
    <3>2. QED
      BY <1>1, <1>4, <3>1
  <2>3. QED
    BY <2>1, <2>2
<1>6. ASSUME NEW i \in 1 .. Len(g)
      PROVE  \/ g[i].kind = "mixed" /\ g[i].id = <<>>
             \/ \E x \in more : Stretches(d, x, g[i])
  <2>1. CASE i \in 1 .. m
    <3>1. g[i] = f[i] /\ bs \subseteq more
      BY <1>1, <2>1
    <3>2. \/ f[i].kind = "mixed" /\ f[i].id = <<>>
          \/ \E x \in bs : Stretches(d, x, f[i])
      BY <2>1 DEF Fills, m
    <3>3. QED
      BY <3>1, <3>2
  <2>2. CASE i = m + 1
    BY <1>1, <1>4, <2>2
  <2>3. QED
    BY <1>1, <2>1, <2>2
<1>7. ASSUME NEW i \in 2 .. Len(g) PROVE g[i].kind # "mixed" \/ g[i - 1].kind # "mixed"
  <2>1. CASE i \in 2 .. m
    <3>1. i \in 1 .. m /\ i - 1 \in 1 .. m
      BY <1>1, <2>1
    <3>2. QED
      BY <1>1, <2>1, <3>1 DEF Fills, m
  <2>2. CASE i = m + 1
    <3>1. m \in 1 .. m /\ f # <<>> /\ i - 1 = m
      BY <1>1, <2>2
    <3>2. QED
      BY <1>1, <2>2, <3>1 DEF m
  <2>3. QED
    BY <1>1, <2>1, <2>2
<1>8. Fills(d, I, g, more)
  BY <1>1, <1>5, <1>6, <1>7 DEF Fills
<1>9. QED
  BY <1>3, <1>8 DEF g

(* _with_gap_blocks, one gap: what is blank goes to the block before, what *)
(* is not, or has none before it, becomes a block of its own.              *)
LEMMA GapsAreFilled ==
  ASSUME NEW d, NEW I, <<>> \in I, d.text \in Text,
         NEW f, NEW bs \in SUBSET BlockOn(I), NEW c \in Nat, NEW e \in Nat,
         c <= e, e <= Len(d.text), Fills(d, I, f, bs), Abut(f, 0, c),
         f # <<>> => f[Len(f)].kind # "mixed"
  PROVE  Fills(d, I, FillGap(d, f, c, e), bs) /\ Abut(FillGap(d, f, c, e), 0, e)
<1> DEFINE gap == Slice(d.text, c, e)
           m == Len(f)
           g == FillGap(d, f, c, e)
<1>1. /\ gap = <<>> <=> e <= c
      /\ ToSet(gap) = {d.text[i] : i \in c + 1 .. e}
  BY SlicesHold
<1>2. f \in Seq(BlockOn(I)) /\ m \in Nat
  BY DEF Fills
<1> HIDE DEF gap
<1>3. CASE gap = <<>>
  <2>1. c = e /\ g = f
    BY <1>1, <1>3 DEF FillGap, gap
  <2>2. QED
    BY <2>1
<1>4. CASE gap # <<>> /\ ~ (f # <<>> /\ ToSet(gap) \subseteq Blank)
  <2> DEFINE b == Mixed(c, e)
  <2>1. g = Append(f, b)
    BY <1>4 DEF FillGap, gap
  <2>2. /\ b \in BlockOn(I) /\ b.start = c /\ b.end = e /\ b.start < b.end
        /\ b.kind = "mixed" /\ b.id = <<>>
    BY <1>1, <1>4 DEF Mixed, Block, BlockOn, BlockKind
  <2> HIDE DEF b, g
  <2>3. Fills(d, I, Append(f, b), bs) /\ Abut(Append(f, b), 0, b.end)
    BY <2>2, OneMoreFills
  <2>4. QED
    BY <2>1, <2>2, <2>3 DEF g
<1>5. CASE gap # <<>> /\ f # <<>> /\ ToSet(gap) \subseteq Blank
  <2>1. g = [f EXCEPT ![m].end = e]
    BY <1>5 DEF FillGap, gap
  <2>2. m \in 1 .. m /\ m >= 1 /\ f[m] \in BlockOn(I)
    BY <1>2, <1>5
  <2> DEFINE l == [f[m] EXCEPT !.end = e]
  <2>3. /\ l \in BlockOn(I) /\ l.start = f[m].start /\ l.end = e /\ l.kind = f[m].kind
        /\ l.id = f[m].id
    BY <2>2 DEF BlockOn
  <2>4. g = [f EXCEPT ![m] = l]
    BY <2>1
  <2> HIDE DEF g, l
  <2>5. g \in Seq(BlockOn(I)) /\ Len(g) = m
    <3>1. DOMAIN f = 1 .. m /\ f \in [1 .. m -> BlockOn(I)]
      BY <1>2
    <3> HIDE DEF m
    <3>2. g \in [1 .. m -> BlockOn(I)]
      BY <2>3, <2>4, <3>1
    <3>3. QED
      BY <1>2, <3>2, FunctionsAreSequences
  <2>6. g[m] = l /\ \A i \in 1 .. m - 1 : g[i] = f[i]
    <3>1. DOMAIN f = 1 .. m /\ \A i \in 1 .. m - 1 : i \in 1 .. m /\ i # m
      BY <1>2
    <3> HIDE DEF m
    <3>2. QED
      BY <2>2, <2>4, <3>1
  <2> HIDE DEF m
  <2>7. f[m].start \in Nat /\ f[m].start < f[m].end /\ f[m].end = c
    BY <1>5, <2>2 DEF Abut, m
  <2>8. Abut(g, 0, e)
    <3>1. g # <<>> /\ f # <<>>
      BY <1>5, <2>2, <2>5
    <3>2. ASSUME NEW i \in 1 .. m
          PROVE  g[i].start \in Nat /\ g[i].end \in Nat /\ g[i].start < g[i].end
      <4>1. CASE i = m
        BY <2>3, <2>6, <2>7, <4>1
      <4>2. CASE i # m
        <5>1. i \in 1 .. m - 1
          BY <1>2, <4>2
        <5>2. QED
          BY <2>6, <5>1 DEF Abut, m
      <4>3. QED
        BY <4>1, <4>2
    <3>3. ASSUME NEW i \in 1 .. m PROVE g[i].start = f[i].start
      <4>1. CASE i = m
        BY <2>3, <2>6, <4>1
      <4>2. CASE i # m
        <5>1. i \in 1 .. m - 1
          BY <1>2, <4>2
        <5>2. QED
          BY <2>6, <5>1
      <4>3. QED
        BY <4>1, <4>2
    <3>4. ASSUME NEW i \in 2 .. m PROVE g[i].start = g[i - 1].end
      <4>1. i - 1 \in 1 .. m - 1 /\ i \in 1 .. m
        BY <1>2
      <4>2. g[i].start = f[i].start /\ g[i - 1] = f[i - 1]
        BY <2>6, <3>3, <4>1
      <4>3. f[i].start = f[i - 1].end
        BY DEF Abut, m
      <4>4. QED
        BY <4>2, <4>3
    <3>5. g[1].start = 0 /\ g[m].end = e
      <4>1. 1 \in 1 .. m
        BY <2>2
      <4>2. g[1].start = f[1].start /\ f[1].start = 0
        BY <3>1, <3>3, <4>1 DEF Abut
      <4>3. QED
        BY <2>3, <2>6, <4>2
    <3>6. QED
      BY <2>5, <3>1, <3>2, <3>4, <3>5 DEF Abut
  <2>9. ASSUME NEW b \in bs, NEW i \in 1 .. m, Stretches(d, b, f[i])
        PROVE  Stretches(d, b, g[i])
    <3>1. CASE i # m
      <4>1. i \in 1 .. m - 1
        BY <1>2, <3>1
      <4>2. QED
        BY <2>6, <2>9, <4>1
    <3>2. CASE i = m
      <4>1. /\ b.end \in Nat /\ f[m].start = b.start /\ f[m].kind = b.kind /\ f[m].id = b.id
            /\ b.end <= c /\ ToSet(Slice(d.text, b.end, c)) \subseteq Blank
        BY <2>7, <2>9, <3>2 DEF Stretches, BlockOn
      <4>2. ToSet(Slice(d.text, b.end, c)) = {d.text[k] : k \in b.end + 1 .. c}
        <5>1. c <= Len(d.text)
          <6>1. Len(d.text) \in Nat
            BY DEF Text
          <6>2. QED
            BY <6>1
        <5>2. QED
          BY <4>1, <5>1, SlicesHold
      <4>3. ToSet(Slice(d.text, b.end, e)) = {d.text[k] : k \in b.end + 1 .. e}
        BY <4>1, SlicesHold
      <4>4. ASSUME NEW k \in b.end + 1 .. e PROVE d.text[k] \in Blank
        <5>1. CASE k <= c
          <6>1. k \in b.end + 1 .. c
            BY <4>1, <5>1
          <6>2. QED
            BY <4>1, <4>2, <6>1
        <5>2. CASE ~ (k <= c)
          <6>1. k \in c + 1 .. e
            BY <4>1, <5>2
          <6>2. QED
            BY <1>1, <1>5, <6>1
        <5>3. QED
          BY <5>1, <5>2
      <4>5. ToSet(Slice(d.text, b.end, e)) \subseteq Blank
        BY <4>3, <4>4
      <4>6. b.end <= e
        BY <4>1
      <4>7. QED
        BY <2>3, <2>6, <3>2, <4>1, <4>5, <4>6 DEF Stretches
    <3>3. QED
      BY <3>1, <3>2
  <2>10. ASSUME NEW i \in 1 .. m PROVE g[i].kind = f[i].kind /\ g[i].id = f[i].id
    <3>1. CASE i = m
      BY <2>3, <2>6, <3>1
    <3>2. CASE i # m
      <4>1. i \in 1 .. m - 1
        BY <1>2, <3>2
      <4>2. QED
        BY <2>6, <4>1
    <3>3. QED
      BY <3>1, <3>2
  <2>11. \A b \in bs : \E i \in 1 .. m : Stretches(d, b, g[i])
    BY <2>9 DEF Fills, m
  <2>12. ASSUME NEW i \in 1 .. m
         PROVE  \/ g[i].kind = "mixed" /\ g[i].id = <<>>
                \/ \E b \in bs : Stretches(d, b, g[i])
    BY <2>9, <2>10 DEF Fills, m
  <2>13. ASSUME NEW i \in 2 .. m PROVE g[i].kind # "mixed" \/ g[i - 1].kind # "mixed"
    <3>1. i \in 1 .. m /\ i - 1 \in 1 .. m
      BY <1>2
    <3>2. QED
      BY <2>10, <3>1 DEF Fills, m
  <2>14. Fills(d, I, g, bs)
    BY <2>5, <2>11, <2>12, <2>13 DEF Fills
  <2>15. QED
    BY <2>8, <2>14 DEF g
<1>6. QED
  BY <1>3, <1>4, <1>5

Gapless(d, I, s, k) ==
  {acc \in [cursor : Nat, filled : Seq(BlockOn(I))] :
     /\ acc.cursor = IF k = 0 THEN 0 ELSE s[k].end
     /\ Fills(d, I, acc.filled, {s[i] : i \in 1 .. k}) /\ Abut(acc.filled, 0, acc.cursor)
     /\ acc.filled # <<>> => acc.filled[Len(acc.filled)].kind # "mixed"}

(* One block after the gap before it.                                      *)
LEMMA BlocksFollowGaps ==
  ASSUME NEW d, NEW I, LaidOut(d, I), NEW s \in Seq(Blocks(d)),
         \A i, j \in 1 .. Len(s) : i < j => s[i].end <= s[j].start,
         NEW k \in 1 .. Len(s), NEW acc \in Gapless(d, I, s, k - 1)
  PROVE  WithBlock(d, acc, s[k]) \in Gapless(d, I, s, k)
<1> DEFINE b == s[k]
           c == acc.cursor
           bs == {s[i] : i \in 1 .. k - 1}
           g == FillGap(d, acc.filled, c, b.start)
           more == {s[i] : i \in 1 .. k}
<1>1. /\ d.text \in Text /\ <<>> \in I /\ \A x \in Blocks(d) : x \in BlockOn(I)
      /\ \A x \in Blocks(d) : /\ x.kind # "mixed" /\ x.start < x.end /\ x.end <= Len(d.text)
                              /\ x.start \in Nat /\ x.end \in Nat
  BY DEF LaidOut, BlockOn
<1>2. Len(s) \in Nat /\ Len(d.text) \in Nat /\ \A i \in 1 .. Len(s) : s[i] \in Blocks(d)
  BY <1>1 DEF Text
<1>3. b \in BlockOn(I) /\ b.kind # "mixed" /\ b.start < b.end /\ b.end <= Len(d.text)
      /\ b.start \in Nat /\ b.end \in Nat
  BY <1>1, <1>2
<1>4. /\ c \in Nat /\ acc.filled \in Seq(BlockOn(I)) /\ c = IF k - 1 = 0 THEN 0 ELSE s[k - 1].end
      /\ Fills(d, I, acc.filled, bs) /\ Abut(acc.filled, 0, c)
      /\ acc.filled # <<>> => acc.filled[Len(acc.filled)].kind # "mixed"
  BY DEF Gapless
<1>5. c <= b.start /\ b.start <= Len(d.text)
  <2>1. CASE k = 1
    BY <1>2, <1>3, <1>4, <2>1
  <2>2. CASE k # 1
    <3>1. k - 1 \in 1 .. Len(s) /\ k - 1 < k
      BY <1>2, <2>2
    <3>2. s[k - 1].end <= s[k].start
      BY <3>1
    <3>3. QED
      BY <1>2, <1>3, <1>4, <2>2, <3>2
  <2>3. QED
    BY <2>1, <2>2
<1>6. bs \in SUBSET BlockOn(I)
  BY <1>1, <1>2
<1>7. more = bs \cup {b}
  <2>1. 1 .. k = (1 .. k - 1) \cup {k}
    BY <1>2
  <2>2. QED
    BY <2>1
<1> HIDE DEF bs, c, more
<1>8. Fills(d, I, g, bs) /\ Abut(g, 0, b.start)
  <2> HIDE DEF b
  <2>1. QED
    BY <1>1, <1>3, <1>4, <1>5, <1>6, GapsAreFilled
<1> HIDE DEF g
<1>9. ToSet(Slice(d.text, b.end, b.end)) \subseteq Blank
  <2>1. ToSet(Slice(d.text, b.end, b.end)) = {d.text[i] : i \in b.end + 1 .. b.end}
    BY <1>1, <1>3, SlicesHold
  <2>2. b.end + 1 .. b.end = {}
    BY <1>3
  <2>3. QED
    BY <2>1, <2>2
<1>10. Fills(d, I, Append(g, b), more) /\ Abut(Append(g, b), 0, b.end)
  <2> HIDE DEF b
  <2>1. QED
    BY <1>3, <1>7, <1>8, <1>9, OneMoreFills
<1>11. /\ Append(g, b) \in Seq(BlockOn(I))
       /\ Append(g, b)[Len(Append(g, b))].kind # "mixed"
  <2> HIDE DEF b
  <2>1. g \in Seq(BlockOn(I))
    BY <1>8 DEF Fills
  <2>2. Append(g, b) \in Seq(BlockOn(I)) /\ Append(g, b)[Len(Append(g, b))] = b
    BY <1>3, <2>1
  <2>3. QED
    BY <1>3, <2>2
<1>12. WithBlock(d, acc, b) = [cursor |-> b.end, filled |-> Append(g, b)]
  BY DEF WithBlock, g, c
<1>13. WithBlock(d, acc, b) \in Gapless(d, I, s, k)
  <2>1. k # 0
    OBVIOUS
  <2> DEFINE all == Append(g, b)
             next == [cursor |-> b.end, filled |-> all]
  <2>2. next.cursor = s[k].end /\ next.filled = all
    OBVIOUS
  <2> HIDE DEF all
  <2>3. next \in [cursor : Nat, filled : Seq(BlockOn(I))]
    BY <1>3, <1>11 DEF all
  <2> HIDE DEF b, next
  <2>4. Abut(all, 0, next.cursor)
    BY <1>10, <2>2 DEF b, all
  <2>5. next \in Gapless(d, I, s, k)
    BY <1>10, <1>11, <2>1, <2>2, <2>3, <2>4 DEF Gapless, more, all
  <2>6. QED
    BY <1>12, <2>5 DEF next, all
<1>14. QED
  BY <1>13 DEF b

Tiling(d, I, f) ==
  Fills(d, I, f, Blocks(d)) /\ Abut(f, 0, Len(d.text)) /\ f # <<>>

(* The blocks and the gaps between them cover the text.                    *)
LEMMA GapBlocksTile ==
  ASSUME NEW d, NEW I, LaidOut(d, I), ~BlocksOverlap(Blocks(d))
  PROVE  Tiling(d, I, WithGapBlocks(d, Blocks(d)))
<1> DEFINE s == Sorted(Blocks(d))
           n == Len(s)
           first == [cursor |-> 0, filled |-> <<>>]
           T == [k \in 0 .. n |-> Gapless(d, I, s, k)]
           step == [k \in 1 .. n |-> [acc \in T[k - 1] |-> WithBlock(d, acc, s[k])]]
           Holds(f) == f = [k \in 0 .. n |-> IF k = 0 THEN first ELSE WithBlock(d, f[k - 1], s[k])]
<1>1. /\ s \in Seq(Blocks(d))
      /\ \A b \in Blocks(d) : \E i \in 1 .. n : s[i] = b
      /\ \A i, j \in 1 .. n : i < j => s[i].end <= s[j].start
  BY BlocksAreSorted
<1> HIDE DEF s
<1>2. n \in Nat /\ \A i \in 1 .. n : s[i] \in Blocks(d)
  BY <1>1
<1>3. first \in T[0]
  <2>1. Fills(d, I, <<>>, {s[i] : i \in 1 .. 0}) /\ Abut(<<>>, 0, 0)
    BY DEF Fills, Abut
  <2>2. T[0] = Gapless(d, I, s, 0)
    BY <1>2
  <2>3. first \in [cursor : Nat, filled : Seq(BlockOn(I))]
    <3> DEFINE X == BlockOn(I)
    <3>1. <<>> \in Seq(X)
      OBVIOUS
    <3> HIDE DEF X
    <3>2. [cursor |-> 0, filled |-> <<>>] \in [cursor : Nat, filled : Seq(X)]
      BY <3>1
    <3>3. QED
      BY <3>2 DEF X
  <2>4. first.cursor = 0 /\ first.filled = <<>>
    OBVIOUS
  <2> HIDE DEF first, T
  <2>5. QED
    BY <2>1, <2>2, <2>3, <2>4 DEF Gapless
<1>4. ASSUME NEW k \in 1 .. n, NEW acc \in T[k - 1]
      PROVE  step[k][acc] \in T[k] /\ step[k][acc] = WithBlock(d, acc, s[k])
  <2>1. T[k - 1] = Gapless(d, I, s, k - 1) /\ T[k] = Gapless(d, I, s, k)
    BY <1>2
  <2>2. WithBlock(d, acc, s[k]) \in Gapless(d, I, s, k)
    BY <1>1, <2>1, BlocksFollowGaps
  <2>3. QED
    BY <2>1, <2>2
<1> HIDE DEF n, T, step, first
<1>5. PICK f : /\ f = [k \in 0 .. n |-> f[k]] /\ f[0] = first
               /\ \A k \in 0 .. n : f[k] \in T[k]
               /\ \A k \in 1 .. n : f[k] = step[k][f[k - 1]]
  <2>1. \A k \in 1 .. n : \A acc \in T[k - 1] : step[k][acc] \in T[k]
    BY <1>4
  <2>2. Leads(n, T, first, step)
    BY <1>3, <2>1 DEF Leads
  <2>3. PICK f : Takes(f, n, T, first, step)
    BY <1>2, <2>2, Recursion
  <2>4. QED
    BY <2>3 DEF Takes
<1>6. ASSUME NEW k \in 1 .. n PROVE f[k] = WithBlock(d, f[k - 1], s[k])
  <2>1. k - 1 \in 0 .. n
    BY <1>2
  <2>2. QED
    BY <1>4, <1>5, <2>1
<1>7. Holds(f)
  <2>1. ASSUME NEW k \in 0 .. n
        PROVE  f[k] = IF k = 0 THEN first ELSE WithBlock(d, f[k - 1], s[k])
    <3>1. k # 0 => k \in 1 .. n
      BY <1>2
    <3>2. QED
      BY <1>5, <1>6, <3>1
  <2>2. QED
    BY <1>5, <2>1
<1> DEFINE added == CHOOSE g : Holds(g)
           between == added[n]
<1>8. Holds(added)
  <2> HIDE DEF Holds
  <2>1. QED
    BY <1>7
<1>9. WithGapBlocks(d, Blocks(d)) =
        IF between.cursor < Len(d.text)
        THEN Append(between.filled, Mixed(between.cursor, Len(d.text)))
        ELSE between.filled
  BY DEF WithGapBlocks, s, n, first
<1> HIDE DEF added
<1>10. \A k \in 0 .. n : added[k] = f[k]
  <2> DEFINE Same == {k \in 0 .. n : added[k] = f[k]}
  <2>1. 0 \in Same
    BY <1>2, <1>5, <1>8
  <2>2. ASSUME NEW k \in 1 .. n, k - 1 \in Same PROVE k \in Same
    <3>1. k \in 0 .. n /\ k # 0 /\ added[k - 1] = f[k - 1]
      BY <2>2
    <3>2. added[k] = WithBlock(d, added[k - 1], s[k])
      BY <1>8, <3>1
    <3>3. QED
      BY <1>6, <3>1, <3>2
  <2> HIDE DEF Same
  <2>3. \A k \in 0 .. n : k \in Same
    BY <1>2, <2>1, <2>2, Reaches
  <2>4. QED
    BY <2>3 DEF Same
<1>11. between \in Gapless(d, I, s, n)
  <2>1. n \in 0 .. n
    BY <1>2
  <2>2. QED
    BY <1>5, <1>10, <2>1 DEF T
<1> HIDE DEF between, Holds
<1>12. /\ between.filled \in Seq(BlockOn(I)) /\ between.cursor \in Nat
       /\ between.cursor = IF n = 0 THEN 0 ELSE s[n].end
       /\ Fills(d, I, between.filled, {s[i] : i \in 1 .. n})
       /\ Abut(between.filled, 0, between.cursor)
       /\ between.filled # <<>> => between.filled[Len(between.filled)].kind # "mixed"
  BY <1>11 DEF Gapless
<1>13. {s[i] : i \in 1 .. n} = Blocks(d)
  BY <1>1, <1>2
<1>14. Len(d.text) \in Nat /\ Len(d.text) > 0 /\ d.text \in Text /\ <<>> \in I
  BY DEF LaidOut, Text
<1>15. between.cursor <= Len(d.text)
  <2>1. CASE n = 0
    BY <1>12, <1>14, <2>1
  <2>2. CASE n # 0
    <3>1. n \in 1 .. n
      BY <1>2, <2>2
    <3>2. QED
      BY <1>2, <1>12, <2>2, <3>1 DEF LaidOut
  <2>3. QED
    BY <2>1, <2>2
<1>16. CASE between.cursor < Len(d.text)
  <2> DEFINE b == Mixed(between.cursor, Len(d.text))
  <2>1. /\ b \in BlockOn(I) /\ b.start = between.cursor /\ b.end = Len(d.text)
        /\ b.start < b.end /\ b.kind = "mixed" /\ b.id = <<>>
    BY <1>12, <1>14, <1>16 DEF Mixed, Block, BlockOn, BlockKind
  <2> HIDE DEF b
  <2>2. /\ Fills(d, I, Append(between.filled, b), Blocks(d))
        /\ Abut(Append(between.filled, b), 0, b.end)
    BY <1>12, <1>13, <2>1, OneMoreFills
  <2>3. Append(between.filled, b) # <<>>
    <3>1. Append(between.filled, b) \in Seq(BlockOn(I)) /\ Len(Append(between.filled, b)) # 0
      BY <1>12, <2>1
    <3>2. QED
      BY <3>1
  <2>4. WithGapBlocks(d, Blocks(d)) = Append(between.filled, b)
    BY <1>9, <1>16 DEF b
  <2>5. QED
    BY <2>1, <2>2, <2>3, <2>4 DEF Tiling
<1>17. CASE between.cursor = Len(d.text)
  <2>1. WithGapBlocks(d, Blocks(d)) = between.filled
    BY <1>9, <1>14, <1>17
  <2>2. between.filled # <<>>
    BY <1>12, <1>14, <1>17 DEF Abut
  <2>3. QED
    BY <1>12, <1>13, <1>17, <2>1, <2>2 DEF Tiling
<1>18. QED
  BY <1>12, <1>14, <1>15, <1>16, <1>17

-----------------------------------------------------------------------------
(* The window                                                              *)

EndsToken(s, i) ==
  ~(/\ s[i] = Space /\ i < Len(s) /\ s[i + 1] \notin Blank)

(* The tokens of a slice are finitely many, and a letter more ends one at  *)
(* least, for the one it may continue.                                     *)
LEMMA TokensGrow ==
  ASSUME NEW d, d.text \in Text, NEW p \in Nat, NEW q \in Nat, p < q, q <= Len(d.text)
  PROVE  /\ Tokens(d, p, q) \in Nat
         /\ q < Len(d.text) => Tokens(d, p, q) <= Tokens(d, p, q + 1)
<1> DEFINE s == Slice(d.text, p, q)
           t == Slice(d.text, p, q + 1)
           m == q - p
<1>1. m \in Nat /\ m >= 1 /\ Len(d.text) \in Nat /\ q + 1 \in Nat
  BY DEF Text
<1>2. Len(s) = m /\ DOMAIN s = 1 .. m /\ \A i \in 1 .. m : s[i] = d.text[p + i]
  <2>1. Len(s) = m /\ \A i \in 1 .. m : s[i] = d.text[p + i]
    <3> DEFINE text == d.text
    <3>1. text \in Text /\ q <= Len(text) /\ p <= q
      OBVIOUS
    <3> HIDE DEF text
    <3>2. /\ Len(Slice(text, p, q)) = q - p
          /\ \A i \in 1 .. q - p : Slice(text, p, q)[i] = text[p + i]
      BY <3>1, SlicesHold
    <3>3. QED
      BY <3>2 DEF text
  <2>2. s \in Seq(Letter)
    BY DEF Slice, Text
  <2>3. QED
    BY <2>1, <2>2
<1> HIDE DEF s
<1> DEFINE ends(r, k) == {2 * i : i \in {j \in 1 .. k : EndsToken(r, j)}}
                         \cup {2 * i - 1 : i \in {j \in 1 .. k : r[j] \in Wide}}
<1>3. TokenEnds(s) = ends(s, m)
  BY <1>2 DEF TokenEnds, EndsToken
<1>4. ASSUME NEW r, NEW k \in Nat
      PROVE  IsFiniteSet(ends(r, k)) /\ \A e \in ends(r, k) : e \in Nat /\ e <= 2 * k
  <2>1. \A e \in ends(r, k) : e \in Nat /\ e <= 2 * k
    OBVIOUS
  <2>2. 2 * k \in Nat
    OBVIOUS
  <2> HIDE DEF ends
  <2>3. ends(r, k) \in SUBSET Nat
    BY <2>1
  <2>4. QED
    BY <2>1, <2>2, <2>3, FS_BoundedSetOfNaturals
<1>5. Tokens(d, p, q) \in Nat
  <2> HIDE DEF ends
  <2>1. QED
    BY <1>1, <1>3, <1>4, FS_CardinalityType DEF Tokens, s
<1>6. ASSUME q < Len(d.text) PROVE Tokens(d, p, q) <= Tokens(d, p, q + 1)
  <2>1. q + 1 <= Len(d.text) /\ (q + 1) - p = m + 1 /\ m + 1 \in Nat
    BY <1>1, <1>6
  <2>2. Len(t) = m + 1 /\ DOMAIN t = 1 .. m + 1 /\ \A i \in 1 .. m + 1 : t[i] = d.text[p + i]
    <3>1. Len(t) = m + 1 /\ \A i \in 1 .. m + 1 : t[i] = d.text[p + i]
      <4> DEFINE text == d.text
      <4>1. text \in Text /\ q + 1 \in Nat /\ q + 1 <= Len(text) /\ p <= q + 1
        BY <1>1, <2>1
      <4> HIDE DEF text
      <4>2. /\ Len(Slice(text, p, q + 1)) = (q + 1) - p
            /\ \A i \in 1 .. (q + 1) - p : Slice(text, p, q + 1)[i] = text[p + i]
        BY <4>1, SlicesHold
      <4> HIDE DEF m
      <4>3. QED
        BY <2>1, <4>2 DEF text
    <3>2. t \in Seq(Letter)
      BY <1>1, <2>1 DEF Slice, Text
    <3>3. QED
      BY <3>1, <3>2
  <2> HIDE DEF t, m
  <2>3. TokenEnds(t) = ends(t, m + 1)
    BY <2>2 DEF TokenEnds, EndsToken
  <2>4. ASSUME NEW i \in 1 .. m PROVE s[i] = t[i] /\ i \in 1 .. m + 1
    <3>1. i \in 1 .. m + 1
      BY <1>1
    <3>2. s[i] = d.text[p + i]
      BY <1>2
    <3>3. t[i] = d.text[p + i]
      BY <2>2, <3>1
    <3>4. QED
      BY <3>1, <3>2, <3>3
  <2>5. ASSUME NEW i \in 1 .. m, i # m PROVE EndsToken(s, i) <=> EndsToken(t, i)
    <3>1. i + 1 \in 1 .. m /\ i < m /\ i < m + 1
      BY <1>1, <2>5
    <3>2. s[i] = t[i] /\ s[i + 1] = t[i + 1]
      BY <2>4, <3>1
    <3>3. QED
      BY <1>2, <2>2, <3>1, <3>2 DEF EndsToken
  <2> DEFINE A == ends(s, m) \ {2 * m}
  <2>6. ASSUME NEW e \in A PROVE e \in ends(t, m + 1)
    <3>1. CASE \E i \in 1 .. m : e = 2 * i /\ EndsToken(s, i)
      <4>1. PICK i \in 1 .. m : e = 2 * i /\ EndsToken(s, i)
        BY <3>1
      <4>2. i # m
        BY <4>1
      <4>3. i \in 1 .. m + 1 /\ EndsToken(t, i)
        BY <2>4, <2>5, <4>1, <4>2
      <4>4. QED
        BY <4>1, <4>3
    <3>2. CASE \E i \in 1 .. m : e = 2 * i - 1 /\ s[i] \in Wide
      BY <2>4, <3>2
    <3>3. QED
      BY <3>1, <3>2
  <2>7. 2 * (m + 1) \in ends(t, m + 1)
    <3>1. m + 1 \in 1 .. m + 1 /\ EndsToken(t, m + 1)
      BY <1>1, <2>2 DEF EndsToken
    <3>2. QED
      BY <3>1
  <2>8. 2 * m \in ends(s, m)
    <3>1. m \in 1 .. m /\ EndsToken(s, m)
      BY <1>1, <1>2 DEF EndsToken
    <3>2. QED
      BY <3>1
  <2>9. 2 * (m + 1) \notin ends(s, m)
    <3>1. ~ (2 * (m + 1) <= 2 * m)
      BY <1>1
    <3> HIDE DEF ends
    <3>2. QED
      BY <1>1, <1>4, <3>1
  <2> HIDE DEF ends
  <2>10. /\ IsFiniteSet(ends(s, m)) /\ IsFiniteSet(ends(t, m + 1))
    BY <1>1, <1>4, <2>1
  <2> DEFINE B == A \cup {2 * (m + 1)}
  <2>11. B \in SUBSET ends(t, m + 1) /\ 2 * (m + 1) \notin A
    BY <2>6, <2>7, <2>9
  <2>12. IsFiniteSet(A) /\ Cardinality(A) = Cardinality(ends(s, m)) - 1
    BY <2>8, <2>10, FS_RemoveElement
  <2>13. Cardinality(B) = Cardinality(A) + 1
    <3> HIDE DEF A
    <3>1. QED
      BY <2>11, <2>12, FS_AddElement
  <2>14. Cardinality(B) <= Cardinality(ends(t, m + 1))
    <3> HIDE DEF B
    <3> QED
      BY <2>10, <2>11, FS_Subset
  <2>15. Cardinality(ends(s, m)) \in Nat /\ Cardinality(ends(t, m + 1)) \in Nat
    BY <2>10, FS_CardinalityType
  <2> HIDE DEF A, B
  <2>16. Cardinality(ends(s, m)) <= Cardinality(ends(t, m + 1))
    BY <2>12, <2>13, <2>14, <2>15
  <2>17. QED
    BY <1>3, <2>3, <2>16 DEF Tokens, s, t
<1>7. QED
  BY <1>5, <1>6

(* The inner loop of _split_by_character_window: the cut it finds lies     *)
(* behind p, what is before it fits unless it is one letter, and with one  *)
(* letter more would not.                                                  *)
LEMMA BestFits ==
  ASSUME NEW d, d.text \in Text, NEW window \in Nat, NEW p \in Nat, NEW e \in Nat,
         p < e, e <= Len(d.text), NEW b, b = Best(d, window, p, e)
  PROVE  /\ b \in p + 1 .. e
         /\ b > p + 1 => ~TooLong(d, window, p, b)
         /\ b < e => TooLong(d, window, p, b + 1)
<1> DEFINE fitting == {q \in p + 1 .. e : \A r \in p + 1 .. q : Tokens(d, p, r) <= window}
           T == {p + 1} \cup fitting
<1>1. Len(d.text) \in Nat
  BY DEF Text
<1>2. T \in SUBSET Nat /\ T # {} /\ \A x \in T : x <= e /\ x \in p + 1 .. e
  OBVIOUS
<1>3. b = Max(T)
  BY DEF Best
<1> HIDE DEF T
<1>4. b \in T /\ \A y \in T : y <= b
  BY <1>2, <1>3, GreatestElement
<1>5. b \in p + 1 .. e
  BY <1>2, <1>4
<1>6. ASSUME NEW r \in p + 1 .. e
      PROVE  /\ Tokens(d, p, r) \in Nat
             /\ r < e => Tokens(d, p, r) <= Tokens(d, p, r + 1)
  <2>1. r \in Nat /\ p < r /\ r <= Len(d.text) /\ (r < e => r < Len(d.text))
    BY <1>1
  <2>2. QED
    BY <2>1, TokensGrow
<1>7. ASSUME b > p + 1 PROVE ~TooLong(d, window, p, b)
  <2>1. b \in fitting
    BY <1>4, <1>5, <1>7 DEF T
  <2>2. b \in p + 1 .. b
    BY <1>5
  <2>3. Tokens(d, p, b) <= window
    BY <2>1, <2>2
  <2>4. QED
    BY <1>5, <1>6, <2>3 DEF TooLong
<1>8. ASSUME b < e PROVE TooLong(d, window, p, b + 1)
  <2>1. b + 1 \in p + 1 .. e /\ b + 1 \in Nat /\ ~ (b + 1 <= b)
    BY <1>5, <1>8
  <2>2. b + 1 \notin fitting
    BY <1>4, <2>1 DEF T
  <2>3. PICK r \in p + 1 .. b + 1 : ~ (Tokens(d, p, r) <= window)
    BY <2>1, <2>2
  <2>4. CASE r = b + 1
    BY <1>6, <2>1, <2>3, <2>4 DEF TooLong
  <2>5. CASE r # b + 1 /\ b \in fitting
    <3>1. r \in p + 1 .. b
      BY <1>5, <2>5
    <3>2. QED
      BY <2>3, <2>5, <3>1
  <2>6. CASE r # b + 1 /\ b \notin fitting
    <3>1. b = p + 1
      BY <1>4, <2>6 DEF T
    <3>2. r = b /\ b \in p + 1 .. e
      BY <1>5, <2>6, <3>1
    <3>3. Tokens(d, p, b) <= Tokens(d, p, b + 1) /\ Tokens(d, p, b) \in Nat
          /\ Tokens(d, p, b + 1) \in Nat
      BY <1>6, <1>8, <2>1, <3>2
    <3>4. QED
      BY <2>3, <3>2, <3>3 DEF TooLong
  <2>7. QED
    BY <2>4, <2>5, <2>6
<1>9. QED
  BY <1>5, <1>7, <1>8

-----------------------------------------------------------------------------
(* The pieces of a block that is too large                                 *)

Reason == {"boundary", "oversized_sentence", "atomic_table_overflow"}
ChunkOn(I) ==
  [start : Nat, end : Nat, kind : BlockKind \cup {"overflow"}, ids : SUBSET I, reason : Reason]

(* Between two pieces of a sentence that is too long for the window the    *)
(* cut is as late as it can be, or it lies between two sentences.          *)
Late(d, window, x, y) ==
  x.reason = "oversized_sentence" /\ y.reason = "oversized_sentence" /\ y.ids = x.ids =>
    TooLong(d, window, x.start, x.end + 1) \/ d.text[x.end] = Stop
Tight(d, window, s) == \A k \in 2 .. Len(s) : Late(d, window, s[k - 1], s[k])

(* Cuts that are late in two sequences and between them are late in both   *)
(* together.                                                               *)
LEMMA TightJoin ==
  ASSUME NEW d, NEW window, NEW S, NEW s \in Seq(S), NEW t \in Seq(S),
         Tight(d, window, s), Tight(d, window, t),
         s # <<>> /\ t # <<>> => Late(d, window, s[Len(s)], t[1])
  PROVE  Tight(d, window, s \o t)
<1> DEFINE m == Len(s)
           n == Len(t)
           u == s \o t
<1>1. /\ m \in Nat /\ n \in Nat /\ Len(u) = m + n
      /\ \A i \in 1 .. m : u[i] = s[i]
      /\ \A i \in m + 1 .. m + n : u[i] = t[i - m]
  OBVIOUS
<1>2. (s = <<>> <=> m = 0) /\ (t = <<>> <=> n = 0)
  BY <1>1
<1> HIDE DEF u, m, n
<1>3. ASSUME NEW i \in 2 .. Len(u) PROVE Late(d, window, u[i - 1], u[i])
  <2>1. CASE i <= m
    <3>1. i \in 2 .. m /\ i \in 1 .. m /\ i - 1 \in 1 .. m
      BY <1>1, <2>1
    <3>2. QED
      BY <1>1, <3>1 DEF Tight, m
  <2>2. CASE i = m + 1
    <3>1. m \in 1 .. m /\ i \in m + 1 .. m + n /\ s # <<>> /\ t # <<>>
      BY <1>1, <1>2, <2>2
    <3>2. u[i] = t[1] /\ u[i - 1] = s[m]
      BY <1>1, <2>2, <3>1
    <3>3. QED
      BY <3>1, <3>2 DEF m
  <2>3. CASE i > m + 1
    <3>1. /\ i \in m + 1 .. m + n /\ i - 1 \in m + 1 .. m + n /\ i - m \in 2 .. n
          /\ (i - 1) - m = (i - m) - 1
      BY <1>1, <2>3
    <3>2. u[i] = t[i - m] /\ u[i - 1] = t[(i - m) - 1]
      BY <1>1, <3>1
    <3>3. QED
      BY <3>1, <3>2 DEF Tight, n
  <2>4. QED
    BY <1>1, <2>1, <2>2, <2>3
<1>4. Tight(d, window, u)
  BY <1>3 DEF Tight
<1>5. QED
  BY <1>4 DEF u

IsPiece(d, window, b, x) ==
  /\ x.ids = {b.id} \ {<<>>} /\ x.kind \in {b.kind, "overflow"}
  /\ x.reason \in {"boundary", "oversized_sentence"}
  /\ TooLong(d, window, x.start, x.end) =>
       x.reason = "oversized_sentence" /\ x.end = x.start + 1
Pieces(d, window, I, b, s, p, q) ==
  /\ s \in Seq(ChunkOn(I)) /\ Abut(s, p, q)
  /\ \A i \in 1 .. Len(s) : IsPiece(d, window, b, s[i])
  /\ Tight(d, window, s)

(* Pieces of a block up to q and from q on, with a late cut at q.          *)
LEMMA PiecesJoin ==
  ASSUME NEW d, NEW window, NEW I, NEW b, NEW s, NEW t, NEW p, NEW q, NEW r,
         Pieces(d, window, I, b, s, p, q), Pieces(d, window, I, b, t, q, r),
         s # <<>> /\ t # <<>> => Late(d, window, s[Len(s)], t[1])
  PROVE  Pieces(d, window, I, b, s \o t, p, r)
<1>1. s \in Seq(ChunkOn(I)) /\ t \in Seq(ChunkOn(I))
  BY DEF Pieces
<1> DEFINE u == s \o t
<1>2. u \in Seq(ChunkOn(I)) /\ Abut(u, p, r) /\ Tight(d, window, u)
  <2>1. u \in Seq(ChunkOn(I))
    BY <1>1
  <2>2. Abut(u, p, r)
    BY <1>1, RowsOfRangesJoin DEF Pieces
  <2>3. Tight(d, window, u)
    BY <1>1, TightJoin, SMTT(30) DEF Pieces
  <2>4. QED
    BY <2>1, <2>2, <2>3
<1>3. ASSUME NEW i \in 1 .. Len(u) PROVE IsPiece(d, window, b, u[i])
  <2>1. (\E k \in 1 .. Len(s) : u[i] = s[k]) \/ (\E k \in 1 .. Len(t) : u[i] = t[k])
    <3>1. CASE i <= Len(s)
      BY <1>1, <3>1
    <3>2. CASE i > Len(s)
      <4>1. i - Len(s) \in 1 .. Len(t) /\ u[i] = t[i - Len(s)]
        BY <1>1, <3>2
      <4>2. QED
        BY <4>1
    <3>3. QED
      BY <1>1, <3>1, <3>2
  <2> HIDE DEF u
  <2>2. QED
    BY <2>1 DEF Pieces
<1> HIDE DEF u
<1>4. Pieces(d, window, I, b, u, p, r)
  BY <1>2, <1>3 DEF Pieces
<1>5. QED
  BY <1>4 DEF u

(* A slice of a block is a piece of it, if it fits or is one letter of an  *)
(* oversized sentence.                                                     *)
LEMMA SlicesArePieces ==
  ASSUME NEW d, NEW window, NEW I, <<>> \in I, NEW b \in BlockOn(I), b.kind # "table",
         NEW p \in Nat, NEW q \in Nat, p < q, NEW reason \in {"boundary", "oversized_sentence"},
         TooLong(d, window, p, q) => reason = "oversized_sentence" /\ q = p + 1,
         NEW x, x = PackSlice(b, p, q, reason)
  PROVE  /\ x \in ChunkOn(I) /\ x.start = p /\ x.end = q /\ x.reason = reason
         /\ Pieces(d, window, I, b, <<x>>, p, q)
<1>1. /\ x \in ChunkOn(I) /\ x.start = p /\ x.end = q /\ x.reason = reason
      /\ x.ids = {b.id} \ {<<>>} /\ x.kind \in {b.kind, "overflow"}
  BY DEF PackSlice, Packed, ChunkOn, BlockOn, Reason
<1>2. Abut(<<x>>, p, q)
  BY <1>1, OneRangeAbuts
<1>3. IsPiece(d, window, b, x) /\ Tight(d, window, <<x>>)
  BY <1>1 DEF IsPiece, Tight
<1>4. Pieces(d, window, I, b, <<x>>, p, q)
  <2>1. <<x>> \in Seq(ChunkOn(I)) /\ Len(<<x>>) = 1 /\ <<x>>[1] = x
    BY <1>1
  <2>2. \A i \in 1 .. Len(<<x>>) : IsPiece(d, window, b, <<x>>[i])
    BY <1>3, <2>1
  <2>3. QED
    BY <1>2, <1>3, <2>1, <2>2 DEF Pieces
<1>5. QED
  BY <1>1, <1>4

CutTo(d, window, I, b, first, e, k) ==
  {acc \in [start : Nat, chunks : Seq(ChunkOn(I))] :
     /\ acc.start \in first .. e /\ (acc.start = e \/ acc.start >= first + k)
     /\ Pieces(d, window, I, b, acc.chunks, first, acc.start)
     /\ acc.chunks # <<>> /\ acc.start < e =>
          TooLong(d, window, acc.chunks[Len(acc.chunks)].start, acc.start + 1)}

(* One cut of _split_by_character_window: the slice behind it grows to the *)
(* last place it fits the window.                                          *)
LEMMA CutsAreLate ==
  ASSUME NEW d, d.text \in Text, NEW window \in Nat, NEW I, <<>> \in I,
         NEW b \in BlockOn(I), b.kind # "table",
         NEW first \in Nat, NEW e \in Nat, e <= Len(d.text),
         NEW k \in Nat, k >= 1, NEW acc \in CutTo(d, window, I, b, first, e, k - 1)
  PROVE  CutOnce(d, window, b, e, acc) \in CutTo(d, window, I, b, first, e, k)
<1>1. CASE acc.start = e
  <2>1. CutOnce(d, window, b, e, acc) = acc
    BY <1>1 DEF CutOnce
  <2>2. QED
    BY <1>1, <2>1 DEF CutTo
<1>2. CASE acc.start # e
  <2> DEFINE p == acc.start
             best == Best(d, window, p, e)
             x == PackSlice(b, p, best, "oversized_sentence")
             s == acc.chunks
             next == [start |-> best, chunks |-> Append(s, x)]
  <2>1. /\ p \in first .. e /\ p \in Nat /\ p < e /\ p >= first + (k - 1)
        /\ s \in Seq(ChunkOn(I)) /\ Pieces(d, window, I, b, s, first, p)
        /\ s # <<>> => TooLong(d, window, s[Len(s)].start, p + 1)
    BY <1>2 DEF CutTo
  <2>2. CutOnce(d, window, b, e, acc) = next
    BY <1>2 DEF CutOnce
  <2> HIDE DEF p, s
  <2>3. /\ best \in p + 1 .. e
        /\ best > p + 1 => ~TooLong(d, window, p, best)
        /\ best < e => TooLong(d, window, p, best + 1)
    BY <2>1, BestFits
  <2> HIDE DEF best
  <2>4. /\ x \in ChunkOn(I) /\ x.start = p /\ x.end = best
        /\ Pieces(d, window, I, b, <<x>>, p, best)
    <3>1. best \in Nat /\ p < best /\ "oversized_sentence" \in {"boundary", "oversized_sentence"}
      BY <2>1, <2>3
    <3>2. TooLong(d, window, p, best) => best = p + 1
      BY <2>1, <2>3
    <3> DEFINE reason == "oversized_sentence"
    <3> HIDE DEF x
    <3>3. /\ reason \in {"boundary", "oversized_sentence"}
          /\ TooLong(d, window, p, best) => reason = "oversized_sentence" /\ best = p + 1
          /\ x = PackSlice(b, p, best, reason)
      BY <3>2 DEF x
    <3>4. reason \in {"boundary", "oversized_sentence"} /\ x = PackSlice(b, p, best, reason)
      BY <3>3
    <3>5. TooLong(d, window, p, best) => reason = "oversized_sentence" /\ best = p + 1
      BY <3>3
    <3>6. p \in Nat
      BY <2>1
    <3> HIDE DEF reason
    <3>7. \A l \in Nat, r \in Nat, why \in {"boundary", "oversized_sentence"} :
           \A c :
            /\ l < r /\ c = PackSlice(b, l, r, why)
            /\ TooLong(d, window, l, r) => why = "oversized_sentence" /\ r = l + 1
            => /\ c \in ChunkOn(I) /\ c.start = l /\ c.end = r
               /\ Pieces(d, window, I, b, <<c>>, l, r)
      BY SlicesArePieces
    <3>8. QED
      BY <3>1, <3>4, <3>5, <3>6, <3>7
  <2> HIDE DEF x
  <2>5. Append(s, x) = s \o <<x>> /\ <<x>>[1] = x /\ Append(s, x) \in Seq(ChunkOn(I))
        /\ Append(s, x)[Len(Append(s, x))] = x
    BY <2>1, <2>4
  <2>6. s # <<>> => s[Len(s)].end = p
    BY <2>1 DEF Pieces, Abut
  <2>7. s # <<>> => Late(d, window, s[Len(s)], x)
    BY <2>1, <2>6 DEF Late
  <2>8. Pieces(d, window, I, b, Append(s, x), first, best)
    BY <2>1, <2>4, <2>5, <2>7, PiecesJoin
  <2>9. next \in CutTo(d, window, I, b, first, e, k)
    <3> DEFINE all == Append(s, x)
    <3>1. /\ next.start = best /\ next.chunks = all
          /\ best \in Nat /\ best \in first .. e /\ (best = e \/ best >= first + k)
      BY <2>1, <2>3
    <3> HIDE DEF all
    <3>2. next \in [start : Nat, chunks : Seq(ChunkOn(I))]
      BY <2>5, <3>1 DEF all
    <3> HIDE DEF next
    <3>3. QED
      BY <2>3, <2>4, <2>5, <2>8, <3>1, <3>2 DEF CutTo, all
  <2>10. QED
    BY <2>2, <2>9
<1>3. QED
  BY <1>1, <1>2

(* _split_by_character_window, for a sentence that is too long.            *)
LEMMA WindowsSplit ==
  ASSUME NEW d, d.text \in Text, NEW window \in Nat, NEW I, <<>> \in I,
         NEW b \in BlockOn(I), b.kind # "table",
         NEW first \in Nat, NEW e \in Nat, first <= e, e <= Len(d.text)
  PROVE  Pieces(d, window, I, b, SplitByWindow(d, window, b, first, e), first, e)
<1> DEFINE n == e - first
           nothing == [start |-> first, chunks |-> <<>>]
           T == [k \in 0 .. n |-> CutTo(d, window, I, b, first, e, k)]
           step == [k \in 1 .. n |-> [acc \in T[k - 1] |-> CutOnce(d, window, b, e, acc)]]
           Holds(f) == f = [k \in 0 .. n |-> IF k = 0 THEN nothing
                                            ELSE CutOnce(d, window, b, e, f[k - 1])]
<1>1. n \in Nat
  OBVIOUS
<1>2. nothing \in T[0]
  <2>1. Pieces(d, window, I, b, <<>>, first, first)
    BY DEF Pieces, Abut, Tight
  <2>2. T[0] = CutTo(d, window, I, b, first, e, 0)
    BY <1>1
  <2>3. nothing \in [start : Nat, chunks : Seq(ChunkOn(I))]
    <3> DEFINE X == ChunkOn(I)
    <3>1. <<>> \in Seq(X)
      OBVIOUS
    <3> HIDE DEF X
    <3>2. [start |-> first, chunks |-> <<>>] \in [start : Nat, chunks : Seq(X)]
      BY <3>1
    <3>3. QED
      BY <3>2 DEF X
  <2>4. nothing.start = first /\ nothing.chunks = <<>>
    OBVIOUS
  <2> HIDE DEF nothing, T
  <2>5. QED
    BY <2>1, <2>2, <2>3, <2>4 DEF CutTo
<1>3. ASSUME NEW k \in 1 .. n, NEW acc \in T[k - 1]
      PROVE  step[k][acc] \in T[k] /\ step[k][acc] = CutOnce(d, window, b, e, acc)
  <2>1. /\ T[k - 1] = CutTo(d, window, I, b, first, e, k - 1)
        /\ T[k] = CutTo(d, window, I, b, first, e, k) /\ k \in Nat /\ k >= 1
    BY <1>1
  <2>2. CutOnce(d, window, b, e, acc) \in CutTo(d, window, I, b, first, e, k)
    BY <2>1, CutsAreLate
  <2>3. QED
    BY <2>1, <2>2
<1> HIDE DEF T, step, nothing
<1>4. PICK f : Takes(f, n, T, nothing, step)
  <2>1. \A k \in 1 .. n : \A acc \in T[k - 1] : step[k][acc] \in T[k]
    BY <1>3
  <2>2. Leads(n, T, nothing, step)
    BY <1>2, <2>1 DEF Leads
  <2> HIDE DEF n
  <2>3. QED
    BY <1>1, <2>2, Recursion
<1>5. ASSUME NEW k \in 1 .. n PROVE f[k] = CutOnce(d, window, b, e, f[k - 1])
  <2>1. k - 1 \in 0 .. n
    BY <1>1
  <2>2. f[k - 1] \in T[k - 1] /\ f[k] = step[k][f[k - 1]]
    BY <1>4, <2>1 DEF Takes
  <2>3. QED
    BY <1>3, <2>2
<1>6. Holds(f)
  <2>1. ASSUME NEW k \in 0 .. n
        PROVE  f[k] = IF k = 0 THEN nothing ELSE CutOnce(d, window, b, e, f[k - 1])
    <3>1. k # 0 => k \in 1 .. n
      BY <1>1
    <3>2. QED
      BY <1>4, <1>5, <3>1 DEF Takes
  <2>2. QED
    BY <1>4, <2>1 DEF Takes
<1> DEFINE cut == CHOOSE g : Holds(g)
<1>7. Holds(cut)
  <2> HIDE DEF Holds
  <2>1. QED
    BY <1>6
<1>8. SplitByWindow(d, window, b, first, e) = cut[n].chunks
  BY DEF SplitByWindow, nothing
<1> HIDE DEF cut, n
<1>9. \A k \in 0 .. n : cut[k] = f[k]
  <2> DEFINE Same == {k \in 0 .. n : cut[k] = f[k]}
  <2>1. 0 \in Same
    BY <1>1, <1>4, <1>7 DEF Takes
  <2>2. ASSUME NEW k \in 1 .. n, k - 1 \in Same PROVE k \in Same
    <3>1. k \in 0 .. n /\ k # 0 /\ cut[k - 1] = f[k - 1]
      BY <2>2
    <3>2. cut[k] = CutOnce(d, window, b, e, cut[k - 1])
      BY <1>7, <3>1
    <3>3. QED
      BY <1>5, <3>1, <3>2
  <2> HIDE DEF Same
  <2>3. \A k \in 0 .. n : k \in Same
    BY <1>1, <2>1, <2>2, Reaches
  <2>4. QED
    BY <2>3 DEF Same
<1> HIDE DEF Holds
<1>10. cut[n] \in CutTo(d, window, I, b, first, e, n)
  <2>1. n \in 0 .. n /\ f[n] \in T[n]
    BY <1>1, <1>4 DEF Takes
  <2>2. QED
    BY <1>9, <2>1 DEF T
<1>11. cut[n].start = e
  BY <1>10 DEF CutTo, n
<1>12. QED
  BY <1>8, <1>10, <1>11 DEF CutTo

(* Pieces of a block that meet behind a full stop.                         *)
LEMMA SentencesJoin ==
  ASSUME NEW d, NEW window, NEW I, NEW b, NEW s, NEW t, NEW p, NEW q, NEW r,
         Pieces(d, window, I, b, s, p, q), Pieces(d, window, I, b, t, q, r),
         s # <<>> => d.text[q] = Stop
  PROVE  Pieces(d, window, I, b, s \o t, p, r)
<1>1. s # <<>> => s[Len(s)].end = q
  BY DEF Pieces, Abut
<1>2. s # <<>> /\ t # <<>> => Late(d, window, s[Len(s)], t[1])
  BY <1>1 DEF Late
<1>3. QED
  BY <1>2, PiecesJoin

(* The sentences of a block that is too large: k of them are read, those   *)
(* from acc.start on are held back, and fit the window together.           *)
Sentences(d, window, I, b, ends, k) ==
  {acc \in [start : Nat, end : Nat, chunks : Seq(ChunkOn(I))] :
     /\ acc.end = IF k = 0 THEN b.start ELSE ends[k]
     /\ acc.start \in b.start .. acc.end
     /\ Pieces(d, window, I, b, acc.chunks, b.start, acc.start)
     /\ acc.chunks # <<>> => k > 0 /\ (acc.start = b.end \/ d.text[acc.start] = Stop)
     /\ acc.start < acc.end => ~TooLong(d, window, acc.start, acc.end)}

(* What is held back becomes one more piece.                               *)
LEMMA HeldIsAPiece ==
  ASSUME NEW d, NEW window, NEW I, <<>> \in I, NEW b \in BlockOn(I), b.kind # "table",
         NEW ends, NEW k, NEW acc \in Sentences(d, window, I, b, ends, k), acc.end <= b.end,
         NEW h, h = Held(b, acc)
  PROVE  Pieces(d, window, I, b, h, b.start, acc.end)
<1> DEFINE p == acc.start
           q == acc.end
           s == acc.chunks
<1>1. /\ p \in Nat /\ q \in Nat /\ b.start \in Nat /\ b.end \in Nat /\ p \in b.start .. q
      /\ s \in Seq(ChunkOn(I)) /\ Pieces(d, window, I, b, s, b.start, p)
      /\ s # <<>> => p = b.end \/ d.text[p] = Stop
      /\ p < q => ~TooLong(d, window, p, q)
  BY DEF Sentences, BlockOn
<1>2. CASE ~(q > p)
  <2>1. h = s /\ p = q
    BY <1>1, <1>2 DEF Held
  <2>2. QED
    BY <1>1, <2>1
<1>3. CASE q > p
  <2> DEFINE reason == "boundary"
             x == PackSlice(b, p, q, reason)
  <2>1. h = Append(s, x)
    BY <1>3 DEF Held
  <2>2. /\ reason \in {"boundary", "oversized_sentence"} /\ p < q
        /\ TooLong(d, window, p, q) => reason = "oversized_sentence" /\ q = p + 1
    BY <1>1, <1>3
  <2>3. p # b.end
    BY <1>1, <1>3
  <2> HIDE DEF p, q, s, reason
  <2>4. x \in ChunkOn(I) /\ Pieces(d, window, I, b, <<x>>, p, q)
    <3>1. x = PackSlice(b, p, q, reason)
      OBVIOUS
    <3> HIDE DEF x
    <3>2. QED
      BY <1>1, <2>2, <3>1, SlicesArePieces
  <2> HIDE DEF x
  <2>5. Append(s, x) = s \o <<x>>
    BY <1>1, <2>4
  <2>6. Pieces(d, window, I, b, s \o <<x>>, b.start, q)
    BY <1>1, <2>3, <2>4, SentencesJoin
  <2>7. QED
    BY <2>1, <2>5, <2>6 DEF q
<1>4. QED
  BY <1>2, <1>3

(* What is read after one more sentence.                                   *)
LEMMA OneMoreSentence ==
  ASSUME NEW d, NEW window, NEW I, NEW b, NEW ends, NEW k \in Nat, k > 0, NEW e \in Nat,
         e = ends[k], NEW p \in Nat, p \in b.start .. e, NEW c,
         Pieces(d, window, I, b, c, b.start, p), c # <<>> => p = b.end \/ d.text[p] = Stop,
         p < e => ~TooLong(d, window, p, e),
         NEW new, new = [start |-> p, end |-> e, chunks |-> c]
  PROVE  new \in Sentences(d, window, I, b, ends, k)
<1> DEFINE X == ChunkOn(I)
<1>1. c \in Seq(X)
  BY DEF Pieces
<1>2. new.start = p /\ new.end = e /\ new.chunks = c
  OBVIOUS
<1> HIDE DEF X
<1>3. new \in [start : Nat, end : Nat, chunks : Seq(X)]
  BY <1>1
<1>4. k # 0
  OBVIOUS
<1>5. QED
  BY <1>2, <1>3, <1>4 DEF Sentences, X

(* One sentence of _split_oversized_text_block.                            *)
LEMMA SentencesAreAdded ==
  ASSUME NEW d, d.text \in Text, NEW window \in Nat, NEW I, <<>> \in I,
         NEW b \in BlockOn(I), b.kind # "table", b.end <= Len(d.text), NEW ends,
         NEW k \in Nat, k >= 1, NEW acc \in Sentences(d, window, I, b, ends, k - 1),
         NEW e \in Nat, e = ends[k], acc.end < e, e <= b.end,
         k - 1 > 0 => d.text[acc.end] = Stop, e = b.end \/ d.text[e] = Stop
  PROVE  AddSentence(d, window, b, acc, e) \in Sentences(d, window, I, b, ends, k)
<1> DEFINE p == acc.start
           q == acc.end
           s == acc.chunks
           h == Held(b, acc)
           new == AddSentence(d, window, b, acc, e)
           X == ChunkOn(I)
<1>1. /\ p \in Nat /\ q \in Nat /\ b.start \in Nat /\ b.end \in Nat /\ p \in b.start .. q
      /\ s \in Seq(X) /\ Pieces(d, window, I, b, s, b.start, p)
      /\ s # <<>> => k - 1 > 0 /\ (p = b.end \/ d.text[p] = Stop)
      /\ p < q => ~TooLong(d, window, p, q)
      /\ q = IF k - 1 = 0 THEN b.start ELSE ends[k - 1]
  BY DEF Sentences, BlockOn
<1>2. Pieces(d, window, I, b, h, b.start, q) /\ h \in Seq(X)
  <2>1. h = Held(b, acc) /\ acc.end <= b.end
    BY <1>1
  <2> HIDE DEF h
  <2>2. Pieces(d, window, I, b, h, b.start, q)
    BY <2>1, HeldIsAPiece
  <2>3. QED
    BY <2>2 DEF Pieces
<1>3. h # <<>> => k - 1 > 0
  <2>1. CASE k - 1 > 0
    BY <2>1
  <2>2. CASE ~(k - 1 > 0)
    <3>1. q = b.start /\ p = q /\ s = <<>>
      BY <1>1, <2>2
    <3>2. h = <<>>
      <4>1. ~(acc.end > acc.start) /\ acc.chunks = <<>>
        BY <1>1, <3>1
      <4>2. QED
        BY <4>1 DEF Held
    <3>3. QED
      BY <3>2
  <2>3. QED
    BY <2>1, <2>2
<1>4. k # 0 /\ k > 0 /\ b.start <= q /\ q < e /\ Len(d.text) \in Nat
  BY <1>1 DEF Text
<1> HIDE DEF h
<1>5. CASE TooLong(d, window, q, e)
  <2> DEFINE w == SplitByWindow(d, window, b, q, e)
  <2>1. new = [start |-> e, end |-> e, chunks |-> h \o w]
    BY <1>5 DEF AddSentence, h
  <2>2. Pieces(d, window, I, b, w, q, e)
    <3> HIDE DEF q
    <3>1. e <= Len(d.text)
      BY <1>1, <1>4
    <3>2. QED
      BY <1>1, <1>4, <3>1, WindowsSplit, SMTT(30)
  <2> HIDE DEF w
  <2>3. Pieces(d, window, I, b, h \o w, b.start, e)
    BY <1>2, <1>3, <2>2, SentencesJoin
  <2>4. e \in b.start .. e
    BY <1>1, <1>4
  <2> DEFINE c == h \o w
             last == e
  <2>5. /\ last \in Nat /\ last \in b.start .. e /\ Pieces(d, window, I, b, c, b.start, last)
        /\ c # <<>> => last = b.end \/ d.text[last] = Stop
        /\ last < e => ~TooLong(d, window, last, e)
        /\ new = [start |-> last, end |-> e, chunks |-> c]
    BY <2>1, <2>3, <2>4
  <2> HIDE DEF new, c, last
  <2>6. new \in Sentences(d, window, I, b, ends, k)
    BY <1>4, <2>5, OneMoreSentence
  <2>7. QED
    BY <2>6 DEF new
<1>6. CASE ~TooLong(d, window, q, e) /\ TooLong(d, window, p, e)
  <2>1. new = [start |-> q, end |-> e, chunks |-> h]
    BY <1>6 DEF AddSentence, h
  <2>2. q \in b.start .. e
    BY <1>1, <1>4
  <2>3. h # <<>> => d.text[q] = Stop
    BY <1>3
  <2>4. q < e => ~TooLong(d, window, q, e)
    BY <1>6
  <2> HIDE DEF new, q
  <2>5. new \in Sentences(d, window, I, b, ends, k)
    BY <1>1, <1>2, <1>4, <2>1, <2>2, <2>3, <2>4, OneMoreSentence
  <2>6. QED
    BY <2>5 DEF new
<1>7. CASE ~TooLong(d, window, q, e) /\ ~TooLong(d, window, p, e)
  <2>1. new = [start |-> p, end |-> e, chunks |-> s]
    <3>1. new = [acc EXCEPT !.end = e]
      BY <1>7 DEF AddSentence
    <3>2. acc \in [start : Nat, end : Nat, chunks : Seq(X)]
      BY DEF Sentences
    <3>3. QED
      BY <3>1, <3>2
  <2>2. p \in b.start .. e
    BY <1>1, <1>4
  <2>3. p < e => ~TooLong(d, window, p, e)
    BY <1>7
  <2> HIDE DEF new, p, s
  <2>4. new \in Sentences(d, window, I, b, ends, k)
    BY <1>1, <1>4, <2>1, <2>2, <2>3, OneMoreSentence
  <2>5. QED
    BY <2>4 DEF new
<1>8. QED
  BY <1>5, <1>6, <1>7

(* The sentences of a block end within it, and the last where it does.     *)
LEMMA SentencesEnd ==
  ASSUME NEW d, d.text \in Text, NEW I, NEW b \in BlockOn(I), b.start < b.end,
         b.end <= Len(d.text), NEW ends, ends = InOrder(SentenceEnds(d, b)),
         NEW n, n = Len(ends)
  PROVE  /\ n \in Nat /\ n >= 1 /\ ends[n] = b.end
         /\ \A k \in 1 .. n : /\ ends[k] \in Nat /\ b.start < ends[k] /\ ends[k] <= b.end
                              /\ ends[k] = b.end \/ d.text[ends[k]] = Stop
                              /\ k > 1 => ends[k - 1] < ends[k]
<1> DEFINE P == SentenceEnds(d, b)
<1>1. b.start \in Nat /\ b.end \in Nat
  BY DEF BlockOn
<1>2. /\ \A p \in P : p \in b.start + 1 .. b.end /\ (p = b.end \/ d.text[p] = Stop)
      /\ b.end \in P
  BY <1>1 DEF SentenceEnds
<1> HIDE DEF P
<1>3. P \in SUBSET Nat /\ IsFiniteSet(P)
  <2>1. IsFiniteSet(b.start + 1 .. b.end)
    <3>1. b.start + 1 \in Int /\ b.end \in Int
      BY <1>1
    <3>2. QED
      BY <3>1, FS_Interval
  <2>2. P \in SUBSET (b.start + 1 .. b.end)
    BY <1>2
  <2>3. IsFiniteSet(P)
    BY <2>1, <2>2, FS_Subset
  <2>4. P \in SUBSET Nat
    BY <1>1, <2>2
  <2>5. QED
    BY <2>3, <2>4
<1>4. Ascending(ends, P)
  BY <1>3, PositionsAreOrdered DEF P
<1>5. n \in Nat /\ \A k \in 1 .. n : ends[k] \in P
  BY <1>4 DEF Ascending
<1>6. PICK i \in 1 .. n : ends[i] = b.end
  BY <1>2, <1>4 DEF Ascending
<1>7. i = n
  <2>1. CASE i # n
    <3>1. i \in 1 .. Len(ends) /\ n \in 1 .. Len(ends) /\ i < n
      BY <1>5, <1>6, <2>1
    <3>2. ends[i] < ends[n] /\ ends[n] \in b.start + 1 .. b.end
      BY <1>2, <1>4, <1>5, <3>1 DEF Ascending
    <3>3. QED
      BY <1>1, <1>6, <3>2
  <2>2. QED
    BY <2>1
<1>8. ASSUME NEW k \in 1 .. n
      PROVE  /\ ends[k] \in Nat /\ b.start < ends[k] /\ ends[k] <= b.end
             /\ ends[k] = b.end \/ d.text[ends[k]] = Stop
             /\ k > 1 => ends[k - 1] < ends[k]
  <2>1. ends[k] \in b.start + 1 .. b.end /\ (ends[k] = b.end \/ d.text[ends[k]] = Stop)
    BY <1>2, <1>5
  <2>2. k > 1 => ends[k - 1] < ends[k]
    <3>1. k > 1 => k - 1 \in 1 .. Len(ends) /\ k \in 1 .. Len(ends) /\ k - 1 < k
      BY <1>5
    <3>2. QED
      BY <1>4, <3>1 DEF Ascending
  <2>3. QED
    BY <1>1, <2>1, <2>2
<1>9. QED
  BY <1>5, <1>6, <1>7, <1>8

(* _split_oversized_text_block.                                            *)
LEMMA OversizedBlocksSplit ==
  ASSUME NEW d, d.text \in Text, NEW window \in Nat, NEW I, <<>> \in I,
         NEW b \in BlockOn(I), b.kind # "table", b.start < b.end, b.end <= Len(d.text)
  PROVE  Pieces(d, window, I, b, SplitOversized(d, window, b), b.start, b.end)
<1> DEFINE ends == InOrder(SentenceEnds(d, b))
           n == Len(ends)
           nothing == [start |-> b.start, end |-> b.start, chunks |-> <<>>]
           T == [k \in 0 .. n |-> Sentences(d, window, I, b, ends, k)]
           step == [k \in 1 .. n |-> [acc \in T[k - 1] |-> AddSentence(d, window, b, acc, ends[k])]]
           Holds(f) == f = [k \in 0 .. n |-> IF k = 0 THEN nothing
                                            ELSE AddSentence(d, window, b, f[k - 1], ends[k])]
<1>1. /\ n \in Nat /\ n >= 1 /\ ends[n] = b.end
      /\ \A k \in 1 .. n : /\ ends[k] \in Nat /\ b.start < ends[k] /\ ends[k] <= b.end
                           /\ ends[k] = b.end \/ d.text[ends[k]] = Stop
                           /\ k > 1 => ends[k - 1] < ends[k]
  <2>1. ends = InOrder(SentenceEnds(d, b)) /\ n = Len(ends)
    OBVIOUS
  <2> HIDE DEF ends, n
  <2>2. QED
    BY <2>1, SentencesEnd
<1> HIDE DEF ends
<1>2. nothing \in T[0]
  <2>1. Pieces(d, window, I, b, <<>>, b.start, b.start)
    BY DEF Pieces, Abut, Tight
  <2>2. T[0] = Sentences(d, window, I, b, ends, 0)
    BY <1>1
  <2>3. b.start \in Nat
    BY DEF BlockOn
  <2>4. nothing \in [start : Nat, end : Nat, chunks : Seq(ChunkOn(I))]
    <3> DEFINE X == ChunkOn(I)
    <3>1. <<>> \in Seq(X)
      OBVIOUS
    <3> HIDE DEF X
    <3>2. nothing \in [start : Nat, end : Nat, chunks : Seq(X)]
      BY <2>3, <3>1
    <3>3. QED
      BY <3>2 DEF X
  <2>5. nothing.start = b.start /\ nothing.end = b.start /\ nothing.chunks = <<>>
    OBVIOUS
  <2> HIDE DEF nothing, T
  <2>6. QED
    BY <2>1, <2>2, <2>3, <2>4, <2>5 DEF Sentences
<1>3. ASSUME NEW k \in 1 .. n, NEW acc \in T[k - 1]
      PROVE  /\ step[k][acc] \in T[k]
             /\ step[k][acc] = AddSentence(d, window, b, acc, ends[k])
  <2>1. /\ T[k - 1] = Sentences(d, window, I, b, ends, k - 1)
        /\ T[k] = Sentences(d, window, I, b, ends, k) /\ k \in Nat /\ k >= 1
    BY <1>1
  <2>2. acc.end = IF k - 1 = 0 THEN b.start ELSE ends[k - 1]
    BY <2>1 DEF Sentences
  <2>3. acc.end < ends[k] /\ (k - 1 > 0 => d.text[acc.end] = Stop)
    <3>1. CASE k = 1
      BY <1>1, <2>2, <3>1
    <3>2. CASE k # 1
      <4>1. k - 1 \in 1 .. n /\ k > 1
        BY <1>1, <3>2
      <4>2. ends[k - 1] < ends[k] /\ ends[k] <= b.end /\ ends[k] \in Nat /\ ends[k - 1] \in Nat
        BY <1>1, <4>1
      <4>3. ends[k - 1] # b.end
        <5>1. b.end \in Nat
          BY DEF BlockOn
        <5>2. QED
          BY <4>2, <5>1
      <4>4. QED
        BY <1>1, <2>2, <4>1, <4>2, <4>3
    <3>3. QED
      BY <3>1, <3>2
  <2>4. AddSentence(d, window, b, acc, ends[k]) \in Sentences(d, window, I, b, ends, k)
    <3> DEFINE e == ends[k]
    <3>1. e \in Nat /\ e = ends[k] /\ e <= b.end /\ (e = b.end \/ d.text[e] = Stop)
      BY <1>1
    <3>2. acc.end < e
      BY <2>3
    <3> HIDE DEF e
    <3>3. AddSentence(d, window, b, acc, e) \in Sentences(d, window, I, b, ends, k)
      BY <2>1, <2>3, <3>1, <3>2, SentencesAreAdded
    <3>4. QED
      BY <3>3 DEF e
  <2>5. QED
    BY <2>1, <2>4
<1> HIDE DEF T, step, nothing
<1>4. PICK f : Takes(f, n, T, nothing, step)
  <2>1. \A k \in 1 .. n : \A acc \in T[k - 1] : step[k][acc] \in T[k]
    BY <1>3
  <2>2. Leads(n, T, nothing, step)
    BY <1>2, <2>1 DEF Leads
  <2> HIDE DEF n
  <2>3. QED
    BY <1>1, <2>2, Recursion
<1>5. ASSUME NEW k \in 1 .. n PROVE f[k] = AddSentence(d, window, b, f[k - 1], ends[k])
  <2>1. k - 1 \in 0 .. n
    BY <1>1
  <2>2. f[k - 1] \in T[k - 1] /\ f[k] = step[k][f[k - 1]]
    BY <1>4, <2>1 DEF Takes
  <2>3. QED
    BY <1>3, <2>2
<1>6. Holds(f)
  <2>1. ASSUME NEW k \in 0 .. n
        PROVE  f[k] = IF k = 0 THEN nothing ELSE AddSentence(d, window, b, f[k - 1], ends[k])
    <3>1. k # 0 => k \in 1 .. n
      BY <1>1
    <3>2. QED
      BY <1>4, <1>5, <3>1 DEF Takes
  <2>2. QED
    BY <1>4, <2>1 DEF Takes
<1> DEFINE added == CHOOSE g : Holds(g)
<1>7. Holds(added)
  <2> HIDE DEF Holds
  <2>1. QED
    BY <1>6
<1>8. SplitOversized(d, window, b) = Held(b, added[n])
  BY DEF SplitOversized, nothing, ends
<1> HIDE DEF added, n
<1>9. \A k \in 0 .. n : added[k] = f[k]
  <2> DEFINE Same == {k \in 0 .. n : added[k] = f[k]}
  <2>1. 0 \in Same
    BY <1>1, <1>4, <1>7 DEF Takes
  <2>2. ASSUME NEW k \in 1 .. n, k - 1 \in Same PROVE k \in Same
    <3>1. k \in 0 .. n /\ k # 0 /\ added[k - 1] = f[k - 1]
      BY <2>2
    <3>2. added[k] = AddSentence(d, window, b, added[k - 1], ends[k])
      BY <1>7, <3>1
    <3>3. QED
      BY <1>5, <3>1, <3>2
  <2> HIDE DEF Same
  <2>3. \A k \in 0 .. n : k \in Same
    BY <1>1, <2>1, <2>2, Reaches
  <2>4. QED
    BY <2>3 DEF Same
<1> HIDE DEF Holds
<1>10. added[n] \in Sentences(d, window, I, b, ends, n)
  <2>1. n \in 0 .. n /\ f[n] \in T[n]
    BY <1>1, <1>4 DEF Takes
  <2>2. QED
    BY <1>9, <2>1 DEF T
<1>11. added[n].end = b.end /\ b.end \in Nat
  <2>1. n # 0
    BY <1>1
  <2>2. QED
    BY <1>1, <1>10, <2>1 DEF Sentences, BlockOn
<1>12. QED
  <2> DEFINE h == Held(b, added[n])
             last == added[n]
  <2>1. h = Held(b, last) /\ last \in Sentences(d, window, I, b, ends, n) /\ last.end <= b.end
    BY <1>10, <1>11
  <2> HIDE DEF h, last
  <2>2. Pieces(d, window, I, b, h, b.start, last.end)
    BY <2>1, HeldIsAPiece
  <2>3. QED
    BY <1>8, <1>11, <2>2 DEF h, last

-----------------------------------------------------------------------------
(* The packing of blocks in a row                                          *)

(* What is packed: ranges in a row to the end of the text, and no two in a *)
(* row, but tables, with the same ids.                                     *)
Tiled(d, I, W) ==
  /\ W \in Seq(BlockOn(I)) /\ W # <<>> /\ Abut(W, 0, Len(d.text))
  /\ \A i \in 1 .. Len(W) : W[i].kind = "mixed" <=> W[i].id = <<>>
  /\ \A i \in 1 .. Len(W) : W[i].end <= Len(d.text)
  /\ \A i \in 2 .. Len(W) :
       W[i - 1].kind # "table" /\ W[i].kind # "table" =>
         {W[i - 1].id} \ {<<>>} # {W[i].id} \ {<<>>}

(* The blocks and the gaps between them are such.                          *)
LEMMA TilesDiffer ==
  ASSUME NEW d, NEW I, LaidOut(d, I), NEW W, Tiling(d, I, W)
  PROVE  Tiled(d, I, W)
<1> DEFINE n == Len(W)
<1>1. /\ W \in Seq(BlockOn(I)) /\ W # <<>> /\ Abut(W, 0, Len(d.text)) /\ n \in Nat
      /\ Fills(d, I, W, Blocks(d))
  BY DEF Tiling, Fills
<1>2. \A b \in Blocks(d) : b.kind # "mixed" /\ b.id # <<>>
  BY DEF LaidOut
<1>3. \A i \in 1 .. n : \/ W[i].kind = "mixed" /\ W[i].id = <<>>
                        \/ \E b \in Blocks(d) : Stretches(d, b, W[i])
  BY <1>1 DEF Fills
<1>4. \A i \in 1 .. n : W[i].kind = "mixed" <=> W[i].id = <<>>
  BY <1>2, <1>3 DEF Stretches
<1>5. \A i \in 1 .. n : W[i].end <= Len(d.text)
  BY <1>1, RowsOfRangesAscend
<1>6. ASSUME NEW i \in 2 .. n, W[i - 1].kind # "table", W[i].kind # "table"
      PROVE  {W[i - 1].id} \ {<<>>} # {W[i].id} \ {<<>>}
  <2>1. i \in 1 .. n /\ i - 1 \in 1 .. n /\ i - 1 \in 1 .. i - 1
    BY <1>1
  <2>2. W[i].kind # "mixed" \/ W[i - 1].kind # "mixed"
    BY <1>1 DEF Fills
  <2>3. CASE W[i].kind = "mixed" \/ W[i - 1].kind = "mixed"
    <3>1. W[i].id # W[i - 1].id
      BY <1>4, <2>1, <2>2, <2>3
    <3>2. QED
      BY <3>1
  <2>4. CASE W[i].kind # "mixed" /\ W[i - 1].kind # "mixed"
    <3>1. PICK a \in Blocks(d) : Stretches(d, a, W[i - 1])
      BY <1>3, <2>1, <2>4
    <3>2. PICK b \in Blocks(d) : Stretches(d, b, W[i])
      BY <1>3, <2>1, <2>4
    <3>3. a.kind # "table" /\ b.kind # "table" /\ a.start = W[i - 1].start /\ b.start = W[i].start
          /\ a.id = W[i - 1].id /\ b.id = W[i].id
      BY <1>6, <3>1, <3>2 DEF Stretches
    <3>4. W[i - 1].start < W[i].start /\ W[i - 1].start \in Nat /\ W[i].start \in Nat
      <4>1. W[i - 1].start \in Nat /\ W[i].start \in Nat
        BY <1>1, <2>1 DEF Abut
      <4>2. \A j \in 1 .. i - 1 : W[j].start < W[i].start
        BY <1>1, <2>1, RowsOfRangesAscend
      <4>3. QED
        BY <2>1, <4>1, <4>2
    <3>5. a # b
      BY <3>3, <3>4
    <3>6. a.id # b.id
      BY <3>3, <3>5 DEF LaidOut
    <3>7. a.id # <<>> /\ b.id # <<>>
      BY <1>2
    <3>8. QED
      BY <3>3, <3>6, <3>7
  <2>5. QED
    BY <2>3, <2>4
<1>7. QED
  BY <1>1, <1>4, <1>5, <1>6 DEF Tiled

At(W, p) == IF p = 0 THEN 0 ELSE W[p].end
IsWhole(d, window, b) == b.kind = "table" \/ ~TooLong(d, window, b.start, b.end)
Holding(b, x) ==
  /\ x.start <= b.start /\ b.end <= x.end /\ (b.kind # "mixed" => b.id \in x.ids)
  /\ b.kind = "section" => x.start = b.start /\ x.kind = "section"
TableOf(b, x) ==
  b.kind = "table" /\ x.start = b.start /\ x.end = b.end /\ x.ids = {b.id}
Cut(b, x) ==
  x.reason = "oversized_sentence" => b.kind # "table" /\ x.ids = {b.id} \ {<<>>}
Says(d, window, W, x, p, q) ==
  /\ x.kind = "table" => \E i \in p + 1 .. q : TableOf(W[i], x)
  /\ TooLong(d, window, x.start, x.end) =>
       \/ x.reason = "oversized_sentence" /\ x.end = x.start + 1
       \/ /\ x.reason = "atomic_table_overflow"
          /\ \E i \in p + 1 .. q : /\ W[i].kind = "table"
                                   /\ TooLong(d, window, W[i].start, W[i].end)

(* s holds the blocks of W behind the first p, up to the first q.          *)
Packs(d, window, I, W, s, p, q) ==
  /\ s \in Seq(ChunkOn(I)) /\ Abut(s, At(W, p), At(W, q)) /\ Tight(d, window, s)
  /\ s = <<>> <=> p = q
  /\ \A i \in p + 1 .. q :
       IsWhole(d, window, W[i]) => \E k \in 1 .. Len(s) : Holding(W[i], s[k])
  /\ \A k \in 1 .. Len(s) : Says(d, window, W, s[k], p, q)
  /\ s # <<>> => Cut(W[p + 1], s[1]) /\ Cut(W[q], s[Len(s)])

(* What holds the blocks up to q, and what holds those behind, together.   *)
LEMMA PackingsJoin ==
  ASSUME NEW d, NEW window, NEW I, NEW W, Tiled(d, I, W), NEW s, NEW t,
         NEW p \in Nat, NEW q \in Nat, NEW r \in Nat, p <= q, q <= r, r <= Len(W),
         Packs(d, window, I, W, s, p, q), Packs(d, window, I, W, t, q, r)
  PROVE  Packs(d, window, I, W, s \o t, p, r)
<1> DEFINE u == s \o t
           m == Len(s)
           l == Len(t)
<1>1. s \in Seq(ChunkOn(I)) /\ t \in Seq(ChunkOn(I)) /\ m \in Nat /\ l \in Nat
  BY DEF Packs
<1>2. /\ u \in Seq(ChunkOn(I)) /\ Len(u) = m + l /\ (u = <<>> <=> s = <<>> /\ t = <<>>)
      /\ \A i \in 1 .. m : u[i] = s[i]
      /\ \A i \in 1 .. l : u[m + i] = t[i]
      /\ (s = <<>> <=> m = 0) /\ (t = <<>> <=> l = 0) /\ (t = <<>> => u = s) /\ (s = <<>> => u = t)
  BY <1>1, SMTT(30)
<1>3. Abut(u, At(W, p), At(W, r))
  BY <1>1, RowsOfRangesJoin DEF Packs
<1>4. s # <<>> /\ t # <<>> => Late(d, window, s[m], t[1])
  <2>1. SUFFICES ASSUME s # <<>>, t # <<>>, t[1].reason = "oversized_sentence",
                        s[m].reason = "oversized_sentence"
                 PROVE  t[1].ids # s[m].ids
    BY DEF Late
  <2>2. Cut(W[q], s[m]) /\ Cut(W[q + 1], t[1])
    BY <2>1 DEF Packs
  <2>3. q + 1 \in 2 .. Len(W) /\ (q + 1) - 1 = q
    <3>1. p # q /\ q # r
      BY <2>1 DEF Packs
    <3>2. Len(W) \in Nat
      BY DEF Tiled
    <3>3. QED
      BY <3>1, <3>2
  <2>4. {W[q].id} \ {<<>>} # {W[q + 1].id} \ {<<>>}
    BY <2>1, <2>2, <2>3 DEF Tiled, Cut
  <2>5. QED
    BY <2>1, <2>2, <2>4 DEF Cut
<1>5. Tight(d, window, u)
  BY <1>1, <1>4, TightJoin DEF Packs
<1> HIDE DEF u
<1>6. u = <<>> <=> p = r
  <2>1. (s = <<>> <=> p = q) /\ (t = <<>> <=> q = r)
    BY DEF Packs
  <2>2. QED
    BY <1>2, <2>1
<1>7. ASSUME NEW i \in p + 1 .. r, IsWhole(d, window, W[i])
      PROVE  \E k \in 1 .. Len(u) : Holding(W[i], u[k])
  <2>1. CASE i <= q
    <3>1. i \in p + 1 .. q
      BY <2>1
    <3>2. PICK k \in 1 .. m : Holding(W[i], s[k])
      BY <1>7, <3>1 DEF Packs
    <3>3. k \in 1 .. Len(u) /\ u[k] = s[k]
      BY <1>1, <1>2
    <3>4. QED
      BY <3>2, <3>3
  <2>2. CASE ~(i <= q)
    <3>1. i \in q + 1 .. r
      BY <2>2
    <3>2. PICK k \in 1 .. l : Holding(W[i], t[k])
      BY <1>7, <3>1 DEF Packs
    <3>3. m + k \in 1 .. Len(u) /\ u[m + k] = t[k]
      BY <1>1, <1>2
    <3>4. QED
      BY <3>2, <3>3
  <2>3. QED
    BY <2>1, <2>2
<1>8. ASSUME NEW k \in 1 .. Len(u) PROVE Says(d, window, W, u[k], p, r)
  <2>1. (\A i \in p + 1 .. q : i \in p + 1 .. r) /\ (\A i \in q + 1 .. r : i \in p + 1 .. r)
    OBVIOUS
  <2>2. CASE k <= m
    <3>1. k \in 1 .. m
      BY <1>1, <2>2
    <3>2. u[k] = s[k] /\ Says(d, window, W, s[k], p, q)
      BY <1>2, <3>1 DEF Packs
    <3>3. QED
      BY <2>1, <3>2 DEF Says
  <2>3. CASE ~(k <= m)
    <3>1. k - m \in 1 .. l /\ m + (k - m) = k
      BY <1>1, <1>2, <2>3
    <3>2. u[k] = t[k - m] /\ Says(d, window, W, t[k - m], q, r)
      BY <1>2, <3>1 DEF Packs
    <3>3. QED
      BY <2>1, <3>2 DEF Says
  <2>4. QED
    BY <2>2, <2>3
<1>9. u # <<>> => Cut(W[p + 1], u[1]) /\ Cut(W[r], u[Len(u)])
  <2>1. SUFFICES ASSUME u # <<>> PROVE Cut(W[p + 1], u[1]) /\ Cut(W[r], u[Len(u)])
    OBVIOUS
  <2>2. CASE s = <<>>
    <3>1. p = q /\ u = t
      BY <1>2, <2>2 DEF Packs
    <3>2. QED
      BY <2>1, <3>1 DEF Packs
  <2>3. CASE t = <<>>
    <3>1. r = q /\ u = s
      BY <1>2, <2>3 DEF Packs
    <3>2. QED
      BY <2>1, <3>1 DEF Packs
  <2>4. CASE s # <<>> /\ t # <<>>
    <3>1. 1 \in 1 .. m /\ l \in 1 .. l
      BY <1>1, <1>2, <2>4
    <3>2. u[1] = s[1] /\ u[Len(u)] = t[l]
      BY <1>2, <3>1
    <3>3. QED
      BY <2>4, <3>2 DEF Packs
  <2>5. QED
    BY <2>2, <2>3, <2>4
<1>10. Packs(d, window, I, W, u, p, r)
  BY <1>2, <1>3, <1>5, <1>6, <1>7, <1>8, <1>9 DEF Packs
<1>11. QED
  BY <1>10 DEF u

(* Where a block of a row begins and ends.                                 *)
LEMMA BlocksInARow ==
  ASSUME NEW d, NEW I, NEW W, Tiled(d, I, W), NEW k \in 1 .. Len(W)
  PROVE  /\ W[k] \in BlockOn(I) /\ At(W, k - 1) = W[k].start /\ At(W, k) = W[k].end
         /\ W[k].start \in Nat /\ W[k].end \in Nat /\ W[k].start < W[k].end
         /\ W[k].end <= Len(d.text) /\ k \in Nat
         /\ \A i \in 1 .. k : W[i].start <= W[k].start /\ W[i].end <= W[k].end
<1>1. W \in Seq(BlockOn(I)) /\ Abut(W, 0, Len(d.text)) /\ W # <<>> /\ Len(W) \in Nat
  BY DEF Tiled
<1>2. W[k] \in BlockOn(I) /\ W[k].start \in Nat /\ W[k].end \in Nat /\ W[k].start < W[k].end
      /\ W[k].end <= Len(d.text)
  BY <1>1 DEF Abut, Tiled
<1>3. At(W, k) = W[k].end
  BY <1>1 DEF At
<1>4. At(W, k - 1) = W[k].start
  <2>1. CASE k = 1
    BY <1>1, <2>1 DEF At, Abut
  <2>2. CASE k # 1
    <3>1. k \in 2 .. Len(W) /\ k - 1 # 0
      BY <1>1, <2>2
    <3>2. QED
      BY <1>1, <3>1 DEF At, Abut
  <2>3. QED
    BY <2>1, <2>2
<1>5. ASSUME NEW i \in 1 .. k PROVE W[i].start <= W[k].start /\ W[i].end <= W[k].end
  <2>1. CASE i = k
    BY <1>2, <2>1
  <2>2. CASE i # k
    <3>1. i \in 1 .. k - 1 /\ i \in 1 .. Len(W)
      BY <1>1, <2>2
    <3>2. W[i].end <= W[k].start /\ W[i].start < W[k].start
      BY <1>1, <3>1, RowsOfRangesAscend
    <3>3. W[i].start \in Nat /\ W[i].end \in Nat
      BY <1>1, <3>1 DEF Abut
    <3>4. QED
      BY <1>2, <3>2, <3>3
  <2>3. QED
    BY <2>1, <2>2
<1>6. k \in Nat
  BY <1>1
<1>7. QED
  BY <1>2, <1>3, <1>4, <1>5, <1>6

(* One chunk that holds the blocks behind the first p up to the q-th.      *)
LEMMA OneChunkPacks ==
  ASSUME NEW d, NEW window, NEW I, NEW W, NEW p \in Nat, NEW q \in Nat, p < q,
         NEW x \in ChunkOn(I), x.start = At(W, p), x.end = At(W, q), x.start < x.end,
         x.reason # "oversized_sentence",
         \A i \in p + 1 .. q : IsWhole(d, window, W[i]) => Holding(W[i], x),
         Says(d, window, W, x, p, q)
  PROVE  Packs(d, window, I, W, <<x>>, p, q)
<1> DEFINE s == <<x>>
           X == ChunkOn(I)
<1>1. s \in Seq(X) /\ Len(s) = 1 /\ s[1] = x /\ s # <<>>
  <2> HIDE DEF X
  <2>1. QED
    BY DEF X
<1>2. Abut(s, At(W, p), At(W, q))
  <2>1. x.start \in Nat /\ x.end \in Nat
    BY DEF ChunkOn
  <2>2. QED
    BY <2>1, OneRangeAbuts
<1>3. Tight(d, window, s)
  BY <1>1 DEF Tight
<1> HIDE DEF s
<1>4. \A k \in 1 .. Len(s) : k = 1
  BY <1>1
<1>5. Cut(W[p + 1], s[1]) /\ Cut(W[q], s[Len(s)])
  BY <1>1 DEF Cut
<1>6. \A i \in p + 1 .. q :
        IsWhole(d, window, W[i]) => \E k \in 1 .. Len(s) : Holding(W[i], s[k])
  BY <1>1
<1>7. \A k \in 1 .. Len(s) : Says(d, window, W, s[k], p, q)
  BY <1>1, <1>4
<1>8. p # q
  OBVIOUS
<1>9. Packs(d, window, I, W, s, p, q)
  BY <1>1, <1>2, <1>3, <1>5, <1>6, <1>7, <1>8 DEF Packs, X
<1>10. QED
  BY <1>9 DEF s

(* A table is a chunk of its own.                                          *)
LEMMA TablesPack ==
  ASSUME NEW d, NEW window, NEW I, NEW W, Tiled(d, I, W), NEW k \in 1 .. Len(W),
         W[k].kind = "table", NEW x, x = PackTable(d, window, W[k])
  PROVE  x \in ChunkOn(I) /\ Packs(d, window, I, W, <<x>>, k - 1, k)
<1> DEFINE b == W[k]
           p == k - 1
<1>1. /\ b \in BlockOn(I) /\ At(W, p) = b.start /\ At(W, k) = b.end /\ b.start \in Nat
      /\ b.end \in Nat /\ b.start < b.end /\ k \in Nat
  BY BlocksInARow
<1>2. p \in Nat /\ p < k /\ (\A i \in p + 1 .. k : i = k) /\ k \in p + 1 .. k
  BY <1>1
<1>3. /\ x.start = b.start /\ x.end = b.end /\ x.kind = "table" /\ x.ids = {b.id}
      /\ x.reason = IF TooLong(d, window, b.start, b.end)
                    THEN "atomic_table_overflow" ELSE "boundary"
      /\ x \in ChunkOn(I)
  <2> DEFINE reason == IF TooLong(d, window, b.start, b.end)
                       THEN "atomic_table_overflow" ELSE "boundary"
  <2> HIDE DEF b
  <2>1. x = Packed(b.start, b.end, "table", {b.id}, reason)
    BY DEF b, PackTable
  <2>2. reason \in Reason
    BY DEF Reason
  <2> HIDE DEF reason
  <2>3. /\ x.start = b.start /\ x.end = b.end /\ x.kind = "table" /\ x.ids = {b.id}
        /\ x.reason = reason
    BY <2>1 DEF Packed
  <2>4. x = [start |-> x.start, end |-> x.end, kind |-> x.kind, ids |-> x.ids,
             reason |-> x.reason]
    BY <2>1 DEF Packed
  <2>5. x.ids \in SUBSET I /\ x.reason \in Reason /\ x.kind \in BlockKind
    BY <1>1, <2>2, <2>3 DEF BlockOn, BlockKind
  <2>6. x \in ChunkOn(I)
    BY <1>1, <2>3, <2>4, <2>5 DEF ChunkOn
  <2>7. QED
    BY <2>3, <2>6 DEF reason
<1>4. \A i \in p + 1 .. k : Holding(W[i], x)
  <2>1. Holding(b, x)
    BY <1>1, <1>3 DEF Holding
  <2>2. QED
    BY <1>2, <2>1
<1>5. Says(d, window, W, x, p, k)
  <2>1. TableOf(b, x)
    BY <1>3 DEF TableOf
  <2>2. TooLong(d, window, x.start, x.end) => x.reason = "atomic_table_overflow"
    BY <1>3
  <2>3. QED
    BY <1>2, <1>3, <2>1, <2>2 DEF Says
<1>6. x.start < x.end /\ x.start = At(W, p) /\ x.end = At(W, k)
      /\ x.reason # "oversized_sentence"
  BY <1>1, <1>3
<1> HIDE DEF p, b
<1>7. Packs(d, window, I, W, <<x>>, p, k)
  BY <1>1, <1>2, <1>3, <1>4, <1>5, <1>6, OneChunkPacks
<1>8. QED
  BY <1>3, <1>7 DEF p

(* So are the pieces of a block that is too large.                         *)
LEMMA PiecesPack ==
  ASSUME NEW d, NEW window, NEW I, NEW W, Tiled(d, I, W), NEW k \in 1 .. Len(W),
         W[k].kind # "table", TooLong(d, window, W[k].start, W[k].end), NEW s,
         Pieces(d, window, I, W[k], s, W[k].start, W[k].end)
  PROVE  Packs(d, window, I, W, s, k - 1, k)
<1> DEFINE b == W[k]
           p == k - 1
<1>1. /\ At(W, p) = b.start /\ At(W, k) = b.end /\ b.start \in Nat
      /\ b.end \in Nat /\ b.start < b.end /\ k \in Nat
  BY BlocksInARow
<1>2. p # k /\ (\A i \in p + 1 .. k : i = k) /\ p + 1 = k
  BY <1>1
<1>3. /\ s \in Seq(ChunkOn(I)) /\ Abut(s, b.start, b.end) /\ Tight(d, window, s)
      /\ \A i \in 1 .. Len(s) : IsPiece(d, window, b, s[i])
  BY DEF Pieces
<1>4. s # <<>>
  BY <1>1, <1>3 DEF Abut
<1>5. \A i \in p + 1 .. k : ~IsWhole(d, window, W[i])
  BY <1>2 DEF IsWhole
<1>6. \A i \in 1 .. Len(s) : Says(d, window, W, s[i], p, k) /\ Cut(b, s[i])
  BY <1>3 DEF Says, Cut, IsPiece
<1>7. 1 \in 1 .. Len(s) /\ Len(s) \in 1 .. Len(s)
  BY <1>3, <1>4
<1>8. Cut(W[p + 1], s[1]) /\ Cut(W[k], s[Len(s)])
  BY <1>2, <1>6, <1>7
<1>9. \A i \in 1 .. Len(s) : Says(d, window, W, s[i], p, k)
  BY <1>6
<1> HIDE DEF p, b
<1>10. Packs(d, window, I, W, s, p, k)
  BY <1>1, <1>2, <1>3, <1>4, <1>5, <1>8, <1>9 DEF Packs
<1>11. QED
  BY <1>10 DEF p

(* The blocks held back fit a window together, and only the first of them  *)
(* may lead a section.                                                     *)
Together(d, window, W, c, k) ==
  /\ \A i \in c + 1 .. k : W[i].kind # "table" /\ (i > c + 1 => W[i].kind # "section")
  /\ ~TooLong(d, window, W[c + 1].start, W[k].end)

(* The kind of their chunk.                                                *)
LEMMA KindsOfBlocks ==
  ASSUME NEW I, NEW s \in Seq(BlockOn(I)), s # <<>>,
         \A i \in 1 .. Len(s) : s[i].kind # "table", NEW x, x = PackBlocks(s)
  PROVE  /\ x \in ChunkOn(I) /\ x.start = s[1].start /\ x.end = s[Len(s)].end
         /\ x.kind # "table" /\ x.reason = "boundary"
         /\ \A i \in 1 .. Len(s) : /\ s[i].id # <<>> => s[i].id \in x.ids
                                   /\ s[i].kind = "section" => x.kind = "section"
<1> DEFINE B == ToSet(s)
           ids == {b.id : b \in B} \ {<<>>}
           kinds == {b.kind : b \in B} \ {"mixed"}
           kind == CASE "section" \in kinds -> "section"
                     [] kinds \in {{"paragraph"}, {"list_item"}} -> CHOOSE k \in kinds : TRUE
                     [] OTHER -> "mixed"
<1>1. /\ DOMAIN s = 1 .. Len(s) /\ Len(s) \in Nat /\ 1 \in 1 .. Len(s)
      /\ Len(s) \in 1 .. Len(s)
      /\ \A i \in 1 .. Len(s) : s[i] \in BlockOn(I)
  OBVIOUS
<1>2. (\A i \in 1 .. Len(s) : s[i] \in B) /\ \A b \in B : b \in BlockOn(I)
  BY <1>1 DEF ToSet
<1>3. x = Packed(s[1].start, s[Len(s)].end, kind, ids, "boundary")
  BY DEF PackBlocks, Last
<1> HIDE DEF B
<1>4. ids \in SUBSET I /\ \A i \in 1 .. Len(s) : s[i].id # <<>> => s[i].id \in ids
  BY <1>1, <1>2 DEF BlockOn
<1>5. \A i \in 1 .. Len(s) : s[i].kind = "section" => "section" \in kinds
  BY <1>2
<1> HIDE DEF ids, kinds
<1>6. kind \in {"section", "paragraph", "list_item", "mixed"}
  <2>1. CASE "section" \in kinds
    BY <2>1
  <2>2. CASE "section" \notin kinds /\ kinds \in {{"paragraph"}, {"list_item"}}
    <3>1. kind = CHOOSE k \in kinds : TRUE
      BY <2>2
    <3>2. \E k \in kinds : TRUE
      BY <2>2
    <3>3. (CHOOSE k \in kinds : TRUE) \in kinds
      BY <3>2
    <3>4. QED
      BY <2>2, <3>1, <3>3
  <2>3. CASE "section" \notin kinds /\ kinds \notin {{"paragraph"}, {"list_item"}}
    BY <2>3
  <2>4. QED
    BY <2>1, <2>2, <2>3
<1>7. "section" \in kinds => kind = "section"
  OBVIOUS
<1> HIDE DEF kind
<1>8. /\ x.start = s[1].start /\ x.end = s[Len(s)].end /\ x.kind = kind /\ x.ids = ids
      /\ x.reason = "boundary"
  BY <1>3 DEF Packed
<1>9. x \in ChunkOn(I)
  BY <1>1, <1>3, <1>4, <1>6, SMTT(30) DEF Packed, ChunkOn, BlockOn, BlockKind, Reason
<1>10. QED
  BY <1>4, <1>5, <1>6, <1>7, <1>8, <1>9

(* And so are they.                                                        *)
LEMMA TogetherThePack ==
  ASSUME NEW d, NEW window, NEW I, NEW W, Tiled(d, I, W), NEW c \in Nat,
         NEW k \in 1 .. Len(W), c < k, Together(d, window, W, c, k),
         NEW x, x = PackBlocks(SubSeq(W, c + 1, k))
  PROVE  x \in ChunkOn(I) /\ Packs(d, window, I, W, <<x>>, c, k)
<1> DEFINE s == SubSeq(W, c + 1, k)
<1>1. W \in Seq(BlockOn(I)) /\ Len(W) \in Nat /\ k \in Nat /\ c + 1 \in 1 .. Len(W)
  BY DEF Tiled
<1>2. /\ s \in Seq(BlockOn(I)) /\ Len(s) = k - c /\ s # <<>>
      /\ \A i \in 1 .. k - c : s[i] = W[c + i]
  <2> DEFINE X == BlockOn(I)
  <2> HIDE DEF X
  <2>1. W \in Seq(X) /\ k <= Len(W)
    BY <1>1 DEF X
  <2>2. s \in Seq(X)
    BY <1>1, <2>1
  <2>3. Len(s) = k - c
    BY <1>1, <2>1
  <2>4. \A i \in 1 .. k - c : s[i] = W[c + i]
    BY <1>1, <2>1
  <2>5. s # <<>>
    <3>1. k - c # 0
      BY <1>1
    <3> HIDE DEF s
    <3>2. QED
      BY <2>3, <3>1
  <2> HIDE DEF s
  <2>6. QED
    BY <2>2, <2>3, <2>4, <2>5 DEF X
<1>3. x = PackBlocks(s)
  OBVIOUS
<1> HIDE DEF s
<1>4. \A i \in 1 .. k - c : c + i \in c + 1 .. k
  BY <1>1
<1>5. \A i \in 1 .. Len(s) : s[i].kind # "table"
  BY <1>2, <1>4 DEF Together
<1>6. /\ x \in ChunkOn(I) /\ x.start = s[1].start /\ x.end = s[Len(s)].end
      /\ x.kind # "table" /\ x.reason = "boundary"
      /\ \A i \in 1 .. Len(s) : /\ s[i].id # <<>> => s[i].id \in x.ids
                                /\ s[i].kind = "section" => x.kind = "section"
  BY <1>2, <1>3, <1>5, KindsOfBlocks
<1>7. 1 \in 1 .. k - c /\ k - c \in 1 .. k - c /\ c + (k - c) = k /\ (c + 1) - 1 = c
  BY <1>1
<1>8. x.start = W[c + 1].start /\ x.end = W[k].end
  BY <1>2, <1>6, <1>7
<1>9. At(W, c) = x.start /\ At(W, k) = x.end /\ x.start < x.end
  <2>1. At(W, c) = W[c + 1].start /\ W[c + 1].start \in Nat
    BY <1>1, <1>7, BlocksInARow
  <2>2. /\ At(W, k) = W[k].end /\ W[k].end \in Nat /\ W[k].start \in Nat
        /\ W[k].start < W[k].end /\ \A i \in 1 .. k : W[i].start <= W[k].start
    BY BlocksInARow
  <2>3. c + 1 \in 1 .. k
    BY <1>1
  <2>4. QED
    BY <1>8, <2>1, <2>2, <2>3
<1>10. ASSUME NEW i \in c + 1 .. k PROVE Holding(W[i], x)
  <2>1. i - c \in 1 .. k - c /\ c + (i - c) = i /\ i \in 1 .. Len(W) /\ i \in 1 .. k
        /\ c + 1 \in 1 .. i
    BY <1>1
  <2>2. s[i - c] = W[i]
    BY <1>2, <2>1
  <2>3. (W[i].id # <<>> => W[i].id \in x.ids) /\ (W[i].kind = "section" => x.kind = "section")
    BY <1>2, <1>6, <2>1, <2>2
  <2>4. W[i].kind # "mixed" => W[i].id # <<>>
    BY <2>1 DEF Tiled
  <2>5. W[i].end <= W[k].end
    BY <2>1, BlocksInARow
  <2>6. W[c + 1].start <= W[i].start
    BY <2>1, BlocksInARow
  <2>7. W[i].kind = "section" => i = c + 1
    BY <2>1 DEF Together
  <2>8. QED
    BY <1>8, <2>3, <2>4, <2>5, <2>6, <2>7 DEF Holding
<1>11. Says(d, window, W, x, c, k)
  BY <1>6, <1>8 DEF Says, Together
<1>12. Packs(d, window, I, W, <<x>>, c, k)
  <2>1. x.reason # "oversized_sentence" /\ k \in Nat
    BY <1>1, <1>6
  <2>2. QED
    BY <1>6, <1>9, <1>10, <1>11, <2>1, OneChunkPacks
<1>13. QED
  BY <1>6, <1>12

(* k blocks are read: some are packed, the others wait together.           *)
Packing(d, window, I, W, k) ==
  {acc \in [chunks : Seq(ChunkOn(I)), current : Seq(BlockOn(I))] :
     \E c \in 0 .. k : /\ Packs(d, window, I, W, acc.chunks, 0, c)
                       /\ acc.current = SubSeq(W, c + 1, k)
                       /\ c < k => Together(d, window, W, c, k)}

(* Nothing waits.                                                          *)
LEMMA NothingWaits ==
  ASSUME NEW d, NEW window, NEW I, NEW W, NEW k \in Nat, NEW s,
         Packs(d, window, I, W, s, 0, k), NEW acc, acc = [chunks |-> s, current |-> <<>>]
  PROVE  acc \in Packing(d, window, I, W, k)
<1> DEFINE X == ChunkOn(I)
           Y == BlockOn(I)
<1>1. s \in Seq(X)
  BY DEF Packs
<1> HIDE DEF X, Y
<1>2. <<>> \in Seq(Y)
  OBVIOUS
<1>3. acc \in [chunks : Seq(X), current : Seq(Y)] /\ acc.chunks = s /\ acc.current = <<>>
  BY <1>1, <1>2
<1>4. k \in 0 .. k /\ SubSeq(W, k + 1, k) = <<>> /\ ~(k < k)
  OBVIOUS
<1>5. QED
  BY <1>3, <1>4 DEF Packing, X, Y

(* What waits becomes a chunk.                                             *)
LEMMA WaitingIsFlushed ==
  ASSUME NEW d, NEW window, NEW I, NEW W, Tiled(d, I, W), NEW k \in Nat, k <= Len(W),
         NEW acc \in Packing(d, window, I, W, k)
  PROVE  \E s : Packs(d, window, I, W, s, 0, k) /\ Flush(acc) = [chunks |-> s, current |-> <<>>]
<1> DEFINE X == ChunkOn(I)
           Y == BlockOn(I)
<1>1. W \in Seq(Y) /\ Len(W) \in Nat
  BY DEF Tiled
<1>2. PICK c \in 0 .. k : /\ Packs(d, window, I, W, acc.chunks, 0, c)
                          /\ acc.current = SubSeq(W, c + 1, k)
                          /\ c < k => Together(d, window, W, c, k)
  BY DEF Packing
<1>3. acc = [chunks |-> acc.chunks, current |-> acc.current] /\ acc.chunks \in Seq(X)
  BY DEF Packing
<1>4. CASE c = k
  <2>1. acc.current = <<>>
    BY <1>2, <1>4
  <2>2. Flush(acc) = [chunks |-> acc.chunks, current |-> <<>>]
    BY <1>3, <2>1 DEF Flush
  <2>3. QED
    BY <1>2, <1>4, <2>2
<1>5. CASE c < k
  <2> DEFINE x == PackBlocks(acc.current)
             s == Append(acc.chunks, x)
  <2>1. acc.current # <<>>
    <3>1. Len(acc.current) = k - c /\ k - c # 0
      <4> HIDE DEF Y
      <4> QED
        BY <1>1, <1>2, <1>5
    <3>2. QED
      BY <3>1
  <2>2. Flush(acc) = [chunks |-> s, current |-> <<>>]
    BY <2>1 DEF Flush
  <2>3. x \in ChunkOn(I) /\ Packs(d, window, I, W, <<x>>, c, k)
    <3>1. x = PackBlocks(SubSeq(W, c + 1, k)) /\ k \in 1 .. Len(W) /\ c \in Nat
          /\ Together(d, window, W, c, k)
      BY <1>1, <1>2, <1>5
    <3> HIDE DEF x
    <3>2. QED
      BY <1>5, <3>1, TogetherThePack
  <2> HIDE DEF x, X
  <2>4. s = acc.chunks \o <<x>>
    BY <1>3, <2>3 DEF X
  <2>5. Packs(d, window, I, W, acc.chunks \o <<x>>, 0, k)
    <3>1. 0 \in Nat /\ c \in Nat /\ 0 <= c /\ c <= k
      BY <1>2
    <3>2. QED
      BY <1>2, <2>3, <3>1, PackingsJoin
  <2>6. QED
    BY <2>2, <2>4, <2>5
<1>6. QED
  BY <1>2, <1>4, <1>5

(* One block of pack_boundary_aware_chunks.                                *)
LEMMA BlocksArePacked ==
  ASSUME NEW d, d.text \in Text, NEW window \in Nat, NEW I, <<>> \in I, NEW W, Tiled(d, I, W),
         NEW k \in 1 .. Len(W), NEW acc \in Packing(d, window, I, W, k - 1)
  PROVE  PackBlock(d, window, acc, W[k]) \in Packing(d, window, I, W, k)
<1> DEFINE b == W[k]
           X == ChunkOn(I)
           Y == BlockOn(I)
           new == PackBlock(d, window, acc, b)
<1>1. /\ b \in BlockOn(I) /\ b.start < b.end /\ b.end <= Len(d.text) /\ k \in Nat
      /\ k - 1 \in Nat /\ W \in Seq(Y) /\ Len(W) \in Nat /\ k - 1 <= Len(W)
  <2>1. W \in Seq(Y) /\ Len(W) \in Nat
    BY DEF Tiled
  <2>2. /\ b \in BlockOn(I) /\ b.start < b.end /\ b.end <= Len(d.text) /\ k \in Nat
    BY BlocksInARow
  <2>3. QED
    BY <2>1, <2>2
<1>2. PICK s : /\ Packs(d, window, I, W, s, 0, k - 1)
               /\ Flush(acc) = [chunks |-> s, current |-> <<>>]
  BY <1>1, WaitingIsFlushed
<1>3. s \in Seq(X)
  BY <1>2 DEF Packs
<1>4. 0 <= k - 1 /\ k - 1 <= k /\ k <= Len(W) /\ 0 \in Nat
  BY <1>1
<1>5. CASE b.kind = "table"
  <2> DEFINE x == PackTable(d, window, b)
             all == Append(s, x)
  <2>1. new = [Flush(acc) EXCEPT !.chunks = Append(@, x)]
    BY <1>5 DEF PackBlock
  <2>2. new = [chunks |-> all, current |-> <<>>]
    <3> DEFINE f == Flush(acc)
    <3>1. f = [chunks |-> s, current |-> <<>>]
      BY <1>2
    <3>2. new = [f EXCEPT !.chunks = Append(f.chunks, x)]
      BY <2>1
    <3> HIDE DEF new, x, f
    <3>3. QED
      BY <3>1, <3>2
  <2>3. x \in ChunkOn(I) /\ Packs(d, window, I, W, <<x>>, k - 1, k)
    BY <1>5, TablesPack
  <2> HIDE DEF x, X
  <2>4. all = s \o <<x>>
    BY <1>3, <2>3 DEF X
  <2>5. Packs(d, window, I, W, s \o <<x>>, 0, k)
    BY <1>1, <1>2, <1>4, <2>3, PackingsJoin
  <2> HIDE DEF new, b
  <2>6. new \in Packing(d, window, I, W, k)
    BY <1>1, <2>2, <2>4, <2>5, NothingWaits
  <2>7. QED
    BY <2>6 DEF new, b
<1>6. CASE b.kind # "table" /\ TooLong(d, window, b.start, b.end)
  <2> DEFINE t == SplitOversized(d, window, b)
             all == s \o t
  <2>1. new = [Flush(acc) EXCEPT !.chunks = @ \o t]
    BY <1>6 DEF PackBlock
  <2>2. new = [chunks |-> all, current |-> <<>>]
    <3> DEFINE f == Flush(acc)
    <3>1. f = [chunks |-> s, current |-> <<>>]
      BY <1>2
    <3>2. new = [f EXCEPT !.chunks = f.chunks \o t]
      BY <2>1
    <3> HIDE DEF new, t, f
    <3>3. QED
      BY <3>1, <3>2
  <2>3. Pieces(d, window, I, b, t, b.start, b.end)
    <3> HIDE DEF b
    <3> QED
      BY <1>1, <1>6, OversizedBlocksSplit
  <2> HIDE DEF t
  <2>4. Packs(d, window, I, W, t, k - 1, k)
    BY <1>6, <2>3, PiecesPack
  <2>5. Packs(d, window, I, W, s \o t, 0, k)
    BY <1>1, <1>2, <1>4, <2>4, PackingsJoin
  <2> HIDE DEF new, b
  <2>6. new \in Packing(d, window, I, W, k)
    BY <1>1, <2>2, <2>5, NothingWaits
  <2>7. QED
    BY <2>6 DEF new, b
<1>7. ASSUME b.kind # "table", ~TooLong(d, window, b.start, b.end)
      PROVE  new \in Packing(d, window, I, W, k)
  <2> DEFINE flushed == b.kind = "section" \/ Outgrown(d, window, acc.current, b)
             before == IF flushed THEN Flush(acc) ELSE acc
             Waits(c, held) == /\ Packs(d, window, I, W, held, 0, c)
                               /\ c \in 0 .. k - 1
                               /\ before = [chunks |-> held, current |-> SubSeq(W, c + 1, k - 1)]
                               /\ Together(d, window, W, c, k)
  <2>1. new = [before EXCEPT !.current = Append(@, b)]
    BY <1>7 DEF PackBlock
  <2>2. Together(d, window, W, k - 1, k)
    <3>1. \A i \in (k - 1) + 1 .. k : i = k /\ ~(i > (k - 1) + 1)
      BY <1>1
    <3>2. (k - 1) + 1 = k
      BY <1>1
    <3>3. QED
      BY <1>7, <3>1, <3>2 DEF Together
  <2>3. SubSeq(W, (k - 1) + 1, k - 1) = <<>> /\ k - 1 \in 0 .. k - 1
    BY <1>1
  <2>4. \E c, held : Waits(c, held)
    <3>1. CASE flushed
      <4>1. before = [chunks |-> s, current |-> <<>>]
        BY <1>2, <3>1
      <4> HIDE DEF before
      <4>2. Waits(k - 1, s)
        BY <1>2, <2>2, <2>3, <4>1
      <4>3. QED
        BY <4>2
    <3>2. CASE ~flushed
      <4>1. before = acc
        BY <3>2
      <4>2. PICK c \in 0 .. k - 1 : /\ Packs(d, window, I, W, acc.chunks, 0, c)
                                    /\ acc.current = SubSeq(W, c + 1, k - 1)
                                    /\ c < k - 1 => Together(d, window, W, c, k - 1)
        BY DEF Packing
      <4>3. acc = [chunks |-> acc.chunks, current |-> acc.current]
        BY DEF Packing
      <4>4. Together(d, window, W, c, k)
        <5>1. CASE c = k - 1
          BY <2>2, <5>1
        <5>2. CASE c < k - 1
          <6>1. Len(acc.current) = (k - 1) - c /\ acc.current[1] = W[c + 1]
            <7> HIDE DEF Y
            <7>1. Len(SubSeq(W, c + 1, k - 1)) = (k - 1) - c
              BY <1>1, <5>2
            <7>2. SubSeq(W, c + 1, k - 1)[1] = W[c + 1]
              BY <1>1, <5>2
            <7>3. QED
              BY <4>2, <7>1, <7>2
          <6>2. acc.current # <<>>
            <7>1. (k - 1) - c # 0
              BY <1>1, <5>2
            <7>2. QED
              BY <6>1, <7>1
          <6>3. b.kind # "section" /\ ~TooLong(d, window, W[c + 1].start, b.end)
            BY <3>2, <6>1, <6>2 DEF Outgrown
          <6>4. ASSUME NEW i \in c + 1 .. k
                PROVE  W[i].kind # "table" /\ (i > c + 1 => W[i].kind # "section")
            <7>1. CASE i = k
              BY <1>7, <6>3, <7>1
            <7>2. CASE i # k
              <8>1. i \in c + 1 .. k - 1
                BY <1>1, <7>2
              <8>2. QED
                BY <4>2, <5>2, <8>1 DEF Together
            <7>3. QED
              BY <7>1, <7>2
          <6>5. QED
            BY <6>3, <6>4 DEF Together
        <5>3. QED
          BY <1>1, <5>1, <5>2
      <4> HIDE DEF before
      <4>5. Waits(c, acc.chunks)
        BY <4>1, <4>2, <4>3, <4>4
      <4>6. QED
        BY <4>5
    <3>3. QED
      BY <3>1, <3>2
  <2> HIDE DEF before
  <2>5. PICK c, held : Waits(c, held)
    BY <2>4
  <2> DEFINE current == Append(SubSeq(W, c + 1, k - 1), b)
  <2>6. new = [chunks |-> held, current |-> current]
    <3> HIDE DEF new
    <3> QED
      BY <2>1, <2>5
  <2>7. current = SubSeq(W, c + 1, k) /\ current \in Seq(Y)
    <3> HIDE DEF Y, b
    <3>1. b \in Y /\ b = W[k]
      BY <1>1 DEF Y, b
    <3>2. c \in 0 .. k - 1
      BY <2>5
    <3>3. SubSeq(W, c + 1, k - 1) \in Seq(Y) /\ SubSeq(W, c + 1, k) \in Seq(Y)
      BY <1>1, <3>2
    <3>4. current = SubSeq(W, c + 1, k)
      <4> DEFINE t == SubSeq(W, c + 1, k - 1)
                 u == SubSeq(W, c + 1, k)
                 m == (k - 1) - c
      <4>1. m \in Nat /\ Len(t) = m /\ \A i \in 1 .. m : t[i] = W[c + i]
        BY <1>1, <3>2
      <4>2. Len(u) = m + 1 /\ \A i \in 1 .. m + 1 : u[i] = W[c + i]
        BY <1>1, <3>2, SMTT(30)
      <4>3. W[c + (m + 1)] = b /\ m + 1 \in 1 .. m + 1
        <5>1. c + (m + 1) = k
          BY <1>1, <3>2
        <5>2. QED
          BY <3>1, <4>1, <5>1
      <4> HIDE DEF t, u, m
      <4>4. t \in Seq(Y) /\ u \in Seq(Y)
        BY <3>3 DEF t, u
      <4>5. /\ Append(t, b) \in Seq(Y) /\ Len(Append(t, b)) = m + 1 /\ Append(t, b)[m + 1] = b
            /\ \A i \in 1 .. m : Append(t, b)[i] = t[i]
        BY <3>1, <4>1, <4>4
      <4> DEFINE v == Append(t, b)
      <4> HIDE DEF v
      <4>6. ASSUME NEW i \in 1 .. m + 1 PROVE v[i] = u[i]
        <5>1. CASE i = m + 1
          BY <4>2, <4>3, <4>5, <5>1 DEF v
        <5>2. CASE i # m + 1
          <6>1. i \in 1 .. m
            BY <4>1, <5>2
          <6>2. v[i] = t[i] /\ t[i] = u[i]
            BY <4>1, <4>2, <4>5, <6>1 DEF v
          <6>3. QED
            BY <6>2
        <5>3. QED
          BY <5>1, <5>2
      <4>7. v \in Seq(Y) /\ Len(v) = m + 1
        BY <4>5 DEF v
      <4>8. v = u
        BY <4>2, <4>4, <4>6, <4>7
      <4>9. QED
        BY <4>8 DEF v, t, u
    <3>5. QED
      BY <3>3, <3>4
  <2>8. held \in Seq(X)
    BY <2>5 DEF Packs
  <2> HIDE DEF new, current, X, Y
  <2>9. new \in [chunks : Seq(X), current : Seq(Y)] /\ new.chunks = held /\ new.current = current
    BY <2>6, <2>7, <2>8
  <2>10. c \in 0 .. k
    BY <1>1, <2>5
  <2>11. QED
    BY <2>5, <2>7, <2>9, <2>10 DEF Packing, X, Y
<1>8. QED
  BY <1>5, <1>6, <1>7

(* pack_boundary_aware_chunks.                                             *)
LEMMA ChunksPack ==
  ASSUME NEW d, NEW I, LaidOut(d, I), ~BlocksOverlap(Blocks(d)), NEW window \in Nat,
         NEW W, W = WithGapBlocks(d, Blocks(d))
  PROVE  Tiled(d, I, W) /\ Packs(d, window, I, W, Chunks(d, window), 0, Len(W))
<1> DEFINE n == Len(W)
           nothing == [chunks |-> <<>>, current |-> <<>>]
           T == [k \in 0 .. n |-> Packing(d, window, I, W, k)]
           step == [k \in 1 .. n |-> [acc \in T[k - 1] |-> PackBlock(d, window, acc, W[k])]]
           Holds(f) == f = [k \in 0 .. n |-> IF k = 0 THEN nothing
                                            ELSE PackBlock(d, window, f[k - 1], W[k])]
<1>1. Tiled(d, I, W) /\ n \in Nat /\ d.text \in Text /\ <<>> \in I
  <2>1. Tiling(d, I, W)
    BY GapBlocksTile
  <2>2. Tiled(d, I, W)
    BY <2>1, TilesDiffer
  <2>3. W \in Seq(BlockOn(I))
    BY <2>2 DEF Tiled
  <2> HIDE DEF n
  <2>4. n \in Nat
    BY <2>3 DEF n
  <2>5. QED
    BY <2>2, <2>4 DEF LaidOut
<1>2. nothing \in T[0]
  <2> DEFINE s == <<>>
             zero == 0
  <2>1. Packs(d, window, I, W, s, 0, zero)
    <3>1. s \in Seq(ChunkOn(I))
      <4> DEFINE X == ChunkOn(I)
      <4> HIDE DEF X
      <4>1. s \in Seq(X)
        OBVIOUS
      <4>2. QED
        BY <4>1 DEF X
    <3>2. Abut(s, At(W, 0), At(W, zero)) /\ Tight(d, window, s)
      BY DEF Abut, Tight
    <3>3. (\A i \in 0 + 1 .. zero : FALSE) /\ (\A i \in 1 .. Len(s) : FALSE)
      OBVIOUS
    <3>4. QED
      BY <3>1, <3>2, <3>3 DEF Packs
  <2>2. T[0] = Packing(d, window, I, W, zero)
    BY <1>1
  <2>3. zero \in Nat /\ nothing = [chunks |-> s, current |-> <<>>]
    OBVIOUS
  <2> HIDE DEF nothing, s, zero, T
  <2>4. nothing \in Packing(d, window, I, W, zero)
    BY <2>1, <2>3, NothingWaits
  <2>5. QED
    BY <2>2, <2>4
<1>3. ASSUME NEW k \in 1 .. n, NEW acc \in T[k - 1]
      PROVE  /\ step[k][acc] \in T[k]
             /\ step[k][acc] = PackBlock(d, window, acc, W[k])
  <2>1. /\ T[k - 1] = Packing(d, window, I, W, k - 1)
        /\ T[k] = Packing(d, window, I, W, k)
    BY <1>1
  <2>2. PackBlock(d, window, acc, W[k]) \in Packing(d, window, I, W, k)
    BY <1>1, <2>1, BlocksArePacked
  <2>3. QED
    BY <2>1, <2>2
<1> HIDE DEF T, step, nothing
<1>4. PICK f : Takes(f, n, T, nothing, step)
  <2>1. \A k \in 1 .. n : \A acc \in T[k - 1] : step[k][acc] \in T[k]
    BY <1>3
  <2>2. Leads(n, T, nothing, step)
    BY <1>2, <2>1 DEF Leads
  <2> HIDE DEF n
  <2>3. QED
    BY <1>1, <2>2, Recursion
<1>5. ASSUME NEW k \in 1 .. n PROVE f[k] = PackBlock(d, window, f[k - 1], W[k])
  <2>1. k - 1 \in 0 .. n
    BY <1>1
  <2>2. f[k - 1] \in T[k - 1] /\ f[k] = step[k][f[k - 1]]
    BY <1>4, <2>1 DEF Takes
  <2>3. QED
    BY <1>3, <2>2
<1>6. Holds(f)
  <2>1. ASSUME NEW k \in 0 .. n
        PROVE  f[k] = IF k = 0 THEN nothing ELSE PackBlock(d, window, f[k - 1], W[k])
    <3>1. k # 0 => k \in 1 .. n
      BY <1>1
    <3>2. QED
      BY <1>4, <1>5, <3>1 DEF Takes
  <2>2. QED
    BY <1>4, <2>1 DEF Takes
<1> DEFINE packed == CHOOSE g : Holds(g)
<1>7. Holds(packed)
  <2> HIDE DEF Holds
  <2>1. QED
    BY <1>6
<1>8. Chunks(d, window) = Flush(packed[n]).chunks
  BY DEF Chunks, nothing
<1> HIDE DEF packed, n
<1>9. \A k \in 0 .. n : packed[k] = f[k]
  <2> DEFINE Same == {k \in 0 .. n : packed[k] = f[k]}
  <2>1. 0 \in Same
    BY <1>1, <1>4, <1>7 DEF Takes
  <2>2. ASSUME NEW k \in 1 .. n, k - 1 \in Same PROVE k \in Same
    <3>1. k \in 0 .. n /\ k # 0 /\ packed[k - 1] = f[k - 1]
      BY <2>2
    <3>2. packed[k] = PackBlock(d, window, packed[k - 1], W[k])
      BY <1>7, <3>1
    <3>3. QED
      BY <1>5, <3>1, <3>2
  <2> HIDE DEF Same
  <2>3. \A k \in 0 .. n : k \in Same
    BY <1>1, <2>1, <2>2, Reaches
  <2>4. QED
    BY <2>3 DEF Same
<1> HIDE DEF Holds
<1>10. packed[n] \in Packing(d, window, I, W, n)
  <2>1. n \in 0 .. n /\ f[n] \in T[n]
    BY <1>1, <1>4 DEF Takes
  <2>2. QED
    BY <1>9, <2>1 DEF T
<1>11. n <= Len(W)
  BY <1>1 DEF n
<1>12. PICK s : /\ Packs(d, window, I, W, s, 0, n)
                /\ Flush(packed[n]) = [chunks |-> s, current |-> <<>>]
  BY <1>1, <1>10, <1>11, WaitingIsFlushed
<1>13. QED
  BY <1>1, <1>8, <1>12 DEF n

(* packing.py:91, 127: chunks cover the text in order.                     *)
LEMMA ChunksCover ==
  ASSUME NEW d, NEW I, LaidOut(d, I), ~BlocksOverlap(Blocks(d)), NEW window \in Nat,
         NEW s, s = Chunks(d, window)
  PROVE  /\ s \in Seq(ChunkOn(I)) /\ s # <<>>
         /\ s[1].start = 0 /\ Last(s).end = Len(d.text)
         /\ \A k \in 1 .. Len(s) : k > 1 => s[k].start = s[k - 1].end
         /\ Abut(s, 0, Len(d.text)) /\ Tight(d, window, s)
<1> DEFINE W == WithGapBlocks(d, Blocks(d))
           n == Len(W)
<1>1. Tiled(d, I, W) /\ Packs(d, window, I, W, s, 0, n)
  <2>1. W = WithGapBlocks(d, Blocks(d))
    OBVIOUS
  <2> HIDE DEF W
  <2>2. QED
    BY <2>1, ChunksPack
<1> HIDE DEF W
<1>2. n \in Nat /\ W # <<>> /\ n # 0 /\ W \in Seq(BlockOn(I))
  BY <1>1 DEF Tiled
<1>3. At(W, n) = Len(d.text) /\ At(W, 0) = 0
  BY <1>1, <1>2 DEF At, Tiled, Abut
<1>4. s \in Seq(ChunkOn(I)) /\ Abut(s, 0, Len(d.text)) /\ s # <<>> /\ Tight(d, window, s)
  BY <1>1, <1>2, <1>3 DEF Packs
<1>5. \A k \in 1 .. Len(s) : k > 1 => k \in 2 .. Len(s)
  BY <1>4
<1>6. QED
  BY <1>4, <1>5 DEF Abut, Last

(* Each block that fits a window, with the blanks behind it, and each      *)
(* table is held by a chunk; one that leads a section leads its chunk.     *)
LEMMA ChunksHoldBlocks ==
  ASSUME NEW d, NEW I, LaidOut(d, I), ~BlocksOverlap(Blocks(d)), NEW window \in Nat,
         NEW s, s = Chunks(d, window), NEW b \in Blocks(d),
         \/ b.kind = "table"
         \/ \E f \in ToSet(WithGapBlocks(d, Blocks(d))) :
              f.start = b.start /\ ~TooLong(d, window, f.start, f.end)
  PROVE  \E k \in 1 .. Len(s) :
           /\ s[k].start <= b.start /\ b.end <= s[k].end /\ b.id \in s[k].ids
           /\ b.kind = "section" => s[k].start = b.start /\ s[k].kind = "section"
<1> DEFINE W == WithGapBlocks(d, Blocks(d))
           n == Len(W)
<1>1. Tiled(d, I, W) /\ Packs(d, window, I, W, s, 0, n) /\ Tiling(d, I, W)
  <2>1. W = WithGapBlocks(d, Blocks(d)) /\ Tiling(d, I, W)
    BY GapBlocksTile
  <2> HIDE DEF W
  <2>2. QED
    BY <2>1, ChunksPack
<1>2. \/ b.kind = "table"
      \/ \E f \in ToSet(W) : f.start = b.start /\ ~TooLong(d, window, f.start, f.end)
  OBVIOUS
<1> HIDE DEF W
<1>3. n \in Nat /\ W \in Seq(BlockOn(I)) /\ DOMAIN W = 1 .. n
  BY <1>1 DEF Tiled
<1>4. PICK i \in 1 .. n : Stretches(d, b, W[i])
  BY <1>1 DEF Tiling, Fills
<1>5. IsWhole(d, window, W[i])
  <2>1. CASE b.kind = "table"
    BY <1>4, <2>1 DEF Stretches, IsWhole
  <2>2. CASE b.kind # "table"
    <3>1. PICK j \in 1 .. n : /\ W[j].start = b.start
                              /\ ~TooLong(d, window, W[j].start, W[j].end)
      BY <1>2, <1>3, <2>2 DEF ToSet
    <3>2. W[i].start = W[j].start
      BY <1>4, <3>1 DEF Stretches
    <3>3. i = j
      <4>1. ASSUME NEW x \in 1 .. n, NEW y \in 1 .. n, x < y PROVE W[x].start < W[y].start
        <5>1. x \in 1 .. y - 1
          BY <1>3, <4>1
        <5>2. Abut(W, 0, Len(d.text))
          BY <1>1 DEF Tiled
        <5>3. QED
          BY <1>3, <5>1, <5>2, RowsOfRangesAscend
      <4>2. W[i].start \in Nat /\ W[j].start \in Nat
        BY <1>3, BlocksInARow, <1>1
      <4>3. CASE i < j
        BY <3>2, <4>1, <4>2, <4>3
      <4>4. CASE j < i
        BY <3>2, <4>1, <4>2, <4>4
      <4>5. QED
        BY <1>3, <4>3, <4>4
    <3>4. QED
      BY <3>1, <3>3 DEF IsWhole
  <2>3. QED
    BY <2>1, <2>2
<1>6. PICK k \in 1 .. Len(s) : Holding(W[i], s[k])
  <2>1. i \in 0 + 1 .. n
    OBVIOUS
  <2>2. QED
    BY <1>1, <1>5, <2>1 DEF Packs
<1>7. /\ W[i].start = b.start /\ W[i].kind = b.kind /\ W[i].id = b.id /\ b.end <= W[i].end
      /\ b.kind # "mixed"
  BY <1>4 DEF Stretches, LaidOut
<1>8. b.end <= s[k].end
  <2>1. s[k] \in ChunkOn(I)
    BY <1>1 DEF Packs
  <2>2. s[k].end \in Nat /\ W[i].end <= s[k].end
    BY <1>6, <2>1 DEF ChunkOn, Holding
  <2>3. b \in BlockOn(I) /\ W[i] \in BlockOn(I)
    BY <1>3 DEF LaidOut
  <2>4. W[i].end \in Nat /\ b.end \in Nat
    BY <2>3 DEF BlockOn
  <2>5. QED
    BY <1>7, <2>2, <2>4
<1>9. QED
  BY <1>6, <1>7, <1>8 DEF Holding

(* A table chunk has no other text but the blanks after the table.         *)
LEMMA TableChunksAreTables ==
  ASSUME NEW d, NEW I, LaidOut(d, I), ~BlocksOverlap(Blocks(d)), NEW window \in Nat,
         NEW s, s = Chunks(d, window), NEW k \in 1 .. Len(s), s[k].kind = "table",
         NEW t \in ToSet(d.tables), t.id \in s[k].ids
  PROVE  /\ s[k].start = t.range.sc
         /\ ToSet(Slice(d.text, t.range.ec, s[k].end)) \subseteq Blank
<1> DEFINE W == WithGapBlocks(d, Blocks(d))
           n == Len(W)
<1>1. Tiled(d, I, W) /\ Packs(d, window, I, W, s, 0, n) /\ Tiling(d, I, W)
  <2>1. W = WithGapBlocks(d, Blocks(d)) /\ Tiling(d, I, W)
    BY GapBlocksTile
  <2> HIDE DEF W
  <2>2. QED
    BY <2>1, ChunksPack
<1> HIDE DEF W
<1>2. PICK i \in 0 + 1 .. n : TableOf(W[i], s[k])
  BY <1>1 DEF Packs, Says
<1>3. i \in 1 .. n /\ W[i].kind = "table" /\ s[k].start = W[i].start /\ s[k].end = W[i].end
      /\ t.id = W[i].id
  BY <1>2 DEF TableOf
<1>4. PICK b \in Blocks(d) : Stretches(d, b, W[i])
  BY <1>1, <1>3 DEF Tiling, Fills
<1>5. b.start = t.range.sc /\ b.end = t.range.ec
  BY <1>3, <1>4 DEF Stretches, LaidOut
<1>6. QED
  BY <1>3, <1>4, <1>5 DEF Stretches

(* packing.py:154: a chunk above the window says so.                       *)
LEMMA LongChunksSayWhy ==
  ASSUME NEW d, NEW I, LaidOut(d, I), ~BlocksOverlap(Blocks(d)), NEW window \in Nat,
         NEW s, s = Chunks(d, window), NEW k \in 1 .. Len(s),
         TooLong(d, window, s[k].start, s[k].end)
  PROVE  \/ s[k].reason = "atomic_table_overflow" /\ TablesAreTooLong(d, window)
         \/ s[k].reason = "oversized_sentence" /\ s[k].end = s[k].start + 1
<1> DEFINE W == WithGapBlocks(d, Blocks(d))
           n == Len(W)
<1>1. Tiled(d, I, W) /\ Packs(d, window, I, W, s, 0, n)
  <2>1. W = WithGapBlocks(d, Blocks(d))
    OBVIOUS
  <2> HIDE DEF W
  <2>2. QED
    BY <2>1, ChunksPack
<1> HIDE DEF W
<1>2. Says(d, window, W, s[k], 0, n)
  BY <1>1 DEF Packs
<1>3. DOMAIN W = 1 .. n /\ n \in Nat
  BY <1>1 DEF Tiled
<1>4. ASSUME NEW i \in 0 + 1 .. n, W[i].kind = "table",
             TooLong(d, window, W[i].start, W[i].end)
      PROVE  TablesAreTooLong(d, window)
  <2>1. W[i] \in ToSet(W)
    BY <1>3 DEF ToSet
  <2>2. QED
    BY <1>4, <2>1 DEF TablesAreTooLong, W
<1>5. QED
  BY <1>2, <1>4 DEF Says

(* What begins with a text that has content has content.                   *)
LEMMA ContentGrows ==
  ASSUME NEW d, d.text \in Text, NEW first \in Nat, NEW middle \in Nat, NEW last \in Nat,
         middle <= last, last <= Len(d.text), HasContent(d, first, middle)
  PROVE  HasContent(d, first, last)
<1>1. Len(d.text) \in Nat /\ middle <= Len(d.text)
  BY DEF Text
<1>2. /\ ToSet(Slice(d.text, first, middle)) = {d.text[i] : i \in first + 1 .. middle}
      /\ ToSet(Slice(d.text, first, last)) = {d.text[i] : i \in first + 1 .. last}
  BY <1>1, SlicesHold
<1>3. first + 1 .. middle \subseteq first + 1 .. last
  OBVIOUS
<1>4. QED
  BY <1>2, <1>3 DEF HasContent

(* tokenizer.py:98: before a chunk there is no heading with a label that   *)
(* fits a window and that its parent, which is none of its own, does not   *)
(* reach.                                                                  *)
LEMMA SectionsAreParents ==
  ASSUME NEW d, NEW I, LaidOut(d, I), ~BlocksOverlap(Blocks(d)), NEW window \in Nat,
         NEW s, s = Chunks(d, window), NEW k \in 1 .. Len(s), NEW parent,
         parent = ParentOf(d, s, k), parent # 0 \/ s[k].kind # "section",
         NEW h \in Blocks(d), h.kind = "section", h.start < s[k].start,
         HasContent(d, h.start, h.end),
         parent = 0 \/ s[parent].end <= h.start
  PROVE  ~\E f \in ToSet(WithGapBlocks(d, Blocks(d))) :
            f.start = h.start /\ ~TooLong(d, window, f.start, f.end)
<1>1. SUFFICES ASSUME \E f \in ToSet(WithGapBlocks(d, Blocks(d))) :
                        f.start = h.start /\ ~TooLong(d, window, f.start, f.end)
               PROVE  FALSE
  OBVIOUS
<1>2. PICK j \in 1 .. Len(s) : /\ s[j].start = h.start /\ h.end <= s[j].end
                               /\ s[j].kind = "section"
  BY <1>1, ChunksHoldBlocks
<1>3. s \in Seq(ChunkOn(I)) /\ Abut(s, 0, Len(d.text)) /\ Len(s) \in Nat
  BY ChunksCover
<1>4. \A i \in 1 .. Len(s) : s[i].start \in Nat /\ s[i].end \in Nat /\ s[i].start < s[i].end
  BY <1>3 DEF Abut
<1>5. ASSUME NEW x \in 1 .. Len(s), NEW y \in 1 .. Len(s), x < y
      PROVE  s[x].start < s[y].start
  <2>1. x \in 1 .. y - 1
    BY <1>3, <1>5
  <2>2. QED
    BY <1>3, <2>1, RowsOfRangesAscend
<1>6. j < k
  <2>1. CASE j = k
    BY <1>2, <1>4, <2>1
  <2>2. CASE k < j
    BY <1>2, <1>4, <1>5, <2>2
  <2>3. QED
    BY <1>3, <2>1, <2>2
<1> DEFINE leaders == {i \in 1 .. k - 1 : LeadsSection(d, s[i])}
<1>7. LeadsSection(d, s[j])
  <2>1. s[j].end \in Nat /\ s[j].end <= Len(d.text)
    BY <1>3, <1>4, RowsOfRangesAscend
  <2>2. d.text \in Text /\ h.start \in Nat /\ h.end \in Nat /\ h.end <= s[j].end
    BY <1>2 DEF LaidOut, BlockOn
  <2>3. HasContent(d, h.start, s[j].end)
    BY <2>1, <2>2, ContentGrows
  <2>4. QED
    BY <1>2, <2>3 DEF LeadsSection
<1>8. /\ j \in leaders /\ leaders \in SUBSET Nat /\ (\A i \in leaders : i <= k) /\ k \in Nat
      /\ s[k].kind # "section"
  <2>1. s[k].kind = "section" => parent = 0
    BY DEF ParentOf
  <2>2. QED
    BY <1>3, <1>6, <1>7, <2>1
<1>9. parent = Max(leaders)
  BY <1>8 DEF ParentOf
<1> HIDE DEF leaders
<1>10. parent \in leaders /\ j <= parent
  BY <1>8, <1>9, GreatestElement
<1>11. parent \in 1 .. Len(s) /\ parent # 0
  BY <1>3, <1>10 DEF leaders
<1>12. s[j].start <= s[parent].start
  <2>1. CASE j = parent
    BY <1>4, <2>1
  <2>2. CASE j < parent
    BY <1>4, <1>5, <1>11, <2>2
  <2>3. QED
    BY <1>3, <1>10, <1>11, <2>1, <2>2
<1>13. s[parent].end <= h.start
  BY <1>11
<1>14. QED
  BY <1>2, <1>4, <1>11, <1>12, <1>13

-----------------------------------------------------------------------------
(* The documents that are packed                                           *)

(* A document that the contract takes is laid out for the packing.         *)
LEMMA DocumentsAreLaidOut ==
  ASSUME NEW d, d.text \in Text, Shaped(d), d.text # <<>>, IsValid(d)
  PROVE  \E I : LaidOut(d, I)
<1> DEFINE B == Blocks(d)
           I == {<<>>} \cup {b.id : b \in B}
           OfTable(t) == Block(t.range.sc, t.range.ec, "table", t.id)
           OfSpan(s) == Block(s.range.sc, s.range.ec,
                              IF s.role = "heading" THEN "section" ELSE s.role, s.id)
           Flow == {s \in ToSet(d.layout) : s.role \in {"heading", "paragraph", "list_item"}}
<1>1. \A b \in B : (\E t \in ToSet(d.tables) : b = OfTable(t)) \/ (\E s \in Flow : b = OfSpan(s))
  BY DEF Blocks
<1>2. \A s \in ToSet(d.layout) \cup ToSet(d.tables) :
        /\ s.range.sc \in Nat /\ s.range.ec \in Nat /\ s.id # <<>>
        /\ s.range.sc < s.range.ec /\ s.range.ec <= Len(d.text)
  BY DEF Shaped, HasPlace, IsValid, RangeIsWithin, IsRange
<1>3. ASSUME NEW t \in ToSet(d.tables)
      PROVE  /\ OfTable(t).start = t.range.sc /\ OfTable(t).end = t.range.ec
             /\ OfTable(t).kind = "table" /\ OfTable(t).id = t.id
             /\ OfTable(t) \in [start : Nat, end : Nat, kind : BlockKind, id : {t.id}]
  BY <1>2 DEF Block, BlockKind
<1>4. ASSUME NEW s \in Flow
      PROVE  /\ OfSpan(s).start = s.range.sc /\ OfSpan(s).end = s.range.ec
             /\ OfSpan(s).kind \in {"section", "paragraph", "list_item"} /\ OfSpan(s).id = s.id
             /\ OfSpan(s) \in [start : Nat, end : Nat, kind : BlockKind, id : {s.id}]
  <2> DEFINE kind == IF s.role = "heading" THEN "section" ELSE s.role
  <2>1. kind \in {"section", "paragraph", "list_item"}
    OBVIOUS
  <2>2. OfSpan(s) = Block(s.range.sc, s.range.ec, kind, s.id)
    OBVIOUS
  <2>3. s.range.sc \in Nat /\ s.range.ec \in Nat
    BY <1>2
  <2> HIDE DEF kind, OfSpan
  <2>4. QED
    BY <2>1, <2>2, <2>3 DEF Block, BlockKind
<1>5. IsFiniteSet(B)
  <2> DEFINE m == Len(d.tables)
             n == Len(d.layout)
             f == [i \in 1 .. m |-> OfTable(d.tables[i])]
             g == [i \in 1 .. n |-> OfSpan(d.layout[i])]
             X == {f[i] : i \in 1 .. m}
             Y == {g[i] : i \in 1 .. n}
  <2>1. m \in Nat /\ n \in Nat /\ IsFiniteSet(1 .. m) /\ IsFiniteSet(1 .. n)
    <3>1. m \in Int /\ n \in Int /\ m \in Nat /\ n \in Nat /\ 1 \in Int
      BY DEF Shaped, IsSequence
    <3>2. IsFiniteSet(1 .. m)
      BY <3>1, FS_Interval
    <3>3. IsFiniteSet(1 .. n)
      BY <3>1, FS_Interval
    <3>4. QED
      BY <3>1, <3>2, <3>3
  <2>2. (\A t \in ToSet(d.tables) : OfTable(t) \in X) /\ (\A s \in Flow : OfSpan(s) \in Y)
    <3>1. DOMAIN d.tables = 1 .. m /\ DOMAIN d.layout = 1 .. n
      BY DEF Shaped, IsSequence
    <3> HIDE DEF m, n, OfTable, OfSpan
    <3>2. QED
      BY <3>1 DEF ToSet
  <2>3. f \in Surjection(1 .. m, X) /\ g \in Surjection(1 .. n, Y)
    <3> HIDE DEF m, n, OfTable, OfSpan
    <3> QED
      BY DEF Surjection
  <2> HIDE DEF f, g, m, n, X, Y
  <2>4. IsFiniteSet(X) /\ IsFiniteSet(Y)
    BY <2>1, <2>3, FS_Surjection
  <2>5. IsFiniteSet(X \cup Y)
    BY <2>4, FS_Union
  <2>6. B \in SUBSET (X \cup Y)
    <3> HIDE DEF B, OfTable, OfSpan, Flow
    <3> QED
      BY <1>1, <2>2
  <2> HIDE DEF B
  <2>7. QED
    BY <2>5, <2>6, FS_Subset
<1> HIDE DEF OfTable, OfSpan
<1>6. Flow \subseteq ToSet(d.layout)
  OBVIOUS
<1> HIDE DEF B, Flow
<1>7. ASSUME NEW b \in B
      PROVE  /\ b \in BlockOn(I) /\ b.kind # "mixed" /\ b.id # <<>> /\ b.start < b.end
             /\ b.end <= Len(d.text)
  <2>1. b.id \in I
    OBVIOUS
  <2>2. CASE \E t \in ToSet(d.tables) : b = OfTable(t)
    <3>1. PICK t \in ToSet(d.tables) : b = OfTable(t)
      BY <2>2
    <3> HIDE DEF I
    <3>2. QED
      BY <1>2, <1>3, <2>1, <3>1 DEF BlockOn
  <2>3. CASE \E s \in Flow : b = OfSpan(s)
    <3>1. PICK s \in Flow : b = OfSpan(s)
      BY <2>3
    <3> HIDE DEF I
    <3>2. QED
      BY <1>2, <1>4, <1>6, <2>1, <3>1 DEF BlockOn
  <2>4. QED
    BY <1>1, <2>2, <2>3
<1>8. ASSUME NEW a \in B, NEW b \in B, a.kind # "table", b.kind # "table", a.id = b.id
      PROVE  a = b
  <2>1. PICK s \in Flow : a = OfSpan(s)
    BY <1>1, <1>3, <1>8
  <2>2. PICK t \in Flow : b = OfSpan(t)
    BY <1>1, <1>3, <1>8
  <2>3. s.id = t.id /\ s \in ToSet(d.layout) /\ t \in ToSet(d.layout)
    BY <1>4, <1>6, <1>8, <2>1, <2>2
  <2>4. PICK i \in DOMAIN d.layout : s = d.layout[i]
    BY <2>3 DEF ToSet
  <2>5. PICK j \in DOMAIN d.layout : t = d.layout[j]
    BY <2>3 DEF ToSet
  <2>6. i = j
    BY <2>3, <2>4, <2>5 DEF IsValid, UniqueIds
  <2>7. QED
    BY <2>1, <2>2, <2>4, <2>5, <2>6
<1>9. ASSUME NEW b \in B, NEW t \in ToSet(d.tables), b.kind = "table", b.id = t.id
      PROVE  b.start = t.range.sc /\ b.end = t.range.ec
  <2>1. PICK u \in ToSet(d.tables) : b = OfTable(u)
    <3>1. \A s \in Flow : b # OfSpan(s)
      BY <1>4, <1>9
    <3>2. QED
      BY <1>1, <3>1
  <2>2. u.id = t.id
    BY <1>3, <1>9, <2>1
  <2>3. PICK i \in DOMAIN d.tables : u = d.tables[i]
    BY DEF ToSet
  <2>4. PICK j \in DOMAIN d.tables : t = d.tables[j]
    BY DEF ToSet
  <2>5. i = j
    BY <2>2, <2>3, <2>4 DEF IsValid, UniqueIds
  <2>6. QED
    BY <1>3, <2>1, <2>3, <2>4, <2>5
<1>10. LaidOut(d, I)
  <2>1. d.text \in Text /\ <<>> \in I
    OBVIOUS
  <2> HIDE DEF I
  <2>2. QED
    BY <1>5, <1>7, <1>8, <1>9, <2>1 DEF LaidOut, B
<1>11. QED
  BY <1>10

-----------------------------------------------------------------------------
(* The pipeline                                                            *)

ExactInvariant == ParserIsExact /\ IsExact(headers) /\ ExactDocument(document)

(* Nothing is marked before a document is ingested.                        *)
LEMMA ExactInvariantInit ==
  ASSUME Init
  PROVE  ExactInvariant
<1>1. ParserIsExact
  BY ParserStartsExact DEF Init, IngestionInit
<1>2. headers = Empty /\ document = NoDocument
  BY DEF Init, IngestionInit
<1>3. IsExact(headers)
  BY <1>2, EmptyIsExact DEF IsExact
<1>4. document.text = <<>>
  BY <1>2 DEF NoDocument
<1>5. QED
  BY <1>1, <1>3, <1>4 DEF ExactInvariant, ExactDocument

(* A document is constructed once it is exact, and the parser reset.       *)
LEMMA ConstructedStaysExact ==
  ASSUME NEW d, ExactDocument(d), Construct(d)
  PROVE  ExactInvariant'
<1>1. ParserIsExact'
  BY DoneParserIsExact DEF Construct
<1>2. headers' = Empty /\ document' = d
  BY DEF Construct
<1>3. IsExact(headers)'
  BY <1>2, EmptyIsExact DEF IsExact
<1>4. QED
  BY <1>1, <1>2, <1>3 DEF ExactInvariant

(* A refusal leaves the last document as it was.                           *)
LEMMA RefusedStaysExact ==
  ASSUME ExactInvariant, Refuse
  PROVE  ExactInvariant'
<1>1. ParserIsExact'
  BY DoneParserIsExact DEF Refuse
<1>2. headers' = Empty /\ document' = document
  BY DEF Refuse
<1>3. IsExact(headers)'
  BY <1>2, EmptyIsExact DEF IsExact
<1>4. QED
  BY <1>1, <1>2, <1>3 DEF ExactInvariant

(* Every reader's every step keeps the parser, the headers and the         *)
(* document exact.                                                         *)
LEMMA ExactInvariantStep ==
  ASSUME ExactInvariant, [Next]_vars
  PROVE  ExactInvariant'
<1> USE DEF ExactInvariant
<1>1. CASE ReadPlain
  <2>1. PICK text \in PlainText :
          Construct(OnePage([Empty EXCEPT !.text = text, !.map =
            IF text = <<>> THEN <<>>
            ELSE <<[id |-> <<"source">>, kind |-> "source",
                    range |-> Page(0, Len(text), 0, ByteLen(text))]>>]))
    BY <1>1 DEF ReadPlain
  <2> DEFINE map == IF text = <<>> THEN <<>>
                    ELSE <<[id |-> <<"source">>, kind |-> "source",
                            range |-> Page(0, Len(text), 0, ByteLen(text))]>>
             d == OnePage([Empty EXCEPT !.text = text, !.map = map])
  <2> HIDE DEF map
  <2>2. d.text = text /\ d.layout = <<>> /\ d.tables = <<>>
    BY DEF OnePage, Empty
  <2>3. text \in Text
    BY InputAssumption
  <2> HIDE DEF d
  <2>4. ExactDocument(d)
    BY <2>2, <2>3 DEF ExactDocument, Ranged, Shaped, IsSequence, ToSet
  <2>5. Construct(d)
    BY <2>1 DEF d, map
  <2>6. QED
    BY <2>4, <2>5, ConstructedStaysExact
<1>2. CASE ParseHtml
  <2>1. ParserIsExact'
    BY <1>2, ParserStaysExact DEF ParseHtml
  <2>2. UNCHANGED <<headers, document>>
    BY <1>2 DEF ParseHtml
  <2>3. QED
    BY <2>1, <2>2 DEF IsExact
<1>3. CASE RefuseTable
  BY <1>3, RefusedStaysExact DEF RefuseTable
<1>4. CASE EndOfHtml \/ EndOfDocx
  <2>1. ExactDocument(OnePage(assembly))
    BY AssembledIsExact DEF ParserIsExact, IsExact
  <2>2. Refuse \/ Construct(OnePage(assembly))
    BY <1>4 DEF EndOfHtml, EndOfDocx
  <2>3. QED
    BY <2>1, <2>2, RefusedStaysExact, ConstructedStaysExact
<1>5. CASE ReadParagraph
  <2>1. PICK text \in Paragraph \ {<<>>}, role \in ParagraphRole :
          assembly' = AddBlock(assembly, text, role)
    BY <1>5 DEF ReadParagraph
  <2>2. text \in Text
    BY InputAssumption
  <2>3. IsExact(assembly')
    BY <2>1, <2>2, BlocksMark DEF ParserIsExact, IsExact
  <2>4. UNCHANGED <<parser, headers, document>>
    BY <1>5 DEF ReadParagraph
  <2>5. QED
    BY <2>3, <2>4 DEF ParserIsExact, parser
<1>6. CASE ReadTable
  <2>1. PICK rows \in DocxTable :
          \/ Refuse
          \/ /\ assembly' = IF TableRows(rows) = <<>> THEN AddSeparator(assembly)
                            ELSE AddRows(AddSeparator(assembly), TableRows(rows))
             /\ UNCHANGED <<parser, format, phase, headers, document>>
    BY <1>6 DEF ReadTable
  <2>2. TableRows(rows) \in Seq(Cells)
    BY InputAssumption, TableRowsHaveCells
  <2>3. /\ IsExact(AddSeparator(assembly))
        /\ IsExact(AddRows(AddSeparator(assembly), TableRows(rows)))
    BY <2>2, SeparatedTablesAreExact DEF ParserIsExact
  <2>4. CASE Refuse
    BY <2>4, RefusedStaysExact
  <2>5. CASE ~Refuse
    <3>1. IsExact(assembly') /\ UNCHANGED <<parser, headers, document>>
      BY <2>1, <2>3, <2>5
    <3>2. QED
      BY <3>1 DEF ParserIsExact, parser
  <2>6. QED
    BY <2>4, <2>5
<1>7. CASE ReadPdf
  <2>1. CASE Refuse
    BY <2>1, RefusedStaysExact
  <2>2. CASE ~Refuse
    <3>1. PICK source \in PdfSource :
            LET joined == JoinedPages(source)
            IN  /\ ~\E i \in DOMAIN source : ~PageIsAligned(source[i])
                /\ Construct(
                     [text |-> joined.a.text, pages |-> joined.pages, map |-> joined.a.map,
                      layout |-> FlattenSeq([i \in DOMAIN source |->
                                   WordSpans(source[i], i, joined.pages[i])]),
                      tables |-> FlattenSeq([i \in DOMAIN source |->
                                   [k \in DOMAIN source[i].tables |->
                                      PdfTable(source[i], i, joined.pages[i], k)]])])
      BY <1>7, <2>2 DEF ReadPdf
    <3> DEFINE joined == JoinedPages(source)
               d == [text |-> joined.a.text, pages |-> joined.pages, map |-> joined.a.map,
                     layout |-> FlattenSeq([i \in DOMAIN source |->
                                  WordSpans(source[i], i, joined.pages[i])]),
                     tables |-> FlattenSeq([i \in DOMAIN source |->
                                  [k \in DOMAIN source[i].tables |->
                                     PdfTable(source[i], i, joined.pages[i], k)]])]
    <3>2. source \in PdfPages /\ \A i \in DOMAIN source : PageIsAligned(source[i])
      BY <3>1, InputAssumption
    <3>3. ExactDocument(d)
      BY <3>2, PdfIsExact
    <3>4. Construct(d)
      BY <3>1
    <3> HIDE DEF d
    <3>5. QED
      BY <3>3, <3>4, ConstructedStaysExact
  <2>3. QED
    BY <2>1, <2>2
<1>8. CASE ReadMessage
  <2>1. PICK m \in Message :
          \/ Refuse
          \/ Construct(OnePage(AddSegment(WithHeaders(m.headers), PlainBody(m.body),
                                          <<"body">>, "unmapped")))
          \/ /\ headers' = WithHeaders(m.headers)
             /\ UNCHANGED <<parser, assembly, format, document>>
    BY <1>8 DEF ReadMessage
  <2>2. m.headers \in Seq(Text) /\ m.body \in Text
    <3>1. m.headers \in Seq(Text \ {<<>>}) /\ m.body \in Text
      BY InputAssumption
    <3>2. Text \ {<<>>} \subseteq Text
      OBVIOUS
    <3>3. QED
      BY <3>1, <3>2, MembersStay
  <2> DEFINE h == WithHeaders(m.headers)
             body == PlainBody(m.body)
             d == OnePage(AddSegment(h, body, <<"body">>, "unmapped"))
  <2>3. IsExact(h) /\ body \in Text
    BY <2>2, HeadersAreExact, PlainBodyIsText
  <2>4. ExactDocument(d)
    <3> HIDE DEF h, body
    <3>1. PICK s \in Text : h \in ExactOn(s)
      BY <2>3 DEF IsExact
    <3> DEFINE b == AddSegment(h, body, <<"body">>, "unmapped")
    <3>2. <<"body">> \in SegmentId /\ "unmapped" \in SegmentKind
      BY DEF SegmentId, SegmentKind
    <3>3. Adds(h, s, b, body)
      BY <2>3, <3>1, <3>2, SegmentsMark
    <3>4. PICK t \in Text : b \in ExactOn(t)
      BY <3>3 DEF Adds
    <3> HIDE DEF b
    <3>5. ExactDocument(OnePage(b))
      BY <3>4, AssembledIsExact
    <3>6. QED
      BY <3>5 DEF b
  <2> HIDE DEF h, d
  <2>5. CASE Refuse
    BY <2>5, RefusedStaysExact
  <2>6. CASE Construct(d)
    BY <2>4, <2>6, ConstructedStaysExact
  <2>7. CASE headers' = h /\ UNCHANGED <<parser, assembly, format, document>>
    BY <2>3, <2>7 DEF ParserIsExact, parser, IsExact
  <2>8. QED
    BY <2>1, <2>5, <2>6, <2>7 DEF d, h
<1>9. CASE EndOfEmail
  <2>1. ExactDocument(OnePage(Imported(headers, assembly)))
    BY ImportedIsExact DEF ParserIsExact
  <2>2. Refuse \/ Construct(OnePage(Imported(headers, assembly)))
    BY <1>9 DEF EndOfEmail
  <2>3. QED
    BY <2>1, <2>2, RefusedStaysExact, ConstructedStaysExact
<1>10. CASE Tokenize \/ ChunkByWindows \/ PackLayout \/ UNCHANGED vars
  <2>1. UNCHANGED <<parser, assembly, headers, document>>
    BY <1>10 DEF Tokenize, ChunkByWindows, PackLayout, vars, ingestion
  <2>2. QED
    BY <2>1 DEF ParserIsExact, parser, IsExact
<1>11. QED
  BY <1>1, <1>2, <1>3, <1>4, <1>5, <1>6, <1>7, <1>8, <1>9, <1>10
     DEF Next, Ingest, IngestionStep

(* Every layout span and table cell of every ingested document quotes the  *)
(* document: its character offsets slice the text it was read as, and its  *)
(* byte offsets are those of the UTF-8 encoding. For any texts, any        *)
(* nesting of tags and tables, and any pages, rows and headers the parsers *)
(* of the formats hand over.                                               *)
THEOREM EverySpanIsExact == Spec => []SpansAreExact
<1>1. Init => ExactInvariant
  BY ExactInvariantInit
<1>2. ExactInvariant /\ [Next]_vars => ExactInvariant'
  BY ExactInvariantStep
<1>3. ExactInvariant => SpansAreExact
  <2>1. ASSUME ExactInvariant, document.text # <<>>, NEW s \in Ranged(document)
        PROVE  /\ Slice(document.text, s.range.sc, s.range.ec) = s.of
               /\ s.range.sb = ByteLen(SubSeq(document.text, 1, s.range.sc))
               /\ s.range.eb = ByteLen(SubSeq(document.text, 1, s.range.ec))
    <3>1. /\ document.text \in Text /\ s.of \in Text
          /\ Marks(document.text, s.range, s.of)
      BY <2>1 DEF ExactInvariant, ExactDocument
    <3> DEFINE text == document.text
               range == s.range
               of == s.of
    <3> HIDE DEF text, range, of
    <3>2. text \in Text /\ of \in Text /\ Marks(text, range, of)
      BY <3>1 DEF text, range, of
    <3>3. /\ Slice(text, range.sc, range.ec) = of
          /\ range.sb = ByteLen(SubSeq(text, 1, range.sc))
          /\ range.eb = ByteLen(SubSeq(text, 1, range.ec))
      BY <3>2, MarksAreExact
    <3>4. QED
      BY <3>3 DEF text, range, of
  <2>2. QED
    BY <2>1 DEF SpansAreExact
<1>4. QED
  BY <1>1, <1>2, <1>3, PTL DEF Spec

-----------------------------------------------------------------------------
(* The chunks of the layout_aware mode.                                    *)

(* What a reader hands on is a document its contract took.                 *)
LEMMA IngestedIsTaken ==
  ASSUME Ingest
  PROVE  \/ phase' = "document" /\ (document.text # <<>> /\ IsValid(document))'
         \/ phase' \in {"refused", "reading"}
<1>1. ASSUME NEW d, Construct(d)
      PROVE  \/ phase' = "document" /\ (document.text # <<>> /\ IsValid(document))'
             \/ phase' \in {"refused", "reading"}
  <2>1. document' = d /\ phase' = IF d.text # <<>> /\ IsValid(d) THEN "document" ELSE "refused"
    BY <1>1 DEF Construct
  <2>2. CASE d.text # <<>> /\ IsValid(d)
    BY <2>1, <2>2
  <2>3. CASE ~(d.text # <<>> /\ IsValid(d))
    BY <2>1, <2>3
  <2>4. QED
    BY <2>2, <2>3
<1>2. Refuse => phase' = "refused"
  BY DEF Refuse
<1>3. CASE ReadPlain
  BY <1>1, <1>3 DEF ReadPlain
<1>4. CASE ParseHtml \/ RefuseTable \/ ReadParagraph
  BY <1>2, <1>4 DEF ParseHtml, RefuseTable, ReadParagraph, Reading
<1>5. CASE EndOfHtml \/ EndOfDocx
  BY <1>1, <1>2, <1>5 DEF EndOfHtml, EndOfDocx
<1>6. CASE ReadTable
  BY <1>2, <1>6 DEF ReadTable, Reading
<1>7. CASE ReadPdf
  <2>1. CASE Refuse
    BY <1>2, <2>1
  <2>2. CASE ~Refuse
    BY <1>1, <1>7, <2>2 DEF ReadPdf
  <2>3. QED
    BY <2>1, <2>2
<1>8. CASE ReadMessage
  BY <1>1, <1>2, <1>8 DEF ReadMessage
<1>9. CASE EndOfEmail
  BY <1>1, <1>2, <1>9 DEF EndOfEmail
<1>10. QED
  BY <1>3, <1>4, <1>5, <1>6, <1>7, <1>8, <1>9 DEF Ingest, IngestionStep

IsTaken == document.text # <<>> /\ IsValid(document)
IsPacked ==
  /\ config.window \in Nat /\ CanPack(document, config)
  /\ chunks = Chunks(document, config.window)
TakenInvariant ==
  /\ phase \in {"document", "windows", "chunked", "unchunkable"} => IsTaken
  /\ phase = "chunked" => IsPacked

(* What is chunked is a document its contract took, and the chunks are     *)
(* what the packing makes of it.                                           *)
LEMMA TakenInvariantStep ==
  ASSUME TakenInvariant, [Next]_vars
  PROVE  TakenInvariant'
<1> USE DEF TakenInvariant
<1>1. CASE Ingest
  <2>1. \/ phase' = "document" /\ IsTaken'
        \/ phase' \in {"refused", "reading"}
    BY <1>1, IngestedIsTaken DEF IsTaken
  <2>2. QED
    BY <2>1
<1>2. CASE Tokenize
  BY <1>2 DEF Tokenize, IsTaken
<1>3. CASE ChunkByWindows
  BY <1>3 DEF ChunkByWindows, ingestion, IsTaken
<1>4. CASE PackLayout
  <2>1. phase = "document" /\ phase' \in {"chunked", "unchunkable"} /\ document' = document
    BY <1>4 DEF PackLayout
  <2>2. PICK c \in Config : config' = c
    BY <1>4 DEF PackLayout
  <2>3. phase' = "chunked" =>
          CanPack(document, c) /\ chunks' = Chunks(document, c.window)
    BY <1>4, <2>2 DEF PackLayout
  <2>4. c.window \in Nat
    BY ConfigAssumption
  <2>5. IsTaken
    BY <2>1
  <2>6. IsTaken'
    BY <2>1, <2>5 DEF IsTaken
  <2>7. phase' = "chunked" => IsPacked'
    BY <2>1, <2>2, <2>3, <2>4 DEF IsPacked
  <2>8. QED
    BY <2>6, <2>7
<1>5. CASE UNCHANGED vars
  BY <1>5 DEF vars, ingestion, windowing, IsTaken, IsPacked
<1>6. QED
  BY <1>1, <1>2, <1>3, <1>4, <1>5 DEF Next

(* What holds of every chunked document holds whenever one is chunked.     *)
LEMMA AlwaysTaken == Spec => []TakenInvariant /\ []ExactInvariant
<1>1. Init => TakenInvariant
  BY DEF Init, IngestionInit, TakenInvariant
<1>2. TakenInvariant /\ [Next]_vars => TakenInvariant'
  BY TakenInvariantStep
<1>3. Init => ExactInvariant
  BY ExactInvariantInit
<1>4. ExactInvariant /\ [Next]_vars => ExactInvariant'
  BY ExactInvariantStep
<1>5. QED
  BY <1>1, <1>2, <1>3, <1>4, PTL DEF Spec

(* It is laid out, its blocks do not overlap, and it has the chunks that   *)
(* the packing makes.                                                      *)
LEMMA ChunkedIsLaidOut ==
  ASSUME TakenInvariant, ExactInvariant, phase = "chunked"
  PROVE  /\ \E I : LaidOut(document, I)
         /\ ~BlocksOverlap(Blocks(document)) /\ config.window \in Nat
         /\ config.oversized \/ ~TablesAreTooLong(document, config.window)
         /\ chunks = Chunks(document, config.window)
<1>1. document.text \in Text /\ Shaped(document) /\ document.text # <<>> /\ IsValid(document)
  BY DEF TakenInvariant, IsTaken, ExactInvariant, ExactDocument
<1>2. \E I : LaidOut(document, I)
  BY <1>1, DocumentsAreLaidOut
<1>3. QED
  BY <1>2 DEF TakenInvariant, IsPacked, CanPack

(* Layout-aware chunks cover the text in order, without gaps and overlaps; *)
(* each table and each block of the flow that fits a window lies in one of *)
(* them, and a table's chunk has no other text but blanks behind it        *)
(* (packing.py:91, 127).  For any document an adapter puts together, of    *)
(* any length, with any spans and tables the contract and the overlap      *)
(* check let through, and any window.                                      *)
THEOREM ChunksTile == Spec => []LayoutChunksTile
<1>1. ASSUME TakenInvariant, ExactInvariant PROVE LayoutChunksTile
  <2>1. SUFFICES ASSUME Chunked
                 PROVE  /\ chunks[1].start = 0 /\ Last(chunks).end = Len(document.text)
                        /\ \A k \in DOMAIN chunks :
                             k > 1 => chunks[k].start = chunks[k - 1].end
                        /\ \A b \in Blocks(document) :
                             b.kind = "table" \/ Fits(b) =>
                               \E c \in ToSet(chunks) :
                                 c.start <= b.start /\ b.end <= c.end /\ b.id \in c.ids
                        /\ \A c \in ToSet(chunks), t \in ToSet(document.tables) :
                             c.kind = "table" /\ t.id \in c.ids =>
                               /\ c.start = t.range.sc
                               /\ ToSet(Slice(document.text, t.range.ec, c.end)) \subseteq Blank
    BY DEF LayoutChunksTile
  <2>2. /\ \E I : LaidOut(document, I)
        /\ ~BlocksOverlap(Blocks(document)) /\ config.window \in Nat
        /\ chunks = Chunks(document, config.window)
    BY <1>1, <2>1, ChunkedIsLaidOut DEF Chunked
  <2>3. PICK I : LaidOut(document, I)
    BY <2>2
  <2>4. /\ chunks \in Seq(ChunkOn(I))
        /\ chunks[1].start = 0 /\ Last(chunks).end = Len(document.text)
        /\ \A k \in 1 .. Len(chunks) : k > 1 => chunks[k].start = chunks[k - 1].end
    BY <2>2, <2>3, ChunksCover
  <2>5. DOMAIN chunks = 1 .. Len(chunks)
    BY <2>4
  <2>6. ASSUME NEW b \in Blocks(document), b.kind = "table" \/ Fits(b)
        PROVE  \E c \in ToSet(chunks) : c.start <= b.start /\ b.end <= c.end /\ b.id \in c.ids
    <3>1. \/ b.kind = "table"
          \/ \E f \in ToSet(WithGapBlocks(document, Blocks(document))) :
               f.start = b.start /\ ~TooLong(document, config.window, f.start, f.end)
      BY <2>6 DEF Fits
    <3>2. PICK k \in 1 .. Len(chunks) :
            chunks[k].start <= b.start /\ b.end <= chunks[k].end /\ b.id \in chunks[k].ids
      BY <2>2, <2>3, <3>1, ChunksHoldBlocks
    <3>3. chunks[k] \in ToSet(chunks)
      BY <2>5 DEF ToSet
    <3>4. QED
      BY <3>2, <3>3
  <2>7. ASSUME NEW c \in ToSet(chunks), NEW t \in ToSet(document.tables),
               c.kind = "table", t.id \in c.ids
        PROVE  /\ c.start = t.range.sc
               /\ ToSet(Slice(document.text, t.range.ec, c.end)) \subseteq Blank
    <3>1. PICK k \in 1 .. Len(chunks) : c = chunks[k]
      BY <2>5 DEF ToSet
    <3>2. QED
      BY <2>2, <2>3, <2>7, <3>1, TableChunksAreTables
  <2>8. QED
    BY <2>4, <2>5, <2>6, <2>7
<1>2. QED
  BY <1>1, AlwaysTaken, PTL

(* A chunk with more tokens than the window says why: it is a table, and   *)
(* the configuration lets it be, or a single letter; and what no window    *)
(* holds is cut as late as it can be (packing.py:154, 247).                *)
THEOREM LongChunksHaveReasons == Spec => []ChunksFitOrSayWhy
<1>1. ASSUME TakenInvariant, ExactInvariant PROVE ChunksFitOrSayWhy
  <2>1. SUFFICES ASSUME Chunked, NEW k \in DOMAIN chunks
                 PROVE  LET c == chunks[k]
                        IN  /\ TooLong(document, config.window, c.start, c.end) =>
                                 \/ c.reason = "atomic_table_overflow" /\ config.oversized
                                 \/ c.reason = "oversized_sentence" /\ c.end = c.start + 1
                            /\ c.reason = "oversized_sentence" /\ k < Len(chunks)
                                 /\ chunks[k + 1].reason = "oversized_sentence"
                                 /\ chunks[k + 1].ids = c.ids =>
                                   \/ TooLong(document, config.window, c.start, c.end + 1)
                                   \/ document.text[c.end] = Stop
    BY DEF ChunksFitOrSayWhy
  <2>2. /\ \E I : LaidOut(document, I)
        /\ ~BlocksOverlap(Blocks(document)) /\ config.window \in Nat
        /\ config.oversized \/ ~TablesAreTooLong(document, config.window)
        /\ chunks = Chunks(document, config.window)
    BY <1>1, <2>1, ChunkedIsLaidOut DEF Chunked
  <2>3. PICK I : LaidOut(document, I)
    BY <2>2
  <2>4. chunks \in Seq(ChunkOn(I)) /\ Tight(document, config.window, chunks)
    BY <2>2, <2>3, ChunksCover
  <2>5. k \in 1 .. Len(chunks) /\ Len(chunks) \in Nat
    BY <2>1, <2>4
  <2>6. TooLong(document, config.window, chunks[k].start, chunks[k].end) =>
          \/ chunks[k].reason = "atomic_table_overflow"
               /\ TablesAreTooLong(document, config.window)
          \/ chunks[k].reason = "oversized_sentence" /\ chunks[k].end = chunks[k].start + 1
    BY <2>2, <2>3, <2>5, LongChunksSayWhy
  <2>7. k < Len(chunks) => Late(document, config.window, chunks[k], chunks[k + 1])
    <3>1. k < Len(chunks) => k + 1 \in 2 .. Len(chunks) /\ (k + 1) - 1 = k
      BY <2>5
    <3>2. QED
      BY <2>4, <3>1 DEF Tight
  <2>8. QED
    BY <2>2, <2>6, <2>7 DEF Late
<1>2. QED
  BY <1>1, AlwaysTaken, PTL

(* The parent of a chunk is the section that the text before it belongs    *)
(* to: no heading that fits a window, if it is not blank, begins in        *)
(* between (tokenizer.py:98).                                              *)
THEOREM ParentsAreTheSections == Spec => []HierarchyPointsBack
<1>1. ASSUME TakenInvariant, ExactInvariant PROVE HierarchyPointsBack
  <2> DEFINE parentOf(k) == ParentOf(document, chunks, k)
  <2>1. SUFFICES ASSUME Chunked, NEW k \in DOMAIN chunks,
                        parentOf(k) # 0 \/ chunks[k].kind # "section",
                        NEW h \in Blocks(document), h.kind = "section",
                        h.start < chunks[k].start, HasContent(document, h.start, h.end),
                        parentOf(k) = 0 \/ chunks[parentOf(k)].end <= h.start
                 PROVE  ~Fits(h)
    BY DEF HierarchyPointsBack
  <2>2. /\ \E I : LaidOut(document, I)
        /\ ~BlocksOverlap(Blocks(document)) /\ config.window \in Nat
        /\ chunks = Chunks(document, config.window)
    BY <1>1, <2>1, ChunkedIsLaidOut DEF Chunked
  <2>3. PICK I : LaidOut(document, I)
    BY <2>2
  <2>4. chunks \in Seq(ChunkOn(I))
    BY <2>2, <2>3, ChunksCover
  <2>5. k \in 1 .. Len(chunks)
    BY <2>1, <2>4
  <2> DEFINE parent == ParentOf(document, chunks, k)
  <2>6. /\ parent = ParentOf(document, chunks, k) /\ (parent # 0 \/ chunks[k].kind # "section")
        /\ parent = 0 \/ chunks[parent].end <= h.start
    BY <2>1
  <2> HIDE DEF parent
  <2>7. ~\E f \in ToSet(WithGapBlocks(document, Blocks(document))) :
            f.start = h.start /\ ~TooLong(document, config.window, f.start, f.end)
    BY <2>1, <2>2, <2>3, <2>5, <2>6, SectionsAreParents
  <2>8. QED
    BY <2>7 DEF Fits
<1>2. QED
  BY <1>1, AlwaysTaken, PTL
=============================================================================
