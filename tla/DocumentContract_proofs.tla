----------------------- MODULE DocumentContract_proofs ------------------------
(***************************************************************************)
(* The contract of every ingested document (IsValid), for texts of any     *)
(* length, any letters, tags, tables, pages and headers.                   *)
(*                                                                         *)
(* An assembler is filed when its segments cover its text without a gap    *)
(* and its spans and tables lie in it, under ids of their own (Filed).     *)
(* Each block and table keeps it so, for its ids carry a number that was   *)
(* not in use; a document made of it then satisfies its contract.  That    *)
(* the offsets are exact is proved in DocumentPipeline_proofs.             *)
(***************************************************************************)
EXTENDS DocumentPipeline_proofs

-----------------------------------------------------------------------------
(* Place k of a flattened sequence is place inner[k] of its sequence       *)
(* outer[k], and each place of each sequence is there once.                *)
IsFlat(flat, n, ss, outer, inner) ==
  /\ outer \in [1 .. Len(flat) -> Nat] /\ inner \in [1 .. Len(flat) -> Nat]
  /\ \A k \in 1 .. Len(flat) :
       outer[k] \in 1 .. n /\ inner[k] \in 1 .. Len(ss[outer[k]]) /\ flat[k] = ss[outer[k]][inner[k]]
  /\ \A k, l \in 1 .. Len(flat) : outer[k] = outer[l] /\ inner[k] = inner[l] => k = l
  /\ \A i \in 1 .. n : \A j \in 1 .. Len(ss[i]) :
       \E k \in 1 .. Len(flat) : outer[k] = i /\ inner[k] = j

(* One more sequence: its places follow the others.                        *)
LEMMA PlacesFollow ==
  ASSUME NEW S, NEW m \in Nat, m >= 1, NEW ss, \A i \in 1 .. m : ss[i] \in Seq(S),
         NEW f \in Seq(S), NEW o, NEW r, IsFlat(f, m - 1, ss, o, r),
         NEW g, g = f \o ss[m]
  PROVE  \E outer, inner : IsFlat(g, m, ss, outer, inner)
<1> DEFINE p == Len(f)
           s == ss[m]
           q == Len(s)
           outer == [k \in 1 .. p + q |-> IF k <= p THEN o[k] ELSE m]
           inner == [k \in 1 .. p + q |-> IF k <= p THEN r[k] ELSE k - p]
<1>1. /\ s \in Seq(S) /\ p \in Nat /\ q \in Nat /\ Len(g) = p + q
      /\ \A k \in 1 .. p : g[k] = f[k]
      /\ \A k \in 1 .. q : g[p + k] = s[k]
  BY DEF p, q
<1>2. /\ o \in [1 .. p -> Nat] /\ r \in [1 .. p -> Nat]
      /\ \A k \in 1 .. p : o[k] \in 1 .. m - 1 /\ r[k] \in 1 .. Len(ss[o[k]])
                           /\ f[k] = ss[o[k]][r[k]]
      /\ \A k, l \in 1 .. p : o[k] = o[l] /\ r[k] = r[l] => k = l
      /\ \A i \in 1 .. m - 1 : \A j \in 1 .. Len(ss[i]) :
           \E k \in 1 .. p : o[k] = i /\ r[k] = j
  BY DEF IsFlat
<1> HIDE DEF p, q, s
<1>3. ASSUME NEW k \in 1 .. p
      PROVE  k \in 1 .. p + q /\ outer[k] = o[k] /\ inner[k] = r[k] /\ o[k] \in 1 .. m - 1
  <2>1. k \in 1 .. p + q /\ k <= p
    BY <1>1
  <2>2. QED
    BY <1>2, <2>1
<1>4. ASSUME NEW k \in 1 .. p + q, ~(k <= p)
      PROVE  k - p \in 1 .. q /\ p + (k - p) = k /\ outer[k] = m /\ inner[k] = k - p
  BY <1>1, <1>4
<1>5. outer \in [1 .. p + q -> Nat] /\ inner \in [1 .. p + q -> Nat]
  <2>1. ASSUME NEW k \in 1 .. p + q PROVE outer[k] \in Nat /\ inner[k] \in Nat
    <3>1. CASE k <= p
      <4>1. k \in 1 .. p
        BY <1>1, <3>1
      <4>2. QED
        BY <1>2, <1>3, <4>1
    <3>2. CASE ~(k <= p)
      BY <1>4, <3>2
    <3>3. QED
      BY <3>1, <3>2
  <2>2. QED
    BY <2>1
<1> HIDE DEF outer, inner
<1>6. ASSUME NEW k \in 1 .. p + q
      PROVE  outer[k] \in 1 .. m /\ inner[k] \in 1 .. Len(ss[outer[k]])
             /\ g[k] = ss[outer[k]][inner[k]]
  <2>1. CASE k <= p
    <3>1. k \in 1 .. p
      BY <1>1, <2>1
    <3>2. outer[k] = o[k] /\ inner[k] = r[k] /\ g[k] = f[k]
      BY <1>1, <1>3, <3>1
    <3>3. o[k] \in 1 .. m - 1 /\ r[k] \in 1 .. Len(ss[o[k]]) /\ f[k] = ss[o[k]][r[k]]
      BY <1>2, <3>1
    <3>4. o[k] \in 1 .. m
      BY <3>3
    <3>5. QED
      BY <3>2, <3>3, <3>4
  <2>2. CASE ~(k <= p)
    <3>1. k - p \in 1 .. q /\ p + (k - p) = k /\ outer[k] = m /\ inner[k] = k - p
      BY <1>4, <2>2
    <3>2. g[k] = s[k - p]
      BY <1>1, <3>1
    <3>3. m \in 1 .. m
      OBVIOUS
    <3>4. QED
      BY <3>1, <3>2, <3>3 DEF s, q
  <2>3. QED
    BY <2>1, <2>2
<1>7. ASSUME NEW k \in 1 .. p + q, NEW l \in 1 .. p + q,
             outer[k] = outer[l], inner[k] = inner[l]
      PROVE  k = l
  <2>1. CASE k <= p /\ l <= p
    <3>1. k \in 1 .. p /\ l \in 1 .. p
      BY <1>1, <2>1
    <3>2. o[k] = o[l] /\ r[k] = r[l]
      BY <1>3, <1>7, <3>1
    <3>3. QED
      BY <1>2, <3>1, <3>2
  <2>2. CASE ~(k <= p) /\ ~(l <= p)
    BY <1>4, <1>7, <2>2
  <2>3. CASE k <= p /\ ~(l <= p)
    <3>1. k \in 1 .. p
      BY <1>1, <2>3
    <3>2. outer[k] \in 1 .. m - 1 /\ outer[l] = m
      BY <1>3, <1>4, <2>3, <3>1
    <3>3. QED
      BY <1>7, <3>2
  <2>4. CASE ~(k <= p) /\ l <= p
    <3>1. l \in 1 .. p
      BY <1>1, <2>4
    <3>2. outer[l] \in 1 .. m - 1 /\ outer[k] = m
      BY <1>3, <1>4, <2>4, <3>1
    <3>3. QED
      BY <1>7, <3>2
  <2>5. QED
    BY <2>1, <2>2, <2>3, <2>4
<1>8. ASSUME NEW i \in 1 .. m, NEW j \in 1 .. Len(ss[i])
      PROVE  \E k \in 1 .. p + q : outer[k] = i /\ inner[k] = j
  <2>1. CASE i = m
    <3>1. j \in 1 .. q
      BY <2>1 DEF q, s
    <3>2. p + j \in 1 .. p + q /\ ~(p + j <= p) /\ (p + j) - p = j
      BY <1>1, <3>1
    <3>3. outer[p + j] = i /\ inner[p + j] = j
      BY <1>4, <2>1, <3>2
    <3>4. QED
      BY <3>2, <3>3
  <2>2. CASE i # m
    <3>1. i \in 1 .. m - 1
      BY <2>2
    <3>2. PICK k \in 1 .. p : o[k] = i /\ r[k] = j
      BY <1>2, <3>1
    <3>3. QED
      BY <1>3, <3>2
  <2>3. QED
    BY <2>1, <2>2
<1>9. IsFlat(g, m, ss, outer, inner)
  BY <1>1, <1>5, <1>6, <1>7, <1>8 DEF IsFlat
<1>10. QED
  BY <1>9

(* FlattenSeq has every place of every sequence once.                      *)
LEMMA FlatPlaces ==
  ASSUME NEW S, NEW n \in Nat, NEW ss \in [1 .. n -> Seq(S)]
  PROVE  \E outer, inner : IsFlat(FlattenSeq(ss), n, ss, outer, inner)
<1>1. PICK f \in [0 .. n -> Seq(S)] : Chain(f, n, ss) /\ FlattenSeq(ss) = f[n]
  BY Flattening
<1> DEFINE T == {m \in 0 .. n : \E outer, inner : IsFlat(f[m], m, ss, outer, inner)}
<1>2. 0 \in T
  <2> DEFINE none == [k \in 1 .. 0 |-> 0]
  <2>1. f[0] = <<>> /\ Len(f[0]) = 0 /\ 0 \in 0 .. n
    BY <1>1 DEF Chain
  <2>2. IsFlat(f[0], 0, ss, none, none)
    BY <2>1 DEF IsFlat
  <2>3. QED
    BY <2>1, <2>2
<1>3. ASSUME NEW m \in 1 .. n, m - 1 \in T PROVE m \in T
  <2>1. /\ m \in Nat /\ m >= 1 /\ m \in 0 .. n /\ m - 1 \in 0 .. n
        /\ \A i \in 1 .. m : i \in 1 .. n
    OBVIOUS
  <2>2. \A i \in 1 .. m : ss[i] \in Seq(S)
    BY <2>1
  <2>3. PICK o, r : IsFlat(f[m - 1], m - 1, ss, o, r)
    BY <1>3
  <2>4. f[m] = f[m - 1] \o ss[m] /\ f[m - 1] \in Seq(S)
    BY <1>1, <2>1 DEF Chain
  <2>5. \E outer, inner : IsFlat(f[m], m, ss, outer, inner)
    BY <2>1, <2>2, <2>3, <2>4, PlacesFollow
  <2>6. QED
    BY <2>1, <2>5
<1> HIDE DEF T
<1>4. n \in T
  <2>1. n \in 0 .. n
    OBVIOUS
  <2>2. QED
    BY <1>2, <1>3, <2>1, Reaches
<1>5. QED
  BY <1>1, <1>4 DEF T

-----------------------------------------------------------------------------
(* Ids that are unique                                                     *)

(* They stay so when an entry with a new one is appended,                  *)
LEMMA UniqueAppend ==
  ASSUME NEW X, NEW s \in Seq(X), NEW x, UniqueIds(s), \A i \in 1 .. Len(s) : s[i].id # x.id
  PROVE  UniqueIds(Append(s, x))
<1> DEFINE t == Append(s, x)
           n == Len(s)
<1>1. /\ n \in Nat /\ DOMAIN s = 1 .. n /\ DOMAIN t = 1 .. n + 1
      /\ \A i \in 1 .. n : t[i] = s[i]
      /\ t[n + 1] = x
  OBVIOUS
<1> HIDE DEF t, n
<1>2. ASSUME NEW i \in 1 .. n + 1, NEW j \in 1 .. n + 1, t[i].id = t[j].id PROVE i = j
  <2>1. \A k \in 1 .. n + 1 : k \in 1 .. n \/ k = n + 1
    BY <1>1
  <2>2. CASE i = n + 1 \/ j = n + 1
    BY <1>1, <1>2, <2>1, <2>2 DEF n
  <2>3. CASE i \in 1 .. n /\ j \in 1 .. n
    BY <1>1, <1>2, <2>3 DEF UniqueIds
  <2>4. QED
    BY <2>1, <2>2, <2>3
<1>3. UniqueIds(t)
  BY <1>1, <1>2 DEF UniqueIds
<1>4. QED
  BY <1>3 DEF t

(* when sequences without a common one are joined,                         *)
LEMMA UniqueJoin ==
  ASSUME NEW X, NEW Y, NEW s \in Seq(X), NEW r \in Seq(Y), UniqueIds(s), UniqueIds(r),
         \A i \in 1 .. Len(s) : \A j \in 1 .. Len(r) : s[i].id # r[j].id
  PROVE  UniqueIds(s \o r)
<1> DEFINE t == s \o r
           n == Len(s)
           m == Len(r)
<1>1. /\ n \in Nat /\ DOMAIN s = 1 .. n /\ m \in Nat /\ DOMAIN r = 1 .. m
      /\ DOMAIN t = 1 .. n + m
      /\ \A i \in 1 .. n : t[i] = s[i]
      /\ \A i \in n + 1 .. n + m : t[i] = r[i - n]
  <2>1. s \in Seq(X \cup Y) /\ r \in Seq(X \cup Y)
    OBVIOUS
  <2>2. QED
    BY <2>1
<1> HIDE DEF t, n, m
<1>2. ASSUME NEW i \in 1 .. n + m, NEW j \in 1 .. n + m, t[i].id = t[j].id PROVE i = j
  <2>1. \A k \in 1 .. n + m : k \in 1 .. n \/ k \in n + 1 .. n + m
    BY <1>1
  <2>2. \A k \in n + 1 .. n + m : k - n \in 1 .. m /\ k = (k - n) + n
    BY <1>1
  <2>3. CASE i \in 1 .. n /\ j \in 1 .. n
    BY <1>1, <1>2, <2>3 DEF UniqueIds
  <2>4. CASE i \in n + 1 .. n + m /\ j \in n + 1 .. n + m
    <3>1. i - n \in 1 .. m /\ j - n \in 1 .. m /\ r[i - n].id = r[j - n].id
      BY <1>1, <1>2, <2>2, <2>4
    <3>2. i - n = j - n
      BY <1>1, <3>1 DEF UniqueIds
    <3>3. QED
      BY <1>1, <3>2
  <2>5. CASE i \in 1 .. n /\ j \in n + 1 .. n + m
    BY <1>1, <1>2, <2>2, <2>5 DEF n, m
  <2>6. CASE j \in 1 .. n /\ i \in n + 1 .. n + m
    <3>1. s[j].id # r[i - n].id
      BY <2>2, <2>6 DEF n, m
    <3>2. t[j] = s[j] /\ t[i] = r[i - n]
      BY <1>1, <2>6
    <3>3. QED
      BY <1>2, <3>1, <3>2
  <2>7. QED
    BY <2>1, <2>3, <2>4, <2>5, <2>6
<1>3. UniqueIds(t)
  BY <1>1, <1>2 DEF UniqueIds
<1>4. QED
  BY <1>3 DEF t

(* and when many are flattened.                                            *)
LEMMA UniqueFlat ==
  ASSUME NEW S, NEW n \in Nat, NEW ss \in [1 .. n -> Seq(S)],
         \A i \in 1 .. n : UniqueIds(ss[i]),
         \A i, j \in 1 .. n : i # j =>
           \A k \in 1 .. Len(ss[i]) : \A l \in 1 .. Len(ss[j]) : ss[i][k].id # ss[j][l].id
  PROVE  UniqueIds(FlattenSeq(ss))
<1> DEFINE f == FlattenSeq(ss)
<1>1. f \in Seq(S)
  BY FlatIsSequence
<1>2. PICK outer, inner : IsFlat(f, n, ss, outer, inner)
  BY FlatPlaces
<1>3. DOMAIN f = 1 .. Len(f)
  BY <1>1
<1> HIDE DEF f
<1>4. ASSUME NEW k \in 1 .. Len(f), NEW l \in 1 .. Len(f), f[k].id = f[l].id PROVE k = l
  <2> DEFINE i == outer[k]
             j == outer[l]
  <2>1. /\ i \in 1 .. n /\ inner[k] \in 1 .. Len(ss[i]) /\ f[k] = ss[i][inner[k]]
        /\ j \in 1 .. n /\ inner[l] \in 1 .. Len(ss[j]) /\ f[l] = ss[j][inner[l]]
        /\ i = j /\ inner[k] = inner[l] => k = l
    BY <1>2 DEF IsFlat
  <2> HIDE DEF i, j
  <2>2. i = j
    BY <1>4, <2>1
  <2>3. inner[k] = inner[l]
    <3>1. UniqueIds(ss[i]) /\ ss[i] \in Seq(S)
      BY <2>1
    <3>2. DOMAIN ss[i] = 1 .. Len(ss[i])
      BY <3>1
    <3>3. QED
      BY <1>4, <2>1, <2>2, <3>1, <3>2 DEF UniqueIds
  <2>4. QED
    BY <2>1, <2>2, <2>3
<1>5. UniqueIds(f)
  BY <1>3, <1>4 DEF UniqueIds
<1>6. QED
  BY <1>5 DEF f

-----------------------------------------------------------------------------
(* The source map of an assembler                                          *)

(* Its segments follow each other from the start of the text to the end.   *)
Covers(a) ==
  /\ \A i \in 1 .. Len(a.map) :
       /\ IsRange(a.map[i].range)
       /\ a.map[i].range.ec <= a.char /\ a.map[i].range.eb <= a.byte
       /\ a.map[i].range.sc = IF i = 1 THEN 0 ELSE a.map[i - 1].range.ec
       /\ a.map[i].range.sb = IF i = 1 THEN 0 ELSE a.map[i - 1].range.eb
  /\ a.char = IF a.map = <<>> THEN 0 ELSE a.map[Len(a.map)].range.ec
  /\ a.byte = IF a.map = <<>> THEN 0 ELSE a.map[Len(a.map)].range.eb

(* Their ids are unique and in a set.                                      *)
Named(a, ids) == UniqueIds(a.map) /\ \A i \in 1 .. Len(a.map) : a.map[i].id \in ids

(* What AddSegment makes of an assembler.                                  *)
Appends(a, b, text, id) ==
  /\ b.layout = a.layout /\ b.tables = a.tables
  /\ b.char = a.char + Len(text) /\ b.byte = a.byte + ByteLen(text)
  /\ \E x \in Segment :
       /\ x.id = id /\ b.map = Append(a.map, x)
       /\ x.range = [sc |-> a.char, ec |-> b.char, sb |-> a.byte, eb |-> b.byte]

(* A text has as many bytes as letters, at least.                          *)
LEMMA BytesAreMany ==
  ASSUME NEW text \in Text
  PROVE  Len(text) \in Nat /\ ByteLen(text) \in Nat /\ ByteLen(text) >= Len(text)
<1> DEFINE wide == {i \in DOMAIN text : text[i] \in Wide}
           n == Len(text)
<1>1. n \in Nat /\ DOMAIN text = 1 .. n
  BY DEF Text
<1>2. wide \in SUBSET (1 .. n) /\ 0 \in Int /\ wide = {i + 0 : i \in wide}
  BY <1>1
<1>3. ByteLen(text) = n + Cardinality(wide)
  BY DEF ByteLen
<1> HIDE DEF wide, n
<1>4. Cardinality(wide) \in Nat
  BY <1>1, <1>2, ShiftedSets
<1>5. QED
  BY <1>1, <1>3, <1>4 DEF n

(* A segment is added behind the others, with the range that was added.    *)
LEMMA SegmentsFollow ==
  ASSUME NEW a, NEW s \in Text, a \in ExactOn(s), NEW text \in Text,
         NEW id \in SegmentId, NEW kind \in SegmentKind, NEW b, b = AddSegment(a, text, id, kind)
  PROVE  Appends(a, b, text, id)
<1> DEFINE range == [sc |-> a.char, ec |-> a.char + Len(text),
                     sb |-> a.byte, eb |-> a.byte + ByteLen(text)]
           x == [id |-> id, kind |-> kind, range |-> range]
<1>1. /\ a = [text |-> a.text, map |-> a.map, char |-> a.char, byte |-> a.byte,
              layout |-> a.layout, tables |-> a.tables]
      /\ a.char \in Nat /\ a.byte \in Nat
  <2>1. a.char = Len(s) /\ a.byte = ByteLen(s)
    BY DEF ExactOn
  <2>2. QED
    BY <2>1, BytesAreMany DEF ExactOn
<1>2. range \in TextRange
  BY <1>1, BytesAreMany DEF TextRange
<1>3. x \in Segment
  BY <1>2 DEF Segment
<1>4. b = [a EXCEPT !.text = a.text \o text, !.map = Append(a.map, x),
                    !.char = range.ec, !.byte = range.eb]
  BY DEF AddSegment
<1>5. /\ b.layout = a.layout /\ b.tables = a.tables /\ b.map = Append(a.map, x)
      /\ b.char = a.char + Len(text) /\ b.byte = a.byte + ByteLen(text)
  <2> HIDE DEF x
  <2> QED
    BY <1>1, <1>4
<1>6. x.id = id /\ x.range = [sc |-> a.char, ec |-> b.char, sb |-> a.byte, eb |-> b.byte]
  BY <1>5
<1> HIDE DEF x, range
<1>7. QED
  BY <1>3, <1>5, <1>6 DEF Appends

(* A map that covers the text covers it with a segment more,               *)
LEMMA MapsGrow ==
  ASSUME NEW a, NEW s \in Text, a \in ExactOn(s), NEW text \in Text, text # <<>>, NEW id,
         NEW b, Appends(a, b, text, id), Covers(a)
  PROVE  Covers(b) /\ a.char < b.char /\ a.byte < b.byte
<1> DEFINE n == Len(a.map)
           c == a.char
           y == a.byte
<1>1. /\ a.map \in Seq(Segment) /\ c \in Nat /\ y \in Nat /\ n \in Nat
      /\ \A i \in 1 .. n : a.map[i].range \in TextRange
  <2>1. a.char = Len(s) /\ a.byte = ByteLen(s) /\ a.map \in Seq(Segment)
    BY DEF ExactOn
  <2>2. n \in Nat /\ \A i \in 1 .. n : a.map[i] \in Segment
    BY <2>1
  <2>3. QED
    BY <2>1, <2>2, BytesAreMany DEF Segment
<1>2. PICK x \in Segment :
        b.map = Append(a.map, x)
        /\ x.range = [sc |-> a.char, ec |-> b.char, sb |-> a.byte, eb |-> b.byte]
  BY DEF Appends
<1>3. /\ b.char > c /\ b.byte > y /\ b.char \in Nat /\ b.byte \in Nat
  <2>1. /\ b.char = c + Len(text) /\ b.byte = y + ByteLen(text)
        /\ Len(text) \in Nat /\ ByteLen(text) \in Nat /\ ByteLen(text) >= Len(text)
    BY BytesAreMany DEF Appends
  <2>2. Len(text) > 0
    BY <2>1 DEF Text
  <2>3. QED
    BY <1>1, <2>1, <2>2
<1>4. /\ b.map # <<>> /\ Len(b.map) = n + 1 /\ b.map[n + 1] = x
      /\ \A i \in 1 .. n : b.map[i] = a.map[i]
  <2> DEFINE m == a.map
  <2>1. m \in Seq(Segment) /\ n = Len(m) /\ b.map = Append(m, x)
    BY <1>1, <1>2
  <2> HIDE DEF m, n
  <2>2. /\ Append(m, x) # <<>> /\ Len(Append(m, x)) = n + 1 /\ Append(m, x)[n + 1] = x
        /\ \A i \in 1 .. n : Append(m, x)[i] = m[i]
    BY <2>1
  <2>3. QED
    BY <2>1, <2>2 DEF m
<1>5. x.range.sc = c /\ x.range.ec = b.char /\ x.range.sb = y /\ x.range.eb = b.byte
  BY <1>2
<1>6. IF n = 0 THEN c = 0 /\ y = 0 ELSE c = a.map[n].range.ec /\ y = a.map[n].range.eb
  <2>1. a.map = <<>> <=> n = 0
    BY <1>1
  <2>2. QED
    BY <2>1 DEF Covers
<1>7. \A i \in 1 .. n :
         /\ IsRange(a.map[i].range) /\ a.map[i].range.ec <= c /\ a.map[i].range.eb <= y
         /\ a.map[i].range.sc = IF i = 1 THEN 0 ELSE a.map[i - 1].range.ec
         /\ a.map[i].range.sb = IF i = 1 THEN 0 ELSE a.map[i - 1].range.eb
  BY DEF Covers
<1> HIDE DEF n, c, y
<1>8. ASSUME NEW i \in 1 .. n + 1
      PROVE  /\ IsRange(b.map[i].range)
             /\ b.map[i].range.ec <= b.char /\ b.map[i].range.eb <= b.byte
             /\ b.map[i].range.sc = IF i = 1 THEN 0 ELSE b.map[i - 1].range.ec
             /\ b.map[i].range.sb = IF i = 1 THEN 0 ELSE b.map[i - 1].range.eb
  <2>1. CASE i = n + 1
    <3>1. IsRange(b.map[i].range)
      BY <1>1, <1>3, <1>4, <1>5, <2>1 DEF IsRange
    <3>2. b.map[i].range.ec <= b.char /\ b.map[i].range.eb <= b.byte
      BY <1>3, <1>4, <1>5, <2>1
    <3>3. CASE n = 0
      BY <1>4, <1>5, <1>6, <2>1, <3>1, <3>2, <3>3
    <3>4. CASE n # 0
      <4>1. n \in 1 .. n /\ i - 1 = n /\ i # 1
        BY <1>1, <2>1, <3>4
      <4>2. b.map[i - 1] = a.map[n]
        BY <1>4, <4>1
      <4>3. QED
        BY <1>4, <1>5, <1>6, <2>1, <3>1, <3>2, <3>4, <4>1, <4>2
    <3>5. QED
      BY <3>3, <3>4
  <2>2. CASE i # n + 1
    <3>1. i \in 1 .. n
      BY <1>1, <2>2
    <3>2. i # 1 => i - 1 \in 1 .. n
      BY <1>1, <3>1
    <3>3. b.map[i] = a.map[i] /\ (i # 1 => b.map[i - 1] = a.map[i - 1])
      BY <1>4, <3>1, <3>2
    <3>4. a.map[i].range.ec \in Nat /\ a.map[i].range.eb \in Nat
      BY <1>1, <3>1 DEF TextRange
    <3>5. a.map[i].range.ec <= b.char /\ a.map[i].range.eb <= b.byte
      BY <1>1, <1>3, <1>7, <3>1, <3>4, SMTT(30)
    <3>6. QED
      BY <1>7, <3>1, <3>3, <3>5
  <2>3. QED
    BY <2>1, <2>2
<1>9. Covers(b)
  BY <1>3, <1>4, <1>5, <1>8 DEF Covers
<1>10. QED
  BY <1>3, <1>9 DEF c, y

(* and one with unique ids keeps them if the segment brings a new one.     *)
LEMMA NamesGrow ==
  ASSUME NEW a, NEW s, a \in ExactOn(s), NEW text, NEW id, NEW b, Appends(a, b, text, id),
         NEW ids, Named(a, ids), id \notin ids
  PROVE  Named(b, ids \cup {id})
<1> DEFINE n == Len(a.map)
<1>1. a.map \in Seq(Segment) /\ n \in Nat
  BY DEF ExactOn
<1>2. PICK x \in Segment : x.id = id /\ b.map = Append(a.map, x)
  BY DEF Appends
<1>3. UniqueIds(b.map)
  <2>1. \A i \in 1 .. Len(a.map) : a.map[i].id # x.id
    BY <1>2 DEF Named
  <2>2. QED
    BY <1>1, <1>2, <2>1, UniqueAppend DEF Named
<1>4. /\ Len(b.map) = n + 1 /\ b.map[n + 1] = x /\ \A i \in 1 .. n : b.map[i] = a.map[i]
  BY <1>1, <1>2
<1>5. \A i \in 1 .. n : a.map[i].id \in ids
  BY DEF Named
<1> HIDE DEF n
<1>6. \A i \in 1 .. n + 1 : b.map[i].id \in ids \cup {id}
  <2>1. \A i \in 1 .. n + 1 : i \in 1 .. n \/ i = n + 1
    BY <1>1
  <2>2. QED
    BY <1>2, <1>4, <1>5, <2>1
<1>7. QED
  BY <1>3, <1>4, <1>6 DEF Named

-----------------------------------------------------------------------------
(* The layout and the tables of an assembler, as the contract wants them   *)

(* A range that is not empty and ends within the assembled text.           *)
Within(a, range) ==
  /\ range \in TextRange /\ IsRange(range)
  /\ range.ec <= a.char /\ range.eb <= a.byte

TableIsFiled(a, t) ==
  /\ t.page = 1 /\ Within(a, t.range)
  /\ t.cells # <<>> /\ CellsAreApart(t.cells)
  /\ \A c \in ToSet(t.cells) : Within(a, c.range) /\ CellIsWithin(t, c)

(* The ids of so many blocks and tables.                                   *)
SpanIds(blocks, tables) ==
  {x \in SpanId : /\ x[1] = "block" => x[2] < blocks
                  /\ x[1] \in {"table", "cell"} => x[2] < tables}
MapIds(blocks, tables) ==
  {x \in SegmentId : /\ x[1] \in {"separator", "block"} => x[2] < blocks
                     /\ x[1] \in {"row-separator", "row"} => x[2] < tables}

Listed(a) ==
  /\ UniqueIds(a.layout) /\ UniqueIds(a.tables)
  /\ \A k \in 1 .. Len(a.layout) :
       /\ a.layout[k].page = 1 /\ Within(a, a.layout[k].range)
       /\ a.layout[k].id \in SpanIds(BlockIndex(a), Len(a.tables))
  /\ \A k \in 1 .. Len(a.tables) :
       /\ TableIsFiled(a, a.tables[k])
       /\ a.tables[k].id \in SpanIds(BlockIndex(a), Len(a.tables))

(* A longer assembler.                                                     *)
Grows(a, b) ==
  /\ a.char \in Nat /\ a.byte \in Nat /\ b.char \in Nat /\ b.byte \in Nat
  /\ a.char <= b.char /\ a.byte <= b.byte

(* A range within an assembler is within a longer one,                     *)
LEMMA WithinStays ==
  ASSUME NEW a, NEW b, Grows(a, b), NEW range, Within(a, range)
  PROVE  Within(b, range)
<1>1. range.ec \in Nat /\ range.eb \in Nat
  BY DEF Within, TextRange
<1>2. QED
  BY <1>1 DEF Within, Grows

(* and so are the tables that are filed in it.                             *)
LEMMA TablesStayFiled ==
  ASSUME NEW a, NEW b, Grows(a, b), NEW t, TableIsFiled(a, t)
  PROVE  TableIsFiled(b, t)
BY WithinStays DEF TableIsFiled

(* What is listed stays so when only the text grows.                       *)
LEMMA ListedStays ==
  ASSUME NEW a, NEW b, Grows(a, b), b.layout = a.layout, b.tables = a.tables, Listed(a)
  PROVE  Listed(b)
<1>1. BlockIndex(b) = BlockIndex(a)
  BY DEF BlockIndex
<1>2. ASSUME NEW k \in 1 .. Len(b.layout)
      PROVE  /\ b.layout[k].page = 1 /\ Within(b, b.layout[k].range)
             /\ b.layout[k].id \in SpanIds(BlockIndex(b), Len(b.tables))
  BY <1>1, WithinStays DEF Listed
<1>3. ASSUME NEW k \in 1 .. Len(b.tables)
      PROVE  /\ TableIsFiled(b, b.tables[k])
             /\ b.tables[k].id \in SpanIds(BlockIndex(b), Len(b.tables))
  BY <1>1, TablesStayFiled DEF Listed
<1>4. QED
  BY <1>2, <1>3 DEF Listed

(* A block, or a table with its cells, is one more block.                  *)
LEMMA BlocksGrow ==
  ASSUME NEW a, NEW b, NEW S, a.layout \in Seq(S), NEW r \in Seq(S), r # <<>>,
         b.layout = a.layout \o r,
         r[1].role # "table_cell", \A k \in 2 .. Len(r) : r[k].role = "table_cell"
  PROVE  BlockIndex(b) = BlockIndex(a) + 1 /\ BlockIndex(a) \in Nat
<1> DEFINE f == a.layout
           g == b.layout
           n == Len(f)
           m == Len(r)
           A == {k \in 1 .. n : f[k].role # "table_cell"}
           B == {k \in 1 .. n + m : g[k].role # "table_cell"}
<1>1. /\ n \in Nat /\ m \in Nat /\ m >= 1 /\ DOMAIN f = 1 .. n /\ DOMAIN g = 1 .. n + m
      /\ \A k \in 1 .. n : g[k] = f[k]
      /\ \A k \in n + 1 .. n + m : g[k] = r[k - n]
  <2>1. f \in Seq(S) /\ g = f \o r
    OBVIOUS
  <2> HIDE DEF f, g
  <2>2. QED
    BY <2>1
<1>2. BlockIndex(a) = Cardinality(A) /\ BlockIndex(b) = Cardinality(B)
  BY <1>1 DEF BlockIndex
<1> HIDE DEF f, g, n, m
<1>3. n + 1 \in B /\ n + 1 \notin A
  BY <1>1
<1>4. ASSUME NEW k \in 1 .. n + m PROVE k \in B <=> k \in A \/ k = n + 1
  <2>1. CASE k \in 1 .. n
    BY <1>1, <2>1
  <2>2. CASE k = n + 1
    BY <1>3, <2>2
  <2>3. CASE k \in n + 2 .. n + m
    <3>1. k - n \in 2 .. m /\ k \in n + 1 .. n + m /\ k \notin 1 .. n
      BY <1>1, <2>3
    <3>2. g[k].role = "table_cell"
      BY <1>1, <3>1 DEF m
    <3>3. QED
      BY <1>1, <3>1, <3>2, <2>3
  <2>4. QED
    BY <1>1, <2>1, <2>2, <2>3
<1>5. B = A \cup {n + 1}
  <2>1. A \subseteq 1 .. n + m /\ n + 1 \in 1 .. n + m /\ B \subseteq 1 .. n + m
    BY <1>1
  <2> HIDE DEF A, B
  <2>2. QED
    BY <1>4, <2>1
<1>6. IsFiniteSet(A) /\ Cardinality(A) \in Nat
  <2>1. A \in SUBSET (1 .. n) /\ 0 \in Int /\ A = {i + 0 : i \in A}
    BY <1>1
  <2> HIDE DEF A
  <2>2. QED
    BY <1>1, <2>1, ShiftedSets
<1> HIDE DEF A, B
<1>7. Cardinality(B) = Cardinality(A) + 1
  BY <1>3, <1>5, <1>6, FS_AddElement
<1>8. QED
  BY <1>2, <1>6, <1>7

(* More ids than those of so many blocks and tables.                       *)
LEMMA IdsStay ==
  ASSUME NEW blocks \in Nat, NEW tables \in Nat, NEW more \in Nat, NEW others \in Nat,
         blocks <= more, tables <= others
  PROVE  /\ SpanIds(blocks, tables) \subseteq SpanIds(more, others)
         /\ MapIds(blocks, tables) \subseteq MapIds(more, others)
<1>1. \A x \in SpanId : x[2] \in Nat
  <2> USE DEF SpanId
  <2> QED
    OBVIOUS
<1>2. \A x \in SegmentId : x # <<"body">> => x[2] \in Nat
  BY DEF SegmentId
<1>3. <<"body">>[1] = "body"
  OBVIOUS
<1>4. QED
  BY <1>1, <1>2, <1>3 DEF SpanIds, MapIds

(* What is said of a sequence stays true of a longer one.                  *)
LEMMA NamesStay ==
  ASSUME NEW a, NEW ids, NEW more, ids \subseteq more, Named(a, ids)
  PROVE  Named(a, more)
BY DEF Named

(* An assembler on a text has counters.                                    *)
LEMMA CountersAreNumbers ==
  ASSUME NEW a, NEW s \in Text, a \in ExactOn(s)
  PROVE  a.char = Len(s) /\ a.byte = ByteLen(s) /\ a.char \in Nat /\ a.byte \in Nat
BY BytesAreMany DEF ExactOn

(* What a new segment leaves in order.                                     *)
Files(a, b, text, id) ==
  /\ Appends(a, b, text, id) /\ b.layout = a.layout /\ b.tables = a.tables
  /\ Grows(a, b) /\ Last(b.map).range \in TextRange
  /\ Last(b.map).range = [sc |-> a.char, ec |-> b.char, sb |-> a.byte, eb |-> b.byte]
  /\ Within(b, Last(b.map).range)
  /\ \E t \in Text : b \in ExactOn(t)
  /\ Covers(a) => Covers(b)
  /\ Listed(a) => Listed(b)

(* A segment leaves the layout and tables listed, and the map covering.    *)
LEMMA SegmentsFile ==
  ASSUME NEW a, NEW s \in Text, a \in ExactOn(s), NEW text \in Text \ {<<>>},
         NEW id \in SegmentId, NEW kind \in SegmentKind, NEW b, b = AddSegment(a, text, id, kind)
  PROVE  Files(a, b, text, id)
<1>1. Appends(a, b, text, id)
  BY SegmentsFollow
<1>2. PICK t \in Text :
        /\ b \in ExactOn(t) /\ b.layout = a.layout /\ b.tables = a.tables
        /\ Last(b.map).range \in TextRange
        /\ Last(b.map).range = [sc |-> a.char, ec |-> b.char, sb |-> a.byte, eb |-> b.byte]
  BY SegmentsMark DEF Adds
<1>3. /\ a.char \in Nat /\ a.byte \in Nat /\ b.char \in Nat /\ b.byte \in Nat
  BY <1>2, CountersAreNumbers
<1>4. a.char < b.char /\ a.byte < b.byte
  <2>1. b.char = a.char + Len(text) /\ b.byte = a.byte + ByteLen(text)
    BY <1>1 DEF Appends
  <2>2. Len(text) \in Nat /\ ByteLen(text) \in Nat /\ ByteLen(text) >= Len(text) /\ Len(text) > 0
    BY BytesAreMany DEF Text
  <2>3. QED
    BY <1>3, <2>1, <2>2
<1>5. Grows(a, b)
  BY <1>3, <1>4 DEF Grows
<1>6. Within(b, Last(b.map).range)
  BY <1>2, <1>3, <1>4 DEF Within, IsRange
<1>7. Covers(a) => Covers(b)
  BY <1>1, MapsGrow
<1>8. Listed(a) => Listed(b)
  BY <1>2, <1>5, ListedStays
<1>9. QED
  BY <1>1, <1>2, <1>5, <1>6, <1>7, <1>8 DEF Files

(* The separator between two blocks has the index of the second.           *)
LEMMA SeparatorsFile ==
  ASSUME NEW a, NEW s \in Text, a \in ExactOn(s), Covers(a), Listed(a),
         NEW b, b = AddSeparator(a)
  PROVE  /\ b.layout = a.layout /\ b.tables = a.tables
         /\ \E t \in Text : b \in ExactOn(t)
         /\ Covers(b) /\ Listed(b)
         /\ Named(a, MapIds(BlockIndex(a), Len(a.tables))) =>
              Named(b, MapIds(BlockIndex(a), Len(a.tables)) \cup {<<"separator", BlockIndex(a)>>})
<1> DEFINE id == <<"separator", BlockIndex(a)>>
           ids == MapIds(BlockIndex(a), Len(a.tables))
<1>1. CASE a.map = <<>>
  <2>1. b = a
    BY <1>1 DEF AddSeparator
  <2>2. Named(a, ids) => Named(b, ids \cup {id})
    BY <2>1, NamesStay
  <2>3. QED
    BY <2>1, <2>2
<1>2. CASE a.map # <<>>
  <2>1. id \in SegmentId /\ "generated" \in SegmentKind /\ <<NewLine>> \in Text \ {<<>>}
    BY BlocksAreCounted DEF SegmentId, SegmentTag, SegmentKind, Text, Letter, Blank
  <2>2. b = AddSegment(a, <<NewLine>>, id, "generated")
    BY <1>2 DEF AddSeparator
  <2>3. id \notin ids
    <3>1. BlockIndex(a) \in Nat /\ id[1] = "separator" /\ id[2] = BlockIndex(a)
      BY BlocksAreCounted
    <3> HIDE DEF id
    <3>2. QED
      BY <3>1 DEF MapIds
  <2> HIDE DEF id, ids
  <2>4. Files(a, b, <<NewLine>>, id)
    BY <2>1, <2>2, SegmentsFile
  <2>5. Named(a, ids) => Named(b, ids \cup {id})
    <3>1. Appends(a, b, <<NewLine>>, id)
      BY <2>4 DEF Files
    <3>2. QED
      BY <2>3, <3>1, NamesGrow
  <2>6. /\ b.layout = a.layout /\ b.tables = a.tables
        /\ \E t \in Text : b \in ExactOn(t)
        /\ Covers(b) /\ Listed(b)
    BY <2>4 DEF Files
  <2>7. QED
    BY <2>5, <2>6 DEF id, ids
<1>3. QED
  BY <1>1, <1>2

(* The spans up to so many blocks and tables.                              *)
SpansAreListed(b, blocks, tables) ==
  /\ UniqueIds(b.layout)
  /\ \A k \in 1 .. Len(b.layout) :
       /\ b.layout[k].page = 1 /\ Within(b, b.layout[k].range)
       /\ b.layout[k].id \in SpanIds(blocks, tables)

(* New spans for an assembler.                                             *)
AreNew(a, b, r, blocks, tables) ==
  \A k \in 1 .. Len(r) :
    /\ r[k].page = 1 /\ Within(b, r[k].range)
    /\ r[k].id \in SpanIds(blocks, tables)
    /\ r[k].id \notin SpanIds(BlockIndex(a), Len(a.tables))

(* The spans of a block or table are listed behind the others: pages,      *)
(* ranges and ids are in order.                                            *)
LEMMA SpansJoin ==
  ASSUME NEW a, NEW s, a \in ExactOn(s), Listed(a), NEW b, Grows(a, b),
         NEW X, NEW r \in Seq(X), UniqueIds(r), b.layout = a.layout \o r,
         NEW blocks \in Nat, NEW tables \in Nat, BlockIndex(a) < blocks, Len(a.tables) <= tables,
         AreNew(a, b, r, blocks, tables)
  PROVE  SpansAreListed(b, blocks, tables)
<1> DEFINE f == a.layout
           g == b.layout
           n == Len(f)
           m == Len(r)
           old == SpanIds(BlockIndex(a), Len(a.tables))
           new == SpanIds(blocks, tables)
<1>1. \A k \in 1 .. n : f[k].page = 1 /\ Within(a, f[k].range) /\ f[k].id \in old
  BY DEF Listed
<1>2. old \subseteq new
  <2>1. BlockIndex(a) \in Nat /\ Len(a.tables) \in Nat /\ BlockIndex(a) <= blocks
    BY BlocksAreCounted DEF ExactOn
  <2>2. QED
    BY <2>1, IdsStay
<1>3. f \in Seq(SpanOn(s)) /\ g = f \o r /\ UniqueIds(f)
  BY DEF ExactOn, Listed
<1>4. \A k \in 1 .. m : r[k].page = 1 /\ Within(b, r[k].range) /\ r[k].id \in new /\ r[k].id \notin old
  BY DEF AreNew
<1> HIDE DEF f, g, old, new
<1>5. UniqueIds(g)
  <2>1. \A i \in 1 .. Len(f) : \A j \in 1 .. Len(r) : f[i].id # r[j].id
    BY <1>1, <1>4
  <2>2. UniqueIds(f \o r)
    BY <1>3, <2>1, UniqueJoin
  <2>3. QED
    BY <1>3, <2>2
<1>6. /\ n \in Nat /\ m \in Nat /\ Len(g) = n + m
      /\ \A k \in 1 .. n : g[k] = f[k]
      /\ \A k \in n + 1 .. n + m : g[k] = r[k - n]
  <2>1. f \in Seq(SpanOn(s) \cup X) /\ r \in Seq(SpanOn(s) \cup X)
    BY <1>3, MembersStay
  <2>2. QED
    BY <1>3, <2>1
<1>7. ASSUME NEW k \in 1 .. Len(g)
      PROVE  g[k].page = 1 /\ Within(b, g[k].range) /\ g[k].id \in new
  <2>1. CASE k \in 1 .. n
    <3>1. f[k].page = 1 /\ Within(a, f[k].range) /\ f[k].id \in old /\ g[k] = f[k]
      BY <1>1, <1>6, <2>1
    <3>2. Within(b, f[k].range)
      BY <3>1, WithinStays
    <3>3. QED
      BY <1>2, <3>1, <3>2
  <2>2. CASE k \in n + 1 .. n + m
    <3>1. k - n \in 1 .. m
      BY <1>6, <2>2
    <3>2. QED
      BY <1>4, <1>6, <2>2, <3>1
  <2>3. QED
    BY <1>6, <2>1, <2>2
<1>8. QED
  BY <1>5, <1>7 DEF g, new, SpansAreListed

OwnIds(a) == MapIds(BlockIndex(a), Len(a.tables))

(* A new block is listed behind the others.                                *)
LEMMA BlocksFile ==
  ASSUME NEW a, NEW s \in Text, a \in ExactOn(s), Covers(a), Listed(a),
         NEW text \in Text \ {<<>>}, NEW role \in ParagraphRole, NEW b, b = AddBlock(a, text, role)
  PROVE  Covers(b) /\ Listed(b) /\ (Named(a, OwnIds(a)) => Named(b, OwnIds(b)))
<1> DEFINE index == BlockIndex(a)
           id == <<"block", index>>
           separated == AddSeparator(a)
           c == AddSegment(separated, text, id, "unmapped")
           span == Span(id, 1, role, Last(c.map).range, text)
           table == Len(a.tables)
           ids == MapIds(index, table) \cup {<<"separator", index>>}
<1>1. index \in Nat /\ table \in Nat
  BY BlocksAreCounted DEF ExactOn
<1>2. /\ id \in SegmentId /\ id \in SpanId /\ "unmapped" \in SegmentKind
      /\ id[1] = "block" /\ id[2] = index /\ id # <<"separator", index>>
  <2>1. id \in SegmentId /\ id \in SpanId /\ "unmapped" \in SegmentKind
    BY <1>1 DEF SegmentId, SegmentTag, SegmentKind, SpanId, SpanTag
  <2>2. <<"separator", index>>[1] = "separator"
    OBVIOUS
  <2>3. QED
    BY <2>1, <2>2
<1>3. PICK u \in Text : separated \in ExactOn(u)
  BY SeparatorsFile
<1>4. /\ separated.layout = a.layout /\ separated.tables = a.tables
      /\ Covers(separated) /\ Listed(separated)
  BY SeparatorsFile
<1>5. Named(a, OwnIds(a)) => Named(separated, ids)
  BY SeparatorsFile DEF OwnIds
<1>6. b = [c EXCEPT !.layout = Append(c.layout, span)]
  BY DEF AddBlock
<1> HIDE DEF id, separated, index
<1>7. Files(separated, c, text, id)
  BY <1>2, <1>3, SegmentsFile
<1>8. /\ Appends(separated, c, text, id)
      /\ c.layout = separated.layout /\ c.tables = separated.tables
      /\ Covers(c) /\ Listed(c) /\ Within(c, Last(c.map).range)
  BY <1>4, <1>7 DEF Files
<1>10. PICK t \in Text : c \in ExactOn(t)
  BY <1>7 DEF Files
<1>11. Grows(c, c)
  BY <1>10, CountersAreNumbers DEF Grows
<1> HIDE DEF c
<1>12. /\ b.map = c.map /\ b.char = c.char /\ b.byte = c.byte /\ b.tables = c.tables
       /\ b.layout = Append(c.layout, span) /\ Append(c.layout, span) = c.layout \o <<span>>
  <2> DEFINE f == c.layout
  <2>1. f \in Seq(SpanOn(t))
    BY <1>10 DEF ExactOn
  <2> HIDE DEF f, span
  <2>2. Append(f, span) = f \o <<span>>
    BY <2>1
  <2> DEFINE g == Append(f, span)
  <2> HIDE DEF g
  <2>3. b = [c EXCEPT !.layout = g]
    BY <1>6 DEF f, g
  <2>4. b.map = c.map /\ b.char = c.char /\ b.byte = c.byte /\ b.tables = c.tables /\ b.layout = g
    BY <1>10, <2>3 DEF ExactOn
  <2>5. QED
    BY <2>2, <2>4 DEF f, g
<1>13. span.role # "table_cell" /\ span.page = 1 /\ span.id = id /\ span.range = Last(c.map).range
  BY InputAssumption DEF Span, ParagraphRole
<1> HIDE DEF span
<1>14. BlockIndex(c) = index
  BY <1>4, <1>8 DEF BlockIndex, index
<1>15. BlockIndex(b) = index + 1
  <2> DEFINE r == <<span>>
             S == SpanOn(t) \cup {span}
  <2>1. r \in Seq(S) /\ r # <<>> /\ r[1] = span /\ Len(r) = 1
    OBVIOUS
  <2>2. c.layout \in Seq(S)
    <3>1. c.layout \in Seq(SpanOn(t)) /\ SpanOn(t) \subseteq S
      BY <1>10 DEF ExactOn
    <3> HIDE DEF S
    <3>2. QED
      BY <3>1, MembersStay
  <2>3. \A k \in 2 .. Len(r) : r[k].role = "table_cell"
    BY <2>1
  <2> HIDE DEF r, S
  <2>4. b.layout = c.layout \o r
    BY <1>12 DEF r
  <2>5. BlockIndex(b) = BlockIndex(c) + 1
    BY <1>13, <2>1, <2>2, <2>3, <2>4, BlocksGrow
  <2>6. QED
    BY <1>14, <2>5
<1>16. Covers(b)
  BY <1>8, <1>12 DEF Covers
<1>17. Grows(c, b)
  BY <1>11, <1>12 DEF Grows
<1>18. Len(c.tables) = table /\ Len(b.tables) = table
  BY <1>4, <1>8, <1>12
<1> HIDE DEF table
<1>19. Listed(b)
  <2> DEFINE r == <<span>>
  <2>1. r \in Seq({span}) /\ UniqueIds(r) /\ b.layout = c.layout \o r
    BY <1>12 DEF UniqueIds
  <2>2. id \in SpanIds(index + 1, table) /\ id \notin SpanIds(index, table)
    <3>1. id[1] \notin {"table", "cell"} /\ index < index + 1
      BY <1>1, <1>2
    <3>2. QED
      BY <1>1, <1>2, <3>1 DEF SpanIds
  <2>3. \A k \in 1 .. Len(r) : r[k] = span
    OBVIOUS
  <2>4. Within(b, span.range)
    BY <1>8, <1>13, <1>17, WithinStays
  <2> HIDE DEF r
  <2>5. BlockIndex(c) < index + 1 /\ index + 1 \in Nat /\ Len(c.tables) <= table
    BY <1>1, <1>14, <1>18
  <2>6. AreNew(c, b, r, index + 1, table)
    BY <1>13, <1>14, <1>18, <2>2, <2>3, <2>4 DEF AreNew
  <2>7. SpansAreListed(b, index + 1, table)
    BY <1>1, <1>8, <1>10, <1>17, <2>1, <2>5, <2>6, SpansJoin
  <2>8. ASSUME NEW k \in 1 .. Len(b.tables)
        PROVE  TableIsFiled(b, b.tables[k]) /\ b.tables[k].id \in SpanIds(index + 1, table)
    <3>1. TableIsFiled(c, c.tables[k]) /\ c.tables[k].id \in SpanIds(index, table)
      BY <1>8, <1>12, <1>14, <1>18 DEF Listed
    <3>2. TableIsFiled(b, b.tables[k])
      BY <1>12, <1>17, <3>1, TablesStayFiled
    <3>3. SpanIds(index, table) \subseteq SpanIds(index + 1, table)
      BY <1>1, IdsStay
    <3>4. QED
      BY <1>12, <3>1, <3>2, <3>3
  <2>9. UniqueIds(b.tables)
    BY <1>8, <1>12 DEF Listed
  <2>10. QED
    BY <1>15, <1>18, <2>7, <2>8, <2>9 DEF Listed, SpansAreListed
<1>20. ASSUME Named(a, OwnIds(a)) PROVE Named(b, OwnIds(b))
  <2>1. id \notin ids
    BY <1>1, <1>2 DEF MapIds
  <2> HIDE DEF ids
  <2>2. Named(c, ids \cup {id})
    BY <1>3, <1>5, <1>8, <1>20, <2>1, NamesGrow
  <2>3. ids \cup {id} \subseteq MapIds(index + 1, table)
    <3>1. MapIds(index, table) \subseteq MapIds(index + 1, table)
      BY <1>1, IdsStay
    <3>2. <<"separator", index>> \in MapIds(index + 1, table)
      <4> DEFINE x == <<"separator", index>>
      <4>1. x \in SegmentId /\ x[1] = "separator" /\ x[2] = index
        BY <1>1 DEF SegmentId, SegmentTag
      <4> HIDE DEF x
      <4>2. x \in MapIds(index + 1, table)
        BY <1>1, <4>1 DEF MapIds
      <4>3. QED
        BY <4>2 DEF x
    <3>3. id \in MapIds(index + 1, table)
      BY <1>1, <1>2 DEF MapIds
    <3>4. QED
      BY <3>1, <3>2, <3>3 DEF ids
  <2>4. Named(c, MapIds(index + 1, table))
    BY <2>2, <2>3, NamesStay
  <2>5. QED
    BY <1>12, <1>15, <1>18, <2>4 DEF Named, OwnIds
<1>21. QED
  BY <1>16, <1>19, <1>20

(* A row with text has a text.                                             *)
LEMMA RowsHaveText ==
  ASSUME NEW line \in Cells, \A j \in DOMAIN line : line[j] # <<>>
  PROVE  JoinedRow(line) \in Text \ {<<>>}
<1>1. line \in Seq(Text) /\ line # <<>> /\ 1 \in 1 .. Len(line) /\ 1 \in DOMAIN line
  BY DEF Cells
<1>2. JoinedRow(line) \in Text
  BY <1>1, RowsHoldCells
<1>3. \E p \in Nat : p + Len(line[1]) <= Len(JoinedRow(line))
  BY <1>1, RowsHoldCells
<1>4. line[1] \in Text /\ line[1] # <<>>
  BY <1>1
<1>5. Len(line[1]) \in Nat /\ Len(line[1]) > 0
  BY <1>4 DEF Text
<1>6. Len(JoinedRow(line)) # 0
  BY <1>2, <1>3, <1>5 DEF Text
<1>7. QED
  BY <1>2, <1>6

(* The ids of the first rows of a table.                                   *)
RowTag == {"row-separator", "row"}
RowIdsTo(table, i) ==
  {x \in SegmentId : x[1] \in RowTag /\ x[2] = table /\ x[3] \in 1 .. i}
NoRowsOf(table, ids) == \A x \in ids : x[1] \in RowTag => x[2] < table

RowIsAdded(a, b, table, i, ids) ==
  /\ Covers(b) /\ Listed(b) /\ Grows(a, b)
  /\ Within(b, Last(b.map).range)
  /\ a.char <= Last(b.map).range.sc /\ a.byte <= Last(b.map).range.sb
  /\ Named(a, ids \cup RowIdsTo(table, i - 1)) => Named(b, ids \cup RowIdsTo(table, i))

(* What grows twice has grown.                                             *)
LEMMA GrowthAddsUp ==
  ASSUME NEW a, NEW b, NEW c, Grows(a, b), Grows(b, c)
  PROVE  Grows(a, c)
BY DEF Grows

(* A row follows the rows before it, with the next ids of its table.       *)
LEMMA RowsFile ==
  ASSUME NEW a, NEW s \in Text, a \in ExactOn(s), Covers(a), Listed(a),
         NEW table \in Nat, NEW i \in Nat, i >= 1, NEW line \in Cells,
         JoinedRow(line) \in Text \ {<<>>}, NEW b, b = AddRow(a, table, i, line),
         NEW ids, NoRowsOf(table, ids)
  PROVE  RowIsAdded(a, b, table, i, ids)
<1> DEFINE before == <<"row-separator", table, i>>
           id == <<"row", table, i>>
           separated == IF i = 1 THEN a ELSE AddSegment(a, <<NewLine>>, before, "generated")
           had == ids \cup RowIdsTo(table, i - 1)
           text == JoinedRow(line)
<1>1. /\ before \in SegmentId /\ id \in SegmentId
      /\ "generated" \in SegmentKind /\ "unmapped" \in SegmentKind
      /\ <<NewLine>> \in Text \ {<<>>}
  BY DEF SegmentId, SegmentTag, SegmentKind, Text, Letter, Blank
<1>2. /\ before[1] = "row-separator" /\ before[2] = table /\ before[3] = i
      /\ id[1] = "row" /\ id[2] = table /\ id[3] = i
  OBVIOUS
<1>3. b = AddSegment(separated, text, id, "unmapped")
  BY DEF AddRow
<1> HIDE DEF before, id, text
<1>4. before \notin had /\ id \notin had \cup {before}
  <2>1. before \notin RowIdsTo(table, i - 1) /\ id \notin RowIdsTo(table, i - 1)
    BY <1>2 DEF RowIdsTo
  <2>2. before \notin ids /\ id \notin ids
    BY <1>2 DEF NoRowsOf, RowTag
  <2>3. id # before
    BY <1>2
  <2>4. QED
    BY <2>1, <2>2, <2>3
<1>5. had \cup {before} \cup {id} \subseteq ids \cup RowIdsTo(table, i)
  <2>1. RowIdsTo(table, i - 1) \subseteq RowIdsTo(table, i)
    BY DEF RowIdsTo
  <2>2. before \in RowIdsTo(table, i) /\ id \in RowIdsTo(table, i)
    BY <1>1, <1>2 DEF RowIdsTo, RowTag
  <2>3. QED
    BY <2>1, <2>2
<1> HIDE DEF had
<1>6. /\ \E u \in Text : separated \in ExactOn(u)
      /\ Covers(separated) /\ Listed(separated) /\ Grows(a, separated)
      /\ Named(a, had) => Named(separated, had \cup {before})
  <2>1. CASE i = 1
    <3>1. separated = a
      BY <2>1
    <3>2. Grows(a, a)
      BY CountersAreNumbers DEF Grows
    <3>3. Named(a, had) => Named(a, had \cup {before})
      BY NamesStay
    <3> HIDE DEF separated
    <3>4. QED
      BY <3>1, <3>2, <3>3
  <2>2. CASE i # 1
    <3>1. separated = AddSegment(a, <<NewLine>>, before, "generated")
      BY <2>2
    <3> HIDE DEF separated
    <3>2. Files(a, separated, <<NewLine>>, before)
      BY <1>1, <3>1, SegmentsFile
    <3>3. Appends(a, separated, <<NewLine>>, before)
      BY <3>2 DEF Files
    <3>4. Named(a, had) => Named(separated, had \cup {before})
      BY <1>4, <3>3, NamesGrow
    <3>5. QED
      BY <3>2, <3>4 DEF Files
  <2>3. QED
    BY <2>1, <2>2
<1> HIDE DEF separated
<1>7. Files(separated, b, text, id)
  <2>1. text \in Text \ {<<>>}
    BY DEF text
  <2>2. QED
    BY <1>1, <1>3, <1>6, <2>1, SegmentsFile
<1>8. Covers(b) /\ Listed(b) /\ Grows(separated, b) /\ Within(b, Last(b.map).range)
  BY <1>6, <1>7 DEF Files
<1>9. Grows(a, b)
  BY <1>6, <1>8, GrowthAddsUp
<1>10. a.char <= Last(b.map).range.sc /\ a.byte <= Last(b.map).range.sb
  <2>1. Last(b.map).range.sc = separated.char /\ Last(b.map).range.sb = separated.byte
    BY <1>7 DEF Files
  <2>2. QED
    BY <1>6, <2>1 DEF Grows
<1>11. Named(a, had) => Named(b, ids \cup RowIdsTo(table, i))
  <2>1. ASSUME Named(a, had) PROVE Named(b, ids \cup RowIdsTo(table, i))
    <3>1. PICK u : separated \in ExactOn(u)
      BY <1>6
    <3>2. Named(separated, had \cup {before}) /\ Appends(separated, b, text, id)
      BY <1>6, <1>7, <2>1 DEF Files
    <3>3. Named(b, had \cup {before} \cup {id})
      BY <1>4, <3>1, <3>2, NamesGrow
    <3>4. QED
      BY <1>5, <3>3, NamesStay
  <2>2. QED
    BY <2>1
<1>12. QED
  BY <1>8, <1>9, <1>10, <1>11 DEF RowIsAdded, had

(* What is so after the first rows of a table.                             *)
RowsAreFiled(a, f, table, i, ids) ==
  /\ Covers(f[i]) /\ Listed(f[i]) /\ Grows(a, f[i])
  /\ \A k \in 1 .. i : /\ Within(f[i], Last(f[k].map).range)
                       /\ a.char <= Last(f[k].map).range.sc /\ a.byte <= Last(f[k].map).range.sb
  /\ Named(a, ids) => Named(f[i], ids \cup RowIdsTo(table, i))

(* Row after row, a table leaves the assembler listed and its map covering *)
(* the text (add_rows).                                                    *)
LEMMA AllRowsFile ==
  ASSUME NEW a, NEW s \in Text, a \in ExactOn(s), Covers(a), Listed(a),
         NEW rows \in Seq(Cells), ~HasEmptyCell(rows),
         NEW ids, NoRowsOf(Len(a.tables), ids)
  PROVE  \A i \in 0 .. Len(rows) : RowsAreFiled(a, WithRows(a, rows), Len(a.tables), i, ids)
<1> DEFINE n == Len(rows)
           table == Len(a.tables)
           f == WithRows(a, rows)
           T == {i \in 0 .. n : RowsAreFiled(a, f, table, i, ids)}
<1>1. n \in Nat /\ table \in Nat /\ DOMAIN rows = 1 .. n /\ \A i \in 1 .. n : rows[i] \in Cells
  BY DEF ExactOn
<1>2. /\ RowsAreMarked(f, s, rows)
      /\ f[0] = a /\ \A i \in 1 .. n : f[i] = AddRow(f[i - 1], table, i, rows[i])
  BY RowsAreAdded
<1> HIDE DEF f, n, table
<1>3. \A i \in 0 .. n : \E t \in Text : f[i] \in ExactOn(t)
  BY <1>2 DEF RowsAreMarked, n
<1>4. 0 \in T
  <2>1. Grows(a, a)
    BY CountersAreNumbers DEF Grows
  <2>2. Named(a, ids) => Named(a, ids \cup RowIdsTo(table, 0))
    BY NamesStay
  <2>3. RowsAreFiled(a, f, table, 0, ids)
    BY <1>2, <2>1, <2>2 DEF RowsAreFiled
  <2>4. QED
    BY <1>1, <2>3
<1>5. ASSUME NEW i \in 1 .. n, i - 1 \in T PROVE i \in T
  <2> DEFINE x == f[i - 1]
             b == f[i]
  <2>1. i \in Nat /\ i >= 1 /\ i \in 0 .. n /\ i - 1 \in 0 .. n /\ i - 1 \in Nat
    BY <1>1
  <2>2. rows[i] \in Cells /\ JoinedRow(rows[i]) \in Text \ {<<>>}
    <3>1. \A j \in DOMAIN rows[i] : rows[i][j] # <<>>
      BY <1>1 DEF HasEmptyCell
    <3>2. QED
      BY <1>1, <3>1, RowsHaveText
  <2>3. RowsAreFiled(a, f, table, i - 1, ids)
    BY <1>5
  <2>4. PICK u \in Text : x \in ExactOn(u)
    BY <1>3, <2>1
  <2>5. b = AddRow(x, table, i, rows[i]) /\ Covers(x) /\ Listed(x) /\ Grows(a, x)
    BY <1>2, <2>3 DEF RowsAreFiled
  <2>6. \A k \in 1 .. i - 1 :
          /\ Within(x, Last(f[k].map).range)
          /\ a.char <= Last(f[k].map).range.sc /\ a.byte <= Last(f[k].map).range.sb
    BY <2>3 DEF RowsAreFiled
  <2>7. Named(a, ids) => Named(x, ids \cup RowIdsTo(table, i - 1))
    BY <2>3 DEF RowsAreFiled
  <2> HIDE DEF x, b, T
  <2>8. RowIsAdded(x, b, table, i, ids)
    BY <1>1, <2>1, <2>2, <2>4, <2>5, RowsFile DEF table
  <2>9. Covers(b) /\ Listed(b) /\ Grows(x, b) /\ Within(b, Last(b.map).range)
        /\ x.char <= Last(b.map).range.sc /\ x.byte <= Last(b.map).range.sb
    BY <2>8 DEF RowIsAdded
  <2>10. Named(a, ids) => Named(b, ids \cup RowIdsTo(table, i))
    BY <2>7, <2>8 DEF RowIsAdded
  <2>11. Grows(a, b)
    BY <2>5, <2>9, GrowthAddsUp
  <2>12. a.char <= Last(b.map).range.sc /\ a.byte <= Last(b.map).range.sb
    <3> DEFINE r == Last(b.map).range
    <3>1. r.sc \in Nat /\ r.sb \in Nat
      BY <2>9 DEF Within, TextRange
    <3> HIDE DEF r
    <3>2. a.char <= r.sc /\ a.byte <= r.sb
      BY <2>5, <2>9, <3>1 DEF Grows, r
    <3>3. QED
      BY <3>2 DEF r
  <2>13. ASSUME NEW k \in 1 .. i
         PROVE  /\ Within(b, Last(f[k].map).range)
                /\ a.char <= Last(f[k].map).range.sc /\ a.byte <= Last(f[k].map).range.sb
    <3>1. CASE k = i
      BY <2>9, <2>12, <3>1 DEF b
    <3>2. CASE k # i
      <4>1. k \in 1 .. i - 1
        BY <2>1, <3>2
      <4>2. QED
        BY <2>6, <2>9, <4>1, WithinStays
    <3>3. QED
      BY <3>1, <3>2
  <2>14. RowsAreFiled(a, f, table, i, ids)
    BY <2>9, <2>10, <2>11, <2>13 DEF RowsAreFiled, b
  <2>15. QED
    BY <2>1, <2>14 DEF T
<1> HIDE DEF T
<1>6. \A i \in 0 .. n : i \in T
  BY <1>1, <1>4, <1>5, Reaches
<1>7. QED
  BY <1>6 DEF T, f, n, table

(* The range of a text that is not empty is not empty, and in its whole.   *)
LEMMA MarksAreWithin ==
  ASSUME NEW text \in Text, NEW of \in Text \ {<<>>}, NEW range, Marks(text, range, of)
  PROVE  /\ range.sc \in Nat /\ range.ec \in Nat /\ range.sb \in Nat /\ range.eb \in Nat
         /\ IsRange(range) /\ range.ec <= Len(text) /\ range.eb <= ByteLen(text)
         /\ range.ec = range.sc + Len(of) /\ range.eb = range.sb + ByteLen(of)
<1>1. PICK before \in Text, after \in Text :
        /\ text = Then(before, Then(of, after))
        /\ range.sc = Len(before) /\ range.ec = Len(before) + Len(of)
        /\ range.sb = ByteLen(before) /\ range.eb = ByteLen(before) + ByteLen(of)
  BY DEF Marks
<1>2. /\ Len(of) \in Nat /\ ByteLen(of) \in Nat /\ ByteLen(of) >= Len(of) /\ Len(of) > 0
      /\ Len(before) \in Nat /\ ByteLen(before) \in Nat
      /\ Len(after) \in Nat /\ ByteLen(after) \in Nat
  BY BytesAreMany DEF Text
<1>3. Then(of, after) \in Text /\ Len(Then(of, after)) = Len(of) + Len(after)
  BY TextsJoin
<1>4. ByteLen(Then(of, after)) = ByteLen(of) + ByteLen(after)
  BY BytesAddUp DEF Then
<1> DEFINE rest == Then(of, after)
<1> HIDE DEF rest
<1>5. Len(text) = Len(before) + (Len(of) + Len(after))
  <2>1. rest \in Text /\ text = Then(before, rest) /\ Len(rest) = Len(of) + Len(after)
    BY <1>1, <1>3 DEF rest
  <2>2. Len(Then(before, rest)) = Len(before) + Len(rest)
    BY <2>1, TextsJoin
  <2>3. QED
    BY <2>1, <2>2
<1>6. ByteLen(text) = ByteLen(before) + (ByteLen(of) + ByteLen(after))
  <2>1. rest \in Text /\ text = before \o rest /\ ByteLen(rest) = ByteLen(of) + ByteLen(after)
    BY <1>1, <1>3, <1>4 DEF rest, Then
  <2>2. QED
    BY <2>1, BytesAddUp
<1>7. QED
  BY <1>1, <1>2, <1>5, <1>6 DEF IsRange

InRange(inner, outer) ==
  /\ outer.sc <= inner.sc /\ inner.ec <= outer.ec
  /\ outer.sb <= inner.sb /\ inner.eb <= outer.eb

(* The cells of a row lie in its range.                                    *)
CellsLieIn(cells, line, index, range) ==
  /\ Len(cells) = Len(line)
  /\ \A j \in 1 .. Len(line) :
       /\ cells[j].row = index /\ cells[j].column = j
       /\ IsRange(cells[j].range) /\ InRange(cells[j].range, range)

(* Found in the text of its row, each cell has a range in the range of the *)
(* row.                                                                    *)
LEMMA CellsLieInRows ==
  ASSUME NEW t \in Text, NEW line \in Cells, \A j \in DOMAIN line : line[j] # <<>>,
         NEW index \in Nat, NEW range \in TextRange, Marks(t, range, JoinedRow(line))
  PROVE  CellsLieIn(CellsOf(line, index, range), line, index, range)
<1> DEFINE text == JoinedRow(line)
           n == Len(line)
           p(j) == StartsOf(line)[j]
           own(j) == [sc |-> p(j), ec |-> p(j) + Len(line[j]),
                      sb |-> ByteLen(SubSeq(text, 1, p(j))),
                      eb |-> ByteLen(SubSeq(text, 1, p(j) + Len(line[j])))]
           made(j) == [row |-> index, column |-> j, of |-> line[j],
                       range |-> [sc |-> range.sc + p(j), ec |-> range.sc + p(j) + Len(line[j]),
                                  sb |-> range.sb + ByteLen(SubSeq(text, 1, p(j))),
                                  eb |-> range.sb + ByteLen(SubSeq(text, 1, p(j) + Len(line[j])))]]
           cells == CellsOf(line, index, range)
<1>1. n \in Nat /\ DOMAIN line = 1 .. n /\ line \in Seq(Text) /\ line # <<>>
  BY DEF Cells
<1>2. text \in Text \ {<<>>} /\ \A j \in 1 .. n : /\ p(j) \in Nat /\ p(j) + Len(line[j]) <= Len(text)
                                        /\ Slice(text, p(j), p(j) + Len(line[j])) = line[j]
  BY <1>1, RowsHoldCells, RowsHaveText
<1>3. cells = [j \in 1 .. n |-> made(j)]
  BY <1>1 DEF CellsOf, StartsOf
<1>4. ASSUME NEW j \in 1 .. n
      PROVE  /\ IsRange(own(j)) /\ own(j).ec <= Len(text) /\ own(j).eb <= ByteLen(text)
             /\ own(j).sc \in Nat /\ own(j).ec \in Nat /\ own(j).sb \in Nat /\ own(j).eb \in Nat
  <2>1. line[j] \in Text \ {<<>>}
    BY <1>1
  <2> DEFINE q == p(j)
             o == own(j)
  <2>2. /\ q \in Nat /\ q + Len(line[j]) <= Len(text)
        /\ Slice(text, q, q + Len(line[j])) = line[j]
    BY <1>2
  <2>3. /\ o.sc = q /\ o.ec = q + Len(line[j])
        /\ o.sb = ByteLen(SubSeq(text, 1, q))
        /\ o.eb = ByteLen(SubSeq(text, 1, q + Len(line[j])))
    OBVIOUS
  <2> HIDE DEF q, o, text
  <2>4. Marks(text, o, line[j])
    BY <1>2, <2>1, <2>2, <2>3, FoundIsMarked
  <2>5. /\ IsRange(o) /\ o.ec <= Len(text) /\ o.eb <= ByteLen(text)
        /\ o.sc \in Nat /\ o.ec \in Nat /\ o.sb \in Nat /\ o.eb \in Nat
    BY <1>2, <2>1, <2>4, MarksAreWithin
  <2>6. QED
    BY <2>5 DEF o
<1>5. /\ range.ec = range.sc + Len(text) /\ range.eb = range.sb + ByteLen(text)
      /\ range.sc \in Nat /\ range.sb \in Nat
      /\ Len(text) \in Nat /\ ByteLen(text) \in Nat
  <2> HIDE DEF text
  <2>1. Marks(t, range, text)
    BY DEF text
  <2>2. QED
    BY <1>2, <2>1, MarksAreWithin, BytesAreMany
<1>6. ASSUME NEW j \in 1 .. n
      PROVE  /\ cells[j].row = index /\ cells[j].column = j
             /\ IsRange(cells[j].range) /\ InRange(cells[j].range, range)
  <2> DEFINE o == own(j)
             x == cells[j]
             r == x.range
             m == Len(line[j])
  <2>1. x = made(j)
    BY <1>3
  <2>2. /\ x.row = index /\ x.column = j
        /\ r.sc = range.sc + o.sc /\ r.ec = range.sc + o.sc + m
        /\ r.sb = range.sb + o.sb /\ r.eb = range.sb + o.eb
    BY <2>1
  <2>3. o.ec = o.sc + m /\ m \in Nat
    BY <1>1 DEF Text
  <2>4. /\ IsRange(o) /\ o.ec <= Len(text) /\ o.eb <= ByteLen(text)
        /\ o.sc \in Nat /\ o.ec \in Nat /\ o.sb \in Nat /\ o.eb \in Nat
    BY <1>4
  <2> HIDE DEF o, r, m, text, x, cells
  <2> DEFINE first == range.sc
             firstByte == range.sb
             long == Len(text)
             wide == ByteLen(text)
             c == o.sc
             e == o.ec
             d == o.sb
             b == o.eb
  <2>7. /\ range.ec = first + long /\ range.eb = firstByte + wide
        /\ range.sc = first /\ range.sb = firstByte
        /\ first \in Nat /\ firstByte \in Nat /\ long \in Nat /\ wide \in Nat
    BY <1>5
  <2>8. /\ c \in Nat /\ e \in Nat /\ d \in Nat /\ b \in Nat
        /\ c < e /\ d < b /\ e <= long /\ b <= wide /\ e = c + m /\ m \in Nat
    BY <2>3, <2>4 DEF IsRange
  <2>9. r.sc = first + c /\ r.ec = first + c + m /\ r.sb = firstByte + d /\ r.eb = firstByte + b
    BY <2>2
  <2> HIDE DEF first, firstByte, long, wide, c, e, d, b
  <2>10. r.ec = first + e
    BY <2>7, <2>8, <2>9
  <2>5. IsRange(r) /\ InRange(r, range)
    <3>1. IsRange(r)
      BY <2>7, <2>8, <2>9, <2>10 DEF IsRange
    <3>2. InRange(r, range)
      BY <2>7, <2>8, <2>9, <2>10 DEF InRange
    <3>3. QED
      BY <3>1, <3>2
  <2>6. QED
    BY <2>2, <2>5 DEF r, x
<1>7. Len(cells) = n
  BY <1>1, <1>3
<1> HIDE DEF cells, own, made, p, text
<1>8. QED
  BY <1>6, <1>7 DEF CellsLieIn, cells, n

(* The part of a text behind where an assembler ended.                     *)
Behind(a, b, range) ==
  Within(b, range) /\ a.char <= range.sc /\ a.byte <= range.sb

(* So is what lies in such a part.                                         *)
LEMMA RangesNest ==
  ASSUME NEW a, NEW b, a.char \in Nat, a.byte \in Nat, b.char \in Nat, b.byte \in Nat,
         NEW q, Behind(a, b, q), NEW r \in TextRange, IsRange(r), InRange(r, q)
  PROVE  Behind(a, b, r)
<1>1. /\ q.sc \in Nat /\ q.ec \in Nat /\ q.sb \in Nat /\ q.eb \in Nat
      /\ r.sc \in Nat /\ r.ec \in Nat /\ r.sb \in Nat /\ r.eb \in Nat
  BY DEF Behind, Within, TextRange
<1>2. /\ q.sc <= r.sc /\ r.ec <= q.ec /\ q.sb <= r.sb /\ r.eb <= q.eb
      /\ q.ec <= b.char /\ q.eb <= b.byte /\ a.char <= q.sc /\ a.byte <= q.sb
  BY DEF Behind, Within, InRange
<1>3. r.ec <= b.char /\ r.eb <= b.byte
  BY <1>1, <1>2
<1>4. a.char <= r.sc /\ a.byte <= r.sb
  BY <1>1, <1>2
<1>5. QED
  BY <1>3, <1>4 DEF Behind, Within

(* The cells of a table: there is one, no place is taken twice, and each   *)
(* lies in what the table added.                                           *)
CellsAreListed(a, b, cells) ==
  /\ cells # <<>> /\ CellsAreApart(cells)
  /\ \A k \in 1 .. Len(cells) : Behind(a, b, cells[k].range)

(* The cells of all rows are apart and lie behind what was assembled       *)
(* before.                                                                 *)
LEMMA CellsFile ==
  ASSUME NEW a, NEW b, a.char \in Nat, a.byte \in Nat, b.char \in Nat, b.byte \in Nat,
         NEW rows \in Seq(Cells), rows # <<>>, NEW t,
         NEW ss \in [1 .. Len(rows) -> Seq(CellOn(t))], NEW ranges,
         \A i \in 1 .. Len(rows) :
           CellsLieIn(ss[i], rows[i], i, ranges[i]) /\ Behind(a, b, ranges[i]),
         NEW cells, cells = FlattenSeq(ss)
  PROVE  CellsAreListed(a, b, cells)
<1> DEFINE n == Len(rows)
           S == CellOn(t)
<1>1. n \in Nat /\ 1 \in 1 .. n /\ \A i \in 1 .. n : rows[i] \in Cells
  OBVIOUS
<1>2. cells \in Seq(S) /\ \E outer, inner : IsFlat(cells, n, ss, outer, inner)
  <2> HIDE DEF n, S
  <2>1. ss \in [1 .. n -> Seq(S)]
    BY DEF n, S
  <2>2. QED
    BY <1>1, <2>1, FlatIsSequence, FlatPlaces
<1>3. PICK outer, inner : IsFlat(cells, n, ss, outer, inner)
  BY <1>2
<1>4. DOMAIN cells = 1 .. Len(cells) /\ Len(cells) \in Nat /\ \A k \in 1 .. Len(cells) : cells[k] \in S
  BY <1>2
<1> HIDE DEF n, S
<1>5. /\ \A k \in 1 .. Len(cells) :
           outer[k] \in 1 .. n /\ inner[k] \in 1 .. Len(ss[outer[k]])
           /\ cells[k] = ss[outer[k]][inner[k]]
      /\ \A k, l \in 1 .. Len(cells) : outer[k] = outer[l] /\ inner[k] = inner[l] => k = l
      /\ \A i \in 1 .. n : \A j \in 1 .. Len(ss[i]) :
           \E k \in 1 .. Len(cells) : outer[k] = i /\ inner[k] = j
  BY <1>3 DEF IsFlat
<1>6. ASSUME NEW i \in 1 .. n, NEW j \in 1 .. Len(ss[i])
      PROVE  /\ ss[i][j].row = i /\ ss[i][j].column = j
             /\ IsRange(ss[i][j].range) /\ InRange(ss[i][j].range, ranges[i])
             /\ Behind(a, b, ranges[i])
  <2>1. CellsLieIn(ss[i], rows[i], i, ranges[i]) /\ Behind(a, b, ranges[i])
    BY DEF n
  <2>2. QED
    BY <2>1 DEF CellsLieIn
<1>own. ASSUME NEW k \in 1 .. Len(cells)
        PROVE  /\ cells[k].row = outer[k] /\ cells[k].column = inner[k]
               /\ IsRange(cells[k].range) /\ InRange(cells[k].range, ranges[outer[k]])
               /\ Behind(a, b, ranges[outer[k]])
  <2> DEFINE i == outer[k]
             j == inner[k]
  <2>1. i \in 1 .. n /\ j \in 1 .. Len(ss[i]) /\ cells[k] = ss[i][j]
    BY <1>5
  <2> HIDE DEF i, j
  <2>2. /\ ss[i][j].row = i /\ ss[i][j].column = j
        /\ IsRange(ss[i][j].range) /\ InRange(ss[i][j].range, ranges[i])
        /\ Behind(a, b, ranges[i])
    BY <1>6, <2>1
  <2>3. QED
    BY <2>1, <2>2 DEF i, j
<1>7. cells # <<>>
  <2>1. CellsLieIn(ss[1], rows[1], 1, ranges[1]) /\ rows[1] \in Cells
    BY <1>1 DEF n
  <2>2. Len(ss[1]) = Len(rows[1]) /\ Len(rows[1]) \in Nat /\ Len(rows[1]) >= 1
    BY <2>1 DEF CellsLieIn, Cells
  <2>3. 1 \in 1 .. Len(ss[1])
    BY <2>2
  <2>4. \E k \in 1 .. Len(cells) : outer[k] = 1
    BY <1>1, <1>5, <2>3
  <2>5. QED
    BY <2>4
<1>8. CellsAreApart(cells)
  <2>1. ASSUME NEW k \in 1 .. Len(cells), NEW l \in 1 .. Len(cells),
               cells[k].row = cells[l].row, cells[k].column = cells[l].column
        PROVE  k = l
    <3>1. cells[k].row = outer[k] /\ cells[k].column = inner[k]
      BY <1>own
    <3>2. cells[l].row = outer[l] /\ cells[l].column = inner[l]
      BY <1>own
    <3>3. outer[k] = outer[l] /\ inner[k] = inner[l]
      BY <2>1, <3>1, <3>2
    <3>4. QED
      BY <1>5, <3>3
  <2>2. QED
    BY <1>4, <2>1 DEF CellsAreApart
<1>9. ASSUME NEW k \in 1 .. Len(cells) PROVE Behind(a, b, cells[k].range)
  <2> DEFINE r == cells[k].range
             q == ranges[outer[k]]
  <2>1. IsRange(r) /\ InRange(r, q) /\ Behind(a, b, q)
    BY <1>own
  <2>2. r \in TextRange
    BY <1>4 DEF S, CellOn
  <2> HIDE DEF r, q
  <2>3. Behind(a, b, r)
    BY <2>1, <2>2, RangesNest
  <2>4. QED
    BY <2>3 DEF r
<1>10. QED
  BY <1>7, <1>8, <1>9 DEF CellsAreListed

(* One entry in front of others.                                           *)
LEMMA SinglesJoin ==
  ASSUME NEW X, NEW x \in X, NEW g \in Seq(X), NEW h, h = <<x>> \o g
  PROVE  /\ h \in Seq(X) /\ Len(h) = Len(g) + 1 /\ h[1] = x
         /\ \A k \in 1 .. Len(g) : h[k + 1] = g[k]
<1>1. h \in Seq(X) /\ Len(h) = Len(g) + 1 /\ Len(g) \in Nat
  OBVIOUS
<1>2. h[1] = x
  OBVIOUS
<1>3. ASSUME NEW k \in 1 .. Len(g) PROVE h[k + 1] = g[k]
  OBVIOUS
<1>4. QED
  BY <1>1, <1>2, <1>3

(* The layout spans of a table: its own, and one for each cell.            *)
AreOfTable(a, b, r, blocks, tables) ==
  /\ \E X : r \in Seq(X)
  /\ UniqueIds(r) /\ AreNew(a, b, r, blocks, tables)
  /\ r # <<>> /\ r[1].role # "table_cell"
  /\ \A k \in 2 .. Len(r) : r[k].role = "table_cell"

(* The spans of a table and its cells have ids that no span before has.    *)
LEMMA TableSpansAreNew ==
  ASSUME NEW a, NEW s \in Text, NEW b, a \in ExactOn(s), Listed(a),
         NEW t, NEW cells \in Seq(CellOn(t)), CellsAreListed(a, b, cells),
         NEW table \in Nat, table = Len(a.tables), NEW range, Within(b, range), NEW text,
         NEW r, r = TableLayout(table, range, text, cells)
  PROVE  AreOfTable(a, b, r, BlockIndex(a) + 1, table + 1)
<1> DEFINE n == Len(cells)
           own == Span(<<"table", table>>, 1, "table", range, text)
           made(k) == Span(<<"cell", table, cells[k].row, cells[k].column>>, 1, "table_cell",
                           cells[k].range, cells[k].of)
           spans == [k \in 1 .. n |-> made(k)]
           X == {own} \cup {made(k) : k \in 1 .. n}
<1>1. n \in Nat /\ DOMAIN cells = 1 .. n /\ \A k \in 1 .. n : cells[k] \in CellOn(t)
  OBVIOUS
<1>2. r = <<own>> \o spans
  BY <1>1 DEF TableLayout
<1>3. /\ own.page = 1 /\ own.range = range /\ own.id = <<"table", table>> /\ own.role = "table"
      /\ \A k \in 1 .. n :
           /\ made(k).page = 1 /\ made(k).range = cells[k].range /\ made(k).role = "table_cell"
           /\ made(k).id = <<"cell", table, cells[k].row, cells[k].column>>
  BY DEF Span
<1> HIDE DEF n
<1>4. spans \in Seq(X) /\ Len(spans) = n /\ \A k \in 1 .. n : spans[k] = made(k)
  <2>1. \A k \in 1 .. n : made(k) \in X
    OBVIOUS
  <2> HIDE DEF X, made
  <2>2. spans \in [1 .. n -> X] /\ \A k \in 1 .. n : spans[k] = made(k)
    BY <2>1
  <2> HIDE DEF spans
  <2>3. QED
    BY <1>1, <2>2, FunctionsAreSequences
<1>5. own \in X
  OBVIOUS
<1> HIDE DEF own, made, spans, X
<1>6. /\ r \in Seq(X) /\ Len(r) = n + 1 /\ r[1] = own
      /\ \A k \in 1 .. n : r[k + 1] = spans[k]
  BY <1>1, <1>2, <1>4, <1>5, SinglesJoin
<1>7. \A k \in 1 .. Len(r) : k = 1 \/ (k - 1 \in 1 .. n /\ r[k] = made(k - 1))
  <2>1. ASSUME NEW k \in 1 .. Len(r), k # 1 PROVE k - 1 \in 1 .. n /\ r[k] = made(k - 1)
    <3>1. k - 1 \in 1 .. n /\ (k - 1) + 1 = k
      BY <1>1, <1>6, <2>1
    <3>2. r[(k - 1) + 1] = spans[k - 1]
      BY <1>6, <3>1
    <3>3. QED
      BY <1>4, <3>1, <3>2
  <2>2. QED
    BY <2>1
<1>8. UniqueIds(r)
  <2>1. ASSUME NEW k \in 1 .. n, NEW l \in 1 .. n, made(k).id = made(l).id PROVE k = l
    <3> DEFINE x == <<"cell", table, cells[k].row, cells[k].column>>
               y == <<"cell", table, cells[l].row, cells[l].column>>
    <3>1. x = y
      BY <1>3, <2>1
    <3>2. x[3] = cells[k].row /\ x[4] = cells[k].column /\ y[3] = cells[l].row /\ y[4] = cells[l].column
      OBVIOUS
    <3>3. cells[k].row = cells[l].row /\ cells[k].column = cells[l].column
      BY <3>1, <3>2
    <3>4. QED
      BY <1>1, <3>3 DEF CellsAreListed, CellsAreApart
  <2>2. ASSUME NEW k \in 1 .. n PROVE made(k).id # own.id
    <3>1. made(k).id[1] = "cell" /\ own.id[1] = "table"
      BY <1>3
    <3>2. QED
      BY <3>1
  <2>3. DOMAIN r = 1 .. Len(r)
    BY <1>6
  <2>4. ASSUME NEW k \in 1 .. Len(r), NEW l \in 1 .. Len(r), r[k].id = r[l].id PROVE k = l
    <3>1. CASE k = 1 /\ l = 1
      BY <3>1
    <3>2. CASE k = 1 /\ l # 1
      BY <1>6, <1>7, <2>2, <2>4, <3>2
    <3>3. CASE k # 1 /\ l = 1
      BY <1>6, <1>7, <2>2, <2>4, <3>3
    <3>4. CASE k # 1 /\ l # 1
      <4>1. /\ k - 1 \in 1 .. n /\ l - 1 \in 1 .. n
            /\ made(k - 1).id = made(l - 1).id
        BY <1>7, <2>4, <3>4
      <4>2. k - 1 = l - 1
        BY <2>1, <4>1
      <4>3. QED
        BY <4>2
    <3>5. QED
      BY <3>1, <3>2, <3>3, <3>4
  <2>5. QED
    BY <2>3, <2>4 DEF UniqueIds
<1>9. BlockIndex(a) \in Nat
  BY BlocksAreCounted
<1>10. ASSUME NEW id \in SpanId, id[1] \in {"table", "cell"}, id[2] = table
       PROVE  /\ id \in SpanIds(BlockIndex(a) + 1, table + 1)
              /\ id \notin SpanIds(BlockIndex(a), Len(a.tables))
  BY <1>9, <1>10 DEF SpanIds
<1>11. ASSUME NEW k \in 1 .. Len(r)
       PROVE  /\ r[k].page = 1 /\ Within(b, r[k].range)
              /\ r[k].id \in SpanIds(BlockIndex(a) + 1, table + 1)
              /\ r[k].id \notin SpanIds(BlockIndex(a), Len(a.tables))
  <2>1. CASE k = 1
    <3>1. <<"table", table>> \in SpanId
      BY DEF SpanId, SpanTag
    <3>2. own.id \in SpanId /\ own.id[1] = "table" /\ own.id[2] = table
      BY <1>3, <3>1
    <3>3. QED
      BY <1>3, <1>6, <1>10, <2>1, <3>2
  <2>2. CASE k # 1
    <3> DEFINE l == k - 1
               c == cells[l]
    <3>1. l \in 1 .. n /\ r[k] = made(l)
      BY <1>7, <2>2
    <3> HIDE DEF l
    <3>2. c.row \in Nat /\ c.column \in Nat
      BY <1>1, <3>1 DEF CellOn
    <3>3. <<"cell", table, c.row, c.column>> \in SpanId
      BY <3>2 DEF SpanId, SpanTag
    <3> DEFINE id == <<"cell", table, c.row, c.column>>
    <3>7. r[k].id = id /\ id[1] = "cell" /\ id[2] = table
      BY <1>3, <3>1
    <3> HIDE DEF id
    <3>4. r[k].id \in SpanId /\ r[k].id[1] = "cell" /\ r[k].id[2] = table
      BY <3>3, <3>7 DEF id
    <3>5. Within(b, c.range)
      BY <3>1 DEF CellsAreListed, Behind, n
    <3>6. QED
      BY <1>3, <1>10, <3>1, <3>4, <3>5
  <2>3. QED
    BY <2>1, <2>2
<1>12. r # <<>> /\ r[1].role # "table_cell" /\ \A k \in 2 .. Len(r) : r[k].role = "table_cell"
  <2>1. r # <<>> /\ r[1].role # "table_cell"
    BY <1>1, <1>3, <1>6
  <2>2. ASSUME NEW k \in 2 .. Len(r) PROVE r[k].role = "table_cell"
    <3>1. k \in 1 .. Len(r) /\ k # 1
      BY <1>1, <1>6
    <3>2. QED
      BY <1>3, <1>7, <3>1
  <2>3. QED
    BY <2>1, <2>2
<1>13. QED
  <2>1. AreNew(a, b, r, BlockIndex(a) + 1, table + 1)
    BY <1>11 DEF AreNew
  <2>2. QED
    BY <1>6, <1>8, <1>12, <2>1 DEF AreOfTable

(* What a table with so many rows leaves in order.                         *)
TableIsAdded(a, b, n, ids) ==
  /\ Covers(b) /\ Listed(b)
  /\ BlockIndex(b) = BlockIndex(a) + 1 /\ Len(b.tables) = Len(a.tables) + 1
  /\ Named(a, ids) => Named(b, ids \cup RowIdsTo(Len(a.tables), n))

(* Its rows.                                                               *)
LEMMA FilledRows ==
  ASSUME NEW a, NEW s \in Text, a \in ExactOn(s), Covers(a), Listed(a),
         NEW rows \in Seq(Cells), ~HasEmptyCell(rows),
         NEW ids, NoRowsOf(Len(a.tables), ids), NEW n, n = Len(rows),
         NEW after, after = WithRows(a, rows), NEW t \in Text, after[n] \in ExactOn(t)
  PROVE  /\ Covers(after[n]) /\ Grows(a, after[n])
         /\ Named(a, ids) => Named(after[n], ids \cup RowIdsTo(Len(a.tables), n))
         /\ \A i \in 1 .. n :
              /\ Behind(a, after[n], Last(after[i].map).range)
              /\ CellsOf(rows[i], i, Last(after[i].map).range) \in Seq(CellOn(t))
              /\ CellsLieIn(CellsOf(rows[i], i, Last(after[i].map).range), rows[i], i,
                            Last(after[i].map).range)
<1>1. n \in Nat /\ n \in 0 .. n /\ DOMAIN rows = 1 .. n /\ \A i \in 1 .. n : rows[i] \in Cells
  OBVIOUS
<1>2. RowsAreMarked(after, s, rows)
  BY RowsAreAdded
<1>3. RowsAreFiled(a, after, Len(a.tables), n, ids)
  BY <1>1, AllRowsFile
<1>4. ASSUME NEW i \in 1 .. n
      PROVE  /\ Behind(a, after[n], Last(after[i].map).range)
             /\ CellsOf(rows[i], i, Last(after[i].map).range) \in Seq(CellOn(t))
             /\ CellsLieIn(CellsOf(rows[i], i, Last(after[i].map).range), rows[i], i,
                           Last(after[i].map).range)
  <2> DEFINE range == Last(after[i].map).range
  <2>1. Behind(a, after[n], range)
    BY <1>3 DEF RowsAreFiled, Behind
  <2>2. range \in TextRange /\ Marks(t, range, JoinedRow(rows[i]))
    BY <1>2, RowsStayMarked
  <2>3. i \in Nat /\ rows[i] \in Cells /\ \A j \in DOMAIN rows[i] : rows[i][j] # <<>>
    BY <1>1 DEF HasEmptyCell
  <2> HIDE DEF range
  <2>4. CellsOf(rows[i], i, range) \in Seq(CellOn(t))
    BY <2>2, <2>3, CellsMark
  <2>5. CellsLieIn(CellsOf(rows[i], i, range), rows[i], i, range)
    BY <2>2, <2>3, CellsLieInRows
  <2>6. QED
    BY <2>1, <2>4, <2>5 DEF range
<1>5. QED
  BY <1>3, <1>4 DEF RowsAreFiled

(* A table is listed behind the others when its cells are in it.           *)
LEMMA TablesList ==
  ASSUME NEW a, NEW s \in Text, a \in ExactOn(s), Listed(a), NEW b, Grows(a, b),
         NEW t, NEW cells \in Seq(CellOn(t)), CellsAreListed(a, b, cells),
         NEW range, range = [sc |-> a.char, ec |-> b.char, sb |-> a.byte, eb |-> b.byte],
         Within(b, range),
         b.tables = Append(a.tables, TableSpan(Len(a.tables), range, cells)),
         NEW blocks \in Nat, BlockIndex(a) <= blocks
  PROVE  /\ Len(b.tables) = Len(a.tables) + 1 /\ UniqueIds(b.tables)
         /\ \A k \in 1 .. Len(b.tables) :
              /\ TableIsFiled(b, b.tables[k])
              /\ b.tables[k].id \in SpanIds(blocks, Len(a.tables) + 1)
<1> DEFINE f == a.tables
           m == Len(f)
           x == TableSpan(m, range, cells)
           g == b.tables
<1>1. f \in Seq(TableOn(s)) /\ m \in Nat
  BY DEF ExactOn
<1>2. x.page = 1 /\ x.id = <<"table", m>> /\ x.range = range /\ x.cells = cells
  BY DEF TableSpan
<1>3. g = Append(f, x)
  OBVIOUS
<1> HIDE DEF f, x, g
<1>4. Len(g) = m + 1 /\ g[m + 1] = x /\ \A k \in 1 .. m : g[k] = f[k]
  BY <1>1, <1>3
<1>5. BlockIndex(a) \in Nat
  BY BlocksAreCounted
<1>6. x.id \in SpanIds(blocks, m + 1) /\ x.id \notin SpanIds(BlockIndex(a), m)
  <2> DEFINE id == <<"table", m>>
  <2>1. id \in SpanId /\ id[1] = "table" /\ id[2] = m
    BY <1>1 DEF SpanId, SpanTag
  <2> HIDE DEF id
  <2>2. id \in SpanIds(blocks, m + 1) /\ id \notin SpanIds(BlockIndex(a), m)
    BY <1>1, <2>1 DEF SpanIds
  <2>3. QED
    BY <1>2, <2>2 DEF id
<1>7. \A k \in 1 .. m : TableIsFiled(a, f[k]) /\ f[k].id \in SpanIds(BlockIndex(a), m)
  BY DEF Listed, f
<1>8. UniqueIds(g)
  <2>1. \A k \in 1 .. Len(f) : f[k].id # x.id
    BY <1>6, <1>7
  <2>2. UniqueIds(f)
    BY DEF Listed, f
  <2>3. QED
    BY <1>1, <1>3, <2>1, <2>2, UniqueAppend
<1>9. TableIsFiled(b, x)
  <2>1. ASSUME NEW k \in 1 .. Len(cells)
        PROVE  Within(b, cells[k].range) /\ CellIsWithin(x, cells[k])
    <3> DEFINE r == cells[k].range
    <3>1. Within(b, r) /\ a.char <= r.sc /\ a.byte <= r.sb
      BY DEF CellsAreListed, Behind
    <3>2. r.ec <= b.char /\ r.eb <= b.byte
      BY <3>1 DEF Within
    <3>3. range.sc = a.char /\ range.ec = b.char /\ range.sb = a.byte /\ range.eb = b.byte
      OBVIOUS
    <3>4. QED
      BY <1>2, <3>1, <3>2, <3>3 DEF CellIsWithin
  <2>2. ToSet(cells) = {cells[k] : k \in 1 .. Len(cells)}
    BY DEF ToSet
  <2>3. cells # <<>> /\ CellsAreApart(cells)
    BY DEF CellsAreListed
  <2>4. QED
    BY <1>2, <2>1, <2>2, <2>3 DEF TableIsFiled
<1>10. ASSUME NEW k \in 1 .. m + 1
       PROVE  TableIsFiled(b, g[k]) /\ g[k].id \in SpanIds(blocks, m + 1)
  <2>1. CASE k = m + 1
    BY <1>4, <1>6, <1>9, <2>1
  <2>2. CASE k # m + 1
    <3>1. k \in 1 .. m
      BY <1>1, <2>2
    <3>2. TableIsFiled(a, f[k]) /\ f[k].id \in SpanIds(BlockIndex(a), m) /\ g[k] = f[k]
      BY <1>4, <1>7, <3>1
    <3>3. TableIsFiled(b, f[k])
      BY <3>2, TablesStayFiled
    <3>4. SpanIds(BlockIndex(a), m) \subseteq SpanIds(blocks, m + 1)
      BY <1>1, <1>5, IdsStay
    <3>5. QED
      BY <3>2, <3>3, <3>4
  <2>3. QED
    BY <2>1, <2>2
<1>11. QED
  BY <1>4, <1>8, <1>10 DEF f, g

(* A table leaves the assembler listed and its map covering the text       *)
(* (html_tables.py:69).                                                    *)
LEMMA TablesFile ==
  ASSUME NEW a, NEW s \in Text, a \in ExactOn(s), Covers(a), Listed(a),
         NEW rows \in Seq(Cells), rows # <<>>, ~HasEmptyCell(rows),
         NEW ids, NoRowsOf(Len(a.tables), ids), NEW b, b = AddRows(a, rows)
  PROVE  TableIsAdded(a, b, Len(rows), ids)
<1> DEFINE n == Len(rows)
           table == Len(a.tables)
           after == WithRows(a, rows)
           filled == after[n]
           q(i) == Last(after[i].map).range
           ss == [i \in DOMAIN rows |-> CellsOf(rows[i], i, q(i))]
           ranges == [i \in DOMAIN rows |-> q(i)]
           cells == FlattenSeq(ss)
           range == [sc |-> a.char, ec |-> filled.char, sb |-> a.byte, eb |-> filled.byte]
           text == Slice(filled.text, range.sc, range.ec)
           r == TableLayout(table, range, text, cells)
           layout == filled.layout \o r
           tables == Append(filled.tables, TableSpan(table, range, cells))
<1>1. /\ n \in Nat /\ 1 \in 1 .. n /\ n \in 0 .. n /\ DOMAIN rows = 1 .. n /\ table \in Nat
      /\ BlockIndex(a) \in Nat
  BY BlocksAreCounted DEF ExactOn
<1>2. RowsAreMarked(after, s, rows) /\ filled.layout = a.layout /\ filled.tables = a.tables
  BY <1>1, RowsAreAdded
<1>11. b = [filled EXCEPT !.tables = tables, !.layout = layout]
  BY DEF AddRows
<1> HIDE DEF after, n
<1>3. PICK t \in Text : filled \in ExactOn(t)
  BY <1>1, <1>2 DEF RowsAreMarked, n
<1>4. /\ Covers(filled) /\ Grows(a, filled)
      /\ Named(a, ids) => Named(filled, ids \cup RowIdsTo(table, n))
      /\ \A i \in 1 .. n :
           /\ Behind(a, filled, q(i))
           /\ CellsOf(rows[i], i, q(i)) \in Seq(CellOn(t))
           /\ CellsLieIn(CellsOf(rows[i], i, q(i)), rows[i], i, q(i))
  BY <1>3, FilledRows DEF after, n
<1> HIDE DEF q
<1>5. /\ ss \in [1 .. n -> Seq(CellOn(t))]
      /\ \A i \in 1 .. n : CellsLieIn(ss[i], rows[i], i, ranges[i]) /\ Behind(a, filled, ranges[i])
  BY <1>1, <1>4
<1> HIDE DEF ss, ranges
<1>6. cells \in Seq(CellOn(t))
  BY <1>1, <1>5, FlatIsSequence
<1> HIDE DEF cells, layout, tables, r, range, text
<1>7. b.map = filled.map /\ b.char = filled.char /\ b.byte = filled.byte
      /\ b.layout = layout /\ b.tables = tables
  BY <1>3, <1>11 DEF ExactOn
<1>8. Grows(a, b) /\ Covers(b)
  <2>1. Grows(a, b)
    BY <1>4, <1>7 DEF Grows
  <2> HIDE DEF filled
  <2>2. Covers(b)
    BY <1>4, <1>7 DEF Covers
  <2>3. QED
    BY <2>1, <2>2
<1>9. a.char \in Nat /\ a.byte \in Nat /\ b.char \in Nat /\ b.byte \in Nat
  BY <1>8 DEF Grows
<1>10. \A i \in 1 .. n : CellsLieIn(ss[i], rows[i], i, ranges[i]) /\ Behind(a, b, ranges[i])
  BY <1>5, <1>7 DEF Behind, Within
<1>12. CellsAreListed(a, b, cells)
  BY <1>5, <1>9, <1>10, CellsFile DEF cells, n
<1>13. Within(b, range)
  <2> DEFINE x == ranges[1]
  <2>1. Behind(a, b, x)
    BY <1>1, <1>10
  <2> HIDE DEF x
  <2>2. x.sc \in Nat /\ x.ec \in Nat /\ x.sb \in Nat /\ x.eb \in Nat
    BY <2>1 DEF Behind, Within, TextRange
  <2>3. a.char < b.char /\ a.byte < b.byte
    BY <1>9, <2>1, <2>2 DEF Behind, Within, IsRange
  <2>4. range.sc = a.char /\ range.ec = b.char /\ range.sb = a.byte /\ range.eb = b.byte
        /\ range \in TextRange
    BY <1>7, <1>9 DEF range, TextRange
  <2>5. QED
    BY <1>9, <2>3, <2>4 DEF Within, IsRange
<1>14. /\ \E X : r \in Seq(X)
       /\ UniqueIds(r) /\ AreNew(a, b, r, BlockIndex(a) + 1, table + 1)
       /\ r # <<>> /\ r[1].role # "table_cell"
       /\ \A k \in 2 .. Len(r) : r[k].role = "table_cell"
  <2>1. table = Len(a.tables)
    OBVIOUS
  <2>2. r = TableLayout(table, range, text, cells)
    BY DEF r
  <2> HIDE DEF table
  <2>3. AreOfTable(a, b, r, BlockIndex(a) + 1, table + 1)
    BY <1>1, <1>6, <1>12, <1>13, <2>1, <2>2, TableSpansAreNew
  <2>4. QED
    BY <2>3 DEF AreOfTable
<1>15. PICK X : r \in Seq(X)
  BY <1>14
<1>16. b.layout = a.layout \o r
  BY <1>2, <1>7 DEF layout
<1>17. BlockIndex(b) = BlockIndex(a) + 1
  <2> DEFINE S == SpanOn(s) \cup X
  <2>1. r \in Seq(S)
    BY <1>15
  <2>2. a.layout \in Seq(S)
    <3>1. a.layout \in Seq(SpanOn(s)) /\ SpanOn(s) \subseteq S
      BY DEF ExactOn
    <3> HIDE DEF S
    <3>2. QED
      BY <3>1, MembersStay
  <2> HIDE DEF S
  <2>3. QED
    BY <1>14, <1>16, <2>1, <2>2, BlocksGrow
<1>18. SpansAreListed(b, BlockIndex(a) + 1, table + 1)
  <2>1. BlockIndex(a) < BlockIndex(a) + 1 /\ BlockIndex(a) + 1 \in Nat
        /\ table <= table + 1 /\ table + 1 \in Nat
    BY <1>1
  <2>2. QED
    BY <1>8, <1>14, <1>15, <1>16, <2>1, SpansJoin DEF table
<1>19. /\ Len(b.tables) = table + 1 /\ UniqueIds(b.tables)
       /\ \A k \in 1 .. Len(b.tables) :
            /\ TableIsFiled(b, b.tables[k])
            /\ b.tables[k].id \in SpanIds(BlockIndex(a) + 1, table + 1)
  <2>1. BlockIndex(a) <= BlockIndex(a) + 1 /\ BlockIndex(a) + 1 \in Nat
    BY <1>1
  <2>2. range = [sc |-> a.char, ec |-> b.char, sb |-> a.byte, eb |-> b.byte]
    BY <1>7 DEF range
  <2>3. b.tables = Append(a.tables, TableSpan(Len(a.tables), range, cells))
    BY <1>2, <1>7 DEF tables, table
  <2>4. QED
    BY <1>6, <1>8, <1>12, <1>13, <2>1, <2>2, <2>3, TablesList DEF table
<1>20. Listed(b)
  BY <1>17, <1>18, <1>19 DEF Listed, SpansAreListed
<1>21. Named(a, ids) => Named(b, ids \cup RowIdsTo(table, n))
  BY <1>4, <1>7 DEF Named
<1>22. QED
  BY <1>8, <1>17, <1>19, <1>20, <1>21 DEF TableIsAdded, n, table

(* A table behind its separator.                                           *)
LEMMA SeparatedTablesFile ==
  ASSUME NEW a, NEW s \in Text, a \in ExactOn(s), Covers(a), Listed(a),
         NEW rows \in Seq(Cells), rows # <<>>, ~HasEmptyCell(rows),
         NEW b, b = AddRows(AddSeparator(a), rows)
  PROVE  Covers(b) /\ Listed(b) /\ (Named(a, OwnIds(a)) => Named(b, OwnIds(b)))
<1> DEFINE c == AddSeparator(a)
           index == BlockIndex(a)
           table == Len(a.tables)
           separator == <<"separator", index>>
           ids == OwnIds(a) \cup {separator}
<1>1. index \in Nat /\ table \in Nat
  BY BlocksAreCounted DEF ExactOn
<1>2. separator \in SegmentId /\ separator[1] = "separator" /\ separator[2] = index
  BY <1>1 DEF SegmentId, SegmentTag
<1>3. /\ c.layout = a.layout /\ c.tables = a.tables
      /\ \E t \in Text : c \in ExactOn(t)
      /\ Covers(c) /\ Listed(c)
      /\ Named(a, OwnIds(a)) => Named(c, ids)
  BY SeparatorsFile DEF OwnIds
<1> HIDE DEF c, index, table, separator
<1>4. BlockIndex(c) = index /\ Len(c.tables) = table
  BY <1>3 DEF BlockIndex, index, table
<1>5. NoRowsOf(table, ids)
  BY <1>2 DEF NoRowsOf, RowTag, OwnIds, MapIds, table
<1> DEFINE more == ids \cup RowIdsTo(table, Len(rows))
<1>6. TableIsAdded(c, b, Len(rows), ids)
  <2> HIDE DEF ids
  <2>1. PICK t \in Text : c \in ExactOn(t)
    BY <1>3
  <2>2. b = AddRows(c, rows)
    BY DEF c
  <2>3. NoRowsOf(Len(c.tables), ids)
    BY <1>4, <1>5
  <2>4. QED
    BY <1>3, <2>1, <2>2, <2>3, TablesFile
<1>7. /\ Covers(b) /\ Listed(b)
      /\ BlockIndex(b) = index + 1 /\ Len(b.tables) = table + 1
      /\ Named(a, OwnIds(a)) => Named(b, more)
  BY <1>3, <1>4, <1>6 DEF TableIsAdded
<1>8. more \subseteq OwnIds(b)
  <2>1. OwnIds(b) = MapIds(index + 1, table + 1)
    BY <1>7 DEF OwnIds
  <2>2. MapIds(index, table) \subseteq MapIds(index + 1, table + 1)
    BY <1>1, IdsStay
  <2>3. separator \in MapIds(index + 1, table + 1)
    BY <1>1, <1>2 DEF MapIds
  <2>4. RowIdsTo(table, Len(rows)) \subseteq MapIds(index + 1, table + 1)
    BY <1>1 DEF RowIdsTo, RowTag, MapIds
  <2>5. QED
    BY <2>1, <2>2, <2>3, <2>4 DEF OwnIds, index, table
<1> HIDE DEF more
<1>9. QED
  BY <1>7, <1>8, NamesStay

-----------------------------------------------------------------------------
(* What the parsers file                                                   *)

(* One assembler after another: its map, layout and tables stay in order.  *)
Filed(a) == Covers(a) /\ Listed(a)
StaysFiled(a, b) ==
  Filed(a) => Filed(b) /\ (Named(a, OwnIds(a)) => Named(b, OwnIds(b)))

(* An assembler starts with nothing, and nothing is out of order.          *)
LEMMA EmptyIsFiled == Filed(Empty) /\ Named(Empty, OwnIds(Empty)) /\ Named(Empty, {})
<1>1. /\ Empty.map = <<>> /\ Empty.char = 0 /\ Empty.byte = 0
      /\ Empty.layout = <<>> /\ Empty.tables = <<>>
  BY DEF Empty
<1>2. QED
  BY <1>1 DEF Filed, Covers, Listed, Named, UniqueIds

(* The open block of the HTML parser is filed as the next one.             *)
LEMMA FlushedIsFiled ==
  ASSUME ParserIsExact
  PROVE  StaysFiled(assembly, Flushed)
<1>1. PICK s \in Text : assembly \in ExactOn(s)
  BY DEF ParserIsExact, IsExact
<1>2. CASE block = Closed \/ Normalized(parts) = <<>>
  BY <1>2 DEF Flushed, StaysFiled
<1>3. CASE ~(block = Closed \/ Normalized(parts) = <<>>)
  <2> DEFINE text == Normalized(parts)
             role == RoleOf[block]
  <2>1. text \in Text \ {<<>>} /\ role \in ParagraphRole
    BY <1>3, NormalizedIsText, InputAssumption DEF ParserIsExact
  <2>2. Flushed = AddBlock(assembly, text, role)
    BY <1>3 DEF Flushed
  <2> HIDE DEF text, role
  <2>3. QED
    BY <1>1, <2>1, <2>2, BlocksFile DEF StaysFiled, Filed
<1>4. QED
  BY <1>2, <1>3

(* A table behind its separator is filed as the next one.                  *)
LEMMA SeparatedTablesAreFiled ==
  ASSUME NEW a, IsExact(a), NEW rows \in Seq(Cells), rows # <<>>, ~HasEmptyCell(rows),
         NEW b, b = AddRows(AddSeparator(a), rows)
  PROVE  StaysFiled(a, b)
<1>1. PICK s \in Text : a \in ExactOn(s)
  BY DEF IsExact
<1>2. QED
  BY <1>1, SeparatedTablesFile DEF StaysFiled, Filed

(* Whatever tags and texts come, the HTML parser's assembler stays filed.  *)
LEMMA ParserStaysFiled ==
  ASSUME ParserIsExact, ParserStep
  PROVE  StaysFiled(assembly, assembly')
<1>1. CASE UNCHANGED assembly
  BY <1>1 DEF StaysFiled
<1>2. CASE assembly' = Flushed
  BY <1>2, FlushedIsFiled
<1>3. CASE CloseTable
  <2>1. CASE Last(stack) = <<>>
    BY <1>1, <1>3, <2>1 DEF CloseTable
  <2>2. CASE Last(stack) # <<>>
    <3>1. stack # <<>> /\ stack \in Seq(Seq(Cells))
      BY <1>3 DEF CloseTable, InTable, ParserIsExact
    <3>2. Last(stack) \in Seq(Cells)
      BY <3>1 DEF Last
    <3>3. /\ ~HasEmptyCell(Last(stack))
          /\ assembly' = AddRows(AddSeparator(assembly), Last(stack))
      BY <1>3, <2>2 DEF CloseTable
    <3> DEFINE rows == Last(stack)
    <3> HIDE DEF rows
    <3>4. /\ rows \in Seq(Cells) /\ rows # <<>> /\ ~HasEmptyCell(rows)
          /\ assembly' = AddRows(AddSeparator(assembly), rows)
      BY <2>2, <3>2, <3>3 DEF rows
    <3>5. QED
      BY <3>4, SeparatedTablesAreFiled DEF ParserIsExact
  <2>3. QED
    BY <2>1, <2>2
<1>4. UNCHANGED assembly \/ assembly' = Flushed \/ CloseTable
  BY DEF ParserStep, OpenIgnored, OpenTitle, OpenTable, OpenRow, OpenCell, CloseIgnored,
         CloseTitle, CloseCell, CloseRow, OpenBlock, CloseBlock, HandleData, FlushOpenBlock
<1>5. QED
  BY <1>1, <1>2, <1>3, <1>4

(* A paragraph or a table of a DOCX document keeps the assembler filed; a  *)
(* table without rows leaves its separator only.                           *)
LEMMA DocxStaysFiled ==
  ASSUME ParserIsExact, Filed(assembly), ReadParagraph \/ ReadTable
  PROVE  Filed(assembly')
<1>1. PICK s \in Text : assembly \in ExactOn(s)
  BY DEF ParserIsExact, IsExact
<1>2. CASE ReadParagraph
  <2>1. PICK text \in Paragraph \ {<<>>}, role \in ParagraphRole :
          assembly' = AddBlock(assembly, text, role)
    BY <1>2 DEF ReadParagraph
  <2>2. text \in Text \ {<<>>}
    BY InputAssumption
  <2>3. QED
    BY <1>1, <2>1, <2>2, BlocksFile DEF Filed
<1>3. CASE ReadTable
  <2>1. PICK rows \in DocxTable :
          IF HasEmptyCell(TableRows(rows)) THEN Refuse
          ELSE assembly' = IF TableRows(rows) = <<>> THEN AddSeparator(assembly)
                           ELSE AddRows(AddSeparator(assembly), TableRows(rows))
    BY <1>3 DEF ReadTable
  <2> DEFINE cells == TableRows(rows)
  <2>2. cells \in Seq(Cells)
    BY InputAssumption, TableRowsHaveCells
  <2> HIDE DEF cells
  <2>3. CASE HasEmptyCell(cells)
    <3>1. assembly' = Empty
      BY <2>1, <2>3 DEF cells, Refuse, ParserIsDone
    <3>2. QED
      BY <3>1, EmptyIsFiled
  <2>4. CASE ~HasEmptyCell(cells) /\ cells = <<>>
    <3>1. assembly' = AddSeparator(assembly)
      BY <2>1, <2>4 DEF cells
    <3>2. QED
      BY <1>1, <3>1, SeparatorsFile DEF Filed
  <2>5. CASE ~HasEmptyCell(cells) /\ cells # <<>>
    <3>1. assembly' = AddRows(AddSeparator(assembly), cells)
      BY <2>1, <2>5 DEF cells
    <3>2. StaysFiled(assembly, assembly')
      BY <2>2, <2>5, <3>1, SeparatedTablesAreFiled DEF ParserIsExact
    <3>3. QED
      BY <3>2 DEF StaysFiled
  <2>6. QED
    BY <2>3, <2>4, <2>5
<1>4. QED
  BY <1>2, <1>3

-----------------------------------------------------------------------------
(* The contract of Document                                                *)

(* What is said of an assembler that is to be a document of one page.      *)
Contracted(a) ==
  /\ a.char = Len(a.text) /\ a.byte = ByteLen(a.text) /\ a.char \in Nat /\ a.byte \in Nat
  /\ IsSequence(a.map) /\ IsSequence(a.layout) /\ IsSequence(a.tables)
  /\ Covers(a) /\ UniqueIds(a.map) /\ UniqueIds(a.layout) /\ UniqueIds(a.tables)
  /\ \A k \in 1 .. Len(a.layout) : a.layout[k].page = 1 /\ Within(a, a.layout[k].range)
  /\ \A k \in 1 .. Len(a.tables) : TableIsFiled(a, a.tables[k])

(* Then the document of one page that is made of it is valid.              *)
LEMMA ContractedIsValid ==
  ASSUME NEW a, Contracted(a)
  PROVE  IsValid(OnePage(a))
<1> DEFINE d == OnePage(a)
           page == Page(0, Len(a.text), 0, ByteLen(a.text))
<1>1. /\ d.text = a.text /\ d.pages = <<page>> /\ d.map = a.map
      /\ d.layout = a.layout /\ d.tables = a.tables
  BY DEF OnePage
<1>2. page.sc = 0 /\ page.ec = Len(a.text) /\ page.sb = 0 /\ page.eb = ByteLen(a.text)
  BY DEF Page
<1> HIDE DEF d, page
<1>3. DOMAIN d.pages = {1} /\ d.pages[1] = page
  BY <1>1
<1>4. /\ a.char = Len(d.text) /\ a.byte = ByteLen(d.text) /\ a.char \in Nat /\ a.byte \in Nat
  BY <1>1 DEF Contracted
<1>5. PageMapIsOrdered(d)
  BY <1>1, <1>2, <1>3, <1>4 DEF PageMapIsOrdered
<1>6. UniqueIds(d.map) /\ UniqueIds(d.layout) /\ UniqueIds(d.tables)
  BY <1>1 DEF Contracted
<1>7. /\ IsSequence(d.map) /\ IsSequence(d.layout) /\ IsSequence(d.tables)
  BY <1>1 DEF Contracted
<1>8. SourceMapCovers(d)
  <2>1. ASSUME d.map # <<>>
        PROVE  /\ Last(d.map).range.ec = Len(d.text) /\ Last(d.map).range.eb = ByteLen(d.text)
    BY <1>1, <1>4, <2>1 DEF Contracted, Covers, Last
  <2>2. ASSUME NEW i \in DOMAIN d.map
        PROVE  /\ d.map[i].range.sc = IF i = 1 THEN 0 ELSE d.map[i - 1].range.ec
               /\ d.map[i].range.sb = IF i = 1 THEN 0 ELSE d.map[i - 1].range.eb
    <3>1. i \in 1 .. Len(a.map)
      BY <1>1, <1>7 DEF IsSequence
    <3>2. QED
      BY <1>1, <3>1 DEF Contracted, Covers
  <2>3. QED
    BY <2>1, <2>2 DEF SourceMapCovers
<1>9. ASSUME NEW range, Within(a, range) PROVE RangeIsWithin(d, range)
  BY <1>4, <1>9 DEF Within, RangeIsWithin
<1>10. ASSUME NEW s \in ToSet(d.map) PROVE RangeIsWithin(d, s.range)
  <2>1. PICK i \in 1 .. Len(a.map) : s = a.map[i]
    BY <1>1, <1>7 DEF ToSet, IsSequence
  <2>2. IsRange(s.range) /\ s.range.ec <= a.char /\ s.range.eb <= a.byte
    BY <2>1 DEF Contracted, Covers
  <2>3. QED
    BY <1>4, <2>2 DEF RangeIsWithin
<1>11. ASSUME NEW t \in ToSet(d.tables) PROVE TableIsFiled(a, t)
  <2>1. PICK i \in 1 .. Len(a.tables) : t = a.tables[i]
    BY <1>1, <1>7 DEF ToSet, IsSequence
  <2>2. QED
    BY <2>1 DEF Contracted
<1>12. ASSUME NEW s \in ToSet(d.layout) \cup ToSet(d.tables)
       PROVE  PageIsKnown(d, s.page) /\ RangeIsWithin(d, s.range)
  <2>1. CASE s \in ToSet(d.layout)
    <3>1. PICK i \in 1 .. Len(a.layout) : s = a.layout[i]
      BY <1>1, <1>7, <2>1 DEF ToSet, IsSequence
    <3>2. s.page = 1 /\ Within(a, s.range)
      BY <3>1 DEF Contracted
    <3>3. QED
      BY <1>3, <1>9, <3>2 DEF PageIsKnown
  <2>2. CASE s \in ToSet(d.tables)
    BY <1>3, <1>9, <1>11, <2>2 DEF PageIsKnown, TableIsFiled
  <2>3. QED
    BY <2>1, <2>2
<1>13. ASSUME NEW t \in ToSet(d.tables)
       PROVE  /\ t.cells # <<>> /\ CellsAreApart(t.cells)
              /\ \A c \in ToSet(t.cells) : RangeIsWithin(d, c.range) /\ CellIsWithin(t, c)
  BY <1>9, <1>11 DEF TableIsFiled
<1>14. IsValid(d)
  BY <1>5, <1>6, <1>8, <1>10, <1>12, <1>13 DEF IsValid
<1>15. QED
  BY <1>14 DEF d

(* An assembler that is filed is such a one when its segment ids are       *)
(* unique.                                                                 *)
LEMMA FiledIsContracted ==
  ASSUME NEW a, NEW t \in Text, a \in ExactOn(t), Filed(a), UniqueIds(a.map)
  PROVE  Contracted(a)
<1>1. a.text = t /\ a.char = Len(t) /\ a.byte = ByteLen(t) /\ a.char \in Nat /\ a.byte \in Nat
  BY CountersAreNumbers DEF ExactOn
<1>2. IsSequence(a.map) /\ IsSequence(a.layout) /\ IsSequence(a.tables)
  <2> DEFINE X == SpanOn(t)
             Y == TableOn(t)
  <2>1. a.map \in Seq(Segment) /\ a.layout \in Seq(X) /\ a.tables \in Seq(Y)
    BY DEF ExactOn
  <2> HIDE DEF X, Y
  <2>2. QED
    BY <2>1 DEF IsSequence
<1>3. QED
  BY <1>1, <1>2 DEF Contracted, Filed, Listed

(* So the document of an assembler that is filed is valid when its segment *)
(* ids are unique.                                                         *)
LEMMA FiledIsValid ==
  ASSUME NEW a, IsExact(a), Filed(a), UniqueIds(a.map)
  PROVE  IsValid(OnePage(a))
BY FiledIsContracted, ContractedIsValid DEF IsExact

(* A plain text is one segment.                                            *)
LEMMA PlainIsValid ==
  ASSUME NEW text \in Text \ {<<>>}, NEW map,
         map = <<[id |-> <<"source">>, kind |-> "source",
                  range |-> Page(0, Len(text), 0, ByteLen(text))]>>
  PROVE  IsValid(OnePage([Empty EXCEPT !.text = text, !.map = map]))
<1> DEFINE a == [Empty EXCEPT !.text = text, !.map = map]
           b == [Empty EXCEPT !.text = text, !.map = map,
                              !.char = Len(text), !.byte = ByteLen(text)]
           range == Page(0, Len(text), 0, ByteLen(text))
<1>1. /\ Len(text) \in Nat /\ ByteLen(text) \in Nat /\ Len(text) > 0 /\ ByteLen(text) > 0
  BY BytesAreMany DEF Text
<1>2. /\ Len(map) = 1 /\ DOMAIN map = {1} /\ map[1].range = range /\ map # <<>>
  OBVIOUS
<1>3. range.sc = 0 /\ range.ec = Len(text) /\ range.sb = 0 /\ range.eb = ByteLen(text)
  BY DEF Page
<1> HIDE DEF range
<1>4. /\ b.text = text /\ b.map = map /\ b.char = Len(text) /\ b.byte = ByteLen(text)
      /\ b.layout = <<>> /\ b.tables = <<>>
  BY DEF Empty
<1>5. OnePage(b) = OnePage(a)
  BY DEF OnePage, Empty
<1> HIDE DEF a, b
<1>6. Covers(b)
  BY <1>1, <1>2, <1>3, <1>4 DEF Covers, IsRange
<1>7. UniqueIds(b.map) /\ IsSequence(b.map)
  BY <1>2, <1>4 DEF UniqueIds, IsSequence
<1>8. Contracted(b)
  BY <1>1, <1>4, <1>6, <1>7 DEF Contracted, UniqueIds, IsSequence
<1>9. IsValid(OnePage(b))
  BY <1>8, ContractedIsValid
<1>10. QED
  BY <1>5, <1>9 DEF a

(* A segment with a new id, in an assembler without spans.                 *)
Bare(a, ids) ==
  IsExact(a) /\ Filed(a) /\ Named(a, ids) /\ a.layout = <<>> /\ a.tables = <<>>

(* It stays so with the segment, and the new id is the only one it gains.  *)
LEMMA SegmentsAreFiled ==
  ASSUME NEW a, NEW ids, Bare(a, ids), NEW text \in Text \ {<<>>},
         NEW id \in SegmentId, id \notin ids, NEW kind \in SegmentKind,
         NEW b, b = AddSegment(a, text, id, kind)
  PROVE  Bare(b, ids \cup {id})
<1>1. PICK s \in Text : a \in ExactOn(s)
  BY DEF Bare, IsExact
<1>2. Files(a, b, text, id)
  BY <1>1, SegmentsFile
<1>3. Appends(a, b, text, id)
  BY <1>2 DEF Files
<1>4. Named(b, ids \cup {id})
  BY <1>1, <1>3, NamesGrow DEF Bare
<1>5. QED
  BY <1>2, <1>4 DEF Bare, Files, Filed, IsExact

(* The ids of the first headers.                                           *)
HeaderTag == {"header-label", "header-value", "header-separator"}
HeaderIds(i) == {x \in SegmentId : x[1] \in HeaderTag /\ x[2] \in 1 .. i}

(* A header adds three segments with ids of its own (email.py:155).        *)
LEMMA OneHeaderIsFiled ==
  ASSUME NEW i \in Nat, i >= 1, NEW a, Bare(a, HeaderIds(i - 1)),
         NEW value \in Text \ {<<>>}, NEW separator \in Text \ {<<>>},
         NEW b, b = AddHeader(a, i, value, separator)
  PROVE  Bare(b, HeaderIds(i))
<1> DEFINE before == HeaderIds(i - 1)
           x == <<"header-label", i>>
           y == <<"header-value", i>>
           z == <<"header-separator", i>>
           labelled == AddSegment(a, HeaderLabel, x, "generated")
           valued == AddSegment(labelled, value, y, "unmapped")
<1>1. /\ x \in SegmentId /\ y \in SegmentId /\ z \in SegmentId
      /\ "generated" \in SegmentKind /\ "unmapped" \in SegmentKind
  BY DEF SegmentId, SegmentTag, SegmentKind
<1>2. /\ x[1] = "header-label" /\ y[1] = "header-value" /\ z[1] = "header-separator"
      /\ x[2] = i /\ y[2] = i /\ z[2] = i
  OBVIOUS
<1>3. b = AddSegment(valued, separator, z, "generated")
  BY DEF AddHeader
<1>4. HeaderLabel \in Text \ {<<>>}
  <2>1. (CHOOSE l \in Plain : TRUE) \in Plain
    BY InputAssumption
  <2>2. QED
    BY <2>1 DEF HeaderLabel, Text, Letter, Blank
<1> HIDE DEF x, y, z
<1>5. /\ x \notin before /\ y \notin before \cup {x} /\ z \notin before \cup {x} \cup {y}
      /\ before \cup {x} \cup {y} \cup {z} \subseteq HeaderIds(i)
  <2>1. i \notin 1 .. i - 1 /\ i \in 1 .. i /\ \A k \in 1 .. i - 1 : k \in 1 .. i
    OBVIOUS
  <2>2. x \notin before /\ y \notin before /\ z \notin before
    BY <1>2, <2>1 DEF HeaderIds
  <2>3. x # y /\ x # z /\ y # z
    BY <1>2
  <2>4. x \in HeaderIds(i) /\ y \in HeaderIds(i) /\ z \in HeaderIds(i)
    BY <1>1, <1>2, <2>1 DEF HeaderIds, HeaderTag
  <2>5. before \subseteq HeaderIds(i)
    BY <2>1 DEF HeaderIds
  <2>6. QED
    BY <2>2, <2>3, <2>4, <2>5
<1> DEFINE one == before \cup {x}
           two == one \cup {y}
           three == two \cup {z}
<1>6. Bare(labelled, one)
  <2> HIDE DEF before
  <2>1. Bare(a, before)
    BY DEF before
  <2>2. QED
    BY <1>1, <1>4, <1>5, <2>1, SegmentsAreFiled
<1> HIDE DEF one, labelled
<1>7. Bare(valued, two)
  BY <1>1, <1>5, <1>6, SegmentsAreFiled DEF one
<1> HIDE DEF valued, two
<1>8. Bare(b, three)
  BY <1>1, <1>3, <1>5, <1>7, SegmentsAreFiled DEF one, two
<1>9. three \subseteq HeaderIds(i)
  BY <1>5 DEF two, one
<1> HIDE DEF three
<1>10. QED
  BY <1>8, <1>9, NamesStay DEF Bare

(* So do all headers, one after the other.                                 *)
LEMMA HeadersAreFiled ==
  ASSUME NEW values \in Seq(Text \ {<<>>})
  PROVE  Bare(WithHeaders(values), HeaderIds(Len(values)))
<1> DEFINE n == Len(values)
<1>1. n \in Nat /\ values \in Seq(Text) /\ \A i \in 1 .. n : values[i] \in Text \ {<<>>}
  <2>1. Text \ {<<>>} \subseteq Text
    OBVIOUS
  <2>2. QED
    BY <2>1, MembersStay
<1>2. PICK f : HeadersFollow(f, values) /\ WithHeaders(values) = f[n]
  BY <1>1, HeadersAreAdded
<1> DEFINE T == {i \in 0 .. n : Bare(f[i], HeaderIds(i))}
<1>3. 0 \in T
  <2>1. f[0] = Empty
    BY <1>2 DEF HeadersFollow
  <2>2. Empty.layout = <<>> /\ Empty.tables = <<>>
    BY DEF Empty
  <2>3. Named(Empty, HeaderIds(0))
    BY EmptyIsFiled, NamesStay
  <2>4. Bare(Empty, HeaderIds(0))
    BY <2>2, <2>3, EmptyIsFiled, EmptyIsExact DEF Bare, IsExact
  <2>5. QED
    BY <1>1, <2>1, <2>4
<1>4. ASSUME NEW i \in 1 .. n, i - 1 \in T PROVE i \in T
  <2>1. i \in Nat /\ i >= 1 /\ i \in 0 .. n
    BY <1>1
  <2>2. Bare(f[i - 1], HeaderIds(i - 1))
    BY <1>4
  <2>3. f[i] = AddHeader(f[i - 1], i, values[i], HeaderSeparator(values, i))
    BY <1>2 DEF HeadersFollow
  <2>4. HeaderSeparator(values, i) \in Text \ {<<>>}
    <3>1. NewLine \in Letter
      BY DEF Letter, Blank
    <3>2. /\ <<NewLine, NewLine>> \in Seq(Letter) /\ <<NewLine>> \in Seq(Letter)
          /\ <<NewLine, NewLine>> # <<>> /\ <<NewLine>> # <<>>
      BY <3>1
    <3>3. QED
      BY <3>2 DEF Text, HeaderSeparator
  <2>5. Bare(f[i], HeaderIds(i))
    BY <1>1, <2>1, <2>2, <2>3, <2>4, OneHeaderIsFiled
  <2>6. QED
    BY <2>1, <2>5
<1> HIDE DEF T
<1>5. n \in T
  <2>1. n \in 0 .. n
    BY <1>1
  <2> HIDE DEF n
  <2>2. QED
    BY <1>1, <1>3, <1>4, <2>1, Reaches
<1>6. QED
  BY <1>2, <1>5 DEF T, n

(* An email with a plain body.                                             *)
LEMMA PlainEmailIsValid ==
  ASSUME NEW values \in Seq(Text \ {<<>>}), NEW body \in Text \ {<<>>}
  PROVE  IsValid(OnePage(AddSegment(WithHeaders(values), body, <<"body">>, "unmapped")))
<1> DEFINE h == WithHeaders(values)
           id == <<"body">>
           ids == HeaderIds(Len(values))
           b == AddSegment(h, body, id, "unmapped")
<1>1. Bare(h, ids)
  BY HeadersAreFiled
<1>2. id \in SegmentId /\ "unmapped" \in SegmentKind /\ id[1] = "body"
  BY DEF SegmentId, SegmentKind
<1> HIDE DEF id, h
<1>3. id \notin ids
  BY <1>2 DEF HeaderIds, HeaderTag
<1> HIDE DEF ids
<1>4. Bare(b, ids \cup {id})
  BY <1>1, <1>2, <1>3, SegmentsAreFiled
<1> HIDE DEF b
<1>5. IsValid(OnePage(b))
  BY <1>4, FiledIsValid DEF Bare, Named
<1>6. QED
  BY <1>5 DEF b, h, id

-----------------------------------------------------------------------------
(* The body of an email behind its headers                                 *)

MovedTo(h, x, y) == y.id = <<"email-body", x.id>> /\ y.range = Moved(x.range, h)

(* A range of the body moves by what the headers take (email.py:342).      *)
LEMMA RangesMove ==
  ASSUME NEW h, h.char \in Nat, h.byte \in Nat, NEW r \in TextRange, NEW q, q = Moved(r, h)
  PROVE  /\ q \in TextRange
         /\ q.sc = r.sc + h.char /\ q.ec = r.ec + h.char
         /\ q.sb = r.sb + h.byte /\ q.eb = r.eb + h.byte
<1>1. r.sc \in Nat /\ r.ec \in Nat /\ r.sb \in Nat /\ r.eb \in Nat
  BY DEF TextRange
<1>2. q = [sc |-> r.sc + h.char, ec |-> r.ec + h.char, sb |-> r.sb + h.byte, eb |-> r.eb + h.byte]
  BY DEF Moved, Shift
<1>3. QED
  BY <1>1, <1>2 DEF TextRange

(* A range of the body is within the email, as the body is.                *)
Behinds(h, a, b) ==
  /\ h.char \in Nat /\ h.byte \in Nat /\ a.char \in Nat /\ a.byte \in Nat
  /\ b.char = h.char + a.char /\ b.byte = h.byte + a.byte

(* A range within the body is within the email when it has moved.          *)
LEMMA WithinMoves ==
  ASSUME NEW h, NEW a, NEW b, Behinds(h, a, b), NEW r, Within(a, r), NEW q, q = Moved(r, h)
  PROVE  Within(b, q)
<1>1. r \in TextRange /\ IsRange(r) /\ r.ec <= a.char /\ r.eb <= a.byte
  BY DEF Within
<1>2. /\ q \in TextRange
      /\ q.sc = r.sc + h.char /\ q.ec = r.ec + h.char
      /\ q.sb = r.sb + h.byte /\ q.eb = r.eb + h.byte
  BY <1>1, RangesMove DEF Behinds
<1>3. r.sc \in Nat /\ r.ec \in Nat /\ r.sb \in Nat /\ r.eb \in Nat
  BY <1>1 DEF TextRange
<1> DEFINE c == h.char
           y == h.byte
<1>4. c \in Nat /\ y \in Nat /\ a.char \in Nat /\ a.byte \in Nat
      /\ b.char = c + a.char /\ b.byte = y + a.byte
  BY DEF Behinds
<1>5. q.sc < q.ec /\ q.sb < q.eb
  BY <1>1, <1>2, <1>3, <1>4 DEF IsRange
<1>6. q.ec <= b.char /\ q.eb <= b.byte
  BY <1>1, <1>2, <1>3, <1>4
<1>7. QED
  BY <1>2, <1>5, <1>6 DEF Within, IsRange

(* Ids that are prefixed stay unique.                                      *)
LEMMA UniqueMoves ==
  ASSUME NEW h, NEW f, IsSequence(f), UniqueIds(f), NEW g, IsSequence(g), Len(g) = Len(f),
         \A i \in 1 .. Len(f) : g[i].id = <<"email-body", f[i].id>>
  PROVE  UniqueIds(g)
<1>1. ASSUME NEW i \in DOMAIN g, NEW j \in DOMAIN g, g[i].id = g[j].id PROVE i = j
  <2> DEFINE x == <<"email-body", f[i].id>>
             y == <<"email-body", f[j].id>>
  <2>1. i \in 1 .. Len(f) /\ j \in 1 .. Len(f) /\ x = y
    BY <1>1 DEF IsSequence
  <2>2. x[2] = f[i].id /\ y[2] = f[j].id
    OBVIOUS
  <2>3. f[i].id = f[j].id
    BY <2>1, <2>2
  <2>4. QED
    BY <2>1, <2>3 DEF UniqueIds, IsSequence
<1>2. QED
  BY <1>1 DEF UniqueIds

Joined(g, f, r, n, m) ==
  /\ n \in Nat /\ m \in Nat /\ Len(g) = n + m
  /\ \A k \in 1 .. n : g[k] = f[k]
  /\ \A k \in n + 1 .. n + m : g[k] = r[k - n]
  /\ (g = <<>> <=> n + m = 0) /\ (f = <<>> <=> n = 0)

(* The entries of two sequences that are joined.                           *)
LEMMA JoinedEntries ==
  ASSUME NEW X, NEW f \in Seq(X), NEW r \in Seq(X), NEW g, g = f \o r,
         NEW n, n = Len(f), NEW m, m = Len(r)
  PROVE  Joined(g, f, r, n, m)
<1>1. n \in Nat /\ m \in Nat /\ Len(g) = n + m
  OBVIOUS
<1>2. \A k \in 1 .. n : g[k] = f[k]
  OBVIOUS
<1>3. \A k \in n + 1 .. n + m : g[k] = r[k - n]
  OBVIOUS
<1>4. (g = <<>> <=> n + m = 0) /\ (f = <<>> <=> n = 0)
  <2>1. g \in Seq(X)
    OBVIOUS
  <2>2. (g = <<>> <=> Len(g) = 0) /\ (f = <<>> <=> Len(f) = 0)
    BY <2>1, EmptySeq
  <2>3. QED
    BY <1>1, <2>2
<1>5. QED
  BY <1>1, <1>2, <1>3, <1>4 DEF Joined

(* The source map of the body continues that of the headers.               *)
LEMMA MapsContinue ==
  ASSUME NEW h, NEW a, NEW b, Behinds(h, a, b), Covers(h), Covers(a),
         NEW X, h.map \in Seq(X), \A i \in 1 .. Len(h.map) : h.map[i].range \in TextRange,
         NEW Y, a.map \in Seq(Y), \A i \in 1 .. Len(a.map) : a.map[i].range \in TextRange,
         NEW more \in Seq(X), Len(more) = Len(a.map),
         \A i \in 1 .. Len(a.map) : MovedTo(h, a.map[i], more[i]),
         b.map = h.map \o more
  PROVE  Covers(b)
<1> DEFINE f == h.map
           g == b.map
           n == Len(f)
           m == Len(more)
           c == h.char
           y == h.byte
<1>1. /\ n \in Nat /\ m \in Nat /\ Len(g) = n + m
      /\ \A k \in 1 .. n : g[k] = f[k]
      /\ \A k \in n + 1 .. n + m : g[k] = more[k - n]
      /\ (g = <<>> <=> n + m = 0) /\ (f = <<>> <=> n = 0)
  <2>1. Joined(g, f, more, n, m)
    BY JoinedEntries
  <2>2. QED
    BY <2>1 DEF Joined
<1>2. a.map = <<>> <=> m = 0
  OBVIOUS
<1>3. /\ c \in Nat /\ y \in Nat /\ a.char \in Nat /\ a.byte \in Nat
      /\ b.char = c + a.char /\ b.byte = y + a.byte
  BY DEF Behinds
<1>4. IF n = 0 THEN c = 0 /\ y = 0 ELSE c = f[n].range.ec /\ y = f[n].range.eb
  BY <1>1 DEF Covers
<1>5. IF m = 0 THEN a.char = 0 /\ a.byte = 0
      ELSE a.char = a.map[m].range.ec /\ a.byte = a.map[m].range.eb
  BY <1>2 DEF Covers
<1>6. \A i \in 1 .. n :
         /\ f[i].range \in TextRange
         /\ IsRange(f[i].range) /\ f[i].range.ec <= c /\ f[i].range.eb <= y
         /\ f[i].range.sc = IF i = 1 THEN 0 ELSE f[i - 1].range.ec
         /\ f[i].range.sb = IF i = 1 THEN 0 ELSE f[i - 1].range.eb
  BY DEF Covers
<1>7. ASSUME NEW i \in 1 .. m
      PROVE  /\ IsRange(more[i].range) /\ more[i].range.ec <= b.char /\ more[i].range.eb <= b.byte
             /\ more[i].range.sc = IF i = 1 THEN c ELSE more[i - 1].range.ec
             /\ more[i].range.sb = IF i = 1 THEN y ELSE more[i - 1].range.eb
             /\ more[i].range.ec = a.map[i].range.ec + c /\ more[i].range.eb = a.map[i].range.eb + y
  <2> DEFINE r == a.map[i].range
             q == more[i].range
             p == a.map[i - 1].range
             o == more[i - 1].range
  <2>1. /\ r \in TextRange /\ IsRange(r) /\ r.ec <= a.char /\ r.eb <= a.byte
        /\ r.sc = IF i = 1 THEN 0 ELSE p.ec
        /\ r.sb = IF i = 1 THEN 0 ELSE p.eb
    BY DEF Covers
  <2>2. q = Moved(r, h)
    BY DEF MovedTo
  <2>3. i # 1 => p \in TextRange /\ o = Moved(p, h)
    <3>1. ASSUME i # 1 PROVE i - 1 \in 1 .. m
      BY <3>1
    <3>2. QED
      BY <3>1 DEF MovedTo
  <2> HIDE DEF r, q, p, o
  <2>4. Within(a, r)
    BY <2>1 DEF Within
  <2>5. Within(b, q)
    BY <2>2, <2>4, WithinMoves
  <2>6. /\ q.sc = r.sc + c /\ q.ec = r.ec + c /\ q.sb = r.sb + y /\ q.eb = r.eb + y
    BY <2>1, <2>2, <1>3, RangesMove
  <2>7. i # 1 => o.ec = p.ec + c /\ o.eb = p.eb + y
    BY <2>3, <1>3, RangesMove
  <2>8. q.sc = IF i = 1 THEN c ELSE o.ec
    BY <1>3, <2>1, <2>6, <2>7
  <2>9. q.sb = IF i = 1 THEN y ELSE o.eb
    BY <1>3, <2>1, <2>6, <2>7
  <2>10. QED
    BY <2>5, <2>6, <2>8, <2>9 DEF Within, q, o, r
<1> HIDE DEF f, g, n, m, c, y
<1>8. ASSUME NEW i \in 1 .. n + m
      PROVE  /\ IsRange(g[i].range) /\ g[i].range.ec <= b.char /\ g[i].range.eb <= b.byte
             /\ g[i].range.sc = IF i = 1 THEN 0 ELSE g[i - 1].range.ec
             /\ g[i].range.sb = IF i = 1 THEN 0 ELSE g[i - 1].range.eb
  <2>1. CASE i \in 1 .. n
    <3>1. g[i] = f[i] /\ (i # 1 => g[i - 1] = f[i - 1])
      <4>1. ASSUME i # 1 PROVE i - 1 \in 1 .. n
        BY <1>1, <2>1, <4>1
      <4>2. QED
        BY <1>1, <2>1, <4>1
    <3>3. f[i].range.ec <= b.char /\ f[i].range.eb <= b.byte
      <4> DEFINE e == f[i].range.ec
                 l == f[i].range.eb
      <4>1. e \in Nat /\ l \in Nat /\ e <= c /\ l <= y
        BY <1>6, <2>1 DEF TextRange
      <4> HIDE DEF e, l
      <4>2. e <= b.char /\ l <= b.byte
        BY <1>3, <4>1
      <4>3. QED
        BY <4>2 DEF e, l
    <3>4. QED
      BY <1>6, <2>1, <3>1, <3>3
  <2>2. CASE i = n + 1
    <3>1. 1 \in 1 .. m /\ i - n = 1 /\ g[i] = more[1] /\ i \in n + 1 .. n + m
      BY <1>1, <2>2
    <3>2. /\ IsRange(g[i].range) /\ g[i].range.ec <= b.char /\ g[i].range.eb <= b.byte
          /\ g[i].range.sc = c /\ g[i].range.sb = y
      BY <1>7, <3>1
    <3>3. CASE n = 0
      BY <1>4, <2>2, <3>2, <3>3
    <3>4. CASE n # 0
      <4>1. i # 1 /\ i - 1 = n /\ n \in 1 .. n
        <5>1. n \in Nat
          BY <1>1
        <5>2. QED
          BY <5>1, <2>2, <3>4
      <4>2. g[i - 1] = f[n]
        BY <1>1, <4>1
      <4>3. QED
        BY <1>4, <3>2, <3>4, <4>1, <4>2
    <3>5. QED
      BY <3>3, <3>4
  <2>3. CASE i \in n + 2 .. n + m
    <3> DEFINE j == i - n
    <3>1. j \in 1 .. m /\ j # 1 /\ j - 1 = (i - 1) - n /\ i # 1
          /\ i \in n + 1 .. n + m /\ i - 1 \in n + 1 .. n + m
      BY <1>1, <2>3
    <3>2. g[i] = more[j] /\ g[i - 1] = more[j - 1]
      BY <1>1, <3>1
    <3> HIDE DEF j
    <3>3. QED
      BY <1>7, <3>1, <3>2
  <2>4. QED
    BY <1>1, <2>1, <2>2, <2>3
<1>9. /\ b.char = IF g = <<>> THEN 0 ELSE g[n + m].range.ec
      /\ b.byte = IF g = <<>> THEN 0 ELSE g[n + m].range.eb
  <2>1. CASE m = 0
    <3>1. b.char = c /\ b.byte = y /\ n + m = n
      BY <1>1, <1>3, <1>5, <2>1
    <3>2. CASE n = 0
      BY <1>1, <1>4, <2>1, <3>1, <3>2
    <3>3. CASE n # 0
      <4>1. n \in 1 .. n /\ g # <<>> /\ g[n + m] = f[n]
        BY <1>1, <2>1, <3>3
      <4>2. QED
        BY <1>4, <3>1, <3>3, <4>1
    <3>4. QED
      BY <3>2, <3>3
  <2>2. CASE m # 0
    <3>1. m \in 1 .. m /\ n + m \in n + 1 .. n + m /\ (n + m) - n = m /\ n + m # 0
      BY <1>1, <2>2
    <3>2. g[n + m] = more[m] /\ g # <<>>
      BY <1>1, <3>1
    <3>3. more[m].range.ec = a.map[m].range.ec + c /\ more[m].range.eb = a.map[m].range.eb + y
      BY <1>7, <3>1
    <3>4. QED
      BY <1>3, <1>5, <2>2, <3>2, <3>3
  <2>3. QED
    BY <2>1, <2>2
<1>10. QED
  BY <1>1, <1>8, <1>9, Zenon DEF Covers, g

(* A span of the body moves with its range and its id, and is the same     *)
(* otherwise.                                                              *)
LEMMA EntriesMove ==
  ASSUME NEW h, NEW x, "range" \in DOMAIN x, "id" \in DOMAIN x, NEW y,
         y = [[x EXCEPT !.range = Moved(@, h)] EXCEPT !.id = <<"email-body", @>>]
  PROVE  /\ MovedTo(h, x, y) /\ DOMAIN y = DOMAIN x
         /\ \A field \in DOMAIN x : field \notin {"range", "id"} => y[field] = x[field]
<1> DEFINE r == Moved(x.range, h)
<1>1. y = [[x EXCEPT !.range = r] EXCEPT !.id = <<"email-body", @>>]
  OBVIOUS
<1> HIDE DEF r
<1>2. y.range = r /\ y.id = <<"email-body", x.id>> /\ DOMAIN y = DOMAIN x
  BY <1>1
<1>3. \A field \in DOMAIN x : field \notin {"range", "id"} => y[field] = x[field]
  BY <1>1
<1>4. QED
  BY <1>2, <1>3 DEF MovedTo, r

(* A table stays filed when it moves with its cells.                       *)
LEMMA TablesMove ==
  ASSUME NEW h, NEW a, NEW b, Behinds(h, a, b), NEW t, NEW x \in TableOn(t), TableIsFiled(a, x),
         NEW y, MovedTo(h, x, y), y.page = x.page, DOMAIN y = DOMAIN x, NEW z,
         z = [y EXCEPT !.cells = [c \in DOMAIN x.cells |->
                                    [x.cells[c] EXCEPT !.range = Moved(@, h)]]]
  PROVE  TableIsFiled(b, z) /\ z.id = <<"email-body", x.id>>
<1> DEFINE f == x.cells
           g == [c \in DOMAIN f |-> [f[c] EXCEPT !.range = Moved(@, h)]]
           n == Len(f)
<1>1. f \in Seq(CellOn(t)) /\ "cells" \in DOMAIN x /\ "id" \in DOMAIN x /\ "range" \in DOMAIN x
      /\ "page" \in DOMAIN x /\ x.range \in TextRange
  <2> DEFINE S == Seq(CellOn(t))
  <2>1. x \in [id : SpanId, page : Nat, range : TextRange, cells : S]
    BY DEF TableOn
  <2> HIDE DEF S
  <2>2. x.cells \in S /\ "cells" \in DOMAIN x /\ "id" \in DOMAIN x /\ "range" \in DOMAIN x
        /\ "page" \in DOMAIN x /\ x.range \in TextRange
    BY <2>1
  <2>3. QED
    BY <2>2 DEF S
<1>2. n \in Nat /\ DOMAIN f = 1 .. n /\ \A c \in 1 .. n : f[c] \in CellOn(t)
  BY <1>1
<1>3. f # <<>> /\ CellsAreApart(f)
      /\ \A c \in 1 .. n : Within(a, f[c].range) /\ CellIsWithin(x, f[c])
  BY <1>2 DEF TableIsFiled, ToSet
<1>4. z = [y EXCEPT !.cells = g]
  OBVIOUS
<1> HIDE DEF g
<1>5. z.cells = g /\ z.range = y.range /\ z.id = y.id /\ z.page = y.page
  BY <1>1, <1>4
<1>6. DOMAIN g = 1 .. n /\ Len(g) = n
  BY <1>2 DEF g
<1>7. ASSUME NEW c \in 1 .. n
      PROVE  /\ g[c].row = f[c].row /\ g[c].column = f[c].column
             /\ g[c].range = Moved(f[c].range, h)
  <2> DEFINE u == f[c]
             r == Moved(u.range, h)
  <2>1. g[c] = [u EXCEPT !.range = r]
    BY <1>2 DEF g
  <2>2. u \in [row : Nat, column : Nat, range : TextRange, of : Text]
    BY <1>2 DEF CellOn
  <2> HIDE DEF u, r, f
  <2>3. g[c].row = u.row /\ g[c].column = u.column /\ g[c].range = r
    BY <2>1, <2>2
  <2>4. QED
    BY <2>3 DEF u, r
<1> HIDE DEF f, n
<1>8. CellsAreApart(g)
  BY <1>2, <1>3, <1>6, <1>7 DEF CellsAreApart
<1>9. g # <<>>
  <2>1. 1 \in 1 .. n
    BY <1>1, <1>2, <1>3 DEF n
  <2>2. QED
    BY <1>6, <2>1
<1>10. Within(b, z.range) /\ z.page = 1 /\ z.range = Moved(x.range, h)
  BY <1>5, WithinMoves DEF TableIsFiled, MovedTo
<1>11. ASSUME NEW c \in 1 .. n PROVE Within(b, g[c].range) /\ CellIsWithin(z, g[c])
  <2> DEFINE r == f[c].range
             q == g[c].range
             o == x.range
             p == z.range
             u == h.char
             v == h.byte
  <2>1. Within(a, r) /\ q = Moved(r, h) /\ p = Moved(o, h) /\ o \in TextRange /\ r \in TextRange
    BY <1>1, <1>3, <1>7, <1>10 DEF Within
  <2>2. o.sc <= r.sc /\ r.ec <= o.ec /\ o.sb <= r.sb /\ r.eb <= o.eb
    BY <1>3 DEF CellIsWithin
  <2>3. u \in Nat /\ v \in Nat
    BY DEF Behinds
  <2> HIDE DEF r, q, o, p
  <2>4. Within(b, q)
    BY <2>1, WithinMoves
  <2>5. /\ q.sc = r.sc + u /\ q.ec = r.ec + u /\ q.sb = r.sb + v /\ q.eb = r.eb + v
    BY <2>1, <2>3, RangesMove
  <2>6. /\ p.sc = o.sc + u /\ p.ec = o.ec + u /\ p.sb = o.sb + v /\ p.eb = o.eb + v
    BY <2>1, <2>3, RangesMove
  <2>7. /\ r.sc \in Nat /\ r.ec \in Nat /\ r.sb \in Nat /\ r.eb \in Nat
        /\ o.sc \in Nat /\ o.ec \in Nat /\ o.sb \in Nat /\ o.eb \in Nat
    BY <2>1 DEF TextRange
  <2> HIDE DEF u, v
  <2>8. p.sc <= q.sc /\ q.ec <= p.ec
    BY <2>2, <2>3, <2>5, <2>6, <2>7
  <2>9. p.sb <= q.sb /\ q.eb <= p.eb
    BY <2>2, <2>3, <2>5, <2>6, <2>7
  <2>10. QED
    BY <2>4, <2>8, <2>9 DEF CellIsWithin, p, q
<1>12. ToSet(g) = {g[c] : c \in 1 .. n}
  BY <1>6 DEF ToSet
<1>13. QED
  <2>1. \A c \in ToSet(g) : Within(b, c.range) /\ CellIsWithin(z, c)
    BY <1>11, <1>12
  <2>2. TableIsFiled(b, z)
    BY <1>5, <1>8, <1>9, <1>10, <2>1 DEF TableIsFiled
  <2>3. z.id = <<"email-body", x.id>>
    BY <1>5 DEF MovedTo
  <2>4. QED
    BY <2>2, <2>3

(* _append_html_body: what was filed for the body is filed for the email.  *)
LEMMA ImportedIsContracted ==
  ASSUME NEW h, NEW a, IsExact(h), IsExact(a), Covers(h), Filed(a), UniqueIds(a.map),
         NEW i, Named(h, HeaderIds(i))
  PROVE  Contracted(Imported(h, a))
<1>1. PICK s \in Text, t \in Text : h \in ExactOn(s) /\ a \in ExactOn(t)
  BY DEF IsExact
<1> DEFINE ranged(x) == [x EXCEPT !.range = Moved(@, h)]
           apart(x) == [ranged(x) EXCEPT !.id = <<"email-body", @>>]
           tabled(x) == [apart(x) EXCEPT !.cells = [c \in DOMAIN @ |-> ranged(@[c])]]
           more == [k \in DOMAIN a.map |-> apart(a.map[k])]
           b == Imported(h, a)
           f == a.layout
           g == a.tables
<1>2. /\ h.text = s /\ a.text = t /\ h.char = Len(s) /\ a.char = Len(t)
      /\ h.byte = ByteLen(s) /\ a.byte = ByteLen(t)
      /\ h.map \in Seq(Segment) /\ a.map \in Seq(Segment)
      /\ f \in Seq(SpanOn(t)) /\ g \in Seq(TableOn(t))
  BY <1>1, Zenon DEF ExactOn
<1>3. /\ b.text = s \o t /\ b.map = h.map \o more
      /\ b.char = h.char + Len(t) /\ b.byte = h.byte + ByteLen(t)
      /\ b.layout = [k \in DOMAIN f |-> apart(f[k])]
      /\ b.tables = [k \in DOMAIN g |-> tabled(g[k])]
  BY <1>2, Zenon DEF Imported
<1> HIDE DEF b
<1>4. /\ Len(s) \in Nat /\ Len(t) \in Nat /\ ByteLen(s) \in Nat /\ ByteLen(t) \in Nat
      /\ Len(s \o t) = Len(s) + Len(t) /\ ByteLen(s \o t) = ByteLen(s) + ByteLen(t)
  BY TextsJoin, BytesAddUp, BytesAreMany DEF Then
<1>5. Behinds(h, a, b)
  BY <1>2, <1>3, <1>4 DEF Behinds
<1>6. b.char = Len(b.text) /\ b.byte = ByteLen(b.text) /\ b.char \in Nat /\ b.byte \in Nat
  <2> DEFINE u == s \o t
             c == Len(s)
             d == Len(t)
             y == ByteLen(s)
             z == ByteLen(t)
  <2>1. /\ b.text = u /\ b.char = c + d /\ b.byte = y + z
        /\ Len(u) = c + d /\ ByteLen(u) = y + z
        /\ c \in Nat /\ d \in Nat /\ y \in Nat /\ z \in Nat
    BY <1>2, <1>3, <1>4
  <2> HIDE DEF u, c, d, y, z
  <2>2. QED
    BY <2>1
<1>7. ASSUME NEW k \in 1 .. Len(a.map) PROVE MovedTo(h, a.map[k], apart(a.map[k]))
  <2>1. a.map[k] \in Segment
    BY <1>2
  <2>2. "range" \in DOMAIN a.map[k] /\ "id" \in DOMAIN a.map[k]
    BY <2>1 DEF Segment
  <2>3. QED
    BY <2>2, EntriesMove
<1> HIDE DEF apart
<1> DEFINE X == {apart(x) : x \in Segment} \cup Segment
<1>8. /\ more \in Seq(X) /\ Len(more) = Len(a.map) /\ IsSequence(more) /\ IsSequence(a.map)
      /\ \A k \in 1 .. Len(a.map) : more[k] = apart(a.map[k])
  <2>1. Len(a.map) \in Nat /\ DOMAIN a.map = 1 .. Len(a.map)
        /\ \A k \in 1 .. Len(a.map) : a.map[k] \in Segment
    BY <1>2
  <2>2. more \in [1 .. Len(a.map) -> X]
    BY <2>1
  <2> HIDE DEF X, more
  <2>3. more \in Seq(X) /\ Len(more) = Len(a.map)
    BY <2>1, <2>2, FunctionsAreSequences
  <2>4. QED
    BY <2>1, <2>2, <2>3 DEF IsSequence, more
<1> HIDE DEF more
<1>9. h.map \in Seq(X)
  <2>1. Segment \subseteq X
    OBVIOUS
  <2> HIDE DEF X
  <2>2. QED
    BY <1>2, <2>1, MembersStay
<1> HIDE DEF X
<1>10. Covers(b)
  <2>1. /\ \A k \in 1 .. Len(h.map) : h.map[k].range \in TextRange
        /\ \A k \in 1 .. Len(a.map) : a.map[k].range \in TextRange
    <3>1. \A x \in Segment : x.range \in TextRange
      BY DEF Segment
    <3>2. /\ \A k \in 1 .. Len(h.map) : h.map[k] \in Segment
          /\ \A k \in 1 .. Len(a.map) : a.map[k] \in Segment
      BY <1>2
    <3>3. QED
      BY <3>1, <3>2
  <2>2. \A k \in 1 .. Len(a.map) : MovedTo(h, a.map[k], more[k])
    BY <1>7, <1>8
  <2>3. QED
    BY <1>2, <1>3, <1>5, <1>8, <1>9, <2>1, <2>2, MapsContinue DEF Filed
<1>11. UniqueIds(b.map) /\ IsSequence(b.map)
  <2>1. \A k \in 1 .. Len(a.map) : more[k].id = <<"email-body", a.map[k].id>>
    BY <1>7, <1>8 DEF MovedTo
  <2>2. UniqueIds(more)
    BY <1>8, <2>1, UniqueMoves
  <2>3. ASSUME NEW k \in 1 .. Len(h.map), NEW l \in 1 .. Len(more)
        PROVE  h.map[k].id # more[l].id
    <3>1. h.map[k].id[1] \in HeaderTag
      BY DEF Named, HeaderIds
    <3>2. more[l].id = <<"email-body", a.map[l].id>>
      BY <1>8, <2>1
    <3>3. more[l].id[1] = "email-body"
      BY <3>2
    <3>4. QED
      BY <3>1, <3>3 DEF HeaderTag
  <2>4. UniqueIds(h.map)
    BY DEF Named
  <2>5. UniqueIds(h.map \o more)
    BY <1>8, <1>9, <2>2, <2>3, <2>4, UniqueJoin
  <2>6. b.map \in Seq(X)
    BY <1>3, <1>8, <1>9
  <2>7. QED
    BY <1>3, <2>5, <2>6 DEF IsSequence
<1>12. /\ IsSequence(b.layout) /\ UniqueIds(b.layout)
       /\ \A k \in 1 .. Len(b.layout) : b.layout[k].page = 1 /\ Within(b, b.layout[k].range)
  <2> DEFINE n == Len(f)
             e == b.layout
  <2>1. n \in Nat /\ DOMAIN f = 1 .. n /\ \A k \in 1 .. n : f[k] \in SpanOn(t)
    BY <1>2
  <2>2. DOMAIN e = 1 .. n /\ Len(e) = n /\ \A k \in 1 .. n : e[k] = apart(f[k])
    BY <1>3, <2>1
  <2>3. UniqueIds(f) /\ \A k \in 1 .. n : f[k].page = 1 /\ Within(a, f[k].range)
    BY DEF Filed, Listed
  <2> HIDE DEF e, f, n
  <2>4. ASSUME NEW k \in 1 .. n
        PROVE  MovedTo(h, f[k], e[k]) /\ e[k].page = f[k].page
    <3> DEFINE x == f[k]
    <3>1. x \in [id : SpanId, page : Nat, role : Role, range : TextRange, of : Text]
      BY <2>1 DEF SpanOn
    <3> HIDE DEF x
    <3>2. "range" \in DOMAIN x /\ "id" \in DOMAIN x /\ "page" \in DOMAIN x
      BY <3>1
    <3>3. MovedTo(h, x, apart(x)) /\ apart(x).page = x.page
      BY <3>2, EntriesMove DEF apart
    <3>4. QED
      BY <2>2, <3>3 DEF x
  <2>5. ASSUME NEW k \in 1 .. n PROVE e[k].page = 1 /\ Within(b, e[k].range)
    <3>1. e[k].range = Moved(f[k].range, h) /\ e[k].page = 1
      BY <2>3, <2>4 DEF MovedTo
    <3>2. QED
      BY <1>5, <2>3, <3>1, WithinMoves
  <2>6. UniqueIds(e)
    <3>1. \A k \in 1 .. Len(f) : e[k].id = <<"email-body", f[k].id>>
      BY <2>4 DEF MovedTo, n
    <3>2. IsSequence(f) /\ IsSequence(e) /\ Len(e) = Len(f)
      BY <2>1, <2>2 DEF IsSequence, n
    <3>3. QED
      BY <2>3, <3>1, <3>2, UniqueMoves
  <2>7. QED
    BY <2>1, <2>2, <2>5, <2>6 DEF IsSequence, e
<1>13. /\ IsSequence(b.tables) /\ UniqueIds(b.tables)
       /\ \A k \in 1 .. Len(b.tables) : TableIsFiled(b, b.tables[k])
  <2> DEFINE n == Len(g)
             e == b.tables
  <2>1. n \in Nat /\ DOMAIN g = 1 .. n /\ \A k \in 1 .. n : g[k] \in TableOn(t)
    BY <1>2
  <2>2. DOMAIN e = 1 .. n /\ Len(e) = n /\ \A k \in 1 .. n : e[k] = tabled(g[k])
    BY <1>3, <2>1
  <2>3. UniqueIds(g) /\ \A k \in 1 .. n : TableIsFiled(a, g[k])
    BY DEF Filed, Listed
  <2> HIDE DEF e, g, n
  <2>4. ASSUME NEW k \in 1 .. n
        PROVE  TableIsFiled(b, e[k]) /\ e[k].id = <<"email-body", g[k].id>>
    <3> DEFINE x == g[k]
               y == apart(x)
               S == Seq(CellOn(t))
    <3>1. x \in TableOn(t) /\ x \in [id : SpanId, page : Nat, range : TextRange, cells : S]
      BY <2>1 DEF TableOn
    <3> HIDE DEF x, S
    <3>2. /\ "range" \in DOMAIN x /\ "id" \in DOMAIN x /\ "page" \in DOMAIN x
          /\ "cells" \in DOMAIN x
      BY <3>1
    <3>3. MovedTo(h, x, y) /\ y.page = x.page /\ DOMAIN y = DOMAIN x /\ y.cells = x.cells
      BY <3>2, EntriesMove DEF apart
    <3> DEFINE z == [y EXCEPT !.cells = [c \in DOMAIN x.cells |->
                                           [x.cells[c] EXCEPT !.range = Moved(@, h)]]]
    <3>4. e[k] = z
      <4> DEFINE cells == [c \in DOMAIN x.cells |-> [x.cells[c] EXCEPT !.range = Moved(@, h)]]
      <4> HIDE DEF y
      <4>1. tabled(x) = [y EXCEPT !.cells = cells]
        BY <3>3 DEF y
      <4>2. QED
        BY <2>2, <4>1 DEF x
    <3> HIDE DEF z, y
    <3>5. TableIsFiled(a, x)
      BY <2>3 DEF x
    <3>6. TableIsFiled(b, z) /\ z.id = <<"email-body", x.id>>
      BY <1>5, <3>1, <3>3, <3>5, TablesMove DEF z
    <3>7. QED
      BY <3>4, <3>6 DEF x
  <2>6. UniqueIds(e)
    <3>1. \A k \in 1 .. Len(g) : e[k].id = <<"email-body", g[k].id>>
      BY <2>4 DEF n
    <3>2. IsSequence(g) /\ IsSequence(e) /\ Len(e) = Len(g)
      BY <2>1, <2>2 DEF IsSequence, n
    <3>3. QED
      BY <2>3, <3>1, <3>2, UniqueMoves
  <2>7. QED
    BY <2>1, <2>2, <2>4, <2>6 DEF IsSequence, e
<1>14. Contracted(b)
  BY <1>6, <1>10, <1>11, <1>12, <1>13 DEF Contracted
<1>15. QED
  BY <1>14 DEF b

-----------------------------------------------------------------------------
(* The pages of a PDF, as the contract wants them                          *)

(* The ids of the segments of the first pages.                             *)
PageIds(i) == {x \in SegmentId : x[1] \in {"page-separator", "page"} /\ x[2] \in 1 .. i}

(* The joined pages: only segments, and every page behind the one before.  *)
PagesInOrder(acc, n) ==
  /\ Bare(acc.a, PageIds(n)) /\ acc.pages \in Seq(TextRange) /\ Len(acc.pages) = n
  /\ \A k \in 1 .. n :
       /\ acc.pages[k].ec <= acc.a.char /\ acc.pages[k].eb <= acc.a.byte
       /\ k > 1 => /\ acc.pages[k].sc >= acc.pages[k - 1].ec
                   /\ acc.pages[k].sb >= acc.pages[k - 1].eb

(* A segment of a page, or none.                                           *)
GoesOn(a, b, ids, more) ==
  /\ Bare(b, ids \cup more)
  /\ a.char \in Nat /\ b.char \in Nat /\ a.byte \in Nat /\ b.byte \in Nat
  /\ a.char <= b.char /\ a.byte <= b.byte

(* A new segment leaves the assembler bare and its counters as far or      *)
(* further.                                                                *)
LEMMA SegmentsGoOn ==
  ASSUME NEW a, NEW ids, Bare(a, ids), NEW text \in Text \ {<<>>},
         NEW id \in SegmentId, id \notin ids, NEW kind \in SegmentKind,
         NEW b, b = AddSegment(a, text, id, kind)
  PROVE  GoesOn(a, b, ids, {id})
<1>1. PICK s \in Text : a \in ExactOn(s)
  BY DEF Bare, IsExact
<1>2. Grows(a, b)
  BY <1>1, SegmentsFile DEF Files
<1>3. Bare(b, ids \cup {id})
  BY SegmentsAreFiled
<1>4. QED
  BY <1>2, <1>3 DEF GoesOn, Grows

(* No segment leaves it as it was.                                         *)
LEMMA NothingGoesOn ==
  ASSUME NEW a, NEW ids, Bare(a, ids), NEW more
  PROVE  GoesOn(a, a, ids, more)
<1>1. PICK s \in Text : a \in ExactOn(s)
  BY DEF Bare, IsExact
<1>2. a.char \in Nat /\ a.byte \in Nat
  BY <1>1, CountersAreNumbers
<1>3. Named(a, ids \cup more)
  BY NamesStay DEF Bare
<1>4. QED
  BY <1>2, <1>3 DEF GoesOn, Bare

(* _join_pages, one page: it is listed behind the pages before it.         *)
LEMMA PageIsInOrder ==
  ASSUME NEW i \in Nat, i >= 1, NEW text \in Text, NEW acc, PagesInOrder(acc, i - 1)
  PROVE  PagesInOrder(JoinPage(acc, i, text), i)
<1> DEFINE ids == PageIds(i - 1)
           x == <<"page-separator", i>>
           y == <<"page", i>>
           one == ids \cup {x}
           two == one \cup {y}
           before == IF i = 1 THEN acc.a ELSE AddSegment(acc.a, PageSeparator, x, "generated")
           after == IF text = <<>> THEN before ELSE AddSegment(before, text, y, "unmapped")
           range == Page(before.char, after.char, before.byte, after.byte)
           a == acc.a
           pages == acc.pages
           more == Append(pages, range)
<1>1. /\ x \in SegmentId /\ y \in SegmentId
      /\ "generated" \in SegmentKind /\ "unmapped" \in SegmentKind
  BY DEF SegmentId, SegmentTag, SegmentKind
<1>2. x[1] = "page-separator" /\ y[1] = "page" /\ x[2] = i /\ y[2] = i
  OBVIOUS
<1>3. JoinPage(acc, i, text) = [a |-> after, pages |-> more]
  BY DEF JoinPage
<1>4. PageSeparator \in Text \ {<<>>}
  <2>1. NewLine \in Letter
    BY DEF Letter, Blank
  <2>2. <<NewLine, NewLine>> \in Seq(Letter) /\ <<NewLine, NewLine>> # <<>>
    BY <2>1
  <2>3. QED
    BY <2>2 DEF PageSeparator, Text
<1> HIDE DEF x, y
<1>5. x \notin ids /\ y \notin one /\ two \subseteq PageIds(i)
  <2>1. i \notin 1 .. i - 1 /\ i \in 1 .. i /\ \A k \in 1 .. i - 1 : k \in 1 .. i
    OBVIOUS
  <2>2. x \notin ids /\ y \notin ids /\ x # y
    BY <1>2, <2>1 DEF PageIds
  <2>3. x \in PageIds(i) /\ y \in PageIds(i)
    BY <1>1, <1>2, <2>1 DEF PageIds
  <2>4. ids \subseteq PageIds(i)
    BY <2>1 DEF PageIds
  <2>5. QED
    BY <2>2, <2>3, <2>4
<1> HIDE DEF ids
<1>6. /\ Bare(a, ids) /\ pages \in Seq(TextRange) /\ Len(pages) = i - 1
      /\ \A k \in 1 .. i - 1 :
           /\ pages[k].ec <= a.char /\ pages[k].eb <= a.byte
           /\ k > 1 => /\ pages[k].sc >= pages[k - 1].ec /\ pages[k].sb >= pages[k - 1].eb
  BY DEF PagesInOrder, ids
<1> HIDE DEF a
<1>7. GoesOn(a, before, ids, {x})
  <2>1. CASE i = 1
    BY <1>6, <2>1, NothingGoesOn DEF a
  <2>2. CASE i # 1
    <3>1. before = AddSegment(a, PageSeparator, x, "generated")
      BY <2>2 DEF a
    <3> HIDE DEF before
    <3>2. QED
      BY <1>1, <1>4, <1>5, <1>6, <3>1, SegmentsGoOn
  <2>3. QED
    BY <2>1, <2>2
<1> HIDE DEF before
<1>8. Bare(before, one)
  BY <1>7 DEF GoesOn
<1> HIDE DEF one
<1>9. GoesOn(before, after, one, {y})
  <2>1. CASE text = <<>>
    BY <1>8, <2>1, NothingGoesOn
  <2>2. CASE text # <<>>
    <3>1. after = AddSegment(before, text, y, "unmapped")
      BY <2>2
    <3> HIDE DEF after
    <3>2. QED
      BY <1>1, <1>5, <1>8, <2>2, <3>1, SegmentsGoOn
  <2>3. QED
    BY <2>1, <2>2
<1> HIDE DEF after
<1>10. /\ a.char \in Nat /\ before.char \in Nat /\ after.char \in Nat
       /\ a.byte \in Nat /\ before.byte \in Nat /\ after.byte \in Nat
       /\ a.char <= before.char /\ before.char <= after.char
       /\ a.byte <= before.byte /\ before.byte <= after.byte
  BY <1>7, <1>9 DEF GoesOn
<1>11. Bare(after, PageIds(i))
  <2>1. Bare(after, two)
    BY <1>9 DEF GoesOn
  <2> HIDE DEF two
  <2>2. QED
    BY <1>5, <2>1, NamesStay DEF Bare
<1>12. /\ range.sc = before.char /\ range.ec = after.char
       /\ range.sb = before.byte /\ range.eb = after.byte /\ range \in TextRange
  BY <1>10 DEF Page, TextRange
<1> HIDE DEF range, pages
<1>13. /\ more \in Seq(TextRange) /\ Len(more) = i /\ more[i] = range
       /\ \A k \in 1 .. i - 1 : more[k] = pages[k] /\ pages[k] \in TextRange
  BY <1>6, <1>12
<1> HIDE DEF more
<1>14. \A r \in TextRange : r.ec \in Nat /\ r.eb \in Nat
  BY DEF TextRange
<1>15. ASSUME NEW k \in 1 .. i - 1
       PROVE  /\ pages[k].ec \in Nat /\ pages[k].eb \in Nat
              /\ pages[k].ec <= before.char /\ pages[k].eb <= before.byte
              /\ pages[k].ec <= after.char /\ pages[k].eb <= after.byte
  <2> DEFINE r == pages[k]
  <2>1. r \in TextRange /\ r.ec <= a.char /\ r.eb <= a.byte
    BY <1>6, <1>13
  <2> HIDE DEF r
  <2>2. r.ec \in Nat /\ r.eb \in Nat
    BY <1>14, <2>1
  <2>3. QED
    BY <1>10, <2>1, <2>2 DEF r
<1>16. ASSUME NEW k \in 1 .. i
       PROVE  /\ more[k].ec <= after.char /\ more[k].eb <= after.byte
              /\ k > 1 => /\ more[k].sc >= more[k - 1].ec /\ more[k].sb >= more[k - 1].eb
  <2>1. CASE k = i
    <3>1. more[k] = range
      BY <1>13, <2>1
    <3>2. k > 1 => k - 1 \in 1 .. i - 1
      BY <2>1
    <3>3. k > 1 => /\ more[k - 1].ec <= before.char /\ more[k - 1].eb <= before.byte
                   /\ more[k - 1].ec \in Nat /\ more[k - 1].eb \in Nat
      BY <1>13, <1>15, <3>2
    <3>4. QED
      BY <1>10, <1>12, <3>1, <3>3
  <2>2. CASE k # i
    <3>1. k \in 1 .. i - 1 /\ (k > 1 => k - 1 \in 1 .. i - 1)
      BY <2>2
    <3>2. QED
      BY <1>6, <1>13, <1>15, <3>1
  <2>3. QED
    BY <2>1, <2>2
<1> DEFINE acc2 == [a |-> after, pages |-> more]
<1>17. acc2.a = after /\ acc2.pages = more
  OBVIOUS
<1> HIDE DEF acc2
<1>18. PagesInOrder(acc2, i)
  BY <1>11, <1>13, <1>16, <1>17 DEF PagesInOrder
<1>19. QED
  BY <1>3, <1>18 DEF acc2

(* So are all of them.                                                     *)
LEMMA PagesAreInOrder ==
  ASSUME NEW source \in PdfPages
  PROVE  PagesInOrder(JoinedPages(source), Len(source))
<1> DEFINE n == Len(source)
<1>1. n \in Nat
  BY DEF PdfPages
<1>2. PICK f : PagesFollow(f, source) /\ JoinedPages(source) = f[n]
  BY PagesAreJoined
<1> DEFINE T == {i \in 0 .. n : PagesInOrder(f[i], i)}
<1>3. 0 \in T
  <2> DEFINE nothing == [a |-> Empty, pages |-> <<>>]
  <2>1. f[0] = nothing
    BY <1>2 DEF PagesFollow
  <2>2. nothing.a = Empty /\ nothing.pages = <<>>
    OBVIOUS
  <2> HIDE DEF nothing
  <2>3. Empty.layout = <<>> /\ Empty.tables = <<>>
    BY DEF Empty
  <2>4. Named(Empty, PageIds(0))
    BY EmptyIsFiled, NamesStay
  <2>5. Bare(Empty, PageIds(0))
    BY <2>3, <2>4, EmptyIsFiled, EmptyIsExact DEF Bare, IsExact
  <2>6. PagesInOrder(nothing, 0)
    BY <2>2, <2>5 DEF PagesInOrder
  <2>7. QED
    BY <1>1, <2>1, <2>6
<1>4. ASSUME NEW i \in 1 .. n, i - 1 \in T PROVE i \in T
  <2>1. i \in Nat /\ i >= 1 /\ i \in 0 .. n
    BY <1>1
  <2>2. PagesInOrder(f[i - 1], i - 1)
    BY <1>4
  <2>3. f[i] = JoinPage(f[i - 1], i, source[i].text)
    BY <1>2 DEF PagesFollow
  <2>4. source[i].text \in Text
    BY PagesAreTyped
  <2>5. PagesInOrder(f[i], i)
    BY <2>1, <2>2, <2>3, <2>4, PageIsInOrder
  <2>6. QED
    BY <2>1, <2>5
<1> HIDE DEF T
<1>5. n \in T
  <2>1. n \in 0 .. n
    BY <1>1
  <2> HIDE DEF n
  <2>2. QED
    BY <1>1, <1>3, <1>4, <2>1, Reaches
<1>6. QED
  BY <1>2, <1>5 DEF T, n

(* The bytes of a longer beginning of a text are as many or more.          *)
LEMMA BeginningsGrow ==
  ASSUME NEW text \in Text, NEW p \in Nat, NEW q \in Nat, p <= q, q <= Len(text)
  PROVE  /\ ByteLen(SubSeq(text, 1, p)) \in Nat /\ ByteLen(SubSeq(text, 1, q)) \in Nat
         /\ ByteLen(SubSeq(text, 1, p)) <= ByteLen(SubSeq(text, 1, q))
<1> DEFINE before == SubSeq(text, 1, p)
           more == SubSeq(text, p + 1, q)
           all == SubSeq(text, 1, q)
<1>1. before \in Text /\ more \in Text /\ all \in Text
  BY DEF Text
<1>2. before \o more = all
  BY DEF Text
<1> HIDE DEF before, more, all
<1>3. ByteLen(all) = ByteLen(before) + ByteLen(more)
  BY <1>1, <1>2, BytesAddUp
<1>4. ByteLen(before) \in Nat /\ ByteLen(more) \in Nat /\ ByteLen(all) \in Nat
  BY <1>1, BytesAreMany
<1>5. ByteLen(before) <= ByteLen(all)
  BY <1>3, <1>4
<1>6. QED
  BY <1>4, <1>5 DEF before, all

(* Ranges of a page are in the order of their places.                      *)
StartsBefore(r, s) == r.sc <= s.sc /\ r.sb <= s.sb
EndsBefore(r, s) == r.ec <= s.ec /\ r.eb <= s.eb

(* A piece that is found further on starts, and ends, further on in        *)
(* characters and in bytes.                                                *)
LEMMA PlacesOrderRanges ==
  ASSUME NEW text \in Text, NEW page \in TextRange, NEW one \in Text, NEW two \in Text,
         NEW p, NEW q, AtPlace(text, one, p), AtPlace(text, two, q)
  PROVE  /\ p <= q => StartsBefore(InPage(page, text, p, one), InPage(page, text, q, two))
         /\ p + Len(one) <= q + Len(two) =>
              EndsBefore(InPage(page, text, p, one), InPage(page, text, q, two))
<1> DEFINE u == p + Len(one)
           v == q + Len(two)
           r == InPage(page, text, p, one)
           s == InPage(page, text, q, two)
<1>1. /\ p \in Nat /\ q \in Nat /\ u \in Nat /\ v \in Nat
      /\ Len(one) \in Nat /\ Len(two) \in Nat
      /\ p <= Len(text) /\ q <= Len(text) /\ u <= Len(text) /\ v <= Len(text)
  BY DEF AtPlace, Text
<1>2. /\ page.sc \in Nat /\ page.sb \in Nat
  BY DEF TextRange
<1>3. /\ r.sc = page.sc + p /\ r.sb = page.sb + ByteLen(SubSeq(text, 1, p))
      /\ s.sc = page.sc + q /\ s.sb = page.sb + ByteLen(SubSeq(text, 1, q))
      /\ r.ec = page.sc + p + Len(one) /\ r.eb = page.sb + ByteLen(SubSeq(text, 1, u))
      /\ s.ec = page.sc + q + Len(two) /\ s.eb = page.sb + ByteLen(SubSeq(text, 1, v))
  BY DEF InPage
<1>4. ASSUME p <= q PROVE StartsBefore(r, s)
  <2> DEFINE x == ByteLen(SubSeq(text, 1, p))
             y == ByteLen(SubSeq(text, 1, q))
  <2>1. x \in Nat /\ y \in Nat /\ x <= y
    BY <1>1, <1>4, BeginningsGrow
  <2>2. r.sb = page.sb + x /\ s.sb = page.sb + y
    BY <1>3
  <2> HIDE DEF x, y, r, s
  <2>3. r.sc <= s.sc
    BY <1>1, <1>2, <1>3, <1>4
  <2>4. r.sb <= s.sb
    BY <1>2, <2>1, <2>2
  <2>5. QED
    BY <2>3, <2>4 DEF StartsBefore
<1>5. ASSUME u <= v PROVE EndsBefore(r, s)
  <2> DEFINE x == ByteLen(SubSeq(text, 1, u))
             y == ByteLen(SubSeq(text, 1, v))
  <2>0. r.ec = page.sc + u /\ s.ec = page.sc + v
    <3> HIDE DEF r, s
    <3> QED
      BY <1>1, <1>2, <1>3
  <2> HIDE DEF u, v
  <2>1. x \in Nat /\ y \in Nat /\ x <= y
    BY <1>1, <1>5, BeginningsGrow
  <2>2. r.eb = page.sb + x /\ s.eb = page.sb + y
    BY <1>3 DEF u, v
  <2> HIDE DEF x, y, r, s
  <2>3. r.ec <= s.ec
    BY <1>1, <1>2, <1>5, <2>0
  <2>4. r.eb <= s.eb
    BY <1>2, <2>1, <2>2
  <2>5. QED
    BY <2>3, <2>4 DEF EndsBefore
<1>6. QED
  BY <1>4, <1>5

(* A piece that was found lies in the document.                            *)
LEMMA FoundIsInDocument ==
  ASSUME NEW d, d.text \in Text, NEW text \in Text, NEW page \in TextRange,
         Marks(d.text, page, text), NEW piece \in Text \ {<<>>}, NEW p, AtPlace(text, piece, p)
  PROVE  RangeIsWithin(d, InPage(page, text, p, piece))
<1> DEFINE t == d.text
           range == InPage(page, text, p, piece)
<1>1. Marks(t, range, piece)
  BY PlacesAreMarked
<1> HIDE DEF range, t
<1>2. t \in Text
  BY DEF t
<1>3. IsRange(range) /\ range.ec <= Len(t) /\ range.eb <= ByteLen(t)
  BY <1>1, <1>2, MarksAreWithin
<1>4. RangeIsWithin(d, range)
  BY <1>3 DEF RangeIsWithin, t
<1>5. QED
  BY <1>4 DEF range

(* What the contract wants of a table.                                     *)
TableHolds(d, table) ==
  /\ RangeIsWithin(d, table.range) /\ table.cells # <<>> /\ CellsAreApart(table.cells)
  /\ \A c \in ToSet(table.cells) : RangeIsWithin(d, c.range) /\ CellIsWithin(table, c)

(* A table whose cells were found one behind the other.                    *)
FoundTable(table, text, pieces, page) ==
  /\ table.cells = [c \in DOMAIN pieces |->
       [row |-> 1, column |-> c, of |-> pieces[c],
        range |-> InPage(page, text, Aligned(text, pieces).starts[c], pieces[c])]]
  /\ table.range = Hull({table.cells[c].range : c \in DOMAIN table.cells})

(* Such a table has a range that holds its cells, each in its own column.  *)
LEMMA FoundTablesHold ==
  ASSUME NEW d, d.text \in Text, NEW text \in Text, NEW page \in TextRange,
         Marks(d.text, page, text), NEW pieces \in Seq(Text), pieces # <<>>,
         Aligned(text, pieces).found, NEW table, FoundTable(table, text, pieces, page)
  PROVE  TableHolds(d, table)
<1> DEFINE n == Len(pieces)
           starts == Aligned(text, pieces).starts
           range(c) == InPage(page, text, starts[c], pieces[c])
           cells == table.cells
<1>1. n \in Nat /\ n >= 1 /\ DOMAIN pieces = 1 .. n /\ \A c \in 1 .. n : pieces[c] \in Text
  BY EmptySeq
<1>2. /\ \A c \in 1 .. n : pieces[c] # <<>> /\ AtPlace(text, pieces[c], starts[c])
      /\ \A j, k \in 1 .. n : j < k => starts[j] + Len(pieces[j]) <= starts[k]
  BY AlignedAreFound DEF AllFound
<1> HIDE DEF n, starts
<1>3. /\ cells = [c \in 1 .. n |-> [row |-> 1, column |-> c, of |-> pieces[c], range |-> range(c)]]
  BY <1>1 DEF FoundTable, starts
<1> HIDE DEF range
<1>4. /\ DOMAIN cells = 1 .. n /\ Len(cells) = n
      /\ \A c \in 1 .. n : /\ cells[c].row = 1 /\ cells[c].column = c
                           /\ cells[c].range = range(c)
  BY <1>1, <1>3
<1> HIDE DEF cells
<1>5. ASSUME NEW c \in 1 .. n PROVE RangeIsWithin(d, range(c))
  <2>1. pieces[c] \in Text \ {<<>>} /\ AtPlace(text, pieces[c], starts[c])
    BY <1>1, <1>2
  <2>2. QED
    BY <2>1, FoundIsInDocument DEF range
<1>6. ASSUME NEW c \in 1 .. n
      PROVE  starts[1] <= starts[c] /\ starts[c] + Len(pieces[c]) <= starts[n] + Len(pieces[n])
  <2>1. \A x \in Text : Len(x) \in Nat
    BY DEF Text
  <2>2. 1 \in 1 .. n /\ n \in 1 .. n
    BY <1>1
  <2>3. \A k \in 1 .. n : starts[k] \in Nat
    BY <1>2 DEF AtPlace
  <2>4. \A k \in 1 .. n : Len(pieces[k]) \in Nat
    BY <1>1, <2>1
  <2> DEFINE first == starts[1]
             here == starts[c]
             last == starts[n]
             one == Len(pieces[1])
             two == Len(pieces[c])
             three == Len(pieces[n])
  <2>5. /\ first \in Nat /\ here \in Nat /\ last \in Nat
        /\ one \in Nat /\ two \in Nat /\ three \in Nat
    BY <2>2, <2>3, <2>4
  <2>6. 1 < c => first + one <= here
    BY <1>2, <2>2
  <2>7. c < n => here + two <= last
    BY <1>2, <2>2
  <2>8. (c = 1 => first = here) /\ (c = n => here = last /\ two = three)
    OBVIOUS
  <2>9. (c = 1 \/ 1 < c) /\ (c = n \/ c < n)
    BY <1>1
  <2> HIDE DEF first, here, last, one, two, three
  <2>10. first <= here /\ here + two <= last + three
    BY <2>5, <2>6, <2>7, <2>8, <2>9
  <2>11. QED
    BY <2>10 DEF first, here, last, two, three
<1>7. ASSUME NEW c \in 1 .. n
      PROVE  StartsBefore(range(1), range(c)) /\ EndsBefore(range(c), range(n))
  <2>1. 1 \in 1 .. n /\ n \in 1 .. n
    BY <1>1
  <2>2. /\ \A k \in 1 .. n : pieces[k] \in Text /\ AtPlace(text, pieces[k], starts[k])
    BY <1>1, <1>2
  <2>3. StartsBefore(range(1), range(c))
    BY <1>6, <2>1, <2>2, PlacesOrderRanges DEF range
  <2>4. EndsBefore(range(c), range(n))
    BY <1>6, <2>1, <2>2, PlacesOrderRanges DEF range
  <2>5. QED
    BY <2>3, <2>4
<1>8. /\ table.range.sc = range(1).sc /\ table.range.ec = range(n).ec
      /\ table.range.sb = range(1).sb /\ table.range.eb = range(n).eb
  <2> DEFINE ranges == {cells[c].range : c \in DOMAIN cells}
             whole == table.range
  <2>1. ranges = {range(c) : c \in 1 .. n} /\ 1 \in 1 .. n /\ n \in 1 .. n
    BY <1>1, <1>4
  <2>2. range(1) \in ranges /\ range(n) \in ranges
    BY <2>1
  <2>3. ASSUME NEW r \in ranges
        PROVE  r \in TextRange /\ StartsBefore(range(1), r) /\ EndsBefore(r, range(n))
    <3>1. PICK c \in 1 .. n : r = range(c)
      BY <2>1
    <3>2. pieces[c] \in Text /\ AtPlace(text, pieces[c], starts[c])
      BY <1>1, <1>2
    <3>3. range(c) \in TextRange
      BY <3>2, PlacesAreMarked DEF range
    <3>4. QED
      BY <1>7, <3>1, <3>3
  <2>4. whole = Hull(ranges)
    BY DEF FoundTable, cells
  <2> HIDE DEF ranges, whole
  <2>5. \A r \in ranges : r.sc \in Nat /\ r.ec \in Nat /\ r.sb \in Nat /\ r.eb \in Nat
    BY <2>3 DEF TextRange
  <2>6. Min({r.sc : r \in ranges}) = range(1).sc
    BY <2>2, <2>3, <2>5, LeastIsMin DEF StartsBefore
  <2>7. Min({r.sb : r \in ranges}) = range(1).sb
    BY <2>2, <2>3, <2>5, LeastIsMin DEF StartsBefore
  <2>8. Max({r.ec : r \in ranges}) = range(n).ec
    BY <2>2, <2>3, <2>5, GreatestIsMax DEF EndsBefore
  <2>9. Max({r.eb : r \in ranges}) = range(n).eb
    BY <2>2, <2>3, <2>5, GreatestIsMax DEF EndsBefore
  <2>10. QED
    BY <2>4, <2>6, <2>7, <2>8, <2>9 DEF Hull, whole
<1>9. RangeIsWithin(d, table.range)
  <2> DEFINE r == range(1)
             s == range(n)
             whole == table.range
  <2>1. 1 \in 1 .. n /\ n \in 1 .. n
    BY <1>1
  <2>2. RangeIsWithin(d, r) /\ RangeIsWithin(d, s) /\ EndsBefore(r, s)
    BY <1>5, <1>7, <2>1
  <2>3. whole.sc = r.sc /\ whole.ec = s.ec /\ whole.sb = r.sb /\ whole.eb = s.eb
    BY <1>8
  <2>4. /\ r.sc \in Nat /\ r.ec \in Nat /\ r.sb \in Nat /\ r.eb \in Nat
        /\ s.sc \in Nat /\ s.ec \in Nat /\ s.sb \in Nat /\ s.eb \in Nat
    <3>1. \A k \in 1 .. n : pieces[k] \in Text /\ AtPlace(text, pieces[k], starts[k])
      BY <1>1, <1>2
    <3>2. r \in TextRange /\ s \in TextRange
      BY <2>1, <3>1, PlacesAreMarked DEF range
    <3>3. QED
      BY <3>2 DEF TextRange
  <2> HIDE DEF r, s, whole
  <2>5. RangeIsWithin(d, whole)
    BY <2>2, <2>3, <2>4 DEF RangeIsWithin, IsRange, EndsBefore
  <2>6. QED
    BY <2>5 DEF whole
<1>10. cells # <<>> /\ CellsAreApart(cells)
  BY <1>1, <1>4 DEF CellsAreApart
<1>11. ASSUME NEW c \in ToSet(cells) PROVE RangeIsWithin(d, c.range) /\ CellIsWithin(table, c)
  <2>1. PICK k \in 1 .. n : c = cells[k]
    BY <1>4 DEF ToSet
  <2>2. c.range = range(k)
    BY <1>4, <2>1
  <2>3. StartsBefore(range(1), range(k)) /\ EndsBefore(range(k), range(n))
    BY <1>7
  <2>4. CellIsWithin(table, c)
    BY <1>8, <2>2, <2>3 DEF CellIsWithin, StartsBefore, EndsBefore
  <2>5. QED
    BY <1>5, <2>2, <2>4
<1>12. QED
  BY <1>9, <1>10, <1>11 DEF TableHolds, cells

(* Entries that are numbered by their page and place have unique ids.      *)
LEMMA UniqueNumbered ==
  ASSUME NEW S, NEW n \in Nat, NEW ss \in [1 .. n -> Seq(S)], NEW tag,
         \A i \in 1 .. n : \A k \in 1 .. Len(ss[i]) : ss[i][k].id = <<tag, i, k>>
  PROVE  UniqueIds(FlattenSeq(ss))
<1>1. \A i, j, k, l : <<tag, i, k>> = <<tag, j, l>> => i = j /\ k = l
  OBVIOUS
<1>2. ASSUME NEW i \in 1 .. n PROVE UniqueIds(ss[i])
  <2>1. DOMAIN ss[i] = 1 .. Len(ss[i])
    OBVIOUS
  <2>2. QED
    BY <1>1, <2>1 DEF UniqueIds
<1>3. \A i, j \in 1 .. n : i # j =>
        \A k \in 1 .. Len(ss[i]) : \A l \in 1 .. Len(ss[j]) : ss[i][k].id # ss[j][l].id
  BY <1>1
<1>4. QED
  BY <1>2, <1>3, UniqueFlat

(* What the pages of a PDF are joined to, as the contract wants it.        *)
PagesHold(d) ==
  /\ PageMapIsOrdered(d) /\ UniqueIds(d.map) /\ SourceMapCovers(d)
  /\ \A s \in ToSet(d.map) : RangeIsWithin(d, s.range)

(* Pages in order have a page map and a source map that the contract       *)
(* takes.                                                                  *)
LEMMA JoinedPagesHold ==
  ASSUME NEW acc, NEW n \in Nat, PagesInOrder(acc, n),
         NEW d, d.text = acc.a.text, d.pages = acc.pages, d.map = acc.a.map
  PROVE  PagesHold(d)
<1> DEFINE a == acc.a
           map == a.map
           m == Len(map)
<1>1. PICK t \in Text : a \in ExactOn(t)
  BY DEF PagesInOrder, Bare, IsExact
<1>2. /\ a.char = Len(d.text) /\ a.byte = ByteLen(d.text) /\ a.char \in Nat /\ a.byte \in Nat
  BY <1>1, CountersAreNumbers DEF ExactOn
<1>3. Covers(a) /\ UniqueIds(a.map)
  BY DEF PagesInOrder, Bare, Filed, Named
<1>4. m \in Nat /\ DOMAIN map = 1 .. m /\ d.map = map
  BY <1>1 DEF ExactOn
<1>5. PageMapIsOrdered(d)
  <2>1. DOMAIN d.pages = 1 .. n
    BY DEF PagesInOrder
  <2>2. \A k \in 1 .. n :
          /\ d.pages[k].ec <= Len(d.text) /\ d.pages[k].eb <= ByteLen(d.text)
          /\ k > 1 => /\ d.pages[k].sc >= d.pages[k - 1].ec
                      /\ d.pages[k].sb >= d.pages[k - 1].eb
    BY <1>2 DEF PagesInOrder
  <2>3. QED
    BY <2>1, <2>2 DEF PageMapIsOrdered
<1>6. SourceMapCovers(d)
  <2>1. ASSUME d.map # <<>>
        PROVE  Last(d.map).range.ec = Len(d.text) /\ Last(d.map).range.eb = ByteLen(d.text)
    BY <1>2, <1>3, <1>4, <2>1 DEF Covers, Last
  <2>2. ASSUME NEW i \in DOMAIN d.map
        PROVE  /\ d.map[i].range.sc = IF i = 1 THEN 0 ELSE d.map[i - 1].range.ec
               /\ d.map[i].range.sb = IF i = 1 THEN 0 ELSE d.map[i - 1].range.eb
    BY <1>3, <1>4 DEF Covers
  <2>3. QED
    BY <2>1, <2>2 DEF SourceMapCovers
<1>7. ASSUME NEW s \in ToSet(d.map) PROVE RangeIsWithin(d, s.range)
  <2>1. PICK i \in 1 .. m : s = map[i]
    BY <1>4 DEF ToSet
  <2>2. IsRange(s.range) /\ s.range.ec <= a.char /\ s.range.eb <= a.byte
    BY <1>3, <2>1 DEF Covers
  <2>3. QED
    BY <1>2, <2>2 DEF RangeIsWithin
<1>8. QED
  BY <1>3, <1>4, <1>5, <1>6, <1>7 DEF PagesHold

(* A PDF whose words and cells were all aligned is a document its contract *)
(* takes, for any pages.                                                   *)
LEMMA PdfIsValid ==
  ASSUME NEW source \in PdfPages, \A i \in DOMAIN source : PageIsAligned(source[i]),
         NEW d,
         LET joined == JoinedPages(source)
         IN  d = [text |-> joined.a.text, pages |-> joined.pages, map |-> joined.a.map,
                  layout |-> FlattenSeq([i \in DOMAIN source |->
                               WordSpans(source[i], i, joined.pages[i])]),
                  tables |-> FlattenSeq([i \in DOMAIN source |->
                               [k \in DOMAIN source[i].tables |->
                                  PdfTable(source[i], i, joined.pages[i], k)]])]
  PROVE  IsValid(d)
<1> DEFINE n == Len(source)
           joined == JoinedPages(source)
           spans == [i \in DOMAIN source |-> WordSpans(source[i], i, joined.pages[i])]
           tables == [i \in DOMAIN source |-> [k \in DOMAIN source[i].tables |->
                                                PdfTable(source[i], i, joined.pages[i], k)]]
<1>1. n \in Nat /\ DOMAIN source = 1 .. n
  BY DEF PdfPages
<1>2. PICK t \in Text :
        /\ joined.a \in ExactOn(t) /\ joined.pages \in Seq(TextRange) /\ Len(joined.pages) = n
        /\ \A k \in 1 .. n : Marks(t, joined.pages[k], source[k].text)
  BY JoinedPagesAreMarked DEF PagesAreMarked
<1>3. /\ d.text = joined.a.text /\ d.pages = joined.pages /\ d.map = joined.a.map
      /\ d.text = t /\ d.layout = FlattenSeq(spans) /\ d.tables = FlattenSeq(tables)
  BY <1>2 DEF ExactOn
<1>inorder. PagesInOrder(joined, n)
  BY PagesAreInOrder
<1> HIDE DEF joined
<1>hold. PagesHold(d)
  BY <1>1, <1>3, <1>inorder, JoinedPagesHold
<1>4. ASSUME NEW i \in 1 .. n
      PROVE  /\ i \in Nat /\ source[i].text \in Text /\ source[i].words \in Seq(Text)
             /\ source[i].tables \in Seq(Seq(Seq(Text)))
             /\ joined.pages[i] \in TextRange /\ Marks(t, joined.pages[i], source[i].text)
             /\ PageIsAligned(source[i]) /\ PageIsKnown(d, i)
  <2>1. i \in DOMAIN d.pages /\ joined.pages[i] \in TextRange
    BY <1>2, <1>3
  <2>2. QED
    BY <1>1, <1>2, <2>1, PagesAreTyped DEF PageIsKnown
<1>aligned. \A i \in 1 .. n : PageIsAligned(source[i])
  BY <1>4
<1>text. d.text \in Text
  BY <1>3
<1> DEFINE G == {s \in UNION {ToSet(spans[i]) : i \in 1 .. n} :
                   PageIsKnown(d, s.page) /\ RangeIsWithin(d, s.range)}
           H == {s \in UNION {ToSet(tables[i]) : i \in 1 .. n} :
                   PageIsKnown(d, s.page) /\ TableHolds(d, s)}
<1>5. ASSUME NEW i \in 1 .. n
      PROVE  /\ spans[i] \in Seq(G)
             /\ \A k \in 1 .. Len(spans[i]) : spans[i][k].id = <<"word", i, k>>
  <2> DEFINE text == source[i].text
             words == source[i].words
             starts == Aligned(text, words).starts
             range(k) == InPage(joined.pages[i], text, starts[k], words[k])
             made(k) == Span(<<"word", i, k>>, i, "unknown", range(k), words[k])
             m == Len(words)
             row1 == spans[i]
  <2>1. m \in Nat /\ DOMAIN words = 1 .. m
    BY <1>4
  <2>2. row1 = [k \in 1 .. m |-> made(k)]
    BY <1>1, <2>1 DEF WordSpans
  <2>3. ASSUME NEW k \in 1 .. m PROVE RangeIsWithin(d, range(k))
    <3>0. Aligned(text, words).found
      BY <1>aligned DEF PageIsAligned
    <3>1. words[k] \in Text
      <4>1. words \in Seq(Text)
        BY <1>4
      <4> HIDE DEF words
      <4>2. QED
        BY <4>1
    <3>2. words[k] # <<>> /\ AtPlace(text, words[k], starts[k])
      BY <1>4, <3>0, AlignedAreFound DEF AllFound
    <3> HIDE DEF starts, words
    <3>3. QED
      BY <1>3, <1>4, <1>text, <3>1, <3>2, FoundIsInDocument
  <2>4. ASSUME NEW k \in 1 .. m
        PROVE  made(k).page = i /\ made(k).range = range(k) /\ made(k).id = <<"word", i, k>>
    BY DEF Span
  <2> HIDE DEF range, made, m, spans
  <2>5. /\ Len(row1) = m /\ DOMAIN row1 = 1 .. m /\ \A k \in 1 .. m : row1[k] = made(k)
    BY <2>1, <2>2
  <2>6. ASSUME NEW k \in 1 .. m PROVE row1[k] \in G
    <3>1. row1[k] \in ToSet(spans[i])
      BY <2>5 DEF ToSet
    <3>2. PageIsKnown(d, row1[k].page) /\ RangeIsWithin(d, row1[k].range)
      BY <1>4, <2>3, <2>4, <2>5
    <3>3. QED
      BY <3>1, <3>2
  <2>7. row1 \in Seq(G)
    <3> HIDE DEF G
    <3>1. row1 = [k \in 1 .. m |-> row1[k]]
      BY <2>2, <2>5
    <3> HIDE DEF row1
    <3>2. QED
      BY <2>1, <2>6, <3>1
  <2>8. QED
    BY <2>4, <2>5, <2>7
<1>6. ASSUME NEW i \in 1 .. n
      PROVE  /\ tables[i] \in Seq(H)
             /\ \A k \in 1 .. Len(tables[i]) : tables[i][k].id = <<"table", i, k>>
  <2> DEFINE grids == source[i].tables
             made(k) == PdfTable(source[i], i, joined.pages[i], k)
             m == Len(grids)
             row1 == tables[i]
  <2>1. m \in Nat /\ DOMAIN grids = 1 .. m
    BY <1>4
  <2>2. row1 = [k \in 1 .. m |-> made(k)]
    BY <1>1, <2>1
  <2>3. ASSUME NEW k \in 1 .. m
        PROVE  made(k).page = i /\ made(k).id = <<"table", i, k>> /\ TableHolds(d, made(k))
    <3> DEFINE pieces == FlattenSeq(grids[k])
               U == Seq(Seq(Text))
               text == source[i].text
               page == joined.pages[i]
               table == made(k)
    <3>1. grids[k] \in U
      <4>1. grids \in Seq(U)
        BY <1>4
      <4> HIDE DEF U, grids
      <4>2. QED
        BY <2>1, <4>1
    <3>2. pieces \in Seq(Text)
      <4> DEFINE grid == grids[k]
      <4>1. grid \in Seq(Seq(Text))
        BY <3>1
      <4> HIDE DEF grid
      <4>2. Len(grid) \in Nat /\ grid \in [1 .. Len(grid) -> Seq(Text)]
        BY <4>1
      <4>3. FlattenSeq(grid) \in Seq(Text)
        BY <4>2, FlatIsSequence
      <4>4. QED
        BY <4>3 DEF grid
    <3>3. k \in DOMAIN source[i].tables
      BY <2>1
    <3>4. pieces # <<>> /\ Aligned(text, pieces).found
      BY <1>aligned, <3>3, Zenon DEF PageIsAligned
    <3>5. FoundTable(table, text, pieces, page)
      BY Zenon DEF FoundTable, PdfTable
    <3>6. table.page = i /\ table.id = <<"table", i, k>>
      BY Zenon DEF PdfTable
    <3>7. text \in Text /\ page \in TextRange /\ Marks(d.text, page, text)
      BY <1>3, <1>4
    <3> HIDE DEF pieces, text, page, table
    <3>8. TableHolds(d, table)
      BY <1>text, <3>2, <3>4, <3>5, <3>7, FoundTablesHold
    <3>9. QED
      BY <3>6, <3>8 DEF table
  <2> HIDE DEF made, m, tables
  <2>5. /\ Len(row1) = m /\ DOMAIN row1 = 1 .. m /\ \A k \in 1 .. m : row1[k] = made(k)
    BY <2>1, <2>2
  <2>6. ASSUME NEW k \in 1 .. m PROVE row1[k] \in H
    <3>1. row1[k] \in ToSet(tables[i])
      BY <2>5 DEF ToSet
    <3>2. PageIsKnown(d, row1[k].page) /\ TableHolds(d, row1[k])
      BY <1>4, <2>3, <2>5
    <3>3. QED
      BY <3>1, <3>2
  <2>7. row1 \in Seq(H)
    <3> HIDE DEF H
    <3>1. row1 = [k \in 1 .. m |-> row1[k]] /\ \A k \in 1 .. m : row1[k] \in H
      BY <2>2, <2>5, <2>6
    <3> HIDE DEF row1
    <3>2. row1 \in [1 .. m -> H]
      BY <3>1
    <3>3. QED
      BY <2>1, <3>2
  <2>8. QED
    BY <2>3, <2>5, <2>7
<1> HIDE DEF G, H
<1>7. spans \in [1 .. n -> Seq(G)] /\ tables \in [1 .. n -> Seq(H)]
  BY <1>1, <1>5, <1>6
<1> HIDE DEF spans, tables
<1>8. UniqueIds(d.layout) /\ UniqueIds(d.tables)
  <2>1. \A i \in 1 .. n : \A k \in 1 .. Len(spans[i]) : spans[i][k].id = <<"word", i, k>>
    BY <1>5
  <2>2. \A i \in 1 .. n : \A k \in 1 .. Len(tables[i]) : tables[i][k].id = <<"table", i, k>>
    BY <1>6
  <2>3. UniqueIds(FlattenSeq(spans))
    BY <1>1, <1>7, <2>1, UniqueNumbered
  <2>4. UniqueIds(FlattenSeq(tables))
    BY <1>1, <1>7, <2>2, UniqueNumbered
  <2>5. QED
    BY <1>3, <2>3, <2>4
<1>9. d.layout \in Seq(G) /\ d.tables \in Seq(H)
  BY <1>1, <1>3, <1>7, FlatIsSequence
<1>10. ASSUME NEW s \in ToSet(d.layout)
       PROVE  PageIsKnown(d, s.page) /\ RangeIsWithin(d, s.range)
  <2>1. s \in G
    BY <1>9 DEF ToSet
  <2>2. QED
    BY <2>1 DEF G
<1>11. ASSUME NEW s \in ToSet(d.tables) PROVE PageIsKnown(d, s.page) /\ TableHolds(d, s)
  <2>1. s \in H
    BY <1>9 DEF ToSet
  <2>2. QED
    BY <2>1 DEF H
<1>12. QED
  BY <1>hold, <1>8, <1>10, <1>11 DEF IsValid, PagesHold, TableHolds

-----------------------------------------------------------------------------
(* What the readers hand to the contract                                   *)

(* While a document is read: what is assembled is in order, but for the    *)
(* ids of a DOCX, and so are the headers; there is no document yet.        *)
ValidInvariant ==
  /\ Filed(assembly)
  /\ format # "docx" => Named(assembly, OwnIds(assembly))
  /\ Covers(headers) /\ \E i : Named(headers, HeaderIds(i))
  /\ phase \in {"reading", "message"} => document.text = <<>>
  /\ IngestedIsValid

(* An empty assembler is in order, as one of headers too.                  *)
LEMMA EmptyIsInOrder ==
  Filed(Empty) /\ Named(Empty, OwnIds(Empty)) /\ Covers(Empty) /\ \E i : Named(Empty, HeaderIds(i))
<1>1. Named(Empty, HeaderIds(0))
  BY EmptyIsFiled, NamesStay
<1>2. QED
  BY <1>1, EmptyIsFiled DEF Filed

(* At first there is nothing that could be out of order.                   *)
LEMMA ValidInvariantInit ==
  ASSUME Init
  PROVE  ValidInvariant
<1>1. assembly = Empty /\ headers = Empty /\ document.text = <<>>
  BY DEF Init, IngestionInit, ParserInit, NoDocument
<1>2. QED
  BY <1>1, EmptyIsInOrder DEF ValidInvariant, IngestedIsValid

(* A document is constructed of what the contract takes, or from a DOCX    *)
(* with segments of the same id.                                           *)
LEMMA ConstructedStaysValid ==
  ASSUME NEW d, d.text # <<>> => IsValid(d) \/ (format = "docx" /\ ~UniqueIds(d.map)),
         Construct(d)
  PROVE  ValidInvariant'
<1>1. /\ assembly' = Empty /\ headers' = Empty /\ document' = d /\ format' = format
      /\ phase' = IF d.text # <<>> /\ IsValid(d) THEN "document" ELSE "refused"
  BY DEF Construct, ParserIsDone
<1>2. phase' \notin {"reading", "message"}
  BY <1>1
<1>3. IngestedIsValid'
  BY <1>1 DEF IngestedIsValid
<1>4. /\ Filed(assembly)' /\ Named(assembly, OwnIds(assembly))'
      /\ Covers(headers)' /\ (\E i : Named(headers, HeaderIds(i)))'
  BY <1>1, EmptyIsInOrder
<1>5. QED
  BY <1>2, <1>3, <1>4 DEF ValidInvariant

(* A refusal leaves no document.                                           *)
LEMMA RefusedStaysValid ==
  ASSUME ValidInvariant, phase \in {"reading", "message"}, Refuse
  PROVE  ValidInvariant'
<1>1. /\ assembly' = Empty /\ headers' = Empty /\ document' = document /\ phase' = "refused"
  BY DEF Refuse, ParserIsDone
<1>2. document'.text = <<>>
  BY <1>1 DEF ValidInvariant
<1>3. IngestedIsValid'
  BY <1>2 DEF IngestedIsValid
<1>4. /\ Filed(assembly)' /\ Named(assembly, OwnIds(assembly))'
      /\ Covers(headers)' /\ (\E i : Named(headers, HeaderIds(i)))'
  BY <1>1, EmptyIsInOrder
<1>5. QED
  BY <1>1, <1>3, <1>4 DEF ValidInvariant

(* Every step of every reader keeps what it assembles in order.            *)
LEMMA ValidInvariantStep ==
  ASSUME ExactInvariant, ValidInvariant, [Next]_vars
  PROVE  ValidInvariant'
<1>1. CASE ReadPlain
  <2>1. PICK text \in PlainText :
          Construct(OnePage([Empty EXCEPT !.text = text, !.map =
            IF text = <<>> THEN <<>>
            ELSE <<[id |-> <<"source">>, kind |-> "source",
                    range |-> Page(0, Len(text), 0, ByteLen(text))]>>]))
    BY <1>1 DEF ReadPlain
  <2> DEFINE source == <<[id |-> <<"source">>, kind |-> "source",
                          range |-> Page(0, Len(text), 0, ByteLen(text))]>>
             map == IF text = <<>> THEN <<>> ELSE source
             d == OnePage([Empty EXCEPT !.text = text, !.map = map])
  <2>2. d.text = text
    <3> HIDE DEF map
    <3> QED
      BY DEF OnePage, Empty
  <2>3. ASSUME text # <<>> PROVE IsValid(d)
    <3>1. text \in Text \ {<<>>}
      BY <2>3, InputAssumption
    <3>2. map = source
      BY <2>3
    <3> HIDE DEF map
    <3>3. QED
      BY <3>1, <3>2, PlainIsValid
  <2>4. Construct(d)
    BY <2>1
  <2> HIDE DEF d
  <2>5. QED
    BY <2>2, <2>3, <2>4, ConstructedStaysValid
<1>2. CASE ParseHtml
  <2>1. /\ ParserStep /\ format \in {"html", "email"} /\ phase = "reading"
        /\ UNCHANGED <<format, phase, headers, document>>
    BY <1>2 DEF ParseHtml
  <2>2. StaysFiled(assembly, assembly')
    BY <2>1, ParserStaysFiled DEF ExactInvariant
  <2>3. Filed(assembly') /\ Named(assembly', OwnIds(assembly'))
    BY <2>1, <2>2 DEF StaysFiled, ValidInvariant
  <2>4. IngestedIsValid'
    BY <2>1 DEF IngestedIsValid
  <2>5. Filed(assembly)' /\ Named(assembly, OwnIds(assembly))'
    BY <2>3
  <2>6. Covers(headers)' /\ (\E i : Named(headers, HeaderIds(i)))'
    BY <2>1 DEF ValidInvariant
  <2>7. QED
    BY <2>1, <2>4, <2>5, <2>6 DEF ValidInvariant
<1>3. CASE RefuseTable
  BY <1>3, RefusedStaysValid DEF RefuseTable
<1>4. CASE EndOfHtml
  <2>1. format = "html" /\ phase = "reading"
    BY <1>4 DEF EndOfHtml, Reading
  <2>2. IsValid(OnePage(assembly))
    BY <2>1, FiledIsValid DEF ValidInvariant, ExactInvariant, ParserIsExact, Named
  <2>3. Refuse \/ Construct(OnePage(assembly))
    BY <1>4 DEF EndOfHtml
  <2>4. QED
    BY <2>1, <2>2, <2>3, RefusedStaysValid, ConstructedStaysValid
<1>5. CASE ReadParagraph \/ ReadTable
  <2>1. format = "docx" /\ phase = "reading"
    BY <1>5 DEF ReadParagraph, ReadTable, Reading
  <2>2. CASE Refuse
    BY <2>1, <2>2, RefusedStaysValid
  <2>3. CASE ~Refuse
    <3>1. UNCHANGED <<format, phase, headers, document>>
      BY <1>5, <2>3 DEF ReadParagraph, ReadTable
    <3>2. Filed(assembly')
      BY <1>5, DocxStaysFiled DEF ValidInvariant, ExactInvariant
    <3>3. Filed(assembly)'
      BY <3>2
    <3>4. IngestedIsValid'
      BY <2>1, <3>1 DEF IngestedIsValid
    <3>5. Covers(headers)' /\ (\E i : Named(headers, HeaderIds(i)))'
      BY <3>1 DEF ValidInvariant
    <3>6. QED
      BY <2>1, <3>1, <3>3, <3>4, <3>5 DEF ValidInvariant
  <2>4. QED
    BY <2>2, <2>3
<1>6. CASE EndOfDocx
  <2>1. format = "docx" /\ phase = "reading"
    BY <1>6 DEF EndOfDocx, Reading
  <2>2. OnePage(assembly).map = assembly.map
    BY DEF OnePage
  <2>3. UniqueIds(assembly.map) => IsValid(OnePage(assembly))
    BY FiledIsValid DEF ValidInvariant, ExactInvariant, ParserIsExact
  <2>4. Refuse \/ Construct(OnePage(assembly))
    BY <1>6 DEF EndOfDocx
  <2>5. QED
    BY <2>1, <2>2, <2>3, <2>4, RefusedStaysValid, ConstructedStaysValid
<1>7. CASE ReadPdf
  <2>1. CASE Refuse
    BY <1>7, <2>1, RefusedStaysValid DEF ReadPdf, Reading
  <2>2. CASE ~Refuse
    <3>1. PICK source \in PdfSource :
            LET joined == JoinedPages(source)
            IN  /\ ~\E i \in DOMAIN source : ~PageIsAligned(source[i])
                /\ Construct(
                     [text |-> joined.a.text, pages |-> joined.pages, map |-> joined.a.map,
                      layout |-> FlattenSeq([i \in DOMAIN source |->
                                   WordSpans(source[i], i, joined.pages[i])]),
                      tables |-> FlattenSeq([i \in DOMAIN source |->
                                   [k \in DOMAIN source[i].tables |->
                                      PdfTable(source[i], i, joined.pages[i], k)]])])
      BY <1>7, <2>2 DEF ReadPdf
    <3> DEFINE joined == JoinedPages(source)
               d == [text |-> joined.a.text, pages |-> joined.pages, map |-> joined.a.map,
                     layout |-> FlattenSeq([i \in DOMAIN source |->
                                  WordSpans(source[i], i, joined.pages[i])]),
                     tables |-> FlattenSeq([i \in DOMAIN source |->
                                  [k \in DOMAIN source[i].tables |->
                                     PdfTable(source[i], i, joined.pages[i], k)]])]
    <3>2. source \in PdfPages /\ \A i \in DOMAIN source : PageIsAligned(source[i])
      BY <3>1, InputAssumption
    <3>3. IsValid(d)
      BY <3>2, PdfIsValid
    <3>4. Construct(d)
      BY <3>1
    <3> HIDE DEF d
    <3>5. QED
      BY <3>3, <3>4, ConstructedStaysValid
  <2>3. QED
    BY <2>1, <2>2
<1>8. CASE ReadMessage
  <2>1. PICK m \in Message :
          \/ Refuse
          \/ /\ PlainBody(m.body) # <<>>
             /\ Construct(OnePage(AddSegment(WithHeaders(m.headers), PlainBody(m.body),
                                             <<"body">>, "unmapped")))
          \/ /\ headers' = WithHeaders(m.headers)
             /\ UNCHANGED <<parser, assembly, format, document>>
    BY <1>8 DEF ReadMessage
  <2>2. format = "email" /\ phase = "message"
    BY <1>8 DEF ReadMessage
  <2>3. m.headers \in Seq(Text \ {<<>>}) /\ m.body \in Text
    BY InputAssumption
  <2> DEFINE values == m.headers
             h == WithHeaders(values)
             body == PlainBody(m.body)
             d == OnePage(AddSegment(h, body, <<"body">>, "unmapped"))
  <2>4. CASE Refuse
    BY <2>2, <2>4, RefusedStaysValid
  <2>5. CASE body # <<>> /\ Construct(d)
    <3>1. body \in Text \ {<<>>}
      BY <2>3, <2>5, PlainBodyIsText
    <3> HIDE DEF body
    <3>2. IsValid(d)
      BY <2>3, <3>1, PlainEmailIsValid
    <3> HIDE DEF d
    <3>3. QED
      BY <2>5, <3>2, ConstructedStaysValid
  <2>6. CASE headers' = h /\ UNCHANGED <<parser, assembly, format, document>>
    <3>1. Bare(h, HeaderIds(Len(values)))
      BY <2>3, HeadersAreFiled
    <3> HIDE DEF h
    <3>2. Covers(h) /\ \E i : Named(h, HeaderIds(i))
      BY <3>1 DEF Bare, Filed
    <3>3. document'.text = <<>>
      BY <2>2, <2>6 DEF ValidInvariant
    <3>4. Filed(assembly)' /\ Named(assembly, OwnIds(assembly))'
      BY <2>2, <2>6 DEF ValidInvariant
    <3>5. Covers(headers)' /\ (\E i : Named(headers, HeaderIds(i)))'
      BY <2>6, <3>2
    <3>6. IngestedIsValid'
      BY <3>3 DEF IngestedIsValid
    <3>7. QED
      BY <3>3, <3>4, <3>5, <3>6 DEF ValidInvariant
  <2>7. QED
    BY <2>1, <2>4, <2>5, <2>6
<1>9. CASE EndOfEmail
  <2>1. format = "email" /\ phase = "reading"
    BY <1>9 DEF EndOfEmail, Reading
  <2> DEFINE a == Imported(headers, assembly)
  <2>2. PICK i : Named(headers, HeaderIds(i))
    BY DEF ValidInvariant
  <2>3. Contracted(a)
    BY <2>1, <2>2, ImportedIsContracted DEF ValidInvariant, ExactInvariant, ParserIsExact, Named
  <2>4. Refuse \/ Construct(OnePage(a))
    BY <1>9 DEF EndOfEmail
  <2> HIDE DEF a
  <2>5. IsValid(OnePage(a))
    BY <2>3, ContractedIsValid
  <2>6. QED
    BY <2>1, <2>4, <2>5, RefusedStaysValid, ConstructedStaysValid
<1>10. CASE Tokenize \/ ChunkByWindows \/ PackLayout \/ UNCHANGED vars
  <2>1. /\ UNCHANGED <<assembly, format, headers, document>>
        /\ phase' = phase \/ phase' \in {"windows", "chunked", "unchunkable"}
    BY <1>10 DEF Tokenize, ChunkByWindows, PackLayout, vars, ingestion
  <2>2. IngestedIsValid'
    BY <2>1 DEF IngestedIsValid, ValidInvariant
  <2>3. /\ Filed(assembly)' /\ (format # "docx" => Named(assembly, OwnIds(assembly)))'
        /\ Covers(headers)' /\ (\E i : Named(headers, HeaderIds(i)))'
    BY <2>1 DEF ValidInvariant
  <2>4. (phase \in {"reading", "message"} => document.text = <<>>)'
    BY <2>1 DEF ValidInvariant
  <2>5. QED
    BY <2>2, <2>3, <2>4 DEF ValidInvariant
<1>11. QED
  BY <1>1, <1>2, <1>3, <1>4, <1>5, <1>6, <1>7, <1>8, <1>9, <1>10
     DEF Next, Ingest, IngestionStep

(* The documents the readers put together satisfy their contract: page     *)
(* and source map, ids, ranges and tables (documents.py:60). Only a DOCX    *)
(* may be refused with a text, for two segments of the same id             *)
(* (docx.py:121). For any texts, tags, tables, pages and headers.          *)
THEOREM IngestedDocumentsAreValid == Spec => []IngestedIsValid
<1>1. Init => ExactInvariant /\ ValidInvariant
  BY ExactInvariantInit, ValidInvariantInit
<1>2. ExactInvariant /\ ValidInvariant /\ [Next]_vars => (ExactInvariant /\ ValidInvariant)'
  BY ExactInvariantStep, ValidInvariantStep
<1>3. ExactInvariant /\ ValidInvariant => IngestedIsValid
  BY DEF ValidInvariant
<1>4. QED
  BY <1>1, <1>2, <1>3, PTL DEF Spec
=============================================================================
