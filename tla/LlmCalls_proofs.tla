--------------------------- MODULE LlmCalls_proofs ---------------------------
(***************************************************************************)
(* The calls of a stage to the model: how its batches take turns, for any  *)
(* number of batches, permits and rows and any interval (StageBatches),    *)
(* and what becomes of the answers of one batch, for any ids, answers and  *)
(* number of retries (VerdictRetry).                                       *)
(***************************************************************************)
EXTENDS StageBatches, VerdictRetry, FiniteSetTheorems, TLAPS

-----------------------------------------------------------------------------
(* StageBatches: the batches of a stage, the throttle and the store        *)

LEMMA FewerOfTwo ==
  ASSUME NEW m \in Nat, NEW n \in Nat
  PROVE  Min({m, n}) = IF m <= n THEN m ELSE n
<1>1. \E x \in {m, n} : \A y \in {m, n} : x <= y
  OBVIOUS
<1>2. QED
  BY <1>1 DEF Min

LEMMA MoreOfTwo ==
  ASSUME NEW m \in Int, NEW n \in Int
  PROVE  Max({m, n}) = IF m >= n THEN m ELSE n
<1>1. \E x \in {m, n} : \A y \in {m, n} : x >= y
  OBVIOUS
<1>2. QED
  BY <1>1 DEF Max

(* What a tick does to the clock.                                          *)
LEMMA ClockTicks ==
  ASSUME TypeOK, Tick
  PROVE  /\ since' = IF since < Interval THEN since + 1 ELSE Interval
         /\ sleep' = IF sleep > 0 THEN sleep - 1 ELSE 0
<1>1. since \in Nat /\ sleep \in Nat /\ since <= Interval /\ Interval \in Nat
  BY BatchAssumption DEF TypeOK
<1>2. Min({since + 1, Interval}) = IF since + 1 <= Interval THEN since + 1 ELSE Interval
  BY <1>1, FewerOfTwo
<1>3. Max({sleep - 1, 0}) = IF sleep - 1 >= 0 THEN sleep - 1 ELSE 0
  BY <1>1, MoreOfTwo
<1>4. QED
  BY <1>1, <1>2, <1>3 DEF Tick

LEMMA BatchesAreTyped == TypeOK /\ [Next]_vars => TypeOK'
<1> SUFFICES ASSUME TypeOK, [Next]_vars PROVE TypeOK'
  OBVIOUS
<1> USE BatchAssumption DEF TypeOK, Move, PcValues, clock, store
<1>1. ASSUME NEW b \in Batch, Enqueue(b) PROVE TypeOK'
  BY <1>1 DEF Enqueue
<1>2. ASSUME NEW b \in Batch, TakePermit(b) PROVE TypeOK'
  BY <1>2 DEF TakePermit
<1>3. ASSUME NEW b \in Batch, EnterThrottle(b) PROVE TypeOK'
  BY <1>3 DEF EnterThrottle, Remaining
<1>4. ASSUME NEW b \in Batch, StartRequest(b) PROVE TypeOK'
  BY <1>4 DEF StartRequest
<1>5. ASSUME NEW b \in Batch, RetryRequest(b) PROVE TypeOK'
  BY <1>5 DEF RetryRequest
<1>6. ASSUME NEW b \in Batch, AcceptOutput(b) PROVE TypeOK'
  BY <1>6 DEF AcceptOutput, LeaveSemaphore
<1>7. ASSUME NEW b \in Batch, ExecuteRow(b) PROVE TypeOK'
  BY <1>7 DEF ExecuteRow
<1>8. ASSUME NEW b \in Batch, CommitRow(b) PROVE TypeOK'
  BY <1>8 DEF CommitRow
<1>9. ASSUME NEW b \in Batch, RollBack(b) PROVE TypeOK'
  BY <1>9 DEF RollBack, AfterFailedInsert
<1>10. ASSUME NEW b \in Batch, CallRaises(b) PROVE TypeOK'
  BY <1>10 DEF CallRaises, LeaveSemaphore
<1>11. ASSUME NEW b \in Batch, TaskRaises(b) PROVE TypeOK'
  BY <1>11 DEF TaskRaises
<1>12. ASSUME NEW b \in Batch, InsertFails(b) PROVE TypeOK'
  BY <1>12 DEF InsertFails
<1>13. CASE Return \/ Cancel \/ UNCHANGED vars
  BY <1>13 DEF Return, Cancel, vars
<1>14. CASE Tick
  BY <1>14, ClockTicks DEF Tick
<1>15. QED
  BY <1>1, <1>2, <1>3, <1>4, <1>5, <1>6, <1>7, <1>8, <1>9, <1>10, <1>11, <1>12,
     <1>13, <1>14 DEF Next, Task

(* What primes the cache, step by step.                                    *)
LEMMA PrimingStep == TypeOK /\ PrimingInv /\ [Next]_vars => PrimingInv'
<1> SUFFICES ASSUME TypeOK, PrimingInv, [Next]_vars, caching' PROVE PrimingInv'
  BY DEF PrimingInv
<1> DEFINE Through == {"recording", "committing", "undoing", "done", "failed"}
<1>1. caching' = caching /\ caching
  BY DEF Next, Task, vars, Enqueue, TakePermit, EnterThrottle, StartRequest, RetryRequest,
         AcceptOutput, ExecuteRow, CommitRow, RollBack, CallRaises, TaskRaises, InsertFails,
         Return, Cancel, Tick
<1>2. /\ primed => pc[0] \in Through
      /\ \A b \in Batch \ {0} : pc[b] \notin {"start", "failed"} \/ attempts[b] > 0 => primed
  BY <1>1 DEF PrimingInv
<1>3. 0 \in Batch /\ Batch \subseteq Nat
  BY BatchAssumption DEF Batch
<1> USE <1>1, <1>2, <1>3, BatchAssumption DEF PrimingInv, TypeOK, Move
<1>4. ASSUME NEW b \in Batch, Enqueue(b) PROVE PrimingInv'
  BY <1>4 DEF Enqueue, MayPass, PrimingAwaitedAt
<1>5. ASSUME NEW b \in Batch, TakePermit(b) PROVE PrimingInv'
  BY <1>5 DEF TakePermit
<1>6. ASSUME NEW b \in Batch, EnterThrottle(b) PROVE PrimingInv'
  BY <1>6 DEF EnterThrottle
<1>7. ASSUME NEW b \in Batch, StartRequest(b) PROVE PrimingInv'
  BY <1>7 DEF StartRequest
<1>8. ASSUME NEW b \in Batch, RetryRequest(b) PROVE PrimingInv'
  BY <1>8 DEF RetryRequest
<1>9. ASSUME NEW b \in Batch, AcceptOutput(b) PROVE PrimingInv'
  BY <1>9 DEF AcceptOutput, LeaveSemaphore
<1>10. ASSUME NEW b \in Batch, ExecuteRow(b) PROVE PrimingInv'
  BY <1>10 DEF ExecuteRow
<1>11. ASSUME NEW b \in Batch, CommitRow(b) PROVE PrimingInv'
  BY <1>11 DEF CommitRow
<1>12. ASSUME NEW b \in Batch, RollBack(b) PROVE PrimingInv'
  BY <1>12 DEF RollBack, AfterFailedInsert
<1>13. ASSUME NEW b \in Batch, CallRaises(b) PROVE PrimingInv'
  BY <1>13 DEF CallRaises, LeaveSemaphore
<1>14. ASSUME NEW b \in Batch, TaskRaises(b) PROVE PrimingInv'
  BY <1>14 DEF TaskRaises
<1>15. ASSUME NEW b \in Batch, InsertFails(b) PROVE PrimingInv'
  BY <1>15 DEF InsertFails
<1>16. CASE Return \/ Cancel \/ Tick \/ UNCHANGED vars
  BY <1>16 DEF Return, Cancel, Tick, vars
<1>17. QED
  BY <1>4, <1>5, <1>6, <1>7, <1>8, <1>9, <1>10, <1>11, <1>12, <1>13, <1>14, <1>15,
     <1>16 DEF Next, Task

(* The lock is held from the start of a sleep to the start of the request. *)
LEMMA ThrottleStep == TypeOK /\ ThrottleInv /\ [Next]_vars => ThrottleInv'
<1> SUFFICES ASSUME TypeOK, ThrottleInv, [Next]_vars PROVE ThrottleInv'
  OBVIOUS
<1>1. NoBatch \notin Batch /\ Interval \in Nat
  BY BatchAssumption DEF Batch, NoBatch
<1> USE <1>1 DEF ThrottleInv, TypeOK, Move
<1>2. ASSUME NEW b \in Batch, EnterThrottle(b) PROVE ThrottleInv'
  BY <1>2 DEF EnterThrottle, LockIsFree, Remaining
<1>3. ASSUME NEW b \in Batch, StartRequest(b) PROVE ThrottleInv'
  BY <1>3 DEF StartRequest
<1>4. CASE Tick
  BY <1>4, ClockTicks DEF Tick
<1>5. CASE UNCHANGED <<pc, lock, clock>>
  BY <1>5 DEF clock
<1>6. ASSUME NEW b \in Batch, Enqueue(b) \/ TakePermit(b) \/ RetryRequest(b)
      PROVE  ThrottleInv'
  BY <1>6 DEF Enqueue, TakePermit, RetryRequest, clock
<1>7. ASSUME NEW b \in Batch, AcceptOutput(b) \/ ExecuteRow(b) \/ CommitRow(b)
      PROVE  ThrottleInv'
  BY <1>7 DEF AcceptOutput, ExecuteRow, CommitRow, clock
<1>8. ASSUME NEW b \in Batch, RollBack(b) \/ CallRaises(b) \/ TaskRaises(b) \/ InsertFails(b)
      PROVE  ThrottleInv'
  BY <1>8 DEF RollBack, CallRaises, TaskRaises, InsertFails, AfterFailedInsert, clock
<1>9. QED
  BY <1>2, <1>3, <1>4, <1>5, <1>6, <1>7, <1>8 DEF Next, Task, Return, Cancel, vars

(* A rollback only ever takes rows of others with it when it makes its own *)
(* task fail.                                                              *)
LEMMA RowsStep == TypeOK /\ RowsInv /\ [Next]_vars => RowsInv'
<1> SUFFICES ASSUME TypeOK, RowsInv, [Next]_vars PROVE RowsInv'
  OBVIOUS
<1> DEFINE NoneFailed == \A b \in Batch : pc[b] # "failed"
           Safe(b) == /\ {b} \X (1 .. rows[b]) \subseteq stored \cup pending
                      /\ pc[b] = "done" => RowsOf(b) \subseteq stored
<1> USE DEF TypeOK, Move
<1>1. CASE UNCHANGED <<pc, rows, pending, stored>> /\ gather' # "returned"
  BY <1>1 DEF RowsInv, RowsOf
<1>2. CASE Return
  BY <1>2 DEF RowsInv, RowsOf, Return, store
<1>3. CASE UNCHANGED vars
  BY <1>3 DEF RowsInv, RowsOf, vars, store
<1>4. ASSUME NEW b \in Batch, pc[b] # "done"
      PROVE  gather # "returned"
  BY <1>4 DEF RowsInv
<1>5. ASSUME NEW b \in Batch,
             \/ Enqueue(b) \/ TakePermit(b) \/ EnterThrottle(b) \/ StartRequest(b)
             \/ RetryRequest(b) \/ AcceptOutput(b) \/ InsertFails(b)
      PROVE  RowsInv'
  <2>1. /\ pc[b] # "done" /\ pc[b] # "failed" /\ UNCHANGED <<gather, rows, pending, stored>>
        /\ \E to : to \notin {"done", "failed"} /\ pc' = [pc EXCEPT ![b] = to]
    BY <1>5 DEF Enqueue, TakePermit, EnterThrottle, StartRequest, RetryRequest, AcceptOutput,
                InsertFails, store
  <2>2. QED
    BY <2>1, <1>4 DEF RowsInv, RowsOf
<1>6. ASSUME NEW b \in Batch, RollBack(b) \/ CallRaises(b) \/ TaskRaises(b)
      PROVE  RowsInv'
  <2>1. /\ pc[b] # "done" /\ pc'[b] = "failed" /\ gather' \in {"raised", gather}
    BY <1>6 DEF RollBack, CallRaises, TaskRaises, GatherRaises, AfterFailedInsert
  <2>2. QED
    BY <2>1, <1>4 DEF RowsInv
<1>7. ASSUME NEW b \in Batch, ExecuteRow(b) PROVE RowsInv'
  <2>1. /\ pc[b] = "recording" /\ pc' = [pc EXCEPT ![b] = "committing"]
        /\ rows' = [rows EXCEPT ![b] = @ + 1] /\ stored' = stored /\ gather' = gather
        /\ pending' = pending \cup {<<b, rows[b] + 1>>}
    BY <1>7 DEF ExecuteRow
  <2>2. ASSUME \A c \in Batch : pc'[c] # "failed", NEW c \in Batch
        PROVE  Safe(c)'
    <3>1. Safe(c)
      BY <2>1, <2>2 DEF RowsInv
    <3>2. CASE c = b
      <4>1. 1 .. rows'[b] \subseteq (1 .. rows[b]) \cup {rows[b] + 1}
        BY <2>1
      <4>2. QED
        BY <2>1, <3>1, <3>2, <4>1
    <3>3. CASE c # b
      BY <2>1, <3>1, <3>3 DEF RowsOf
    <3>4. QED
      BY <3>2, <3>3
  <2>3. QED
    BY <2>1, <2>2, <1>4 DEF RowsInv
<1>8. ASSUME NEW b \in Batch, CommitRow(b) PROVE RowsInv'
  <2>1. /\ pc[b] = "committing" /\ rows' = rows /\ gather' = gather
        /\ pc' = [pc EXCEPT ![b] = IF rows[b] = RowCount THEN "done" ELSE "recording"]
        /\ stored' = stored \cup pending /\ pending' = {}
    BY <1>8 DEF CommitRow
  <2>2. ASSUME \A c \in Batch : pc'[c] # "failed", NEW c \in Batch
        PROVE  Safe(c)'
    <3>1. Safe(c)
      BY <2>1, <2>2 DEF RowsInv
    <3>2. QED
      BY <2>1, <3>1 DEF RowsOf
  <2>3. QED
    BY <2>1, <2>2, <1>4 DEF RowsInv
<1>9. CASE Cancel \/ Tick
  <2>1. UNCHANGED <<pc, rows, pending, stored>> /\ gather' \in {gather, "cancelled"}
    BY <1>9 DEF Cancel, Tick, store
  <2>2. QED
    BY <2>1 DEF RowsInv, RowsOf
<1>10. QED
  BY <1>2, <1>3, <1>5, <1>6, <1>7, <1>8, <1>9 DEF Next, Task

LEMMA BatchesInvariant == Spec => []BatchesInv
<1>1. Init => BatchesInv
  <2> SUFFICES ASSUME Init PROVE BatchesInv
    OBVIOUS
  <2>1. 0 \in Batch /\ NoBatch \notin Batch
    BY BatchAssumption DEF Batch, NoBatch
  <2>2. TypeOK
    <3>1. caching \in BOOLEAN /\ primed \in BOOLEAN /\ recorded \in BOOLEAN
      BY Zenon DEF Init
    <3>2. lock \in Batch \cup {NoBatch} /\ since \in 0 .. Interval /\ sleep \in Nat
      BY BatchAssumption DEF Init
    <3>3. /\ pc \in [Batch -> PcValues]
          /\ attempts \in [Batch -> Nat] /\ rows \in [Batch -> Nat]
      BY DEF Init, PcValues
    <3>4. QED
      BY <3>1, <3>2, <3>3, Zenon DEF TypeOK
  <2>3. PrimingInv /\ ThrottleInv /\ RowsInv
    BY <2>1 DEF Init, PrimingInv, ThrottleInv, RowsInv, RowsOf
  <2>4. QED
    BY <2>2, <2>3 DEF BatchesInv
<1>2. BatchesInv /\ [Next]_vars => BatchesInv'
  BY BatchesAreTyped, PrimingStep, ThrottleStep, RowsStep DEF BatchesInv
<1>3. QED
  BY <1>1, <1>2, PTL DEF Spec

(* No batch calls the model before the first has primed the prompt cache.  *)
THEOREM FirstCallPrimes == Spec => []CallsFollowPriming
<1>1. BatchesInv => CallsFollowPriming
  BY DEF BatchesInv, PrimingInv, CallsFollowPriming
<1>2. QED
  BY <1>1, BatchesInvariant, PTL

(* A stage that returns has stored the rows of all its batches, although   *)
(* they share one transaction that any of them may roll back.              *)
THEOREM ReturnedRowsAreStored == Spec => []RowsAreStored
<1>1. BatchesInv => RowsAreStored
  BY DEF BatchesInv, RowsInv, RowsAreStored
<1>2. QED
  BY <1>1, BatchesInvariant, PTL

(* Requests start an interval apart, whichever batches send them.          *)
THEOREM IntervalIsKept == Spec => RequestsAreSpaced
<1> DEFINE Spaced == \A b \in Batch : attempts'[b] > attempts[b] /\ recorded
                                        => since = Interval
<1>1. BatchesInv /\ [Next]_vars => [Spaced]_vars
  <2> SUFFICES ASSUME BatchesInv, [Next]_vars PROVE Spaced
    OBVIOUS
  <2>1. ASSUME NEW b \in Batch, StartRequest(b) PROVE Spaced
    <3>1. lock = b /\ sleep = 0 /\ b # NoBatch
      BY <2>1, BatchAssumption
      DEF StartRequest, Move, BatchesInv, ThrottleInv, Batch, NoBatch
    <3>2. recorded => since = Interval
      BY <3>1, BatchAssumption DEF BatchesInv, ThrottleInv, TypeOK
    <3>3. QED
      BY <3>2
  <2>2. CASE UNCHANGED attempts
    BY <2>2 DEF BatchesInv, TypeOK
  <2>3. QED
    BY <2>1, <2>2
    DEF Next, Task, vars, Enqueue, TakePermit, EnterThrottle, RetryRequest, AcceptOutput,
        ExecuteRow, CommitRow, RollBack, CallRaises, TaskRaises, InsertFails,
        Return, Cancel, Tick
<1>2. QED
  BY <1>1, BatchesInvariant, PTL DEF Spec, RequestsAreSpaced

-----------------------------------------------------------------------------
(* VerdictRetry: the answers of one batch                                  *)

(* The places number the positions of a set in their order.                *)
LEMMA PlacesAreInOrder ==
  ASSUME NEW S \in SUBSET Nat, IsFiniteSet(S)
  PROVE  /\ Cardinality(S) \in Nat
         /\ \A i \in S : Place(S, i) \in 1 .. Cardinality(S) /\ Nth(S, Place(S, i)) = i
         /\ \A k \in 1 .. Cardinality(S) : Nth(S, k) \in S /\ Place(S, Nth(S, k)) = k
         /\ \A i, j \in S : i < j <=> Place(S, i) < Place(S, j)
<1> DEFINE UpTo(i) == {j \in S : j <= i}
           place == [i \in S |-> Place(S, i)]
<1>1. Cardinality(S) \in Nat
  BY FS_CardinalityType
<1>2. ASSUME NEW i \in S
      PROVE  /\ IsFiniteSet(UpTo(i)) /\ Place(S, i) \in Nat
             /\ Place(S, i) \in 1 .. Cardinality(S)
  <2>1. UpTo(i) \in SUBSET S /\ i \in UpTo(i)
    OBVIOUS
  <2>2. IsFiniteSet(UpTo(i)) /\ Cardinality(UpTo(i)) <= Cardinality(S)
    BY <2>1, FS_Subset
  <2>3. Cardinality(UpTo(i)) \in Nat /\ Cardinality(UpTo(i)) # 0
    <3> HIDE DEF UpTo
    <3> QED
      BY <2>1, <2>2, FS_CardinalityType, FS_EmptySet
  <2>4. QED
    BY <1>1, <2>2, <2>3 DEF Place
<1>3. ASSUME NEW i \in S, NEW j \in S, i < j PROVE Place(S, i) < Place(S, j)
  <2>1. UpTo(i) \in SUBSET UpTo(j) /\ UpTo(i) # UpTo(j)
    <3>1. i \in Nat /\ j \in Nat /\ j \in UpTo(j) /\ j \notin UpTo(i)
      BY <1>3
    <3>2. \A k \in UpTo(i) : k \in Nat /\ k <= j
      BY <1>3, <3>1
    <3>3. QED
      BY <3>1, <3>2
  <2>2. IsFiniteSet(UpTo(j))
    BY <1>2
  <2>3. /\ Cardinality(UpTo(i)) <= Cardinality(UpTo(j))
        /\ Cardinality(UpTo(i)) # Cardinality(UpTo(j))
    <3> HIDE DEF UpTo
    <3> QED
      BY <2>1, <2>2, FS_Subset
  <2>4. Place(S, i) \in Nat /\ Place(S, j) \in Nat
    BY <1>2
  <2>5. QED
    BY <2>3, <2>4 DEF Place
<1>4. \A i, j \in S : i < j <=> Place(S, i) < Place(S, j)
  <2> SUFFICES ASSUME NEW i \in S, NEW j \in S PROVE i < j <=> Place(S, i) < Place(S, j)
    OBVIOUS
  <2>1. /\ Place(S, i) \in Nat /\ Place(S, j) \in Nat
        /\ i < j => Place(S, i) < Place(S, j)
        /\ j < i => Place(S, j) < Place(S, i)
    BY <1>2, <1>3
  <2>2. CASE i = j
    BY <2>1, <2>2
  <2>3. QED
    BY <2>1, <2>2
<1>5. place \in Injection(S, 1 .. Cardinality(S))
  <2>1. place \in [S -> 1 .. Cardinality(S)]
    BY <1>2
  <2>2. ASSUME NEW i \in S, NEW j \in S, place[i] = place[j] PROVE i = j
    <3>1. Place(S, i) = Place(S, j) /\ Place(S, i) \in Nat
      BY <1>2, <2>2
    <3>2. ~(i < j) /\ ~(j < i)
      BY <1>3, <3>1
    <3>3. QED
      BY <3>2
  <2>3. QED
    BY <2>1, <2>2 DEF Injection, IsInjective
<1>6. IsFiniteSet(1 .. Cardinality(S)) /\ Cardinality(1 .. Cardinality(S)) = Cardinality(S)
  BY <1>1, FS_Interval
<1>7. place \in Surjection(S, 1 .. Cardinality(S))
  <2> HIDE DEF place
  <2> QED
    BY <1>5, <1>6, FS_Injection
<1>8. \A k \in 1 .. Cardinality(S) : \E i \in S : Place(S, i) = k
  BY <1>7 DEF Surjection
<1>9. \A k \in 1 .. Cardinality(S) : Nth(S, k) \in S /\ Place(S, Nth(S, k)) = k
  BY <1>8 DEF Nth
<1>10. ASSUME NEW i \in S PROVE Nth(S, Place(S, i)) = i
  <2>1. Nth(S, Place(S, i)) \in S /\ Place(S, Nth(S, Place(S, i))) = Place(S, i)
    BY <1>2, <1>9
  <2>2. QED
    BY <1>5, <2>1 DEF Injection, IsInjective
<1>11. QED
  BY <1>1, <1>2, <1>4, <1>9, <1>10

(* Positions of a sequence are such a set.                                 *)
LEMMA PositionsArePlaced ==
  ASSUME NEW s \in Seq(Items), NEW S \in SUBSET (DOMAIN s)
  PROVE  S \in SUBSET Nat /\ IsFiniteSet(S) /\ Cardinality(S) <= Len(s)
<1>1. DOMAIN s = 1 .. Len(s) /\ Len(s) \in Nat
  OBVIOUS
<1>2. IsFiniteSet(1 .. Len(s)) /\ Cardinality(1 .. Len(s)) = Len(s)
  <2>1. 1 \in Int /\ Len(s) \in Int /\ Len(s) >= 0
    BY <1>1
  <2>2. QED
    BY <2>1, FS_Interval
<1>3. S \in SUBSET (1 .. Len(s))
  BY <1>1
<1>4. QED
  BY <1>1, <1>2, <1>3, FS_Subset

(* The verdict on an id is the item at the first position that names it.   *)
LEMMA FirstIsTheVerdict ==
  ASSUME NEW items \in Seq(Items), NEW id, NEW i \in DOMAIN items, items[i].id = id,
         \A j \in DOMAIN items : items[j].id = id => i <= j
  PROVE  VerdictOn(items, id) = items[i]
<1>1. ASSUME NEW k \in DOMAIN items, items[k].id = id,
             \A j \in DOMAIN items : items[j].id = id => k <= j
      PROVE  k = i
  <2>1. k <= i /\ i <= k /\ k \in Nat /\ i \in Nat
    BY <1>1
  <2>2. QED
    BY <2>1
<1>2. QED
  BY <1>1 DEF VerdictOn

(* Some position is the first.                                             *)
LEMMA FirstExists ==
  ASSUME NEW items \in Seq(Items), NEW id \in IdsOf(items)
  PROVE  \E i \in DOMAIN items :
           items[i].id = id /\ \A j \in DOMAIN items : items[j].id = id => i <= j
<1> DEFINE S == {i \in DOMAIN items : items[i].id = id}
<1>1. S \in SUBSET (DOMAIN items) /\ S # {}
  BY DEF IdsOf
<1>2. S \in SUBSET Nat /\ IsFiniteSet(S)
  <2> HIDE DEF S
  <2> QED
    BY <1>1, PositionsArePlaced
<1>3. \E i \in S : \A j \in S : i <= j
  <2> HIDE DEF S
  <2>1. PICK e \in S : TRUE
    BY <1>1
  <2>2. 1 \in 1 .. Cardinality(S)
    BY <1>2, <2>1, PlacesAreInOrder
  <2>3. Nth(S, 1) \in S /\ Place(S, Nth(S, 1)) = 1
    BY <1>2, <2>2, PlacesAreInOrder
  <2>4. ASSUME NEW j \in S PROVE Nth(S, 1) <= j
    <3>1. Place(S, j) \in 1 .. Cardinality(S) /\ Cardinality(S) \in Nat
      BY <1>2, PlacesAreInOrder
    <3>2. j < Nth(S, 1) <=> Place(S, j) < Place(S, Nth(S, 1))
      BY <1>2, <2>3, PlacesAreInOrder
    <3>3. j \in Nat /\ Nth(S, 1) \in Nat
      BY <1>2, <2>3
    <3>4. Place(S, j) >= 1 /\ Place(S, j) \in Nat
      BY <3>1
    <3>5. ~(j < Nth(S, 1))
      BY <2>3, <3>2, <3>4
    <3>6. QED
      BY <3>3, <3>5
  <2>5. QED
    BY <2>3, <2>4
<1>4. QED
  BY <1>3

(* What a sequence of items has at a position is an item.                  *)
LEMMA ItemsAreItems ==
  ASSUME NEW s \in Seq(Items)
  PROVE  \A i \in DOMAIN s : s[i] \in Items
OBVIOUS

(* A correction is an item about the id it corrects.                       *)
LEMMA FixesKeepIds ==
  ASSUME RetryTypeOK, NEW item \in Items
  PROVE  /\ FixOf(item) \in Items /\ FixOf(item).id = item.id
         /\ item.id \notin IdsOf(response) => FixOf(item) = item
<1>1. CASE item.id \in IdsOf(response)
  <2> DEFINE at == CHOOSE i \in DOMAIN response : response[i].id = item.id
  <2>1. \E i \in DOMAIN response : response[i].id = item.id
    BY <1>1 DEF IdsOf
  <2>2. at \in DOMAIN response /\ response[at].id = item.id
    BY <2>1
  <2>3. FixFor(item.id).id = item.id /\ FixFor(item.id) \in Items
    <3>1. FixFor(item.id) = response[at]
      BY DEF FixFor
    <3>2. \A i \in DOMAIN response : response[i] \in Items
      <4>1. response \in Seq(Items)
        BY DEF RetryTypeOK
      <4>2. QED
        BY <4>1, ItemsAreItems
    <3> HIDE DEF at
    <3>3. QED
      BY <2>2, <3>1, <3>2
  <2>4. QED
    BY <1>1, <2>3 DEF FixOf
<1>2. CASE item.id \notin IdsOf(response)
  BY <1>2 DEF FixOf
<1>3. QED
  BY <1>1, <1>2

(* The two parts of a merged output.                                       *)
LEMMA PartsOfMerged ==
  ASSUME RetryTypeOK
  PROVE  /\ Fixed \in Seq(Items) /\ Len(Fixed) = Cardinality(KnownAt)
         /\ Appended \in Seq(Items) /\ Len(Appended) = Cardinality(MissingAt)
         /\ \A k \in DOMAIN Fixed : /\ Nth(KnownAt, k) \in KnownAt
                                    /\ Fixed[k].id = output[Nth(KnownAt, k)].id
         /\ \A i \in KnownAt : /\ Place(KnownAt, i) \in DOMAIN Fixed
                               /\ Fixed[Place(KnownAt, i)] = FixOf(output[i])
         /\ \A k \in DOMAIN Appended : Appended[k].id \in MergeMissing
         /\ \A i \in MissingAt : Place(MissingAt, i) \in DOMAIN Appended
                                 /\ Appended[Place(MissingAt, i)] = response[i]
<1>1. /\ output \in Seq(Items) /\ KnownAt \in SUBSET (DOMAIN output)
      /\ response \in Seq(Items) /\ MissingAt \in SUBSET (DOMAIN response)
  BY DEF RetryTypeOK, KnownAt, MissingAt
<1>2. /\ KnownAt \in SUBSET Nat /\ IsFiniteSet(KnownAt)
      /\ MissingAt \in SUBSET Nat /\ IsFiniteSet(MissingAt)
  BY <1>1, PositionsArePlaced
<1>3. /\ Cardinality(KnownAt) \in Nat
      /\ \A k \in 1 .. Cardinality(KnownAt) : Nth(KnownAt, k) \in KnownAt
      /\ \A i \in KnownAt : Place(KnownAt, i) \in 1 .. Cardinality(KnownAt)
                            /\ Nth(KnownAt, Place(KnownAt, i)) = i
  BY <1>2, PlacesAreInOrder
<1>4. /\ Cardinality(MissingAt) \in Nat
      /\ \A k \in 1 .. Cardinality(MissingAt) : Nth(MissingAt, k) \in MissingAt
      /\ \A i \in MissingAt : Place(MissingAt, i) \in 1 .. Cardinality(MissingAt)
                              /\ Nth(MissingAt, Place(MissingAt, i)) = i
  BY <1>2, PlacesAreInOrder
<1>5. \A i \in KnownAt : /\ FixOf(output[i]) \in Items
                         /\ FixOf(output[i]).id = output[i].id
  BY <1>1, FixesKeepIds
<1>6. \A i \in MissingAt : response[i] \in Items /\ response[i].id \in MergeMissing
  BY <1>1 DEF MissingAt
<1>7. Fixed \in [1 .. Cardinality(KnownAt) -> Items]
  BY <1>3, <1>5 DEF Fixed
<1>8. Appended \in [1 .. Cardinality(MissingAt) -> Items]
  BY <1>4, <1>6 DEF Appended
<1>9. /\ Fixed \in Seq(Items) /\ Len(Fixed) = Cardinality(KnownAt)
      /\ DOMAIN Fixed = 1 .. Cardinality(KnownAt)
  BY <1>3, <1>7
<1>10. /\ Appended \in Seq(Items) /\ Len(Appended) = Cardinality(MissingAt)
       /\ DOMAIN Appended = 1 .. Cardinality(MissingAt)
  BY <1>4, <1>8
<1>11. /\ \A k \in DOMAIN Fixed : /\ Nth(KnownAt, k) \in KnownAt
                                  /\ Fixed[k].id = output[Nth(KnownAt, k)].id
       /\ \A i \in KnownAt : /\ Place(KnownAt, i) \in DOMAIN Fixed
                             /\ Fixed[Place(KnownAt, i)] = FixOf(output[i])
  BY <1>3, <1>5, <1>9 DEF Fixed
<1>12. /\ \A k \in DOMAIN Appended : Appended[k].id \in MergeMissing
       /\ \A i \in MissingAt : Place(MissingAt, i) \in DOMAIN Appended
                               /\ Appended[Place(MissingAt, i)] = response[i]
  BY <1>4, <1>6, <1>10 DEF Appended
<1>13. QED
  BY <1>9, <1>10, <1>11, <1>12

(* The merged output is one part after the other.                          *)
LEMMA MergedIsInParts ==
  ASSUME RetryTypeOK
  PROVE  /\ CriticMerged \in Seq(Items)
         /\ DOMAIN CriticMerged = 1 .. Len(Fixed) + Len(Appended)
         /\ \A k \in 1 .. Len(Fixed) : CriticMerged[k] = Fixed[k]
         /\ \A k \in 1 .. Len(Appended) : CriticMerged[Len(Fixed) + k] = Appended[k]
         /\ DOMAIN Fixed = 1 .. Len(Fixed) /\ Len(Fixed) \in Nat
         /\ DOMAIN Appended = 1 .. Len(Appended) /\ Len(Appended) \in Nat
         /\ \A k \in DOMAIN CriticMerged :
              k \in DOMAIN Fixed \/ \E j \in DOMAIN Appended : k = Len(Fixed) + j
<1>1. Fixed \in Seq(Items) /\ Appended \in Seq(Items)
  BY PartsOfMerged
<1>2. /\ CriticMerged \in Seq(Items)
      /\ DOMAIN CriticMerged = 1 .. Len(Fixed) + Len(Appended)
      /\ \A k \in 1 .. Len(Fixed) : CriticMerged[k] = Fixed[k]
      /\ \A k \in 1 .. Len(Appended) : CriticMerged[Len(Fixed) + k] = Appended[k]
  BY <1>1 DEF CriticMerged
<1>3. /\ DOMAIN Fixed = 1 .. Len(Fixed) /\ Len(Fixed) \in Nat
      /\ DOMAIN Appended = 1 .. Len(Appended) /\ Len(Appended) \in Nat
  BY <1>1
<1>4. ASSUME NEW k \in DOMAIN CriticMerged, k \notin DOMAIN Fixed
      PROVE  \E j \in DOMAIN Appended : k = Len(Fixed) + j
  <2>1. k - Len(Fixed) \in DOMAIN Appended /\ k = Len(Fixed) + (k - Len(Fixed))
    BY <1>2, <1>3, <1>4
  <2>2. QED
    BY <2>1
<1>5. QED
  BY <1>2, <1>3, <1>4

(* A critic's output after a merge has exactly the ids of the batch.       *)
LEMMA MergedIsComplete ==
  ASSUME RetryTypeOK, stage = "critic", complaints = Complaints, CriticFixes
  PROVE  CriticMerged \in Seq(Items) /\ IdsOf(CriticMerged) = Expected
<1>1. /\ Fixed \in Seq(Items) /\ Appended \in Seq(Items)
      /\ \A k \in DOMAIN Fixed : /\ Nth(KnownAt, k) \in KnownAt
                                 /\ Fixed[k].id = output[Nth(KnownAt, k)].id
      /\ \A i \in KnownAt : /\ Place(KnownAt, i) \in DOMAIN Fixed
                            /\ Fixed[Place(KnownAt, i)] = FixOf(output[i])
      /\ \A k \in DOMAIN Appended : Appended[k].id \in MergeMissing
      /\ \A i \in MissingAt : Place(MissingAt, i) \in DOMAIN Appended
                              /\ Appended[Place(MissingAt, i)] = response[i]
  BY PartsOfMerged
<1>2. IdsOf(Fixed) = IdsOf(output) \cap Expected
  <2>1. ASSUME NEW i \in KnownAt PROVE FixOf(output[i]).id = output[i].id
    <3>1. output \in Seq(Items) /\ i \in DOMAIN output
      BY DEF RetryTypeOK, KnownAt
    <3>2. output[i] \in Items
      BY <3>1, ItemsAreItems
    <3>3. QED
      BY <3>2, FixesKeepIds
  <2>2. IdsOf(Fixed) \subseteq IdsOf(output) \cap Expected
    BY <1>1 DEF IdsOf, KnownAt, Known
  <2>3. ASSUME NEW i \in DOMAIN output, output[i].id \in Expected
        PROVE  output[i].id \in IdsOf(Fixed)
    <3>1. i \in KnownAt
      BY <2>3 DEF KnownAt, Known
    <3>2. Fixed[Place(KnownAt, i)].id = output[i].id /\ Place(KnownAt, i) \in DOMAIN Fixed
      BY <1>1, <2>1, <3>1
    <3>3. QED
      BY <3>2 DEF IdsOf
  <2>4. QED
    BY <2>2, <2>3 DEF IdsOf
<1>3. IdsOf(Appended) = MergeMissing
  <2>1. ASSUME NEW i \in DOMAIN response, response[i].id \in MergeMissing
        PROVE  response[i].id \in IdsOf(Appended)
    <3>1. i \in MissingAt
      BY <2>1 DEF MissingAt
    <3>2. QED
      BY <1>1, <3>1 DEF IdsOf
  <2>2. QED
    BY <1>1, <2>1 DEF IdsOf, MergeMissing
<1>4. CriticMerged \in Seq(Items) /\ IdsOf(CriticMerged) = IdsOf(Fixed) \cup IdsOf(Appended)
  <2>1. /\ CriticMerged \in Seq(Items)
        /\ DOMAIN CriticMerged = 1 .. Len(Fixed) + Len(Appended)
        /\ \A k \in 1 .. Len(Fixed) : CriticMerged[k] = Fixed[k]
        /\ \A k \in 1 .. Len(Appended) : CriticMerged[Len(Fixed) + k] = Appended[k]
        /\ DOMAIN Fixed = 1 .. Len(Fixed) /\ Len(Fixed) \in Nat
        /\ DOMAIN Appended = 1 .. Len(Appended) /\ Len(Appended) \in Nat
    BY MergedIsInParts
  <2>3. \A k \in DOMAIN CriticMerged :
          k \in DOMAIN Fixed \/ \E j \in DOMAIN Appended : k = Len(Fixed) + j
    BY MergedIsInParts
  <2>4. ASSUME NEW k \in DOMAIN CriticMerged
        PROVE  CriticMerged[k].id \in IdsOf(Fixed) \cup IdsOf(Appended)
    BY <2>1, <2>3 DEF IdsOf
  <2>5. ASSUME NEW k \in DOMAIN Fixed PROVE Fixed[k].id \in IdsOf(CriticMerged)
    <3>1. k \in DOMAIN CriticMerged /\ CriticMerged[k] = Fixed[k]
      BY <2>1
    <3>2. QED
      BY <3>1 DEF IdsOf
  <2>6. ASSUME NEW k \in DOMAIN Appended PROVE Appended[k].id \in IdsOf(CriticMerged)
    <3>1. /\ Len(Fixed) + k \in DOMAIN CriticMerged
          /\ CriticMerged[Len(Fixed) + k] = Appended[k]
      BY <2>1
    <3>2. QED
      BY <3>1 DEF IdsOf
  <2>7. QED
    BY <2>1, <2>4, <2>5, <2>6 DEF IdsOf
<1>5. Expected \ IdsOf(output) \subseteq complaints
  BY DEF Complaints, CriticComplaints, Omissions
<1>6. QED
  BY <1>2, <1>3, <1>4, <1>5 DEF CriticFixes, MergeMissing

(* The verdict on an id that was there and is not corrected stays: the     *)
(* first item that names it is still the first.                            *)
LEMMA VerdictsStay ==
  ASSUME RetryTypeOK, NEW id \in IdsOf(output) \cap Expected, id \notin IdsOf(response)
  PROVE  VerdictOn(CriticMerged, id) = VerdictOn(output, id)
<1>1. output \in Seq(Items)
  BY DEF RetryTypeOK
<1>2. PICK i \in DOMAIN output :
        output[i].id = id /\ \A j \in DOMAIN output : output[j].id = id => i <= j
  BY <1>1, FirstExists
<1>3. VerdictOn(output, id) = output[i]
  BY <1>1, <1>2, FirstIsTheVerdict
<1>4. /\ KnownAt \in SUBSET (DOMAIN output) /\ i \in KnownAt
      /\ KnownAt \in SUBSET Nat /\ IsFiniteSet(KnownAt)
  <2>1. KnownAt \in SUBSET (DOMAIN output) /\ i \in KnownAt
    BY <1>2 DEF KnownAt, Known
  <2>2. QED
    BY <1>1, <2>1, PositionsArePlaced
<1> DEFINE p == Place(KnownAt, i)
<1>5. p \in DOMAIN Fixed /\ Fixed[p] = output[i]
  <2>1. output[i] \in Items
    BY <1>1, ItemsAreItems
  <2>2. FixOf(output[i]) = output[i]
    BY <1>2, <2>1, FixesKeepIds
  <2>3. QED
    BY <1>4, <2>2, PartsOfMerged
<1>6. p \in DOMAIN CriticMerged /\ CriticMerged[p] = output[i]
  <2> HIDE DEF p
  <2>1. p \in 1 .. Len(Fixed)
    BY <1>5, MergedIsInParts
  <2>2. p \in 1 .. Len(Fixed) + Len(Appended)
    BY <2>1, MergedIsInParts
  <2>3. QED
    BY <1>5, <2>1, <2>2, MergedIsInParts
<1>7. ASSUME NEW k \in DOMAIN CriticMerged, CriticMerged[k].id = id PROVE p <= k
  <2>1. CASE k \in DOMAIN Fixed
    <3> DEFINE j == Nth(KnownAt, k)
    <3>1. j \in KnownAt /\ Fixed[k].id = output[j].id
      BY <2>1, PartsOfMerged
    <3>2. CriticMerged[k] = Fixed[k] /\ k \in 1 .. Len(Fixed)
      BY <2>1, MergedIsInParts
    <3>3. i <= j
      BY <1>2, <1>4, <1>7, <3>1, <3>2
    <3>4. Place(KnownAt, j) = k
      <4>1. Len(Fixed) = Cardinality(KnownAt)
        BY PartsOfMerged
      <4>2. QED
        BY <1>4, <3>2, <4>1, PlacesAreInOrder
    <3>5. p <= Place(KnownAt, j)
      <4> HIDE DEF j
      <4>1. /\ p \in 1 .. Cardinality(KnownAt) /\ Place(KnownAt, j) \in 1 .. Cardinality(KnownAt)
            /\ j < i <=> Place(KnownAt, j) < p
        BY <1>4, <3>1, PlacesAreInOrder
      <4>2. i \in Nat /\ j \in Nat
        BY <1>4, <3>1
      <4> HIDE DEF p
      <4>3. ~(Place(KnownAt, j) < p)
        BY <3>3, <4>1, <4>2
      <4>4. p \in Nat /\ Place(KnownAt, j) \in Nat
        BY <4>1
      <4>5. QED
        BY <4>3, <4>4
    <3>6. QED
      BY <3>4, <3>5
  <2>2. CASE k \notin DOMAIN Fixed
    <3> HIDE DEF p
    <3>1. PICK j \in DOMAIN Appended : k = Len(Fixed) + j
      BY <2>2, MergedIsInParts
    <3>2. /\ p \in 1 .. Len(Fixed) /\ Len(Fixed) \in Nat
          /\ j \in 1 .. Len(Appended) /\ Len(Appended) \in Nat
      BY <1>5, MergedIsInParts
    <3>3. QED
      BY <3>1, <3>2
  <2>3. QED
    BY <2>1, <2>2
<1>8. VerdictOn(CriticMerged, id) = output[i]
  <2>1. CriticMerged \in Seq(Items)
    BY MergedIsInParts
  <2> HIDE DEF p
  <2>2. CriticMerged[p].id = id
    BY <1>2, <1>6
  <2>3. VerdictOn(CriticMerged, id) = CriticMerged[p]
    BY <1>6, <1>7, <2>1, <2>2, FirstIsTheVerdict
  <2>4. QED
    BY <1>6, <2>3
<1>9. QED
  BY <1>3, <1>8

(* The executor's merge touches nothing but what it was told to correct.   *)
LEMMA CandidatesStay ==
  ASSUME RetryTypeOK, complaints = ExecutorComplaints, ExecutorFixes
  PROVE  /\ ExecutorMerged \in Seq(Items) /\ Len(ExecutorMerged) = Len(output)
         /\ DOMAIN ExecutorMerged = DOMAIN output
         /\ \A i \in (DOMAIN output) \ complaints : ExecutorMerged[i] = output[i]
<1>1. /\ output \in Seq(Items) /\ response \in Seq(Items)
      /\ complaints \in SUBSET (DOMAIN output)
  BY DEF RetryTypeOK, ExecutorComplaints
<1>2. complaints \in SUBSET Nat /\ IsFiniteSet(complaints)
  BY <1>1, PositionsArePlaced
<1>3. \A i \in complaints : Place(complaints, i) \in DOMAIN response
  <2>1. \A i \in complaints : Place(complaints, i) \in 1 .. Cardinality(complaints)
    BY <1>2, PlacesAreInOrder
  <2>2. QED
    BY <1>1, <2>1 DEF ExecutorFixes
<1>4. \A i \in complaints : response[Place(complaints, i)] \in Items
  BY <1>1, <1>3, ItemsAreItems
<1>5. \A i \in DOMAIN output : output[i] \in Items
  BY <1>1, ItemsAreItems
<1>6. Len(output) \in Nat /\ DOMAIN output = 1 .. Len(output)
  BY <1>1
<1>7. ExecutorMerged \in [1 .. Len(output) -> Items]
  BY <1>4, <1>5, <1>6 DEF ExecutorMerged
<1>8. ExecutorMerged \in Seq(Items) /\ Len(ExecutorMerged) = Len(output)
  BY <1>6, <1>7
<1>9. QED
  BY <1>6, <1>7, <1>8 DEF ExecutorMerged

-----------------------------------------------------------------------------
(* An answer of the model is a sequence of items of that call.             *)
LEMMA AnswersAreTyped ==
  ASSUME stage \in {"critic", "executor"}, NEW call \in 1 .. MaxRetries + 1,
         NEW answer \in Answers(call)
  PROVE  answer \in Seq(Items)
<1>1. ItemsOf(call) \subseteq Items
  BY DEF ItemsOf, Items, Ids
<1>2. PICK n \in 0 .. MaxLength : answer \in [1 .. n -> ItemsOf(call)]
  BY DEF Answers
<1>3. n \in Nat /\ answer \in [1 .. n -> Items]
  BY <1>1, <1>2, RetryAssumption
<1>4. QED
  BY <1>3

(* Every step of a batch keeps its invariant.                              *)
LEMMA RetryStep ==
  ASSUME RetryTypeOK, RetryInv, ReturnedIsComplete, RetryNext
  PROVE  RetryTypeOK' /\ RetryInv' /\ ReturnedIsComplete'
<1>1. MaxRetries \in Nat /\ calls \in Nat /\ calls <= MaxRetries + 1
  <2>1. calls \in 0 .. MaxRetries + 1
    BY Zenon DEF RetryTypeOK
  <2>2. QED
    BY <2>1, RetryAssumption
<1>2. CASE FirstCall
  <2>1. stage \in {"critic", "executor"} /\ 1 \in 1 .. MaxRetries + 1
    <3>1. stage \in {"critic", "executor"}
      BY Zenon DEF RetryTypeOK
    <3>2. QED
      BY <1>1, <3>1
  <2>2. output' \in Seq(Items) /\ response' \in Seq(Items)
    BY <1>2, <2>1, AnswersAreTyped DEF FirstCall, RetryTypeOK
  <2>3. /\ stage' = stage /\ calls' = 1 /\ step' = "validate"
        /\ ending' = ending /\ ending = "none"
    BY <1>2 DEF FirstCall, RetryInv
  <2>4. RetryTypeOK'
    BY <1>1, <2>1, <2>2, <2>3 DEF RetryTypeOK
  <2>5. RetryInv'
    BY <2>3 DEF RetryInv
  <2>6. ReturnedIsComplete'
    BY <2>3 DEF ReturnedIsComplete
  <2>7. QED
    BY <2>4, <2>5, <2>6
<1>3. CASE Validate
  <2>1. /\ UNCHANGED <<stage, output, response, calls>>
        /\ step = "validate" /\ ending = "none" /\ calls >= 1
        /\ stage = "critic" /\ calls > 1 => IdsOf(output) = Expected
    BY <1>3 DEF Validate, RetryInv
  <2>2. /\ step' \in {"retry", "returned"}
        /\ ending' \in {"none", "exhausted", "accepted"}
        /\ step' = "retry" => complaints' = Complaints /\ RetryLeft /\ ending' = "none"
        /\ ending' = "accepted" => Complaints = {}
    BY <1>3, <2>1 DEF Validate, ReturnAs
  <2>3. RetryTypeOK'
    BY <2>1, <2>2 DEF RetryTypeOK
  <2>4. Complaints' = Complaints
    BY <2>1 DEF Complaints, CriticComplaints, ExecutorComplaints, Omissions, IdsOf
  <2>5. RetryInv'
    BY <1>1, <2>1, <2>2, <2>4 DEF RetryInv, RetryLeft
  <2>6. ASSUME ending' = "accepted"
        PROVE  /\ stage = "critic" => IdsOf(output) = Expected
               /\ \A i \in DOMAIN output : output[i].sound
    <3>1. Complaints = {}
      BY <2>2, <2>6
    <3>2. CASE stage = "critic"
      BY <3>1, <3>2 DEF Complaints, CriticComplaints, Omissions
    <3>3. CASE stage # "critic"
      BY <3>1, <3>3 DEF Complaints, ExecutorComplaints
    <3>4. QED
      BY <3>2, <3>3
  <2>7. IdsOf(output)' = IdsOf(output)
    BY <2>1 DEF IdsOf
  <2>8. ReturnedIsComplete'
    BY <2>1, <2>6, <2>7 DEF ReturnedIsComplete
  <2>9. QED
    BY <2>3, <2>5, <2>8
<1>4. CASE RetryCall
  <2>1. /\ UNCHANGED <<stage, output, complaints, ending>>
        /\ step = "retry" /\ step' = "merge" /\ calls' = calls + 1
        /\ calls >= 1 /\ calls <= MaxRetries /\ ending = "none"
        /\ complaints = Complaints
    BY <1>4 DEF RetryCall, NextCall, RetryInv
  <2>2. calls + 1 \in 1 .. MaxRetries + 1
    BY <1>1, <2>1
  <2>3. response' \in Seq(Items)
    <3>1. response' \in Answers(calls + 1) /\ stage \in {"critic", "executor"}
      BY <1>4 DEF RetryCall, NextCall, RetryTypeOK
    <3>2. QED
      BY <2>2, <3>1, AnswersAreTyped
  <2>4. RetryTypeOK'
    BY <2>1, <2>2, <2>3 DEF RetryTypeOK
  <2>5. Complaints' = Complaints
    BY <2>1 DEF Complaints, CriticComplaints, ExecutorComplaints, Omissions, IdsOf
  <2>6. RetryInv'
    BY <2>1, <2>2, <2>5 DEF RetryInv
  <2>7. ReturnedIsComplete'
    BY <2>1 DEF ReturnedIsComplete
  <2>8. QED
    BY <2>4, <2>6, <2>7
<1>5. CASE RetryRaises
  <2>1. /\ UNCHANGED <<stage, output, response, complaints, calls>>
        /\ ending' = "raised" /\ step' = "returned"
    BY <1>5 DEF RetryRaises
  <2>2. QED
    BY <2>1 DEF RetryTypeOK, RetryInv, ReturnedIsComplete
<1>6. CASE Merge
  <2>1. /\ UNCHANGED <<stage, response, complaints, calls, ending>>
        /\ step = "merge" /\ step' = "validate" /\ ending = "none" /\ calls >= 1
        /\ complaints = Complaints /\ CanMerge /\ output' = Merged
    BY <1>6 DEF Merge, RetryInv
  <2>2. output' \in Seq(Items) /\ (stage = "critic" => IdsOf(output') = Expected)
    <3>1. CASE stage = "critic"
      <4>1. CriticFixes /\ output' = CriticMerged
        BY <2>1, <3>1 DEF CanMerge, Merged
      <4>2. CriticMerged \in Seq(Items) /\ IdsOf(CriticMerged) = Expected
        BY <2>1, <3>1, <4>1, MergedIsComplete
      <4>3. QED
        BY <4>1, <4>2
    <3>2. CASE stage # "critic"
      <4>1. ExecutorFixes /\ complaints = ExecutorComplaints /\ output' = ExecutorMerged
        BY <2>1, <3>2 DEF CanMerge, Merged, Complaints
      <4>2. ExecutorMerged \in Seq(Items)
        BY <4>1, CandidatesStay
      <4>3. QED
        BY <3>2, <4>1, <4>2
    <3>3. QED
      BY <3>1, <3>2
  <2>3. RetryTypeOK'
    BY <2>1, <2>2 DEF RetryTypeOK
  <2>4. IdsOf(output)' = IdsOf(output')
    BY DEF IdsOf
  <2>5. RetryInv'
    BY <2>1, <2>2, <2>4 DEF RetryInv
  <2>6. ReturnedIsComplete'
    BY <2>1 DEF ReturnedIsComplete
  <2>7. QED
    BY <2>3, <2>5, <2>6
<1>7. CASE MergeError
  <2>1. /\ UNCHANGED <<stage, response, complaints, calls>>
        /\ output' = output /\ ending' = "merge error" /\ step' = "returned"
    BY <1>7 DEF MergeError, OutputSoFar, ReturnAs
  <2>2. QED
    BY <2>1 DEF RetryTypeOK, RetryInv, ReturnedIsComplete
<1>8. QED
  BY <1>2, <1>3, <1>4, <1>5, <1>6, <1>7 DEF RetryNext

(* The invariant of a batch's answers.                                     *)
LEMMA RetryInvariant == RetrySpec => [](RetryTypeOK /\ RetryInv /\ ReturnedIsComplete)
<1>1. RetryInit => RetryTypeOK /\ RetryInv /\ ReturnedIsComplete
  <2> SUFFICES ASSUME RetryInit PROVE RetryTypeOK /\ RetryInv /\ ReturnedIsComplete
    OBVIOUS
  <2>1. /\ stage \in {"critic", "executor"} /\ output = <<>> /\ response = <<>>
        /\ complaints = {} /\ calls = 0 /\ ending = "none" /\ step = "call"
    BY DEF RetryInit
  <2>2. 0 \in 0 .. MaxRetries + 1
    BY RetryAssumption
  <2>3. RetryTypeOK
    BY <2>1, <2>2 DEF RetryTypeOK
  <2>4. RetryInv /\ ReturnedIsComplete
    BY <2>1 DEF RetryInv, ReturnedIsComplete
  <2>5. QED
    BY <2>3, <2>4
<1>2. /\ RetryTypeOK /\ RetryInv /\ ReturnedIsComplete
      /\ [RetryNext]_retrying
      => RetryTypeOK' /\ RetryInv' /\ ReturnedIsComplete'
  <2> SUFFICES ASSUME RetryTypeOK, RetryInv, ReturnedIsComplete, [RetryNext]_retrying
               PROVE  RetryTypeOK' /\ RetryInv' /\ ReturnedIsComplete'
    OBVIOUS
  <2>1. CASE RetryNext
    BY <2>1, RetryStep
  <2>2. CASE UNCHANGED retrying
    <3>1. UNCHANGED <<stage, output, response, complaints, calls, ending, step>>
      BY <2>2 DEF retrying
    <3>2. Complaints' = Complaints /\ IdsOf(output)' = IdsOf(output)
      BY <3>1 DEF Complaints, CriticComplaints, ExecutorComplaints, Omissions, IdsOf
    <3>3. QED
      BY <3>1, <3>2 DEF RetryTypeOK, RetryInv, ReturnedIsComplete
  <2>3. QED
    BY <2>1, <2>2
<1>3. QED
  BY <1>1, <1>2, PTL DEF RetrySpec

(* What a stage is given as accepted has nothing to complain about, and    *)
(* what the critic is given after a merge has a verdict on exactly the ids *)
(* of its batch (complete_structured_with_retry, merge_critic_batch).      *)
THEOREM AcceptedIsComplete == RetrySpec => []ReturnedIsComplete
<1>1. RetryTypeOK /\ RetryInv /\ ReturnedIsComplete => ReturnedIsComplete
  OBVIOUS
<1>2. QED
  BY <1>1, RetryInvariant, PTL

(* A retry leaves alone what nobody complained about: the critic's verdict *)
(* on the id, the executor's candidate at the index.                       *)
THEOREM DisputesAreLocal == RetrySpec => UndisputedItemsStay
<1> DEFINE Stays ==
      /\ stage = "critic" =>
           \A id \in (IdsOf(output) \cap Expected) \ complaints :
             id \in IdsOf(output') /\ VerdictOn(output', id) = VerdictOn(output, id)
      /\ stage = "executor" =>
           \A i \in (DOMAIN output) \ complaints :
             i \in DOMAIN output' /\ output'[i] = output[i]
<1>1. RetryTypeOK /\ RetryInv /\ [RetryNext]_retrying => Stays
  <2> SUFFICES ASSUME RetryTypeOK, RetryInv, [RetryNext]_retrying PROVE Stays
    OBVIOUS
  <2>1. CASE output' = output
    BY <2>1
  <2>2. CASE FirstCall
    <3>1. output = <<>>
      BY <2>2 DEF FirstCall, RetryInv
    <3>2. DOMAIN output = {} /\ IdsOf(output) = {}
      BY <3>1 DEF IdsOf
    <3>3. QED
      BY <3>2
  <2>3. CASE Merge
    <3>1. CanMerge /\ complaints = Complaints /\ output' = Merged
      BY <2>3 DEF Merge, RetryInv
    <3>2. ASSUME stage = "critic", NEW id \in (IdsOf(output) \cap Expected) \ complaints
          PROVE  id \in IdsOf(output') /\ VerdictOn(output', id) = VerdictOn(output, id)
      <4>1. CriticFixes /\ output' = CriticMerged
        BY <3>1, <3>2 DEF CanMerge, Merged
      <4>2. id \notin IdsOf(response)
        BY <3>2, <4>1 DEF CriticFixes
      <4>3. VerdictOn(CriticMerged, id) = VerdictOn(output, id)
        BY <3>2, <4>2, VerdictsStay
      <4>4. IdsOf(CriticMerged) = Expected
        BY <3>1, <3>2, <4>1, MergedIsComplete
      <4>5. QED
        BY <3>2, <4>1, <4>3, <4>4
    <3>3. ASSUME stage = "executor", NEW i \in (DOMAIN output) \ complaints
          PROVE  i \in DOMAIN output' /\ output'[i] = output[i]
      <4>1. ExecutorFixes /\ complaints = ExecutorComplaints /\ output' = ExecutorMerged
        BY <3>1, <3>3 DEF CanMerge, Merged, Complaints
      <4>2. QED
        BY <3>3, <4>1, CandidatesStay
    <3>4. QED
      BY <3>2, <3>3
  <2>4. QED
    BY <2>1, <2>2, <2>3
       DEF RetryNext, Validate, RetryCall, RetryRaises, MergeError, OutputSoFar, retrying
<1>2. RetryTypeOK /\ RetryInv /\ [RetryNext]_retrying => [Stays]_<<output, step>>
  BY <1>1
<1>3. QED
  BY <1>2, RetryInvariant, PTL DEF RetrySpec, UndisputedItemsStay

(* A retry never loses a verdict or a candidate that was there.            *)
THEOREM NothingIsLost == RetrySpec => RetriesNeverLose
<1> DEFINE Kept ==
      calls >= 1 =>
        /\ stage = "critic" => IdsOf(output) \cap Expected \subseteq IdsOf(output')
        /\ stage = "executor" => Len(output') = Len(output)
<1>1. RetryTypeOK /\ RetryInv /\ [RetryNext]_retrying => Kept
  <2> SUFFICES ASSUME RetryTypeOK, RetryInv, [RetryNext]_retrying PROVE Kept
    OBVIOUS
  <2>1. CASE output' = output
    BY <2>1
  <2>2. CASE FirstCall
    BY <2>2 DEF FirstCall, RetryInv
  <2>3. CASE Merge
    <3>1. CanMerge /\ complaints = Complaints /\ output' = Merged
      BY <2>3 DEF Merge, RetryInv
    <3>2. ASSUME stage = "critic" PROVE IdsOf(output') = Expected
      <4>1. CriticFixes /\ output' = CriticMerged
        BY <3>1, <3>2 DEF CanMerge, Merged
      <4>2. QED
        BY <3>1, <3>2, <4>1, MergedIsComplete
    <3>3. ASSUME stage = "executor" PROVE Len(output') = Len(output)
      <4>1. ExecutorFixes /\ complaints = ExecutorComplaints /\ output' = ExecutorMerged
        BY <3>1, <3>3 DEF CanMerge, Merged, Complaints
      <4>2. QED
        BY <4>1, CandidatesStay
    <3>4. QED
      BY <3>2, <3>3
  <2>4. QED
    BY <2>1, <2>2, <2>3
       DEF RetryNext, Validate, RetryCall, RetryRaises, MergeError, OutputSoFar, retrying
<1>2. RetryTypeOK /\ RetryInv /\ [RetryNext]_retrying => [Kept]_retrying
  BY <1>1
<1>3. QED
  BY <1>2, RetryInvariant, PTL DEF RetrySpec, RetriesNeverLose
=============================================================================
