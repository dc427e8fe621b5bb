---------------------------- MODULE StageBatches ----------------------------
(***************************************************************************)
(* How a stage runs its batches: the asyncio.gather of execute_plan,       *)
(* review_candidates and verify_candidates.  A batch waits until the first *)
(* one has primed the prompt cache, takes a permit of the stage's          *)
(* semaphore, makes its calls through the throttle of the LLM client,      *)
(* gives the permit back and writes its rows, each a statement and a       *)
(* commit on the one connection of the audit store that all tasks share.   *)
(*                                                                         *)
(* Time is discrete and counted only up to Interval: how long ago the last *)
(* request started, and how long a task still sleeps.                      *)
(***************************************************************************)
EXTENDS Naturals, FiniteSets, FiniteSetsExt

CONSTANTS
  BatchCount,   \* number of batches; 0 is the one that primes
  Permits,      \* max_stage_concurrency or max_chunk_concurrency
  MaxAttempts,  \* calls of a batch, the retries included
  Interval,     \* min_request_interval_seconds
  RowCount      \* rows a batch writes

ASSUME BatchAssumption ==
  /\ BatchCount \in Nat \ {0} /\ Permits \in Nat \ {0}
  /\ MaxAttempts \in Nat \ {0} /\ Interval \in Nat
  /\ RowCount \in Nat \ {0}

VARIABLES
  caching,    \* is there a cache_primed event
  primed,     \* is it set
  pc,         \* where each batch is
  permits,    \* free permits of the semaphore
  attempts,   \* calls each batch has started
  lock,       \* the holder of the request lock, or NoBatch
  recorded,   \* is _last_request_started_at set
  since,      \* time since the last request started, at most Interval
  sleep,      \* what is left of the sleep of the holder of the lock
  gather,     \* "pending", "returned" or "raised"
  rows,       \* the rows each batch has executed
  pending,    \* rows in the open transaction of the connection
  stored      \* rows that are committed

clock == <<recorded, since, sleep>>
store == <<rows, pending, stored>>
vars == <<caching, primed, pc, permits, attempts, lock, clock, gather, store>>

Batch == 0 .. BatchCount - 1
NoBatch == BatchCount
PcValues == {"start", "queued", "holding", "sleeping", "calling", "recording",
             "committing", "undoing", "done", "failed"}
RowsOf(b) == {b} \X (1 .. RowCount)

(* One batch needs no event, and a provider without prompt cache has none. *)
Init ==
  /\ caching \in (IF BatchCount > 1 THEN BOOLEAN ELSE {FALSE})
  /\ primed = FALSE
  /\ pc = [b \in Batch |-> "start"]
  /\ permits = Permits
  /\ attempts = [b \in Batch |-> 0]
  /\ lock = NoBatch
  /\ recorded = FALSE /\ since = Interval /\ sleep = 0
  /\ gather = "pending"
  /\ rows = [b \in Batch |-> 0] /\ pending = {} /\ stored = {}

(* Tasks run until the event loop ends, which it does after gather raised. *)
Running == gather # "cancelled"
Move(b, from, to) == Running /\ pc[b] = from /\ pc' = [pc EXCEPT ![b] = to]

(* The event is awaited before the permit is; the variant has it the other *)
(* way round.                                                              *)
AwaitedWithPermit == "holding"
PrimingAwaitedAt == "start"
PassesAnyhow(b, point) == TRUE  \* variant: no batch waits
MayPass(b, point) ==
  point = PrimingAwaitedAt /\ caching /\ b > 0 => primed

Enqueue(b) ==
  /\ Move(b, "start", "queued")
  /\ MayPass(b, "start")
  /\ UNCHANGED <<caching, primed, permits, attempts, lock, clock, gather, store>>

TakePermit(b) ==
  /\ Move(b, "queued", "holding")
  /\ permits > 0
  /\ permits' = permits - 1
  /\ UNCHANGED <<caching, primed, attempts, lock, clock, gather, store>>

(* _throttle_request_start: the lock is held while sleeping. *)
LockIgnored == TRUE  \* variant: the clock is read without the lock
LockIsFree == lock = NoBatch
Remaining == IF recorded THEN Interval - since ELSE 0

EnterThrottle(b) ==
  /\ Move(b, "holding", "sleeping")
  /\ MayPass(b, "holding")
  /\ LockIsFree
  /\ lock' = b
  /\ sleep' = Remaining
  /\ UNCHANGED <<caching, primed, permits, attempts, recorded, since, gather, store>>

(* The sleep may take longer than asked for, never less. *)
StartRequest(b) ==
  /\ Move(b, "sleeping", "calling")
  /\ sleep = 0
  /\ recorded' = TRUE /\ since' = 0
  /\ lock' = NoBatch
  /\ attempts' = [attempts EXCEPT ![b] = @ + 1]
  /\ UNCHANGED <<caching, primed, permits, sleep, gather, store>>

(* The output has complaints, and an attempt is left. *)
AttemptLeft(b) == attempts[b] < MaxAttempts

RetryRequest(b) ==
  /\ Move(b, "calling", "holding")
  /\ AttemptLeft(b)
  /\ UNCHANGED <<caching, primed, permits, attempts, lock, clock, gather, store>>

(* The end of the semaphore's block, by a return or an exception, and the  *)
(* finally clause of batch 0.                                              *)
PermitBack == permits + 1

LeaveSemaphore(b) ==
  /\ permits' = PermitBack
  /\ primed' = (primed \/ (caching /\ b = 0))

AcceptOutput(b) ==
  /\ Move(b, "calling", "recording")
  /\ LeaveSemaphore(b)
  /\ UNCHANGED <<caching, attempts, lock, clock, gather, store>>

(* _insert_payload: a statement, then a commit, and both are awaited.  The *)
(* connection is in one transaction, whoever's statement opened it.        *)
ExecuteRow(b) ==
  /\ Move(b, "recording", "committing")
  /\ rows' = [rows EXCEPT ![b] = @ + 1]
  /\ pending' = pending \cup {<<b, rows'[b]>>}
  /\ UNCHANGED <<caching, primed, permits, attempts, lock, clock, gather, stored>>

CommitRow(b) ==
  /\ Move(b, "committing", IF rows[b] = RowCount THEN "done" ELSE "recording")
  /\ stored' = stored \cup pending
  /\ pending' = {}
  /\ UNCHANGED <<caching, primed, permits, attempts, lock, clock, gather, rows>>

(* The row breaks a key: the task awaits the rollback before it raises.    *)
InsertFails(b) ==
  /\ Move(b, "recording", "undoing")
  /\ UNCHANGED <<caching, primed, permits, attempts, lock, clock, gather, store>>

(* gather has no return_exceptions: the first exception is its own.  A     *)
(* prompt may fail to load before the call, the log or the parse after it. *)
GatherRaises == gather' = IF gather = "pending" THEN "raised" ELSE gather

CallRaises(b) ==
  /\ Move(b, "holding", "failed") \/ Move(b, "calling", "failed")
  /\ LeaveSemaphore(b)
  /\ GatherRaises
  /\ UNCHANGED <<caching, attempts, lock, clock, store>>

FailureAccepted == "done"  \* variant: the row is taken for one stored before
AfterFailedInsert == "failed"

RollBack(b) ==
  /\ Move(b, "undoing", AfterFailedInsert)
  /\ pending' = {}
  /\ IF AfterFailedInsert = "failed" THEN GatherRaises ELSE UNCHANGED gather
  /\ UNCHANGED <<caching, primed, permits, attempts, lock, clock, rows, stored>>

(* The input of the stage is built outside the try, the rows are written   *)
(* outside of it; what is no IntegrityError is raised without a rollback.  *)
TaskRaises(b) ==
  /\ \/ Move(b, "start", "failed") \/ Move(b, "recording", "failed")
     \/ Move(b, "committing", "failed")
  /\ GatherRaises
  /\ UNCHANGED <<caching, primed, permits, attempts, lock, clock, store>>

Return ==
  /\ gather = "pending" /\ \A b \in Batch : pc[b] = "done"
  /\ gather' = "returned"
  /\ UNCHANGED <<caching, primed, pc, permits, attempts, lock, clock, store>>

(* The event loop ends: the store is closed, the tasks left are cancelled. *)
Cancel ==
  /\ gather = "raised"
  /\ gather' = "cancelled"
  /\ UNCHANGED <<caching, primed, pc, permits, attempts, lock, clock, store>>

Tick ==
  /\ Running
  /\ recorded /\ (since < Interval \/ sleep > 0)
  /\ since' = Min({since + 1, Interval})
  /\ sleep' = Max({sleep - 1, 0})
  /\ UNCHANGED <<caching, primed, pc, permits, attempts, lock, recorded, gather, store>>

Task(b) ==
  \/ Enqueue(b) \/ TakePermit(b) \/ EnterThrottle(b) \/ StartRequest(b)
  \/ RetryRequest(b) \/ AcceptOutput(b) \/ ExecuteRow(b) \/ CommitRow(b)
  \/ RollBack(b)

Next ==
  \/ \E b \in Batch : Task(b) \/ CallRaises(b) \/ TaskRaises(b) \/ InsertFails(b)
  \/ Return \/ Cancel \/ Tick

(* The event loop runs what is ready, time passes, and a call returns or   *)
(* raises in the end (the provider clients have a timeout).                *)
Fairness == WF_vars((\E b \in Batch : Task(b)) \/ Return \/ Tick)

Spec == Init /\ [][Next]_vars /\ Fairness

-----------------------------------------------------------------------------
(* Properties. *)

(* With prompt caching no batch sends a request before the first batch has *)
(* finished with all of its own.                                           *)
CallsFollowPriming ==
  caching => \A b \in Batch \ {0} :
    attempts[b] > 0 =>
      pc[0] \in {"recording", "committing", "undoing", "done", "failed"}

(* A rollback on the shared connection may take the row of another batch   *)
(* with it, between its statement and its commit; the stage of such a      *)
(* batch does not return as if the row were there.                         *)
RowsAreStored ==
  /\ (\A b \in Batch : pc[b] # "failed") =>
        \A b \in Batch : pc[b] = "done" => RowsOf(b) \subseteq stored
  /\ gather = "returned" => \A b \in Batch : RowsOf(b) \subseteq stored

(* Two requests start at least the configured interval apart, whichever    *)
(* batches they are of and whether they are retries.                       *)
RequestsAreSpaced ==
  [][\A b \in Batch : attempts'[b] > attempts[b] /\ recorded
                        => since = Interval]_vars

(* The stage ends: no batch waits for ever for the first one to prime the  *)
(* cache, for a permit or for the lock, whichever batch fails and when.    *)
GatherEnds == <>(gather # "pending")

-----------------------------------------------------------------------------
(* What makes them inductive.                                              *)

TypeOK ==
  /\ caching \in BOOLEAN /\ primed \in BOOLEAN /\ recorded \in BOOLEAN
  /\ pc \in [Batch -> PcValues]
  /\ attempts \in [Batch -> Nat] /\ rows \in [Batch -> Nat]
  /\ lock \in Batch \cup {NoBatch}
  /\ since \in 0 .. Interval /\ sleep \in Nat

(* The cache is primed when batch 0 is through with its calls, and before  *)
(* another batch is past the event.                                        *)
PrimingInv ==
  caching =>
    /\ primed => pc[0] \in {"recording", "committing", "undoing", "done", "failed"}
    /\ \A b \in Batch \ {0} :
         pc[b] \notin {"start", "failed"} \/ attempts[b] > 0 => primed

(* Who sleeps has the lock, so the request it waits for is still the last, *)
(* and what is left of its sleep is what is left of the interval.          *)
ThrottleInv ==
  /\ \A b \in Batch : pc[b] = "sleeping" <=> lock = b
  /\ recorded /\ lock # NoBatch => sleep + since >= Interval

(* While no task failed nothing was rolled back: the rows a task executed  *)
(* are stored or in the open transaction, and those of one that is done    *)
(* are stored.                                                             *)
RowsInv ==
  /\ (\A b \in Batch : pc[b] # "failed") =>
       \A b \in Batch :
         /\ {b} \X (1 .. rows[b]) \subseteq stored \cup pending
         /\ pc[b] = "done" => RowsOf(b) \subseteq stored
  /\ gather = "returned" => \A b \in Batch : pc[b] = "done"

BatchesInv == TypeOK /\ PrimingInv /\ ThrottleInv /\ RowsInv
==============================================================================
