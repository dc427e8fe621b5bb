----------------------- MODULE CandidateReview_proofs -----------------------
(***************************************************************************)
(* Type correctness and the safety properties of CandidateFlow, for any    *)
(* candidates, chunks and bounds: the parts of ReviewInv are inductive one *)
(* after the other, and the properties follow from them.                   *)
(***************************************************************************)
EXTENDS CandidateReview, FiniteSetTheorems, TLAPS

(* A set of naturals that is not empty has a least element.  The segments  *)
(* 0 .. x are finite, and the strict subset order on finite sets is well   *)
(* founded.                                                                *)
LEMMA LeastElement ==
  ASSUME NEW T \in SUBSET Nat, T # {}
  PROVE  \E x \in T : \A y \in T : x <= y
<1> DEFINE Segments == {0 .. x : x \in T}
<1>1. Segments \subseteq FiniteSubsetsOf(Nat)
  <2>1. ASSUME NEW x \in T PROVE IsFiniteSet(0 .. x)
    <3>1. x \in Int /\ 0 \in Int
      OBVIOUS
    <3>2. QED
      BY <3>1, FS_Interval
  <2>2. QED
    BY <2>1 DEF FiniteSubsetsOf
<1>2. Segments # {}
  OBVIOUS
<1>3. \E s \in Segments : \A t \in Segments :
        ~ (<<t, s>> \in StrictSubsetOrdering(Nat))
  <2> HIDE DEF Segments
  <2> QED
    BY <1>1, <1>2, FS_StrictSubsetOrderingWellFounded, WFMin
<1>4. PICK x \in T : \A y \in T :
        ~ (<<0 .. y, 0 .. x>> \in StrictSubsetOrdering(Nat))
  BY <1>3
<1>5. ASSUME NEW y \in T, y < x PROVE FALSE
  <2>1. 0 .. y \in SUBSET Nat /\ 0 .. x \in SUBSET Nat
    OBVIOUS
  <2>2. 0 .. y \subseteq 0 .. x /\ x \in 0 .. x /\ x \notin 0 .. y
    BY <1>5
  <2>3. QED
    BY <1>4, <2>1, <2>2 DEF StrictSubsetOrdering
<1>6. QED
  BY <1>5

(* Every candidate of A, a duplicate or not, has a primary in A: a         *)
(* canonical candidate with the same identity (executor/dedup.py).         *)
LEMMA PrimaryIsCanonical ==
  ASSUME NEW A \in SUBSET Candidate, NEW d \in A
  PROVE  Primary(d, A) \in Canonical(A) /\ SameIdentity(Primary(d, A), d)
<1> DEFINE Same == {c \in A : SameIdentity(c, d)}
<1>1. Same \in SUBSET Nat /\ Same # {}
  BY CandidateAssumption DEF SameIdentity
<1>2. PICK p \in Same : \A c \in Same : p <= c
  <2> HIDE DEF Same
  <2> QED
    BY <1>1, LeastElement
<1>3. p \in Canonical(A) /\ SameIdentity(p, d)
  BY <1>2 DEF Canonical, SameIdentity
<1>4. QED
  BY <1>3 DEF Primary

-----------------------------------------------------------------------------

LEMMA TypeInit == Init => TypeOK
  BY BoundAssumption DEF Init, TypeOK, NoReports, NoReport, NoAnswer, NoDecision,
     ReportRow, Row, Manifests, Reports, Decisions, Answers, PcValues

(* The assignment of MemoryIsLost is of the right type. *)
LEMMA LostMemoryTypes ==
  MemoryIsLost => /\ pc' \in PcValues /\ exception' \in {"none", "raised", "marked"}
                  /\ answer' \in [Candidate -> Answers]
                  /\ done' \subseteq Candidate /\ accepted' \subseteq Candidate
                  /\ decision' \in Decisions
  BY DEF MemoryIsLost, PcValues, NoAnswer, Answers, NoDecision, Decisions

(* A step of any kind keeps every variable in its type.                    *)
LEMMA TypeStep == TypeOK /\ [Next]_vars => TypeOK'
<1> SUFFICES ASSUME TypeOK, [Next]_vars PROVE TypeOK'
  OBVIOUS
<1> USE DEF TypeOK, MainFlowAt, Goto, PcValues
<1>1. CASE ReuseExecution
  BY <1>1 DEF ReuseExecution, ExecutionFromAudit, Recorded, durable, audit, history
<1>2. CASE StartExecution
  BY <1>2 DEF StartExecution, NoAnswer, Answers, durable, audit, history
<1>3. CASE FinishExecution
  BY <1>3 DEF FinishExecution, NoAnswer, Answers, durable, audit, history
<1>4. ASSUME NEW d \in Candidate, RecordDedupRejection(d) PROVE TypeOK'
  BY <1>4 DEF RecordDedupRejection, RejectionStages, memory, history
<1>5. ASSUME NEW lens \in Lens, NEW chunk \in Chunk, ExecutorCallReturns(lens, chunk) PROVE TypeOK'
  <2>1. PICK proposal \in [CandidatesOf(lens, chunk) -> RowContent \cup {"missing"}] :
          /\ answer' = [c \in Candidate |-> IF TaskOf(c) = <<lens, chunk>>
                                            THEN proposal[c] ELSE answer[c]]
          /\ done' = done \cup {c \in CandidatesOf(lens, chunk) :
                                  proposal[c] = "missing"}
    BY <1>5 DEF ExecutorCallReturns
  <2>2. answer' \in [Candidate -> Answers] /\ done' \subseteq Candidate
    BY <2>1 DEF CandidatesOf, Answers
  <2>3. QED
    BY <1>5, <2>2 DEF ExecutorCallReturns, history
<1>6. ASSUME NEW c \in Candidate, RecordLensCandidate(c) PROVE TypeOK'
  BY <1>6 DEF RecordLensCandidate, Row, history
<1>7. ASSUME NEW c \in Candidate, RecordExecutorRejection(c) PROVE TypeOK'
  BY <1>7 DEF RecordExecutorRejection, RejectionStages, history
<1>8. CASE RefuseReview
  BY <1>8 DEF RefuseReview, durable, audit, history
<1>9. CASE ReuseReview
  BY <1>9 DEF ReuseReview, durable, audit, history
<1>10. CASE StartReview
  BY <1>10 DEF StartReview, durable, audit, history
<1>11. CASE FinishReview
  BY <1>11 DEF FinishReview, NoAnswer, Answers, durable, audit, history
<1>12. CASE FinishMirroring
  BY <1>12 DEF FinishMirroring, durable, audit, history
<1>13. ASSUME NEW d \in Candidate, MirrorReport(d) PROVE TypeOK'
  <2>1. d \in accepted
    BY <1>13 DEF MirrorReport, MirrorPending, Merged
  <2>2. Primary(d, accepted) \in Candidate
    BY <2>1, PrimaryIsCanonical DEF Canonical
  <2>3. QED
    BY <1>13, <2>2 DEF MirrorReport, history, memory
<1>14. ASSUME NEW chunk \in Chunk, CriticCallReturns(chunk) PROVE TypeOK'
  <2>1. PICK verdict \in [CriticBatch(chunk) -> {"accept", "reject"}] :
          answer' = [c \in Candidate |-> IF c \in CriticBatch(chunk)
                                         THEN verdict[c] ELSE answer[c]]
    BY <1>14 DEF CriticCallReturns
  <2>2. answer' \in [Candidate -> Answers]
    BY <2>1 DEF Answers
  <2>3. QED
    BY <1>14, <2>2 DEF CriticCallReturns, durable, audit, history
<1>15. ASSUME NEW c \in Candidate, RecordCriticReport(c) PROVE TypeOK'
  BY <1>15 DEF RecordCriticReport, ReportOf, ReportRow, history
<1>16. ASSUME NEW c \in Candidate, RecordCriticRejection(c) PROVE TypeOK'
  BY <1>16 DEF RecordCriticRejection, RejectionStages, history
<1>17. CASE RefuseVerification
  BY <1>17 DEF RefuseVerification, durable, audit, history
<1>18. CASE ReuseVerification
  BY <1>18 DEF ReuseVerification, durable, audit, history
<1>19. CASE StartVerification
  BY <1>19 DEF StartVerification, durable, audit, history
<1>20. CASE FinishVerification
  BY <1>20 DEF FinishVerification, NoAnswer, Answers, durable, audit, history
<1>21. ASSUME NEW chunk \in Chunk, VerifierCallReturns(chunk) PROVE TypeOK'
  <2>1. PICK verdict \in [VerifierBatch(chunk) -> {"accept", "reject"}] :
          answer' = [c \in Candidate |-> IF c \in VerifierBatch(chunk)
                                         THEN verdict[c] ELSE answer[c]]
    BY <1>21 DEF VerifierCallReturns
  <2>2. answer' \in [Candidate -> Answers]
    BY <2>1 DEF Answers
  <2>3. QED
    BY <1>21, <2>2 DEF VerifierCallReturns, durable, audit, history
<1>22. ASSUME NEW c \in Candidate, RecordVerifierReport(c) PROVE TypeOK'
  BY <1>22 DEF RecordVerifierReport, ReportOf, ReportRow, history
<1>23. ASSUME NEW c \in Candidate, RecordVerifierRejection(c) PROVE TypeOK'
  BY <1>23 DEF RecordVerifierRejection, RejectionStages, history
<1>24. CASE RefuseReconciliation
  BY <1>24 DEF RefuseReconciliation, durable, audit, history
<1>25. CASE ReuseReconciliation
  BY <1>25 DEF ReuseReconciliation, RejectedAt, Decisions, durable, audit, history
<1>26. CASE ReconcilerCallReturns
  BY <1>26 DEF ReconcilerCallReturns, Outcomes, DataPoint, Decisions, durable, audit, history
<1>27. CASE FinishReconciliation
  BY <1>27 DEF FinishReconciliation, durable, audit, history
<1>28. ASSUME NEW point \in decision.points, RecordDataPoint(point) PROVE TypeOK'
  BY <1>28 DEF RecordDataPoint, Decisions, memory, history
<1>29. ASSUME NEW c \in Candidate, RecordReconcilerRejection(c) PROVE TypeOK'
  BY <1>29 DEF RecordReconcilerRejection, RejectionStages, memory, history
<1>30. CASE StageEnds
  BY <1>30 DEF StageEnds, EnsureStageCompleted, StageNames, history
<1>31. CASE WriteReportFile
  BY <1>31 DEF WriteReportFile, RenderedReport, Decisions, Reports, history
<1>32. CASE CompleteManifest
  BY <1>32 DEF CompleteManifest, Decisions, Manifests, history
<1>33. CASE FinishRun
  BY <1>33, LostMemoryTypes DEF FinishRun, StageNames, history
<1>34. CASE MarkRunFailed
  BY <1>34 DEF MarkRunFailed, Manifests, history
<1>35. CASE Close
  BY <1>35, LostMemoryTypes DEF Close, durable, audit, history
<1>36. CASE MainFails
  BY <1>36 DEF MainFails, OneMoreFault, audit
<1>37. ASSUME NEW c \in Candidate, TaskFails(c) PROVE TypeOK'
  <2>1. answer' \in [Candidate -> Answers]
    BY <1>37 DEF TaskFails, Answers
  <2>2. done' \subseteq Candidate
    BY <1>37 DEF TaskFails, InGather, Canonical
  <2>3. QED
    BY <1>37, <2>1, <2>2 DEF TaskFails, OneMoreFault, audit
<1>38. CASE Crash
  BY <1>38, LostMemoryTypes DEF Crash, OneMoreFault, audit
<1>39. CASE Resume
  BY <1>39 DEF Resume, Manifests, history
<1>40. ASSUME NEW first \in RejectionStages, PrepareResume(first) PROVE TypeOK'
  <2>1. /\ row' \in [Candidate -> Row] /\ criticReport' \in [Candidate -> ReportRow]
        /\ verifierReport' \in [Candidate -> ReportRow]
    BY <1>40 DEF PrepareResume, NoReports, ReportRow, Row
  <2>2. /\ callLogs' \subseteq Lens \X Chunk
        /\ rejections' \subseteq Candidate \X RejectionStages
        /\ stages' \subseteq StageNames /\ dataPoints' \subseteq DataPoint
    BY <1>40 DEF PrepareResume
  <2>3. QED
    BY <1>40, <2>1, <2>2 DEF PrepareResume, Manifests, memory
<1>41. CASE UNCHANGED vars
  BY <1>41 DEF vars, audit, memory, history
<1> QED
  BY <1>1, <1>2, <1>3, <1>4, <1>5, <1>6, <1>7, <1>8, <1>9, <1>10, <1>11,
     <1>12, <1>13, <1>14, <1>15, <1>16, <1>17, <1>18, <1>19, <1>20,
     <1>21, <1>22, <1>23, <1>24, <1>25, <1>26, <1>27, <1>28, <1>29,
     <1>30, <1>31, <1>32, <1>33, <1>34, <1>35, <1>36, <1>37, <1>38,
     <1>39, <1>40, <1>41
  DEF Next, ProcessStep, MainStep, TaskStep, ExecutorMain, CriticMain,
      VerifierMain, ReconcilerMain, ExecutorTasks, CriticTasks, VerifierTasks,
      Fault, Operator

(* Every variable keeps its type, whatever the candidates, the chunks and  *)
(* the bounds are.                                                         *)
THEOREM TypeCorrect == Spec => []TypeOK
  BY TypeInit, TypeStep, PTL DEF Spec

-----------------------------------------------------------------------------

LEMMA ReviewInit == Init => ReviewInv
  BY DEF Init, ReviewInv, RowsInv, RowsSupportReviews, ExecutionIsSound,
     AcceptedIsExecuted, CriticInv, VerifierInv, PointsInv, ReportInv,
     AcceptedByBoth, Disjoint, Merged, Executed, ExecutionFromAudit, Recorded,
     RejectedAt, NoReports, Canonical, HandedOn, AtGather, AccountInv,
     RejectionsInv, StagesInv, PastDedup, PastCritic, PastVerifier, PastReconciler

(* What the executor leaves is what its calls proposed; a row is never     *)
(* rejected after a review has begun to build on it.                       *)
LEMMA RowsStep == TypeOK /\ RowsInv /\ [Next]_vars => RowsInv'
<1> SUFFICES ASSUME TypeOK, RowsInv, [Next]_vars PROVE RowsInv'
  OBVIOUS
<1> USE DEF RowsInv, RowsSupportReviews, ExecutionIsSound, AcceptedIsExecuted, Executed,
  ExecutionFromAudit, Recorded, RejectedAt, TypeOK, MainFlowAt, Goto
<1>1. CASE ReuseExecution
  BY <1>1 DEF ReuseExecution, durable, audit, history
<1>2. CASE StartExecution
  BY <1>2 DEF StartExecution, NoAnswer, durable, audit, history
<1>3. CASE FinishExecution
  <2>1. \A c \in Candidate : answer[c] = "sound" <=> c \in Executed
    BY <1>3 DEF FinishExecution, RowContent, RejectedRow
  <2>2. pc' = "executed" /\ accepted' = Executed
    BY <1>3, <2>1 DEF FinishExecution
  <2>3. UNCHANGED <<row, rejections, criticReport>>
    BY <1>3 DEF FinishExecution, durable, audit
  <2>4. QED
    BY <2>2, <2>3
<1>4. ASSUME NEW d \in Candidate, RecordDedupRejection(d)
      PROVE RowsInv'
  BY <1>4 DEF RecordDedupRejection, memory, history
<1>5. ASSUME NEW lens \in Lens, NEW chunk \in Chunk, ExecutorCallReturns(lens, chunk)
      PROVE RowsInv'
  <2>1. /\ UNCHANGED <<row, rejections, criticReport, pc, exception, accepted>>
        /\ pc = "executing"
        /\ \A c \in CandidatesOf(lens, chunk) : answer[c] = "pending"
    BY <1>5 DEF ExecutorCallReturns
  <2>2. PICK proposal \in [CandidatesOf(lens, chunk) -> RowContent \cup {"missing"}] :
          /\ answer' = [c \in Candidate |-> IF TaskOf(c) = <<lens, chunk>>
                                            THEN proposal[c] ELSE answer[c]]
          /\ done' = done \cup {c \in CandidatesOf(lens, chunk) :
                                  proposal[c] = "missing"}
    BY <1>5 DEF ExecutorCallReturns
  <2>3. ASSUME NEW c \in CandidatesOf(lens, chunk)
        PROVE  /\ row[c] = "absent" /\ c \notin done
               /\ answer'[c] \in RowContent \cup {"missing"}
               /\ c \in done' => answer'[c] = "missing"
    BY <2>1, <2>2 DEF CandidatesOf
  <2>4. ASSUME NEW c \in Candidate \ CandidatesOf(lens, chunk)
        PROVE  answer'[c] = answer[c] /\ (c \in done' <=> c \in done)
    BY <2>2 DEF CandidatesOf
  <2>5. ExecutionIsSound'
    BY <2>1, <2>3, <2>4 DEF CandidatesOf, RowContent, RejectedRow
  <2>6. QED
    BY <2>1, <2>5
<1>6. ASSUME NEW c \in Candidate, RecordLensCandidate(c)
      PROVE RowsInv'
  <2>1. /\ UNCHANGED <<rejections, criticReport, answer, pc, exception, accepted>>
        /\ pc = "executing"
        /\ answer[c] \in RowContent /\ row[c] = "absent"
        /\ row' = [row EXCEPT ![c] = answer[c]]
        /\ done' = IF answer[c] = "sound" THEN done \cup {c} ELSE done
    BY <1>6 DEF RecordLensCandidate
  <2>2. RowsSupportReviews'
    BY <2>1 DEF RowContent, RejectedRow
  <2>3. ExecutionIsSound'
    BY <2>1 DEF RowContent, RejectedRow
  <2>4. QED
    BY <2>1, <2>2, <2>3
<1>7. ASSUME NEW c \in Candidate, RecordExecutorRejection(c)
      PROVE RowsInv'
  <2>1. /\ UNCHANGED <<row, criticReport, answer, pc, exception, accepted>>
        /\ pc = "executing"
        /\ row[c] \in RejectedRow
        /\ rejections' = rejections \cup {<<c, "executor">>}
        /\ done' = done \cup {c}
    BY <1>7 DEF RecordExecutorRejection, HalfRecorded
  <2>2. /\ RejectedAt("executor")' = RejectedAt("executor") \cup {c}
        /\ RejectedAt("critic")' = RejectedAt("critic")
    BY <2>1
  <2>3. RowsSupportReviews'
    BY <2>1, <2>2
  <2>4. answer[c] \notin {"pending", "missing", "sound"}
    BY <2>1 DEF RowContent, RejectedRow
  <2>5. ExecutionIsSound'
    <3> HIDE DEF RejectedAt
    <3> QED
      BY <2>1, <2>2, <2>4
  <2>6. QED
    BY <2>1, <2>3, <2>5
<1>8. CASE RefuseReview
  BY <1>8 DEF RefuseReview, durable, audit, history
<1>9. CASE ReuseReview
  BY <1>9 DEF ReuseReview, durable, audit, history
<1>10. CASE StartReview
  BY <1>10 DEF StartReview, durable, audit, history
<1>11. CASE FinishReview
  BY <1>11 DEF FinishReview, NoAnswer, durable, audit, history
<1>12. CASE FinishMirroring
  BY <1>12 DEF FinishMirroring, durable, audit, history
<1>13. ASSUME NEW d \in Candidate, MirrorReport(d)
      PROVE RowsInv'
  BY <1>13 DEF MirrorReport, MirrorPending, Merged, memory, history
<1>14. ASSUME NEW chunk \in Chunk, CriticCallReturns(chunk)
      PROVE RowsInv'
  BY <1>14 DEF CriticCallReturns, durable, audit, history
<1>15. ASSUME NEW c \in Candidate, RecordCriticReport(c)
      PROVE RowsInv'
  BY <1>15 DEF RecordCriticReport, CriticTurn, Canonical, ReportOf,
     history
<1>16. ASSUME NEW c \in Candidate, RecordCriticRejection(c)
      PROVE RowsInv'
  BY <1>16 DEF RecordCriticRejection, CriticTurn, Canonical, history
<1>17. CASE RefuseVerification
  BY <1>17 DEF RefuseVerification, durable, audit, history
<1>18. CASE ReuseVerification
  BY <1>18 DEF ReuseVerification, durable, audit, history
<1>19. CASE StartVerification
  BY <1>19 DEF StartVerification, durable, audit, history
<1>20. CASE FinishVerification
  BY <1>20 DEF FinishVerification, NoAnswer, durable, audit, history
<1>21. ASSUME NEW chunk \in Chunk, VerifierCallReturns(chunk)
      PROVE RowsInv'
  BY <1>21 DEF VerifierCallReturns, durable, audit, history
<1>22. ASSUME NEW c \in Candidate, RecordVerifierReport(c)
      PROVE RowsInv'
  BY <1>22 DEF RecordVerifierReport, VerifierTurn, history
<1>23. ASSUME NEW c \in Candidate, RecordVerifierRejection(c)
      PROVE RowsInv'
  BY <1>23 DEF RecordVerifierRejection, VerifierTurn, history
<1>24. CASE RefuseReconciliation
  BY <1>24 DEF RefuseReconciliation, durable, audit, history
<1>25. CASE ReuseReconciliation
  BY <1>25 DEF ReuseReconciliation, durable, audit, history
<1>26. CASE ReconcilerCallReturns
  BY <1>26 DEF ReconcilerCallReturns, durable, audit, history
<1>27. CASE FinishReconciliation
  BY <1>27 DEF FinishReconciliation, durable, audit, history
<1>28. ASSUME NEW point \in decision.points, RecordDataPoint(point)
      PROVE RowsInv'
  BY <1>28 DEF RecordDataPoint, memory, history
<1>29. ASSUME NEW c \in Candidate, RecordReconcilerRejection(c)
      PROVE RowsInv'
  BY <1>29 DEF RecordReconcilerRejection, memory, history
<1>30. CASE StageEnds
  BY <1>30 DEF StageEnds, EnsureStageCompleted, history
<1>31. CASE WriteReportFile
  BY <1>31 DEF WriteReportFile, history
<1>32. CASE CompleteManifest
  BY <1>32 DEF CompleteManifest, history
<1>33. CASE FinishRun
  BY <1>33 DEF FinishRun, MemoryIsLost, NoAnswer, history
<1>34. CASE MarkRunFailed
  BY <1>34 DEF MarkRunFailed, history
<1>35. CASE Close
  BY <1>35 DEF Close, MemoryIsLost, NoAnswer, durable, audit, history
<1>36. CASE MainFails
  BY <1>36 DEF MainFails, OneMoreFault, AtGather, audit
<1>37. ASSUME NEW c \in Candidate, TaskFails(c)
      PROVE RowsInv'
  <2>1. /\ UNCHANGED <<row, rejections, criticReport, pc, accepted>>
        /\ exception' = "raised"
        /\ \A d \in Candidate :
             \/ answer'[d] = "stopped"
             \/ answer'[d] = answer[d] /\ (d \in done' => d \in done)
    BY <1>37 DEF TaskFails, audit
  <2>2. ExecutionIsSound'
    BY <2>1 DEF RowContent, RejectedRow
  <2>3. QED
    BY <2>1, <2>2
<1>38. CASE Crash
  BY <1>38 DEF Crash, OneMoreFault, MemoryIsLost, NoAnswer, audit
<1>39. CASE Resume
  BY <1>39 DEF Resume, history
<1>40. ASSUME NEW first \in RejectionStages, PrepareResume(first)
      PROVE RowsInv'
  <2>1. pc' = "down"
    BY <1>40 DEF PrepareResume, memory
  <2>2. CASE first = "executor"
    <3>1. \A stage \in StageNames : stage \in StagesFrom(first)
      BY <2>2 DEF StagesFrom, StageOrder, StageNames
    <3>2. /\ rejections' = {} /\ criticReport' = NoReports
      BY <1>40, <3>1 DEF PrepareResume, RejectionStages, StageNames
    <3>3. QED
      BY <2>1, <3>2 DEF NoReports
  <2>3. CASE first # "executor"
    <3>1. row' = row
      BY <1>40, <2>3 DEF PrepareResume, StagesFrom, StageOrder, StageNames, RejectionStages
    <3>2. /\ rejections' \subseteq rejections
          /\ RejectedAt("executor")' = RejectedAt("executor")
          /\ \A c \in Candidate : criticReport'[c] # "none" => criticReport[c] # "none"
      BY <1>40, <2>3 DEF PrepareResume, StagesFrom, StageOrder, StageNames, RejectionStages,
         NoReports
    <3>3. QED
      BY <2>1, <3>1, <3>2
  <2>4. QED
    BY <2>2, <2>3
<1>41. CASE UNCHANGED vars
  BY <1>41 DEF vars, audit, memory, history
<1> QED
  BY <1>1, <1>2, <1>3, <1>4, <1>5, <1>6, <1>7, <1>8, <1>9, <1>10, <1>11,
     <1>12, <1>13, <1>14, <1>15, <1>16, <1>17, <1>18, <1>19, <1>20,
     <1>21, <1>22, <1>23, <1>24, <1>25, <1>26, <1>27, <1>28, <1>29,
     <1>30, <1>31, <1>32, <1>33, <1>34, <1>35, <1>36, <1>37, <1>38,
     <1>39, <1>40, <1>41
  DEF Next, ProcessStep, MainStep, TaskStep, ExecutorMain, CriticMain,
      VerifierMain, ReconcilerMain, ExecutorTasks, CriticTasks, VerifierTasks,
      Fault, Operator

(* No candidate has an accepting report and a rejection of the critic: the *)
(* turns of a batch, and the refusal of half a review, keep them apart.    *)
LEMMA CriticStep == TypeOK /\ RowsInv /\ CriticInv /\ [Next]_vars => CriticInv'
<1> SUFFICES ASSUME TypeOK, RowsInv, CriticInv, [Next]_vars PROVE CriticInv'
  OBVIOUS
<1> USE DEF CriticInv, RowsInv, RowsSupportReviews, ExecutionIsSound, AcceptedIsExecuted, Executed,
  ExecutionFromAudit, Recorded, RejectedAt, Merged, TypeOK, MainFlowAt, Goto
<1>1. CASE ReuseExecution
  BY <1>1 DEF ReuseExecution, durable, audit, history
<1>2. CASE StartExecution
  BY <1>2 DEF StartExecution, NoAnswer, durable, audit, history
<1>3. CASE FinishExecution
  BY <1>3 DEF FinishExecution, NoAnswer, durable, audit, history
<1>4. ASSUME NEW d \in Candidate, RecordDedupRejection(d)
      PROVE CriticInv'
  BY <1>4 DEF RecordDedupRejection, memory, history
<1>5. ASSUME NEW lens \in Lens, NEW chunk \in Chunk, ExecutorCallReturns(lens, chunk)
      PROVE CriticInv'
  BY <1>5 DEF ExecutorCallReturns, CandidatesOf, history
<1>6. ASSUME NEW c \in Candidate, RecordLensCandidate(c)
      PROVE CriticInv'
  BY <1>6 DEF RecordLensCandidate, history
<1>7. ASSUME NEW c \in Candidate, RecordExecutorRejection(c)
      PROVE CriticInv'
  BY <1>7 DEF RecordExecutorRejection, HalfRecorded, history
<1>8. CASE RefuseReview
  BY <1>8 DEF RefuseReview, durable, audit, history
<1>9. CASE ReuseReview
  BY <1>9 DEF ReuseReview, durable, audit, history
<1>10. CASE StartReview
  <2>1. ReviewAccounted = {}
    BY <1>10 DEF StartReview, ReviewRaises, ReviewIsPartial, ReviewIsComplete
  <2>2. \A c \in Canonical(accepted) : criticReport[c] = "none" /\ c \notin RejectedAt("critic")
    BY <2>1 DEF ReviewAccounted, Reported, Canonical
  <2>3. UNCHANGED <<row, rejections, criticReport, accepted>>
    BY <1>10 DEF StartReview, durable, audit
  <2>4. QED
    BY <2>2, <2>3 DEF Canonical
<1>11. CASE FinishReview
  BY <1>11 DEF FinishReview, NoAnswer, durable, audit, history
<1>12. CASE FinishMirroring
  BY <1>12 DEF FinishMirroring, durable, audit, history
<1>13. ASSUME NEW d \in Candidate, MirrorReport(d)
      PROVE CriticInv'
  BY <1>13 DEF MirrorReport, MirrorPending, Merged, memory, history
<1>14. ASSUME NEW chunk \in Chunk, CriticCallReturns(chunk)
      PROVE CriticInv'
  <2>1. UNCHANGED <<row, rejections, criticReport, pc, done, accepted>>
    BY <1>14 DEF CriticCallReturns, durable, audit
  <2>2. \A c \in CriticBatch(chunk) : answer[c] = "pending"
    BY <1>14 DEF CriticCallReturns
  <2>3. \A c \in Candidate \ CriticBatch(chunk) : answer'[c] = answer[c]
    BY <1>14 DEF CriticCallReturns
  <2>4. pc = "reviewing" =>
          \A c \in Canonical(accepted) :
            answer'[c] \in {"pending", "missing"} => criticReport[c] = "none"
    BY <2>2, <2>3 DEF Canonical
  <2>5. QED
    BY <2>1, <2>4 DEF Canonical
<1>15. ASSUME NEW c \in Candidate, RecordCriticReport(c)
      PROVE CriticInv'
  BY <1>15 DEF RecordCriticReport, CriticTurn, Canonical, ReportOf,
     history
<1>16. ASSUME NEW c \in Candidate, RecordCriticRejection(c)
      PROVE CriticInv'
  <2>1. /\ UNCHANGED <<row, criticReport, answer, pc, accepted>>
        /\ pc = "reviewing"
        /\ RejectedAt("executor")' = RejectedAt("executor")
        /\ RejectedAt("critic")' = RejectedAt("critic") \cup {c}
        /\ done' = done \cup {c}
    BY <1>16 DEF RecordCriticRejection, CriticTurn
  <2>2. c \in Canonical(accepted) /\ criticReport[c] # "accepted"
    BY <1>16 DEF RecordCriticRejection, CriticTurn, CriticHalfRecorded
  <2>3. accepted = Executed
    BY <2>1
  <2>4. Executed' = Executed
    BY <2>1
  <2>5. Canonical(accepted)' = Canonical(accepted)
    BY <2>1 DEF Canonical
  <2>6. Merged(Executed)' \cap RejectedAt("critic")' = {}
    <3>1. Merged(Executed)' = Merged(Executed)
      BY <2>1, <2>4 DEF Canonical
    <3>2. c \notin Merged(Executed)
      BY <2>2, <2>3
    <3>3. QED
      <4> HIDE DEF Merged, Executed, RejectedAt
      <4> QED
        BY <2>1, <3>1, <3>2
  <2>7. \A d \in Candidate : criticReport'[d] = "accepted" => d \notin RejectedAt("critic")'
    <3> HIDE DEF RejectedAt
    <3> QED
      BY <2>1, <2>2
  <2>8. \A d \in Canonical(accepted)' :
          /\ d \notin done' => d \notin RejectedAt("critic")'
          /\ answer'[d] \in {"pending", "missing"} => criticReport'[d] = "none"
    <3> HIDE DEF RejectedAt
    <3> QED
      BY <2>1, <2>5
  <2>9. QED
    BY <2>6, <2>7, <2>8
<1>17. CASE RefuseVerification
  BY <1>17 DEF RefuseVerification, durable, audit, history
<1>18. CASE ReuseVerification
  BY <1>18 DEF ReuseVerification, durable, audit, history
<1>19. CASE StartVerification
  BY <1>19 DEF StartVerification, durable, audit, history
<1>20. CASE FinishVerification
  BY <1>20 DEF FinishVerification, NoAnswer, durable, audit, history
<1>21. ASSUME NEW chunk \in Chunk, VerifierCallReturns(chunk)
      PROVE CriticInv'
  BY <1>21 DEF VerifierCallReturns, durable, audit, history
<1>22. ASSUME NEW c \in Candidate, RecordVerifierReport(c)
      PROVE CriticInv'
  BY <1>22 DEF RecordVerifierReport, VerifierTurn, history
<1>23. ASSUME NEW c \in Candidate, RecordVerifierRejection(c)
      PROVE CriticInv'
  BY <1>23 DEF RecordVerifierRejection, VerifierTurn, history
<1>24. CASE RefuseReconciliation
  BY <1>24 DEF RefuseReconciliation, durable, audit, history
<1>25. CASE ReuseReconciliation
  BY <1>25 DEF ReuseReconciliation, durable, audit, history
<1>26. CASE ReconcilerCallReturns
  BY <1>26 DEF ReconcilerCallReturns, durable, audit, history
<1>27. CASE FinishReconciliation
  BY <1>27 DEF FinishReconciliation, durable, audit, history
<1>28. ASSUME NEW point \in decision.points, RecordDataPoint(point)
      PROVE CriticInv'
  BY <1>28 DEF RecordDataPoint, memory, history
<1>29. ASSUME NEW c \in Candidate, RecordReconcilerRejection(c)
      PROVE CriticInv'
  BY <1>29 DEF RecordReconcilerRejection, memory, history
<1>30. CASE StageEnds
  BY <1>30 DEF StageEnds, EnsureStageCompleted, history
<1>31. CASE WriteReportFile
  BY <1>31 DEF WriteReportFile, history
<1>32. CASE CompleteManifest
  BY <1>32 DEF CompleteManifest, history
<1>33. CASE FinishRun
  BY <1>33 DEF FinishRun, MemoryIsLost, NoAnswer, history
<1>34. CASE MarkRunFailed
  BY <1>34 DEF MarkRunFailed, history
<1>35. CASE Close
  BY <1>35 DEF Close, MemoryIsLost, NoAnswer, durable, audit, history
<1>36. CASE MainFails
  BY <1>36 DEF MainFails, OneMoreFault, AtGather, audit
<1>37. ASSUME NEW c \in Candidate, TaskFails(c)
      PROVE CriticInv'
  <2>1. UNCHANGED <<row, rejections, criticReport, pc, accepted>>
    BY <1>37 DEF TaskFails, audit
  <2>2. \A d \in Candidate :
          /\ answer'[d] = "stopped" \/ answer'[d] = answer[d]
          /\ d \in done => d \in done'
    BY <1>37 DEF TaskFails
  <2>3. QED
    BY <2>1, <2>2 DEF Canonical
<1>38. CASE Crash
  BY <1>38 DEF Crash, OneMoreFault, MemoryIsLost, NoAnswer, audit
<1>39. CASE Resume
  BY <1>39 DEF Resume, history
<1>40. ASSUME NEW first \in RejectionStages, PrepareResume(first)
      PROVE CriticInv'
  BY <1>40 DEF PrepareResume, memory
<1>41. CASE UNCHANGED vars
  BY <1>41 DEF vars, audit, memory, history
<1> QED
  BY <1>1, <1>2, <1>3, <1>4, <1>5, <1>6, <1>7, <1>8, <1>9, <1>10, <1>11,
     <1>12, <1>13, <1>14, <1>15, <1>16, <1>17, <1>18, <1>19, <1>20,
     <1>21, <1>22, <1>23, <1>24, <1>25, <1>26, <1>27, <1>28, <1>29,
     <1>30, <1>31, <1>32, <1>33, <1>34, <1>35, <1>36, <1>37, <1>38,
     <1>39, <1>40, <1>41
  DEF Next, ProcessStep, MainStep, TaskStep, ExecutorMain, CriticMain,
      VerifierMain, ReconcilerMain, ExecutorTasks, CriticTasks, VerifierTasks,
      Fault, Operator

(* The same of the verifier. *)
LEMMA VerifierStep == TypeOK /\ VerifierInv /\ [Next]_vars => VerifierInv'
<1> SUFFICES ASSUME TypeOK, VerifierInv, [Next]_vars PROVE VerifierInv'
  OBVIOUS
<1> USE DEF VerifierInv, RejectedAt, TypeOK, MainFlowAt, Goto
<1>1. CASE ReuseExecution
  BY <1>1 DEF ReuseExecution, durable, audit, history
<1>2. CASE StartExecution
  BY <1>2 DEF StartExecution, NoAnswer, durable, audit, history
<1>3. CASE FinishExecution
  BY <1>3 DEF FinishExecution, NoAnswer, durable, audit, history
<1>4. ASSUME NEW d \in Candidate, RecordDedupRejection(d)
      PROVE VerifierInv'
  BY <1>4 DEF RecordDedupRejection, memory, history
<1>5. ASSUME NEW lens \in Lens, NEW chunk \in Chunk, ExecutorCallReturns(lens, chunk)
      PROVE VerifierInv'
  BY <1>5 DEF ExecutorCallReturns, CandidatesOf, history
<1>6. ASSUME NEW c \in Candidate, RecordLensCandidate(c)
      PROVE VerifierInv'
  BY <1>6 DEF RecordLensCandidate, history
<1>7. ASSUME NEW c \in Candidate, RecordExecutorRejection(c)
      PROVE VerifierInv'
  BY <1>7 DEF RecordExecutorRejection, HalfRecorded, history
<1>8. CASE RefuseReview
  BY <1>8 DEF RefuseReview, durable, audit, history
<1>9. CASE ReuseReview
  BY <1>9 DEF ReuseReview, durable, audit, history
<1>10. CASE StartReview
  BY <1>10 DEF StartReview, durable, audit, history
<1>11. CASE FinishReview
  BY <1>11 DEF FinishReview, NoAnswer, durable, audit, history
<1>12. CASE FinishMirroring
  BY <1>12 DEF FinishMirroring, durable, audit, history
<1>13. ASSUME NEW d \in Candidate, MirrorReport(d)
      PROVE VerifierInv'
  BY <1>13 DEF MirrorReport, MirrorPending, Merged, memory, history
<1>14. ASSUME NEW chunk \in Chunk, CriticCallReturns(chunk)
      PROVE VerifierInv'
  BY <1>14 DEF CriticCallReturns, durable, audit, history
<1>15. ASSUME NEW c \in Candidate, RecordCriticReport(c)
      PROVE VerifierInv'
  BY <1>15 DEF RecordCriticReport, CriticTurn, Canonical, ReportOf,
     history
<1>16. ASSUME NEW c \in Candidate, RecordCriticRejection(c)
      PROVE VerifierInv'
  BY <1>16 DEF RecordCriticRejection, CriticTurn, Canonical, history
<1>17. CASE RefuseVerification
  BY <1>17 DEF RefuseVerification, durable, audit, history
<1>18. CASE ReuseVerification
  BY <1>18 DEF ReuseVerification, durable, audit, history
<1>19. CASE StartVerification
  <2>1. VerificationAccounted = {} /\ VerifierInputIsValid
    BY <1>19 DEF StartVerification, VerificationRaises, VerificationIsPartial,
       VerificationIsComplete
  <2>2. \A c \in accepted : criticReport[c] = "accepted" /\ c \notin RejectedAt("verifier")
    BY <2>1 DEF VerificationAccounted, VerifierInputIsValid
  <2>3. UNCHANGED <<rejections, criticReport, verifierReport, accepted>>
    BY <1>19 DEF StartVerification, durable, audit
  <2>4. QED
    BY <2>2, <2>3
<1>20. CASE FinishVerification
  BY <1>20 DEF FinishVerification, NoAnswer, durable, audit, history
<1>21. ASSUME NEW chunk \in Chunk, VerifierCallReturns(chunk)
      PROVE VerifierInv'
  BY <1>21 DEF VerifierCallReturns, durable, audit, history
<1>22. ASSUME NEW c \in Candidate, RecordVerifierReport(c)
      PROVE VerifierInv'
  BY <1>22 DEF RecordVerifierReport, VerifierTurn, history
<1>23. ASSUME NEW c \in Candidate, RecordVerifierRejection(c)
      PROVE VerifierInv'
  <2>1. /\ UNCHANGED <<criticReport, verifierReport, pc, accepted>>
        /\ RejectedAt("verifier")' = RejectedAt("verifier") \cup {c}
        /\ done' = done \cup {c}
        /\ verifierReport[c] = "rejected"
    BY <1>23 DEF RecordVerifierRejection, VerifierHalfRecorded
  <2>2. QED
    <3> HIDE DEF RejectedAt
    <3> QED
      BY <2>1
<1>24. CASE RefuseReconciliation
  BY <1>24 DEF RefuseReconciliation, durable, audit, history
<1>25. CASE ReuseReconciliation
  BY <1>25 DEF ReuseReconciliation, durable, audit, history
<1>26. CASE ReconcilerCallReturns
  BY <1>26 DEF ReconcilerCallReturns, durable, audit, history
<1>27. CASE FinishReconciliation
  BY <1>27 DEF FinishReconciliation, durable, audit, history
<1>28. ASSUME NEW point \in decision.points, RecordDataPoint(point)
      PROVE VerifierInv'
  BY <1>28 DEF RecordDataPoint, memory, history
<1>29. ASSUME NEW c \in Candidate, RecordReconcilerRejection(c)
      PROVE VerifierInv'
  BY <1>29 DEF RecordReconcilerRejection, memory, history
<1>30. CASE StageEnds
  BY <1>30 DEF StageEnds, EnsureStageCompleted, history
<1>31. CASE WriteReportFile
  BY <1>31 DEF WriteReportFile, history
<1>32. CASE CompleteManifest
  BY <1>32 DEF CompleteManifest, history
<1>33. CASE FinishRun
  BY <1>33 DEF FinishRun, MemoryIsLost, NoAnswer, history
<1>34. CASE MarkRunFailed
  BY <1>34 DEF MarkRunFailed, history
<1>35. CASE Close
  BY <1>35 DEF Close, MemoryIsLost, NoAnswer, durable, audit, history
<1>36. CASE MainFails
  BY <1>36 DEF MainFails, OneMoreFault, AtGather, audit
<1>37. ASSUME NEW c \in Candidate, TaskFails(c)
      PROVE VerifierInv'
  BY <1>37 DEF TaskFails, OneMoreFault, audit
<1>38. CASE Crash
  BY <1>38 DEF Crash, OneMoreFault, MemoryIsLost, NoAnswer, audit
<1>39. CASE Resume
  BY <1>39 DEF Resume, history
<1>40. ASSUME NEW first \in RejectionStages, PrepareResume(first)
      PROVE VerifierInv'
  <2>1. pc' = "down"
    BY <1>40 DEF PrepareResume, memory
  <2>2. CASE first \in {"executor", "dedup", "critic"}
    <3>1. criticReport' = NoReports /\ verifierReport' = NoReports
      BY <1>40, <2>2 DEF PrepareResume, StagesFrom, StageOrder, StageNames
    <3>2. QED
      BY <2>1, <3>1 DEF NoReports
  <2>3. CASE first = "verifier"
    <3>1. verifierReport' = NoReports
      BY <1>40, <2>3 DEF PrepareResume, StagesFrom, StageOrder, StageNames
    <3>2. QED
      BY <2>1, <3>1 DEF NoReports
  <2>4. CASE first = "reconciler"
    <3>1. UNCHANGED <<criticReport, verifierReport>> /\ rejections' \subseteq rejections
      BY <1>40, <2>4 DEF PrepareResume, StagesFrom, StageOrder, StageNames
    <3>2. QED
      BY <2>1, <3>1
  <2>5. QED
    BY <2>2, <2>3, <2>4 DEF RejectionStages
<1>41. CASE UNCHANGED vars
  BY <1>41 DEF vars, audit, memory, history
<1> QED
  BY <1>1, <1>2, <1>3, <1>4, <1>5, <1>6, <1>7, <1>8, <1>9, <1>10, <1>11,
     <1>12, <1>13, <1>14, <1>15, <1>16, <1>17, <1>18, <1>19, <1>20,
     <1>21, <1>22, <1>23, <1>24, <1>25, <1>26, <1>27, <1>28, <1>29,
     <1>30, <1>31, <1>32, <1>33, <1>34, <1>35, <1>36, <1>37, <1>38,
     <1>39, <1>40, <1>41
  DEF Next, ProcessStep, MainStep, TaskStep, ExecutorMain, CriticMain,
      VerifierMain, ReconcilerMain, ExecutorTasks, CriticTasks, VerifierTasks,
      Fault, Operator

(* Data points come from one decision over accepted candidates; the reports*)
(* they rest on are only cleared together with them.                       *)
LEMMA PointsStep == TypeOK /\ PointsInv /\ [Next]_vars => PointsInv'
<1> SUFFICES ASSUME TypeOK, PointsInv, [Next]_vars PROVE PointsInv'
  OBVIOUS
<1> USE DEF PointsInv, AcceptedByBoth, Disjoint, TypeOK, MainFlowAt, Goto
<1>1. CASE ReuseExecution
  BY <1>1 DEF ReuseExecution, durable, audit, history
<1>2. CASE StartExecution
  BY <1>2 DEF StartExecution, NoAnswer, durable, audit, history
<1>3. CASE FinishExecution
  BY <1>3 DEF FinishExecution, NoAnswer, durable, audit, history
<1>4. ASSUME NEW d \in Candidate, RecordDedupRejection(d)
      PROVE PointsInv'
  BY <1>4 DEF RecordDedupRejection, memory, history
<1>5. ASSUME NEW lens \in Lens, NEW chunk \in Chunk, ExecutorCallReturns(lens, chunk)
      PROVE PointsInv'
  BY <1>5 DEF ExecutorCallReturns, CandidatesOf, history
<1>6. ASSUME NEW c \in Candidate, RecordLensCandidate(c)
      PROVE PointsInv'
  BY <1>6 DEF RecordLensCandidate, history
<1>7. ASSUME NEW c \in Candidate, RecordExecutorRejection(c)
      PROVE PointsInv'
  BY <1>7 DEF RecordExecutorRejection, HalfRecorded, history
<1>8. CASE RefuseReview
  BY <1>8 DEF RefuseReview, durable, audit, history
<1>9. CASE ReuseReview
  BY <1>9 DEF ReuseReview, durable, audit, history
<1>10. CASE StartReview
  BY <1>10 DEF StartReview, durable, audit, history
<1>11. CASE FinishReview
  BY <1>11 DEF FinishReview, NoAnswer, durable, audit, history
<1>12. CASE FinishMirroring
  BY <1>12 DEF FinishMirroring, durable, audit, history
<1>13. ASSUME NEW d \in Candidate, MirrorReport(d)
      PROVE PointsInv'
  BY <1>13 DEF MirrorReport, MirrorPending, Merged, memory, history
<1>14. ASSUME NEW chunk \in Chunk, CriticCallReturns(chunk)
      PROVE PointsInv'
  BY <1>14 DEF CriticCallReturns, durable, audit, history
<1>15. ASSUME NEW c \in Candidate, RecordCriticReport(c)
      PROVE PointsInv'
  BY <1>15 DEF RecordCriticReport, CriticTurn, Canonical, ReportOf,
     history
<1>16. ASSUME NEW c \in Candidate, RecordCriticRejection(c)
      PROVE PointsInv'
  BY <1>16 DEF RecordCriticRejection, CriticTurn, Canonical, history
<1>17. CASE RefuseVerification
  BY <1>17 DEF RefuseVerification, durable, audit, history
<1>18. CASE ReuseVerification
  BY <1>18 DEF ReuseVerification, durable, audit, history
<1>19. CASE StartVerification
  BY <1>19 DEF StartVerification, durable, audit, history
<1>20. CASE FinishVerification
  BY <1>20 DEF FinishVerification, NoAnswer, durable, audit, history
<1>21. ASSUME NEW chunk \in Chunk, VerifierCallReturns(chunk)
      PROVE PointsInv'
  BY <1>21 DEF VerifierCallReturns, durable, audit, history
<1>22. ASSUME NEW c \in Candidate, RecordVerifierReport(c)
      PROVE PointsInv'
  BY <1>22 DEF RecordVerifierReport, VerifierTurn, history
<1>23. ASSUME NEW c \in Candidate, RecordVerifierRejection(c)
      PROVE PointsInv'
  BY <1>23 DEF RecordVerifierRejection, VerifierTurn, history
<1>24. CASE RefuseReconciliation
  BY <1>24 DEF RefuseReconciliation, durable, audit, history
<1>25. CASE ReuseReconciliation
  BY <1>25 DEF ReuseReconciliation, durable, audit, history
<1>26. CASE ReconcilerCallReturns
  <2>1. /\ decision' \in Outcomes /\ dataPoints = {} /\ ReconcilerInputIsValid
        /\ UNCHANGED <<criticReport, verifierReport, dataPoints>>
    BY <1>26 DEF ReconcilerCallReturns, ReconciliationIsAbsent, durable, audit
  <2>2. /\ \A p \in decision'.points : p \subseteq accepted
        /\ \A p, q \in decision'.points : p # q => p \cap q = {}
    BY <2>1 DEF Outcomes
  <2>3. QED
    BY <2>1, <2>2 DEF ReconcilerInputIsValid
<1>27. CASE FinishReconciliation
  BY <1>27 DEF FinishReconciliation, durable, audit, history
<1>28. ASSUME NEW point \in decision.points, RecordDataPoint(point)
      PROVE PointsInv'
  BY <1>28 DEF RecordDataPoint, memory, history
<1>29. ASSUME NEW c \in Candidate, RecordReconcilerRejection(c)
      PROVE PointsInv'
  BY <1>29 DEF RecordReconcilerRejection, memory, history
<1>30. CASE StageEnds
  BY <1>30 DEF StageEnds, EnsureStageCompleted, history
<1>31. CASE WriteReportFile
  BY <1>31 DEF WriteReportFile, history
<1>32. CASE CompleteManifest
  BY <1>32 DEF CompleteManifest, history
<1>33. CASE FinishRun
  BY <1>33 DEF FinishRun, MemoryIsLost, NoAnswer, history
<1>34. CASE MarkRunFailed
  BY <1>34 DEF MarkRunFailed, history
<1>35. CASE Close
  BY <1>35 DEF Close, MemoryIsLost, NoAnswer, durable, audit, history
<1>36. CASE MainFails
  BY <1>36 DEF MainFails, OneMoreFault, AtGather, audit
<1>37. ASSUME NEW c \in Candidate, TaskFails(c)
      PROVE PointsInv'
  BY <1>37 DEF TaskFails, OneMoreFault, audit
<1>38. CASE Crash
  BY <1>38 DEF Crash, OneMoreFault, MemoryIsLost, NoAnswer, audit
<1>39. CASE Resume
  BY <1>39 DEF Resume, history
<1>40. ASSUME NEW first \in RejectionStages, PrepareResume(first)
      PROVE PointsInv'
  BY <1>40 DEF PrepareResume, memory
<1>41. CASE UNCHANGED vars
  BY <1>41 DEF vars, audit, memory, history
<1> QED
  BY <1>1, <1>2, <1>3, <1>4, <1>5, <1>6, <1>7, <1>8, <1>9, <1>10, <1>11,
     <1>12, <1>13, <1>14, <1>15, <1>16, <1>17, <1>18, <1>19, <1>20,
     <1>21, <1>22, <1>23, <1>24, <1>25, <1>26, <1>27, <1>28, <1>29,
     <1>30, <1>31, <1>32, <1>33, <1>34, <1>35, <1>36, <1>37, <1>38,
     <1>39, <1>40, <1>41
  DEF Next, ProcessStep, MainStep, TaskStep, ExecutorMain, CriticMain,
      VerifierMain, ReconcilerMain, ExecutorTasks, CriticTasks, VerifierTasks,
      Fault, Operator

(* The report and the manifest are made of the stored data points. *)
LEMMA ReportStep == TypeOK /\ PointsInv /\ ReportInv /\ [Next]_vars => ReportInv'
<1> SUFFICES ASSUME TypeOK, PointsInv, ReportInv, [Next]_vars PROVE ReportInv'
  OBVIOUS
<1> USE DEF PointsInv, ReportInv, TypeOK, MainFlowAt, Goto
<1>1. CASE ReuseExecution
  BY <1>1 DEF ReuseExecution, durable, audit, history
<1>2. CASE StartExecution
  BY <1>2 DEF StartExecution, NoAnswer, durable, audit, history
<1>3. CASE FinishExecution
  BY <1>3 DEF FinishExecution, NoAnswer, durable, audit, history
<1>4. ASSUME NEW d \in Candidate, RecordDedupRejection(d)
      PROVE ReportInv'
  BY <1>4 DEF RecordDedupRejection, memory, history
<1>5. ASSUME NEW lens \in Lens, NEW chunk \in Chunk, ExecutorCallReturns(lens, chunk)
      PROVE ReportInv'
  BY <1>5 DEF ExecutorCallReturns, CandidatesOf, history
<1>6. ASSUME NEW c \in Candidate, RecordLensCandidate(c)
      PROVE ReportInv'
  BY <1>6 DEF RecordLensCandidate, history
<1>7. ASSUME NEW c \in Candidate, RecordExecutorRejection(c)
      PROVE ReportInv'
  BY <1>7 DEF RecordExecutorRejection, HalfRecorded, history
<1>8. CASE RefuseReview
  BY <1>8 DEF RefuseReview, durable, audit, history
<1>9. CASE ReuseReview
  BY <1>9 DEF ReuseReview, durable, audit, history
<1>10. CASE StartReview
  BY <1>10 DEF StartReview, durable, audit, history
<1>11. CASE FinishReview
  BY <1>11 DEF FinishReview, NoAnswer, durable, audit, history
<1>12. CASE FinishMirroring
  BY <1>12 DEF FinishMirroring, durable, audit, history
<1>13. ASSUME NEW d \in Candidate, MirrorReport(d)
      PROVE ReportInv'
  BY <1>13 DEF MirrorReport, MirrorPending, Merged, memory, history
<1>14. ASSUME NEW chunk \in Chunk, CriticCallReturns(chunk)
      PROVE ReportInv'
  BY <1>14 DEF CriticCallReturns, durable, audit, history
<1>15. ASSUME NEW c \in Candidate, RecordCriticReport(c)
      PROVE ReportInv'
  BY <1>15 DEF RecordCriticReport, CriticTurn, Canonical, ReportOf,
     history
<1>16. ASSUME NEW c \in Candidate, RecordCriticRejection(c)
      PROVE ReportInv'
  BY <1>16 DEF RecordCriticRejection, CriticTurn, Canonical, history
<1>17. CASE RefuseVerification
  BY <1>17 DEF RefuseVerification, durable, audit, history
<1>18. CASE ReuseVerification
  BY <1>18 DEF ReuseVerification, durable, audit, history
<1>19. CASE StartVerification
  BY <1>19 DEF StartVerification, durable, audit, history
<1>20. CASE FinishVerification
  BY <1>20 DEF FinishVerification, NoAnswer, durable, audit, history
<1>21. ASSUME NEW chunk \in Chunk, VerifierCallReturns(chunk)
      PROVE ReportInv'
  BY <1>21 DEF VerifierCallReturns, durable, audit, history
<1>22. ASSUME NEW c \in Candidate, RecordVerifierReport(c)
      PROVE ReportInv'
  BY <1>22 DEF RecordVerifierReport, VerifierTurn, history
<1>23. ASSUME NEW c \in Candidate, RecordVerifierRejection(c)
      PROVE ReportInv'
  BY <1>23 DEF RecordVerifierRejection, VerifierTurn, history
<1>24. CASE RefuseReconciliation
  BY <1>24 DEF RefuseReconciliation, durable, audit, history
<1>25. CASE ReuseReconciliation
  BY <1>25 DEF ReuseReconciliation, durable, audit, history
<1>26. CASE ReconcilerCallReturns
  BY <1>26 DEF ReconcilerCallReturns, durable, audit, history
<1>27. CASE FinishReconciliation
  BY <1>27 DEF FinishReconciliation, durable, audit, history
<1>28. ASSUME NEW point \in decision.points, RecordDataPoint(point)
      PROVE ReportInv'
  BY <1>28 DEF RecordDataPoint, memory, history
<1>29. ASSUME NEW c \in Candidate, RecordReconcilerRejection(c)
      PROVE ReportInv'
  BY <1>29 DEF RecordReconcilerRejection, memory, history
<1>30. CASE StageEnds
  BY <1>30 DEF StageEnds, EnsureStageCompleted, history
<1>31. CASE WriteReportFile
  BY <1>31 DEF WriteReportFile, history, RenderedReport,
     ReportInputIsValid
<1>32. CASE CompleteManifest
  BY <1>32 DEF CompleteManifest, history
<1>33. CASE FinishRun
  BY <1>33 DEF FinishRun, MemoryIsLost, NoAnswer, history
<1>34. CASE MarkRunFailed
  BY <1>34 DEF MarkRunFailed, history
<1>35. CASE Close
  BY <1>35 DEF Close, MemoryIsLost, NoAnswer, durable, audit, history
<1>36. CASE MainFails
  BY <1>36 DEF MainFails, OneMoreFault, AtGather, audit
<1>37. ASSUME NEW c \in Candidate, TaskFails(c)
      PROVE ReportInv'
  BY <1>37 DEF TaskFails, OneMoreFault, audit
<1>38. CASE Crash
  BY <1>38 DEF Crash, OneMoreFault, MemoryIsLost, NoAnswer, audit
<1>39. CASE Resume
  BY <1>39 DEF Resume, history
<1>40. ASSUME NEW first \in RejectionStages, PrepareResume(first)
      PROVE ReportInv'
  BY <1>40 DEF PrepareResume, memory
<1>41. CASE UNCHANGED vars
  BY <1>41 DEF vars, audit, memory, history
<1> QED
  BY <1>1, <1>2, <1>3, <1>4, <1>5, <1>6, <1>7, <1>8, <1>9, <1>10, <1>11,
     <1>12, <1>13, <1>14, <1>15, <1>16, <1>17, <1>18, <1>19, <1>20,
     <1>21, <1>22, <1>23, <1>24, <1>25, <1>26, <1>27, <1>28, <1>29,
     <1>30, <1>31, <1>32, <1>33, <1>34, <1>35, <1>36, <1>37, <1>38,
     <1>39, <1>40, <1>41
  DEF Next, ProcessStep, MainStep, TaskStep, ExecutorMain, CriticMain,
      VerifierMain, ReconcilerMain, ExecutorTasks, CriticTasks, VerifierTasks,
      Fault, Operator

(* What is over has its report, and what a stage hands on is exactly what  *)
(* its reports accept.                                                     *)
LEMMA HandedOnStep == TypeOK /\ RowsInv /\ VerifierInv /\ HandedOn /\ [Next]_vars => HandedOn'
<1> SUFFICES ASSUME TypeOK, RowsInv, VerifierInv, HandedOn, [Next]_vars PROVE HandedOn'
  OBVIOUS
<1> USE DEF HandedOn, AtGather, Reported, Verified, RejectedAt,
  TypeOK, MainFlowAt, Goto
<1>1. CASE ReuseExecution
  BY <1>1 DEF ReuseExecution, durable, audit, history
<1>2. CASE StartExecution
  BY <1>2 DEF StartExecution, NoAnswer, durable, audit, history
<1>3. CASE FinishExecution
  BY <1>3 DEF FinishExecution, NoAnswer, durable, audit, history
<1>4. ASSUME NEW d \in Candidate, RecordDedupRejection(d)
      PROVE HandedOn'
  BY <1>4 DEF RecordDedupRejection, memory, history
<1>5. ASSUME NEW lens \in Lens, NEW chunk \in Chunk, ExecutorCallReturns(lens, chunk)
      PROVE HandedOn'
  BY <1>5 DEF ExecutorCallReturns, CandidatesOf, history
<1>6. ASSUME NEW c \in Candidate, RecordLensCandidate(c)
      PROVE HandedOn'
  BY <1>6 DEF RecordLensCandidate, history
<1>7. ASSUME NEW c \in Candidate, RecordExecutorRejection(c)
      PROVE HandedOn'
  BY <1>7 DEF RecordExecutorRejection, HalfRecorded, history
<1>8. CASE RefuseReview
  BY <1>8 DEF RefuseReview, durable, audit, history
<1>9. CASE ReuseReview
  BY <1>9 DEF ReuseReview, durable, audit, history
<1>10. CASE StartReview
  BY <1>10 DEF StartReview, durable, audit, history
<1>11. CASE FinishReview
  BY <1>11 DEF FinishReview, NoAnswer, durable, audit, history
<1>12. CASE FinishMirroring
  <2>1. accepted' = {c \in Candidate : criticReport[c] = "accepted"}
    BY <1>12 DEF FinishMirroring, RowsInv, RowsSupportReviews, AcceptedIsExecuted
  <2>2. QED
    BY <1>12, <2>1 DEF FinishMirroring, durable, audit
<1>13. ASSUME NEW d \in Candidate, MirrorReport(d)
      PROVE HandedOn'
  BY <1>13 DEF MirrorReport, MirrorPending, Merged, memory, history
<1>14. ASSUME NEW chunk \in Chunk, CriticCallReturns(chunk)
      PROVE HandedOn'
  BY <1>14 DEF CriticCallReturns, durable, audit, history
<1>15. ASSUME NEW c \in Candidate, RecordCriticReport(c)
      PROVE HandedOn'
  BY <1>15 DEF RecordCriticReport, CriticTurn, Canonical, ReportOf,
     history
<1>16. ASSUME NEW c \in Candidate, RecordCriticRejection(c)
      PROVE HandedOn'
  <2>1. /\ UNCHANGED <<criticReport, pc, exception, accepted>>
        /\ pc = "reviewing" /\ criticReport[c] # "none"
        /\ done' = done \cup {c}
    BY <1>16 DEF RecordCriticRejection, CriticTurn, CriticHalfRecorded
  <2>2. QED
    BY <2>1 DEF Canonical
<1>17. CASE RefuseVerification
  BY <1>17 DEF RefuseVerification, durable, audit, history
<1>18. CASE ReuseVerification
  BY <1>18 DEF ReuseVerification, durable, audit, history
<1>19. CASE StartVerification
  BY <1>19 DEF StartVerification, durable, audit, history
<1>20. CASE FinishVerification
  <2>1. accepted' = {c \in Candidate : verifierReport[c] = "accepted"}
    BY <1>20 DEF FinishVerification, VerifierInv
  <2>2. QED
    BY <1>20, <2>1 DEF FinishVerification, NoAnswer, durable, audit
<1>21. ASSUME NEW chunk \in Chunk, VerifierCallReturns(chunk)
      PROVE HandedOn'
  BY <1>21 DEF VerifierCallReturns, durable, audit, history
<1>22. ASSUME NEW c \in Candidate, RecordVerifierReport(c)
      PROVE HandedOn'
  <2>1. /\ UNCHANGED <<criticReport, pc, exception, accepted>>
        /\ pc = "verifying"
        /\ verifierReport' = [verifierReport EXCEPT ![c] = ReportOf(answer[c])]
        /\ done' = IF answer[c] = "accept" THEN done \cup {c} ELSE done
        /\ ReportOf(answer[c]) # "none"
    BY <1>22 DEF RecordVerifierReport, VerifierTurn, ReportOf
  <2>2. QED
    BY <2>1
<1>23. ASSUME NEW c \in Candidate, RecordVerifierRejection(c)
      PROVE HandedOn'
  <2>1. /\ UNCHANGED <<criticReport, verifierReport, pc, exception, accepted>>
        /\ pc = "verifying" /\ verifierReport[c] # "none"
        /\ done' = done \cup {c}
    BY <1>23 DEF RecordVerifierRejection, VerifierTurn, VerifierHalfRecorded
  <2>2. exception = "none" => \A d \in accepted \cap done' : verifierReport[d] # "none"
    BY <2>1
  <2>3. QED
    BY <2>1, <2>2
<1>24. CASE RefuseReconciliation
  BY <1>24 DEF RefuseReconciliation, durable, audit, history
<1>25. CASE ReuseReconciliation
  BY <1>25 DEF ReuseReconciliation, durable, audit, history
<1>26. CASE ReconcilerCallReturns
  <2>1. decision' \in Outcomes
    BY <1>26 DEF ReconcilerCallReturns
  <2>2. accepted \ Contributors(decision'.points) \subseteq decision'.rejected
    BY <2>1 DEF Outcomes
  <2>3. accepted \subseteq (UNION decision'.points) \cup decision'.rejected
    BY <2>2 DEF Contributors
  <2>4. QED
    BY <1>26, <2>3 DEF ReconcilerCallReturns, durable, audit
<1>27. CASE FinishReconciliation
  BY <1>27 DEF FinishReconciliation, durable, audit, history
<1>28. ASSUME NEW point \in decision.points, RecordDataPoint(point)
      PROVE HandedOn'
  BY <1>28 DEF RecordDataPoint, memory, history
<1>29. ASSUME NEW c \in Candidate, RecordReconcilerRejection(c)
      PROVE HandedOn'
  BY <1>29 DEF RecordReconcilerRejection, memory, history
<1>30. CASE StageEnds
  BY <1>30 DEF StageEnds, EnsureStageCompleted, history
<1>31. CASE WriteReportFile
  BY <1>31 DEF WriteReportFile, history
<1>32. CASE CompleteManifest
  BY <1>32 DEF CompleteManifest, history
<1>33. CASE FinishRun
  BY <1>33 DEF FinishRun, MemoryIsLost, NoAnswer, history
<1>34. CASE MarkRunFailed
  BY <1>34 DEF MarkRunFailed, history
<1>35. CASE Close
  BY <1>35 DEF Close, MemoryIsLost, NoAnswer, durable, audit, history
<1>36. CASE MainFails
  BY <1>36 DEF MainFails, OneMoreFault, AtGather, audit
<1>37. ASSUME NEW c \in Candidate, TaskFails(c)
      PROVE HandedOn'
  BY <1>37 DEF TaskFails, OneMoreFault, audit
<1>38. CASE Crash
  BY <1>38 DEF Crash, OneMoreFault, MemoryIsLost, NoAnswer, audit
<1>39. CASE Resume
  BY <1>39 DEF Resume, history
<1>40. ASSUME NEW first \in RejectionStages, PrepareResume(first)
      PROVE HandedOn'
  BY <1>40 DEF PrepareResume, memory
<1>41. CASE UNCHANGED vars
  BY <1>41 DEF vars, audit, memory, history
<1> QED
  BY <1>1, <1>2, <1>3, <1>4, <1>5, <1>6, <1>7, <1>8, <1>9, <1>10, <1>11,
     <1>12, <1>13, <1>14, <1>15, <1>16, <1>17, <1>18, <1>19, <1>20,
     <1>21, <1>22, <1>23, <1>24, <1>25, <1>26, <1>27, <1>28, <1>29,
     <1>30, <1>31, <1>32, <1>33, <1>34, <1>35, <1>36, <1>37, <1>38,
     <1>39, <1>40, <1>41
  DEF Next, ProcessStep, MainStep, TaskStep, ExecutorMain, CriticMain,
      VerifierMain, ReconcilerMain, ExecutorTasks, CriticTasks, VerifierTasks,
      Fault, Operator

(* Nothing that a finished stage accounts for is lost as long as rows and  *)
(* reports stay and rejections and data points are only added.             *)
LEMMA AccountsStay ==
  ASSUME UNCHANGED <<row, criticReport, verifierReport>>,
         rejections \subseteq rejections', dataPoints \subseteq dataPoints',
         \A r \in rejections' \ rejections : r[2] # "executor"
  PROVE  /\ DedupAccounts => DedupAccounts'
         /\ CriticAccounts => CriticAccounts'
         /\ VerifierAccounts => VerifierAccounts'
         /\ ReconcilerAccounts => ReconcilerAccounts'
<1>1. Executed' = Executed
  BY DEF Executed, ExecutionFromAudit, Recorded, RejectedAt
<1>2. \A s \in RejectionStages : RejectedAt(s) \subseteq RejectedAt(s)'
  BY DEF RejectedAt
<1>3. Reported' = Reported /\ Verified' = Verified
  BY DEF Reported, Verified
<1>4. Canonical(Executed)' = Canonical(Executed) /\ Merged(Executed)' = Merged(Executed)
  BY <1>1 DEF Canonical, Merged
<1>5. UNION dataPoints \subseteq UNION dataPoints'
  OBVIOUS
<1>6. QED
  BY <1>2, <1>3, <1>4, <1>5 DEF DedupAccounts, CriticAccounts, VerifierAccounts,
     ReconcilerAccounts, RejectionStages

(* Nor does a new report of a reviewer lose what is accounted for already. *)
LEMMA AccountsGrow ==
  ASSUME UNCHANGED <<row, rejections>>, Reported \subseteq Reported'
  PROVE  /\ DedupAccounts => DedupAccounts'
         /\ CriticAccounts => CriticAccounts'
<1>1. Executed' = Executed /\ \A s \in RejectionStages : RejectedAt(s)' = RejectedAt(s)
  BY DEF Executed, ExecutionFromAudit, Recorded, RejectedAt
<1>2. Canonical(Executed)' = Canonical(Executed) /\ Merged(Executed)' = Merged(Executed)
  BY <1>1 DEF Canonical, Merged
<1>3. QED
  BY <1>1, <1>2 DEF DedupAccounts, CriticAccounts, RejectionStages

(* A stage ends only when it accounts for every candidate it was handed.   *)
LEMMA AccountsStep == TypeOK /\ RowsInv /\ ReportInv /\ HandedOn /\ AccountInv /\ [Next]_vars => AccountInv'
<1> SUFFICES ASSUME TypeOK, RowsInv, ReportInv, HandedOn, AccountInv, [Next]_vars PROVE AccountInv'
  OBVIOUS
<1> USE DEF AccountInv, PastDedup, PastCritic, PastVerifier, PastReconciler,
  PcValues, TypeOK, MainFlowAt, Goto
<1>1. CASE ReuseExecution
  BY <1>1, AccountsStay DEF ReuseExecution, durable, audit, history
<1>2. CASE StartExecution
  BY <1>2, AccountsStay DEF StartExecution, NoAnswer, durable, audit,
     history
<1>3. CASE FinishExecution
  BY <1>3, AccountsStay DEF FinishExecution, NoAnswer, durable, audit,
     history
<1>4. ASSUME NEW d \in Candidate, RecordDedupRejection(d)
      PROVE AccountInv'
  BY <1>4, AccountsStay DEF RecordDedupRejection, memory, history
<1>5. ASSUME NEW lens \in Lens, NEW chunk \in Chunk, ExecutorCallReturns(lens, chunk)
      PROVE AccountInv'
  BY <1>5, AccountsStay DEF ExecutorCallReturns, CandidatesOf, history
<1>6. ASSUME NEW c \in Candidate, RecordLensCandidate(c)
      PROVE AccountInv'
  BY <1>6 DEF RecordLensCandidate, ReportInv
<1>7. ASSUME NEW c \in Candidate, RecordExecutorRejection(c)
      PROVE AccountInv'
  BY <1>7 DEF RecordExecutorRejection, ReportInv
<1>8. CASE RefuseReview
  BY <1>8, AccountsStay DEF RefuseReview, durable, audit, history
<1>9. CASE ReuseReview
  <2>1. CriticAccounts
    BY <1>9 DEF ReuseReview, ReviewIsComplete, ReviewMissing, ReviewAccounted,
       RowsInv, AcceptedIsExecuted, CriticAccounts
  <2>2. QED
    BY <1>9, <2>1, AccountsStay DEF ReuseReview, durable, audit
<1>10. CASE StartReview
  BY <1>10, AccountsStay DEF StartReview, durable, audit, history
<1>11. CASE FinishReview
  <2>1. CriticAccounts
    BY <1>11 DEF FinishReview, RowsInv, AcceptedIsExecuted, HandedOn, CriticAccounts
  <2>2. QED
    BY <1>11, <2>1, AccountsStay DEF FinishReview, durable, audit
<1>12. CASE FinishMirroring
  BY <1>12, AccountsStay DEF FinishMirroring, durable, audit, history
<1>13. ASSUME NEW d \in Candidate, MirrorReport(d)
      PROVE AccountInv'
  <2>1. UNCHANGED <<row, rejections, manifest, pc>> /\ pc = "mirroring"
    BY <1>13 DEF MirrorReport, memory
  <2>2. Reported \subseteq Reported'
    BY <1>13 DEF MirrorReport, MirrorPending, Reported
  <2>3. QED
    BY <2>1, <2>2, AccountsGrow DEF ReportInv
<1>14. ASSUME NEW chunk \in Chunk, CriticCallReturns(chunk)
      PROVE AccountInv'
  BY <1>14, AccountsStay DEF CriticCallReturns, durable, audit, history
<1>15. ASSUME NEW c \in Candidate, RecordCriticReport(c)
      PROVE AccountInv'
  <2>1. UNCHANGED <<row, rejections, manifest, pc>> /\ pc = "reviewing"
    BY <1>15 DEF RecordCriticReport, CriticTurn
  <2>2. Reported \subseteq Reported'
    BY <1>15 DEF RecordCriticReport, CriticTurn, ReportOf, Reported
  <2>3. QED
    BY <2>1, <2>2, AccountsGrow DEF ReportInv
<1>16. ASSUME NEW c \in Candidate, RecordCriticRejection(c)
      PROVE AccountInv'
  BY <1>16, AccountsStay DEF RecordCriticRejection, CriticTurn,
     Canonical, history
<1>17. CASE RefuseVerification
  BY <1>17, AccountsStay DEF RefuseVerification, durable, audit, history
<1>18. CASE ReuseVerification
  <2>1. VerifierAccounts
    BY <1>18 DEF ReuseVerification, VerificationIsComplete, VerificationMissing,
       VerificationAccounted, HandedOn, VerifierAccounts
  <2>2. QED
    BY <1>18, <2>1, AccountsStay DEF ReuseVerification, durable, audit
<1>19. CASE StartVerification
  BY <1>19, AccountsStay DEF StartVerification, durable, audit, history
<1>20. CASE FinishVerification
  <2>1. VerifierAccounts
    BY <1>20 DEF FinishVerification, HandedOn, VerifierAccounts
  <2>2. QED
    BY <1>20, <2>1, AccountsStay DEF FinishVerification, durable, audit
<1>21. ASSUME NEW chunk \in Chunk, VerifierCallReturns(chunk)
      PROVE AccountInv'
  BY <1>21, AccountsStay DEF VerifierCallReturns, durable, audit,
     history
<1>22. ASSUME NEW c \in Candidate, RecordVerifierReport(c)
      PROVE AccountInv'
  <2>1. UNCHANGED <<row, rejections, criticReport, manifest, pc>> /\ pc = "verifying"
    BY <1>22 DEF RecordVerifierReport, VerifierTurn
  <2>2. Reported \subseteq Reported'
    BY <2>1 DEF Reported
  <2>3. QED
    BY <2>1, <2>2, AccountsGrow DEF ReportInv
<1>23. ASSUME NEW c \in Candidate, RecordVerifierRejection(c)
      PROVE AccountInv'
  BY <1>23, AccountsStay DEF RecordVerifierRejection, VerifierTurn,
     history
<1>24. CASE RefuseReconciliation
  BY <1>24, AccountsStay DEF RefuseReconciliation, durable, audit,
     history
<1>25. CASE ReuseReconciliation
  <2>1. accepted \subseteq (UNION dataPoints) \cup RejectedAt("reconciler")
    BY <1>25 DEF ReuseReconciliation, ReconciliationIsReusable, ReconciliationMissing,
       Contributors
  <2>2. ReconcilerAccounts
    BY <1>25, <2>1 DEF ReuseReconciliation, HandedOn, ReconcilerAccounts
  <2>3. QED
    BY <1>25, <2>2, AccountsStay DEF ReuseReconciliation, durable, audit
<1>26. CASE ReconcilerCallReturns
  BY <1>26, AccountsStay DEF ReconcilerCallReturns, durable, audit,
     history
<1>27. CASE FinishReconciliation
  <2>1. UNION decision.points \subseteq UNION dataPoints
    BY <1>27 DEF FinishReconciliation
  <2>2. ReconcilerAccounts
    BY <1>27, <2>1 DEF FinishReconciliation, RejectionsPending, HandedOn,
       ReconcilerAccounts
  <2>3. QED
    BY <1>27, <2>2, AccountsStay DEF FinishReconciliation, durable, audit
<1>28. ASSUME NEW point \in decision.points, RecordDataPoint(point)
      PROVE AccountInv'
  BY <1>28, AccountsStay DEF RecordDataPoint, memory, history
<1>29. ASSUME NEW c \in Candidate, RecordReconcilerRejection(c)
      PROVE AccountInv'
  BY <1>29, AccountsStay DEF RecordReconcilerRejection, memory, history
<1>30. CASE StageEnds
  <2>1. CASE DedupPending = {} /\ EnsureStageCompleted("dedup", "deduping", "critic")
    <3>1. DedupAccounts
      BY <2>1 DEF DedupPending, EnsureStageCompleted, RowsInv, AcceptedIsExecuted,
         DedupAccounts
    <3>2. QED
      BY <2>1, <3>1, AccountsStay DEF EnsureStageCompleted, history
  <2>2. CASE EnsureStageCompleted("executor", "executed", "deduping")
    BY <2>2, AccountsStay DEF EnsureStageCompleted, history
  <2>3. CASE EnsureStageCompleted("critic", "reviewed", "verifier")
    BY <2>3, AccountsStay DEF EnsureStageCompleted, history
  <2>4. CASE EnsureStageCompleted("verifier", "verified", "reconciler")
    BY <2>4, AccountsStay DEF EnsureStageCompleted, history
  <2>5. CASE EnsureStageCompleted("reconciler", "reconciled", "reporting")
    BY <2>5, AccountsStay DEF EnsureStageCompleted, history
  <2>6. QED
    BY <1>30, <2>1, <2>2, <2>3, <2>4, <2>5 DEF StageEnds
<1>31. CASE WriteReportFile
  BY <1>31, AccountsStay DEF WriteReportFile, history
<1>32. CASE CompleteManifest
  BY <1>32, AccountsStay DEF CompleteManifest, history
<1>33. CASE FinishRun
  BY <1>33, AccountsStay DEF FinishRun, MemoryIsLost, NoAnswer, history
<1>34. CASE MarkRunFailed
  BY <1>34, AccountsStay DEF MarkRunFailed, history
<1>35. CASE Close
  BY <1>35, AccountsStay DEF Close, MemoryIsLost, NoAnswer, durable,
     audit, history
<1>36. CASE MainFails
  BY <1>36, AccountsStay DEF MainFails, OneMoreFault, AtGather, audit
<1>37. ASSUME NEW c \in Candidate, TaskFails(c)
      PROVE AccountInv'
  BY <1>37, AccountsStay DEF TaskFails, OneMoreFault, audit
<1>38. CASE Crash
  BY <1>38, AccountsStay DEF Crash, OneMoreFault, MemoryIsLost,
     NoAnswer, audit
<1>39. CASE Resume
  BY <1>39, AccountsStay DEF Resume, history
<1>40. ASSUME NEW first \in RejectionStages, PrepareResume(first)
      PROVE AccountInv'
  BY <1>40, AccountsStay DEF PrepareResume, memory
<1>41. CASE UNCHANGED vars
  BY <1>41, AccountsStay DEF vars, audit, memory, history
<1> QED
  BY <1>1, <1>2, <1>3, <1>4, <1>5, <1>6, <1>7, <1>8, <1>9, <1>10, <1>11,
     <1>12, <1>13, <1>14, <1>15, <1>16, <1>17, <1>18, <1>19, <1>20,
     <1>21, <1>22, <1>23, <1>24, <1>25, <1>26, <1>27, <1>28, <1>29,
     <1>30, <1>31, <1>32, <1>33, <1>34, <1>35, <1>36, <1>37, <1>38,
     <1>39, <1>40, <1>41
  DEF Next, ProcessStep, MainStep, TaskStep, ExecutorMain, CriticMain,
      VerifierMain, ReconcilerMain, ExecutorTasks, CriticTasks, VerifierTasks,
      Fault, Operator

(* The rejections of the reviewers and the reconciler are about what they  *)
(* were handed.                                                            *)
LEMMA RejectionsStep == TypeOK /\ VerifierInv /\ HandedOn /\ RejectionsInv /\ [Next]_vars => RejectionsInv'
<1> SUFFICES ASSUME TypeOK, VerifierInv, HandedOn, RejectionsInv, [Next]_vars PROVE RejectionsInv'
  OBVIOUS
<1> USE DEF RejectionsInv, RejectedAt, TypeOK, MainFlowAt, Goto
<1>1. CASE ReuseExecution
  BY <1>1 DEF ReuseExecution, durable, audit, history
<1>2. CASE StartExecution
  BY <1>2 DEF StartExecution, NoAnswer, durable, audit, history
<1>3. CASE FinishExecution
  BY <1>3 DEF FinishExecution, NoAnswer, durable, audit, history
<1>4. ASSUME NEW d \in Candidate, RecordDedupRejection(d)
      PROVE RejectionsInv'
  BY <1>4 DEF RecordDedupRejection, memory, history
<1>5. ASSUME NEW lens \in Lens, NEW chunk \in Chunk, ExecutorCallReturns(lens, chunk)
      PROVE RejectionsInv'
  BY <1>5 DEF ExecutorCallReturns, CandidatesOf, history
<1>6. ASSUME NEW c \in Candidate, RecordLensCandidate(c)
      PROVE RejectionsInv'
  BY <1>6 DEF RecordLensCandidate, history
<1>7. ASSUME NEW c \in Candidate, RecordExecutorRejection(c)
      PROVE RejectionsInv'
  BY <1>7 DEF RecordExecutorRejection, HalfRecorded, history
<1>8. CASE RefuseReview
  BY <1>8 DEF RefuseReview, durable, audit, history
<1>9. CASE ReuseReview
  BY <1>9 DEF ReuseReview, durable, audit, history
<1>10. CASE StartReview
  BY <1>10 DEF StartReview, durable, audit, history
<1>11. CASE FinishReview
  BY <1>11 DEF FinishReview, NoAnswer, durable, audit, history
<1>12. CASE FinishMirroring
  BY <1>12 DEF FinishMirroring, durable, audit, history
<1>13. ASSUME NEW d \in Candidate, MirrorReport(d)
      PROVE RejectionsInv'
  BY <1>13 DEF MirrorReport, MirrorPending, Merged, memory, history
<1>14. ASSUME NEW chunk \in Chunk, CriticCallReturns(chunk)
      PROVE RejectionsInv'
  BY <1>14 DEF CriticCallReturns, durable, audit, history
<1>15. ASSUME NEW c \in Candidate, RecordCriticReport(c)
      PROVE RejectionsInv'
  BY <1>15 DEF RecordCriticReport, CriticTurn, Canonical, ReportOf,
     history
<1>16. ASSUME NEW c \in Candidate, RecordCriticRejection(c)
      PROVE RejectionsInv'
  <2>1. /\ UNCHANGED <<criticReport, verifierReport, dataPoints, decision, pc>>
        /\ rejections' = rejections \cup {<<c, "critic">>}
        /\ criticReport[c] = "rejected"
    BY <1>16 DEF RecordCriticRejection, CriticTurn, CriticHalfRecorded
  <2>2. /\ RejectedAt("critic")' = RejectedAt("critic") \cup {c}
        /\ UNCHANGED <<RejectedAt("verifier"), RejectedAt("reconciler")>>
    BY <2>1
  <2>3. QED
    <3> HIDE DEF RejectedAt
    <3> QED
      BY <2>1, <2>2
<1>17. CASE RefuseVerification
  BY <1>17 DEF RefuseVerification, durable, audit, history
<1>18. CASE ReuseVerification
  BY <1>18 DEF ReuseVerification, durable, audit, history
<1>19. CASE StartVerification
  BY <1>19 DEF StartVerification, durable, audit, history
<1>20. CASE FinishVerification
  BY <1>20 DEF FinishVerification, NoAnswer, durable, audit, history
<1>21. ASSUME NEW chunk \in Chunk, VerifierCallReturns(chunk)
      PROVE RejectionsInv'
  BY <1>21 DEF VerifierCallReturns, durable, audit, history
<1>22. ASSUME NEW c \in Candidate, RecordVerifierReport(c)
      PROVE RejectionsInv'
  BY <1>22 DEF RecordVerifierReport, VerifierTurn, history
<1>23. ASSUME NEW c \in Candidate, RecordVerifierRejection(c)
      PROVE RejectionsInv'
  <2>1. /\ UNCHANGED <<criticReport, verifierReport, dataPoints, decision, pc>>
        /\ rejections' = rejections \cup {<<c, "verifier">>}
        /\ verifierReport[c] = "rejected"
    BY <1>23 DEF RecordVerifierRejection, VerifierTurn, VerifierHalfRecorded
  <2>2. /\ RejectedAt("verifier")' = RejectedAt("verifier") \cup {c}
        /\ UNCHANGED <<RejectedAt("critic"), RejectedAt("reconciler")>>
    BY <2>1
  <2>3. QED
    <3> HIDE DEF RejectedAt
    <3> QED
      BY <2>1, <2>2
<1>24. CASE RefuseReconciliation
  BY <1>24 DEF RefuseReconciliation, durable, audit, history
<1>25. CASE ReuseReconciliation
  BY <1>25 DEF ReuseReconciliation, durable, audit, history
<1>26. CASE ReconcilerCallReturns
  <2>1. decision' \in Outcomes
    BY <1>26 DEF ReconcilerCallReturns
  <2>2. {} \notin decision'.points /\ decision'.rejected \subseteq accepted
    BY <2>1 DEF Outcomes
  <2>3. accepted = {c \in Candidate : verifierReport[c] = "accepted"}
    BY <1>26 DEF ReconcilerCallReturns, HandedOn
  <2>4. QED
    BY <1>26, <2>2, <2>3 DEF ReconcilerCallReturns, durable, audit
<1>27. CASE FinishReconciliation
  BY <1>27 DEF FinishReconciliation, durable, audit, history
<1>28. ASSUME NEW point \in decision.points, RecordDataPoint(point)
      PROVE RejectionsInv'
  BY <1>28 DEF RecordDataPoint, memory, history
<1>29. ASSUME NEW c \in Candidate, RecordReconcilerRejection(c)
      PROVE RejectionsInv'
  <2>1. /\ UNCHANGED <<criticReport, verifierReport, dataPoints, decision, pc>>
        /\ rejections' = rejections \cup {<<c, "reconciler">>}
        /\ verifierReport[c] = "accepted"
    BY <1>29 DEF RecordReconcilerRejection, RejectionsPending, memory
  <2>2. /\ RejectedAt("reconciler")' = RejectedAt("reconciler") \cup {c}
        /\ UNCHANGED <<RejectedAt("critic"), RejectedAt("verifier")>>
    BY <2>1
  <2>3. QED
    <3> HIDE DEF RejectedAt
    <3> QED
      BY <2>1, <2>2
<1>30. CASE StageEnds
  BY <1>30 DEF StageEnds, EnsureStageCompleted, history
<1>31. CASE WriteReportFile
  BY <1>31 DEF WriteReportFile, history
<1>32. CASE CompleteManifest
  BY <1>32 DEF CompleteManifest, history
<1>33. CASE FinishRun
  BY <1>33 DEF FinishRun, MemoryIsLost, NoAnswer, history
<1>34. CASE MarkRunFailed
  BY <1>34 DEF MarkRunFailed, history
<1>35. CASE Close
  BY <1>35 DEF Close, MemoryIsLost, NoAnswer, durable, audit, history
<1>36. CASE MainFails
  BY <1>36 DEF MainFails, OneMoreFault, AtGather, audit
<1>37. ASSUME NEW c \in Candidate, TaskFails(c)
      PROVE RejectionsInv'
  BY <1>37 DEF TaskFails, OneMoreFault, audit
<1>38. CASE Crash
  BY <1>38 DEF Crash, OneMoreFault, MemoryIsLost, NoAnswer, audit
<1>39. CASE Resume
  BY <1>39 DEF Resume, history
<1>40. ASSUME NEW first \in RejectionStages, PrepareResume(first)
      PROVE RejectionsInv'
  <2>1. pc' = "down" /\ dataPoints' = {}
    BY <1>40 DEF PrepareResume, memory
  <2>2. RejectedAt("reconciler")' = {}
    BY <1>40 DEF PrepareResume, StagesFrom, StageOrder, StageNames, RejectionStages
  <2>3. /\ RejectedAt("critic")' = {} \/ UNCHANGED <<criticReport, RejectedAt("critic")>>
        /\ RejectedAt("verifier")' = {} \/ UNCHANGED <<verifierReport, RejectedAt("verifier")>>
    BY <1>40 DEF PrepareResume, StagesFrom, StageOrder, StageNames, RejectionStages
  <2>4. QED
    BY <2>1, <2>2, <2>3
<1>41. CASE UNCHANGED vars
  BY <1>41 DEF vars, audit, memory, history
<1> QED
  BY <1>1, <1>2, <1>3, <1>4, <1>5, <1>6, <1>7, <1>8, <1>9, <1>10, <1>11,
     <1>12, <1>13, <1>14, <1>15, <1>16, <1>17, <1>18, <1>19, <1>20,
     <1>21, <1>22, <1>23, <1>24, <1>25, <1>26, <1>27, <1>28, <1>29,
     <1>30, <1>31, <1>32, <1>33, <1>34, <1>35, <1>36, <1>37, <1>38,
     <1>39, <1>40, <1>41
  DEF Next, ProcessStep, MainStep, TaskStep, ExecutorMain, CriticMain,
      VerifierMain, ReconcilerMain, ExecutorTasks, CriticTasks, VerifierTasks,
      Fault, Operator

(* A stage is recorded behind the ones before it, and not run again while  *)
(* it is recorded.                                                         *)
LEMMA StagesStep == TypeOK /\ RowsInv /\ HandedOn /\ AccountInv /\ StagesInv /\ [Next]_vars => StagesInv'
<1> SUFFICES ASSUME TypeOK, RowsInv, HandedOn, AccountInv, StagesInv, [Next]_vars PROVE StagesInv'
  OBVIOUS
<1> USE DEF StagesInv, PastDedup, PastCritic, PastVerifier, PastReconciler,
  PcValues, TypeOK, MainFlowAt, Goto
<1>1. CASE ReuseExecution
  BY <1>1, AccountsStay DEF ReuseExecution, durable, audit, history
<1>2. CASE StartExecution
  BY <1>2, AccountsStay DEF StartExecution, NoAnswer, durable, audit,
     history
<1>3. CASE FinishExecution
  BY <1>3, AccountsStay DEF FinishExecution, NoAnswer, durable, audit,
     history
<1>4. ASSUME NEW d \in Candidate, RecordDedupRejection(d)
      PROVE StagesInv'
  BY <1>4, AccountsStay DEF RecordDedupRejection, memory, history
<1>5. ASSUME NEW lens \in Lens, NEW chunk \in Chunk, ExecutorCallReturns(lens, chunk)
      PROVE StagesInv'
  BY <1>5, AccountsStay DEF ExecutorCallReturns, CandidatesOf, history
<1>6. ASSUME NEW c \in Candidate, RecordLensCandidate(c)
      PROVE StagesInv'
  BY <1>6, AccountsStay DEF RecordLensCandidate, history
<1>7. ASSUME NEW c \in Candidate, RecordExecutorRejection(c)
      PROVE StagesInv'
  BY <1>7, AccountsStay DEF RecordExecutorRejection, HalfRecorded,
     history
<1>8. CASE RefuseReview
  BY <1>8, AccountsStay DEF RefuseReview, durable, audit, history
<1>9. CASE ReuseReview
  BY <1>9, AccountsStay DEF ReuseReview, durable, audit, history
<1>10. CASE StartReview
  <2>1. "critic" \notin stages
    BY <1>10 DEF StartReview, ReviewIsComplete, ReviewMissing, ReviewAccounted,
       RowsInv, AcceptedIsExecuted, CriticAccounts
  <2>2. QED
    BY <1>10, <2>1, AccountsStay DEF StartReview, durable, audit
<1>11. CASE FinishReview
  BY <1>11, AccountsStay DEF FinishReview, NoAnswer, durable, audit,
     history
<1>12. CASE FinishMirroring
  BY <1>12, AccountsStay DEF FinishMirroring, durable, audit, history
<1>13. ASSUME NEW d \in Candidate, MirrorReport(d)
      PROVE StagesInv'
  <2>1. UNCHANGED <<row, rejections, stages, pc>> /\ pc = "mirroring"
    BY <1>13 DEF MirrorReport, memory
  <2>2. Reported \subseteq Reported'
    BY <1>13 DEF MirrorReport, MirrorPending, Reported
  <2>3. QED
    BY <2>1, <2>2, AccountsGrow
<1>14. ASSUME NEW chunk \in Chunk, CriticCallReturns(chunk)
      PROVE StagesInv'
  BY <1>14, AccountsStay DEF CriticCallReturns, durable, audit, history
<1>15. ASSUME NEW c \in Candidate, RecordCriticReport(c)
      PROVE StagesInv'
  <2>1. UNCHANGED <<row, rejections, stages, pc>> /\ pc = "reviewing"
    BY <1>15 DEF RecordCriticReport, CriticTurn
  <2>2. Reported \subseteq Reported'
    BY <1>15 DEF RecordCriticReport, CriticTurn, ReportOf, Reported
  <2>3. QED
    BY <2>1, <2>2, AccountsGrow
<1>16. ASSUME NEW c \in Candidate, RecordCriticRejection(c)
      PROVE StagesInv'
  BY <1>16, AccountsStay DEF RecordCriticRejection, CriticTurn,
     Canonical, history
<1>17. CASE RefuseVerification
  BY <1>17, AccountsStay DEF RefuseVerification, durable, audit, history
<1>18. CASE ReuseVerification
  BY <1>18, AccountsStay DEF ReuseVerification, durable, audit, history
<1>19. CASE StartVerification
  <2>1. "verifier" \notin stages
    BY <1>19 DEF StartVerification, VerificationIsComplete, VerificationMissing,
       VerificationAccounted, HandedOn, VerifierAccounts
  <2>2. QED
    BY <1>19, <2>1, AccountsStay DEF StartVerification, durable, audit
<1>20. CASE FinishVerification
  BY <1>20, AccountsStay DEF FinishVerification, NoAnswer, durable,
     audit, history
<1>21. ASSUME NEW chunk \in Chunk, VerifierCallReturns(chunk)
      PROVE StagesInv'
  BY <1>21, AccountsStay DEF VerifierCallReturns, durable, audit,
     history
<1>22. ASSUME NEW c \in Candidate, RecordVerifierReport(c)
      PROVE StagesInv'
  <2>1. UNCHANGED <<row, rejections, criticReport, stages, pc>> /\ pc = "verifying"
    BY <1>22 DEF RecordVerifierReport, VerifierTurn
  <2>2. Reported \subseteq Reported'
    BY <2>1 DEF Reported
  <2>3. QED
    BY <2>1, <2>2, AccountsGrow
<1>23. ASSUME NEW c \in Candidate, RecordVerifierRejection(c)
      PROVE StagesInv'
  BY <1>23, AccountsStay DEF RecordVerifierRejection, VerifierTurn,
     history
<1>24. CASE RefuseReconciliation
  BY <1>24, AccountsStay DEF RefuseReconciliation, durable, audit,
     history
<1>25. CASE ReuseReconciliation
  BY <1>25, AccountsStay DEF ReuseReconciliation, durable, audit,
     history
<1>26. CASE ReconcilerCallReturns
  <2>1. "reconciler" \notin stages
    <3>1. accepted = {c \in Candidate : verifierReport[c] = "accepted"}
      BY <1>26 DEF ReconcilerCallReturns, HandedOn
    <3>2. accepted # {} /\ UNION dataPoints = {} /\ RejectedAt("reconciler") = {}
      BY <1>26 DEF ReconcilerCallReturns, ReconciliationIsAbsent
    <3>3. QED
      BY <3>1, <3>2 DEF ReconcilerAccounts
  <2>2. QED
    BY <1>26, <2>1, AccountsStay DEF ReconcilerCallReturns, durable, audit
<1>27. CASE FinishReconciliation
  BY <1>27, AccountsStay DEF FinishReconciliation, durable, audit,
     history
<1>28. ASSUME NEW point \in decision.points, RecordDataPoint(point)
      PROVE StagesInv'
  BY <1>28, AccountsStay DEF RecordDataPoint, memory, history
<1>29. ASSUME NEW c \in Candidate, RecordReconcilerRejection(c)
      PROVE StagesInv'
  BY <1>29, AccountsStay DEF RecordReconcilerRejection, memory, history
<1>30. CASE StageEnds
  <2>1. UNCHANGED <<row, rejections, criticReport, verifierReport, dataPoints>>
    BY <1>30 DEF StageEnds, EnsureStageCompleted
  <2>2. CASE EnsureStageCompleted("executor", "executed", "deduping")
    BY <2>1, <2>2, AccountsStay DEF EnsureStageCompleted
  <2>3. CASE DedupPending = {} /\ EnsureStageCompleted("dedup", "deduping", "critic")
    <3>1. DedupAccounts
      BY <2>3 DEF DedupPending, EnsureStageCompleted, RowsInv, AcceptedIsExecuted,
         DedupAccounts
    <3>2. QED
      BY <2>1, <2>3, <3>1, AccountsStay DEF EnsureStageCompleted
  <2>4. CASE EnsureStageCompleted("critic", "reviewed", "verifier")
    BY <2>1, <2>4, AccountsStay DEF EnsureStageCompleted, AccountInv
  <2>5. CASE EnsureStageCompleted("verifier", "verified", "reconciler")
    BY <2>1, <2>5, AccountsStay DEF EnsureStageCompleted, AccountInv
  <2>6. CASE EnsureStageCompleted("reconciler", "reconciled", "reporting")
    BY <2>1, <2>6, AccountsStay DEF EnsureStageCompleted, AccountInv
  <2>7. QED
    BY <1>30, <2>2, <2>3, <2>4, <2>5, <2>6 DEF StageEnds
<1>31. CASE WriteReportFile
  BY <1>31, AccountsStay DEF WriteReportFile, history
<1>32. CASE CompleteManifest
  BY <1>32, AccountsStay DEF CompleteManifest, history
<1>33. CASE FinishRun
  BY <1>33, AccountsStay DEF FinishRun, MemoryIsLost, NoAnswer, history
<1>34. CASE MarkRunFailed
  BY <1>34, AccountsStay DEF MarkRunFailed, history
<1>35. CASE Close
  BY <1>35, AccountsStay DEF Close, MemoryIsLost, NoAnswer, durable,
     audit, history
<1>36. CASE MainFails
  BY <1>36, AccountsStay DEF MainFails, OneMoreFault, AtGather, audit
<1>37. ASSUME NEW c \in Candidate, TaskFails(c)
      PROVE StagesInv'
  BY <1>37, AccountsStay DEF TaskFails, OneMoreFault, audit
<1>38. CASE Crash
  BY <1>38, AccountsStay DEF Crash, OneMoreFault, MemoryIsLost,
     NoAnswer, audit
<1>39. CASE Resume
  BY <1>39, AccountsStay DEF Resume, history
<1>40. ASSUME NEW first \in RejectionStages, PrepareResume(first)
      PROVE StagesInv'
  <2>1. pc' = "down" /\ stages' = stages \ StagesFrom(first)
    BY <1>40 DEF PrepareResume, memory
  <2>2. \A s \in StageNames : RejectedAt(s)' = IF s \in StagesFrom(first) THEN {}
                                               ELSE RejectedAt(s)
    BY <1>40 DEF PrepareResume, RejectedAt
  <2>3. CASE first \in {"executor", "dedup"}
    <3>1. {"dedup", "critic", "verifier", "reconciler"} \subseteq StagesFrom(first)
      BY <2>3 DEF StagesFrom, StageOrder, StageNames
    <3>2. QED
      BY <2>1, <3>1
  <2>4. CASE first \in {"critic", "verifier", "reconciler"}
    <3>1. UNCHANGED <<row, RejectedAt("executor"), RejectedAt("dedup")>>
      BY <1>40, <2>2, <2>4 DEF PrepareResume, StagesFrom, StageOrder, StageNames
    <3>2. Executed' = Executed
      BY <3>1 DEF Executed, ExecutionFromAudit, Recorded
    <3>3. DedupAccounts => DedupAccounts'
      BY <3>1, <3>2 DEF DedupAccounts, Merged, Canonical
    <3>4. "reconciler" \notin stages'
      BY <2>1, <2>4 DEF StagesFrom, StageOrder, StageNames
    <3>5. "critic" \in stages' => UNCHANGED <<criticReport, RejectedAt("critic")>>
      BY <1>40, <2>1, <2>2, <2>4 DEF PrepareResume, StagesFrom, StageOrder, StageNames
    <3>6. "critic" \in stages' => (CriticAccounts => CriticAccounts')
      BY <3>2, <3>5 DEF CriticAccounts, Reported, Canonical
    <3>7. "verifier" \in stages' =>
            UNCHANGED <<criticReport, verifierReport, RejectedAt("verifier")>>
      BY <1>40, <2>1, <2>2, <2>4 DEF PrepareResume, StagesFrom, StageOrder, StageNames
    <3>8. "verifier" \in stages' => (VerifierAccounts => VerifierAccounts')
      BY <3>7 DEF VerifierAccounts, Verified
    <3>9. "dedup" \in stages' => "executor" \in stages'
      BY <2>1, <2>4 DEF StagesFrom, StageOrder, StageNames
    <3>10. "critic" \in stages' => "dedup" \in stages'
      BY <2>1, <2>4 DEF StagesFrom, StageOrder, StageNames
    <3>11. "verifier" \in stages' => "critic" \in stages'
      BY <2>1, <2>4 DEF StagesFrom, StageOrder, StageNames
    <3>12. QED
      BY <2>1, <3>3, <3>4, <3>6, <3>8, <3>9, <3>10, <3>11
  <2>5. QED
    BY <2>3, <2>4 DEF RejectionStages
<1>41. CASE UNCHANGED vars
  BY <1>41, AccountsStay DEF vars, audit, memory, history
<1> QED
  BY <1>1, <1>2, <1>3, <1>4, <1>5, <1>6, <1>7, <1>8, <1>9, <1>10, <1>11,
     <1>12, <1>13, <1>14, <1>15, <1>16, <1>17, <1>18, <1>19, <1>20,
     <1>21, <1>22, <1>23, <1>24, <1>25, <1>26, <1>27, <1>28, <1>29,
     <1>30, <1>31, <1>32, <1>33, <1>34, <1>35, <1>36, <1>37, <1>38,
     <1>39, <1>40, <1>41
  DEF Next, ProcessStep, MainStep, TaskStep, ExecutorMain, CriticMain,
      VerifierMain, ReconcilerMain, ExecutorTasks, CriticTasks, VerifierTasks,
      Fault, Operator

(* The parts of the invariant together are inductive. *)
LEMMA ReviewStep == TypeOK /\ ReviewInv /\ [Next]_vars => ReviewInv'
  BY RowsStep, CriticStep, VerifierStep, PointsStep, ReportStep, HandedOnStep,
     AccountsStep, RejectionsStep, StagesStep DEF ReviewInv

-----------------------------------------------------------------------------
(* ReviewInv holds throughout every behaviour. *)
THEOREM ReviewInvariant == Spec => []ReviewInv
<1>1. Init => TypeOK /\ ReviewInv
  BY TypeInit, ReviewInit
<1>2. TypeOK /\ ReviewInv /\ [Next]_vars => (TypeOK /\ ReviewInv)'
  BY TypeStep, ReviewStep
<1>3. QED
  BY <1>1, <1>2, PTL DEF Spec

(* Whatever fails, crashes, is resumed or cleared: who contributes to a    *)
(* stored data point has a row, both reports accepting, and no rejection   *)
(* of the executor, the critic or the verifier.                            *)
THEOREM PublishedIsReviewed == Spec => []DataPointsAreReviewed
<1>1. TypeOK /\ ReviewInv => DataPointsAreReviewed
  <2> SUFFICES ASSUME ReviewInv, TypeOK, NEW c \in UNION dataPoints
               PROVE  /\ row[c] # "absent"
                      /\ criticReport[c] = "accepted" /\ verifierReport[c] = "accepted"
                      /\ c \notin RejectedAt("executor") \cup RejectedAt("critic")
                                                         \cup RejectedAt("verifier")
    BY DEF DataPointsAreReviewed
  <2>1. c \in Candidate
    BY DEF TypeOK, DataPoint
  <2>2. criticReport[c] = "accepted" /\ verifierReport[c] = "accepted"
    BY DEF ReviewInv, PointsInv, AcceptedByBoth
  <2>3. c \in Executed
    BY <2>1, <2>2 DEF ReviewInv, RowsInv, RowsSupportReviews
  <2>4. c \notin RejectedAt("critic") /\ c \notin RejectedAt("verifier")
    BY <2>1, <2>2 DEF ReviewInv, CriticInv, VerifierInv
  <2>5. QED
    BY <2>2, <2>3, <2>4 DEF Executed, ExecutionFromAudit, Recorded
<1>2. QED
  BY <1>1, TypeCorrect, ReviewInvariant, PTL

(* A report of the critic is never left without its row, nor a report of   *)
(* the verifier without the accepting report of the critic it rests on.    *)
THEOREM ReportsKeepTheirRows == Spec => []ReportsHaveRows
<1>1. ReviewInv => ReportsHaveRows
  BY DEF ReviewInv, RowsInv, RowsSupportReviews, VerifierInv, ReportsHaveRows,
     Executed, ExecutionFromAudit, Recorded
<1>2. QED
  BY <1>1, ReviewInvariant, PTL

(* No candidate contributes to two data points of a run, though the data   *)
(* points are written one by one and the reconciler may be run again.      *)
THEOREM PointsStayDisjoint == Spec => []DataPointsAreDisjoint
<1>1. ReviewInv => DataPointsAreDisjoint
  BY DEF ReviewInv, PointsInv, Disjoint, DataPointsAreDisjoint
<1>2. QED
  BY <1>1, ReviewInvariant, PTL

(* In a completed run the manifest, the stored data points and the report  *)
(* file agree, though they are three writes and each may be repeated.      *)
THEOREM CompletedIsFaithful == Spec => []CompletedReportIsFaithful
<1>1. ReviewInv => CompletedReportIsFaithful
  BY DEF ReviewInv, ReportInv, CompletedReportIsFaithful
<1>2. QED
  BY <1>1, ReviewInvariant, PTL

(* Whatever failed, crashed, was resumed or cleared before: when a run is  *)
(* completed, each recorded candidate is in a data point of the output or  *)
(* a rejection or a rejecting report says why it is not.                   *)
THEOREM EverythingIsAccounted == Spec => []CompletedAccountsForAll
<1>1. TypeOK /\ ReviewInv => CompletedAccountsForAll
  <2> SUFFICES ASSUME TypeOK, ReviewInv, manifest.status = "completed",
                      NEW c \in Recorded
               PROVE  \/ c \in UNION manifest.output
                      \/ \E s \in RejectionStages : <<c, s>> \in rejections
                      \/ criticReport[c] = "rejected" \/ verifierReport[c] = "rejected"
    BY DEF CompletedAccountsForAll
  <2>1. c \in Candidate /\ criticReport[c] \in ReportRow /\ verifierReport[c] \in ReportRow
    BY DEF Recorded, TypeOK
  <2>2. \A s \in RejectionStages : c \in RejectedAt(s) <=> <<c, s>> \in rejections
    BY <2>1 DEF RejectedAt
  <2>3. /\ DedupAccounts /\ CriticAccounts /\ VerifierAccounts /\ ReconcilerAccounts
        /\ manifest.output = dataPoints
    BY DEF ReviewInv, AccountInv, ReportInv
  <2>4. c \in RejectedAt("executor") \/ c \in Canonical(Executed) \/ c \in RejectedAt("dedup")
    BY <2>3 DEF Executed, ExecutionFromAudit, DedupAccounts, Merged
  <2>5. ASSUME c \in Canonical(Executed)
        PROVE  \/ \E s \in RejectionStages : c \in RejectedAt(s)
               \/ criticReport[c] = "rejected" \/ verifierReport[c] = "rejected"
               \/ c \in UNION dataPoints
    <3>1. criticReport[c] # "none" \/ c \in RejectedAt("critic")
      BY <2>3, <2>5 DEF CriticAccounts, Reported
    <3>2. criticReport[c] = "accepted" => verifierReport[c] # "none" \/ c \in RejectedAt("verifier")
      BY <2>1, <2>3 DEF VerifierAccounts, Verified
    <3>3. verifierReport[c] = "accepted" => c \in UNION dataPoints \/ c \in RejectedAt("reconciler")
      BY <2>1, <2>3 DEF ReconcilerAccounts
    <3>4. QED
      BY <2>1, <3>1, <3>2, <3>3 DEF ReportRow, RejectionStages
  <2>6. QED
    BY <2>2, <2>3, <2>4, <2>5 DEF RejectionStages
<1>2. QED
  BY <1>1, TypeCorrect, ReviewInvariant, PTL

(* No report or rejection is about a candidate that its stage does not     *)
(* know, no stage is handed what the one before did not accept, and the    *)
(* reporter finds the run running: these checks never stop a resume.       *)
THEOREM InputsAlwaysPass == Spec => []InputChecksHold
<1>1. TypeOK /\ ReviewInv => InputChecksHold
  <2> SUFFICES ASSUME TypeOK, ReviewInv PROVE InputChecksHold
    OBVIOUS
  <2> USE DEF ReviewInv, MainFlowAt, TypeOK
  <2>1. Reported \cup RejectedAt("critic") \subseteq Executed
    BY DEF RowsInv, RowsSupportReviews, RejectionsInv, Reported, RejectedAt
  <2>2. MainFlowAt("critic") => ~ReviewIsOrphaned
    BY <2>1 DEF ReviewIsOrphaned, RowsInv, AcceptedIsExecuted
  <2>3. MainFlowAt("verifier") => VerifierInputIsValid /\ ~VerificationIsOrphaned
    BY DEF VerifierInputIsValid, VerificationIsOrphaned, HandedOn, Verified,
       VerifierInv, RejectionsInv, RejectedAt
  <2>4. MainFlowAt("reconciler") => ReconcilerInputIsValid
    BY DEF ReconcilerInputIsValid, HandedOn, VerifierInv
  <2>5. MainFlowAt("reporting") => ReportInputIsValid
    BY DEF ReportInputIsValid, ReportInv
  <2>6. QED
    BY <2>2, <2>3, <2>4, <2>5 DEF InputChecksHold
<1>2. QED
  BY <1>1, TypeCorrect, ReviewInvariant, PTL

(* One step of RefusedOnlyIfStuck. *)
Refused == exception = "none" /\ exception' = "raised" /\ faults' = faults
RefusalStep == Refused => Stuck

(* Only the three checks of what the audit store holds raise by themselves.*)
LEMMA OnlyChecksRefuse ==
  ASSUME TypeOK, [Next]_vars, Refused
  PROVE  RefuseReview \/ RefuseVerification \/ RefuseReconciliation
<1> USE DEF Refused
<1>1. ASSUME ExecutorMain PROVE FALSE
  BY <1>1 DEF ExecutorMain, ReuseExecution, StartExecution, FinishExecution,
     RecordDedupRejection, memory
<1>2. ASSUME CriticMain PROVE RefuseReview
  BY <1>2 DEF CriticMain, ReuseReview, StartReview, FinishReview, FinishMirroring,
     MirrorReport, memory
<1>3. ASSUME VerifierMain PROVE RefuseVerification
  BY <1>3 DEF VerifierMain, ReuseVerification, StartVerification, FinishVerification
<1>4. ASSUME ReconcilerMain PROVE RefuseReconciliation
  BY <1>4 DEF ReconcilerMain, ReuseReconciliation, ReconcilerCallReturns,
     FinishReconciliation, RecordDataPoint, RecordReconcilerRejection, memory
<1>5. ASSUME StageEnds \/ WriteReportFile \/ CompleteManifest \/ FinishRun
             \/ MarkRunFailed \/ Close
      PROVE  FALSE
  BY <1>5 DEF StageEnds, EnsureStageCompleted, WriteReportFile, CompleteManifest,
     FinishRun, MarkRunFailed, Close, MemoryIsLost
<1>6. ASSUME TaskStep PROVE FALSE
  BY <1>6 DEF TaskStep, ExecutorTasks, CriticTasks, VerifierTasks, ExecutorCallReturns,
     RecordLensCandidate, RecordExecutorRejection, CriticCallReturns,
     RecordCriticReport, RecordCriticRejection, VerifierCallReturns,
     RecordVerifierReport, RecordVerifierRejection
<1>7. ASSUME Fault PROVE FALSE
  BY <1>7 DEF Fault, MainFails, TaskFails, Crash, OneMoreFault, TypeOK
<1>8. ASSUME Operator PROVE FALSE
  BY <1>8 DEF Operator, Resume, PrepareResume, memory
<1>9. ASSUME UNCHANGED vars PROVE FALSE
  BY <1>9 DEF vars, memory
<1>10. QED
  BY <1>1, <1>2, <1>3, <1>4, <1>5, <1>6, <1>7, <1>8, <1>9
  DEF Next, ProcessStep, MainStep

LEMMA StepRefusesOnlyIfStuck == TypeOK /\ ReviewInv /\ [Next]_vars => RefusalStep
<1> SUFFICES ASSUME TypeOK, ReviewInv, [Next]_vars, Refused PROVE Stuck
  BY DEF RefusalStep
<1> USE DEF ReviewInv, TypeOK, MainFlowAt
<1>1. Reported \cup RejectedAt("critic") \subseteq Executed
  BY DEF RowsInv, RowsSupportReviews, RejectionsInv, Reported, RejectedAt
<1>2. /\ CriticAccepted = {c \in Candidate : criticReport[c] = "accepted"}
      /\ VerifierAccepted = {c \in Candidate : verifierReport[c] = "accepted"}
  <2>1. Executed \subseteq Candidate
    BY DEF Executed, ExecutionFromAudit, Recorded
  <2>2. CriticAccepted = {c \in Candidate : criticReport[c] = "accepted"}
    BY <2>1 DEF CriticAccepted, RowsInv, RowsSupportReviews
  <2>3. QED
    BY <2>2 DEF VerifierAccepted, VerifierInv
<1>3. CASE RefuseReview
  <2>1. accepted = Executed /\ ReviewRaises
    BY <1>3 DEF RefuseReview, RowsInv, AcceptedIsExecuted
  <2>2. ~ReviewIsComplete
    BY <1>1, <2>1 DEF ReviewRaises, ReviewIsOrphaned
  <2>3. ReviewIsPartial => StuckAtCritic
    BY <2>1 DEF ReviewIsPartial, ReviewMissing, ReviewAccounted, StuckAtCritic, Partial
  <2>4. ~ReviewIsPartial /\ ~ReviewInputIsValid => StuckAtCritic
    BY <2>1, <2>2 DEF ReviewIsPartial, ReviewIsComplete, ReviewAccounted,
       ReviewInputIsValid, StuckAtCritic
  <2>5. QED
    BY <2>1, <2>2, <2>3, <2>4 DEF ReviewRaises, Stuck
<1>4. CASE RefuseVerification
  <2>1. accepted = CriticAccepted /\ VerificationRaises
    BY <1>2, <1>4 DEF RefuseVerification, HandedOn
  <2>2. VerifierInputIsValid /\ ~VerificationIsOrphaned
    BY <1>4 DEF RefuseVerification, VerifierInputIsValid, VerificationIsOrphaned,
       HandedOn, Verified, VerifierInv, RejectionsInv, RejectedAt
  <2>3. VerificationIsPartial
    BY <2>1, <2>2 DEF VerificationRaises
  <2>4. QED
    BY <2>1, <2>3 DEF VerificationIsPartial, VerificationMissing,
       VerificationAccounted, StuckAtVerifier, Partial, Stuck
<1>5. CASE RefuseReconciliation
  <2>1. accepted = {c \in Candidate : verifierReport[c] = "accepted"}
    BY <1>5 DEF RefuseReconciliation, HandedOn
  <2>2. accepted = VerifierAccepted
    BY <1>2, <2>1
  <2>3. ReconcilerInputIsValid
    BY <2>1 DEF ReconcilerInputIsValid, VerifierInv
  <2>4. ~ReconciliationIsAbsent /\ ReconciliationMissing # {}
    BY <1>5, <2>3 DEF RefuseReconciliation, ReconciliationIsReusable
  <2>5. \E c \in accepted : c \in (UNION dataPoints) \cup RejectedAt("reconciler")
    <3>1. CASE dataPoints # {}
      <4>1. PICK p \in dataPoints : p # {}
        BY <3>1 DEF RejectionsInv
      <4>2. PICK c \in p : c \in Candidate
        BY <4>1 DEF DataPoint
      <4>3. c \in accepted
        BY <2>1, <4>2 DEF PointsInv, AcceptedByBoth
      <4>4. QED
        BY <4>2, <4>3
    <3>2. CASE RejectedAt("reconciler") # {}
      <4>1. PICK c \in RejectedAt("reconciler") : c \in Candidate
        BY <3>2 DEF RejectedAt
      <4>2. QED
        BY <2>1, <4>1 DEF RejectionsInv
    <3>3. QED
      BY <2>4, <3>1, <3>2 DEF ReconciliationIsAbsent
  <2>6. QED
    BY <2>2, <2>4, <2>5 DEF ReconciliationMissing, Contributors, StuckAtReconciler,
       Partial, Stuck
<1>6. QED
  BY <1>3, <1>4, <1>5, OnlyChecksRefuse

(* A resume raises by itself only where the store holds half of a stage's  *)
(* output or a row the executor meant to reject: never because two tables  *)
(* disagree about a candidate.                                             *)
THEOREM RefusalsAreStuck == Spec => RefusedOnlyIfStuck
<1>1. RefusalStep => [exception = "none" /\ exception' = "raised" /\ faults' = faults
                        => Stuck]_vars
  BY DEF RefusalStep, Refused
<1>2. QED
  BY <1>1, StepRefusesOnlyIfStuck, TypeCorrect, ReviewInvariant, PTL
  DEF Spec, RefusedOnlyIfStuck

(* One step of RecordedStagesAreFrozen. *)
FrozenStep ==
  \A s \in StageNames \ {"reporter"} :
    s \in stages \cap stages' => RowsOf(s)' = RowsOf(s)

(* The tables of each stage are written at its points of the pipeline only,*)
(* or cleared together with its stage state.                               *)
LEMMA StepFreezesStages == TypeOK /\ ReviewInv /\ [Next]_vars => FrozenStep
<1> SUFFICES ASSUME TypeOK, ReviewInv, [Next]_vars PROVE FrozenStep
  OBVIOUS
<1> USE DEF ReviewInv, TypeOK, MainFlowAt, StageNames, FrozenStep, RowsOf
<1>1. ASSUME UNCHANGED <<row, callLogs, rejections, criticReport, verifierReport,
                         dataPoints>>
      PROVE  FrozenStep
  BY <1>1 DEF RejectedAt
<1>2. ASSUME ExecutorTasks PROVE FrozenStep
  <2>1. pc = "executing"
    BY <1>2 DEF ExecutorTasks, ExecutorCallReturns, RecordLensCandidate,
       RecordExecutorRejection
  <2>2. stages \subseteq {"reporter"}
    BY <2>1 DEF StagesInv
  <2>3. QED
    BY <2>2
<1>3. ASSUME NEW d \in Candidate, RecordDedupRejection(d) PROVE FrozenStep
  <2>1. "dedup" \notin stages
    BY <1>3 DEF RecordDedupRejection, DedupPending, RowsInv, AcceptedIsExecuted,
       StagesInv, DedupAccounts
  <2>2. stages \subseteq {"executor", "reporter"}
    BY <2>1 DEF StagesInv
  <2>3. UNCHANGED <<row, callLogs, RejectedAt("executor")>>
    BY <1>3 DEF RecordDedupRejection, RejectedAt
  <2>4. QED
    BY <2>2, <2>3
<1>4. ASSUME pc \in {"reviewing", "mirroring"}, UNCHANGED <<row, callLogs>>,
             UNCHANGED <<RejectedAt("executor"), RejectedAt("dedup")>>
      PROVE  FrozenStep
  <2>1. stages \subseteq {"executor", "dedup", "reporter"}
    BY <1>4 DEF StagesInv
  <2>2. QED
    BY <1>4, <2>1
<1>5. ASSUME CriticTasks PROVE FrozenStep
  <2>1. pc = "reviewing" /\ UNCHANGED <<row, callLogs>>
    BY <1>5 DEF CriticTasks, CriticCallReturns, RecordCriticReport,
       RecordCriticRejection, CriticTurn, durable, audit
  <2>2. UNCHANGED <<RejectedAt("executor"), RejectedAt("dedup")>>
    BY <1>5 DEF CriticTasks, CriticCallReturns, RecordCriticReport,
       RecordCriticRejection, durable, audit, RejectedAt
  <2>3. QED
    BY <1>4, <2>1, <2>2
<1>6. ASSUME NEW d \in Candidate, MirrorReport(d) PROVE FrozenStep
  BY <1>4, <1>6 DEF MirrorReport, RejectedAt
<1>7. ASSUME VerifierTasks PROVE FrozenStep
  <2>1. pc = "verifying" /\ UNCHANGED <<row, callLogs, criticReport>>
    BY <1>7 DEF VerifierTasks, VerifierCallReturns, RecordVerifierReport,
       RecordVerifierRejection, VerifierTurn, durable, audit
  <2>2. UNCHANGED <<RejectedAt("executor"), RejectedAt("dedup"), RejectedAt("critic")>>
    BY <1>7 DEF VerifierTasks, VerifierCallReturns, RecordVerifierReport,
       RecordVerifierRejection, durable, audit, RejectedAt
  <2>3. stages \subseteq {"executor", "dedup", "critic", "reporter"}
    BY <2>1 DEF StagesInv
  <2>4. QED
    BY <2>1, <2>2, <2>3
<1>8. ASSUME (\E point \in decision.points : RecordDataPoint(point))
             \/ (\E c \in Candidate : RecordReconcilerRejection(c))
      PROVE  FrozenStep
  <2>1. pc = "recording" /\ UNCHANGED <<row, callLogs, criticReport, verifierReport>>
    BY <1>8 DEF RecordDataPoint, RecordReconcilerRejection
  <2>2. \A s \in {"executor", "dedup", "critic", "verifier"} :
          RejectedAt(s)' = RejectedAt(s)
    BY <1>8 DEF RecordDataPoint, RecordReconcilerRejection, RejectedAt
  <2>3. "reconciler" \notin stages
    BY <2>1 DEF StagesInv
  <2>4. QED
    BY <2>1, <2>2, <2>3
<1>9. ASSUME NEW first \in RejectionStages, PrepareResume(first) PROVE FrozenStep
  <2>1. stages' = stages \ StagesFrom(first) /\ "reconciler" \in StagesFrom(first)
    BY <1>9 DEF PrepareResume, StagesFrom, StageOrder, RejectionStages
  <2>2. \A s \in StageNames \ StagesFrom(first) : RejectedAt(s)' = RejectedAt(s)
    BY <1>9 DEF PrepareResume, RejectedAt
  <2>3. /\ "executor" \notin StagesFrom(first) => UNCHANGED <<row, callLogs>>
        /\ "critic" \notin StagesFrom(first) => UNCHANGED criticReport
        /\ "verifier" \notin StagesFrom(first) => UNCHANGED verifierReport
    BY <1>9 DEF PrepareResume
  <2>4. QED
    BY <2>1, <2>2, <2>3
<1>10. QED
  <2> USE DEF durable, audit
  <2>1. ASSUME ExecutorMain PROVE FrozenStep
    BY <1>1, <1>3, <2>1 DEF ExecutorMain, ReuseExecution, StartExecution, FinishExecution
  <2>2. ASSUME CriticMain PROVE FrozenStep
    BY <1>1, <1>6, <2>2 DEF CriticMain, RefuseReview, ReuseReview, StartReview,
       FinishReview, FinishMirroring
  <2>3. ASSUME VerifierMain PROVE FrozenStep
    BY <1>1, <2>3 DEF VerifierMain, RefuseVerification, ReuseVerification,
       StartVerification, FinishVerification
  <2>4. ASSUME ReconcilerMain PROVE FrozenStep
    BY <1>1, <1>8, <2>4 DEF ReconcilerMain, RefuseReconciliation, ReuseReconciliation,
       ReconcilerCallReturns, FinishReconciliation
  <2>5. ASSUME StageEnds \/ WriteReportFile \/ CompleteManifest \/ FinishRun
               \/ MarkRunFailed \/ Close
        PROVE  FrozenStep
    BY <1>1, <2>5 DEF StageEnds, EnsureStageCompleted, WriteReportFile,
       CompleteManifest, FinishRun, MarkRunFailed, Close
  <2>6. ASSUME Fault PROVE FrozenStep
    BY <1>1, <2>6 DEF Fault, MainFails, TaskFails, Crash
  <2>7. ASSUME Operator PROVE FrozenStep
    BY <1>1, <1>9, <2>7 DEF Operator, Resume
  <2>8. ASSUME UNCHANGED vars PROVE FrozenStep
    BY <1>1, <2>8 DEF vars
  <2>9. QED
    BY <1>2, <1>5, <1>7, <2>1, <2>2, <2>3, <2>4, <2>5, <2>6, <2>7, <2>8
    DEF Next, ProcessStep, MainStep, TaskStep

(* While a stage is recorded as complete, nobody adds to, changes or       *)
(* clears what it left: what later stages were built on stays.             *)
THEOREM RecordedStagesStay == Spec => RecordedStagesAreFrozen
<1>1. FrozenStep => [\A s \in StageNames \ {"reporter"} :
                       s \in stages \cap stages' => RowsOf(s)' = RowsOf(s)]_vars
  BY DEF FrozenStep
<1>2. QED
  BY <1>1, StepFreezesStages, TypeCorrect, ReviewInvariant, PTL
  DEF Spec, RecordedStagesAreFrozen
=============================================================================
