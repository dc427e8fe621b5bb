------------------------ MODULE RunLifecycle_proofs ------------------------
(***************************************************************************)
(* The lifecycle of runs, for any set of runs over a document of any       *)
(* number of chunks, and any bounds: its safety properties, and that it    *)
(* implements RunStatus.                                                   *)
(***************************************************************************)
EXTENDS RunLifecycle, TLAPS

(* Nothing is stored and no process is up. *)
LEMMA LifecycleInit == Init => TypeOK /\ LifecycleInv
<1> SUFFICES ASSUME Init PROVE TypeOK /\ LifecycleInv
  OBVIOUS
<1> USE LifecycleAssumption DEF Init
<1>1. TypeOK
  <2>1. chunks \in 0 .. ChunkCount /\ used \in [Run -> 0 .. ChunkCount]
        /\ covered \in [Run -> 0 .. ChunkCount]
    OBVIOUS
  <2>2. stages \in [Run -> SUBSET Stages]
    OBVIOUS
  <2>3. refusal \in [Run -> BOOLEAN] /\ plan \in [Run -> BOOLEAN]
        /\ owns \in [Run -> BOOLEAN]
    OBVIOUS
  <2>4. QED
    BY <2>1, <2>2, <2>3 DEF TypeOK, PcValues, Terminal
<1>2. ChunksInv
  BY DEF ChunksInv, ChunksStayStored, Past, WithChunks
<1>3. \A r \in Run : /\ pc[r] = "idle" /\ manifest[r] = "none" /\ stages[r] = {}
                   /\ ~refusal[r] /\ covered[r] = 0
  OBVIOUS
<1>4. PlannerInv /\ OutcomeInv
  BY <1>3 DEF PlannerInv, OutcomeInv, Past, AfterPlan
<1>5. SettledRunsAreConsistent
  BY DEF SettledRunsAreConsistent
<1>6. QED
  BY <1>1, <1>2, <1>3, <1>4, <1>5 DEF LifecycleInv

(* A step of any kind keeps every variable in its type. *)
LEMMA TypeStep == TypeOK /\ [Next]_vars => TypeOK'
<1> SUFFICES ASSUME TypeOK, [Next]_vars PROVE TypeOK'
  OBVIOUS
<1> USE LifecycleAssumption DEF TypeOK, Move, ProcessEnds, tables, process,
   history, PcValues, Stages, Terminal, Resumable
<1>1. ASSUME NEW r \in Run, StartNew(r) PROVE TypeOK'
  BY <1>1 DEF StartNew
<1>2. ASSUME NEW r \in Run, StartResume(r) PROVE TypeOK'
  BY <1>2 DEF StartResume
<1>3. ASSUME NEW r \in Run, Ingest(r) PROVE TypeOK'
  BY <1>3 DEF Ingest
<1>4. ASSUME NEW r \in Run, CreateManifest(r) PROVE TypeOK'
  BY <1>4 DEF CreateManifest
<1>5. ASSUME NEW r \in Run, Takeover(r) PROVE TypeOK'
  BY <1>5 DEF Takeover
<1>6. ASSUME NEW r \in Run, EnsureStageCompleted(r, "ingestion", "ingested",
             "chunker")
      PROVE  TypeOK'
  BY <1>6 DEF EnsureStageCompleted
<1>7. ASSUME NEW r \in Run, ReuseChunks(r) PROVE TypeOK'
  BY <1>7 DEF ReuseChunks
<1>8. ASSUME NEW r \in Run, StartChunking(r) PROVE TypeOK'
  BY <1>8 DEF StartChunking
<1>9. ASSUME NEW r \in Run, RecordChunk(r) PROVE TypeOK'
  BY <1>9 DEF RecordChunk, ChunksWith, ChunksLeft
<1>10. ASSUME NEW r \in Run, FinishChunking(r) PROVE TypeOK'
  BY <1>10 DEF FinishChunking, ChunksLeft
<1>11. ASSUME NEW r \in Run, EnsureStageCompleted(r, "chunker", "chunked",
              "planner")
       PROVE  TypeOK'
  BY <1>11 DEF EnsureStageCompleted
<1>12. ASSUME NEW r \in Run, ReusePlan(r) PROVE TypeOK'
  BY <1>12 DEF ReusePlan
<1>13. ASSUME NEW r \in Run, PlanIsRefused(r) PROVE TypeOK'
  BY <1>13 DEF PlanIsRefused
<1>14. ASSUME NEW r \in Run, PlannerApproves(r) PROVE TypeOK'
  BY <1>14 DEF PlannerApproves, PlannerBlocks, PlannerIsSettled
<1>15. ASSUME NEW r \in Run, PlannerRefuses(r) PROVE TypeOK'
  BY <1>15 DEF PlannerRefuses, PlannerBlocks, PlannerIsSettled
<1>16. ASSUME NEW r \in Run, WriteReportFile(r, "refused", "refused",
              "refusalWritten")
       PROVE  TypeOK'
  BY <1>16 DEF WriteReportFile, Rendered
<1>17. ASSUME NEW r \in Run, SettleManifest(r, "refused", "refusalWritten",
              "refusalReported")
       PROVE  TypeOK'
  BY <1>17 DEF SettleManifest
<1>18. ASSUME NEW r \in Run, EnsureStageCompleted(r, "planner", "planned",
              "extracting")
       PROVE  TypeOK'
  BY <1>18 DEF EnsureStageCompleted
<1>19. ASSUME NEW r \in Run, Extract(r) PROVE TypeOK'
  BY <1>19 DEF Extract
<1>20. ASSUME NEW r \in Run, WriteReportFile(r, "completed", "extracted",
              "written")
       PROVE  TypeOK'
  BY <1>20 DEF WriteReportFile, Rendered
<1>21. ASSUME NEW r \in Run, SettleManifest(r, "completed", "written",
              "reported")
       PROVE  TypeOK'
  BY <1>21 DEF SettleManifest
<1>22. ASSUME NEW r \in Run, FinishRun(r) PROVE TypeOK'
  BY <1>22 DEF FinishRun
<1>23. ASSUME NEW r \in Run, MarkRunFailed(r) PROVE TypeOK'
  BY <1>23 DEF MarkRunFailed
<1>24. ASSUME NEW r \in Run, Raise(r) PROVE TypeOK'
  <2>1. CASE owns[r]
    BY <1>24, <2>1 DEF Raise, OneMoreFault
  <2>2. CASE ~owns[r]
    <3>1. ProcessEnds(r) /\ UNCHANGED tables /\ OneMoreFault
      BY <1>24, <2>2 DEF Raise
    <3>2. QED
      BY <3>1 DEF OneMoreFault
  <2>3. QED
    BY <2>1, <2>2
<1>25. ASSUME NEW r \in Run, Crash(r) PROVE TypeOK'
  BY <1>25 DEF Crash, OneMoreFault
<1>26. ASSUME NEW r \in Run, NEW first \in {"planner", "executor"},
              PrepareResume(r, first)
       PROVE  TypeOK'
  BY <1>26 DEF PrepareResume, StatusReset, ClearedFrom
<1>27. CASE UNCHANGED vars
  BY <1>27 DEF vars
<1>28. QED
  BY <1>1, <1>2, <1>3, <1>4, <1>5, <1>6, <1>7, <1>8, <1>9, <1>10, <1>11,
     <1>12, <1>13, <1>14, <1>15, <1>16, <1>17, <1>18, <1>19, <1>20, <1>21,
     <1>22, <1>23, <1>24, <1>25, <1>26, <1>27 DEF Next, Start, Step, Fault

(* What is stored of the document stays, whichever run stored it. *)
LEMMA ChunksStep == TypeOK /\ ChunksInv /\ [Next]_vars => ChunksInv'
<1> SUFFICES ASSUME TypeOK, ChunksInv, [Next]_vars PROVE ChunksInv'
  OBVIOUS
<1> USE LifecycleAssumption DEF TypeOK, Move, ProcessEnds, tables, process,
   history, ChunksInv, ChunksStayStored, Past, WithChunks
<1>1. ASSUME NEW r \in Run, StartNew(r) PROVE ChunksInv'
  BY <1>1 DEF StartNew
<1>2. ASSUME NEW r \in Run, StartResume(r) PROVE ChunksInv'
  BY <1>2 DEF StartResume
<1>3. ASSUME NEW r \in Run, Ingest(r) PROVE ChunksInv'
  BY <1>3 DEF Ingest
<1>4. ASSUME NEW r \in Run, CreateManifest(r) PROVE ChunksInv'
  BY <1>4 DEF CreateManifest
<1>5. ASSUME NEW r \in Run, Takeover(r) PROVE ChunksInv'
  BY <1>5 DEF Takeover
<1>6. ASSUME NEW r \in Run, EnsureStageCompleted(r, "ingestion", "ingested",
             "chunker")
      PROVE  ChunksInv'
  BY <1>6 DEF EnsureStageCompleted
<1>7. ASSUME NEW r \in Run, ReuseChunks(r) PROVE ChunksInv'
  BY <1>7 DEF ReuseChunks
<1>8. ASSUME NEW r \in Run, StartChunking(r) PROVE ChunksInv'
  BY <1>8 DEF StartChunking
<1>9. ASSUME NEW r \in Run, RecordChunk(r) PROVE ChunksInv'
  BY <1>9 DEF RecordChunk, ChunksWith, ChunksLeft
<1>10. ASSUME NEW r \in Run, FinishChunking(r) PROVE ChunksInv'
  BY <1>10 DEF FinishChunking, ChunksLeft
<1>11. ASSUME NEW r \in Run, EnsureStageCompleted(r, "chunker", "chunked",
              "planner")
       PROVE  ChunksInv'
  BY <1>11 DEF EnsureStageCompleted
<1>12. ASSUME NEW r \in Run, ReusePlan(r) PROVE ChunksInv'
  BY <1>12 DEF ReusePlan
<1>13. ASSUME NEW r \in Run, PlanIsRefused(r) PROVE ChunksInv'
  BY <1>13 DEF PlanIsRefused
<1>14. ASSUME NEW r \in Run, PlannerApproves(r) PROVE ChunksInv'
  BY <1>14 DEF PlannerApproves, PlannerBlocks, PlannerIsSettled
<1>15. ASSUME NEW r \in Run, PlannerRefuses(r) PROVE ChunksInv'
  BY <1>15 DEF PlannerRefuses, PlannerBlocks, PlannerIsSettled
<1>16. ASSUME NEW r \in Run, WriteReportFile(r, "refused", "refused",
              "refusalWritten")
       PROVE  ChunksInv'
  BY <1>16 DEF WriteReportFile, Rendered
<1>17. ASSUME NEW r \in Run, SettleManifest(r, "refused", "refusalWritten",
              "refusalReported")
       PROVE  ChunksInv'
  BY <1>17 DEF SettleManifest
<1>18. ASSUME NEW r \in Run, EnsureStageCompleted(r, "planner", "planned",
              "extracting")
       PROVE  ChunksInv'
  BY <1>18 DEF EnsureStageCompleted
<1>19. ASSUME NEW r \in Run, Extract(r) PROVE ChunksInv'
  BY <1>19 DEF Extract
<1>20. ASSUME NEW r \in Run, WriteReportFile(r, "completed", "extracted",
              "written")
       PROVE  ChunksInv'
  BY <1>20 DEF WriteReportFile, Rendered
<1>21. ASSUME NEW r \in Run, SettleManifest(r, "completed", "written",
              "reported")
       PROVE  ChunksInv'
  BY <1>21 DEF SettleManifest
<1>22. ASSUME NEW r \in Run, FinishRun(r) PROVE ChunksInv'
  BY <1>22 DEF FinishRun
<1>23. ASSUME NEW r \in Run, MarkRunFailed(r) PROVE ChunksInv'
  BY <1>23 DEF MarkRunFailed
<1>24. ASSUME NEW r \in Run, Raise(r) PROVE ChunksInv'
  BY <1>24 DEF Raise, OneMoreFault
<1>25. ASSUME NEW r \in Run, Crash(r) PROVE ChunksInv'
  BY <1>25 DEF Crash, OneMoreFault
<1>26. ASSUME NEW r \in Run, NEW first \in {"planner", "executor"},
              PrepareResume(r, first)
       PROVE  ChunksInv'
  BY <1>26 DEF PrepareResume, StatusReset, ClearedFrom
<1>27. CASE UNCHANGED vars
  BY <1>27 DEF vars
<1>28. QED
  BY <1>1, <1>2, <1>3, <1>4, <1>5, <1>6, <1>7, <1>8, <1>9, <1>10, <1>11,
     <1>12, <1>13, <1>14, <1>15, <1>16, <1>17, <1>18, <1>19, <1>20, <1>21,
     <1>22, <1>23, <1>24, <1>25, <1>26, <1>27 DEF Next, Start, Step, Fault

(* The planner decides once, until the operator clears its decision. *)
LEMMA PlannerStep ==
  TypeOK /\ ChunksInv /\ PlannerInv /\ [Next]_vars => PlannerInv'
<1> SUFFICES ASSUME TypeOK, ChunksInv, PlannerInv, [Next]_vars
             PROVE  PlannerInv'
  OBVIOUS
<1> USE LifecycleAssumption DEF TypeOK, Move, ProcessEnds, tables, process,
   history, PlannerInv, Past, AfterPlan
<1>1. ASSUME NEW r \in Run, StartNew(r) PROVE PlannerInv'
  BY <1>1 DEF StartNew
<1>2. ASSUME NEW r \in Run, StartResume(r) PROVE PlannerInv'
  BY <1>2 DEF StartResume
<1>3. ASSUME NEW r \in Run, Ingest(r) PROVE PlannerInv'
  BY <1>3 DEF Ingest
<1>4. ASSUME NEW r \in Run, CreateManifest(r) PROVE PlannerInv'
  BY <1>4 DEF CreateManifest
<1>5. ASSUME NEW r \in Run, Takeover(r) PROVE PlannerInv'
  BY <1>5 DEF Takeover
<1>6. ASSUME NEW r \in Run, EnsureStageCompleted(r, "ingestion", "ingested",
             "chunker")
      PROVE  PlannerInv'
  BY <1>6 DEF EnsureStageCompleted
<1>7. ASSUME NEW r \in Run, ReuseChunks(r) PROVE PlannerInv'
  BY <1>7 DEF ReuseChunks
<1>8. ASSUME NEW r \in Run, StartChunking(r) PROVE PlannerInv'
  BY <1>8 DEF StartChunking
<1>9. ASSUME NEW r \in Run, RecordChunk(r) PROVE PlannerInv'
  BY <1>9 DEF RecordChunk, ChunksWith, ChunksLeft
<1>10. ASSUME NEW r \in Run, FinishChunking(r) PROVE PlannerInv'
  BY <1>10 DEF FinishChunking, ChunksLeft
<1>11. ASSUME NEW r \in Run, EnsureStageCompleted(r, "chunker", "chunked",
              "planner")
       PROVE  PlannerInv'
  BY <1>11 DEF EnsureStageCompleted
<1>12. ASSUME NEW r \in Run, ReusePlan(r) PROVE PlannerInv'
  BY <1>12 DEF ReusePlan
<1>13. ASSUME NEW r \in Run, PlanIsRefused(r) PROVE PlannerInv'
  BY <1>13 DEF PlanIsRefused
<1>14. ASSUME NEW r \in Run, PlannerApproves(r) PROVE PlannerInv'
  <2>1. "planner" \notin stages[r] /\ ~refusal[r]
    BY <1>14 DEF PlannerApproves, PlannerBlocks, PlannerIsSettled
  <2>2. plan'[r] /\ pc'[r] = "planned"
    BY <1>14 DEF PlannerApproves
  <2>3. \A s \in Run \ {r} : plan'[s] = plan[s] /\ pc'[s] = pc[s]
    BY <1>14 DEF PlannerApproves
  <2>4. UNCHANGED <<refusal, stages, covered>>
    BY <1>14 DEF PlannerApproves
  <2>5. QED
    BY <2>1, <2>2, <2>3, <2>4
<1>15. ASSUME NEW r \in Run, PlannerRefuses(r) PROVE PlannerInv'
  BY <1>15 DEF PlannerRefuses, PlannerBlocks, PlannerIsSettled
<1>16. ASSUME NEW r \in Run, WriteReportFile(r, "refused", "refused",
              "refusalWritten")
       PROVE  PlannerInv'
  BY <1>16 DEF WriteReportFile, Rendered
<1>17. ASSUME NEW r \in Run, SettleManifest(r, "refused", "refusalWritten",
              "refusalReported")
       PROVE  PlannerInv'
  BY <1>17 DEF SettleManifest
<1>18. ASSUME NEW r \in Run, EnsureStageCompleted(r, "planner", "planned",
              "extracting")
       PROVE  PlannerInv'
  BY <1>18 DEF EnsureStageCompleted
<1>19. ASSUME NEW r \in Run, Extract(r) PROVE PlannerInv'
  BY <1>19 DEF Extract
<1>20. ASSUME NEW r \in Run, WriteReportFile(r, "completed", "extracted",
              "written")
       PROVE  PlannerInv'
  BY <1>20 DEF WriteReportFile, Rendered
<1>21. ASSUME NEW r \in Run, SettleManifest(r, "completed", "written",
              "reported")
       PROVE  PlannerInv'
  BY <1>21 DEF SettleManifest
<1>22. ASSUME NEW r \in Run, FinishRun(r) PROVE PlannerInv'
  BY <1>22 DEF FinishRun
<1>23. ASSUME NEW r \in Run, MarkRunFailed(r) PROVE PlannerInv'
  BY <1>23 DEF MarkRunFailed
<1>24. ASSUME NEW r \in Run, Raise(r) PROVE PlannerInv'
  BY <1>24 DEF Raise, OneMoreFault
<1>25. ASSUME NEW r \in Run, Crash(r) PROVE PlannerInv'
  BY <1>25 DEF Crash, OneMoreFault
<1>26. ASSUME NEW r \in Run, NEW first \in {"planner", "executor"},
              PrepareResume(r, first)
       PROVE  PlannerInv'
  BY <1>26 DEF PrepareResume, StatusReset, ClearedFrom
<1>27. CASE UNCHANGED vars
  BY <1>27 DEF vars
<1>28. QED
  BY <1>1, <1>2, <1>3, <1>4, <1>5, <1>6, <1>7, <1>8, <1>9, <1>10, <1>11,
     <1>12, <1>13, <1>14, <1>15, <1>16, <1>17, <1>18, <1>19, <1>20, <1>21,
     <1>22, <1>23, <1>24, <1>25, <1>26, <1>27 DEF Next, Start, Step, Fault

(* The report comes before the outcome. *)
LEMMA OutcomeStep ==
  TypeOK /\ PlannerInv /\ OutcomeInv /\ [Next]_vars => OutcomeInv'
<1> SUFFICES ASSUME TypeOK, PlannerInv, OutcomeInv, [Next]_vars
             PROVE  OutcomeInv'
  OBVIOUS
<1> USE LifecycleAssumption DEF TypeOK, Move, ProcessEnds, tables, process,
   history, PlannerInv, OutcomeInv, Past, AfterPlan, Resumable, Terminal
<1>1. ASSUME NEW r \in Run, StartNew(r) PROVE OutcomeInv'
  BY <1>1 DEF StartNew
<1>2. ASSUME NEW r \in Run, StartResume(r) PROVE OutcomeInv'
  BY <1>2 DEF StartResume
<1>3. ASSUME NEW r \in Run, Ingest(r) PROVE OutcomeInv'
  BY <1>3 DEF Ingest
<1>4. ASSUME NEW r \in Run, CreateManifest(r) PROVE OutcomeInv'
  BY <1>4 DEF CreateManifest
<1>5. ASSUME NEW r \in Run, Takeover(r) PROVE OutcomeInv'
  BY <1>5 DEF Takeover
<1>6. ASSUME NEW r \in Run, EnsureStageCompleted(r, "ingestion", "ingested",
             "chunker")
      PROVE  OutcomeInv'
  BY <1>6 DEF EnsureStageCompleted
<1>7. ASSUME NEW r \in Run, ReuseChunks(r) PROVE OutcomeInv'
  BY <1>7 DEF ReuseChunks
<1>8. ASSUME NEW r \in Run, StartChunking(r) PROVE OutcomeInv'
  BY <1>8 DEF StartChunking
<1>9. ASSUME NEW r \in Run, RecordChunk(r) PROVE OutcomeInv'
  BY <1>9 DEF RecordChunk, ChunksWith, ChunksLeft
<1>10. ASSUME NEW r \in Run, FinishChunking(r) PROVE OutcomeInv'
  BY <1>10 DEF FinishChunking, ChunksLeft
<1>11. ASSUME NEW r \in Run, EnsureStageCompleted(r, "chunker", "chunked",
              "planner")
       PROVE  OutcomeInv'
  BY <1>11 DEF EnsureStageCompleted
<1>12. ASSUME NEW r \in Run, ReusePlan(r) PROVE OutcomeInv'
  BY <1>12 DEF ReusePlan
<1>13. ASSUME NEW r \in Run, PlanIsRefused(r) PROVE OutcomeInv'
  BY <1>13 DEF PlanIsRefused
<1>14. ASSUME NEW r \in Run, PlannerApproves(r) PROVE OutcomeInv'
  BY <1>14 DEF PlannerApproves, PlannerBlocks, PlannerIsSettled
<1>15. ASSUME NEW r \in Run, PlannerRefuses(r) PROVE OutcomeInv'
  BY <1>15 DEF PlannerRefuses, PlannerBlocks, PlannerIsSettled
<1>16. ASSUME NEW r \in Run, WriteReportFile(r, "refused", "refused",
              "refusalWritten")
       PROVE  OutcomeInv'
  BY <1>16 DEF WriteReportFile, Rendered
<1>17. ASSUME NEW r \in Run, SettleManifest(r, "refused", "refusalWritten",
              "refusalReported")
       PROVE  OutcomeInv'
  BY <1>17 DEF SettleManifest
<1>18. ASSUME NEW r \in Run, EnsureStageCompleted(r, "planner", "planned",
              "extracting")
       PROVE  OutcomeInv'
  BY <1>18 DEF EnsureStageCompleted
<1>19. ASSUME NEW r \in Run, Extract(r) PROVE OutcomeInv'
  BY <1>19 DEF Extract
<1>20. ASSUME NEW r \in Run, WriteReportFile(r, "completed", "extracted",
              "written")
       PROVE  OutcomeInv'
  BY <1>20 DEF WriteReportFile, Rendered
<1>21. ASSUME NEW r \in Run, SettleManifest(r, "completed", "written",
              "reported")
       PROVE  OutcomeInv'
  BY <1>21 DEF SettleManifest
<1>22. ASSUME NEW r \in Run, FinishRun(r) PROVE OutcomeInv'
  BY <1>22 DEF FinishRun
<1>23. ASSUME NEW r \in Run, MarkRunFailed(r) PROVE OutcomeInv'
  BY <1>23 DEF MarkRunFailed
<1>24. ASSUME NEW r \in Run, Raise(r) PROVE OutcomeInv'
  BY <1>24 DEF Raise, OneMoreFault
<1>25. ASSUME NEW r \in Run, Crash(r) PROVE OutcomeInv'
  BY <1>25 DEF Crash, OneMoreFault
<1>26. ASSUME NEW r \in Run, NEW first \in {"planner", "executor"},
              PrepareResume(r, first)
       PROVE  OutcomeInv'
  BY <1>26 DEF PrepareResume, StatusReset, ClearedFrom
<1>27. CASE UNCHANGED vars
  BY <1>27 DEF vars
<1>28. QED
  BY <1>1, <1>2, <1>3, <1>4, <1>5, <1>6, <1>7, <1>8, <1>9, <1>10, <1>11,
     <1>12, <1>13, <1>14, <1>15, <1>16, <1>17, <1>18, <1>19, <1>20, <1>21,
     <1>22, <1>23, <1>24, <1>25, <1>26, <1>27 DEF Next, Start, Step, Fault

(* What a settled run is made of stays while it is settled. *)
LEMMA SettledStep ==
  /\ TypeOK /\ ChunksInv /\ PlannerInv /\ OutcomeInv
  /\ SettledRunsAreConsistent /\ [Next]_vars
  => SettledRunsAreConsistent'
<1> SUFFICES ASSUME TypeOK, ChunksInv, PlannerInv, OutcomeInv,
                    SettledRunsAreConsistent, [Next]_vars
             PROVE  SettledRunsAreConsistent'
  OBVIOUS
<1> USE LifecycleAssumption DEF TypeOK, Move, ProcessEnds, tables, process,
   history, ChunksInv, PlannerInv, OutcomeInv, SettledRunsAreConsistent, Past,
   AfterPlan, WithChunks, Resumable
<1>1. ASSUME NEW r \in Run, StartNew(r) PROVE SettledRunsAreConsistent'
  BY <1>1 DEF StartNew
<1>2. ASSUME NEW r \in Run, StartResume(r) PROVE SettledRunsAreConsistent'
  BY <1>2 DEF StartResume
<1>3. ASSUME NEW r \in Run, Ingest(r) PROVE SettledRunsAreConsistent'
  BY <1>3 DEF Ingest
<1>4. ASSUME NEW r \in Run, CreateManifest(r) PROVE SettledRunsAreConsistent'
  BY <1>4 DEF CreateManifest
<1>5. ASSUME NEW r \in Run, Takeover(r) PROVE SettledRunsAreConsistent'
  BY <1>5 DEF Takeover
<1>6. ASSUME NEW r \in Run, EnsureStageCompleted(r, "ingestion", "ingested",
             "chunker")
      PROVE  SettledRunsAreConsistent'
  BY <1>6 DEF EnsureStageCompleted
<1>7. ASSUME NEW r \in Run, ReuseChunks(r) PROVE SettledRunsAreConsistent'
  BY <1>7 DEF ReuseChunks
<1>8. ASSUME NEW r \in Run, StartChunking(r) PROVE SettledRunsAreConsistent'
  BY <1>8 DEF StartChunking
<1>9. ASSUME NEW r \in Run, RecordChunk(r) PROVE SettledRunsAreConsistent'
  BY <1>9 DEF RecordChunk, ChunksWith, ChunksLeft
<1>10. ASSUME NEW r \in Run, FinishChunking(r) PROVE SettledRunsAreConsistent'
  BY <1>10 DEF FinishChunking, ChunksLeft
<1>11. ASSUME NEW r \in Run, EnsureStageCompleted(r, "chunker", "chunked",
              "planner")
       PROVE  SettledRunsAreConsistent'
  BY <1>11 DEF EnsureStageCompleted
<1>12. ASSUME NEW r \in Run, ReusePlan(r) PROVE SettledRunsAreConsistent'
  BY <1>12 DEF ReusePlan
<1>13. ASSUME NEW r \in Run, PlanIsRefused(r) PROVE SettledRunsAreConsistent'
  BY <1>13 DEF PlanIsRefused
<1>14. ASSUME NEW r \in Run, PlannerApproves(r) PROVE SettledRunsAreConsistent'
  BY <1>14 DEF PlannerApproves, PlannerBlocks, PlannerIsSettled
<1>15. ASSUME NEW r \in Run, PlannerRefuses(r) PROVE SettledRunsAreConsistent'
  BY <1>15 DEF PlannerRefuses, PlannerBlocks, PlannerIsSettled
<1>16. ASSUME NEW r \in Run, WriteReportFile(r, "refused", "refused",
              "refusalWritten")
       PROVE  SettledRunsAreConsistent'
  BY <1>16 DEF WriteReportFile, Rendered
<1>17. ASSUME NEW r \in Run, SettleManifest(r, "refused", "refusalWritten",
              "refusalReported")
       PROVE  SettledRunsAreConsistent'
  BY <1>17 DEF SettleManifest
<1>18. ASSUME NEW r \in Run, EnsureStageCompleted(r, "planner", "planned",
              "extracting")
       PROVE  SettledRunsAreConsistent'
  BY <1>18 DEF EnsureStageCompleted
<1>19. ASSUME NEW r \in Run, Extract(r) PROVE SettledRunsAreConsistent'
  BY <1>19 DEF Extract
<1>20. ASSUME NEW r \in Run, WriteReportFile(r, "completed", "extracted",
              "written")
       PROVE  SettledRunsAreConsistent'
  BY <1>20 DEF WriteReportFile, Rendered
<1>21. ASSUME NEW r \in Run, SettleManifest(r, "completed", "written",
              "reported")
       PROVE  SettledRunsAreConsistent'
  BY <1>21 DEF SettleManifest
<1>22. ASSUME NEW r \in Run, FinishRun(r) PROVE SettledRunsAreConsistent'
  BY <1>22 DEF FinishRun
<1>23. ASSUME NEW r \in Run, MarkRunFailed(r) PROVE SettledRunsAreConsistent'
  BY <1>23 DEF MarkRunFailed
<1>24. ASSUME NEW r \in Run, Raise(r) PROVE SettledRunsAreConsistent'
  BY <1>24 DEF Raise, OneMoreFault
<1>25. ASSUME NEW r \in Run, Crash(r) PROVE SettledRunsAreConsistent'
  BY <1>25 DEF Crash, OneMoreFault
<1>26. ASSUME NEW r \in Run, NEW first \in {"planner", "executor"},
              PrepareResume(r, first)
       PROVE  SettledRunsAreConsistent'
  BY <1>26 DEF PrepareResume, StatusReset, ClearedFrom
<1>27. CASE UNCHANGED vars
  BY <1>27 DEF vars
<1>28. QED
  BY <1>1, <1>2, <1>3, <1>4, <1>5, <1>6, <1>7, <1>8, <1>9, <1>10, <1>11,
     <1>12, <1>13, <1>14, <1>15, <1>16, <1>17, <1>18, <1>19, <1>20, <1>21,
     <1>22, <1>23, <1>24, <1>25, <1>26, <1>27 DEF Next, Start, Step, Fault

(* Every variable has its type, for any runs, chunks and bounds. *)
THEOREM TypeCorrect == Spec => []TypeOK
<1>1. Init => TypeOK
  BY LifecycleInit
<1>2. QED
  BY <1>1, TypeStep, PTL DEF Spec

(* The tables and the processes of the runs always fit each other. *)
THEOREM LifecycleInvariant == Spec => []LifecycleInv
<1>1. Init => LifecycleInv
  BY LifecycleInit
<1>2. TypeOK /\ LifecycleInv /\ [Next]_vars => LifecycleInv'
  BY ChunksStep, PlannerStep, OutcomeStep, SettledStep DEF LifecycleInv
<1>3. QED
  BY <1>1, <1>2, TypeCorrect, PTL DEF Spec

(* A run whose planner refused extracts nothing (orchestrator/planning.py), *)
(* however often it fails and is resumed.                                   *)
THEOREM RefusalExtractsNothing == Spec => []RefusedRunsExtractNothing
<1>1. LifecycleInv => RefusedRunsExtractNothing
  BY DEF LifecycleInv, PlannerInv, SettledRunsAreConsistent,
     RefusedRunsExtractNothing
<1>2. QED
  BY <1>1, LifecycleInvariant, PTL

(* The manifest, the stage states and the report of a settled run agree. *)
THEOREM SettledIsConsistent == Spec => []SettledRunsAreConsistent
<1>1. LifecycleInv => SettledRunsAreConsistent
  BY DEF LifecycleInv
<1>2. QED
  BY <1>1, LifecycleInvariant, PTL

(* Chunks that a process works with, or worked with, are in the store. *)
THEOREM ChunksAreKept == Spec => []ChunksStayStored
<1>1. LifecycleInv => ChunksStayStored
  BY DEF LifecycleInv, ChunksInv
<1>2. QED
  BY <1>1, LifecycleInvariant, PTL

-----------------------------------------------------------------------------
(* One step of BlockedOnlyByRefusal. *)
BlockedStep ==
  \A s \in Run : pc[s] # "failing" /\ pc'[s] = "failing" /\ faults' = faults
                   => refusal[s]

LEMMA BlockedByRefusal == TypeOK /\ LifecycleInv /\ [Next]_vars => BlockedStep
<1> SUFFICES ASSUME TypeOK, LifecycleInv, [Next]_vars PROVE BlockedStep
  OBVIOUS
<1> USE LifecycleAssumption DEF TypeOK, Move, ProcessEnds, tables, process,
   history, BlockedStep
<1>1. ASSUME NEW r \in Run, StartNew(r) PROVE BlockedStep
  BY <1>1 DEF StartNew
<1>2. ASSUME NEW r \in Run, StartResume(r) PROVE BlockedStep
  BY <1>2 DEF StartResume
<1>3. ASSUME NEW r \in Run, Ingest(r) PROVE BlockedStep
  BY <1>3 DEF Ingest
<1>4. ASSUME NEW r \in Run, CreateManifest(r) PROVE BlockedStep
  BY <1>4 DEF CreateManifest
<1>5. ASSUME NEW r \in Run, Takeover(r) PROVE BlockedStep
  BY <1>5 DEF Takeover
<1>6. ASSUME NEW r \in Run, EnsureStageCompleted(r, "ingestion", "ingested",
             "chunker")
      PROVE  BlockedStep
  BY <1>6 DEF EnsureStageCompleted
<1>7. ASSUME NEW r \in Run, ReuseChunks(r) PROVE BlockedStep
  BY <1>7 DEF ReuseChunks
<1>8. ASSUME NEW r \in Run, StartChunking(r) PROVE BlockedStep
  BY <1>8 DEF StartChunking
<1>9. ASSUME NEW r \in Run, RecordChunk(r) PROVE BlockedStep
  BY <1>9 DEF RecordChunk, ChunksWith, ChunksLeft
<1>10. ASSUME NEW r \in Run, FinishChunking(r) PROVE BlockedStep
  BY <1>10 DEF FinishChunking, ChunksLeft
<1>11. ASSUME NEW r \in Run, EnsureStageCompleted(r, "chunker", "chunked",
              "planner")
       PROVE  BlockedStep
  BY <1>11 DEF EnsureStageCompleted
<1>12. ASSUME NEW r \in Run, ReusePlan(r) PROVE BlockedStep
  BY <1>12 DEF ReusePlan
<1>13. ASSUME NEW r \in Run, PlanIsRefused(r) PROVE BlockedStep
  BY <1>13 DEF PlanIsRefused, PlannerBlocks, PlannerIsSettled, LifecycleInv,
     PlannerInv
<1>14. ASSUME NEW r \in Run, PlannerApproves(r) PROVE BlockedStep
  BY <1>14 DEF PlannerApproves, PlannerBlocks, PlannerIsSettled
<1>15. ASSUME NEW r \in Run, PlannerRefuses(r) PROVE BlockedStep
  BY <1>15 DEF PlannerRefuses, PlannerBlocks, PlannerIsSettled
<1>16. ASSUME NEW r \in Run, WriteReportFile(r, "refused", "refused",
              "refusalWritten")
       PROVE  BlockedStep
  BY <1>16 DEF WriteReportFile, Rendered
<1>17. ASSUME NEW r \in Run, SettleManifest(r, "refused", "refusalWritten",
              "refusalReported")
       PROVE  BlockedStep
  BY <1>17 DEF SettleManifest
<1>18. ASSUME NEW r \in Run, EnsureStageCompleted(r, "planner", "planned",
              "extracting")
       PROVE  BlockedStep
  BY <1>18 DEF EnsureStageCompleted
<1>19. ASSUME NEW r \in Run, Extract(r) PROVE BlockedStep
  BY <1>19 DEF Extract
<1>20. ASSUME NEW r \in Run, WriteReportFile(r, "completed", "extracted",
              "written")
       PROVE  BlockedStep
  BY <1>20 DEF WriteReportFile, Rendered
<1>21. ASSUME NEW r \in Run, SettleManifest(r, "completed", "written",
              "reported")
       PROVE  BlockedStep
  BY <1>21 DEF SettleManifest
<1>22. ASSUME NEW r \in Run, FinishRun(r) PROVE BlockedStep
  BY <1>22 DEF FinishRun
<1>23. ASSUME NEW r \in Run, MarkRunFailed(r) PROVE BlockedStep
  BY <1>23 DEF MarkRunFailed
<1>24. ASSUME NEW r \in Run, Raise(r) PROVE BlockedStep
  BY <1>24 DEF Raise, OneMoreFault
<1>25. ASSUME NEW r \in Run, Crash(r) PROVE BlockedStep
  BY <1>25 DEF Crash, OneMoreFault
<1>26. ASSUME NEW r \in Run, NEW first \in {"planner", "executor"},
              PrepareResume(r, first)
       PROVE  BlockedStep
  BY <1>26 DEF PrepareResume, StatusReset, ClearedFrom
<1>27. CASE UNCHANGED vars
  BY <1>27 DEF vars
<1>28. QED
  BY <1>1, <1>2, <1>3, <1>4, <1>5, <1>6, <1>7, <1>8, <1>9, <1>10, <1>11,
     <1>12, <1>13, <1>14, <1>15, <1>16, <1>17, <1>18, <1>19, <1>20, <1>21,
     <1>22, <1>23, <1>24, <1>25, <1>26, <1>27 DEF Next, Start, Step, Fault

(* A process is refused by the planner's refusal only: no other run        *)
(* blocks it.                                                              *)
THEOREM OnlyRefusalBlocks == Spec => BlockedOnlyByRefusal
<1>1. TypeOK /\ LifecycleInv /\ [Next]_vars => BlockedStep
  BY BlockedByRefusal
<1>2. BlockedStep => [\A r \in Run : pc[r] # "failing" /\ pc'[r] = "failing"
                                      /\ faults' = faults => refusal[r]]_vars
  BY DEF BlockedStep
<1>3. QED
  BY <1>1, <1>2, TypeCorrect, LifecycleInvariant, PTL DEF Spec,
     BlockedOnlyByRefusal

-----------------------------------------------------------------------------
(* A step of the lifecycle is a step of RunStatus or none. *)
LEMMA StatusStep ==
  TypeOK /\ LifecycleInv /\ [Next]_vars
  => [Status!StatusNext]_(Status!statusVars)
<1> SUFFICES ASSUME TypeOK, LifecycleInv, [Next]_vars
             PROVE  [Status!StatusNext]_(Status!statusVars)
  OBVIOUS
<1> USE DEF TypeOK, Move, ProcessEnds, tables, process, history, Terminal,
   Status!statusVars
<1>1. ASSUME NEW r \in Run, StartNew(r)
      PROVE  [Status!StatusNext]_(Status!statusVars)
  BY <1>1 DEF StartNew
<1>2. ASSUME NEW r \in Run, StartResume(r)
      PROVE  [Status!StatusNext]_(Status!statusVars)
  BY <1>2 DEF StartResume
<1>3. ASSUME NEW r \in Run, Ingest(r)
      PROVE  [Status!StatusNext]_(Status!statusVars)
  BY <1>3 DEF Ingest
<1>4. ASSUME NEW r \in Run, CreateManifest(r)
      PROVE  [Status!StatusNext]_(Status!statusVars)
  BY <1>4 DEF CreateManifest, LifecycleInv, OutcomeInv, Past
<1>5. ASSUME NEW r \in Run, Takeover(r)
      PROVE  [Status!StatusNext]_(Status!statusVars)
  BY <1>5 DEF Takeover, LifecycleInv, OutcomeInv, Past
<1>6. ASSUME NEW r \in Run, EnsureStageCompleted(r, "ingestion", "ingested",
             "chunker")
      PROVE  [Status!StatusNext]_(Status!statusVars)
  BY <1>6 DEF EnsureStageCompleted
<1>7. ASSUME NEW r \in Run, ReuseChunks(r)
      PROVE  [Status!StatusNext]_(Status!statusVars)
  BY <1>7 DEF ReuseChunks
<1>8. ASSUME NEW r \in Run, StartChunking(r)
      PROVE  [Status!StatusNext]_(Status!statusVars)
  BY <1>8 DEF StartChunking
<1>9. ASSUME NEW r \in Run, RecordChunk(r)
      PROVE  [Status!StatusNext]_(Status!statusVars)
  BY <1>9 DEF RecordChunk, ChunksWith, ChunksLeft
<1>10. ASSUME NEW r \in Run, FinishChunking(r)
       PROVE  [Status!StatusNext]_(Status!statusVars)
  BY <1>10 DEF FinishChunking, ChunksLeft
<1>11. ASSUME NEW r \in Run, EnsureStageCompleted(r, "chunker", "chunked",
              "planner")
       PROVE  [Status!StatusNext]_(Status!statusVars)
  BY <1>11 DEF EnsureStageCompleted
<1>12. ASSUME NEW r \in Run, ReusePlan(r)
       PROVE  [Status!StatusNext]_(Status!statusVars)
  BY <1>12 DEF ReusePlan
<1>13. ASSUME NEW r \in Run, PlanIsRefused(r)
       PROVE  [Status!StatusNext]_(Status!statusVars)
  BY <1>13 DEF PlanIsRefused
<1>14. ASSUME NEW r \in Run, PlannerApproves(r)
       PROVE  [Status!StatusNext]_(Status!statusVars)
  BY <1>14 DEF PlannerApproves, PlannerBlocks, PlannerIsSettled
<1>15. ASSUME NEW r \in Run, PlannerRefuses(r)
       PROVE  [Status!StatusNext]_(Status!statusVars)
  BY <1>15 DEF PlannerRefuses, PlannerBlocks, PlannerIsSettled
<1>16. ASSUME NEW r \in Run, WriteReportFile(r, "refused", "refused",
              "refusalWritten")
       PROVE  [Status!StatusNext]_(Status!statusVars)
  BY <1>16 DEF WriteReportFile, Rendered, Status!StatusNext, Status!Publish,
     Status!Settle, Status!Reopen, Status!Settled
<1>17. ASSUME NEW r \in Run, SettleManifest(r, "refused", "refusalWritten",
              "refusalReported")
       PROVE  [Status!StatusNext]_(Status!statusVars)
  <2>1. pc[r] = "refusalWritten" /\ report[r] = "refused"
        /\ manifest[r] \notin Terminal
    BY <1>17 DEF SettleManifest, LifecycleInv, OutcomeInv, Past
  <2>2. manifest' = [manifest EXCEPT ![r] = "refused"] /\ report' = report
    BY <1>17 DEF SettleManifest
  <2>3. Status!Settle(r)
    BY <2>1, <2>2 DEF Status!Settle
  <2>4. QED
    BY <2>3 DEF Status!StatusNext
<1>18. ASSUME NEW r \in Run, EnsureStageCompleted(r, "planner", "planned",
              "extracting")
       PROVE  [Status!StatusNext]_(Status!statusVars)
  BY <1>18 DEF EnsureStageCompleted
<1>19. ASSUME NEW r \in Run, Extract(r)
       PROVE  [Status!StatusNext]_(Status!statusVars)
  BY <1>19 DEF Extract
<1>20. ASSUME NEW r \in Run, WriteReportFile(r, "completed", "extracted",
              "written")
       PROVE  [Status!StatusNext]_(Status!statusVars)
  BY <1>20 DEF WriteReportFile, Rendered, Status!StatusNext, Status!Publish,
     Status!Settle, Status!Reopen, Status!Settled
<1>21. ASSUME NEW r \in Run, SettleManifest(r, "completed", "written",
              "reported")
       PROVE  [Status!StatusNext]_(Status!statusVars)
  <2>1. pc[r] = "written" /\ report[r] = "completed"
        /\ manifest[r] \notin Terminal
    BY <1>21 DEF SettleManifest, LifecycleInv, OutcomeInv, Past
  <2>2. manifest' = [manifest EXCEPT ![r] = "completed"] /\ report' = report
    BY <1>21 DEF SettleManifest
  <2>3. Status!Settle(r)
    BY <2>1, <2>2 DEF Status!Settle
  <2>4. QED
    BY <2>3 DEF Status!StatusNext
<1>22. ASSUME NEW r \in Run, FinishRun(r)
       PROVE  [Status!StatusNext]_(Status!statusVars)
  BY <1>22 DEF FinishRun
<1>23. ASSUME NEW r \in Run, MarkRunFailed(r)
       PROVE  [Status!StatusNext]_(Status!statusVars)
  BY <1>23 DEF MarkRunFailed, Status!StatusNext, Status!Publish,
     Status!Settle, Status!Reopen, Status!Settled
<1>24. ASSUME NEW r \in Run, Raise(r)
       PROVE  [Status!StatusNext]_(Status!statusVars)
  BY <1>24 DEF Raise, OneMoreFault
<1>25. ASSUME NEW r \in Run, Crash(r)
       PROVE  [Status!StatusNext]_(Status!statusVars)
  BY <1>25 DEF Crash, OneMoreFault
<1>26. ASSUME NEW r \in Run, NEW first \in {"planner", "executor"},
              PrepareResume(r, first)
       PROVE  [Status!StatusNext]_(Status!statusVars)
  BY <1>26 DEF PrepareResume, StatusReset, ClearedFrom, Status!StatusNext,
     Status!Publish, Status!Settle, Status!Reopen, Status!Settled
<1>27. CASE UNCHANGED vars
  BY <1>27 DEF vars
<1>28. QED
  BY <1>1, <1>2, <1>3, <1>4, <1>5, <1>6, <1>7, <1>8, <1>9, <1>10, <1>11,
     <1>12, <1>13, <1>14, <1>15, <1>16, <1>17, <1>18, <1>19, <1>20, <1>21,
     <1>22, <1>23, <1>24, <1>25, <1>26, <1>27 DEF Next, Start, Step, Fault

(* The lifecycle implements RunStatus: whoever waits for a run sees it      *)
(* settled only over a published report of the same kind.                  *)
THEOREM LifecycleImplementsStatus == Spec => ImplementsRunStatus
<1>1. Init => Status!StatusInit
  BY DEF Init, Status!StatusInit, Terminal
<1>2. QED
  BY <1>1, StatusStep, TypeCorrect, LifecycleInvariant, PTL
  DEF Spec, ImplementsRunStatus, Status!StatusSpec
=============================================================================
