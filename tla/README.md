# Veritext, specified

TLA+ models of Veritext's extraction pipeline (`src/src/extractor`), the TLC
runs that check them and the theorems about them that TLAPS checks. Paths below
are relative to `src/`; `extractor/...` stands for `src/extractor/...`.

Veritext reads a document, has an LLM plan a schema, propose candidates, review
and verify them, reconciles what is left into data points, and writes a report.
Every step leaves rows in a SQLite audit store, and a run that failed is resumed
from these rows. The program's promises are about that store: what is reported
was reviewed, what was dropped has a reason, a run can be resumed. Those are the
properties checked here.

## 1. The system

| Part | State | Operations | What is hard |
|---|---|---|---|
| Orchestrator (`extractor/orchestrator`) | the pipeline's local results; `run_manifests`, `run_stage_states` | create, resume, take over, run each stage or reuse its audited output, fail | whether a stage is "complete" is read off the rows of the store; a crash falls between any two commits |
| Ingestion (`extractor/ingestion`) | the text a parser has assembled so far; `documents` | an adapter per format: text with its source map, layout and table spans | offsets count characters and bytes, of the document and of its parts |
| Chunker (`extractor/chunker`) | `chunks` | token windows with an overlap, or blocks of the layout packed into windows | a token may end inside a letter; blocks above the window; a prefix of the chunks looks like all of them |
| Planner (`extractor/planner`) | the registry of approved schemas; `extraction_plans` | classify, reuse an approved schema, make one or refuse, budget, validate | the decision is stored once, later processes may run under another policy; a refusal is stored before its report |
| Executor (`extractor/executor`) | `lens_candidates`, executor and dedup rejections | one task per lens and chunk; a candidate's span, slot and value; rows and rejections one by one; dedup | tasks interleave; `gather` raises while tasks write on; row and rejection are two commits; normalizers move what the model claimed |
| Critic (`extractor/critic`) | `critic_reports`, critic rejections | batches per chunk, semantic retry, corrections, mirroring to duplicates, reuse | reviews canonical candidates, is rebuilt over all of them; a correction must only narrow |
| Verifier (`extractor/verifier`) | `verifier_reports`, rejections | batches per chunk, reuse | as the critic, over corrected and mirrored candidates |
| Reconciler (`extractor/reconciler`) | `data_points`, rejections | calls with complaints, groups to data points, conflicts | the model's groups overlap, mix fields, omit candidates; a complaint replaces the whole answer |
| Reporter (`extractor/reporter`) | the report file, the manifest's outcome | report, refusal report; integrity, signing, diff, HTML | file, manifest and stage state are three writes |
| Audit store (`extractor/audit`) | all tables | one commit per write, idempotent for documents and chunks | documents and chunks are shared by runs, one connection by all tasks |
| LLM client (`extractor/llm`) | the time of the last request, its lock | throttled call, semantic retry with merge | concurrent tasks sleep in the lock; a retry is merged by id or by position |
| `scripts/prepare_failed_run_resume.py` | the same tables, from outside | delete a stage and the later ones, reopen a completed run | which rows belong to which stage |
| Cross-document runs (`orchestrator/cross_document.py`, `reconciler/cross_document*.py`) | `cross_document_run_manifests`, `cross_document_results`, a report file | a run per source, groups and conflicts over their data points, record, report | three writes; batches under one id; the runs they name can be cleared |
| Evals, CLI, config, contracts | none | | |

The stages call the LLM client and the audit store and hand their result on in
memory. On a resume the orchestrator rebuilds that result from the rows. Within
a stage `asyncio.gather` runs a coroutine per batch. Everything runs in one
event loop; interleavings happen at `await`s, that is at calls and at commits.

Correct means, by part:

* orchestrator: a resume neither loses nor repeats what a recorded stage did,
  and a run completes or says why not;
* ingestion and chunker: every recorded offset marks the text it was read from,
  and the chunks cover the document;
* planner: what is planned or refused follows from the approved schemas and the
  policy it was decided under, and stays decided;
* executor, critic, verifier: a candidate handed on is grounded in its chunk, has
  its row and accepting reports, every other one has a rejection or a rejecting
  report, for a reason that is true of it;
* reconciler: data points share no contributor, every verified candidate is
  accounted for, conflicting values are marked on both sides;
* reporter: manifest, data points and file of a completed run agree;
* cross-document runs: every data point is in one group or left out with a reason,
  conflicts are the disagreements, what is published is one batch's work;
* client: a stage's concurrency and request interval hold, `gather` ends, a
  retry neither loses nor disturbs what nobody complained about.

`PROJECT.json` lists the hazards one by one, at their lines, with the
properties that watch them.

## 2. The modules

```
CandidateTables ── ExecutorStage ─┐
      │            CriticStage ───┤
      │            VerifierStage ─┼── CandidateFlow ── CandidateReview ─┬─ MCCandidateFlow
      │            ReconcilerStage┘                                     └─ CandidateReview_proofs

RunStatus ◁─ RunLifecycle ── RunLifecycle_proofs   (◁─: is implemented by)
Planning ─┬─ MCPlanning
          └─ Planning_proofs

TextAssembly ── HtmlParser ── Ingestion ─┐                    ┌─ MCDocumentPipeline
                          LayoutPacking ─┼── DocumentPipeline ┴─ DocumentPipeline_proofs ── DocumentContract_proofs
                           TokenWindows ─┴──────────────────────┐
                                                                ├── TextSpans_proofs
SourceText ── SourceResolution ── EvidenceChecks ── CandidateEvidence ── MCCandidateEvidence

Reconciliation ──────────────────────┬─ MCReconciliation
FactGroups ─┬─ CrossDocumentInputs ──┼─ MCCrossDocumentInputs
            └─ CrossDocumentBatch ───┼─ MCCrossDocumentBatch
                                     └─ Reconciliation_proofs
StageBatches ─┬─ LlmCalls_proofs
VerdictRetry ─┘
```

**CandidateTables** declares the audit tables of one run and the memory of its
process, and what several stages use: `Canonical`, `Merged`, `Primary`
(`executor/dedup.py`). A candidate is a number; its lens, chunk and dedup
identity are constants. Of a candidate's content only what the pipeline can
still see later is kept: a row is sound, *malformed* (its category, field or
span fails a check that the critic repeats on its input) or *ambiguous* (its
defect was known to `source_resolution` only).

**ExecutorStage, CriticStage, VerifierStage, ReconcilerStage** have one action
per await that changes something: the call of a task or batch returns, a row is
committed, its rejection is committed, the gather returns; and the actions by
which the orchestrator starts the stage, reuses its audited output or refuses to
resume. `Refuse...` is `OrchestratorError` or the stage's input error.

**CandidateFlow** composes them: the stage states between them, the reporter's
three writes, `MainFails` and `TaskFails` (any call or commit raises), the
except clause (`MarkRunFailed`, `Close`), `Crash`, `Resume` and the operator's
script `PrepareResume`. After `TaskFails` the other tasks go on until `Close`.

**RunLifecycle** has the rest of a run's life, with several runs on one
document: `start_or_resume_run`, the chunks, `plan_or_refuse`, the refusal report,
the report, failure, crash, resume and script. The four stages that CandidateFlow
models are its one step `Extract`. **RunStatus** is what a run promises to whoever
waits for it, and RunLifecycle implements it under the mapping at the end
of the module.

**Planning** is what RunLifecycle's `PlannerApproves`, `PlannerRefuses` and
`PlannerBlocks` stand for: the registry and the packs a process validates before it opens
the store, `create_extraction_plan` with the model's answers, `decide_schema_fit`,
`validate_extraction_plan`, the reuse of a stored plan (`validate_resume_plan`) and
the check of the budget before the executor. Every process may have another
configuration than the one before it. The two modules share no state; a
refinement between them is not stated.

**TextAssembly** is how every adapter puts a text together: append a text or a
separator, advance the character and byte offsets, record a layout span, a table with
its cells, an entry of the source map. **HtmlParser** has the handlers of
`_HtmlBoundaryParser`, one action per kind of event; **Ingestion** the adapters for plain
text, HTML, DOCX, PDF and email, and the contract of `Document`. What the
parsers under them report (html.parser, python-docx, pdfplumber, email) is chosen
freely.

**TokenWindows** is the loop of `_chunk_document_sync`, **LayoutPacking** the layout-aware
mode: gap blocks, packing, splitting of oversized blocks, the hierarchy.
**DocumentPipeline** composes them: a document is ingested, then chunked in either
mode, with one encoding (`TokenEnds`) whose tokens may end inside of a letter.

**SourceText** is what `source_support.py` and `executor/text_utils.py` can tell of texts:
folding, blanks, stems, where a value occurs, whether a span supports it. A text is a
sequence of atoms, words and separators; the lexicon has one word of every kind the
code tells apart.
**SourceResolution** has the resolution of a claimed span and each normalizer of
`field_normalizers.py`, **EvidenceChecks** the checks of the executor, the filter of
the critic's objections, what a correction may change, and `build_verifier_report`.
**CandidateEvidence** takes one candidate through them; the three models may answer
anything.

**Reconciliation** is `reconcile_candidates`: the calls, the complaints that make the
model repeat its answer, `build_reconciliation_result` with the iterations of its
loops as steps, and `mark_unresolved_conflicts`.
ReconcilerStage takes every outcome this module can have as the reconciler's
result (`Outcomes`).

**StageBatches** is how `execute_plan`, `review_candidates` and
`verify_candidates` run their batches: the `cache_primed` event, the semaphore,
the throttle with its lock and sleep, retries, exceptions, the end of the event
loop, and each row as a statement and a commit on the connection all tasks share,
with the rollback of a failed one. Time is discrete. The row of the call log is
left out: it is written the same way and nothing reads it.

**VerdictRetry** is `complete_structured_with_retry` with the validations and
merges of the critic (by id) and the executor (by position).

**FactGroups** has the groups and conflicts of `reconciler/cross_document.py`, as
pure operators. A claim is a field (with its category), the source of its
canonical key and the key; a group stands for its id, a hash of the same content.
**CrossDocumentInputs** is `reconcile_cross_document_data_points` on whatever it is
given. **CrossDocumentBatch** is `run_cross_document_reconciliation_batch`: the
input runs (one step each), the manifest's insert outside of the `try`, the
reconciliation in memory, the result, the file, the manifest, an exception or
a crash anywhere, several batches under one id and output path, and the
operator's script on any run.

A definition that carries the comment *variant* is the code with a plausible
mistake in it. No action uses it; `PROJECT.json` says which property finds it.

## 3. The runs

| Run | Instance | Shows |
|---|---|---|
| `candidate_flow` | 3 candidates of one lens in 2 chunks (two are duplicates across chunks), 1 fault, 1 use of the script, any number of resumes | what is published was reviewed, everything is accounted for, a completed report is faithful; recorded stages are frozen, resumes are refused for half-written stages only; a run completes or is stuck in one |
| `run_lifecycle` | 2 runs, 2 chunks, 2 faults, 1 script | settled runs agree with themselves, refusals extract nothing, runs do not block each other, settles or is blocked; implements RunStatus |
| `planning` | 3 processes of one run, each with any of 11 configurations (no schemas, one, two of a class, one that needs a hint, duplicate categories, edited and stray files, a bad pack; required or not; 2 windows); 8 classifications, 3 critiques, 2 lenses, budgets up to 2 | a plan is the one approved schema that fits, or generated where the policy allows it; a refusal has its reason; neither is revised |
| `documents` | text of letters of 1 and 2 bytes; 3 pieces of HTML text, 2 tables, 2 cells a row; DOCX of 4 parts; 13 PDFs, one with two tables at one place, 6 emails; an encoding whose tokens end inside of letters, windows of 2 and 3, overlap 0 and 1 | spans are exact, documents meet their contract; windows and packed chunks cover the text, fit or say why, and point back in the hierarchy |
| `evidence` | 6 chunks with repeated words, headings, double blanks and one phrase for each normalizer; every claim in and just around them; every verdict and correction | accepted candidates are grounded, review only narrows, sound claims are kept, the span that is handed on comes from the claim or one certain place, objections that the text refutes reject nothing |
| `stage_batches` | 3 batches, 2 permits, 2 attempts, 2 rows each, interval 2 | no call before priming, a batch that is done has its rows stored, spacing, `gather` ends |
| `verdict_retry` | batch of 2, outputs of up to 3 items, 2 retries | a returned output is complete or its retries are used up; merges keep what was undisputed and lose nothing |
| `reconciliation` | 4 candidates, 2 fields, up to 2 groups, 1 retry | any answer of the model gives sound, mutually marked data points, accounts for all, and drops no distinct value unsaid |
| `cross_inputs` | up to 3 data points of 2 runs, 2 documents, 2 schemas, 3 claims about a field, any manifests | every input is grouped once or has a reason; conflicts are the disagreements |
| `cross_batch` | 2 batches of 2 sources, 2 documents, 1 script | a completed manifest, its result and its report are one batch's work; nobody takes a run over |

Why the bounds are enough. Three candidates give the cases that differ: a
duplicate in another chunk than its primary, two candidates in one batch, and a
batch of one. Two chunks give two concurrent tasks or batches. One fault
stops a stage at each of its commits; as resumes are not bounded, a run meets
its half-written stage again and again. Two groups are the least that overlap.
Three data points can fill a conflict and leave one out of it or out of
the result; three claims are the least with a conflict next to equal raw text. Two
cross-document batches meet at the insert of the manifest, which admits one.
Three batches of a stage with two permits make one wait for a permit while another waits
for the event; two rows each let a rollback fall between another task's statement and
its commit. Outputs of three items over a batch of two can repeat an id and
name an unknown one at once. Three processes of a run are one that decides, one that
meets the decision under another policy, and one that meets what that one left.
Two schemas of one class are the least that are ambiguous. Three pieces of
HTML text are one before, in and after a block or cell; a letter of two bytes is
the least that separates characters from bytes and that a token can
cut. A window of two tokens with an overlap of one is the least that moves by less
than itself; a window of three holds two blocks.

Bounds that are part of the models: a batch holds all the candidates of a chunk
(the defaults are 20); rows of a batch are written in any order, where the code
goes by the batch's; one process works on a run at a time; the script runs when
no process does; in `RunLifecycle` all runs use the same configuration.

**Fairness.** `CandidateFlow` and `RunLifecycle` assume weak fairness of the
process's own steps (the event loop runs what is ready, provider calls have
timeouts) and of the operator's resume; nothing is assumed of faults. In
`StageBatches` the steps of all tasks together, `gather` and the clock are weakly
fair, which is less than what asyncio gives: one fair disjunction. `VerdictRetry`
is sequential; the cross-document modules state safety only.

Two runs end with a violation. Each states what a document or comment says and
shows a trace of the code doing otherwise:

| Run | The code |
|---|---|
| `rejected_rows` | a crash between a row and its rejection turns an ambiguous candidate into an accepted one |
| `missing_verdicts` | a candidate the critic has no verdict for makes its task raise, where a rejection was to be recorded |

The models follow the code in more places where a document says otherwise; these
have no run of their own:

* A crash inside a stage's writes leaves output that every resume refuses
  (`orchestrator/state.py:345`); `docs/PROJECT_OVERVIEW.md:88` has a failed run resumed from the
  audited stages. `CompletesOrStuck` says that this is the only obstacle.
* A fault between a refusal and its report marks the run failed, and it cannot be
  resumed (`orchestrator/planning.py:46`); phase 27 (`docs/specs`, line 117) makes a refusal terminal.
* A stored generated plan is reused by a process whose policy requires approved
  schemas (`orchestrator/planning.py:37`, against phase 27, line 231).
* A plan with a budget below the number of chunks is stored and never executable
  (`executor/validation.py:16`), and the `chunk_policy` of a plan may not describe chunks that
  another run has made with another window (`orchestrator/service.py:106`).
* An artifact with two categories of one name loads, and the plan made of it is
  invalid (`contracts/schema_registry.py:33`).
* Any executor row counts as all of the executor's output (`orchestrator/service.py:172`), any
  chunk as all chunks (`service.py:106`): after a crash in between, the run completes
  without the rest.
* HTML text outside of the blocks the parser knows is dropped
  (`ingestion/html.py:167`, against phase 34, lines 34 and 98).
* A claim that does not resolve and a fallback without text raise in the executor and
  fail its task (`executor/source_resolution.py:181`, `materialization.py:75`), where `docs/PROJECT_OVERVIEW.md:50` has
  bad candidates rejected.
* A candidate in two groups of the reconciler's answer is both a contributor and
  rejected (`reconciler/materialization.py:51`, against line 37).
* After a correction `value_verbatim` may be longer than the span, whose text it still
  holds (`ReviewOnlyNarrows`); the value a
  correction proposes is never applied; no stage calls `require_source_backed_span`.
* `CrossDocumentInputs` accepts two runs over one document, which phase 39 asks to
  reject; only the batch does. The operator's script clears data points that a completed
  cross-document run names.

## 4. The proofs

TLAPS proves for every value of the constants:

| Module | Theorems | For every |
|---|---|---|
| CandidateReview_proofs | `TypeCorrect`, `ReviewInvariant`, `PublishedIsReviewed`, `ReportsKeepTheirRows`, `PointsStayDisjoint`, `CompletedIsFaithful`, `EverythingIsAccounted`; the action properties `InputsAlwaysPass`, `RefusalsAreStuck`, `RecordedStagesStay` | set of candidates, lenses and chunks, assignment of identities, bound on faults and uses of the script |
| RunLifecycle_proofs | `TypeCorrect`, `LifecycleInvariant`, `RefusalExtractsNothing`, `SettledIsConsistent`, `ChunksAreKept`, the action property `OnlyRefusalBlocks`, and `LifecycleImplementsStatus`, the refinement of RunStatus | set of runs, number of chunks |
| Planning_proofs | `PlansFollowTheSelection`, `RefusalsAreRight`, the action property `OutcomesAreFinal` | registry, configuration of each process, answer of the model |
| TextSpans_proofs | `AcceptedStaysGrounded`, `ReviewNarrows`, `ChecksAreNotOverruled`, `RightClaimsSurvive`, `RepairsAreRight` | text, claim, correction and verdict, whatever a text is made of |
| | `WindowsCoverTheText` | text, encoding, window and overlap |
| LlmCalls_proofs | `FirstCallPrimes`, `ReturnedRowsAreStored`, `IntervalIsKept` | number of batches, permits and attempts, rows of a batch, interval |
| | `AcceptedIsComplete`, the action properties `DisputesAreLocal`, `NothingIsLost` | batch, output and number of retries |
| Reconciliation_proofs | `CandidatesAreAccounted`, `PointsAreAlwaysSound`, `NoDistinctValueIsDropped`, `ConflictsAreMarked` | candidates and answers |
| | `ConflictsAreExact`, `InputsAreAccounted`, `DisagreementsAreFound` | data points and manifests |
| | `TypeCorrect`, `BatchInvariant`, `ResultsAreStored`, `CompletedIsFaithful`, the action property `OneOwner` | number of batches and sources |
| DocumentPipeline_proofs | `EverySpanIsExact` | text of any length, sequence of tags, table and page |
| | `ChunksTile`, `LongChunksHaveReasons`, `ParentsAreTheSections` | document an adapter puts together, window and configuration |
| DocumentContract_proofs | `IngestedDocumentsAreValid` | text of any length, sequence of tags, table, page and header |

The assumptions are the named ones of the modules. They give the types of the
constants, and say

* `CandidateAssumption`, `LifecycleAssumption`: there is at least one chunk, and
  every task may propose something;
* `PlanningAssumption`: a document has chunks in every window, and a configuration finitely
  many files;
* `EvidenceAssumption`: the positions in payloads and corrections are not negative and
  chunks are not empty, which their contracts (`contracts/models.py`) require;
  `AtomAssumption`: what a normalizer writes is a text like any other;
* `ReconciliationAssumption`: no two candidates have one rank (the rank ends with the
  candidate's id); `RetryAssumption`: an unknown id is not one of the batch;
  `BatchAssumption` (StageBatches): a stage has a batch, a permit, an attempt and a row;
* `InputsAssumption`, `BatchAssumption` (CrossDocumentBatch): a claim is its field, source and key, and a
  batch has at least two sources;
* `InputAssumption`: the format parsers hand texts, and tables, pages and headers of texts, to
  the adapters; a header without a text is left out (`email.py:158`); a paragraph is a
  heading, a list item or a plain one;
* `ConfigAssumption`: an overlap is smaller than its window.

*The argument.* `DataPointsAreReviewed` is not inductive: a data point is made
of `accepted`, which a resume rebuilds from the rows, which were written by
tasks that may have failed. `ReviewInv` says what the rows of a stage and the
memory of the process know of each other at each point, in five parts. `RowsInv`:
the executor rejects defective rows only; a candidate is over when its row is
written or its task has failed; from `executed` to `mirroring`, `accepted` is
exactly what the rows say. `CriticInv` and `VerifierInv`: an accepting report
excludes a rejection of the same stage, because a candidate whose turn has not come
has neither, because a stage with partial output is never started again. (That is
why the refusal of partial output, which hurts liveness, is needed for safety;
the variant `ReviewIsNeverPartial` breaks exactly this.) `PointsInv`: the decision that is
being recorded has accepted and disjoint contributors, and what is stored is a
part of it. `ReportInv`: from `reconciled` on the decision is the stored one,
and a completed run has no process that could still write. Each part is one lemma
(`RowsStep` ... `ReportStep`), proved action by action assuming the parts
before it.

`EverythingIsAccounted` needs four more parts. `AccountInv` is the promise itself, cut at
the stages: whatever the process has passed accounts for its candidates
(`DedupAccounts` ... `ReconcilerAccounts`). A resume that skips a recorded stage
needs it of the rows and not of the process, so `StagesInv` says it again for
the recorded stages, which have no gap and are not started again. `HandedOn` is the
step from a gather to the rows: while nothing was raised, who is over has a report.
`RejectionsInv` ties a rejection of a review stage to its report; with it a partial
stage is told apart from a complete one, which is what `RefusalsAreStuck` and
`InputsAlwaysPass` are about.

`LifecycleInv` has three parts besides `SettledRunsAreConsistent`. `ChunksInv`: a
process past the chunker has at least one chunk, because the chunker counts its
own chunks up to `ChunkCount` before it is done, whatever the other run stores
meanwhile. `PlannerInv`: the planner is complete with a plan or with a refusal and
never with both, and nothing is extracted before it is complete; this is what
makes a refused run that failed before its report stay without extraction.
`OutcomeInv`: the file is at the output path before the manifest is settled, and
a process that has settled its manifest can only end or fail. The last part also
gives the refinement: a write of the report happens while the run is open, and a
settled run becomes open again through a failure or the script only.

For cross-document runs the groups partition the data points by schema and claim
(`GroupsCoverPoints`, `GroupsAreKeyed`), from which both theorems about the service
follow. `BatchInv` says that from `reconcile` to its last update the manifest is
the batch's own: the insert succeeds for one batch only, and a batch that fails
before it does not touch the manifest (the variant `InsertToo` breaks this). So
what a batch stored is still there when the reporter compares it, and when the
manifest is completed. `StoredInv` adds that completing a run never hides the
clearing of another, because a batch's next run is new.

`PlanningInv` adds to the two properties what a process knows on its way to the
decision (`SelectionInv`): nothing is stored before it is decided, the schema in hand
is the one that fits or a generated one, and generation was allowed. What the
code selects from is a dictionary in the order of its file; the model's filters over it
are sets of its indices.

`Reconciliation`'s loop builds the data points group by group. `GroupsInv` says of the
groups before `next` that their candidates are those kept and those rejected, that a
group without a data point was not approved, mixes fields or overlaps an earlier one,
and that a candidate is both kept and rejected only if two of them name it;
`AnswerInv` that nothing is built from an answer before its ids are validated.

In `StageBatches` the event is set only when batch 0 is through with its calls
(`PrimingInv`); who sleeps has the lock, so the request it waits for is still the last
one (`ThrottleInv`); and as long as no task failed nothing was rolled back, so a row is
stored or in the open transaction (`RowsInv`). Without a failure the last commit stores
everything, and with one `gather` raises. `RetryInv` says that a retry is about the
complaints of this very output, and that a critic's output is complete once a
correction was merged: the merge by id adds what is missing (`MissingAt`) and replaces
what is known (`KnownAt`), so ids never leave.

In `CandidateEvidence`, the five theorems rest on this: a span is *placed*
(`SpanIsPlaced`): made by `SpanAt` from a position and a text, and within the chunk.
`EvidenceInv` has it of every candidate from the executor on. Most of the proof is that each way
to look for a value gives a stretch of the chunk (`MatchesFit`), that a resolution
lies in the chunk (`ResolutionsAreInside`), and that each of the eight normalizers cuts its
part out of it or extends it by what follows (`DraftsAreInside`). From there the checks speak:
a correction has to be a slice of the chunk and must not expand (`CorrectionsOnlyNarrow`),
and a span that passes `SpanMatches` has the characters of its place
(`MatchingSpansAreGrounded`). `re.finditer`'s choice of matches that do not overlap is the one set
that is determined from the left; that it exists is `TakenExists`. Least and
greatest elements come from the well-foundedness of inclusion of finite sets (`LeastElement`).

`RightClaimsSurvive` goes the other way: what the executor drafts must pass `SpanMatches`.
A draft is not only within the chunk but a stretch of it, character by character
(`DraftsAreInside`), and a stretch has the bytes between the byte offsets of its ends
(`StretchesMatch`): the byte length of a text is that of its two parts (`BytesAddUp`), so
each byte of the stretch is a byte of the chunk, moved by what lies before
(`BytesOfAStretch`). With that a right claim gets through (`GoodClaimsPass`).
`ChecksAreNotOverruled` is about every code a verdict may have, the three of other stages and
`verifier_rejected`, which a reject without a code gets, among them; the checks refute what is
said of span, slot and value, so that four codes remain which say nothing of these (`JudgementCode`).

`RepairsAreRight` is about the span that is handed on, behind the resolution and all eight
normalizers. The resolution gives one of the places a value may be taken from
(`EvidencePlaces`). A normalizer cuts its part out of that place, or, for a condition and an
effective date, goes on to the end of a line or sentence (`DraftsAreTaken`). One leaves it: that
of a prior period takes an amount with a quarter from anywhere in the chunk, also when the
claim holds, so all that can be said of it is that the place or the value names the amount
(`IsAmountOf`). Where the claim did not hold, the candidate must still support its value after
this; that needs that each way to look for a value finds something that supports
it (`MatchesSupport`). For the last way, which compares texts with their blanks
collapsed, the k-th kept position has to exist and to move with the text
(`KthExists`, `KthMoves`).

`EverySpanIsExact` is about what an assembler has built, whatever the order of its calls.
A range *marks* a text in another (`Marks`) when the other is something before it, the text and
something after it, and the offsets count the characters and bytes of these. An assembler
is exact on a text (`ExactOn`) when the text is its own, its counters are the text's lengths, and
its spans and cells are marked in it; appending keeps this, because what was marked is
still marked when a text goes on (`MarkedStays`). Tables are where this could
go wrong: a cell is marked by its place among the cells of its row (`RowsHoldCells`) and by the row's
range as it was when the row was appended (`RowsStayMarked`). The imports of an email's body move the
marks by the headers' lengths (`ImportedIsExact`), and the words and cells of a PDF are marked
where the search in the page found them, moved by where the page begins
(`AlignedAreFound`, `JoinedPagesAreMarked`). A loop over data (rows, pages, headers, pieces) is a
recursive function in the model; that it exists and that what holds of each step holds of it all
are the lemmas `Iterates` and `Reaches`, in which a set of the places takes the part of
the predicate that the induction theorems of the library cannot be given.

`IngestedDocumentsAreValid` needs more of an assembler than that. It is *filed* (`Filed`) when its
segments follow each other from the start of its text to the end, its spans and tables have
ranges that are not empty and end within it, cells lie in their table and no two at one
place, and each id carries a number that is in use: of a block below the next one, of a table
below their count. A block or a table takes the next number, which is why no id comes twice
(`BlocksFile`, `TablesFile`). Whether the segments have unique ids is said apart (`Named`),
because it is false of a DOCX: a table without rows leaves a separator behind and no table, and the
next one writes that id again. `ValidInvariant` therefore claims it for the other formats only, and
`DocxStaysFiled` the rest for all. The other documents are not made by an assembler alone.
An email joins the assembler of its headers and the parser's, which is
moved behind them and has its ids prefixed (`ImportedIsContracted`). A PDF has a range of every
page, each behind the one before (`PagesAreInOrder`), words and tables numbered by page and place
(`UniqueNumbered`), and cells that were found one behind the other, so that the first has the
least start and the last the greatest end, which make the range of their table (`FoundTablesHold`).

The three theorems about the layout mode follow `pack_boundary_aware_chunks` through its
loops. `TakenInvariant` says that what is chunked passed its contract and the refusals of the
packing, and `ExactInvariant` what shape an adapter gives it; from both, its blocks lie in the
text and have identities (`DocumentsAreLaidOut`). Blocks that do not overlap have distinct starts,
so they can be sorted, and each ends before the next begins. With the gaps
filled, block by block, they tile what was read so far (`Tiling`): each block of the flow
is still there, longer by the blanks behind it at most. The packing turns a tiling
into a row of chunks, one block at a time, and the chunks of two parts of the tiling
can be joined (`Packs`); so can the pieces of a block that is too large (`Pieces`),
which come from sentences and, where a sentence is too large, from single cuts. The tokens of a
slice are not the sum of the tokens of its parts, because a blank and the letter
behind it are one token. All that is needed is that a letter more is never a token
less (`TokensGrow`): a slice that is too long at one end is too long at every later end, so the last
end that fits is where the code's loop stops. For the hierarchy, a heading that fits begins
a chunk of its own, which has the kind of a section and, if the heading is not blank, a line to name it
by (`ContentGrows`); the parent of a later chunk is the last of these.

A window may not end inside a letter, so its end is moved forward to the
next position between two letters, and so is its start. The invariant behind `WindowsCoverTheText`
(`NextIsClose`) says that the start being sought stays between the end of the last window
and the overlap before it, because that end is itself between two letters, and that
only the last window ends where the text does.

*Only proved*: the type invariants, the inductive invariants (`ReviewInv` and its like),
`ReportsHaveRows`, `DataPointsAreDisjoint` and `ChunksStayStored`; they carry the other proofs
and no run repeats them.

*Only model-checked*:

* the liveness properties `CompletesOrStuck`, `SettlesOrIsBlocked`, `GatherEnds` and the two runs that
  end with a violation: neither fairness nor ENABLED can be reasoned about here.

## 5. Not modelled

* Prompts and their views, provider payloads, response parsing, pricing: data that
  is handed through. A model answers with any value of a small set.
* The format parsers, charsets and OCR, which are libraries: what they return is chosen
  freely. The tokenizer's encoding is one fixed operator (`TokenEnds`: a token for each byte, a
  blank with the letter behind it); `TokenWindows`, and with it `WindowsCoverTheText`, is about
  any division into tokens, the packing and its theorems about this one.
* The computation of canonical keys and of the rank of a source: constants of `Reconciliation` and
  `FactGroups`. The wordings of a normalizer: one phrase stands for each of
  its lists.
* The corrections inside of `CandidateFlow`: there a corrected candidate counts as the candidate.
* Two processes on one run, and the script under a live process. The models
  have one process on a run at a time.
* The errors of a store whose states contradict each other, as a complete chunker without a
  chunk (`orchestrator/service.py:112`): no action leads to such a store, and none raises over it.
* A cross-document batch over run ids of an earlier one.
* The integrity chain (one command appends to it, nothing verifies it), signing, HTML rendering, diff,
  static provenance, the audit inspection commands, evals, CLI and the loading of
  settings: pure functions over finished files, or input and output only.

## 6. Plan

1. Two processes on one run, as a further run of `RunLifecycle`, and the script under a live one.
2. The refinement of `RunLifecycle`'s planner by `Planning`.
