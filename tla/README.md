# Verification of the railway bid application

The repository is a FastAPI service over SQLAlchemy and PostgreSQL, with a React
frontend. A bid team uploads tender documents, derives requirements from them, raises
queries with the employer, analyses schedules and planning packages, prepares the
employer's workbooks and finally packs a submission. The service has no queue and no
scheduler: everything that can go wrong goes wrong between HTTP requests, which run
concurrently on one database, or in what one part concludes from what another part
wrote. This project models those requests and what they promise about the tables.

Paths below are relative to `src/backend/app/`.

## How the service executes

- `database/session.py` gives each request its own session, with
  `expire_on_commit=False`, at PostgreSQL's default READ COMMITTED. No row is locked
  (`FOR UPDATE` occurs nowhere), no row has a version column, and an `UPDATE` repeats
  no guard.
- A handler has one shape: load the row, test it, set attributes, commit once.
  SQLAlchemy writes only the columns whose value changed since the load. Two requests
  that loaded the same row both commit, and the row ends as a merge, column by column.
- Almost every route is a plain function and runs in a thread pool. The upload route
  is a coroutine that does not await between its first duplicate check and its
  last commit: it holds the event loop, and two uploads never overlap in the one
  process the Dockerfile starts.
- An `HTTPException`, any other exception or the death of the process before the
  commit leaves the database as it was; files already written stay.

So each handler is split in the models into a *Begin* action (load and guards), the
statements others can get between, and a *Commit* action that applies the merge to the
row as it is **then**. `Die` (`Abort` in `PreparedArtifacts` and `ScheduleScope`) ends a
request at any point before its commit. A handler that reads nothing it writes over is one
action.

## Inventory

| Component | State | Operations | Hard behaviour | What makes it correct |
|---|---|---|---|---|
| Prepared artifacts (`services/prepared_artifacts.py`) | artifact rows, files, approval events | create, send for review, approve | two approvals or two creations at once; a stale status; a crash between file and row | one approved version per template; distinct version numbers; nothing incomplete is released; the audit trail explains the table |
| Submission readiness and package (`services/submission_readiness.py`, `services/submission_format_intelligence.py`) | none; reads five tables | readiness, package | reads in separate statements while others commit | what is packed was vetted; each format once; no standing blocker passes |
| Pre-bid queries (`services/pre_bid_queries.py`, `api/pre_bid_queries.py`) | query rows, approval events, decisions on suggestions | create, update, approve, revoke, export | PATCH may set any field and status; edits race approvals | no approval outside the approval route; approved text is what was read; columns agree with the status |
| Planning findings (`services/planning_package_reconciliation.py`) | finding rows unique per bid and key | analyse, synchronise, review | a refresh races a review; audit in a second commit | a refresh keeps closures; verdicts are whole |
| Documents (`services/documents.py`, `services/document_classification.py`) | document rows, files | upload, classify, reclassify, archive, revise | duplicate check, slow classification, failures between file and row, chains of duplicates | one blob per content; duplicates lead to content; manual beats automatic |
| Clause risks (`services/clause_risk_intelligence.py`) | findings, patterns of the library | scan, review, promote | overlapping scans; promotion beside a review | a match is raised once; the library holds what was reviewed |
| Drawing and BOQ verification (`services/drawing_boq_verification.py`) | observations, findings | record, verify, review | repeated and concurrent verification; the bill is replaced | one finding per observation; a difference is seen |
| Schedule scope (`services/schedule_scope_coverage.py`, `services/boq_scope_adapter.py`) | scope items with coverage and disposition | three synchronisations, evaluate, disposition | order of evaluation and disposition; pruning | nothing missing is passed over without an explanation |
| Execution learning (`services/execution_learning.py`) | execution outcome, factors | save, review, create, update and review factors | edits after a review; parent and child reviews | what counts is what a reviewer read |
| Requirements, missing inputs (`services/requirements.py`, `services/missing_inputs.py`, `services/requirement_extraction.py`) | rows with an owner and a reviewer or resolver | create, update, extract, assign owners | repeated extraction at once; assignment beside edits | verdicts name who gave them; a candidate once; an owner is kept |
| Schedules (P6) (`services/schedule_ingestion.py`, `services/p6_xer.py`, `services/p6_schedule_optimizer.py`) | none: functions of the file | ingest, screen, advise, compare | sources that lack columns; floats that are not finite; two rule sets, written twice, that must agree | missing data adds no issue; every issue is advised on |
| Planning resources and readiness (`services/planning_package_ingestion.py`, `services/planning_package_reconciliation.py`, `services/schedule_requirement_alignment.py`, `services/planning_readiness.py`) | plan entries | ingest, reconcile, refresh, grade | findings of one request are graded by another, later | Ready only when nothing detected is left unreviewed |
| Department workflow and estimate (`services/department_workflow.py`, `services/estimation_readiness.py`) | person of a row | queue, progress, action plan, assign | the same closing rules written three times; days pass | the views agree; an overdue row is seen |
| Bid outcomes (`services/historical_bid_intelligence.py` and the analytics) | outcome, price ranks, snapshots | upsert, import, snapshot | delete and insert of the ranks by two requests | the ranks are those of one request |
| Tender knowledge (`services/tender_knowledge_index.py`, retrieval, questions) | chunks per document | index, query | rebuild beside queries | a complete set of chunks or none |
| Access (`security/auth.py`) | users, roles, memberships | current user, require access | a membership removed during a request | only members act, beside the system administrator |
| Templates, other advisory services | none | parse, compare, score | none: functions of their input | values of functions |
| Frontend | page state | calls the API | none modelled | |

Components meet in the tables: the package reads artifacts and three kinds of findings;
findings come from documents; an artifact is generated from a document; a query links a
requirement, a missing input and a document; the readiness of the planning reads schedule,
scope, plans and findings; the work queue reads seven registers. Calls between services are
plain function calls in one request.

`PROJECT.json` lists every component with its status, every hazard with its line,
and for each definition the lines it stands for.

## Modules

| Module | Models | Used by |
|---|---|---|
| `ApprovedVersion` | abstract specification: a register that holds, per template, the approved version, and retires what it held; once contested, what it may do instead | refined by `PreparedArtifacts` |
| `PreparedArtifacts` | creation, review and approval of artifacts, the files, the approval events | `SubmissionGate`, `PreparedArtifactsProofs` |
| `SubmissionGate` | composes `PreparedArtifacts` with findings that open and close and with package requests | `SubmissionGateProofs` |
| `Session` | the database session behind a request: load, merge, commit, death | the registers |
| `ClauseRisks`, `DrawingFindings`, `Requirements` | a register each, whose rows a scan finds | `Registers`, `FoundRegistersProofs` |
| `ExecutionLearning`, `PlanningFindings`, `PreBidQueries` | a register each, whose rows are reviewed or approved | `Registers`, `ReviewedRegistersProofs` |
| `Documents` | a register of uploads, their classification and archiving | `Registers`, `DocumentsProofs` |
| `Registers` | the seven registers over one pool of request threads | `RegistersProofs` |
| `ScheduleScope` | catalog of expected activities, its coverage by a schedule, dispositions, groups and readiness | `ScheduleScopeProofs` |
| `ScheduleAnalysis` | pure operators: ingestion, health, criticality, loading, the advisor | `ScheduleDesk`, `PlanningPackage` |
| `ScheduleDesk` | a schedule file written row by row, analysed at every point | `MCPlanning`, `PlanningProofs` |
| `PlanningPackage` | pure operators: the reconciliation of schedule, plans and roles | `PlanningReadiness` |
| `PlanningReadiness` | ingestion of plans, changes of the tender, refresh and review of findings, the grade | `MCPlanning`, `PlanningProofs` |
| `DepartmentWorkflow` | the work queue, the progress, the action plan of the estimate, assignment, days | `MCPlanning`, `PlanningProofs` |
| `...Proofs` | theorems on the modules named above, checked by TLAPS | |
| `MC...` | constants, bounds and symmetry for TLC | |

### Session

`req` is the request each thread executes: what it loaded and decided, as the fields of a
record, and two histories, `reads` (the rows it decides from) and `stale` (those of them
another request has changed since). `Take` starts a request, `Continue` goes on without a
commit, `Commit` marks what it wrote stale for the others, `Die` ends it. A row a request
decided about while it was stale is in `raced` for good. `Changes` and `Written` are the
flush: the columns that differ from what was loaded, over whatever the row says now.

Properties that a lost update breaks are stated for rows outside `raced`; those
without that qualification hold in every interleaving.

### PreparedArtifacts

Variables are the columns of `bid_prepared_artifacts` the workflow reads or writes
(`status`, `template`, `version`, `summary` for the unresolved counts of
`generation_summary`, `readyBy`, `approvedBy`), the files in storage (`stored`), the
approval events (`approvals`) and the request each thread executes (`req`).

| Action | Code |
|---|---|
| `BeginCreate`, `SaveFile`, `CommitCreate` | `create_prepared_artifact`: `max(version_no)`, `storage.save`, insert |
| `BeginReady`, `CommitReady` | `mark_artifact_ready`: guards, update |
| `BeginApprove`, `SelectPrevious`, `CommitApprove` | `approve_artifact`: guard, the select of approved versions, update of all |
| `Abort` | an exception or the end of the process |

Requests interleave in every way, and nothing in the code keeps them apart. Two histories record
where they met: `rivalCreations` are the templates of which two creations, `rivalReviews` those of
which two reviews or approvals, were ever in flight at once. `UniqueVersions` excepts the first,
and `ApprovedVersion` is refined with the second as its `contested` templates: a template that is
not contested has one approved version, replaced in one step; one that is may keep two, and an
approved version may be taken back into review by a request that tested it before. So both say
what the code does in every behaviour, the races included. `AtMostOneApproved`, with no exception,
is violated (`artifacts_approved`).

### SubmissionGate

`pack` is the package request of each packing thread: the formats it detected, the
artifacts it chose, whether a table had a blocker. Findings are only open or not
(`open`). `standing` is a history component: the findings that have been open ever since
the request began. The artifact part is `PreparedArtifacts` with all its interleavings.
Warnings, the estimation score and the content of the archive do not decide anything and
are left out.

### The registers

`Registers` composes seven modules over the threads of `Session`. They share no table, so what
overlaps in one register is all that can disturb it: a behaviour works on one of them, any
of the seven. A request of one register beside a request of another adds nothing.

| Module | State | Actions |
|---|---|---|
| `ClauseRisks` | `pattern` (code to terms), `risk` (rows), `riskEvents` | `BeginEnsure`, `CommitEnsure` write the standard library; `ReadScan`, `CommitScan` match a document and insert; `BeginJudge`, `CommitJudge`, `CommitJudged` review and audit; `BeginPromote`, `CommitPromote` |
| `DrawingFindings` | `boq`, `observation`, `drawing` | `ReplaceBoq`; record; `BeginVerify`, `CommitVerify`; judge |
| `ExecutionLearning` | `won`, `learning` (the actuals and each factor), `seen` (history: what a reviewer read) | `SetResult`; `BeginSave`, `CommitSave`; `CreateFactor`; `BeginLearningReview`, `CommitLearningReview` |
| `PlanningFindings` | `row`, `events`, histories `latest`, `unaudited` | `BeginSync`, `CommitSync`; `BeginReview`, `CommitReview`, `CommitAudit`; `DieFinding` |
| `PreBidQueries` | `query`, `approvals`, history `edited` | `CreateQuery`; update, approve and revoke, each Begin and Commit |
| `Requirements` | `requirement`, `input`, history `retyped` | extract, create, edit, create and edit inputs, assign owners |
| `Documents` | see below | |

Nothing in the database keeps a signature of a finding unique. Rows are therefore named by
the signature and a copy number, so that duplicates can exist and be spoken of. A line, a
term, a candidate, a drawn thing stand for their normalised text; how alike two of
them are is a constant. In `ClauseRisks` a line may be longer than the excerpt a finding
keeps: a scan reads the cut text back and does not recognise it, which is the second
exception in `RaisedOnce`. In `DrawingFindings` a quantity is counted in tenths of a millionth, a
place more than its column keeps (`Numeric(18, 6)`): `Stored` is what the row reads back, and the
check for duplicates compares that with the quantity as it is written in the batch, so a longer
quantity is recorded again every time (`Exact` in `ComparedOnce`). In `Requirements` an edit gives
a requirement any text, that of a candidate included: a requirement reworded, extracted anew and
worded back equals the new one, and `retyped` names the extracted requirements whose text was edited, the
exception in `ExtractedOnce`. In `PreBidQueries` a date is whether it is set, and the
text is the history `edited`: queries whose approval-sensitive fields changed since
the approving request read them. In `PlanningFindings` the analysis is an input, any set
of detected keys.

### Documents

`uploading` is the upload the event loop executes, the requests of threads are in `Session`.
`content` stands for the checksum, `original` for `duplicate_of_document_id`, `stored` for the
files. The result of the classifier is a choice of its two outcomes (a failure has the
second). No request can name a row before the upload that inserts it has answered, because
the loop starts no request in between: that is the guard `uploading.doc # d` of
`BeginDocument`. It is a register of `Registers`, and stands alone in the two runs that find a
violation.

### ScheduleScope

`item` is the table. A name stands for a class of similar activity names: the similarity of
`_scope_similarity` is taken to be transitive and to keep to a level, and the best match of an item with a schedule
(thresholds .72 and .42) is an input of `BeginEvaluate`. A request in flight holds what it will
write: the columns it changes, its inserts, its deletes; `Commit` applies them to the table as
it is then, with the cascade on `parent_id`. `demanded`, `lost` and `raced` are histories: what
the last synchronisation read, the items an evaluation no longer covered and nobody has
reviewed since, the items that changed under a request that set them. A library item is found
again by its name and the type of the project, which users change (`ProjectTypes`).

| Action | Code |
|---|---|
| `BeginSync`, `CommitSync` | `sync_scope_from_requirements` with `sync_scope_from_project_type` |
| `BeginIngest`, `CommitIngest` | `ingest_boq_scope`, one line |
| `Add` | `add_scope_item` |
| `BeginEvaluate`, `CommitEvaluate` | `evaluate_scope_coverage_from_tables` |
| `BeginDisposition`, `CommitDisposition` | `disposition_scope_item`, loaded in its route |
| `Abort` | an exception before the commit |

`Seeds`, `Canonical`, `Group`, `GroupCoverage`, `GroupBlocking` and `Ready` are `_consolidate_rows`
and the readiness it decides. Rows are clustered in the order of authority and mandatory flag;
`ordered` breaks what ties are left by spelling, which a name leaves open, so the row that starts
the cluster of a name is any that none outranks (`seed`), and what a property says holds for each.
Sub-activities are left out.

### ScheduleAnalysis and ScheduleDesk

A file is a record of what the planner wrote: rows, links, loaded activities, calendars, the
planned days. `Tables` is what `schedule_ingestion.py` and the XER reader make of it, with the
capabilities (a column is available when one row has it); `HealthScore`, `Critical`,
`OpenStart` and their siblings are `p6_xer.py`. The advisor (`p6_schedule_optimizer.py`) has
conditions, limits and a reading of numbers of its own, and so has the model: `TotalFloat`, `Below`,
`AtMost`, `Above`, `Weighable`, `Lengthy`, `ReviewWeights`, `Adjustability` and `AdvisedOf` share
nothing with the screening but the tables. `float()` reads `nan` and `inf` from a cell; the
screening takes them for 0, the advisor keeps them, where `nan` compares with no limit. Grades
round to one decimal as the code does. `AdvisedOf` says nothing where `AdvisorFails`, and the
properties ask that first. `ScheduleDesk` lets a file of any kind be written in any order and states
properties of every file on the way: that compares one operator with another over
thousands of files, where a test has a few.

### PlanningPackage and PlanningReadiness

`PlanningPackage` is `reconcile_planning_package`: matching, timeline, capacity, work-front and
staff-phase rules of the reconciliation, as operators of tables and plan rows; their keys are
what a refresh detects. Coverage is compared as rounded (`CoveredBelow`), and a rate with nothing
before "per" passes the check of units, as in the code. `PlanningReadiness` has the requests, one at a time:
`IngestPlan`, `ChangeDemand` (a requirement opens or closes), `RefreshFindings`,
`ReviewFinding`; `Grade` is the readiness with its blockers and warnings, which asks the
schedule, the package and the findings of whatever refresh came last. Requests that
overlap on findings are in `PlanningFindings`.

### DepartmentWorkflow

`work` holds a row of any of the seven registers as the queue sees it, `today` the date.
`Queued`, `Completed`, `OpenRequirements` and `CandidateGaps` repeat the closing rules where
the code repeats them. `WriteRow` stands for the requests of the registers; `AssignPerson` and
`AutoAssign` are the routes; `NextDay` is the clock.

## Runs

Every run finishes within the five minutes it is given on two workers.

| Run | Instance | Shows |
|---|---|---|
| `submission_gate` | 2 artifacts, 2 threads, 1 packer, a finding per table | every interleaving: `PackageIsVetted`, `PackageAnswersFormats`, `NoStandingBlocker`, and of the artifacts `ReleasedIsComplete`, `RowHasFile`, `ApprovalsAreAudited`, `UniqueVersions`, and that the workflow implements `ApprovedVersion` |
| `artifacts_approved` | 2 versions of one template, 2 threads | **violated**: `AtMostOneApproved` |
| `registers` | seven registers, 2 threads, the least rows at which each can go wrong | risks: `RaisedOnce`, `LibraryIsReviewed`; drawings: `ComparedOnce`, `DifferencesAreSeen`; learning: `CountedAsReviewed`, `ReviewIsVetted`; requirements: `ExtractedOnce`, `VerdictsAreAttributed`, `OwnerIsKept`; findings: `VerdictIsWhole`, `LatestAnalysisDecides`, `RefreshKeepsClosed`; queries: `ApprovedByWorkflow`, `ApprovedTextIsVetted`, `StatusIsBacked`; documents: `ContentStoredOnce`, `DuplicateContentIsHeld` |
| `queries_export` | 1 query, 1 thread, every PATCH body | **violated**: `DraftsExcluded` |
| `documents_duplicate` | 3 rows, 1 content | **violated**: `LinkedToOriginal` |
| `documents_manual` | 1 row, 2 threads | **violated**: `ManualIsKept` |
| `scope` | 2 items of one name, 2 threads, 2 project types | `LastSyncIsListed`, `LostCoverIsUnexplained`, `ReviewsStand` |
| `scope_explained` | 1 item, 1 thread | **violated**: `MissingIsExplained` |
| `planning` | one desk of three: files of 2 activities; 6 schedules with 2 plans and 4 demands; 2 work rows and 6 days | `UnavailableScoresNoLower`, `IssuesAreAdvised`; `ReadyIsSupported`; `ViewsAgree`, `DeadlinesEscalate`, `OverdueIsSeen` |
| `schedule_available` | files of 2 activities, 1 link | **violated**: `OnlyAvailableParameters` |
| `schedule_milestones` | files of 2 activities, 1 link | **violated**: `CriticalityIsNotInferred` |
| `planning_shared` | 6 schedules, 2 plan entries | **violated**: `ConcurrencyIsReviewed` |

Each passing run also checks the type invariant of its modules.

### Why the bounds are enough

The races of this code are between two requests on one row, or on two rows of one template
or group: a handler has at most three steps. Two threads give every pair of handlers every
order; a third adds orders of pairs. Two versions are the least for which supersession
occurs, and two threads the least for rivals; that templates are not confused, and that a version
is superseded twice, is left to the theorems, which bound neither.

In `registers`, two findings, three drawing rows, one factor and two requirements are the least
for a duplicate beside an original, a factor beside its actuals, a row beside the
candidate it repeats. Lines are one of each length, dispositions one of each kind (the code
treats those of a kind alike), bills one that agrees and one that differs. A PATCH outside
`Overlapping` comes alone: `RacingPayloads` has the bodies around an approval, `AllPayloads`
every status with one of a sensitive field, a response or nulled dates. For the proved
properties (see below) these bounds are beside the point.

Two quantities, one of which the column cuts, and one reworded text are the least for the named
exceptions; an edit of a requirement or an input starts alone (`EditedBeside` is empty), while
extractions and assignments start beside it.

Three documents are the least for a chain of duplicates; one request at a time runs beside
the uploads (`MaxBeside`), two in `documents_manual`. In `scope` requests overlap only on
the first item (`Racing`), while the second lets groups form; two synchronisations that insert
an item each for one requirement are in the model but not in the run, which is out of TLC's
reach.

`planning` has a row of each kind the rules tell apart (`Representatives`: no float, negative,
near-critical, not finite, long, constrained, done, a milestone, ...) for two activities and an
activity that is linked but never listed. Its plans are chosen so that each check of the
reconciliation both passes and fails, and `Bounded` keeps one requirement open and three findings,
at most two open, two closed and one cleared, enough for Ready to be reached and lost again. Work
rows are two, one of which may refer to the other; the latest date is 4 and the days end at 5, so
every date passes. The bounds `MaxItem`,
`Racing`, `MaxLinks`, `MaxEntries`, `MaxDay`, `MaxFindings`, `MaxDrawingRows`,
`MaxRequirementRows`, `EditedBeside`, `MaxBeside` and `TermChoices` are guards of the actions.

In `registers`, `artifacts_approved` and `documents_*` identifiers are used up, a schedule is written
once and the days end: these configurations switch the deadlock check off.

### What the violated runs show

1. `queries_export`. A query that was approved, submitted and then set back to Draft keeps
   `approved_at`, because only a PATCH that finds the status Approved clears it; the export
   selects by `approved_at`, and the Draft is in a document that ends in "Draft and
   withdrawn items excluded".
2. `documents_duplicate`. The duplicate check selects any row with the checksum that is not
   archived. A third upload may be linked to the second, itself a duplicate without content
   (and always is once the first is archived), although duplicates are to be "linked to the
   original".
3. `documents_manual`. The automatic classification tests `manually_classified` on the row it
   loaded, then reads and classifies the file, then commits: a manual classification in
   between is overwritten without `force`.
4. `scope_explained`. A reviewer confirms a possible match of a mandatory activity; a revised
   schedule has no match at all. The evaluation resets dispositions only of items that were
   `Covered`, so the confirmation stays, the group does not block, and scope is ready,
   although "Missing or ambiguous coverage must be explained".
5. `schedule_available`. The advisor compares `total_float` with the near-critical hours for
   an active activity with resources without asking whether the source has float
   (`services/p6_schedule_optimizer.py:218`): a file without the column raises, although "Rules
   only use parameters actually available from the uploaded schedule".
6. `planning_shared`. Two plan entries matched to two dated activities make the reconciliation
   call `_norm`, which the file does not define (`services/planning_package_reconciliation.py:299`):
   the intelligence and the refresh fail, and the concurrency they announce is never reviewed.
7. `artifacts_approved`. Two approvals of versions of one template both select the approved
   versions before either commits, and both versions end Approved, although "Only the latest
   approved version of a template remains current; older approved versions are superseded
   automatically" (`../frontend/app/bids/[id]/review-approval/page.tsx:115`).
8. `schedule_milestones`. A milestone of a source without floats reads as float 0 and is reported
   Critical and at risk, although "Total float is not available from this source, so criticality is
   not inferred" (`services/p6_xer.py:237`).

### What the qualified properties leave out

`UniqueVersions` excepts templates of which two creations were in flight at once, the refinement of
`ApprovedVersion` those of which two reviews were; `OnlyRivalsApproveTwice` proves that these are the
only ones that ever have two approved versions. Some exceptions need no overlap, because the code
needs none: `RaisedOnce` excepts lines longer than the excerpt, `ComparedOnce` quantities longer than
the column, `ExtractedOnce` texts a user edited, `IssuesAreAdvised` findings about a float that is
`nan`, or `inf` at a milestone, and `UnavailableScoresNoLower` does not speak of milestones at risk,
which are the violated `CriticalityIsNotInferred`. Both of the last two say nothing where the
advisor fails, which is the violated `OnlyAvailableParameters`.

Properties stated outside `raced` (`RaisedOnce`, `ComparedOnce`, `DifferencesAreSeen`,
`CountedAsReviewed`, `ExtractedOnce`, `VerdictsAreAttributed`, `VerdictIsWhole`,
`LatestAnalysisDecides`, `RefreshKeepsClosed`, `ApprovedTextIsVetted`, `StatusIsBacked`,
`LostCoverIsUnexplained`, `LastSyncIsListed`, `ReviewsStand`) fail for a row that changed under a
request; `LibraryIsReviewed`, `ReviewIsVetted` and `OwnerIsKept` except a request whose own rows
are stale. TLC shows each at once when the qualification is removed. The qualifications are small
and named, so that it is plain what a lock or a version column would buy; they also mean that the
lost updates themselves, listed as hazards, are shown by the exceptions and not ruled out. The
properties of the package have no qualification: with two versions approved by a race, a package
still takes one of them, vetted.

A group of scope items is decided by its first row and by any cover in it, so a mandatory item
marked To Be Added may be let through by another item of its group. The note that calls To Be Added
a blocker (`services/schedule_scope_coverage.py:806`) does not say of which row of a group, and no
property takes a side.

### Fairness

The only fairness is `WF(NextDay)` in `DepartmentWorkflow`: days pass by themselves, and the queue
asks the clock on every read. `OverdueIsSeen` rests on it: a queued row with a date becomes red
unless somebody deals with it or moves the date. No request is fair: requests are started by
users and may never come, and nothing else in the service happens on its own.

## Proofs

Every invariant and every action property that a passing run checks is also a theorem, and so
is the refinement `ApprovedVersionSpec`: TLC shows it on a small instance, the theorem for
every value of the constants that meets the named assumptions, with any number of threads,
rows and requests. Only the liveness property `OverdueIsSeen` is left to TLC.

| Module | Theorem | States |
|---|---|---|
| `PreparedArtifactsProofs` | `ArtifactsTypeOK` | `Spec => []TypeOK` |
| | `ReleaseNeedsReview` | `Spec => []ReleasedIsComplete` |
| | `FileBeforeRow` | `Spec => []RowHasFile` |
| | `AuditExplainsApprovals` | `Spec => []ApprovalsAreAudited` |
| | `OnlyRivalsShareNumbers` | `Spec => []UniqueVersions` |
| | `OnlyRivalsApproveTwice` | `Spec => []OneUnlessRivals`: two approved versions of a template only where two reviews were in flight at once |
| | `ArtifactsImplementRegister` | `Spec => ApprovedVersionSpec` |
| `SubmissionGateProofs` | `GateTypes` | `GateSpec => []GateTypeOK` |
| | `VettedPackage` | `GateSpec => []PackageIsVetted` |
| | `OneAnswerPerFormat` | `GateSpec => []PackageAnswersFormats` |
| | `StandingBlockerStops` | `GateSpec => []NoStandingBlocker` |
| | `GateKeepsArtifacts` | `GateSpec => Spec` |
| | `ReleasesHoldAtGate` | `GateSpec => [](ReleasedIsComplete /\ RowHasFile /\ ApprovalsAreAudited)` |
| `FoundRegistersProofs` | `RaisedOnceOnly`, `RisksAreWellFormed` | `RisksSpec => []RaisedOnce`, `[]RisksTypeOK` |
| | `LibraryStaysReviewed` | `RisksSpec => LibraryIsReviewed` |
| | `ComparedOnceOnly`, `NoDifferencePassesUnseen` | `DrawingsSpec => []ComparedOnce`, `[]DifferencesAreSeen` |
| | `ExtractedOnceOnly`, `VerdictsNameTheReviewer` | `RequirementsSpec => []ExtractedOnce`, `[]VerdictsAreAttributed` |
| | `OwnersAreKept` | `RequirementsSpec => OwnerIsKept` |
| `ReviewedRegistersProofs` | `CountedIsReviewed` | `LearningSpec => []CountedAsReviewed` |
| | `ReviewsAreVetted` | `LearningSpec => ReviewIsVetted` |
| | `VerdictsAreWhole`, `LatestDecides` | `FindingsSpec => []VerdictIsWhole`, `[]LatestAnalysisDecides` |
| | `ClosedIsKept` | `FindingsSpec => RefreshKeepsClosed` |
| | `ApprovalNeedsWorkflow`, `ApprovedTextIsRead`, `StatusNeedsColumns` | `QueriesSpec => []ApprovedByWorkflow`, `[]ApprovedTextIsVetted`, `[]StatusIsBacked` |
| `RegistersProofs` | `RegistersImplement` | of each register, `RegistersSpec /\ register = "risks" => RisksSpec` and so on |
| | `RegistersAreWellFormed` | `RegistersSpec => []RegistersTypeOK` |
| | `FoundRowsAreSound`, `VerdictsAreSound` | `RegistersSpec =>` the eleven invariants above |
| | `DocumentsAreSound` | `RegistersSpec => [](ContentStoredOnce /\ DuplicateContentIsHeld)` |
| | `StepsAreSound` | `RegistersSpec =>` the four action properties above |
| `DocumentsProofs` | `DocumentsTypes` | `DocumentsSpec => []DocumentsTypeOK` |
| | `StoredOnce` | `DocumentsSpec => []ContentStoredOnce` |
| | `DuplicatesAreHeld` | `DocumentsSpec => []DuplicateContentIsHeld` |
| `ScheduleScopeProofs` | `ScopeIsWellFormed` | `Spec => []ScopeTypeOK` |
| | `LostCoverIsNotExplainedAway` | `Spec => []LostCoverIsUnexplained` |
| | `SyncIsListed` | `Spec => []LastSyncIsListed` |
| | `ReviewsAreKept` | `Spec => ReviewsStand` |
| `PlanningProofs` | `WhatIsFoundIsAdvised` | `ScheduleSpec => []IssuesAreAdvised` |
| | `UnavailableCostsNothing` | `ScheduleSpec => []UnavailableScoresNoLower` |
| | `ReadyRests` | `PlanningSpec => []ReadyIsSupported` |
| | `OpenWorkIsSeen` | `WorkSpec => []ViewsAgree` |
| | `DeadlinesOnlyEscalate` | `WorkSpec => DeadlinesEscalate` |

### Assumptions

They are the `ASSUME`s the modules name, and TLC evaluates each of them on a run.

- NULL is no user, row, template or disposition, and no word of the analysis; an empty cell, `nan`
  and the infinities differ and are no numbers (`CellsDiffer`); kinds of dispositions are disjoint. In the code these are columns of different types, or literals.
- Inputs are of their schema: a PATCH body is one the schema admits (`QueryAssumption`), a work
  row one its register can hold (`RowsAssumption`), what a planner writes in a file or a plan a
  row of a file or a plan (`SourceAssumption`, `PlanningAssumption`).
- What one request reads is finite: the lines of a document, the candidates of an extraction,
  the requirements and names of a bid, the rows of a schedule. A request builds lists of them.
- The bounds that end a run are naturals. They are arbitrary, so they limit no theorem.

### The argument

None of the properties is inductive alone. What each invariant adds is what a request in
flight knows of the tables, and why nothing committed meanwhile makes it false:

- `PreparedArtifacts`. `IInv`: the artifact of a creation has no row yet and belongs to no other
  request, its file is there after `SaveFile`; a request that loaded an artifact has a row, and
  what it tested of the columns no other request changes still holds. `DInv` adds
  that until two requests of a kind have met on a template (`RivalsRecorded`), what each read is
  still so (`AllReadsCurrent`): the set an approval selected is the set of approved versions, and
  the number a creation computed is above those taken. The refinement maps the start of a second
  review to `Contest`, the commit of an approval to `Promote` or, on a contested template,
  `PromoteOver`, the commit of a review on a contested template to `TakeBack`, and
  every other step to a stutter.
- `SubmissionGate`. `GInv` puts beside `IInv` what a package request knows after each of its
  reads. The step that matters is `StepKeepsRows`: whatever an artifact request does, a row
  keeps its template, stays complete, and keeps naming somebody in `readyBy` and `approvedBy`.
  That is why a version superseded between the two selects of a package is still vetted.
  `GateKeepsArtifacts` is the composition: what the gate adds leaves the artifacts alone, so
  what holds of `PreparedArtifacts` holds beside it.
- `ClauseRisks`. `RInv`: a scan has written the standard patterns before it inserts a row, so a
  promotion, which needs a row, never takes a standard code, and no later scan writes over a
  precedent; copy numbers of a signature are those from 1 on; what a scan will insert is not
  there, or is stale for it. The library argument is about an order of events nobody wrote
  down: without it, `CommitEnsure` would replace promoted patterns. `RiskTypeInv` has the types
  of what requests carry, which the merges of a commit need.
- `DrawingFindings`, `Requirements`. `DrawInv`, `ReqInv`: a verification or an extraction in flight
  inserts what is not in the table, or what is stale for it; a request on one row carries
  changes to the row as it is, unless stale. The copies of a signature are those from 1 on, so
  that the next copy number names no row (`CopiesCounted`), and a missing input refers to a
  requirement that exists. Of two observations that read the same the later one was compared with
  what the earlier reads back, which is the earlier one itself only if the column keeps it whole.
- `ExecutionLearning`, `PreBidQueries`, `PlanningFindings`. `LInv`, `QInv`, `FInv`: as long as its
  row is not stale, a request in flight holds the row of the table, so the merge at its commit is
  the row its handler made; once stale, the row is in `raced` after the commit and only the
  unqualified properties speak of it. `ApprovedByWorkflow` needs the other half, that the columns
  a stale request will write name an approver only where an approval event is in the same commit.
- `Registers`. `RisksAlone` and its siblings show that a behaviour that works on a register is one
  of that register's module; `RisksUntouched` and its siblings that it leaves the tables of the
  other registers as they began, where their properties hold trivially. The two cases together
  carry each theorem of a register over to the composition.
- `Documents`. `DInv`: what the duplicate check of an upload saw holds until its insert, because
  the requests beside it change neither contents nor originals and a row once archived stays in
  `archivedDocs`; two rows that were never archived do not hold one content.
- `ScheduleScope`. `SInv` is about the table, `TableInv`, and the requests, `Pending`. In the table
  only what users enter hangs below other items, and below older ones; in a request, what it
  deletes is a suggestion of the library, a line of the BOQ writes only on lines of the BOQ, an
  evaluation that is not stale will write what it would write now, and a synchronisation will
  list every requirement it read (`WillList`). A cascade of deletions goes down the tree and
  is a recursive function of the ids; that the function exists, and that it reaches what hangs
  below a deleted item and nothing else, is `CascadeUnfolds`. No requirement item is below a
  deleted one, so a cascade never takes a listed requirement.
- `ScheduleDesk`. `FileInv`: the file is finite and its rows are rows. The rest is about the
  operators: the conditions that raise an issue each meet one of the
  advisor's own, which gives the activity a weight (`WeightsOf`); the two readings of a float agree
  where it is missing or a number (`ReadingsOfFloat`), and an infinite one makes what is no
  milestone adjustable (`InfinityIsAdjustable`). Taking data away enlarges none of the sets the score
  subtracts for (`PoorerSets`), each up to its cap (`PoorerScores`), and no weight of the advisor
  (`PoorerWeighs`, `PoorerAdvised`).
- `PlanningReadiness`. `DeskInv`: as long as nothing changed since a refresh (`current`), each
  issue it detected has a finding of the severity it was detected with. `ClearOfHigh` and
  `ClearOfMedium` show which issues of the reconciliation the blockers and the warnings of the
  grade repeat from the schedule itself; what remains is `LeftToFindings`.
- `DepartmentWorkflow`. `WorkInv`: every row is one its register can hold. The rest is case
  analysis over seven kinds of rows and their statuses, which is where the three copies of
  the rules could differ.

### What stays with TLC

- `OverdueIsSeen`: liveness under fairness, which needs `ENABLED`.
- The eight runs that find a violation: they are counterexamples.
- What the operators of `ScheduleAnalysis` and `PlanningPackage` compute beyond what the theorems
  say of them; TLC evaluates them over the files and plans of `planning`.

The induction theorems of the library take an operator as a parameter and cannot be cited.
Where an argument runs over the naturals, as that about the cascade, it goes by the
least element of a set of naturals (`LeastNatural`), which can. In two places the model is
written so that the provers can follow it: sets are filtered by disjunctions in place of
`CASE`, and a drawing is recorded in batches that are said to be finite.

## Not modelled

- Text processing: parsers (P6, BOQ, drawings, templates), extraction and retrieval scoring.
  They are functions of their input; where the workflow depends on the result, the models
  choose it or take it as a constant.
- Of schedules: two rows of one activity, contents of calendars, comparison of revisions, the
  skeleton, the priorities the advisor sorts by, the score of data completeness: they are
  reports no other part reads.
- Of planning: the monthly profile, productivity benchmarks, suggestions beside a shortfall, the
  reading of cells, ingestion of one document by two requests at once.
- Of the estimate: rounding and the weighted score, and the cut of the action plan after its
  twelfth row. No other part reads them.
- Document revisions: families form a graph over all rows of a bid, and the repository states
  nothing of them beyond one latest row.
- Numbers of queries, which are free text, and decisions on suggested queries, which are
  written once and read by nothing modelled.
- Bid outcomes and analytics, an upsert in one request and statistics over it; the tender
  index, which replaces the chunks of a document in one transaction; workbook templates.
- Memberships that change during a request, timestamps (an event's time is only whether it is
  set), labels, layout, pagination, the frontend and the identity provider.

## Plan

Done: artifacts and the submission gate; the seven registers, documents among them, and their
composition; schedule scope; the analysis of schedules; planning package and readiness; the department
workflow; and proofs of every invariant and action property of theirs. What is left, by what
a wrong step costs the bid:

1. `ScheduleScope`: sub-activities of requirements, BOQ lines and library entries.
2. Lemmas on what a lock or a version column would buy: with requests that do not overlap on a
   row, `raced` stays empty and the qualified properties hold of every row.
3. Document revisions and memberships that change during a request.
4. Bid outcomes: the delete and insert of price ranks by two requests.
