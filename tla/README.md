# Formal models of urafiki-school-core

TLA+ specifications of the school management server in this repository, the
TLC runs that check them on small instances, and theorems about them that the
TLAPS proof system checks for every size.

The server is a Flask application over PostgreSQL. Each HTTP request runs in a
worker process with its own database session (READ COMMITTED isolation);
nothing runs in the background. What is hard about it is therefore what
overlapping requests do to the same rows, what a crash between two commits
leaves behind, and what the browser concludes from an answer it may not get.

## Inventory

| Component | State it keeps | Operations | Hard behaviour | What makes it correct |
|---|---|---|---|---|
| Grade entry: `portal/routes.py` `sync`, `audit_service.py`, `models/grading.py` | `grades`, `grade_audit_logs`, row locks | post a batch of 1 to 30 changes | two authors of a cell, partly applied batches, crash between commits, lock waits | no lost update, truthful answers, unbroken audit, no deadlock |
| Period workflow: `transition`, `apply_transition`, `models/deliberation_workflow.py` | `period_publications`, `deliberation_audit_logs` | submit, consolidate, validate, publish | unlocked read-decide-write, two first transitions | steps in order, one submission, version counts publications |
| Manual decisions: `override_decision`, `apply_override` | `deliberation_overrides`, `deliberation_audit_logs` | record or replace a decision | overlapping replacements, overlap with publication | none after publication, every value in the log |
| Permissions and titulariat: `authorization_service.py`, the assignments page | `titulaire_historiques`, `titulaire_id`, `delegations_titulariat`, `teacher_assignments` | who may read, write, submit; nominate a titulaire; attribute a line | overlapping nominations, two inserts of one attribution | no instant without titulaire, history in step with `titulaire_id`, attributions that are there when answered |
| Browser grade grid: `grade-grid.js` | drafts in `localStorage`, batch in flight | type, flush, answer, retry, discard | lost answers, times offline, edits during a request, two tabs | no draft lost or deleted before it is saved, none left waiting |
| Calculation engine: `grade_calculation_engine.py` | none | totals, subtotals, ranks, promotion | missing grades, rounding, ties | percentages in 0..100, competition ranking |
| Consolidation and results: `compute_class_consolidation`, `result_context` | none | payload of a class | two code paths for one figure | both pages order a class alike, decisions and ranks consistent, blocking items exact |
| Course grids: `grille_service.py`, `models/school.py` | `grilles_cours`, their lines and maxima | resolve a grid, its lines and maxima; duplicate it to another year | overlapping duplications, a key reserved before the commit | copies are complete |
| Migration to shared grids: `14efd3eb110e` | `courses`, then grids; attributions, grades, audit rows | upgrade, downgrade | course rows in any order, siblings merged, work between the two directions | no row changes its subject, every class can still be graded, the way back |
| Tenant isolation: `security/tenant.py`, `tenant_scope.py`, `9d31d5bff2f2` | session, `g.current_ecole_id`, a variable of each pooled connection | resolve a host, filter queries, set the policy variable, reject a session | threads that share a pool, several commits and rollbacks in a request | nobody sees, writes or acts in another school, and nobody loses his session to what a connection kept |
| Provisioning: `tenant_provisioning.py`, `cli.py` | `institutions` and first rows | create, export a school | overlapping commands, crash | all or nothing, one school per domain and code |
| Audit page: `query_audit_log` | none; reads the two audit tables | merge, filter, page | entries committed out of order while pages are read | nothing is skipped, a quiet log is shown exactly |
| Reports, pages, theming, platform console, other migrations, scripts | none | formatting, schema | none | not modelled: no state of their own |

Components meet in the database only: the sync route reads the publication
status (period lock), a submission reads the grades (blocking items), a manual
decision reads the publication status, the rights of a teacher are read from the
rows Direction writes, the audit page reads what all of them append, and every
query of a request passes the isolation of the schools. `open` in `GradeSync`,
and the status `DRAFT` in `PeriodWorkflow` are the same column, seen by two
components.

## Modules

| Module | What it is |
|---|---|
| `Grades` | vocabulary of grade entry: cells, contents, changes, results |
| `GradeLedger` | abstract: one indivisible compare-and-set per change |
| `GradeSync` | the sync route with its transactions; `GradeLedger` is its refinement target |
| `MCGradeSync` | small instances of `GradeSync` |
| `GradeSync_proofs` | theorems about `GradeSync` |
| `GradeGrid` | the browser's grade grid: drafts, batches, failures, reloads |
| `MCGradeGrid` | small instances of `GradeGrid` |
| `GradeGrid_proofs` | theorems about `GradeGrid` |
| `GradeEngine` | the calculation engine as operators over exact fractions |
| `Consolidation` | the two pages computed from one class's grades |
| `MCConsolidation` | a small class for `Consolidation` |
| `Bulletin_proofs` | theorems about the lines of a bulletin (grids, migration, duplication) and its figures (totals, ranks, decisions) |
| `PublicationCycle` | abstract: no step of the workflow is skipped, however often one is repeated |
| `PeriodWorkflow` | transitions and manual decisions, overlapping and unlocked |
| `MCPeriodWorkflow` | small instances of `PeriodWorkflow` |
| `PeriodWorkflow_proofs` | theorems about `PeriodWorkflow` |
| `ClassPeriod` | `GradeSync` and `PeriodWorkflow` composed over one database |
| `MCClassPeriod` | a small class for `ClassPeriod` |
| `ClassPeriod_proofs` | theorems about the composition |
| `Titulariat` | nominations and attributions of a class |
| `MCTitulariat` | a small instance of `Titulariat` |
| `Titulariat_proofs` | theorems about `Titulariat` |
| `CourseGrids` | the grids of a school and their duplication |
| `GridMigration` | the migration to shared grids and back, over `CourseGrids` |
| `MCGridMigration` | small schools for `GridMigration` |
| `Provisioning` | the registry of schools and the command that creates one |
| `Tenancy` | requests, sessions and connections, over `Provisioning` |
| `MCTenancy` | a small instance of `Tenancy` |
| `Tenancy_proofs` | theorems about `Tenancy` |
| `AuditPage` | the audit page, read forward while entries appear |
| `MCAuditPage` | a small log for `AuditPage` |
| `AuditPage_proofs` | theorems about `AuditPage` |

Definitions whose comment begins with "Slip" are not part of a specification:
each is a definition as a plausible mistake would have written it, kept to
show that a property fails without the detail it removes.

### GradeSync

A request moves through `pc`: it is received (permissions and grid read once,
the whole batch validated), then handles its changes one by one. For each: the
value is checked, a savepoint is opened, the row is selected `FOR UPDATE`, the
base sent by the browser is compared with it, and the change is refused,
answered without a write, updated, or inserted; one `COMMIT` per change makes
the score and its audit row visible together. A step of the model is a piece
of that work with at most one access to shared rows.

* `stored`, `locked`, `audit` are the committed tables. `stored[c]` is a score,
  `Statut` (a row that explains why there is no score) or `Absent`. The route
  compares texts; each content stands for its own text.
* `holder[c]` is what other sessions feel of an open transaction: a row lock,
  or the unique-index entry of an inserted, uncommitted row. A `SELECT` of a
  missing row does not wait (`SelectMissing`), its `INSERT` does
  (`FlushInsert`), and finds a committed row as an `IntegrityError`
  (`InsertCollision`).
* `open` is the period lock. It is read in `Receive` only, like in the code.
* `Crash` rolls the session back and loses the answer, not earlier commits.
* `ClosePeriod` (the class submits) and `LockRow` (a grade is validated or
  archived, which the route guards against though no route does it) are the
  environment.
* `MaxBatch` is 30 in the code and 2 in the runs: what matters is that a batch
  has a change before and a change after the one in hand.

### GradeGrid

The page is `closed`, `editable`, or `readonly` (loaded after the submission,
when every input is locked). `pending` and `store` are the drafts in memory and
in `localStorage`; `base[c]` is the `data-base` of an input; `awaited` is the
batch in flight and `due` the timer. Each event handler is one action, because
a browser runs one at a time. `Acknowledge`, `Lose`, `NotFound` and `Refuse`
are the four ways through `afterRequest`. `online` is `navigator.onLine`: a
timer that fires offline is spent (`FlushNothing`), and only the `online` event
sets a new one (`GoOnline`). Where htmx did not load, the page starts paused
(`Load`). Of the tabs with the same grid only
the holder of the Web Lock runs `start()`, so one page is modelled; closing it
and loading it again is also what happens when another tab takes over.

The server side is the compare-and-set that `GradeSync` is proved to implement.
A request whose page gave up (`Abandon`) is lost or goes on as an orphan. What
was typed, acknowledged, written and told is recorded in history variables.
The code takes the first 30 drafts in the order of the `Map`; the model takes
any `BatchSize` of them and lets the server handle them in any order, which
covers that order.

### GradeEngine and Consolidation

`GradeEngine` follows `grade_calculation_engine.py`. Scores, maxima and
thresholds are in hundredths, the precision of their columns, and weights are
natural numbers (thousandths in their column; the unit cancels in a percentage).
A percentage is the fraction points / possible and percentages are compared by
cross multiplication; `Quantize` is the rounding of half up to a hundredth. The
loops of the engine are recursive functions (`SumOf`, `GroupOrder`, `Ranked`), so
that the module can be proved about. `Sorted` is the stable descending sort of
`rank_students`: an entry stands at the place that the number of entries before
it gives it. `GroupSubtotals` is `compute_group_subtotals`, which so far only the
tests call (`GRILLE_COURS.md:99` announces it): `SubtotalsAddUp` compares it with
the total of the results page.

`Consolidation` has one source of change, `Enter`: a commit of the sync route,
with the maximum that route enforces. `consolidation` and `results` are the
pages as a load would show them at that moment; neither is stored by the code.
The two pages build their inputs separately (`ConsolidationInputs`,
`ResultInputs`) because the code does, and that is where they differ. Class
average, encoding rates, manual decisions and all texts are left out.

### PeriodWorkflow

A call moves through `at`: a transition is authorised, a submission checks
that every grade is encoded, the publication row is read (`ReadStatus`),
created and flushed when it is missing (`CreateRow`, which waits for an
uncommitted row with the same key), and written at the commit
(`CommitTransition`). A manual decision tests the publication status
(`CheckUnpublished`), reads the existing decision (`ReadDecision`) and writes
it (`StoreDecision`). The ORM sends an `UPDATE` of the columns that differ from
what it had read: `Written`.

Status `DRAFT` also stands for "no row", because the row is created by the
transaction that leaves `DRAFT`. The model may start anywhere in the cycle,
with the log a serial history left. Seen from `PublicationCycle`, the calls make a
set of reached states grow, one state of the path after the other: a commit leaves
a state the log has reached, which may not be the one the row holds by then.

### ClassPeriod

The two routes over the tables they share. What is a variable of its own in each
component, changed by its environment, is here what the code computes from the
other's tables: `open` of `GradeSync` is `Writable` (the status is `DRAFT`),
`complete` of `PeriodWorkflow` is `Encoded` (no cell without a grade). A step of
one route leaves the tables of the other alone. `RoutesAsAssumed` (that is
`GradingAsAssumed` and `WorkflowAsAssumed`) says that the composition is, seen from each side, a behaviour
of that side's module, so that the environment actions there (`ClosePeriod`,
`LockRow`, `LastGradeEncoded`) allow everything the other route does, and
what is shown of each module alone holds of both together. Manual decisions touch
neither grades nor status and stay in `PeriodWorkflow`; no code validates or
archives a grade, so `locked` does not change.

### Titulariat

A request of Direction moves through `at`. A nomination keeps the `titulaire_id`
of the moment it loaded the class (`AskTitulaire`), takes the time (`Stamp`),
picks an open row of the history (`FindOpen`) and writes everything in the flush
of its commit (`StoreTitulaire`): the row it had read is closed, whatever has
become of it, a new one is opened, and the ORM updates `titulaire_id` only when
it differs from what was loaded. An attribution looks for a row (`Search`) and
restores or inserts it (`Attribute`, `AttributeCollision`). The history may be empty although
there is a titulaire, as the migration left it. The rights of
`authorization_service.py` and the delegations are not modelled: they are queries
that change nothing, no route creates a delegation, and what a teacher may do
follows from the rows this module is about by the text of those functions.

### CourseGrids and GridMigration

Grids, lines and maxima are rows named by their index. A duplication finds no
live grid of the key, flushes the new grid, which reserves the key until the
commit (`Reserve`, `ReserveCollision`), and commits grid and lines together.
`MaximumPour` is what the encoding page and the engine ask of a line. No route edits a grid, so `ArchiveGrid`, `ArchiveLine` and `SetMaximum`
are changes by hand.

`GridMigration` starts in the schema before `14efd3eb110e`, with one of the
contents in `Legacies`. `Backfill` is one turn of the loop over the course rows,
taken in any order because the query has none; `FinishUpgrade` remaps what
refers to a course. `RollBackUpgrade` undoes an upgrade that fails. The school
then works with its grids until a `Downgrade`, which fails (`stuck`) when the old
unique key cannot be created again.

### Provisioning and Tenancy

A command checks domain and code, flushes the school, which makes it hold the
unique keys (`held`), flushes the strategy when it is missing, and commits
everything at once. Any two commands overlap, wait for and collide with each
other, and die.

A request is resolved to a school, its session's account is loaded and compared
with it, and a handler runs, perhaps with several transactions (`handle`, then
`again` and `later`, as the sync route does after each change). A transaction
ends in a commit or, when a row exists already, in a rollback (`RollBack`) that
undoes `set_config`, after which the sync route and the assignments page go on.
`setting[c]` is the policy variable a pooled connection keeps from its last
commit. `cookie[r]` is the account the session names, which `Login` changes. Every query
passes `Criterion`, which the ORM adds, and `Policy`, which PostgreSQL applies if
`enforced` (when the web process's role does not own the tables): both
deployments are initial states. `Visible` is what a query returns, for accounts,
which stand for any table with an `ecole_id`.

### AuditPage

The reader asks for the first page, and for the next one as long as there is one.
Each page runs two statements (`ReadGrades`, then `Show`), merges and sorts them
and cuts a slice. `created` is the time of a flush and an entry can be seen only
after its commit, so entries appear out of order; the sort says nothing of
entries of one time. `present` records what could be seen when the reading began.

## Runs

| Run | Instance | Shows |
|---|---|---|
| `sync_two` | 2 requests, 2 cells, 2 scores, 7 batches | `NoLostUpdate`, `AuditChain`, `AnswersMatchAudit`, `NoHoldAndWait`, refinement of `GradeLedger`, `EveryBatchEnds` under fair workers, no deadlock |
| `grid_page` | 2 cells in one batch, 2 edits, a failure, an orphan, 2 loads, a time offline, a full `localStorage`, a submission | `NothingTypedIsLost`, `DiskAgrees` |
| `grid_live` | 2 cells, batches of 1, another author, a time offline, fair page and server | `EveryDraftSettles`, `ConflictsAreReal` |
| `workflow_overlap` | overlapping calls of 3 directors and the titulaire | `StepsInOrder`, `OneSubmission`, `VersionMarksPublication`, `ColumnsLogged`, refinement of `PublicationCycle` |
| `late_decision` | 2 overlapping calls | finding: a decision stored after the publication |
| `consolidation_class` | 3 pupils, 4 lines, every way to fill the grid | `PagesTyped` (the engine accepts every stored grade), `CompetitionRanks`, `SubtotalsAddUp`, `RankFollowsDecision`, `PagesOrderAlike`, `HigherScoreNeverHurts` |
| `titulariat` | 3 overlapping requests, 2 teachers, 1 line | `NoGap`, `InSyncUnlessOverlapped`, `AttributionsAnswered` |
| `course_grids` | every school of 2 or 3 courses in 2 classes, 2 duplications, an edit | `RowsKeepSubject`, `CoursesStayGradable`, `ScoresStayValid`, `RoundTrip`, `CopiesComplete`, types |
| `tenancy` | 2 requests, 2 connections, 2 commands, 2 domains | `SchoolsWhole`, `OwnRowsOnly`, `SessionsHonoured`, `SessionsStayHome` |
| `audit_page` | 3 entries of two tables, pages of 1, 4 filters | `ForwardNeverSkips`, `QuietReadingExact` |
| `audit_submit` | as `audit_page` | finding: the page fails after a submission |
| `class_period` | 2 batches over 2 cells, 2 transitions by Direction | `SubmittedComplete`, `LateRequestsRefused`, `RoutesAsAssumed`, no deadlock |

Bounds. In `GradeGrid` the `Max` constants bound what the environment does
(edits, failures, other authors, loads, disk failures, times offline, orphans), never what the
page or the server does in answer; two edits and one failure are the smallest
numbers with an edit after a lost answer. Two requests with two-change batches in opposite orders are the
smallest instance with a possible circular wait; the initial contents cover
score, statut, missing and locked rows. Three calls are the smallest instance in which a decision is
replaced twice at once. Nothing is counted without limit: each request and
each call is handled once. `GradeSync` and `PeriodWorkflow` stop when all of
them have ended (`Finished`); any other stop is reported as a deadlock. Three
pupils are enough for ranks 1, 1, 3. The scores of `MCConsolidation` include
zero, the maximum, one above it, one at the threshold, and two whose totals
differ by less than the rounding; one line is outside the general total and
eliminatory, one is marked by appreciation. A score can
always be corrected, so `Consolidation` never stops. `workflow_overlap`
declares its three directors interchangeable, `grid_page` its scores and cells:
they check invariants only, and nothing tells one of these
from another. The same is true of the requests of `titulariat`, of the duplications
of `course_grids` and of requests, connections, commands, hosts and codes in
`tenancy`.

Three requests of `titulariat` are the smallest number with an overlap and a
later nomination that meets the two open rows it left; one tick separates the
instants of two nominations. `course_grids` has the
first course in the first class and everything else free: siblings of one level
or of two, agreeing or not on scale and code, with two duplications that want one
key and one edit by hand before or between them. In `tenancy` two connections are
what a request needs to meet another one after its commit, two commands what it
takes to collide on a domain, on a code or on the strategy, one edit a school
that is suspended or whose custom domain is another's domain. Three entries on
pages of one give readings of three pages with an entry committed late, and three
instants a filter by day with an entry outside. In these four runs deadlock is
not checked: each request is handled once, so the system may stop when all have
been, and no action but the insert of a unique key waits. `class_period` is the
smallest instance with a batch of two changes around a submission, a second batch
that completes the grid in its place, and two transitions that overlap or follow
each other; its requests and its directors are interchangeable, and all its
properties are safety properties that name none of them.

The type invariants of `GradeSync`, `GradeGrid`, `PeriodWorkflow`, `Titulariat`,
`Tenancy`, `AuditPage` and `ClassPeriod` and the strengthenings of the proofs are proved and
have no run of their own.

Fairness. `Fairness` in `GradeSync` is weak fairness of each worker's own
steps: a worker that accepted a batch keeps running until it answers or dies
(`Crash` is not fair), and the database grants a lock when its holder is gone.
Weak fairness is enough because on one cell a waiter whose turn is taken by
another finds the row freed again after finitely many commits: requests are
finite in number and each takes the lock finitely often. No arrival is fair.
`FairSpec` of `GradeGrid` is weak fairness of the page's timer, of the server
working on the awaited request and of the delivery of its answer: browsers fire
timers and report a finished or failed request. Nothing the teacher does is
fair, nor is the return of the network (`GoOnline`): `EveryDraftSettles` excuses a
browser that stays offline for ever and no other. Failures are finitely many.

## Findings

The violation runs are disagreements of the code with its own documents.

1. `audit_submit`: once a class has submitted, the audit page cannot be shown,
   because `SUBMIT` has no label (`deliberation_service.py:455`,
   `portal/audit_log.html:4`).
2. `late_decision`: a manual decision may be stored after the publication it was
   checked against (`deliberation_service.py:362` and `:353`).

Noticed while modelling, with no run of their own.

Overlapping requests: transitions that overlap may log one step twice or set the
status back, contrary to the comment "no skipping a step, no going backward"
(`deliberation_service.py:409`, `deliberation_workflow.py:73`); `PublicationCycle`
allows exactly that. The period lock is tested once per batch, so a submission may
commit before the batch's last write (`routes.py:136`,
`authorization_service.py:110`, `PERMISSIONS.md:88-91`); `LateRequestsRefused` is
what remains true. Two replacements of a decision can store a mixture of both
that no audit row holds, because the ORM writes only the columns that changed
(`Written`; each column is in the log, `ColumnsLogged`). Overlapping nominations
leave two open rows in the history (`InSyncUnlessOverlapped`); a titulaire from
before the history never gets a row that is closed. IntegrityErrors that nobody
catches answer 500: the loser of two first transitions
(`deliberation_service.py:425`), of two commands or duplications for one key, and
a duplication for the key of an archived grid.

Browser: a 404 is retried for ever (`grade-grid.js:123`, `grid.html:5`,
`frontend.md:44-45`); a repeated post is not idempotent when an edit came in
between, nor when a first entry overlaps its own repetition (`routes.py:388` and
`:413`, `frontend.md:33-34`); "Cote serveur restaurée" shows
what the page knew before a lost answer (`Discard`).

Figures: the results page and the bulletins count lines and groups outside the
general total (`routes.py:433`, `GRILLE_COURS.md:35-37`); the consolidation ranks
rounded percentages (`Shown`) although `README.md:79` keeps rounding for
presentation; a pupil whose only scores are on lines outside the total is left to
a manual decision with the motive "Aucune cote saisie"; no page reads
`percentage_decimal_places`; a class without pupils or lines can be submitted
(`deliberation_service.py:249`); the sync route refuses columns marked by
appreciation (`routes.py:353`) although a submission wants every line filled; a
score over a justified absence erases the statut and the audit row says NULL
(`audit_service.py:114`).

Rights: the `transition` route lets a director submit, although
`PERMISSIONS.md:39-41` reserves it to the titulaire (`MayAct`); the docstring of
`display_columns_for` promises every column to the secretariat, the code gives
them to Direction and the titulaire (`routes.py:101`). The dashboard counts every
live attribution of a class, also those on archived lines (`routes.py:195`), so it
may link to a grid that answers 404 (`routes.py:139`). Of two delegations that
cover a moment, `.first()` takes any (`authorization_service.py:61`), anew in each
query, so dashboard, columns and rights of one request may disagree.

Grids: of sibling courses with different scales the first one handled by the
migration gives the scale of the line, so a score may lie above it
(`ScoresStayValid` says when it cannot); archived courses become active lines;
the downgrade fails when a teacher has one subject in two classes of a level, or a
grade has no score.

Schools: with effective policies the account of a foreign session is invisible
to `load_user`, so the session is silently anonymous and never logged, contrary
to `security/tenant.py:6-9`; after a commit or a rollback a request may get a
connection with the variable of another school, or none, and then reads nothing
or cannot insert (`Begin`, `MayWrite`), on the assignments page even in its answer
to a refused attribution (`routes.py:279`); the command does not compare a new domain
with custom domains (`tenant_provisioning.py:68`), so a host may match two
schools and `.first()` picks any.

Audit page: negative page numbers cut from the end, a malformed date is a 500,
entries of one time may change places between two pages, and `pagination_controls`
is empty, so further pages are reached by their address only.

## Proofs

The proof modules follow one pattern: a type invariant and a strengthening
that are inductive together, then the properties from them. The assumptions
are those of the modules (`GradesAssumption`, `GradeSyncAssumption`,
`WorkflowAssumption`, `GridAssumption`, `NoneAssumption`,
`ConsolidationAssumption`, `GridsAssumption`, `MigrationAssumption`,
`TitulariatAssumption`, `ProvisioningAssumption`, `TenancyAssumption`,
`AuditAssumption`): distinct sentinels, typed constants, finite tables and the check
constraints of the tables; in `ConsolidationAssumption` besides that a pupil is
enrolled once and that the grades a run starts with were accepted, in
`MigrationAssumption` that 20 is a scale, which is what `downgrade()` writes
(`14efd3eb110e`, line 705). Nothing bounds the number of requests, calls, cells,
pupils, scores, teachers, schools, connections or entries.

* `GradeSync_proofs`. `TypeOK` is not inductive alone: a commit is typed only
  because the change in hand exists and carries an acceptable score. The
  strengthening is `TransactionInv`: between its `SELECT` and its `COMMIT` a
  worker holds its row, nobody else does, and the row still is what it read.
  From it follow `NothingLost`, `NobodyHoldsAndWaits`, `HistoryUnbroken` and
  `SyncImplementsLedger` (every step of the route is one step of the ledger or
  a stutter). A worker selects a row for update only when it holds another score
  than the one asked, so a batch posted again adds no audit row and is refused no
  grade it has already stored; only the loser of two overlapping first entries is
  told of a conflict even if both entered the same score (`InsertCollision`). `AnswersTrue` needs `AnswerInv` besides: the answers follow the batch,
  one per change, and its changes name different cells.
* `PeriodWorkflow_proofs`. Without locks a writer may not assume that the
  status is still what it read; `WriterInv` is what it may assume: the state
  it leaves is in the log, which only grows, and while the row is being created
  the log is empty. From it follow `NoStepSkipped`, `SubmittedOnce` and
  `DecisionColumnsLogged`. `VersionCounts` needs `VersionInv`: the version a call
  has read is at most the number of publications in the log. With the three,
  `WorkflowImplementsCycle`: a commit is a step of `PublicationCycle` from a state
  the log has reached, everything else a stutter.
* `GradeGrid_proofs`. `NothingTypedIsLost` is inductive together with
  `InFlight` (what a batch calls saved was acknowledged, and its drafts cannot
  be discarded meanwhile) and `OnDisk` (as long as no write has failed the disk
  has the values of the page): the latter carries a draft over a crash, the
  former over an answer. `DraftsKept` and `DiskMirrorsPage` follow.
  `ConflictsNeverHerOwn` needs `ConflictInv`: while nobody else wrote a cell, no
  answer about it was lost and the disk took every write (`Alone`), each of its
  drafts is based on what the server holds, or on what it held before the batch in
  flight saved the cell (`Undisputed`), and a request that no page waits for carries
  drafts only of cells with a lost answer (`OrphansUnanswered`).
* `ClassPeriod_proofs`. `ClassInv` is inductive: a score is in hand from the
  `SELECT` to the `COMMIT`, so no step takes a grade away (`ScoresInHand`), and a
  submission under way has found the grid complete (`SubmissionsFounded`). From it
  follow `SubmittedIsComplete`, `ShutForGood`, and that every step of the
  composition is a step of each component or leaves it alone (`GradingComposes`,
  `WorkflowComposes`, together `RoutesCompose`).
* `Bulletin_proofs`, the figures. `GradesStayValid` (the engine accepts every
  stored grade) rests on `WithinMaximum`, what the sync route maintains;
  `PagesInv` adds that the pages show the grades of now. The rest are facts about
  the functions of the engine, for every class and grid. Induction over
  data is out of the prover's reach, so a loop is unrolled (`Loop`) by
  well-foundedness of the natural numbers: the first index at which a claim fails
  has a predecessor where it holds (`Least`, `Reaches`). Sums grow with a term
  and split into parts (`SumOfOneRaised`, `SumOfParts`), and the groups of
  `GroupOrder` are such a split: `SubtotalsAreAPartition`. The sort key is a strict
  total order, so a sorted list has every entry once (`SortedSorts`), and in such a
  list the rank the loop gives is one more than the number of entries strictly ahead
  (`RankOfPlace`): `RanksAreCompetition`. Rounding moves a percentage by half a
  hundredth at most, keeps the order of any two and keeps each on its side of the
  threshold, facts about integer division: `RanksFollowDecisions` and, with equal
  totals on both pages (`SameTotals`), `PagesAgreeOnOrder`. `HigherScoresAreHarmless`
  compares the page before and after an entry: the total does not fall, the courses failed
  are among those failed before, and fewer or as many pupils are ahead.
* `Bulletin_proofs`, the lines. `MigrationInv` has three parts. `TypeOK`;
  `GridsInv`, what upgrade and work with the grids keep; `PhaseInv`, what the
  tables hold before, during and after each migration as a function of the
  contents found. In `GridsInv`, `Rooted` says that each line comes from a course of
  its subject and level, `OneLine` and `OneMaximum` that a course finds
  one line and a period one maximum, so `Homing`, the line an upgraded row is sent
  to, is a function; `OriginalsFirst` (lines of copies come after all lines the
  migration made) is what lets the downgrade pick the original line among its
  copies; `Copied` is `CopiesComplete` as an invariant. `Surviving` is the course that
  each merged course was merged into. The way back sends every row to the survivor
  of its course, which is the course itself when no two share a code, and restores
  weight and maximum from the original line: `RoundTrip`. Between the two
  directions grids are copied, grids and lines archived and maxima set; weights
  and grades do not change.
* `Titulariat_proofs`. `NoGap` is inductive by itself: an instant before the
  moment of a nomination is still covered by the row that covered it, even if
  that row is closed now, and an instant after it by the row that is opened.
  `InsertSafe` (between the search and the insert no row is archived) gives
  `AttributionsAnswered`; `InSync` and `Alone`, what a nomination that meets no
  other may rely on, give `InSyncUnlessOverlapped`.
* `Tenancy_proofs`. `RegistryInv` and `KeysInv` tie the rows of a school and the
  keys flushed by commands to the registry: two commands never hold one key, and
  what one holds nobody has committed. `IsolationInv` (`Scoped`: what a request's
  transaction may see; `Recorded`: what was written and logged) needs `Grown`,
  that accounts and schools are only appended, because requests refer to them
  while commands commit. `Scoped` says of a request's first transaction that its
  variable names its school, whatever the connection kept, so that the account of
  its session is visible exactly when it is of that school or nothing is enforced,
  and that commits and rollbacks leave it as it was found: `SessionsHonoured`.
* `AuditPage_proofs`. `Rank`: an entry whose time is its own stands at the place
  that the number of newer entries gives it. `ForwardInv` says that an entry not
  shown yet has at least as many newer entries as were cut away; new entries only
  raise that number, hence `ForwardNeverSkips`. `QuietInv` says that the entries
  shown so far are in their places, hence `QuietReadingExact`. `TypeOK` with
  `LogInv` bounds the number of pages.

Only model-checked: `EveryBatchEnds` and `EveryDraftSettles`, which as liveness
properties under fairness are out of the prover's reach, and the absence of
deadlock. Every other property of a passing run is the conclusion of a theorem.

## Not modelled, and what is left

Hazards that no property covers are listed in `PROJECT.json` with the reason. In
them the code does what one would not want (a step logged twice, a mixed decision,
one version number for two publications, an endless retry after a 404, ties on one
page only, lines outside the total counted on the other, a host of two schools),
so no property can exclude it: the nearest one that holds is checked, and
"Findings" above records the rest. A maximum lowered by hand below a score makes
the pages of a class fail; `Consolidation` keeps the maxima, as every route does.

`Consolidation` still lacks the choice of the threshold, the annual total, class
averages and encoding rates, and manual decisions on the pages.

Left out for good: formatting of pages, reports and labels, theming, password
hashing, demonstration data and the migrations that only change the schema, which
keep no state the properties are about; re-opening of a period and
`DemandeCorrection`, which have tables but no code.
