# A formal model of TESQIVO

TESQIVO (`src/`) is a test-management server: FastAPI routers over domain
services over PostgreSQL, a background worker, a React client. This directory
models its core logic in TLA+, checks it with TLC and proves its main
invariants with TLAPS.

| Module | Models | Runs | Proved |
|---|---|---|---|
| `CycleExecution` | test cycles, their scope, manual execution | `serial`, `scope`, `concurrent`, `two_open` | `CycleExecution_proofs`, `CycleExecution_serial_proofs` |
| `AttemptLedger` | what execution promises, abstractly | refined by `CycleExecution` in `serial` | the refinement, in `CycleExecution_serial_proofs` |
| `Reporting` | displayed results, metrics, drill-downs, on top of `CycleExecution` | `reporting`, `drill_down` | `Reporting_proofs` |
| `TestCaseVersioning` | versions, review and lifecycle of a test case | `versioning_serial`, `versioning_concurrent` | `TestCaseVersioning_proofs` |
| `Backlog` | requirements, releases, defects, scenarios, test plans, trace links | `backlog` | `Backlog_proofs` |
| `Projects` | projects, members, access requests, key counters | `projects` | `Projects_proofs` |
| `Accounts` | accounts, first administrator, sign-in, sessions | `accounts` | `Accounts_proofs` |
| `JobLease` | background jobs and their leases | `job_leases` | `JobLease_proofs` |

The modules called `MC...` hold the definitions that only TLC needs: step
lists, repositories, symmetry sets.

Sections: 1 inventory, 2 how requests are modelled, 3 the modules, 4 the runs,
5 bounds, 6 fairness and deadlock, 7 what is proved, 8 findings and known
disagreements, 9 what is not modelled.

## 1. Inventory

Paths are below `src/backend/app/`. *M* marks what is modelled, *(M)* what is in part.

| Component | State | Operations | What is hard, and what must hold |
|---|---|---|---|
| Cycles and scope *M* (`domain/planning.py:219-532`) | `test_cycle` (status, version), `cycle_test` (version, retest, removed), `cycle_test_step` (snapshot) | create, clone, add tests, transition, remove test, refresh version | Handlers overlap without locks; snapshots are rewritten under attempts. A case is once in a cycle; every test of a running cycle is snapshotted; a completed cycle has nothing open; no transition is lost. |
| Manual execution *M* (`domain/execution.py`) | `execution_attempt`, `execution_step`, `execution_correction`, `attempt_defect_link` | start, set step result, complete, abort, request retest, correct, link defect | The same, and evidence must not change: one open attempt per test, closed attempts fixed, result implied by steps, steps pinned to the version. |
| Displayed result *M* (`execution.py:326-380`) | none (a query) | the effective result of the attempt last closed or corrected | Retests, corrections and open attempts together. Every report must show the same. |
| Reporting *M* (`domain/reporting.py`) | none (queries) | metrics M-01 to M-13, trend, break-downs, roll-ups, drill-down | The same count is computed in several queries. They must agree, for every scope. |
| Test plans *M* (`planning.py:55-217`) | `test_plan`, `plan_scope_item` | create, scope, transition, update, delete | A plan is activated for content that nobody locks; deletion against cycles being created. |
| Test case versioning *(M)* (`domain/test_case/service.py`) | `test_case` (state, current, approved, title, version), `test_case_version`, `test_step`, `test_folder` | create, update (in place or fork), review transitions, lifecycle transitions, folders | Two coupled state machines and overlapping edits and reviews. One approved version, current is newest, submitted content fixed, approved versions executable. |
| Optimistic concurrency *M* (`domain/concurrency.py`) | the `version` columns | `check_version` | Compares with the loaded row; the UPDATE has no version predicate. |
| Entity keys *M* (`domain/keys.py`) | `entity_counter` | `next_key` under a row lock | First use inserts the counter; deletion of projects removes it. A key is given once. |
| Projects, memberships *(M)* (`domain/projects.py`) | `project`, `project_membership`, `reference_value` | create, archive, update, delete, add and remove member, values | Unique (project, user, status); deletion against everything that creates rows in the project. |
| Access requests *M* (`domain/access.py`) | `project_access_request` | request, decide | A decision commits the membership and the request separately. |
| Accounts and sessions *(M)* (`domain/auth.py`, `core/security.py`, `api/deps.py`) | `app_user` (status, failed count, lock), `user_session`, setup state | set up, sign in, sign out, provision, update, disable, delete, reset and change password | Revocation races with sign-ins and with the requests it is to stop; exactly one first administrator; an administrator stays. |
| Authorization *(M)* (`domain/authz.py`) | none (role matrix) | `authorize`, `can`, `require_member` | A pure decision over roles. |
| Background worker *M* (`worker.py`) | `background_job` (status, lease) | claim, handle, mark failed | Crashes, expired leases, unconfirmed commits. One worker per job, outcomes final, every job finished. |
| Backlog *M* (`domain/backlog.py`) | `requirement`, `release`, `defect` | create, update, delete, transition | Deletion cascades to links and scenarios by hand. |
| Scenarios *M* (`domain/scenarios.py`) | `scenario`, `test_case.scenario_id` | create, update, status, assign | What they name must exist. |
| Trace links *(M)* (`domain/traceability.py`) | `trace_link` (no foreign keys) | create, remove, matrix | Duplicate and dangling links. |
| Rate limiter, transactions *(M)* (`api/middleware.py`) | hits per client and bucket, in memory; the session of a request | admit or refuse; commit or roll back | The window of the limiter; what is left of a request that fails. |
| Models, sessions *(M)* (`models.py`, `core/db.py`) | all tables | - | Constraints that catch what handlers miss. |
| Notifications, feedback, audit | their rows | queue, read; submit, export; record | Little: rows of their own. |
| Routers, errors, sorting, licence, configuration, mail, CLI, migrations, frontend, scripts | - | - | Pure functions, cryptography, input/output or presentation. |

**Interaction.** A router calls one domain service per request with the session
of that request; services call `authorize`, then `check_version`, then `next_key`
and `audit.record` in the same transaction, which they commit themselves.
Services meet in the database only: cycles read `approved_version_id`, which
versioning writes; execution reads cycle tests and their snapshots; reporting
and traceability read all of it. There are no callbacks and no in-memory state
shared between requests other than the rate limiter. The worker shares only
`background_job` with the server. `Reporting` is the composition of the reports with
the execution they report on; between `TestCaseVersioning` and
`CycleExecution` the approved version is the interface (`ApproveVersion`,
`StepsAssumption`), between `Backlog` and `Reporting` the repository rows.

The hazards found along the way, each at its line and with the properties that
cover it, are listed under `hazards` in `PROJECT.json`; two of them have a note
instead that says why no property covers them.

## 2. How requests are modelled

PostgreSQL runs at its default isolation, READ COMMITTED. A handler loads
rows, checks them, changes the loaded objects and commits; SQLAlchemy then
sends UPDATEs that name the changed columns and the primary key, no
version. Only `next_key` and the worker lock rows (`FOR UPDATE`), and initial
setup takes an advisory lock. So:

- Each handler is **two actions**, `Load<Handler>` (all it reads and checks) and
  `Commit<Handler>` (all it writes). The record of the request in flight,
  `req[c]`, keeps what was loaded. A refused request has no effect, so only the
  passing case of a check is an action.
- A **column is written only if it differs from its loaded value**. Where that
  can matter the request keeps the loaded value (`seen`, `was`): `Snapshot`,
  `CommitSetStepResult`, `Written`. It does matter: two overlapping refreshes
  can leave the version of one with the steps of the other.
- `version += 1` is computed from the loaded value, so concurrent increments
  may coincide. `check_version` compares the caller's number with the loaded
  row; callers that are refused change nothing, so `Load` actions stand for the
  callers that passed. `Projects` and `Backlog` leave the number out: it only
  refuses calls there, and no property is about it.
- **Constraints** are guards of commits: unique version numbers, project keys
  and memberships, and foreign keys, such as the one from `execution_step` to
  `cycle_test_step`, which makes the database refuse to rewrite a snapshot that an
  attempt has copied (`SnapshotReplaceable`). A refused or broken request is
  `FailRequest`, `Refused` or `EndWithoutCommit`, which may happen to any request
  at any time and has no effect: `DbSessionMiddleware` rolls back.
- `Clients` is the set of requests that may be in flight together. **One client
  means requests that do not overlap**, and gives the runs named serial.
  `Accounts`, `Projects` and `Backlog` remember instead in `overlapped` whether any two
  requests have overlapped so far, so that one run serves both kinds of properties.

Assumptions, where the model is coarser than the code:

- The reads of one handler are one step, and so are its writes. Reads between
  which something that matters can change are kept apart: `start_attempt` takes
  the version from the cycle test it loaded and copies the steps it finds when it
  inserts, hence the two fields `version` and `snapshot` of an attempt; the
  deletion and insertion of steps in `update_test_case` may find the steps of
  another edit (`StepsLeft`); a signed-in request of `Accounts` resolves its session,
  locks it and loads its target in three steps; `decide_request` and `next_key`
  have a step for each of their transactions or statements.
- `CreateCycle`, `CloneCycle` and `ApproveVersion` are one step: they write new rows or one
  column and check nothing that could be stale at their commit. For the clone,
  the copied scope is what its single SELECT returned.
- Two overlapping rewrites of the same snapshot may collide on the unique step
  order, and one is then rolled back; the model also allows both to pass.
- In `CycleExecution` versions of different cases with the same number have the
  same steps, and an approved version has at least one step and keeps its steps
  (`StepsAssumption`). `ApprovedReviewable` and `ContentFixed` of
  `TestCaseVersioning` say so for requests that do not overlap; when they do
  overlap it can fail (section 8).
- Row ids are not used again.
- Authorization is taken as granted except in `Projects` and `Accounts`, and wording,
  audit rows and descriptive fields are left out. A title stands for title,
  description and preconditions together.

## 3. The modules

### CycleExecution and AttemptLedger

| Variable | Code |
|---|---|
| `approved[k]` | `test_case.approved_version_id`, as a version number |
| `cycle[y]` | `test_cycle` status and version; `"none"`: no row |
| `cycleTest[t]` | `cycle_test` (cycle, case, version, removed, retest) and, as `steps`, the version its `cycle_test_step` rows were copied from |
| `attempt[a]` | `execution_attempt` (test, version, status, overridden), its `execution_step` results and, as `snapshot`, whose steps they are |
| `corrections[a]` | new values of the attempt's corrections |
| `req[c]` | the request in flight |

Every operation on cycles and cycle tests and every operation on attempts but
`link_defect` (in `Reporting`) is an action pair named after its handler.
`complete_attempt` and `abort_attempt` write the same columns and share
`CommitCloseAttempt`. `AttemptLedger` is the abstract view: an entry per
attempt, opened when no other attempt of the test is open, recorded into,
concluded as its evidence implies or overridden, aborted, corrected; nothing
else ever changes. `Ledger!Spec` is refined through the obvious mapping.

### Reporting

Extends `CycleExecution`: a step of `Reporting` is a step of execution, which
also says which attempt of a test was closed or corrected last (`latest`, for the
order by time of `resolve_cycle_test_result`), or `LinkDefect`. `repo` holds the other tables
that reports read; a behaviour has one of `Repositories`, fixed, because no
report relates two moments. The reports themselves are operators, one
per query of `reporting.py`: `Metrics` (`compute_all`), `CycleBreakdown`,
`ReleaseOverview`, `CoverageByType`, `Trend`, and the rows that `drill_down` lists. A scope is
all, a cycle, or a group, which stands for the plan, release, environment or
build that reports can be restricted to. Ratios are pairs of numbers.

### TestCaseVersioning

One test case, since cases share no row that these handlers write. `case` is its
row, `ver` its versions by number with steps and status, `req` as above.
`update_test_case` is three pairs, by what it does: `Touch` (nothing controlled
changed), `Edit` (the draft in place), `Fork` (a new version).
`transition_version` is `Review`, `transition_lifecycle` is `Lifecycle`. The
content lock (`content_locked`) is kept because `SelectableHasApproved` uses it
as the mark of a version that was approved at some time; no handler reads it.
It plays the part of `ApproveVersion` in `CycleExecution`: that action may set
any other version, because overlapping reviews can bring an older one back.

### Backlog

`status[e]` is the status of a requirement, release, defect, scenario or plan
(`"none"` before the row, `"deleted"` after it), `under` and `grouped` the
references of scenarios and test cases, `scope` and `cycled` what plans contain, `link` the
trace links. A row is created, moved along the table of its kind, and, if a requirement or
plan, deleted. All five kinds share the commits `CommitCreate` and
`CommitTransition`; their checks are load actions of their own. Of
`LEGAL_RELATIONSHIPS` it has those with both ends in this module or a test case.

### Projects

`project` (a row is active, archived or gone), `member`, `ask`, `counter` and `artefacts`
(the numbers of the keys in use, of one entity type) stand for their tables. Ids are not
used again, keys are: `KeyOf` lets two ids have the same key. The role matrix
of `authz.py` guards the load actions. A commit that a unique constraint or
foreign key would refuse is not enabled and the request can only be `Refused`.
Approving a request is `LoadApprove`, then `CommitGrant`, the transaction of
`add_member`, then `CommitDecision`. Minting a key is `LockCounter` or
`InsertCounter`, the statement, and then `CommitCreate`.

### Accounts

`user` has the status, administrator flag, forced change, failure count and lock
of an account, `session` its row and whether it was opened with a password
that has been replaced (`stale`). A signed-in request goes through the
stages of `deps.py` and the handlers: `Resolve` reads session and account,
`Enter` has written `last_seen_at`, which locks the session row until the request
ends, `LoadAccount` has read its target; the commit writes. The writes that
revoke sessions wait for requests that have them locked (`FreeFor`). Requests that
wait for each other are aborted by PostgreSQL (`EndWithoutCommit`).
Sessions are those of `DbSessionMiddleware`; `core/db.py`'s `get_session` is unused.

### JobLease

`job[j]` is a row of `background_job` (status, and a lease that is free, held
or expired), `worker[w]` the place of a worker process in `run_forever`. Jobs
are numbered by `created_at`. A worker selects (the row is locked while it is
`claiming`), commits the claim, loads and writes the outcome in another session,
or raises and goes through the except clause, which fails the job only if it
still finds it running. A commit may take effect without being confirmed
(`CommitOutcomeUnconfirmed`). A crash is possible anywhere: it also
stands for an exception outside the `try`. Writes wait for the row lock of a
claim in progress (`~Locked`). Nothing in the repository inserts jobs yet, so
`Enqueue` is external. The lease is 60 seconds and never renewed; `Quick` are the jobs
whose handler a live worker finishes within it, so that their lease only expires
when nobody works on them. The lease of any other job may expire at any time.

## 4. The runs

| Run | What it asks | States |
|---|---|---|
| `serial` | Without overlap: one open attempt per test, none in a completed cycle, attempts run the version they name, closed results follow from the evidence, cycle changes are counted, starting answers a retest; and the attempt ledger is implemented. | 1.0M |
| `scope` | Without overlap, two cycles, cloning: a case once per cycle; tests of a running cycle are snapshotted. | 170k |
| `concurrent` | Two requests overlap: evidence stays pinned, corrections and retests follow closed attempts, never-activated cycles have no attempts, closed attempts stay closed; the proof invariant `IInv`. | 2.9M |
| `versioning_serial` | Without overlap: exactly the approved version has status approved, it has steps, submitted content is fixed, titles agree. | 53k |
| `versioning_concurrent` | Two requests overlap: current is newest, no gaps; selectable cases have a version that was approved; `IInv`. | 1.9M |
| `job_leases` | Quick and slow handlers, crashes, unconfirmed commits: claims are exclusive, finished jobs are not reclaimed, and every queued job gets finished; quick jobs have one worker and a final outcome. | 56k |
| `accounts` | Two requests overlap: one first administrator, requests of one session serialised (`IInv`), nobody loses session or account while working under it. Without overlap: only current sessions of active accounts live, an administrator remains. | 1.5M |
| `reporting` | In every state that execution reaches: break-down, roll-up and drill-down agree with the metrics; passed, executed, planned and designed coverage narrow; a finished test shows a closed attempt of its own. | 1.8M |
| `projects` | Two requests overlap: rows belong to projects, nobody is a member twice, counters are ahead (`IInv`), who was approved was let in, keys are given once. Without overlap: a decision is final. | 920k |
| `backlog` | Two requests overlap: foreign keys hold, activated plans have content (`IInv`). Without overlap: active links resolve and are not duplicated. | 740k |
| `two_open`, `drill_down` | One finding each, section 8. | few |

Each run takes between a second and three minutes with two workers. Between them
the passing runs fire every action and disjunct. Each property of
a passing run has a mutant: an operator marked *Mutant* in the module, next to
the definition it replaces, that stands for a plausible bug (a dropped
guard, a forgotten reset, a column too many), under which TLC finds the
property violated.

## 5. Bounds

- `Clients = 2` in the concurrent runs. The violations by overlap all need two
  requests and no more. That nothing proved depends on the number is the point
  of section 7: the theorems hold for any number.
- `serial`: one cycle test with two attempts; two versions with two steps each,
  one of them optional in the first; cycle versions up to 5 (draft, active,
  completed, reopened and one more). `scope`: two cycles, two cases, three cycle
  tests: a clone, and a test removed and added again.
- `concurrent`: one cycle test, two attempts, two versions, cycle versions up
  to 3 (draft, active, then completed or archived, and what two overlapping
  transitions make of these): enough for a refresh or an activation to overlap
  each start and for a second attempt after a retest. Reopening is in `serial`
  and in the theorems.
- `StepInputs` and `OverrideInputs` bound what clients send; each run takes the
  results its properties tell apart.
- `reporting`: two cycles of which one is in a release, two cases, two attempts, closed
  by overrides, one case linked to a requirement and one that reaches it by its scenario,
  a defect on a requirement and on attempts. `SomeRepositories` has one repository with
  two active requirements and one with a requirement that is gone and a deprecated
  case. No corrections: they change the result of an attempt, which two attempts
  with different overrides also do.
- Versioning: three versions (approved, superseded and a draft, or two forks
  that take the same number); two titles and two or three step lists, one
  unusable; `MaxRevision` 12 without overlap, 7 with it: creation, submission,
  approval, fork, submission and approval with a request still in flight. The
  concurrent run has a single title, because its properties do not read titles.
- `accounts`: two accounts, two sign-ins, the first wrong password locks
  (`Threshold` 1). `projects`: two ids with the same key, so that a project is deleted
  and created again while old requests are in flight; a user and the system administrator; three
  membership rows (a membership, its removal, another), two requests for access, three keys.
- `backlog`: a behaviour creates the rows of one of `SomeFamilies`, those that some operation
  relates, and up to two links.
- Jobs: two workers, three jobs, quick with a handler, slow with a handler, quick without one;
  two crashes: of both workers on one job, or of one worker twice.
- Ids are interchangeable (symmetry) where a run has no temporal property other
  than a step property; `JobLease` uses none. In `reporting` only ids that no constant names are.

## 6. Fairness and deadlock

Requests have no fairness: clients need not send any, and what is in flight may
fail, so nothing is promised about them that must happen eventually.

`JobLease` assumes three things in `FairSpec`: a live worker goes on
(`run_forever` is an endless loop without a blocking wait other than its poll
interval), a worker that went down is restarted (`restart: unless-stopped`,
`src/docker-compose.yml:91`), and time passes, so that a held lease expires.
Crashes are bounded: a worker that crashed at every claim for ever would
finish nothing. Raising, unconfirmed commits and enqueuing are not fair.

`CHECK_DEADLOCK FALSE`: the models stop when ids, versions or revisions are
used up, and a worker system may rest when every job is finished.

## 7. What is proved

For every value of the constants that satisfies the module's named assumptions, and for any
number of requests that overlap, except where a paragraph says otherwise. What holds only
without overlap is proved in one of two ways. In `CycleExecution` and `TestCaseVersioning` the
theorem assumes `Sequential`: there is one client at most. In `Accounts`, `Projects` and `Backlog`
it holds for any number of clients, of every state before which no two requests
have overlapped (`overlapped`), as the properties of those modules say.

**`CycleExecution_proofs`.** `Invariance` (`Spec => []IInv`), and from it
`TypeCorrect`, `EvidenceIsPinned`, `FollowUpsFollow`, `AttemptsOnlyOnceActivated`
and `ClosedForGood`. These do not rest on the handlers' checks but on two other
things: what cannot be undone (a row that
exists stays, an attempt that is closed stays closed, a test with a version
keeps having one, a cycle once out of draft never returns) and the foreign key
that pins a snapshot. `IInv` is therefore the invariants plus `WholeRows` plus
`StillLoaded`: for each request in flight, the part of what it loaded that
nobody can take away. Without `StillLoaded` a commit could do anything. Each
lemma `...Keeps` shows one action keeps the rows; `StillLoadedStable` shows that
monotone steps keep what other requests rely on; `NextKeeps` puts them together.

**`CycleExecution_serial_proofs`.** `SerialInvariance`, and from it every property of the runs
`serial` and `scope`, as invariants (`OneAttemptAtATime`, `CompletedCyclesClosed`,
`AttemptsNameTheirSteps`, `ResultsFollowEvidence`, `CasesOnce`, `RunningSnapshotted`),
as statements about steps (`CycleVersionsCount`, `RetestsAnswered`), and that the handlers implement
`AttemptLedger` (`LedgerImplemented`). `SerialInv` adds to `IInv` what these properties need
of each other, and `StillTrue`: every check a request has made still holds. With one request
at a time only approvals, new cycles and clones happen between a load and its
commit, and `ChecksStand` shows that these touch nothing a request has checked. Three
parts of `SerialInv` are not properties of a run: cycles keep the snapshots of their
activation through completion, since a reopened cycle is not snapshotted again
(`SnapshottedSinceActivation`); a test's version and its copied steps are the same
(`StepsOfVersion`), from which an attempt gets both; and tests belong to cycles that exist, so
a clone starts empty. In the refinement a start maps to `Start`, a step result to
`Record`, a close to `Conclude`, `Override` or `Abort`, a correction to
`Correct`, everything else to no step. That all attempts of a test run the same
version, which `Start` demands, is `EvidencePinned`, and hence due to the foreign key.

**`TestCaseVersioning_proofs`.** `Invariance`, `TypeCorrect`, `NewestIsCurrent`,
`SelectableIsApproved`. The same shape: `StillLoaded` says an edit's or
review's version still exists, a fork's number is at most the next one (so
with the unique number it is either taken or still the next), and a review
that loaded a selectable state, or an approved version, still finds one.
`NothingLost` is the relation between two states that keeps it.
With `Sequential` also `SerialInvariance` and the four properties of the run `versioning_serial`:
`OnlyOneApproved`, `ApprovedCanRun`, `TitlesAgree`, `SubmittedIsFixed`. Nothing but the request
writes the case, so every column has at the commit the value it was loaded with
(`StillTrue`), and an UPDATE that leaves out unchanged columns writes what the handler
meant. `ReviewedUsable` strengthens `ApprovedReviewable` to versions still in review.

**`Reporting_proofs`.** `ReportsOnlyRead` (`ReportSpec => Spec`), by which all that is proved of
execution also holds of `Reporting`; `ReportInvariance`; and the three properties of the run
`reporting`: `EverySurfaceAgrees`, `EveryCountDrillsDown`, `CoverageIsNarrowed`, for every scope, any
contents of the tables (`repo`) and any number of overlapping requests. What has to be invariant is `ShownConcluded`:
the attempt that `resolve_cycle_test_result` picks for a finished test is closed and is an
attempt of that test. It stays so because closed attempts stay closed and keep their
test (`NextKeeps`). With it a test that counts as finished has a closed attempt (`ResultsShown`), and
the rest is about one state: it compares the sizes of sets that the queries
build differently.
  - *Same rows*: most drill-downs select the very rows that are counted
    (`RowsCounted`, `RowsRated`, `RowsAffected`), but get from requirements to tests by another
    query (`ThroughIsCovering`).
  - *Sums*: the rows of a break-down are the parts of the scope by cycle (`RowOf`,
    `ColumnTotal`), and a column that counts disjoint parts sums to the size of their union
    (`TotalCounts`). That is an induction over a set of cycles, which is done without the induction
    theorems: strict inclusion of the subsets of a finite set is well founded, so a smallest
    subset for which it fails would exist, and taking one element away from it gives a
    smaller one.
  - *Inclusions and a surjection*: coverage narrows because the sets do (`Narrower`); the trend has
    at least as many points as there are finished tests because every one of them has a closed
    attempt (`TrendCovers`).

`FiniteAssumption` says that tables are finite: otherwise nothing could be
counted. The runs compare reports only where no request is in flight (`AtRest`); the proofs do not use that,
so what is shown agrees while requests are in flight, too. Ratios stay pairs, and the order of events is that of one clock (section 9).

**`Backlog_proofs`.** `Invariance`: scenarios, test cases, scopes and cycles name rows that
exist, and a plan that was activated has content, though its activation locks
neither scope nor cycles. The reason is that contents of a plan only go
away with the plan, and scenarios never (`NothingLost`); all else the foreign keys
check at the commit. Links have no foreign keys, so `LinksAlwaysResolve` holds without overlap only: what
`create_link` checked (`Linkable`: both ends exist, no active link has them) is still so
when it inserts, and the only deletion that could leave a link dangling, that of a
requirement, takes its links with it.

**`Projects_proofs`.** `Invariance`, `ApprovedWereLetIn`, `KeysGivenOnce`. Two
ideas. `RowsKept`: a membership or access request stays about the same project and
user until it is deleted, and memberships of a project are only deleted together
with its requests, so an approval in flight never outlives the membership
that its first transaction made. And the row lock of the counter: `CounterAhead` says
that a request that holds the next number of a project is the only one, and that
the counter, or the constraint on its first row, is above every key. Without overlap
`DecisionsFinal`: whoever decides found the request pending and it still is, over both
transactions of an approval.

**`Accounts_proofs`.** `Invariance` and `NobodyDisturbed`. The argument is two
locks. The advisory lock of initial setup makes the count of accounts still
hold at the commit, so setup succeeds once; no administrator can be deleted,
so the count never returns to zero. The UPDATE of `last_seen_at` locks the
session, and whatever takes rights away writes the sessions of the account,
so it waits. Without overlap `SessionsCurrent` and `AnAdminRemains`: `Fresh` says of the one request in flight that
who signs in is still active and has the password that was compared, that the caller is
still an active account with the rights it was resolved with, that it disables an account
other than its own, and that it deletes no administrator. So the caller is an
administrator that remains. Each of the three stages of a request has to keep this,
and signing out and the passing of time, which belong to no request in the model, too.

**`JobLease_proofs`.** `Invariance`, `TypeCorrect`, `ClaimsAreLocked`, `NeverReclaimed`,
and for quick jobs `OneWorker` and `OutcomeIsFinal`.
`ClaimsLocked` is nearly inductive by itself, because a write waits for the
lock of a claim. `LeaseInv` adds, for quick jobs, that a worker at a job holds its lease and the
status is running unless it is in the except clause after a commit that went
through unnoticed.

**Only model-checked.** `QueuedGetsFinished`, that every queued job is finished: liveness under
fairness and ENABLED are outside TLAPS. Every other property of a passing run is stated by a theorem.

## 8. Findings and known disagreements

**Findings with a run.** The code does what a document, comment or message of the
repository says it does not; TLC shows a counterexample, and `PROJECT.json` quotes both sides.

| Run | Requests | What happens |
|---|---|---|
| `two_open` | overlap | two attempts of one test are open: the check and the insert of `start_attempt` are apart |
| `drill_down` | one at a time | the drill-down of M-08 (pass coverage) counts a requirement that the metric does not count, because only the metric also asks that everything that qualifies be green |

**Known disagreements without a run.** The models do what the code does, so they allow these; no property forbids them:

- A step result written while `complete_attempt` overlaps changes a closed attempt
  (`domain/execution.py:140`; `docs/architecture/05_state_plan_cycle_execution.md:87`:
  terminal attempts are content-immutable).
- `start_attempt` does not look at `removed_at` and executes a removed test
  (`execution.py:67`); removal itself asks for no open attempt (`planning.py:468`).
- An edit in place that loaded a draft lands in a version that was submitted
  meanwhile (`test_case/service.py:240`; `docs/architecture/04_state_testcase_version.md:63`).
- Submitting the fork of an active case moves the case to in_review and out of active
  coverage (`service.py:335`, against the decision quoted at `service.py:3`).
- A member who was removed, added again and is to be removed again cannot be: the unique
  constraint `one_active_membership` spans the status (`models.py:126`), so the
  second removal collides with the first.
- Deleting a project deletes its audit events (`projects.py:177`), which
  `docs/OPERATIONS.md:92` and `audit.py:1` call append-only.
- A project deleted and created again under its key starts its counters anew, so keys
  are used again (`docs/TESQIVO_Product_Requirements_v4.md:144`: never reused).
  `KeysNotReused` is about keys of one project row.
- An archived project without artefacts cannot be deleted while feedback, jobs or trace links
  refer to it, although the message at `projects.py:169-172` says that it can.
- `delete_plan` leaves the trace links of the plan behind (`LinksResolve` excepts them).
- The user name check of `create_user` is case-sensitive, that of sign-in is not (`auth.py:137`).
- `complete_password_reset` is called by no route, and nothing creates a reset token.

**What overlap breaks.** A handler writes what it decided from
rows it did not lock. The properties for requests that do not overlap are therefore
broken as soon as two do; TLC shows it with two clients, or
without the condition `~overlapped`, and the property alone:

| Property | Broken by |
|---|---|
| `NoOpenAttemptInCompletedCycle` | start and completion of the cycle |
| `CaseOncePerCycle` | two additions of one case |
| `AttemptRunsItsVersion` | start and refresh: the attempt names one version and executes the steps of another |
| `RunningTestsSnapshotted` | addition and activation: nobody snapshots the new test |
| `ResultAgreesWithEvidence` | step result and completion |
| `CycleChangesCounted` | two transitions with the same expected version |
| `OneApproved` | approval and request for changes of one version: the approved version is a draft |
| `ApprovedReviewable`, `ContentFixed` | submission and an edit |
| `LiveSessionsCurrent` | a sign-in that read the account, and a change of its password or status: the new session is not revoked |
| `AdminRemains` | two administrators disable each other, both sessions having been read before either disabled the other |
| `DecisionFinal` | an approval and a denial of one request |
| `LinksResolve` | deletion of a requirement and creation of a link to it |
| `OneWorkerPerJob`, `OutcomeFinal` | for a job that is not `Quick`: it runs twice |

In `Accounts`, moreover, overlapping wrong passwords are counted once, and a sign-in
that saw an expired lock clears one that was set since.

## 9. What is not modelled

`PROJECT.json` gives a status and a reason per component. In short:

- **Presentation and input/output**: frontend, sorting, exports, listings, mail,
  configuration, command line, scripts, migrations, serialisation and error mapping in the routers.
  They keep no state that another operation reads.
- **Cryptography**: licence signatures, password hashes and their rehashing. A password
  is right or wrong.
- **Rows that nothing else reads**: notifications, feedback, audit events, reference
  values, folders. Each is a single-row insert or update.
- **The rate limiter**: it counts in the memory of one event loop, and there is no
  `await` between check and count, so nothing interleaves; what remains is arithmetic on the clock.
- **Reset tokens**: dead code, section 8.
- **Two clocks of corrections** (`execution.py:357`): corrections are dated by the database
  and ends of attempts by the application. `Reporting` orders both by one clock; with clocks that differ the order
  of two attempts of one test can differ from the order in which they were concluded.
- **The trace matrix** (`traceability.py`): a listing; the links it lists are in `Backlog`, and
  what reports make of them in `Reporting`.
- **Roles** outside projects, members, creation and accounts: an action stands for a call that is authorized.
