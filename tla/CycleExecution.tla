--------------------------- MODULE CycleExecution ---------------------------
(***************************************************************************)
(* Test cycles, their cycle tests and the execution attempts run in them:  *)
(* the cycle half of backend/app/domain/planning.py and the whole manual   *)
(* execution service, backend/app/domain/execution.py.                     *)
(*                                                                         *)
(* A request is one HTTP call.  It runs in one database session           *)
(* (core/db.py) on PostgreSQL at READ COMMITTED: it loads rows, checks     *)
(* them, and writes at its commit the values it computed from what it      *)
(* loaded, without locking what it read and without a version predicate in *)
(* its UPDATEs.  Each handler is therefore two actions.  Load<Handler>     *)
(* reads and checks; a check that fails ends the request with no effect,   *)
(* so only the passing case is an action.  Commit<Handler> applies the     *)
(* writes and ends the request.  Clients is the set of requests that may   *)
(* be in flight together: with one client the handlers run one after the   *)
(* other, with two they interleave as the server lets them.                *)
(***************************************************************************)
EXTENDS Naturals, Sequences, FiniteSets

CONSTANTS
    Clients,          \* requests that may be in flight at the same time
    Cycles,           \* test_cycle row ids
    TestCases,        \* test_case row ids
    CycleTests,       \* cycle_test row ids
    Attempts,         \* execution_attempt row ids
    Steps,            \* order_index values of steps
    NumVersions,      \* versions a test case may get (bound)
    StepsOf,          \* version number -> the steps an approved version has
    RequiredOf,       \* version number -> those of its steps with is_required
    StepInputs,       \* step results the clients send (bound on inputs)
    OverrideInputs,   \* overall results the clients send (bound on inputs)
    MaxCycleVersion,  \* bound on test_cycle.version
    MaxCorrections    \* bound on the corrections of one attempt

StepResults == {"not_run", "passed", "failed", "blocked", "skipped"}
Terminal == {"PASSED", "FAILED", "BLOCKED", "SKIPPED", "ABORTED"}
CycleStatuses == {"draft", "active", "completed", "reopened", "archived"}

\* Version numbers of a test case; 0 stands for "no version" (NULL).  Versions
\* of different cases with the same number are taken to have the same steps.
Versions == 1..NumVersions
NoVersion == 0

\* Submit for review refuses a version without a valid step, so every version
\* that is approved has at least one, and keeps it (ApprovedReviewable of
\* TestCaseVersioning, which holds when requests about the case do not overlap).
ASSUME StepsAssumption ==
    /\ NumVersions \in Nat
    /\ StepsOf \in [Versions -> (SUBSET Steps) \ {{}}]
    /\ RequiredOf \in [Versions -> SUBSET Steps]
    /\ \A v \in Versions : RequiredOf[v] \subseteq StepsOf[v]

\* Row ids are not "none", which stands for the absent row.
ASSUME IdsAssumption == "none" \notin Cycles \cup TestCases \cup CycleTests

ASSUME InputsAssumption ==
    /\ StepInputs \subseteq StepResults
    /\ OverrideInputs \subseteq Terminal
    /\ MaxCycleVersion \in Nat
    /\ MaxCorrections \in Nat

VARIABLES
    approved,    \* test case -> approved_version_id, as a version number
    cycle,       \* cycle -> [status, version]; status "none": no such row
    cycleTest,   \* cycle test -> its row and snapshot; cycle "none": no row
    attempt,     \* attempt -> its row and execution steps
    corrections, \* attempt -> new_value of its corrections, oldest first
    req          \* client -> the request it has in flight

vars == <<approved, cycle, cycleTest, attempt, corrections, req>>

-----------------------------------------------------------------------------
(* Rows.  A cycle test names a version (test_case_version_id) and holds a   *)
(* copy of the steps of one (cycle_test_step), here `steps', the version    *)
(* they were copied from.  An attempt likewise names a version and holds    *)
(* the steps it copied from the cycle test, here `snapshot'.                *)

NoCycle == [status |-> "none", version |-> 0]
NoCycleTest == [cycle |-> "none", case |-> "none",
                version |-> NoVersion, steps |-> NoVersion,
                removed |-> FALSE, retest |-> FALSE]
NoAttempt == [test |-> "none", version |-> NoVersion, snapshot |-> NoVersion,
              results |-> [s \in Steps |-> "not_run"],
              status |-> "none", overridden |-> FALSE]

CycleRows == [status : CycleStatuses \cup {"none"}, version : Nat]
CycleTestRows == [cycle : Cycles \cup {"none"}, case : TestCases \cup {"none"},
                  version : Versions \cup {NoVersion},
                  steps : Versions \cup {NoVersion},
                  removed : BOOLEAN, retest : BOOLEAN]
AttemptRows == [test : CycleTests \cup {"none"},
                version : Versions \cup {NoVersion},
                snapshot : Versions \cup {NoVersion},
                results : [Steps -> StepResults],
                status : Terminal \cup {"IN_PROGRESS", "none"},
                overridden : BOOLEAN]

(* Requests in flight: the arguments, and what the handler has loaded.      *)
(* `pins' are the versions to be snapshotted, NoVersion where none is;      *)
(* `seen' is the value a column had when its row was loaded.                *)
Idle == [op |-> "idle"]

Requests ==
    {Idle}
    \cup [op : {"add"}, cycle : Cycles, cases : SUBSET TestCases,
          pins : [TestCases -> Versions \cup {NoVersion}]]
    \cup [op : {"transition"}, cycle : Cycles, version : Nat,
          to : CycleStatuses,
          pins : [CycleTests -> Versions \cup {NoVersion}],
          seen : [CycleTests -> Versions \cup {NoVersion}]]
    \cup [op : {"remove", "retest"}, test : CycleTests]
    \cup [op : {"refresh"}, test : CycleTests, version : Versions,
          seen : Versions \cup {NoVersion}]
    \cup [op : {"start"}, test : CycleTests, version : Versions,
          retest : BOOLEAN]
    \cup [op : {"step"}, attempt : Attempts, step : Steps,
          seen : StepResults, result : StepResults]
    \cup [op : {"close"}, attempt : Attempts, result : Terminal,
          override : BOOLEAN]
    \cup [op : {"correct"}, attempt : Attempts, result : Terminal]

TypeOK ==
    /\ approved \in [TestCases -> Versions \cup {NoVersion}]
    /\ cycle \in [Cycles -> CycleRows]
    /\ cycleTest \in [CycleTests -> CycleTestRows]
    /\ attempt \in [Attempts -> AttemptRows]
    /\ corrections \in [Attempts -> Seq(Terminal)]
    /\ req \in [Clients -> Requests]

Init ==
    /\ approved = [k \in TestCases |-> NoVersion]
    /\ cycle = [y \in Cycles |-> NoCycle]
    /\ cycleTest = [t \in CycleTests |-> NoCycleTest]
    /\ attempt = [a \in Attempts |-> NoAttempt]
    /\ corrections = [a \in Attempts |-> <<>>]
    /\ req = [c \in Clients |-> Idle]

-----------------------------------------------------------------------------
(* Queries the handlers make                                               *)

\* Mutant: an attempt may also be started in a completed cycle.
RunningOrCompleted == {"active", "reopened", "completed"}

Running == {"active", "reopened"}
Changeable == {"draft"} \cup Running

Exists(t) == cycleTest[t].cycle # "none"
LiveTests(y) == {t \in CycleTests : cycleTest[t].cycle = y /\ ~cycleTest[t].removed}
AttemptsOf(t) == {a \in Attempts : attempt[a].status # "none" /\ attempt[a].test = t}
Open(a) == attempt[a].status = "IN_PROGRESS"
Closed(a) == attempt[a].status \in Terminal

\* Mutant: the query compares with a status that no attempt has.
HasOpenAttemptMiscased(t) == \E a \in AttemptsOf(t) : attempt[a].status = "in_progress"

HasOpenAttempt(t) == \E a \in AttemptsOf(t) : Open(a)
AttemptsIn(y) == {a \in Attempts : /\ attempt[a].status # "none"
                                   /\ cycleTest[attempt[a].test].cycle = y}

(* The overall result of an attempt that recorded `results' on the steps   *)
(* of version v.  The last return of the function is never reached: with   *)
(* no required step not run, failed or blocked, all passed or skipped.     *)
DeriveOverallResult(v, results) ==
    LET Some(r) == \E s \in RequiredOf[v] : results[s] = r
    IN  IF Some("not_run") THEN "IN_PROGRESS"
        ELSE IF Some("failed") THEN "FAILED"
        ELSE IF Some("blocked") THEN "BLOCKED"
        ELSE "PASSED"

(* execution_step.cycle_test_step_id references cycle_test_step, and the   *)
(* snapshot is rewritten by deleting those rows: once an attempt has       *)
(* copied the steps of t the database refuses the rewrite.                 *)
\* Mutant: the steps may be deleted although execution steps refer to them.
SnapshotUnreferenced(t) == TRUE

SnapshotReplaceable(t) == AttemptsOf(t) = {}

\* Mutant: a refreshed test keeps the version it was first snapshotted with.
SnapshotStepsOnly(t, v, seen) ==
    [cycleTest[t] EXCEPT !.steps = v,
                         !.version = IF seen = NoVersion THEN v ELSE @]

(* _snapshot_cycle_test: the row as written when version v replaces the    *)
(* snapshot of t.  The steps are deleted and copied again; the version is  *)
(* written only if it differs from the one that was loaded, because an     *)
(* UPDATE names the changed columns alone.                                 *)
Snapshot(t, v, seen) ==
    [cycleTest[t] EXCEPT !.steps = v, !.version = IF v = seen THEN @ ELSE v]

\* A new row for case k in cycle y, snapshotted if v is a version.
NewCycleTest(y, k, v) ==
    [NoCycleTest EXCEPT !.cycle = y, !.case = k, !.version = v, !.steps = v]

Begin(c, request) == /\ req[c] = Idle
                     /\ req' = [req EXCEPT ![c] = request]
                     /\ UNCHANGED <<approved, cycle, cycleTest, attempt, corrections>>
Finish(c) == req' = [req EXCEPT ![c] = Idle]

-----------------------------------------------------------------------------
(* Approval of another version of a test case (TestCaseVersioning), as one *)
(* step.  Overlapping reviews can bring an older version back.             *)
ApproveVersion(k) ==
    /\ \E v \in Versions : /\ v # approved[k]
                           /\ approved' = [approved EXCEPT ![k] = v]
    /\ UNCHANGED <<cycle, cycleTest, attempt, corrections, req>>

(* create_cycle writes one new row and depends on nothing it read.         *)
CreateCycle(y) ==
    /\ cycle[y] = NoCycle
    /\ cycle' = [cycle EXCEPT ![y] = [status |-> "draft", version |-> 1]]
    /\ UNCHANGED <<approved, cycleTest, attempt, corrections, req>>

(* clone_cycle copies the scope of y, not its snapshots, retest flags or   *)
(* attempts, into a new draft; the copy is what one SELECT returned.       *)
CloneCycle(y, new) ==
    /\ cycle[y] # NoCycle
    /\ cycle[new] = NoCycle
    /\ cycle' = [cycle EXCEPT ![new] = [status |-> "draft", version |-> 1]]
    /\ \E rows \in SUBSET {t \in CycleTests : ~Exists(t)} :
       \E src \in [rows -> LiveTests(y)] :
          /\ \A t \in LiveTests(y) : \E r \in rows : src[r] = t
          /\ \A r1, r2 \in rows : src[r1] = src[r2] => r1 = r2
          /\ cycleTest' = [t \in CycleTests |->
                IF t \in rows
                THEN NewCycleTest(new, cycleTest[src[t]].case, NoVersion)
                ELSE cycleTest[t]]
    /\ UNCHANGED <<approved, attempt, corrections, req>>

-----------------------------------------------------------------------------
(* add_cycle_tests: all of the cases or none.  In a running cycle every    *)
(* case needs an approved version, which is snapshotted at once.           *)

\* Mutant: the duplicate query misses tests that have no snapshot yet.
AlreadySnapshotted(y, cases) ==
    \E t \in LiveTests(y) : /\ cycleTest[t].version # NoVersion
                           /\ cycleTest[t].case \in cases

AlreadyIn(y, cases) == \E t \in LiveTests(y) : cycleTest[t].case \in cases

\* Mutant: nothing is snapshotted when the cycle was reopened.
ActivePins(y, cases) ==
    [k \in TestCases |-> IF k \in cases /\ cycle[y].status = "active"
                         THEN approved[k] ELSE NoVersion]

AddedPins(y, cases) ==
    [k \in TestCases |-> IF k \in cases /\ cycle[y].status \in Running
                         THEN approved[k] ELSE NoVersion]

LoadAddCycleTests(c, y, cases) ==
    /\ cycle[y].status \in Changeable
    /\ cases # {}
    /\ ~AlreadyIn(y, cases)
    /\ cycle[y].status \in Running => \A k \in cases : approved[k] # NoVersion
    /\ Begin(c, [op |-> "add", cycle |-> y, cases |-> cases,
                 pins |-> AddedPins(y, cases)])

CommitAddCycleTests(c) ==
    /\ req[c].op = "add"
    /\ LET q == req[c] IN
       \E rows \in SUBSET {t \in CycleTests : ~Exists(t)} :
       \E case \in [rows -> q.cases] :
          /\ \A k \in q.cases : \E t \in rows : case[t] = k
          /\ \A t1, t2 \in rows : case[t1] = case[t2] => t1 = t2
          /\ cycleTest' = [t \in CycleTests |->
                IF t \in rows
                THEN NewCycleTest(q.cycle, case[t], q.pins[case[t]])
                ELSE cycleTest[t]]
    /\ Finish(c)
    /\ UNCHANGED <<approved, cycle, attempt, corrections>>

(* transition_cycle.  The caller passes the version it observed, which the *)
(* handler compares with the row it loaded; the UPDATE has no such test.   *)

\* Mutant: an archived cycle may be reopened.
ArchivedReopens ==
    {<<"draft", "active">>, <<"active", "completed">>, <<"completed", "reopened">>,
     <<"reopened", "completed">>, <<"active", "archived">>,
     <<"completed", "archived">>, <<"archived", "reopened">>}

CycleTransitions ==
    {<<"draft", "active">>, <<"active", "completed">>, <<"completed", "reopened">>,
     <<"reopened", "completed">>, <<"draft", "archived">>, <<"active", "archived">>,
     <<"completed", "archived">>, <<"reopened", "archived">>}

LoadTransitionCycle(c, y, to) ==
    /\ <<cycle[y].status, to>> \in CycleTransitions
    /\ cycle[y].version < MaxCycleVersion
    /\ to = "active" =>
          /\ LiveTests(y) # {}
          /\ \A t \in LiveTests(y) : approved[cycleTest[t].case] # NoVersion
    /\ to = "completed" => \A a \in AttemptsIn(y) : ~Open(a)
    /\ LET tests == IF to = "active" THEN LiveTests(y) ELSE {} IN
       Begin(c, [op |-> "transition", cycle |-> y, to |-> to,
                 version |-> cycle[y].version,
                 pins |-> [t \in CycleTests |-> IF t \in tests
                             THEN approved[cycleTest[t].case] ELSE NoVersion],
                 seen |-> [t \in CycleTests |-> IF t \in tests
                             THEN cycleTest[t].version ELSE NoVersion]])

CommitTransitionCycle(c) ==
    /\ req[c].op = "transition"
    /\ LET q == req[c]
           tests == {t \in CycleTests : q.pins[t] # NoVersion}
       IN
       /\ \A t \in tests : SnapshotReplaceable(t)
       /\ cycle' = [cycle EXCEPT ![q.cycle] = [status |-> q.to,
                                               version |-> q.version + 1]]
       /\ cycleTest' = [t \in CycleTests |->
                          IF t \in tests THEN Snapshot(t, q.pins[t], q.seen[t])
                                        ELSE cycleTest[t]]
    /\ Finish(c)
    /\ UNCHANGED <<approved, attempt, corrections>>

(* remove_cycle_test: soft removal, refused while an attempt is open.      *)
LoadRemoveCycleTest(c, t) ==
    /\ Exists(t) /\ ~cycleTest[t].removed
    /\ cycle[cycleTest[t].cycle].status \in Changeable
    /\ ~HasOpenAttempt(t)
    /\ Begin(c, [op |-> "remove", test |-> t])

CommitRemoveCycleTest(c) ==
    /\ req[c].op = "remove"
    /\ cycleTest' = [cycleTest EXCEPT ![req[c].test].removed = TRUE]
    /\ Finish(c)
    /\ UNCHANGED <<approved, cycle, attempt, corrections>>

(* refresh_cycle_test_version: for a cycle test nobody has attempted, in a *)
(* cycle of any status.                                                    *)
LoadRefreshVersion(c, t) ==
    /\ Exists(t)
    /\ AttemptsOf(t) = {}
    /\ approved[cycleTest[t].case] # NoVersion
    /\ Begin(c, [op |-> "refresh", test |-> t, seen |-> cycleTest[t].version,
                 version |-> approved[cycleTest[t].case]])

CommitRefreshVersion(c) ==
    /\ req[c].op = "refresh"
    /\ LET q == req[c] IN
       /\ SnapshotReplaceable(q.test)
       /\ cycleTest' = [cycleTest EXCEPT
                           ![q.test] = Snapshot(q.test, q.version, q.seen)]
    /\ Finish(c)
    /\ UNCHANGED <<approved, cycle, attempt, corrections>>

-----------------------------------------------------------------------------
(* start_attempt.  The handler never looks at removed_at.  It copies the   *)
(* version from the cycle test as loaded and the steps as they are when it *)
(* inserts them, and clears the retest request it saw, if it saw one.      *)

\* Mutant: an attempt starts in a cycle that is not active.
LoadStartAnywhere(c, t) ==
    /\ Exists(t)
    /\ cycle[cycleTest[t].cycle].status \in Changeable
    /\ cycleTest[t].version # NoVersion
    /\ ~HasOpenAttempt(t)
    /\ Begin(c, [op |-> "start", test |-> t, version |-> cycleTest[t].version,
                 retest |-> cycleTest[t].retest])

\* Mutant: the attempt starts without clearing the retest request.
LoadStartRetestKept(c, t) ==
    /\ Exists(t)
    /\ cycle[cycleTest[t].cycle].status \in Running
    /\ cycleTest[t].version # NoVersion
    /\ ~HasOpenAttempt(t)
    /\ Begin(c, [op |-> "start", test |-> t, version |-> cycleTest[t].version,
                 retest |-> FALSE])

LoadStartAttempt(c, t) ==
    /\ Exists(t)
    /\ cycle[cycleTest[t].cycle].status \in Running
    /\ cycleTest[t].version # NoVersion
    /\ ~HasOpenAttempt(t)
    /\ Begin(c, [op |-> "start", test |-> t, version |-> cycleTest[t].version,
                 retest |-> cycleTest[t].retest])

CommitStartAttempt(c) ==
    /\ req[c].op = "start"
    /\ LET q == req[c] IN
       /\ \E a \in Attempts :
             /\ attempt[a].status = "none"
             /\ attempt' = [attempt EXCEPT
                   ![a] = [NoAttempt EXCEPT !.test = q.test,
                                            !.version = q.version,
                                            !.snapshot = cycleTest[q.test].steps,
                                            !.status = "IN_PROGRESS"]]
       /\ cycleTest' = [cycleTest EXCEPT ![q.test].retest = @ /\ ~q.retest]
    /\ Finish(c)
    /\ UNCHANGED <<approved, cycle, corrections>>

(* set_step_result: writes the step row, of which only the result is kept. *)

\* Mutant: the results of a closed attempt may still be set.
LoadSetAnyStepResult(c, a, s, r) ==
    /\ Open(a) \/ Closed(a)
    /\ s \in StepsOf[attempt[a].snapshot]
    /\ Begin(c, [op |-> "step", attempt |-> a, step |-> s,
                 seen |-> attempt[a].results[s], result |-> r])

LoadSetStepResult(c, a, s, r) ==
    /\ Open(a)
    /\ s \in StepsOf[attempt[a].snapshot]
    /\ Begin(c, [op |-> "step", attempt |-> a, step |-> s,
                 seen |-> attempt[a].results[s], result |-> r])

\* Mutant: the attempt is written back with the status it was loaded with.
CommitStepAndAttempt(c) ==
    /\ req[c].op = "step"
    /\ LET q == req[c] IN
       attempt' = [attempt EXCEPT ![q.attempt].results[q.step] = q.result,
                                  ![q.attempt].status = "IN_PROGRESS"]
    /\ Finish(c)
    /\ UNCHANGED <<approved, cycle, cycleTest, corrections>>

CommitSetStepResult(c) ==
    /\ req[c].op = "step"
    /\ LET q == req[c] IN
       attempt' = [attempt EXCEPT ![q.attempt].results[q.step] =
                     IF q.result = q.seen THEN @ ELSE q.result]
    /\ Finish(c)
    /\ UNCHANGED <<approved, cycle, cycleTest, corrections>>

(* complete_attempt closes with the derived result, or with an override.   *)
LoadCompleteAttempt(c, a) ==
    /\ Open(a)
    /\ LET derived == DeriveOverallResult(attempt[a].snapshot, attempt[a].results)
       IN \/ /\ derived # "IN_PROGRESS"
             /\ Begin(c, [op |-> "close", attempt |-> a, result |-> derived,
                          override |-> FALSE])
          \/ \E r \in OverrideInputs :
                Begin(c, [op |-> "close", attempt |-> a, result |-> r,
                          override |-> TRUE])

\* Mutant: a closed attempt may be aborted.
LoadAbortClosedAttempt(c, a) ==
    /\ Open(a) \/ Closed(a)
    /\ Begin(c, [op |-> "close", attempt |-> a, result |-> "ABORTED",
                 override |-> FALSE])

LoadAbortAttempt(c, a) ==
    /\ Open(a)
    /\ Begin(c, [op |-> "close", attempt |-> a, result |-> "ABORTED",
                 override |-> FALSE])

(* The write of complete_attempt and of abort_attempt: status,             *)
(* overall_result and ended_at together; result_overridden is only set.    *)
CommitCloseAttempt(c) ==
    /\ req[c].op = "close"
    /\ LET q == req[c] IN
       attempt' = [attempt EXCEPT ![q.attempt].status = q.result,
                                  ![q.attempt].overridden = @ \/ q.override]
    /\ Finish(c)
    /\ UNCHANGED <<approved, cycle, cycleTest, corrections>>

(* request_retest: needs a closed attempt, in a cycle of any status.       *)

\* Mutant: any attempt will do, also one in progress.
LoadRetestOfAny(c, t) ==
    /\ AttemptsOf(t) # {}
    /\ Begin(c, [op |-> "retest", test |-> t])

LoadRequestRetest(c, t) ==
    /\ \E a \in AttemptsOf(t) : Closed(a)
    /\ Begin(c, [op |-> "retest", test |-> t])

CommitRequestRetest(c) ==
    /\ req[c].op = "retest"
    /\ cycleTest' = [cycleTest EXCEPT ![req[c].test].retest = TRUE]
    /\ Finish(c)
    /\ UNCHANGED <<approved, cycle, attempt, corrections>>

(* correct_attempt: a new execution_correction row, the attempt untouched. *)
LoadCorrectAttempt(c, a, r) ==
    /\ Closed(a)
    /\ Begin(c, [op |-> "correct", attempt |-> a, result |-> r])

CommitCorrectAttempt(c) ==
    /\ req[c].op = "correct"
    /\ LET q == req[c] IN
       /\ Len(corrections[q.attempt]) < MaxCorrections
       /\ corrections' = [corrections EXCEPT ![q.attempt] = Append(@, q.result)]
    /\ Finish(c)
    /\ UNCHANGED <<approved, cycle, cycleTest, attempt>>

(* A request that raises, loses its connection or fails at the database    *)
(* (core/db.py) rolls its transaction back.                                *)
FailRequest(c) ==
    /\ req[c] # Idle
    /\ Finish(c)
    /\ UNCHANGED <<approved, cycle, cycleTest, attempt, corrections>>

-----------------------------------------------------------------------------
LoadCycleRequest(c) ==
    \/ \E y \in Cycles : \/ \E cases \in SUBSET TestCases : LoadAddCycleTests(c, y, cases)
                         \/ \E to \in CycleStatuses : LoadTransitionCycle(c, y, to)
    \/ \E t \in CycleTests : LoadRemoveCycleTest(c, t) \/ LoadRefreshVersion(c, t)

LoadExecutionRequest(c) ==
    \/ \E t \in CycleTests : LoadStartAttempt(c, t) \/ LoadRequestRetest(c, t)
    \/ \E a \in Attempts :
          \/ \E s \in Steps, r \in StepInputs : LoadSetStepResult(c, a, s, r)
          \/ LoadCompleteAttempt(c, a)
          \/ LoadAbortAttempt(c, a)
          \/ \E r \in OverrideInputs : LoadCorrectAttempt(c, a, r)

CommitRequest(c) ==
    \/ CommitAddCycleTests(c)
    \/ CommitTransitionCycle(c)
    \/ CommitRemoveCycleTest(c)
    \/ CommitRefreshVersion(c)
    \/ CommitStartAttempt(c)
    \/ CommitSetStepResult(c)
    \/ CommitCloseAttempt(c)
    \/ CommitRequestRetest(c)
    \/ CommitCorrectAttempt(c)

Next ==
    \/ \E k \in TestCases : ApproveVersion(k)
    \/ \E y \in Cycles : CreateCycle(y) \/ \E new \in Cycles : CloneCycle(y, new)
    \/ \E c \in Clients : \/ LoadCycleRequest(c)
                          \/ LoadExecutionRequest(c)
                          \/ CommitRequest(c)
                          \/ FailRequest(c)

Spec == Init /\ [][Next]_vars

-----------------------------------------------------------------------------
(* What holds however requests interleave                                  *)

\* An attempt executes the steps its cycle test holds now, and there are some:
\* however start_attempt, refresh_cycle_test_version and the activation of a
\* cycle interleave, evidence never refers to steps that were replaced.
EvidencePinned ==
    \A a \in Attempts : attempt[a].status # "none" =>
        /\ attempt[a].test \in CycleTests /\ Exists(attempt[a].test)
        /\ attempt[a].snapshot = cycleTest[attempt[a].test].steps
        /\ attempt[a].snapshot # NoVersion

\* complete_attempt and abort_attempt only ever close: whatever else is in
\* flight, an attempt that has a final result never goes back to open.
ClosedStaysClosed == [][\A a \in Attempts : Closed(a) => Closed(a)']_vars

\* correct_attempt and request_retest look for a closed attempt and write
\* later; no interleaving leaves a correction on, or a retest request after,
\* an attempt that is not closed.
FollowUpsHaveHistory ==
    /\ \A a \in Attempts : corrections[a] # <<>> => Closed(a)
    /\ \A t \in CycleTests : cycleTest[t].retest =>
          \E a \in AttemptsOf(t) : Closed(a)

\* There is no attempt in a cycle that was never activated: no pair of
\* overlapping transitions brings a cycle with evidence back to draft, where
\* activation would snapshot its tests again.
AttemptsInActivatedCycles ==
    \A y \in Cycles : cycle[y].status \in {"none", "draft"} => AttemptsIn(y) = {}

\* A row is there as a whole or not at all, and a test names a version
\* exactly if it holds steps.
WholeRows ==
    \A t \in CycleTests :
        /\ Exists(t) => cycleTest[t].case # "none"
        /\ ~Exists(t) => cycleTest[t].steps = NoVersion
        /\ cycleTest[t].version = NoVersion <=> cycleTest[t].steps = NoVersion

\* What a request relied on when it loaded its rows and what is still so when
\* it commits, whatever the others committed in between: the handlers take
\* no lock, so this is all that keeps their writes sound.
StillLoaded(q) ==
    /\ q.op = "transition" =>
          /\ q.to # "draft"
          /\ \A t \in CycleTests :
                /\ q.pins[t] # NoVersion => Exists(t)
                /\ q.seen[t] # NoVersion => cycleTest[t].version # NoVersion
    /\ q.op = "refresh" =>
          /\ Exists(q.test)
          /\ q.seen # NoVersion => cycleTest[q.test].version # NoVersion
    /\ q.op = "start" =>
          /\ Exists(q.test)
          /\ cycleTest[q.test].version # NoVersion
          /\ cycle[cycleTest[q.test].cycle].status \notin {"none", "draft"}
    /\ q.op = "remove" => Exists(q.test)
    /\ q.op = "retest" => \E a \in AttemptsOf(q.test) : Closed(a)
    /\ q.op \in {"step", "close"} => attempt[q.attempt].status # "none"
    /\ q.op = "correct" => Closed(q.attempt)

\* The inductive invariant behind the properties above.
IInv ==
    /\ TypeOK
    /\ WholeRows
    /\ EvidencePinned
    /\ FollowUpsHaveHistory
    /\ AttemptsInActivatedCycles
    /\ \A c \in Clients : StillLoaded(req[c])

-----------------------------------------------------------------------------
(* What holds when requests do not overlap, and not otherwise              *)

\* start_attempt refuses a second attempt while one is open.
OneOpenAttempt ==
    \A t \in CycleTests : \A a, b \in AttemptsOf(t) : Open(a) /\ Open(b) => a = b

\* transition_cycle completes a cycle only when no attempt in it is open, and
\* start_attempt opens none in a completed cycle.
NoOpenAttemptInCompletedCycle ==
    \A y \in Cycles : cycle[y].status = "completed" =>
        \A a \in AttemptsIn(y) : ~Open(a)

\* add_cycle_tests and clone_cycle keep a case at most once in a cycle,
\* counting the tests that are not removed.
CaseOncePerCycle ==
    \A y \in Cycles : \A t1, t2 \in LiveTests(y) :
        cycleTest[t1].case = cycleTest[t2].case => t1 = t2

\* Every test of a running cycle has a snapshot, whether it was there at the
\* activation or was added later.
RunningTestsSnapshotted ==
    \A y \in Cycles : cycle[y].status \in Running =>
        \A t \in LiveTests(y) : cycleTest[t].version # NoVersion

\* An attempt names the version whose steps it executes.
AttemptRunsItsVersion ==
    \A a \in Attempts : attempt[a].version = attempt[a].snapshot

\* A closed attempt that was neither aborted nor overridden has the result
\* that derive_overall_result gives for the steps recorded in it.
ResultAgreesWithEvidence ==
    \A a \in Attempts :
        Closed(a) /\ attempt[a].status # "ABORTED" /\ ~attempt[a].overridden =>
            attempt[a].status
              = DeriveOverallResult(attempt[a].snapshot, attempt[a].results)

\* Every change of the status of a cycle raises its version, and an archived
\* cycle stays archived: a caller that passes the version it observed never
\* overwrites a change it has not seen.
CycleChangesCounted ==
    [][\A y \in Cycles : cycle[y].status # cycle'[y].status =>
          /\ cycle'[y].version > cycle[y].version
          /\ cycle[y].status # "archived"]_vars

\* Starting an attempt answers the retest request: RETEST_PENDING is not shown
\* on account of a request made before the newest attempt.
StartAnswersRetest ==
    [][\A a \in Attempts : attempt[a].status = "none" /\ Open(a)' =>
          ~cycleTest'[attempt'[a].test].retest]_vars

\* The attempts and their corrections, as entries of the abstract ledger.
Ledger == INSTANCE AttemptLedger WITH
    Results <- Terminal,
    Judgement <- DeriveOverallResult,
    ledger <- [a \in Attempts |->
        [test |-> attempt[a].test, version |-> attempt[a].version,
         outcome |-> attempt[a].status, evidence |-> attempt[a].results,
         overridden |-> attempt[a].overridden, corrections |-> corrections[a]]]

\* The execution handlers implement the ledger.
ImplementsLedger == Ledger!Spec
=============================================================================
