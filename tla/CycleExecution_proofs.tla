----------------------- MODULE CycleExecution_proofs -----------------------
(***************************************************************************)
(* Proofs about CycleExecution, for any number of requests in flight and   *)
(* any sets of cycles, cases, tests and attempts.                          *)
(*                                                                         *)
(* The invariant IInv has two halves: what the committed rows satisfy, and *)
(* what each request in flight still finds as it loaded it (StillLoaded).  *)
(* A load establishes the second half for one request (BeginKeeps).  A     *)
(* commit keeps it for all the others because it takes nothing away that   *)
(* they may rely on (NothingLost), and uses its own half to keep the rows  *)
(* in order (Rows).  Commits to cycles and cycle tests are all of one kind  *)
(* (ScopeStep) and share their argument.                                   *)
(***************************************************************************)
EXTENDS CycleExecution, TLAPS

\* The arguments of a request have the types that Requests gives them: the
\* operation of a request in flight tells which record it is.
LEMMA RequestFields ==
    ASSUME NEW q \in Requests
    PROVE  /\ q.op = "add" =>
                /\ q.cycle \in Cycles
                /\ q.cases \in SUBSET TestCases
                /\ q.pins \in [TestCases -> Versions \cup {NoVersion}]
           /\ q.op = "transition" =>
                /\ q.cycle \in Cycles
                /\ q.version \in Nat
                /\ q.to \in CycleStatuses
                /\ q.pins \in [CycleTests -> Versions \cup {NoVersion}]
                /\ q.seen \in [CycleTests -> Versions \cup {NoVersion}]
           /\ q.op \in {"remove", "retest"} => q.test \in CycleTests
           /\ q.op = "refresh" =>
                /\ q.test \in CycleTests
                /\ q.version \in Versions
                /\ q.seen \in Versions \cup {NoVersion}
           /\ q.op = "start" =>
                /\ q.test \in CycleTests
                /\ q.version \in Versions
                /\ q.retest \in BOOLEAN
           /\ q.op = "step" =>
                /\ q.attempt \in Attempts
                /\ q.step \in Steps
                /\ q.seen \in StepResults
                /\ q.result \in StepResults
           /\ q.op = "close" =>
                /\ q.attempt \in Attempts
                /\ q.result \in Terminal
                /\ q.override \in BOOLEAN
           /\ q.op = "correct" =>
                /\ q.attempt \in Attempts
                /\ q.result \in Terminal
BY DEF Requests, Idle



-----------------------------------------------------------------------------
(* What every committed request leaves in place for the others in flight   *)

NothingLost ==
    /\ \A t \in CycleTests : Exists(t) =>
          /\ Exists(t)'
          /\ cycleTest'[t].cycle = cycleTest[t].cycle
          /\ cycleTest[t].version # NoVersion => cycleTest'[t].version # NoVersion
    /\ \A y \in Cycles : cycle[y].status \notin {"none", "draft"} =>
          cycle'[y].status \notin {"none", "draft"}
    /\ \A a \in Attempts : attempt[a].status # "none" =>
          /\ attempt'[a].status # "none"
          /\ attempt'[a].test = attempt[a].test
          /\ attempt'[a].snapshot = attempt[a].snapshot
          /\ Closed(a) => Closed(a)'

\* What a request found when it loaded its rows, no step takes away.
LEMMA StillLoadedStable ==
    ASSUME TypeOK, WholeRows, NothingLost,
           NEW q \in Requests, StillLoaded(q)
    PROVE  StillLoaded(q)'
<1>1. CASE q.op = "transition"
  BY <1>1 DEF StillLoaded, NothingLost, WholeRows, Exists
<1>2. CASE q.op = "refresh"
  BY <1>2, RequestFields DEF StillLoaded, NothingLost, WholeRows, Exists
<1>3. CASE q.op = "start"
  BY <1>3, RequestFields
     DEF StillLoaded, NothingLost, Exists, TypeOK, CycleTestRows
<1>4. CASE q.op = "remove"
  BY <1>4, RequestFields DEF StillLoaded, NothingLost
<1>5. CASE q.op = "retest"
  BY <1>5, RequestFields DEF StillLoaded, NothingLost, AttemptsOf, Closed, Terminal
<1>6. CASE q.op \in {"step", "close", "correct"}
  BY <1>6, RequestFields DEF StillLoaded, NothingLost, Closed, Terminal
<1> QED
  BY <1>1, <1>2, <1>3, <1>4, <1>5, <1>6 DEF StillLoaded

\* A step ends some of the requests in flight and touches no other.
RequestsEnd ==
    /\ req' \in [Clients -> Requests]
    /\ \A d \in Clients : req'[d] \in {Idle, req[d]}

\* Ending one request, or none, is a RequestsEnd step.
LEMMA FinishEnds ==
    ASSUME TypeOK, (\E c \in Clients : Finish(c)) \/ UNCHANGED req
    PROVE  RequestsEnd
<1>1. CASE UNCHANGED req
  BY <1>1 DEF TypeOK, RequestsEnd
<1>2. ASSUME NEW c \in Clients, Finish(c) PROVE RequestsEnd
  BY <1>2 DEF TypeOK, RequestsEnd, Finish, Requests, Idle
<1> QED
  BY <1>1, <1>2

\* A step that takes nothing away leaves every request with what it loaded.
LEMMA InFlightStable ==
    ASSUME IInv, NothingLost, RequestsEnd
    PROVE  \A d \in Clients : StillLoaded(req[d])'
<1>1. SUFFICES ASSUME NEW d \in Clients PROVE StillLoaded(req[d])'
  OBVIOUS
<1>2. CASE req'[d] = Idle
  BY <1>2 DEF StillLoaded, Idle
<1>3. CASE req'[d] = req[d]
  <2>1. PICK q \in Requests : q = req[d] /\ StillLoaded(q)
    BY DEF IInv, TypeOK
  <2>2. StillLoaded(q)'
    BY <2>1, StillLoadedStable DEF IInv
  <2> QED
    BY <1>3, <2>1, <2>2
<1> QED
  BY <1>2, <1>3 DEF RequestsEnd

-----------------------------------------------------------------------------
(* Loads: only the request in flight changes                               *)

\* Beginning a request keeps the invariant if the request holds what it
\* loaded at that moment.
LEMMA BeginKeeps ==
    ASSUME IInv, NEW c \in Clients, NEW request \in Requests,
           StillLoaded(request), Begin(c, request)
    PROVE  IInv' /\ NothingLost
<1>1. /\ UNCHANGED <<approved, cycle, cycleTest, attempt, corrections>>
      /\ req' = [req EXCEPT ![c] = request]
  BY DEF Begin
<1>2. TypeOK'
  BY <1>1 DEF IInv, TypeOK
<1>3. WholeRows' /\ EvidencePinned' /\ FollowUpsHaveHistory' /\ AttemptsInActivatedCycles'
  BY <1>1 DEF IInv, WholeRows, EvidencePinned, FollowUpsHaveHistory,
              AttemptsInActivatedCycles, Exists, Open, Closed, AttemptsOf, AttemptsIn
<1>4. NothingLost
  BY <1>1 DEF NothingLost, Exists, Closed
<1>5. ASSUME NEW d \in Clients PROVE StillLoaded(req[d])'
  <2>1. PICK q \in Requests : q = req'[d] /\ StillLoaded(q)
    BY <1>1 DEF IInv, TypeOK
  <2>2. StillLoaded(q)'
    BY <2>1, <1>4, StillLoadedStable DEF IInv
  <2> QED
    BY <2>1, <2>2
<1> QED
  BY <1>2, <1>3, <1>4, <1>5 DEF IInv

\* The checks of the handlers of planning.py give what StillLoaded asks.
LEMMA CycleLoads ==
    ASSUME IInv, NEW c \in Clients, LoadCycleRequest(c)
    PROVE  IInv' /\ NothingLost
<1> USE DEF IInv, TypeOK
<1>1. ASSUME NEW y \in Cycles, NEW cases \in SUBSET TestCases, LoadAddCycleTests(c, y, cases)
      PROVE  IInv' /\ NothingLost
  <2> DEFINE r == [op |-> "add", cycle |-> y, cases |-> cases, pins |-> AddedPins(y, cases)]
  <2>1. r \in Requests
    BY DEF Requests, AddedPins
  <2>2. StillLoaded(r)
    BY DEF StillLoaded
  <2> QED
    BY <1>1, <2>1, <2>2, BeginKeeps DEF LoadAddCycleTests
<1>2. ASSUME NEW y \in Cycles, NEW to \in CycleStatuses, LoadTransitionCycle(c, y, to)
      PROVE  IInv' /\ NothingLost
  <2> DEFINE tests == IF to = "active" THEN LiveTests(y) ELSE {}
             r == [op |-> "transition", cycle |-> y, to |-> to,
                   version |-> cycle[y].version,
                   pins |-> [t \in CycleTests |-> IF t \in tests
                               THEN approved[cycleTest[t].case] ELSE NoVersion],
                   seen |-> [t \in CycleTests |-> IF t \in tests
                               THEN cycleTest[t].version ELSE NoVersion]]
  <2>1. \A t \in tests : t \in CycleTests /\ cycleTest[t].cycle = y
    BY DEF LiveTests
  <2>2. \A t \in tests : Exists(t)
    BY <2>1, IdsAssumption DEF Exists
  <2>3. \A t \in tests : cycleTest[t].case \in TestCases
    BY <2>1, <2>2 DEF WholeRows, CycleTestRows
  <2>4. r \in Requests
    <3>1. \A t \in CycleTests : cycleTest[t].version \in Versions \cup {NoVersion}
      BY DEF CycleTestRows
    <3>2. r.pins \in [CycleTests -> Versions \cup {NoVersion}]
      BY <2>3
    <3>3. r.seen \in [CycleTests -> Versions \cup {NoVersion}]
      BY <3>1
    <3>4. r.version \in Nat
      BY DEF CycleRows
    <3> HIDE DEF tests
    <3> QED
      BY <3>2, <3>3, <3>4 DEF Requests
  <2>5. StillLoaded(r)
    <3>1. to # "draft"
      BY <1>2 DEF LoadTransitionCycle, CycleTransitions
    <3>2. \A t \in CycleTests : /\ r.pins[t] # NoVersion => Exists(t)
                                /\ r.seen[t] # NoVersion => cycleTest[t].version # NoVersion
      BY <2>2
    <3> HIDE DEF tests
    <3> QED
      BY <3>1, <3>2 DEF StillLoaded
  <2>6. Begin(c, r)
    BY <1>2 DEF LoadTransitionCycle
  <2> HIDE DEF r
  <2> QED
    BY <2>4, <2>5, <2>6, BeginKeeps
<1>3. ASSUME NEW t \in CycleTests, LoadRemoveCycleTest(c, t)
      PROVE  IInv' /\ NothingLost
  <2> DEFINE r == [op |-> "remove", test |-> t]
  <2>1. r \in Requests
    BY DEF Requests
  <2>2. StillLoaded(r)
    BY <1>3 DEF StillLoaded, LoadRemoveCycleTest
  <2> QED
    BY <1>3, <2>1, <2>2, BeginKeeps DEF LoadRemoveCycleTest
<1>4. ASSUME NEW t \in CycleTests, LoadRefreshVersion(c, t)
      PROVE  IInv' /\ NothingLost
  <2> DEFINE r == [op |-> "refresh", test |-> t, seen |-> cycleTest[t].version,
                   version |-> approved[cycleTest[t].case]]
  <2>1. cycleTest[t].case \in TestCases
    BY <1>4 DEF LoadRefreshVersion, WholeRows, CycleTestRows
  <2>2. r \in Requests
    BY <1>4, <2>1 DEF LoadRefreshVersion, Requests, CycleTestRows
  <2>3. StillLoaded(r)
    BY <1>4 DEF StillLoaded, LoadRefreshVersion
  <2> QED
    BY <1>4, <2>2, <2>3, BeginKeeps DEF LoadRefreshVersion
<1> QED
  BY <1>1, <1>2, <1>3, <1>4 DEF LoadCycleRequest

\* The checks of the handlers of execution.py give what StillLoaded asks.
LEMMA ExecutionLoads ==
    ASSUME IInv, NEW c \in Clients, LoadExecutionRequest(c)
    PROVE  IInv' /\ NothingLost
<1> USE DEF IInv, TypeOK
<1>1. ASSUME NEW t \in CycleTests, LoadStartAttempt(c, t)
      PROVE  IInv' /\ NothingLost
  <2> DEFINE r == [op |-> "start", test |-> t, version |-> cycleTest[t].version,
                   retest |-> cycleTest[t].retest]
  <2>1. r \in Requests
    BY <1>1 DEF LoadStartAttempt, Requests, CycleTestRows
  <2>2. StillLoaded(r)
    BY <1>1 DEF StillLoaded, LoadStartAttempt, Running
  <2> QED
    BY <1>1, <2>1, <2>2, BeginKeeps DEF LoadStartAttempt
<1>2. ASSUME NEW t \in CycleTests, LoadRequestRetest(c, t)
      PROVE  IInv' /\ NothingLost
  <2> DEFINE r == [op |-> "retest", test |-> t]
  <2>1. r \in Requests
    BY DEF Requests
  <2>2. StillLoaded(r)
    BY <1>2 DEF StillLoaded, LoadRequestRetest
  <2> QED
    BY <1>2, <2>1, <2>2, BeginKeeps DEF LoadRequestRetest
<1>3. ASSUME NEW a \in Attempts, NEW s \in Steps, NEW v \in StepInputs,
             LoadSetStepResult(c, a, s, v)
      PROVE  IInv' /\ NothingLost
  <2> DEFINE r == [op |-> "step", attempt |-> a, step |-> s,
                   seen |-> attempt[a].results[s], result |-> v]
  <2>1. r \in Requests
    BY InputsAssumption DEF Requests, AttemptRows
  <2>2. StillLoaded(r)
    BY <1>3 DEF StillLoaded, LoadSetStepResult, Open
  <2> QED
    BY <1>3, <2>1, <2>2, BeginKeeps DEF LoadSetStepResult
<1>4. ASSUME NEW a \in Attempts, Open(a),
             NEW v \in Terminal, NEW o \in BOOLEAN,
             Begin(c, [op |-> "close", attempt |-> a, result |-> v, override |-> o])
      PROVE  IInv' /\ NothingLost
  <2> DEFINE r == [op |-> "close", attempt |-> a, result |-> v, override |-> o]
  <2>1. r \in Requests
    BY DEF Requests
  <2>2. StillLoaded(r)
    BY <1>4 DEF StillLoaded, Open
  <2> QED
    BY <1>4, <2>1, <2>2, BeginKeeps
<1>5. ASSUME NEW a \in Attempts, LoadCompleteAttempt(c, a)
      PROVE  IInv' /\ NothingLost
  <2> DEFINE derived == DeriveOverallResult(attempt[a].snapshot, attempt[a].results)
  <2>1. derived # "IN_PROGRESS" => derived \in Terminal
    BY DEF DeriveOverallResult, Terminal
  <2> HIDE DEF derived
  <2>2. Open(a)
    BY <1>5 DEF LoadCompleteAttempt
  <2>3. CASE /\ derived # "IN_PROGRESS"
             /\ Begin(c, [op |-> "close", attempt |-> a, result |-> derived,
                          override |-> FALSE])
    BY <2>1, <2>2, <2>3, <1>4
  <2>4. ASSUME NEW v \in OverrideInputs,
               Begin(c, [op |-> "close", attempt |-> a, result |-> v, override |-> TRUE])
        PROVE  IInv' /\ NothingLost
    <3>1. v \in Terminal
      BY InputsAssumption
    <3> QED
      BY <2>2, <2>4, <3>1, <1>4
  <2> QED
    BY <1>5, <2>3, <2>4 DEF LoadCompleteAttempt, derived
<1>6. ASSUME NEW a \in Attempts, LoadAbortAttempt(c, a)
      PROVE  IInv' /\ NothingLost
  <2>1. "ABORTED" \in Terminal
    BY DEF Terminal
  <2> QED
    BY <1>6, <2>1, <1>4 DEF LoadAbortAttempt
<1>7. ASSUME NEW a \in Attempts, NEW v \in OverrideInputs, LoadCorrectAttempt(c, a, v)
      PROVE  IInv' /\ NothingLost
  <2> DEFINE r == [op |-> "correct", attempt |-> a, result |-> v]
  <2>1. r \in Requests
    BY InputsAssumption DEF Requests
  <2>2. StillLoaded(r)
    BY <1>7 DEF StillLoaded, LoadCorrectAttempt
  <2> QED
    BY <1>7, <2>1, <2>2, BeginKeeps DEF LoadCorrectAttempt
<1> QED
  BY <1>1, <1>2, <1>3, <1>5, <1>6, <1>7 DEF LoadExecutionRequest

-----------------------------------------------------------------------------
(* Commits                                                                 *)

\* The parts of IInv that speak of rows alone.
Rows == /\ WholeRows
        /\ EvidencePinned
        /\ FollowUpsHaveHistory
        /\ AttemptsInActivatedCycles

\* A step keeps the invariant if it keeps the types and the rows in order,
\* takes nothing away, and begins no request.
LEMMA CommitKeeps ==
    ASSUME IInv, NothingLost, Rows',
           (\E c \in Clients : Finish(c)) \/ UNCHANGED req,
           approved' \in [TestCases -> Versions \cup {NoVersion}],
           cycle' \in [Cycles -> CycleRows],
           cycleTest' \in [CycleTests -> CycleTestRows],
           attempt' \in [Attempts -> AttemptRows],
           corrections' \in [Attempts -> Seq(Terminal)]
    PROVE  IInv' /\ NothingLost
<1>0. RequestsEnd
  BY FinishEnds DEF IInv
<1>1. TypeOK'
  BY <1>0 DEF RequestsEnd, TypeOK
<1>2. \A d \in Clients : StillLoaded(req[d])'
  BY <1>0, InFlightStable
<1> QED
  BY <1>1, <1>2 DEF IInv, Rows

\* A request that rolls back (core/db.py) keeps the invariant.
LEMMA FailKeeps ==
    ASSUME IInv, NEW c \in Clients, FailRequest(c)
    PROVE  IInv' /\ NothingLost
<1>1. Finish(c) /\ UNCHANGED <<approved, cycle, cycleTest, attempt, corrections>>
  BY DEF FailRequest
<1>2. NothingLost
  BY <1>1 DEF NothingLost, Exists, Closed
<1>3. Rows'
  BY <1>1 DEF IInv, Rows, WholeRows, EvidencePinned, FollowUpsHaveHistory,
              AttemptsInActivatedCycles, Exists, Open, Closed, AttemptsOf, AttemptsIn
<1> QED
  BY <1>1, <1>2, <1>3, CommitKeeps DEF IInv, TypeOK

\* The write of set_step_result keeps the invariant.
LEMMA StepKeeps ==
    ASSUME IInv, NEW c \in Clients, CommitSetStepResult(c)
    PROVE  IInv' /\ NothingLost
<1> USE DEF IInv, TypeOK
<1>1. PICK q \in Requests : q = req[c] /\ q.op = "step" /\ StillLoaded(q)
  BY DEF CommitSetStepResult
<1>2. /\ q.attempt \in Attempts /\ q.step \in Steps
      /\ q.seen \in StepResults /\ q.result \in StepResults
  BY <1>1, RequestFields
<1>3. /\ Finish(c)
      /\ UNCHANGED <<approved, cycle, cycleTest, corrections>>
      /\ attempt' = [attempt EXCEPT ![q.attempt].results[q.step] =
                       IF q.result = q.seen THEN @ ELSE q.result]
  BY <1>1 DEF CommitSetStepResult
<1>4. attempt' \in [Attempts -> AttemptRows]
  <2> DEFINE old == attempt[q.attempt]
             results == [old.results EXCEPT ![q.step] =
                           IF q.result = q.seen THEN @ ELSE q.result]
             row == [old EXCEPT !.results = results]
  <2>1. old \in AttemptRows
    BY <1>2
  <2>2. old.results \in [Steps -> StepResults]
    BY <2>1 DEF AttemptRows
  <2>3. results \in [Steps -> StepResults]
    BY <1>2, <2>2
  <2> HIDE DEF results
  <2>4. row \in AttemptRows
    BY <2>1, <2>3 DEF AttemptRows
  <2>5. attempt' = [attempt EXCEPT ![q.attempt] = row]
    BY <1>3 DEF results
  <2> HIDE DEF row
  <2> QED
    BY <1>2, <2>4, <2>5
<1>5. \A a \in Attempts : /\ attempt'[a].status = attempt[a].status
                          /\ attempt'[a].test = attempt[a].test
                          /\ attempt'[a].snapshot = attempt[a].snapshot
  BY <1>2, <1>3 DEF AttemptRows
<1>6. NothingLost
  BY <1>3, <1>5 DEF NothingLost, Exists, Closed
<1>7. Rows'
  BY <1>3, <1>5 DEF Rows, WholeRows, EvidencePinned, FollowUpsHaveHistory,
        AttemptsInActivatedCycles, Exists, Open, Closed, AttemptsOf, AttemptsIn
<1> QED
  BY <1>3, <1>4, <1>6, <1>7, CommitKeeps

\* The write of complete_attempt and abort_attempt keeps the invariant.
LEMMA CloseKeeps ==
    ASSUME IInv, NEW c \in Clients, CommitCloseAttempt(c)
    PROVE  IInv' /\ NothingLost
<1> USE DEF IInv, TypeOK
<1>1. PICK q \in Requests : q = req[c] /\ q.op = "close" /\ StillLoaded(q)
  BY DEF CommitCloseAttempt
<1>2. /\ q.attempt \in Attempts /\ q.result \in Terminal
      /\ q.override \in BOOLEAN /\ attempt[q.attempt].status # "none"
  BY <1>1, RequestFields DEF StillLoaded
<1>3. /\ Finish(c)
      /\ UNCHANGED <<approved, cycle, cycleTest, corrections>>
      /\ attempt' = [attempt EXCEPT ![q.attempt].status = q.result,
                                    ![q.attempt].overridden = @ \/ q.override]
  BY <1>1 DEF CommitCloseAttempt
<1>4. attempt' \in [Attempts -> AttemptRows]
  <2> DEFINE old == attempt[q.attempt]
             row == [old EXCEPT !.status = q.result,
                                !.overridden = @ \/ q.override]
  <2>1. old \in AttemptRows
    BY <1>2
  <2>2. (old.overridden \/ q.override) \in BOOLEAN
    OBVIOUS
  <2>3. row \in AttemptRows
    BY <1>2, <2>1, <2>2 DEF AttemptRows
  <2>4. attempt' = [attempt EXCEPT ![q.attempt] = row]
    BY <1>3
  <2> HIDE DEF row
  <2> QED
    BY <1>2, <2>3, <2>4
<1>5. \A a \in Attempts :
         /\ attempt'[a].status = IF a = q.attempt THEN q.result ELSE attempt[a].status
         /\ attempt'[a].test = attempt[a].test
         /\ attempt'[a].snapshot = attempt[a].snapshot
  BY <1>2, <1>3 DEF AttemptRows
<1>6. \A a \in Attempts : /\ Closed(a) => Closed(a)'
                          /\ attempt'[a].status = "none" <=> attempt[a].status = "none"
  BY <1>2, <1>5 DEF Closed, Terminal
<1>7. NothingLost
  BY <1>3, <1>5, <1>6 DEF NothingLost, Exists
<1>8. Rows'
  <2>1. WholeRows'
    BY <1>3 DEF WholeRows, Exists
  <2>2. EvidencePinned'
    BY <1>3, <1>5, <1>6 DEF EvidencePinned, Exists
  <2>3. FollowUpsHaveHistory'
    BY <1>3, <1>5, <1>6 DEF FollowUpsHaveHistory, AttemptsOf
  <2>4. AttemptsInActivatedCycles'
    BY <1>3, <1>5, <1>6 DEF AttemptsInActivatedCycles, AttemptsIn
  <2> QED
    BY <2>1, <2>2, <2>3, <2>4 DEF Rows
<1> QED
  BY <1>3, <1>4, <1>7, <1>8, CommitKeeps

\* The insert of correct_attempt keeps the invariant.
LEMMA CorrectKeeps ==
    ASSUME IInv, NEW c \in Clients, CommitCorrectAttempt(c)
    PROVE  IInv' /\ NothingLost
<1> USE DEF IInv, TypeOK
<1>1. PICK q \in Requests : q = req[c] /\ q.op = "correct" /\ StillLoaded(q)
  BY DEF CommitCorrectAttempt
<1>2. q.attempt \in Attempts /\ q.result \in Terminal /\ Closed(q.attempt)
  BY <1>1, RequestFields DEF StillLoaded
<1>3. /\ Finish(c)
      /\ UNCHANGED <<approved, cycle, cycleTest, attempt>>
      /\ corrections' = [corrections EXCEPT ![q.attempt] = Append(@, q.result)]
  BY <1>1 DEF CommitCorrectAttempt
<1>4. corrections' \in [Attempts -> Seq(Terminal)]
  BY <1>2, <1>3
<1>5. NothingLost
  BY <1>3 DEF NothingLost, Exists, Closed
<1>6. \A a \in Attempts : corrections'[a] # <<>> => Closed(a)'
  BY <1>2, <1>3 DEF FollowUpsHaveHistory, Closed
<1>7. Rows'
  BY <1>3, <1>6 DEF Rows, WholeRows, EvidencePinned, FollowUpsHaveHistory,
        AttemptsInActivatedCycles, Exists, Closed, AttemptsOf, AttemptsIn
<1> QED
  BY <1>3, <1>4, <1>5, <1>7, CommitKeeps

\* What a commit to the rows of cycles and cycle tests amounts to, when it
\* leaves the attempts alone.
ScopeStep ==
    /\ UNCHANGED <<attempt, corrections>>
    /\ \A y \in Cycles : cycle[y].status \notin {"none", "draft"} =>
          cycle'[y].status \notin {"none", "draft"}
    /\ \A t \in CycleTests :
          /\ Exists(t) => /\ cycleTest'[t].cycle = cycleTest[t].cycle
                          /\ cycleTest'[t].case = cycleTest[t].case
          /\ Exists(t)' => cycleTest'[t].case # "none"
          /\ ~Exists(t)' => cycleTest'[t].steps = NoVersion
          /\ cycleTest'[t].version = NoVersion <=> cycleTest'[t].steps = NoVersion
          /\ cycleTest[t].version # NoVersion => cycleTest'[t].version # NoVersion
          /\ AttemptsOf(t) # {} => cycleTest'[t].steps = cycleTest[t].steps
          /\ cycleTest'[t].retest =>
                cycleTest[t].retest \/ \E a \in AttemptsOf(t) : Closed(a)

\* A commit to cycles and cycle tests keeps the rows in order.
LEMMA ScopeStepKeepsRows ==
    ASSUME IInv, ScopeStep
    PROVE  NothingLost /\ Rows'
<1> USE DEF IInv
<1>1. NothingLost
  BY DEF ScopeStep, NothingLost, Exists, Closed
<1>2. WholeRows'
  BY DEF ScopeStep, WholeRows
<1>3. \A a \in Attempts : attempt[a].status # "none" =>
         /\ attempt[a].test \in CycleTests
         /\ a \in AttemptsOf(attempt[a].test)
         /\ Exists(attempt[a].test)
  BY DEF EvidencePinned, Exists, AttemptsOf, TypeOK, AttemptRows
<1>4. EvidencePinned'
  BY <1>3 DEF ScopeStep, EvidencePinned, Exists
<1>5. FollowUpsHaveHistory'
  BY DEF ScopeStep, FollowUpsHaveHistory, Closed, AttemptsOf
<1>6. AttemptsInActivatedCycles'
  <2>1. SUFFICES ASSUME NEW y \in Cycles, cycle'[y].status \in {"none", "draft"},
                        NEW a \in Attempts, attempt'[a].status # "none",
                        cycleTest'[attempt'[a].test].cycle = y
                 PROVE  FALSE
    BY DEF AttemptsInActivatedCycles, AttemptsIn
  <2>2. attempt'[a] = attempt[a] /\ cycle[y].status \in {"none", "draft"}
    BY <2>1 DEF ScopeStep
  <2>3. cycleTest[attempt[a].test].cycle = y
    BY <1>3, <2>1, <2>2 DEF ScopeStep
  <2> QED
    BY <2>1, <2>2, <2>3 DEF AttemptsInActivatedCycles, AttemptsIn
<1> QED
  BY <1>1, <1>2, <1>4, <1>5, <1>6 DEF Rows

\* A cycle test that is not there has no version, no steps, no attempts.
LEMMA AbsentRows ==
    ASSUME IInv, NEW t \in CycleTests, ~Exists(t)
    PROVE  /\ AttemptsOf(t) = {}
           /\ cycleTest[t].version = NoVersion
           /\ cycleTest[t].steps = NoVersion
BY DEF IInv, WholeRows, EvidencePinned, AttemptsOf

\* Overwriting one row with a well formed one keeps the table well formed.
LEMMA RowOverwritten ==
    ASSUME NEW Ids, NEW Rowset, NEW table \in [Ids -> Rowset],
           NEW x \in Ids, NEW row \in Rowset
    PROVE  [table EXCEPT ![x] = row] \in [Ids -> Rowset]
OBVIOUS

\* Setting a flag of a cycle test keeps its row well formed.
LEMMA FlagSet ==
    ASSUME NEW old \in CycleTestRows, NEW flag \in BOOLEAN
    PROVE  /\ [old EXCEPT !.removed = flag] \in CycleTestRows
           /\ [old EXCEPT !.retest = flag] \in CycleTestRows
BY DEF CycleTestRows

\* The write of remove_cycle_test keeps the invariant.
LEMMA RemoveKeeps ==
    ASSUME IInv, NEW c \in Clients, CommitRemoveCycleTest(c)
    PROVE  IInv' /\ NothingLost
<1> USE DEF IInv, TypeOK
<1>1. PICK q \in Requests : q = req[c] /\ q.op = "remove" /\ StillLoaded(q)
  BY DEF CommitRemoveCycleTest
<1>2. q.test \in CycleTests /\ Exists(q.test)
  BY <1>1, RequestFields DEF StillLoaded
<1>3. /\ Finish(c)
      /\ UNCHANGED <<approved, cycle, attempt, corrections>>
      /\ cycleTest' = [cycleTest EXCEPT ![q.test].removed = TRUE]
  BY <1>1 DEF CommitRemoveCycleTest
<1> DEFINE row == [cycleTest[q.test] EXCEPT !.removed = TRUE]
<1>31. /\ cycleTest' = [cycleTest EXCEPT ![q.test] = row]
      /\ row \in CycleTestRows
  BY <1>2, <1>3, FlagSet
<1>32. /\ row.cycle = cycleTest[q.test].cycle
      /\ row.case = cycleTest[q.test].case
      /\ row.version = cycleTest[q.test].version
      /\ row.steps = cycleTest[q.test].steps
      /\ row.retest => cycleTest[q.test].retest \/ \E a \in AttemptsOf(q.test) : Closed(a)
  BY <1>2 DEF CycleTestRows
<1> HIDE DEF row
<1>4. cycleTest' \in [CycleTests -> CycleTestRows]
  BY <1>2, <1>31, RowOverwritten
<1>33. \A t \in CycleTests : cycleTest'[t] = IF t = q.test THEN row ELSE cycleTest[t]
  BY <1>2, <1>31
<1>5. ScopeStep
  BY <1>2, <1>3, <1>32, <1>33 DEF ScopeStep, WholeRows, Exists
<1> QED
  BY <1>3, <1>4, <1>5, ScopeStepKeepsRows, CommitKeeps

\* The write of request_retest keeps the invariant.
LEMMA RetestKeeps ==
    ASSUME IInv, NEW c \in Clients, CommitRequestRetest(c)
    PROVE  IInv' /\ NothingLost
<1> USE DEF IInv, TypeOK
<1>1. PICK q \in Requests : q = req[c] /\ q.op = "retest" /\ StillLoaded(q)
  BY DEF CommitRequestRetest
<1>2. q.test \in CycleTests /\ \E a \in AttemptsOf(q.test) : Closed(a)
  BY <1>1, RequestFields DEF StillLoaded
<1>3. /\ Finish(c)
      /\ UNCHANGED <<approved, cycle, attempt, corrections>>
      /\ cycleTest' = [cycleTest EXCEPT ![q.test].retest = TRUE]
  BY <1>1 DEF CommitRequestRetest
<1> DEFINE row == [cycleTest[q.test] EXCEPT !.retest = TRUE]
<1>31. /\ cycleTest' = [cycleTest EXCEPT ![q.test] = row]
      /\ row \in CycleTestRows
  BY <1>2, <1>3, FlagSet
<1>32. /\ row.cycle = cycleTest[q.test].cycle
      /\ row.case = cycleTest[q.test].case
      /\ row.version = cycleTest[q.test].version
      /\ row.steps = cycleTest[q.test].steps
      /\ row.retest => cycleTest[q.test].retest \/ \E a \in AttemptsOf(q.test) : Closed(a)
  BY <1>2 DEF CycleTestRows
<1> HIDE DEF row
<1>4. cycleTest' \in [CycleTests -> CycleTestRows]
  BY <1>2, <1>31, RowOverwritten
<1>33. \A t \in CycleTests : cycleTest'[t] = IF t = q.test THEN row ELSE cycleTest[t]
  BY <1>2, <1>31
<1>5. ScopeStep
  BY <1>2, <1>3, <1>32, <1>33 DEF ScopeStep, WholeRows, Exists
<1> QED
  BY <1>3, <1>4, <1>5, ScopeStepKeepsRows, CommitKeeps

\* Snapshot replaces the steps and never leaves the test without a version.
LEMMA SnapshotFields ==
    ASSUME TypeOK, NEW t \in CycleTests,
           NEW v \in Versions \cup {NoVersion}, NEW seen,
           v # NoVersion,
           seen # NoVersion => cycleTest[t].version # NoVersion
    PROVE  LET row == Snapshot(t, v, seen) IN
           /\ row \in CycleTestRows
           /\ row.cycle = cycleTest[t].cycle
           /\ row.case = cycleTest[t].case
           /\ row.retest = cycleTest[t].retest
           /\ row.steps = v
           /\ row.version # NoVersion
<1> DEFINE version == IF v = seen THEN cycleTest[t].version ELSE v
<1>1. cycleTest[t] \in CycleTestRows
  BY DEF TypeOK
<1>2. version \in Versions \cup {NoVersion} /\ version # NoVersion
  BY <1>1 DEF CycleTestRows
<1>3. Snapshot(t, v, seen) = [cycleTest[t] EXCEPT !.steps = v, !.version = version]
  BY DEF Snapshot
<1> HIDE DEF version
<1> QED
  BY <1>1, <1>2, <1>3 DEF CycleTestRows

\* The snapshot of refresh_cycle_test_version keeps the invariant: the
\* foreign key lets it through only for a test without attempts.
LEMMA RefreshKeeps ==
    ASSUME IInv, NEW c \in Clients, CommitRefreshVersion(c)
    PROVE  IInv' /\ NothingLost
<1> USE DEF IInv, TypeOK
<1>1. PICK q \in Requests : q = req[c] /\ q.op = "refresh" /\ StillLoaded(q)
  BY DEF CommitRefreshVersion
<1>2. /\ q.test \in CycleTests /\ Exists(q.test)
      /\ q.version \in Versions /\ q.version # NoVersion
      /\ q.seen # NoVersion => cycleTest[q.test].version # NoVersion
  BY <1>1, RequestFields DEF StillLoaded, Versions, NoVersion
<1>3. /\ Finish(c)
      /\ UNCHANGED <<approved, cycle, attempt, corrections>>
      /\ AttemptsOf(q.test) = {}
      /\ cycleTest' = [cycleTest EXCEPT
                         ![q.test] = Snapshot(q.test, q.version, q.seen)]
  BY <1>1 DEF CommitRefreshVersion, SnapshotReplaceable
<1>4. Snapshot(q.test, q.version, q.seen) \in CycleTestRows
  BY <1>2, SnapshotFields
<1>5. cycleTest' \in [CycleTests -> CycleTestRows]
  BY <1>2, <1>3, <1>4
<1>6. /\ \A t \in CycleTests \ {q.test} : cycleTest'[t] = cycleTest[t]
      /\ cycleTest'[q.test] = Snapshot(q.test, q.version, q.seen)
  BY <1>2, <1>3
<1>7. ScopeStep
  BY <1>2, <1>3, <1>6, SnapshotFields DEF ScopeStep, WholeRows, Exists
<1> QED
  BY <1>3, <1>5, <1>7, ScopeStepKeepsRows, CommitKeeps

\* The writes of transition_cycle keep the invariant, snapshots included.
LEMMA TransitionKeeps ==
    ASSUME IInv, NEW c \in Clients, CommitTransitionCycle(c)
    PROVE  IInv' /\ NothingLost
<1> USE DEF IInv, TypeOK
<1>1. PICK q \in Requests : q = req[c] /\ q.op = "transition" /\ StillLoaded(q)
  BY DEF CommitTransitionCycle
<1> DEFINE tests == {t \in CycleTests : q.pins[t] # NoVersion}
<1>2. /\ q.cycle \in Cycles /\ q.version \in Nat
      /\ q.to \in CycleStatuses /\ q.to # "draft"
      /\ q.pins \in [CycleTests -> Versions \cup {NoVersion}]
      /\ \A t \in CycleTests :
            /\ q.pins[t] # NoVersion => Exists(t)
            /\ q.seen[t] # NoVersion => cycleTest[t].version # NoVersion
  BY <1>1, RequestFields DEF StillLoaded
<1>3. /\ Finish(c)
      /\ UNCHANGED <<approved, attempt, corrections>>
      /\ \A t \in tests : AttemptsOf(t) = {}
      /\ cycle' = [cycle EXCEPT ![q.cycle] = [status |-> q.to,
                                              version |-> q.version + 1]]
      /\ cycleTest' = [t \in CycleTests |->
                         IF t \in tests THEN Snapshot(t, q.pins[t], q.seen[t])
                                       ELSE cycleTest[t]]
  BY <1>1 DEF CommitTransitionCycle, SnapshotReplaceable
<1>4. cycle' \in [Cycles -> CycleRows]
  BY <1>2, <1>3 DEF CycleRows
<1>5. \A t \in tests : Snapshot(t, q.pins[t], q.seen[t]) \in CycleTestRows
  BY <1>2, SnapshotFields
<1>6. cycleTest' \in [CycleTests -> CycleTestRows]
  BY <1>3, <1>5
<1>7. \A y \in Cycles : cycle[y].status \notin {"none", "draft"} =>
         cycle'[y].status \notin {"none", "draft"}
  BY <1>2, <1>3 DEF CycleStatuses
<1>8. ASSUME NEW t \in CycleTests, t \in tests
      PROVE  /\ cycleTest'[t] = Snapshot(t, q.pins[t], q.seen[t])
             /\ q.pins[t] \in Versions \cup {NoVersion} /\ q.pins[t] # NoVersion
             /\ Exists(t) /\ AttemptsOf(t) = {}
             /\ q.seen[t] # NoVersion => cycleTest[t].version # NoVersion
  BY <1>2, <1>3, <1>8
<1>9. \A t \in CycleTests \ tests : cycleTest'[t] = cycleTest[t]
  BY <1>3
<1> HIDE DEF tests
<1>10. ScopeStep
  BY <1>3, <1>7, <1>8, <1>9, SnapshotFields DEF ScopeStep, WholeRows, Exists
<1> QED
  BY <1>3, <1>4, <1>6, <1>10, ScopeStepKeepsRows, CommitKeeps

\* The inserts of add_cycle_tests keep the invariant.
LEMMA AddKeeps ==
    ASSUME IInv, NEW c \in Clients, CommitAddCycleTests(c)
    PROVE  IInv' /\ NothingLost
<1> USE DEF IInv, TypeOK
<1>1. PICK q \in Requests : q = req[c] /\ q.op = "add"
  BY DEF CommitAddCycleTests
<1>2. /\ q.cycle \in Cycles /\ q.cycle # "none"
      /\ q.cases \subseteq TestCases
      /\ q.pins \in [TestCases -> Versions \cup {NoVersion}]
  BY <1>1, RequestFields, IdsAssumption
<1>3. Finish(c) /\ UNCHANGED <<approved, cycle, attempt, corrections>>
  BY DEF CommitAddCycleTests
<1>4a. PICK rows \in SUBSET {t \in CycleTests : ~Exists(t)} :
        \E case \in [rows -> req[c].cases] :
          /\ \A k \in req[c].cases : \E t \in rows : case[t] = k
          /\ \A t1, t2 \in rows : case[t1] = case[t2] => t1 = t2
          /\ cycleTest' = [t \in CycleTests |->
                IF t \in rows
                THEN NewCycleTest(req[c].cycle, case[t], req[c].pins[case[t]])
                ELSE cycleTest[t]]
  BY Zenon DEF CommitAddCycleTests
<1>4. PICK case \in [rows -> q.cases] :
        cycleTest' = [t \in CycleTests |->
            IF t \in rows
            THEN NewCycleTest(q.cycle, case[t], q.pins[case[t]])
            ELSE cycleTest[t]]
  BY <1>1, <1>4a
<1>5. ASSUME NEW t \in rows
      PROVE  /\ t \in CycleTests /\ ~Exists(t)
             /\ cycleTest'[t] \in CycleTestRows
             /\ cycleTest'[t].cycle # "none" /\ cycleTest'[t].case # "none"
             /\ cycleTest'[t].version = cycleTest'[t].steps
             /\ ~cycleTest'[t].retest
  <2>1. case[t] \in TestCases /\ case[t] # "none"
    BY <1>2, IdsAssumption
  <2>2. q.pins[case[t]] \in Versions \cup {NoVersion}
    BY <1>2, <2>1
  <2> QED
    BY <1>2, <1>4, <2>1, <2>2 DEF NewCycleTest, NoCycleTest, CycleTestRows
<1>6. \A t \in CycleTests \ rows : cycleTest'[t] = cycleTest[t]
  BY <1>4
<1>7. cycleTest' \in [CycleTests -> CycleTestRows]
  <2>1. \A t \in CycleTests : cycleTest'[t] \in CycleTestRows
    BY <1>5, <1>6
  <2> QED
    BY <1>4, <2>1
<1>8. ScopeStep
  BY <1>3, <1>5, <1>6, AbsentRows DEF ScopeStep, WholeRows, Exists
<1> QED
  BY <1>3, <1>7, <1>8, ScopeStepKeepsRows, CommitKeeps

\* The inserts of clone_cycle keep the invariant.
LEMMA CloneKeeps ==
    ASSUME IInv, NEW y \in Cycles, NEW new \in Cycles, CloneCycle(y, new)
    PROVE  IInv' /\ NothingLost
<1> USE DEF IInv, TypeOK
<1>1. /\ UNCHANGED <<approved, attempt, corrections, req>>
      /\ cycle[new] = NoCycle
      /\ cycle' = [cycle EXCEPT ![new] = [status |-> "draft", version |-> 1]]
  BY DEF CloneCycle
<1>2a. PICK rows \in SUBSET {t \in CycleTests : ~Exists(t)} :
        \E src \in [rows -> LiveTests(y)] :
          /\ \A t \in LiveTests(y) : \E r \in rows : src[r] = t
          /\ \A r1, r2 \in rows : src[r1] = src[r2] => r1 = r2
          /\ cycleTest' = [t \in CycleTests |->
                IF t \in rows
                THEN NewCycleTest(new, cycleTest[src[t]].case, NoVersion)
                ELSE cycleTest[t]]
  BY Zenon DEF CloneCycle
<1>2. PICK src \in [rows -> LiveTests(y)] :
        cycleTest' = [t \in CycleTests |->
            IF t \in rows
            THEN NewCycleTest(new, cycleTest[src[t]].case, NoVersion)
            ELSE cycleTest[t]]
  BY <1>2a
<1>3. new # "none" /\ y # "none"
  BY IdsAssumption
<1>4. ASSUME NEW t \in rows
      PROVE  /\ t \in CycleTests /\ ~Exists(t)
             /\ cycleTest'[t] \in CycleTestRows
             /\ cycleTest'[t].cycle # "none" /\ cycleTest'[t].case # "none"
             /\ cycleTest'[t].version = cycleTest'[t].steps
             /\ ~cycleTest'[t].retest
  <2>1. src[t] \in CycleTests /\ Exists(src[t])
    BY <1>3 DEF LiveTests, Exists
  <2>2. cycleTest[src[t]].case \in TestCases /\ cycleTest[src[t]].case # "none"
    BY <2>1 DEF WholeRows, CycleTestRows
  <2> QED
    BY <1>2, <1>3, <2>2 DEF NewCycleTest, NoCycleTest, CycleTestRows, NoVersion
<1>5. \A t \in CycleTests \ rows : cycleTest'[t] = cycleTest[t]
  BY <1>2
<1>6. cycleTest' \in [CycleTests -> CycleTestRows]
  <2>1. \A t \in CycleTests : cycleTest'[t] \in CycleTestRows
    BY <1>4, <1>5
  <2> QED
    BY <1>2, <2>1
<1>7. cycle' \in [Cycles -> CycleRows]
  BY <1>1 DEF CycleRows, CycleStatuses
<1>8. \A z \in Cycles : cycle[z].status \notin {"none", "draft"} =>
         cycle'[z].status \notin {"none", "draft"}
  BY <1>1 DEF NoCycle
<1>9. ScopeStep
  BY <1>1, <1>4, <1>5, <1>8, AbsentRows DEF ScopeStep, WholeRows, Exists
<1> QED
  BY <1>1, <1>6, <1>7, <1>9, ScopeStepKeepsRows, CommitKeeps

\* The insert of create_cycle keeps the invariant.
LEMMA CreateKeeps ==
    ASSUME IInv, NEW y \in Cycles, CreateCycle(y)
    PROVE  IInv' /\ NothingLost
<1> USE DEF IInv, TypeOK
<1>1. /\ UNCHANGED <<approved, cycleTest, attempt, corrections, req>>
      /\ cycle[y] = NoCycle
      /\ cycle' = [cycle EXCEPT ![y] = [status |-> "draft", version |-> 1]]
  BY DEF CreateCycle
<1>2. cycle' \in [Cycles -> CycleRows]
  BY <1>1 DEF CycleRows, CycleStatuses
<1>3. \A z \in Cycles : cycle[z].status \notin {"none", "draft"} =>
         cycle'[z].status \notin {"none", "draft"}
  BY <1>1 DEF NoCycle
<1>4. ScopeStep
  BY <1>1, <1>3 DEF ScopeStep, WholeRows, Exists
<1> QED
  BY <1>1, <1>2, <1>4, ScopeStepKeepsRows, CommitKeeps

\* The approval of a version of a case keeps the invariant.
LEMMA ApproveKeeps ==
    ASSUME IInv, NEW k \in TestCases, ApproveVersion(k)
    PROVE  IInv' /\ NothingLost
<1> USE DEF IInv, TypeOK
<1>1. UNCHANGED <<cycle, cycleTest, attempt, corrections, req>>
  BY DEF ApproveVersion
<1>2. approved' \in [TestCases -> Versions \cup {NoVersion}]
  BY DEF ApproveVersion
<1>3. ScopeStep
  BY <1>1 DEF ScopeStep, WholeRows, Exists
<1> QED
  BY <1>1, <1>2, <1>3, ScopeStepKeepsRows, CommitKeeps

\* The inserts of start_attempt keep the invariant: the steps it copies are
\* those the test holds, and the test had some when it was loaded.
LEMMA StartKeeps ==
    ASSUME IInv, NEW c \in Clients, CommitStartAttempt(c)
    PROVE  IInv' /\ NothingLost
<1> USE DEF IInv, TypeOK
<1>1. PICK q \in Requests : q = req[c] /\ q.op = "start" /\ StillLoaded(q)
  BY DEF CommitStartAttempt
<1>2. /\ q.test \in CycleTests /\ Exists(q.test)
      /\ q.version \in Versions
      /\ cycleTest[q.test].version # NoVersion
      /\ cycle[cycleTest[q.test].cycle].status \notin {"none", "draft"}
  BY <1>1, RequestFields DEF StillLoaded
<1>3. cycleTest[q.test].steps \in Versions \cup {NoVersion}
      /\ cycleTest[q.test].steps # NoVersion
  BY <1>2 DEF WholeRows, CycleTestRows
<1> DEFINE row == [NoAttempt EXCEPT !.test = q.test,
                                    !.version = q.version,
                                    !.snapshot = cycleTest[q.test].steps,
                                    !.status = "IN_PROGRESS"]
<1>4. PICK a \in Attempts : attempt[a].status = "none"
                            /\ attempt' = [attempt EXCEPT ![a] = row]
  BY <1>1 DEF CommitStartAttempt
<1>5. /\ Finish(c)
      /\ UNCHANGED <<approved, cycle, corrections>>
      /\ cycleTest' = [cycleTest EXCEPT ![q.test].retest = @ /\ ~q.retest]
  BY <1>1 DEF CommitStartAttempt
<1>6. row \in AttemptRows
  BY <1>2, <1>3 DEF NoAttempt, AttemptRows, StepResults
<1>7. row.test = q.test /\ row.snapshot = cycleTest[q.test].steps /\ row.status = "IN_PROGRESS"
  BY DEF NoAttempt
<1> HIDE DEF row
<1>8. attempt' \in [Attempts -> AttemptRows]
  BY <1>4, <1>6
<1>9. attempt'[a] = row /\ \A b \in Attempts \ {a} : attempt'[b] = attempt[b]
  BY <1>4
<1>10. cycleTest' \in [CycleTests -> CycleTestRows]
  <2> DEFINE old == cycleTest[q.test]
             new == [old EXCEPT !.retest = @ /\ ~q.retest]
  <2>1. old \in CycleTestRows /\ (old.retest /\ ~q.retest) \in BOOLEAN
    BY <1>2
  <2>2. new \in CycleTestRows
    BY <2>1 DEF CycleTestRows
  <2>3. cycleTest' = [cycleTest EXCEPT ![q.test] = new]
    BY <1>5
  <2> HIDE DEF new
  <2> QED
    BY <1>2, <2>2, <2>3
<1>11. \A t \in CycleTests : /\ cycleTest'[t].cycle = cycleTest[t].cycle
                             /\ cycleTest'[t].case = cycleTest[t].case
                             /\ cycleTest'[t].version = cycleTest[t].version
                             /\ cycleTest'[t].steps = cycleTest[t].steps
                             /\ cycleTest'[t].retest => cycleTest[t].retest
  BY <1>2, <1>5 DEF CycleTestRows
<1>12. \A b \in Attempts : attempt[b].status # "none" =>
          b # a /\ attempt'[b] = attempt[b]
  BY <1>4, <1>9
<1>13. NothingLost
  BY <1>5, <1>11, <1>12 DEF NothingLost, Exists, Closed
<1>14. Rows'
  <2>1. WholeRows'
    BY <1>11 DEF WholeRows, Exists
  <2>2. EvidencePinned'
    <3>1. SUFFICES ASSUME NEW b \in Attempts, attempt'[b].status # "none"
                   PROVE  /\ attempt'[b].test \in CycleTests
                          /\ cycleTest'[attempt'[b].test].cycle # "none"
                          /\ attempt'[b].snapshot = cycleTest'[attempt'[b].test].steps
                          /\ attempt'[b].snapshot # NoVersion
      BY DEF EvidencePinned, Exists
    <3>2. CASE b = a
      BY <1>2, <1>3, <1>7, <1>9, <1>11, <3>2 DEF Exists
    <3>3. CASE b # a
      <4>1. attempt'[b] = attempt[b]
        BY <1>9, <3>3
      <4>2. /\ attempt[b].test \in CycleTests
            /\ cycleTest[attempt[b].test].cycle # "none"
            /\ attempt[b].snapshot = cycleTest[attempt[b].test].steps
            /\ attempt[b].snapshot # NoVersion
        BY <3>1, <4>1 DEF EvidencePinned, Exists
      <4> QED
        BY <1>11, <4>1, <4>2
    <3> QED
      BY <3>2, <3>3
  <2>3. FollowUpsHaveHistory'
    <3>0. \A b \in Attempts : Closed(b) => attempt[b].status # "none"
      BY DEF Closed, Terminal
    <3>1. \A b \in Attempts : Closed(b) => Closed(b)' /\ attempt'[b].test = attempt[b].test
      BY <1>12, <3>0 DEF Closed
    <3>2. \A b \in Attempts : Closed(b) => attempt[b].status # "none"
                                          /\ attempt'[b].status # "none"
      BY <1>12, <3>0
    <3> QED
      BY <1>5, <1>11, <3>1, <3>2 DEF FollowUpsHaveHistory, AttemptsOf
  <2>4. AttemptsInActivatedCycles'
    <3>1. SUFFICES ASSUME NEW y \in Cycles, cycle[y].status \in {"none", "draft"},
                          NEW b \in Attempts, attempt'[b].status # "none",
                          cycleTest'[attempt'[b].test].cycle = y
                   PROVE  FALSE
      BY <1>5 DEF AttemptsInActivatedCycles, AttemptsIn
    <3>2. CASE b = a
      BY <3>1, <3>2, <1>2, <1>7, <1>9, <1>11
    <3>3. CASE b # a
      <4>1. attempt[b].status # "none" /\ attempt'[b] = attempt[b]
        BY <3>1, <3>3, <1>9
      <4>2. cycleTest[attempt[b].test].cycle = y
        BY <3>1, <4>1, <1>11 DEF EvidencePinned
      <4> QED
        BY <3>1, <4>1, <4>2 DEF AttemptsInActivatedCycles, AttemptsIn
    <3> QED
      BY <3>2, <3>3
  <2> QED
    BY <2>1, <2>2, <2>3, <2>4 DEF Rows
<1> QED
  BY <1>5, <1>8, <1>10, <1>13, <1>14, CommitKeeps

-----------------------------------------------------------------------------
(* The inductive invariant                                                 *)

\* The empty tables satisfy the invariant.
LEMMA InitIInv == Init => IInv
<1> SUFFICES ASSUME Init PROVE IInv
  OBVIOUS
<1> USE DEF Init
<1>1. TypeOK
  <2>1. Idle \in Requests
    BY DEF Requests
  <2>2. NoCycle \in CycleRows
    BY DEF NoCycle, CycleRows
  <2>3. NoCycleTest \in CycleTestRows
    BY DEF NoCycleTest, CycleTestRows
  <2>4. NoAttempt \in AttemptRows
    BY DEF NoAttempt, AttemptRows, StepResults
  <2> QED
    BY <2>1, <2>2, <2>3, <2>4 DEF TypeOK
<1>2. \A t \in CycleTests : ~Exists(t) /\ cycleTest[t] = NoCycleTest
  BY DEF Exists, NoCycleTest
<1>3. \A a \in Attempts : attempt[a].status = "none" /\ corrections[a] = <<>>
  BY DEF NoAttempt
<1>4. WholeRows
  BY <1>2 DEF WholeRows, NoCycleTest
<1>5. EvidencePinned /\ AttemptsInActivatedCycles
  BY <1>3 DEF EvidencePinned, AttemptsInActivatedCycles, AttemptsIn
<1>6. FollowUpsHaveHistory
  BY <1>2, <1>3 DEF FollowUpsHaveHistory, NoCycleTest
<1>7. \A c \in Clients : StillLoaded(req[c])
  BY DEF StillLoaded, Idle
<1> QED
  BY <1>1, <1>4, <1>5, <1>6, <1>7 DEF IInv

\* Every step keeps the invariant and takes nothing away.
LEMMA NextKeeps ==
    ASSUME IInv, [Next]_vars
    PROVE  IInv' /\ NothingLost
<1>1. ASSUME NEW k \in TestCases, ApproveVersion(k)
      PROVE  IInv' /\ NothingLost
  BY <1>1, ApproveKeeps
<1>2. ASSUME NEW y \in Cycles, CreateCycle(y)
      PROVE  IInv' /\ NothingLost
  BY <1>2, CreateKeeps
<1>3. ASSUME NEW y \in Cycles, NEW new \in Cycles, CloneCycle(y, new)
      PROVE  IInv' /\ NothingLost
  BY <1>3, CloneKeeps
<1>4. ASSUME NEW c \in Clients, LoadCycleRequest(c)
      PROVE  IInv' /\ NothingLost
  BY <1>4, CycleLoads
<1>5. ASSUME NEW c \in Clients, LoadExecutionRequest(c)
      PROVE  IInv' /\ NothingLost
  BY <1>5, ExecutionLoads
<1>6. ASSUME NEW c \in Clients, CommitRequest(c)
      PROVE  IInv' /\ NothingLost
  BY <1>6, AddKeeps, TransitionKeeps, RemoveKeeps, RefreshKeeps, StartKeeps,
     StepKeeps, CloseKeeps, RetestKeeps, CorrectKeeps DEF CommitRequest
<1>7. ASSUME NEW c \in Clients, FailRequest(c)
      PROVE  IInv' /\ NothingLost
  BY <1>7, FailKeeps
<1>8. CASE UNCHANGED vars
  <2>1. UNCHANGED <<approved, cycle, cycleTest, attempt, corrections, req>>
    BY <1>8 DEF vars
  <2>2. NothingLost
    BY <2>1 DEF NothingLost, Exists, Closed
  <2>3. Rows'
    BY <2>1 DEF IInv, Rows, WholeRows, EvidencePinned, FollowUpsHaveHistory,
                AttemptsInActivatedCycles, Exists, Closed, AttemptsOf, AttemptsIn
  <2> QED
    BY <2>1, <2>2, <2>3, CommitKeeps DEF IInv, TypeOK
<1> QED
  BY <1>1, <1>2, <1>3, <1>4, <1>5, <1>6, <1>7, <1>8 DEF Next

\* The inductive invariant holds for any number of requests in flight.
THEOREM Invariance == Spec => []IInv
<1>1. IInv /\ [Next]_vars => IInv'
  BY NextKeeps
<1> QED
  BY InitIInv, <1>1, PTL DEF Spec

-----------------------------------------------------------------------------
(* Its consequences, for any number of requests in flight                  *)

\* Every row and every request in flight stays well formed.
THEOREM TypeCorrect == Spec => []TypeOK
<1>1. IInv => TypeOK
  BY DEF IInv
<1> QED
  BY Invariance, <1>1, PTL

\* An attempt executes the steps its cycle test holds: start_attempt, the
\* snapshots of refresh_cycle_test_version and of transition_cycle, and the
\* foreign key between their steps never leave evidence of replaced steps.
THEOREM EvidenceIsPinned == Spec => []EvidencePinned
<1>1. IInv => EvidencePinned
  BY DEF IInv
<1> QED
  BY Invariance, <1>1, PTL

\* correct_attempt and request_retest only ever follow a closed attempt.
THEOREM FollowUpsFollow == Spec => []FollowUpsHaveHistory
<1>1. IInv => FollowUpsHaveHistory
  BY DEF IInv
<1> QED
  BY Invariance, <1>1, PTL

\* start_attempt leaves no attempt in a cycle that transition_cycle never
\* activated, and no transition makes a cycle with attempts a draft.
THEOREM AttemptsOnlyOnceActivated == Spec => []AttemptsInActivatedCycles
<1>1. IInv => AttemptsInActivatedCycles
  BY DEF IInv
<1> QED
  BY Invariance, <1>1, PTL

\* No interleaving of complete_attempt, abort_attempt and set_step_result
\* reopens a closed attempt.
THEOREM ClosedForGood == Spec => ClosedStaysClosed
<1>1. IInv /\ [Next]_vars => [\A a \in Attempts : Closed(a) => Closed(a)']_vars
  <2> SUFFICES ASSUME IInv, [Next]_vars, NEW a \in Attempts, Closed(a)
               PROVE  Closed(a)'
    OBVIOUS
  <2>1. NothingLost
    BY NextKeeps
  <2> QED
    BY <2>1 DEF NothingLost, Closed, Terminal
<1> QED
  BY Invariance, <1>1, PTL DEF Spec, ClosedStaysClosed

=============================================================================
