---------------------- MODULE CycleExecution_serial_proofs ----------------------
(***************************************************************************)
(* Proofs of what holds of cycles and executions when requests do not      *)
(* overlap, for any number of cycles, tests, attempts and versions, and    *)
(* that the handlers then implement the ledger of attempts.                *)
(*                                                                         *)
(* The argument.  What a handler has checked at its load is still so at    *)
(* its commit (StillTrue): no other request writes in between, and the     *)
(* steps that are no requests, an approval and new cycles, touch nothing   *)
(* that a request in flight has checked.                                   *)
(***************************************************************************)
EXTENDS CycleExecution_proofs

\* Requests do not overlap, since there is one client.
Sequential == \A c, d \in Clients : c = d

\* The checks of a handler, as they stand until its commit.
StillTrue(q) ==
    /\ q.op = "add" =>
          /\ cycle[q.cycle].status \in Changeable
          /\ ~AlreadyIn(q.cycle, q.cases)
          /\ cycle[q.cycle].status \in Running => \A k \in q.cases : q.pins[k] # NoVersion
    /\ q.op = "transition" =>
          /\ <<cycle[q.cycle].status, q.to>> \in CycleTransitions
          /\ q.version = cycle[q.cycle].version
          /\ q.to = "active" => \A t \in LiveTests(q.cycle) : q.pins[t] # NoVersion
          /\ q.to = "completed" => \A a \in AttemptsIn(q.cycle) : ~Open(a)
          /\ \A t \in CycleTests : q.pins[t] # NoVersion => q.seen[t] = cycleTest[t].version
    /\ q.op = "refresh" => q.seen = cycleTest[q.test].version
    /\ q.op = "start" =>
          /\ cycle[cycleTest[q.test].cycle].status \in Running
          /\ ~HasOpenAttempt(q.test)
          /\ q.version = cycleTest[q.test].version
          /\ q.retest = cycleTest[q.test].retest
    /\ q.op = "step" => Open(q.attempt)
    /\ q.op = "close" =>
          /\ Open(q.attempt)
          /\ \/ q.override \/ q.result = "ABORTED"
             \/ q.result = DeriveOverallResult(attempt[q.attempt].snapshot,
                                               attempt[q.attempt].results)

\* Cycles keep what their activation has established until they are archived.
SnapshottedSinceActivation ==
    \A y \in Cycles : cycle[y].status \in Running \cup {"completed"} =>
        \A t \in LiveTests(y) : cycleTest[t].version # NoVersion

\* A test holds the steps of the version it names.
StepsOfVersion == \A t \in CycleTests : cycleTest[t].version = cycleTest[t].steps

TestsHaveCycles ==
    \A t \in CycleTests : Exists(t) => cycle[cycleTest[t].cycle].status # "none"

NewAttemptsBlank == \A a \in Attempts : attempt[a].status = "none" => attempt[a] = NoAttempt

ScopeSound ==
    /\ CaseOncePerCycle /\ SnapshottedSinceActivation
    /\ StepsOfVersion /\ TestsHaveCycles
EvidenceSound ==
    /\ OneOpenAttempt /\ AttemptRunsItsVersion
    /\ ResultAgreesWithEvidence /\ NewAttemptsBlank

SerialInv ==
    /\ IInv /\ ScopeSound /\ EvidenceSound /\ NoOpenAttemptInCompletedCycle
    /\ \A c \in Clients : StillTrue(req[c])

-----------------------------------------------------------------------------
(* Requests                                                                *)

\* The lone request is the one a step begins or ends.
LEMMA LoneRequest ==
    ASSUME Sequential, IInv, NEW c \in Clients, NEW q,
           req' = [req EXCEPT ![c] = q], StillTrue(q)'
    PROVE  \A d \in Clients : StillTrue(req[d])'
<1>1. SUFFICES ASSUME NEW d \in Clients PROVE StillTrue(req[d])'
  OBVIOUS
<1>2. d = c
  BY DEF Sequential
<1>3. req'[d] = q
  BY <1>2 DEF IInv, TypeOK
<1> QED
  BY <1>3 DEF StillTrue

LEMMA IdleTrue == StillTrue(Idle)'
BY DEF StillTrue, Idle

\* A handler that has loaded its rows has made the checks of StillTrue.
LEMMA CycleChecks ==
    ASSUME NEW c \in Clients, LoadCycleRequest(c)
    PROVE  \E q : StillTrue(q) /\ Begin(c, q)
<1>1. ASSUME NEW y \in Cycles, NEW cases \in SUBSET TestCases, LoadAddCycleTests(c, y, cases)
      PROVE  \E q : StillTrue(q) /\ Begin(c, q)
  <2> DEFINE r == [op |-> "add", cycle |-> y, cases |-> cases, pins |-> AddedPins(y, cases)]
  <2>1. StillTrue(r)
    BY <1>1 DEF StillTrue, LoadAddCycleTests, AddedPins
  <2> QED
    BY <1>1, <2>1 DEF LoadAddCycleTests
<1>2. ASSUME NEW y \in Cycles, NEW to \in CycleStatuses, LoadTransitionCycle(c, y, to)
      PROVE  \E q : StillTrue(q) /\ Begin(c, q)
  <2> DEFINE tests == IF to = "active" THEN LiveTests(y) ELSE {}
             r == [op |-> "transition", cycle |-> y, to |-> to,
                   version |-> cycle[y].version,
                   pins |-> [t \in CycleTests |-> IF t \in tests
                               THEN approved[cycleTest[t].case] ELSE NoVersion],
                   seen |-> [t \in CycleTests |-> IF t \in tests
                               THEN cycleTest[t].version ELSE NoVersion]]
  <2>1. to = "active" => \A t \in LiveTests(y) : r.pins[t] # NoVersion
    BY <1>2 DEF LoadTransitionCycle, LiveTests
  <2>2. \A t \in CycleTests : r.pins[t] # NoVersion => r.seen[t] = cycleTest[t].version
    OBVIOUS
  <2>3. StillTrue(r)
    BY <1>2, <2>1, <2>2 DEF StillTrue, LoadTransitionCycle
  <2>4. Begin(c, r)
    BY <1>2 DEF LoadTransitionCycle
  <2> HIDE DEF r
  <2> QED
    BY <2>3, <2>4
<1>3. ASSUME NEW t \in CycleTests, LoadRemoveCycleTest(c, t)
      PROVE  \E q : StillTrue(q) /\ Begin(c, q)
  <2>1. StillTrue([op |-> "remove", test |-> t])
    BY DEF StillTrue
  <2> QED
    BY <1>3, <2>1 DEF LoadRemoveCycleTest
<1>4. ASSUME NEW t \in CycleTests, LoadRefreshVersion(c, t)
      PROVE  \E q : StillTrue(q) /\ Begin(c, q)
  <2>1. StillTrue([op |-> "refresh", test |-> t, seen |-> cycleTest[t].version,
                   version |-> approved[cycleTest[t].case]])
    BY DEF StillTrue
  <2> QED
    BY <1>4, <2>1 DEF LoadRefreshVersion
<1> QED
  BY <1>1, <1>2, <1>3, <1>4 DEF LoadCycleRequest

LEMMA ExecutionChecks ==
    ASSUME NEW c \in Clients, LoadExecutionRequest(c)
    PROVE  \E q : StillTrue(q) /\ Begin(c, q)
<1>1. ASSUME NEW t \in CycleTests, LoadStartAttempt(c, t)
      PROVE  \E q : StillTrue(q) /\ Begin(c, q)
  <2>1. StillTrue([op |-> "start", test |-> t, version |-> cycleTest[t].version,
                   retest |-> cycleTest[t].retest])
    BY <1>1 DEF StillTrue, LoadStartAttempt
  <2> QED
    BY <1>1, <2>1 DEF LoadStartAttempt
<1>2. ASSUME NEW t \in CycleTests, LoadRequestRetest(c, t)
      PROVE  \E q : StillTrue(q) /\ Begin(c, q)
  <2>1. StillTrue([op |-> "retest", test |-> t])
    BY DEF StillTrue
  <2> QED
    BY <1>2, <2>1 DEF LoadRequestRetest
<1>3. ASSUME NEW a \in Attempts, NEW s, NEW r, LoadSetStepResult(c, a, s, r)
      PROVE  \E q : StillTrue(q) /\ Begin(c, q)
  <2>1. StillTrue([op |-> "step", attempt |-> a, step |-> s,
                   seen |-> attempt[a].results[s], result |-> r])
    BY <1>3 DEF StillTrue, LoadSetStepResult
  <2> QED
    BY <1>3, <2>1 DEF LoadSetStepResult
<1>4. ASSUME NEW a \in Attempts, LoadCompleteAttempt(c, a) \/ LoadAbortAttempt(c, a)
      PROVE  \E q : StillTrue(q) /\ Begin(c, q)
  <2> DEFINE derived == DeriveOverallResult(attempt[a].snapshot, attempt[a].results)
             close(r, o) == [op |-> "close", attempt |-> a, result |-> r, override |-> o]
  <2>1. \A r : StillTrue(close(r, TRUE)) <=> Open(a)
    BY DEF StillTrue
  <2>2. StillTrue(close(derived, FALSE)) <=> Open(a)
    BY DEF StillTrue
  <2>3. StillTrue(close("ABORTED", FALSE)) <=> Open(a)
    BY DEF StillTrue
  <2>4. CASE LoadCompleteAttempt(c, a)
    BY <2>1, <2>2, <2>4 DEF LoadCompleteAttempt
  <2>5. CASE LoadAbortAttempt(c, a)
    BY <2>3, <2>5 DEF LoadAbortAttempt
  <2> QED
    BY <1>4, <2>4, <2>5
<1>5. ASSUME NEW a \in Attempts, NEW r, LoadCorrectAttempt(c, a, r)
      PROVE  \E q : StillTrue(q) /\ Begin(c, q)
  <2>1. StillTrue([op |-> "correct", attempt |-> a, result |-> r])
    BY DEF StillTrue
  <2> QED
    BY <1>5, <2>1 DEF LoadCorrectAttempt
<1> QED
  BY <1>1, <1>2, <1>3, <1>4, <1>5 DEF LoadExecutionRequest

-----------------------------------------------------------------------------
(* Rows                                                                    *)

\* The tests of attempts, and the cycles of tests, are rows that exist.
LEMMA AttemptRow ==
    ASSUME IInv, NEW a \in Attempts, attempt[a].status # "none"
    PROVE  /\ attempt[a].test \in CycleTests /\ Exists(attempt[a].test)
           /\ a \in AttemptsOf(attempt[a].test)
           /\ attempt[a].snapshot = cycleTest[attempt[a].test].steps
           /\ attempt[a].snapshot # NoVersion
BY DEF IInv, EvidencePinned, AttemptsOf

LEMMA TestRow ==
    ASSUME IInv, NEW t \in CycleTests
    PROVE  /\ cycleTest[t] \in CycleTestRows
           /\ Exists(t) => cycleTest[t].cycle \in Cycles /\ cycleTest[t].case \in TestCases
BY DEF IInv, TypeOK, CycleTestRows, Exists, WholeRows

LEMMA LiveTestRow ==
    ASSUME NEW y \in Cycles, NEW t \in LiveTests(y)
    PROVE  t \in CycleTests /\ Exists(t) /\ cycleTest[t].cycle = y
BY IdsAssumption DEF LiveTests, Exists

\* What attempts record is sound as long as no attempt changes.
LEMMA EvidenceUnchanged ==
    ASSUME EvidenceSound, UNCHANGED attempt
    PROVE  EvidenceSound'
BY DEF EvidenceSound, OneOpenAttempt, AttemptRunsItsVersion, ResultAgreesWithEvidence,
       NewAttemptsBlank, AttemptsOf, Open, Closed, DeriveOverallResult

\* A scope is sound as long as no cycle changes and tests only change flags.
LEMMA ScopeUnchanged ==
    ASSUME ScopeSound, UNCHANGED cycle,
           \A t \in CycleTests :
              /\ cycleTest'[t].cycle = cycleTest[t].cycle
              /\ cycleTest'[t].case = cycleTest[t].case
              /\ cycleTest'[t].version = cycleTest[t].version
              /\ cycleTest'[t].steps = cycleTest[t].steps
              /\ cycleTest[t].removed => cycleTest'[t].removed
    PROVE  ScopeSound'
<1>1. \A y \in Cycles : LiveTests(y)' \subseteq LiveTests(y)
  BY DEF LiveTests
<1>2. \A y \in Cycles : LiveTests(y) \subseteq CycleTests
  BY DEF LiveTests
<1>3. CaseOncePerCycle'
  BY <1>1, <1>2 DEF ScopeSound, CaseOncePerCycle
<1>4. SnapshottedSinceActivation'
  BY <1>1, <1>2 DEF ScopeSound, SnapshottedSinceActivation
<1>5. StepsOfVersion' /\ TestsHaveCycles'
  BY DEF ScopeSound, StepsOfVersion, TestsHaveCycles, Exists
<1> QED
  BY <1>3, <1>4, <1>5 DEF ScopeSound

\* No attempt opens and no cycle is completed.
LEMMA StaysClosed ==
    ASSUME IInv, NoOpenAttemptInCompletedCycle, NothingLost,
           \A a \in Attempts : Open(a)' => Open(a),
           \A y \in Cycles : cycle'[y].status = "completed" => cycle[y].status = "completed"
    PROVE  NoOpenAttemptInCompletedCycle'
<1>1. SUFFICES ASSUME NEW y \in Cycles, cycle'[y].status = "completed",
                      NEW a \in Attempts, Open(a)', cycleTest'[attempt'[a].test].cycle = y
               PROVE  FALSE
  BY DEF NoOpenAttemptInCompletedCycle, AttemptsIn
<1>2. Open(a) /\ attempt[a].status # "none"
  BY <1>1 DEF Open
<1>3. cycleTest[attempt[a].test].cycle = y
  BY <1>1, <1>2, AttemptRow DEF NothingLost
<1>4. a \in AttemptsIn(y)
  BY <1>2, <1>3 DEF AttemptsIn
<1> QED
  BY <1>1, <1>2, <1>4 DEF NoOpenAttemptInCompletedCycle

\* Steps that are no request add cycles and tests, and leave the others and
\* all attempts alone: what a request has checked stays.
LEMMA ChecksStand ==
    ASSUME IInv, NEW q \in Requests, StillLoaded(q), StillTrue(q), UNCHANGED attempt,
           \A y \in Cycles : cycle[y].status # "none" =>
              cycle'[y] = cycle[y] /\ LiveTests(y)' = LiveTests(y),
           \A t \in CycleTests : Exists(t) => cycleTest'[t] = cycleTest[t]
    PROVE  StillTrue(q)'
<1>1. CASE q.op = "add"
  <2>1. q.cycle \in Cycles /\ cycle[q.cycle].status # "none"
    BY <1>1, RequestFields DEF StillTrue, Changeable, Running
  <2>2. \A t \in LiveTests(q.cycle) : cycleTest'[t] = cycleTest[t]
    BY <2>1, LiveTestRow
  <2> QED
    BY <1>1, <2>1, <2>2 DEF StillTrue, AlreadyIn
<1>2. CASE q.op = "transition"
  <2>1. /\ q.cycle \in Cycles
        /\ <<cycle[q.cycle].status, q.to>> \in CycleTransitions
    BY <1>2, RequestFields DEF StillTrue
  <2>2. cycle[q.cycle].status # "none"
    BY <2>1 DEF CycleTransitions
  <2>3. AttemptsIn(q.cycle)' = AttemptsIn(q.cycle)
    BY AttemptRow DEF AttemptsIn
  <2>4. \A t \in CycleTests : q.pins[t] # NoVersion => cycleTest'[t] = cycleTest[t]
    BY <1>2 DEF StillLoaded
  <2> QED
    BY <1>2, <2>1, <2>2, <2>3, <2>4 DEF StillTrue, Open
<1>3. CASE q.op = "refresh"
  <2>1. q.test \in CycleTests /\ Exists(q.test)
    BY <1>3, RequestFields DEF StillLoaded
  <2> QED
    BY <1>3, <2>1 DEF StillTrue
<1>4. CASE q.op = "start"
  <2>1. q.test \in CycleTests /\ Exists(q.test)
    BY <1>4, RequestFields DEF StillLoaded
  <2>2. /\ cycleTest[q.test].cycle \in Cycles
        /\ cycle[cycleTest[q.test].cycle].status \in Running
    BY <1>4, <2>1, TestRow DEF StillTrue
  <2>3. cycle'[cycleTest[q.test].cycle] = cycle[cycleTest[q.test].cycle]
    BY <2>2 DEF Running
  <2> QED
    BY <1>4, <2>1, <2>2, <2>3 DEF StillTrue, HasOpenAttempt, AttemptsOf, Open
<1>5. CASE q.op \in {"step", "close"}
  BY <1>5 DEF StillTrue, Open, DeriveOverallResult
<1>6. CASE q.op \notin {"add", "transition", "refresh", "start", "step", "close"}
  BY <1>6 DEF StillTrue
<1> QED
  BY <1>1, <1>2, <1>3, <1>4, <1>5, <1>6

\* A step that begins or ends the lone request and keeps rows sound keeps all.
LEMMA RequestKeeps ==
    ASSUME Sequential, SerialInv, IInv', ScopeSound', EvidenceSound',
           NoOpenAttemptInCompletedCycle',
           NEW c \in Clients, NEW q, req' = [req EXCEPT ![c] = q], StillTrue(q)'
    PROVE  SerialInv'
<1>1. \A d \in Clients : StillTrue(req[d])'
  BY LoneRequest DEF SerialInv
<1> QED
  BY <1>1 DEF SerialInv

LEMMA RowsUnchanged ==
    ASSUME SerialInv, UNCHANGED <<approved, cycle, cycleTest, attempt, corrections>>
    PROVE  /\ ScopeSound' /\ EvidenceSound' /\ NoOpenAttemptInCompletedCycle'
           /\ \A q : StillTrue(q) => StillTrue(q)'
<1>1. ScopeSound'
  BY ScopeUnchanged DEF SerialInv
<1>2. EvidenceSound'
  BY EvidenceUnchanged DEF SerialInv
<1>3. NoOpenAttemptInCompletedCycle'
  BY DEF SerialInv, NoOpenAttemptInCompletedCycle, AttemptsIn, Open
<1>4. ASSUME NEW q, StillTrue(q) PROVE StillTrue(q)'
  BY <1>4 DEF StillTrue, AlreadyIn, LiveTests, AttemptsIn, HasOpenAttempt, AttemptsOf, Open,
              DeriveOverallResult
<1> QED
  BY <1>1, <1>2, <1>3, <1>4

LEMMA LoadKeepsSerial ==
    ASSUME Sequential, SerialInv, IInv', NEW c \in Clients,
           LoadCycleRequest(c) \/ LoadExecutionRequest(c)
    PROVE  SerialInv'
<1>1. PICK q : StillTrue(q) /\ Begin(c, q)
  BY CycleChecks, ExecutionChecks
<1> QED
  BY <1>1, RowsUnchanged, RequestKeeps DEF Begin

LEMMA FailKeepsSerial ==
    ASSUME Sequential, SerialInv, IInv', NEW c \in Clients, FailRequest(c)
    PROVE  SerialInv'
BY RowsUnchanged, RequestKeeps, IdleTrue DEF FailRequest, Finish

-----------------------------------------------------------------------------
(* The commits.  One lemma per handler.                                    *)

\* The request of a client is well formed and what it checked is still so.
LEMMA ReadyRequest ==
    ASSUME SerialInv, NEW c \in Clients
    PROVE  req[c] \in Requests /\ StillLoaded(req[c]) /\ StillTrue(req[c])
BY DEF SerialInv, IInv, TypeOK

LEMMA RemoveKeepsSerial ==
    ASSUME Sequential, SerialInv, NEW c \in Clients, CommitRemoveCycleTest(c)
    PROVE  SerialInv'
<1>1. IInv' /\ NothingLost
  BY RemoveKeeps DEF SerialInv
<1>2. /\ req[c].test \in CycleTests
      /\ cycleTest' = [cycleTest EXCEPT ![req[c].test].removed = TRUE]
      /\ UNCHANGED <<approved, cycle, attempt, corrections>>
  BY ReadyRequest, RequestFields DEF CommitRemoveCycleTest
<1>3. \A t \in CycleTests :
         /\ cycleTest'[t].cycle = cycleTest[t].cycle
         /\ cycleTest'[t].case = cycleTest[t].case
         /\ cycleTest'[t].version = cycleTest[t].version
         /\ cycleTest'[t].steps = cycleTest[t].steps
         /\ cycleTest[t].removed => cycleTest'[t].removed
  BY <1>2 DEF SerialInv, IInv, TypeOK, CycleTestRows
<1>4. ScopeSound'
  BY <1>2, <1>3, ScopeUnchanged DEF SerialInv
<1>5. EvidenceSound'
  BY <1>2, EvidenceUnchanged DEF SerialInv
<1>6. NoOpenAttemptInCompletedCycle'
  BY <1>1, <1>2, StaysClosed DEF SerialInv, Open
<1> QED
  BY <1>1, <1>4, <1>5, <1>6, RequestKeeps, IdleTrue DEF CommitRemoveCycleTest, Finish

LEMMA RetestKeepsSerial ==
    ASSUME Sequential, SerialInv, NEW c \in Clients, CommitRequestRetest(c)
    PROVE  SerialInv'
<1>1. IInv' /\ NothingLost
  BY RetestKeeps DEF SerialInv
<1>2. /\ req[c].test \in CycleTests
      /\ cycleTest' = [cycleTest EXCEPT ![req[c].test].retest = TRUE]
      /\ UNCHANGED <<approved, cycle, attempt, corrections>>
  BY ReadyRequest, RequestFields DEF CommitRequestRetest
<1>3. \A t \in CycleTests :
         /\ cycleTest'[t].cycle = cycleTest[t].cycle
         /\ cycleTest'[t].case = cycleTest[t].case
         /\ cycleTest'[t].version = cycleTest[t].version
         /\ cycleTest'[t].steps = cycleTest[t].steps
         /\ cycleTest[t].removed => cycleTest'[t].removed
  BY <1>2 DEF SerialInv, IInv, TypeOK, CycleTestRows
<1>4. ScopeSound'
  BY <1>2, <1>3, ScopeUnchanged DEF SerialInv
<1>5. EvidenceSound'
  BY <1>2, EvidenceUnchanged DEF SerialInv
<1>6. NoOpenAttemptInCompletedCycle'
  BY <1>1, <1>2, StaysClosed DEF SerialInv, Open
<1> QED
  BY <1>1, <1>4, <1>5, <1>6, RequestKeeps, IdleTrue DEF CommitRequestRetest, Finish

LEMMA CorrectKeepsSerial ==
    ASSUME Sequential, SerialInv, NEW c \in Clients, CommitCorrectAttempt(c)
    PROVE  SerialInv'
<1>1. IInv' /\ NothingLost
  BY CorrectKeeps DEF SerialInv
<1>2. UNCHANGED <<approved, cycle, cycleTest, attempt>> /\ Finish(c)
  BY DEF CommitCorrectAttempt
<1>3. ScopeSound' /\ EvidenceSound'
  BY <1>2, ScopeUnchanged, EvidenceUnchanged DEF SerialInv
<1>4. NoOpenAttemptInCompletedCycle'
  BY <1>1, <1>2, StaysClosed DEF SerialInv, Open
<1> QED
  BY <1>1, <1>2, <1>3, <1>4, RequestKeeps, IdleTrue DEF Finish

\* No attempt runs in a test that may be snapshotted again.
LEMMA RefreshKeepsSerial ==
    ASSUME Sequential, SerialInv, NEW c \in Clients, CommitRefreshVersion(c)
    PROVE  SerialInv'
<1>1. IInv' /\ NothingLost
  BY RefreshKeeps DEF SerialInv
<1> DEFINE q == req[c]
<1>2. /\ q.test \in CycleTests /\ q.version \in Versions
      /\ q.version # NoVersion /\ q.seen = cycleTest[q.test].version
      /\ cycleTest' = [cycleTest EXCEPT ![q.test] = Snapshot(q.test, q.version, q.seen)]
      /\ UNCHANGED <<approved, cycle, attempt, corrections>>
  <2>1. q.test \in CycleTests /\ q.version \in Versions
    BY ReadyRequest, RequestFields DEF CommitRefreshVersion
  <2>2. q.version # NoVersion
    BY <2>1, StepsAssumption DEF Versions, NoVersion
  <2>3. q.seen = cycleTest[q.test].version
    BY ReadyRequest DEF CommitRefreshVersion, StillTrue
  <2> QED
    BY <2>1, <2>2, <2>3 DEF CommitRefreshVersion
<1>3. \A t \in CycleTests :
         /\ cycleTest'[t].cycle = cycleTest[t].cycle
         /\ cycleTest'[t].case = cycleTest[t].case
         /\ cycleTest'[t].removed = cycleTest[t].removed
         /\ cycleTest'[t].version = IF t = q.test THEN q.version ELSE cycleTest[t].version
         /\ cycleTest'[t].steps = IF t = q.test THEN q.version ELSE cycleTest[t].steps
  BY <1>2 DEF SerialInv, IInv, TypeOK, CycleTestRows, Snapshot
<1>4. ScopeSound'
  <2>1. \A y \in Cycles : LiveTests(y)' = LiveTests(y) /\ LiveTests(y) \subseteq CycleTests
    BY <1>3 DEF LiveTests
  <2>2. CaseOncePerCycle'
    BY <1>3, <2>1 DEF SerialInv, ScopeSound, CaseOncePerCycle
  <2>3. SnapshottedSinceActivation'
    BY <1>2, <1>3, <2>1 DEF SerialInv, ScopeSound, SnapshottedSinceActivation
  <2>4. StepsOfVersion' /\ TestsHaveCycles'
    BY <1>2, <1>3 DEF SerialInv, ScopeSound, StepsOfVersion, TestsHaveCycles, Exists
  <2> QED
    BY <2>2, <2>3, <2>4 DEF ScopeSound
<1>5. EvidenceSound'
  BY <1>2, EvidenceUnchanged DEF SerialInv
<1>6. NoOpenAttemptInCompletedCycle'
  BY <1>1, <1>2, StaysClosed DEF SerialInv, Open
<1> QED
  BY <1>1, <1>4, <1>5, <1>6, RequestKeeps, IdleTrue DEF CommitRefreshVersion, Finish

\* Activation snapshots every test of the cycle; completion and reopening
\* find them snapshotted.
LEMMA TransitionKeepsSerial ==
    ASSUME Sequential, SerialInv, NEW c \in Clients, CommitTransitionCycle(c)
    PROVE  SerialInv'
<1>1. IInv' /\ NothingLost
  BY TransitionKeeps DEF SerialInv
<1> DEFINE q == req[c]
           tests == {t \in CycleTests : q.pins[t] # NoVersion}
<1>2. /\ q.cycle \in Cycles /\ q.version \in Nat
      /\ q.pins \in [CycleTests -> Versions \cup {NoVersion}]
      /\ <<cycle[q.cycle].status, q.to>> \in CycleTransitions
      /\ q.to = "active" => LiveTests(q.cycle) \subseteq tests
      /\ q.to = "completed" => \A a \in AttemptsIn(q.cycle) : ~Open(a)
      /\ \A t \in tests : q.seen[t] = cycleTest[t].version
  BY ReadyRequest, RequestFields, LiveTestRow DEF CommitTransitionCycle, StillTrue
<1>3. /\ cycle' = [cycle EXCEPT ![q.cycle] = [status |-> q.to, version |-> q.version + 1]]
      /\ cycleTest' = [t \in CycleTests |->
                         IF t \in tests THEN Snapshot(t, q.pins[t], q.seen[t])
                                       ELSE cycleTest[t]]
      /\ UNCHANGED <<approved, attempt, corrections>>
  BY DEF CommitTransitionCycle
<1>4. \A t \in CycleTests :
         /\ cycleTest'[t].cycle = cycleTest[t].cycle
         /\ cycleTest'[t].case = cycleTest[t].case
         /\ cycleTest'[t].removed = cycleTest[t].removed
         /\ cycleTest'[t].version = IF t \in tests THEN q.pins[t] ELSE cycleTest[t].version
         /\ cycleTest'[t].steps = IF t \in tests THEN q.pins[t] ELSE cycleTest[t].steps
  <2> SUFFICES ASSUME NEW t \in CycleTests
               PROVE  /\ cycleTest'[t].cycle = cycleTest[t].cycle
                      /\ cycleTest'[t].case = cycleTest[t].case
                      /\ cycleTest'[t].removed = cycleTest[t].removed
                      /\ cycleTest'[t].version = IF t \in tests THEN q.pins[t]
                                                              ELSE cycleTest[t].version
                      /\ cycleTest'[t].steps = IF t \in tests THEN q.pins[t]
                                                            ELSE cycleTest[t].steps
    OBVIOUS
  <2>1. CASE t \in tests
    <3>1. cycleTest'[t] = Snapshot(t, q.pins[t], cycleTest[t].version)
      BY <1>2, <1>3, <2>1
    <3> QED
      BY <2>1, <3>1, TestRow DEF Snapshot, CycleTestRows, SerialInv
  <2>2. CASE t \notin tests
    BY <1>3, <2>2
  <2> QED
    BY <2>1, <2>2
<1>5. /\ cycle'[q.cycle].status = q.to
      /\ \A y \in Cycles : y # q.cycle => cycle'[y] = cycle[y]
  BY <1>2, <1>3 DEF SerialInv, IInv, TypeOK
<1>6. ScopeSound'
  <2>1. \A y \in Cycles : LiveTests(y)' = LiveTests(y) /\ LiveTests(y) \subseteq CycleTests
    BY <1>4 DEF LiveTests
  <2>2. CaseOncePerCycle'
    BY <1>4, <2>1 DEF SerialInv, ScopeSound, CaseOncePerCycle
  <2>3. SnapshottedSinceActivation'
    <3> SUFFICES ASSUME NEW y \in Cycles, cycle'[y].status \in Running \cup {"completed"},
                        NEW t \in LiveTests(y)
                 PROVE  cycleTest'[t].version # NoVersion
      BY <2>1 DEF SnapshottedSinceActivation
    <3>1. CASE t \in tests
      BY <1>4, <2>1, <3>1
    <3>2. CASE t \notin tests
      <4>1. y = q.cycle => q.to # "active"
        BY <1>2, <3>2
      <4>2. cycle[y].status \in Running \cup {"completed"}
        BY <1>2, <1>5, <4>1 DEF CycleTransitions, Running
      <4> QED
        BY <1>4, <2>1, <3>2, <4>2 DEF SerialInv, ScopeSound, SnapshottedSinceActivation
    <3> QED
      BY <3>1, <3>2
  <2>4. StepsOfVersion'
    BY <1>4 DEF SerialInv, ScopeSound, StepsOfVersion
  <2>5. TestsHaveCycles'
    <3>1. q.to # "none"
      BY <1>2 DEF CycleTransitions
    <3> QED
      BY <1>4, <1>5, <3>1, TestRow DEF SerialInv, ScopeSound, TestsHaveCycles, Exists
  <2> QED
    BY <2>2, <2>3, <2>4, <2>5 DEF ScopeSound
<1>7. EvidenceSound'
  BY <1>3, EvidenceUnchanged DEF SerialInv
<1>8. NoOpenAttemptInCompletedCycle'
  <2> SUFFICES ASSUME NEW y \in Cycles, cycle'[y].status = "completed",
                      NEW a \in AttemptsIn(y)', Open(a)'
               PROVE  FALSE
    BY DEF NoOpenAttemptInCompletedCycle
  <2>1. a \in AttemptsIn(y) /\ Open(a)
    BY <1>3, <1>4, AttemptRow DEF AttemptsIn, Open, SerialInv
  <2>2. CASE y = q.cycle
    BY <1>2, <1>5, <2>1, <2>2
  <2>3. CASE y # q.cycle
    BY <1>5, <2>1, <2>3 DEF SerialInv, NoOpenAttemptInCompletedCycle
  <2> QED
    BY <2>2, <2>3
<1> QED
  BY <1>1, <1>6, <1>7, <1>8, RequestKeeps, IdleTrue DEF CommitTransitionCycle, Finish

\* add_cycle_tests adds no case a second time, and none to a running cycle
\* without a snapshot.
LEMMA AddKeepsSerial ==
    ASSUME Sequential, SerialInv, NEW c \in Clients, CommitAddCycleTests(c)
    PROVE  SerialInv'
<1>1. IInv' /\ NothingLost
  BY AddKeeps DEF SerialInv
<1> DEFINE q == req[c]
<1>2. /\ q.cycle \in Cycles /\ q.cases \subseteq TestCases
      /\ q.pins \in [TestCases -> Versions \cup {NoVersion}]
      /\ cycle[q.cycle].status \in Changeable
      /\ ~AlreadyIn(q.cycle, q.cases)
      /\ cycle[q.cycle].status \in Running => \A k \in q.cases : q.pins[k] # NoVersion
  BY ReadyRequest, RequestFields DEF CommitAddCycleTests, StillTrue
<1>3a. PICK rows \in SUBSET {t \in CycleTests : ~Exists(t)} :
         \E case \in [rows -> req[c].cases] :
            /\ \A k \in req[c].cases : \E t \in rows : case[t] = k
            /\ \A t1, t2 \in rows : case[t1] = case[t2] => t1 = t2
            /\ cycleTest' = [t \in CycleTests |->
                  IF t \in rows
                  THEN NewCycleTest(req[c].cycle, case[t], req[c].pins[case[t]])
                  ELSE cycleTest[t]]
  BY Zenon DEF CommitAddCycleTests
<1>3. PICK case \in [rows -> q.cases] :
         /\ \A t1, t2 \in rows : case[t1] = case[t2] => t1 = t2
         /\ cycleTest' = [t \in CycleTests |->
                IF t \in rows
                THEN NewCycleTest(q.cycle, case[t], q.pins[case[t]])
                ELSE cycleTest[t]]
  BY <1>3a
<1>4. UNCHANGED <<approved, cycle, attempt, corrections>>
  BY DEF CommitAddCycleTests
<1>5. \A t \in CycleTests \ rows : cycleTest'[t] = cycleTest[t]
  BY <1>3
<1>6. \A t \in rows : /\ cycleTest'[t].cycle = q.cycle
                      /\ cycleTest'[t].case = case[t]
                      /\ cycleTest'[t].version = q.pins[case[t]]
                      /\ cycleTest'[t].steps = q.pins[case[t]]
  BY <1>3 DEF NewCycleTest, NoCycleTest
<1>7. \A y \in Cycles : \A t \in LiveTests(y)' :
         \/ t \in LiveTests(y) /\ t \in CycleTests \ rows
         \/ y = q.cycle /\ t \in rows
  BY <1>5, <1>6 DEF LiveTests
<1>8. CaseOncePerCycle'
  <2> SUFFICES ASSUME NEW y \in Cycles, NEW t1 \in LiveTests(y)', NEW t2 \in LiveTests(y)',
                      cycleTest'[t1].case = cycleTest'[t2].case
               PROVE  t1 = t2
    BY DEF CaseOncePerCycle
  <2>1. ASSUME NEW t \in rows, NEW u \in LiveTests(q.cycle), u \notin rows,
               cycleTest'[u].case = cycleTest'[t].case
        PROVE  FALSE
    <3>1. cycleTest[u].case = case[t]
      BY <1>2, <1>5, <1>6, <2>1, LiveTestRow
    <3> QED
      BY <1>2, <1>3, <3>1 DEF AlreadyIn
  <2>2. CASE t1 \in rows /\ t2 \in rows
    BY <1>3, <1>6, <2>2
  <2>3. CASE t1 \in rows /\ t2 \notin rows
    BY <1>7, <2>1, <2>3
  <2>4. CASE t1 \notin rows /\ t2 \in rows
    BY <1>7, <2>1, <2>4
  <2>5. CASE t1 \notin rows /\ t2 \notin rows
    BY <1>5, <1>7, <2>5 DEF SerialInv, ScopeSound, CaseOncePerCycle
  <2> QED
    BY <2>2, <2>3, <2>4, <2>5
<1>9. SnapshottedSinceActivation'
  <2> SUFFICES ASSUME NEW y \in Cycles, cycle[y].status \in Running \cup {"completed"},
                      NEW t \in LiveTests(y)'
               PROVE  cycleTest'[t].version # NoVersion
    BY <1>4 DEF SnapshottedSinceActivation
  <2>1. CASE t \in rows
    <3>1. y = q.cycle
      BY <1>3, <1>7, <2>1 DEF LiveTests, Exists
    <3>2. cycle[q.cycle].status \in Running
      BY <1>2, <3>1 DEF Changeable, Running
    <3> QED
      BY <1>2, <1>3, <1>6, <2>1, <3>2
  <2>2. CASE t \notin rows
    BY <1>5, <1>7, <2>2 DEF SerialInv, ScopeSound, SnapshottedSinceActivation
  <2> QED
    BY <2>1, <2>2
<1>10. StepsOfVersion'
  BY <1>5, <1>6 DEF SerialInv, ScopeSound, StepsOfVersion
<1>11. TestsHaveCycles'
  <2>1. cycle[q.cycle].status # "none"
    BY <1>2 DEF Changeable, Running
  <2> QED
    BY <1>4, <1>5, <1>6, <2>1 DEF SerialInv, ScopeSound, TestsHaveCycles, Exists
<1>12. ScopeSound' /\ EvidenceSound'
  BY <1>4, <1>8, <1>9, <1>10, <1>11, EvidenceUnchanged DEF ScopeSound, SerialInv
<1>13. NoOpenAttemptInCompletedCycle'
  BY <1>1, <1>4, StaysClosed DEF SerialInv, Open
<1> QED
  BY <1>1, <1>12, <1>13, RequestKeeps, IdleTrue DEF CommitAddCycleTests, Finish

\* start_attempt opens the only attempt of its test, on the version of the
\* test, in a running cycle.
LEMMA StartKeepsSerial ==
    ASSUME Sequential, SerialInv, NEW c \in Clients, CommitStartAttempt(c)
    PROVE  SerialInv'
<1>1. IInv' /\ NothingLost
  BY StartKeeps DEF SerialInv
<1> DEFINE q == req[c]
<1>2. /\ q.test \in CycleTests /\ Exists(q.test) /\ q.version \in Versions
      /\ cycleTest[q.test].cycle \in Cycles
      /\ cycle[cycleTest[q.test].cycle].status \in Running
      /\ ~HasOpenAttempt(q.test)
      /\ q.version = cycleTest[q.test].version
  BY ReadyRequest, RequestFields, TestRow
     DEF CommitStartAttempt, StillTrue, StillLoaded, SerialInv
<1>3. PICK a \in Attempts :
         /\ attempt[a].status = "none"
         /\ attempt' = [attempt EXCEPT
               ![a] = [NoAttempt EXCEPT !.test = q.test,
                                        !.version = q.version,
                                        !.snapshot = cycleTest[q.test].steps,
                                        !.status = "IN_PROGRESS"]]
  BY DEF CommitStartAttempt
<1>4. /\ cycleTest' = [cycleTest EXCEPT ![q.test].retest = @ /\ ~q.retest]
      /\ UNCHANGED <<approved, cycle, corrections>>
  BY DEF CommitStartAttempt
<1>5. /\ attempt'[a].test = q.test /\ attempt'[a].version = q.version
      /\ attempt'[a].snapshot = q.version /\ attempt'[a].status = "IN_PROGRESS"
      /\ \A b \in Attempts : b # a => attempt'[b] = attempt[b]
  BY <1>2, <1>3 DEF NoAttempt, SerialInv, IInv, TypeOK, ScopeSound, StepsOfVersion
<1>6. \A t \in CycleTests :
         /\ cycleTest'[t].cycle = cycleTest[t].cycle
         /\ cycleTest'[t].case = cycleTest[t].case
         /\ cycleTest'[t].version = cycleTest[t].version
         /\ cycleTest'[t].steps = cycleTest[t].steps
         /\ cycleTest[t].removed => cycleTest'[t].removed
  BY <1>2, <1>4 DEF SerialInv, IInv, TypeOK, CycleTestRows
<1>7. ScopeSound'
  BY <1>4, <1>6, ScopeUnchanged DEF SerialInv
<1>8. EvidenceSound'
  <2>1. OneOpenAttempt'
    BY <1>2, <1>5 DEF SerialInv, EvidenceSound, OneOpenAttempt, AttemptsOf, Open, HasOpenAttempt
  <2>2. AttemptRunsItsVersion'
    BY <1>5 DEF SerialInv, EvidenceSound, AttemptRunsItsVersion
  <2>3. ResultAgreesWithEvidence'
    BY <1>5 DEF SerialInv, EvidenceSound, ResultAgreesWithEvidence, Closed, Terminal,
                DeriveOverallResult
  <2>4. NewAttemptsBlank'
    BY <1>5 DEF SerialInv, EvidenceSound, NewAttemptsBlank
  <2> QED
    BY <2>1, <2>2, <2>3, <2>4 DEF EvidenceSound
<1>9. NoOpenAttemptInCompletedCycle'
  <2> SUFFICES ASSUME NEW y \in Cycles, cycle'[y].status = "completed",
                      NEW b \in AttemptsIn(y)', Open(b)'
               PROVE  FALSE
    BY DEF NoOpenAttemptInCompletedCycle
  <2>1. CASE b = a
    BY <1>2, <1>4, <1>5, <1>6, <2>1 DEF AttemptsIn, Running
  <2>2. CASE b # a
    <3>1. b \in AttemptsIn(y) /\ Open(b)
      BY <1>5, <1>6, <2>2, AttemptRow DEF AttemptsIn, Open, SerialInv
    <3> QED
      BY <1>4, <3>1 DEF SerialInv, NoOpenAttemptInCompletedCycle
  <2> QED
    BY <2>1, <2>2
<1> QED
  BY <1>1, <1>7, <1>8, <1>9, RequestKeeps, IdleTrue DEF CommitStartAttempt, Finish

\* A step result is recorded in an open attempt.
LEMMA StepKeepsSerial ==
    ASSUME Sequential, SerialInv, NEW c \in Clients, CommitSetStepResult(c)
    PROVE  SerialInv'
<1>1. IInv' /\ NothingLost
  BY StepKeeps DEF SerialInv
<1> DEFINE q == req[c]
<1>2. q.attempt \in Attempts /\ q.step \in Steps /\ Open(q.attempt)
  BY ReadyRequest, RequestFields DEF CommitSetStepResult, StillTrue
<1>3. UNCHANGED <<approved, cycle, cycleTest, corrections>>
  BY DEF CommitSetStepResult
<1>4. /\ attempt'[q.attempt].test = attempt[q.attempt].test
      /\ attempt'[q.attempt].version = attempt[q.attempt].version
      /\ attempt'[q.attempt].snapshot = attempt[q.attempt].snapshot
      /\ attempt'[q.attempt].status = attempt[q.attempt].status
      /\ \A b \in Attempts : b # q.attempt => attempt'[b] = attempt[b]
  BY <1>2 DEF CommitSetStepResult, SerialInv, IInv, TypeOK, AttemptRows
<1>5. ScopeSound'
  BY <1>3, ScopeUnchanged DEF SerialInv
<1>6. EvidenceSound'
  <2>1. OneOpenAttempt'
    BY <1>4 DEF SerialInv, EvidenceSound, OneOpenAttempt, AttemptsOf, Open
  <2>2. AttemptRunsItsVersion'
    BY <1>4 DEF SerialInv, EvidenceSound, AttemptRunsItsVersion
  <2>3. ResultAgreesWithEvidence'
    BY <1>2, <1>4 DEF SerialInv, EvidenceSound, ResultAgreesWithEvidence, Closed, Open, Terminal,
                      DeriveOverallResult
  <2>4. NewAttemptsBlank'
    BY <1>2, <1>4 DEF SerialInv, EvidenceSound, NewAttemptsBlank, Open
  <2> QED
    BY <2>1, <2>2, <2>3, <2>4 DEF EvidenceSound
<1>7. NoOpenAttemptInCompletedCycle'
  BY <1>1, <1>3, <1>4, StaysClosed DEF SerialInv, Open
<1> QED
  BY <1>1, <1>5, <1>6, <1>7, RequestKeeps, IdleTrue DEF CommitSetStepResult, Finish

\* An attempt that is not aborted or overridden closes with the result of the
\* steps as they are at the commit.
LEMMA CloseKeepsSerial ==
    ASSUME Sequential, SerialInv, NEW c \in Clients, CommitCloseAttempt(c)
    PROVE  SerialInv'
<1>1. IInv' /\ NothingLost
  BY CloseKeeps DEF SerialInv
<1> DEFINE q == req[c]
<1>2. /\ q.attempt \in Attempts /\ q.result \in Terminal /\ Open(q.attempt)
      /\ \/ q.override \/ q.result = "ABORTED"
         \/ q.result = DeriveOverallResult(attempt[q.attempt].snapshot,
                                           attempt[q.attempt].results)
  BY ReadyRequest, RequestFields DEF CommitCloseAttempt, StillTrue
<1>3. UNCHANGED <<approved, cycle, cycleTest, corrections>>
  BY DEF CommitCloseAttempt
<1>4. /\ attempt'[q.attempt].test = attempt[q.attempt].test
      /\ attempt'[q.attempt].version = attempt[q.attempt].version
      /\ attempt'[q.attempt].snapshot = attempt[q.attempt].snapshot
      /\ attempt'[q.attempt].results = attempt[q.attempt].results
      /\ attempt'[q.attempt].status = q.result
      /\ q.override => attempt'[q.attempt].overridden
      /\ \A b \in Attempts : b # q.attempt => attempt'[b] = attempt[b]
  <2> DEFINE old == attempt[q.attempt]
             row == [old EXCEPT !.status = q.result,
                                !.overridden = old.overridden \/ q.override]
  <2>1. attempt \in [Attempts -> AttemptRows] /\ old \in AttemptRows
    BY <1>2 DEF SerialInv, IInv, TypeOK
  <2>2. /\ row.test = old.test /\ row.version = old.version
        /\ row.snapshot = old.snapshot /\ row.results = old.results
        /\ row.status = q.result
    BY <2>1 DEF AttemptRows
  <2>3. row.overridden = (old.overridden \/ q.override)
    BY <2>1 DEF AttemptRows
  <2>4. attempt' = [attempt EXCEPT ![q.attempt] = row]
    BY <1>2 DEF CommitCloseAttempt
  <2> HIDE DEF row
  <2>5. /\ attempt'[q.attempt] = row
        /\ \A b \in Attempts : b # q.attempt => attempt'[b] = attempt[b]
    BY <1>2, <2>1, <2>4
  <2>6. q.override => row.overridden
    BY <2>3, Zenon
  <2> QED
    BY <2>2, <2>5, <2>6
<1>5. ScopeSound'
  BY <1>3, ScopeUnchanged DEF SerialInv
<1>6. EvidenceSound'
  <2>1. OneOpenAttempt'
    BY <1>2, <1>4 DEF SerialInv, EvidenceSound, OneOpenAttempt, AttemptsOf, Open, Terminal
  <2>2. AttemptRunsItsVersion'
    BY <1>4 DEF SerialInv, EvidenceSound, AttemptRunsItsVersion
  <2>3. ResultAgreesWithEvidence'
    BY <1>2, <1>4 DEF SerialInv, EvidenceSound, ResultAgreesWithEvidence, Closed,
                      DeriveOverallResult
  <2>4. NewAttemptsBlank'
    BY <1>2, <1>4 DEF SerialInv, EvidenceSound, NewAttemptsBlank, Open, Terminal
  <2> QED
    BY <2>1, <2>2, <2>3, <2>4 DEF EvidenceSound
<1>7. NoOpenAttemptInCompletedCycle'
  BY <1>1, <1>2, <1>3, <1>4, StaysClosed DEF SerialInv, Open, Terminal
<1> QED
  BY <1>1, <1>5, <1>6, <1>7, RequestKeeps, IdleTrue DEF CommitCloseAttempt, Finish

-----------------------------------------------------------------------------
(* Steps that are no request                                               *)

\* Such a step keeps the invariant if it leaves existing cycles, their tests
\* and all attempts alone and keeps the scopes sound.
LEMMA OutsideStep ==
    ASSUME SerialInv, IInv', NothingLost, ScopeSound', UNCHANGED <<attempt, req>>,
           \A y \in Cycles : cycle[y].status # "none" =>
              cycle'[y] = cycle[y] /\ LiveTests(y)' = LiveTests(y),
           \A y \in Cycles : cycle[y].status = "none" => cycle'[y].status # "completed",
           \A t \in CycleTests : Exists(t) => cycleTest'[t] = cycleTest[t]
    PROVE  SerialInv'
<1>1. EvidenceSound'
  BY EvidenceUnchanged DEF SerialInv
<1>2. NoOpenAttemptInCompletedCycle'
  BY StaysClosed DEF SerialInv, Open
<1>3. \A d \in Clients : StillTrue(req[d])'
  <2> SUFFICES ASSUME NEW d \in Clients PROVE StillTrue(req[d])'
    OBVIOUS
  <2>1. PICK q \in Requests : q = req[d] /\ StillLoaded(q) /\ StillTrue(q)
    BY ReadyRequest
  <2>2. StillTrue(q)'
    BY <2>1, ChecksStand DEF SerialInv
  <2>3. req'[d] = q
    BY <2>1
  <2> QED
    BY <2>2, <2>3 DEF StillTrue
<1> QED
  BY <1>1, <1>2, <1>3 DEF SerialInv

LEMMA ApproveKeepsSerial ==
    ASSUME SerialInv, NEW k \in TestCases, ApproveVersion(k)
    PROVE  SerialInv'
<1>1. IInv' /\ NothingLost
  BY ApproveKeeps DEF SerialInv
<1>2. UNCHANGED <<cycle, cycleTest, attempt, corrections, req>>
  BY DEF ApproveVersion
<1>3. ScopeSound'
  BY <1>2, ScopeUnchanged DEF SerialInv
<1>4. \A y \in Cycles : LiveTests(y)' = LiveTests(y)
  BY <1>2 DEF LiveTests
<1> QED
  BY <1>1, <1>2, <1>3, <1>4, OutsideStep

LEMMA CreateKeepsSerial ==
    ASSUME SerialInv, NEW y \in Cycles, CreateCycle(y)
    PROVE  SerialInv'
<1>1. IInv' /\ NothingLost
  BY CreateKeeps DEF SerialInv
<1>2. /\ UNCHANGED <<approved, cycleTest, attempt, corrections, req>>
      /\ cycle[y].status = "none"
      /\ cycle'[y].status = "draft"
      /\ \A z \in Cycles : z # y => cycle'[z] = cycle[z]
  BY DEF CreateCycle, NoCycle, SerialInv, IInv, TypeOK
<1>3. \A z \in Cycles : LiveTests(z)' = LiveTests(z) /\ LiveTests(z) \subseteq CycleTests
  BY <1>2 DEF LiveTests
<1>4. CaseOncePerCycle'
  BY <1>2, <1>3 DEF SerialInv, ScopeSound, CaseOncePerCycle
<1>5. SnapshottedSinceActivation'
  BY <1>2, <1>3 DEF SerialInv, ScopeSound, SnapshottedSinceActivation, Running
<1>6. StepsOfVersion'
  BY <1>2 DEF SerialInv, ScopeSound, StepsOfVersion
<1>7. TestsHaveCycles'
  BY <1>2, TestRow DEF SerialInv, ScopeSound, TestsHaveCycles, Exists
<1> QED
  BY <1>1, <1>2, <1>3, <1>4, <1>5, <1>6, <1>7, OutsideStep DEF ScopeSound

\* A clone has each case of its original once, as the original does.
LEMMA CloneKeepsSerial ==
    ASSUME SerialInv, NEW y \in Cycles, NEW new \in Cycles, CloneCycle(y, new)
    PROVE  SerialInv'
<1>1. IInv' /\ NothingLost
  BY CloneKeeps DEF SerialInv
<1>2. /\ UNCHANGED <<approved, attempt, corrections, req>>
      /\ cycle[new].status = "none"
      /\ cycle'[new].status = "draft"
      /\ \A z \in Cycles : z # new => cycle'[z] = cycle[z]
  BY DEF CloneCycle, NoCycle, SerialInv, IInv, TypeOK
<1>3a. PICK rows \in SUBSET {t \in CycleTests : ~Exists(t)} :
        \E src \in [rows -> LiveTests(y)] :
          /\ \A t \in LiveTests(y) : \E r \in rows : src[r] = t
          /\ \A r1, r2 \in rows : src[r1] = src[r2] => r1 = r2
          /\ cycleTest' = [t \in CycleTests |->
                IF t \in rows
                THEN NewCycleTest(new, cycleTest[src[t]].case, NoVersion)
                ELSE cycleTest[t]]
  BY Zenon DEF CloneCycle
<1>3. PICK src \in [rows -> LiveTests(y)] :
         /\ \A r1, r2 \in rows : src[r1] = src[r2] => r1 = r2
         /\ cycleTest' = [t \in CycleTests |->
                IF t \in rows
                THEN NewCycleTest(new, cycleTest[src[t]].case, NoVersion)
                ELSE cycleTest[t]]
  BY <1>3a
<1>4. \A t \in CycleTests \ rows : cycleTest'[t] = cycleTest[t]
  BY <1>3
<1>5. \A t \in rows : /\ cycleTest'[t].cycle = new
                      /\ cycleTest'[t].case = cycleTest[src[t]].case
                      /\ cycleTest'[t].version = NoVersion
                      /\ cycleTest'[t].steps = NoVersion
  BY <1>3 DEF NewCycleTest, NoCycleTest
<1>6. LiveTests(new) = {}
  BY <1>2, LiveTestRow DEF SerialInv, ScopeSound, TestsHaveCycles
<1>7. LiveTests(new)' \subseteq rows
  BY <1>4, <1>6 DEF LiveTests
<1>8. \A z \in Cycles : z # new => LiveTests(z)' = LiveTests(z)
  <2> SUFFICES ASSUME NEW z \in Cycles, z # new, NEW t \in CycleTests
               PROVE  t \in LiveTests(z)' <=> t \in LiveTests(z)
    BY DEF LiveTests
  <2>1. CASE t \in rows
    BY <1>3, <1>5, <2>1, LiveTestRow DEF LiveTests
  <2>2. CASE t \notin rows
    BY <1>4, <2>2 DEF LiveTests
  <2> QED
    BY <2>1, <2>2
<1>9. \A z \in Cycles : z # new => \A t \in LiveTests(z) : cycleTest'[t] = cycleTest[t]
  BY <1>4, LiveTestRow
<1>10. CaseOncePerCycle'
  <2>1. \A t1, t2 \in LiveTests(new)' : cycleTest'[t1].case = cycleTest'[t2].case => t1 = t2
    <3> SUFFICES ASSUME NEW t1 \in LiveTests(new)', NEW t2 \in LiveTests(new)',
                        cycleTest'[t1].case = cycleTest'[t2].case
                 PROVE  t1 = t2
      OBVIOUS
    <3>1. t1 \in rows /\ t2 \in rows /\ cycleTest[src[t1]].case = cycleTest[src[t2]].case
      BY <1>5, <1>7
    <3>2. src[t1] \in LiveTests(y) /\ src[t2] \in LiveTests(y)
      BY <3>1
    <3>3. src[t1] = src[t2]
      BY <3>1, <3>2 DEF SerialInv, ScopeSound, CaseOncePerCycle
    <3> QED
      BY <1>3, <3>1, <3>3
  <2>2. ASSUME NEW z \in Cycles, z # new
        PROVE  \A t1, t2 \in LiveTests(z)' : cycleTest'[t1].case = cycleTest'[t2].case => t1 = t2
    BY <1>8, <1>9, <2>2 DEF SerialInv, ScopeSound, CaseOncePerCycle
  <2> QED
    BY <2>1, <2>2 DEF CaseOncePerCycle
<1>11. SnapshottedSinceActivation'
  <2> SUFFICES ASSUME NEW z \in Cycles, cycle'[z].status \in Running \cup {"completed"},
                      NEW t \in LiveTests(z)'
               PROVE  cycleTest'[t].version # NoVersion
    BY DEF SnapshottedSinceActivation
  <2>1. z # new
    BY <1>2 DEF Running
  <2> QED
    BY <1>2, <1>8, <1>9, <2>1 DEF SerialInv, ScopeSound, SnapshottedSinceActivation
<1>12. StepsOfVersion'
  BY <1>4, <1>5 DEF SerialInv, ScopeSound, StepsOfVersion
<1>13. TestsHaveCycles'
  BY <1>2, <1>4, <1>5, TestRow DEF SerialInv, ScopeSound, TestsHaveCycles, Exists
<1>14. \A t \in CycleTests : Exists(t) => cycleTest'[t] = cycleTest[t]
  BY <1>4
<1>15. ScopeSound'
  BY <1>10, <1>11, <1>12, <1>13 DEF ScopeSound
<1> QED
  BY <1>1, <1>2, <1>8, <1>14, <1>15, OutsideStep

-----------------------------------------------------------------------------
LEMMA InitSerial == Init => SerialInv
<1> SUFFICES ASSUME Init PROVE SerialInv
  OBVIOUS
<1>1. IInv
  BY InitIInv
<1>2. \A y \in Cycles : LiveTests(y) = {}
  BY IdsAssumption DEF Init, LiveTests, NoCycleTest
<1>3. ScopeSound
  BY <1>2 DEF Init, ScopeSound, CaseOncePerCycle, SnapshottedSinceActivation, StepsOfVersion,
              TestsHaveCycles, NoCycleTest, Exists
<1>4. EvidenceSound
  BY DEF Init, EvidenceSound, OneOpenAttempt, AttemptRunsItsVersion, ResultAgreesWithEvidence,
         NewAttemptsBlank, NoAttempt, AttemptsOf, Closed, Terminal
<1>5. NoOpenAttemptInCompletedCycle
  BY DEF Init, NoOpenAttemptInCompletedCycle, NoCycle
<1>6. \A c \in Clients : StillTrue(req[c])
  BY DEF Init, StillTrue, Idle
<1> QED
  BY <1>1, <1>3, <1>4, <1>5, <1>6 DEF SerialInv

LEMMA NextSerial ==
    ASSUME Sequential, SerialInv, [Next]_vars
    PROVE  SerialInv'
<1>1. IInv'
  BY NextKeeps DEF SerialInv
<1>2. ASSUME NEW k \in TestCases, ApproveVersion(k) PROVE SerialInv'
  BY <1>2, ApproveKeepsSerial
<1>3. ASSUME NEW y \in Cycles, CreateCycle(y) PROVE SerialInv'
  BY <1>3, CreateKeepsSerial
<1>4. ASSUME NEW y \in Cycles, NEW new \in Cycles, CloneCycle(y, new) PROVE SerialInv'
  BY <1>4, CloneKeepsSerial
<1>5. ASSUME NEW c \in Clients, LoadCycleRequest(c) \/ LoadExecutionRequest(c) PROVE SerialInv'
  BY <1>1, <1>5, LoadKeepsSerial
<1>6. ASSUME NEW c \in Clients, CommitRequest(c) PROVE SerialInv'
  BY <1>6, AddKeepsSerial, TransitionKeepsSerial, RemoveKeepsSerial, RefreshKeepsSerial,
     StartKeepsSerial, StepKeepsSerial, CloseKeepsSerial, RetestKeepsSerial,
     CorrectKeepsSerial DEF CommitRequest
<1>7. ASSUME NEW c \in Clients, FailRequest(c) PROVE SerialInv'
  BY <1>1, <1>7, FailKeepsSerial
<1>8. CASE UNCHANGED vars
  <2>1. UNCHANGED <<approved, cycle, cycleTest, attempt, corrections, req>>
    BY <1>8 DEF vars
  <2>2. \A d \in Clients : StillTrue(req[d])'
    <3> SUFFICES ASSUME NEW d \in Clients PROVE StillTrue(req[d])'
      OBVIOUS
    <3>1. StillTrue(req[d])
      BY DEF SerialInv
    <3> QED
      BY <2>1, <3>1, RowsUnchanged DEF StillTrue
  <2> QED
    BY <1>1, <2>1, <2>2, RowsUnchanged DEF SerialInv
<1> QED
  BY <1>2, <1>3, <1>4, <1>5, <1>6, <1>7, <1>8 DEF Next

\* When requests do not overlap, the rows stay sound and what a handler has
\* checked at its load still holds at its commit.
THEOREM SerialInvariance == ASSUME Sequential PROVE Spec => []SerialInv
<1>1. SerialInv /\ [Next]_vars => SerialInv'
  BY NextSerial
<1> QED
  BY InitSerial, <1>1, PTL DEF Spec

-----------------------------------------------------------------------------
(* Its consequences, for requests that do not overlap                      *)

\* start_attempt never opens a second attempt of a test.
THEOREM OneAttemptAtATime == ASSUME Sequential PROVE Spec => []OneOpenAttempt
<1>1. SerialInv => OneOpenAttempt
  BY DEF SerialInv, EvidenceSound
<1> QED
  BY SerialInvariance, <1>1, PTL

\* transition_cycle leaves no open attempt in a cycle it completes, and
\* start_attempt opens none there.
THEOREM CompletedCyclesClosed == ASSUME Sequential PROVE Spec => []NoOpenAttemptInCompletedCycle
<1>1. SerialInv => NoOpenAttemptInCompletedCycle
  BY DEF SerialInv
<1> QED
  BY SerialInvariance, <1>1, PTL

\* start_attempt names the version whose steps it copies.
THEOREM AttemptsNameTheirSteps == ASSUME Sequential PROVE Spec => []AttemptRunsItsVersion
<1>1. SerialInv => AttemptRunsItsVersion
  BY DEF SerialInv, EvidenceSound
<1> QED
  BY SerialInvariance, <1>1, PTL

\* complete_attempt closes with the result of the recorded steps.
THEOREM ResultsFollowEvidence == ASSUME Sequential PROVE Spec => []ResultAgreesWithEvidence
<1>1. SerialInv => ResultAgreesWithEvidence
  BY DEF SerialInv, EvidenceSound
<1> QED
  BY SerialInvariance, <1>1, PTL

\* add_cycle_tests and clone_cycle put no case twice into a cycle.
THEOREM CasesOnce == ASSUME Sequential PROVE Spec => []CaseOncePerCycle
<1>1. SerialInv => CaseOncePerCycle
  BY DEF SerialInv, ScopeSound
<1> QED
  BY SerialInvariance, <1>1, PTL

\* The activation and add_cycle_tests leave no test of a running cycle without
\* a snapshot.
THEOREM RunningSnapshotted == ASSUME Sequential PROVE Spec => []RunningTestsSnapshotted
<1>1. SerialInv => RunningTestsSnapshotted
  BY DEF SerialInv, ScopeSound, SnapshottedSinceActivation, RunningTestsSnapshotted
<1> QED
  BY SerialInvariance, <1>1, PTL

\* Who writes cycles, and who writes attempts and corrections.
LEMMA CycleWriters ==
    ASSUME [Next]_vars
    PROVE  \/ UNCHANGED cycle
           \/ \E y \in Cycles : CreateCycle(y) \/ \E new \in Cycles : CloneCycle(y, new)
           \/ \E c \in Clients : CommitTransitionCycle(c)
<1>1. ASSUME NEW c \in Clients, LoadCycleRequest(c) \/ LoadExecutionRequest(c)
      PROVE  UNCHANGED cycle
  BY <1>1 DEF LoadCycleRequest, LoadExecutionRequest, LoadAddCycleTests, LoadTransitionCycle,
              LoadRemoveCycleTest, LoadRefreshVersion, LoadStartAttempt, LoadRequestRetest,
              LoadSetStepResult, LoadCompleteAttempt, LoadAbortAttempt, LoadCorrectAttempt, Begin
<1>2. ASSUME NEW c \in Clients, CommitRequest(c), ~CommitTransitionCycle(c)
      PROVE  UNCHANGED cycle
  BY <1>2 DEF CommitRequest, CommitAddCycleTests, CommitRemoveCycleTest, CommitRefreshVersion,
              CommitStartAttempt, CommitSetStepResult, CommitCloseAttempt, CommitRequestRetest,
              CommitCorrectAttempt
<1> QED
  BY <1>1, <1>2 DEF Next, vars, ApproveVersion, FailRequest

LEMMA AttemptWriters ==
    ASSUME [Next]_vars
    PROVE  \/ UNCHANGED <<attempt, corrections>>
           \/ \E c \in Clients : \/ CommitStartAttempt(c) \/ CommitSetStepResult(c)
                                 \/ CommitCloseAttempt(c) \/ CommitCorrectAttempt(c)
<1>1. ASSUME NEW c \in Clients, LoadCycleRequest(c) \/ LoadExecutionRequest(c)
      PROVE  UNCHANGED <<attempt, corrections>>
  BY <1>1 DEF LoadCycleRequest, LoadExecutionRequest, LoadAddCycleTests, LoadTransitionCycle,
              LoadRemoveCycleTest, LoadRefreshVersion, LoadStartAttempt, LoadRequestRetest,
              LoadSetStepResult, LoadCompleteAttempt, LoadAbortAttempt, LoadCorrectAttempt, Begin
<1>2. ASSUME NEW c \in Clients,
             \/ CommitAddCycleTests(c) \/ CommitTransitionCycle(c) \/ CommitRemoveCycleTest(c)
             \/ CommitRefreshVersion(c) \/ CommitRequestRetest(c)
      PROVE  UNCHANGED <<attempt, corrections>>
  BY <1>2 DEF CommitAddCycleTests, CommitTransitionCycle, CommitRemoveCycleTest,
              CommitRefreshVersion, CommitRequestRetest
<1> QED
  BY <1>1, <1>2 DEF Next, vars, ApproveVersion, CreateCycle, CloneCycle, FailRequest, CommitRequest

LEMMA CyclesCounted ==
    ASSUME Sequential, SerialInv, [Next]_vars, NEW y \in Cycles, cycle[y].status # cycle'[y].status
    PROVE  cycle'[y].version > cycle[y].version /\ cycle[y].status # "archived"
<1>1. cycle \in [Cycles -> CycleRows]
  BY DEF SerialInv, IInv, TypeOK
<1>2. ASSUME NEW new \in Cycles, cycle[new] = NoCycle,
             cycle' = [cycle EXCEPT ![new] = [status |-> "draft", version |-> 1]]
      PROVE  cycle'[y].version > cycle[y].version /\ cycle[y].status # "archived"
  <2>1. y = new
    BY <1>1, <1>2
  <2> QED
    BY <1>1, <1>2, <2>1 DEF NoCycle
<1>3. ASSUME NEW c \in Clients, CommitTransitionCycle(c)
      PROVE  cycle'[y].version > cycle[y].version /\ cycle[y].status # "archived"
  <2> DEFINE q == req[c]
  <2>1. /\ q.cycle \in Cycles /\ q.version \in Nat /\ q.version = cycle[q.cycle].version
        /\ <<cycle[q.cycle].status, q.to>> \in CycleTransitions
    BY <1>3, ReadyRequest, RequestFields DEF CommitTransitionCycle, StillTrue
  <2>2. cycle' = [cycle EXCEPT ![q.cycle] = [status |-> q.to, version |-> q.version + 1]]
    BY <1>3 DEF CommitTransitionCycle
  <2>3. y = q.cycle
    BY <1>1, <2>1, <2>2
  <2>4. cycle[y].status # "archived"
    BY <2>1, <2>3 DEF CycleTransitions
  <2> QED
    BY <1>1, <2>1, <2>2, <2>3, <2>4
<1> QED
  BY <1>2, <1>3, CycleWriters DEF CreateCycle, CloneCycle

\* Every change of the status of a cycle raises its version, and none leaves
\* the archive: transition_cycle adds one to the version it has checked.
THEOREM CycleVersionsCount == ASSUME Sequential PROVE Spec => CycleChangesCounted
<1>1. SerialInv /\ [Next]_vars =>
        [\A y \in Cycles : cycle[y].status # cycle'[y].status =>
            /\ cycle'[y].version > cycle[y].version
            /\ cycle[y].status # "archived"]_vars
  BY CyclesCounted
<1> QED
  BY SerialInvariance, <1>1, PTL DEF Spec, CycleChangesCounted

LEMMA RetestAnswered ==
    ASSUME Sequential, SerialInv, [Next]_vars,
           NEW a \in Attempts, attempt[a].status = "none", Open(a)'
    PROVE  ~cycleTest'[attempt'[a].test].retest
<1>1. attempt'[a] # attempt[a]
  BY DEF Open
<1>2. ASSUME NEW c \in Clients, CommitStartAttempt(c)
      PROVE  ~cycleTest'[attempt'[a].test].retest
  <2> DEFINE q == req[c]
  <2>1. q.test \in CycleTests /\ q.retest = cycleTest[q.test].retest
    BY <1>2, ReadyRequest, RequestFields DEF CommitStartAttempt, StillTrue
  <2>2. PICK b \in Attempts :
           attempt' = [attempt EXCEPT ![b] = [NoAttempt EXCEPT !.test = q.test,
                                                !.version = q.version,
                                                !.snapshot = cycleTest[q.test].steps,
                                                !.status = "IN_PROGRESS"]]
    BY <1>2 DEF CommitStartAttempt
  <2>3. b = a /\ attempt'[a].test = q.test
    BY <1>1, <2>2 DEF SerialInv, IInv, TypeOK, NoAttempt
  <2>4. cycleTest' = [cycleTest EXCEPT ![q.test].retest = @ /\ ~q.retest]
    BY <1>2 DEF CommitStartAttempt
  <2>5. cycleTest'[q.test].retest = (cycleTest[q.test].retest /\ ~q.retest)
    BY <2>1, <2>4 DEF SerialInv, IInv, TypeOK, CycleTestRows
  <2> QED
    BY <2>1, <2>3, <2>5, Zenon
<1>3. ASSUME NEW c \in Clients, CommitSetStepResult(c) PROVE FALSE
  <2>1. req[c].attempt \in Attempts /\ Open(req[c].attempt)
    BY <1>3, ReadyRequest, RequestFields DEF CommitSetStepResult, StillTrue
  <2> QED
    BY <1>1, <1>3, <2>1 DEF CommitSetStepResult, SerialInv, IInv, TypeOK, Open
<1>4. ASSUME NEW c \in Clients, CommitCloseAttempt(c) PROVE FALSE
  <2>1. req[c].attempt \in Attempts /\ Open(req[c].attempt)
    BY <1>4, ReadyRequest, RequestFields DEF CommitCloseAttempt, StillTrue
  <2> QED
    BY <1>1, <1>4, <2>1 DEF CommitCloseAttempt, SerialInv, IInv, TypeOK, Open
<1> QED
  BY <1>1, <1>2, <1>3, <1>4, AttemptWriters DEF CommitCorrectAttempt

\* start_attempt clears the retest request there is.
THEOREM RetestsAnswered == ASSUME Sequential PROVE Spec => StartAnswersRetest
<1>1. SerialInv /\ [Next]_vars =>
        [\A a \in Attempts : attempt[a].status = "none" /\ Open(a)' =>
            ~cycleTest'[attempt'[a].test].retest]_vars
  BY RetestAnswered
<1> QED
  BY SerialInvariance, <1>1, PTL DEF Spec, StartAnswersRetest

-----------------------------------------------------------------------------
(* The refinement of the ledger.  A commit of an execution request is a    *)
(* step of the ledger; every other step is none.                           *)

Entry(a) == [test |-> attempt[a].test, version |-> attempt[a].version,
             outcome |-> attempt[a].status, evidence |-> attempt[a].results,
             overridden |-> attempt[a].overridden, corrections |-> corrections[a]]
Entries == [a \in Attempts |-> Entry(a)]

LEMMA InitLedger == Init => Ledger!Init
BY DEF Init, Ledger!Init, Ledger!Blank, NoAttempt, NoVersion

\* A step that changes one entry changes the ledger there alone.
LEMMA EntryChanged ==
    ASSUME NEW a \in Attempts,
           \A b \in Attempts : b # a =>
              attempt'[b] = attempt[b] /\ corrections'[b] = corrections[b]
    PROVE  Entries' = [Entries EXCEPT ![a] = Entry(a)']
BY DEF Entries, Entry

\* An attempt that is not there is a blank entry.
LEMMA BlankEntry ==
    ASSUME SerialInv, NEW a \in Attempts, attempt[a].status = "none"
    PROVE  Entries[a] = Ledger!Blank
<1>1. attempt[a] = NoAttempt
  BY DEF SerialInv, EvidenceSound, NewAttemptsBlank
<1>2. corrections[a] = <<>>
  BY DEF SerialInv, IInv, FollowUpsHaveHistory, Closed, Terminal
<1>3. Entry(a) = [test |-> NoAttempt.test, version |-> NoAttempt.version,
                  outcome |-> NoAttempt.status, evidence |-> NoAttempt.results,
                  overridden |-> NoAttempt.overridden, corrections |-> <<>>]
  BY <1>1, <1>2 DEF Entry
<1>4. Entry(a) = Ledger!Blank
  BY <1>3 DEF Ledger!Blank, NoAttempt, NoVersion
<1> QED
  BY <1>4 DEF Entries

\* The entry of an attempt that has just been started.
LEMMA StartedEntry ==
    ASSUME NEW t, NEW v
    PROVE  [Ledger!Blank EXCEPT !.test = t, !.version = v, !.outcome = "IN_PROGRESS"]
             = [test |-> t, version |-> v, outcome |-> "IN_PROGRESS",
                evidence |-> [s \in Steps |-> "not_run"],
                overridden |-> FALSE, corrections |-> <<>>]
<1> DEFINE f == [s \in Steps |-> "not_run"]
           g == FALSE
           x == <<>>
           b1 == [Ledger!Blank EXCEPT !.test = t]
           b2 == [b1 EXCEPT !.version = v]
           b3 == [b2 EXCEPT !.outcome = "IN_PROGRESS"]
<1>1. Ledger!Blank = [test |-> "none", version |-> 0, outcome |-> "none", evidence |-> f,
                      overridden |-> g, corrections |-> x]
  BY DEF Ledger!Blank
<1> HIDE DEF f, g, x
<1>2. b1 = [test |-> t, version |-> 0, outcome |-> "none", evidence |-> f,
            overridden |-> g, corrections |-> x]
  BY <1>1
<1> HIDE DEF b1
<1>3. b2 = [test |-> t, version |-> v, outcome |-> "none", evidence |-> f,
            overridden |-> g, corrections |-> x]
  BY <1>2
<1> HIDE DEF b2
<1>4. b3 = [test |-> t, version |-> v, outcome |-> "IN_PROGRESS", evidence |-> f,
            overridden |-> g, corrections |-> x]
  BY <1>3
<1> QED
  BY <1>4 DEF b1, b2, f, g, x

LEMMA StartRefines ==
    ASSUME SerialInv, NEW c \in Clients, CommitStartAttempt(c)
    PROVE  Ledger!Next
<1> DEFINE q == req[c]
<1>1. PICK t \in CycleTests, v \in Versions :
         /\ t = q.test /\ v = q.version
         /\ ~HasOpenAttempt(t) /\ v = cycleTest[t].version
  BY ReadyRequest, RequestFields DEF CommitStartAttempt, StillTrue
<1>2. PICK a \in Attempts :
         /\ attempt[a].status = "none"
         /\ attempt' = [attempt EXCEPT
               ![a] = [NoAttempt EXCEPT !.test = t,
                                        !.version = v,
                                        !.snapshot = cycleTest[t].steps,
                                        !.status = "IN_PROGRESS"]]
  BY <1>1 DEF CommitStartAttempt
<1>3. UNCHANGED corrections
  BY DEF CommitStartAttempt
<1>4. \A b \in Attempts : Entries[b].test = t =>
         Entries[b].outcome # "IN_PROGRESS" /\ Entries[b].version = v
  <2> SUFFICES ASSUME NEW b \in Attempts, attempt[b].test = t
               PROVE  attempt[b].status # "IN_PROGRESS" /\ attempt[b].version = v
    BY DEF Entries, Entry
  <2>1. attempt[b].status # "none"
    BY <1>1, IdsAssumption DEF SerialInv, EvidenceSound, NewAttemptsBlank, NoAttempt
  <2>2. b \in AttemptsOf(t)
    BY <2>1 DEF AttemptsOf
  <2>3. attempt[b].version = cycleTest[t].steps
    BY <2>1 DEF SerialInv, EvidenceSound, AttemptRunsItsVersion, IInv, EvidencePinned
  <2> QED
    BY <1>1, <2>2, <2>3 DEF HasOpenAttempt, Open, SerialInv, ScopeSound, StepsOfVersion
<1>5. Entry(a)' = [Ledger!Blank EXCEPT !.test = t, !.version = v,
                                       !.outcome = "IN_PROGRESS"]
  <2> DEFINE row == [NoAttempt EXCEPT !.test = t,
                                      !.version = v,
                                      !.snapshot = cycleTest[t].steps,
                                      !.status = "IN_PROGRESS"]
  <2>1. corrections[a] = <<>>
    BY <1>2 DEF SerialInv, IInv, FollowUpsHaveHistory, Closed, Terminal
  <2>2. attempt'[a] = row
    BY <1>2 DEF SerialInv, IInv, TypeOK
  <2> DEFINE f == [s \in Steps |-> "not_run"]
             g == FALSE
             x == <<>>
  <2>3. Entry(a)' = [test |-> row.test, version |-> row.version,
                     outcome |-> row.status, evidence |-> row.results,
                     overridden |-> row.overridden, corrections |-> x]
    BY <1>3, <2>1, <2>2 DEF Entry
  <2>4. /\ row.test = t /\ row.version = v /\ row.status = "IN_PROGRESS"
        /\ row.results = f
        /\ row.overridden = g
    BY <1>1 DEF NoAttempt
  <2>5. [Ledger!Blank EXCEPT !.test = t, !.version = v, !.outcome = "IN_PROGRESS"]
          = [test |-> t, version |-> v, outcome |-> "IN_PROGRESS",
             evidence |-> f, overridden |-> g, corrections |-> x]
    BY StartedEntry
  <2> HIDE DEF row, f, g, x
  <2> QED
    BY <2>3, <2>4, <2>5
<1>6. Entries' = [Entries EXCEPT ![a] = Entry(a)']
  BY <1>2, <1>3, EntryChanged DEF SerialInv, IInv, TypeOK
<1>7. Ledger!Start(a, t, v)
  BY <1>2, <1>4, <1>5, <1>6, BlankEntry DEF Ledger!Start, Ledger!OpenEntry, Entries, Entry
<1> QED
  BY <1>7 DEF Ledger!Next

LEMMA StepRefines ==
    ASSUME SerialInv, NEW c \in Clients, CommitSetStepResult(c)
    PROVE  Ledger!Next
<1> DEFINE q == req[c]
<1>1. PICK a \in Attempts, s \in Steps, r \in StepResults :
         /\ a = q.attempt /\ s = q.step /\ Open(a)
         /\ r = IF q.result = q.seen THEN attempt[a].results[s] ELSE q.result
  <2>1. /\ q.attempt \in Attempts /\ q.step \in Steps /\ q.result \in StepResults
        /\ Open(q.attempt)
    BY ReadyRequest, RequestFields DEF CommitSetStepResult, StillTrue
  <2>2. attempt[q.attempt].results[q.step] \in StepResults
    BY <2>1 DEF SerialInv, IInv, TypeOK, AttemptRows
  <2> QED
    BY <2>1, <2>2
<1>2. attempt' = [attempt EXCEPT ![a].results[s] = r] /\ UNCHANGED corrections
  BY <1>1 DEF CommitSetStepResult
<1>3. Entries' = [Entries EXCEPT ![a].evidence[s] = r]
  <2> DEFINE f == [attempt[a].results EXCEPT ![s] = r]
  <2>1. attempt \in [Attempts -> AttemptRows] /\ attempt[a] \in AttemptRows
    BY DEF SerialInv, IInv, TypeOK
  <2>2. /\ attempt'[a].test = attempt[a].test /\ attempt'[a].version = attempt[a].version
        /\ attempt'[a].status = attempt[a].status /\ attempt'[a].results = f
        /\ \A b \in Attempts : b # a => attempt'[b] = attempt[b]
    BY <1>2, <2>1 DEF AttemptRows
  <2>3. attempt'[a].overridden = attempt[a].overridden
    BY <1>2, <2>1 DEF AttemptRows
  <2> HIDE DEF f
  <2>4. Entry(a)' = [Entry(a) EXCEPT !.evidence = f]
    BY <1>2, <2>2, <2>3 DEF Entry
  <2>5. Entries' = [Entries EXCEPT ![a] = Entry(a)']
    BY <1>2, <2>2, EntryChanged
  <2>6. Entries[a] = Entry(a) /\ Entry(a).evidence = attempt[a].results
    BY DEF Entries, Entry
  <2> QED
    BY <2>4, <2>5, <2>6 DEF f
<1>4. Ledger!Record(a, s, r)
  BY <1>1, <1>3 DEF Ledger!Record, Ledger!OpenEntry, Entries, Entry, Open
<1> QED
  BY <1>4 DEF Ledger!Next

LEMMA CloseRefines ==
    ASSUME SerialInv, NEW c \in Clients, CommitCloseAttempt(c)
    PROVE  Ledger!Next
<1> DEFINE q == req[c]
<1>1. PICK a \in Attempts, r \in Terminal, o \in BOOLEAN :
         /\ a = q.attempt /\ r = q.result /\ o = q.override /\ Open(a)
         /\ \/ o \/ r = "ABORTED"
            \/ r = DeriveOverallResult(attempt[a].snapshot, attempt[a].results)
  BY ReadyRequest, RequestFields DEF CommitCloseAttempt, StillTrue
<1>2. /\ attempt' = [attempt EXCEPT ![a].status = r, ![a].overridden = @ \/ o]
      /\ UNCHANGED corrections
  BY <1>1 DEF CommitCloseAttempt
<1>3. attempt \in [Attempts -> AttemptRows] /\ attempt[a] \in AttemptRows
  BY DEF SerialInv, IInv, TypeOK
<1>4. /\ attempt'[a].test = attempt[a].test /\ attempt'[a].version = attempt[a].version
      /\ attempt'[a].status = r /\ attempt'[a].results = attempt[a].results
      /\ \A b \in Attempts : b # a => attempt'[b] = attempt[b]
  BY <1>2, <1>3 DEF AttemptRows
<1>5. Entries' = [Entries EXCEPT ![a] = Entry(a)']
  BY <1>2, <1>4, EntryChanged
<1>6. Entries[a] = Entry(a)
  BY DEF Entries
<1>7. Ledger!OpenEntry(a)
  BY <1>1 DEF Ledger!OpenEntry, Open
<1>8. CASE o
  <2>1. attempt'[a].overridden = TRUE
    BY <1>2, <1>3, <1>8 DEF AttemptRows
  <2>2. Entry(a)' = [Entry(a) EXCEPT !.outcome = r, !.overridden = TRUE]
    <3> DEFINE e == [Entry(a) EXCEPT !.outcome = r]
               o1 == TRUE
    <3>1. e = [test |-> attempt[a].test, version |-> attempt[a].version,
               outcome |-> r, evidence |-> attempt[a].results,
               overridden |-> attempt[a].overridden, corrections |-> corrections[a]]
      BY DEF Entry
    <3>2. attempt'[a].overridden = o1
      BY <2>1
    <3> HIDE DEF e, o1
    <3>3. Entry(a)' = [e EXCEPT !.overridden = o1]
      BY <1>2, <1>4, <3>1, <3>2 DEF Entry
    <3> QED
      BY <3>3 DEF e, o1
  <2>3. Ledger!Override(a, r)
    BY <1>5, <1>6, <1>7, <2>2 DEF Ledger!Override, Entries, Entry
  <2> QED
    BY <2>3 DEF Ledger!Next
<1>9. CASE ~o
  <2>1. attempt'[a].overridden = attempt[a].overridden
    BY <1>2, <1>3, <1>9 DEF AttemptRows
  <2>2. Entry(a)' = [Entry(a) EXCEPT !.outcome = r]
    BY <1>2, <1>4, <2>1 DEF Entry
  <2>3. Entries' = [Entries EXCEPT ![a].outcome = r]
    BY <1>5, <1>6, <2>2
  <2>4. CASE r = "ABORTED"
    <3>1. Ledger!Abort(a)
      BY <1>7, <2>3, <2>4 DEF Ledger!Abort, Entries, Entry
    <3> QED
      BY <3>1 DEF Ledger!Next
  <2>5. CASE r = DeriveOverallResult(attempt[a].snapshot, attempt[a].results)
    <3>1. attempt[a].version = attempt[a].snapshot
      BY DEF SerialInv, EvidenceSound, AttemptRunsItsVersion
    <3>2. DeriveOverallResult(Entries[a].version, Entries[a].evidence) = r
      BY <2>5, <3>1 DEF Entries, Entry
    <3>3. Ledger!Conclude(a)
      BY <1>7, <2>3, <3>2 DEF Ledger!Conclude, Entries, Entry
    <3> QED
      BY <3>3 DEF Ledger!Next
  <2> QED
    BY <1>1, <1>9, <2>4, <2>5
<1> QED
  BY <1>8, <1>9

LEMMA CorrectRefines ==
    ASSUME SerialInv, NEW c \in Clients, CommitCorrectAttempt(c)
    PROVE  Ledger!Next
<1> DEFINE q == req[c]
<1>1. PICK a \in Attempts, r \in Terminal : a = q.attempt /\ r = q.result /\ Closed(a)
  BY ReadyRequest, RequestFields DEF CommitCorrectAttempt, StillLoaded
<1>2. corrections' = [corrections EXCEPT ![a] = Append(@, r)] /\ UNCHANGED attempt
  BY <1>1 DEF CommitCorrectAttempt
<1>3. /\ corrections'[a] = Append(corrections[a], r)
      /\ \A b \in Attempts : b # a => corrections'[b] = corrections[b]
  BY <1>2 DEF SerialInv, IInv, TypeOK
<1>4. Entry(a)' = [Entry(a) EXCEPT !.corrections = Append(corrections[a], r)]
  BY <1>2, <1>3 DEF Entry
<1>5. Entries' = [Entries EXCEPT ![a] = Entry(a)']
  BY <1>2, <1>3, EntryChanged
<1>6. Entries[a] = Entry(a) /\ Entry(a).corrections = corrections[a]
  BY DEF Entries, Entry
<1>7. Ledger!Correct(a, r)
  BY <1>1, <1>4, <1>5, <1>6 DEF Ledger!Correct, Ledger!ClosedEntry, Closed, Entries, Entry
<1> QED
  BY <1>7 DEF Ledger!Next

LEMMA NextRefines ==
    ASSUME SerialInv, [Next]_vars
    PROVE  [Ledger!Next]_Entries
<1>1. CASE UNCHANGED <<attempt, corrections>>
  <2>1. \A a \in Attempts : Entry(a)' = Entry(a)
    BY <1>1 DEF Entry
  <2> QED
    BY <2>1 DEF Entries
<1>2. ASSUME NEW c \in Clients,
             \/ CommitStartAttempt(c) \/ CommitSetStepResult(c)
             \/ CommitCloseAttempt(c) \/ CommitCorrectAttempt(c)
      PROVE  Ledger!Next
  BY <1>2, StartRefines, StepRefines, CloseRefines, CorrectRefines
<1> QED
  BY <1>1, <1>2, AttemptWriters

\* The execution handlers implement the ledger of attempts: every run of
\* theirs, without overlapping requests, is one that the ledger allows.
THEOREM LedgerImplemented == ASSUME Sequential PROVE Spec => ImplementsLedger
<1>1. SerialInv /\ [Next]_vars => [Ledger!Next]_Entries
  BY NextRefines
<1>2. Spec => Ledger!Init /\ [][Ledger!Next]_Entries
  BY SerialInvariance, InitLedger, <1>1, PTL DEF Spec
<1> QED
  BY <1>2, PTL DEF ImplementsLedger, Ledger!Spec, Entries, Entry
=============================================================================
