----------------------------- MODULE Reporting -----------------------------
(***************************************************************************)
(* The metrics of backend/app/domain/reporting.py, on every state that the *)
(* execution of cycles (CycleExecution) brings about: the metrics M-01 to  *)
(* M-13, their drill-downs, the break-down by cycle, the roll-up by        *)
(* release, the coverage by type and the trend, all computed on read.      *)
(*                                                                         *)
(* The rest of what reports read is `repo': requirements, scenarios, trace *)
(* links, defects, and the life cycle of the test cases.  A behaviour has  *)
(* one of the Repositories throughout, since no report relates two         *)
(* moments.  A ratio is a pair of numerator and denominator, its value and *)
(* wording are left out.                                                   *)
(***************************************************************************)
EXTENDS CycleExecution, FiniteSetsExt

CONSTANTS
    Requirements,  \* requirement row ids
    Defects,       \* defect row ids
    Groups,        \* plans, releases, environments or builds of cycles
    GroupOf,       \* cycle -> its group, or "none"
    Repositories   \* what the tables named above may contain

LifecycleStates == {"draft", "in_review", "approved", "active", "deprecated", "archived"}
AutomationStatuses == {"not_applicable", "candidate", "automated"}
RequirementStatuses == {"absent", "draft", "active", "fulfilled", "archived"}
DefectStatuses == {"new", "open", "in_progress", "resolved", "closed", "rejected"}
Severities == {"critical", "high", "major", "minor", "trivial"}

\* `scenario' maps a test case to the requirement and the status of its
\* scenario, `covers' and `regresses' are trace links that are not removed;
\* they may name a requirement that is gone.
RepositoryRows ==
    [requirement : [Requirements -> RequirementStatuses],
     covers : SUBSET (Requirements \X TestCases),
     scenario : [TestCases -> [requirement : Requirements \cup {"none"},
                               status : {"active", "archived"}]],
     lifecycle : [TestCases -> LifecycleStates],
     automation : [TestCases -> AutomationStatuses],
     eligible : [TestCases -> BOOLEAN],
     defect : [Defects -> [severity : Severities, status : DefectStatuses]],
     regresses : SUBSET (Defects \X Requirements)]

ASSUME ReportingAssumption ==
    /\ GroupOf \in [Cycles -> Groups \cup {"none"}]
    /\ \A r \in Repositories : r \in RepositoryRows
    /\ "none" \notin Requirements \cup Groups

\* Tables are finite, so their rows can be counted.
ASSUME FiniteAssumption ==
    IsFiniteSet(CycleTests) /\ IsFiniteSet(Attempts) /\ IsFiniteSet(Requirements)

VARIABLES
    repo,    \* the other tables
    raised,  \* attempt_defect_link rows: attempt and defect
    latest   \* cycle test -> its attempt last closed or corrected

reportVars == <<vars, repo, raised, latest>>

-----------------------------------------------------------------------------
(* resolve_cycle_test_result.  The attempts of a test are ordered by the    *)
(* time of their last correction, or of their end if there is none.         *)
Concluded == {a \in Attempts : \/ Closed(a)' /\ ~Closed(a)
                               \/ corrections'[a] # corrections[a]}

\* An attempt that is closed or corrected becomes the last one of its test.
Follow ==
    latest' = [t \in CycleTests |->
                  IF \E a \in Concluded : attempt[a].test = t
                  THEN CHOOSE a \in Concluded : attempt[a].test = t ELSE latest[t]]

Effective(a) ==
    IF corrections[a] = <<>> THEN attempt[a].status
    ELSE corrections[a][Len(corrections[a])]

Displayed(t) ==
    LET closed == \E a \in AttemptsOf(t) : Closed(a) IN
    IF cycleTest[t].retest /\ (closed => ~HasOpenAttempt(t)) THEN "RETEST_PENDING"
    ELSE IF closed THEN Effective(latest[t]) ELSE "NOT_RUN"

(* link_defect: to an attempt in any state, once.                           *)
LinkDefect(a, d) ==
    /\ attempt[a].status # "none"
    /\ raised' = raised \cup {<<a, d>>}
    /\ UNCHANGED <<vars, repo, latest>>

ReportInit ==
    /\ Init
    /\ repo \in Repositories
    /\ raised = {}
    /\ latest = [t \in CycleTests |-> "none"]

ReportNext ==
    \/ Next /\ Follow /\ UNCHANGED <<repo, raised>>
    \/ \E a \in Attempts, d \in Defects : LinkDefect(a, d)

ReportSpec == ReportInit /\ [][ReportNext]_reportVars

-----------------------------------------------------------------------------
(* What a report is about: `cycle' and `group' are "any", or the only one.  *)
Scopes == [cycle : Cycles \cup {"any"}, group : Groups \cup {"any"}]
Whole == [cycle |-> "any", group |-> "any"]

\* _scoped_cycle_tests.
ScopedCycleTests(scope) ==
    {t \in CycleTests : LET y == cycleTest[t].cycle IN
        /\ Exists(t) /\ ~cycleTest[t].removed
        /\ cycle[y].status # "archived"
        /\ scope.cycle \in {"any", y}
        /\ scope.group \in {"any", GroupOf[y]}}

Counted(tests, results) == {t \in tests : Displayed(t) \in results}

Qualifies(k) == repo.lifecycle[k] \in {"approved", "active"} /\ approved[k] # NoVersion

\* _requirement_test_case_ids: linked cases, and those of active scenarios.
Covering(r) ==
    {k \in TestCases : \/ <<r, k>> \in repo.covers
                       \/ repo.scenario[k] = [requirement |-> r, status |-> "active"]}

ActiveRequirements == {r \in Requirements : repo.requirement[r] = "active"}

\* Mutant: whether the case is still approved is not asked.
CoveringTestsAny(r, tests) == {t \in tests : cycleTest[t].case \in Covering(r)}

\* Tests in scope through which a requirement is covered.
CoveringTests(r, tests) ==
    {t \in tests : cycleTest[t].case \in Covering(r) /\ Qualifies(cycleTest[t].case)}

RaisedFrom(tests) ==
    {d \in Defects : \E l \in raised : l[2] = d /\ attempt[l[1]].test \in tests}

Hot == {d \in Defects : /\ repo.defect[d].severity \in {"critical", "high"}
                        /\ repo.defect[d].status \in {"open", "in_progress"}}
OpenCritical == {d \in Defects : /\ repo.defect[d].severity = "critical"
                                 /\ repo.defect[d].status \notin {"closed", "rejected"}}
Eligible == {k \in TestCases : /\ repo.lifecycle[k] = "active" /\ repo.eligible[k]
                               /\ repo.automation[k] # "not_applicable"}

\* The active trace links, and those whose two ends can be loaded.
Links == ({"covers"} \X repo.covers) \cup ({"regresses"} \X repo.regresses)
Resolvable(l) ==
    repo.requirement[IF l[1] = "covers" THEN l[2][1] ELSE l[2][2]] # "absent"

Green == {"PASSED", "SKIPPED"}

\* All is green in the scope: nothing that qualifies failed or is outstanding.
AllGreen(tests) ==
    LET qualifying == {t \in tests : Qualifies(cycleTest[t].case)} IN
    /\ \A t \in qualifying : Displayed(t) \in Green
    /\ \E t \in qualifying : Displayed(t) = "PASSED"

(* compute_all.                                                             *)
Metrics(scope) ==
    LET tests == ScopedCycleTests(scope)
        reqs == ActiveRequirements
        covered == {r \in reqs : \E k \in Covering(r) : Qualifies(k)}
        planned == {r \in reqs : CoveringTests(r, tests) # {}}
        executed == {r \in reqs : Counted(CoveringTests(r, tests), Terminal) # {}}
        passed == {r \in planned : /\ AllGreen(tests)
                                   /\ \A t \in CoveringTests(r, tests) : Displayed(t) \in Green}
        hit == {r \in reqs : \/ \E d \in Hot : <<d, r>> \in repo.regresses
                             \/ RaisedFrom(CoveringTests(r, tests)) \cap Hot # {}}
        N(S) == Cardinality(S)
    IN  [scoped |-> N(tests),
         completion |-> <<N(Counted(tests, Terminal)), N(tests)>>,
         passRate |-> <<N(Counted(tests, {"PASSED"})),
                        N(Counted(tests, {"PASSED"})) + N(Counted(tests, {"FAILED"}))
                          + N(Counted(tests, {"BLOCKED"}))>>,
         notRun |-> N({t \in tests : AttemptsOf(t) = {}}),
         design |-> <<N(covered), N(reqs)>>,
         plan |-> <<N(planned), N(reqs)>>,
         execution |-> <<N(executed), N(reqs)>>,
         pass |-> <<N(passed), N(planned)>>,
         uncovered |-> N(reqs \ covered),
         critical |-> N(OpenCritical),
         affected |-> N(hit),
         automation |-> <<N({k \in Eligible : repo.automation[k] = "automated"}), N(Eligible)>>,
         links |-> <<N({l \in Links : Resolvable(l)}), N(Links)>>]

-----------------------------------------------------------------------------
\* Mutant: a pending retest is in no column.
BreakdownRowNoRetest(tests) ==
    LET N(results) == Cardinality(Counted(tests, results)) IN
    [scoped |-> Cardinality(tests), terminal |-> N(Terminal), passed |-> N({"PASSED"}),
     failed |-> N({"FAILED"}), blocked |-> N({"BLOCKED"}),
     notRun |-> N({"NOT_RUN"})]

(* cycle_breakdown: a row for every cycle that has tests in the scope.      *)
BreakdownRow(tests) ==
    LET N(results) == Cardinality(Counted(tests, results)) IN
    [scoped |-> Cardinality(tests), terminal |-> N(Terminal), passed |-> N({"PASSED"}),
     failed |-> N({"FAILED"}), blocked |-> N({"BLOCKED"}),
     notRun |-> N({"NOT_RUN", "RETEST_PENDING"})]

CycleBreakdown(scope) ==
    LET tests == ScopedCycleTests(scope) IN
    [y \in {cycleTest[t].cycle : t \in tests} |->
        BreakdownRow({t \in tests : cycleTest[t].cycle = y})]

\* A column of the break-down, summed up.
Total(rows, column) == MapThenSumSet(LAMBDA y : rows[y][column], DOMAIN rows)

(* release_overview: the break-down of a release, summed up.                *)
ReleaseOverview(g) ==
    LET rows == CycleBreakdown([cycle |-> "any", group |-> g]) IN
    [cycles |-> Cardinality(DOMAIN rows),
     scoped |-> Total(rows, "scoped"),
     terminal |-> Total(rows, "terminal"),
     passed |-> Total(rows, "passed"),
     failed |-> Total(rows, "failed"),
     blocked |-> Total(rows, "blocked")]

(* coverage_by_type.                                                        *)
CoverageByType ==
    LET tests == {k \in TestCases : repo.lifecycle[k] \in {"approved", "active"}}
        Of(kind) == {k \in tests : repo.automation[k] = kind}
        Through(kind) == {r \in ActiveRequirements :
                             \E k \in Of(kind) \cap Covering(r) : Qualifies(k)}
    IN  [automated |-> Cardinality(Of("automated")), manual |-> Cardinality(Of("candidate")),
         total |-> Cardinality(tests), reqsAutomated |-> Cardinality(Through("automated")),
         reqsManual |-> Cardinality(Through("candidate"))]

(* execution_trend of a release or an environment, over all its days: the   *)
(* closed attempts by the result they were closed with, also those of       *)
(* removed tests and archived cycles.                                       *)
Trend(scope) ==
    LET closed == {a \in Attempts : Closed(a) /\
                      LET y == cycleTest[attempt[a].test].cycle IN
                      /\ scope.cycle \in {"any", y}
                      /\ scope.group \in {"any", GroupOf[y]}}
        With(results) == Cardinality({a \in closed : attempt[a].status \in results})
    IN  [passed |-> With({"PASSED"}), failed |-> With({"FAILED"}),
         blocked |-> With({"BLOCKED"}), other |-> With({"SKIPPED", "ABORTED"}),
         total |-> Cardinality(closed)]

-----------------------------------------------------------------------------
(* drill_down: the rows behind a metric.                                    *)

\* M-01 and M-02 list all tests of the scope with their results.
TestRows(scope) == ScopedCycleTests(scope)
RatedRows(scope) == Counted(ScopedCycleTests(scope), {"PASSED", "FAILED", "BLOCKED"})
NotRunRows(scope) == {t \in ScopedCycleTests(scope) : AttemptsOf(t) = {}}

QualifyingCases(r) == {k \in Covering(r) : Qualifies(k)}
ScopedThrough(r, scope) ==
    UNION {{t \in ScopedCycleTests(scope) : cycleTest[t].case = k} : k \in QualifyingCases(r)}

\* The requirements that are marked as counted, for M-05 to M-09.
CountedRows(metric, scope) ==
    LET Results(r) == {Displayed(t) : t \in ScopedThrough(r, scope)} IN
    {r \in ActiveRequirements :
        CASE metric = "M-05" -> QualifyingCases(r) # {}
          [] metric = "M-06" -> ScopedThrough(r, scope) # {}
          [] metric = "M-07" -> Results(r) \cap Terminal # {}
          [] metric = "M-08" -> Results(r) \subseteq Green /\ "PASSED" \in Results(r)
          [] metric = "M-09" -> QualifyingCases(r) = {}}

\* Mutant: defects are listed for tests of any attempt in the scope's cycles.
AffectedRowsOfAll(scope) ==
    {r \in ActiveRequirements :
        \E d \in Hot : <<d, r>> \in repo.regresses \/ \E a \in Attempts : <<a, d>> \in raised}

AffectedRows(scope) ==
    {r \in ActiveRequirements :
        \E d \in Hot : \/ <<d, r>> \in repo.regresses
                       \/ \E t \in ScopedThrough(r, scope), a \in Attempts :
                             <<a, d>> \in raised /\ attempt[a].test = t}

-----------------------------------------------------------------------------
\* A request that has only loaded its rows changes no report, so reports are
\* compared where none is in flight.
AtRest == \A c \in Clients : req[c] = Idle

(* The break-down by cycle and the roll-up by release add up to the metrics *)
(* of their scope: every surface shows the same counts.                     *)
SurfacesAgree ==
    AtRest =>
        /\ \A scope \in Scopes :
              LET rows == CycleBreakdown(scope)
                  m == Metrics(scope)
                  passed == Total(rows, "passed")
              IN  /\ Total(rows, "scoped") = m.scoped
                  /\ Total(rows, "terminal") = m.completion[1]
                  /\ passed = m.passRate[1]
                  /\ passed + Total(rows, "failed")
                       + Total(rows, "blocked") = m.passRate[2]
                  /\ \A y \in DOMAIN rows :
                        rows[y].terminal + rows[y].notRun = rows[y].scoped
        /\ \A g \in Groups :
              LET all == ReleaseOverview(g)
                  m == Metrics([cycle |-> "any", group |-> g])
              IN  /\ all.terminal = m.completion[1] /\ all.scoped = m.scoped
                  /\ <<all.passed, all.passed + all.failed + all.blocked>> = m.passRate

(* Every count drills down to its contributors: the rows are as many as the *)
(* metric says, M-08 excepted.                                              *)
DrillDownAgrees ==
    AtRest =>
        \A scope \in Scopes :
            LET m == Metrics(scope)
                N(rows) == Cardinality(rows)
            IN  /\ N(TestRows(scope)) = m.scoped
                /\ m.completion = <<N(Counted(TestRows(scope), Terminal)), N(TestRows(scope))>>
                /\ m.passRate = <<N(Counted(RatedRows(scope), {"PASSED"})), N(RatedRows(scope))>>
                /\ m.notRun = N(NotRunRows(scope))
                /\ m.design[1] = N(CountedRows("M-05", scope))
                /\ m.plan[1] = N(CountedRows("M-06", scope))
                /\ m.execution[1] = N(CountedRows("M-07", scope))
                /\ m.uncovered = N(CountedRows("M-09", scope))
                /\ m.affected = N(AffectedRows(scope))

\* The same of M-08, the pass coverage.
PassCoverageDrillsDown ==
    AtRest =>
        \A scope \in Scopes :
            Metrics(scope).pass[1] = Cardinality(CountedRows("M-08", scope))

\* What is shown of a finished test is the result of one of its own closed
\* attempts, however corrections and ends of attempts follow each other.
ShownConcluded ==
    \A t \in CycleTests : (\E a \in AttemptsOf(t) : Closed(a)) =>
        latest[t] \in AttemptsOf(t) /\ Closed(latest[t])

(* Coverage narrows: what passed was executed, what was executed is planned *)
(* and what is planned is covered by design; a finished test shows an attempt *)
(* of its own that is closed, a test without attempts is not counted as     *)
(* finished, and the trend has an attempt for each that is.                 *)
CoverageNarrows ==
    AtRest =>
        /\ ShownConcluded
        /\ \A scope \in Scopes :
              LET m == Metrics(scope) IN
              /\ m.pass[1] <= m.execution[1] /\ m.execution[1] <= m.plan[1]
              /\ m.pass[2] = m.plan[1] /\ m.plan[1] <= m.design[1]
              /\ m.design[1] + m.uncovered = m.design[2]
              /\ m.notRun + m.completion[1] <= m.scoped
              /\ m.completion[1] <= Trend(scope).total
              /\ CoverageByType.reqsAutomated <= m.design[1]
              /\ CoverageByType.reqsManual <= m.design[1]
=============================================================================
