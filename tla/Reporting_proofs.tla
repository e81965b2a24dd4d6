--------------------------- MODULE Reporting_proofs ---------------------------
(***************************************************************************)
(* Proofs about the reports, for any number of rows, any scope and any     *)
(* contents of the tables, and for requests that overlap in any way.       *)
(*                                                                         *)
(* A report is computed from one state.  That its surfaces agree is so in  *)
(* every state in which ShownConcluded holds: each finished test shows the *)
(* result of a closed attempt of its own.  This is an invariant because    *)
(* closed attempts stay closed (CycleExecution_proofs).  The rest counts   *)
(* sets: a break-down adds up because the tests of a scope fall into their *)
(* cycles (TotalCounts), a drill-down has as many rows as the metric says  *)
(* because it selects the same rows.                                       *)
(***************************************************************************)
EXTENDS Reporting, CycleExecution_proofs, FiniteSetTheorems

-----------------------------------------------------------------------------
(* Sums of a column.  A sum over rows is a recursion over their sets.  What *)
(* holds of it is shown at a smallest set where it might fail, since the    *)
(* subsets of a finite set are well founded.                                *)

\* The sum of a column over the rows of s, given the sums over smaller sets.
SumStep(rows, column, f, s) ==
    IF s = {} THEN 0
    ELSE LET x == CHOOSE x \in s : TRUE IN rows[x][column] + f[s \ {x}]

Sums(rows, column) ==
    CHOOSE f : f = [s \in SUBSET DOMAIN rows |-> SumStep(rows, column, f, s)]

\* f has the sums over sets of at most n rows.
SumsUpTo(rows, column, f, n) ==
    /\ f = [s \in SUBSET DOMAIN rows |-> f[s]]
    /\ \A s \in SUBSET DOMAIN rows : Cardinality(s) <= n => f[s] = SumStep(rows, column, f, s)

\* The fold of the library is that recursion.
LEMMA TotalIs ==
    ASSUME NEW rows, NEW column
    PROVE  Total(rows, column) = Sums(rows, column)[DOMAIN rows]
BY DEF Total, MapThenSumSet, MapThenFoldSet, SumStep, Sums

\* Of some subsets of a finite set, one contains none of the others.
LEMMA Smallest ==
    ASSUME NEW S, IsFiniteSet(S), NEW Bad, Bad \subseteq SUBSET S, Bad # {}
    PROVE  \E T \in Bad : \A U \in Bad : U \subseteq T => U = T
<1>1. Bad \subseteq FiniteSubsetsOf(S)
    BY FS_FiniteSubsetsOfFinite
<1>2. IsWellFoundedOn(StrictSubsetOrdering(S), FiniteSubsetsOf(S))
    BY FS_StrictSubsetOrderingWellFounded
<1>3. PICK T \in Bad : \A U \in Bad : <<U, T>> \notin StrictSubsetOrdering(S)
    BY <1>1, <1>2, WFMin
<1> QED BY <1>3 DEF StrictSubsetOrdering

\* Of some numbers, one is the least: of the intervals up to them, the smallest.
LEMMA Least ==
    ASSUME NEW Bad \in SUBSET Nat, Bad # {}
    PROVE  \E n \in Bad : \A m \in Bad : n <= m
<1>1. PICK top \in Bad : top \in Nat
    OBVIOUS
<1>2. PICK Below : Below = {1..n : n \in {m \in Bad : m <= top}}
    OBVIOUS
<1>3. PICK all : all = 1..top
    OBVIOUS
<1>4. Below \subseteq SUBSET all
    BY <1>1, <1>2, <1>3
<1>5. IsFiniteSet(all) /\ Below # {}
    BY <1>1, <1>2, <1>3, FS_Interval
<1>6. PICK T \in Below : \A U \in Below : U \subseteq T => U = T
    BY <1>4, <1>5, Smallest
<1>7. PICK n \in Bad : n <= top /\ T = 1..n
    BY <1>2
<1>8. ASSUME NEW m \in Bad, m < n PROVE FALSE
  <2>1. m \in Nat /\ n \in Nat /\ m <= top
      BY <1>1, <1>7, <1>8
  <2>2. 1..m \in Below /\ 1..m \subseteq T
      BY <1>2, <1>7, <1>8, <2>1
  <2>3. 1..m = 1..n
      BY <1>6, <1>7, <2>2
  <2>4. n \in 1..n /\ n \notin 1..m
      BY <1>8, <2>1
  <2> QED BY <2>3, <2>4
<1> QED BY <1>8

\* Over a finite number of rows the recursion has a solution.
LEMMA SumsDefined ==
    ASSUME NEW rows, NEW column, IsFiniteSet(DOMAIN rows)
    PROVE  \A s \in SUBSET DOMAIN rows :
              Sums(rows, column)[s] = SumStep(rows, column, Sums(rows, column), s)
<1> DEFINE D == DOMAIN rows
           Has(n) == \E f : SumsUpTo(rows, column, f, n)
           Bad == {n \in Nat : ~Has(n)}
<1>1. \A s \in SUBSET D : IsFiniteSet(s) /\ Cardinality(s) \in Nat
    BY FS_Subset, FS_CardinalityType
<1>2. ASSUME NEW s \in SUBSET D, s # {}
      PROVE  /\ s \ {CHOOSE x \in s : TRUE} \in SUBSET D
             /\ Cardinality(s \ {CHOOSE x \in s : TRUE}) = Cardinality(s) - 1
  <2>1. (CHOOSE x \in s : TRUE) \in s
      BY <1>2
  <2> QED BY <1>1, <2>1, FS_RemoveElement
<1>3. Bad = {}
  <2> SUFFICES ASSUME Bad # {} PROVE FALSE
      OBVIOUS
  <2>1. PICK n \in Bad : \A m \in Bad : n <= m
    <3>1. Bad \in SUBSET Nat
        OBVIOUS
    <3> HIDE DEF Bad
    <3> QED BY <3>1, Least
  <2>2. n # 0
    <3> DEFINE f == [s \in SUBSET D |-> 0]
    <3>1. \A s \in SUBSET D : Cardinality(s) <= 0 => s = {}
        BY <1>1, FS_EmptySet
    <3>2. SumsUpTo(rows, column, f, 0)
        BY <3>1 DEF SumsUpTo, SumStep
    <3>3. Has(0)
        BY <3>2
    <3> QED BY <3>3, <2>1
  <2>3. n - 1 \in Nat /\ n - 1 \notin Bad
      BY <2>1, <2>2
  <2>4. PICK f : SumsUpTo(rows, column, f, n - 1)
      BY <2>3
  <2> DEFINE g == [s \in SUBSET D |-> IF Cardinality(s) <= n - 1 THEN f[s]
                                       ELSE SumStep(rows, column, f, s)]
  <2>5. ASSUME NEW s \in SUBSET D, Cardinality(s) <= n
        PROVE  g[s] = SumStep(rows, column, g, s)
    <3>1. g[s] = SumStep(rows, column, f, s)
        BY <2>4 DEF SumsUpTo
    <3>2. CASE s = {}
        BY <3>1, <3>2 DEF SumStep
    <3>3. CASE s # {}
      <4> DEFINE x == CHOOSE x \in s : TRUE
      <4>1. s \ {x} \in SUBSET D /\ Cardinality(s \ {x}) <= n - 1
          BY <1>1, <1>2, <2>3, <2>5, <3>3
      <4>2. g[s \ {x}] = f[s \ {x}]
          BY <4>1
      <4> HIDE DEF g
      <4> QED BY <3>1, <3>3, <4>2 DEF SumStep
    <3> QED BY <3>2, <3>3
  <2>6. g = [s \in SUBSET D |-> g[s]]
      OBVIOUS
  <2> HIDE DEF g
  <2>7. SumsUpTo(rows, column, g, n)
      BY <2>5, <2>6 DEF SumsUpTo
  <2> QED BY <2>1, <2>7
<1>4. PICK f : SumsUpTo(rows, column, f, Cardinality(D))
    BY <1>1, <1>3
<1>5. f = [s \in SUBSET D |-> SumStep(rows, column, f, s)]
  <2>1. \A s \in SUBSET D : Cardinality(s) <= Cardinality(D)
      BY FS_Subset
  <2> QED BY <1>4, <2>1 DEF SumsUpTo
<1>6. Sums(rows, column) = [s \in SUBSET D |-> SumStep(rows, column, Sums(rows, column), s)]
    BY <1>5 DEF Sums
<1> HIDE DEF D
<1>7. ASSUME NEW s \in SUBSET D PROVE Sums(rows, column)[s] = SumStep(rows, column, Sums(rows, column), s)
  <2> DEFINE F == Sums(rows, column)
  <2> HIDE DEF F
  <2>1. F = [z \in SUBSET D |-> SumStep(rows, column, F, z)]
     BY <1>6 DEF F
  <2>2. F[s] = SumStep(rows, column, F, s)
     BY <2>1
  <2> QED BY <2>2 DEF F
<1> QED BY <1>7 DEF D

\* The rows count the tests by some key, so their total counts them all.
LEMMA TotalCounts ==
    ASSUME NEW rows, NEW column, IsFiniteSet(DOMAIN rows),
           NEW S, IsFiniteSet(S), NEW key \in [S -> DOMAIN rows],
           \A y \in DOMAIN rows : rows[y][column] = Cardinality({t \in S : key[t] = y})
    PROVE  Total(rows, column) = Cardinality(S)
<1> DEFINE D == DOMAIN rows
           In(s) == {t \in S : key[t] \in s}
           F == Sums(rows, column)
           Bad == {s \in SUBSET D : F[s] # Cardinality(In(s))}
<1>1. Bad = {}
  <2> SUFFICES ASSUME Bad # {} PROVE FALSE
      OBVIOUS
  <2>1. PICK s \in Bad : \A u \in Bad : u \subseteq s => u = s
    <3>1. Bad \subseteq SUBSET D
        OBVIOUS
    <3> HIDE DEF Bad
    <3> QED BY <3>1, Smallest
  <2>2. s \in SUBSET D /\ F[s] = SumStep(rows, column, F, s)
      BY <2>1, SumsDefined
  <2>3. CASE s = {}
    <3>1. In(s) = {}
        BY <2>3
    <3> QED BY <2>1, <2>2, <2>3, <3>1, FS_EmptySet DEF SumStep
  <2>4. CASE s # {}
    <3> DEFINE x == CHOOSE x \in s : TRUE
               Here == {t \in S : key[t] = x}
               Rest == In(s \ {x})
    <3>1. x \in s /\ x \in D
        BY <2>2, <2>4
    <3>2. F[s] = rows[x][column] + F[s \ {x}]
        BY <2>2, <2>4 DEF SumStep
    <3>3. s \ {x} \notin Bad /\ s \ {x} \in SUBSET D
        BY <2>1, <2>2, <3>1
    <3>4. F[s \ {x}] = Cardinality(Rest)
        BY <3>3
    <3>5. rows[x][column] = Cardinality(Here)
        BY <3>1
    <3>6. In(s) = Here \cup Rest /\ Here \cap Rest = {}
        BY <3>1
    <3>7. IsFiniteSet(Here) /\ IsFiniteSet(Rest)
        BY FS_Subset
    <3>8. Cardinality(In(s)) = Cardinality(Here) + Cardinality(Rest)
      <4> HIDE DEF Here, Rest, In
      <4>1. Cardinality(Here \cap Rest) = 0
          BY <3>6, FS_EmptySet
      <4>2. Cardinality(Here \cup Rest) = Cardinality(Here) + Cardinality(Rest) - Cardinality(Here \cap Rest)
          BY <3>7, FS_Union
      <4>3. Cardinality(Here) \in Nat /\ Cardinality(Rest) \in Nat
          BY <3>7, FS_CardinalityType
      <4> QED BY <3>6, <4>1, <4>2, <4>3
    <3> HIDE DEF Here, Rest, In, F
    <3>9. F[s] = Cardinality(In(s))
        BY <3>2, <3>4, <3>5, <3>8
    <3> QED BY <2>1, <3>9
  <2> QED BY <2>3, <2>4
<1>2. In(D) = S
    OBVIOUS
<1>3. F[D] = Cardinality(In(D))
    BY <1>1
<1> QED BY <1>2, <1>3, TotalIs

-----------------------------------------------------------------------------
(* The result that is shown of a test.                                      *)

\* What reports rest on, besides the invariant of execution.
ReportTypeOK ==
    /\ repo \in RepositoryRows
    /\ raised \subseteq Attempts \X Defects
    /\ latest = [t \in CycleTests |-> latest[t]]

ReportInv == IInv /\ ReportTypeOK /\ ShownConcluded

\* The history of an attempt: its test stays, its end is not its beginning,
\* and whoever corrects it finds it closed.
AttemptHistory ==
    \A a \in Attempts :
        /\ attempt[a].status # "none" => /\ attempt'[a].test = attempt[a].test
                                         /\ attempt'[a].status # "none"
        /\ attempt[a].status = "none" => ~Closed(a)'
        /\ Closed(a) => Closed(a)'
        /\ corrections'[a] # corrections[a] => Closed(a)

\* Every step of CycleExecution writes history on.
LEMMA HistoryKept ==
    ASSUME IInv, Next
    PROVE  AttemptHistory
<1>1. TypeOK /\ NothingLost /\ \A c \in Clients : StillLoaded(req[c]) /\ req[c] \in Requests
    BY NextKeeps DEF IInv, TypeOK
<1>2. attempt \in [Attempts -> AttemptRows] /\ corrections \in [Attempts -> Seq(Terminal)]
    BY <1>1 DEF TypeOK
<1>3. \A a \in Attempts : Closed(a) => Closed(a)'
    BY <1>1 DEF NothingLost, Closed, Terminal
<1>4. "none" \notin Terminal /\ "IN_PROGRESS" \notin Terminal
    BY DEF Terminal
<1>5. ASSUME UNCHANGED <<attempt, corrections>> PROVE AttemptHistory
    BY <1>3, <1>4, <1>5 DEF AttemptHistory, Closed
<1>6. ASSUME NEW c \in Clients, CommitStartAttempt(c) PROVE AttemptHistory
  <2>1. PICK a, row :
           /\ a \in Attempts /\ attempt[a].status = "none" /\ row.status = "IN_PROGRESS"
           /\ attempt' = [attempt EXCEPT ![a] = row]
      BY <1>6 DEF CommitStartAttempt, NoAttempt
  <2>2. UNCHANGED corrections
      BY <1>6 DEF CommitStartAttempt
  <2>3. \A b \in Attempts : attempt'[b] = IF b = a THEN row ELSE attempt[b]
      BY <1>2, <2>1
  <2> QED BY <1>3, <1>4, <2>1, <2>2, <2>3 DEF AttemptHistory, Closed
<1>7. ASSUME NEW c \in Clients, CommitSetStepResult(c) \/ CommitCloseAttempt(c)
      PROVE  AttemptHistory
  <2>1. req[c].attempt \in Attempts /\ attempt[req[c].attempt].status # "none"
      BY <1>1, <1>7, RequestFields DEF CommitSetStepResult, CommitCloseAttempt, StillLoaded
  <2>2. UNCHANGED corrections
      BY <1>7 DEF CommitSetStepResult, CommitCloseAttempt
  <2>3. \A b \in Attempts : /\ attempt'[b].test = attempt[b].test
                            /\ attempt[b].status = "none" => attempt'[b] = attempt[b]
      BY <1>2, <1>7, <2>1 DEF CommitSetStepResult, CommitCloseAttempt, AttemptRows
  <2>4. \A b \in Attempts : attempt[b].status # "none" => attempt'[b].status # "none"
    <3>1. CASE CommitSetStepResult(c)
        BY <1>2, <2>1, <3>1 DEF CommitSetStepResult, AttemptRows
    <3>2. CASE CommitCloseAttempt(c)
      <4>1. req[c].result \in Terminal
          BY <1>1, <3>2, RequestFields DEF CommitCloseAttempt
      <4> QED BY <1>2, <1>4, <2>1, <3>2, <4>1 DEF CommitCloseAttempt, AttemptRows
    <3> QED BY <1>7, <3>1, <3>2
  <2> QED BY <1>3, <1>4, <2>2, <2>3, <2>4 DEF AttemptHistory, Closed
<1>8. ASSUME NEW c \in Clients, CommitCorrectAttempt(c) PROVE AttemptHistory
  <2>1. UNCHANGED attempt /\ Closed(req[c].attempt) /\ req[c].attempt \in Attempts
      BY <1>1, <1>8, RequestFields DEF CommitCorrectAttempt, StillLoaded
  <2>2. \A a \in Attempts : a # req[c].attempt => corrections'[a] = corrections[a]
      BY <1>2, <1>8 DEF CommitCorrectAttempt
  <2> QED BY <1>3, <1>4, <2>1, <2>2 DEF AttemptHistory, Closed
<1>9. ASSUME NEW c \in Clients, LoadCycleRequest(c) \/ LoadExecutionRequest(c)
      PROVE  UNCHANGED <<attempt, corrections>>
  <2>1. CASE LoadCycleRequest(c)
      BY <2>1 DEF LoadCycleRequest, LoadAddCycleTests, LoadTransitionCycle,
                  LoadRemoveCycleTest, LoadRefreshVersion, Begin
  <2>2. CASE LoadExecutionRequest(c)
      BY <2>2 DEF LoadExecutionRequest, LoadStartAttempt, LoadRequestRetest,
                  LoadSetStepResult, LoadCompleteAttempt, LoadAbortAttempt,
                  LoadCorrectAttempt, Begin
  <2> QED BY <1>9, <2>1, <2>2
<1>10. ASSUME NEW c \in Clients,
              \/ CommitAddCycleTests(c) \/ CommitTransitionCycle(c)
              \/ CommitRemoveCycleTest(c) \/ CommitRefreshVersion(c)
              \/ CommitRequestRetest(c) \/ FailRequest(c)
       PROVE  UNCHANGED <<attempt, corrections>>
    BY <1>10 DEF CommitAddCycleTests, CommitTransitionCycle, CommitRemoveCycleTest,
                 CommitRefreshVersion, CommitRequestRetest, FailRequest
<1>11. ASSUME \/ \E k \in TestCases : ApproveVersion(k)
              \/ \E y \in Cycles : CreateCycle(y) \/ \E new \in Cycles : CloneCycle(y, new)
       PROVE  UNCHANGED <<attempt, corrections>>
    BY <1>11 DEF ApproveVersion, CreateCycle, CloneCycle
<1> QED BY <1>5, <1>6, <1>7, <1>8, <1>9, <1>10, <1>11 DEF Next, CommitRequest

\* A finished test shows the attempt that was closed or corrected last.
LEMMA ShownKept ==
    ASSUME ReportInv, Next, Follow
    PROVE  ShownConcluded' /\ latest' = [t \in CycleTests |-> latest'[t]]
<1>1. AttemptHistory
    BY HistoryKept DEF ReportInv
<1>2. latest' = [t \in CycleTests |-> latest'[t]]
    BY DEF Follow
<1>3. \A a \in Concluded : /\ a \in Attempts /\ Closed(a)'
                           /\ attempt[a].status # "none" /\ attempt'[a].test = attempt[a].test
    BY <1>1 DEF Concluded, AttemptHistory, Closed, Terminal
<1>4. ASSUME NEW t \in CycleTests, NEW b \in AttemptsOf(t)', Closed(b)'
      PROVE  latest'[t] \in AttemptsOf(t)' /\ Closed(latest[t])'
  <2>1. CASE \E a \in Concluded : attempt[a].test = t
    <3>1. latest'[t] \in Concluded /\ attempt[latest'[t]].test = t
        BY <2>1 DEF Follow
    <3> HIDE DEF Follow
    <3>2. PICK a \in Concluded : a = latest'[t]
        BY <3>1
    <3>3. a \in Attempts /\ Closed(a)' /\ attempt'[a].test = t
        BY <1>3, <3>1, <3>2
    <3>4. attempt'[a].status # "none"
        BY <3>3 DEF Closed, Terminal
    <3> QED BY <3>2, <3>3, <3>4 DEF AttemptsOf, Closed
  <2>2. CASE ~\E a \in Concluded : attempt[a].test = t
    <3>1. latest'[t] = latest[t]
        BY <2>2 DEF Follow
    <3>2. b \in Attempts /\ attempt'[b].test = t
        BY <1>4 DEF AttemptsOf
    <3>3. attempt[b].status # "none"
        BY <1>1, <1>4, <3>2 DEF AttemptHistory
    <3>4. attempt[b].test = t
        BY <1>1, <3>2, <3>3 DEF AttemptHistory
    <3>5. Closed(b)
        BY <1>4, <2>2, <3>2, <3>4 DEF Concluded
    <3>6. latest[t] \in AttemptsOf(t) /\ Closed(latest[t])
        BY <3>2, <3>3, <3>4, <3>5 DEF ReportInv, ShownConcluded, AttemptsOf
    <3>7. PICK a \in Attempts : a = latest[t] /\ attempt[a].status # "none" /\ attempt[a].test = t
        BY <3>6 DEF AttemptsOf
    <3>8. Closed(a)' /\ attempt'[a].test = t /\ attempt'[a].status # "none"
        BY <1>1, <3>6, <3>7 DEF AttemptHistory, Closed
    <3> QED BY <3>1, <3>7, <3>8 DEF AttemptsOf, Closed
  <2> QED BY <2>1, <2>2
<1> QED BY <1>2, <1>4 DEF ShownConcluded

(* Reports only read: whatever is reported, execution behaves as it does    *)
(* without them.                                                            *)
THEOREM ReportsOnlyRead == ReportSpec => Spec
<1>1. ReportInit => Init
    BY DEF ReportInit
<1>2. [ReportNext]_reportVars => [Next]_vars
    BY DEF ReportNext, LinkDefect, reportVars
<1> QED BY <1>1, <1>2, PTL DEF ReportSpec, Spec

(* The result that a finished test shows is that of a closed attempt of its *)
(* own, however corrections and ends of attempts overlap.                   *)
THEOREM ReportInvariance == ReportSpec => []ReportInv
<1>1. ASSUME ReportInit PROVE ReportInv
  <2>1. IInv
      BY <1>1, InitIInv DEF ReportInit
  <2>2. ReportTypeOK
      BY <1>1, ReportingAssumption DEF ReportInit, ReportTypeOK
  <2>3. ShownConcluded
      BY <1>1 DEF ReportInit, Init, ShownConcluded, AttemptsOf, NoAttempt
  <2> QED BY <2>1, <2>2, <2>3 DEF ReportInv
<1>2. ASSUME ReportInv, [ReportNext]_reportVars PROVE ReportInv'
  <2>1. CASE Next /\ Follow /\ UNCHANGED <<repo, raised>>
    <3>1. IInv'
        BY <1>2, <2>1, NextKeeps DEF ReportInv
    <3>2. ShownConcluded' /\ latest' = [t \in CycleTests |-> latest'[t]]
        BY <1>2, <2>1, ShownKept
    <3> QED BY <1>2, <2>1, <3>1, <3>2 DEF ReportInv, ReportTypeOK
  <2>2. ASSUME UNCHANGED <<vars, repo, latest>>, raised' \subseteq Attempts \X Defects
        PROVE  ReportInv'
    <3>1. [Next]_vars
        BY <2>2
    <3>2. IInv'
        BY <1>2, <3>1, NextKeeps DEF ReportInv
    <3>3. UNCHANGED <<attempt, latest>>
        BY <2>2 DEF vars
    <3>4. ShownConcluded'
        BY <1>2, <3>3 DEF ReportInv, ShownConcluded, AttemptsOf, Closed
    <3> QED BY <1>2, <2>2, <3>2, <3>4 DEF ReportInv, ReportTypeOK
  <2>3. ASSUME NEW a \in Attempts, NEW d \in Defects, LinkDefect(a, d)
        PROVE  ReportInv'
      BY <1>2, <2>2, <2>3 DEF LinkDefect, ReportInv, ReportTypeOK
  <2>4. CASE UNCHANGED reportVars
      BY <1>2, <2>2, <2>4 DEF reportVars, ReportInv, ReportTypeOK
  <2> QED BY <1>2, <2>1, <2>3, <2>4 DEF ReportNext
<1> QED BY <1>1, <1>2, PTL DEF ReportSpec

-----------------------------------------------------------------------------
(* Counting the rows of a report.                                           *)

\* The count of a part of a finite table is a number, at most that of the whole.
LEMMA PartCount ==
    ASSUME NEW S, IsFiniteSet(S), NEW A, A \subseteq S
    PROVE  /\ IsFiniteSet(A) /\ Cardinality(A) \in Nat /\ Cardinality(S) \in Nat
           /\ Cardinality(A) <= Cardinality(S)
BY FS_Subset, FS_CardinalityType

\* Two parts that have no row in common are counted one by one.
LEMMA DisjointCount ==
    ASSUME NEW S, IsFiniteSet(S), NEW A, NEW B, A \subseteq S, B \subseteq S, A \cap B = {}
    PROVE  /\ Cardinality(A \cup B) = Cardinality(A) + Cardinality(B)
           /\ Cardinality(A) + Cardinality(B) <= Cardinality(S)
<1>1. IsFiniteSet(A) /\ IsFiniteSet(B) /\ Cardinality(A) \in Nat /\ Cardinality(B) \in Nat
    BY PartCount
<1>2. Cardinality(A \cup B) = Cardinality(A) + Cardinality(B) - Cardinality(A \cap B)
    BY <1>1, FS_Union
<1>3. Cardinality(A \cap B) = 0
    BY FS_EmptySet
<1>4. Cardinality(A \cup B) <= Cardinality(S)
  <2>1. A \cup B \subseteq S
      OBVIOUS
  <2> QED BY <2>1, PartCount
<1> QED BY <1>1, <1>2, <1>3, <1>4

\* The tests of a scope, and any results among them, are parts of a finite table.
LEMMA ScopeFinite ==
    ASSUME NEW scope
    PROVE  /\ ScopedCycleTests(scope) \subseteq CycleTests
           /\ IsFiniteSet(ScopedCycleTests(scope))
           /\ \A tests, results : Counted(tests, results) \subseteq tests
<1>1. ScopedCycleTests(scope) \subseteq CycleTests
    BY DEF ScopedCycleTests
<1> QED BY <1>1, FiniteAssumption, PartCount DEF Counted

\* A test shows the result of a closed attempt, or that there is none.
LEMMA ResultsShown ==
    ASSUME ReportInv, NEW t \in CycleTests
    PROVE  /\ Displayed(t) \in Terminal \cup {"NOT_RUN", "RETEST_PENDING"}
           /\ Displayed(t) \in Terminal => \E a \in AttemptsOf(t) : Closed(a)
<1>1. "NOT_RUN" \notin Terminal /\ "RETEST_PENDING" \notin Terminal
    BY DEF Terminal
<1>2. CASE ~\E a \in AttemptsOf(t) : Closed(a)
    BY <1>1, <1>2 DEF Displayed
<1>3. CASE \E a \in AttemptsOf(t) : Closed(a)
  <2>1. latest[t] \in Attempts /\ Closed(latest[t])
      BY <1>3 DEF ReportInv, ShownConcluded, AttemptsOf
  <2>2. corrections[latest[t]] \in Seq(Terminal)
      BY <2>1 DEF ReportInv, IInv, TypeOK
  <2>3. Effective(latest[t]) \in Terminal
    <3>1. CASE corrections[latest[t]] = <<>>
        BY <2>1, <3>1 DEF Effective, Closed
    <3>2. CASE corrections[latest[t]] # <<>>
      <4>1. Len(corrections[latest[t]]) \in 1..Len(corrections[latest[t]])
          BY <2>2, <3>2
      <4>2. corrections[latest[t]][Len(corrections[latest[t]])] \in Terminal
          BY <2>2, <4>1
      <4> QED BY <3>2, <4>2 DEF Effective
    <3> QED BY <3>1, <3>2
  <2> QED BY <1>3, <2>3 DEF Displayed
<1> QED BY <1>2, <1>3

-----------------------------------------------------------------------------
(* The break-down by cycle.                                                 *)

\* Those of some tests that are in a cycle.
InCycle(tests, y) == {t \in tests : cycleTest[t].cycle = y}

\* A column that counts, for each cycle, those of some tests that are in it.
LEMMA ColumnTotal ==
    ASSUME NEW scope, NEW column, NEW S, S \subseteq ScopedCycleTests(scope),
           \A y \in DOMAIN CycleBreakdown(scope) :
              CycleBreakdown(scope)[y][column] = Cardinality(InCycle(S, y))
    PROVE  Total(CycleBreakdown(scope), column) = Cardinality(S)
<1> DEFINE rows == CycleBreakdown(scope)
           tests == ScopedCycleTests(scope)
           key == [t \in S |-> cycleTest[t].cycle]
           all == [t \in tests |-> cycleTest[t].cycle]
<1>1. IsFiniteSet(tests) /\ IsFiniteSet(S)
    BY ScopeFinite, PartCount
<1>2. DOMAIN rows = {cycleTest[t].cycle : t \in tests}
    BY DEF CycleBreakdown
<1>3. IsFiniteSet(DOMAIN rows)
  <2>1. all \in Surjection(tests, DOMAIN rows)
      BY <1>2 DEF Surjection
  <2> QED BY <1>1, <2>1, FS_Surjection
<1>4. key \in [S -> DOMAIN rows]
    BY <1>2
<1>5. \A y \in DOMAIN rows : rows[y][column] = Cardinality({t \in S : key[t] = y})
  <2>1. \A y : {t \in S : key[t] = y} = InCycle(S, y)
      BY DEF InCycle
  <2> QED BY <2>1
<1> HIDE DEF rows, key
<1> QED BY <1>1, <1>3, <1>4, <1>5, TotalCounts DEF rows

\* The row of a cycle.
LEMMA RowOf ==
    ASSUME NEW scope, NEW y \in DOMAIN CycleBreakdown(scope), NEW tests,
           tests = ScopedCycleTests(scope)
    PROVE  /\ CycleBreakdown(scope)[y].scoped = Cardinality(InCycle(tests, y))
           /\ CycleBreakdown(scope)[y].terminal
                = Cardinality(InCycle(Counted(tests, Terminal), y))
           /\ CycleBreakdown(scope)[y].passed
                = Cardinality(InCycle(Counted(tests, {"PASSED"}), y))
           /\ CycleBreakdown(scope)[y].failed
                = Cardinality(InCycle(Counted(tests, {"FAILED"}), y))
           /\ CycleBreakdown(scope)[y].blocked
                = Cardinality(InCycle(Counted(tests, {"BLOCKED"}), y))
           /\ CycleBreakdown(scope)[y].notRun
                = Cardinality(InCycle(Counted(tests, {"NOT_RUN", "RETEST_PENDING"}), y))
<1>1. CycleBreakdown(scope)[y] = BreakdownRow(InCycle(tests, y))
    BY DEF CycleBreakdown, InCycle
<1>2. \A results : Counted(InCycle(tests, y), results) = InCycle(Counted(tests, results), y)
    BY DEF Counted, InCycle
<1>3. PICK here : here = InCycle(tests, y)
    OBVIOUS
<1>4. /\ BreakdownRow(here).scoped = Cardinality(here)
      /\ BreakdownRow(here).terminal = Cardinality(Counted(here, Terminal))
      /\ BreakdownRow(here).passed = Cardinality(Counted(here, {"PASSED"}))
      /\ BreakdownRow(here).failed = Cardinality(Counted(here, {"FAILED"}))
      /\ BreakdownRow(here).blocked = Cardinality(Counted(here, {"BLOCKED"}))
      /\ BreakdownRow(here).notRun = Cardinality(Counted(here, {"NOT_RUN", "RETEST_PENDING"}))
    BY DEF BreakdownRow
<1> QED BY <1>1, <1>2, <1>3, <1>4

\* The columns add up to the counts of the whole scope.
LEMMA ColumnsAddUp ==
    ASSUME NEW scope, NEW tests, tests = ScopedCycleTests(scope)
    PROVE  /\ Total(CycleBreakdown(scope), "scoped") = Cardinality(tests)
           /\ Total(CycleBreakdown(scope), "terminal") = Cardinality(Counted(tests, Terminal))
           /\ Total(CycleBreakdown(scope), "passed") = Cardinality(Counted(tests, {"PASSED"}))
           /\ Total(CycleBreakdown(scope), "failed") = Cardinality(Counted(tests, {"FAILED"}))
           /\ Total(CycleBreakdown(scope), "blocked") = Cardinality(Counted(tests, {"BLOCKED"}))
<1>1. \A y \in DOMAIN CycleBreakdown(scope) :
        /\ CycleBreakdown(scope)[y]["scoped"] = Cardinality(InCycle(tests, y))
        /\ CycleBreakdown(scope)[y]["terminal"]
             = Cardinality(InCycle(Counted(tests, Terminal), y))
        /\ CycleBreakdown(scope)[y]["passed"]
             = Cardinality(InCycle(Counted(tests, {"PASSED"}), y))
        /\ CycleBreakdown(scope)[y]["failed"]
             = Cardinality(InCycle(Counted(tests, {"FAILED"}), y))
        /\ CycleBreakdown(scope)[y]["blocked"]
             = Cardinality(InCycle(Counted(tests, {"BLOCKED"}), y))
  <2>1. TAKE y \in DOMAIN CycleBreakdown(scope)
  <2> QED BY RowOf
<1>2. ASSUME NEW column, NEW S, S \subseteq tests,
             \A y \in DOMAIN CycleBreakdown(scope) :
                CycleBreakdown(scope)[y][column] = Cardinality(InCycle(S, y))
      PROVE  Total(CycleBreakdown(scope), column) = Cardinality(S)
    BY <1>2, ColumnTotal
<1>3. \A results : Counted(tests, results) \subseteq tests
    BY ScopeFinite
<1>4. Total(CycleBreakdown(scope), "scoped") = Cardinality(tests)
    BY <1>1, <1>2
<1>5. Total(CycleBreakdown(scope), "terminal") = Cardinality(Counted(tests, Terminal))
    BY <1>1, <1>2, <1>3
<1>6. Total(CycleBreakdown(scope), "passed") = Cardinality(Counted(tests, {"PASSED"}))
    BY <1>1, <1>2, <1>3
<1>7. Total(CycleBreakdown(scope), "failed") = Cardinality(Counted(tests, {"FAILED"}))
    BY <1>1, <1>2, <1>3
<1>8. Total(CycleBreakdown(scope), "blocked") = Cardinality(Counted(tests, {"BLOCKED"}))
    BY <1>1, <1>2, <1>3
<1> QED BY <1>4, <1>5, <1>6, <1>7, <1>8

\* The tests of a cycle are finished or not run, retests included.
LEMMA RowAddsUp ==
    ASSUME ReportInv, NEW scope, NEW y \in DOMAIN CycleBreakdown(scope)
    PROVE  CycleBreakdown(scope)[y].terminal + CycleBreakdown(scope)[y].notRun
             = CycleBreakdown(scope)[y].scoped
<1>1. PICK tests : tests = ScopedCycleTests(scope)
    OBVIOUS
<1>2. PICK here, done, rest :
        /\ here = InCycle(tests, y)
        /\ done = InCycle(Counted(tests, Terminal), y)
        /\ rest = InCycle(Counted(tests, {"NOT_RUN", "RETEST_PENDING"}), y)
    OBVIOUS
<1>3. tests \subseteq CycleTests /\ IsFiniteSet(tests)
    BY <1>1, ScopeFinite
<1>4. done \subseteq here /\ rest \subseteq here /\ here \subseteq tests
    BY <1>2 DEF Counted, InCycle
<1>5. done \cap rest = {}
    BY <1>2 DEF Counted, InCycle, Terminal
<1>6. done \cup rest = here
    BY <1>2, <1>3, ResultsShown DEF Counted, InCycle
<1>7. IsFiniteSet(here)
    BY <1>3, <1>4, PartCount
<1>8. Cardinality(here) = Cardinality(done) + Cardinality(rest)
    BY <1>4, <1>5, <1>6, <1>7, DisjointCount
<1> QED BY <1>1, <1>2, <1>8, RowOf

-----------------------------------------------------------------------------
(* The requirements of a scope.                                             *)

Covered == {r \in ActiveRequirements : \E k \in Covering(r) : Qualifies(k)}
Planned(tests) == {r \in ActiveRequirements : CoveringTests(r, tests) # {}}
Executed(tests) ==
    {r \in ActiveRequirements : Counted(CoveringTests(r, tests), Terminal) # {}}
Passed(tests) ==
    {r \in Planned(tests) : /\ AllGreen(tests)
                            /\ \A t \in CoveringTests(r, tests) : Displayed(t) \in Green}
Hit(tests) ==
    {r \in ActiveRequirements :
        \/ \E d \in Hot : <<d, r>> \in repo.regresses
        \/ RaisedFrom(CoveringTests(r, tests)) \cap Hot # {}}

\* What the metrics of a scope count.
LEMMA MetricsOf ==
    ASSUME NEW scope, NEW tests, tests = ScopedCycleTests(scope)
    PROVE  /\ Metrics(scope).scoped = Cardinality(tests)
           /\ Metrics(scope).completion
                = <<Cardinality(Counted(tests, Terminal)), Cardinality(tests)>>
           /\ Metrics(scope).passRate
                = <<Cardinality(Counted(tests, {"PASSED"})),
                    Cardinality(Counted(tests, {"PASSED"}))
                      + Cardinality(Counted(tests, {"FAILED"}))
                      + Cardinality(Counted(tests, {"BLOCKED"}))>>
           /\ Metrics(scope).notRun = Cardinality({t \in tests : AttemptsOf(t) = {}})
           /\ Metrics(scope).design
                = <<Cardinality(Covered), Cardinality(ActiveRequirements)>>
           /\ Metrics(scope).plan
                = <<Cardinality(Planned(tests)), Cardinality(ActiveRequirements)>>
           /\ Metrics(scope).execution
                = <<Cardinality(Executed(tests)), Cardinality(ActiveRequirements)>>
           /\ Metrics(scope).pass
                = <<Cardinality(Passed(tests)), Cardinality(Planned(tests))>>
           /\ Metrics(scope).uncovered = Cardinality(ActiveRequirements \ Covered)
           /\ Metrics(scope).affected = Cardinality(Hit(tests))
BY DEF Metrics, Covered, Planned, Executed, Passed, Hit

(* The break-down by cycle and the roll-up by release add up to the metrics *)
(* of their scope, for any tables and in every state of execution.          *)
THEOREM EverySurfaceAgrees == ReportSpec => []SurfacesAgree
<1>1. ASSUME ReportInv PROVE SurfacesAgree
  <2>1. ASSUME NEW scope
        PROVE  /\ Total(CycleBreakdown(scope), "scoped") = Metrics(scope).scoped
               /\ Total(CycleBreakdown(scope), "terminal") = Metrics(scope).completion[1]
               /\ Total(CycleBreakdown(scope), "passed") = Metrics(scope).passRate[1]
               /\ Total(CycleBreakdown(scope), "passed")
                    + Total(CycleBreakdown(scope), "failed")
                    + Total(CycleBreakdown(scope), "blocked") = Metrics(scope).passRate[2]
               /\ Metrics(scope).passRate
                    = <<Metrics(scope).passRate[1], Metrics(scope).passRate[2]>>
    <3>1. PICK tests : tests = ScopedCycleTests(scope)
        OBVIOUS
    <3>2. PICK all, terminal, passed, failed, blocked :
            /\ all = Cardinality(tests) /\ terminal = Cardinality(Counted(tests, Terminal))
            /\ passed = Cardinality(Counted(tests, {"PASSED"}))
            /\ failed = Cardinality(Counted(tests, {"FAILED"}))
            /\ blocked = Cardinality(Counted(tests, {"BLOCKED"}))
        OBVIOUS
    <3>3. /\ Total(CycleBreakdown(scope), "scoped") = all
          /\ Total(CycleBreakdown(scope), "terminal") = terminal
          /\ Total(CycleBreakdown(scope), "passed") = passed
          /\ Total(CycleBreakdown(scope), "failed") = failed
          /\ Total(CycleBreakdown(scope), "blocked") = blocked
        BY <3>1, <3>2, ColumnsAddUp
    <3>4. /\ Metrics(scope).scoped = all
          /\ Metrics(scope).completion = <<terminal, all>>
          /\ Metrics(scope).passRate = <<passed, passed + failed + blocked>>
        BY <3>1, <3>2, MetricsOf
    <3> QED BY <3>3, <3>4
  <2>2. \A scope : \A y \in DOMAIN CycleBreakdown(scope) :
          CycleBreakdown(scope)[y].terminal + CycleBreakdown(scope)[y].notRun
            = CycleBreakdown(scope)[y].scoped
      BY <1>1, RowAddsUp
  <2>3. ASSUME NEW g, NEW scope, scope = [cycle |-> "any", group |-> g]
        PROVE  /\ ReleaseOverview(g).scoped = Total(CycleBreakdown(scope), "scoped")
               /\ ReleaseOverview(g).terminal = Total(CycleBreakdown(scope), "terminal")
               /\ ReleaseOverview(g).passed = Total(CycleBreakdown(scope), "passed")
               /\ ReleaseOverview(g).failed = Total(CycleBreakdown(scope), "failed")
               /\ ReleaseOverview(g).blocked = Total(CycleBreakdown(scope), "blocked")
      BY <2>3 DEF ReleaseOverview
  <2>4. ASSUME NEW g, NEW scope, scope = [cycle |-> "any", group |-> g]
        PROVE  /\ ReleaseOverview(g).terminal = Metrics(scope).completion[1]
               /\ ReleaseOverview(g).scoped = Metrics(scope).scoped
               /\ <<ReleaseOverview(g).passed,
                     ReleaseOverview(g).passed + ReleaseOverview(g).failed
                       + ReleaseOverview(g).blocked>> = Metrics(scope).passRate
    <3>1. /\ Total(CycleBreakdown(scope), "scoped") = Metrics(scope).scoped
          /\ Total(CycleBreakdown(scope), "terminal") = Metrics(scope).completion[1]
          /\ Total(CycleBreakdown(scope), "passed") = Metrics(scope).passRate[1]
          /\ Total(CycleBreakdown(scope), "passed")
               + Total(CycleBreakdown(scope), "failed")
               + Total(CycleBreakdown(scope), "blocked") = Metrics(scope).passRate[2]
          /\ Metrics(scope).passRate
               = <<Metrics(scope).passRate[1], Metrics(scope).passRate[2]>>
        BY <2>1
    <3> QED BY <2>3, <2>4, <3>1
  <2> QED BY <2>1, <2>2, <2>4 DEF SurfacesAgree
<1> QED BY <1>1, ReportInvariance, PTL

-----------------------------------------------------------------------------
(* The rows behind the metrics.                                             *)

\* The drill-down gathers the tests case by case, the metric test by test.
LEMMA ThroughIsCovering ==
    ASSUME NEW scope, NEW tests, tests = ScopedCycleTests(scope), NEW r
    PROVE  ScopedThrough(r, scope) = CoveringTests(r, tests)
<1>1. \A t : t \in ScopedThrough(r, scope)
               <=> \E k \in QualifyingCases(r) : t \in tests /\ cycleTest[t].case = k
    BY DEF ScopedThrough
<1>2. \A t : t \in CoveringTests(r, tests)
               <=> t \in tests /\ cycleTest[t].case \in QualifyingCases(r)
    BY DEF CoveringTests, QualifyingCases
<1> QED BY <1>1, <1>2

\* The requirements marked as counted are those that the metric counts.
LEMMA RowsCounted ==
    ASSUME NEW scope, NEW tests, tests = ScopedCycleTests(scope)
    PROVE  /\ CountedRows("M-05", scope) = Covered
           /\ CountedRows("M-06", scope) = Planned(tests)
           /\ CountedRows("M-07", scope) = Executed(tests)
           /\ CountedRows("M-09", scope) = ActiveRequirements \ Covered
<1>1. CountedRows("M-05", scope) = {r \in ActiveRequirements : QualifyingCases(r) # {}}
    BY DEF CountedRows
<1>2. CountedRows("M-06", scope) = {r \in ActiveRequirements : ScopedThrough(r, scope) # {}}
    BY DEF CountedRows
<1>3. CountedRows("M-07", scope)
        = {r \in ActiveRequirements :
              {Displayed(t) : t \in ScopedThrough(r, scope)} \cap Terminal # {}}
    BY DEF CountedRows
<1>4. CountedRows("M-09", scope) = {r \in ActiveRequirements : QualifyingCases(r) = {}}
    BY DEF CountedRows
<1>5. \A r : QualifyingCases(r) # {} <=> \E k \in Covering(r) : Qualifies(k)
    BY DEF QualifyingCases
<1>6. \A r : ScopedThrough(r, scope) = CoveringTests(r, tests)
    BY ThroughIsCovering
<1>7. \A S : {Displayed(t) : t \in S} \cap Terminal # {} <=> Counted(S, Terminal) # {}
    BY DEF Counted
<1>8. CountedRows("M-05", scope) = Covered
    BY <1>1, <1>5 DEF Covered
<1>9. CountedRows("M-06", scope) = Planned(tests)
    BY <1>2, <1>6 DEF Planned
<1>10. CountedRows("M-07", scope) = Executed(tests)
    BY <1>3, <1>6, <1>7 DEF Executed
<1>11. CountedRows("M-09", scope) = ActiveRequirements \ Covered
    BY <1>4, <1>5 DEF Covered
<1> QED BY <1>8, <1>9, <1>10, <1>11

\* The requirements listed as affected by a severe defect are those counted.
LEMMA RowsAffected ==
    ASSUME ReportInv, NEW scope, NEW tests, tests = ScopedCycleTests(scope)
    PROVE  AffectedRows(scope) = Hit(tests)
<1>1. raised \subseteq Attempts \X Defects
    BY DEF ReportInv, ReportTypeOK
<1>2. Hot \subseteq Defects
    BY DEF Hot
<1>3. ASSUME NEW r
      PROVE  RaisedFrom(CoveringTests(r, tests)) \cap Hot # {}
               <=> \E d \in Hot : \E t \in ScopedThrough(r, scope), a \in Attempts :
                     <<a, d>> \in raised /\ attempt[a].test = t
  <2>1. PICK through : through = CoveringTests(r, tests) /\ through = ScopedThrough(r, scope)
      BY ThroughIsCovering
  <2>2. \A d \in Hot : d \in RaisedFrom(through)
                         <=> \E l \in raised : l[2] = d /\ attempt[l[1]].test \in through
      BY <1>2 DEF RaisedFrom
  <2>3. ASSUME NEW d \in Hot
        PROVE  (\E l \in raised : l[2] = d /\ attempt[l[1]].test \in through)
                 <=> \E a \in Attempts : <<a, d>> \in raised /\ attempt[a].test \in through
    <3>1. ASSUME NEW l \in raised, l[2] = d, attempt[l[1]].test \in through
          PROVE  \E a \in Attempts : <<a, d>> \in raised /\ attempt[a].test \in through
      <4>1. l[1] \in Attempts /\ l = <<l[1], d>>
          BY <1>1, <3>1
      <4> QED BY <3>1, <4>1
    <3>2. ASSUME NEW a \in Attempts, <<a, d>> \in raised, attempt[a].test \in through
          PROVE  \E l \in raised : l[2] = d /\ attempt[l[1]].test \in through
      <4>1. PICK l : l = <<a, d>>
          OBVIOUS
      <4>2. l[1] = a /\ l[2] = d
          BY <4>1
      <4> QED BY <3>2, <4>1, <4>2
    <3> QED BY <3>1, <3>2
  <2>4. RaisedFrom(through) \cap Hot # {}
          <=> \E d \in Hot : \E a \in Attempts : <<a, d>> \in raised /\ attempt[a].test \in through
    <3>1. RaisedFrom(through) \cap Hot # {} <=> \E d \in Hot : d \in RaisedFrom(through)
        OBVIOUS
    <3> QED BY <2>2, <2>3, <3>1
  <2> QED BY <2>1, <2>4
<1> QED BY <1>3 DEF AffectedRows, Hit

\* The rated tests are those that passed, failed or are blocked, one by one.
LEMMA RowsRated ==
    ASSUME NEW scope, NEW tests, tests = ScopedCycleTests(scope)
    PROVE  /\ Counted(RatedRows(scope), {"PASSED"}) = Counted(tests, {"PASSED"})
           /\ Cardinality(RatedRows(scope)) = Cardinality(Counted(tests, {"PASSED"}))
                + Cardinality(Counted(tests, {"FAILED"}))
                + Cardinality(Counted(tests, {"BLOCKED"}))
<1>1. PICK passed, failed, blocked :
        /\ passed = Counted(tests, {"PASSED"}) /\ failed = Counted(tests, {"FAILED"})
        /\ blocked = Counted(tests, {"BLOCKED"})
    OBVIOUS
<1>2. IsFiniteSet(tests)
    BY ScopeFinite
<1>3. /\ passed \subseteq tests /\ failed \subseteq tests /\ blocked \subseteq tests
      /\ passed \cap failed = {} /\ (passed \cup failed) \cap blocked = {}
    BY <1>1 DEF Counted
<1>4. RatedRows(scope) = (passed \cup failed) \cup blocked
    BY <1>1 DEF RatedRows, Counted
<1>5. Cardinality(passed \cup failed) = Cardinality(passed) + Cardinality(failed)
    BY <1>2, <1>3, DisjointCount
<1>6. Cardinality((passed \cup failed) \cup blocked)
        = Cardinality(passed \cup failed) + Cardinality(blocked)
  <2>1. passed \cup failed \subseteq tests
      BY <1>3
  <2> QED BY <1>2, <1>3, <2>1, DisjointCount
<1>7. Counted(RatedRows(scope), {"PASSED"}) = Counted(tests, {"PASSED"})
    BY DEF RatedRows, Counted
<1> QED BY <1>1, <1>4, <1>5, <1>6, <1>7

(* Every count drills down to its contributors, M-08 excepted: the rows are *)
(* gathered by other queries than the count, and are as many.               *)
THEOREM EveryCountDrillsDown == ReportSpec => []DrillDownAgrees
<1>1. ASSUME ReportInv PROVE DrillDownAgrees
  <2>1. ASSUME NEW scope
        PROVE  /\ Cardinality(TestRows(scope)) = Metrics(scope).scoped
               /\ Metrics(scope).completion
                    = <<Cardinality(Counted(TestRows(scope), Terminal)),
                        Cardinality(TestRows(scope))>>
               /\ Metrics(scope).passRate
                    = <<Cardinality(Counted(RatedRows(scope), {"PASSED"})),
                        Cardinality(RatedRows(scope))>>
               /\ Metrics(scope).notRun = Cardinality(NotRunRows(scope))
               /\ Metrics(scope).design[1] = Cardinality(CountedRows("M-05", scope))
               /\ Metrics(scope).plan[1] = Cardinality(CountedRows("M-06", scope))
               /\ Metrics(scope).execution[1] = Cardinality(CountedRows("M-07", scope))
               /\ Metrics(scope).uncovered = Cardinality(CountedRows("M-09", scope))
               /\ Metrics(scope).affected = Cardinality(AffectedRows(scope))
    <3>1. PICK tests : tests = ScopedCycleTests(scope)
        OBVIOUS
    <3>2. /\ Metrics(scope).scoped = Cardinality(tests)
          /\ Metrics(scope).completion
               = <<Cardinality(Counted(tests, Terminal)), Cardinality(tests)>>
          /\ Metrics(scope).notRun = Cardinality({t \in tests : AttemptsOf(t) = {}})
        BY <3>1, MetricsOf
    <3>3. TestRows(scope) = tests /\ NotRunRows(scope) = {t \in tests : AttemptsOf(t) = {}}
        BY <3>1 DEF TestRows, NotRunRows
    <3>4. Metrics(scope).passRate
            = <<Cardinality(Counted(RatedRows(scope), {"PASSED"})),
                Cardinality(RatedRows(scope))>>
      <4>1. Metrics(scope).passRate
              = <<Cardinality(Counted(tests, {"PASSED"})),
                  Cardinality(Counted(tests, {"PASSED"}))
                    + Cardinality(Counted(tests, {"FAILED"}))
                    + Cardinality(Counted(tests, {"BLOCKED"}))>>
          BY <3>1, MetricsOf
      <4> QED BY <3>1, <4>1, RowsRated
    <3>5. /\ Metrics(scope).design[1] = Cardinality(Covered)
          /\ Metrics(scope).plan[1] = Cardinality(Planned(tests))
          /\ Metrics(scope).execution[1] = Cardinality(Executed(tests))
          /\ Metrics(scope).uncovered = Cardinality(ActiveRequirements \ Covered)
          /\ Metrics(scope).affected = Cardinality(Hit(tests))
      <4>1. PICK all : all = Cardinality(ActiveRequirements)
          OBVIOUS
      <4>2. /\ Metrics(scope).design = <<Cardinality(Covered), all>>
            /\ Metrics(scope).plan = <<Cardinality(Planned(tests)), all>>
            /\ Metrics(scope).execution = <<Cardinality(Executed(tests)), all>>
            /\ Metrics(scope).uncovered = Cardinality(ActiveRequirements \ Covered)
            /\ Metrics(scope).affected = Cardinality(Hit(tests))
          BY <3>1, <4>1, MetricsOf
      <4> QED BY <4>2
    <3>6. /\ CountedRows("M-05", scope) = Covered
          /\ CountedRows("M-06", scope) = Planned(tests)
          /\ CountedRows("M-07", scope) = Executed(tests)
          /\ CountedRows("M-09", scope) = ActiveRequirements \ Covered
          /\ AffectedRows(scope) = Hit(tests)
        BY <1>1, <3>1, RowsCounted, RowsAffected
    <3> QED BY <3>2, <3>3, <3>4, <3>5, <3>6
  <2> QED BY <2>1 DEF DrillDownAgrees
<1> QED BY <1>1, ReportInvariance, PTL

-----------------------------------------------------------------------------
(* Coverage.                                                                *)

\* What passed was executed, what was executed is planned, and what is
\* planned is covered by design.
LEMMA Narrower ==
    ASSUME NEW tests
    PROVE  /\ Passed(tests) \subseteq Executed(tests) /\ Executed(tests) \subseteq Planned(tests)
           /\ Planned(tests) \subseteq Covered /\ Covered \subseteq ActiveRequirements
           /\ ActiveRequirements \subseteq Requirements
<1>1. ASSUME NEW r \in Passed(tests) PROVE r \in Executed(tests)
  <2>1. PICK t \in CoveringTests(r, tests) : Displayed(t) \in Green
      BY DEF Passed, Planned
  <2>2. t \in Counted(CoveringTests(r, tests), Terminal)
      BY <2>1 DEF Counted, Green, Terminal
  <2> QED BY <2>2 DEF Passed, Planned, Executed
<1>2. Executed(tests) \subseteq Planned(tests)
    BY DEF Executed, Planned, Counted
<1>3. Planned(tests) \subseteq Covered
  <2>1. ASSUME NEW r, CoveringTests(r, tests) # {}
        PROVE  \E k \in Covering(r) : Qualifies(k)
      BY <2>1 DEF CoveringTests
  <2> QED BY <2>1 DEF Planned, Covered
<1>4. Covered \subseteq ActiveRequirements /\ ActiveRequirements \subseteq Requirements
    BY DEF Covered, ActiveRequirements
<1> QED BY <1>1, <1>2, <1>3, <1>4

\* The trend has a closed attempt for every finished test of the scope.
LEMMA TrendCovers ==
    ASSUME ReportInv, NEW scope, NEW tests, tests = ScopedCycleTests(scope)
    PROVE  Cardinality(Counted(tests, Terminal)) <= Trend(scope).total
<1> DEFINE closed == {a \in Attempts : Closed(a) /\
                        LET y == cycleTest[attempt[a].test].cycle IN
                        /\ scope.cycle \in {"any", y}
                        /\ scope.group \in {"any", GroupOf[y]}}
<1>1. Trend(scope).total = Cardinality(closed)
    BY DEF Trend
<1>2. PICK done, ends :
        /\ done = Counted(tests, Terminal)
        /\ ends = {a \in closed : attempt[a].test \in done}
    OBVIOUS
<1>3. PICK of : of = [a \in ends |-> attempt[a].test]
    OBVIOUS
<1>4. ASSUME NEW t \in done PROVE \E a \in ends : of[a] = t
  <2>1. t \in CycleTests /\ t \in ScopedCycleTests(scope) /\ Displayed(t) \in Terminal
      BY <1>2, ScopeFinite DEF Counted
  <2>2. PICK a \in AttemptsOf(t) : Closed(a)
      BY <2>1, ResultsShown
  <2>3. a \in Attempts /\ attempt[a].test = t
      BY <2>2 DEF AttemptsOf
  <2>4. /\ scope.cycle \in {"any", cycleTest[t].cycle}
        /\ scope.group \in {"any", GroupOf[cycleTest[t].cycle]}
      BY <2>1 DEF ScopedCycleTests
  <2>5. a \in closed
      BY <2>2, <2>3, <2>4
  <2>6. a \in ends
      BY <1>2, <2>3, <2>5
  <2> QED BY <1>3, <2>3, <2>6
<1>5. of \in Surjection(ends, done)
  <2>1. of \in [ends -> done]
      BY <1>2, <1>3
  <2> QED BY <1>4, <2>1 DEF Surjection
<1>6. closed \subseteq Attempts /\ ends \subseteq closed
    BY <1>2
<1>7. IsFiniteSet(closed)
    BY <1>6, FiniteAssumption, PartCount
<1>8. /\ IsFiniteSet(ends) /\ Cardinality(ends) \in Nat /\ Cardinality(closed) \in Nat
      /\ Cardinality(ends) <= Cardinality(closed)
  <2> HIDE DEF closed
  <2> QED BY <1>6, <1>7, PartCount
<1>9. Cardinality(done) <= Cardinality(ends) /\ IsFiniteSet(done)
    BY <1>5, <1>8, FS_Surjection
<1>10. Cardinality(done) \in Nat
    BY <1>9, FS_CardinalityType
<1> HIDE DEF closed
<1> QED BY <1>1, <1>2, <1>8, <1>9, <1>10

(* Coverage narrows from design over plan and execution to what passed, no  *)
(* test is counted both as finished and as without attempts, and what a     *)
(* finished test shows is a closed attempt of its own.                      *)
THEOREM CoverageIsNarrowed == ReportSpec => []CoverageNarrows
<1>1. ASSUME ReportInv PROVE CoverageNarrows
  <2>1. ASSUME NEW S, S \subseteq Requirements
        PROVE  IsFiniteSet(S) /\ Cardinality(S) \in Nat
      BY <2>1, FiniteAssumption, PartCount
  <2>2. ASSUME NEW A, NEW B, A \subseteq B, B \subseteq Requirements
        PROVE  Cardinality(A) <= Cardinality(B)
      BY <2>1, <2>2, PartCount
  <2>3. ASSUME NEW scope
        PROVE  /\ Metrics(scope).pass[1] <= Metrics(scope).execution[1]
               /\ Metrics(scope).execution[1] <= Metrics(scope).plan[1]
               /\ Metrics(scope).pass[2] = Metrics(scope).plan[1]
               /\ Metrics(scope).plan[1] <= Metrics(scope).design[1]
               /\ Metrics(scope).design[1] + Metrics(scope).uncovered = Metrics(scope).design[2]
               /\ Metrics(scope).notRun + Metrics(scope).completion[1] <= Metrics(scope).scoped
               /\ Metrics(scope).completion[1] <= Trend(scope).total
               /\ Metrics(scope).design[1] = Cardinality(Covered)
    <3>1. PICK tests : tests = ScopedCycleTests(scope)
        OBVIOUS
    <3>2. PICK passed, executed, planned, covered, all :
            /\ passed = Cardinality(Passed(tests)) /\ executed = Cardinality(Executed(tests))
            /\ planned = Cardinality(Planned(tests)) /\ covered = Cardinality(Covered)
            /\ all = Cardinality(ActiveRequirements)
        OBVIOUS
    <3>3. PICK untouched, done : untouched = {t \in tests : AttemptsOf(t) = {}}
                                 /\ done = Counted(tests, Terminal)
        OBVIOUS
    <3>4. /\ Metrics(scope).pass = <<passed, planned>>
          /\ Metrics(scope).execution = <<executed, all>>
          /\ Metrics(scope).plan = <<planned, all>>
          /\ Metrics(scope).design = <<covered, all>>
          /\ Metrics(scope).uncovered = Cardinality(ActiveRequirements \ Covered)
        BY <3>1, <3>2, MetricsOf
    <3>5. /\ Metrics(scope).scoped = Cardinality(tests)
          /\ Metrics(scope).completion = <<Cardinality(done), Cardinality(tests)>>
          /\ Metrics(scope).notRun = Cardinality(untouched)
        BY <3>1, <3>3, MetricsOf
    <3>6. passed <= executed /\ executed <= planned /\ planned <= covered
      <4>1. /\ Passed(tests) \subseteq Executed(tests) /\ Executed(tests) \subseteq Requirements
            /\ Executed(tests) \subseteq Planned(tests) /\ Planned(tests) \subseteq Requirements
            /\ Planned(tests) \subseteq Covered /\ Covered \subseteq Requirements
          BY Narrower
      <4> QED BY <2>2, <3>2, <4>1
    <3>7. covered + Cardinality(ActiveRequirements \ Covered) = all
      <4>1. PICK rest : rest = ActiveRequirements \ Covered
          OBVIOUS
      <4>2. /\ Covered \subseteq ActiveRequirements /\ rest \subseteq ActiveRequirements
            /\ Covered \cap rest = {} /\ Covered \cup rest = ActiveRequirements
          BY <4>1, Narrower
      <4>3. IsFiniteSet(ActiveRequirements)
          BY <2>1, Narrower
      <4>4. Cardinality(ActiveRequirements) = Cardinality(Covered) + Cardinality(rest)
          BY <4>2, <4>3, DisjointCount
      <4> QED BY <3>2, <4>1, <4>4
    <3>8. Cardinality(untouched) + Cardinality(done) <= Cardinality(tests)
      <4>1. IsFiniteSet(tests) /\ tests \subseteq CycleTests
          BY <3>1, ScopeFinite
      <4>2. untouched \subseteq tests /\ done \subseteq tests
          BY <3>3 DEF Counted
      <4>3. untouched \cap done = {}
          BY <1>1, <3>3, <4>1, ResultsShown DEF Counted
      <4> QED BY <4>1, <4>2, <4>3, DisjointCount
    <3>9. Cardinality(done) <= Trend(scope).total
        BY <1>1, <3>1, <3>3, TrendCovers
    <3> QED BY <3>2, <3>4, <3>5, <3>6, <3>7, <3>8, <3>9
  <2>4. /\ CoverageByType.reqsAutomated <= Cardinality(Covered)
        /\ CoverageByType.reqsManual <= Cardinality(Covered)
    <3> DEFINE Of(kind) == {k \in {k \in TestCases :
                                     repo.lifecycle[k] \in {"approved", "active"}} :
                              repo.automation[k] = kind}
               Through(kind) == {r \in ActiveRequirements :
                                    \E k \in Of(kind) \cap Covering(r) : Qualifies(k)}
    <3>1. \A kind : Through(kind) \subseteq Covered
        BY DEF Covered
    <3>2. Covered \subseteq Requirements
        BY Narrower
    <3>3. /\ CoverageByType.reqsAutomated = Cardinality(Through("automated"))
          /\ CoverageByType.reqsManual = Cardinality(Through("candidate"))
        BY DEF CoverageByType
    <3> HIDE DEF Through
    <3>4. \A kind : Cardinality(Through(kind)) <= Cardinality(Covered)
        BY <2>2, <3>1, <3>2
    <3> QED BY <3>3, <3>4
  <2>5. ShownConcluded
      BY <1>1 DEF ReportInv
  <2> QED BY <2>3, <2>4, <2>5 DEF CoverageNarrows
<1> QED BY <1>1, ReportInvariance, PTL
=============================================================================
