--------------------------- MODULE AttemptLedger ---------------------------
(***************************************************************************)
(* What manual execution promises about the attempts of cycle tests: a     *)
(* test is attempted one attempt at a time; all the attempts of a test run *)
(* the same version of its case, fixed at the first one; an attempt that   *)
(* is not overridden closes with the result its own recorded steps imply;  *)
(* and nothing about it changes any more once it is closed, except that    *)
(* corrections are appended beside it.                                     *)
(*                                                                         *)
(* An abstract specification: no cycles, no requests, no transactions.     *)
(* CycleExecution implements it when its handlers do not overlap.          *)
(***************************************************************************)
EXTENDS Sequences

CONSTANTS
    Attempts,
    CycleTests,
    Versions,
    Steps,
    StepResults,
    Results,              \* the results a closed attempt may have
    Judgement(_, _)       \* the result that recorded steps of a version imply

VARIABLE ledger           \* attempt -> its entry

Blank == [test |-> "none", version |-> 0, outcome |-> "none",
          evidence |-> [s \in Steps |-> "not_run"],
          overridden |-> FALSE, corrections |-> <<>>]

OpenEntry(a) == ledger[a].outcome = "IN_PROGRESS"
ClosedEntry(a) == ledger[a].outcome \in Results

Init == ledger = [a \in Attempts |-> Blank]

Start(a, t, v) ==
    /\ ledger[a] = Blank
    /\ \A b \in Attempts : ledger[b].test = t =>
          /\ ~OpenEntry(b)
          /\ ledger[b].version = v
    /\ ledger' = [ledger EXCEPT ![a] = [Blank EXCEPT !.test = t,
                                                     !.version = v,
                                                     !.outcome = "IN_PROGRESS"]]

Record(a, s, r) ==
    /\ OpenEntry(a)
    /\ ledger' = [ledger EXCEPT ![a].evidence[s] = r]

Conclude(a) ==
    /\ OpenEntry(a)
    /\ Judgement(ledger[a].version, ledger[a].evidence) \in Results
    /\ ledger' = [ledger EXCEPT
         ![a].outcome = Judgement(ledger[a].version, ledger[a].evidence)]

Override(a, r) ==
    /\ OpenEntry(a)
    /\ ledger' = [ledger EXCEPT ![a].outcome = r, ![a].overridden = TRUE]

Abort(a) ==
    /\ OpenEntry(a)
    /\ ledger' = [ledger EXCEPT ![a].outcome = "ABORTED"]

Correct(a, r) ==
    /\ ClosedEntry(a)
    /\ ledger' = [ledger EXCEPT ![a].corrections = Append(@, r)]

Next ==
    \E a \in Attempts :
        \/ \E t \in CycleTests, v \in Versions : Start(a, t, v)
        \/ \E s \in Steps, r \in StepResults : Record(a, s, r)
        \/ Conclude(a)
        \/ \E r \in Results : Override(a, r) \/ Correct(a, r)
        \/ Abort(a)

Spec == Init /\ [][Next]_ledger

=============================================================================
