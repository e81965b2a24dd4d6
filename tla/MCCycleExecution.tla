-------------------------- MODULE MCCycleExecution --------------------------
(* Instances of CycleExecution for TLC.                                    *)
EXTENDS CycleExecution, TLC

\* Version 1 has an optional step, which version 2 requires.
TwoStepsOf == <<{1, 2}, {1, 2}>>
OptionalInFirst == <<{1}, {1, 2}>>

\* Two versions with one required step each, a different one.
OneStepOf == <<{1}, {2}>>

\* Versions with a single step.
SingleStepOf == [v \in 1..NumVersions |-> {1}]

Ids == Permutations(Cycles) \cup Permutations(CycleTests)
         \cup Permutations(Attempts) \cup Permutations(TestCases)

Interchangeable == Ids \cup Permutations(Clients)

=============================================================================
