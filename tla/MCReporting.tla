----------------------------- MODULE MCReporting -----------------------------
(* Reporting for TLC.                                                      *)
EXTENDS Reporting, TLC

SingleStepOf == [v \in 1..NumVersions |-> {1}]

CONSTANTS k1, k2, r1, r2, y1, g1, d1

OnlyFirst == [y \in Cycles |-> IF y = y1 THEN g1 ELSE "none"]

Under(r, status) == [requirement |-> r, status |-> status]

\* k1 is linked to r1.  k2 reaches a requirement by its scenario.
Repository(second, scenario, state) ==
    [requirement |-> [r \in Requirements |-> IF r = r1 THEN "active" ELSE second],
     covers |-> {<<r1, k1>>},
     scenario |-> [k \in TestCases |-> IF k = k2 THEN scenario ELSE Under("none", "active")],
     lifecycle |-> [k \in TestCases |-> IF k = k2 THEN state ELSE "active"],
     automation |-> [k \in TestCases |-> IF k = k1 THEN "automated" ELSE "candidate"],
     eligible |-> [k \in TestCases |-> TRUE],
     defect |-> [d \in Defects |-> [severity |-> "critical", status |-> "open"]],
     regresses |-> {<<d1, r2>>}]

\* Two active requirements; a requirement that is gone, which a defect still
\* names, and a linked case that is deprecated.
SomeRepositories ==
    {Repository("active", Under(r2, "active"), "approved"),
     Repository("absent", Under(r1, "active"), "deprecated")}

Symmetric == Permutations(CycleTests) \cup Permutations(Attempts)
=============================================================================
