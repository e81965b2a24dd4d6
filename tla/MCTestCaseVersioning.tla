------------------------ MODULE MCTestCaseVersioning ------------------------
(* Instances of TestCaseVersioning for TLC.                                *)
EXTENDS TestCaseVersioning, TLC

\* Titles, usable lists of steps and requests are interchangeable.
Interchangeable == Permutations(Clients) \cup Permutations(Titles)
                     \cup Permutations(StepLists \ Unusable)

=============================================================================
