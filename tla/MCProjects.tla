----------------------------- MODULE MCProjects -----------------------------
(* Projects for TLC.                                                       *)
EXTENDS Projects, TLC

\* All projects are created with the same key, one after the other.
SameKey == [p \in Projects |-> "K"]

Interchangeable == Permutations(Clients) \cup Permutations(Projects)
                     \cup Permutations(Rows) \cup Permutations(Asks)
=============================================================================
