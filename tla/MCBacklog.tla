----------------------------- MODULE MCBacklog -----------------------------
(* Backlog for TLC.                                                        *)
EXTENDS Backlog, TLC

CONSTANTS q1, v1, d1, s1, p1

\* Rows that are created together.
SomeFamilies == {{q1, s1, d1}, {q1, v1}, {v1, p1}, {s1, p1}}

Interchangeable == Permutations(Clients) \cup Permutations(Links)
=============================================================================
