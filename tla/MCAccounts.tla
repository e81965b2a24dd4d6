---------------------------- MODULE MCAccounts ----------------------------
(* Accounts for TLC.                                                       *)
EXTENDS Accounts, TLC

\* Clients, accounts and session rows are interchangeable.
Interchangeable ==
    Permutations(Clients) \cup Permutations(Users) \cup Permutations(Sessions)
=============================================================================
