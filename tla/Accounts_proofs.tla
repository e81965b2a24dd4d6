--------------------------- MODULE Accounts_proofs ---------------------------
(***************************************************************************)
(* Proofs about accounts and sessions, for any number of requests:         *)
(* initial setup happens once and leaves an administrator for good,        *)
(* requests of one session do not overlap, and nobody takes the rights of  *)
(* a request away while it works.                                          *)
(*                                                                         *)
(* The argument rests on two locks.  The advisory lock of initial setup    *)
(* makes the count of accounts still hold at the commit.  The write of     *)
(* last_seen_at locks the session, and everything that takes rights away   *)
(* has to write the sessions of the account.                               *)
(*                                                                         *)
(* With one request at a time also: live sessions are current, and an      *)
(* administrator remains, since what a request has read stays so (Fresh).  *)
(***************************************************************************)
EXTENDS Accounts, TLAPS

\* No account or session, and nothing in flight.
LEMMA InitIInv == Init => IInv
<1> SUFFICES ASSUME Init PROVE IInv
    OBVIOUS
<1> USE AccountsAssumption DEF Init
<1>1. TypeOK
  <2>1. NoUser \in UserRows
      BY DEF NoUser, UserRows
  <2>2. NoSession \in SessionRows
      BY DEF NoSession, SessionRows
  <2>3. Idle \in Requests
      BY <2>1 DEF Idle, Requests
  <2> QED BY <2>1, <2>2, <2>3 DEF TypeOK
<1>2. OneFirstAdmin
    BY DEF OneFirstAdmin, Idle
<1>3. SessionsSerialised
    BY DEF SessionsSerialised, Entered, Idle
<1> QED BY <1>1, <1>2, <1>3 DEF IInv

\* Marking requests as outdated changes nothing else of them.
LEMMA OutdatedRequests ==
    ASSUME NEW u \in Users, NEW rest \in [Clients -> Requests]
    PROVE  /\ Outdated(u, rest) \in [Clients -> Requests]
           /\ \A d \in Clients :
                 /\ Outdated(u, rest)[d].op = rest[d].op
                 /\ Outdated(u, rest)[d].stage = rest[d].stage
                 /\ Outdated(u, rest)[d].session = rest[d].session
                 /\ Outdated(u, rest)[d].target = rest[d].target
                 /\ rest[d] = Idle => Outdated(u, rest)[d] = Idle
<1>1. ASSUME NEW d \in Clients
      PROVE  /\ Outdated(u, rest)[d] \in Requests
             /\ Outdated(u, rest)[d].op = rest[d].op
             /\ Outdated(u, rest)[d].stage = rest[d].stage
             /\ Outdated(u, rest)[d].session = rest[d].session
             /\ Outdated(u, rest)[d].target = rest[d].target
             /\ rest[d] = Idle => Outdated(u, rest)[d] = Idle
  <2>1. rest[d] \in Requests
      BY <1>1
  <2>2. CASE rest[d].op = "sign_in" /\ rest[d].target = u /\ rest[d].right
    <3>1. Outdated(u, rest)[d] = [rest[d] EXCEPT !.stale = TRUE]
        BY <2>2 DEF Outdated
    <3>2. [rest[d] EXCEPT !.stale = TRUE] \in Requests
        BY <2>1, <2>2 DEF Requests
    <3>3. rest[d] # Idle
        BY <2>2 DEF Idle
    <3>4. /\ [rest[d] EXCEPT !.stale = TRUE].op = rest[d].op
          /\ [rest[d] EXCEPT !.stale = TRUE].stage = rest[d].stage
          /\ [rest[d] EXCEPT !.stale = TRUE].session = rest[d].session
          /\ [rest[d] EXCEPT !.stale = TRUE].target = rest[d].target
        BY <2>1 DEF Requests
    <3> QED BY <3>1, <3>2, <3>3, <3>4
  <2>3. CASE ~(rest[d].op = "sign_in" /\ rest[d].target = u /\ rest[d].right)
      BY <2>1, <2>3 DEF Outdated
  <2> QED BY <2>2, <2>3
<1>2. Outdated(u, rest) = [d \in Clients |-> Outdated(u, rest)[d]]
    BY DEF Outdated
<1> QED BY <1>1, <1>2

\* What the request of a client looks like after its step, and that the other
\* requests keep all but the mark of being outdated.
LEMMA RequestStep ==
    ASSUME TypeOK, Next
    PROVE  /\ req' \in [Clients -> Requests]
           /\ \A c \in Clients :
                 \/ /\ req'[c].op = req[c].op /\ req'[c].stage = req[c].stage
                    /\ req'[c].session = req[c].session
                    /\ req'[c].target = req[c].target
                    /\ req[c] = Idle => req'[c] = Idle
                 \/ req'[c] = Idle
                 \/ \E u \in Users : LoadFirstAdmin(c, u)
                 \/ \E u \in Users : LoadForgotten(c, u)
                 \/ \E u \in Users, right \in BOOLEAN : LoadSignIn(c, u, right)
                 \/ \E op \in Ops, u \in Users : LoadAccount(c, op, u)
                 \/ \E s \in Sessions : Resolve(c, s)
                 \/ Enter(c)
<1> USE AccountsAssumption
<1> DEFINE Kept(d) == /\ req'[d].op = req[d].op /\ req'[d].stage = req[d].stage
                      /\ req'[d].session = req[d].session
                      /\ req'[d].target = req[d].target
                      /\ req[d] = Idle => req'[d] = Idle
           Loads(d) == \/ \E u \in Users : LoadFirstAdmin(d, u)
                       \/ \E u \in Users : LoadForgotten(d, u)
                       \/ \E u \in Users, right \in BOOLEAN : LoadSignIn(d, u, right)
                       \/ \E op \in Ops, u \in Users : LoadAccount(d, op, u)
                       \/ \E s \in Sessions : Resolve(d, s)
                       \/ Enter(d)
           Good == /\ req' \in [Clients -> Requests]
                   /\ \A d \in Clients : Kept(d) \/ req'[d] = Idle \/ Loads(d)
<1> SUFFICES Good
    OBVIOUS
<1>1. /\ req \in [Clients -> Requests] /\ user \in [Users -> UserRows]
      /\ session \in [Sessions -> SessionRows]
    BY DEF TypeOK
<1>2. Idle \in Requests
    BY DEF Idle, Requests, NoUser, UserRows
<1>3. ASSUME UNCHANGED req PROVE Good
    BY <1>1, <1>3
<1>4. ASSUME NEW c \in Clients, End(c) PROVE Good
    BY <1>1, <1>2, <1>4 DEF End
<1>5. ASSUME NEW c \in Clients, NEW q \in Requests, req' = [req EXCEPT ![c] = q], Loads(c)
      PROVE  Good
  <2> HIDE DEF Loads
  <2> QED BY <1>1, <1>5
<1>6. ASSUME NEW u \in Users, NEW op \in Anonymous, NEW right \in BOOLEAN
      PROVE  AnonymousCall(op, u, right) \in Requests
    BY <1>1 DEF AnonymousCall, Requests, Idle, Ops, Anonymous
<1>7. ASSUME NEW c \in Clients, NEW u \in Users, LoadFirstAdmin(c, u) PROVE Good
  <2>1. AnonymousCall("setup", u, FALSE) \in Requests
      BY <1>6 DEF Anonymous
  <2> QED BY <1>5, <1>7, <2>1 DEF LoadFirstAdmin, Begin
<1>8. ASSUME NEW c \in Clients, NEW u \in Users, LoadForgotten(c, u) PROVE Good
  <2>1. AnonymousCall("forgot", u, FALSE) \in Requests
      BY <1>6 DEF Anonymous
  <2> QED BY <1>5, <1>8, <2>1 DEF LoadForgotten, Begin
<1>9. ASSUME NEW c \in Clients, NEW u \in Users, NEW right \in BOOLEAN,
             LoadSignIn(c, u, right)
      PROVE  Good
  <2>1. AnonymousCall("sign_in", u, right) \in Requests
      BY <1>6 DEF Anonymous
  <2> QED BY <1>5, <1>9, <2>1 DEF LoadSignIn, Begin
<1>10. ASSUME NEW c \in Clients, NEW op \in Ops, NEW u \in Users, LoadAccount(c, op, u)
       PROVE  Good
  <2> DEFINE q == [req[c] EXCEPT !.op = op, !.stage = "loaded", !.target = u,
                       !.was = IF u = session[req[c].session].user THEN @ ELSE user[u]]
  <2>1. req[c] \in Requests /\ req[c].stage = "entered"
      BY <1>1, <1>10 DEF LoadAccount
  <2>2. q \in Requests
      BY <1>1, <2>1 DEF Requests
  <2>3. req' = [req EXCEPT ![c] = q]
      BY <1>1, <1>10 DEF LoadAccount, Requests
  <2> QED BY <1>5, <1>10, <2>2, <2>3
<1>11. ASSUME NEW c \in Clients, NEW s \in Sessions, Resolve(c, s) PROVE Good
  <2> DEFINE q == [Idle EXCEPT !.stage = "resolved", !.session = s,
                               !.was = user[session[s].user]]
  <2>1. session[s].user \in Users
      BY <1>1, <1>11 DEF Resolve, SessionRows, NoUser
  <2>2. q \in Requests
      BY <1>1, <2>1 DEF Requests, Idle, Ops
  <2>3. req' = [req EXCEPT ![c] = q]
      BY <1>11 DEF Resolve, Begin
  <2> QED BY <1>5, <1>11, <2>2, <2>3
<1>12. ASSUME NEW c \in Clients, Enter(c) PROVE Good
  <2>1. req[c] \in Requests /\ req[c].stage = "resolved"
      BY <1>1, <1>12 DEF Enter
  <2>2. [req[c] EXCEPT !.stage = "entered"] \in Requests
      BY <2>1 DEF Requests
  <2>3. req' = [req EXCEPT ![c] = [req[c] EXCEPT !.stage = "entered"]]
      BY <1>1, <1>12 DEF Enter, Requests
  <2> QED BY <1>5, <1>12, <2>2, <2>3
<1>13. ASSUME NEW c \in Clients, NEW u \in Users,
              req' = Outdated(u, [req EXCEPT ![c] = Idle])
       PROVE  Good
  <2> DEFINE rest == [req EXCEPT ![c] = Idle]
  <2>1. rest \in [Clients -> Requests]
      BY <1>1, <1>2
  <2>2. \A d \in Clients : rest[d] = IF d = c THEN Idle ELSE req[d]
      BY <1>1
  <2> HIDE DEF rest
  <2>3. /\ Outdated(u, rest) \in [Clients -> Requests]
        /\ \A d \in Clients :
              /\ Outdated(u, rest)[d].op = rest[d].op
              /\ Outdated(u, rest)[d].stage = rest[d].stage
              /\ Outdated(u, rest)[d].session = rest[d].session
              /\ Outdated(u, rest)[d].target = rest[d].target
              /\ rest[d] = Idle => Outdated(u, rest)[d] = Idle
      BY <2>1, OutdatedRequests
  <2>4. req' = Outdated(u, rest)
      BY <1>13 DEF rest
  <2>5. ASSUME NEW d \in Clients PROVE Kept(d) \/ req'[d] = Idle
      BY <2>2, <2>3, <2>4
  <2> QED BY <2>3, <2>4, <2>5
<1>14. ASSUME NEW c \in Clients,
              CommitUpdateUser(c) \/ CommitReset(c) \/ CommitForgotten(c)
                \/ CommitChangePassword(c)
       PROVE  Good
  <2>1. req[c].target \in Users
      BY <1>1, <1>14 DEF CommitUpdateUser, CommitReset, CommitForgotten,
            CommitChangePassword, CommitNewPassword, Exists, UserRows, Requests
  <2>2. req' = Outdated(req[c].target, [req EXCEPT ![c] = Idle])
      BY <1>14 DEF CommitUpdateUser, CommitReset, CommitForgotten,
            CommitChangePassword, CommitNewPassword
  <2> QED BY <1>13, <2>1, <2>2
<1> HIDE DEF Good
<1> QED BY <1>3, <1>4, <1>7, <1>8, <1>9, <1>10, <1>11, <1>12, <1>14
        DEF Next, CommitFirstAdmin, CommitSignInFailed, CommitSignIn, CommitStatus,
            CommitCreateUser, CommitDeleteUser, EndWithoutCommit, LockoutEnds, Logout
-----------------------------------------------------------------------------
\* A column that is written, or not, keeps its type.
LEMMA WrittenTyped ==
    ASSUME NEW S, NEW loaded, NEW new \in S, NEW stored \in S
    PROVE  Written(loaded, new, stored) \in S
BY DEF Written

\* A row of which columns are replaced by others of their types is a row.
LEMMA RowEdited ==
    ASSUME NEW row \in UserRows, NEW must \in BOOLEAN, NEW failed \in 0..Threshold - 1,
           NEW lock \in {"none", "past", "until"}
    PROVE  /\ [row EXCEPT !.failed = failed, !.lock = lock] \in UserRows
           /\ [row EXCEPT !.must = must] \in UserRows
BY DEF UserRows

\* The new row of an account is one, whoever writes it.
LEMMA RowsWritten ==
    ASSUME TypeOK, NEW q \in Requests, q.op # "none"
    PROVE  /\ \A must \in BOOLEAN : Unlocked(q, must) \in UserRows
           /\ \A must \in BOOLEAN : /\ Unlocked(q, must).status = user[q.target].status
                                    /\ Unlocked(q, must).admin = user[q.target].admin
           /\ q.target \in Users
<1> USE AccountsAssumption
<1>1. q.target \in Users /\ q.was \in UserRows
    BY DEF Requests
<1>2. user[q.target] \in UserRows
    BY <1>1 DEF TypeOK
<1>3. ASSUME NEW must \in BOOLEAN
      PROVE  /\ Unlocked(q, must) \in UserRows
             /\ Unlocked(q, must).status = user[q.target].status
             /\ Unlocked(q, must).admin = user[q.target].admin
  <2> DEFINE m == Written(q.was.must, must, user[q.target].must)
             f == Written(q.was.failed, 0, user[q.target].failed)
             l == Written(q.was.lock, "none", user[q.target].lock)
  <2>1. m \in BOOLEAN
    <3>1. user[q.target].must \in BOOLEAN
        BY <1>2 DEF UserRows
    <3> QED BY <3>1, WrittenTyped
  <2>2. f \in 0..Threshold - 1 /\ l \in {"none", "past", "until"}
      BY <1>2 DEF UserRows, Written
  <2>3. Unlocked(q, must) = [user[q.target] EXCEPT !.must = m, !.failed = f, !.lock = l]
      BY <1>2 DEF Unlocked, UserRows
  <2> HIDE DEF m, f, l
  <2> QED BY <1>2, <2>1, <2>2, <2>3 DEF UserRows
<1> QED BY <1>1, <1>3

\* Sessions stay well formed, and accounts with them.
LEMMA TypeKept ==
    ASSUME TypeOK, Next
    PROVE  TypeOK'
<1> USE AccountsAssumption
<1>1. /\ req \in [Clients -> Requests] /\ user \in [Users -> UserRows]
      /\ session \in [Sessions -> SessionRows] /\ setups \in Nat /\ overlapped \in BOOLEAN
    BY DEF TypeOK
<1>2. req' \in [Clients -> Requests]
    BY RequestStep
<1> DEFINE Good == /\ user' \in [Users -> UserRows]
                   /\ session' \in [Sessions -> SessionRows]
                   /\ setups' \in Nat /\ overlapped' \in BOOLEAN
<1>3. ASSUME UNCHANGED <<user, session, setups>>,
             overlapped' = overlapped
               \/ overlapped' = (overlapped \/ \E d \in Clients : req[d].stage # "idle")
      PROVE  Good
  <2>1. overlapped' \in BOOLEAN
      BY <1>1, <1>3, Zenon
  <2> QED BY <1>1, <1>3, <2>1
<1>4. ASSUME NEW c \in Clients,
             \/ \E u \in Users : LoadFirstAdmin(c, u) \/ LoadForgotten(c, u)
             \/ \E u \in Users, right \in BOOLEAN : LoadSignIn(c, u, right)
             \/ \E u \in Users, op \in Ops : LoadAccount(c, op, u)
             \/ \E s \in Sessions : Resolve(c, s)
             \/ Enter(c) \/ EndWithoutCommit(c)
      PROVE  Good
    BY <1>3, <1>4 DEF LoadFirstAdmin, LoadForgotten, LoadSignIn, LoadAccount, Resolve,
            Enter, EndWithoutCommit, Begin
<1>5. NewUser(TRUE) \in UserRows /\ NewUser(FALSE) \in UserRows /\ DeletedUser \in UserRows
  <2>1. NoUser \in UserRows
      BY DEF NoUser, UserRows
  <2>2. \A admin \in BOOLEAN : NewUser(admin) \in UserRows
      BY <2>1 DEF NewUser, UserRows
  <2>3. DeletedUser \in UserRows
      BY <2>1 DEF DeletedUser, UserRows
  <2> QED BY <2>2, <2>3
<1>6. DeletedSession \in SessionRows /\ \A u \in Users : RevokedSession(u) \in SessionRows
    BY DEF DeletedSession, NoSession, RevokedSession, SessionRows
<1>7. \A c \in Clients : req[c] \in Requests
    BY <1>1
<1>8. ASSUME NEW c \in Clients, CommitFirstAdmin(c) PROVE Good
  <2>1. user' \in [Users -> UserRows]
      BY <1>1, <1>5, <1>8 DEF CommitFirstAdmin
  <2>2. setups' = setups + 1 /\ UNCHANGED <<session, overlapped>>
      BY <1>8 DEF CommitFirstAdmin
  <2>3. setups' \in Nat
      BY <1>1, <2>2
  <2> QED BY <1>1, <2>1, <2>2, <2>3
<1>9. ASSUME NEW c \in Clients, CommitSignInFailed(c) PROVE Good
  <2> DEFINE u == req[c].target
             count == req[c].was.failed + 1
             left == IF count >= Threshold THEN 0 ELSE count
             failed == Written(req[c].was.failed, left, user[u].failed)
             lock == IF count >= Threshold THEN "until" ELSE user[u].lock
  <2>1. u \in Users /\ user[u] \in UserRows /\ req[c].was \in UserRows
      BY <1>1, <1>7, <1>9 DEF CommitSignInFailed, Requests
  <2>2. left \in 0..Threshold - 1 /\ lock \in {"none", "past", "until"}
      BY <2>1 DEF UserRows
  <2>3. failed \in 0..Threshold - 1
    <3>1. user[u].failed \in 0..Threshold - 1
        BY <2>1 DEF UserRows
    <3> QED BY <2>2, <3>1, WrittenTyped
  <2>4. user' = [user EXCEPT ![u] = [user[u] EXCEPT !.failed = failed, !.lock = lock]]
      BY <1>1, <2>1, <1>9 DEF CommitSignInFailed, UserRows
  <2> HIDE DEF failed, lock, left, count
  <2>5. user' \in [Users -> UserRows]
      BY <1>1, <2>1, <2>2, <2>3, <2>4, RowEdited
  <2> QED BY <1>1, <1>9, <2>5 DEF CommitSignInFailed
<1>10. ASSUME NEW c \in Clients, CommitSignIn(c) PROVE Good
  <2> DEFINE u == req[c].target
             failed == Written(req[c].was.failed, 0, user[u].failed)
             lock == Written(req[c].was.lock, "none", user[u].lock)
  <2>1. /\ req[c].stale \in BOOLEAN /\ u \in Users /\ user[u] \in UserRows
      BY <1>1, <1>7, <1>10 DEF CommitSignIn, Requests
  <2>2. failed \in 0..Threshold - 1 /\ lock \in {"none", "past", "until"}
    <3>1. user[u].failed \in 0..Threshold - 1 /\ user[u].lock \in {"none", "past", "until"}
        BY <2>1 DEF UserRows
    <3>2. 0 \in 0..Threshold - 1
        OBVIOUS
    <3> QED BY <3>1, <3>2, WrittenTyped
  <2>3. user' = [user EXCEPT ![u] = [user[u] EXCEPT !.failed = failed, !.lock = lock]]
      BY <1>1, <2>1, <1>10 DEF CommitSignIn, UserRows
  <2>4. [state |-> "live", user |-> u, stale |-> req[c].stale] \in SessionRows
      BY <2>1 DEF SessionRows
  <2> HIDE DEF failed, lock
  <2>5. user' \in [Users -> UserRows]
      BY <1>1, <2>1, <2>2, <2>3, RowEdited
  <2>6. session' \in [Sessions -> SessionRows]
      BY <1>1, <1>10, <2>4 DEF CommitSignIn
  <2> QED BY <1>1, <1>10, <2>5, <2>6 DEF CommitSignIn
<1>11. ASSUME NEW u \in Users, LockoutEnds(u) PROVE Good
  <2>1. [user[u] EXCEPT !.lock = "past"] \in UserRows
      BY <1>1 DEF UserRows
  <2>2. user' = [user EXCEPT ![u] = [user[u] EXCEPT !.lock = "past"]]
      BY <1>1, <1>11 DEF LockoutEnds, UserRows
  <2> QED BY <1>1, <1>11, <2>1, <2>2 DEF LockoutEnds
<1>12. ASSUME NEW s \in Sessions, Logout(s) PROVE Good
  <2>1. session[s].user \in Users
      BY <1>1, <1>12 DEF Logout, SessionRows
  <2> QED BY <1>1, <1>6, <1>12, <2>1 DEF Logout
<1>13. ASSUME NEW c \in Clients, NEW u \in Users, NEW admin \in BOOLEAN,
              CommitCreateUser(c, u, admin)
       PROVE  Good
    BY <1>1, <1>5, <1>13 DEF CommitCreateUser
<1>14. ASSUME NEW c \in Clients, CommitStatus(c) PROVE Good
  <2> DEFINE u == req[c].target
             status == IF req[c].op = "enable" THEN "active" ELSE "disabled"
             row == [user[u] EXCEPT !.status = Written(req[c].was.status, status, @)]
  <2>1. u \in Users
      BY <1>7, <1>14, RowsWritten DEF CommitStatus, StatusOps
  <2>2. row \in UserRows
      BY <1>1, <2>1 DEF UserRows, Written
  <2>3. user' = [user EXCEPT ![u] = row]
      BY <1>1, <2>1, <1>14 DEF CommitStatus, UserRows
  <2> QED BY <1>1, <1>6, <1>14, <2>1, <2>2, <2>3 DEF CommitStatus
<1>15. ASSUME NEW c \in Clients, NEW kept, NEW row \in UserRows,
              req[c].target \in Users, CommitNewPassword(c, kept, row)
       PROVE  Good
  <2>1. \A s \in Sessions : session[s].user = req[c].target =>
            [session[s] EXCEPT !.stale = FALSE] \in SessionRows
      BY <1>1, <1>15 DEF SessionRows
  <2>2. user' \in [Users -> UserRows]
      BY <1>1, <1>15 DEF CommitNewPassword
  <2>3. session' \in [Sessions -> SessionRows]
      BY <1>1, <1>6, <1>15, <2>1 DEF CommitNewPassword
  <2> QED BY <1>1, <1>15, <2>2, <2>3 DEF CommitNewPassword
<1>16. ASSUME NEW c \in Clients,
              CommitUpdateUser(c) \/ CommitReset(c) \/ CommitForgotten(c)
       PROVE  Good
  <2>1. /\ Unlocked(req[c], TRUE) \in UserRows /\ Unlocked(req[c], FALSE) \in UserRows
        /\ req[c].target \in Users
      BY <1>7, <1>16, RowsWritten DEF CommitUpdateUser, CommitReset, CommitForgotten
  <2> QED BY <1>15, <1>16, <2>1 DEF CommitUpdateUser, CommitReset, CommitForgotten
<1>17. ASSUME NEW c \in Clients, CommitChangePassword(c) PROVE Good
  <2>1. req[c].target \in Users
      BY <1>7, <1>17, RowsWritten DEF CommitChangePassword
  <2>2. [user[req[c].target] EXCEPT !.must = Written(req[c].was.must, FALSE, @)] \in UserRows
    <3>1. user[req[c].target] \in UserRows /\ user[req[c].target].must \in BOOLEAN
        BY <1>1, <2>1 DEF UserRows
    <3>2. Written(req[c].was.must, FALSE, user[req[c].target].must) \in BOOLEAN
        BY <3>1, WrittenTyped
    <3>3. 0 \in 0..Threshold - 1
        OBVIOUS
    <3> QED BY <3>1, <3>2, <3>3, RowEdited
  <2> QED BY <1>15, <1>17, <2>1, <2>2 DEF CommitChangePassword
<1>18. ASSUME NEW c \in Clients, CommitDeleteUser(c) PROVE Good
    BY <1>1, <1>5, <1>6, <1>18 DEF CommitDeleteUser
<1> HIDE DEF Good
<1>19. Good
    BY <1>4, <1>8, <1>9, <1>10, <1>11, <1>12, <1>13, <1>14, <1>16, <1>17, <1>18 DEF Next
<1> QED BY <1>2, <1>19 DEF Good, TypeOK
-----------------------------------------------------------------------------
\* A request works under a session because it already did, or enters just now.
LEMMA EnteredStep ==
    ASSUME TypeOK, Next, NEW c \in Clients, Entered(c)'
    PROVE  /\ req'[c].session = req[c].session
           /\ Entered(c) \/ Enter(c)
<1> USE AccountsAssumption DEF TypeOK
<1>1. req[c] \in Requests /\ req'[c] # Idle /\ req'[c].session # "none"
    BY DEF Entered, Idle
<1>2. ASSUME NEW u \in Users, LoadFirstAdmin(c, u) PROVE FALSE
    BY <1>1, <1>2 DEF LoadFirstAdmin, Begin, AnonymousCall, Idle
<1>3. ASSUME NEW u \in Users, LoadForgotten(c, u) PROVE FALSE
    BY <1>1, <1>3 DEF LoadForgotten, Begin, AnonymousCall, Idle
<1>4. ASSUME NEW u \in Users, NEW right \in BOOLEAN, LoadSignIn(c, u, right) PROVE FALSE
    BY <1>1, <1>4 DEF LoadSignIn, Begin, AnonymousCall, Idle
<1>5. ASSUME NEW s \in Sessions, Resolve(c, s) PROVE FALSE
    BY <1>5 DEF Resolve, Begin, Entered, Idle
<1>6. ASSUME NEW op \in Ops, NEW u \in Users, LoadAccount(c, op, u)
      PROVE  req'[c].session = req[c].session /\ Entered(c)
  <2>1. req[c].stage = "entered" /\ req'[c].session = req[c].session
      BY <1>1, <1>6 DEF LoadAccount, Requests
  <2> QED BY <1>1, <2>1 DEF Entered
<1>7. ASSUME Enter(c) PROVE req'[c].session = req[c].session
    BY <1>1, <1>7 DEF Enter, Requests
<1> QED BY <1>1, <1>2, <1>3, <1>4, <1>5, <1>6, <1>7, RequestStep DEF Entered

\* A request that enters a session found it free.
LEMMA SerialKept ==
    ASSUME TypeOK, SessionsSerialised, Next
    PROVE  SessionsSerialised'
<1> SUFFICES ASSUME NEW c \in Clients, NEW d \in Clients, Entered(c)', Entered(d)',
                    req'[c].session = req'[d].session, c # d
             PROVE  FALSE
    BY DEF SessionsSerialised
<1>1. /\ req'[c].session = req[c].session /\ req'[d].session = req[d].session
      /\ Entered(c) \/ Enter(c)
      /\ Entered(d) \/ Enter(d)
    BY EnteredStep
<1>2. CASE Entered(c) /\ Entered(d)
    BY <1>1, <1>2 DEF SessionsSerialised
<1>3. CASE Enter(c) /\ ~Entered(d)
    BY <1>1, <1>3 DEF Enter, Entered, TypeOK
<1>4. CASE Enter(d) /\ ~Entered(c)
    BY <1>1, <1>4 DEF Enter, Entered, TypeOK
<1>5. CASE Enter(c) /\ Entered(d)
    BY <1>1, <1>5 DEF Enter, FreeFor, LocksSession
<1>6. CASE Enter(d) /\ Entered(c)
    BY <1>1, <1>6 DEF Enter, FreeFor, LocksSession
<1> QED BY <1>1, <1>2, <1>3, <1>4, <1>5, <1>6

\* An account keeps its rights, and existence, unless it is deleted.
LEMMA AccountStays ==
    ASSUME TypeOK, Next, NEW u \in Users, Exists(u),
           \A c \in Clients : req[c].op = "delete" => req[c].target # u
    PROVE  Exists(u)' /\ user'[u].admin = user[u].admin
<1> USE AccountsAssumption DEF TypeOK, Exists
<1>1. user[u] \in UserRows /\ user \in [Users -> UserRows]
    OBVIOUS
<1> DEFINE Good == /\ user'[u].status \in {"active", "disabled"}
                   /\ user'[u].admin = user[u].admin
<1>2. ASSUME UNCHANGED user PROVE Good
    BY <1>2
<1>3. ASSUME NEW c \in Clients, CommitFirstAdmin(c) PROVE Good
    BY <1>1, <1>3 DEF CommitFirstAdmin
<1>4. ASSUME NEW c \in Clients, CommitSignInFailed(c) PROVE Good
    BY <1>1, <1>4 DEF CommitSignInFailed, UserRows
<1>5. ASSUME NEW c \in Clients, CommitSignIn(c) PROVE Good
    BY <1>1, <1>5 DEF CommitSignIn, UserRows
<1>6. ASSUME NEW c \in Clients, NEW v \in Users, NEW admin \in BOOLEAN,
             CommitCreateUser(c, v, admin)
      PROVE  Good
    BY <1>1, <1>6 DEF CommitCreateUser
<1>7. ASSUME NEW c \in Clients, CommitStatus(c) PROVE Good
    BY <1>1, <1>7 DEF CommitStatus, Written, UserRows
<1>8. ASSUME NEW c \in Clients,
             CommitUpdateUser(c) \/ CommitReset(c) \/ CommitForgotten(c)
      PROVE  Good
  <2>1. req[c] \in Requests /\ req[c].op # "none"
      BY <1>8 DEF CommitUpdateUser, CommitReset, CommitForgotten
  <2>2. \A must \in BOOLEAN : /\ Unlocked(req[c], must).status = user[req[c].target].status
                              /\ Unlocked(req[c], must).admin = user[req[c].target].admin
      BY <2>1, RowsWritten
  <2>3. PICK must \in BOOLEAN : user' = [user EXCEPT ![req[c].target] = Unlocked(req[c], must)]
      BY <1>8 DEF CommitUpdateUser, CommitReset, CommitForgotten, CommitNewPassword
  <2> QED BY <1>1, <2>2, <2>3
<1>9. ASSUME NEW c \in Clients, CommitChangePassword(c) PROVE Good
    BY <1>1, <1>9 DEF CommitChangePassword, CommitNewPassword, UserRows
<1>10. ASSUME NEW c \in Clients, CommitDeleteUser(c) PROVE Good
    BY <1>1, <1>10 DEF CommitDeleteUser
<1>11. ASSUME NEW v \in Users, LockoutEnds(v) PROVE Good
    BY <1>1, <1>11 DEF LockoutEnds, UserRows
<1>12. ASSUME NEW c \in Clients,
              \/ \E v \in Users : LoadFirstAdmin(c, v) \/ LoadForgotten(c, v)
              \/ \E v \in Users, right \in BOOLEAN : LoadSignIn(c, v, right)
              \/ \E v \in Users, op \in Ops : LoadAccount(c, op, v)
              \/ \E s \in Sessions : Resolve(c, s)
              \/ Enter(c) \/ EndWithoutCommit(c)
       PROVE  Good
    BY <1>2, <1>12 DEF LoadFirstAdmin, LoadForgotten, LoadSignIn, LoadAccount, Resolve,
                       Enter, EndWithoutCommit
<1>13. ASSUME NEW s \in Sessions, Logout(s) PROVE Good
    BY <1>2, <1>13 DEF Logout
<1> HIDE DEF Good, TypeOK, Exists
<1>14. Good
    BY <1>3, <1>4, <1>5, <1>6, <1>7, <1>8, <1>9, <1>10, <1>11, <1>12, <1>13 DEF Next
<1> QED BY <1>14 DEF Good, Exists

\* Before setup nothing can happen but setup, and it happens once.
LEMMA SetupKept ==
    ASSUME TypeOK, OneFirstAdmin, Next
    PROVE  OneFirstAdmin'
<1> USE AccountsAssumption
<1>1. /\ req \in [Clients -> Requests] /\ user \in [Users -> UserRows]
      /\ session \in [Sessions -> SessionRows]
    BY DEF TypeOK
<1>2. CASE setups = 1 /\ \E u \in Users : Stays(u)
  <2>1. PICK u \in Users : Stays(u)
      BY <1>2
  <2>2. \A c \in Clients : req[c].op # "setup"
      BY <1>2 DEF OneFirstAdmin
  <2>3. ASSUME NEW c \in Clients
        PROVE  req'[c].op # "setup" /\ (req'[c].op = "delete" => req'[c].target # u)
    <3> DEFINE Good == req'[c].op # "setup" /\ (req'[c].op = "delete" => req'[c].target # u)
    <3>1. ASSUME NEW v \in Users, LoadFirstAdmin(c, v) PROVE Good
        BY <2>1, <3>1 DEF LoadFirstAdmin, Stays
    <3>2. ASSUME NEW v \in Users, LoadForgotten(c, v) PROVE Good
        BY <1>1, <3>2 DEF LoadForgotten, Begin, AnonymousCall, Idle
    <3>3. ASSUME NEW v \in Users, NEW right \in BOOLEAN, LoadSignIn(c, v, right) PROVE Good
        BY <1>1, <3>3 DEF LoadSignIn, Begin, AnonymousCall, Idle
    <3>4. ASSUME NEW s \in Sessions, Resolve(c, s) PROVE Good
        BY <1>1, <3>4 DEF Resolve, Begin, Idle
    <3>5. ASSUME NEW op \in Ops, NEW v \in Users, LoadAccount(c, op, v) PROVE Good
      <4>1. op # "setup" /\ req'[c].op = op /\ req'[c].target = v
          BY <1>1, <3>5 DEF LoadAccount, AdminOps, StatusOps, Requests
      <4>2. op = "delete" => v # u
          BY <2>1, <3>5 DEF LoadAccount, MayTarget, Stays
      <4> QED BY <4>1, <4>2
    <3>6. ASSUME Enter(c) PROVE Good
        BY <1>1, <2>1, <2>2, <3>6 DEF Enter, Requests, Stays
    <3>7. ASSUME req'[c] = Idle PROVE Good
        BY <3>7 DEF Idle
    <3>8. ASSUME req'[c].op = req[c].op, req'[c].target = req[c].target PROVE Good
        BY <2>1, <2>2, <3>8 DEF Stays
    <3> HIDE DEF Good
    <3>9. Good
        BY <3>1, <3>2, <3>3, <3>4, <3>5, <3>6, <3>7, <3>8, RequestStep
    <3> QED BY <3>9 DEF Good
  <2>4. Exists(u)' /\ user'[u].admin = user[u].admin
      BY <2>1, AccountStays DEF Stays
  <2>5. Stays(u)'
      BY <2>1, <2>3, <2>4 DEF Stays
  <2>6. ~\E c \in Clients : CommitFirstAdmin(c)
      BY <2>2 DEF CommitFirstAdmin
  <2>7. setups' = setups
    <3>1. ASSUME NEW c \in Clients,
                 \/ \E v \in Users : LoadFirstAdmin(c, v) \/ LoadForgotten(c, v)
                 \/ \E v \in Users, right \in BOOLEAN : LoadSignIn(c, v, right)
                 \/ \E v \in Users, op \in Ops : LoadAccount(c, op, v)
                 \/ \E s \in Sessions : Resolve(c, s)
                 \/ Enter(c) \/ EndWithoutCommit(c)
          PROVE  setups' = setups
        BY <3>1 DEF LoadFirstAdmin, LoadForgotten, LoadSignIn, LoadAccount, Resolve,
                    Enter, EndWithoutCommit
    <3>2. ASSUME NEW c \in Clients,
                 \/ CommitSignInFailed(c) \/ CommitSignIn(c) \/ CommitStatus(c)
                 \/ CommitDeleteUser(c)
                 \/ \E v \in Users, admin \in BOOLEAN : CommitCreateUser(c, v, admin)
          PROVE  setups' = setups
        BY <3>2 DEF CommitSignInFailed, CommitSignIn, CommitStatus, CommitDeleteUser,
                    CommitCreateUser
    <3>3. ASSUME NEW c \in Clients,
                 \/ CommitUpdateUser(c) \/ CommitReset(c) \/ CommitForgotten(c)
                 \/ CommitChangePassword(c)
          PROVE  setups' = setups
        BY <3>3 DEF CommitUpdateUser, CommitReset, CommitForgotten, CommitChangePassword,
                    CommitNewPassword
    <3>4. ASSUME (\E v \in Users : LockoutEnds(v)) \/ (\E s \in Sessions : Logout(s))
          PROVE  setups' = setups
        BY <3>4 DEF LockoutEnds, Logout
    <3> QED BY <2>6, <3>1, <3>2, <3>3, <3>4 DEF Next
  <2> QED BY <1>2, <2>3, <2>5, <2>7 DEF OneFirstAdmin
<1>3. CASE setups = 0
  <2>1. /\ \A u \in Users : user[u] = NoUser
        /\ \A s \in Sessions : session[s] = NoSession
        /\ \A c \in Clients : req[c] = Idle \/ req[c].op = "setup"
      BY <1>3 DEF OneFirstAdmin
  <2>2. \A c \in Clients : /\ req[c].op = "none" \/ req[c].op = "setup"
                           /\ req[c].stage = "idle" \/ req[c].stage = "loaded"
    <3>1. \A q \in Requests : q.op = "setup" => q.stage = "loaded"
        BY DEF Requests
    <3>2. Idle.op = "none" /\ Idle.stage = "idle"
        BY DEF Idle
    <3> QED BY <1>1, <2>1, <3>1, <3>2
  <2>3. \A u \in Users : ~Exists(u) /\ user[u].status = "absent" /\ user[u].lock = "none"
      BY <2>1 DEF Exists, NoUser
  <2>4. \A s \in Sessions : session[s].state = "absent"
      BY <2>1 DEF NoSession
  <2>5. \E c \in Clients : \/ \E u \in Users : LoadFirstAdmin(c, u)
                           \/ CommitFirstAdmin(c)
                           \/ EndWithoutCommit(c)
    <3>1. ASSUME NEW c \in Clients
          PROVE  /\ \A u \in Users : ~LoadForgotten(c, u)
                 /\ \A u \in Users, right \in BOOLEAN : ~LoadSignIn(c, u, right)
                 /\ \A s \in Sessions : ~Resolve(c, s)
                 /\ ~Enter(c)
      <4>1. \A u \in Users : ~LoadForgotten(c, u)
          BY <2>3 DEF LoadForgotten
      <4>2. \A u \in Users, right \in BOOLEAN : ~LoadSignIn(c, u, right)
          BY <2>3 DEF LoadSignIn
      <4>3. (\A s \in Sessions : ~Resolve(c, s)) /\ ~Enter(c)
          BY <2>2, <2>4 DEF Resolve, Enter
      <4> QED BY <4>1, <4>2, <4>3
    <3>2. ASSUME NEW c \in Clients
          PROVE  /\ \A u \in Users, op \in Ops : ~LoadAccount(c, op, u)
                 /\ \A u \in Users, admin \in BOOLEAN : ~CommitCreateUser(c, u, admin)
                 /\ ~CommitSignInFailed(c) /\ ~CommitSignIn(c) /\ ~CommitStatus(c)
      <4>1. /\ req[c].op = "none" \/ req[c].op = "setup"
            /\ req[c].stage = "idle" \/ req[c].stage = "loaded"
          BY <2>2
      <4>2. \A u \in Users, op \in Ops : ~LoadAccount(c, op, u)
          BY <4>1 DEF LoadAccount
      <4>3. \A u \in Users, admin \in BOOLEAN : ~CommitCreateUser(c, u, admin)
          BY <4>1 DEF CommitCreateUser
      <4>4. ~CommitSignInFailed(c) /\ ~CommitSignIn(c) /\ ~CommitStatus(c)
          BY <4>1 DEF CommitSignInFailed, CommitSignIn, CommitStatus, StatusOps
      <4> QED BY <4>2, <4>3, <4>4
    <3>3. ASSUME NEW c \in Clients
          PROVE  /\ ~CommitUpdateUser(c) /\ ~CommitReset(c) /\ ~CommitForgotten(c)
                 /\ ~CommitChangePassword(c) /\ ~CommitDeleteUser(c)
      <4>1. req[c].op = "none" \/ req[c].op = "setup"
          BY <2>2
      <4> QED BY <4>1 DEF CommitUpdateUser, CommitReset, CommitForgotten,
                          CommitChangePassword, CommitDeleteUser
    <3>4. (\A u \in Users : ~LockoutEnds(u)) /\ (\A s \in Sessions : ~Logout(s))
        BY <2>3, <2>4 DEF LockoutEnds, Logout
    <3> QED BY <3>1, <3>2, <3>3, <3>4 DEF Next
  <2>6. ASSUME NEW c \in Clients, NEW u \in Users, LoadFirstAdmin(c, u)
        PROVE  OneFirstAdmin'
    <3>1. /\ req' = [req EXCEPT ![c] = AnonymousCall("setup", u, FALSE)]
          /\ UNCHANGED <<user, session, setups>>
          /\ \A d \in Clients : req[d].op # "setup"
        BY <2>6 DEF LoadFirstAdmin, Begin
    <3>2. /\ AnonymousCall("setup", u, FALSE).op = "setup"
          /\ AnonymousCall("setup", u, FALSE).session = "none"
        BY DEF AnonymousCall, Idle
    <3> QED BY <1>1, <1>3, <2>1, <2>2, <3>1, <3>2 DEF OneFirstAdmin, Idle
  <2>7. ASSUME NEW c \in Clients, CommitFirstAdmin(c)
        PROVE  OneFirstAdmin'
    <3>1. /\ req' = [req EXCEPT ![c] = Idle] /\ setups' = 1
          /\ user' = [user EXCEPT ![req[c].target] = NewUser(TRUE)]
          /\ req[c].op = "setup"
        BY <1>3, <2>7 DEF CommitFirstAdmin, End
    <3>2. PICK u \in Users : u = req[c].target
        BY <1>1, <3>1 DEF Requests
    <3>3. \A d \in Clients : req'[d].op = "none"
      <4>1. \A d \in Clients : d # c => req[d].op # "setup"
          BY <3>1 DEF OneFirstAdmin
      <4>2. Idle.op = "none"
          BY DEF Idle
      <4> QED BY <1>1, <2>2, <3>1, <4>1, <4>2
    <3>4. user'[u] = NewUser(TRUE)
        BY <1>1, <3>1, <3>2
    <3>5. NewUser(TRUE).status = "active" /\ NewUser(TRUE).admin
        BY DEF NewUser, NoUser
    <3>6. Stays(u)'
        BY <3>3, <3>4, <3>5 DEF Stays, Exists
    <3> QED BY <3>1, <3>3, <3>6 DEF OneFirstAdmin
  <2>8. ASSUME NEW c \in Clients, EndWithoutCommit(c)
        PROVE  OneFirstAdmin'
    <3>1. req' = [req EXCEPT ![c] = Idle] /\ UNCHANGED <<user, session, setups>>
        BY <2>8 DEF EndWithoutCommit, End
    <3>2. \A d \in Clients : req'[d] = Idle \/ req'[d] = req[d]
        BY <1>1, <3>1
    <3>3. Idle.op = "none"
        BY DEF Idle
    <3>4. \A d \in Clients : req'[d] = Idle \/ req'[d].op = "setup"
        BY <2>1, <3>2
    <3>5. \A d \in Clients : req'[d].op = "setup" => req'[d] = req[d]
        BY <3>2, <3>3
    <3> QED BY <1>3, <2>1, <3>1, <3>4, <3>5 DEF OneFirstAdmin
  <2> QED BY <2>5, <2>6, <2>7, <2>8
<1> QED BY <1>2, <1>3 DEF OneFirstAdmin

-----------------------------------------------------------------------------
(* The advisory lock of initial setup and the locks of sessions hold for    *)
(* any number of requests.                                                  *)
THEOREM Invariance == Spec => []IInv
<1>1. IInv /\ [Next]_vars => IInv'
  <2> SUFFICES ASSUME IInv, [Next]_vars PROVE IInv'
      OBVIOUS
  <2>1. CASE Next
      BY <2>1, TypeKept, SetupKept, SerialKept DEF IInv
  <2>2. CASE UNCHANGED vars
      BY <2>2 DEF vars, IInv, TypeOK, OneFirstAdmin, Stays, Exists, SessionsSerialised,
                  Entered
  <2> QED BY <2>1, <2>2
<1> QED BY InitIInv, <1>1, PTL DEF Spec

\* The sessions that a step closes are free for the request that closes them.
LEMMA Undisturbed ==
    ASSUME TypeOK, Next, NEW c \in Clients, NEW s \in Sessions,
           LocksSession(c, s), LocksSession(c, s)', session[s].state = "live",
           user[session[s].user].status = "active"
    PROVE  session'[s].state = "live" /\ user'[session[s].user].status = "active"
<1> USE AccountsAssumption
<1> DEFINE u == session[s].user
           Good == session'[s].state = "live" /\ user'[u].status = "active"
<1>1. /\ req \in [Clients -> Requests] /\ user \in [Users -> UserRows]
      /\ session \in [Sessions -> SessionRows]
    BY DEF TypeOK
<1>2. u \in Users /\ s # "none"
    BY <1>1 DEF SessionRows
<1>3. req'[c] # Idle
    BY DEF LocksSession, Entered, Idle
<1>4. \A d \in Clients : req' = [req EXCEPT ![d] = Idle] => d # c
    BY <1>1, <1>3
<1>5. \A d \in Clients : d # c => ~FreeFor(d, s)
    BY DEF FreeFor
<1> HIDE DEF u
<1>6. ASSUME UNCHANGED <<user, session>> PROVE Good
    BY <1>6 DEF u
<1>7. ASSUME NEW d \in Clients,
             \/ \E v \in Users : LoadFirstAdmin(d, v) \/ LoadForgotten(d, v)
             \/ \E v \in Users, right \in BOOLEAN : LoadSignIn(d, v, right)
             \/ \E v \in Users, op \in Ops : LoadAccount(d, op, v)
             \/ \E x \in Sessions : Resolve(d, x)
             \/ Enter(d) \/ EndWithoutCommit(d)
      PROVE  Good
    BY <1>6, <1>7 DEF LoadFirstAdmin, LoadForgotten, LoadSignIn, LoadAccount, Resolve,
                      Enter, EndWithoutCommit
<1>8. user[u].status = "active"
    BY DEF u
<1>9. ASSUME NEW d \in Clients, CommitFirstAdmin(d) PROVE Good
    BY <1>1, <1>2, <1>8, <1>9 DEF CommitFirstAdmin
<1>10. ASSUME NEW d \in Clients, NEW v \in Users, NEW admin \in BOOLEAN,
              CommitCreateUser(d, v, admin)
       PROVE  Good
    BY <1>1, <1>2, <1>8, <1>10 DEF CommitCreateUser
<1>11. ASSUME NEW d \in Clients, CommitSignInFailed(d) PROVE Good
    BY <1>1, <1>2, <1>8, <1>11 DEF CommitSignInFailed, UserRows
<1>12. ASSUME NEW d \in Clients, CommitSignIn(d) PROVE Good
  <2>1. user'[u].status = "active"
      BY <1>1, <1>2, <1>8, <1>12 DEF CommitSignIn, UserRows
  <2>2. session'[s] = session[s]
      BY <1>1, <1>12 DEF CommitSignIn
  <2> QED BY <2>1, <2>2
<1>13. ASSUME NEW v \in Users, LockoutEnds(v) PROVE Good
    BY <1>1, <1>2, <1>8, <1>13 DEF LockoutEnds, UserRows
<1>14. ASSUME NEW x \in Sessions, Logout(x) PROVE Good
  <2>1. x # s
      BY <1>14 DEF Logout
  <2> QED BY <1>1, <1>8, <1>14, <2>1 DEF Logout
<1>15. ASSUME NEW d \in Clients, CommitStatus(d) PROVE Good
  <2>1. d # c
      BY <1>4, <1>15 DEF CommitStatus, End
  <2>2. s \notin (IF req[d].op = "enable" THEN {} ELSE LiveOf(req[d].target, "none"))
      BY <1>5, <1>15, <2>1 DEF CommitStatus
  <2>3. session'[s].state = "live"
      BY <1>15, <2>2 DEF CommitStatus
  <2>4. req[d].op # "enable" => req[d].target # u
      BY <1>2, <2>2 DEF LiveOf, u
  <2>5. user'[u].status = "active"
      BY <1>1, <1>2, <1>8, <1>15, <2>4 DEF CommitStatus, Written, UserRows
  <2> QED BY <2>3, <2>5
<1>16. ASSUME NEW d \in Clients, NEW kept, NEW row, CommitNewPassword(d, kept, row),
              row.status = user[req[d].target].status
       PROVE  Good
  <2>1. d # c
    <3>1. ASSUME d = c PROVE FALSE
      <4>1. [req EXCEPT ![d] = Idle][c] = Idle
          BY <1>1, <3>1
      <4>2. req'[c] = Idle
          BY <1>16, <4>1 DEF CommitNewPassword, Outdated, Idle
      <4> QED BY <1>3, <4>2
    <3> QED BY <3>1
  <2>2. s \notin LiveOf(req[d].target, kept)
      BY <1>5, <1>16, <2>1 DEF CommitNewPassword
  <2>3. session'[s].state = "live"
      BY <1>1, <1>16, <2>2 DEF CommitNewPassword, SessionRows
  <2>4. user'[u].status = "active"
      BY <1>1, <1>2, <1>8, <1>16 DEF CommitNewPassword
  <2> QED BY <2>3, <2>4
<1>17. ASSUME NEW d \in Clients,
              CommitUpdateUser(d) \/ CommitReset(d) \/ CommitForgotten(d)
       PROVE  Good
  <2>1. req[d] \in Requests /\ req[d].op # "none"
      BY <1>1, <1>17 DEF CommitUpdateUser, CommitReset, CommitForgotten
  <2>2. \A must \in BOOLEAN : Unlocked(req[d], must).status = user[req[d].target].status
      BY <2>1, RowsWritten
  <2> QED BY <1>16, <1>17, <2>2 DEF CommitUpdateUser, CommitReset, CommitForgotten
<1>18. ASSUME NEW d \in Clients, CommitChangePassword(d) PROVE Good
  <2> DEFINE row == [user[req[d].target] EXCEPT
                        !.must = Written(req[d].was.must, FALSE, @)]
  <2>1. req[d].target \in Users
      BY <1>1, <1>18 DEF CommitChangePassword, Requests
  <2>2. row.status = user[req[d].target].status
      BY <1>1, <2>1 DEF UserRows
  <2>3. CommitNewPassword(d, req[d].session, row)
      BY <1>18 DEF CommitChangePassword
  <2> HIDE DEF row
  <2> QED BY <1>16, <2>2, <2>3
<1>19. ASSUME NEW d \in Clients, CommitDeleteUser(d) PROVE Good
  <2>1. d # c
      BY <1>4, <1>19 DEF CommitDeleteUser, End
  <2>2. u # req[d].target
      BY <1>5, <1>19, <2>1 DEF CommitDeleteUser, u
  <2> QED BY <1>1, <1>2, <1>8, <1>19, <2>2 DEF CommitDeleteUser, u
<1> HIDE DEF Good
<1>20. Good
    BY <1>7, <1>9, <1>10, <1>11, <1>12, <1>13, <1>14, <1>15, <1>17, <1>18, <1>19 DEF Next
<1> QED BY <1>20 DEF Good, u

(* Nobody takes a session or an account away from a request that works      *)
(* under them: revocations wait for the lock that last_seen_at took.        *)
THEOREM NobodyDisturbed == Spec => ActingUndisturbed
<1>1. IInv /\ [Next]_vars =>
        [\A c \in Clients, s \in Sessions :
            LET u == session[s].user IN
            /\ LocksSession(c, s) /\ LocksSession(c, s)'
            /\ session[s].state = "live" /\ user[u].status = "active"
            => session'[s].state = "live" /\ user'[u].status = "active"]_vars
    BY Undisturbed DEF IInv
<1> QED BY <1>1, Invariance, PTL DEF Spec, ActingUndisturbed

-----------------------------------------------------------------------------
(* With one request at a time.                                              *)

Busy(c) == req[c].stage # "idle"

\* What a request has read still holds, since nothing happens beside it: who
\* signs in is active, who is deleted is no administrator, the caller is an
\* active account with the rights it was resolved with, and disables another.
Fresh(c) ==
    LET q == req[c]
        caller == session[q.session].user
        Acts == q.session \in Sessions /\ caller \in Users /\ user[caller].status = "active"
    IN  /\ q.op = "sign_in" => user[q.target].status = "active" /\ ~q.stale
        /\ q.op = "delete" => ~user[q.target].admin
        /\ q.stage \in {"resolved", "entered"} =>
              Acts /\ (q.was.admin => user[caller].admin)
        /\ q.op = "disable" => Acts /\ user[caller].admin /\ caller # q.target

SerialInv ==
    ~overlapped =>
        /\ \A c, d \in Clients : Busy(c) /\ Busy(d) => c = d
        /\ \A c \in Clients : Busy(c) => Fresh(c)

SerialIInv == IInv /\ SerialInv /\ LiveSessionsCurrent /\ AdminRemains

\* A request that begins without overlapping another finds all others idle.
LEMMA BeginsAlone ==
    ASSUME TypeOK, NEW c \in Clients, NEW q \in Requests, Begin(c, q), ~overlapped',
           UNCHANGED <<user, session, setups>>,
           LiveSessionsCurrent, AdminRemains, Fresh(c)'
    PROVE  SerialInv' /\ LiveSessionsCurrent' /\ AdminRemains'
<1>1. ~overlapped /\ req' = [req EXCEPT ![c] = q] /\ \A d \in Clients : req[d].stage = "idle"
    BY DEF Begin
<1>2. \A d \in Clients : d # c => req'[d] = req[d]
    BY <1>1 DEF TypeOK
<1>3. \A d \in Clients : Busy(d)' => d = c
    BY <1>1, <1>2 DEF Busy
<1>4. SerialInv'
    BY <1>3 DEF SerialInv
<1> QED BY <1>1, <1>4 DEF LiveSessionsCurrent, AdminRemains

\* A step of the one request in flight that leaves the tables alone.
LEMMA WorksAlone ==
    ASSUME TypeOK, SerialInv, NEW c \in Clients, Busy(c), NEW q \in Requests,
           req' = [req EXCEPT ![c] = q], ~overlapped',
           UNCHANGED <<user, session, setups, overlapped>>,
           LiveSessionsCurrent, AdminRemains, q = Idle \/ Fresh(c)'
    PROVE  SerialInv' /\ LiveSessionsCurrent' /\ AdminRemains'
<1>1. \A d \in Clients : d # c => req'[d] = req[d]
    BY DEF TypeOK
<1>2. \A d \in Clients : Busy(d)' => d = c
    BY <1>1 DEF Busy, SerialInv
<1>3. req'[c] = q
    BY DEF TypeOK
<1>4. q = Idle => ~Busy(c)'
    BY <1>3 DEF Busy, Idle
<1>5. SerialInv'
    BY <1>2, <1>4 DEF SerialInv
<1> QED BY <1>5 DEF LiveSessionsCurrent, AdminRemains

\* Once the one request in flight has ended, nothing is in flight.
LEMMA EndsAlone ==
    ASSUME TypeOK, SerialInv, NEW c \in Clients, Busy(c), ~overlapped,
           req'[c] = Idle, \A d \in Clients : d # c => req'[d].stage = req[d].stage
    PROVE  SerialInv'
<1>1. \A d \in Clients : ~Busy(d)'
    BY DEF SerialInv, Busy, Idle
<1> QED BY <1>1 DEF SerialInv

\* Requests with something to commit are busy.
LEMMA CommitsBusy ==
    ASSUME TypeOK, NEW c \in Clients
    PROVE  /\ req[c].op # "none" => /\ Busy(c) /\ req[c].target \in Users
                                    /\ req[c].stage = "loaded" /\ req[c].op \in Ops
           /\ req[c].stage = "entered" => Busy(c)
<1>1. req[c] \in Requests
    BY DEF TypeOK
<1> QED BY <1>1 DEF Requests, Busy

\* Nobody takes back that two requests have overlapped.
LEMMA OverlapStays ==
    ASSUME Next, ~overlapped'
    PROVE  ~overlapped
<1>1. ASSUME NEW c \in Clients,
             \/ \E v \in Users : LoadFirstAdmin(c, v) \/ LoadForgotten(c, v)
             \/ \E v \in Users, right \in BOOLEAN : LoadSignIn(c, v, right)
             \/ \E v \in Users, op \in Ops : LoadAccount(c, op, v)
             \/ \E s \in Sessions : Resolve(c, s)
             \/ Enter(c) \/ EndWithoutCommit(c)
      PROVE  ~overlapped
    BY <1>1 DEF LoadFirstAdmin, LoadForgotten, LoadSignIn, LoadAccount, Resolve,
                Enter, EndWithoutCommit, Begin
<1>2. ASSUME NEW c \in Clients,
             \/ CommitSignInFailed(c) \/ CommitSignIn(c) \/ CommitStatus(c)
             \/ CommitDeleteUser(c) \/ CommitFirstAdmin(c)
             \/ \E v \in Users, admin \in BOOLEAN : CommitCreateUser(c, v, admin)
      PROVE  ~overlapped
    BY <1>2 DEF CommitSignInFailed, CommitSignIn, CommitStatus, CommitDeleteUser,
                CommitFirstAdmin, CommitCreateUser
<1>3. ASSUME NEW c \in Clients,
             \/ CommitUpdateUser(c) \/ CommitReset(c) \/ CommitForgotten(c)
             \/ CommitChangePassword(c)
      PROVE  ~overlapped
    BY <1>3 DEF CommitUpdateUser, CommitReset, CommitForgotten, CommitChangePassword,
                CommitNewPassword
<1>4. ASSUME (\E v \in Users : LockoutEnds(v)) \/ (\E s \in Sessions : Logout(s))
      PROVE  ~overlapped
    BY <1>4 DEF LockoutEnds, Logout
<1> QED BY <1>1, <1>2, <1>3, <1>4 DEF Next

\* Alone, a request reads what it is to rely on.
LEMMA ReadsAlone ==
    ASSUME SerialIInv, ~overlapped', NEW c \in Clients,
           \/ \E u \in Users : LoadFirstAdmin(c, u) \/ LoadForgotten(c, u)
           \/ \E u \in Users, right \in BOOLEAN : LoadSignIn(c, u, right)
           \/ \E op \in Ops, u \in Users : LoadAccount(c, op, u)
           \/ \E s \in Sessions : Resolve(c, s)
           \/ Enter(c) \/ EndWithoutCommit(c)
    PROVE  SerialInv' /\ LiveSessionsCurrent' /\ AdminRemains'
<1> USE AccountsAssumption
<1> DEFINE Good == SerialInv' /\ LiveSessionsCurrent' /\ AdminRemains'
<1>1. /\ req \in [Clients -> Requests] /\ user \in [Users -> UserRows]
      /\ session \in [Sessions -> SessionRows]
      /\ TypeOK /\ SerialInv /\ LiveSessionsCurrent /\ AdminRemains
    BY DEF SerialIInv, IInv, TypeOK
<1>2. ASSUME NEW u \in Users, NEW op \in Anonymous, NEW right \in BOOLEAN,
             Begin(c, AnonymousCall(op, u, right)), UNCHANGED <<user, session, setups>>,
             op = "sign_in" => user[u].status = "active"
      PROVE  Good
  <2> DEFINE q == AnonymousCall(op, u, right)
  <2>1. q \in Requests
      BY <1>1 DEF AnonymousCall, Requests, Idle, Ops, Anonymous
  <2>2. q.op = op /\ q.stage = "loaded" /\ q.target = u /\ q.stale = FALSE
      BY DEF AnonymousCall, Idle
  <2>3. req'[c] = q
      BY <1>1, <1>2 DEF Begin
  <2> HIDE DEF q
  <2>4. Fresh(c)'
      BY <1>2, <2>2, <2>3 DEF Fresh, Anonymous
  <2> QED BY <1>1, <1>2, <2>1, <2>4, BeginsAlone DEF q
<1>3. ASSUME NEW u \in Users, LoadFirstAdmin(c, u) \/ LoadForgotten(c, u) PROVE Good
    BY <1>2, <1>3 DEF LoadFirstAdmin, LoadForgotten, Anonymous
<1>4. ASSUME NEW u \in Users, NEW right \in BOOLEAN, LoadSignIn(c, u, right) PROVE Good
    BY <1>2, <1>4 DEF LoadSignIn, Anonymous
<1>5. ASSUME NEW s \in Sessions, Resolve(c, s) PROVE Good
  <2> DEFINE q == [Idle EXCEPT !.stage = "resolved", !.session = s,
                               !.was = user[session[s].user]]
  <2>1. session[s].user \in Users /\ user[session[s].user].status = "active"
      BY <1>1, <1>5 DEF Resolve, SessionRows, NoUser
  <2>2. q \in Requests
      BY <1>1, <2>1 DEF Requests, Idle, Ops
  <2>3. /\ q.op = "none" /\ q.stage = "resolved" /\ q.session = s
        /\ q.was = user[session[s].user]
      BY DEF Idle
  <2>4. Begin(c, q) /\ UNCHANGED <<user, session, setups>>
      BY <1>5 DEF Resolve
  <2>5. req'[c] = q
      BY <1>1, <2>4 DEF Begin
  <2> HIDE DEF q
  <2>6. Fresh(c)'
      BY <2>1, <2>3, <2>4, <2>5 DEF Fresh
  <2> QED BY <1>1, <2>2, <2>4, <2>6, BeginsAlone
<1>6. ASSUME Enter(c) PROVE Good
  <2> DEFINE q == [req[c] EXCEPT !.stage = "entered"]
  <2>1. /\ req[c] \in Requests /\ req[c].stage = "resolved" /\ Busy(c) /\ ~overlapped
        /\ UNCHANGED <<user, session, setups, overlapped>>
      BY <1>1, <1>6 DEF Enter, Busy
  <2>2. q \in Requests /\ req[c].op = "none"
      BY <2>1 DEF Requests, Ops, Anonymous, AdminOps, StatusOps
  <2>3. req' = [req EXCEPT ![c] = q] /\ req'[c] = q
      BY <1>1, <1>6, <2>1 DEF Enter, Requests
  <2>4. q.op = "none" /\ q.session = req[c].session /\ q.was = req[c].was
      BY <2>1, <2>2 DEF Requests
  <2> HIDE DEF q
  <2>5. Fresh(c)
      BY <1>1, <2>1 DEF SerialInv
  <2>6. Fresh(c)'
      BY <2>1, <2>3, <2>4, <2>5 DEF Fresh
  <2> QED BY <1>1, <2>1, <2>2, <2>3, <2>6, WorksAlone
<1>7. ASSUME NEW op \in Ops, NEW u \in Users, LoadAccount(c, op, u) PROVE Good
  <2> DEFINE own == u = session[req[c].session].user
             q == [req[c] EXCEPT !.op = op, !.stage = "loaded", !.target = u,
                       !.was = IF own THEN @ ELSE user[u]]
  <2>1. /\ req[c] \in Requests /\ req[c].stage = "entered" /\ Busy(c) /\ ~overlapped
        /\ UNCHANGED <<user, session, setups, overlapped>>
      BY <1>1, <1>7 DEF LoadAccount, Busy
  <2>2. q \in Requests
      BY <1>1, <2>1 DEF Requests
  <2>3. req' = [req EXCEPT ![c] = q] /\ req'[c] = q
      BY <1>1, <1>7 DEF LoadAccount, Requests
  <2>4. /\ q.op = op /\ q.stage = "loaded" /\ q.target = u
        /\ q.session = req[c].session
      BY <2>1 DEF Requests
  <2>5. op # "sign_in" /\ (op \in AdminOps => Administers(req[c]))
      BY <1>7 DEF LoadAccount, AdminOps, StatusOps
  <2>6. MayTarget(op, own, user[u])
      BY <1>7 DEF LoadAccount
  <2> HIDE DEF q
  <2>7. Fresh(c)
      BY <1>1, <2>1 DEF SerialInv
  <2>8. Fresh(c)'
      BY <2>1, <2>3, <2>4, <2>5, <2>6, <2>7
         DEF Fresh, MayTarget, Administers, AdminOps, StatusOps
  <2> QED BY <1>1, <2>1, <2>2, <2>3, <2>8, WorksAlone
<1>8. ASSUME EndWithoutCommit(c) PROVE Good
  <2>1. Idle \in Requests
      BY DEF Idle, Requests, NoUser, UserRows
  <2>2. /\ Busy(c) /\ req' = [req EXCEPT ![c] = Idle]
        /\ UNCHANGED <<user, session, setups, overlapped>>
      BY <1>8 DEF EndWithoutCommit, End, Busy
  <2> QED BY <1>1, <2>1, <2>2, WorksAlone
<1> HIDE DEF Good
<1>9. Good
    BY <1>3, <1>4, <1>5, <1>6, <1>7, <1>8
<1> QED BY <1>9 DEF Good

\* A commit that leaves status and role of all accounts, and the live sessions
\* of active accounts with their present password.
LEMMA RightsKept ==
    ASSUME LiveSessionsCurrent, AdminRemains, ~overlapped, setups' = setups,
           \A v \in Users : user'[v].status = user[v].status /\ user'[v].admin = user[v].admin,
           \A s \in Sessions : session'[s].state = "live" =>
               /\ session'[s].user \in Users /\ ~session'[s].stale
               /\ user[session'[s].user].status = "active"
    PROVE  LiveSessionsCurrent' /\ AdminRemains'
BY DEF LiveSessionsCurrent, AdminRemains

\* Alone, a commit takes away the sessions it must, and leaves an administrator.
LEMMA CommitsAlone ==
    ASSUME SerialIInv, ~overlapped, NEW c \in Clients,
           \/ CommitFirstAdmin(c)
           \/ CommitSignInFailed(c) \/ CommitSignIn(c) \/ CommitStatus(c)
           \/ CommitUpdateUser(c) \/ CommitReset(c) \/ CommitForgotten(c)
           \/ CommitChangePassword(c) \/ CommitDeleteUser(c)
           \/ \E u \in Users, admin \in BOOLEAN : CommitCreateUser(c, u, admin)
    PROVE  LiveSessionsCurrent' /\ AdminRemains'
<1> USE AccountsAssumption
<1> DEFINE Good == LiveSessionsCurrent' /\ AdminRemains'
           q == req[c]
<1>1. /\ req \in [Clients -> Requests] /\ user \in [Users -> UserRows]
      /\ session \in [Sessions -> SessionRows]
      /\ TypeOK /\ SerialInv /\ LiveSessionsCurrent /\ AdminRemains
    BY DEF SerialIInv, IInv, TypeOK
<1>2. q \in Requests /\ (q.op # "none" => q.target \in Users /\ Busy(c))
    BY <1>1, CommitsBusy
<1>3. Busy(c) => Fresh(c)
    BY <1>1 DEF SerialInv
<1>4. \A s \in Sessions : session[s].state = "live" =>
          session[s].user \in Users /\ ~session[s].stale /\ user[session[s].user].status = "active"
  <2>1. \A s \in Sessions : session[s].state = "live" => session[s].user \in Users
      BY <1>1 DEF SessionRows
  <2> QED BY <1>1, <2>1 DEF LiveSessionsCurrent
<1>5. ASSUME CommitFirstAdmin(c) PROVE Good
  <2>1. /\ q.target \in Users /\ user' = [user EXCEPT ![q.target] = NewUser(TRUE)]
        /\ session' = session
      BY <1>2, <1>5 DEF CommitFirstAdmin
  <2>2. NewUser(TRUE).status = "active" /\ NewUser(TRUE).admin
      BY DEF NewUser, NoUser
  <2>3. user'[q.target].status = "active" /\ user'[q.target].admin
      BY <1>1, <2>1, <2>2
  <2>4. LiveSessionsCurrent'
      BY <1>1, <1>4, <2>1, <2>2 DEF LiveSessionsCurrent
  <2> QED BY <2>1, <2>3, <2>4 DEF AdminRemains
<1>6. ASSUME CommitSignInFailed(c) PROVE Good
  <2>1. \A v \in Users : user'[v].status = user[v].status /\ user'[v].admin = user[v].admin
      BY <1>1, <1>2, <1>6 DEF CommitSignInFailed, UserRows
  <2>2. UNCHANGED <<session, setups>>
      BY <1>6 DEF CommitSignInFailed
  <2> QED BY <1>1, <1>4, <2>1, <2>2, RightsKept
<1>7. ASSUME CommitSignIn(c) PROVE Good
  <2>1. \A v \in Users : user'[v].status = user[v].status /\ user'[v].admin = user[v].admin
      BY <1>1, <1>2, <1>7 DEF CommitSignIn, UserRows
  <2>2. PICK s \in Sessions : session' = [session EXCEPT ![s] =
                                [state |-> "live", user |-> q.target, stale |-> q.stale]]
      BY <1>7 DEF CommitSignIn
  <2>3. q.op = "sign_in" /\ setups' = setups
      BY <1>7 DEF CommitSignIn
  <2>4. user[q.target].status = "active" /\ ~q.stale /\ q.target \in Users
      BY <1>2, <1>3, <2>3 DEF Fresh
  <2>5. \A x \in Sessions : session'[x].state = "live" =>
            /\ session'[x].user \in Users /\ ~session'[x].stale
            /\ user[session'[x].user].status = "active"
      BY <1>1, <1>4, <2>2, <2>4
  <2> QED BY <1>1, <2>1, <2>3, <2>5, RightsKept
<1>8. ASSUME CommitStatus(c) PROVE Good
  <2> DEFINE status == IF q.op = "enable" THEN "active" ELSE "disabled"
             out == IF q.op = "enable" THEN {} ELSE LiveOf(q.target, "none")
  <2>1. q.op \in StatusOps /\ q.target \in Users /\ Busy(c) /\ Fresh(c)
      BY <1>2, <1>3, <1>8 DEF CommitStatus, StatusOps
  <2>2. /\ session' = [s \in Sessions |->
                          IF s \in out THEN RevokedSession(q.target) ELSE session[s]]
        /\ setups' = setups
        /\ user' = [user EXCEPT ![q.target].status = Written(q.was.status, status, @)]
      BY <1>8 DEF CommitStatus
  <2>3. /\ \A v \in Users : user'[v].admin = user[v].admin
        /\ \A v \in Users \ {q.target} : user'[v].status = user[v].status
        /\ user'[q.target].status \in {status, user[q.target].status}
      BY <1>1, <2>1, <2>2 DEF Written, UserRows
  <2>4. \A s \in Sessions : session'[s].state = "live" => s \notin out /\ session'[s] = session[s]
      BY <2>2 DEF RevokedSession
  <2>5. CASE q.op = "enable"
    <3>1. \A v \in Users : user[v].status = "active" => user'[v].status = "active"
        BY <2>3, <2>5
    <3>2. LiveSessionsCurrent'
        BY <1>4, <2>4, <3>1 DEF LiveSessionsCurrent
    <3> QED BY <1>1, <2>2, <2>3, <3>1, <3>2 DEF AdminRemains
  <2>6. CASE q.op = "disable"
    <3>1. out = LiveOf(q.target, "none")
        BY <2>6
    <3>2. \A s \in Sessions : session'[s].state = "live" => session[s].user # q.target
        BY <1>1, <2>4, <3>1 DEF LiveOf
    <3>3. LiveSessionsCurrent'
        BY <1>4, <2>3, <2>4, <3>2 DEF LiveSessionsCurrent
    <3>4. PICK u \in Users : user[u].status = "active" /\ user[u].admin /\ u # q.target
        BY <2>1, <2>6 DEF Fresh
    <3>5. user'[u].status = "active" /\ user'[u].admin
        BY <2>3, <3>4
    <3> QED BY <3>3, <3>5 DEF AdminRemains
  <2> QED BY <2>1, <2>5, <2>6 DEF StatusOps
<1>9. ASSUME NEW kept, NEW row, CommitNewPassword(c, kept, row), q.op # "none",
             row.status = user[q.target].status, row.admin = user[q.target].admin
      PROVE  Good
  <2> DEFINE out == LiveOf(q.target, kept)
  <2>1. /\ user' = [user EXCEPT ![q.target] = row] /\ setups' = setups
        /\ session' = [s \in Sessions |->
              IF session[s].user # q.target THEN session[s]
              ELSE IF s \in out THEN RevokedSession(q.target)
              ELSE [session[s] EXCEPT !.stale = FALSE]]
      BY <1>9 DEF CommitNewPassword
  <2>2. \A v \in Users : user'[v].status = user[v].status /\ user'[v].admin = user[v].admin
      BY <1>1, <1>2, <1>9, <2>1
  <2>3. ASSUME NEW s \in Sessions, session'[s].state = "live"
        PROVE  /\ session'[s].user = session[s].user /\ session[s].state = "live"
               /\ ~session'[s].stale
    <3>1. CASE session[s].user # q.target
        BY <1>4, <2>1, <2>3, <3>1
    <3>2. CASE session[s].user = q.target /\ s \in out
        BY <2>1, <2>3, <3>2 DEF RevokedSession
    <3>3. CASE session[s].user = q.target /\ s \notin out
      <4>1. session'[s] = [session[s] EXCEPT !.stale = FALSE] /\ session[s] \in SessionRows
          BY <1>1, <2>1, <3>3
      <4> QED BY <2>3, <4>1 DEF SessionRows
    <3> QED BY <3>1, <3>2, <3>3
  <2> QED BY <1>1, <1>4, <2>1, <2>2, <2>3, RightsKept
<1>10. ASSUME CommitUpdateUser(c) \/ CommitReset(c) \/ CommitForgotten(c) PROVE Good
  <2>1. q.op # "none"
      BY <1>10 DEF CommitUpdateUser, CommitReset, CommitForgotten
  <2>2. \A must \in BOOLEAN : /\ Unlocked(q, must).status = user[q.target].status
                              /\ Unlocked(q, must).admin = user[q.target].admin
      BY <1>1, <1>2, <2>1, RowsWritten
  <2> QED BY <1>9, <1>10, <2>1, <2>2 DEF CommitUpdateUser, CommitReset, CommitForgotten
<1>11. ASSUME CommitChangePassword(c) PROVE Good
  <2> DEFINE row == [user[q.target] EXCEPT !.must = Written(q.was.must, FALSE, @)]
  <2>1. q.op # "none" /\ CommitNewPassword(c, q.session, row)
      BY <1>11 DEF CommitChangePassword
  <2>2. row.status = user[q.target].status /\ row.admin = user[q.target].admin
      BY <1>1, <1>2, <2>1 DEF UserRows
  <2> HIDE DEF row
  <2> QED BY <1>9, <2>1, <2>2
<1>12. ASSUME CommitDeleteUser(c) PROVE Good
  <2>1. /\ q.op = "delete" /\ setups' = setups
        /\ user' = [user EXCEPT ![q.target] = DeletedUser]
        /\ session' = [s \in Sessions |->
              IF session[s].user = q.target THEN DeletedSession ELSE session[s]]
      BY <1>12 DEF CommitDeleteUser
  <2>2. q.target \in Users /\ ~user[q.target].admin
      BY <1>2, <1>3, <2>1 DEF Fresh
  <2>3. \A v \in Users \ {q.target} : user'[v] = user[v]
      BY <1>1, <2>1
  <2>4. \A s \in Sessions : session'[s].state = "live"
            => session'[s] = session[s] /\ session[s].user # q.target
      BY <2>1 DEF DeletedSession, NoSession
  <2>5. LiveSessionsCurrent'
      BY <1>4, <2>3, <2>4 DEF LiveSessionsCurrent
  <2>6. ASSUME NEW u \in Users, user[u].status = "active", user[u].admin
        PROVE  user'[u].status = "active" /\ user'[u].admin
      BY <2>2, <2>3, <2>6
  <2> QED BY <1>1, <2>1, <2>5, <2>6 DEF AdminRemains
<1>13. ASSUME NEW u \in Users, NEW admin \in BOOLEAN, CommitCreateUser(c, u, admin) PROVE Good
  <2>1. /\ user[u].status = "absent" /\ UNCHANGED <<session, setups>>
        /\ user' = [user EXCEPT ![u] = NewUser(admin)]
      BY <1>13 DEF CommitCreateUser
  <2>2. \A v \in Users : user[v].status = "active" => user'[v] = user[v]
      BY <1>1, <2>1
  <2>3. LiveSessionsCurrent'
      BY <1>4, <2>1, <2>2 DEF LiveSessionsCurrent
  <2> QED BY <1>1, <2>1, <2>2, <2>3 DEF AdminRemains
<1> HIDE DEF Good
<1>14. Good
    BY <1>5, <1>6, <1>7, <1>8, <1>10, <1>11, <1>12, <1>13
<1> QED BY <1>14 DEF Good

\* The commit ends the one request in flight.
LEMMA CommitsEnd ==
    ASSUME TypeOK, SerialInv, ~overlapped, NEW c \in Clients,
           \/ CommitFirstAdmin(c)
           \/ CommitSignInFailed(c) \/ CommitSignIn(c) \/ CommitStatus(c)
           \/ CommitUpdateUser(c) \/ CommitReset(c) \/ CommitForgotten(c)
           \/ CommitChangePassword(c) \/ CommitDeleteUser(c)
           \/ \E u \in Users, admin \in BOOLEAN : CommitCreateUser(c, u, admin)
    PROVE  SerialInv'
<1>1. req \in [Clients -> Requests]
    BY DEF TypeOK
<1>2. Idle \in Requests
    BY AccountsAssumption DEF Idle, Requests, NoUser, UserRows
<1>3. Busy(c)
  <2>1. req[c].op # "none" \/ req[c].stage = "entered"
      BY DEF CommitFirstAdmin, CommitSignInFailed, CommitSignIn, CommitStatus, StatusOps,
             CommitUpdateUser, CommitReset, CommitForgotten, CommitChangePassword,
             CommitDeleteUser, CommitCreateUser
  <2> QED BY <2>1, CommitsBusy
<1>4. CASE req' = [req EXCEPT ![c] = Idle]
    BY <1>1, <1>3, <1>4, EndsAlone
<1>5. CASE CommitUpdateUser(c) \/ CommitReset(c) \/ CommitForgotten(c)
             \/ CommitChangePassword(c)
  <2>1. req[c].target \in Users
      BY <1>5, CommitsBusy DEF CommitUpdateUser, CommitReset, CommitForgotten,
            CommitChangePassword
  <2>2. PICK rest : rest = [req EXCEPT ![c] = Idle]
      OBVIOUS
  <2>3. rest \in [Clients -> Requests] /\ rest[c] = Idle
        /\ \A d \in Clients : d # c => rest[d] = req[d]
      BY <1>1, <1>2, <2>2
  <2>4. req' = Outdated(req[c].target, rest)
      BY <1>5, <2>2 DEF CommitUpdateUser, CommitReset, CommitForgotten,
            CommitChangePassword, CommitNewPassword
  <2>5. req'[c] = Idle /\ \A d \in Clients : d # c => req'[d].stage = req[d].stage
      BY <2>1, <2>3, <2>4, OutdatedRequests
  <2> QED BY <1>3, <2>5, EndsAlone
<1>6. CommitFirstAdmin(c) \/ CommitSignInFailed(c) \/ CommitSignIn(c) \/ CommitStatus(c)
        \/ CommitDeleteUser(c) \/ (\E u \in Users, admin \in BOOLEAN : CommitCreateUser(c, u, admin))
        => req' = [req EXCEPT ![c] = Idle]
    BY DEF CommitFirstAdmin, CommitSignInFailed, CommitSignIn, CommitStatus,
           CommitDeleteUser, CommitCreateUser, End
<1> QED BY <1>4, <1>5, <1>6

\* Time and logout do not overlap with anything, and touch no rights.
LEMMA OutsideAlone ==
    ASSUME SerialIInv, ~overlapped,
           (\E u \in Users : LockoutEnds(u)) \/ (\E s \in Sessions : Logout(s))
    PROVE  SerialInv' /\ LiveSessionsCurrent' /\ AdminRemains'
<1>1. /\ req \in [Clients -> Requests] /\ user \in [Users -> UserRows]
      /\ session \in [Sessions -> SessionRows]
      /\ TypeOK /\ SerialInv /\ LiveSessionsCurrent /\ AdminRemains
    BY DEF SerialIInv, IInv, TypeOK
<1>2. UNCHANGED <<req, setups, overlapped>>
    BY DEF LockoutEnds, Logout
<1>3. \A v \in Users : user'[v].status = user[v].status /\ user'[v].admin = user[v].admin
    BY <1>1 DEF LockoutEnds, Logout, UserRows
<1>4. \A s \in Sessions : /\ session'[s].user = session[s].user
                          /\ session'[s].state = "live" => session'[s] = session[s]
    BY <1>1 DEF LockoutEnds, Logout, RevokedSession
<1>5. \A s \in Sessions : session[s].state = "live" => session[s].user \in Users
    BY <1>1, AccountsAssumption DEF SessionRows
<1>6. LiveSessionsCurrent' /\ AdminRemains'
  <2>1. \A s \in Sessions : session'[s].state = "live" =>
            /\ session'[s].user \in Users /\ ~session'[s].stale
            /\ user[session'[s].user].status = "active"
      BY <1>1, <1>4, <1>5 DEF LiveSessionsCurrent
  <2> QED BY <1>1, <1>2, <1>3, <2>1, RightsKept
<1>7. ASSUME NEW c \in Clients, Busy(c)' PROVE Fresh(c)'
  <2>1. Busy(c) /\ req'[c] = req[c]
      BY <1>2, <1>7 DEF Busy
  <2>2. Fresh(c)
      BY <1>1, <2>1 DEF SerialInv
  <2>3. req[c].op # "none" => req[c].target \in Users
      BY <1>1, CommitsBusy
  <2> QED BY <1>3, <1>4, <2>1, <2>2, <2>3 DEF Fresh
<1>8. SerialInv'
    BY <1>1, <1>2, <1>7 DEF SerialInv, Busy
<1> QED BY <1>6, <1>8

\* With one request at a time, sessions and administrators stay as they should.
LEMMA SerialInvariance == Spec => []SerialIInv
<1>1. Init => SerialIInv
  <2> SUFFICES ASSUME Init PROVE SerialIInv
      OBVIOUS
  <2>1. \A c \in Clients : ~Busy(c)
      BY DEF Init, Busy, Idle
  <2>2. LiveSessionsCurrent /\ AdminRemains
      BY DEF Init, LiveSessionsCurrent, AdminRemains, NoSession
  <2> QED BY <2>1, <2>2, InitIInv DEF SerialIInv, SerialInv
<1>2. IInv /\ IInv' /\ SerialIInv /\ [Next]_vars => SerialIInv'
  <2> SUFFICES ASSUME IInv', SerialIInv, [Next]_vars PROVE SerialIInv'
      OBVIOUS
  <2>1. CASE overlapped'
      BY <2>1 DEF SerialIInv, SerialInv, LiveSessionsCurrent, AdminRemains
  <2>2. CASE Next /\ ~overlapped'
    <3>1. ~overlapped
        BY <2>2, OverlapStays
    <3>2. TypeOK /\ SerialInv
        BY DEF SerialIInv, IInv
    <3>3. SerialInv' /\ LiveSessionsCurrent' /\ AdminRemains'
        BY <2>2, <3>1, <3>2, ReadsAlone, CommitsAlone, CommitsEnd, OutsideAlone DEF Next
    <3> QED BY <3>3 DEF SerialIInv
  <2>3. CASE UNCHANGED vars
      BY <2>3 DEF vars, SerialIInv, SerialInv, Busy, Fresh, LiveSessionsCurrent, AdminRemains
  <2> QED BY <2>1, <2>2, <2>3
<1> QED BY <1>1, <1>2, Invariance, PTL DEF Spec

(* With one request at a time, a live session belongs to an active account  *)
(* and was opened with its present password.                                *)
THEOREM SessionsCurrent == Spec => []LiveSessionsCurrent
<1>1. SerialIInv => LiveSessionsCurrent
    BY DEF SerialIInv
<1> QED BY <1>1, SerialInvariance, PTL

(* With one request at a time, the last active administrator stays: nobody  *)
(* disables the own account, and administrators are not deleted.            *)
THEOREM AnAdminRemains == Spec => []AdminRemains
<1>1. SerialIInv => AdminRemains
    BY DEF SerialIInv
<1> QED BY <1>1, SerialInvariance, PTL
=============================================================================
