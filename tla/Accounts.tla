------------------------------ MODULE Accounts ------------------------------
(***************************************************************************)
(* User accounts and their sign-in sessions: backend/app/domain/auth.py    *)
(* with the session check every request passes (api/deps.py), in one       *)
(* PostgreSQL database at READ COMMITTED.                                  *)
(*                                                                         *)
(* A signed-in request resolves its session with plain SELECTs, and then   *)
(* writes last_seen_at.  The next query flushes that UPDATE, so from then  *)
(* on the request keeps the row of its session locked until it ends.  A    *)
(* handler that takes rights away revokes the sessions of the account, and *)
(* so waits for the requests that have them locked.  Its statements are    *)
(* one step, its commit: what it has written before is locked, and nobody  *)
(* sees it.  Requests that wait for each other are ended by PostgreSQL.    *)
(*                                                                         *)
(* A password is right or wrong for the account as it was read.  A session *)
(* is `stale' once the password it was opened with is no longer that of    *)
(* its account.  A session that expires is one that no request begins with *)
(* any more, and needs no action.  Reset tokens are not modelled: no code  *)
(* creates one.                                                            *)
(***************************************************************************)
EXTENDS Naturals, FiniteSets

CONSTANTS
    Clients,     \* requests that may be in flight at the same time
    Users,       \* account row ids
    Sessions,    \* session row ids
    Threshold    \* settings.failed_login_threshold

ASSUME AccountsAssumption ==
    /\ Threshold \in Nat \ {0}
    /\ "none" \notin Users \cup Sessions

VARIABLES
    user,       \* user -> the columns of its row that matter here
    session,    \* session -> its row
    req,        \* client -> the request it has in flight
    setups,     \* how often initial setup succeeded
    overlapped  \* two requests have been in flight together

vars == <<user, session, req, setups, overlapped>>

-----------------------------------------------------------------------------
\* `lock' is locked_until: none, in the past, or in the future.
UserRows == [status : {"absent", "active", "disabled", "deleted"}, admin : BOOLEAN,
             must : BOOLEAN, failed : 0..Threshold - 1,
             lock : {"none", "past", "until"}]
NoUser == [status |-> "absent", admin |-> FALSE, must |-> FALSE,
           failed |-> 0, lock |-> "none"]
NewUser(admin) == [NoUser EXCEPT !.status = "active", !.admin = admin]
DeletedUser == [NoUser EXCEPT !.status = "deleted"]

SessionRows == [state : {"absent", "deleted"}, user : {"none"}, stale : {FALSE}]
                 \cup [state : {"live", "revoked"}, user : Users, stale : BOOLEAN]
NoSession == [state |-> "absent", user |-> "none", stale |-> FALSE]
DeletedSession == [NoSession EXCEPT !.state = "deleted"]
RevokedSession(u) == [state |-> "revoked", user |-> u, stale |-> FALSE]

\* `was' is the account as the request has it in memory: that of its caller
\* first, that of its target once it is `loaded'.
Anonymous == {"setup", "sign_in", "forgot"}
StatusOps == {"enable", "disable"}
AdminOps == StatusOps \cup {"set_password", "reset", "delete"}
Ops == Anonymous \cup AdminOps \cup {"change_password"}

Requests == [op : {"none"}, stage : {"idle", "resolved", "entered"},
             session : Sessions \cup {"none"}, target : {"none"},
             was : UserRows, right : {FALSE}, stale : {FALSE}]
            \cup [op : Ops, stage : {"loaded"},
                  session : Sessions \cup {"none"}, target : Users,
                  was : UserRows, right : BOOLEAN, stale : BOOLEAN]
Idle == [op |-> "none", stage |-> "idle", session |-> "none", target |-> "none",
         was |-> NoUser, right |-> FALSE, stale |-> FALSE]

Init ==
    /\ user = [u \in Users |-> NoUser]
    /\ session = [s \in Sessions |-> NoSession]
    /\ req = [c \in Clients |-> Idle]
    /\ setups = 0
    /\ overlapped = FALSE

-----------------------------------------------------------------------------
Begin(c, q) ==
    /\ req[c].stage = "idle"
    /\ req' = [req EXCEPT ![c] = q]
    /\ overlapped' = (overlapped \/ \E d \in Clients : req[d].stage # "idle")

End(c) == req' = [req EXCEPT ![c] = Idle]

\* Row ids are not used again, so a request that holds one finds no other row.
Exists(u) == user[u].status \in {"active", "disabled"}

AnonymousCall(op, u, right) ==
    [Idle EXCEPT !.op = op, !.stage = "loaded", !.target = u,
                 !.was = user[u], !.right = right]

\* The caller's session is locked.
Entered(c) == req[c].session # "none" /\ req[c].stage \in {"entered", "loaded"}
LocksSession(c, s) == Entered(c) /\ req[c].session = s

\* Mutant: a session is revoked whoever has it locked.
FreeForEverybody(c, s) == TRUE

FreeFor(c, s) == \A d \in Clients \ {c} : ~LocksSession(d, s)

\* The live sessions of an account, the one that is kept excepted.
LiveOf(u, keep) ==
    {s \in Sessions \ {keep} : session[s].user = u /\ session[s].state = "live"}

\* An attribute is written if it differs from its loaded value.
Written(loaded, new, stored) == IF new = loaded THEN stored ELSE new

\* Mutant: the setup lock is not waited for.
LoadFirstAdminUnlocked(c, u) ==
    /\ \A v \in Users : ~Exists(v)
    /\ user[u].status = "absent"
    /\ Begin(c, AnonymousCall("setup", u, FALSE))
    /\ UNCHANGED <<user, session, setups>>

(* complete_setup and create_first_admin: the advisory lock is taken, the   *)
(* accounts are counted, and the lock is held until the commit.             *)
LoadFirstAdmin(c, u) ==
    /\ \A d \in Clients : req[d].op # "setup"
    /\ \A v \in Users : ~Exists(v)
    /\ user[u].status = "absent"
    /\ Begin(c, AnonymousCall("setup", u, FALSE))
    /\ UNCHANGED <<user, session, setups>>

CommitFirstAdmin(c) ==
    /\ req[c].op = "setup"
    /\ user[req[c].target].status = "absent"
    /\ user' = [user EXCEPT ![req[c].target] = NewUser(TRUE)]
    /\ setups' = setups + 1
    /\ End(c)
    /\ UNCHANGED <<session, overlapped>>

(* authenticate.  A session is inserted for the account that was read; its  *)
(* foreign key only asks that the account still exists.                     *)
LoadSignIn(c, u, right) ==
    /\ user[u].status = "active" /\ user[u].lock # "until"
    /\ Begin(c, AnonymousCall("sign_in", u, right))
    /\ UNCHANGED <<user, session, setups>>

CommitSignInFailed(c) ==
    LET q == req[c]
        count == q.was.failed + 1
        full == count >= Threshold
    IN  /\ q.op = "sign_in" /\ ~q.right
        /\ Exists(q.target)
        /\ user' = [user EXCEPT
              ![q.target].failed = Written(q.was.failed, IF full THEN 0 ELSE count, @),
              ![q.target].lock = IF full THEN "until" ELSE @]
        /\ End(c)
        /\ UNCHANGED <<session, setups, overlapped>>

CommitSignIn(c) ==
    LET q == req[c] IN
    /\ q.op = "sign_in" /\ q.right
    /\ Exists(q.target)
    /\ \E s \in Sessions :
          /\ session[s].state = "absent"
          /\ session' = [session EXCEPT ![s] =
                [state |-> "live", user |-> q.target, stale |-> q.stale]]
    /\ user' = [user EXCEPT ![q.target].failed = Written(q.was.failed, 0, @),
                            ![q.target].lock = Written(q.was.lock, "none", @)]
    /\ End(c)
    /\ UNCHANGED <<setups, overlapped>>

\* Time passes locked_until.
LockoutEnds(u) ==
    /\ user[u].lock = "until"
    /\ user' = [user EXCEPT ![u].lock = "past"]
    /\ UNCHANGED <<session, req, setups, overlapped>>

\* logout: the only handler that does not resolve its session.
Logout(s) ==
    /\ session[s].state = "live"
    /\ \A c \in Clients : ~LocksSession(c, s)
    /\ session' = [session EXCEPT ![s] = RevokedSession(session[s].user)]
    /\ UNCHANGED <<user, req, setups, overlapped>>

-----------------------------------------------------------------------------
(* current_actor: the session and its account are read.                     *)
Resolve(c, s) ==
    LET u == session[s].user IN
    /\ session[s].state = "live"
    /\ user[u].status = "active"
    /\ Begin(c, [Idle EXCEPT !.stage = "resolved", !.session = s, !.was = user[u]])
    /\ UNCHANGED <<user, session, setups>>

\* last_seen_at is flushed, which locks the session; it is not read again.
Enter(c) ==
    /\ req[c].stage = "resolved"
    /\ session[req[c].session].state # "deleted"
    /\ FreeFor(c, req[c].session)
    /\ req' = [req EXCEPT ![c].stage = "entered"]
    /\ UNCHANGED <<user, session, setups, overlapped>>

\* The caller's own copy of its row decides: an account that must change its
\* password does nothing else, and only administrators manage accounts.
Administers(q) == q.was.admin /\ ~q.was.must

\* Mutant: an administrator may disable the own account.
MayTargetAnyone(op, own, row) == op = "delete" => ~row.admin

\* Administrators are not deleted, and nobody deletes or disables themselves.
MayTarget(op, own, row) ==
    /\ op = "delete" => ~row.admin
    /\ op \in {"delete", "disable"} => ~own

(* The handler reads the account it is about; that of its caller it has     *)
(* already, as it was resolved.                                             *)
LoadAccount(c, op, u) ==
    LET q == req[c]
        own == u = session[q.session].user
    IN  /\ q.stage = "entered"
        /\ \/ op \in AdminOps /\ Administers(q)
           \/ op = "change_password" /\ own
        /\ Exists(u)
        /\ MayTarget(op, own, user[u])
        /\ req' = [req EXCEPT ![c].op = op, ![c].stage = "loaded", ![c].target = u,
                              ![c].was = IF own THEN @ ELSE user[u]]
        /\ UNCHANGED <<user, session, setups, overlapped>>

\* request_password_reset, with mail configured: not for administrators.
LoadForgotten(c, u) ==
    /\ user[u].status = "active" /\ ~user[u].admin
    /\ Begin(c, AnonymousCall("forgot", u, FALSE))
    /\ UNCHANGED <<user, session, setups>>

\* create_user, and provision_user for a project's administrator.
CommitCreateUser(c, u, admin) ==
    /\ req[c].stage = "entered" /\ Administers(req[c])
    /\ user[u].status = "absent"
    /\ user' = [user EXCEPT ![u] = NewUser(admin)]
    /\ End(c)
    /\ UNCHANGED <<session, setups, overlapped>>

\* set_user_status.
CommitStatus(c) ==
    LET q == req[c]
        status == IF q.op = "enable" THEN "active" ELSE "disabled"
        out == IF q.op = "enable" THEN {} ELSE LiveOf(q.target, "none")
    IN  /\ q.op \in StatusOps
        /\ Exists(q.target)
        /\ \A s \in out : FreeFor(c, s)
        /\ user' = [user EXCEPT ![q.target].status = Written(q.was.status, status, @)]
        /\ session' = [s \in Sessions |->
                          IF s \in out THEN RevokedSession(q.target) ELSE session[s]]
        /\ End(c)
        /\ UNCHANGED <<setups, overlapped>>

\* Requests that sign in with the password that is replaced.
Outdated(u, rest) ==
    [d \in Clients |-> IF rest[d].op = "sign_in" /\ rest[d].target = u /\ rest[d].right
                       THEN [rest[d] EXCEPT !.stale = TRUE] ELSE rest[d]]

\* Mutant: with a new password no session is revoked.
CommitNewPasswordAlone(c, kept, row) ==
    LET q == req[c] IN
    /\ Exists(q.target)
    /\ user' = [user EXCEPT ![q.target] = row]
    /\ session' = [s \in Sessions |->
          IF session[s].user = q.target /\ session[s].state = "live"
          THEN [session[s] EXCEPT !.stale = s # kept] ELSE session[s]]
    /\ req' = Outdated(q.target, [req EXCEPT ![c] = Idle])
    /\ UNCHANGED <<setups, overlapped>>

\* A new password: the live sessions of the account are revoked, except for the
\* one that is kept, which now stands for the new password.
CommitNewPassword(c, kept, row) ==
    LET q == req[c]
        out == LiveOf(q.target, kept)
    IN  /\ Exists(q.target)
        /\ \A s \in out : FreeFor(c, s)
        /\ user' = [user EXCEPT ![q.target] = row]
        /\ session' = [s \in Sessions |->
              IF session[s].user # q.target THEN session[s]
              ELSE IF s \in out THEN RevokedSession(q.target)
              ELSE [session[s] EXCEPT !.stale = FALSE]]
        /\ req' = Outdated(q.target, [req EXCEPT ![c] = Idle])
        /\ UNCHANGED <<setups, overlapped>>

\* The target unlocked, and to choose a password of its own or not.
Unlocked(q, must) ==
    [user[q.target] EXCEPT !.must = Written(q.was.must, must, @),
                           !.failed = Written(q.was.failed, 0, @),
                           !.lock = Written(q.was.lock, "none", @)]

\* update_user with a password; initiate_password_reset and
\* request_password_reset, with a temporary one.
CommitUpdateUser(c) ==
    /\ req[c].op = "set_password"
    /\ CommitNewPassword(c, "none", Unlocked(req[c], FALSE))

CommitReset(c) ==
    /\ req[c].op = "reset"
    /\ CommitNewPassword(c, "none", Unlocked(req[c], TRUE))

CommitForgotten(c) ==
    /\ req[c].op = "forgot"
    /\ CommitNewPassword(c, "none", Unlocked(req[c], TRUE))

\* change_own_password keeps the session it came with.
CommitChangePassword(c) ==
    LET q == req[c]
        row == user[q.target]
    IN  /\ q.op = "change_password"
        /\ CommitNewPassword(c, q.session,
              [row EXCEPT !.must = Written(q.was.must, FALSE, @)])

\* delete_user.
CommitDeleteUser(c) ==
    LET q == req[c]
        all == {s \in Sessions : session[s].user = q.target}
    IN  /\ q.op = "delete"
        /\ Exists(q.target)
        /\ \A s \in all : FreeFor(c, s)
        /\ user' = [user EXCEPT ![q.target] = DeletedUser]
        /\ session' = [s \in Sessions |-> IF s \in all THEN DeletedSession ELSE session[s]]
        /\ End(c)
        /\ UNCHANGED <<setups, overlapped>>

\* A request only read, is refused by a check of its handler, finds its rows
\* gone, waits in a circle or loses its connection: it leaves nothing behind.
EndWithoutCommit(c) ==
    /\ req[c].stage # "idle"
    /\ End(c)
    /\ UNCHANGED <<user, session, setups, overlapped>>

Next ==
    \/ \E c \in Clients :
          \/ \E u \in Users :
                \/ LoadFirstAdmin(c, u)
                \/ LoadForgotten(c, u)
                \/ \E right \in BOOLEAN : LoadSignIn(c, u, right)
                \/ \E op \in Ops : LoadAccount(c, op, u)
                \/ \E admin \in BOOLEAN : CommitCreateUser(c, u, admin)
          \/ \E s \in Sessions : Resolve(c, s)
          \/ CommitFirstAdmin(c)
          \/ CommitSignInFailed(c)
          \/ CommitSignIn(c)
          \/ Enter(c)
          \/ CommitStatus(c)
          \/ CommitUpdateUser(c) \/ CommitReset(c) \/ CommitForgotten(c)
          \/ CommitChangePassword(c)
          \/ CommitDeleteUser(c)
          \/ EndWithoutCommit(c)
    \/ \E u \in Users : LockoutEnds(u)
    \/ \E s \in Sessions : Logout(s)

Spec == Init /\ [][Next]_vars

-----------------------------------------------------------------------------
TypeOK ==
    /\ user \in [Users -> UserRows]
    /\ session \in [Sessions -> SessionRows]
    /\ req \in [Clients -> Requests]
    /\ setups \in Nat
    /\ overlapped \in BOOLEAN

\* An administrator nobody is about to delete.
Stays(u) ==
    /\ Exists(u) /\ user[u].admin
    /\ \A c \in Clients : req[c].op = "delete" => req[c].target # u

(* Initial setup succeeds once, however many calls race (the advisory lock  *)
(* of _lock_setup): before it there is nothing, after it there is always an *)
(* account, because administrators are never deleted.                       *)
OneFirstAdmin ==
    /\ \/ setups = 1 /\ \E u \in Users : Stays(u)
       \/ /\ setups = 0
          /\ \A u \in Users : user[u] = NoUser
          /\ \A s \in Sessions : session[s] = NoSession
          /\ \A c \in Clients : req[c] = Idle \/ req[c].op = "setup"
    /\ \A c \in Clients : req[c].op = "setup" => setups = 0 /\ req[c].session = "none"
    /\ \A c, d \in Clients : req[c].op = "setup" /\ req[d].op = "setup" => c = d

(* Requests of one session work one after the other: the write of           *)
(* last_seen_at makes the second wait for the first.                        *)
SessionsSerialised ==
    \A c, d \in Clients :
        Entered(c) /\ Entered(d) /\ req[c].session = req[d].session => c = d

\* The inductive invariant: what the proofs need of the rows and the locks.
IInv == TypeOK /\ OneFirstAdmin /\ SessionsSerialised

(* While a request works under a live session of an active account, nobody  *)
(* else revokes the session, or disables or deletes the account: disabling, *)
(* resets, password changes, deletion and logout wait until it ends.        *)
ActingUndisturbed ==
    [][\A c \in Clients, s \in Sessions :
          LET u == session[s].user IN
          /\ LocksSession(c, s) /\ LocksSession(c, s)'
          /\ session[s].state = "live" /\ user[u].status = "active"
          => session'[s].state = "live" /\ user'[u].status = "active"]_vars

(* With one request at a time, a live session belongs to an active account  *)
(* and was opened with its present password: every handler that disables an *)
(* account or replaces its password revokes the sessions it must.           *)
LiveSessionsCurrent ==
    ~overlapped =>
        \A s \in Sessions : session[s].state = "live" =>
            user[session[s].user].status = "active" /\ ~session[s].stale

(* With one request at a time, an instance that was set up never loses its  *)
(* last active administrator, whom nobody could restore through the API.    *)
AdminRemains ==
    ~overlapped /\ setups > 0 =>
        \E u \in Users : user[u].status = "active" /\ user[u].admin
=============================================================================
