------------------------------ MODULE Projects ------------------------------
(***************************************************************************)
(* Projects, their members, requests for access, and the counters that     *)
(* readable keys are minted from: backend/app/domain/projects.py,          *)
(* access.py and keys.py, in one PostgreSQL database at READ COMMITTED.    *)
(*                                                                         *)
(* A request loads and checks its rows in one action, and writes them at   *)
(* its commit in another.  Nothing it has read is locked, the counter of   *)
(* next_key excepted: its row is locked until the commit.  What the commit *)
(* still meets are the constraints of models.py: unique keys, one row for  *)
(* a project, a user and a status, and the foreign keys to the project.  A *)
(* commit they refuse has no effect, so it is Refused.                     *)
(*                                                                         *)
(* A project's `artefacts' are the rows with a key of one entity type; a   *)
(* key is the key of the project with a number.  Creating one stands for   *)
(* the create operation of any type, deleting one for those types that     *)
(* have it.  The version of a project only refuses calls and is left out,  *)
(* as are its name, reference values, and accounts that are disabled.      *)
(***************************************************************************)
EXTENDS Naturals, FiniteSets

CONSTANTS
    Clients,      \* requests that may be in flight at the same time
    Users,        \* account ids
    SysAdmins,    \* those with is_system_admin
    Projects,     \* project row ids
    KeyOf,        \* the key that the project with an id is created with
    Rows,         \* project_membership row ids
    Asks,         \* project_access_request row ids
    GivenRoles,   \* roles the callers send (bound on inputs)
    MaxSeq        \* bound on entity_counter.next_seq

Roles == {"project_admin", "test_manager", "tester", "viewer"}
Requestable == {"tester", "viewer", "test_manager"}

ASSUME ProjectsAssumption ==
    /\ SysAdmins \subseteq Users
    /\ GivenRoles \subseteq Roles
    /\ MaxSeq \in Nat
    /\ "none" \notin Users \cup Projects \cup Rows \cup Asks

VARIABLES
    project,    \* project -> status, "deleted" for an id that was used
    member,     \* membership row id -> row
    ask,        \* access request row id -> row
    counter,    \* project -> next_seq, 0 where there is no counter row
    artefacts,  \* project -> numbers of the keys of its rows
    req,        \* client -> the request it has in flight
    overlapped  \* two requests have been in flight together

vars == <<project, member, ask, counter, artefacts, req, overlapped>>

-----------------------------------------------------------------------------
Members == [project : Projects, user : Users, role : Roles,
            status : {"active", "removed"}]
NoMember == [status |-> "none"]
Deleted == [status |-> "deleted"]
AskRows == [project : Projects, user : Users, role : Roles,
            status : {"pending", "approved", "denied"}]
NoAsk == [status |-> "none"]

\* `row' is what the handler found of what it asked for: a membership, an
\* access request or, once the counter is locked, the number it read there.
Idle == [op |-> "none"]
Requests ==
    {Idle}
    \cup [op : {"create"}, project : Projects, user : Users]
    \cup [op : {"archive", "delete"}, project : Projects]
    \cup [op : {"add"}, project : Projects, user : Users, role : Roles,
          row : Rows \cup {"none"}]
    \cup [op : {"remove"}, row : Rows]
    \cup [op : {"ask"}, project : Projects, user : Users, role : Roles]
    \cup [op : {"approve"}, ask : Asks, project : Projects, user : Users,
          role : Roles, row : Rows \cup {"none"}]
    \cup [op : {"approved", "denied"}, ask : Asks, role : Roles]
    \cup [op : {"mint", "first"}, project : Projects]
    \cup [op : {"minted"}, project : Projects, seq : Nat]

Init ==
    /\ project = [p \in Projects |-> "none"]
    /\ member = [m \in Rows |-> NoMember]
    /\ ask = [r \in Asks |-> NoAsk]
    /\ counter = [p \in Projects |-> 0]
    /\ artefacts = [p \in Projects |-> {}]
    /\ req = [c \in Clients |-> Idle]
    /\ overlapped = FALSE

-----------------------------------------------------------------------------
\* Row ids are not used again, so a request that holds one finds no other row.
ProjectExists(p) == project[p] \in {"active", "archived"}
MemberExists(m) == member[m].status \in {"active", "removed"}
AskExists(r) == ask[r].status \in {"pending", "approved", "denied"}
MemberRows(p, u, status) ==
    {m \in Rows : /\ member[m].status = status
                  /\ member[m].project = p /\ member[m].user = u}
KeyTaken(p) == \E q \in Projects : ProjectExists(q) /\ KeyOf[q] = KeyOf[p]

(* authorize, with the memberships that were loaded with the caller.        *)
RoleMatrix ==
    [membership |-> {"project_admin"}, settings |-> {"project_admin"},
     manage |-> {"test_manager", "tester"}]

Authorized(u, p, action) ==
    \/ u \in SysAdmins
    \/ \E m \in MemberRows(p, u, "active") : member[m].role \in RoleMatrix[action]

SomebodyMay(p, action) == \E u \in Users : Authorized(u, p, action)

Begin(c, q) ==
    /\ req[c] = Idle
    /\ req' = [req EXCEPT ![c] = q]
    /\ overlapped' = (overlapped \/ \E d \in Clients : req[d] # Idle)
    /\ UNCHANGED <<project, member, ask, counter, artefacts>>

Step(c, q) == req' = [req EXCEPT ![c] = q] /\ UNCHANGED overlapped
End(c) == Step(c, Idle)

\* A constraint refuses the commit, or the request fails: nothing is written.
Refused(c) ==
    /\ req[c] # Idle
    /\ End(c)
    /\ UNCHANGED <<project, member, ask, counter, artefacts>>

(* create_project.  The creator becomes a project administrator.            *)
LoadCreateProject(c, u, p) ==
    /\ u \in SysAdmins
    /\ project[p] = "none" /\ ~KeyTaken(p)
    /\ Begin(c, [op |-> "create", project |-> p, user |-> u])

CommitCreateProject(c, m) ==
    LET q == req[c] IN
    /\ q.op = "create"
    /\ project[q.project] = "none" /\ ~KeyTaken(q.project)
    /\ member[m] = NoMember
    /\ project' = [project EXCEPT ![q.project] = "active"]
    /\ member' = [member EXCEPT ![m] = [project |-> q.project, user |-> q.user,
                                        role |-> "project_admin", status |-> "active"]]
    /\ End(c)
    /\ UNCHANGED <<ask, counter, artefacts>>

(* archive_project.  Nothing restores a project.                            *)
LoadArchiveProject(c, p) ==
    /\ ProjectExists(p)
    /\ SomebodyMay(p, "settings")
    /\ Begin(c, [op |-> "archive", project |-> p])

CommitArchiveProject(c) ==
    /\ req[c].op = "archive"
    /\ ProjectExists(req[c].project)
    /\ project' = [project EXCEPT ![req[c].project] = "archived"]
    /\ End(c)
    /\ UNCHANGED <<member, ask, counter, artefacts>>

(* delete_project.  It deletes the rows that name the project, waiting for  *)
(* a counter that is locked; a row it does not delete refuses the commit.   *)
\* Mutant: the counter is read without FOR UPDATE.
CounterNeverLocked(p) == TRUE

CounterFree(p) == \A c \in Clients : req[c].op = "minted" => req[c].project # p

LoadDeleteProject(c, p) ==
    /\ SysAdmins # {}
    /\ project[p] = "archived"
    /\ artefacts[p] = {}
    /\ Begin(c, [op |-> "delete", project |-> p])

CommitDeleteProject(c) ==
    LET p == req[c].project IN
    /\ req[c].op = "delete"
    /\ ProjectExists(p)
    /\ CounterFree(p)
    /\ artefacts[p] = {}
    /\ project' = [project EXCEPT ![p] = "deleted"]
    /\ member' = [m \in Rows |-> IF MemberExists(m) /\ member[m].project = p
                                 THEN Deleted ELSE member[m]]
    /\ ask' = [r \in Asks |-> IF AskExists(r) /\ ask[r].project = p
                              THEN Deleted ELSE ask[r]]
    /\ counter' = [counter EXCEPT ![p] = 0]
    /\ End(c)
    /\ UNCHANGED artefacts

-----------------------------------------------------------------------------
\* The membership of a user that add_member finds, "none" if there is none.
Found(p, u, m) == IF m = "none" THEN MemberRows(p, u, "active") = {}
                  ELSE m \in MemberRows(p, u, "active")

(* add_member: the role of an active membership is changed, or a membership *)
(* is inserted.                                                             *)
SetRole(m, role) ==
    /\ MemberExists(m)
    /\ member' = [member EXCEPT ![m].role = role]

\* Mutant: without the unique constraint on memberships.
InsertAnyMember(p, u, role) ==
    /\ ProjectExists(p)
    /\ \E m \in Rows :
          /\ member[m] = NoMember
          /\ member' = [member EXCEPT ![m] = [project |-> p, user |-> u,
                                              role |-> role, status |-> "active"]]

InsertMember(p, u, role) ==
    /\ ProjectExists(p)
    /\ MemberRows(p, u, "active") = {}
    /\ \E m \in Rows :
          /\ member[m] = NoMember
          /\ member' = [member EXCEPT ![m] = [project |-> p, user |-> u,
                                              role |-> role, status |-> "active"]]

WriteMember(q) == IF q.row = "none" THEN InsertMember(q.project, q.user, q.role)
                  ELSE SetRole(q.row, q.role)

LoadAddMember(c, p, u, role, m) ==
    /\ ProjectExists(p)
    /\ SomebodyMay(p, "membership")
    /\ Found(p, u, m)
    /\ Begin(c, [op |-> "add", project |-> p, user |-> u, role |-> role, row |-> m])

CommitAddMember(c) ==
    /\ req[c].op = "add"
    /\ WriteMember(req[c])
    /\ End(c)
    /\ UNCHANGED <<project, ask, counter, artefacts>>

(* remove_member.  The row of an earlier removal refuses the commit.        *)
LoadRemoveMember(c, m) ==
    /\ member[m].status = "active"
    /\ SomebodyMay(member[m].project, "membership")
    /\ Begin(c, [op |-> "remove", row |-> m])

CommitRemoveMember(c) ==
    LET m == req[c].row IN
    /\ req[c].op = "remove"
    /\ MemberExists(m)
    /\ MemberRows(member[m].project, member[m].user, "removed") \subseteq {m}
    /\ member' = [member EXCEPT ![m].status = "removed"]
    /\ End(c)
    /\ UNCHANGED <<project, ask, counter, artefacts>>

(* request_access.                                                          *)
LoadRequestAccess(c, u, p, role) ==
    /\ project[p] = "active"
    /\ u \notin SysAdmins /\ MemberRows(p, u, "active") = {}
    /\ ~\E r \in Asks : /\ ask[r].status = "pending"
                        /\ ask[r].project = p /\ ask[r].user = u
    /\ Begin(c, [op |-> "ask", project |-> p, user |-> u, role |-> role])

CommitRequestAccess(c, r) ==
    LET q == req[c] IN
    /\ q.op = "ask"
    /\ ProjectExists(q.project)
    /\ ask[r] = NoAsk
    /\ ask' = [ask EXCEPT ![r] = [project |-> q.project, user |-> q.user,
                                  role |-> q.role, status |-> "pending"]]
    /\ End(c)
    /\ UNCHANGED <<project, member, counter, artefacts>>

\* Mutant: a request that was decided is decided again.
MayDecideAny(r) == AskExists(r) /\ SomebodyMay(ask[r].project, "membership")

(* decide_request.  An approval commits the membership first, and writes    *)
(* its decision on the row as it has it in memory.                          *)
MayDecide(r) ==
    /\ ask[r].status = "pending"
    /\ SomebodyMay(ask[r].project, "membership")

LoadDeny(c, r) ==
    /\ MayDecide(r)
    /\ Begin(c, [op |-> "denied", ask |-> r, role |-> ask[r].role])

LoadApprove(c, r, role, m) ==
    /\ MayDecide(r)
    /\ Found(ask[r].project, ask[r].user, m)
    /\ Begin(c, [op |-> "approve", ask |-> r, project |-> ask[r].project,
                 user |-> ask[r].user, role |-> role, row |-> m])

\* Mutant: an approval is decided without its membership being committed.
CommitGrantSkipped(c) ==
    /\ req[c].op = "approve"
    /\ Step(c, [op |-> "approved", ask |-> req[c].ask, role |-> req[c].role])
    /\ UNCHANGED <<project, member, ask, counter, artefacts>>

CommitGrant(c) ==
    /\ req[c].op = "approve"
    /\ WriteMember(req[c])
    /\ Step(c, [op |-> "approved", ask |-> req[c].ask, role |-> req[c].role])
    /\ UNCHANGED <<project, ask, counter, artefacts>>

CommitDecision(c) ==
    LET q == req[c] IN
    /\ q.op \in {"approved", "denied"}
    /\ AskExists(q.ask)
    /\ ask' = [ask EXCEPT ![q.ask].status = q.op, ![q.ask].role = q.role]
    /\ End(c)
    /\ UNCHANGED <<project, member, counter, artefacts>>

-----------------------------------------------------------------------------
(* A create operation with next_key.  SELECT FOR UPDATE waits for a locked  *)
(* counter; where it sees no row it inserts one, which waits for another    *)
(* insertion of it and fails after that.                                    *)
LoadCreate(c, p) ==
    /\ ProjectExists(p)
    /\ SomebodyMay(p, "manage")
    /\ Begin(c, [op |-> "mint", project |-> p])

LockCounter(c) ==
    LET p == req[c].project IN
    /\ req[c].op = "mint"
    /\ ProjectExists(p)
    /\ \/ counter[p] = 0 /\ Step(c, [op |-> "first", project |-> p])
       \/ /\ counter[p] # 0 /\ CounterFree(p)
          /\ Step(c, [op |-> "minted", project |-> p, seq |-> counter[p]])
    /\ UNCHANGED <<project, member, ask, counter, artefacts>>

InsertCounter(c) ==
    LET p == req[c].project IN
    /\ req[c].op = "first"
    /\ ProjectExists(p)
    /\ counter[p] = 0 /\ CounterFree(p)
    /\ Step(c, [op |-> "minted", project |-> p, seq |-> 1])
    /\ UNCHANGED <<project, member, ask, counter, artefacts>>

CommitCreate(c) ==
    LET q == req[c] IN
    /\ q.op = "minted"
    /\ q.seq < MaxSeq
    /\ ProjectExists(q.project)
    /\ q.seq \notin artefacts[q.project]
    /\ artefacts' = [artefacts EXCEPT ![q.project] = @ \cup {q.seq}]
    /\ counter' = [counter EXCEPT ![q.project] = q.seq + 1]
    /\ End(c)
    /\ UNCHANGED <<project, member, ask>>

(* The operations that delete a row with a key.                             *)
DeleteArtefact(p, k) ==
    /\ k \in artefacts[p]
    /\ artefacts' = [artefacts EXCEPT ![p] = @ \ {k}]
    /\ UNCHANGED <<project, member, ask, counter, req, overlapped>>

-----------------------------------------------------------------------------
Call(c) ==
    \/ \E p \in Projects :
          \/ \E u \in Users : LoadCreateProject(c, u, p)
          \/ LoadArchiveProject(c, p) \/ LoadDeleteProject(c, p) \/ LoadCreate(c, p)
          \/ \E u \in Users, role \in GivenRoles :
                \/ \E m \in Rows \cup {"none"} : LoadAddMember(c, p, u, role, m)
                \/ role \in Requestable /\ LoadRequestAccess(c, u, p, role)
    \/ \E m \in Rows : LoadRemoveMember(c, m)
    \/ \E r \in Asks :
          \/ LoadDeny(c, r)
          \/ \E role \in GivenRoles, m \in Rows \cup {"none"} : LoadApprove(c, r, role, m)

Commit(c) ==
    \/ \E m \in Rows : CommitCreateProject(c, m)
    \/ CommitArchiveProject(c) \/ CommitDeleteProject(c)
    \/ CommitAddMember(c) \/ CommitRemoveMember(c)
    \/ \E r \in Asks : CommitRequestAccess(c, r)
    \/ CommitGrant(c) \/ CommitDecision(c)
    \/ LockCounter(c) \/ InsertCounter(c) \/ CommitCreate(c)

Next ==
    \/ \E c \in Clients : Call(c) \/ Commit(c) \/ Refused(c)
    \/ \E p \in Projects, k \in 1..MaxSeq : DeleteArtefact(p, k)

Spec == Init /\ [][Next]_vars

-----------------------------------------------------------------------------
TypeOK ==
    /\ project \in [Projects -> {"none", "active", "archived", "deleted"}]
    /\ member \in [Rows -> Members \cup {NoMember, Deleted}]
    /\ ask \in [Asks -> AskRows \cup {NoAsk, Deleted}]
    /\ counter \in [Projects -> Nat]
    /\ artefacts \in [Projects -> SUBSET (Nat \ {0})]
    /\ req \in [Clients -> Requests]
    /\ overlapped \in BOOLEAN

\* Rows belong to a project that exists, and its key is its own.
RowsHaveProject ==
    /\ \A m \in Rows : MemberExists(m) => ProjectExists(member[m].project)
    /\ \A r \in Asks : AskExists(r) => ProjectExists(ask[r].project)
    /\ \A p \in Projects : counter[p] # 0 \/ artefacts[p] # {} => ProjectExists(p)
    /\ \A p, q \in Projects :
          ProjectExists(p) /\ ProjectExists(q) /\ KeyOf[p] = KeyOf[q] => p = q

\* At most one active and one removed membership of a user in a project.
OneMembership ==
    \A m1, m2 \in Rows :
        /\ MemberExists(m1) /\ MemberExists(m2)
        /\ member[m1].project = member[m2].project
        /\ member[m1].user = member[m2].user
        /\ member[m1].status = member[m2].status
        => m1 = m2

\* The counter is above every key, and one request at a time has read it.
CounterAhead ==
    /\ \A p \in Projects : \A k \in artefacts[p] : k < counter[p]
    /\ \A c \in Clients : req[c].op = "minted" =>
          /\ req[c].seq = (IF counter[req[c].project] = 0 THEN 1
                           ELSE counter[req[c].project])
          /\ \A d \in Clients : req[d].op = "minted" /\ req[d].project = req[c].project
                                => d = c

\* The user of a project was let in, and may have been removed since.
WasMember(p, u) ==
    \E m \in Rows : /\ MemberExists(m)
                    /\ member[m].project = p /\ member[m].user = u

(* Who was approved was let in: the two transactions of decide_request are  *)
(* in an order that a failure between them, or a second decision of the     *)
(* same request, leaves no approval without a membership, removed perhaps.  *)
ApprovedWereMembers ==
    \A r \in Asks : ask[r].status = "approved" => WasMember(ask[r].project, ask[r].user)

\* What an approval in flight loaded is still so, or the row is gone.
StillLoaded(q) ==
    /\ q.op = "approve" =>
          /\ ask[q.ask] # NoAsk
          /\ AskExists(q.ask) => /\ ask[q.ask].project = q.project
                                 /\ ask[q.ask].user = q.user
          /\ q.row # "none" =>
                /\ member[q.row] # NoMember
                /\ MemberExists(q.row) => /\ member[q.row].project = q.project
                                          /\ member[q.row].user = q.user
    /\ q.op = "approved" =>
          /\ ask[q.ask] # NoAsk
          /\ AskExists(q.ask) => WasMember(ask[q.ask].project, ask[q.ask].user)
    /\ q.op = "denied" => ask[q.ask] # NoAsk

(* However requests overlap, rows belong to projects that exist, a user is  *)
(* a member once, and one request at a time holds the next key of a project *)
(* (the constraints of models.py and the row lock of keys.py).              *)
IInv ==
    /\ TypeOK /\ RowsHaveProject /\ OneMembership /\ CounterAhead
    /\ ApprovedWereMembers /\ \A c \in Clients : StillLoaded(req[c])

(* A key that a row once had is not given to another: the counter passes    *)
(* every key and only a deletion of the project resets it, however creates, *)
(* deletions and failing calls overlap (the claim of keys.py:3).            *)
KeysNotReused ==
    [][\A p \in Projects :
          /\ \A k \in artefacts'[p] \ artefacts[p] : k >= counter[p] /\ k < counter'[p]
          /\ counter'[p] < counter[p] => project'[p] = "deleted"]_vars

(* As long as no requests overlap, an access request stays as it was        *)
(* decided, also where its user has been a member again since.              *)
DecisionFinal ==
    [][~overlapped' =>
         \A r \in Asks : ask[r].status \in {"approved", "denied"} =>
             ask'[r] \in {ask[r], Deleted}]_vars
=============================================================================
