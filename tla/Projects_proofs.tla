--------------------------- MODULE Projects_proofs ---------------------------
(***************************************************************************)
(* Proofs about projects, members and keys, for any number of overlapping  *)
(* requests: rows belong to projects that exist, nobody is a member twice, *)
(* keys are not given twice, and approvals come with a membership.         *)
(*                                                                         *)
(* The argument.  What a request has loaded of a membership or an access   *)
(* request stays so until the row is deleted with its project (RowsKept),  *)
(* and no row id is used twice.  All else is enforced at the commit, by    *)
(* the constraints and, for keys, by the lock of the counter.              *)
(*                                                                         *)
(* With one request at a time also: a decision on an access request is     *)
(* final, since who decides found it pending and it still is.              *)
(***************************************************************************)
EXTENDS Projects, TLAPS

\* The fields of a request are those of its operation.
LEMMA Fields ==
    ASSUME NEW q \in Requests
    PROVE  /\ q.op = "create" => q.project \in Projects /\ q.user \in Users
           /\ q.op = "archive" => q.project \in Projects
           /\ q.op = "delete" => q.project \in Projects
           /\ q.op = "add" => /\ q.project \in Projects /\ q.user \in Users
                              /\ q.role \in Roles /\ q.row \in Rows \cup {"none"}
           /\ q.op = "remove" => q.row \in Rows
           /\ q.op = "ask" => q.project \in Projects /\ q.user \in Users /\ q.role \in Roles
           /\ q.op = "approve" => /\ q.ask \in Asks
                                  /\ q.project \in Projects /\ q.user \in Users
                                  /\ q.role \in Roles /\ q.row \in Rows \cup {"none"}
           /\ q.op = "approved" => q.ask \in Asks /\ q.role \in Roles
           /\ q.op = "denied" => q.ask \in Asks /\ q.role \in Roles
           /\ q.op = "mint" => q.project \in Projects
           /\ q.op = "first" => q.project \in Projects
           /\ q.op = "minted" => q.project \in Projects /\ q.seq \in Nat
BY DEF Requests, Idle

\* The part of the type invariant that is about rows.
RowTypes ==
    /\ project \in [Projects -> {"none", "active", "archived", "deleted"}]
    /\ member \in [Rows -> Members \cup {NoMember, Deleted}]
    /\ ask \in [Asks -> AskRows \cup {NoAsk, Deleted}]
    /\ counter \in [Projects -> Nat]
    /\ artefacts \in [Projects -> SUBSET (Nat \ {0})]

\* What is in a row that exists.
LEMMA RowFields ==
    ASSUME RowTypes
    PROVE  /\ \A m \in Rows : MemberExists(m) => member[m] \in Members
           /\ \A r \in Asks : AskExists(r) => ask[r] \in AskRows
           /\ \A m \in Rows : member[m] = NoMember => ~MemberExists(m)
           /\ \A r \in Asks : ask[r] = NoAsk => ~AskExists(r)
           /\ \A m \in Rows : member[m].status = "active" => MemberExists(m)
           /\ \A r \in Asks : ask[r].status \in {"pending", "approved", "denied"}
                                 => AskExists(r)
BY DEF RowTypes, MemberExists, AskExists, Members, AskRows, NoMember, NoAsk, Deleted

\* Rows stay what they are about until they are deleted, and with a deletion of
\* a membership the access requests of its project are deleted too.
RowsKept ==
    /\ \A m \in Rows : member[m] # NoMember =>
          /\ member'[m] # NoMember
          /\ MemberExists(m)' => /\ MemberExists(m)
                                 /\ member'[m].project = member[m].project
                                 /\ member'[m].user = member[m].user
    /\ \A r \in Asks : ask[r] # NoAsk =>
          /\ ask'[r] # NoAsk
          /\ AskExists(r)' => /\ AskExists(r)
                              /\ ask'[r].project = ask[r].project
                              /\ ask'[r].user = ask[r].user
                              /\ \A m \in Rows :
                                    MemberExists(m) /\ member[m].project = ask[r].project
                                       => MemberExists(m)'

\* An approval in flight stays sound.
LEMMA StillSound ==
    ASSUME RowTypes, RowTypes', NEW q \in Requests, StillLoaded(q), RowsKept
    PROVE  StillLoaded(q)'
<1>1. CASE q.op = "approve"
  <2>1. q.ask \in Asks /\ q.row \in Rows \cup {"none"}
      BY <1>1, Fields
  <2> QED BY <1>1, <2>1 DEF StillLoaded, RowsKept
<1>2. CASE q.op = "approved"
  <2>1. q.ask \in Asks /\ ask[q.ask] # NoAsk /\ ask'[q.ask] # NoAsk
      BY <1>2, Fields DEF StillLoaded, RowsKept
  <2>2. ASSUME AskExists(q.ask)'
        PROVE  WasMember(ask[q.ask].project, ask[q.ask].user)'
    <3>1. /\ AskExists(q.ask)
          /\ ask'[q.ask].project = ask[q.ask].project
          /\ ask'[q.ask].user = ask[q.ask].user
        BY <2>1, <2>2 DEF RowsKept
    <3>2. PICK m \in Rows : /\ MemberExists(m) /\ member[m].project = ask[q.ask].project
                            /\ member[m].user = ask[q.ask].user
        BY <1>2, <3>1 DEF StillLoaded, WasMember
    <3>3. MemberExists(m)'
        BY <2>1, <2>2, <3>2 DEF RowsKept
    <3>4. member[m] # NoMember
        BY <3>2, RowFields
    <3> QED BY <3>1, <3>2, <3>3, <3>4 DEF RowsKept, WasMember
  <2> QED BY <1>2, <2>1, <2>2 DEF StillLoaded
<1>3. CASE q.op = "denied"
    BY <1>3, Fields DEF StillLoaded, RowsKept
<1> QED BY <1>1, <1>2, <1>3 DEF StillLoaded

\* Approved requests keep their memberships.
LEMMA ApprovalsKept ==
    ASSUME RowTypes, RowTypes', ApprovedWereMembers, RowsKept,
           \A r \in Asks : ask'[r].status = "approved" =>
               \/ ask[r].status = "approved"
               \/ AskExists(r) /\ WasMember(ask[r].project, ask[r].user)
    PROVE  ApprovedWereMembers'
<1> SUFFICES ASSUME NEW r \in Asks, ask'[r].status = "approved"
             PROVE  WasMember(ask[r].project, ask[r].user)'
    BY DEF ApprovedWereMembers
<1>1. AskExists(r) /\ ask[r] # NoAsk /\ AskExists(r)'
    BY RowFields DEF AskExists
<1>2. PICK m \in Rows : /\ MemberExists(m) /\ member[m].project = ask[r].project
                        /\ member[m].user = ask[r].user
    BY DEF ApprovedWereMembers, WasMember
<1>3. member[m] # NoMember /\ MemberExists(m)'
    BY <1>1, <1>2, RowFields DEF RowsKept
<1> QED BY <1>1, <1>2, <1>3 DEF RowsKept, WasMember

\* Where no row changes, everything about rows is kept.
LEMMA NothingChanged ==
    ASSUME RowTypes, UNCHANGED <<project, member, ask, counter, artefacts>>
    PROVE  RowsKept
BY DEF RowsKept, MemberExists, AskExists

-----------------------------------------------------------------------------
\* A handler that loads adds one request, sound at that moment.
LEMMA LoadStep ==
    ASSUME IInv, NEW c \in Clients, Call(c)
    PROVE  \E q \in Requests : StillLoaded(q) /\ q.op # "minted" /\ Begin(c, q)
<1> USE ProjectsAssumption
<1> DEFINE Good == \E q \in Requests : StillLoaded(q) /\ q.op # "minted" /\ Begin(c, q)
<1>1. RowTypes
    BY DEF IInv, TypeOK, RowTypes
<1>2. ASSUME NEW q \in Requests,
             q.op \notin {"approve", "approved", "denied", "minted"}, Begin(c, q)
      PROVE  Good
    BY <1>2 DEF StillLoaded
<1>3. ASSUME NEW p \in Projects, NEW u \in Users, LoadCreateProject(c, u, p) PROVE Good
  <2> DEFINE q == [op |-> "create", project |-> p, user |-> u]
  <2>1. q \in Requests /\ q.op = "create"
      BY DEF Requests
  <2> QED BY <1>2, <1>3, <2>1 DEF LoadCreateProject
<1>4. ASSUME NEW p \in Projects,
             LoadArchiveProject(c, p) \/ LoadDeleteProject(c, p) \/ LoadCreate(c, p)
      PROVE  Good
  <2>1. \A op \in {"archive", "delete", "mint"} :
            [op |-> op, project |-> p] \in Requests
      BY DEF Requests
  <2>2. PICK op \in {"archive", "delete", "mint"} : Begin(c, [op |-> op, project |-> p])
      BY <1>4 DEF LoadArchiveProject, LoadDeleteProject, LoadCreate
  <2>3. [op |-> op, project |-> p].op \notin {"approve", "approved", "denied", "minted"}
      OBVIOUS
  <2> QED BY <1>2, <2>1, <2>2, <2>3
<1>5. ASSUME NEW p \in Projects, NEW u \in Users, NEW role \in GivenRoles,
             NEW m \in Rows \cup {"none"}, LoadAddMember(c, p, u, role, m)
      PROVE  Good
  <2> DEFINE q == [op |-> "add", project |-> p, user |-> u, role |-> role, row |-> m]
  <2>1. q \in Requests /\ q.op = "add"
      BY DEF Requests
  <2> QED BY <1>2, <1>5, <2>1 DEF LoadAddMember
<1>6. ASSUME NEW p \in Projects, NEW u \in Users, NEW role \in GivenRoles,
             LoadRequestAccess(c, u, p, role)
      PROVE  Good
  <2> DEFINE q == [op |-> "ask", project |-> p, user |-> u, role |-> role]
  <2>1. q \in Requests /\ q.op = "ask"
      BY DEF Requests
  <2> QED BY <1>2, <1>6, <2>1 DEF LoadRequestAccess
<1>7. ASSUME NEW m \in Rows, LoadRemoveMember(c, m) PROVE Good
  <2> DEFINE q == [op |-> "remove", row |-> m]
  <2>1. q \in Requests /\ q.op = "remove"
      BY DEF Requests
  <2> QED BY <1>2, <1>7, <2>1 DEF LoadRemoveMember
<1>8. ASSUME NEW r \in Asks, MayDecide(r)
      PROVE  ask[r] # NoAsk /\ ask[r] \in AskRows
    BY <1>1, <1>8, RowFields DEF MayDecide
<1>9. ASSUME NEW r \in Asks, LoadDeny(c, r) PROVE Good
  <2> DEFINE q == [op |-> "denied", ask |-> r, role |-> ask[r].role]
  <2>1. ask[r] # NoAsk /\ ask[r] \in AskRows
      BY <1>8, <1>9 DEF LoadDeny
  <2>2. q \in Requests
      BY <2>1 DEF Requests, AskRows
  <2>3. StillLoaded(q)
      BY <2>1 DEF StillLoaded
  <2> QED BY <1>9, <2>2, <2>3 DEF LoadDeny
<1>10. ASSUME NEW r \in Asks, NEW role \in GivenRoles, NEW m \in Rows \cup {"none"},
              LoadApprove(c, r, role, m)
       PROVE  Good
  <2> DEFINE q == [op |-> "approve", ask |-> r, project |-> ask[r].project,
                   user |-> ask[r].user, role |-> role, row |-> m]
  <2>1. ask[r] # NoAsk /\ ask[r] \in AskRows
      BY <1>8, <1>10 DEF LoadApprove
  <2>2. q \in Requests
      BY <2>1 DEF Requests, AskRows
  <2>3. m # "none" => /\ m \in Rows /\ member[m] # NoMember
                      /\ member[m].project = ask[r].project
                      /\ member[m].user = ask[r].user
    <3>1. m # "none" => m \in MemberRows(ask[r].project, ask[r].user, "active")
        BY <1>10 DEF LoadApprove, Found
    <3>2. NoMember.status # "active"
        BY DEF NoMember
    <3> QED BY <3>1, <3>2 DEF MemberRows
  <2>4. StillLoaded(q)
      BY <2>1, <2>3 DEF StillLoaded
  <2> QED BY <1>10, <2>2, <2>4 DEF LoadApprove
<1> QED BY <1>3, <1>4, <1>5, <1>6, <1>7, <1>9, <1>10 DEF Call

\* Where counters and keys stay, a request that is not about to write one does
\* not matter.
LEMMA CounterKept ==
    ASSUME req \in [Clients -> Requests], CounterAhead, UNCHANGED <<counter, artefacts>>,
           NEW c \in Clients, NEW q, q.op # "minted", req' = [req EXCEPT ![c] = q]
    PROVE  CounterAhead'
<1>1. \A d \in Clients : req'[d].op = "minted" => req'[d] = req[d]
    OBVIOUS
<1> QED BY <1>1 DEF CounterAhead

-----------------------------------------------------------------------------
\* What the steps keep, of the rows.
Rows5 == RowTypes /\ RowsHaveProject /\ OneMembership

\* A membership is only inserted for a user who has none that is active.
LEMMA InsertKeeps ==
    ASSUME Rows5, NEW m \in Rows, NEW p \in Projects, NEW u \in Users, NEW role \in Roles,
           member[m] = NoMember, MemberRows(p, u, "active") = {},
           member' = [member EXCEPT ![m] = [project |-> p, user |-> u, role |-> role,
                                            status |-> "active"]],
           ProjectExists(p)', \A q \in Projects : ProjectExists(q) => ProjectExists(q)',
           UNCHANGED ask
    PROVE  /\ member' \in [Rows -> Members \cup {NoMember, Deleted}]
           /\ \A x \in Rows : MemberExists(x)' => ProjectExists(member[x].project)'
           /\ OneMembership'
           /\ RowsKept
           /\ WasMember(p, u)'
<1> DEFINE new == [project |-> p, user |-> u, role |-> role, status |-> "active"]
<1>1. new \in Members /\ new.project = p /\ new.user = u /\ new.status = "active"
    BY DEF Members
<1>2. member \in [Rows -> Members \cup {NoMember, Deleted}] /\ member' = [member EXCEPT ![m] = new]
    BY DEF Rows5, RowTypes
<1> HIDE DEF new
<1>3. \A x \in Rows : x # m => member'[x] = member[x]
    BY <1>2
<1>4. member'[m] = new
    BY <1>2
<1>5. \A x \in Rows : MemberExists(x) => member[x] \in Members
    BY RowFields DEF Rows5
<1>6. OneMembership'
  <2> SUFFICES ASSUME NEW x \in Rows, NEW y \in Rows, MemberExists(x)', MemberExists(y)',
                      member'[x].project = member'[y].project,
                      member'[x].user = member'[y].user,
                      member'[x].status = member'[y].status, x # y
               PROVE  FALSE
      BY DEF OneMembership
  <2>1. CASE x # m /\ y # m
      BY <1>3, <2>1 DEF OneMembership, Rows5, MemberExists
  <2>2. CASE x = m
    <3>1. y \in MemberRows(p, u, "active")
        BY <1>1, <1>3, <1>4, <2>2 DEF MemberRows
    <3> QED BY <3>1
  <2>3. CASE y = m
    <3>1. x \in MemberRows(p, u, "active")
        BY <1>1, <1>3, <1>4, <2>3 DEF MemberRows
    <3> QED BY <3>1
  <2> QED BY <2>1, <2>2, <2>3
<1>7. RowsKept
  <2>1. ~MemberExists(m)
      BY RowFields DEF Rows5
  <2>2. \A x \in Rows : MemberExists(x) => MemberExists(x)'
      BY <1>3, <2>1 DEF MemberExists
  <2>3. \A x \in Rows : member[x] # NoMember => member'[x] = member[x]
      BY <1>3
  <2> QED BY <2>2, <2>3 DEF RowsKept, MemberExists, AskExists
<1>8. \A x \in Rows : MemberExists(x)' => ProjectExists(member[x].project)'
  <2>1. ASSUME NEW x \in Rows, MemberExists(x)', x # m
        PROVE  ProjectExists(member[x].project)'
    <3>1. MemberExists(x) /\ member'[x] = member[x]
        BY <1>3, <2>1 DEF MemberExists
    <3>2. ProjectExists(member[x].project) /\ member[x].project \in Projects
        BY <1>5, <3>1 DEF Rows5, RowsHaveProject, Members
    <3> QED BY <3>1, <3>2 DEF ProjectExists
  <2>2. ProjectExists(member[m].project)'
      BY <1>1, <1>4 DEF ProjectExists
  <2> QED BY <2>1, <2>2
<1>9. WasMember(p, u)'
    BY <1>1, <1>4 DEF WasMember, MemberExists
<1> QED BY <1>1, <1>2, <1>6, <1>7, <1>8, <1>9

\* A membership that is changed keeps its project and user.
LEMMA ChangeKeeps ==
    ASSUME Rows5, NEW m \in Rows, NEW new \in Members, MemberExists(m),
           new.project = member[m].project, new.user = member[m].user,
           \/ new.status = member[m].status
           \/ MemberRows(member[m].project, member[m].user, new.status) \subseteq {m},
           member' = [member EXCEPT ![m] = new], UNCHANGED <<project, ask>>
    PROVE  /\ member' \in [Rows -> Members \cup {NoMember, Deleted}]
           /\ \A x \in Rows : MemberExists(x)' => ProjectExists(member[x].project)'
           /\ OneMembership'
           /\ RowsKept
           /\ WasMember(member[m].project, member[m].user)'
<1>1. member \in [Rows -> Members \cup {NoMember, Deleted}]
    BY DEF Rows5, RowTypes
<1>2. \A x \in Rows : x # m => member'[x] = member[x]
    BY <1>1
<1>3. member'[m] = new
    BY <1>1
<1>4. \A x \in Rows : MemberExists(x) => member[x] \in Members
    BY RowFields DEF Rows5
<1>5. MemberExists(m)'
    BY <1>3 DEF MemberExists, Members
<1>6. OneMembership'
  <2> SUFFICES ASSUME NEW x \in Rows, NEW y \in Rows, MemberExists(x)', MemberExists(y)',
                      member'[x].project = member'[y].project,
                      member'[x].user = member'[y].user,
                      member'[x].status = member'[y].status, x # y
               PROVE  FALSE
      BY DEF OneMembership
  <2>1. CASE x # m /\ y # m
      BY <1>2, <2>1 DEF OneMembership, Rows5, MemberExists
  <2>2. CASE x = m
    <3>1. /\ MemberExists(y) /\ member[y].project = member[m].project
          /\ member[y].user = member[m].user /\ member[y].status = new.status
        BY <1>2, <1>3, <2>2 DEF MemberExists
    <3> QED BY <2>2, <3>1 DEF OneMembership, Rows5, MemberRows
  <2>3. CASE y = m
    <3>1. /\ MemberExists(x) /\ member[x].project = member[m].project
          /\ member[x].user = member[m].user /\ member[x].status = new.status
        BY <1>2, <1>3, <2>3 DEF MemberExists
    <3> QED BY <2>3, <3>1 DEF OneMembership, Rows5, MemberRows
  <2> QED BY <2>1, <2>2, <2>3
<1>7. \A x \in Rows : MemberExists(x)' <=> MemberExists(x)
    BY <1>2, <1>5 DEF MemberExists
<1>8. \A x \in Rows : MemberExists(x) => /\ member'[x].project = member[x].project
                                        /\ member'[x].user = member[x].user
    BY <1>2, <1>3
<1>9. RowsKept
  <2>1. new # NoMember
      BY DEF Members, NoMember
  <2> QED BY <1>2, <1>3, <1>7, <1>8, <2>1 DEF RowsKept, AskExists
<1>10. \A x \in Rows : MemberExists(x)' => ProjectExists(member[x].project)'
    BY <1>7, <1>8 DEF Rows5, RowsHaveProject, ProjectExists
<1>11. WasMember(member[m].project, member[m].user)'
    BY <1>5, <1>8 DEF WasMember
<1> QED BY <1>1, <1>6, <1>9, <1>10, <1>11

\* What a step of one request keeps of the rows, and leaves in flight.
Sound(c) ==
    /\ Rows5' /\ RowsKept /\ ApprovedWereMembers'
    /\ \E q \in Requests : StillLoaded(q)' /\ req' = [req EXCEPT ![c] = q]

\* A request that has ended relies on nothing.
LEMMA IdleSound == Idle \in Requests /\ Idle.op = "none" /\ StillLoaded(Idle)'
BY DEF Idle, Requests, StillLoaded

\* Access requests that stay as they are stay approved for good reason.
LEMMA SameApprovals ==
    ASSUME IInv, RowTypes', RowsKept,
           \A r \in Asks : ask'[r].status = "approved" => ask[r].status = "approved"
    PROVE  ApprovedWereMembers'
BY ApprovalsKept DEF IInv, TypeOK, RowTypes

LEMMA CreateProjectKeeps ==
    ASSUME IInv, NEW c \in Clients, NEW m \in Rows, CommitCreateProject(c, m)
    PROVE  Sound(c) /\ CounterAhead'
<1> DEFINE p == req[c].project
           u == req[c].user
<1>1. Rows5 /\ RowTypes /\ req \in [Clients -> Requests] /\ req[c] \in Requests
    BY DEF IInv, TypeOK, RowTypes, Rows5
<1>2. /\ p \in Projects /\ u \in Users /\ project[p] = "none" /\ member[m] = NoMember
      /\ project' = [project EXCEPT ![p] = "active"]
      /\ member' = [member EXCEPT ![m] = [project |-> p, user |-> u,
                                        role |-> "project_admin", status |-> "active"]]
      /\ UNCHANGED <<ask, counter, artefacts>> /\ req' = [req EXCEPT ![c] = Idle]
      /\ ~KeyTaken(p)
    BY <1>1, Fields DEF CommitCreateProject, End, Step
<1> HIDE DEF p, u
<1>3. project \in [Projects -> {"none", "active", "archived", "deleted"}]
    BY <1>1 DEF RowTypes
<1>4. \A q \in Projects : ProjectExists(q)' <=> ProjectExists(q) \/ q = p
    BY <1>2, <1>3 DEF ProjectExists
<1>5. MemberRows(p, u, "active") = {}
    BY <1>1, <1>2, RowFields DEF MemberRows, Rows5, RowsHaveProject, ProjectExists
<1>6. /\ member' \in [Rows -> Members \cup {NoMember, Deleted}]
      /\ \A x \in Rows : MemberExists(x)' => ProjectExists(member[x].project)'
      /\ OneMembership' /\ RowsKept
    BY <1>1, <1>2, <1>4, <1>5, InsertKeeps DEF Roles
<1>7. project' \in [Projects -> {"none", "active", "archived", "deleted"}]
    BY <1>2, <1>3
<1>8. RowTypes'
    BY <1>1, <1>2, <1>6, <1>7 DEF RowTypes
<1>9. RowsHaveProject'
  <2>1. \A r \in Asks : AskExists(r)' => ProjectExists(ask[r].project)'
    <3>1. \A r \in Asks : AskExists(r) => ask[r].project \in Projects
        BY <1>1, RowFields DEF AskRows
    <3> QED BY <1>1, <1>2, <1>4, <3>1 DEF Rows5, RowsHaveProject, AskExists
  <2>2. \A q \in Projects : (counter[q] # 0 \/ artefacts[q] # {})' => ProjectExists(q)'
      BY <1>1, <1>2, <1>4 DEF Rows5, RowsHaveProject
  <2>3. \A q, x \in Projects :
            ProjectExists(q)' /\ ProjectExists(x)' /\ KeyOf[q] = KeyOf[x] => q = x
      BY <1>1, <1>2, <1>4 DEF Rows5, RowsHaveProject, KeyTaken
  <2> QED BY <1>6, <2>1, <2>2, <2>3 DEF RowsHaveProject
<1>10. ApprovedWereMembers'
    BY <1>2, <1>6, <1>8, SameApprovals
<1>11. CounterAhead'
    BY <1>1, <1>2, IdleSound, CounterKept DEF IInv
<1> QED BY <1>2, <1>6, <1>8, <1>9, <1>10, <1>11, IdleSound DEF Sound, Rows5

LEMMA ArchiveProjectKeeps ==
    ASSUME IInv, NEW c \in Clients, CommitArchiveProject(c)
    PROVE  Sound(c) /\ CounterAhead'
<1>1. Rows5 /\ RowTypes /\ req \in [Clients -> Requests] /\ req[c] \in Requests
    BY DEF IInv, TypeOK, RowTypes, Rows5
<1>2. PICK p \in Projects : /\ ProjectExists(p)
                            /\ project' = [project EXCEPT ![p] = "archived"]
    BY <1>1, Fields DEF CommitArchiveProject
<1>3. UNCHANGED <<member, ask, counter, artefacts>> /\ req' = [req EXCEPT ![c] = Idle]
    BY DEF CommitArchiveProject, End, Step
<1>4. \A q \in Projects : ProjectExists(q)' <=> ProjectExists(q)
    BY <1>1, <1>2 DEF ProjectExists, RowTypes
<1>5. RowTypes'
    BY <1>1, <1>2, <1>3 DEF RowTypes
<1>6. RowsHaveProject' /\ OneMembership'
  <2>1. \A m \in Rows : MemberExists(m)' => ProjectExists(member[m].project)'
      BY <1>1, <1>3, <1>4, RowFields DEF Rows5, RowsHaveProject, MemberExists, Members
  <2>2. \A r \in Asks : AskExists(r)' => ProjectExists(ask[r].project)'
      BY <1>1, <1>3, <1>4, RowFields DEF Rows5, RowsHaveProject, AskExists, AskRows
  <2>3. OneMembership'
      BY <1>1, <1>3 DEF Rows5, OneMembership, MemberExists
  <2> QED BY <1>1, <1>3, <1>4, <2>1, <2>2, <2>3 DEF RowsHaveProject, Rows5
<1>7. RowsKept
    BY <1>3 DEF RowsKept, MemberExists, AskExists
<1>8. ApprovedWereMembers'
    BY <1>3, <1>5, <1>7, SameApprovals
<1>9. CounterAhead'
    BY <1>1, <1>3, IdleSound, CounterKept DEF IInv
<1> QED BY <1>3, <1>5, <1>6, <1>7, <1>8, <1>9, IdleSound DEF Sound, Rows5

LEMMA DeleteProjectKeeps ==
    ASSUME IInv, NEW c \in Clients, CommitDeleteProject(c)
    PROVE  Sound(c) /\ CounterAhead'
<1>1. Rows5 /\ RowTypes /\ req \in [Clients -> Requests] /\ req[c] \in Requests
    BY DEF IInv, TypeOK, RowTypes, Rows5
<1>2. PICK p \in Projects : p = req[c].project
    BY <1>1, Fields DEF CommitDeleteProject
<1>3. /\ ProjectExists(p) /\ CounterFree(p) /\ artefacts[p] = {}
      /\ project' = [project EXCEPT ![p] = "deleted"]
      /\ member' = [m \in Rows |-> IF MemberExists(m) /\ member[m].project = p
                                   THEN Deleted ELSE member[m]]
      /\ ask' = [r \in Asks |-> IF AskExists(r) /\ ask[r].project = p
                                THEN Deleted ELSE ask[r]]
      /\ counter' = [counter EXCEPT ![p] = 0]
      /\ req' = [req EXCEPT ![c] = Idle] /\ UNCHANGED artefacts
    BY <1>2 DEF CommitDeleteProject, End, Step
<1>4. \A q \in Projects : ProjectExists(q)' <=> ProjectExists(q) /\ q # p
    BY <1>1, <1>3 DEF ProjectExists, RowTypes
<1>5. \A m \in Rows : MemberExists(m)' <=> MemberExists(m) /\ member[m].project # p
    BY <1>3 DEF MemberExists, Deleted
<1>6. \A r \in Asks : AskExists(r)' <=> AskExists(r) /\ ask[r].project # p
    BY <1>3 DEF AskExists, Deleted
<1>7. /\ \A m \in Rows : MemberExists(m)' => member'[m] = member[m]
      /\ \A r \in Asks : AskExists(r)' => ask'[r] = ask[r]
    BY <1>3, <1>5, <1>6
<1>8. RowTypes'
  <2>1. project' \in [Projects -> {"none", "active", "archived", "deleted"}]
      BY <1>1, <1>3 DEF RowTypes
  <2>2. member' \in [Rows -> Members \cup {NoMember, Deleted}]
      BY <1>1, <1>3 DEF RowTypes
  <2>3. ask' \in [Asks -> AskRows \cup {NoAsk, Deleted}]
      BY <1>1, <1>3 DEF RowTypes
  <2>4. counter' \in [Projects -> Nat]
      BY <1>1, <1>3 DEF RowTypes
  <2> QED BY <1>1, <1>3, <2>1, <2>2, <2>3, <2>4 DEF RowTypes
<1>9. RowsHaveProject'
  <2>1. \A m \in Rows : MemberExists(m)' => ProjectExists(member[m].project)'
    <3>1. \A m \in Rows : MemberExists(m) => member[m].project \in Projects
        BY <1>1, RowFields DEF Members
    <3>2. ASSUME NEW m \in Rows, MemberExists(m)' PROVE ProjectExists(member[m].project)'
      <4>1. /\ MemberExists(m) /\ member'[m] = member[m] /\ member[m].project \in Projects
            /\ member[m].project # p
          BY <1>5, <1>7, <3>1, <3>2
      <4>2. ProjectExists(member[m].project)
          BY <1>1, <4>1 DEF Rows5, RowsHaveProject
      <4> QED BY <1>4, <4>1, <4>2 DEF ProjectExists
    <3> QED BY <3>2
  <2>2. \A r \in Asks : AskExists(r)' => ProjectExists(ask[r].project)'
    <3>1. \A r \in Asks : AskExists(r) => ask[r].project \in Projects
        BY <1>1, RowFields DEF AskRows
    <3>2. ASSUME NEW r \in Asks, AskExists(r)' PROVE ProjectExists(ask[r].project)'
      <4>1. /\ AskExists(r) /\ ask'[r] = ask[r] /\ ask[r].project \in Projects
            /\ ask[r].project # p
          BY <1>6, <1>7, <3>1, <3>2
      <4>2. ProjectExists(ask[r].project)
          BY <1>1, <4>1 DEF Rows5, RowsHaveProject
      <4> QED BY <1>4, <4>1, <4>2 DEF ProjectExists
    <3> QED BY <3>2
  <2>3. \A q \in Projects : (counter[q] # 0 \/ artefacts[q] # {})' => ProjectExists(q)'
      BY <1>1, <1>3, <1>4 DEF Rows5, RowsHaveProject, RowTypes
  <2> QED BY <1>1, <1>4, <2>1, <2>2, <2>3 DEF RowsHaveProject, Rows5
<1>10. OneMembership'
    BY <1>1, <1>5, <1>7 DEF Rows5, OneMembership
<1>11. RowsKept
  <2>1. \A m \in Rows : member[m] # NoMember => member'[m] # NoMember
      BY <1>3 DEF Deleted, NoMember
  <2>2. \A r \in Asks : ask[r] # NoAsk => ask'[r] # NoAsk
      BY <1>3 DEF Deleted, NoAsk
  <2> QED BY <1>5, <1>6, <1>7, <2>1, <2>2 DEF RowsKept
<1>12. ApprovedWereMembers'
  <2>1. \A r \in Asks : ask'[r].status = "approved" => ask[r].status = "approved"
      BY <1>3 DEF Deleted
  <2> QED BY <1>8, <1>11, <2>1, SameApprovals
<1>13. CounterAhead'
  <2>1. \A d \in Clients : req'[d].op = "minted" => req'[d] = req[d] /\ req[d].project # p
      BY <1>1, <1>3, IdleSound DEF CounterFree
  <2>2. \A d \in Clients : req'[d].op = "minted" => req[d].project \in Projects
      BY <1>1, <2>1, Fields
  <2>3. \A q \in Projects : q # p => counter'[q] = counter[q]
      BY <1>1, <1>3 DEF RowTypes
  <2> QED BY <1>3, <2>1, <2>2, <2>3 DEF CounterAhead, IInv
<1> QED BY <1>3, <1>8, <1>9, <1>10, <1>11, <1>12, <1>13, IdleSound DEF Sound, Rows5

-----------------------------------------------------------------------------
\* Projects stay, and what access requests and counters say of them.
LEMMA MembersOnly ==
    ASSUME Rows5, UNCHANGED <<project, ask, counter, artefacts>>,
           member' \in [Rows -> Members \cup {NoMember, Deleted}],
           \A m \in Rows : MemberExists(m)' => ProjectExists(member[m].project)',
           OneMembership'
    PROVE  Rows5'
<1>1. RowTypes'
    BY DEF Rows5, RowTypes
<1>2. \A p \in Projects : ProjectExists(p)' <=> ProjectExists(p)
    BY DEF ProjectExists
<1>3. \A r \in Asks : AskExists(r)' => ProjectExists(ask[r].project)'
    BY DEF Rows5, RowsHaveProject, AskExists, ProjectExists
<1> QED BY <1>1, <1>2, <1>3 DEF Rows5, RowsHaveProject

\* add_member, alone or as the first half of an approval, keeps the rows and
\* leaves a membership: the one it loaded, or a new one.
LEMMA WriteKeeps ==
    ASSUME Rows5, NEW p \in Projects, NEW u \in Users, NEW role \in Roles,
           NEW m \in Rows \cup {"none"},
           IF m = "none" THEN InsertMember(p, u, role) ELSE SetRole(m, role),
           UNCHANGED <<project, ask, counter, artefacts>>
    PROVE  /\ Rows5' /\ RowsKept
           /\ m = "none" => \E x \in Rows : /\ MemberExists(x)' /\ member'[x].project = p
                                            /\ member'[x].user = u
           /\ m # "none" => m \in Rows /\ MemberExists(m) /\ MemberExists(m)'
<1> USE ProjectsAssumption
<1>1. CASE m = "none"
  <2>1. PICK x \in Rows :
          /\ member[x] = NoMember
          /\ member' = [member EXCEPT ![x] = [project |-> p, user |-> u, role |-> role,
                                              status |-> "active"]]
      BY <1>1 DEF InsertMember
  <2>2. MemberRows(p, u, "active") = {} /\ ProjectExists(p)
      BY <1>1 DEF InsertMember
  <2>3. ProjectExists(p)' /\ \A q \in Projects : ProjectExists(q) => ProjectExists(q)'
      BY <2>2 DEF ProjectExists
  <2>4. UNCHANGED ask
      OBVIOUS
  <2>5. /\ member' \in [Rows -> Members \cup {NoMember, Deleted}]
        /\ \A y \in Rows : MemberExists(y)' => ProjectExists(member[y].project)'
        /\ OneMembership' /\ RowsKept /\ WasMember(p, u)'
      BY ONLY Rows5, <2>1, <2>2, <2>3, <2>4, InsertKeeps
  <2> QED BY <1>1, <2>5, MembersOnly DEF WasMember
<1>2. CASE m # "none"
  <2>1. m \in Rows /\ MemberExists(m) /\ member' = [member EXCEPT ![m].role = role]
      BY <1>2 DEF SetRole
  <2>2. member[m] \in Members
      BY <2>1, RowFields DEF Rows5
  <2>3. PICK new \in Members :
          /\ new = [member[m] EXCEPT !.role = role] /\ new.project = member[m].project
          /\ new.user = member[m].user /\ new.status = member[m].status
    <3> DEFINE new == [member[m] EXCEPT !.role = role]
    <3>1. /\ new \in Members /\ new.project = member[m].project
          /\ new.user = member[m].user /\ new.status = member[m].status
        BY <2>2 DEF Members
    <3> QED BY <3>1
  <2>4. member' = [member EXCEPT ![m] = new]
      BY <2>1, <2>3
  <2>5. UNCHANGED <<project, ask>>
      OBVIOUS
  <2>6. /\ member' \in [Rows -> Members \cup {NoMember, Deleted}]
        /\ \A y \in Rows : MemberExists(y)' => ProjectExists(member[y].project)'
        /\ OneMembership' /\ RowsKept
      BY <2>1, <2>3, <2>4, <2>5, ChangeKeeps
  <2>7. member'[m] = new
      BY <2>1, <2>4 DEF Rows5, RowTypes
  <2>8. MemberExists(m)'
      BY <2>1, <2>3, <2>7 DEF MemberExists
  <2> QED BY <1>2, <2>1, <2>6, <2>8, MembersOnly
<1> QED BY <1>1, <1>2

LEMMA AddMemberKeeps ==
    ASSUME IInv, NEW c \in Clients, CommitAddMember(c)
    PROVE  Sound(c) /\ CounterAhead'
<1>1. Rows5 /\ req \in [Clients -> Requests]
    BY DEF IInv, TypeOK, RowTypes, Rows5
<1>2. PICK q \in Requests : q = req[c]
    BY <1>1
<1>3. /\ UNCHANGED <<project, ask, counter, artefacts>> /\ req' = [req EXCEPT ![c] = Idle]
      /\ q.op = "add" /\ WriteMember(q)
    BY <1>2 DEF CommitAddMember, End, Step
<1>4. /\ q.project \in Projects /\ q.user \in Users /\ q.role \in Roles
      /\ q.row \in Rows \cup {"none"}
    BY <1>3, Fields
<1>5. Rows5' /\ RowsKept
  <2>1. IF q.row = "none" THEN InsertMember(q.project, q.user, q.role)
        ELSE SetRole(q.row, q.role)
      BY <1>3 DEF WriteMember
  <2> QED BY <1>1, <1>3, <1>4, <2>1, WriteKeeps
<1>6. ApprovedWereMembers'
    BY <1>3, <1>5, SameApprovals DEF Rows5
<1>7. CounterAhead'
    BY <1>1, <1>3, IdleSound, CounterKept DEF IInv
<1> QED BY <1>3, <1>5, <1>6, <1>7, IdleSound DEF Sound

LEMMA GrantKeeps ==
    ASSUME IInv, NEW c \in Clients, CommitGrant(c)
    PROVE  Sound(c) /\ CounterAhead'
<1>1. Rows5 /\ req \in [Clients -> Requests] /\ StillLoaded(req[c])
    BY DEF IInv, TypeOK, RowTypes, Rows5
<1>2. PICK q \in Requests : q = req[c]
    BY <1>1
<1>3. q.op = "approve" /\ WriteMember(q) /\ UNCHANGED <<project, ask, counter, artefacts>>
    BY <1>2 DEF CommitGrant
<1>4. /\ q.project \in Projects /\ q.user \in Users /\ q.role \in Roles
      /\ q.row \in Rows \cup {"none"} /\ q.ask \in Asks
    BY <1>3, Fields
<1>5. PICK next \in Requests : /\ next.op = "approved" /\ next.ask = q.ask
                               /\ req' = [req EXCEPT ![c] = next]
  <2> DEFINE new == [op |-> "approved", ask |-> q.ask, role |-> q.role]
  <2>1. new \in Requests /\ new.op = "approved" /\ new.ask = q.ask
      BY <1>4 DEF Requests
  <2>2. req' = [req EXCEPT ![c] = new]
      BY <1>2 DEF CommitGrant, Step
  <2> QED BY <2>1, <2>2
<1>6. /\ Rows5' /\ RowsKept
      /\ q.row = "none" => \E x \in Rows : /\ MemberExists(x)'
                                           /\ member'[x].project = q.project
                                           /\ member'[x].user = q.user
      /\ q.row # "none" => /\ q.row \in Rows
                           /\ MemberExists(q.row) /\ MemberExists(q.row)'
  <2>1. IF q.row = "none" THEN InsertMember(q.project, q.user, q.role)
        ELSE SetRole(q.row, q.role)
      BY <1>3 DEF WriteMember
  <2> QED BY <1>1, <1>3, <1>4, <2>1, WriteKeeps
<1>7. ApprovedWereMembers'
    BY <1>3, <1>6, SameApprovals DEF Rows5
<1>8. /\ ask[q.ask] # NoAsk
      /\ AskExists(q.ask) => ask[q.ask].project = q.project /\ ask[q.ask].user = q.user
      /\ q.row # "none" => /\ member[q.row] # NoMember
                           /\ MemberExists(q.row) => /\ member[q.row].project = q.project
                                                     /\ member[q.row].user = q.user
    BY <1>1, <1>2, <1>3 DEF StillLoaded
<1>9. \E x \in Rows : /\ MemberExists(x)' /\ member'[x].project = q.project
                      /\ member'[x].user = q.user
  <2>1. CASE q.row # "none"
      BY <1>6, <1>8, <2>1 DEF RowsKept
  <2> QED BY <1>6, <2>1
<1>10. StillLoaded(next)'
  <2>1. ask'[next.ask] # NoAsk
      BY <1>3, <1>5, <1>8
  <2>2. AskExists(next.ask)' => WasMember(ask[next.ask].project, ask[next.ask].user)'
      BY <1>3, <1>5, <1>8, <1>9 DEF AskExists, WasMember
  <2> QED BY <1>5, <2>1, <2>2 DEF StillLoaded
<1>11. CounterAhead'
    BY <1>1, <1>3, <1>5, CounterKept DEF IInv
<1> QED BY <1>5, <1>6, <1>7, <1>10, <1>11 DEF Sound

LEMMA RemoveMemberKeeps ==
    ASSUME IInv, NEW c \in Clients, CommitRemoveMember(c)
    PROVE  Sound(c) /\ CounterAhead'
<1>1. Rows5 /\ req \in [Clients -> Requests]
    BY DEF IInv, TypeOK, RowTypes, Rows5
<1>2. PICK m \in Rows :
        /\ MemberExists(m)
        /\ MemberRows(member[m].project, member[m].user, "removed") \subseteq {m}
        /\ member' = [member EXCEPT ![m].status = "removed"]
    BY <1>1, Fields DEF CommitRemoveMember
<1>3. UNCHANGED <<project, ask, counter, artefacts>> /\ req' = [req EXCEPT ![c] = Idle]
    BY DEF CommitRemoveMember, End, Step
<1>4. member[m] \in Members
    BY <1>1, <1>2, RowFields DEF Rows5
<1>5. PICK new \in Members :
        /\ new = [member[m] EXCEPT !.status = "removed"] /\ new.project = member[m].project
        /\ new.user = member[m].user /\ new.status = "removed"
  <2> DEFINE new == [member[m] EXCEPT !.status = "removed"]
  <2>1. /\ new \in Members /\ new.project = member[m].project
        /\ new.user = member[m].user /\ new.status = "removed"
      BY <1>4 DEF Members
  <2> QED BY <2>1
<1>6. member' = [member EXCEPT ![m] = new]
    BY <1>2, <1>5
<1>7. UNCHANGED <<project, ask>>
    BY <1>3
<1>8. /\ member' \in [Rows -> Members \cup {NoMember, Deleted}]
      /\ \A y \in Rows : MemberExists(y)' => ProjectExists(member[y].project)'
      /\ OneMembership' /\ RowsKept
    BY <1>1, <1>2, <1>5, <1>6, <1>7, ChangeKeeps
<1>9. Rows5'
    BY <1>1, <1>3, <1>8, MembersOnly
<1>10. ApprovedWereMembers'
    BY <1>3, <1>8, <1>9, SameApprovals DEF Rows5
<1>11. CounterAhead'
    BY <1>1, <1>3, IdleSound, CounterKept DEF IInv
<1> QED BY <1>3, <1>8, <1>9, <1>10, <1>11, IdleSound DEF Sound

\* request_access and the decision of a request: memberships stay.
LEMMA AsksOnly ==
    ASSUME Rows5, UNCHANGED <<project, member, counter, artefacts>>,
           ask' \in [Asks -> AskRows \cup {NoAsk, Deleted}],
           \A r \in Asks : AskExists(r)' => ProjectExists(ask'[r].project)
    PROVE  Rows5'
<1>1. RowTypes'
    BY DEF Rows5, RowTypes
<1>2. \A m \in Rows : MemberExists(m)' => ProjectExists(member[m].project)'
    BY DEF Rows5, RowsHaveProject, MemberExists, ProjectExists
<1>3. \A r \in Asks : AskExists(r)' => ProjectExists(ask[r].project)'
    BY DEF ProjectExists
<1>4. OneMembership'
    BY DEF Rows5, OneMembership, MemberExists
<1> QED BY <1>1, <1>2, <1>3, <1>4 DEF Rows5, RowsHaveProject, ProjectExists

LEMMA RequestAccessKeeps ==
    ASSUME IInv, NEW c \in Clients, NEW r \in Asks, CommitRequestAccess(c, r)
    PROVE  Sound(c) /\ CounterAhead'
<1>1. Rows5 /\ req \in [Clients -> Requests]
    BY DEF IInv, TypeOK, RowTypes, Rows5
<1>2. PICK q \in Requests : q = req[c]
    BY <1>1
<1>3. /\ q.op = "ask" /\ ProjectExists(q.project) /\ ask[r] = NoAsk
      /\ ask' = [ask EXCEPT ![r] = [project |-> q.project, user |-> q.user,
                                    role |-> q.role, status |-> "pending"]]
      /\ UNCHANGED <<project, member, counter, artefacts>>
      /\ req' = [req EXCEPT ![c] = Idle]
    BY <1>2 DEF CommitRequestAccess, End, Step
<1>4. q.project \in Projects /\ q.user \in Users /\ q.role \in Roles
    BY <1>3, Fields
<1>5. PICK new \in AskRows : /\ new.project = q.project /\ new.status = "pending"
                             /\ ask' = [ask EXCEPT ![r] = new]
  <2> DEFINE new == [project |-> q.project, user |-> q.user, role |-> q.role,
                     status |-> "pending"]
  <2>1. new \in AskRows /\ new.project = q.project /\ new.status = "pending"
      BY <1>4 DEF AskRows
  <2> QED BY <1>3, <2>1
<1>6. ask \in [Asks -> AskRows \cup {NoAsk, Deleted}]
    BY <1>1 DEF Rows5, RowTypes
<1>7. ask' \in [Asks -> AskRows \cup {NoAsk, Deleted}] /\ ask'[r] = new
    BY <1>5, <1>6
<1>8. \A x \in Asks : x # r => ask'[x] = ask[x]
    BY <1>5, <1>6
<1>9. Rows5'
  <2>1. ASSUME NEW x \in Asks, AskExists(x)' PROVE ProjectExists(ask'[x].project)
    <3>1. CASE x = r
        BY <1>3, <1>5, <1>7, <3>1
    <3>2. CASE x # r
        BY <1>1, <1>8, <2>1, <3>2 DEF Rows5, RowsHaveProject, AskExists
    <3> QED BY <3>1, <3>2
  <2> QED BY <1>1, <1>3, <1>7, <2>1, AsksOnly
<1>10. RowsKept
  <2>1. \A x \in Asks : ask[x] # NoAsk => ask'[x] = ask[x]
      BY <1>3, <1>8
  <2> QED BY <1>3, <2>1 DEF RowsKept, AskExists, MemberExists
<1>11. ApprovedWereMembers'
  <2>1. \A x \in Asks : ask'[x].status = "approved" => ask[x].status = "approved"
      BY <1>5, <1>7, <1>8
  <2> QED BY <1>9, <1>10, <2>1, SameApprovals DEF Rows5
<1>12. CounterAhead'
    BY <1>1, <1>3, IdleSound, CounterKept DEF IInv
<1> QED BY <1>3, <1>9, <1>10, <1>11, <1>12, IdleSound DEF Sound

LEMMA DecisionKeeps ==
    ASSUME IInv, NEW c \in Clients, CommitDecision(c)
    PROVE  Sound(c) /\ CounterAhead'
<1>1. Rows5 /\ req \in [Clients -> Requests] /\ StillLoaded(req[c])
    BY DEF IInv, TypeOK, RowTypes, Rows5
<1>2. PICK q \in Requests : q = req[c]
    BY <1>1
<1>3. /\ q.op \in {"approved", "denied"} /\ AskExists(q.ask)
      /\ ask' = [ask EXCEPT ![q.ask].status = q.op, ![q.ask].role = q.role]
      /\ UNCHANGED <<project, member, counter, artefacts>>
      /\ req' = [req EXCEPT ![c] = Idle]
    BY <1>2 DEF CommitDecision, End, Step
<1>4. q.ask \in Asks /\ q.role \in Roles
    BY <1>3, Fields
<1>5. /\ ask \in [Asks -> AskRows \cup {NoAsk, Deleted}] /\ ask[q.ask] \in AskRows
    BY <1>1, <1>3, <1>4, RowFields DEF Rows5, RowTypes
<1>6. PICK new \in AskRows : /\ new.project = ask[q.ask].project
                             /\ new.user = ask[q.ask].user /\ new.status = q.op
                             /\ ask' = [ask EXCEPT ![q.ask] = new]
  <2> DEFINE new == [ask[q.ask] EXCEPT !.status = q.op, !.role = q.role]
  <2>1. /\ new \in AskRows /\ new.project = ask[q.ask].project
        /\ new.user = ask[q.ask].user /\ new.status = q.op
      BY <1>3, <1>4, <1>5 DEF AskRows
  <2>2. ask' = [ask EXCEPT ![q.ask] = new]
      BY <1>3, <1>4, <1>5 DEF AskRows
  <2> QED BY <2>1, <2>2
<1>7. ask' \in [Asks -> AskRows \cup {NoAsk, Deleted}] /\ ask'[q.ask] = new
    BY <1>4, <1>5, <1>6
<1>8. \A x \in Asks : x # q.ask => ask'[x] = ask[x]
    BY <1>5, <1>6
<1>9. Rows5'
  <2>1. ASSUME NEW x \in Asks, AskExists(x)' PROVE ProjectExists(ask'[x].project)
    <3>1. CASE x = q.ask
        BY <1>1, <1>3, <1>6, <1>7, <3>1 DEF Rows5, RowsHaveProject
    <3>2. CASE x # q.ask
        BY <1>1, <1>8, <2>1, <3>2 DEF Rows5, RowsHaveProject, AskExists
    <3> QED BY <3>1, <3>2
  <2> QED BY <1>1, <1>3, <1>7, <2>1, AsksOnly
<1>10. RowsKept
  <2>1. new # NoAsk
      BY DEF AskRows, NoAsk
  <2>2. \A x \in Asks : /\ ask[x] # NoAsk => ask'[x] # NoAsk
                        /\ AskExists(x)' => AskExists(x)
      BY <1>3, <1>7, <1>8, <2>1 DEF AskExists
  <2>3. \A x \in Asks : AskExists(x) => /\ ask'[x].project = ask[x].project
                                       /\ ask'[x].user = ask[x].user
      BY <1>6, <1>7, <1>8
  <2> QED BY <1>3, <2>2, <2>3 DEF RowsKept, MemberExists
<1>11. ApprovedWereMembers'
  <2>1. \A x \in Asks : ask'[x].status = "approved" =>
            \/ ask[x].status = "approved"
            \/ AskExists(x) /\ WasMember(ask[x].project, ask[x].user)
      BY <1>1, <1>2, <1>3, <1>6, <1>7, <1>8 DEF StillLoaded
  <2> QED BY <1>1, <1>9, <1>10, <2>1, ApprovalsKept DEF IInv, Rows5
<1>12. CounterAhead'
    BY <1>1, <1>3, IdleSound, CounterKept DEF IInv
<1> QED BY <1>3, <1>9, <1>10, <1>11, <1>12, IdleSound DEF Sound

-----------------------------------------------------------------------------
\* Where only the keys of a project that exists change, the rows are kept.
LEMMA KeysOnly ==
    ASSUME IInv, UNCHANGED <<project, member, ask>>, NEW p \in Projects, ProjectExists(p),
           counter' \in [Projects -> Nat], artefacts' \in [Projects -> SUBSET (Nat \ {0})],
           \A x \in Projects : x # p => /\ counter'[x] = counter[x]
                                        /\ artefacts'[x] = artefacts[x]
    PROVE  Rows5' /\ RowsKept /\ ApprovedWereMembers'
<1>1. Rows5
    BY DEF IInv, TypeOK, RowTypes, Rows5
<1>2. RowTypes'
    BY <1>1 DEF Rows5, RowTypes
<1>3. \A m \in Rows : MemberExists(m)' => ProjectExists(member[m].project)'
    BY <1>1 DEF Rows5, RowsHaveProject, MemberExists, ProjectExists
<1>4. \A r \in Asks : AskExists(r)' => ProjectExists(ask[r].project)'
    BY <1>1 DEF Rows5, RowsHaveProject, AskExists, ProjectExists
<1>5. \A x \in Projects : (counter[x] # 0 \/ artefacts[x] # {})' => ProjectExists(x)'
    BY <1>1 DEF Rows5, RowsHaveProject, ProjectExists
<1>6. \A x, y \in Projects :
          ProjectExists(x)' /\ ProjectExists(y)' /\ KeyOf[x] = KeyOf[y] => x = y
    BY <1>1 DEF Rows5, RowsHaveProject, ProjectExists
<1>7. RowsHaveProject'
    BY <1>3, <1>4, <1>5, <1>6 DEF RowsHaveProject
<1>8. OneMembership'
    BY <1>1 DEF Rows5, OneMembership, MemberExists
<1>9. RowsKept
    BY DEF RowsKept, MemberExists, AskExists
<1>10. ApprovedWereMembers'
    BY <1>2, <1>9, SameApprovals
<1> QED BY <1>2, <1>7, <1>8, <1>9, <1>10 DEF Rows5

\* Whoever sees the counter free and reads it is the only one who has.
LEMMA MintedAlone ==
    ASSUME IInv, NEW c \in Clients, NEW p \in Projects, CounterFree(p),
           NEW next \in Requests, next.op = "minted", next.project = p,
           next.seq = (IF counter[p] = 0 THEN 1 ELSE counter[p]),
           req' = [req EXCEPT ![c] = next], UNCHANGED <<counter, artefacts>>
    PROVE  CounterAhead'
<1>1. req \in [Clients -> Requests] /\ CounterAhead
    BY DEF IInv, TypeOK
<1>2. req'[c] = next /\ \A d \in Clients : d # c => req'[d] = req[d]
    BY <1>1
<1>3. \A d \in Clients : d # c /\ req[d].op = "minted" => req[d].project # p
    BY DEF CounterFree
<1>4. \A x \in Projects : \A k \in artefacts'[x] : k < counter'[x]
    BY <1>1 DEF CounterAhead
<1>5. ASSUME NEW d \in Clients, req'[d].op = "minted"
      PROVE  /\ req'[d].seq = (IF counter'[req'[d].project] = 0 THEN 1
                               ELSE counter'[req'[d].project])
             /\ \A e \in Clients : req'[e].op = "minted" /\ req'[e].project = req'[d].project
                                   => e = d
  <2>1. CASE d = c
      BY <1>2, <1>3, <2>1
  <2>2. CASE d # c
      BY <1>1, <1>2, <1>3, <1>5, <2>2 DEF CounterAhead
  <2> QED BY <2>1, <2>2
<1> QED BY <1>4, <1>5 DEF CounterAhead

LEMMA LockCounterKeeps ==
    ASSUME IInv, NEW c \in Clients, LockCounter(c)
    PROVE  Sound(c) /\ CounterAhead'
<1>1. Rows5 /\ req \in [Clients -> Requests] /\ counter \in [Projects -> Nat]
    BY DEF IInv, TypeOK, RowTypes, Rows5
<1>2. PICK p \in Projects : p = req[c].project /\ ProjectExists(p)
    BY <1>1, Fields DEF LockCounter
<1>3. UNCHANGED <<project, member, ask, counter, artefacts>>
    BY DEF LockCounter
<1>4. Rows5' /\ RowsKept /\ ApprovedWereMembers'
    BY <1>1, <1>2, <1>3, KeysOnly DEF Rows5, RowTypes
<1>5. CASE counter[p] = 0 /\ Step(c, [op |-> "first", project |-> p])
  <2> DEFINE new == [op |-> "first", project |-> p]
  <2>1. new \in Requests /\ new.op = "first"
      BY DEF Requests
  <2>2. req' = [req EXCEPT ![c] = new]
      BY <1>5 DEF Step
  <2>3. StillLoaded(new)'
      BY DEF StillLoaded
  <2>4. CounterAhead'
      BY <1>1, <1>3, <2>1, <2>2, CounterKept DEF IInv
  <2> QED BY <1>4, <2>1, <2>2, <2>3, <2>4 DEF Sound
<1>6. CASE /\ counter[p] # 0 /\ CounterFree(p)
           /\ Step(c, [op |-> "minted", project |-> p, seq |-> counter[p]])
  <2>1. PICK new : new = [op |-> "minted", project |-> p, seq |-> counter[p]]
      OBVIOUS
  <2>2. new \in Requests /\ new.op = "minted" /\ new.project = p /\ new.seq = counter[p]
      BY <1>1, <2>1 DEF Requests
  <2>3. req' = [req EXCEPT ![c] = new]
      BY <1>6, <2>1 DEF Step
  <2>4. StillLoaded(new)'
      BY <2>2 DEF StillLoaded
  <2>5. CounterAhead'
      BY <1>3, <1>6, <2>2, <2>3, MintedAlone
  <2> QED BY <1>4, <2>2, <2>3, <2>4, <2>5 DEF Sound
<1> QED BY <1>2, <1>5, <1>6 DEF LockCounter

LEMMA InsertCounterKeeps ==
    ASSUME IInv, NEW c \in Clients, InsertCounter(c)
    PROVE  Sound(c) /\ CounterAhead'
<1>1. Rows5 /\ req \in [Clients -> Requests]
    BY DEF IInv, TypeOK, RowTypes, Rows5
<1>2. PICK p \in Projects : p = req[c].project
    BY <1>1, Fields DEF InsertCounter
<1>3. /\ ProjectExists(p) /\ counter[p] = 0 /\ CounterFree(p)
      /\ Step(c, [op |-> "minted", project |-> p, seq |-> 1])
      /\ UNCHANGED <<project, member, ask, counter, artefacts>>
    BY <1>2 DEF InsertCounter
<1>4. Rows5' /\ RowsKept /\ ApprovedWereMembers'
    BY <1>1, <1>3, KeysOnly DEF Rows5, RowTypes
<1>5. PICK new \in Requests : /\ new.op = "minted" /\ new.project = p /\ new.seq = 1
                              /\ req' = [req EXCEPT ![c] = new]
  <2> DEFINE new == [op |-> "minted", project |-> p, seq |-> 1]
  <2>1. new \in Requests /\ new.op = "minted" /\ new.project = p /\ new.seq = 1
      BY DEF Requests
  <2>2. req' = [req EXCEPT ![c] = new]
      BY <1>3 DEF Step
  <2> QED BY <2>1, <2>2
<1>6. StillLoaded(new)'
    BY <1>5 DEF StillLoaded
<1>7. CounterAhead'
    BY <1>3, <1>5, MintedAlone
<1> QED BY <1>4, <1>5, <1>6, <1>7 DEF Sound

LEMMA CreateKeeps ==
    ASSUME IInv, NEW c \in Clients, CommitCreate(c)
    PROVE  Sound(c) /\ CounterAhead'
<1>1. /\ Rows5 /\ req \in [Clients -> Requests] /\ counter \in [Projects -> Nat]
      /\ artefacts \in [Projects -> SUBSET (Nat \ {0})] /\ CounterAhead
    BY DEF IInv, TypeOK, RowTypes, Rows5
<1>2. PICK q \in Requests : q = req[c]
    BY <1>1
<1>3. PICK p \in Projects, n \in Nat : p = q.project /\ n = q.seq
    BY <1>2, Fields DEF CommitCreate
<1>4. /\ q.op = "minted" /\ ProjectExists(p)
      /\ artefacts' = [artefacts EXCEPT ![p] = @ \cup {n}]
      /\ counter' = [counter EXCEPT ![p] = n + 1]
      /\ req' = [req EXCEPT ![c] = Idle] /\ UNCHANGED <<project, member, ask>>
    BY <1>2, <1>3 DEF CommitCreate, End, Step
<1>5. n = (IF counter[p] = 0 THEN 1 ELSE counter[p])
    BY <1>1, <1>2, <1>3, <1>4 DEF CounterAhead
<1>6. n # 0 /\ n >= counter[p]
    BY <1>1, <1>5
<1>7. /\ counter' \in [Projects -> Nat] /\ counter'[p] = n + 1
      /\ artefacts' \in [Projects -> SUBSET (Nat \ {0})]
      /\ artefacts'[p] = artefacts[p] \cup {n}
    BY <1>1, <1>4, <1>6
<1>8. \A x \in Projects : x # p => counter'[x] = counter[x] /\ artefacts'[x] = artefacts[x]
    BY <1>1, <1>4
<1>9. Rows5' /\ RowsKept /\ ApprovedWereMembers'
    BY <1>4, <1>7, <1>8, KeysOnly
<1>10. \A d \in Clients : req'[d].op = "minted" =>
           /\ req'[d] = req[d] /\ d # c /\ req[d].project # p /\ req[d].project \in Projects
  <2>1. \A d \in Clients : req'[d].op = "minted" => d # c /\ req'[d] = req[d]
      BY <1>1, <1>4, IdleSound
  <2>2. \A d \in Clients : req[d].op = "minted" => req[d].project \in Projects
      BY <1>1, Fields
  <2> QED BY <1>1, <1>2, <1>3, <1>4, <2>1, <2>2 DEF CounterAhead
<1>11. CounterAhead'
  <2>1. ASSUME NEW x \in Projects, NEW k \in artefacts'[x] PROVE k < counter'[x]
    <3>1. CASE x = p
      <4>1. CASE k = n
          BY <1>7, <3>1, <4>1
      <4>2. CASE k # n
        <5>1. k \in artefacts[p]
            BY <1>7, <2>1, <3>1, <4>2
        <5>2. k \in Nat /\ k < counter[p]
            BY <1>1, <5>1 DEF CounterAhead
        <5> QED BY <1>1, <1>6, <1>7, <3>1, <5>2
      <4> QED BY <4>1, <4>2
    <3>2. CASE x # p
        BY <1>1, <1>8, <2>1, <3>2 DEF CounterAhead
    <3> QED BY <3>1, <3>2
  <2> QED BY <1>1, <1>8, <1>10, <2>1 DEF CounterAhead
<1> QED BY <1>4, <1>9, <1>11, IdleSound DEF Sound

-----------------------------------------------------------------------------
\* A step of one request that keeps the rows keeps everything.
LEMMA RequestKeeps ==
    ASSUME IInv, NEW c \in Clients, Sound(c), CounterAhead', overlapped' \in BOOLEAN
    PROVE  IInv'
<1>1. req \in [Clients -> Requests] /\ RowTypes
    BY DEF IInv, TypeOK, RowTypes
<1>2. PICK q \in Requests : StillLoaded(q)' /\ req' = [req EXCEPT ![c] = q]
    BY DEF Sound
<1>3. Rows5' /\ RowsKept /\ ApprovedWereMembers' /\ RowTypes'
    BY DEF Sound, Rows5
<1>4. req' \in [Clients -> Requests]
    BY <1>1, <1>2
<1>5. ASSUME NEW d \in Clients PROVE StillLoaded(req[d])'
  <2>1. CASE d = c
    <3>1. req'[d] = q
        BY <1>1, <1>2, <2>1
    <3> QED BY <1>2, <3>1 DEF StillLoaded
  <2>2. CASE d # c
    <3>1. PICK x \in Requests : x = req[d] /\ StillLoaded(x)
        BY <1>1 DEF IInv
    <3>2. StillLoaded(x)'
        BY <1>1, <1>3, <3>1, StillSound
    <3>3. req'[d] = x
        BY <1>1, <1>2, <2>2, <3>1
    <3> QED BY <3>2, <3>3 DEF StillLoaded
  <2> QED BY <2>1, <2>2
<1>6. TypeOK'
    BY <1>3, <1>4, Zenon DEF TypeOK, RowTypes
<1> QED BY <1>3, <1>5, <1>6 DEF IInv, Rows5

\* A request that begins, that is refused, or a row that is deleted: what was
\* already in flight is as sound as before.
LEMMA BeginKeeps ==
    ASSUME IInv, NEW c \in Clients, Call(c)
    PROVE  Sound(c) /\ CounterAhead' /\ overlapped' \in BOOLEAN
<1>1. PICK q \in Requests : StillLoaded(q) /\ q.op # "minted" /\ Begin(c, q)
    BY LoadStep
<1>2. /\ UNCHANGED <<project, member, ask, counter, artefacts>>
      /\ req' = [req EXCEPT ![c] = q]
      /\ overlapped' = (overlapped \/ \E d \in Clients : req[d] # Idle)
    BY <1>1 DEF Begin
<1>3. RowTypes /\ Rows5 /\ req \in [Clients -> Requests]
    BY DEF IInv, TypeOK, RowTypes, Rows5
<1>4. RowTypes'
    BY <1>2, <1>3 DEF RowTypes
<1>5. RowsKept
    BY <1>2, <1>3, NothingChanged
<1>6. StillLoaded(q)'
    BY <1>1, <1>3, <1>4, <1>5, StillSound
<1>7. Rows5'
    BY <1>2, <1>3, <1>4
       DEF Rows5, RowsHaveProject, OneMembership, MemberExists, AskExists, ProjectExists
<1>8. ApprovedWereMembers'
    BY <1>2, <1>4, <1>5, SameApprovals
<1>9. CounterAhead'
    BY <1>1, <1>2, <1>3, CounterKept DEF IInv
<1>10. overlapped' \in BOOLEAN
    BY <1>2, Zenon DEF IInv, TypeOK
<1> QED BY <1>2, <1>5, <1>6, <1>7, <1>8, <1>9, <1>10 DEF Sound

LEMMA RefusedKeeps ==
    ASSUME IInv, NEW c \in Clients, Refused(c)
    PROVE  Sound(c) /\ CounterAhead'
<1>1. /\ UNCHANGED <<project, member, ask, counter, artefacts>>
      /\ req' = [req EXCEPT ![c] = Idle]
    BY DEF Refused, End, Step
<1>2. RowTypes /\ Rows5 /\ req \in [Clients -> Requests]
    BY DEF IInv, TypeOK, RowTypes, Rows5
<1>3. RowTypes' /\ RowsKept
    BY <1>1, <1>2, NothingChanged DEF RowTypes
<1>4. Rows5'
    BY <1>1, <1>2, <1>3
       DEF Rows5, RowsHaveProject, OneMembership, MemberExists, AskExists, ProjectExists
<1>5. ApprovedWereMembers'
    BY <1>1, <1>3, SameApprovals
<1>6. CounterAhead'
    BY <1>1, <1>2, IdleSound, CounterKept DEF IInv
<1> QED BY <1>1, <1>3, <1>4, <1>5, <1>6, IdleSound DEF Sound

LEMMA CommitKeeps ==
    ASSUME IInv, NEW c \in Clients, Commit(c)
    PROVE  Sound(c) /\ CounterAhead' /\ UNCHANGED overlapped
<1>1. Sound(c) /\ CounterAhead'
    BY CreateProjectKeeps, ArchiveProjectKeeps, DeleteProjectKeeps, AddMemberKeeps,
       RemoveMemberKeeps, RequestAccessKeeps, GrantKeeps, DecisionKeeps, LockCounterKeeps,
       InsertCounterKeeps, CreateKeeps DEF Commit
<1>2. UNCHANGED overlapped
    BY DEF Commit, CommitCreateProject, CommitArchiveProject, CommitDeleteProject,
           CommitAddMember, CommitRemoveMember, CommitRequestAccess, CommitGrant,
           CommitDecision, LockCounter, InsertCounter, CommitCreate, End, Step
<1> QED BY <1>1, <1>2

LEMMA DeleteArtefactKeeps ==
    ASSUME IInv, NEW p \in Projects, NEW k, DeleteArtefact(p, k)
    PROVE  IInv'
<1>1. /\ Rows5 /\ req \in [Clients -> Requests] /\ CounterAhead
      /\ artefacts \in [Projects -> SUBSET (Nat \ {0})] /\ counter \in [Projects -> Nat]
    BY DEF IInv, TypeOK, RowTypes, Rows5
<1>2. /\ k \in artefacts[p] /\ artefacts' = [artefacts EXCEPT ![p] = @ \ {k}]
      /\ UNCHANGED <<project, member, ask, counter, req, overlapped>>
    BY DEF DeleteArtefact
<1>3. ProjectExists(p)
    BY <1>1, <1>2 DEF Rows5, RowsHaveProject
<1>4. artefacts' \in [Projects -> SUBSET (Nat \ {0})]
    BY <1>1, <1>2
<1>5. \A x \in Projects : x # p => artefacts'[x] = artefacts[x]
    BY <1>1, <1>2
<1>6. Rows5' /\ RowsKept /\ ApprovedWereMembers'
    BY <1>1, <1>2, <1>3, <1>4, <1>5, KeysOnly
<1>7. CounterAhead'
    BY <1>1, <1>2 DEF CounterAhead
<1>8. \A c \in Clients : StillLoaded(req[c])'
  <2>1. \A c \in Clients : StillLoaded(req[c])
      BY DEF IInv
  <2> QED BY <1>2, <2>1 DEF StillLoaded, WasMember, MemberExists, AskExists
<1>9. TypeOK'
    BY <1>2, <1>6, Zenon DEF TypeOK, RowTypes, Rows5, IInv
<1> QED BY <1>6, <1>7, <1>8, <1>9 DEF IInv, Rows5

LEMMA InitIInv == Init => IInv
<1> SUFFICES ASSUME Init PROVE IInv
    OBVIOUS
<1> USE ProjectsAssumption DEF Init
<1>1. TypeOK
  <2>1. overlapped \in BOOLEAN
      OBVIOUS
  <2> QED BY <2>1 DEF TypeOK, Requests
<1>2. \A m \in Rows : ~MemberExists(m)
    BY DEF MemberExists, NoMember
<1>3. \A r \in Asks : ~AskExists(r) /\ ask[r].status # "approved"
    BY DEF AskExists, NoAsk
<1>4. \A p \in Projects : ~ProjectExists(p) /\ counter[p] = 0 /\ artefacts[p] = {}
    BY DEF ProjectExists
<1>5. RowsHaveProject /\ OneMembership /\ ApprovedWereMembers
    BY <1>2, <1>3, <1>4 DEF RowsHaveProject, OneMembership, ApprovedWereMembers
<1>6. \A c \in Clients : req[c].op = "none"
    BY DEF Idle
<1> QED BY <1>1, <1>4, <1>5, <1>6 DEF IInv, CounterAhead, StillLoaded

LEMMA NextIInv == IInv /\ [Next]_vars => IInv'
<1> SUFFICES ASSUME IInv, [Next]_vars PROVE IInv'
    OBVIOUS
<1>1. ASSUME NEW c \in Clients, Call(c) PROVE IInv'
    BY <1>1, BeginKeeps, RequestKeeps
<1>2. ASSUME NEW c \in Clients, Commit(c) PROVE IInv'
  <2>1. overlapped' \in BOOLEAN
      BY <1>2, CommitKeeps, Zenon DEF IInv, TypeOK
  <2> QED BY <1>2, <2>1, CommitKeeps, RequestKeeps
<1>3. ASSUME NEW c \in Clients, Refused(c) PROVE IInv'
  <2>1. overlapped' \in BOOLEAN
      BY <1>3, Zenon DEF IInv, TypeOK, Refused, End, Step
  <2> QED BY <1>3, <2>1, RefusedKeeps, RequestKeeps
<1>4. ASSUME NEW p \in Projects, NEW k \in 1..MaxSeq, DeleteArtefact(p, k) PROVE IInv'
    BY <1>4, DeleteArtefactKeeps
<1>5. CASE UNCHANGED vars
  <2>1. UNCHANGED <<project, member, ask, counter, artefacts, req, overlapped>>
      BY <1>5 DEF vars
  <2>2. TypeOK'
      BY <2>1, Zenon DEF IInv, TypeOK
  <2>3. RowsHaveProject' /\ OneMembership' /\ ApprovedWereMembers'
      BY <2>1 DEF IInv, RowsHaveProject, OneMembership, ApprovedWereMembers, WasMember,
                  MemberExists, AskExists, ProjectExists
  <2>4. CounterAhead'
      BY <2>1 DEF IInv, CounterAhead
  <2>5. \A c \in Clients : StillLoaded(req[c])'
      BY <2>1 DEF IInv, StillLoaded, WasMember, MemberExists, AskExists
  <2> QED BY <2>2, <2>3, <2>4, <2>5 DEF IInv
<1> QED BY <1>1, <1>2, <1>3, <1>4, <1>5 DEF Next

(* However requests overlap, rows belong to projects that exist, nobody is  *)
(* a member of a project twice, keys lie below their counter and at most    *)
(* one request holds the next one (models.py, keys.py).                     *)
THEOREM Invariance == Spec => []IInv
BY InitIInv, NextIInv, PTL DEF Spec

(* An approval always comes with a membership of the user, whichever of the *)
(* two transactions of decide_request fails, and whoever else decides.      *)
THEOREM ApprovedWereLetIn == Spec => []ApprovedWereMembers
<1>1. IInv => ApprovedWereMembers
    BY DEF IInv
<1> QED BY <1>1, Invariance, PTL

-----------------------------------------------------------------------------
\* Of the requests' steps two change counters or keys.
LEMMA KeysStay ==
    ASSUME NEW c \in Clients, Call(c) \/ Commit(c) \/ Refused(c)
    PROVE  \/ UNCHANGED <<counter, artefacts>>
           \/ CommitDeleteProject(c) \/ CommitCreate(c)
<1>1. CASE Call(c)
    BY <1>1 DEF Call, LoadCreateProject, LoadArchiveProject, LoadDeleteProject, LoadCreate,
                LoadAddMember, LoadRequestAccess, LoadRemoveMember, LoadDeny, LoadApprove, Begin
<1>2. CASE Commit(c)
    BY <1>2 DEF Commit, CommitCreateProject, CommitArchiveProject, CommitAddMember,
                CommitRemoveMember, CommitRequestAccess, CommitGrant, CommitDecision,
                LockCounter, InsertCounter
<1>3. CASE Refused(c)
    BY <1>3 DEF Refused
<1> QED BY <1>1, <1>2, <1>3

(* A key is given once: a create takes the number its counter holds and     *)
(* leaves the counter above it, and a counter only goes back when its       *)
(* project is deleted (keys.py:3).                                          *)
THEOREM KeysGivenOnce == Spec => KeysNotReused
<1> DEFINE Fresh(p) ==
      /\ \A k \in artefacts'[p] \ artefacts[p] : k >= counter[p] /\ k < counter'[p]
      /\ counter'[p] < counter[p] => project'[p] = "deleted"
<1>1. ASSUME IInv, [Next]_vars, NEW p \in Projects PROVE Fresh(p)
  <2>1. /\ Rows5 /\ counter \in [Projects -> Nat] /\ req \in [Clients -> Requests]
        /\ project \in [Projects -> {"none", "active", "archived", "deleted"}]
        /\ artefacts \in [Projects -> SUBSET (Nat \ {0})] /\ CounterAhead
      BY <1>1 DEF IInv, TypeOK, RowTypes, Rows5
  <2>2. counter[p] \in Nat
      BY <2>1
  <2>3. CASE UNCHANGED <<counter, artefacts>>
      BY <2>2, <2>3
  <2>4. ASSUME NEW c \in Clients, CommitDeleteProject(c) PROVE Fresh(p)
    <3>1. PICK x \in Projects : x = req[c].project
        BY <2>1, <2>4, Fields DEF CommitDeleteProject
    <3>2. /\ project' = [project EXCEPT ![x] = "deleted"]
          /\ counter' = [counter EXCEPT ![x] = 0] /\ UNCHANGED artefacts
        BY <2>4, <3>1 DEF CommitDeleteProject
    <3> QED BY <2>1, <3>2
  <2>5. ASSUME NEW c \in Clients, CommitCreate(c) PROVE Fresh(p)
    <3>1. PICK q \in Requests : q = req[c] /\ q.op = "minted"
        BY <2>1, <2>5 DEF CommitCreate
    <3>2. PICK x \in Projects, n \in Nat : x = q.project /\ n = q.seq
        BY <3>1, Fields
    <3>3. /\ artefacts' = [artefacts EXCEPT ![x] = @ \cup {n}]
          /\ counter' = [counter EXCEPT ![x] = n + 1]
        BY <2>5, <3>1, <3>2 DEF CommitCreate
    <3>4. n >= counter[x]
        BY <2>1, <3>1, <3>2 DEF CounterAhead
    <3>5. CASE p = x
      <4>1. counter'[p] = n + 1 /\ artefacts'[p] = artefacts[p] \cup {n}
          BY <2>1, <3>3, <3>5
      <4> QED BY <2>2, <3>4, <3>5, <4>1
    <3>6. CASE p # x
        BY <2>1, <2>2, <3>3, <3>6
    <3> QED BY <3>5, <3>6
  <2>6. ASSUME NEW x \in Projects, NEW k, DeleteArtefact(x, k) PROVE Fresh(p)
      BY <2>1, <2>2, <2>6 DEF DeleteArtefact
  <2>7. CASE UNCHANGED vars
      BY <2>2, <2>7 DEF vars
  <2> QED BY <1>1, <2>3, <2>4, <2>5, <2>6, <2>7, KeysStay DEF Next
<1>2. IInv /\ [Next]_vars => [\A p \in Projects : Fresh(p)]_vars
    BY <1>1
<1> QED BY <1>2, Invariance, PTL DEF Spec, KeysNotReused

-----------------------------------------------------------------------------
(* With one request at a time.                                              *)

Deciding == {"approve", "approved", "denied"}

\* Who decides an access request found it pending, and it still is.
SerialInv ==
    ~overlapped =>
        /\ \A c, d \in Clients : req[c] # Idle /\ req[d] # Idle => c = d
        /\ \A c \in Clients : req[c].op \in Deciding => ask[req[c].ask].status = "pending"

SerialIInv == IInv /\ SerialInv

\* A decision comes from a handler that found the access request pending.
LEMMA DecisionLoads ==
    ASSUME IInv, NEW c \in Clients, Call(c), req'[c].op \in Deciding
    PROVE  ask[req'[c].ask].status = "pending"
<1>1. \A q : Begin(c, q) => req'[c] = q
    BY DEF Begin, IInv, TypeOK
<1>2. \A q : Begin(c, q) => q.op \in Deciding
    BY <1>1
<1>3. ASSUME NEW r \in Asks, LoadDeny(c, r) PROVE ask[req'[c].ask].status = "pending"
  <2>1. PICK q : q = [op |-> "denied", ask |-> r, role |-> ask[r].role]
      OBVIOUS
  <2>2. Begin(c, q) /\ q.ask = r /\ MayDecide(r)
      BY <1>3, <2>1 DEF LoadDeny
  <2> QED BY <1>1, <2>2 DEF MayDecide
<1>4. ASSUME NEW r \in Asks, NEW role, NEW m, LoadApprove(c, r, role, m)
      PROVE  ask[req'[c].ask].status = "pending"
  <2>1. PICK q : q = [op |-> "approve", ask |-> r, project |-> ask[r].project,
                      user |-> ask[r].user, role |-> role, row |-> m]
      OBVIOUS
  <2>2. Begin(c, q) /\ q.ask = r /\ MayDecide(r)
      BY <1>4, <2>1 DEF LoadApprove
  <2> QED BY <1>1, <2>2 DEF MayDecide
<1>5. \A p, u, role, m : /\ ~LoadCreateProject(c, u, p) /\ ~LoadArchiveProject(c, p)
                         /\ ~LoadDeleteProject(c, p) /\ ~LoadCreate(c, p)
                         /\ ~LoadAddMember(c, p, u, role, m)
                         /\ ~LoadRequestAccess(c, u, p, role) /\ ~LoadRemoveMember(c, m)
    BY <1>2 DEF LoadCreateProject, LoadArchiveProject, LoadDeleteProject, LoadCreate,
                LoadAddMember, LoadRequestAccess, LoadRemoveMember, Deciding
<1> QED BY <1>3, <1>4, <1>5 DEF Call

\* What a commit does with access requests, and what becomes of the request.
LEMMA CommitsAsks ==
    ASSUME IInv, NEW c \in Clients, Commit(c)
    PROVE  /\ req[c] # Idle
           /\ \E q : /\ req' = [req EXCEPT ![c] = q]
                     /\ q.op \in Deciding => /\ req[c].op \in Deciding /\ q.ask = req[c].ask
                                             /\ UNCHANGED ask
           /\ \A r \in Asks : \/ ask'[r] \in {ask[r], Deleted}
                              \/ ask[r] = NoAsk
                              \/ req[c].op \in Deciding /\ r = req[c].ask
<1>1. Idle.op = "none" /\ Idle.op \notin Deciding
    BY DEF Idle, Deciding
<1>2. /\ ask \in [Asks -> AskRows \cup {NoAsk, Deleted}] /\ req \in [Clients -> Requests]
    BY DEF IInv, TypeOK
<1> DEFINE Ends == \E q : /\ req' = [req EXCEPT ![c] = q]
                          /\ q.op \in Deciding => /\ req[c].op \in Deciding
                                                  /\ q.ask = req[c].ask /\ UNCHANGED ask
           Asked == \A r \in Asks : \/ ask'[r] \in {ask[r], Deleted}
                                    \/ ask[r] = NoAsk
                                    \/ req[c].op \in Deciding /\ r = req[c].ask
<1>3. req[c].op # "none"
    BY DEF Commit, CommitCreateProject, CommitArchiveProject, CommitDeleteProject,
           CommitAddMember, CommitRemoveMember, CommitRequestAccess, CommitGrant,
           CommitDecision, LockCounter, InsertCounter, CommitCreate
<1>4. End(c) => Ends
    BY <1>1 DEF End, Step
<1>5. UNCHANGED ask => Asked
    OBVIOUS
<1>6. CASE CommitGrant(c)
  <2>1. PICK q : /\ q = [op |-> "approved", ask |-> req[c].ask, role |-> req[c].role]
                 /\ Step(c, q)
      BY <1>6 DEF CommitGrant
  <2>2. q.ask = req[c].ask /\ req[c].op \in Deciding /\ UNCHANGED ask
      BY <1>6, <2>1 DEF CommitGrant, Deciding
  <2>3. Ends
      BY <2>1, <2>2 DEF Step
  <2> QED BY <1>1, <1>3, <1>5, <2>2, <2>3
<1>7. CASE LockCounter(c) \/ InsertCounter(c)
  <2>1. UNCHANGED ask
      BY <1>7 DEF LockCounter, InsertCounter
  <2>2. PICK q : Step(c, q) /\ q.op \notin Deciding
      BY <1>7 DEF LockCounter, InsertCounter, Deciding
  <2>3. Ends
      BY <2>2 DEF Step
  <2> QED BY <1>1, <1>3, <1>5, <2>1, <2>3
<1>8. CASE CommitDecision(c)
  <2>1. req[c].op \in Deciding /\ End(c)
      BY <1>8 DEF CommitDecision, Deciding
  <2>2. \A r \in Asks : r # req[c].ask => ask'[r] = ask[r]
      BY <1>2, <1>8 DEF CommitDecision
  <2>3. Asked
      BY <2>1, <2>2
  <2> QED BY <1>1, <1>3, <1>4, <2>1, <2>3
<1>9. ASSUME NEW n \in Asks, CommitRequestAccess(c, n)
      PROVE  Ends /\ Asked
  <2>1. ask[n] = NoAsk /\ \A r \in Asks : r # n => ask'[r] = ask[r]
      BY <1>2, <1>9 DEF CommitRequestAccess
  <2>2. Ends
      BY <1>4, <1>9 DEF CommitRequestAccess
  <2> QED BY <2>1, <2>2
<1>10. CASE CommitDeleteProject(c)
  <2>1. Asked
      BY <1>10 DEF CommitDeleteProject
  <2>2. Ends
      BY <1>4, <1>10 DEF CommitDeleteProject
  <2> QED BY <1>1, <1>3, <2>1, <2>2
<1>11. CASE \/ \E m \in Rows : CommitCreateProject(c, m)
            \/ CommitArchiveProject(c) \/ CommitAddMember(c) \/ CommitRemoveMember(c)
            \/ CommitCreate(c)
  <2>1. End(c) /\ UNCHANGED ask
      BY <1>11 DEF CommitCreateProject, CommitArchiveProject, CommitAddMember,
                   CommitRemoveMember, CommitCreate
  <2> QED BY <1>1, <1>3, <1>4, <1>5, <2>1
<1> HIDE DEF Ends, Asked
<1>12. Ends /\ Asked
    BY <1>6, <1>7, <1>8, <1>9, <1>10, <1>11 DEF Commit, Ends, Asked
<1> QED BY <1>1, <1>3, <1>12 DEF Ends, Asked

\* Alone, a decision finds its access request pending at the commit.
LEMMA NextAlone ==
    ASSUME SerialIInv, Next, ~overlapped'
    PROVE  /\ ~overlapped /\ SerialInv'
           /\ \A r \in Asks : ask[r].status \in {"approved", "denied"} =>
                 ask'[r] \in {ask[r], Deleted}
<1>1. IInv /\ SerialInv /\ req \in [Clients -> Requests]
    BY DEF SerialIInv, IInv, TypeOK
<1>2. Idle.op \notin Deciding
    BY DEF Idle, Deciding
<1>3. ASSUME NEW c \in Clients, Call(c)
      PROVE  ~overlapped /\ SerialInv' /\ UNCHANGED ask
  <2>1. PICK q \in Requests : Begin(c, q)
      BY <1>1, <1>3, LoadStep
  <2>2. /\ ~overlapped /\ UNCHANGED ask
        /\ \A d \in Clients : d # c => req'[d] = Idle
      BY <1>1, <2>1 DEF Begin
  <2>3. req'[c].op \in Deciding => ask[req'[c].ask].status = "pending"
      BY <1>1, <1>3, DecisionLoads
  <2>4. SerialInv'
      BY <1>2, <2>2, <2>3 DEF SerialInv
  <2> QED BY <2>2, <2>4
<1>4. ASSUME NEW c \in Clients, Commit(c)
      PROVE  /\ ~overlapped /\ SerialInv'
             /\ \A r \in Asks : ask[r].status \in {"approved", "denied"} =>
                   ask'[r] \in {ask[r], Deleted}
  <2>1. ~overlapped
      BY <1>1, <1>4, CommitKeeps
  <2>2. PICK q : /\ req' = [req EXCEPT ![c] = q]
                 /\ q.op \in Deciding => /\ req[c].op \in Deciding /\ q.ask = req[c].ask
                                         /\ UNCHANGED ask
      BY <1>1, <1>4, CommitsAsks
  <2>3. \A d \in Clients : d # c => req'[d] = Idle
      BY <1>1, <1>4, <2>1, <2>2, CommitsAsks DEF SerialInv
  <2>4. req'[c] = q
      BY <1>1, <2>2
  <2>5. q.op \in Deciding => ask'[q.ask].status = "pending"
      BY <1>1, <2>1, <2>2 DEF SerialInv
  <2>6. SerialInv'
      BY <1>2, <2>3, <2>4, <2>5 DEF SerialInv
  <2>7. ASSUME NEW r \in Asks, ask[r].status \in {"approved", "denied"}
        PROVE  ask'[r] \in {ask[r], Deleted}
    <3>1. ask[r] # NoAsk
        BY <2>7 DEF NoAsk
    <3>2. ~(req[c].op \in Deciding /\ r = req[c].ask)
        BY <1>1, <2>1, <2>7 DEF SerialInv
    <3> QED BY <1>1, <1>4, <3>1, <3>2, CommitsAsks
  <2> QED BY <2>1, <2>6, <2>7
<1>5. ASSUME NEW c \in Clients, Refused(c)
      PROVE  ~overlapped /\ SerialInv' /\ UNCHANGED ask
  <2>1. /\ ~overlapped /\ UNCHANGED ask /\ req' = [req EXCEPT ![c] = Idle] /\ req[c] # Idle
      BY <1>5 DEF Refused, End, Step
  <2>2. \A d \in Clients : req'[d] = Idle
      BY <1>1, <2>1 DEF SerialInv
  <2> QED BY <1>2, <2>1, <2>2 DEF SerialInv
<1>6. ASSUME NEW p \in Projects, NEW k, DeleteArtefact(p, k)
      PROVE  ~overlapped /\ SerialInv' /\ UNCHANGED ask
    BY <1>1, <1>6 DEF DeleteArtefact, SerialInv
<1> QED BY <1>3, <1>4, <1>5, <1>6 DEF Next

(* With one request at a time, an access request stays as it was decided:   *)
(* whoever decides it has found it pending, and only the deletion of its    *)
(* project takes the decision away.                                         *)
THEOREM DecisionsFinal == Spec => DecisionFinal
<1>1. Init => SerialIInv
  <2> SUFFICES ASSUME Init PROVE SerialIInv
      OBVIOUS
  <2>1. SerialInv
      BY DEF Init, SerialInv, Idle, Deciding
  <2> QED BY <2>1, InitIInv DEF SerialIInv
<1>2. SerialIInv /\ [Next]_vars => SerialIInv'
  <2> SUFFICES ASSUME SerialIInv, [Next]_vars PROVE SerialIInv'
      OBVIOUS
  <2>1. IInv'
      BY NextIInv DEF SerialIInv
  <2>2. CASE overlapped'
      BY <2>1, <2>2 DEF SerialIInv, SerialInv
  <2>3. CASE Next /\ ~overlapped'
      BY <2>1, <2>3, NextAlone DEF SerialIInv
  <2>4. CASE UNCHANGED vars
      BY <2>1, <2>4 DEF vars, SerialIInv, SerialInv
  <2> QED BY <2>2, <2>3, <2>4
<1>3. SerialIInv /\ [Next]_vars =>
        [~overlapped' =>
            \A r \in Asks : ask[r].status \in {"approved", "denied"} =>
                ask'[r] \in {ask[r], Deleted}]_vars
    BY NextAlone
<1> QED BY <1>1, <1>2, <1>3, PTL DEF Spec, DecisionFinal
=============================================================================
