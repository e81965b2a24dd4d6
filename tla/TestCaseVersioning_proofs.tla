---------------------- MODULE TestCaseVersioning_proofs ----------------------
(***************************************************************************)
(* Proofs of what holds of a test case and its versions, for any titles,   *)
(* step lists and number of versions: of any number of overlapping         *)
(* requests, IInv and what follows, and of requests one after the other.   *)
(*                                                                         *)
(* The argument.  A request that commits relies on what it loaded, and     *)
(* four things it relies on can never be undone by another (NothingLost):  *)
(* a version row is never deleted, current_version_id never falls,         *)
(* content_locked is never reset, and a first approval is never taken      *)
(* back.  Each commit is then sound by itself.                             *)
(***************************************************************************)
EXTENDS TestCaseVersioning, TLAPS

\* No row, lock, or approval disappears and the current version never falls:
\* true of every step of every handler.
NothingLost ==
    /\ \A v \in Versions : Exists(v) => Exists(v)'
    /\ \A v \in Versions : ver[v].locked => ver'[v].locked
    /\ case.current <= case'.current
    /\ case.approved # NoVersion => case'.approved # NoVersion

\* The part of the invariant that is about the rows alone.
Rows ==
    /\ CurrentIsNewest
    /\ \A v \in Versions : ver[v].locked => Exists(v)
    /\ SelectableHasApproved

\* A case starts with its one draft and no approval (create_test_case).
LEMMA InitIInv == Init => IInv
<1> SUFFICES ASSUME Init PROVE IInv
    OBVIOUS
<1> USE BoundsAssumption, ContentAssumption DEF NoVersion, Versions
<1>1. PICK title \in Titles, steps \in StepLists :
        /\ case = [state |-> "draft", current |-> 1, approved |-> NoVersion,
                   title |-> title, revision |-> 1]
        /\ ver = [v \in Versions |->
                    Row(IF v = 1 THEN "draft" ELSE "none", title, steps)]
    BY DEF Init
<1>2. req = [c \in Clients |-> Idle]
    BY DEF Init
<1>3. TypeOK
  <2>1. case \in CaseRows
      BY <1>1 DEF CaseRows, Lifecycle
  <2>2. ver \in [Versions -> VersionRows]
      BY <1>1 DEF VersionRows, VersionStatuses, Row
  <2>3. req \in [Clients -> Requests]
      BY <1>2 DEF Requests
  <2> QED BY <2>1, <2>2, <2>3 DEF TypeOK
<1>4. Rows
    BY <1>1 DEF Rows, CurrentIsNewest, Existing, Exists, SelectableHasApproved,
                Selectable, Row
<1>5. \A c \in Clients : StillLoaded(req[c])
    BY <1>2 DEF StillLoaded, Idle
<1> QED BY <1>3, <1>4, <1>5 DEF IInv, Rows

\* The next version number is the one after the current version's.
LEMMA NextNumber ==
    ASSUME TypeOK, CurrentIsNewest
    PROVE  NextVersionNumber <= case.current + 1
<1> USE BoundsAssumption DEF Versions
<1>1. case.current \in 1..NumVersions
    BY DEF TypeOK, CaseRows
<1> DEFINE P(n) == /\ \A v \in Existing : v < n
                   /\ n = 1 \/ (n - 1) \in Existing
<1>2. case.current + 1 \in 1..(NumVersions + 1) /\ P(case.current + 1)
    BY <1>1 DEF CurrentIsNewest
<1>3. \E n \in 1..(NumVersions + 1) : P(n)
    BY <1>2
<1>4. NextVersionNumber \in 1..(NumVersions + 1) /\ P(NextVersionNumber)
    BY <1>3 DEF NextVersionNumber
<1> QED BY <1>1, <1>4 DEF CurrentIsNewest

\* A request in flight stays sound whatever others commit.
LEMMA StillSound ==
    ASSUME NEW q \in Requests, TypeOK, TypeOK', StillLoaded(q), NothingLost
    PROVE  StillLoaded(q)'
<1> USE DEF Versions
<1>1. case.current \in Nat /\ case'.current \in Nat
    BY BoundsAssumption DEF TypeOK, CaseRows
<1>2. q.op = "edit" => q.target \in Versions
    BY DEF Requests, Idle
<1>3. q.op = "review" => /\ q.target \in Versions
                         /\ q.prior \in Versions \cup {NoVersion}
    BY DEF Requests, Idle
<1>4. q.op = "fork" => q.target \in Nat
    BY BoundsAssumption DEF Requests, Idle
<1> QED BY <1>1, <1>2, <1>3, <1>4 DEF StillLoaded, NothingLost, Exists, NoVersion

\* A step that changes no row loses nothing.
LEMMA Unchanged ==
    ASSUME TypeOK, UNCHANGED <<case, ver>>
    PROVE  NothingLost
BY BoundsAssumption DEF NothingLost, Exists, TypeOK, CaseRows, Versions

\* A handler that only loads adds one request, sound at that moment.
LEMMA LoadStep ==
    ASSUME IInv, NEW c \in Clients, LoadRequest(c)
    PROVE  \E q \in Requests : StillLoaded(q) /\ req' = [req EXCEPT ![c] = q]
                               /\ UNCHANGED <<case, ver>>
<1> USE BoundsAssumption, ContentAssumption
<1> TypeOK /\ case \in CaseRows /\ ver \in [Versions -> VersionRows]
    BY DEF IInv, TypeOK
<1>0. Current \in VersionRows /\ case.current \in Versions /\ Exists(case.current)
    BY DEF Current, CaseRows, IInv, CurrentIsNewest, Existing, Versions
<1>1. ASSUME NEW title \in Titles, NEW steps \in StepLists \cup {Omitted},
             LoadTouch(c, title, steps)
      PROVE  \E q \in Requests : StillLoaded(q) /\ req' = [req EXCEPT ![c] = q]
                                 /\ UNCHANGED <<case, ver>>
    BY <1>1 DEF LoadTouch, Begin, Requests, StillLoaded, CaseRows
<1>2. ASSUME NEW title \in Titles, NEW steps \in StepLists \cup {Omitted},
             LoadEdit(c, title, steps)
      PROVE  \E q \in Requests : StillLoaded(q) /\ req' = [req EXCEPT ![c] = q]
                                 /\ UNCHANGED <<case, ver>>
    BY <1>0, <1>2 DEF LoadEdit, Begin, Requests, StillLoaded, CaseRows, VersionRows
<1>3. ASSUME NEW title \in Titles, NEW steps \in StepLists \cup {Omitted},
             LoadFork(c, title, steps)
      PROVE  \E q \in Requests : StillLoaded(q) /\ req' = [req EXCEPT ![c] = q]
                                 /\ UNCHANGED <<case, ver>>
  <2>1. NextVersionNumber <= case.current + 1
      BY NextNumber DEF IInv
  <2> QED BY <1>0, <1>3, <2>1
          DEF LoadFork, Begin, Requests, StillLoaded, CaseRows, VersionRows
<1>4. ASSUME NEW to \in VersionStatuses, LoadReview(c, to)
      PROVE  \E q \in Requests : StillLoaded(q) /\ req' = [req EXCEPT ![c] = q]
                                 /\ UNCHANGED <<case, ver>>
  <2> DEFINE q == [op |-> "review", revision |-> case.revision,
                   target |-> case.current, to |-> to, was |-> case.state,
                   approvedWas |-> case.approved, prior |-> Superseded(to)]
  <2>1. Superseded(to) \in {NoVersion, case.approved}
      BY DEF Superseded
  <2>2. q \in Requests
      BY <1>0, <2>1 DEF Requests, CaseRows
  <2>3. to \in {"draft", "in_review", "approved"}
      BY <1>4 DEF LoadReview, VersionTransitions
  <2>4. StillLoaded(q)
      BY <1>0, <2>1, <2>3 DEF StillLoaded, IInv, SelectableHasApproved
  <2>5. req' = [req EXCEPT ![c] = q] /\ UNCHANGED <<case, ver>>
      BY <1>4 DEF LoadReview, Begin
  <2> QED BY <2>2, <2>4, <2>5
<1>5. ASSUME NEW to \in Lifecycle, LoadLifecycle(c, to)
      PROVE  \E q \in Requests : StillLoaded(q) /\ req' = [req EXCEPT ![c] = q]
                                 /\ UNCHANGED <<case, ver>>
  <2> DEFINE q == [op |-> "lifecycle", revision |-> case.revision, to |-> to]
  <2>1. q \in Requests
      BY DEF Requests, CaseRows
  <2>2. to \in Selectable => case.approved # NoVersion
      BY <1>5 DEF LoadLifecycle, LogicalTransitions, Selectable, IInv,
                  SelectableHasApproved
  <2>3. StillLoaded(q)
      BY <2>2 DEF StillLoaded
  <2>4. req' = [req EXCEPT ![c] = q] /\ UNCHANGED <<case, ver>>
      BY <1>5 DEF LoadLifecycle, Begin
  <2> QED BY <2>1, <2>3, <2>4
<1> QED BY <1>1, <1>2, <1>3, <1>4, <1>5 DEF LoadRequest

\* What each commit preserves: types, the rows half of the invariant, and all
\* that other requests rely on.
CommitSound == TypeOK' /\ Rows' /\ NothingLost

\* The types of the values a request carries.
LEMMA RequestTypes ==
    ASSUME NEW q \in Requests
    PROVE  /\ q.op # "idle" => q.revision \in Nat
           /\ q.op = "edit" =>
                /\ q.target \in Versions
                /\ q.title \in Titles
                /\ q.was \in Titles
                /\ q.caseWas \in Titles
                /\ q.steps \in StepLists \cup {Omitted}
           /\ q.op = "fork" =>
                /\ q.target \in Versions
                /\ q.title \in Titles
                /\ q.caseWas \in Titles
                /\ q.steps \in StepLists
           /\ q.op = "review" =>
                /\ q.target \in Versions
                /\ q.to \in VersionStatuses
                /\ q.was \in Lifecycle
                /\ q.approvedWas \in Versions \cup {NoVersion}
           /\ q.op = "lifecycle" => q.to \in Lifecycle
BY DEF Requests, Idle

\* Each of the five commits, and a request given up, is sound by itself.
LEMMA CommitStep ==
    ASSUME IInv, NEW c \in Clients, CommitRequest(c) \/ FailRequest(c)
    PROVE  CommitSound /\ req' = [req EXCEPT ![c] = Idle]
<1> USE BoundsAssumption, ContentAssumption
<1>q. PICK q \in Requests : q = req[c]
    BY DEF IInv, TypeOK
<1>0. /\ TypeOK /\ case \in CaseRows /\ ver \in [Versions -> VersionRows]
      /\ q \in Requests /\ StillLoaded(q) /\ Rows
      /\ req \in [Clients -> Requests]
    BY <1>q DEF IInv, TypeOK, Rows
<1>1. req' = [req EXCEPT ![c] = Idle]
    BY DEF CommitRequest, FailRequest, CommitTouch, CommitEdit, CommitFork,
           CommitReview, CommitLifecycle, Finish
<1>2. req' \in [Clients -> Requests]
    BY <1>0, <1>1 DEF Requests
<1>3. CASE CommitTouch(c)
  <2>1. q.revision \in Nat /\ ver' = ver
        /\ case' = [case EXCEPT !.revision = q.revision + 1]
      BY <1>q, <1>0, <1>3, RequestTypes DEF CommitTouch
  <2>2. TypeOK'
      BY <1>0, <1>2, <2>1 DEF TypeOK, CaseRows
  <2>3. Rows' /\ NothingLost
      BY <1>0, <2>1 DEF Rows, CurrentIsNewest, Existing, Exists, NothingLost,
                        SelectableHasApproved, CaseRows, Versions
  <2> QED BY <1>1, <2>2, <2>3 DEF CommitSound
<1>4. CASE CommitEdit(c)
  <2>1. /\ q.op = "edit" /\ q.target \in Versions /\ q.title \in Titles
        /\ q.caseWas \in Titles /\ q.was \in Titles /\ q.revision \in Nat
        /\ q.steps \in StepLists \cup {Omitted}
      BY <1>q, <1>0, <1>4, RequestTypes DEF CommitEdit
  <2>2. PICK steps \in StepsLeft(q) :
          ver' = [ver EXCEPT ![q.target].title = Written(@, q.was, q.title),
                             ![q.target].steps = steps]
      BY <1>q, <1>4 DEF CommitEdit
  <2>3. steps \in StepLists
      BY <1>0, <2>1, <2>2 DEF StepsLeft, VersionRows
  <2>4. case' = [case EXCEPT !.title = Written(@, q.caseWas, q.title),
                             !.revision = q.revision + 1]
      BY <1>q, <1>4 DEF CommitEdit
  <2>5. TypeOK'
    <3>1. PICK title \in Titles, n \in Nat :
            title = Written(case.title, q.caseWas, q.title) /\ n = q.revision + 1
        BY <1>0, <2>1 DEF CaseRows, Written
    <3>2. case' \in CaseRows
        BY <1>0, <2>4, <3>1 DEF CaseRows
    <3>3. ver' \in [Versions -> VersionRows]
        BY <1>0, <2>1, <2>2, <2>3 DEF VersionRows, Written
    <3> QED BY <1>2, <3>2, <3>3 DEF TypeOK
  <2>6. /\ \A v \in Versions : ver'[v].status = ver[v].status
                               /\ ver'[v].locked = ver[v].locked
        /\ case'.current = case.current /\ case'.approved = case.approved
        /\ case'.state = case.state
      BY <1>0, <2>1, <2>2, <2>4 DEF CaseRows, VersionRows
  <2>7. Rows' /\ NothingLost
      BY <1>0, <2>6 DEF Rows, CurrentIsNewest, Existing, Exists, NothingLost,
                        SelectableHasApproved, CaseRows, Versions, NoVersion
  <2> QED BY <1>1, <2>5, <2>7 DEF CommitSound
<1>5. CASE CommitFork(c)
  <2>1. /\ q.op = "fork" /\ q.target \in Versions /\ q.title \in Titles
        /\ q.caseWas \in Titles /\ q.revision \in Nat /\ q.steps \in StepLists
      BY <1>q, <1>0, <1>5, RequestTypes DEF CommitFork
  <2>2. /\ ~Exists(q.target)
        /\ ver' = [ver EXCEPT ![q.target] = Row("draft", q.title, q.steps)]
        /\ case' = [case EXCEPT !.current = q.target,
                                !.title = Written(@, q.caseWas, q.title),
                                !.revision = q.revision + 1]
      BY <1>q, <1>5 DEF CommitFork
  <2>3. TypeOK'
    <3>1. PICK title \in Titles, n \in Nat :
            title = Written(case.title, q.caseWas, q.title) /\ n = q.revision + 1
        BY <1>0, <2>1 DEF CaseRows, Written
    <3>2. case' \in CaseRows
        BY <1>0, <2>1, <2>2, <3>1 DEF CaseRows
    <3>3. ver' \in [Versions -> VersionRows]
        BY <1>0, <2>1, <2>2 DEF VersionRows, VersionStatuses, Row
    <3> QED BY <1>2, <3>2, <3>3 DEF TypeOK
  <2>4. q.target = case.current + 1
    <3>1. q.target <= case.current + 1
        BY <1>0, <2>1 DEF StillLoaded
    <3>2. q.target \notin 1..case.current
        BY <1>0, <2>1, <2>2 DEF Rows, CurrentIsNewest, Existing
    <3> QED BY <1>0, <2>1, <3>1, <3>2 DEF CaseRows, Versions
  <2>5. Exists(q.target)' /\ \A v \in Versions \ {q.target} : ver'[v] = ver[v]
      BY <1>0, <2>1, <2>2 DEF Exists, Row
  <2>6. /\ case'.current = q.target /\ case'.approved = case.approved
        /\ case'.state = case.state
      BY <1>0, <2>2 DEF CaseRows
  <2>7. CurrentIsNewest'
    <3>1. Existing' = Existing \cup {q.target}
        BY <2>1, <2>5 DEF Existing, Exists
    <3>2. Existing = 1..case.current /\ case.current \in Nat
        BY <1>0 DEF Rows, CurrentIsNewest, CaseRows, Versions
    <3>3. 1..(case.current + 1) = (1..case.current) \cup {case.current + 1}
        BY <3>2
    <3> QED BY <2>4, <2>6, <3>1, <3>2, <3>3 DEF CurrentIsNewest
  <2>8. ~ver[q.target].locked /\ (case.approved # NoVersion => ver[case.approved].locked)
      BY <1>0, <2>1, <2>2 DEF Rows, SelectableHasApproved
  <2>9. NothingLost
    <3>1. \A v \in Versions : Exists(v) => Exists(v)'
        BY <2>5 DEF Exists
    <3>2. \A v \in Versions : ver[v].locked => ver'[v].locked
        BY <2>5, <2>8
    <3>3. case.current <= case'.current
        BY <1>0, <2>4, <2>6 DEF CaseRows, Versions
    <3> QED BY <2>6, <3>1, <3>2, <3>3 DEF NothingLost
  <2>10. SelectableHasApproved'
    <3>1. case.approved # NoVersion => case.approved \in Versions
        BY <1>0 DEF CaseRows
    <3> QED BY <1>0, <2>6, <2>9, <3>1
            DEF Rows, SelectableHasApproved, NothingLost, NoVersion
  <2>11. \A v \in Versions : ver'[v].locked => Exists(v)'
      BY <1>0, <2>5 DEF Rows, Exists
  <2> QED BY <1>1, <2>3, <2>7, <2>9, <2>10, <2>11 DEF CommitSound, Rows
<1>6. CASE CommitReview(c)
  <2>1. /\ q.op = "review" /\ q.target \in Versions /\ q.was \in Lifecycle
        /\ q.approvedWas \in Versions \cup {NoVersion} /\ q.revision \in Nat
        /\ q.to \in {"draft", "in_review", "approved"}
        /\ Exists(q.target)
      BY <1>q, <1>0, <1>6, RequestTypes DEF CommitReview, StillLoaded
  <2>2. ver' = [v \in Versions |->
             IF v = q.target
             THEN [ver[v] EXCEPT !.status = q.to, !.locked = @ \/ q.to = "approved"]
             ELSE IF v = q.prior THEN [ver[v] EXCEPT !.status = "superseded"]
             ELSE ver[v]]
      BY <1>q, <1>6 DEF CommitReview
  <2>3. case' = [case EXCEPT !.state = Written(@, q.was, q.to),
                             !.approved = IF q.to = "approved"
                                          THEN Written(@, q.approvedWas, q.target)
                                          ELSE @,
                             !.revision = q.revision + 1]
      BY <1>q, <1>6 DEF CommitReview
  <2>4. TypeOK'
    <3>1. case' \in CaseRows
      <4>1. PICK state \in Lifecycle, approved \in Versions \cup {NoVersion}, n \in Nat :
              /\ state = Written(case.state, q.was, q.to)
              /\ approved = IF q.to = "approved"
                            THEN Written(case.approved, q.approvedWas, q.target)
                            ELSE case.approved
              /\ n = q.revision + 1
          BY <1>0, <2>1 DEF CaseRows, Written, Lifecycle
      <4> QED BY <1>0, <2>3, <4>1 DEF CaseRows
    <3>2. ver' \in [Versions -> VersionRows]
      <4> SUFFICES ASSUME NEW v \in Versions PROVE ver'[v] \in VersionRows
          BY <2>2
      <4>1. ver[v] \in VersionRows
          BY <1>0
      <4>2. CASE v = q.target
          BY <2>1, <2>2, <4>1, <4>2 DEF VersionRows, VersionStatuses
      <4>3. CASE v # q.target
          BY <2>2, <4>1, <4>3 DEF VersionRows, VersionStatuses
      <4> QED BY <4>2, <4>3
    <3> QED BY <1>2, <3>1, <3>2 DEF TypeOK
  <2>5. /\ \A v \in Versions : Exists(v) => Exists(v)'
        /\ \A v \in Versions : ver[v].locked => ver'[v].locked
      BY <1>0, <2>1, <2>2 DEF Exists, VersionRows
  <2>6. q.prior # NoVersion => ver[q.prior].locked
      BY <1>0, <2>1 DEF StillLoaded
  <2>7. Existing' = Existing
    <3>1. q.prior \in Versions => Exists(q.prior)
        BY <1>0, <2>6 DEF Rows, NoVersion, Versions
    <3>2. \A v \in Versions : Exists(v)' => Exists(v)
        BY <1>0, <2>1, <2>2, <3>1 DEF Exists, VersionRows
    <3> QED BY <2>5, <3>2 DEF Existing
  <2>8. case'.current = case.current
      BY <1>0, <2>3 DEF CaseRows
  <2>9. case.approved # NoVersion => case'.approved # NoVersion
      BY <1>0, <2>1, <2>3 DEF CaseRows, Written, NoVersion, Versions
  <2>10. NothingLost
      BY <1>0, <2>5, <2>8, <2>9 DEF NothingLost, CaseRows, Versions
  <2>11. case'.state \in Selectable => case'.approved # NoVersion
    <3>1. CASE q.to = "approved"
        BY <1>0, <2>1, <2>3, <3>1
           DEF StillLoaded, CaseRows, Written, NoVersion, Versions
    <3>2. CASE q.to # "approved"
      <4>1. case'.state \in Selectable => \/ case.state \in Selectable
                                          \/ q.was \in Selectable
          BY <1>0, <2>1, <2>3, <3>2 DEF CaseRows, Written, Selectable
      <4> QED BY <1>0, <2>1, <2>9, <4>1
              DEF StillLoaded, Rows, SelectableHasApproved
    <3> QED BY <3>1, <3>2
  <2>12. case'.approved # NoVersion => ver'[case'.approved].locked
    <3>1. case'.approved = case.approved \/ (q.to = "approved" /\ case'.approved = q.target)
        BY <1>0, <2>1, <2>3 DEF CaseRows, Written
    <3>2. CASE case'.approved = case.approved
        BY <1>0, <2>5, <3>2 DEF Rows, SelectableHasApproved, CaseRows
    <3>3. CASE q.to = "approved" /\ case'.approved = q.target
        BY <1>0, <2>1, <2>2, <3>3 DEF VersionRows
    <3> QED BY <3>1, <3>2, <3>3
  <2>13. \A v \in Versions : ver'[v].locked => Exists(v)'
      BY <1>0, <2>1, <2>2 DEF Rows, Exists, VersionRows
  <2>14. Rows'
      BY <1>0, <2>7, <2>8, <2>11, <2>12, <2>13
         DEF Rows, CurrentIsNewest, SelectableHasApproved
  <2> QED BY <1>1, <2>4, <2>10, <2>14 DEF CommitSound
<1>7. CASE CommitLifecycle(c)
  <2>1. /\ q.op = "lifecycle" /\ q.to \in Lifecycle /\ q.revision \in Nat
        /\ q.to \in Selectable => case.approved # NoVersion
      BY <1>q, <1>0, <1>7, RequestTypes DEF CommitLifecycle, StillLoaded
  <2>2. /\ ver' = ver
        /\ case' = [case EXCEPT !.state = q.to, !.revision = q.revision + 1]
      BY <1>q, <1>7 DEF CommitLifecycle
  <2>3. TypeOK'
    <3>1. PICK to \in Lifecycle, n \in Nat : to = q.to /\ n = q.revision + 1
        BY <2>1
    <3>2. case' \in CaseRows
        BY <1>0, <2>2, <3>1 DEF CaseRows
    <3> QED BY <1>0, <1>2, <2>2, <3>2 DEF TypeOK
  <2>4. Rows' /\ NothingLost
      BY <1>0, <2>1, <2>2
         DEF Rows, CurrentIsNewest, Existing, Exists, NothingLost,
             SelectableHasApproved, CaseRows, Versions
  <2> QED BY <1>1, <2>3, <2>4 DEF CommitSound
<1>8. CASE FailRequest(c)
  <2>1. case' = case /\ ver' = ver
      BY <1>8 DEF FailRequest
  <2>2. TypeOK'
      BY <1>0, <1>2, <2>1 DEF TypeOK
  <2>3. Rows' /\ NothingLost
      BY <1>0, <2>1, Unchanged
         DEF Rows, CurrentIsNewest, Existing, Exists, SelectableHasApproved
  <2> QED BY <1>1, <2>2, <2>3 DEF CommitSound
<1> QED BY <1>3, <1>4, <1>5, <1>6, <1>7, <1>8 DEF CommitRequest

\* Every step preserves the invariant.
LEMMA StepIInv == IInv /\ [Next]_vars => IInv'
<1> SUFFICES ASSUME IInv, [Next]_vars PROVE IInv'
    OBVIOUS
<1>1. ASSUME NEW c \in Clients, LoadRequest(c) PROVE IInv'
  <2>1. PICK q \in Requests : /\ StillLoaded(q)
                              /\ req' = [req EXCEPT ![c] = q]
                              /\ UNCHANGED <<case, ver>>
      BY <1>1, LoadStep
  <2>2. TypeOK'
      BY <2>1 DEF IInv, TypeOK
  <2>3. NothingLost
      BY <2>1, Unchanged DEF IInv
  <2>4. Rows'
      BY <2>1 DEF IInv, Rows, CurrentIsNewest, Existing, Exists, SelectableHasApproved
  <2>5. ASSUME NEW d \in Clients PROVE StillLoaded(req[d])'
    <3>1. PICK r \in Requests : r = req'[d] /\ StillLoaded(r)
        BY <2>1 DEF IInv, TypeOK
    <3>2. StillLoaded(r)'
        BY <2>2, <2>3, <3>1, StillSound DEF IInv
    <3> QED BY <3>1, <3>2
  <2> QED BY <2>2, <2>4, <2>5 DEF IInv, Rows
<1>2. ASSUME NEW c \in Clients, CommitRequest(c) \/ FailRequest(c) PROVE IInv'
  <2>1. CommitSound /\ req' = [req EXCEPT ![c] = Idle]
      BY <1>2, CommitStep
  <2>2. ASSUME NEW d \in Clients PROVE StillLoaded(req[d])'
    <3>1. PICK r \in Requests : r = req'[d] /\ StillLoaded(r)
        BY <2>1 DEF IInv, TypeOK, Requests, StillLoaded, Idle
    <3>2. StillLoaded(r)'
        BY <2>1, <3>1, StillSound DEF IInv, CommitSound
    <3> QED BY <3>1, <3>2
  <2> QED BY <2>1, <2>2 DEF IInv, Rows, CommitSound
<1>3. CASE UNCHANGED vars
    BY <1>3 DEF vars, IInv, TypeOK, CurrentIsNewest, Existing, Exists,
                SelectableHasApproved, StillLoaded
<1> QED BY <1>1, <1>2, <1>3 DEF Next

\* The inductive invariant holds in every reachable state, for any number of
\* overlapping edits, reviews and lifecycle transitions.
THEOREM Invariance == Spec => []IInv
BY InitIInv, StepIInv, PTL DEF Spec

\* Rows and requests in flight stay well formed: no overlap of handlers writes
\* a lifecycle state or a version status the columns do not allow.
THEOREM TypeCorrect == Spec => []TypeOK
<1>1. IInv => TypeOK
    BY DEF IInv
<1> QED BY <1>1, Invariance, PTL

\* current_version_id names the newest version and the numbers have no gaps,
\* however update_test_case calls interleave.
THEOREM NewestIsCurrent == Spec => []CurrentIsNewest
<1>1. IInv => CurrentIsNewest
    BY DEF IInv
<1> QED BY <1>1, Invariance, PTL

\* A case in an approved, active or deprecated state has an approved version
\* that was locked, however reviews, archiving and restoring interleave.
THEOREM SelectableIsApproved == Spec => []SelectableHasApproved
<1>1. IInv => SelectableHasApproved
    BY DEF IInv
<1> QED BY <1>1, Invariance, PTL

-----------------------------------------------------------------------------
(* What holds when requests do not overlap.  A request that commits finds   *)
(* every column as it loaded it (StillTrue), so each UPDATE writes what the *)
(* handler decided.                                                         *)

\* Requests do not overlap, since there is one client.
Sequential == \A c, d \in Clients : c = d

\* What a handler loaded and checked, as it stands until its commit.
StillTrue(q) ==
    /\ q.op = "edit" =>
          /\ q.target = case.current
          /\ Current.status = "draft"
          /\ q.was = Current.title
          /\ q.caseWas = case.title
          /\ q.stepsWere = Current.steps
    /\ q.op = "fork" => Current.status # "draft" /\ q.caseWas = case.title
    /\ q.op = "review" =>
          /\ q.target = case.current
          /\ <<Current.status, q.to>> \in VersionTransitions
          /\ q.to = "in_review" => Current.steps \notin Unusable
          /\ q.approvedWas = case.approved
          /\ q.prior = Superseded(q.to)

\* A version that left draft has a usable list of steps.
ReviewedUsable ==
    \A v \in Versions : ver[v].status \in {"in_review", "approved"} =>
        ver[v].steps \notin Unusable

SerialRows == OneApproved /\ ReviewedUsable /\ TitleMirrors

SerialInv ==
    /\ IInv /\ SerialRows
    /\ \A c \in Clients : StillTrue(req[c])

-----------------------------------------------------------------------------
\* The lone request is the one a step begins or ends.
LEMMA RequestKeeps ==
    ASSUME Sequential, SerialInv, IInv', SerialRows',
           NEW c \in Clients, NEW q, req' = [req EXCEPT ![c] = q], StillTrue(q)'
    PROVE  SerialInv'
<1>1. SUFFICES ASSUME NEW d \in Clients PROVE StillTrue(req[d])'
    BY DEF SerialInv
<1>2. d = c
    BY DEF Sequential
<1>3. req'[d] = q
    BY <1>2 DEF SerialInv, IInv, TypeOK
<1> QED BY <1>3 DEF StillTrue

LEMMA IdleTrue == StillTrue(Idle)'
BY DEF StillTrue, Idle

\* The request of a client is well formed and what it loaded is still so.
LEMMA ReadyRequest ==
    ASSUME SerialInv, NEW c \in Clients
    PROVE  /\ req[c] \in Requests /\ StillTrue(req[c])
           /\ case \in CaseRows /\ ver \in [Versions -> VersionRows]
           /\ case.current \in Versions /\ Exists(case.current)
BY DEF SerialInv, IInv, TypeOK, CaseRows, CurrentIsNewest, Existing, Versions

\* A handler that has loaded its rows has made the checks of StillTrue.
LEMMA LoadChecks ==
    ASSUME NEW c \in Clients, LoadRequest(c)
    PROVE  \E q : StillTrue(q) /\ Begin(c, q)
<1>1. ASSUME NEW title, NEW steps, LoadTouch(c, title, steps)
      PROVE  \E q : StillTrue(q) /\ Begin(c, q)
  <2>1. StillTrue([op |-> "touch", revision |-> case.revision])
      BY DEF StillTrue
  <2> QED BY <1>1, <2>1 DEF LoadTouch
<1>2. ASSUME NEW title, NEW steps, LoadEdit(c, title, steps)
      PROVE  \E q : StillTrue(q) /\ Begin(c, q)
  <2>1. StillTrue([op |-> "edit", revision |-> case.revision,
                   target |-> case.current, title |-> title, was |-> Current.title,
                   caseWas |-> case.title, steps |-> steps,
                   stepsWere |-> Current.steps])
      BY <1>2 DEF StillTrue, LoadEdit
  <2> QED BY <1>2, <2>1 DEF LoadEdit
<1>3. ASSUME NEW title, NEW steps, LoadFork(c, title, steps)
      PROVE  \E q : StillTrue(q) /\ Begin(c, q)
  <2> DEFINE q == [op |-> "fork", revision |-> case.revision,
                   target |-> NextVersionNumber, title |-> title,
                   caseWas |-> case.title,
                   steps |-> IF steps = Omitted THEN Current.steps ELSE steps]
  <2>1. q.op = "fork" /\ q.caseWas = case.title
      OBVIOUS
  <2>2. Begin(c, q) /\ Current.status # "draft"
      BY <1>3 DEF LoadFork
  <2> HIDE DEF q
  <2>3. StillTrue(q)
      BY <2>1, <2>2 DEF StillTrue
  <2> QED BY <2>2, <2>3
<1>4. ASSUME NEW to, LoadReview(c, to)
      PROVE  \E q : StillTrue(q) /\ Begin(c, q)
  <2>1. StillTrue([op |-> "review", revision |-> case.revision,
                   target |-> case.current, to |-> to, was |-> case.state,
                   approvedWas |-> case.approved, prior |-> Superseded(to)])
      BY <1>4 DEF StillTrue, LoadReview
  <2> QED BY <1>4, <2>1 DEF LoadReview
<1>5. ASSUME NEW to, LoadLifecycle(c, to)
      PROVE  \E q : StillTrue(q) /\ Begin(c, q)
  <2>1. StillTrue([op |-> "lifecycle", revision |-> case.revision, to |-> to])
      BY DEF StillTrue
  <2> QED BY <1>5, <2>1 DEF LoadLifecycle
<1> QED BY <1>1, <1>2, <1>3, <1>4, <1>5 DEF LoadRequest

\* Rows that do not change stay sound, and what was checked on them stays so.
LEMMA RowsUnchanged ==
    ASSUME SerialInv, UNCHANGED <<case, ver>>
    PROVE  SerialRows' /\ \A q : StillTrue(q) => StillTrue(q)'
<1>1. SerialRows'
    BY DEF SerialInv, SerialRows, OneApproved, ReviewedUsable, TitleMirrors, Current
<1>2. ASSUME NEW q, StillTrue(q) PROVE StillTrue(q)'
    BY <1>2 DEF StillTrue, Current, Superseded
<1> QED BY <1>1, <1>2

\* An edit in place writes to a draft, and the same title to both rows.
LEMMA EditRows ==
    ASSUME SerialInv, NEW c \in Clients, CommitEdit(c)
    PROVE  /\ SerialRows'
           /\ \A v \in Versions : ver[v].status # "draft" => ver'[v] = ver[v]
<1> DEFINE q == req[c]
<1>1. /\ q.target = case.current /\ Current.status = "draft"
      /\ q.was = Current.title /\ q.caseWas = case.title
    BY ReadyRequest DEF CommitEdit, StillTrue
<1>2. /\ case \in CaseRows /\ ver \in [Versions -> VersionRows]
      /\ case.current \in Versions
    BY ReadyRequest
<1>3. PICK steps : ver' = [ver EXCEPT ![q.target].title = Written(@, q.was, q.title),
                                      ![q.target].steps = steps]
    BY DEF CommitEdit
<1>4. case' = [case EXCEPT !.title = Written(@, q.caseWas, q.title),
                           !.revision = q.revision + 1]
    BY DEF CommitEdit
<1>5. /\ case'.current = case.current /\ case'.approved = case.approved
      /\ case'.title = q.title
    BY <1>1, <1>2, <1>4 DEF CaseRows, Written
<1>6. /\ ver'[case.current].title = q.title /\ ver'[case.current].status = "draft"
      /\ \A v \in Versions : v # case.current => ver'[v] = ver[v]
    BY <1>1, <1>2, <1>3 DEF VersionRows, Written, Current
<1>7. OneApproved'
    BY <1>1, <1>2, <1>5, <1>6 DEF SerialInv, SerialRows, OneApproved, Current
<1>8. ReviewedUsable'
    BY <1>6 DEF SerialInv, SerialRows, ReviewedUsable
<1>9. TitleMirrors'
    BY <1>5, <1>6 DEF TitleMirrors, Current
<1> QED BY <1>1, <1>6, <1>7, <1>8, <1>9 DEF SerialRows, Current

\* A fork is a new draft with the title of the case.
LEMMA ForkRows ==
    ASSUME SerialInv, NEW c \in Clients, CommitFork(c)
    PROVE  /\ SerialRows'
           /\ \A v \in Versions : Exists(v) => ver'[v] = ver[v]
<1> DEFINE q == req[c]
<1>1. q.target \in Versions /\ q.caseWas = case.title
    BY ReadyRequest, RequestTypes DEF CommitFork, StillTrue
<1>2. case \in CaseRows /\ ver \in [Versions -> VersionRows]
    BY ReadyRequest
<1>3. /\ ~Exists(q.target)
      /\ ver' = [ver EXCEPT ![q.target] = Row("draft", q.title, q.steps)]
      /\ case' = [case EXCEPT !.current = q.target,
                              !.title = Written(@, q.caseWas, q.title),
                              !.revision = q.revision + 1]
    BY DEF CommitFork
<1>4. /\ case'.current = q.target /\ case'.approved = case.approved
      /\ case'.title = q.title
    BY <1>1, <1>2, <1>3 DEF CaseRows, Written
<1>5. /\ ver'[q.target].title = q.title /\ ver'[q.target].status = "draft"
      /\ \A v \in Versions : v # q.target => ver'[v] = ver[v]
    BY <1>1, <1>2, <1>3 DEF Row
<1>6. OneApproved'
    BY <1>1, <1>3, <1>4, <1>5 DEF SerialInv, SerialRows, OneApproved, Exists
<1>7. ReviewedUsable'
    BY <1>5 DEF SerialInv, SerialRows, ReviewedUsable
<1>8. TitleMirrors'
    BY <1>4, <1>5 DEF TitleMirrors, Current
<1> QED BY <1>3, <1>5, <1>6, <1>7, <1>8 DEF SerialRows

\* An approval supersedes the version approved before; other reviews concern
\* a version that is not approved.
LEMMA ReviewRows ==
    ASSUME SerialInv, NEW c \in Clients, CommitReview(c)
    PROVE  /\ SerialRows'
           /\ \A v \in Versions : ver'[v].title = ver[v].title /\ ver'[v].steps = ver[v].steps
<1> DEFINE q == req[c]
<1>1. /\ q.target = case.current
      /\ <<Current.status, q.to>> \in VersionTransitions
      /\ q.to = "in_review" => Current.steps \notin Unusable
      /\ q.approvedWas = case.approved
      /\ q.prior = Superseded(q.to)
    BY ReadyRequest DEF CommitReview, StillTrue
<1>2. /\ case \in CaseRows /\ ver \in [Versions -> VersionRows]
      /\ case.current \in Versions
    BY ReadyRequest
<1>3. ver' = [v \in Versions |->
             IF v = q.target
             THEN [ver[v] EXCEPT !.status = q.to, !.locked = @ \/ q.to = "approved"]
             ELSE IF v = q.prior THEN [ver[v] EXCEPT !.status = "superseded"]
             ELSE ver[v]]
    BY DEF CommitReview
<1>4. case' = [case EXCEPT !.state = Written(@, q.was, q.to),
                           !.approved = IF q.to = "approved"
                                        THEN Written(@, q.approvedWas, q.target)
                                        ELSE @,
                           !.revision = q.revision + 1]
    BY DEF CommitReview
<1>5. /\ case'.current = case.current /\ case'.title = case.title
      /\ case'.approved = IF q.to = "approved" THEN case.current ELSE case.approved
    BY <1>1, <1>2, <1>4 DEF CaseRows, Written
<1>6. \A v \in Versions :
         /\ ver'[v].title = ver[v].title
         /\ ver'[v].steps = ver[v].steps
         /\ ver'[v].status = IF v = case.current THEN q.to
                             ELSE IF v = q.prior THEN "superseded" ELSE ver[v].status
    BY <1>1, <1>2, <1>3 DEF VersionRows
<1>7. ver[case.current].status # "approved" /\ case.approved # case.current
    BY <1>1, <1>2 DEF VersionTransitions, Current, SerialInv, SerialRows, OneApproved
<1>8. OneApproved'
  <2>1. CASE q.to = "approved"
    <3>1. \A v \in Versions : ver[v].status = "approved" => v = q.prior
        BY <1>1, <1>7, <2>1, BoundsAssumption
           DEF SerialInv, SerialRows, OneApproved, Superseded, NoVersion, Versions
    <3> QED BY <1>5, <1>6, <2>1, <3>1 DEF OneApproved
  <2>2. CASE q.to # "approved"
    <3>1. \A v \in Versions : v # q.prior
        BY <1>1, <2>2, BoundsAssumption DEF Superseded, NoVersion, Versions
    <3> QED BY <1>2, <1>5, <1>6, <1>7, <2>2, <3>1
            DEF SerialInv, SerialRows, OneApproved
  <2> QED BY <2>1, <2>2
<1>9. ReviewedUsable'
  <2>1. q.to \in {"in_review", "approved"} => ver[case.current].steps \notin Unusable
      BY <1>1, <1>2 DEF SerialInv, SerialRows, ReviewedUsable, VersionTransitions, Current
  <2> QED BY <1>6, <2>1 DEF SerialInv, SerialRows, ReviewedUsable
<1>10. TitleMirrors'
    BY <1>2, <1>5, <1>6 DEF SerialInv, SerialRows, TitleMirrors, Current
<1> QED BY <1>6, <1>8, <1>9, <1>10 DEF SerialRows

\* The other commits write no title, version or approval.
LEMMA OtherRows ==
    ASSUME SerialInv, NEW c \in Clients, CommitTouch(c) \/ CommitLifecycle(c) \/ FailRequest(c)
    PROVE  SerialRows' /\ UNCHANGED ver
<1>1. case \in CaseRows
    BY ReadyRequest
<1>2. /\ UNCHANGED ver
      /\ case'.current = case.current /\ case'.approved = case.approved
      /\ case'.title = case.title
    BY <1>1 DEF CommitTouch, CommitLifecycle, FailRequest, CaseRows
<1> QED BY <1>2 DEF SerialInv, SerialRows, OneApproved, ReviewedUsable, TitleMirrors, Current

-----------------------------------------------------------------------------
LEMMA InitSerial == Init => SerialInv
<1> SUFFICES ASSUME Init PROVE SerialInv
    OBVIOUS
<1>1. IInv
    BY InitIInv
<1>2. SerialRows
    BY BoundsAssumption
       DEF Init, SerialRows, OneApproved, ReviewedUsable, TitleMirrors, Current, Row,
           Versions, NoVersion
<1>3. \A c \in Clients : StillTrue(req[c])
    BY DEF Init, StillTrue, Idle
<1> QED BY <1>1, <1>2, <1>3 DEF SerialInv

LEMMA NextSerial ==
    ASSUME Sequential, SerialInv, [Next]_vars
    PROVE  SerialInv'
<1>1. IInv'
    BY StepIInv DEF SerialInv
<1>2. ASSUME NEW c \in Clients, LoadRequest(c) PROVE SerialInv'
  <2>1. PICK q : StillTrue(q) /\ Begin(c, q)
      BY <1>2, LoadChecks
  <2> QED BY <1>1, <2>1, RowsUnchanged, RequestKeeps DEF Begin
<1>3. ASSUME NEW c \in Clients, CommitRequest(c) \/ FailRequest(c) PROVE SerialInv'
  <2>1. SerialRows'
      BY <1>3, EditRows, ForkRows, ReviewRows, OtherRows DEF CommitRequest
  <2>2. req' = [req EXCEPT ![c] = Idle]
      BY <1>3, CommitStep DEF SerialInv
  <2> QED BY <1>1, <2>1, <2>2, RequestKeeps, IdleTrue
<1>4. CASE UNCHANGED vars
  <2>1. UNCHANGED <<case, ver>> /\ UNCHANGED req
      BY <1>4 DEF vars
  <2>2. ASSUME NEW d \in Clients PROVE StillTrue(req[d])'
    <3>1. StillTrue(req[d])
        BY DEF SerialInv
    <3> QED BY <2>1, <3>1, RowsUnchanged DEF StillTrue
  <2> QED BY <1>1, <2>1, <2>2, RowsUnchanged DEF SerialInv
<1> QED BY <1>2, <1>3, <1>4 DEF Next

\* When requests do not overlap, the rows stay sound and every column still has
\* at the commit of a handler the value that the handler loaded.
THEOREM SerialInvariance == ASSUME Sequential PROVE Spec => []SerialInv
<1>1. SerialInv /\ [Next]_vars => SerialInv'
    BY NextSerial
<1> QED BY InitSerial, <1>1, PTL DEF Spec

-----------------------------------------------------------------------------
(* Its consequences, for requests that do not overlap                      *)

\* transition_version leaves exactly the version approved that
\* approved_version_id names.
THEOREM OnlyOneApproved == ASSUME Sequential PROVE Spec => []OneApproved
<1>1. SerialInv => OneApproved
    BY DEF SerialInv, SerialRows
<1> QED BY <1>1, SerialInvariance, PTL

\* The approved version can be executed: transition_version submits no version
\* without a valid step, and update_test_case takes none away afterwards.
THEOREM ApprovedCanRun == ASSUME Sequential PROVE Spec => []ApprovedReviewable
<1>1. SerialInv => ApprovedReviewable
    BY DEF SerialInv, SerialRows, OneApproved, ReviewedUsable, ApprovedReviewable,
           IInv, TypeOK, CaseRows
<1> QED BY <1>1, SerialInvariance, PTL

\* update_test_case writes the title of the case and of its current version
\* together.
THEOREM TitlesAgree == ASSUME Sequential PROVE Spec => []TitleMirrors
<1>1. SerialInv => TitleMirrors
    BY DEF SerialInv, SerialRows
<1> QED BY <1>1, SerialInvariance, PTL

\* What was submitted for review is never edited: update_test_case forks a new
\* version instead.
THEOREM SubmittedIsFixed == ASSUME Sequential PROVE Spec => ContentFixed
<1>1. SerialInv /\ [Next]_vars =>
        [\A v \in Versions : ver[v].status \notin {"none", "draft"} =>
            /\ ver'[v].title = ver[v].title
            /\ ver'[v].steps = ver[v].steps]_vars
  <2> SUFFICES ASSUME SerialInv, [Next]_vars,
                      NEW v \in Versions, ver[v].status \notin {"none", "draft"}
               PROVE  ver'[v].title = ver[v].title /\ ver'[v].steps = ver[v].steps
      OBVIOUS
  <2>1. ASSUME NEW c \in Clients, LoadRequest(c) PROVE UNCHANGED ver
      BY <2>1, LoadChecks DEF Begin
  <2> QED BY <2>1, EditRows, ForkRows, ReviewRows, OtherRows
          DEF Next, CommitRequest, vars, Exists
<1> QED BY <1>1, SerialInvariance, PTL DEF Spec, ContentFixed
=============================================================================
