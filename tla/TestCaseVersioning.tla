------------------------- MODULE TestCaseVersioning -------------------------
(***************************************************************************)
(* One test case, its versions and the review of them:                     *)
(* backend/app/domain/test_case/service.py.  Test cases share no rows that *)
(* these handlers write, so one is enough.                                 *)
(*                                                                         *)
(* Requests are modelled as in CycleExecution: Load<Handler> reads and     *)
(* checks, Commit<Handler> writes, and nothing is locked in between.  The  *)
(* caller's expected_version is compared with the row that was loaded      *)
(* (check_version); a caller that is out of date is refused there, so only *)
(* callers that passed are modelled.  An UPDATE names the columns whose    *)
(* value differs from the loaded one, and no others.                       *)
(***************************************************************************)
EXTENDS Naturals, FiniteSets

CONSTANTS
    Clients,        \* requests that may be in flight at the same time
    Titles,         \* title, with description and preconditions
    StepLists,      \* ordered lists of steps
    Unusable,       \* those of them without a valid step
    Omitted,        \* an edit that does not mention the steps
    NumVersions,    \* bound on the versions of the case
    MaxRevision     \* bound on test_case.version

ASSUME ContentAssumption ==
    /\ Titles # {} /\ StepLists # {}
    /\ Unusable \subseteq StepLists
    /\ Omitted \notin StepLists

ASSUME BoundsAssumption ==
    /\ NumVersions \in Nat \ {0}
    /\ MaxRevision \in Nat

Selectable == {"approved", "active", "deprecated"}
VersionStatuses == {"draft", "in_review", "approved", "superseded"}
Lifecycle == {"draft", "in_review", "approved", "active", "deprecated", "archived"}

\* Versions are known by their version_number; 0 stands for NULL.
Versions == 1..NumVersions
NoVersion == 0

VARIABLES
    case,     \* the test_case row
    ver,      \* version number -> its row and steps; status "none": no such row
    req       \* client -> the request it has in flight

vars == <<case, ver, req>>

Row(status, title, steps) ==
    [status |-> status, title |-> title, steps |-> steps, locked |-> FALSE]

CaseRows == [state : Lifecycle, current : Versions,
             approved : Versions \cup {NoVersion}, title : Titles,
             revision : Nat]     \* the column test_case.version
VersionRows == [status : VersionStatuses \cup {"none"}, title : Titles,
                steps : StepLists, locked : BOOLEAN]

Idle == [op |-> "idle"]

\* What a handler loaded and needs at its commit: `was' and `prior' are values
\* that columns had when they were loaded.
Requests ==
    {Idle}
    \cup [op : {"touch"}, revision : Nat]
    \cup [op : {"edit"}, revision : Nat, target : Versions, title : Titles,
          was : Titles, caseWas : Titles, steps : StepLists \cup {Omitted},
          stepsWere : StepLists]
    \cup [op : {"fork"}, revision : Nat, target : Versions, title : Titles,
          caseWas : Titles, steps : StepLists]
    \cup [op : {"review"}, revision : Nat, target : Versions,
          to : VersionStatuses, was : Lifecycle,
          approvedWas : Versions \cup {NoVersion},
          prior : Versions \cup {NoVersion}]
    \cup [op : {"lifecycle"}, revision : Nat, to : Lifecycle]

TypeOK ==
    /\ case \in CaseRows
    /\ ver \in [Versions -> VersionRows]
    /\ req \in [Clients -> Requests]

(* create_test_case: the case with version 1 as its draft, in one commit.  *)
Init ==
    /\ \E title \in Titles, steps \in StepLists :
          /\ case = [state |-> "draft", current |-> 1, approved |-> NoVersion,
                     title |-> title, revision |-> 1]
          /\ ver = [v \in Versions |->
                      Row(IF v = 1 THEN "draft" ELSE "none", title, steps)]
    /\ req = [c \in Clients |-> Idle]

-----------------------------------------------------------------------------
Exists(v) == ver[v].status # "none"
Existing == {v \in Versions : Exists(v)}
Current == ver[case.current]

Begin(c, request) == /\ req[c] = Idle
                     /\ case.revision < MaxRevision
                     /\ req' = [req EXCEPT ![c] = request]
                     /\ UNCHANGED <<case, ver>>
Finish(c) == req' = [req EXCEPT ![c] = Idle]

\* An UPDATE of a column that was loaded as `was' and assigned `new'.
Written(now, was, new) == IF new = was THEN now ELSE new

(* update_test_case.  An edit that changes no controlled content only      *)
(* counts; one that does goes into the current version if that is a draft, *)
(* and into a new version otherwise.                                       *)
Controlled(title, steps) ==
    \/ title # Current.title
    \/ steps \notin {Omitted, Current.steps}

LoadTouch(c, title, steps) ==
    /\ case.state # "archived"
    /\ ~Controlled(title, steps)
    /\ Begin(c, [op |-> "touch", revision |-> case.revision])

\* Mutant: a version may be edited in place until it is approved.
LoadEditUnapproved(c, title, steps) ==
    /\ case.state # "archived"
    /\ Controlled(title, steps)
    /\ Current.status \in {"draft", "in_review"}
    /\ Begin(c, [op |-> "edit", revision |-> case.revision,
                 target |-> case.current, title |-> title, was |-> Current.title,
                 caseWas |-> case.title, steps |-> steps,
                 stepsWere |-> Current.steps])

LoadEdit(c, title, steps) ==
    /\ case.state # "archived"
    /\ Controlled(title, steps)
    /\ Current.status = "draft"
    /\ Begin(c, [op |-> "edit", revision |-> case.revision,
                 target |-> case.current, title |-> title, was |-> Current.title,
                 caseWas |-> case.title, steps |-> steps,
                 stepsWere |-> Current.steps])

\* _next_version_number: the largest number plus one.
NextVersionNumber == CHOOSE n \in 1..(NumVersions + 1) :
    /\ \A v \in Existing : v < n
    /\ n = 1 \/ (n - 1) \in Existing

LoadFork(c, title, steps) ==
    /\ case.state # "archived"
    /\ Controlled(title, steps)
    /\ Current.status # "draft"
    /\ NextVersionNumber \in Versions
    /\ Begin(c, [op |-> "fork", revision |-> case.revision,
                 target |-> NextVersionNumber, title |-> title,
                 caseWas |-> case.title,
                 steps |-> IF steps = Omitted THEN Current.steps ELSE steps])

CommitTouch(c) ==
    /\ req[c].op = "touch"
    /\ case' = [case EXCEPT !.revision = req[c].revision + 1]
    /\ Finish(c)
    /\ UNCHANGED ver

(* The steps are deleted and inserted again.  If another edit replaced     *)
(* them after the DELETE had begun, its rows are not deleted: they collide *)
(* with the new ones (unique_step_order), or stay if there are none.       *)
StepsLeft(q) ==
    IF q.steps = Omitted THEN {ver[q.target].steps}
    ELSE IF q.steps \in Unusable /\ ver[q.target].steps # q.stepsWere
         THEN {q.steps, ver[q.target].steps}
         ELSE {q.steps}

\* Mutant: the edit also writes current_version_id.
CommitEditAsCurrent(c) ==
    /\ req[c].op = "edit"
    /\ LET q == req[c] IN
       /\ \E steps \in StepsLeft(q) :
            ver' = [ver EXCEPT ![q.target].title = Written(@, q.was, q.title),
                               ![q.target].steps = steps]
       /\ case' = [case EXCEPT !.title = Written(@, q.caseWas, q.title),
                               !.current = q.target,
                               !.revision = q.revision + 1]
    /\ Finish(c)

CommitEdit(c) ==
    /\ req[c].op = "edit"
    /\ LET q == req[c] IN
       /\ \E steps \in StepsLeft(q) :
            ver' = [ver EXCEPT ![q.target].title = Written(@, q.was, q.title),
                               ![q.target].steps = steps]
       /\ case' = [case EXCEPT !.title = Written(@, q.caseWas, q.title),
                               !.revision = q.revision + 1]
    /\ Finish(c)

\* Mutant: the title of the test case is not brought along.
CommitForkTitleKept(c) ==
    /\ req[c].op = "fork"
    /\ LET q == req[c] IN
       /\ ~Exists(q.target)
       /\ ver' = [ver EXCEPT ![q.target] = Row("draft", q.title, q.steps)]
       /\ case' = [case EXCEPT !.current = q.target,
                               !.revision = q.revision + 1]
    /\ Finish(c)

\* Refused by unique_version_number if the number was taken meanwhile.
CommitFork(c) ==
    /\ req[c].op = "fork"
    /\ LET q == req[c] IN
       /\ ~Exists(q.target)
       /\ ver' = [ver EXCEPT ![q.target] = Row("draft", q.title, q.steps)]
       /\ case' = [case EXCEPT !.current = q.target,
                               !.title = Written(@, q.caseWas, q.title),
                               !.revision = q.revision + 1]
    /\ Finish(c)

-----------------------------------------------------------------------------
(* transition_version: the review of the current version.                  *)

VersionTransitions ==
    {<<"draft", "in_review">>, <<"in_review", "draft">>, <<"in_review", "approved">>}

\* The version whose status an approval overwrites, if there is one.
Superseded(to) ==
    IF /\ to = "approved"
       /\ case.approved \notin {NoVersion, case.current}
       /\ ver[case.approved].status # "superseded"
    THEN case.approved ELSE NoVersion

\* Mutant: a version is submitted without looking at its steps.
LoadReviewAnything(c, to) ==
    /\ <<Current.status, to>> \in VersionTransitions
    /\ Begin(c, [op |-> "review", revision |-> case.revision,
                 target |-> case.current, to |-> to, was |-> case.state,
                 approvedWas |-> case.approved, prior |-> Superseded(to)])

LoadReview(c, to) ==
    /\ <<Current.status, to>> \in VersionTransitions
    /\ to = "in_review" => Current.steps \notin Unusable
    /\ Begin(c, [op |-> "review", revision |-> case.revision,
                 target |-> case.current, to |-> to, was |-> case.state,
                 approvedWas |-> case.approved, prior |-> Superseded(to)])

\* Mutant: the version approved before is not superseded.
CommitReviewAlone(c) ==
    /\ req[c].op = "review"
    /\ LET q == req[c] IN
       /\ ver' = [ver EXCEPT ![q.target].status = q.to,
                             ![q.target].locked = @ \/ q.to = "approved"]
       /\ case' = [case EXCEPT !.state = Written(@, q.was, q.to),
                               !.approved = IF q.to = "approved"
                                            THEN Written(@, q.approvedWas, q.target)
                                            ELSE @,
                               !.revision = q.revision + 1]
    /\ Finish(c)

CommitReview(c) ==
    /\ req[c].op = "review"
    /\ LET q == req[c] IN
       /\ ver' = [v \in Versions |->
             IF v = q.target
             THEN [ver[v] EXCEPT !.status = q.to, !.locked = @ \/ q.to = "approved"]
             ELSE IF v = q.prior THEN [ver[v] EXCEPT !.status = "superseded"]
             ELSE ver[v]]
       /\ case' = [case EXCEPT !.state = Written(@, q.was, q.to),
                               !.approved = IF q.to = "approved"
                                            THEN Written(@, q.approvedWas, q.target)
                                            ELSE @,
                               !.revision = q.revision + 1]
    /\ Finish(c)

(* transition_lifecycle                                                    *)

\* Mutant: an archived case is restored as approved.
RestoredApproved ==
    {<<"approved", "active">>, <<"active", "deprecated">>, <<"deprecated", "active">>,
     <<"active", "archived">>, <<"deprecated", "archived">>, <<"approved", "archived">>,
     <<"draft", "archived">>, <<"in_review", "archived">>, <<"archived", "approved">>}

LogicalTransitions ==
    {<<"approved", "active">>, <<"active", "deprecated">>, <<"deprecated", "active">>,
     <<"active", "archived">>, <<"deprecated", "archived">>, <<"approved", "archived">>,
     <<"draft", "archived">>, <<"in_review", "archived">>, <<"archived", "draft">>}

LoadLifecycle(c, to) ==
    /\ <<case.state, to>> \in LogicalTransitions
    /\ to = "active" => case.approved # NoVersion
    /\ Begin(c, [op |-> "lifecycle", revision |-> case.revision, to |-> to])

CommitLifecycle(c) ==
    /\ req[c].op = "lifecycle"
    /\ case' = [case EXCEPT !.state = req[c].to, !.revision = req[c].revision + 1]
    /\ Finish(c)
    /\ UNCHANGED ver

(* Any request may fail and be rolled back.                                *)
FailRequest(c) ==
    /\ req[c] # Idle
    /\ Finish(c)
    /\ UNCHANGED <<case, ver>>

-----------------------------------------------------------------------------
LoadRequest(c) ==
    \/ \E title \in Titles, steps \in StepLists \cup {Omitted} :
          LoadTouch(c, title, steps) \/ LoadEdit(c, title, steps)
                                    \/ LoadFork(c, title, steps)
    \/ \E to \in VersionStatuses : LoadReview(c, to)
    \/ \E to \in Lifecycle : LoadLifecycle(c, to)

CommitRequest(c) ==
    \/ CommitTouch(c)
    \/ CommitEdit(c)
    \/ CommitFork(c)
    \/ CommitReview(c)
    \/ CommitLifecycle(c)

Next == \E c \in Clients : LoadRequest(c) \/ CommitRequest(c) \/ FailRequest(c)

Spec == Init /\ [][Next]_vars

-----------------------------------------------------------------------------
(* What holds however requests interleave                                  *)

\* current_version_id is the newest version, and versions are numbered without
\* gaps: of two edits that fork at the same time the unique number lets one
\* pass, and an edit in place never moves the pointer back.
CurrentIsNewest == Existing = 1..case.current

\* A case that can be taken into new scope or that was (approved, active,
\* deprecated) has an approved version, and that one was locked when it was
\* approved, whatever sequence of reviews, archiving and restoring led here.
SelectableHasApproved ==
    /\ case.state \in Selectable => case.approved # NoVersion
    /\ case.approved # NoVersion => ver[case.approved].locked

\* What a request relied on when it loaded its rows and is still so when it
\* commits.  A fork's number is either still the next one, or taken.
StillLoaded(q) ==
    /\ q.op = "edit" => Exists(q.target)
    /\ q.op = "fork" => q.target <= case.current + 1
    /\ q.op = "review" => /\ Exists(q.target)
                          /\ q.to \in {"draft", "in_review", "approved"}
                          /\ (q.approvedWas # NoVersion => case.approved # NoVersion)
                          /\ (q.was \in Selectable => case.approved # NoVersion)
                          /\ (q.prior # NoVersion => ver[q.prior].locked)
    /\ q.op = "lifecycle" =>
          (q.to \in Selectable => case.approved # NoVersion)

\* The inductive invariant behind the properties above.
IInv ==
    /\ TypeOK
    /\ CurrentIsNewest
    /\ \A v \in Versions : ver[v].locked => Exists(v)
    /\ SelectableHasApproved
    /\ \A c \in Clients : StillLoaded(req[c])

-----------------------------------------------------------------------------
(* What holds when requests do not overlap, and not otherwise              *)

\* The version that approved_version_id names is approved, and no other one is:
\* an approval supersedes the previous one.
OneApproved ==
    \A v \in Versions : ver[v].status = "approved" <=> v = case.approved

\* A version submitted for review had a valid step (_assert_reviewable), and
\* nothing takes it away again: every approved version can be executed.
ApprovedReviewable ==
    case.approved # NoVersion => ver[case.approved].steps \notin Unusable

\* Once its status has left draft the content of a version does not change;
\* update_test_case forks a new one instead.
ContentFixed ==
    [][\A v \in Versions : ver[v].status \notin {"none", "draft"} =>
          /\ ver'[v].title = ver[v].title
          /\ ver'[v].steps = ver[v].steps]_vars

\* The title of the test case is the title of its current version.
TitleMirrors == case.title = Current.title
=============================================================================
