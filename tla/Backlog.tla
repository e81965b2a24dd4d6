------------------------------ MODULE Backlog ------------------------------
(***************************************************************************)
(* Requirements, releases, defects, scenarios and test plans with the      *)
(* trace links between them: backend/app/domain/backlog.py, scenarios.py,  *)
(* traceability.py and the plans of planning.py, in one project.           *)
(*                                                                         *)
(* A request loads and checks its rows in one action, and writes them at   *)
(* its commit in another; nothing it has read is locked in between.  The   *)
(* foreign keys of scenarios, plan scopes and cycles, and a row that was   *)
(* deleted meanwhile, refuse a commit, which then has no effect (Refused). *)
(* Trace links have no foreign keys: their ends are a type and an id.      *)
(*                                                                         *)
(* The version of a row only refuses calls and is left out, as are the     *)
(* releases that rows name, since no code deletes a release.               *)
(***************************************************************************)
EXTENDS Naturals, FiniteSets

CONSTANTS
    Clients,       \* requests that may be in flight at the same time
    Requirements, Releases, Defects, Scenarios, Plans,   \* row ids
    Families,      \* which of them a behaviour creates (bound)
    TestCases,     \* test_case row ids, which exist throughout
    Links          \* trace_link row ids

Entities == Requirements \cup Releases \cup Defects \cup Scenarios \cup Plans

ASSUME BacklogAssumption ==
    /\ \A f \in Families : f \subseteq Entities
    /\ "none" \notin Entities \cup TestCases
    /\ Requirements \cap (Releases \cup Defects \cup Scenarios \cup Plans) = {}
    /\ Releases \cap (Defects \cup Scenarios \cup Plans) = {}
    /\ Defects \cap (Scenarios \cup Plans) = {}
    /\ Scenarios \cap Plans = {}

VARIABLES
    family,     \* the rows that this behaviour may create
    status,     \* row -> its status; "none" before it, "deleted" after it
    under,      \* scenario -> its requirement_id
    grouped,    \* test case -> its scenario_id
    scope,      \* plan_scope_item rows: plan and test case
    cycled,     \* plans with a test cycle
    link,       \* trace link -> row
    req,        \* client -> the request it has in flight
    overlapped  \* two requests have been in flight together

rows == <<family, status, under, grouped, scope, cycled, link>>
vars == <<rows, req, overlapped>>

-----------------------------------------------------------------------------
RequirementTransitions ==
    {<<"draft", "active">>, <<"active", "fulfilled">>, <<"fulfilled", "active">>,
     <<"active", "archived">>, <<"draft", "archived">>, <<"fulfilled", "archived">>,
     <<"archived", "draft">>}
ReleaseTransitions ==
    {<<"planned", "active">>, <<"active", "released">>, <<"planned", "cancelled">>,
     <<"active", "cancelled">>, <<"released", "archived">>, <<"cancelled", "archived">>,
     <<"planned", "archived">>}
DefectTransitions ==
    {<<"new", "open">>, <<"new", "rejected">>, <<"open", "in_progress">>,
     <<"open", "rejected">>, <<"in_progress", "resolved">>, <<"in_progress", "open">>,
     <<"resolved", "closed">>, <<"resolved", "open">>, <<"closed", "open">>}
PlanTransitions ==
    {<<"draft", "active">>, <<"active", "completed">>, <<"completed", "active">>,
     <<"draft", "archived">>, <<"active", "archived">>, <<"completed", "archived">>}
ScenarioTransitions == {<<"active", "archived">>, <<"archived", "active">>}

Transitions(e) ==
    CASE e \in Requirements -> RequirementTransitions
      [] e \in Releases -> ReleaseTransitions
      [] e \in Defects -> DefectTransitions
      [] e \in Scenarios -> ScenarioTransitions
      [] e \in Plans -> PlanTransitions

Statuses(e) == UNION {{move[1], move[2]} : move \in Transitions(e)}
AllStatuses == UNION {Statuses(e) : e \in Entities}

\* LEGAL_RELATIONSHIPS, as far as its ends are rows of this module.
LegalEnds ==
    (Requirements \X TestCases) \cup (Requirements \X Releases)
    \cup (Releases \X Plans) \cup (Defects \X Requirements) \cup (Defects \X Releases)

LinkRows == [ends : LegalEnds, state : {"active", "removed"}]
NoLink == [state |-> "none"]
DeletedLink == [state |-> "deleted"]

Idle == [op |-> "none"]
Requests ==
    {Idle}
    \cup [op : {"create", "move"}, entity : Entities, to : AllStatuses,
          under : Requirements \cup {"none"}]
    \cup [op : {"delete"}, entity : Requirements \cup Plans]
    \cup [op : {"cycle"}, entity : Plans]
    \cup [op : {"put"}, entity : Scenarios, under : Requirements \cup {"none"}]
    \cup [op : {"group"}, case : TestCases, scenario : Scenarios \cup {"none"}]
    \cup [op : {"scope"}, entity : Plans, case : TestCases]
    \cup [op : {"link"}, ends : LegalEnds]
    \cup [op : {"unlink"}, link : Links]

Exists(e) == status[e] \notin {"none", "deleted"}
LinkExists(l) == link[l].state \in {"active", "removed"}

\* The other end may be a test case, which is never deleted.
Resolves(x) == x \in TestCases \/ (x \in Entities /\ Exists(x))

Init ==
    /\ family \in Families
    /\ status = [e \in Entities |-> "none"]
    /\ under = [s \in Scenarios |-> "none"]
    /\ grouped = [k \in TestCases |-> "none"]
    /\ scope = {}
    /\ cycled = {}
    /\ link = [l \in Links |-> NoLink]
    /\ req = [c \in Clients |-> Idle]
    /\ overlapped = FALSE

Begin(c, q) ==
    /\ req[c] = Idle
    /\ req' = [req EXCEPT ![c] = q]
    /\ overlapped' = (overlapped \/ \E d \in Clients : req[d] # Idle)
    /\ UNCHANGED rows

End(c) == req' = [req EXCEPT ![c] = Idle] /\ UNCHANGED <<family, overlapped>>

\* A constraint refuses the commit, or the request fails: nothing is written.
Refused(c) == req[c] # Idle /\ End(c) /\ UNCHANGED rows

-----------------------------------------------------------------------------
RequirementExists(r) == r = "none" \/ (r \in Requirements /\ Exists(r))

LoadCreate(c, e, to, r) ==
    /\ e \in family /\ status[e] = "none"
    /\ Begin(c, [op |-> "create", entity |-> e, to |-> to, under |-> r])

(* create_requirement, create_release, create_defect, create_plan and       *)
(* create_scenario, which may name a requirement.                           *)
LoadCreateRequirement(c, r, to) ==
    to \in {"draft", "active"} /\ LoadCreate(c, r, to, "none")
LoadCreateRelease(c, v) == LoadCreate(c, v, "planned", "none")
LoadCreateDefect(c, d) == LoadCreate(c, d, "new", "none")
LoadCreatePlan(c, p) == LoadCreate(c, p, "draft", "none")
LoadCreateScenario(c, s, r) == RequirementExists(r) /\ LoadCreate(c, s, "active", r)

CommitCreate(c) ==
    LET q == req[c] IN
    /\ q.op = "create"
    /\ status[q.entity] = "none"
    /\ RequirementExists(q.under)
    /\ status' = [status EXCEPT ![q.entity] = q.to]
    /\ under' = IF q.entity \in Scenarios
                THEN [under EXCEPT ![q.entity] = q.under] ELSE under
    /\ End(c)
    /\ UNCHANGED <<grouped, scope, cycled, link>>

\* A draft plan needs a scoped test or a cycle before its activation.
HasContent(p) == p \in cycled \/ \E k \in TestCases : <<p, k>> \in scope

LoadMove(c, e, to) ==
    Begin(c, [op |-> "move", entity |-> e, to |-> to, under |-> "none"])

(* transition_requirement, and update_requirement where it changes the      *)
(* status; transition_release; transition_defect.                           *)
LoadTransitionRequirement(c, r, to) ==
    <<status[r], to>> \in RequirementTransitions /\ LoadMove(c, r, to)
LoadTransitionRelease(c, v, to) ==
    <<status[v], to>> \in ReleaseTransitions /\ LoadMove(c, v, to)
LoadTransitionDefect(c, d, to) ==
    <<status[d], to>> \in DefectTransitions /\ LoadMove(c, d, to)

\* Mutant: a plan is activated whatever is in it.
LoadTransitionPlanUnchecked(c, p, to) ==
    <<status[p], to>> \in PlanTransitions /\ LoadMove(c, p, to)

(* transition_plan.                                                         *)
LoadTransitionPlan(c, p, to) ==
    /\ <<status[p], to>> \in PlanTransitions
    /\ status[p] = "draft" /\ to = "active" => HasContent(p)
    /\ LoadMove(c, p, to)

(* set_status of a scenario, where it changes it.                           *)
LoadSetStatus(c, s, to) ==
    <<status[s], to>> \in ScenarioTransitions /\ LoadMove(c, s, to)

CommitTransition(c) ==
    /\ req[c].op = "move"
    /\ Exists(req[c].entity)
    /\ status' = [status EXCEPT ![req[c].entity] = req[c].to]
    /\ End(c)
    /\ UNCHANGED <<under, grouped, scope, cycled, link>>

\* Mutant: only links that lead away from the requirement are deleted.
NamesAsSource(l, r) == LinkExists(l) /\ link[l].ends[1] = r

Names(l, r) == LinkExists(l) /\ r \in {link[l].ends[1], link[l].ends[2]}

(* delete_requirement: its links, removed ones too, are deleted with it,    *)
(* and scenarios are detached.                                              *)
LoadDeleteRequirement(c, r) ==
    /\ Exists(r)
    /\ Begin(c, [op |-> "delete", entity |-> r])

CommitDeleteRequirement(c) ==
    LET r == req[c].entity IN
    /\ req[c].op = "delete" /\ r \in Requirements
    /\ Exists(r)
    /\ link' = [l \in Links |-> IF Names(l, r) THEN DeletedLink ELSE link[l]]
    /\ under' = [s \in Scenarios |-> IF under[s] = r THEN "none" ELSE under[s]]
    /\ status' = [status EXCEPT ![r] = "deleted"]
    /\ End(c)
    /\ UNCHANGED <<grouped, scope, cycled>>

(* delete_plan: its scope is deleted with it, its trace links stay.  A      *)
(* cycle created meanwhile refuses the commit.                              *)
LoadDeletePlan(c, p) ==
    /\ Exists(p) /\ p \notin cycled
    /\ Begin(c, [op |-> "delete", entity |-> p])

CommitDeletePlan(c) ==
    LET p == req[c].entity IN
    /\ req[c].op = "delete" /\ p \in Plans
    /\ Exists(p) /\ p \notin cycled
    /\ scope' = {item \in scope : item[1] # p}
    /\ status' = [status EXCEPT ![p] = "deleted"]
    /\ End(c)
    /\ UNCHANGED <<under, grouped, cycled, link>>

(* add_plan_scope.  A test case is in the scope of a plan once.             *)
LoadAddPlanScope(c, p, k) ==
    /\ status[p] \in {"draft", "active"}
    /\ <<p, k>> \notin scope
    /\ Begin(c, [op |-> "scope", entity |-> p, case |-> k])

CommitAddPlanScope(c) ==
    LET item == <<req[c].entity, req[c].case>> IN
    /\ req[c].op = "scope"
    /\ Exists(item[1]) /\ item \notin scope
    /\ scope' = scope \cup {item}
    /\ End(c)
    /\ UNCHANGED <<status, under, grouped, cycled, link>>

(* create_cycle, in a plan of any status.                                   *)
LoadCreateCycle(c, p) ==
    /\ Exists(p)
    /\ Begin(c, [op |-> "cycle", entity |-> p])

CommitCreateCycle(c) ==
    /\ req[c].op = "cycle"
    /\ Exists(req[c].entity)
    /\ cycled' = cycled \cup {req[c].entity}
    /\ End(c)
    /\ UNCHANGED <<status, under, grouped, scope, link>>

-----------------------------------------------------------------------------
(* update_scenario, where it changes the requirement.                       *)
LoadUpdateScenario(c, s, r) ==
    /\ status[s] = "active"
    /\ RequirementExists(r) /\ r # under[s]
    /\ Begin(c, [op |-> "put", entity |-> s, under |-> r])

CommitUpdateScenario(c) ==
    /\ req[c].op = "put"
    /\ RequirementExists(req[c].under)
    /\ under' = [under EXCEPT ![req[c].entity] = req[c].under]
    /\ End(c)
    /\ UNCHANGED <<status, grouped, scope, cycled, link>>

(* set_test_case_scenario.                                                  *)
LoadSetScenario(c, k, s) ==
    /\ s # "none" => status[s] = "active"
    /\ s # grouped[k]
    /\ Begin(c, [op |-> "group", case |-> k, scenario |-> s])

CommitSetScenario(c) ==
    /\ req[c].op = "group"
    /\ grouped' = [grouped EXCEPT ![req[c].case] = req[c].scenario]
    /\ End(c)
    /\ UNCHANGED <<status, under, scope, cycled, link>>

(* create_link: both ends can be loaded, and no active link has them.       *)
LoadCreateLink(c, ends) ==
    /\ Resolves(ends[1]) /\ Resolves(ends[2])
    /\ \A l \in Links : link[l].state = "active" => link[l].ends # ends
    /\ Begin(c, [op |-> "link", ends |-> ends])

CommitCreateLink(c, l) ==
    /\ req[c].op = "link"
    /\ link[l] = NoLink
    /\ link' = [link EXCEPT ![l] = [ends |-> req[c].ends, state |-> "active"]]
    /\ End(c)
    /\ UNCHANGED <<status, under, grouped, scope, cycled>>

(* remove_link: the row stays and is marked.                                *)
LoadRemoveLink(c, l) ==
    /\ link[l].state = "active"
    /\ Begin(c, [op |-> "unlink", link |-> l])

CommitRemoveLink(c) ==
    /\ req[c].op = "unlink"
    /\ LinkExists(req[c].link)
    /\ link' = [link EXCEPT ![req[c].link].state = "removed"]
    /\ End(c)
    /\ UNCHANGED <<status, under, grouped, scope, cycled>>

-----------------------------------------------------------------------------
Call(c) ==
    \/ \E r \in Requirements : \E to \in Statuses(r) :
          LoadCreateRequirement(c, r, to) \/ LoadTransitionRequirement(c, r, to)
    \/ \E v \in Releases : \/ LoadCreateRelease(c, v)
                           \/ \E to \in Statuses(v) : LoadTransitionRelease(c, v, to)
    \/ \E d \in Defects : \/ LoadCreateDefect(c, d)
                          \/ \E to \in Statuses(d) : LoadTransitionDefect(c, d, to)
    \/ \E p \in Plans : \/ LoadCreatePlan(c, p)
                        \/ \E to \in Statuses(p) : LoadTransitionPlan(c, p, to)
    \/ \E s \in Scenarios : \/ \E r \in Requirements \cup {"none"} : LoadCreateScenario(c, s, r)
                            \/ \E to \in Statuses(s) : LoadSetStatus(c, s, to)
    \/ \E r \in Requirements : LoadDeleteRequirement(c, r)
    \/ \E p \in Plans : \/ LoadDeletePlan(c, p) \/ LoadCreateCycle(c, p)
                        \/ \E k \in TestCases : LoadAddPlanScope(c, p, k)
    \/ \E s \in Scenarios, r \in Requirements \cup {"none"} : LoadUpdateScenario(c, s, r)
    \/ \E k \in TestCases, s \in Scenarios \cup {"none"} : LoadSetScenario(c, k, s)
    \/ \E ends \in LegalEnds : LoadCreateLink(c, ends)
    \/ \E l \in Links : LoadRemoveLink(c, l)

Commit(c) ==
    \/ CommitCreate(c) \/ CommitTransition(c)
    \/ CommitDeleteRequirement(c) \/ CommitDeletePlan(c)
    \/ CommitAddPlanScope(c) \/ CommitCreateCycle(c)
    \/ CommitUpdateScenario(c) \/ CommitSetScenario(c)
    \/ (\E l \in Links : CommitCreateLink(c, l)) \/ CommitRemoveLink(c)

Next == \E c \in Clients : Call(c) \/ Commit(c) \/ Refused(c)

Spec == Init /\ [][Next]_vars

-----------------------------------------------------------------------------
TypeOK ==
    /\ family \in Families
    /\ status \in [Entities -> AllStatuses \cup {"none", "deleted"}]
    /\ \A e \in Entities : Exists(e) => status[e] \in Statuses(e)
    /\ under \in [Scenarios -> Requirements \cup {"none"}]
    /\ grouped \in [TestCases -> Scenarios \cup {"none"}]
    /\ scope \subseteq Plans \X TestCases
    /\ cycled \subseteq Plans
    /\ link \in [Links -> LinkRows \cup {NoLink, DeletedLink}]
    /\ req \in [Clients -> Requests]
    /\ overlapped \in BOOLEAN

\* What scenarios, scopes and cycles name exists.
ReferencesHold ==
    /\ \A s \in Scenarios : RequirementExists(under[s])
    /\ \A k \in TestCases : grouped[k] # "none" => Exists(grouped[k])
    /\ \A item \in scope : Exists(item[1])
    /\ \A p \in cycled : Exists(p)

\* A plan that was activated still has a scoped test or a cycle.
ActivatedHasContent ==
    \A p \in Plans : status[p] \in {"active", "completed"} => HasContent(p)

\* What a request has loaded is still so: the plan that it activates has
\* content while it exists, and the scenario that it assigns exists.
StillLoaded(q) ==
    /\ q.op = "create" => /\ q.to \in Statuses(q.entity)
                          /\ q.entity \in Plans => q.to = "draft"
    /\ q.op = "move" =>
          /\ q.to \in Statuses(q.entity) /\ status[q.entity] # "none"
          /\ q.entity \in Plans /\ q.to # "archived" /\ Exists(q.entity)
                => HasContent(q.entity)
    /\ q.op = "group" => q.scenario = "none" \/ Exists(q.scenario)

(* However requests overlap, no row names a requirement, scenario or plan   *)
(* that was deleted, and no plan is active or completed without a scoped    *)
(* test or a cycle, though neither is locked when it is activated.          *)
IInv ==
    /\ TypeOK /\ ReferencesHold /\ ActivatedHasContent
    /\ \A c \in Clients : StillLoaded(req[c])

(* As long as no requests overlap, an active link leads from and to rows    *)
(* that exist, deleted plans excepted, and no other active link has the     *)
(* same ends: the trace links need no foreign keys.                         *)
LinksResolve ==
    ~overlapped =>
        \A l \in Links : link[l].state = "active" =>
            /\ \A i \in 1..2 : link[l].ends[i] \in Plans \/ Resolves(link[l].ends[i])
            /\ \A m \in Links \ {l} : link[m].state = "active" => link[m].ends # link[l].ends
=============================================================================
