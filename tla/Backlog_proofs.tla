---------------------------- MODULE Backlog_proofs ----------------------------
(***************************************************************************)
(* Proof that the backlog stays sound however requests overlap: no row     *)
(* names a requirement, scenario or plan that was deleted, and a plan that *)
(* was activated has a scoped test or a cycle.                             *)
(*                                                                         *)
(* The argument.  What a plan contains only goes away with the plan, and   *)
(* scenarios are never deleted, so what a request has found of either is   *)
(* still so at its commit (StillLoaded).  All else the foreign keys check  *)
(* at the commit.                                                          *)
(*                                                                         *)
(* With one request at a time also: active links resolve and are not       *)
(* duplicated, since what create_link has checked stays so (Linkable).     *)
(***************************************************************************)
EXTENDS Backlog, TLAPS

\* The fields of a request are those of its operation.
LEMMA Fields ==
    ASSUME NEW q \in Requests
    PROVE  /\ q.op \in {"create", "move"} => /\ q.entity \in Entities /\ q.to \in AllStatuses
                                             /\ q.under \in Requirements \cup {"none"}
           /\ q.op = "delete" => q.entity \in Requirements \cup Plans
           /\ q.op = "cycle" => q.entity \in Plans
           /\ q.op = "put" => /\ q.entity \in Scenarios
                              /\ q.under \in Requirements \cup {"none"}
           /\ q.op = "group" => /\ q.case \in TestCases
                                /\ q.scenario \in Scenarios \cup {"none"}
           /\ q.op = "scope" => q.entity \in Plans /\ q.case \in TestCases
           /\ q.op = "link" => q.ends \in LegalEnds
           /\ q.op = "unlink" => q.link \in Links
BY DEF Requests, Idle

\* Which transitions a row has follows from its table.
LEMMA Tables ==
    /\ \A r \in Requirements : Transitions(r) = RequirementTransitions
    /\ \A v \in Releases : Transitions(v) = ReleaseTransitions
    /\ \A d \in Defects : Transitions(d) = DefectTransitions
    /\ \A s \in Scenarios : Transitions(s) = ScenarioTransitions
    /\ \A p \in Plans : Transitions(p) = PlanTransitions
BY BacklogAssumption DEF Transitions, Entities

\* Both ends of a transition are statuses, and rows with one of them exist.
LEMMA MoveStatuses ==
    ASSUME NEW e \in Entities, NEW a, NEW b, <<a, b>> \in Transitions(e)
    PROVE  a \in Statuses(e) /\ b \in Statuses(e)
BY DEF Statuses

LEMMA StatusKinds ==
    ASSUME NEW e \in Entities, NEW a \in Statuses(e)
    PROVE  a \in AllStatuses /\ a # "none" /\ a # "deleted"
<1>1. PICK move \in Transitions(e) : a \in {move[1], move[2]}
    BY DEF Statuses
<1>2. \A table \in {RequirementTransitions, ReleaseTransitions, DefectTransitions,
                     ScenarioTransitions, PlanTransitions} : \A m \in table :
          /\ m[1] # "none" /\ m[1] # "deleted"
          /\ m[2] # "none" /\ m[2] # "deleted"
  <2>1. \A m \in RequirementTransitions :
          /\ m[1] # "none" /\ m[1] # "deleted"
          /\ m[2] # "none" /\ m[2] # "deleted"
      BY DEF RequirementTransitions
  <2>2. \A m \in ReleaseTransitions :
          /\ m[1] # "none" /\ m[1] # "deleted"
          /\ m[2] # "none" /\ m[2] # "deleted"
      BY DEF ReleaseTransitions
  <2>3. \A m \in DefectTransitions :
          /\ m[1] # "none" /\ m[1] # "deleted"
          /\ m[2] # "none" /\ m[2] # "deleted"
      BY DEF DefectTransitions
  <2>4. \A m \in ScenarioTransitions \cup PlanTransitions :
          /\ m[1] # "none" /\ m[1] # "deleted"
          /\ m[2] # "none" /\ m[2] # "deleted"
      BY DEF ScenarioTransitions, PlanTransitions
  <2> QED BY <2>1, <2>2, <2>3, <2>4
<1>3. Transitions(e) \in {RequirementTransitions, ReleaseTransitions, DefectTransitions,
                          ScenarioTransitions, PlanTransitions}
    BY Tables DEF Entities
<1> QED BY <1>1, <1>2, <1>3 DEF AllStatuses

\* The status that a row is created with.
LEMMA FirstStatuses ==
    /\ \A r \in Requirements : "draft" \in Statuses(r) /\ "active" \in Statuses(r)
    /\ \A v \in Releases : "planned" \in Statuses(v)
    /\ \A d \in Defects : "new" \in Statuses(d)
    /\ \A s \in Scenarios : "active" \in Statuses(s)
    /\ \A p \in Plans : "draft" \in Statuses(p)
<1>1. ASSUME NEW r \in Requirements PROVE "draft" \in Statuses(r) /\ "active" \in Statuses(r)
  <2>1. <<"draft", "active">> \in Transitions(r)
      BY Tables DEF RequirementTransitions
  <2> QED BY <2>1, MoveStatuses DEF Entities
<1>2. ASSUME NEW v \in Releases PROVE "planned" \in Statuses(v)
  <2>1. <<"planned", "active">> \in Transitions(v)
      BY Tables DEF ReleaseTransitions
  <2> QED BY <2>1, MoveStatuses DEF Entities
<1>3. ASSUME NEW d \in Defects PROVE "new" \in Statuses(d)
  <2>1. <<"new", "open">> \in Transitions(d)
      BY Tables DEF DefectTransitions
  <2> QED BY <2>1, MoveStatuses DEF Entities
<1>4. ASSUME NEW s \in Scenarios PROVE "active" \in Statuses(s)
  <2>1. <<"active", "archived">> \in Transitions(s)
      BY Tables DEF ScenarioTransitions
  <2> QED BY <2>1, MoveStatuses DEF Entities
<1>5. ASSUME NEW p \in Plans PROVE "draft" \in Statuses(p)
  <2>1. <<"draft", "active">> \in Transitions(p)
      BY Tables DEF PlanTransitions
  <2> QED BY <2>1, MoveStatuses DEF Entities
<1> QED BY <1>1, <1>2, <1>3, <1>4, <1>5

-----------------------------------------------------------------------------
\* The part of the type invariant that is about rows.
RowTypes ==
    /\ family \in Families
    /\ status \in [Entities -> AllStatuses \cup {"none", "deleted"}]
    /\ \A e \in Entities : Exists(e) => status[e] \in Statuses(e)
    /\ under \in [Scenarios -> Requirements \cup {"none"}]
    /\ grouped \in [TestCases -> Scenarios \cup {"none"}]
    /\ scope \subseteq Plans \X TestCases
    /\ cycled \subseteq Plans
    /\ link \in [Links -> LinkRows \cup {NoLink, DeletedLink}]

\* What other requests rely on stays: a plan that exists has existed or is new
\* and keeps its content, and scenarios stay.
NothingLost ==
    /\ \A p \in Plans : Exists(p)' /\ HasContent(p) => HasContent(p)'
    /\ \A p \in Plans : Exists(p)' /\ ~Exists(p) => status[p] = "none"
    /\ \A e \in Entities : status[e] # "none" => status'[e] # "none"
    /\ \A s \in Scenarios : Exists(s) => Exists(s)'

\* What holds of the rows, and what a step of one request leaves behind.
GoodRows == RowTypes /\ ReferencesHold /\ ActivatedHasContent

Sound(c) ==
    /\ GoodRows' /\ NothingLost
    /\ \E q \in Requests : StillLoaded(q)' /\ req' = [req EXCEPT ![c] = q]

LEMMA IdleSound == Idle \in Requests /\ StillLoaded(Idle)'
BY DEF Idle, Requests, StillLoaded

\* Where no row changes nothing is lost.
LEMMA NothingChanged ==
    ASSUME GoodRows, UNCHANGED rows
    PROVE  GoodRows' /\ NothingLost
<1>1. UNCHANGED <<family, status, under, grouped, scope, cycled, link>>
    BY DEF rows
<1>2. RowTypes'
    BY <1>1 DEF GoodRows, RowTypes, Exists
<1>3. ReferencesHold'
    BY <1>1 DEF GoodRows, ReferencesHold, RequirementExists, Exists
<1>4. ActivatedHasContent' /\ NothingLost
    BY <1>1 DEF GoodRows, ActivatedHasContent, NothingLost, HasContent, Exists
<1> QED BY <1>2, <1>3, <1>4 DEF GoodRows

\* What a request relies on stays.
LEMMA StillSound ==
    ASSUME NEW q \in Requests, StillLoaded(q), NothingLost
    PROVE  StillLoaded(q)'
<1>1. CASE q.op = "move"
  <2>1. q.entity \in Entities
      BY <1>1, Fields
  <2>2. /\ q.to \in Statuses(q.entity) /\ status[q.entity] # "none"
        /\ q.entity \in Plans /\ q.to # "archived" /\ Exists(q.entity)
              => HasContent(q.entity)
      BY <1>1 DEF StillLoaded
  <2>3. status'[q.entity] # "none"
      BY <2>1, <2>2 DEF NothingLost
  <2>4. ASSUME q.entity \in Plans, q.to # "archived", Exists(q.entity)'
        PROVE  HasContent(q.entity)'
    <3>1. Exists(q.entity)
        BY <2>2, <2>4 DEF NothingLost
    <3> QED BY <2>2, <2>4, <3>1 DEF NothingLost
  <2> QED BY <1>1, <2>2, <2>3, <2>4 DEF StillLoaded
<1>2. CASE q.op = "group"
  <2>1. q.scenario \in Scenarios \cup {"none"}
      BY <1>2, Fields
  <2> QED BY <1>2, <2>1 DEF StillLoaded, NothingLost
<1>3. CASE q.op \notin {"move", "group"}
    BY <1>3 DEF StillLoaded
<1> QED BY <1>1, <1>2, <1>3

-----------------------------------------------------------------------------
\* A handler that loads adds one request, sound at that moment.
LEMMA LoadStep ==
    ASSUME IInv, NEW c \in Clients, Call(c)
    PROVE  \E q \in Requests : StillLoaded(q) /\ Begin(c, q)
<1> USE BacklogAssumption
<1> DEFINE Good == \E q \in Requests : StillLoaded(q) /\ Begin(c, q)
<1>1. RowTypes /\ ActivatedHasContent
    BY DEF IInv, TypeOK, RowTypes
<1>2. ASSUME NEW q \in Requests, q.op \notin {"create", "move", "group"}, Begin(c, q)
      PROVE  Good
    BY <1>2 DEF StillLoaded
<1>3. ASSUME NEW e \in Entities, NEW to \in Statuses(e), e \in Plans => to = "draft",
             NEW r \in Requirements \cup {"none"}, LoadCreate(c, e, to, r)
      PROVE  Good
  <2> DEFINE q == [op |-> "create", entity |-> e, to |-> to, under |-> r]
  <2>1. q \in Requests
      BY DEF Requests, AllStatuses
  <2>2. StillLoaded(q)
      BY <1>3 DEF StillLoaded
  <2> QED BY <1>3, <2>1, <2>2 DEF LoadCreate
<1>4. ASSUME NEW e \in Entities, NEW to, <<status[e], to>> \in Transitions(e),
             e \in Plans /\ to # "archived" => HasContent(e), LoadMove(c, e, to)
      PROVE  Good
  <2> DEFINE q == [op |-> "move", entity |-> e, to |-> to, under |-> "none"]
  <2>1. to \in Statuses(e) /\ status[e] \in Statuses(e)
      BY <1>4, MoveStatuses
  <2>2. status[e] # "none"
      BY <2>1, StatusKinds
  <2>3. q \in Requests
      BY <2>1 DEF Requests, AllStatuses
  <2>4. StillLoaded(q)
      BY <1>4, <2>1, <2>2 DEF StillLoaded
  <2> QED BY <1>4, <2>3, <2>4 DEF LoadMove
<1>5. ASSUME NEW r \in Requirements, NEW to \in Statuses(r),
             LoadCreateRequirement(c, r, to) \/ LoadTransitionRequirement(c, r, to)
      PROVE  Good
  <2>1. r \in Entities /\ r \notin Plans
      BY DEF Entities
  <2>2. CASE LoadCreateRequirement(c, r, to)
      BY <1>3, <2>1, <2>2 DEF LoadCreateRequirement
  <2>3. CASE LoadTransitionRequirement(c, r, to)
      BY <1>4, <2>1, <2>3, Tables DEF LoadTransitionRequirement
  <2> QED BY <1>5, <2>2, <2>3
<1>6. ASSUME NEW v \in Releases,
             \/ LoadCreateRelease(c, v)
             \/ \E to \in Statuses(v) : LoadTransitionRelease(c, v, to)
      PROVE  Good
  <2>1. v \in Entities /\ v \notin Plans /\ "planned" \in Statuses(v)
      BY FirstStatuses DEF Entities
  <2>2. CASE LoadCreateRelease(c, v)
      BY <1>3, <2>1, <2>2 DEF LoadCreateRelease
  <2>3. ASSUME NEW to, LoadTransitionRelease(c, v, to) PROVE Good
      BY <1>4, <2>1, <2>3, Tables DEF LoadTransitionRelease
  <2> QED BY <1>6, <2>2, <2>3
<1>7. ASSUME NEW d \in Defects,
             \/ LoadCreateDefect(c, d)
             \/ \E to \in Statuses(d) : LoadTransitionDefect(c, d, to)
      PROVE  Good
  <2>1. d \in Entities /\ d \notin Plans /\ "new" \in Statuses(d)
      BY FirstStatuses DEF Entities
  <2>2. CASE LoadCreateDefect(c, d)
      BY <1>3, <2>1, <2>2 DEF LoadCreateDefect
  <2>3. ASSUME NEW to, LoadTransitionDefect(c, d, to) PROVE Good
      BY <1>4, <2>1, <2>3, Tables DEF LoadTransitionDefect
  <2> QED BY <1>7, <2>2, <2>3
<1>8. ASSUME NEW p \in Plans,
             \/ LoadCreatePlan(c, p)
             \/ \E to \in Statuses(p) : LoadTransitionPlan(c, p, to)
      PROVE  Good
  <2>1. p \in Entities /\ "draft" \in Statuses(p)
      BY FirstStatuses DEF Entities
  <2>2. CASE LoadCreatePlan(c, p)
      BY <1>3, <2>1, <2>2 DEF LoadCreatePlan
  <2>3. ASSUME NEW to, LoadTransitionPlan(c, p, to) PROVE Good
    <3>1. <<status[p], to>> \in PlanTransitions
        BY <2>3 DEF LoadTransitionPlan
    <3>2. to # "archived" => \/ status[p] = "draft" /\ to = "active"
                             \/ status[p] \in {"active", "completed"}
        BY <3>1 DEF PlanTransitions
    <3>3. to # "archived" => HasContent(p)
        BY <1>1, <2>3, <3>2 DEF LoadTransitionPlan, ActivatedHasContent
    <3> QED BY <1>4, <2>1, <2>3, <3>1, <3>3, Tables DEF LoadTransitionPlan
  <2> QED BY <1>8, <2>2, <2>3
<1>9. ASSUME NEW s \in Scenarios,
             \/ \E r \in Requirements \cup {"none"} : LoadCreateScenario(c, s, r)
             \/ \E to \in Statuses(s) : LoadSetStatus(c, s, to)
      PROVE  Good
  <2>1. s \in Entities /\ s \notin Plans /\ "active" \in Statuses(s)
      BY FirstStatuses DEF Entities
  <2>2. ASSUME NEW r \in Requirements \cup {"none"}, LoadCreateScenario(c, s, r) PROVE Good
      BY <1>3, <2>1, <2>2 DEF LoadCreateScenario
  <2>3. ASSUME NEW to, LoadSetStatus(c, s, to) PROVE Good
      BY <1>4, <2>1, <2>3, Tables DEF LoadSetStatus
  <2> QED BY <1>9, <2>2, <2>3
<1>10. ASSUME NEW e \in Requirements \cup Plans,
              Begin(c, [op |-> "delete", entity |-> e])
       PROVE  Good
  <2> DEFINE q == [op |-> "delete", entity |-> e]
  <2>1. q \in Requests /\ q.op = "delete"
      BY DEF Requests
  <2> QED BY <1>2, <1>10, <2>1
<1>11. ASSUME NEW p \in Plans,
              \/ LoadDeletePlan(c, p) \/ LoadCreateCycle(c, p)
              \/ \E k \in TestCases : LoadAddPlanScope(c, p, k)
       PROVE  Good
  <2>1. CASE LoadDeletePlan(c, p)
      BY <1>10, <2>1 DEF LoadDeletePlan
  <2>2. CASE LoadCreateCycle(c, p)
    <3> DEFINE q == [op |-> "cycle", entity |-> p]
    <3>1. q \in Requests /\ q.op = "cycle"
        BY DEF Requests
    <3> QED BY <1>2, <2>2, <3>1 DEF LoadCreateCycle
  <2>3. ASSUME NEW k \in TestCases, LoadAddPlanScope(c, p, k) PROVE Good
    <3> DEFINE q == [op |-> "scope", entity |-> p, case |-> k]
    <3>1. q \in Requests /\ q.op = "scope"
        BY DEF Requests
    <3> QED BY <1>2, <2>3, <3>1 DEF LoadAddPlanScope
  <2> QED BY <1>11, <2>1, <2>2, <2>3
<1>12. ASSUME NEW s \in Scenarios, NEW r \in Requirements \cup {"none"},
              LoadUpdateScenario(c, s, r)
       PROVE  Good
  <2> DEFINE q == [op |-> "put", entity |-> s, under |-> r]
  <2>1. q \in Requests /\ q.op = "put"
      BY DEF Requests
  <2> QED BY <1>2, <1>12, <2>1 DEF LoadUpdateScenario
<1>13. ASSUME NEW k \in TestCases, NEW s \in Scenarios \cup {"none"}, LoadSetScenario(c, k, s)
       PROVE  Good
  <2> DEFINE q == [op |-> "group", case |-> k, scenario |-> s]
  <2>1. q \in Requests
      BY DEF Requests
  <2>2. StillLoaded(q)
      BY <1>13 DEF StillLoaded, LoadSetScenario, Exists
  <2> QED BY <1>13, <2>1, <2>2 DEF LoadSetScenario
<1>14. ASSUME NEW ends \in LegalEnds, LoadCreateLink(c, ends) PROVE Good
  <2> DEFINE q == [op |-> "link", ends |-> ends]
  <2>1. q \in Requests /\ q.op = "link"
      BY DEF Requests
  <2> QED BY <1>2, <1>14, <2>1 DEF LoadCreateLink
<1>15. ASSUME NEW l \in Links, LoadRemoveLink(c, l) PROVE Good
  <2> DEFINE q == [op |-> "unlink", link |-> l]
  <2>1. q \in Requests /\ q.op = "unlink"
      BY DEF Requests
  <2> QED BY <1>2, <1>15, <2>1 DEF LoadRemoveLink
<1>16. ASSUME NEW r \in Requirements, LoadDeleteRequirement(c, r) PROVE Good
    BY <1>10, <1>16 DEF LoadDeleteRequirement
<1> QED BY <1>5, <1>6, <1>7, <1>8, <1>9, <1>11, <1>12, <1>13, <1>14, <1>15, <1>16 DEF Call

-----------------------------------------------------------------------------
\* The rows at the begin of a step.
LEMMA Given ==
    ASSUME IInv
    PROVE  /\ GoodRows /\ req \in [Clients -> Requests]
           /\ \A c \in Clients : req[c] \in Requests /\ StillLoaded(req[c])
           /\ \A x \in Requirements \cup Scenarios \cup Plans : x \in Entities
BY DEF IInv, TypeOK, RowTypes, GoodRows, Entities

\* Where every row that exists stays, and nothing leaves a plan, references hold.
LEMMA Kept ==
    ASSUME GoodRows, RowTypes', \A e \in Entities : Exists(e) => Exists(e)',
           \A e \in Entities : status[e] # "none" => status'[e] # "none",
           \A p \in Plans : Exists(p)' /\ ~Exists(p) => status[p] = "none",
           scope \subseteq scope', cycled \subseteq cycled',
           \A s \in Scenarios : under'[s] # under[s] => RequirementExists(under[s])',
           \A k \in TestCases : grouped'[k] \in {grouped[k], "none"} \/ Exists(grouped[k])',
           \A item \in scope' \ scope : Exists(item[1])',
           \A p \in cycled' \ cycled : Exists(p)',
           \A p \in Plans : status'[p] \in {"active", "completed"} =>
               status[p] \in {"active", "completed"} \/ HasContent(p)
    PROVE  GoodRows' /\ NothingLost
<1>1. ReferencesHold'
  <2>1. ASSUME NEW s \in Scenarios PROVE RequirementExists(under[s])'
    <3>1. CASE under'[s] = under[s]
      <4>1. PICK r \in Requirements \cup {"none"} : r = under[s]
          BY DEF GoodRows, RowTypes
      <4>2. RequirementExists(r)
          BY <4>1 DEF GoodRows, ReferencesHold
      <4>3. r # "none" => r \in Requirements /\ Exists(r)'
          BY <4>1, <4>2 DEF RequirementExists, Entities
      <4> QED BY <3>1, <4>1, <4>3 DEF RequirementExists
    <3> QED BY <3>1
  <2>2. ASSUME NEW k \in TestCases, grouped'[k] # "none" PROVE Exists(grouped[k])'
    <3>1. CASE grouped'[k] = grouped[k]
      <4>1. PICK s \in Scenarios \cup {"none"} : s = grouped[k]
          BY DEF GoodRows, RowTypes
      <4>2. s \in Entities /\ Exists(s)
          BY <2>2, <3>1, <4>1 DEF GoodRows, ReferencesHold, Entities
      <4>3. Exists(s)'
          BY <4>2
      <4> QED BY <3>1, <4>1, <4>3 DEF Exists
    <3> QED BY <2>2, <3>1
  <2>3. ASSUME NEW item \in scope' PROVE Exists(item[1])'
    <3>1. item \in scope => item[1] \in Entities /\ Exists(item[1])
        BY DEF GoodRows, ReferencesHold, RowTypes, Entities
    <3> QED BY <3>1
  <2>4. ASSUME NEW p \in Plans, p \in cycled' PROVE Exists(p)'
      BY <2>4 DEF GoodRows, ReferencesHold, Entities
  <2>5. cycled' \subseteq Plans
      BY DEF RowTypes
  <2> QED BY <2>1, <2>2, <2>3, <2>4, <2>5 DEF ReferencesHold
<1>2. \A p \in Plans : HasContent(p) => HasContent(p)'
    BY DEF HasContent
<1>3. ActivatedHasContent'
    BY <1>2 DEF GoodRows, ActivatedHasContent
<1>4. NothingLost
    BY <1>2 DEF NothingLost, Entities
<1> QED BY <1>1, <1>3, <1>4 DEF GoodRows

LEMMA CreateKeeps ==
    ASSUME IInv, NEW c \in Clients, CommitCreate(c)
    PROVE  Sound(c)
<1>1. PICK q \in Requests : q = req[c] /\ StillLoaded(q)
    BY Given
<1>2. /\ q.op = "create" /\ status[q.entity] = "none" /\ RequirementExists(q.under)
      /\ status' = [status EXCEPT ![q.entity] = q.to]
      /\ under' = IF q.entity \in Scenarios THEN [under EXCEPT ![q.entity] = q.under] ELSE under
      /\ req' = [req EXCEPT ![c] = Idle]
      /\ UNCHANGED <<family, grouped, scope, cycled, link>>
    BY <1>1 DEF CommitCreate, End
<1>3. /\ q.entity \in Entities /\ q.to \in Statuses(q.entity)
      /\ q.under \in Requirements \cup {"none"}
      /\ q.entity \in Plans => q.to = "draft"
    BY <1>1, <1>2, Fields DEF StillLoaded
<1>4. RowTypes
    BY Given DEF GoodRows
<1>5. q.to \in AllStatuses /\ q.to # "none" /\ q.to # "deleted"
    BY <1>3, StatusKinds
<1>6. /\ status'[q.entity] = q.to
      /\ \A e \in Entities : e # q.entity => status'[e] = status[e]
    BY <1>2, <1>3, <1>4 DEF RowTypes
<1>7. \A e \in Entities : Exists(e)' <=> Exists(e) \/ e = q.entity
    BY <1>5, <1>6 DEF Exists
<1>8. RowTypes'
  <2>1. status' \in [Entities -> AllStatuses \cup {"none", "deleted"}]
      BY <1>2, <1>3, <1>4, <1>5 DEF RowTypes
  <2>2. \A e \in Entities : Exists(e)' => status'[e] \in Statuses(e)
      BY <1>3, <1>4, <1>6, <1>7 DEF RowTypes
  <2>3. under' \in [Scenarios -> Requirements \cup {"none"}]
    <3>1. CASE q.entity \in Scenarios
        BY <1>2, <1>3, <1>4, <3>1 DEF RowTypes
    <3>2. CASE q.entity \notin Scenarios
        BY <1>2, <1>4, <3>2 DEF RowTypes
    <3> QED BY <3>1, <3>2
  <2> QED BY <1>2, <1>4, <2>1, <2>2, <2>3 DEF RowTypes
<1>9. \A s \in Scenarios : under'[s] # under[s] => RequirementExists(under[s])'
  <2>1. q.under # "none" => q.under \in Requirements /\ q.under \in Entities /\ Exists(q.under)
      BY <1>2, <1>3 DEF RequirementExists, Entities
  <2>2. q.under # "none" => Exists(q.under)'
      BY <1>7, <2>1
  <2>3. \A s \in Scenarios : under'[s] # under[s] => under'[s] = q.under
      BY <1>2, <1>4 DEF RowTypes
  <2> QED BY <2>1, <2>2, <2>3 DEF RequirementExists
<1>10. \A p \in Plans : status'[p] \in {"active", "completed"} =>
           status[p] \in {"active", "completed"} \/ HasContent(p)
  <2>1. ASSUME NEW p \in Plans, status'[p] \in {"active", "completed"}
        PROVE  status[p] \in {"active", "completed"}
    <3>1. p # q.entity
        BY <1>3, <1>6, <2>1
    <3> QED BY <1>6, <2>1, <3>1, Given
  <2> QED BY <2>1
<1>11. \A p \in Plans : Exists(p)' /\ ~Exists(p) => status[p] = "none"
    BY <1>2, <1>7, Given
<1>12. \A e \in Entities : status[e] # "none" => status'[e] # "none"
    BY <1>5, <1>6
<1>13. GoodRows' /\ NothingLost
    BY <1>2, <1>7, <1>8, <1>9, <1>10, <1>11, <1>12, Given, Kept
<1> QED BY <1>2, <1>13, IdleSound DEF Sound

LEMMA TransitionKeeps ==
    ASSUME IInv, NEW c \in Clients, CommitTransition(c)
    PROVE  Sound(c)
<1>1. PICK q \in Requests : q = req[c] /\ StillLoaded(q)
    BY Given
<1>2. /\ q.op = "move" /\ Exists(q.entity)
      /\ status' = [status EXCEPT ![q.entity] = q.to]
      /\ req' = [req EXCEPT ![c] = Idle]
      /\ UNCHANGED <<family, under, grouped, scope, cycled, link>>
    BY <1>1 DEF CommitTransition, End
<1>3. /\ q.entity \in Entities /\ q.to \in Statuses(q.entity)
      /\ q.entity \in Plans /\ q.to # "archived" => HasContent(q.entity)
    BY <1>1, <1>2, Fields DEF StillLoaded
<1>4. RowTypes
    BY Given DEF GoodRows
<1>5. q.to \in AllStatuses /\ q.to # "none" /\ q.to # "deleted"
    BY <1>3, StatusKinds
<1>6. /\ status'[q.entity] = q.to
      /\ \A e \in Entities : e # q.entity => status'[e] = status[e]
    BY <1>2, <1>3, <1>4 DEF RowTypes
<1>7. \A e \in Entities : Exists(e)' <=> Exists(e)
    BY <1>2, <1>5, <1>6 DEF Exists
<1>8. RowTypes'
  <2>1. status' \in [Entities -> AllStatuses \cup {"none", "deleted"}]
      BY <1>2, <1>3, <1>4, <1>5 DEF RowTypes
  <2>2. \A e \in Entities : Exists(e)' => status'[e] \in Statuses(e)
      BY <1>3, <1>4, <1>6, <1>7 DEF RowTypes
  <2> QED BY <1>2, <1>4, <2>1, <2>2 DEF RowTypes
<1>9. \A p \in Plans : status'[p] \in {"active", "completed"} =>
          status[p] \in {"active", "completed"} \/ HasContent(p)
    BY <1>3, <1>6, Given
<1>10. \A p \in Plans : Exists(p)' /\ ~Exists(p) => status[p] = "none"
    BY <1>7, Given
<1>11. \A e \in Entities : status[e] # "none" => status'[e] # "none"
    BY <1>5, <1>6
<1>12. GoodRows' /\ NothingLost
    BY <1>2, <1>7, <1>8, <1>9, <1>10, <1>11, Given, Kept
<1> QED BY <1>2, <1>12, IdleSound DEF Sound

LEMMA DeleteRequirementKeeps ==
    ASSUME IInv, NEW c \in Clients, CommitDeleteRequirement(c)
    PROVE  Sound(c)
<1> USE BacklogAssumption
<1>1. PICK r \in Requirements : r = req[c].entity
    BY DEF CommitDeleteRequirement
<1>2. /\ link' = [l \in Links |-> IF Names(l, r) THEN DeletedLink ELSE link[l]]
      /\ under' = [s \in Scenarios |-> IF under[s] = r THEN "none" ELSE under[s]]
      /\ status' = [status EXCEPT ![r] = "deleted"]
      /\ req' = [req EXCEPT ![c] = Idle]
      /\ UNCHANGED <<family, grouped, scope, cycled>>
    BY <1>1 DEF CommitDeleteRequirement, End
<1>3. GoodRows /\ RowTypes /\ r \in Entities /\ r \notin Plans /\ r \notin Scenarios
    BY Given DEF GoodRows, Entities
<1>4. /\ status'[r] = "deleted" /\ \A e \in Entities : e # r => status'[e] = status[e]
      /\ \A e \in Entities : Exists(e)' <=> Exists(e) /\ e # r
    BY <1>2, <1>3 DEF RowTypes, Exists
<1>5. RowTypes'
  <2>1. status' \in [Entities -> AllStatuses \cup {"none", "deleted"}]
      BY <1>2, <1>3 DEF RowTypes
  <2>2. \A e \in Entities : Exists(e)' => status'[e] \in Statuses(e)
      BY <1>3, <1>4 DEF RowTypes
  <2>3. under' \in [Scenarios -> Requirements \cup {"none"}]
      BY <1>2, <1>3 DEF RowTypes
  <2>4. link' \in [Links -> LinkRows \cup {NoLink, DeletedLink}]
      BY <1>2, <1>3 DEF RowTypes
  <2> QED BY <1>2, <1>3, <2>1, <2>2, <2>3, <2>4 DEF RowTypes
<1>6. ReferencesHold'
  <2>1. ASSUME NEW s \in Scenarios PROVE RequirementExists(under[s])'
    <3>1. PICK x \in Requirements \cup {"none"} : x = under[s] /\ RequirementExists(x)
        BY <1>3 DEF GoodRows, ReferencesHold, RowTypes
    <3>2. CASE x = r \/ x = "none"
      <4>1. under'[s] = "none"
          BY <1>2, <3>1, <3>2
      <4> QED BY <4>1 DEF RequirementExists
    <3>3. CASE x # r /\ x # "none"
      <4>1. x \in Entities /\ Exists(x)' /\ under'[s] = x
          BY <1>2, <1>4, <3>1, <3>3 DEF RequirementExists, Entities
      <4> QED BY <3>1, <3>3, <4>1 DEF RequirementExists
    <3> QED BY <3>2, <3>3
  <2>2. ASSUME NEW k \in TestCases, grouped'[k] # "none" PROVE Exists(grouped[k])'
    <3>1. PICK s \in Scenarios : s = grouped[k] /\ Exists(s)
        BY <1>2, <1>3, <2>2 DEF GoodRows, ReferencesHold, RowTypes
    <3>2. Exists(s)'
        BY <1>3, <1>4, <3>1, Given
    <3> QED BY <1>2, <3>1, <3>2 DEF Exists
  <2>3. ASSUME NEW item \in scope' PROVE Exists(item[1])'
    <3>1. item \in scope /\ item[1] \in Plans /\ Exists(item[1])
        BY <1>2, <1>3, <2>3 DEF GoodRows, ReferencesHold, RowTypes
    <3> QED BY <1>3, <1>4, <3>1, Given
  <2>4. ASSUME NEW p \in cycled' PROVE Exists(p)'
    <3>1. p \in Plans /\ Exists(p)
        BY <1>2, <1>3, <2>4 DEF GoodRows, ReferencesHold, RowTypes
    <3> QED BY <1>3, <1>4, <3>1, Given
  <2> QED BY <2>1, <2>2, <2>3, <2>4 DEF ReferencesHold
<1>7. \A p \in Plans : status'[p] = status[p] /\ HasContent(p)' = HasContent(p)
    BY <1>2, <1>3, <1>4, Given DEF HasContent
<1>8. ActivatedHasContent'
    BY <1>3, <1>7 DEF GoodRows, ActivatedHasContent
<1>9. NothingLost
  <2>1. \A p \in Plans : Exists(p)' => Exists(p)
      BY <1>3, <1>4, Given
  <2>2. \A s \in Scenarios : Exists(s) => Exists(s)'
      BY <1>3, <1>4, Given
  <2>3. \A e \in Entities : status[e] # "none" => status'[e] # "none"
      BY <1>4
  <2> QED BY <1>7, <2>1, <2>2, <2>3 DEF NothingLost
<1> QED BY <1>2, <1>5, <1>6, <1>8, <1>9, IdleSound DEF Sound, GoodRows

LEMMA DeletePlanKeeps ==
    ASSUME IInv, NEW c \in Clients, CommitDeletePlan(c)
    PROVE  Sound(c)
<1> USE BacklogAssumption
<1>1. PICK p \in Plans : p = req[c].entity
    BY DEF CommitDeletePlan
<1>2. /\ p \notin cycled
      /\ scope' = {item \in scope : item[1] # p}
      /\ status' = [status EXCEPT ![p] = "deleted"]
      /\ req' = [req EXCEPT ![c] = Idle]
      /\ UNCHANGED <<family, under, grouped, cycled, link>>
    BY <1>1 DEF CommitDeletePlan, End
<1>3. GoodRows /\ RowTypes /\ p \in Entities /\ p \notin Requirements /\ p \notin Scenarios
    BY Given DEF GoodRows, Entities
<1>4. /\ status'[p] = "deleted" /\ \A e \in Entities : e # p => status'[e] = status[e]
      /\ \A e \in Entities : Exists(e)' <=> Exists(e) /\ e # p
    BY <1>2, <1>3 DEF RowTypes, Exists
<1>5. RowTypes'
  <2>1. status' \in [Entities -> AllStatuses \cup {"none", "deleted"}]
      BY <1>2, <1>3 DEF RowTypes
  <2>2. \A e \in Entities : Exists(e)' => status'[e] \in Statuses(e)
      BY <1>3, <1>4 DEF RowTypes
  <2> QED BY <1>2, <1>3, <2>1, <2>2 DEF RowTypes
<1>6. ReferencesHold'
  <2>1. ASSUME NEW s \in Scenarios PROVE RequirementExists(under[s])'
    <3>1. PICK x \in Requirements \cup {"none"} : x = under[s] /\ RequirementExists(x)
        BY <1>3 DEF GoodRows, ReferencesHold, RowTypes
    <3>2. x # "none" => x \in Requirements /\ Exists(x)'
        BY <1>3, <1>4, <3>1, Given DEF RequirementExists
    <3> QED BY <1>2, <3>1, <3>2 DEF RequirementExists
  <2>2. ASSUME NEW k \in TestCases, grouped'[k] # "none" PROVE Exists(grouped[k])'
    <3>1. PICK s \in Scenarios : s = grouped[k] /\ Exists(s)
        BY <1>2, <1>3, <2>2 DEF GoodRows, ReferencesHold, RowTypes
    <3>2. Exists(s)'
        BY <1>3, <1>4, <3>1, Given
    <3> QED BY <1>2, <3>1, <3>2 DEF Exists
  <2>3. ASSUME NEW item \in scope' PROVE Exists(item[1])'
    <3>1. item \in scope /\ item[1] \in Plans /\ Exists(item[1]) /\ item[1] # p
        BY <1>2, <1>3, <2>3 DEF GoodRows, ReferencesHold, RowTypes
    <3> QED BY <1>4, <3>1, Given
  <2>4. ASSUME NEW x \in cycled' PROVE Exists(x)'
    <3>1. x \in Plans /\ Exists(x) /\ x # p
        BY <1>2, <1>3, <2>4 DEF GoodRows, ReferencesHold, RowTypes
    <3> QED BY <1>4, <3>1, Given
  <2>5. cycled' \subseteq Plans
      BY <1>5 DEF RowTypes
  <2> QED BY <2>1, <2>2, <2>3, <2>4, <2>5 DEF ReferencesHold
<1>7. /\ \A x \in Plans : x # p => status'[x] = status[x]
      /\ \A x \in Plans : x # p /\ HasContent(x) => HasContent(x)'
    BY <1>2, <1>4, Given DEF HasContent
<1>8. ActivatedHasContent'
    BY <1>3, <1>4, <1>7 DEF GoodRows, ActivatedHasContent
<1>9. NothingLost
  <2>1. \A x \in Plans : Exists(x)' => Exists(x) /\ x # p
      BY <1>4, Given
  <2>2. \A s \in Scenarios : Exists(s) => Exists(s)'
      BY <1>3, <1>4, Given
  <2>3. \A e \in Entities : status[e] # "none" => status'[e] # "none"
      BY <1>4
  <2> QED BY <1>7, <2>1, <2>2, <2>3 DEF NothingLost
<1> QED BY <1>2, <1>5, <1>6, <1>8, <1>9, IdleSound DEF Sound, GoodRows

\* Where no status changes, rows that exist stay.
LEMMA SameStatus ==
    ASSUME UNCHANGED status
    PROVE  /\ \A e \in Entities : Exists(e)' <=> Exists(e)
           /\ \A e \in Entities : status[e] # "none" => status'[e] # "none"
           /\ \A p \in Plans : Exists(p)' /\ ~Exists(p) => status[p] = "none"
           /\ \A p \in Plans : status'[p] \in {"active", "completed"} =>
                  status[p] \in {"active", "completed"} \/ HasContent(p)
BY DEF Exists

LEMMA AddPlanScopeKeeps ==
    ASSUME IInv, NEW c \in Clients, CommitAddPlanScope(c)
    PROVE  Sound(c)
<1>1. PICK p \in Plans, k \in TestCases : p = req[c].entity /\ k = req[c].case
    BY Given, Fields DEF CommitAddPlanScope
<1>2. /\ Exists(p) /\ scope' = scope \cup {<<p, k>>}
      /\ req' = [req EXCEPT ![c] = Idle]
      /\ UNCHANGED <<family, status, under, grouped, cycled, link>>
    BY <1>1 DEF CommitAddPlanScope, End
<1>3. RowTypes'
    BY <1>2, Given DEF GoodRows, RowTypes, Exists
<1>4. \A item \in scope' \ scope : Exists(item[1])'
    BY <1>2 DEF Exists
<1>5. GoodRows' /\ NothingLost
    BY <1>2, <1>3, <1>4, Given, SameStatus, Kept
<1> QED BY <1>2, <1>5, IdleSound DEF Sound

LEMMA CreateCycleKeeps ==
    ASSUME IInv, NEW c \in Clients, CommitCreateCycle(c)
    PROVE  Sound(c)
<1>1. PICK p \in Plans : p = req[c].entity
    BY Given, Fields DEF CommitCreateCycle
<1>2. /\ Exists(p) /\ cycled' = cycled \cup {p}
      /\ req' = [req EXCEPT ![c] = Idle]
      /\ UNCHANGED <<family, status, under, grouped, scope, link>>
    BY <1>1 DEF CommitCreateCycle, End
<1>3. RowTypes'
    BY <1>2, Given DEF GoodRows, RowTypes, Exists
<1>4. \A x \in cycled' \ cycled : Exists(x)'
    BY <1>2 DEF Exists
<1>5. GoodRows' /\ NothingLost
    BY <1>2, <1>3, <1>4, Given, SameStatus, Kept
<1> QED BY <1>2, <1>5, IdleSound DEF Sound

LEMMA UpdateScenarioKeeps ==
    ASSUME IInv, NEW c \in Clients, CommitUpdateScenario(c)
    PROVE  Sound(c)
<1>1. PICK s \in Scenarios, r \in Requirements \cup {"none"} :
        s = req[c].entity /\ r = req[c].under
    BY Given, Fields DEF CommitUpdateScenario
<1>2. /\ RequirementExists(r) /\ under' = [under EXCEPT ![s] = r]
      /\ req' = [req EXCEPT ![c] = Idle]
      /\ UNCHANGED <<family, status, grouped, scope, cycled, link>>
    BY <1>1 DEF CommitUpdateScenario, End
<1>3. RowTypes'
    BY <1>2, Given DEF GoodRows, RowTypes, Exists
<1>4. \A x \in Scenarios : under'[x] # under[x] => RequirementExists(under[x])'
  <2>1. \A x \in Scenarios : under'[x] # under[x] => under'[x] = r
      BY <1>2, Given DEF GoodRows, RowTypes
  <2> QED BY <1>2, <2>1 DEF RequirementExists, Exists
<1>5. GoodRows' /\ NothingLost
    BY <1>2, <1>3, <1>4, Given, SameStatus, Kept
<1> QED BY <1>2, <1>5, IdleSound DEF Sound

LEMMA SetScenarioKeeps ==
    ASSUME IInv, NEW c \in Clients, CommitSetScenario(c)
    PROVE  Sound(c)
<1>1. PICK k \in TestCases, s \in Scenarios \cup {"none"} :
        k = req[c].case /\ s = req[c].scenario /\ (s = "none" \/ Exists(s))
    BY Given, Fields DEF CommitSetScenario, StillLoaded
<1>2. /\ grouped' = [grouped EXCEPT ![k] = s]
      /\ req' = [req EXCEPT ![c] = Idle]
      /\ UNCHANGED <<family, status, under, scope, cycled, link>>
    BY <1>1 DEF CommitSetScenario, End
<1>3. RowTypes'
    BY <1>2, Given DEF GoodRows, RowTypes, Exists
<1>4. \A x \in TestCases : grouped'[x] \in {grouped[x], "none"} \/ Exists(grouped[x])'
  <2>1. \A x \in TestCases : grouped'[x] \in {grouped[x], s}
      BY <1>2, Given DEF GoodRows, RowTypes
  <2> QED BY <1>1, <1>2, <2>1 DEF Exists
<1>5. GoodRows' /\ NothingLost
    BY <1>2, <1>3, <1>4, Given, SameStatus, Kept
<1> QED BY <1>2, <1>5, IdleSound DEF Sound

LEMMA LinksKeep ==
    ASSUME IInv, NEW c \in Clients,
           (\E l \in Links : CommitCreateLink(c, l)) \/ CommitRemoveLink(c)
    PROVE  Sound(c)
<1>1. /\ req' = [req EXCEPT ![c] = Idle]
      /\ UNCHANGED <<family, status, under, grouped, scope, cycled>>
    BY DEF CommitCreateLink, CommitRemoveLink, End
<1>2. link \in [Links -> LinkRows \cup {NoLink, DeletedLink}]
    BY Given DEF GoodRows, RowTypes
<1>3. link' \in [Links -> LinkRows \cup {NoLink, DeletedLink}]
  <2>1. ASSUME NEW l \in Links, CommitCreateLink(c, l)
        PROVE  link' \in [Links -> LinkRows \cup {NoLink, DeletedLink}]
    <3>1. PICK ends \in LegalEnds : ends = req[c].ends
        BY <2>1, Given, Fields DEF CommitCreateLink
    <3>2. [ends |-> ends, state |-> "active"] \in LinkRows
        BY DEF LinkRows
    <3> QED BY <1>2, <2>1, <3>1, <3>2 DEF CommitCreateLink
  <2>2. CASE CommitRemoveLink(c)
    <3>1. PICK l \in Links : /\ LinkExists(l)
                             /\ link' = [link EXCEPT ![l].state = "removed"]
        BY <2>2, Given, Fields DEF CommitRemoveLink
    <3>2. link[l] \in LinkRows
        BY <1>2, <3>1 DEF LinkExists, NoLink, DeletedLink
    <3>3. [link[l] EXCEPT !.state = "removed"] \in LinkRows
        BY <3>2 DEF LinkRows
    <3> QED BY <1>2, <3>1, <3>3
  <2> QED BY <2>1, <2>2
<1>4. RowTypes'
    BY <1>1, <1>3, Given DEF GoodRows, RowTypes, Exists
<1>5. GoodRows' /\ NothingLost
    BY <1>1, <1>4, Given, SameStatus, Kept
<1> QED BY <1>1, <1>5, IdleSound DEF Sound

-----------------------------------------------------------------------------
\* What a step of one request leaves sound, the other requests can rely on.
LEMMA RequestKeeps ==
    ASSUME IInv, NEW c \in Clients, Sound(c), overlapped' \in BOOLEAN
    PROVE  IInv'
<1>1. PICK q \in Requests : StillLoaded(q)' /\ req' = [req EXCEPT ![c] = q]
    BY DEF Sound
<1>2. NothingLost /\ RowTypes' /\ ReferencesHold' /\ ActivatedHasContent'
    BY DEF Sound, GoodRows
<1>3. req' \in [Clients -> Requests]
    BY <1>1, Given
<1>4. ASSUME NEW d \in Clients PROVE StillLoaded(req[d])'
  <2>1. CASE d = c
    <3>1. req'[d] = q
        BY <1>1, <2>1, Given
    <3> QED BY <1>1, <3>1 DEF StillLoaded
  <2>2. CASE d # c
    <3>1. PICK x \in Requests : x = req[d] /\ StillLoaded(x)
        BY Given
    <3>2. StillLoaded(x)'
        BY <1>2, <3>1, StillSound
    <3>3. req'[d] = x
        BY <1>1, <2>2, <3>1, Given
    <3> QED BY <3>2, <3>3 DEF StillLoaded
  <2> QED BY <2>1, <2>2
<1>5. TypeOK'
    BY <1>2, <1>3, Zenon DEF TypeOK, RowTypes
<1> QED BY <1>2, <1>4, <1>5 DEF IInv

\* A request that begins or is refused changes no row.
LEMMA BeginKeeps ==
    ASSUME IInv, NEW c \in Clients, Call(c)
    PROVE  Sound(c) /\ overlapped' \in BOOLEAN
<1>1. PICK q \in Requests : StillLoaded(q) /\ Begin(c, q)
    BY LoadStep
<1>2. /\ UNCHANGED rows /\ req' = [req EXCEPT ![c] = q]
      /\ overlapped' = (overlapped \/ \E d \in Clients : req[d] # Idle)
    BY <1>1 DEF Begin
<1>3. GoodRows' /\ NothingLost
    BY <1>2, Given, NothingChanged
<1>4. StillLoaded(q)'
    BY <1>1, <1>3, StillSound
<1>5. overlapped' \in BOOLEAN
    BY <1>2, Zenon DEF IInv, TypeOK
<1> QED BY <1>2, <1>3, <1>4, <1>5 DEF Sound

LEMMA RefusedKeeps ==
    ASSUME IInv, NEW c \in Clients, Refused(c)
    PROVE  Sound(c) /\ UNCHANGED overlapped
<1>1. UNCHANGED <<rows, overlapped>> /\ req' = [req EXCEPT ![c] = Idle]
    BY DEF Refused, End
<1>2. GoodRows' /\ NothingLost
    BY <1>1, Given, NothingChanged
<1> QED BY <1>1, <1>2, IdleSound DEF Sound

LEMMA CommitKeeps ==
    ASSUME IInv, NEW c \in Clients, Commit(c)
    PROVE  Sound(c) /\ UNCHANGED overlapped
<1>1. Sound(c)
    BY CreateKeeps, TransitionKeeps, DeleteRequirementKeeps, DeletePlanKeeps,
       AddPlanScopeKeeps, CreateCycleKeeps, UpdateScenarioKeeps, SetScenarioKeeps,
       LinksKeep DEF Commit
<1>2. UNCHANGED overlapped
    BY DEF Commit, CommitCreate, CommitTransition, CommitDeleteRequirement,
           CommitDeletePlan, CommitAddPlanScope, CommitCreateCycle, CommitUpdateScenario,
           CommitSetScenario, CommitCreateLink, CommitRemoveLink, End
<1> QED BY <1>1, <1>2

LEMMA InitIInv == Init => IInv
<1> SUFFICES ASSUME Init PROVE IInv
    OBVIOUS
<1> USE BacklogAssumption DEF Init
<1>1. \A e \in Entities : ~Exists(e)
    BY DEF Exists
<1>2. TypeOK
  <2>1. /\ status \in [Entities -> AllStatuses \cup {"none", "deleted"}]
        /\ \A e \in Entities : Exists(e) => status[e] \in Statuses(e)
      BY <1>1
  <2>2. req \in [Clients -> Requests]
      BY DEF Requests
  <2>3. overlapped \in BOOLEAN
      OBVIOUS
  <2> QED BY <2>1, <2>2, <2>3 DEF TypeOK
<1>3. ReferencesHold
    BY DEF ReferencesHold, RequirementExists
<1>4. ActivatedHasContent
    BY DEF ActivatedHasContent, Entities
<1>5. \A c \in Clients : StillLoaded(req[c])
    BY DEF StillLoaded, Idle
<1> QED BY <1>2, <1>3, <1>4, <1>5 DEF IInv

LEMMA NextIInv == IInv /\ [Next]_vars => IInv'
<1> SUFFICES ASSUME IInv, [Next]_vars PROVE IInv'
    OBVIOUS
<1>1. overlapped \in BOOLEAN
    BY DEF IInv, TypeOK
<1>2. ASSUME NEW c \in Clients, Call(c) PROVE IInv'
    BY <1>2, BeginKeeps, RequestKeeps
<1>3. ASSUME NEW c \in Clients, Commit(c) PROVE IInv'
  <2>1. overlapped' \in BOOLEAN
      BY <1>1, <1>3, CommitKeeps, Zenon
  <2> QED BY <1>3, <2>1, CommitKeeps, RequestKeeps
<1>4. ASSUME NEW c \in Clients, Refused(c) PROVE IInv'
  <2>1. overlapped' \in BOOLEAN
      BY <1>1, <1>4, RefusedKeeps, Zenon
  <2> QED BY <1>4, <2>1, RefusedKeeps, RequestKeeps
<1>5. CASE UNCHANGED vars
  <2>1. UNCHANGED <<family, status, under, grouped, scope, cycled, link, req, overlapped>>
      BY <1>5 DEF vars, rows
  <2>2. GoodRows'
      BY <2>1, Given, NothingChanged DEF rows
  <2>3. \A c \in Clients : StillLoaded(req[c])'
      BY <2>1, Given DEF StillLoaded, Exists, HasContent
  <2>4. TypeOK'
      BY <2>1, <2>2, Zenon DEF GoodRows, RowTypes, TypeOK, IInv
  <2> QED BY <2>2, <2>3, <2>4 DEF IInv, GoodRows
<1> QED BY <1>2, <1>3, <1>4, <1>5 DEF Next

(* However requests overlap, scenarios, plan scopes and cycles name rows    *)
(* that exist, each row has a status of its own table, and a plan that was  *)
(* activated has a scoped test or a cycle: transition_plan checks this      *)
(* once, without a lock (planning.py), and nothing removes plan contents    *)
(* but the deletion of the plan.                                            *)
THEOREM Invariance == Spec => []IInv
<1> QED BY InitIInv, NextIInv, PTL DEF Spec

-----------------------------------------------------------------------------
(* With one request at a time.                                              *)

\* What create_link has checked: both ends can be loaded, and no active link
\* has them.
Linkable(ends) ==
    /\ Resolves(ends[1]) /\ Resolves(ends[2])
    /\ \A l \in Links : link[l].state = "active" => link[l].ends # ends

SerialInv ==
    ~overlapped =>
        /\ \A c, d \in Clients : req[c] # Idle /\ req[d] # Idle => c = d
        /\ \A c \in Clients : req[c].op = "link" => Linkable(req[c].ends)

SerialIInv == IInv /\ SerialInv /\ LinksResolve

\* A request that is to insert a link comes from create_link.
LEMMA LinkLoads ==
    ASSUME IInv, NEW c \in Clients, Call(c), req'[c].op = "link"
    PROVE  Linkable(req'[c].ends)
<1>1. \A q : Begin(c, q) => req'[c] = q
    BY Given DEF Begin
<1>2. \A e, to, r : ~LoadCreate(c, e, to, r) /\ ~LoadMove(c, e, to)
    BY <1>1 DEF LoadCreate, LoadMove
<1>3. \A q : Begin(c, q) => q.op = "link"
    BY <1>1
<1>4. PICK ends \in LegalEnds : LoadCreateLink(c, ends)
  <2>1. \A r, to : ~LoadCreateRequirement(c, r, to)
                   /\ ~LoadTransitionRequirement(c, r, to)
      BY <1>2 DEF LoadCreateRequirement, LoadTransitionRequirement
  <2>2. \A v, to : ~LoadCreateRelease(c, v) /\ ~LoadTransitionRelease(c, v, to)
      BY <1>2 DEF LoadCreateRelease, LoadTransitionRelease
  <2>3. \A d, to : ~LoadCreateDefect(c, d) /\ ~LoadTransitionDefect(c, d, to)
      BY <1>2 DEF LoadCreateDefect, LoadTransitionDefect
  <2>4. \A p, to : ~LoadCreatePlan(c, p) /\ ~LoadTransitionPlan(c, p, to)
      BY <1>2 DEF LoadCreatePlan, LoadTransitionPlan
  <2>5. \A s, r, to : ~LoadCreateScenario(c, s, r) /\ ~LoadSetStatus(c, s, to)
      BY <1>2 DEF LoadCreateScenario, LoadSetStatus
  <2>6. \A r \in Requirements : ~LoadDeleteRequirement(c, r)
      BY <1>3 DEF LoadDeleteRequirement
  <2>7. \A p, k : ~LoadDeletePlan(c, p) /\ ~LoadCreateCycle(c, p)
                  /\ ~LoadAddPlanScope(c, p, k)
      BY <1>3 DEF LoadDeletePlan, LoadCreateCycle, LoadAddPlanScope
  <2>8. \A s, r, k, l : ~LoadUpdateScenario(c, s, r) /\ ~LoadSetScenario(c, k, s)
                        /\ ~LoadRemoveLink(c, l)
      BY <1>3 DEF LoadUpdateScenario, LoadSetScenario, LoadRemoveLink
  <2> QED BY <2>1, <2>2, <2>3, <2>4, <2>5, <2>6, <2>7, <2>8 DEF Call
<1>5. req'[c].ends = ends
  <2>1. PICK q : q = [op |-> "link", ends |-> ends]
      OBVIOUS
  <2>2. Begin(c, q) /\ q.ends = ends
      BY <1>4, <2>1 DEF LoadCreateLink
  <2> QED BY <1>1, <2>2
<1> QED BY <1>4, <1>5 DEF LoadCreateLink, Linkable

\* Links keep their ends while rows other than plans stay.
LEMMA LinksStay ==
    ASSUME LinksResolve, ~overlapped,
           \A e \in Entities \ Plans : Exists(e) => Exists(e)',
           \A l \in Links : link'[l].state = "active" => link'[l] = link[l]
    PROVE  LinksResolve'
<1>1. ASSUME NEW l \in Links, link'[l].state = "active", NEW i \in 1..2
      PROVE  link'[l].ends[i] \in Plans \/ Resolves(link[l].ends[i])'
  <2>1. PICK x : x = link[l].ends[i]
      OBVIOUS
  <2>2. link'[l].ends[i] = x
      BY <1>1, <2>1
  <2>3. x \in Plans \/ Resolves(x)
      BY <1>1, <2>1 DEF LinksResolve
  <2>4. x \in Plans \/ Resolves(x)'
      BY <2>3 DEF Resolves
  <2> QED BY <2>2, <2>4 DEF Resolves
<1>2. ASSUME NEW l \in Links, NEW m \in Links \ {l}, link'[l].state = "active",
             link'[m].state = "active"
      PROVE  link'[m].ends # link'[l].ends
    BY <1>2 DEF LinksResolve
<1> QED BY <1>1, <1>2 DEF LinksResolve

\* Alone, a commit leaves no link behind whose ends are gone, and no second one.
LEMMA CommitsAlone ==
    ASSUME SerialIInv, ~overlapped, NEW c \in Clients, Commit(c)
    PROVE  LinksResolve'
<1> USE BacklogAssumption
<1>1. /\ IInv /\ LinksResolve /\ RowTypes
      /\ req[c] \in Requests /\ StillLoaded(req[c])
      /\ (req[c].op = "link" => Linkable(req[c].ends))
    BY Given DEF SerialIInv, SerialInv, GoodRows
<1>2. ASSUME UNCHANGED <<status, link>> PROVE LinksResolve'
    BY <1>1, <1>2, LinksStay DEF Exists
<1>3. ASSUME CommitCreate(c) \/ CommitTransition(c) PROVE LinksResolve'
  <2>1. req[c].entity \in Entities /\ req[c].to \in Statuses(req[c].entity)
      BY <1>1, <1>3, Fields DEF CommitCreate, CommitTransition, StillLoaded
  <2>2. status' = [status EXCEPT ![req[c].entity] = req[c].to] /\ link' = link
      BY <1>3 DEF CommitCreate, CommitTransition
  <2>3. \A e \in Entities : Exists(e) => Exists(e)'
      BY <1>1, <2>1, <2>2, StatusKinds DEF Exists, RowTypes
  <2> QED BY <1>1, <2>2, <2>3, LinksStay
<1>4. ASSUME CommitDeletePlan(c) PROVE LinksResolve'
  <2>1. /\ req[c].entity \in Plans /\ link' = link
        /\ status' = [status EXCEPT ![req[c].entity] = "deleted"]
      BY <1>4 DEF CommitDeletePlan
  <2>2. \A e \in Entities \ Plans : Exists(e) => Exists(e)'
      BY <1>1, <2>1 DEF Exists, RowTypes
  <2> QED BY <1>1, <2>1, <2>2, LinksStay
<1>5. ASSUME CommitDeleteRequirement(c) PROVE LinksResolve'
  <2>1. PICK r \in Requirements : r = req[c].entity
      BY <1>5 DEF CommitDeleteRequirement
  <2>2. /\ link' = [l \in Links |-> IF Names(l, r) THEN DeletedLink ELSE link[l]]
        /\ status' = [status EXCEPT ![r] = "deleted"]
      BY <1>5, <2>1 DEF CommitDeleteRequirement
  <2>3. \A e \in Entities : Exists(e) /\ e # r => Exists(e)'
      BY <1>1, <2>2 DEF Exists, RowTypes
  <2>4. \A l \in Links : link'[l].state = "active" => ~Names(l, r) /\ link'[l] = link[l]
      BY <2>2 DEF DeletedLink
  <2>5. ASSUME NEW l \in Links, link'[l].state = "active", NEW i \in 1..2
        PROVE  link'[l].ends[i] \in Plans \/ Resolves(link[l].ends[i])'
    <3>1. PICK x : x = link[l].ends[i]
        OBVIOUS
    <3>2. link'[l].ends[i] = x /\ link[l].state = "active" /\ ~Names(l, r)
        BY <2>4, <2>5, <3>1
    <3>3. x # r
        BY <3>1, <3>2 DEF Names, LinkExists
    <3>4. x \in Plans \/ Resolves(x)
        BY <1>1, <3>1, <3>2 DEF LinksResolve
    <3>5. x \in Plans \/ Resolves(x)'
        BY <2>3, <3>3, <3>4 DEF Resolves
    <3> QED BY <3>2, <3>5 DEF Resolves
  <2>6. ASSUME NEW l \in Links, NEW m \in Links \ {l}, link'[l].state = "active",
               link'[m].state = "active"
        PROVE  link'[m].ends # link'[l].ends
      BY <1>1, <2>4, <2>6 DEF LinksResolve
  <2> QED BY <2>5, <2>6 DEF LinksResolve
<1>6. ASSUME NEW n \in Links, CommitCreateLink(c, n) PROVE LinksResolve'
  <2>1. PICK ends \in LegalEnds : ends = req[c].ends /\ Linkable(ends)
      BY <1>1, <1>6, Fields DEF CommitCreateLink
  <2>2. /\ link' = [link EXCEPT ![n] = [ends |-> ends, state |-> "active"]]
        /\ UNCHANGED status
      BY <1>6, <2>1 DEF CommitCreateLink
  <2>3. link'[n].ends = ends /\ \A l \in Links : l # n => link'[l] = link[l]
      BY <1>1, <2>2 DEF RowTypes
  <2>4. \A x : Resolves(x) => Resolves(x)'
      BY <2>2 DEF Resolves, Exists
  <2>5. ASSUME NEW l \in Links, link'[l].state = "active", NEW i \in 1..2
        PROVE  link'[l].ends[i] \in Plans \/ Resolves(link[l].ends[i])'
    <3>1. PICK x : x = link'[l].ends[i]
        OBVIOUS
    <3>2. CASE l = n
      <4>1. Resolves(x)
          BY <2>1, <2>3, <2>5, <3>1, <3>2 DEF Linkable
      <4> QED BY <2>4, <3>1, <4>1 DEF Resolves
    <3>3. CASE l # n
      <4>1. x \in Plans \/ Resolves(x)
          BY <1>1, <2>3, <2>5, <3>1, <3>3 DEF LinksResolve
      <4> QED BY <2>4, <3>1, <4>1 DEF Resolves
    <3> QED BY <3>2, <3>3
  <2>6. ASSUME NEW l \in Links, NEW m \in Links \ {l}, link'[l].state = "active",
               link'[m].state = "active"
        PROVE  link'[m].ends # link'[l].ends
      BY <1>1, <2>1, <2>3, <2>6 DEF LinksResolve, Linkable
  <2> QED BY <2>5, <2>6 DEF LinksResolve
<1>7. ASSUME CommitRemoveLink(c) PROVE LinksResolve'
  <2>1. PICK n \in Links : n = req[c].link /\ LinkExists(n)
      BY <1>1, <1>7, Fields DEF CommitRemoveLink
  <2>2. link' = [link EXCEPT ![n].state = "removed"] /\ UNCHANGED status
      BY <1>7, <2>1 DEF CommitRemoveLink
  <2>3. link[n] \in LinkRows
      BY <1>1, <2>1 DEF RowTypes, LinkExists, NoLink, DeletedLink
  <2>4. link'[n].state = "removed" /\ \A l \in Links : l # n => link'[l] = link[l]
      BY <1>1, <2>2, <2>3 DEF RowTypes, LinkRows
  <2>5. \A l \in Links : link'[l].state = "active" => link'[l] = link[l]
      BY <2>4
  <2> QED BY <1>1, <2>2, <2>5, LinksStay DEF Exists
<1>8. ASSUME \/ CommitAddPlanScope(c) \/ CommitCreateCycle(c)
             \/ CommitUpdateScenario(c) \/ CommitSetScenario(c)
      PROVE  LinksResolve'
    BY <1>2, <1>8 DEF CommitAddPlanScope, CommitCreateCycle, CommitUpdateScenario,
                      CommitSetScenario
<1> QED BY <1>3, <1>4, <1>5, <1>6, <1>7, <1>8 DEF Commit

\* Alone, a request finds at its commit what it has loaded.
LEMMA NextAlone ==
    ASSUME SerialIInv, NEW c \in Clients, Call(c) \/ Commit(c) \/ Refused(c), ~overlapped'
    PROVE  SerialInv' /\ LinksResolve'
<1>1. IInv /\ LinksResolve /\ SerialInv /\ req \in [Clients -> Requests]
    BY Given DEF SerialIInv
<1>2. Idle.op = "none"
    BY DEF Idle
<1>3. CASE Call(c)
  <2>1. PICK q \in Requests : Begin(c, q)
      BY <1>1, <1>3, LoadStep
  <2>2. /\ ~overlapped /\ \A d \in Clients : req[d] = Idle
        /\ UNCHANGED <<status, link>>
        /\ \A d \in Clients : d # c => req'[d] = Idle
      BY <1>1, <2>1 DEF Begin, rows
  <2>3. req'[c].op = "link" => Linkable(req'[c].ends)
      BY <1>1, <1>3, LinkLoads
  <2>4. ASSUME NEW d \in Clients, req'[d].op = "link" PROVE Linkable(req[d].ends)'
    <3>1. d = c /\ Linkable(req'[c].ends)
        BY <1>2, <2>2, <2>3, <2>4
    <3> QED BY <2>2, <3>1 DEF Linkable, Resolves, Exists
  <2>5. \A d, e \in Clients : req'[d] # Idle /\ req'[e] # Idle => d = e
      BY <2>2
  <2>6. LinksResolve'
      BY <1>1, <2>2, LinksStay DEF Exists
  <2> QED BY <2>4, <2>5, <2>6 DEF SerialInv
<1>4. CASE Commit(c) \/ Refused(c)
  <2>1. ~overlapped
      BY <1>1, <1>4, CommitKeeps, RefusedKeeps
  <2>2. req' = [req EXCEPT ![c] = Idle] /\ req[c] # Idle
    <3>1. req' = [req EXCEPT ![c] = Idle]
        BY <1>4 DEF Commit, CommitCreate, CommitTransition, CommitDeleteRequirement,
           CommitDeletePlan, CommitAddPlanScope, CommitCreateCycle, CommitUpdateScenario,
           CommitSetScenario, CommitCreateLink, CommitRemoveLink, Refused, End
    <3>2. Commit(c) => req[c].op # "none"
        BY DEF Commit, CommitCreate, CommitTransition, CommitDeleteRequirement,
           CommitDeletePlan, CommitAddPlanScope, CommitCreateCycle, CommitUpdateScenario,
           CommitSetScenario, CommitCreateLink, CommitRemoveLink
    <3> QED BY <1>2, <1>4, <3>1, <3>2 DEF Refused
  <2>3. \A d \in Clients : req'[d] = Idle
      BY <1>1, <2>1, <2>2 DEF SerialInv
  <2>4. SerialInv'
      BY <1>2, <2>3 DEF SerialInv
  <2>5. CASE Commit(c)
      BY <2>1, <2>4, <2>5, CommitsAlone
  <2>6. CASE Refused(c)
      BY <1>1, <2>1, <2>4, <2>6, LinksStay DEF Refused, rows, Exists
  <2> QED BY <1>4, <2>5, <2>6
<1> QED BY <1>3, <1>4

(* With one request at a time, active links lead from and to rows that      *)
(* exist, deleted plans excepted, and no two have the same ends: nothing    *)
(* but the checks of create_link and the deletions of delete_requirement    *)
(* ensures it, since trace links have no foreign keys.                      *)
THEOREM LinksAlwaysResolve == Spec => []LinksResolve
<1>1. Init => SerialIInv
  <2> SUFFICES ASSUME Init PROVE SerialIInv
      OBVIOUS
  <2>1. SerialInv /\ LinksResolve
      BY DEF Init, SerialInv, LinksResolve, Idle, NoLink
  <2> QED BY <2>1, InitIInv DEF SerialIInv
<1>2. SerialIInv /\ [Next]_vars => SerialIInv'
  <2> SUFFICES ASSUME SerialIInv, [Next]_vars PROVE SerialIInv'
      OBVIOUS
  <2>1. IInv'
      BY NextIInv DEF SerialIInv
  <2>2. CASE overlapped'
      BY <2>1, <2>2 DEF SerialIInv, SerialInv, LinksResolve
  <2>3. CASE Next /\ ~overlapped'
      BY <2>1, <2>3, NextAlone DEF Next, SerialIInv
  <2>4. CASE UNCHANGED vars
      BY <2>1, <2>4 DEF vars, rows, SerialIInv, SerialInv, Linkable, LinksResolve,
                        Resolves, Exists
  <2> QED BY <2>2, <2>3, <2>4
<1>3. SerialIInv => LinksResolve
    BY DEF SerialIInv
<1> QED BY <1>1, <1>2, <1>3, PTL DEF Spec
=============================================================================
