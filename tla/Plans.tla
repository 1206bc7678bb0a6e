-------------------------------- MODULE Plans --------------------------------
(***************************************************************************)
(* The checklist of a preparedness plan (planning_services.py,             *)
(* api/plans.py).  It is one JSON column: adding, changing, removing or    *)
(* ticking an item copies the checklist the handler read, changes the copy *)
(* and hands all of it to PlanService.update, which looks up every linked  *)
(* resource of every item with a SELECT each before it writes the column.  *)
(*                                                                         *)
(* The client of a request knows the revision of the plan, so the          *)
(* comparison of revisions succeeds where the plan is read; what else it   *)
(* can do is the subject of ResourceService.  A review sets only dates.    *)
(***************************************************************************)
EXTENDS FiniteSets

CONSTANTS
  Planners,     \* threads of the pool that may serve a plan request
  PlanItems,    \* ids of checklist items
  Linkable,     \* inventory items, containers and assets
  Everything    \* the scope of a request that replaces the checklist

ASSUME PlansConstants == Everything \notin PlanItems

VARIABLES
  linkable,     \* the resources that are not deleted
  checklist,    \* the column: what each item says; absent items are not in it
  planCalls     \* what each thread is doing

plansVars == <<linkable, checklist, planCalls>>

ChecklistItem == [completed : BOOLEAN, links : SUBSET Linkable]
Checklists == UNION {[S -> ChecklistItem] : S \in SUBSET PlanItems}
NoItems == [i \in {} |-> {}]

\* scope and alone are history: which item is it about, and has nobody changed
\* checklist or resources since the start (if somebody has, scope is dropped).
PlanCall == [pc : {"idle", "validate"}, new : Checklists, todo : SUBSET Linkable,
             scope : PlanItems \cup {Everything}, dirty : BOOLEAN, alone : BOOLEAN]
NoPlanCall == [pc |-> "idle", new |-> NoItems, todo |-> {}, scope |-> Everything,
               dirty |-> FALSE, alone |-> TRUE]

PlansTypeOK == /\ linkable \subseteq Linkable
               /\ checklist \in Checklists
               /\ planCalls \in [Planners -> PlanCall]

PlansInit == /\ linkable = Linkable
             /\ checklist = NoItems
             /\ planCalls = [u \in Planners |-> NoPlanCall]

PlanOvertaken(u) == IF planCalls[u].pc = "idle" THEN NoPlanCall
                    ELSE [planCalls[u] EXCEPT !.alone = FALSE, !.scope = Everything]

-----------------------------------------------------------------------------
\* Deleting a resource leaves the checklists that link to it as they are.
DeleteLinkable == /\ \E r \in linkable : linkable' = linkable \ {r}
                  /\ planCalls' = [u \in Planners |-> PlanOvertaken(u)]
                  /\ UNCHANGED checklist

LinksOf(list) == UNION {list[i].links : i \in DOMAIN list}

\* _normalize_checklist validates all items, not only the one that changes.
Unchecked_OnlyItsItem(new, scope) ==
  IF scope \in DOMAIN new THEN new[scope].links
  ELSE IF scope = Everything THEN LinksOf(new) ELSE {}
Unchecked(new, scope) == LinksOf(new)

\* stamped: the copy holds a new time of confirmation.  The time is not modelled, but
\* with it the column is written although all else is as it was read.
StartPlanCall(u, new, scope, stamped) ==
  /\ planCalls[u].pc = "idle"
  /\ planCalls' = [planCalls EXCEPT ![u] =
       [pc |-> "validate", new |-> new, todo |-> Unchecked(new, scope), scope |-> scope,
        dirty |-> stamped \/ new # checklist, alone |-> TRUE]]
  /\ UNCHANGED <<linkable, checklist>>

With(list, i, item) == [j \in DOMAIN list \cup {i} |-> IF j = i THEN item ELSE list[j]]

AddItem(u) ==
  \E i \in PlanItems \ DOMAIN checklist, L \in SUBSET Linkable :
    StartPlanCall(u, With(checklist, i, [completed |-> FALSE, links |-> L]), i, FALSE)

ChangeItem(u) ==
  \E i \in DOMAIN checklist, L \in SUBSET Linkable :
    StartPlanCall(u, [checklist EXCEPT ![i].links = L], i, FALSE)

Ticked_AllItems(list, i, done) == [j \in DOMAIN list |-> [list[j] EXCEPT !.completed = done]]
Ticked(list, i, done) == [list EXCEPT ![i].completed = done]

\* The body says completed or asks for the opposite of what the handler read.  An
\* item ticked once more is confirmed anew.
ToggleItem(u) ==
  \E i \in DOMAIN checklist, done \in BOOLEAN :
    StartPlanCall(u, Ticked(checklist, i, done), i, done)

RemoveItem(u) ==
  \E i \in DOMAIN checklist :
    StartPlanCall(u, [j \in DOMAIN checklist \ {i} |-> checklist[j]], i, FALSE)

\* PATCH of the plan with a whole checklist.
ReplaceChecklist(u) == \E new \in Checklists : StartPlanCall(u, new, Everything, FALSE)

\* _validate_link: one SELECT; 404 ends the request with nothing written.
ValidateLink(u) ==
  /\ planCalls[u].pc = "validate"
  /\ \E r \in planCalls[u].todo :
       planCalls' = [planCalls EXCEPT ![u] =
         IF r \in linkable THEN [planCalls[u] EXCEPT !.todo = @ \ {r}] ELSE NoPlanCall]
  /\ UNCHANGED <<linkable, checklist>>

\* The column is written when it differs from what the handler read.
CommitChecklist(u) ==
  /\ planCalls[u].pc = "validate" /\ planCalls[u].todo = {}
  /\ checklist' = IF planCalls[u].dirty THEN planCalls[u].new ELSE checklist
  /\ planCalls' = [v \in Planners |-> IF v = u THEN NoPlanCall
                                      ELSE IF checklist' = checklist THEN planCalls[v]
                                      ELSE PlanOvertaken(v)]
  /\ UNCHANGED linkable

PlansNext ==
  \/ DeleteLinkable
  \/ \E u \in Planners : \/ AddItem(u) \/ ChangeItem(u) \/ ToggleItem(u) \/ RemoveItem(u)
                         \/ ReplaceChecklist(u) \/ ValidateLink(u) \/ CommitChecklist(u)

PlansSpec == PlansInit /\ [][PlansNext]_plansVars

-----------------------------------------------------------------------------
LonePlanCommit(u) ==
  /\ planCalls[u].pc = "validate" /\ planCalls'[u].pc = "idle"
  /\ planCalls[u].todo = {} /\ planCalls[u].alone

\* A request nobody overtakes leaves no dead link anywhere in the checklist, even
\* in items it does not touch.  So while one item holds a dead link the requests
\* for all other items are refused, ticking them included.
CommittedLinksAreLive ==
  [][\A u \in Planners : LonePlanCommit(u) => LinksOf(checklist') \subseteq linkable']_plansVars

\* Although it writes the whole column, a request for one item that nobody
\* overtakes leaves every other item as it was: none is lost, added or changed.
ItemRequestKeepsOthers ==
  [][\A u \in Planners :
       LET i == planCalls[u].scope
       IN  LonePlanCommit(u) /\ i # Everything
             => /\ DOMAIN checklist \ {i} = DOMAIN checklist' \ {i}
                /\ \A j \in DOMAIN checklist \ {i} : checklist'[j] = checklist[j]]_plansVars
=============================================================================
