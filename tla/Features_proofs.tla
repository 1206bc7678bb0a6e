--------------------------- MODULE Features_proofs ---------------------------
(***************************************************************************)
(* The properties of the features, for any number of threads, rows and     *)
(* dates.  Each feature has an invariant of its own, proved of its own     *)
(* specification; at the end a behaviour of all of them together is shown  *)
(* to be a behaviour of each, which carries every theorem over.            *)
(***************************************************************************)
EXTENDS Features, FiniteSetTheorems, TLAPS

-----------------------------------------------------------------------------
(***************************************************************************)
(* The two properties of checklist requests, for any number of threads,    *)
(* items and linked resources.  A request in flight that nobody has        *)
(* overtaken knows three things: the links it has looked up are live, its  *)
(* copy differs from the column at most in the item it is about, and a     *)
(* request that will not write the column holds the column itself.         *)
(***************************************************************************)
SameOutside(new, old, i) == /\ DOMAIN old \ {i} = DOMAIN new \ {i}
                            /\ \A j \in DOMAIN old \ {i} : new[j] = old[j]

LookedUpAreLive(q) == LinksOf(q.new) \ q.todo \subseteq linkable
TouchesOnlyItsItem(q) == q.scope # Everything => SameOutside(q.new, checklist, q.scope)
CleanIsCurrent(q) == ~q.dirty => q.new = checklist

AloneInv == \A u \in Planners :
  planCalls[u].pc = "validate" /\ planCalls[u].alone
    => /\ LookedUpAreLive(planCalls[u])
       /\ TouchesOnlyItsItem(planCalls[u])
       /\ CleanIsCurrent(planCalls[u])

PlansInv == PlansTypeOK /\ AloneInv

\* A checklist is any function from some item ids to what the items say.
LEMMA ChecklistIntro ==
  ASSUME NEW S \in SUBSET PlanItems, NEW list \in [S -> ChecklistItem]
  PROVE  list \in Checklists
BY DEF Checklists

LEMMA ChecklistElim ==
  ASSUME NEW list \in Checklists
  PROVE  /\ DOMAIN list \in SUBSET PlanItems
         /\ list \in [DOMAIN list -> ChecklistItem]
BY DEF Checklists

\* The request that begins: what it is about, and the copy it will write.
Begins(u, new, scope, stamped) ==
  /\ new \in Checklists /\ scope \in PlanItems \cup {Everything}
  /\ scope # Everything => SameOutside(new, checklist, scope)
  /\ stamped \in BOOLEAN
  /\ StartPlanCall(u, new, scope, stamped)

StartsSome(u) == \/ AddItem(u) \/ ChangeItem(u) \/ ToggleItem(u)
                 \/ RemoveItem(u) \/ ReplaceChecklist(u)

\* Each of the five handlers begins a request whose copy is a checklist and
\* differs from the one it read in the named item only.
LEMMA StartForm ==
  ASSUME NEW u \in Planners, PlansTypeOK, StartsSome(u)
  PROVE  \E new, scope, stamped : Begins(u, new, scope, stamped)
<1>0. /\ checklist \in Checklists
      /\ DOMAIN checklist \in SUBSET PlanItems
      /\ checklist \in [DOMAIN checklist -> ChecklistItem]
  BY ChecklistElim DEF PlansTypeOK
<1>1. CASE AddItem(u)
  <2>1. PICK i \in PlanItems \ DOMAIN checklist, L \in SUBSET Linkable :
          StartPlanCall(u, With(checklist, i, [completed |-> FALSE, links |-> L]), i, FALSE)
    BY <1>1 DEF AddItem
  <2> DEFINE item == [completed |-> FALSE, links |-> L]
             new == With(checklist, i, item)
  <2>2. item \in ChecklistItem
    BY DEF ChecklistItem
  <2>3. new \in [DOMAIN checklist \cup {i} -> ChecklistItem]
    BY <1>0, <2>2 DEF With
  <2>4. new \in Checklists
    <3>1. DOMAIN checklist \cup {i} \in SUBSET PlanItems
      BY <1>0
    <3> QED BY <3>1, <2>3, ChecklistIntro
  <2>5. SameOutside(new, checklist, i)
    BY <1>0 DEF SameOutside, With
  <2> QED BY <2>1, <2>4, <2>5 DEF Begins
<1>2. CASE ChangeItem(u)
  <2>1. PICK i \in DOMAIN checklist, L \in SUBSET Linkable :
          StartPlanCall(u, [checklist EXCEPT ![i].links = L], i, FALSE)
    BY <1>2 DEF ChangeItem
  <2> DEFINE new == [checklist EXCEPT ![i].links = L]
  <2>2. new \in [DOMAIN checklist -> ChecklistItem]
    BY <1>0 DEF ChecklistItem
  <2>3. new \in Checklists
    BY <1>0, <2>2, ChecklistIntro
  <2>4. SameOutside(new, checklist, i)
    BY <1>0 DEF SameOutside
  <2>5. i \in PlanItems
    BY <1>0
  <2> QED BY <2>1, <2>3, <2>4, <2>5 DEF Begins
<1>3. CASE ToggleItem(u)
  <2>1. PICK i \in DOMAIN checklist, done \in BOOLEAN :
          StartPlanCall(u, Ticked(checklist, i, done), i, done)
    BY <1>3 DEF ToggleItem
  <2> DEFINE new == Ticked(checklist, i, done)
  <2>2. new \in [DOMAIN checklist -> ChecklistItem]
    BY <1>0 DEF ChecklistItem, Ticked
  <2>3. new \in Checklists
    BY <1>0, <2>2, ChecklistIntro
  <2>4. SameOutside(new, checklist, i)
    BY <1>0 DEF SameOutside, Ticked
  <2>5. i \in PlanItems
    BY <1>0
  <2> QED BY <2>1, <2>3, <2>4, <2>5 DEF Begins
<1>4. CASE RemoveItem(u)
  <2>1. PICK i \in DOMAIN checklist :
          StartPlanCall(u, [j \in DOMAIN checklist \ {i} |-> checklist[j]], i, FALSE)
    BY <1>4 DEF RemoveItem
  <2> DEFINE new == [j \in DOMAIN checklist \ {i} |-> checklist[j]]
  <2>2. new \in [DOMAIN checklist \ {i} -> ChecklistItem]
    BY <1>0
  <2>3. new \in Checklists
    <3>1. DOMAIN checklist \ {i} \in SUBSET PlanItems
      BY <1>0
    <3> QED BY <3>1, <2>2, ChecklistIntro
  <2>4. SameOutside(new, checklist, i)
    BY <1>0 DEF SameOutside
  <2>5. i \in PlanItems
    BY <1>0
  <2> QED BY <2>1, <2>3, <2>4, <2>5 DEF Begins
<1>5. CASE ReplaceChecklist(u)
  <2>1. PICK new \in Checklists : StartPlanCall(u, new, Everything, FALSE)
    BY <1>5 DEF ReplaceChecklist
  <2> QED BY <2>1 DEF Begins
<1> QED BY <1>1, <1>2, <1>3, <1>4, <1>5 DEF StartsSome

\* The links of a checklist are linked resources, live or not.
LEMMA LinksType ==
  ASSUME NEW list \in Checklists
  PROVE  LinksOf(list) \in SUBSET Linkable
<1>1. \A i \in DOMAIN list : list[i].links \in SUBSET Linkable
  BY ChecklistElim DEF ChecklistItem
<1> QED BY <1>1 DEF LinksOf

\* An overtaken request keeps its type and is not alone any more.
LEMMA OvertakenType ==
  ASSUME PlansTypeOK, NEW u \in Planners
  PROVE  /\ PlanOvertaken(u) \in PlanCall
         /\ PlanOvertaken(u).pc = "validate" => ~PlanOvertaken(u).alone
<1>1. NoItems \in Checklists
  <2>1. NoItems \in [{} -> ChecklistItem]
    BY DEF NoItems
  <2> QED BY <2>1, ChecklistIntro
<1>2. NoPlanCall \in PlanCall
  BY <1>1 DEF NoPlanCall, PlanCall
<1>3. planCalls[u] \in PlanCall
  BY DEF PlansTypeOK
<1> QED BY <1>2, <1>3 DEF PlanOvertaken, PlanCall, NoPlanCall

\* The inductive invariant holds initially ...
LEMMA PlansInitInv == PlansInit => PlansInv
<1> SUFFICES ASSUME PlansInit PROVE PlansInv
  OBVIOUS
<1>1. NoItems \in Checklists
  <2>1. NoItems \in [{} -> ChecklistItem]
    BY DEF NoItems
  <2> QED BY <2>1, ChecklistIntro
<1>2. NoPlanCall \in PlanCall
  BY <1>1 DEF NoPlanCall, PlanCall
<1>3. PlansTypeOK
  BY <1>1, <1>2 DEF PlansInit, PlansTypeOK
<1>4. AloneInv
  BY DEF PlansInit, AloneInv, NoPlanCall
<1> QED BY <1>3, <1>4 DEF PlansInv

\* ... and every step preserves it.
LEMMA PlansStepInv == PlansInv /\ [PlansNext]_plansVars => PlansInv'
<1> SUFFICES ASSUME PlansInv, [PlansNext]_plansVars PROVE PlansInv'
  OBVIOUS
<1>0. PlansTypeOK /\ AloneInv
  BY DEF PlansInv
<1>1. CASE UNCHANGED plansVars
  BY <1>0, <1>1 DEF plansVars, PlansInv, PlansTypeOK, AloneInv, LookedUpAreLive,
                    TouchesOnlyItsItem, CleanIsCurrent, SameOutside, LinksOf
<1>2. CASE DeleteLinkable
  <2>1. planCalls' \in [Planners -> PlanCall]
    BY <1>0, <1>2, OvertakenType DEF DeleteLinkable
  <2>2. PlansTypeOK'
    BY <1>0, <1>2, <2>1 DEF DeleteLinkable, PlansTypeOK
  <2>3. AloneInv'
    BY <1>0, <1>2, OvertakenType DEF DeleteLinkable, AloneInv
  <2> QED BY <2>2, <2>3 DEF PlansInv
<1>3. CASE \E u \in Planners : StartsSome(u)
  <2>1. PICK u \in Planners : StartsSome(u)
    BY <1>3
  <2>2. PICK new, scope, stamped : Begins(u, new, scope, stamped)
    BY <1>0, <2>1, StartForm
  <2> DEFINE call == [pc |-> "validate", new |-> new, todo |-> Unchecked(new, scope),
                      scope |-> scope, dirty |-> stamped \/ new # checklist, alone |-> TRUE]
  <2>3. planCalls' = [planCalls EXCEPT ![u] = call] /\ UNCHANGED <<linkable, checklist>>
    BY <2>2 DEF Begins, StartPlanCall
  <2>4. call \in PlanCall
    BY <2>2, LinksType DEF Begins, PlanCall, Unchecked
  <2>5. PlansTypeOK'
    BY <1>0, <2>3, <2>4 DEF PlansTypeOK
  <2>6. ASSUME NEW v \in Planners, planCalls'[v].pc = "validate", planCalls'[v].alone
        PROVE  /\ LookedUpAreLive(planCalls[v])'
               /\ TouchesOnlyItsItem(planCalls[v])'
               /\ CleanIsCurrent(planCalls[v])'
    <3>1. CASE v = u
      <4>1. planCalls'[v] = call
        BY <1>0, <2>3, <3>1 DEF PlansTypeOK
      <4>2. LookedUpAreLive(planCalls[v])'
        BY <4>1 DEF LookedUpAreLive, Unchecked, LinksOf
      <4>3. TouchesOnlyItsItem(planCalls[v])'
        BY <2>2, <2>3, <4>1 DEF Begins, TouchesOnlyItsItem, SameOutside
      <4>4. CleanIsCurrent(planCalls[v])'
        <5>1. ~planCalls'[v].dirty => planCalls'[v].new = checklist
          <6>1. ~call.dirty => call.new = checklist
            BY Zenon
          <6> HIDE DEF call
          <6> QED BY <6>1, <4>1
        <5> QED BY <2>3, <5>1 DEF CleanIsCurrent
      <4> QED BY <4>2, <4>3, <4>4
    <3>2. CASE v # u
      <4>1. planCalls'[v] = planCalls[v]
        BY <1>0, <2>3, <3>2 DEF PlansTypeOK
      <4> QED BY <1>0, <2>3, <2>6, <4>1 DEF AloneInv, LookedUpAreLive, TouchesOnlyItsItem,
                                       CleanIsCurrent, SameOutside, LinksOf
    <3> QED BY <3>1, <3>2
  <2> QED BY <2>5, <2>6 DEF PlansInv, AloneInv
<1>4. CASE \E u \in Planners : ValidateLink(u)
  <2>1. PICK u \in Planners : ValidateLink(u)
    BY <1>4
  <2>2. PICK r \in planCalls[u].todo :
          planCalls' = [planCalls EXCEPT ![u] = IF r \in linkable
                                                  THEN [planCalls[u] EXCEPT !.todo = @ \ {r}]
                                                  ELSE NoPlanCall]
    BY <2>1 DEF ValidateLink
  <2>3. UNCHANGED <<linkable, checklist>> /\ planCalls[u] \in PlanCall
    BY <1>0, <2>1 DEF ValidateLink, PlansTypeOK
  <2>4. NoPlanCall \in PlanCall
    <3>1. NoItems \in [{} -> ChecklistItem]
      BY DEF NoItems
    <3>2. NoItems \in Checklists
      BY <3>1, ChecklistIntro
    <3> QED BY <3>2 DEF NoPlanCall, PlanCall
  <2>5. [planCalls[u] EXCEPT !.todo = @ \ {r}] \in PlanCall
    BY <2>3 DEF PlanCall
  <2>6. PlansTypeOK'
    <3>1. planCalls' \in [Planners -> PlanCall]
      <4>1. CASE r \in linkable
        <5>1. planCalls' = [planCalls EXCEPT ![u] = [planCalls[u] EXCEPT !.todo = @ \ {r}]]
          BY <2>2, <4>1
        <5> QED BY <1>0, <2>5, <5>1 DEF PlansTypeOK
      <4>2. CASE r \notin linkable
        <5>1. planCalls' = [planCalls EXCEPT ![u] = NoPlanCall]
          BY <2>2, <4>2
        <5> QED BY <1>0, <2>4, <5>1 DEF PlansTypeOK
      <4> QED BY <4>1, <4>2
    <3> QED BY <1>0, <2>3, <3>1 DEF PlansTypeOK
  <2>7. ASSUME NEW v \in Planners, planCalls'[v].pc = "validate", planCalls'[v].alone
        PROVE  /\ LookedUpAreLive(planCalls[v])'
               /\ TouchesOnlyItsItem(planCalls[v])'
               /\ CleanIsCurrent(planCalls[v])'
    <3>1. CASE v = u
      <4>1. r \in linkable /\ planCalls'[v] = [planCalls[u] EXCEPT !.todo = @ \ {r}]
        <5>1. CASE r \notin linkable
          <6>1. planCalls' = [planCalls EXCEPT ![u] = NoPlanCall]
            BY <2>2, <5>1
          <6>2. planCalls'[u] = NoPlanCall
            BY <1>0, <6>1 DEF PlansTypeOK
          <6> QED BY <2>7, <3>1, <6>2 DEF NoPlanCall
        <5>2. CASE r \in linkable
          <6>1. planCalls' = [planCalls EXCEPT ![u] = [planCalls[u] EXCEPT !.todo = @ \ {r}]]
            BY <2>2, <5>2
          <6> QED BY <1>0, <3>1, <5>2, <6>1 DEF PlansTypeOK
        <5> QED BY <5>1, <5>2
      <4>2. /\ planCalls'[v].new = planCalls[u].new
            /\ planCalls'[v].scope = planCalls[u].scope
            /\ planCalls'[v].dirty = planCalls[u].dirty
            /\ planCalls'[v].todo = planCalls[u].todo \ {r}
            /\ planCalls[u].pc = "validate" /\ planCalls[u].alone
        BY <2>3, <2>7, <4>1 DEF PlanCall
      <4>3. /\ LookedUpAreLive(planCalls[u])
            /\ TouchesOnlyItsItem(planCalls[u])
            /\ CleanIsCurrent(planCalls[u])
        BY <1>0, <4>2 DEF AloneInv
      <4>4. LookedUpAreLive(planCalls[v])'
        BY <2>3, <4>1, <4>2, <4>3 DEF LookedUpAreLive, LinksOf
      <4> QED BY <2>3, <4>2, <4>3, <4>4 DEF TouchesOnlyItsItem, CleanIsCurrent, SameOutside
    <3>2. CASE v # u
      <4>1. planCalls'[v] = planCalls[v]
        BY <1>0, <2>2, <3>2 DEF PlansTypeOK
      <4> QED BY <1>0, <2>3, <2>7, <4>1 DEF AloneInv, LookedUpAreLive, TouchesOnlyItsItem,
                                       CleanIsCurrent, SameOutside, LinksOf
    <3> QED BY <3>1, <3>2
  <2> QED BY <2>6, <2>7 DEF PlansInv, AloneInv
<1>5. CASE \E u \in Planners : CommitChecklist(u)
  <2>1. PICK u \in Planners : CommitChecklist(u)
    BY <1>5
  <2>2. NoPlanCall \in PlanCall
    <3>1. NoItems \in [{} -> ChecklistItem]
      BY DEF NoItems
    <3>2. NoItems \in Checklists
      BY <3>1, ChecklistIntro
    <3> QED BY <3>2 DEF NoPlanCall, PlanCall
  <2>3. \A v \in Planners : planCalls[v] \in PlanCall /\ PlanOvertaken(v) \in PlanCall
    BY <1>0, OvertakenType DEF PlansTypeOK
  <2>4. planCalls' \in [Planners -> PlanCall]
    BY <2>1, <2>2, <2>3 DEF CommitChecklist
  <2>5. checklist' \in Checklists
    BY <1>0, <2>1, <2>3 DEF CommitChecklist, PlansTypeOK, PlanCall
  <2>6. PlansTypeOK'
    BY <1>0, <2>1, <2>4, <2>5 DEF CommitChecklist, PlansTypeOK
  <2>7. ASSUME NEW v \in Planners, planCalls'[v].pc = "validate", planCalls'[v].alone
        PROVE  planCalls'[v] = planCalls[v] /\ UNCHANGED <<linkable, checklist>>
    BY <1>0, <2>1, <2>7, OvertakenType DEF CommitChecklist, NoPlanCall
  <2>8. AloneInv'
    BY <1>0, <2>7 DEF AloneInv, LookedUpAreLive, TouchesOnlyItsItem,
                      CleanIsCurrent, SameOutside, LinksOf
  <2> QED BY <2>6, <2>8 DEF PlansInv
<1> QED BY <1>1, <1>2, <1>3, <1>4, <1>5 DEF PlansNext, StartsSome

\* The lone commit of the properties is the commit of the handler's copy.
LEMMA LoneCommitWrites ==
  ASSUME PlansInv, [PlansNext]_plansVars, NEW u \in Planners, LonePlanCommit(u)
  PROVE  /\ checklist' = planCalls[u].new
         /\ linkable' = linkable
         /\ LookedUpAreLive(planCalls[u]) /\ TouchesOnlyItsItem(planCalls[u])
<1>0. /\ PlansTypeOK
      /\ LookedUpAreLive(planCalls[u]) /\ TouchesOnlyItsItem(planCalls[u])
      /\ CleanIsCurrent(planCalls[u])
  BY DEF PlansInv, AloneInv, LonePlanCommit
<1>1. planCalls'[u].pc = "idle" /\ planCalls[u].pc = "validate" /\ planCalls[u].todo = {}
  BY DEF LonePlanCommit
<1>2. ~UNCHANGED plansVars
  BY <1>1 DEF plansVars
<1>3. ~DeleteLinkable
  <2>1. SUFFICES ASSUME DeleteLinkable PROVE FALSE
    OBVIOUS
  <2>2. planCalls'[u] = [planCalls[u] EXCEPT !.alone = FALSE, !.scope = Everything]
    BY <1>1, <2>1 DEF DeleteLinkable, PlanOvertaken
  <2>3. planCalls[u] \in PlanCall
    BY <1>0 DEF PlansTypeOK
  <2> QED BY <1>1, <2>2, <2>3 DEF PlanCall
<1>4. ASSUME NEW v \in Planners, StartsSome(v) PROVE FALSE
  <2>1. PICK new, scope, stamped : Begins(v, new, scope, stamped)
    BY <1>0, <1>4, StartForm
  <2> QED BY <1>0, <1>1, <2>1 DEF Begins, StartPlanCall, PlansTypeOK
<1>5. ASSUME NEW v \in Planners, ValidateLink(v) PROVE FALSE
  <2>1. planCalls[v].todo # {}
    BY <1>5 DEF ValidateLink
  <2>2. v # u
    BY <1>1, <2>1
  <2> QED BY <1>0, <1>1, <1>5, <2>2 DEF ValidateLink, PlansTypeOK
<1>6. PICK v \in Planners : CommitChecklist(v)
  BY <1>2, <1>3, <1>4, <1>5 DEF PlansNext, StartsSome
<1>7. v = u
  BY <1>0, <1>1, <1>6 DEF CommitChecklist, PlanOvertaken, PlansTypeOK, PlanCall
<1> QED BY <1>0, <1>6, <1>7 DEF CommitChecklist, CleanIsCurrent

\* Type correctness, and the invariant that carries the two results below.
THEOREM PlansInvariant == PlansSpec => []PlansInv
<1> QED BY PlansInitInv, PlansStepInv, PTL DEF PlansSpec

\* A checklist request nobody overtakes leaves only live links in the checklist,
\* because update looks up the links of every item of the copy it will write.
THEOREM LinksCorrect == PlansSpec => CommittedLinksAreLive
<1>1. PlansInv /\ [PlansNext]_plansVars
        => [\A u \in Planners : LonePlanCommit(u) => LinksOf(checklist') \subseteq linkable']_plansVars
  <2> SUFFICES ASSUME PlansInv, [PlansNext]_plansVars, NEW u \in Planners, LonePlanCommit(u)
               PROVE  LinksOf(checklist') \subseteq linkable'
    OBVIOUS
  <2>1. LookedUpAreLive(planCalls[u]) /\ checklist' = planCalls[u].new /\ linkable' = linkable
    BY LoneCommitWrites
  <2>2. planCalls[u].todo = {}
    BY DEF LonePlanCommit
  <2> QED BY <2>1, <2>2 DEF LookedUpAreLive
<1> QED BY <1>1, PlansInvariant, PTL DEF PlansSpec, CommittedLinksAreLive

\* A request for one item that nobody overtakes keeps all the others, although it
\* writes the whole column.
THEOREM OthersCorrect == PlansSpec => ItemRequestKeepsOthers
<1> DEFINE Keeps(u) ==
      LET i == planCalls[u].scope
      IN  LonePlanCommit(u) /\ i # Everything
            => /\ DOMAIN checklist \ {i} = DOMAIN checklist' \ {i}
               /\ \A j \in DOMAIN checklist \ {i} : checklist'[j] = checklist[j]
<1>1. PlansInv /\ [PlansNext]_plansVars => [\A u \in Planners : Keeps(u)]_plansVars
  <2> SUFFICES ASSUME PlansInv, [PlansNext]_plansVars, NEW u \in Planners
               PROVE  Keeps(u)
    OBVIOUS
  <2>1. LonePlanCommit(u) => TouchesOnlyItsItem(planCalls[u]) /\ checklist' = planCalls[u].new
    BY LoneCommitWrites
  <2> QED BY <2>1 DEF TouchesOnlyItsItem, SameOutside
<1> QED BY <1>1, PlansInvariant, PTL DEF PlansSpec, ItemRequestKeepsOthers

-----------------------------------------------------------------------------
(***************************************************************************)
(* The two properties of paired clients, for any number of threads, tokens *)
(* and credentials.  A token that has issued a credential is consumed, and *)
(* an exchange that nobody has overtaken finds its token open still: so    *)
(* its commit issues the first credential.                                 *)
(***************************************************************************)
IssuedAreConsumed ==
  \A c \in Credentials : clients[c].from \in Tokens => pairings[clients[c].from].state = "consumed"

Exchanging(u) == calls[u].pc = "exchange"

ExchangesHaveTokens == \A u \in Callers : Exchanging(u) => calls[u].token \in Tokens

LoneFindsOpen ==
  \A u \in Callers : Exchanging(u) /\ calls[u].alone => pairings[calls[u].token].state = "open"

PairingInv == /\ PairingTypeOK /\ IssuedAreConsumed
              /\ ExchangesHaveTokens /\ LoneFindsOpen

LEMMA IdleType == NoClient \in Credential /\ NoCall \in Call
<1>1. NoClient \in Credential
  BY PairingConstants DEF NoClient, Credential, Moments
<1> QED BY <1>1 DEF NoCall, Call

LEMMA PairingInitInv ==
  ASSUME PairingInit
  PROVE  PairingInv
<1>1. PairingTypeOK
  BY PairingConstants, IdleType DEF PairingInit, PairingTypeOK, Moments, PairingRow, NoPairing
<1>2. IssuedAreConsumed
  BY PairingConstants DEF PairingInit, IssuedAreConsumed, NoClient
<1>3. ExchangesHaveTokens /\ LoneFindsOpen
  BY DEF PairingInit, ExchangesHaveTokens, LoneFindsOpen, Exchanging, NoCall
<1> QED BY <1>1, <1>2, <1>3 DEF PairingInv

LEMMA PairingStepType ==
  ASSUME PairingTypeOK, [PairingNext]_pairingVars
  PROVE  PairingTypeOK'
<1> USE PairingConstants DEF PairingTypeOK
<1>1. CASE MinutesPass
  BY <1>1 DEF MinutesPass, Moments
<1>2. CASE CreatePairing
  <2>1. PICK p \in Tokens : pairings' =
          [pairings EXCEPT ![p] = [state |-> "open", expires |-> now + Lifetime]]
    BY <1>2 DEF CreatePairing
  <2>2. [state |-> "open", expires |-> now + Lifetime] \in PairingRow
    BY DEF PairingRow, Moments
  <2> QED BY <1>2, <2>1, <2>2 DEF CreatePairing
<1>3. CASE CreateClient
  BY <1>3 DEF CreateClient, Unused, Credential
<1>4. CASE Revoke
  BY <1>4 DEF Revoke, Credential
<1>5. ASSUME NEW u \in Callers, StartExchange(u) PROVE PairingTypeOK'
  <2>1. PICK p \in Tokens :
          calls' = [calls EXCEPT ![u] = [NoCall EXCEPT !.pc = "exchange", !.token = p]]
    BY <1>5 DEF StartExchange
  <2>2. [NoCall EXCEPT !.pc = "exchange", !.token = p] \in Call
    BY IdleType DEF Call
  <2> QED BY <1>5, <2>1, <2>2 DEF StartExchange
<1>6. ASSUME NEW u \in Callers, CommitExchange(u) PROVE PairingTypeOK'
  <2>1. clients' \in [Credentials -> Credential]
    <3>1. PICK c \in Credentials :
            clients' = [clients EXCEPT ![c] = [NoClient EXCEPT !.state = "active",
                                                               !.from = calls[u].token]]
      BY <1>6 DEF CommitExchange, Unused
    <3>2. calls[u].token \in Tokens \cup {NoToken}
      BY DEF Call
    <3>3. [NoClient EXCEPT !.state = "active", !.from = calls[u].token] \in Credential
      BY <3>2, IdleType DEF Credential
    <3> QED BY <3>1, <3>3
  <2>2. pairings' \in [Tokens -> PairingRow]
    BY <1>6 DEF CommitExchange, PairingRow
  <2>3. calls' \in [Callers -> Call]
    BY <1>6, IdleType DEF CommitExchange, Call
  <2> QED BY <1>6, <2>1, <2>2, <2>3 DEF CommitExchange
<1>7. ASSUME NEW u \in Callers, StartClientCall(u) PROVE PairingTypeOK'
  <2>1. PICK c \in Credentials :
          calls' = [calls EXCEPT ![u] = [NoCall EXCEPT !.pc = "seen", !.client = c,
                                                       !.loaded = clients[c]]]
    BY <1>7 DEF StartClientCall
  <2>2. [NoCall EXCEPT !.pc = "seen", !.client = c, !.loaded = clients[c]] \in Call
    BY IdleType DEF Call
  <2> QED BY <1>7, <2>1, <2>2 DEF StartClientCall
<1>8. ASSUME NEW u \in Callers, CommitSeen(u) PROVE PairingTypeOK'
  <2>1. clients' \in [Credentials -> Credential]
    BY <1>8 DEF CommitSeen, Seen, Credential
  <2>2. calls' \in [Callers -> Call]
    BY <1>8, IdleType DEF CommitSeen
  <2> QED BY <1>8, <2>1, <2>2 DEF CommitSeen
<1>9. CASE UNCHANGED pairingVars
  BY <1>9 DEF pairingVars
<1> QED BY <1>1, <1>2, <1>3, <1>4, <1>5, <1>6, <1>7, <1>8, <1>9 DEF PairingNext, Refused

LEMMA PairingStepInv ==
  ASSUME PairingInv, [PairingNext]_pairingVars
  PROVE  PairingInv'
<1>0. /\ PairingTypeOK /\ PairingTypeOK'
      /\ IssuedAreConsumed /\ ExchangesHaveTokens /\ LoneFindsOpen
  BY PairingStepType DEF PairingInv
<1>1. CASE MinutesPass
  BY <1>0, <1>1 DEF MinutesPass, IssuedAreConsumed,
     ExchangesHaveTokens, LoneFindsOpen, Exchanging, PairingInv
<1>2. CASE CreatePairing
  <2>1. PICK p \in Tokens :
          /\ pairings[p].state = "none"
          /\ pairings' = [pairings EXCEPT ![p] = [state |-> "open", expires |-> now + Lifetime]]
    BY <1>2 DEF CreatePairing
  <2>2. UNCHANGED <<clients, calls>>
    BY <1>2 DEF CreatePairing
  <2>3. ExchangesHaveTokens'
    BY <1>0, <2>2 DEF ExchangesHaveTokens, Exchanging
  <2>4. IssuedAreConsumed'
    BY <1>0, <2>1, <2>2 DEF PairingTypeOK, IssuedAreConsumed
  <2>5. LoneFindsOpen'
    BY <1>0, <2>1, <2>2 DEF PairingTypeOK, ExchangesHaveTokens, LoneFindsOpen, Exchanging
  <2> QED BY <1>0, <2>3, <2>4, <2>5 DEF PairingInv
<1>3. CASE CreateClient
  <2>1. PICK c \in Unused : clients' = [clients EXCEPT ![c].state = "active"]
    BY <1>3 DEF CreateClient
  <2>2. UNCHANGED <<pairings, calls>>
    BY <1>3 DEF CreateClient
  <2>3. \A d \in Credentials : clients'[d].from = clients[d].from
    BY <1>0, <2>1 DEF PairingTypeOK, Credential
  <2>4. IssuedAreConsumed'
    BY <1>0, <2>2, <2>3 DEF IssuedAreConsumed
  <2> QED BY <1>0, <2>2, <2>4 DEF PairingInv, ExchangesHaveTokens, LoneFindsOpen, Exchanging
<1>4. CASE Revoke
  <2>1. PICK c \in Credentials : /\ clients[c].state = "active"
                                 /\ clients' = [clients EXCEPT ![c].state = "revoked"]
    BY <1>4 DEF Revoke
  <2>2. UNCHANGED <<pairings, calls>>
    BY <1>4 DEF Revoke
  <2>3. \A d \in Credentials : clients'[d].from = clients[d].from
    BY <1>0, <2>1 DEF PairingTypeOK, Credential
  <2>4. IssuedAreConsumed'
    BY <1>0, <2>2, <2>3 DEF IssuedAreConsumed
  <2> QED BY <1>0, <2>2, <2>4 DEF PairingInv, ExchangesHaveTokens, LoneFindsOpen, Exchanging
<1>5. ASSUME NEW u \in Callers, StartExchange(u) PROVE PairingInv'
  <2>1. PICK p \in Tokens :
          /\ Exchangeable(p)
          /\ calls' = [calls EXCEPT ![u] = [NoCall EXCEPT !.pc = "exchange", !.token = p]]
    BY <1>5 DEF StartExchange
  <2>2. UNCHANGED <<pairings, clients>>
    BY <1>5 DEF StartExchange
  <2>3. calls'[u].token = p /\ \A v \in Callers \ {u} : calls'[v] = calls[v]
    BY <1>0, <2>1 DEF PairingTypeOK, NoCall
  <2>4. ExchangesHaveTokens' /\ LoneFindsOpen'
    BY <1>0, <2>1, <2>2, <2>3 DEF ExchangesHaveTokens, LoneFindsOpen, Exchanging, Exchangeable
  <2> QED BY <1>0, <2>2, <2>4 DEF PairingInv, IssuedAreConsumed
<1>6. ASSUME NEW u \in Callers, CommitExchange(u) PROVE PairingInv'
  <2> DEFINE p == calls[u].token
  <2>1. Exchanging(u) /\ p \in Tokens
    BY <1>0, <1>6 DEF CommitExchange, Exchanging, ExchangesHaveTokens
  <2>2. PICK c \in Unused :
          clients' = [clients EXCEPT ![c] = [NoClient EXCEPT !.state = "active", !.from = p]]
    BY <1>6 DEF CommitExchange
  <2>3. pairings' = [pairings EXCEPT ![p].state = "consumed"]
    BY <1>6 DEF CommitExchange
  <2>4. \A v \in Callers :
          Exchanging(v)' => /\ Exchanging(v) /\ calls'[v].token = calls[v].token
                            /\ calls'[v].alone => calls[v].alone /\ calls[v].token # p
    BY <1>0, <1>6 DEF CommitExchange, PairingTypeOK, Exchanging, NoCall, Call
  <2>5. IssuedAreConsumed'
    BY <1>0, <2>1, <2>2, <2>3 DEF IssuedAreConsumed, Unused, PairingTypeOK, PairingRow, NoClient
  <2>6. ExchangesHaveTokens'
    BY <1>0, <2>4 DEF ExchangesHaveTokens
  <2>7. LoneFindsOpen'
    BY <1>0, <2>1, <2>3, <2>4 DEF LoneFindsOpen, ExchangesHaveTokens, PairingTypeOK
  <2> QED BY <1>0, <2>5, <2>6, <2>7 DEF PairingInv
<1>7. ASSUME NEW u \in Callers, StartClientCall(u) PROVE PairingInv'
  <2>1. UNCHANGED <<pairings, clients>>
    BY <1>7 DEF StartClientCall
  <2>2. \A v \in Callers : Exchanging(v)' => calls'[v] = calls[v]
    BY <1>0, <1>7 DEF StartClientCall, PairingTypeOK, Exchanging, NoCall
  <2>3. ExchangesHaveTokens' /\ LoneFindsOpen'
    BY <1>0, <2>1, <2>2 DEF ExchangesHaveTokens, LoneFindsOpen, Exchanging
  <2> QED BY <1>0, <2>1, <2>3 DEF PairingInv, IssuedAreConsumed
<1>8. ASSUME NEW u \in Callers, CommitSeen(u) PROVE PairingInv'
  <2>1. pairings' = pairings
    BY <1>8 DEF CommitSeen
  <2>2. \A v \in Callers : Exchanging(v)' => calls'[v] = calls[v]
    BY <1>0, <1>8 DEF CommitSeen, PairingTypeOK, Exchanging, NoCall
  <2>3. ExchangesHaveTokens' /\ LoneFindsOpen'
    BY <1>0, <2>1, <2>2 DEF ExchangesHaveTokens, LoneFindsOpen, Exchanging
  <2>4. \A d \in Credentials : clients'[d].from = clients[d].from
    BY <1>0, <1>8 DEF CommitSeen, Seen, PairingTypeOK, Credential
  <2>5. IssuedAreConsumed'
    BY <1>0, <2>1, <2>4 DEF IssuedAreConsumed
  <2> QED BY <1>0, <2>3, <2>5 DEF PairingInv
<1>9. CASE UNCHANGED pairingVars
  BY <1>0, <1>9 DEF pairingVars, IssuedAreConsumed,
     ExchangesHaveTokens, LoneFindsOpen, Exchanging, PairingInv
<1> QED BY <1>1, <1>2, <1>3, <1>4, <1>5, <1>6, <1>7, <1>8, <1>9 DEF PairingNext, Refused

\* Type correctness, and the invariant that the next result rests on.
THEOREM PairingInvariant == PairingSpec => []PairingInv
<1> QED BY PairingInitInv, PairingStepInv, PTL DEF PairingSpec

\* The lone exchange of the property ends by its own commit.
LEMMA LoneExchangeCommits ==
  ASSUME PairingInv, [PairingNext]_pairingVars, NEW u \in Callers,
         Exchanging(u), calls'[u].pc = "idle"
  PROVE  CommitExchange(u)
<1>0. calls \in [Callers -> Call] /\ calls[u].pc = "exchange"
  BY DEF PairingInv, PairingTypeOK, Exchanging
<1>1. calls' # calls
  BY <1>0
<1>2. ~(MinutesPass \/ CreatePairing \/ CreateClient \/ Revoke \/ UNCHANGED pairingVars)
  BY <1>1 DEF MinutesPass, CreatePairing, CreateClient, Revoke, pairingVars
<1>3. ASSUME NEW v \in Callers, StartExchange(v) \/ StartClientCall(v) \/ CommitSeen(v) PROVE FALSE
  <2>1. v # u
    BY <1>0, <1>3 DEF StartExchange, StartClientCall, CommitSeen
  <2> QED BY <1>0, <1>3, <2>1 DEF StartExchange, StartClientCall, CommitSeen
<1>4. PICK v \in Callers : CommitExchange(v)
  BY <1>2, <1>3 DEF PairingNext, Refused
<1>5. v = u
  BY <1>0, <1>4 DEF CommitExchange, Call
<1> QED BY <1>4, <1>5

\* A pairing token is single-use: an exchange nobody overtakes issues the first and
\* only credential of its token, since a token that has issued one is consumed and
\* a lone exchange still finds its token open when it commits.
THEOREM SingleUseCorrect == PairingSpec => LoneExchangeIsSingleUse
<1> DEFINE First(u) ==
      LET p == calls[u].token
      IN  calls[u].pc = "exchange" /\ calls'[u].pc = "idle" /\ calls[u].alone
            => Issued(clients, p) = {} /\ Cardinality(Issued(clients', p)) = 1
<1>1. PairingInv /\ [PairingNext]_pairingVars => [\A u \in Callers : First(u)]_pairingVars
  <2> SUFFICES ASSUME PairingInv, [PairingNext]_pairingVars, NEW u \in Callers,
                      Exchanging(u), calls'[u].pc = "idle", calls[u].alone
               PROVE  /\ Issued(clients, calls[u].token) = {}
                      /\ Cardinality(Issued(clients', calls[u].token)) = 1
    BY DEF Exchanging
  <2> DEFINE p == calls[u].token
  <2>1. p \in Tokens /\ pairings[p].state = "open"
    BY DEF PairingInv, ExchangesHaveTokens, LoneFindsOpen
  <2>2. \A c \in Credentials : clients[c].from # p
    BY <2>1 DEF PairingInv, IssuedAreConsumed
  <2>3. PICK c \in Credentials :
          clients' = [clients EXCEPT ![c] = [NoClient EXCEPT !.state = "active", !.from = p]]
    BY LoneExchangeCommits DEF CommitExchange, Unused
  <2>4. Issued(clients', p) = {c}
    BY <2>2, <2>3 DEF Issued, NoClient, PairingInv, PairingTypeOK
  <2>5. Cardinality(Issued(clients', p)) = 1
    BY <2>4, FS_Singleton
  <2> QED BY <2>2, <2>5 DEF Issued
<1> QED BY <1>1, PairingInvariant, PTL DEF PairingSpec, LoneExchangeIsSingleUse

\* No step gives a revoked credential back: new ones are taken from the unused, and
\* the late record of a request in flight writes the time it was seen alone.
THEOREM RevocationCorrect == PairingSpec => RevocationIsFinal
<1> DEFINE Final(c) == clients[c].state = "revoked" => clients'[c].state = "revoked"
<1>1. PairingInv /\ [PairingNext]_pairingVars => [\A c \in Credentials : Final(c)]_pairingVars
  <2> SUFFICES ASSUME PairingInv, [PairingNext]_pairingVars, NEW c \in Credentials,
                      clients[c].state = "revoked"
               PROVE  clients'[c].state = "revoked"
    OBVIOUS
  <2>0. clients \in [Credentials -> Credential]
    BY DEF PairingInv, PairingTypeOK
  <2>1. CASE UNCHANGED clients
    BY <2>1
  <2>2. CASE CreateClient
    BY <2>0, <2>2 DEF CreateClient, Unused
  <2>3. CASE Revoke
    BY <2>0, <2>3 DEF Revoke
  <2>4. ASSUME NEW u \in Callers, CommitExchange(u) PROVE clients'[c].state = "revoked"
    BY <2>0, <2>4 DEF CommitExchange, Unused
  <2>5. ASSUME NEW u \in Callers, CommitSeen(u) PROVE clients'[c].state = "revoked"
    BY <2>0, <2>5 DEF CommitSeen, Seen, Credential
  <2>6. UNCHANGED clients \/ CreateClient \/ Revoke
        \/ \E u \in Callers : CommitExchange(u) \/ CommitSeen(u)
    BY DEF PairingNext, MinutesPass, CreatePairing, StartExchange, StartClientCall, Refused,
           pairingVars
  <2> QED BY <2>1, <2>2, <2>3, <2>4, <2>5, <2>6
<1> QED BY <1>1, PairingInvariant, PTL DEF PairingSpec, RevocationIsFinal

-----------------------------------------------------------------------------
(***************************************************************************)
(* Adoption of recommendations, for any number of threads, targets and     *)
(* recommendations: an adoption that nobody has overtaken still finds no   *)
(* live target of its recommendation, and still holds what the             *)
(* recommendation asks of the household, whatever happened to the targets  *)
(* and the profile before.                                                 *)
(***************************************************************************)
LoneFindsNone ==
  \A u \in Adopters : adoptions[u].pc = "insert" /\ adoptions[u].alone
                        => /\ AdoptedFrom(targets, adoptions[u].what) = {}
                           /\ adoptions[u].amount = Calculated(RuleOf[adoptions[u].what], basis)

TargetsInv == TargetsTypeOK /\ LoneFindsNone

LEMMA BlankType == NoTarget \in Target /\ NoAdoption \in Adoption
BY DEF NoTarget, Target, NoAdoption, Adoption

\* Every rule yields an amount for every household.
LEMMA AmountOfRule ==
  ASSUME NEW rule \in Rule, NEW b \in Basis
  PROVE  Calculated(rule, b) \in Nat
<1> DEFINE people == b.adults + b.children
<1>1. rule.rate \in Nat /\ b.adults \in Nat /\ b.days \in Nat /\ people \in Nat
  BY DEF Rule, Basis
<1>2. \A m, n \in Nat : m * n \in Nat
  OBVIOUS
<1>3. /\ rule.rate * people * b.days \in Nat
      /\ rule.rate * b.adults * b.days \in Nat
      /\ rule.rate * people \in Nat
  <2>1. rule.rate * people \in Nat /\ rule.rate * b.adults \in Nat
    <3> HIDE DEF people
    <3> QED BY <1>1, <1>2
  <2> HIDE DEF people
  <2> QED BY <1>1, <1>2, <2>1
<1>4. rule.kind \in RuleKinds
  BY DEF Rule
<1> QED BY <1>1, <1>3, <1>4 DEF Calculated, RuleKinds

\* A handler that is overtaken keeps its place and is not alone any more.
LEMMA OvertakenAdoption ==
  ASSUME TargetsTypeOK, NEW u \in Adopters
  PROVE  /\ AdoptionOvertaken(u) \in Adoption
         /\ AdoptionOvertaken(u).pc = "insert" => ~AdoptionOvertaken(u).alone
         /\ AdoptionOvertaken(u).pc = adoptions[u].pc
<1>1. adoptions[u] \in Adoption
  BY DEF TargetsTypeOK
<1>2. CASE adoptions[u].pc = "idle"
  BY <1>2, BlankType DEF AdoptionOvertaken, NoAdoption
<1>3. CASE adoptions[u].pc # "idle"
  BY <1>1, <1>3 DEF AdoptionOvertaken, Adoption
<1> QED BY <1>2, <1>3

\* Each write of a target or of the profile overtakes all the adoptions in flight.
LEMMA WriteOvertakes ==
  ASSUME TargetsInv, targets' \in [TargetIds -> Target], basis' \in Bases \cup {NoBasis},
         AdoptionsOvertaken
  PROVE  TargetsInv' /\ \A u \in Adopters : adoptions'[u].pc = adoptions[u].pc
<1>1. \A u \in Adopters : adoptions'[u] = AdoptionOvertaken(u)
  BY DEF AdoptionsOvertaken
<1>2. adoptions' \in [Adopters -> Adoption]
  BY OvertakenAdoption DEF AdoptionsOvertaken, TargetsInv
<1> QED BY <1>1, <1>2, OvertakenAdoption DEF TargetsInv, TargetsTypeOK, LoneFindsNone

LEMMA PutStep ==
  ASSUME TargetsInv, PutProfile
  PROVE  /\ targets' \in [TargetIds -> Target] /\ basis' \in Bases \cup {NoBasis}
         /\ AdoptionsOvertaken
BY DEF PutProfile, TargetsInv, TargetsTypeOK

LEMMA CreateStep ==
  ASSUME TargetsInv, CreateTarget
  PROVE  /\ targets' \in [TargetIds -> Target] /\ basis' \in Bases \cup {NoBasis}
         /\ AdoptionsOvertaken
<1>1. PICK t \in TargetIds, from \in Recommended \cup {Own}, n \in Amounts,
           req \in SUBSET Requirements, done \in SUBSET Requirements :
        targets' = [targets EXCEPT ![t] = [live |-> TRUE, origin |-> from, amount |-> n,
                                           required |-> req, completed |-> done \cap req]]
  BY DEF CreateTarget
<1>2. [live |-> TRUE, origin |-> from, amount |-> n,
       required |-> req, completed |-> done \cap req] \in Target
  BY TargetsConstants DEF Target
<1> QED BY <1>1, <1>2 DEF TargetsInv, TargetsTypeOK, CreateTarget

LEMMA UpdateStep ==
  ASSUME TargetsInv, UpdateTarget
  PROVE  /\ targets' \in [TargetIds -> Target] /\ basis' \in Bases \cup {NoBasis}
         /\ AdoptionsOvertaken
<1>1. PICK t \in TargetIds, req \in (SUBSET Requirements) \cup {NotGiven},
           done \in (SUBSET Requirements) \cup {NotGiven}, n \in Amounts \cup {NotGiven} :
        targets' = [targets EXCEPT ![t] = EditedTarget(targets[t], req, done, n)]
  BY DEF UpdateTarget, LiveTargets
<1>2. targets[t] \in Target
  BY DEF TargetsInv, TargetsTypeOK
<1>3. EditedTarget(targets[t], req, done, n) \in Target
  <2> DEFINE required == IF req = NotGiven THEN targets[t].required ELSE req
             completed == IF done = NotGiven THEN targets[t].completed ELSE done \cap required
             asked == IF n = NotGiven THEN targets[t].amount ELSE n
  <2>1. required \in SUBSET Requirements
    BY <1>2 DEF Target
  <2>2. completed \in SUBSET Requirements
    BY <1>2, <2>1 DEF Target
  <2>3. asked \in Nat
    BY <1>2, TargetsConstants DEF Target
  <2> HIDE DEF required, completed, asked
  <2>4. [targets[t] EXCEPT !.required = required, !.completed = completed,
                           !.amount = asked] \in Target
    BY <1>2, <2>1, <2>2, <2>3 DEF Target
  <2> QED BY <2>4 DEF EditedTarget, required, completed, asked
<1> QED BY <1>1, <1>3 DEF TargetsInv, TargetsTypeOK, UpdateTarget

LEMMA DeleteStep ==
  ASSUME TargetsInv, DeleteTarget
  PROVE  /\ targets' \in [TargetIds -> Target] /\ basis' \in Bases \cup {NoBasis}
         /\ AdoptionsOvertaken
BY BlankType DEF DeleteTarget, LiveTargets, TargetsInv, TargetsTypeOK

LEMMA StartStep ==
  ASSUME TargetsInv, NEW u \in Adopters, StartAdoption(u)
  PROVE  TargetsInv' /\ adoptions'[u].pc = "insert"
<1>1. PICK r \in Recommended :
        /\ ~AlreadyAdopted(r)
        /\ adoptions' = [adoptions EXCEPT ![u] =
             [pc |-> "insert", what |-> r, amount |-> Calculated(RuleOf[r], basis),
              alone |-> TRUE]]
  BY DEF StartAdoption
<1>2. targets' = targets /\ basis' = basis /\ adoptions \in [Adopters -> Adoption]
  BY DEF StartAdoption, TargetsInv, TargetsTypeOK
<1>3. [pc |-> "insert", what |-> r, amount |-> Calculated(RuleOf[r], basis),
       alone |-> TRUE] \in Adoption
  <2>1. basis \in Basis
    BY TargetsConstants DEF StartAdoption, TargetsInv, TargetsTypeOK
  <2>2. Calculated(RuleOf[r], basis) \in Nat
    BY <2>1, GuidanceConstants, AmountOfRule
  <2> QED BY <2>2 DEF Adoption
<1>4. AdoptedFrom(targets, r) = {}
  BY <1>1 DEF AlreadyAdopted, AdoptedFrom, LiveTargets
<1>5. /\ adoptions'[u].what = r /\ adoptions'[u].pc = "insert"
      /\ adoptions'[u].amount = Calculated(RuleOf[r], basis)
  BY <1>1, <1>2
<1>6. LoneFindsNone'
  BY <1>1, <1>2, <1>4, <1>5 DEF TargetsInv, LoneFindsNone, AdoptedFrom
<1> QED BY <1>1, <1>2, <1>3, <1>5, <1>6 DEF TargetsInv, TargetsTypeOK

LEMMA CommitStep ==
  ASSUME TargetsInv, NEW u \in Adopters, CommitAdoption(u)
  PROVE  TargetsInv' /\ \A v \in Adopters \ {u} : adoptions'[v].pc = adoptions[v].pc
<1>1. PICK t \in TargetIds, req \in SUBSET Requirements :
        targets' = [targets EXCEPT ![t] = [live |-> TRUE, origin |-> adoptions[u].what,
                                           amount |-> adoptions[u].amount,
                                           required |-> req, completed |-> {}]]
  BY DEF CommitAdoption
<1>2. adoptions[u].what \in Recommended \cup {Own} /\ adoptions[u].amount \in Nat
  BY DEF TargetsInv, TargetsTypeOK, Adoption
<1>3. [live |-> TRUE, origin |-> adoptions[u].what, amount |-> adoptions[u].amount,
       required |-> req, completed |-> {}] \in Target
  BY <1>2 DEF Target
<1>4. targets' \in [TargetIds -> Target] /\ basis' \in Bases \cup {NoBasis}
  BY <1>1, <1>3 DEF TargetsInv, TargetsTypeOK, CommitAdoption
<1>5. \A v \in Adopters : adoptions'[v] = IF v = u THEN NoAdoption ELSE AdoptionOvertaken(v)
  BY DEF CommitAdoption
<1>6. adoptions' \in [Adopters -> Adoption]
  BY BlankType, OvertakenAdoption DEF CommitAdoption, TargetsInv
<1>7. LoneFindsNone'
  BY <1>5, OvertakenAdoption DEF LoneFindsNone, NoAdoption, TargetsInv
<1> QED BY <1>4, <1>5, <1>6, <1>7, OvertakenAdoption DEF TargetsInv, TargetsTypeOK

LEMMA TargetsStepInv ==
  ASSUME TargetsInv, [TargetsNext]_targetsVars
  PROVE  TargetsInv'
<1>1. CASE PutProfile \/ CreateTarget \/ UpdateTarget \/ DeleteTarget
  BY <1>1, PutStep, CreateStep, UpdateStep, DeleteStep, WriteOvertakes
<1>2. ASSUME NEW u \in Adopters, StartAdoption(u) \/ CommitAdoption(u) PROVE TargetsInv'
  BY <1>2, StartStep, CommitStep
<1>3. CASE UNCHANGED targetsVars
  BY <1>3 DEF targetsVars, TargetsInv, TargetsTypeOK, LoneFindsNone, AdoptedFrom
<1> QED BY <1>1, <1>2, <1>3 DEF TargetsNext

\* Type correctness of the targets, and what an adoption nobody has overtaken knows.
THEOREM TargetsInvariant == TargetsSpec => []TargetsInv
<1>1. TargetsInit => TargetsInv
  BY BlankType DEF TargetsInit, TargetsInv, TargetsTypeOK, LoneFindsNone, NoAdoption
<1> QED BY <1>1, TargetsStepInv, PTL DEF TargetsSpec

\* An adoption nobody overtakes leaves exactly one live target of its
\* recommendation, with the amount the profile yields now.
THEOREM AdoptionCorrect == TargetsSpec => LoneAdoptionIsExact
<1> DEFINE Exact(u) ==
      LET r == adoptions[u].what
      IN  adoptions[u].pc = "insert" /\ adoptions'[u].pc = "idle" /\ adoptions[u].alone
            => \E t \in TargetIds :
                 /\ AdoptedFrom(targets', r) = {t}
                 /\ targets'[t].amount = Calculated(RuleOf[r], basis')
<1>1. TargetsInv /\ [TargetsNext]_targetsVars => [\A u \in Adopters : Exact(u)]_targetsVars
  <2> SUFFICES ASSUME TargetsInv, [TargetsNext]_targetsVars, NEW u \in Adopters,
                      adoptions[u].pc = "insert", adoptions'[u].pc = "idle", adoptions[u].alone
               PROVE  \E t \in TargetIds :
                        /\ AdoptedFrom(targets', adoptions[u].what) = {t}
                        /\ targets'[t].amount = Calculated(RuleOf[adoptions[u].what], basis')
    OBVIOUS
  <2>1. ~(PutProfile \/ CreateTarget \/ UpdateTarget \/ DeleteTarget \/ UNCHANGED targetsVars)
    BY PutStep, CreateStep, UpdateStep, DeleteStep, WriteOvertakes DEF targetsVars
  <2>2. ASSUME NEW v \in Adopters, StartAdoption(v) PROVE FALSE
    <3>1. v # u
      BY <2>2 DEF StartAdoption
    <3> QED BY <2>2, <3>1 DEF StartAdoption, TargetsInv, TargetsTypeOK
  <2>3. CommitAdoption(u)
    BY <2>1, <2>2, CommitStep DEF TargetsNext
  <2>4. PICK t \in TargetIds, req \in SUBSET Requirements :
          targets' = [targets EXCEPT ![t] = [live |-> TRUE, origin |-> adoptions[u].what,
                                             amount |-> adoptions[u].amount,
                                             required |-> req, completed |-> {}]]
    BY <2>3 DEF CommitAdoption
  <2>5. /\ AdoptedFrom(targets, adoptions[u].what) = {}
        /\ adoptions[u].amount = Calculated(RuleOf[adoptions[u].what], basis)
    BY DEF TargetsInv, LoneFindsNone
  <2>6. AdoptedFrom(targets', adoptions[u].what) = {t}
    BY <2>4, <2>5 DEF AdoptedFrom, TargetsInv, TargetsTypeOK
  <2>7. targets'[t].amount = adoptions[u].amount /\ basis' = basis
    BY <2>3, <2>4 DEF CommitAdoption, TargetsInv, TargetsTypeOK
  <2> QED BY <2>5, <2>6, <2>7
<1> QED BY <1>1, TargetsInvariant, PTL DEF TargetsSpec, LoneAdoptionIsExact

-----------------------------------------------------------------------------
(***************************************************************************)
(* The household and its profile: a writer that nobody has overtaken still *)
(* holds the profile as it is, or still finds no household; what a PUT     *)
(* expected of the revision was true of the profile it has read; and a     *)
(* profile that has been read never goes away.                             *)
(***************************************************************************)
LoneWritersAreCurrent ==
  \A w \in Writers :
    /\ writers[w] \in Put => /\ Accepted(writers[w].seen, writers[w].expected)
                             /\ writers[w].seen # NoProfile => profile # NoProfile
    /\ writers[w] \in Put /\ writers[w].alone => writers[w].seen = profile
    /\ writers[w] \in Creation /\ writers[w].alone => households = {}

ProfilesInv == ProfilesTypeOK /\ DOMAIN writers = Writers /\ LoneWritersAreCurrent

\* A PUT and a creation are told apart by their fields.
LEMMA PutForm ==
  ASSUME NEW c \in Put
  PROVE  /\ "sent" \in DOMAIN c /\ DOMAIN c # {"alone"} /\ c # NotWriting /\ c \notin Creation
         /\ [c EXCEPT !.alone = FALSE] \in Put
         /\ ~[c EXCEPT !.alone = FALSE].alone
         /\ [c EXCEPT !.alone = FALSE].seen = c.seen
         /\ [c EXCEPT !.alone = FALSE].expected = c.expected
<1>1. DOMAIN c = {"seen", "sent", "expected", "alone"}
  BY DEF Put
<1>2. c # NotWriting
  BY <1>1 DEF NotWriting
<1>3. c \notin Creation
  BY <1>1 DEF Creation
<1> DEFINE d == [c EXCEPT !.alone = FALSE]
<1>4. d \in Put
  BY DEF Put
<1>5. ~d.alone
  BY <1>1
<1>6. d.seen = c.seen /\ d.expected = c.expected
  BY DEF Put
<1> QED BY <1>1, <1>2, <1>3, <1>4, <1>5, <1>6

LEMMA CreationForm ==
  ASSUME NEW c \in Creation
  PROVE  /\ "sent" \notin DOMAIN c /\ DOMAIN c = {"alone"} /\ c # NotWriting /\ c \notin Put
         /\ [c EXCEPT !.alone = FALSE] \in Creation
         /\ ~[c EXCEPT !.alone = FALSE].alone
<1>1. DOMAIN c = {"alone"}
  BY DEF Creation
<1>2. c # NotWriting
  BY <1>1 DEF NotWriting
<1>3. c \notin Put
  BY <1>1 DEF Put
<1> QED BY <1>1, <1>2, <1>3 DEF Creation

LEMMA WriterForm ==
  ASSUME ProfilesTypeOK, NEW w \in Writers
  PROVE  /\ writers[w] = NotWriting \/ writers[w] \in Put \/ writers[w] \in Creation
         /\ Puts(w) <=> writers[w] \in Put
         /\ Creates(w) <=> writers[w] \in Creation
<1>1. DOMAIN NotWriting = {}
  BY DEF NotWriting
<1> QED BY <1>1, PutForm, CreationForm DEF ProfilesTypeOK, Puts, Creates

\* Whoever commits leaves every other writer overtaken.
LEMMA CommitOvertakes ==
  ASSUME ProfilesInv, NEW w \in Writers, WriterCommits(w),
         households' \subseteq Houses, profile' \in Profile \cup {NoProfile},
         profile # NoProfile => profile' # NoProfile
  PROVE  ProfilesInv'
<1>1. ASSUME NEW v \in Writers
      PROVE  /\ writers'[v] = NotWriting \/ writers'[v] \in Put \/ writers'[v] \in Creation
             /\ writers'[v] \in Put =>
                  /\ Accepted(writers'[v].seen, writers'[v].expected)
                  /\ writers'[v].seen # NoProfile => profile' # NoProfile
                  /\ ~writers'[v].alone
             /\ writers'[v] \in Creation => ~writers'[v].alone
  <2>1. CASE v = w \/ writers[v] = NotWriting
    <3>1. writers'[v] = NotWriting
      BY <2>1 DEF WriterCommits
    <3> QED BY <3>1, PutForm, CreationForm
  <2>2. CASE v # w /\ writers[v] # NotWriting
    <3>1. writers'[v] = [writers[v] EXCEPT !.alone = FALSE]
      BY <2>2 DEF WriterCommits
    <3>2. CASE writers[v] \in Put
      <4>1. /\ Accepted(writers[v].seen, writers[v].expected)
            /\ writers[v].seen # NoProfile => profile # NoProfile
        BY <3>2, Zenon DEF ProfilesInv, LoneWritersAreCurrent
      <4> QED BY <3>1, <3>2, <4>1, PutForm
    <3>3. CASE writers[v] \in Creation
      BY <3>1, <3>3, CreationForm
    <3> QED BY <2>2, <3>2, <3>3, WriterForm DEF ProfilesInv
  <2> QED BY <2>1, <2>2
<1>2. ProfilesTypeOK'
  BY <1>1 DEF ProfilesTypeOK
<1>3. LoneWritersAreCurrent'
  BY <1>1 DEF LoneWritersAreCurrent
<1>4. DOMAIN writers' = Writers
  BY DEF WriterCommits
<1> QED BY <1>2, <1>3, <1>4 DEF ProfilesInv

\* The household and the profile stay, and one writer starts or gives up.
LEMMA WriterStep ==
  ASSUME ProfilesInv, NEW w \in Writers, NEW call, WriterStarts(w, call),
         UNCHANGED <<households, profile>>,
         call = NotWriting \/ call \in Put \/ call \in Creation,
         call \in Put => Accepted(call.seen, call.expected) /\ call.seen = profile,
         call \in Creation => households = {}
  PROVE  ProfilesInv'
<1>1. /\ writers'[w] = call /\ \A v \in Writers : v # w => writers'[v] = writers[v]
      /\ DOMAIN writers' = Writers
  BY DEF WriterStarts, ProfilesInv
<1>2. ProfilesTypeOK'
  BY <1>1 DEF ProfilesInv, ProfilesTypeOK
<1>3. LoneWritersAreCurrent'
  BY <1>1 DEF ProfilesInv, LoneWritersAreCurrent
<1> QED BY <1>1, <1>2, <1>3 DEF ProfilesInv

LEMMA ProfilesStepInv ==
  ASSUME ProfilesInv, [ProfilesNext]_profilesVars
  PROVE  ProfilesInv'
<1>0. ProfilesTypeOK /\ profile \in Profile \cup {NoProfile} /\ households \subseteq Houses
  BY DEF ProfilesInv, ProfilesTypeOK
<1>1. CASE UNCHANGED profilesVars
  BY <1>1 DEF profilesVars, ProfilesInv, ProfilesTypeOK, LoneWritersAreCurrent
<1>2. ASSUME NEW w \in Writers, StartCreateHousehold(w) PROVE ProfilesInv'
  <2>1. CASE households = {} /\ WriterStarts(w, [alone |-> TRUE])
    <3>1. [alone |-> TRUE] \in Creation
      BY DEF Creation
    <3> QED BY <1>2, <2>1, <3>1, CreationForm, WriterStep DEF StartCreateHousehold
  <2>2. CASE UNCHANGED writers
    BY <1>2, <2>2 DEF StartCreateHousehold, ProfilesInv, ProfilesTypeOK, LoneWritersAreCurrent
  <2> QED BY <1>2, <2>1, <2>2 DEF StartCreateHousehold
<1>3. ASSUME NEW w \in Writers, CommitHousehold(w) PROVE ProfilesInv'
  BY <1>0, <1>3, CommitOvertakes DEF CommitHousehold
<1>4. ASSUME NEW w \in Writers, StartPut(w) PROVE ProfilesInv'
  <2>1. PICK sent \in Sent, expected \in 0..MaxProfileRevision :
          /\ Accepted(profile, expected)
          /\ WriterStarts(w, [seen |-> profile, sent |-> sent, expected |-> expected,
                              alone |-> TRUE])
    BY <1>4 DEF StartPut
  <2> DEFINE call == [seen |-> profile, sent |-> sent, expected |-> expected, alone |-> TRUE]
  <2>2. expected \in Nat
    BY ProfilesConstants
  <2>3. call \in Put
    BY <1>0, <2>2 DEF Put
  <2>4. call.seen = profile /\ call.expected = expected
    OBVIOUS
  <2> HIDE DEF call
  <2>5. WriterStarts(w, call)
    BY <2>1 DEF call
  <2> QED BY <1>4, <2>1, <2>3, <2>4, <2>5, PutForm, WriterStep DEF StartPut
<1>5. ASSUME NEW w \in Writers, CommitPut(w) PROVE ProfilesInv'
  <2> DEFINE put == writers[w]
  <2>1. /\ put \in Put /\ put.sent.people \in Values /\ put.sent.days \in Values
        /\ put.seen \in Profile \cup {NoProfile} /\ UNCHANGED households
    BY <1>0, <1>5, WriterForm DEF CommitPut, Put, Sent
  <2>2. CASE WriterStarts(w, NotWriting) /\ UNCHANGED profile
    BY <2>1, <2>2, PutForm, CreationForm, WriterStep
  <2>3. CASE /\ profile' = [people |-> put.sent.people, days |-> put.sent.days, revision |-> 1]
             /\ WriterCommits(w)
    <3>1. profile' \in Profile /\ profile' # NoProfile
      BY <2>1, <2>3, ProfilesConstants DEF Profile
    <3> QED BY <1>0, <2>1, <2>3, <3>1, CommitOvertakes
  <2>4. CASE put.seen # NoProfile /\ profile' = Changed(profile, put) /\ WriterCommits(w)
    <3>1. profile # NoProfile
      BY <2>1, <2>4, Zenon DEF ProfilesInv, LoneWritersAreCurrent
    <3>2. put.seen \in Profile /\ profile \in Profile
      BY <1>0, <2>1, <2>4, <3>1
    <3>3. profile' \in Profile /\ profile' # NoProfile
      BY <2>1, <2>4, <3>2, ProfilesConstants DEF Changed, Profile
    <3> QED BY <1>0, <2>1, <2>4, <3>3, CommitOvertakes
  <2> QED BY <1>5, <2>2, <2>3, <2>4 DEF CommitPut
<1> QED BY <1>1, <1>2, <1>3, <1>4, <1>5 DEF ProfilesNext

\* Types, and what a lone writer knows of the household and the profile.
THEOREM ProfilesInvariant == ProfilesSpec => []ProfilesInv
<1>1. ProfilesInit => ProfilesInv
  BY PutForm, CreationForm DEF ProfilesInit, ProfilesInv, ProfilesTypeOK, LoneWritersAreCurrent
<1> QED BY <1>1, ProfilesStepInv, PTL DEF ProfilesSpec

\* A writer is done by its own commit only.
LEMMA OthersGoOn ==
  ASSUME ProfilesInv, NEW v \in Writers, NEW w \in Writers, v # w, writers[w] # NotWriting,
         WriterCommits(v) \/ \E call : WriterStarts(v, call)
  PROVE  writers'[w] # NotWriting
<1>1. CASE WriterCommits(v)
  <2>1. writers'[w] = [writers[w] EXCEPT !.alone = FALSE]
    BY <1>1 DEF WriterCommits
  <2> QED BY <2>1, WriterForm, PutForm, CreationForm DEF ProfilesInv
<1>2. CASE \E call : WriterStarts(v, call)
  BY <1>2 DEF WriterStarts, ProfilesInv
<1> QED BY <1>1, <1>2

LEMMA OwnCommit ==
  ASSUME ProfilesInv, [ProfilesNext]_profilesVars, NEW w \in Writers,
         writers[w] # NotWriting, writers'[w] = NotWriting
  PROVE  CommitHousehold(w) \/ CommitPut(w)
<1>1. PICK v \in Writers : \/ StartCreateHousehold(v) \/ CommitHousehold(v)
                           \/ StartPut(v) \/ CommitPut(v)
  BY DEF ProfilesNext, profilesVars
<1>2. UNCHANGED writers \/ WriterCommits(v) \/ \E call : WriterStarts(v, call)
  BY <1>1 DEF StartCreateHousehold, CommitHousehold, StartPut, CommitPut
<1>3. v = w
  BY <1>2, OthersGoOn
<1> QED BY <1>1, <1>3 DEF StartCreateHousehold, StartPut

\* services.py and planning_services.py: a creation nobody overtakes leaves one
\* household, a PUT nobody overtakes exactly what it sent, on the next revision.
THEOREM HouseholdWritesHold == ProfilesSpec => LoneHouseholdWritesHold
<1> DEFINE Holds(w) ==
      IF Creates(w) THEN Cardinality(households') = 1
      ELSE LET put == writers[w]
           IN  /\ [people |-> profile'.people, days |-> profile'.days] = put.sent
               /\ profile'.revision = IF profile = NoProfile THEN 1 ELSE profile.revision + 1
               /\ put.expected # 0 => profile'.revision = put.expected + 1
<1>1. ASSUME ProfilesInv, [ProfilesNext]_profilesVars, NEW w \in Writers,
             writers[w] # NotWriting, writers'[w] = NotWriting, writers[w].alone
      PROVE  Holds(w)
  <2>1. ProfilesTypeOK
    BY <1>1 DEF ProfilesInv
  <2>2. CASE Creates(w)
    <3>1. households = {}
      BY <1>1, <2>1, <2>2, WriterForm DEF ProfilesInv, LoneWritersAreCurrent
    <3>2. CommitHousehold(w)
      BY <1>1, <2>1, <2>2, OwnCommit, WriterForm, CreationForm DEF CommitPut, Puts
    <3>3. PICK h \in Houses : households' = {h}
      BY <3>1, <3>2 DEF CommitHousehold
    <3> QED BY <2>2, <3>3, FS_Singleton
  <2>3. CASE ~Creates(w)
    <3> DEFINE put == writers[w]
    <3>1. put \in Put /\ CommitPut(w)
      BY <1>1, <2>1, <2>3, OwnCommit, WriterForm DEF CommitHousehold
    <3>2. put.seen = profile /\ Accepted(profile, put.expected)
      BY <1>1, <3>1 DEF ProfilesInv, LoneWritersAreCurrent
    <3>3. /\ put.sent \in Sent /\ put.expected \in Nat
          /\ put.sent = [people |-> put.sent.people, days |-> put.sent.days]
      BY <3>1 DEF Put, Sent
    <3>4. CASE profile = NoProfile
      <4>1. profile' = [people |-> put.sent.people, days |-> put.sent.days, revision |-> 1]
        BY <3>1, <3>2, <3>4 DEF CommitPut
      <4>2. put.expected = 0
        BY <3>2, <3>4 DEF Accepted
      <4> QED BY <2>3, <3>3, <3>4, <4>1, <4>2
    <3>5. CASE profile # NoProfile
      <4>1. profile' = Changed(profile, put)
        BY <3>1, <3>2, <3>5 DEF CommitPut
      <4>2. profile' = [people |-> put.sent.people, days |-> put.sent.days,
                        revision |-> profile.revision + 1]
        BY <3>2, <4>1 DEF Changed
      <4>3. put.expected # 0 => put.expected = profile.revision
        BY <3>2 DEF Accepted
      <4> QED BY <2>3, <3>3, <3>5, <4>2, <4>3
    <3> QED BY <3>4, <3>5
  <2> QED BY <2>2, <2>3
<1>2. ProfilesInv /\ [ProfilesNext]_profilesVars
        => [\A w \in Writers :
              writers[w] # NotWriting /\ writers'[w] = NotWriting /\ writers[w].alone
                => Holds(w)]_profilesVars
  BY <1>1
<1> QED BY <1>2, ProfilesInvariant, PTL DEF ProfilesSpec, LoneHouseholdWritesHold

-----------------------------------------------------------------------------
(***************************************************************************)
(* The notification centre: a sync that nobody has overtaken works on the  *)
(* date of today, every event it is to announce is stored, to be looked up *)
(* or to be added, and none it will add has been stored meanwhile.         *)
(***************************************************************************)
Looks(u) == noteSyncs[u].pc \in {"items", "tasks"} /\ noteSyncs[u].alone

Accounted(u) == notices \cup noteSyncs[u].todo \cup noteSyncs[u].adds

LoneSyncsAccount ==
  \A u \in Readers : Looks(u) =>
    /\ noteSyncs[u].now = today
    /\ noteSyncs[u].adds \cap notices = {}
    /\ Events(Stock, today) \subseteq Accounted(u)
    /\ noteSyncs[u].pc = "tasks" => Events(Chores, today) \subseteq Accounted(u)

NoticesInv == NoticesTypeOK /\ LoneSyncsAccount

LEMMA EventsAreKeys ==
  ASSUME NEW S, NEW day
  PROVE  Events(S, day) \in SUBSET Keys
BY DEF Events

\* Of a sync in flight the rest stays when it is overtaken.
LEMMA OvertakenSync ==
  ASSUME NoticesTypeOK, NEW u \in Readers
  PROVE  /\ NotesOvertaken(u) \in NoteSync
         /\ ~(NotesOvertaken(u).pc \in {"items", "tasks"} /\ NotesOvertaken(u).alone)
         /\ noteSyncs[u].pc # "idle" => NotesOvertaken(u).pc # "idle"
<1>1. noteSyncs[u] \in NoteSync /\ NoNoteSync \in NoteSync
  BY NoticesConstants DEF NoticesTypeOK, NoteSync, NoNoteSync
<1>2. CASE noteSyncs[u].pc = "idle"
  BY <1>1, <1>2 DEF NotesOvertaken, NoNoteSync
<1>3. CASE noteSyncs[u].pc # "idle"
  BY <1>1, <1>3 DEF NotesOvertaken, NoteSync
<1> QED BY <1>2, <1>3

LEMMA EverythingOvertaken ==
  ASSUME NoticesTypeOK, EverySyncOvertaken,
         today' \in 0..MaxToday, dates' \in [Subjects -> Dates \cup {NoDate}],
         moves' \in 0..MaxMoves, UNCHANGED <<notices, dismissed>>
  PROVE  NoticesInv'
<1>1. noteSyncs' \in [Readers -> NoteSync]
  BY OvertakenSync DEF EverySyncOvertaken
<1>2. \A u \in Readers : ~(noteSyncs'[u].pc \in {"items", "tasks"} /\ noteSyncs'[u].alone)
  BY OvertakenSync DEF EverySyncOvertaken
<1> QED BY <1>1, <1>2 DEF NoticesInv, NoticesTypeOK, LoneSyncsAccount, Looks

\* One sync goes on, while the dates and the stored events stay.
LEMMA SyncGoesOn ==
  ASSUME NoticesInv, NEW u \in Readers, NEW sync \in NoteSync,
         noteSyncs' = [noteSyncs EXCEPT ![u] = sync],
         UNCHANGED <<today, dates, moves, notices, dismissed>>,
         sync.pc \in {"items", "tasks"} /\ sync.alone =>
           /\ sync.now = today
           /\ sync.adds \cap notices = {}
           /\ Events(Stock, today) \subseteq notices \cup sync.todo \cup sync.adds
           /\ sync.pc = "tasks"
                => Events(Chores, today) \subseteq notices \cup sync.todo \cup sync.adds
  PROVE  NoticesInv'
<1>1. /\ noteSyncs'[u] = sync /\ noteSyncs' \in [Readers -> NoteSync]
      /\ \A v \in Readers : v # u => noteSyncs'[v] = noteSyncs[v]
  BY DEF NoticesInv, NoticesTypeOK
<1>2. NoticesTypeOK'
  BY <1>1 DEF NoticesInv, NoticesTypeOK
<1>3. UNCHANGED <<Events(Stock, today), Events(Chores, today)>>
  BY DEF Events, KindsOf
<1>4. ASSUME NEW v \in Readers, Looks(v)'
      PROVE  /\ noteSyncs'[v].now = today'
             /\ noteSyncs'[v].adds \cap notices' = {}
             /\ Events(Stock, today)' \subseteq Accounted(v)'
             /\ noteSyncs'[v].pc = "tasks" => Events(Chores, today)' \subseteq Accounted(v)'
  <2>1. CASE v = u
    BY <1>1, <1>3, <1>4, <2>1 DEF Looks, Accounted
  <2>2. CASE v # u
    BY <1>1, <1>3, <1>4, <2>2 DEF Looks, Accounted, NoticesInv, LoneSyncsAccount
  <2> QED BY <2>1, <2>2
<1> QED BY <1>2, <1>4 DEF NoticesInv, LoneSyncsAccount

LEMMA NoticesStepInv ==
  ASSUME NoticesInv, [NoticesNext]_noticesVars
  PROVE  NoticesInv'
<1>0. /\ NoticesTypeOK /\ today \in 0..MaxToday /\ MaxToday \in Nat /\ MaxMoves \in Nat
      /\ moves \in 0..MaxMoves /\ dates \in [Subjects -> Dates \cup {NoDate}]
      /\ \A u \in Readers : noteSyncs[u] \in NoteSync
  BY NoticesConstants DEF NoticesInv, NoticesTypeOK
<1>1. CASE UNCHANGED noticesVars
  BY <1>1 DEF noticesVars, NoticesInv, NoticesTypeOK, LoneSyncsAccount, Looks, Accounted,
              Events, KindsOf
<1>2. CASE DayPasses
  <2>1. today' \in 0..MaxToday
    BY <1>0, <1>2 DEF DayPasses
  <2> QED BY <1>0, <1>2, <2>1, EverythingOvertaken DEF DayPasses
<1>3. CASE DateMoves
  <2>1. moves' \in 0..MaxMoves /\ dates' \in [Subjects -> Dates \cup {NoDate}]
    BY <1>0, <1>3 DEF DateMoves
  <2> QED BY <1>0, <1>3, <2>1, EverythingOvertaken DEF DateMoves
<1>4. CASE Dismiss
  BY <1>4 DEF Dismiss, NoticesInv, NoticesTypeOK, LoneSyncsAccount, Looks, Accounted,
              Events, KindsOf
<1>5. ASSUME NEW u \in Readers, StartNoteSync(u) PROVE NoticesInv'
  <2> DEFINE sync == [NoNoteSync EXCEPT !.pc = "items", !.now = today,
                                        !.todo = Events(Stock, today)]
  <2>1. /\ sync \in NoteSync /\ sync.pc = "items" /\ sync.now = today
        /\ sync.todo = Events(Stock, today) /\ sync.adds = {}
    BY <1>0, EventsAreKeys DEF NoteSync, NoNoteSync
  <2>2. noteSyncs' = [noteSyncs EXCEPT ![u] = sync]
    BY <1>5 DEF StartNoteSync
  <2> HIDE DEF sync
  <2>3. /\ sync.now = today /\ sync.adds \cap notices = {} /\ sync.pc # "tasks"
        /\ Events(Stock, today) \subseteq notices \cup sync.todo \cup sync.adds
    BY <2>1
  <2>4. UNCHANGED <<today, dates, moves, notices, dismissed>>
    BY <1>5 DEF StartNoteSync
  <2> QED BY <2>1, <2>2, <2>3, <2>4, SyncGoesOn
<1>6. ASSUME NEW u \in Readers, ReadTasks(u) PROVE NoticesInv'
  <2> DEFINE k == noteSyncs[u]
             sync == [k EXCEPT !.pc = "tasks", !.todo = Events(Chores, k.now)]
  <2>1. /\ sync \in NoteSync /\ sync.pc = "tasks" /\ sync.now = k.now
        /\ sync.todo = Events(Chores, k.now) /\ sync.adds = k.adds
    BY <1>0, EventsAreKeys DEF NoteSync
  <2>2. sync.alone <=> k.alone
    BY <1>0 DEF NoteSync
  <2>3. noteSyncs' = [noteSyncs EXCEPT ![u] = sync] /\ k.pc = "items" /\ k.todo = {}
    BY <1>6 DEF ReadTasks
  <2>4. k.alone => /\ k.now = today /\ k.adds \cap notices = {}
                   /\ Events(Stock, today) \subseteq notices \cup k.adds
    BY <2>3 DEF NoticesInv, LoneSyncsAccount, Looks, Accounted
  <2> HIDE DEF sync, k
  <2>5. sync.alone =>
          /\ sync.now = today /\ sync.adds \cap notices = {}
          /\ Events(Stock, today) \subseteq notices \cup sync.todo \cup sync.adds
          /\ Events(Chores, today) \subseteq notices \cup sync.todo \cup sync.adds
    BY <2>1, <2>2, <2>4
  <2>6. UNCHANGED <<today, dates, moves, notices, dismissed>>
    BY <1>6 DEF ReadTasks
  <2> QED BY <2>1, <2>3, <2>5, <2>6, SyncGoesOn
<1>7. ASSUME NEW u \in Readers, LookUp(u) PROVE NoticesInv'
  <2> DEFINE k == noteSyncs[u]
  <2>1. PICK e \in k.todo :
          noteSyncs' = [noteSyncs EXCEPT ![u].todo = @ \ {e},
                                         ![u].adds = IF Known(e) THEN @ ELSE @ \cup {e}]
    BY <1>7 DEF LookUp
  <2> DEFINE adds == IF Known(e) THEN k.adds ELSE k.adds \cup {e}
             sync == [k EXCEPT !.todo = k.todo \ {e}, !.adds = adds]
  <2>2. k.todo \in SUBSET Keys /\ adds \in SUBSET Keys
    BY <1>0 DEF NoteSync
  <2>3. noteSyncs' = [noteSyncs EXCEPT ![u] = sync]
    BY <1>0, <2>1 DEF NoteSync, NoticesTypeOK
  <2>4. /\ adds \subseteq k.adds \cup {e} /\ k.adds \subseteq adds
        /\ e \in notices \/ e \in adds
        /\ k.adds \cap notices = {} => adds \cap notices = {}
    BY DEF Known
  <2> HIDE DEF adds
  <2>5. /\ sync \in NoteSync /\ sync.pc = k.pc /\ sync.now = k.now
        /\ sync.todo = k.todo \ {e} /\ sync.adds = adds
    BY <1>0, <2>2 DEF NoteSync
  <2>6. sync.alone <=> k.alone
    BY <1>0 DEF NoteSync
  <2>7. k.pc \in {"items", "tasks"} /\ k.alone =>
          /\ k.now = today /\ k.adds \cap notices = {}
          /\ Events(Stock, today) \subseteq notices \cup k.todo \cup k.adds
          /\ k.pc = "tasks" => Events(Chores, today) \subseteq notices \cup k.todo \cup k.adds
    BY DEF NoticesInv, LoneSyncsAccount, Looks, Accounted
  <2> HIDE DEF sync, k
  <2> QED BY <1>7, <2>3, <2>4, <2>5, <2>6, <2>7, SyncGoesOn DEF LookUp
<1>8. ASSUME NEW u \in Readers, CommitNotes(u) PROVE NoticesInv'
  <2> DEFINE next(v) == CASE v = u -> NoNoteSync
                          [] notices' = notices -> noteSyncs[v]
                          [] OTHER -> NotesOvertaken(v)
  <2>1. noteSyncs' = [v \in Readers |-> next(v)]
    BY <1>8 DEF CommitNotes
  <2>2. NoNoteSync \in NoteSync /\ NoNoteSync.pc = "idle"
    BY <1>0 DEF NoteSync, NoNoteSync
  <2>3. \A v \in Readers : \/ next(v) = NoNoteSync
                           \/ next(v) = NotesOvertaken(v)
                           \/ next(v) = noteSyncs[v] /\ notices' = notices
    OBVIOUS
  <2> HIDE DEF next
  <2>4. noteSyncs' \in [Readers -> NoteSync]
    BY <1>0, <2>1, <2>2, <2>3, OvertakenSync
  <2>5. notices \subseteq notices' /\ notices' \subseteq Keys
    BY <1>0, <1>8 DEF CommitNotes, NoticesTypeOK, NoteSync
  <2>6. NoticesTypeOK'
    BY <1>0, <1>8, <2>4, <2>5 DEF CommitNotes, NoticesTypeOK
  <2>7. \A v \in Readers : Looks(v)' => noteSyncs'[v] = noteSyncs[v] /\ notices' = notices
    BY <1>0, <2>1, <2>2, <2>3, OvertakenSync DEF Looks
  <2>8. UNCHANGED <<today, dates>>
    BY <1>8 DEF CommitNotes
  <2>9. LoneSyncsAccount'
    BY <2>7, <2>8 DEF NoticesInv, LoneSyncsAccount, Looks, Accounted, Events, KindsOf
  <2> QED BY <2>6, <2>9 DEF NoticesInv
<1> QED BY <1>1, <1>2, <1>3, <1>4, <1>5, <1>6, <1>7, <1>8 DEF NoticesNext

\* Types, and what a lone sync of the centre knows.
THEOREM NoticesInvariant == NoticesSpec => []NoticesInv
<1>1. NoticesInit => NoticesInv
  BY NoticesConstants
     DEF NoticesInit, NoticesInv, NoticesTypeOK, LoneSyncsAccount, Looks, NoteSync, NoNoteSync
<1> QED BY <1>1, NoticesStepInv, PTL DEF NoticesSpec

\* A sync ends by its own commit, which stores all it has found if it is alone.
LEMMA LoneSyncCommits ==
  ASSUME NoticesInv, [NoticesNext]_noticesVars, NEW u \in Readers, LoneNoteSyncEnds(u)
  PROVE  /\ CommitNotes(u)
         /\ notices' = notices \cup noteSyncs[u].adds
         /\ noteSyncs[u].adds \cap notices = {}
         /\ Events(Subjects, today) \subseteq notices'
<1>0. NoticesTypeOK /\ noteSyncs \in [Readers -> NoteSync]
  BY DEF NoticesInv, NoticesTypeOK
<1>1. noteSyncs[u].pc = "tasks" /\ noteSyncs'[u].pc = "idle" /\ Looks(u)
  BY DEF LoneNoteSyncEnds, Looks
<1>2. ~EverySyncOvertaken /\ ~UNCHANGED noteSyncs
  BY <1>0, <1>1, OvertakenSync DEF EverySyncOvertaken
<1>3. PICK v \in Readers : \/ StartNoteSync(v) \/ ReadTasks(v) \/ LookUp(v) \/ CommitNotes(v)
  BY <1>2 DEF NoticesNext, DayPasses, DateMoves, Dismiss, noticesVars
<1>4. ~StartNoteSync(v) /\ ~ReadTasks(v)
  BY <1>0, <1>1 DEF StartNoteSync, ReadTasks, NoteSync
<1>5. ~LookUp(v)
  BY <1>0, <1>1 DEF LookUp, NoteSync
<1>6. CommitNotes(u)
  BY <1>0, <1>1, <1>3, <1>4, <1>5, OvertakenSync DEF CommitNotes
<1>7. /\ noteSyncs[u].adds \cap notices = {} /\ noteSyncs[u].todo = {}
      /\ Events(Stock, today) \subseteq notices \cup noteSyncs[u].adds
      /\ Events(Chores, today) \subseteq notices \cup noteSyncs[u].adds
  BY <1>1, <1>6 DEF NoticesInv, LoneSyncsAccount, Accounted, CommitNotes
<1>8. Events(Subjects, today) \subseteq Events(Stock, today) \cup Events(Chores, today)
  BY DEF Events, Subjects
<1>9. notices' = notices \cup noteSyncs[u].adds
  BY <1>6, <1>7 DEF CommitNotes
<1> QED BY <1>6, <1>7, <1>8, <1>9

\* operations.py sync_household: fetching the centre fails only when another sync
\* has stored the same event in between.
THEOREM NoteSyncSucceeds == NoticesSpec => LoneNoteSyncSucceeds
<1>1. NoticesInv /\ [NoticesNext]_noticesVars
        => [\A u \in Readers : LoneNoteSyncEnds(u)
              => noteSyncs[u].adds \subseteq notices' \ notices]_noticesVars
  BY LoneSyncCommits
<1> QED BY <1>1, NoticesInvariant, PTL DEF NoticesSpec, LoneNoteSyncSucceeds

\* The event of a subject, told from its date, is one of those a sync derives.
LEMMA DerivedEvent ==
  ASSUME NoticesTypeOK, NEW s \in Subjects, dates[s] # NoDate, NEW kind \in KindsOf(s, today)
  PROVE  <<kind, s, dates[s]>> \in Events(Subjects, today)
<1>1. dates[s] \in Dates
  BY DEF NoticesTypeOK
<1>2. kind \in Kinds
  BY DEF KindsOf, Kinds
<1> DEFINE k == <<kind, s, dates[s]>>
<1>3. k \in Keys /\ k[1] = kind /\ k[2] = s /\ k[3] = dates[s]
  BY <1>1, <1>2 DEF Keys
<1> HIDE DEF k
<1>4. k \in Events(Subjects, today)
  BY <1>3 DEF Events
<1> QED BY <1>4 DEF k

LEMMA DerivedIsOught ==
  ASSUME NoticesTypeOK, NEW table, Events(Subjects, today) \subseteq table, NEW s \in Subjects
  PROVE  OughtToKnow(table, s)
<1> SUFFICES ASSUME dates[s] # NoDate PROVE OughtToKnow(table, s)
  BY DEF OughtToKnow
<1>1. /\ dates[s] \in Nat /\ today \in Nat /\ Soon \in Nat /\ Lead \in Nat
  BY NoticesConstants DEF NoticesTypeOK, Dates
<1>2. \A kind \in KindsOf(s, today) : <<kind, s, dates[s]>> \in table
  BY DerivedEvent
<1>3. CASE s \in Stock
  <2>1. dates[s] < today => "inventory_expired" \in KindsOf(s, today)
    BY <1>1, <1>3 DEF KindsOf
  <2>2. dates[s] \in today..(today + Soon) => "inventory_expiring" \in KindsOf(s, today)
    BY <1>1, <1>3 DEF KindsOf
  <2> QED BY <1>2, <1>3, <2>1, <2>2 DEF OughtToKnow
<1>4. CASE s \notin Stock
  <2>1. dates[s] < today => "task_overdue" \in KindsOf(s, today)
    BY <1>1, <1>4 DEF KindsOf
  <2>2. dates[s] = today => "task_due" \in KindsOf(s, today)
    BY <1>1, <1>4 DEF KindsOf
  <2>3. Lead > 0 /\ dates[s] \in (today + 1)..(today + Lead)
          => "task_reminder" \in KindsOf(s, today)
    BY <1>1, <1>4 DEF KindsOf
  <2> QED BY <1>2, <1>4, <2>1, <2>2, <2>3 DEF OughtToKnow
<1> QED BY <1>3, <1>4

\* And after it every item and task has the announcement of its present stage.
THEOREM NoteSyncAnnouncesAll == NoticesSpec => LoneNoteSyncAnnouncesAll
<1>1. ASSUME NoticesInv, [NoticesNext]_noticesVars, NEW u \in Readers, LoneNoteSyncEnds(u),
             NEW s \in Subjects
      PROVE  OughtToKnow(notices', s)
  BY <1>1, LoneSyncCommits, DerivedIsOught DEF NoticesInv
<1>2. NoticesInv /\ [NoticesNext]_noticesVars
        => [\A u \in Readers : LoneNoteSyncEnds(u)
              => \A s \in Subjects : OughtToKnow(notices', s)]_noticesVars
  BY <1>1
<1> QED BY <1>2, NoticesInvariant, PTL DEF NoticesSpec, LoneNoteSyncAnnouncesAll

-----------------------------------------------------------------------------
(***************************************************************************)
(* The shopping list: for a sync that nobody has overtaken, every expired  *)
(* item has an automatic entry, is to be looked up or is to be added, and  *)
(* no item it will add has got an entry meanwhile.                         *)
(***************************************************************************)
Syncing(u) == syncs[u].pc = "check" /\ syncs[u].alone

LoneListSyncsKnow ==
  \A u \in Shoppers : Syncing(u) =>
    /\ \A g \in expired : g \in syncs[u].todo \cup syncs[u].adds \/ SourceExists(g)
    /\ \A g \in syncs[u].adds : ~SourceExists(g)

ShoppingInv == ShoppingTypeOK /\ LoneListSyncsKnow

LEMMA EntryTypes ==
  /\ NoEntry \in Entry /\ NoSync \in ListSync
  /\ \A g \in Goods : /\ Automatic(g) \in Entry
                      /\ Automatic(g).live /\ Automatic(g).source = "inventory_expired"
                      /\ Automatic(g).sourceId = g
<1>1. NoEntry \in Entry /\ NoSync \in ListSync
  BY DEF NoEntry, Entry, Statuses, Sources, NoSync, ListSync
<1>2. ASSUME NEW g \in Goods
      PROVE  /\ Automatic(g) \in Entry
             /\ Automatic(g).live /\ Automatic(g).source = "inventory_expired"
             /\ Automatic(g).sourceId = g
  BY <1>1 DEF Automatic, Entry, Sources, NoEntry
<1> QED BY <1>1, <1>2

LEMMA OvertakenListSync ==
  ASSUME ShoppingTypeOK, NEW u \in Shoppers
  PROVE  /\ Overtaken(u) \in ListSync
         /\ ~(Overtaken(u).pc = "check" /\ Overtaken(u).alone)
         /\ syncs[u].pc # "idle" => Overtaken(u).pc # "idle"
<1>1. syncs[u] \in ListSync
  BY DEF ShoppingTypeOK
<1>2. CASE syncs[u].pc = "idle"
  BY <1>2, EntryTypes DEF Overtaken, NoSync
<1>3. CASE syncs[u].pc # "idle"
  BY <1>1, <1>3 DEF Overtaken, ListSync
<1> QED BY <1>2, <1>3

\* Each change of the items or the list overtakes all the syncs in flight.
LEMMA ListChanges ==
  ASSUME ShoppingTypeOK, OthersOvertaken, expired' \subseteq Goods, entries' \in [Entries -> Entry]
  PROVE  ShoppingInv' /\ \A u \in Shoppers : ~Syncing(u)'
<1>1. syncs' \in [Shoppers -> ListSync]
  BY OvertakenListSync DEF OthersOvertaken
<1>2. \A u \in Shoppers : ~Syncing(u)'
  BY OvertakenListSync DEF OthersOvertaken, Syncing
<1> QED BY <1>1, <1>2 DEF ShoppingInv, ShoppingTypeOK, LoneListSyncsKnow

\* Every edit by a client leaves a well-formed list.
LEMMA ClientEdits ==
  ASSUME ShoppingTypeOK, GoodsChange \/ CreateEntry \/ EditEntry \/ DeleteEntry
  PROVE  OthersOvertaken /\ expired' \subseteq Goods /\ entries' \in [Entries -> Entry]
<1>0. entries \in [Entries -> Entry] /\ expired \subseteq Goods
  BY DEF ShoppingTypeOK
<1>1. CASE GoodsChange
  BY <1>0, <1>1 DEF GoodsChange
<1>2. CASE CreateEntry
  <2>1. PICK e \in FreeEntries, s \in Statuses, src \in Sources, id \in Goods \cup {Nil} :
          entries' = [entries EXCEPT ![e] =
                        [live |-> TRUE, source |-> src, sourceId |-> id, status |-> s,
                         legacyId |-> LegacyId(src, id)]]
    BY <1>2 DEF CreateEntry
  <2>2. LegacyId(src, id) \in Goods \cup {Nil}
    BY DEF LegacyId
  <2>3. [live |-> TRUE, source |-> src, sourceId |-> id, status |-> s,
         legacyId |-> LegacyId(src, id)] \in Entry
    BY <2>2 DEF Entry
  <2> QED BY <1>0, <1>2, <2>1, <2>3 DEF CreateEntry
<1>3. CASE EditEntry
  <2>1. PICK e \in LiveEntries, s \in Statuses \cup {Unset}, src \in Sources \cup {Unset},
             id \in Goods \cup {Nil, Unset} :
          entries' = [entries EXCEPT ![e] = Edited(entries[e], s, src, id)]
    BY <1>3 DEF EditEntry
  <2> DEFINE row == entries[e]
             source == IF src = Unset THEN row.source ELSE src
             status == IF s = Unset THEN row.status ELSE s
             sourceId == IF id = Unset THEN row.sourceId ELSE id
             legacyId == IF id = Unset THEN row.legacyId ELSE LegacyId(source, id)
  <2>2. row \in Entry
    BY <1>0 DEF LiveEntries
  <2>3. source \in Sources /\ status \in Statuses /\ sourceId \in Goods \cup {Nil}
    BY <2>2 DEF Entry
  <2>4. legacyId \in Goods \cup {Nil}
    BY <2>2 DEF Entry, LegacyId
  <2>5. Edited(row, s, src, id) =
          [row EXCEPT !.status = status, !.source = source, !.sourceId = sourceId,
                      !.legacyId = legacyId]
    BY DEF Edited
  <2> HIDE DEF source, status, sourceId, legacyId
  <2>6. Edited(row, s, src, id) \in Entry
    BY <2>2, <2>3, <2>4, <2>5 DEF Entry
  <2> QED BY <1>0, <1>3, <2>1, <2>6 DEF EditEntry
<1>4. CASE DeleteEntry
  BY <1>0, <1>4, EntryTypes DEF DeleteEntry
<1> QED BY <1>1, <1>2, <1>3, <1>4

\* One sync goes on, while the items and the list stay.
LEMMA ListSyncGoesOn ==
  ASSUME ShoppingInv, NEW u \in Shoppers, NEW sync \in ListSync,
         syncs' = [syncs EXCEPT ![u] = sync], UNCHANGED <<expired, entries>>,
         sync.pc = "check" /\ sync.alone =>
           /\ \A g \in expired : g \in sync.todo \cup sync.adds \/ SourceExists(g)
           /\ \A g \in sync.adds : ~SourceExists(g)
  PROVE  ShoppingInv'
<1>1. /\ syncs'[u] = sync /\ syncs' \in [Shoppers -> ListSync]
      /\ \A v \in Shoppers : v # u => syncs'[v] = syncs[v]
  BY DEF ShoppingInv, ShoppingTypeOK
<1>2. \A g : SourceExists(g)' <=> SourceExists(g)
  BY DEF SourceExists, LiveEntries
<1>3. ASSUME NEW v \in Shoppers, Syncing(v)'
      PROVE  /\ \A g \in expired' : g \in syncs'[v].todo \cup syncs'[v].adds \/ SourceExists(g)'
             /\ \A g \in syncs'[v].adds : ~SourceExists(g)'
  <2>1. CASE v = u
    BY <1>1, <1>2, <1>3, <2>1 DEF Syncing
  <2>2. CASE v # u
    BY <1>1, <1>2, <1>3, <2>2 DEF Syncing, ShoppingInv, LoneListSyncsKnow
  <2> QED BY <2>1, <2>2
<1> QED BY <1>1, <1>3 DEF ShoppingInv, ShoppingTypeOK, LoneListSyncsKnow

\* A commit puts one automatic entry for each item it adds into a free row.
LEMMA ListCommit ==
  ASSUME ShoppingTypeOK, NEW u \in Shoppers, CommitListSync(u)
  PROVE  /\ \E id \in [syncs[u].adds -> FreeEntries] :
              /\ \A g, h \in syncs[u].adds : id[g] = id[h] => g = h
              /\ \A g \in syncs[u].adds : entries'[id[g]] = Automatic(g)
              /\ \A e \in Entries : (\A g \in syncs[u].adds : id[g] # e)
                                      => entries'[e] = entries[e]
         /\ entries' \in [Entries -> Entry]
         /\ syncs[u].adds = {} => entries' = entries
<1> DEFINE adds == syncs[u].adds
<1>0. adds \subseteq Goods /\ entries \in [Entries -> Entry] /\ FreeEntries \subseteq Entries
  BY DEF ShoppingTypeOK, ListSync, FreeEntries
<1>1. PICK id \in [adds -> FreeEntries] :
        /\ \A g, h \in adds : id[g] = id[h] => g = h
        /\ entries' = [e \in Entries |-> IF \E g \in adds : id[g] = e
                                            THEN Automatic(CHOOSE g \in adds : id[g] = e)
                                            ELSE entries[e]]
  BY DEF CommitListSync
<1> HIDE DEF adds
<1>2. ASSUME NEW g \in adds
      PROVE  id[g] \in Entries /\ entries'[id[g]] = Automatic(g)
  <2>1. id[g] \in Entries
    BY <1>0, <1>1
  <2>2. (CHOOSE h \in adds : id[h] = id[g]) = g
    BY <1>1
  <2> QED BY <1>1, <2>1, <2>2
<1>3. \A e \in Entries : (\A g \in adds : id[g] # e) => entries'[e] = entries[e]
  BY <1>1
<1>4. \A e \in Entries : entries'[e] \in Entry
  <2> SUFFICES ASSUME NEW e \in Entries PROVE entries'[e] \in Entry
    OBVIOUS
  <2>1. CASE \E g \in adds : id[g] = e
    BY <1>0, <1>2, <2>1, EntryTypes
  <2>2. CASE \A g \in adds : id[g] # e
    BY <1>0, <1>3, <2>2
  <2> QED BY <2>1, <2>2
<1>5. entries' \in [Entries -> Entry]
  BY <1>1, <1>4
<1>6. adds = {} => entries' = entries
  BY <1>0, <1>3, <1>5
<1> QED BY <1>1, <1>2, <1>3, <1>5, <1>6 DEF adds

LEMMA ShoppingStepInv ==
  ASSUME ShoppingInv, [ShoppingNext]_shoppingVars
  PROVE  ShoppingInv'
<1>0. /\ ShoppingTypeOK /\ expired \subseteq Goods
      /\ \A u \in Shoppers : syncs[u] \in ListSync
      /\ syncs \in [Shoppers -> ListSync]
  BY DEF ShoppingInv, ShoppingTypeOK
<1>1. CASE UNCHANGED shoppingVars
  BY <1>1 DEF shoppingVars, ShoppingInv, ShoppingTypeOK, LoneListSyncsKnow, Syncing,
              SourceExists, LiveEntries
<1>2. CASE GoodsChange \/ CreateEntry \/ EditEntry \/ DeleteEntry
  BY <1>0, <1>2, ClientEdits, ListChanges
<1>3. ASSUME NEW u \in Shoppers, StartListSync(u) PROVE ShoppingInv'
  <2> DEFINE sync == [NoSync EXCEPT !.pc = "check", !.todo = expired]
  <2>1. sync \in ListSync /\ sync.todo = expired /\ sync.adds = {}
    BY <1>0 DEF ListSync, NoSync
  <2>2. syncs' = [syncs EXCEPT ![u] = sync] /\ UNCHANGED <<expired, entries>>
    BY <1>3 DEF StartListSync
  <2> HIDE DEF sync
  <2> QED BY <2>1, <2>2, ListSyncGoesOn
<1>4. ASSUME NEW u \in Shoppers, CheckSource(u) PROVE ShoppingInv'
  <2> DEFINE k == syncs[u]
  <2>1. PICK g \in k.todo :
          syncs' = [syncs EXCEPT ![u].todo = @ \ {g},
                                 ![u].adds = IF SourceExists(g) THEN @ ELSE @ \cup {g}]
    BY <1>4 DEF CheckSource
  <2> DEFINE adds == IF SourceExists(g) THEN k.adds ELSE k.adds \cup {g}
             sync == [k EXCEPT !.todo = k.todo \ {g}, !.adds = adds]
  <2>2. adds \in SUBSET Goods /\ k.todo \in SUBSET Goods
    BY <1>0 DEF ListSync
  <2>3. syncs' = [syncs EXCEPT ![u] = sync]
    BY <1>0, <2>1 DEF ListSync
  <2>4. /\ k.adds \subseteq adds
        /\ g \in adds \/ SourceExists(g)
        /\ \A h \in adds : h \in k.adds \/ ~SourceExists(h)
    OBVIOUS
  <2> HIDE DEF adds
  <2>5. sync \in ListSync /\ sync.pc = k.pc /\ sync.todo = k.todo \ {g} /\ sync.adds = adds
    BY <1>0, <2>2 DEF ListSync
  <2>6. sync.alone <=> k.alone
    BY <1>0 DEF ListSync
  <2>7. k.pc = "check" /\ k.alone =>
          /\ \A h \in expired : h \in k.todo \cup k.adds \/ SourceExists(h)
          /\ \A h \in k.adds : ~SourceExists(h)
    BY DEF ShoppingInv, LoneListSyncsKnow, Syncing
  <2> HIDE DEF sync, k
  <2>8. UNCHANGED <<expired, entries>>
    BY <1>4 DEF CheckSource
  <2>9. sync.pc = "check" /\ sync.alone =>
          /\ \A h \in expired : h \in sync.todo \cup sync.adds \/ SourceExists(h)
          /\ \A h \in sync.adds : ~SourceExists(h)
    <3> SUFFICES ASSUME sync.pc = "check", sync.alone
                 PROVE  /\ \A h \in expired : h \in sync.todo \cup sync.adds \/ SourceExists(h)
                        /\ \A h \in sync.adds : ~SourceExists(h)
      OBVIOUS
    <3>1. /\ \A h \in expired : h \in k.todo \cup k.adds \/ SourceExists(h)
          /\ \A h \in k.adds : ~SourceExists(h)
      BY <2>5, <2>6, <2>7, Zenon
    <3>2. \A h \in sync.adds : ~SourceExists(h)
      BY <2>4, <2>5, <3>1, Zenon
    <3>3. \A h \in k.todo \cup k.adds : h = g \/ h \in sync.todo \/ h \in sync.adds
      BY <2>4, <2>5
    <3>4. g \in sync.adds \/ SourceExists(g)
      BY <2>4, <2>5, Zenon
    <3> QED BY <3>1, <3>2, <3>3, <3>4, Zenon
  <2> QED BY <2>3, <2>5, <2>8, <2>9, ListSyncGoesOn
<1>5. ASSUME NEW u \in Shoppers, CommitListSync(u) PROVE ShoppingInv'
  <2> DEFINE next(v) == CASE v = u            -> NoSync
                          [] syncs[u].adds = {} -> syncs[v]
                          [] OTHER            -> Overtaken(v)
  <2>1. syncs' = [v \in Shoppers |-> next(v)] /\ UNCHANGED expired
    BY <1>5 DEF CommitListSync
  <2>2. /\ NoSync \in ListSync /\ NoSync.pc = "idle" /\ entries' \in [Entries -> Entry]
        /\ syncs[u].adds = {} => entries' = entries
    BY <1>0, <1>5, EntryTypes, ListCommit DEF NoSync
  <2>3. \A v \in Shoppers : \/ next(v) = NoSync
                            \/ next(v) = Overtaken(v)
                            \/ next(v) = syncs[v] /\ syncs[u].adds = {}
    OBVIOUS
  <2> HIDE DEF next
  <2>4. syncs' \in [Shoppers -> ListSync]
    BY <1>0, <2>1, <2>2, <2>3, OvertakenListSync
  <2>5. ShoppingTypeOK'
    BY <1>0, <2>1, <2>2, <2>4 DEF ShoppingTypeOK
  <2>6. \A v \in Shoppers : Syncing(v)' => syncs'[v] = syncs[v] /\ entries' = entries
    BY <1>0, <2>1, <2>2, <2>3, OvertakenListSync DEF Syncing
  <2>7. LoneListSyncsKnow'
    BY <2>1, <2>6 DEF ShoppingInv, LoneListSyncsKnow, Syncing, SourceExists, LiveEntries
  <2> QED BY <2>5, <2>7 DEF ShoppingInv
<1> QED BY <1>1, <1>2, <1>3, <1>4, <1>5 DEF ShoppingNext

\* Types, and what a lone sync of the list knows.
THEOREM ShoppingInvariant == ShoppingSpec => []ShoppingInv
<1>1. ShoppingInit => ShoppingInv
  BY EntryTypes DEF ShoppingInit, ShoppingInv, ShoppingTypeOK, LoneListSyncsKnow, Syncing, NoSync
<1> QED BY <1>1, ShoppingStepInv, PTL DEF ShoppingSpec

\* A lone sync adds exactly one entry for each item it has found without.
LEMMA LoneListSyncCommits ==
  ASSUME ShoppingInv, [ShoppingNext]_shoppingVars, NEW u \in Shoppers, LoneSyncEnds(u)
  PROVE  /\ \A g \in syncs[u].adds : \E e : AutoEntries(entries', g) = {e}
         /\ \A g \in Goods : g \notin syncs[u].adds
                              => AutoEntries(entries', g) = AutoEntries(entries, g)
         /\ \A g \in expired : g \in syncs[u].adds \/ AutoEntries(entries, g) # {}
<1>0. ShoppingTypeOK /\ syncs \in [Shoppers -> ListSync]
  BY DEF ShoppingInv, ShoppingTypeOK
<1>1. syncs[u].pc = "check" /\ syncs'[u].pc = "idle" /\ Syncing(u)
  BY DEF LoneSyncEnds, Syncing
<1>2. ~OthersOvertaken /\ ~UNCHANGED syncs
  BY <1>0, <1>1, OvertakenListSync DEF OthersOvertaken
<1>3. PICK v \in Shoppers : StartListSync(v) \/ CheckSource(v) \/ CommitListSync(v)
  BY <1>0, <1>2, ClientEdits DEF ShoppingNext, shoppingVars
<1>4. ~StartListSync(v) /\ ~CheckSource(v)
  BY <1>0, <1>1 DEF StartListSync, CheckSource, ListSync
<1>5. CommitListSync(u)
  BY <1>0, <1>1, <1>3, <1>4, OvertakenListSync DEF CommitListSync
<1> DEFINE adds == syncs[u].adds
<1>6. PICK id \in [adds -> FreeEntries] :
        /\ \A g, h \in adds : id[g] = id[h] => g = h
        /\ \A g \in adds : entries'[id[g]] = Automatic(g)
        /\ \A e \in Entries : (\A g \in adds : id[g] # e) => entries'[e] = entries[e]
  BY <1>0, <1>5, ListCommit
<1>7. /\ adds \subseteq Goods /\ syncs[u].todo = {}
      /\ \A g \in expired : g \in adds \/ SourceExists(g)
      /\ \A g \in adds : ~SourceExists(g)
  BY <1>0, <1>1, <1>5 DEF ListSync, ShoppingInv, LoneListSyncsKnow, CommitListSync
<1> HIDE DEF adds
<1>8. \A g : SourceExists(g) <=> AutoEntries(entries, g) # {}
  BY DEF SourceExists, AutoEntries, LiveEntries
<1>9. \A g \in adds : id[g] \in Entries /\ ~entries[id[g]].live
  BY <1>6 DEF FreeEntries, LiveEntries
<1>10. ASSUME NEW g \in adds
       PROVE  AutoEntries(entries', g) = {id[g]}
  <2>1. id[g] \in AutoEntries(entries', g)
    BY <1>6, <1>7, <1>9, EntryTypes DEF AutoEntries
  <2>2. ASSUME NEW e \in AutoEntries(entries', g)
        PROVE  e = id[g]
    <3>1. CASE \E h \in adds : id[h] = e
      BY <1>6, <1>7, <2>2, <3>1, EntryTypes DEF AutoEntries
    <3>2. CASE \A h \in adds : id[h] # e
      BY <1>6, <1>7, <1>8, <2>2, <3>2 DEF AutoEntries
    <3> QED BY <3>1, <3>2
  <2> QED BY <2>1, <2>2
<1>11. ASSUME NEW g \in Goods, g \notin adds
       PROVE  AutoEntries(entries', g) = AutoEntries(entries, g)
  <2>1. ASSUME NEW e \in Entries
        PROVE  e \in AutoEntries(entries', g) <=> e \in AutoEntries(entries, g)
    <3>1. CASE \E h \in adds : id[h] = e
      BY <1>6, <1>7, <1>9, <1>11, <3>1, EntryTypes DEF AutoEntries
    <3>2. CASE \A h \in adds : id[h] # e
      BY <1>6, <3>2 DEF AutoEntries
    <3> QED BY <3>1, <3>2
  <2> QED BY <2>1 DEF AutoEntries
<1> QED BY <1>7, <1>8, <1>10, <1>11 DEF adds

\* DATA-MODEL.md: automatic entries keep their source so that duplicates can be
\* avoided.  A lone sync adds one entry for an item without any, and none otherwise.
THEOREM SyncAddsOne == ShoppingSpec => SyncAddsNoDuplicate
<1>1. ASSUME ShoppingInv, [ShoppingNext]_shoppingVars, NEW u \in Shoppers, LoneSyncEnds(u),
             NEW g \in Goods, AutoEntries(entries', g) # AutoEntries(entries, g)
      PROVE  Cardinality(AutoEntries(entries', g)) = 1
  BY <1>1, LoneListSyncCommits, FS_Singleton
<1>2. ShoppingInv /\ [ShoppingNext]_shoppingVars
        => [\A u \in Shoppers : LoneSyncEnds(u)
              => \A g \in Goods : AutoEntries(entries', g) # AutoEntries(entries, g)
                                  => Cardinality(AutoEntries(entries', g)) = 1]_shoppingVars
  BY <1>1
<1> QED BY <1>2, ShoppingInvariant, PTL DEF ShoppingSpec, SyncAddsNoDuplicate

\* And it leaves no expired item without an automatic entry.
THEOREM SyncListsAll == ShoppingSpec => SyncListsEveryExpired
<1>1. ASSUME ShoppingInv, [ShoppingNext]_shoppingVars, NEW u \in Shoppers, LoneSyncEnds(u),
             NEW g \in expired
      PROVE  AutoEntries(entries', g) # {}
  <2>1. g \in Goods
    BY <1>1 DEF ShoppingInv, ShoppingTypeOK
  <2> QED BY <1>1, <2>1, LoneListSyncCommits
<1>2. ShoppingInv /\ [ShoppingNext]_shoppingVars
        => [\A u \in Shoppers : LoneSyncEnds(u)
              => \A g \in expired : AutoEntries(entries', g) # {}]_shoppingVars
  BY <1>1
<1> QED BY <1>2, ShoppingInvariant, PTL DEF ShoppingSpec, SyncListsEveryExpired

-----------------------------------------------------------------------------
\* The readiness summary: the records keep their types.
LEMMA ReadinessStepType ==
  ASSUME ReadinessTypeOK, [ReadinessNext]_readinessVars
  PROVE  ReadinessTypeOK'
<1> USE ReadinessConstants DEF ReadinessTypeOK
<1>1. CASE UNCHANGED readinessVars
  BY <1>1 DEF readinessVars
<1>2. CASE DayBreaks
  BY <1>2 DEF DayBreaks
<1>3. CASE SupplyEdited
  <2>1. shelf' \in [Supplies -> [expires : Deadlines, check : Deadlines]]
    BY <1>3 DEF SupplyEdited
  <2> QED BY <1>3, <2>1 DEF SupplyEdited
<1>4. CASE CheckEdited
  <2>1. boxCheck' \in [Boxes -> Deadlines] /\ gearCheck' \in [Gear -> Deadlines]
    BY <1>4 DEF CheckEdited
  <2> QED BY <1>4, <2>1 DEF CheckEdited
<1>5. CASE DutyEdited
  <2>1. duties' \in [Duties -> [enabled : BOOLEAN, due : DueDates]]
    BY <1>5 DEF DutyEdited
  <2> QED BY <1>5, <2>1 DEF DutyEdited
<1>6. CASE GuideEdited
  <2>1. guides' \in [Guides -> [complete : BOOLEAN, review : Deadlines]]
    BY <1>6 DEF GuideEdited
  <2> QED BY <1>6, <2>1 DEF GuideEdited
<1>7. CASE TargetEdited
  BY <1>7 DEF TargetEdited
<1> QED BY <1>1, <1>2, <1>3, <1>4, <1>5, <1>6, <1>7 DEF ReadinessNext, RecordEdited

\* Every edit of a record and every day leave records of their types.
THEOREM ReadinessTyped == ReadinessSpec => []ReadinessTypeOK
<1>1. ReadinessInit => ReadinessTypeOK
  BY ReadinessConstants DEF ReadinessInit, ReadinessTypeOK, Deadlines, DueDates, Plenty
<1> QED BY <1>1, ReadinessStepType, PTL DEF ReadinessSpec

-----------------------------------------------------------------------------
(***************************************************************************)
(* The readiness summary: rounding and averaging are monotone, so it is    *)
(* enough to compare, area by area, what needs attention.                  *)
(***************************************************************************)
LEMMA DivMod ==
  ASSUME NEW p \in Nat, NEW q \in Nat \ {0}
  PROVE  /\ p \div q \in Nat /\ p % q \in 0..(q - 1)
         /\ p = (p \div q) * q + (p % q)
OBVIOUS

LEMMA TimesMore ==
  ASSUME NEW a \in Nat, NEW b \in Nat, NEW q \in Nat, a < b
  PROVE  a * q \in Nat /\ b * q \in Nat /\ a * q + q <= b * q
OBVIOUS

LEMMA RankOf ==
  Rank["critical"] = 0 /\ Rank["attention"] = 1 /\ Rank["ok"] = 2
BY DEF Rank

\* Python's rounding is monotone, between 0 and 100 for a share of 100.
LEMMA HalfEvenIs ==
  ASSUME NEW p \in Nat, NEW q \in Nat \ {0}
  PROVE  /\ HalfEven(p, q) \in Nat
         /\ HalfEven(p, q) =
              IF 2 * (p % q) > q \/ (2 * (p % q) = q /\ (p \div q) % 2 = 1)
                THEN (p \div q) + 1 ELSE p \div q
<1>1. HalfEven(p, q) =
              IF 2 * (p % q) > q \/ (2 * (p % q) = q /\ (p \div q) % 2 = 1)
                THEN (p \div q) + 1 ELSE p \div q
  BY DEF HalfEven
<1>2. (p \div q) \in Nat
  BY DivMod
<1> DEFINE f == p \div q
           r == p % q
<1>3. f \in Nat /\ HalfEven(p, q) = IF 2 * r > q \/ (2 * r = q /\ f % 2 = 1) THEN f + 1 ELSE f
  BY <1>1, <1>2
<1> HIDE DEF f, r
<1>4. HalfEven(p, q) \in Nat
  BY <1>3
<1> QED BY <1>1, <1>4

\* Python's round of a quotient: the nearest whole number and, of two that are equally
\* near, the even one.  It is the reference that HalfEven computes.
THEOREM RoundIsNearest ==
  ASSUME NEW p \in Nat, NEW q \in Nat \ {0}
  PROVE  LET h == HalfEven(p, q)
         IN  /\ 2 * (h * q) <= 2 * p + q /\ 2 * p <= 2 * (h * q) + q
             /\ 2 * (h * q) = 2 * p + q \/ 2 * p = 2 * (h * q) + q => h % 2 = 0
<1> DEFINE f == p \div q
           r == p % q
           h == HalfEven(p, q)
<1>1. f \in Nat /\ r \in 0..(q - 1) /\ p = f * q + r
  BY DivMod
<1>2. h = IF 2 * r > q \/ (2 * r = q /\ f % 2 = 1) THEN f + 1 ELSE f
  BY HalfEvenIs
<1> HIDE DEF f, r, h
<1> DEFINE fq == f * q
           hq == h * q
<1>3. /\ fq \in Nat /\ p = fq + r
      /\ h = f => hq = fq
      /\ h = f + 1 => hq = fq + q
  <2>1. (f + 1) * q = f * q + q
    BY <1>1
  <2> QED BY <1>1, <2>1
<1>4. hq = IF 2 * r > q \/ (2 * r = q /\ f % 2 = 1) THEN fq + q ELSE fq
  BY <1>2, <1>3
<1> HIDE DEF fq, hq
<1>5. 2 * hq <= 2 * p + q /\ 2 * p <= 2 * hq + q
  BY <1>1, <1>3, <1>4
<1>6. 2 * hq = 2 * p + q \/ 2 * p = 2 * hq + q => 2 * r = q
  BY <1>1, <1>3, <1>4
<1>7. 2 * r = q => h % 2 = 0
  BY <1>1, <1>2
<1> QED BY <1>5, <1>6, <1>7 DEF h, hq

LEMMA HalfEvenGrows ==
  ASSUME NEW a \in Nat, NEW b \in Nat, NEW q \in Nat \ {0}, a <= b
  PROVE  HalfEven(a, q) <= HalfEven(b, q)
<1> DEFINE f == a \div q
           g == b \div q
           r == a % q
           s == b % q
<1>1. /\ f \in Nat /\ g \in Nat /\ r \in 0..(q - 1) /\ s \in 0..(q - 1)
      /\ a = f * q + r /\ b = g * q + s
  BY DivMod
<1>2. /\ HalfEven(a, q) = IF 2 * r > q \/ (2 * r = q /\ f % 2 = 1) THEN f + 1 ELSE f
      /\ HalfEven(b, q) = IF 2 * s > q \/ (2 * s = q /\ g % 2 = 1) THEN g + 1 ELSE g
  BY HalfEvenIs
<1> HIDE DEF f, g, r, s
<1> DEFINE fq == f * q
           gq == g * q
<1>3. fq \in Nat /\ gq \in Nat /\ (g < f => gq + q <= fq)
  BY <1>1, TimesMore
<1>4. a = fq + r /\ b = gq + s
  BY <1>1
<1> HIDE DEF fq, gq
<1>5. ~(g < f)
  BY <1>1, <1>3, <1>4
<1>6. CASE f < g
  <2>1. HalfEven(a, q) <= f + 1 /\ g <= HalfEven(b, q)
    BY <1>1, <1>2
  <2> QED BY <1>1, <1>2, <1>6, <2>1
<1>7. CASE f = g
  <2>1. r <= s
    BY <1>1, <1>3, <1>4, <1>7 DEF fq, gq
  <2> QED BY <1>1, <1>2, <1>7, <2>1
<1> QED BY <1>1, <1>5, <1>6, <1>7

LEMMA WholeShare ==
  ASSUME NEW n \in Nat \ {0}, NEW c \in Nat
  PROVE  HalfEven(c * n, n) = c
<1> DEFINE f == (c * n) \div n
           r == (c * n) % n
           cn == c * n
           fn == f * n
<1>1. cn \in Nat
  OBVIOUS
<1>2. f \in Nat /\ r \in 0..(n - 1) /\ cn = fn + r
  BY <1>1, DivMod
<1>3. HalfEven(cn, n) = IF 2 * r > n \/ (2 * r = n /\ f % 2 = 1) THEN f + 1 ELSE f
  BY <1>1, HalfEvenIs
<1> HIDE DEF f, r
<1>4. fn \in Nat /\ (f < c => fn + n <= cn) /\ (c < f => cn + n <= fn)
  BY <1>2, TimesMore
<1> HIDE DEF cn, fn
<1>5. f = c
  BY <1>1, <1>2, <1>4
<1>6. r = 0
  BY <1>1, <1>2, <1>4, <1>5 DEF cn, fn
<1> QED BY <1>2, <1>3, <1>5, <1>6 DEF cn

-----------------------------------------------------------------------------
LEMMA AreaScoreGrows ==
  ASSUME NEW T, IsFiniteSet(T), NEW A \in SUBSET T, NEW B \in SUBSET T, A \subseteq B
  PROVE  /\ AreaScore(T, A) \in NoScore..100 /\ AreaScore(T, B) \in NoScore..100
         /\ AreaScore(T, B) <= AreaScore(T, A)
         /\ AreaScore(T, A) = NoScore <=> AreaScore(T, B) = NoScore
<1> DEFINE n == Cardinality(T)
           a == Cardinality(A)
           b == Cardinality(B)
<1>1. n \in Nat /\ a \in Nat /\ b \in Nat /\ a <= b /\ b <= n
  <2>1. IsFiniteSet(A) /\ IsFiniteSet(B)
    BY FS_Subset
  <2> QED BY <2>1, FS_Subset, FS_CardinalityType
<1>2. /\ AreaScore(T, A) = IF n = 0 THEN NoScore ELSE HalfEven(100 * (n - a), n)
      /\ AreaScore(T, B) = IF n = 0 THEN NoScore ELSE HalfEven(100 * (n - b), n)
  BY DEF AreaScore
<1> HIDE DEF n, a, b
<1>3. CASE n = 0
  BY <1>2, <1>3 DEF NoScore
<1>4. CASE n # 0
  <2> DEFINE pa == 100 * (n - a)
             pb == 100 * (n - b)
             pn == 100 * n
  <2>1. n \in Nat \ {0} /\ pa \in Nat /\ pb \in Nat /\ pn \in Nat /\ pb <= pa /\ pa <= pn
    BY <1>1, <1>4
  <2>2. HalfEven(pn, n) = 100
    BY <2>1, WholeShare
  <2> HIDE DEF pa, pb, pn
  <2>3. /\ HalfEven(pa, n) \in Nat /\ HalfEven(pb, n) \in Nat
        /\ HalfEven(pb, n) <= HalfEven(pa, n) /\ HalfEven(pa, n) <= HalfEven(pn, n)
    BY <2>1, HalfEvenGrows, HalfEvenIs
  <2>4. AreaScore(T, A) = HalfEven(pa, n) /\ AreaScore(T, B) = HalfEven(pb, n)
    BY <1>2, <1>4 DEF pa, pb
  <2> HIDE DEF AreaScore
  <2> QED BY <2>2, <2>3, <2>4 DEF NoScore
<1> QED BY <1>3, <1>4

Scores == [Areas -> NoScore..100]

\* No area of low does better than in high, and the same areas are configured.
Below(low, high) ==
  \A area \in Areas : /\ low[area] <= high[area]
                      /\ low[area] = NoScore <=> high[area] = NoScore

LEMMA AreasAreFinite ==
  ASSUME NEW S \in SUBSET Areas
  PROVE  IsFiniteSet(S) /\ Cardinality(S) \in Nat /\ (S # {} => Cardinality(S) # 0)
<1> DEFINE three == {"inventory"} \cup ({"containers"} \cup {"tasks"})
           others == {"assets"} \cup ({"plans"} \cup {"targets"})
<1>0. /\ \A x : IsFiniteSet({x})
      /\ \A A, B : IsFiniteSet(A) /\ IsFiniteSet(B) => IsFiniteSet(A \cup B)
  BY FS_Singleton, FS_Union, Zenon
<1>1. IsFiniteSet(three) /\ IsFiniteSet(others)
  BY <1>0, Zenon
<1>2. IsFiniteSet(three \cup others) /\ Areas = three \cup others
  <2>1. IsFiniteSet(three \cup others)
    BY <1>0, <1>1, Zenon
  <2> QED BY <2>1 DEF Areas
<1> HIDE DEF three, others
<1>3. IsFiniteSet(S)
  BY <1>1, <1>2, FS_Subset
<1> QED BY <1>3, FS_CardinalityType, FS_EmptySet

LEMMA ScoreGrows ==
  ASSUME NEW low \in Scores, NEW high \in Scores, Below(low, high)
  PROVE  Score(low) \in Nat /\ Score(high) \in Nat /\ Score(low) <= Score(high)
<1> DEFINE counted == Counted(low)
           n == Cardinality(counted)
           LowPoints(area) == IF area \in counted THEN low[area] ELSE 0
           HighPoints(area) == IF area \in counted THEN high[area] ELSE 0
           a == LowPoints("inventory") + LowPoints("containers") + LowPoints("tasks")
                  + LowPoints("assets") + LowPoints("plans") + LowPoints("targets")
           b == HighPoints("inventory") + HighPoints("containers") + HighPoints("tasks")
                  + HighPoints("assets") + HighPoints("plans") + HighPoints("targets")
<1>1. counted \in SUBSET Areas /\ Counted(high) = counted
  BY DEF Counted, Configured, Below
<1>2. /\ Score(low) = IF counted = {} THEN 0 ELSE HalfEven(a, n)
      /\ Score(high) = IF counted = {} THEN 0 ELSE HalfEven(b, n)
  BY <1>1, Zenon DEF Score
<1>3. \A area \in Areas : /\ LowPoints(area) \in Nat /\ HighPoints(area) \in Nat
                          /\ LowPoints(area) <= HighPoints(area)
  BY DEF Scores, Below, Counted, Configured, NoScore
<1>4. {"inventory", "containers", "tasks", "assets", "plans", "targets"} \subseteq Areas
  BY DEF Areas
<1>5. n \in Nat /\ (counted # {} => n # 0)
  BY <1>1, AreasAreFinite
<1> HIDE DEF LowPoints, HighPoints, counted, n
<1>6. a \in Nat /\ b \in Nat /\ a <= b
  BY <1>3, <1>4
<1> HIDE DEF a, b
<1>7. CASE counted = {}
  BY <1>2, <1>7
<1>8. CASE counted # {}
  BY <1>2, <1>5, <1>6, <1>8, HalfEvenIs, HalfEvenGrows
<1> QED BY <1>7, <1>8

LEMMA OverallGrows ==
  ASSUME NEW low \in Scores, NEW high \in Scores, Below(low, high)
  PROVE  Rank[Overall(low, Score(low))] <= Rank[Overall(high, Score(high))]
<1> DEFINE x == Score(low)
           y == Score(high)
           zeroes(s) == \E area \in Configured(s) : s[area] = 0
<1>1. x \in Nat /\ y \in Nat /\ x <= y
  BY ScoreGrows
<1>2. zeroes(high) => zeroes(low)
  BY DEF Scores, Below, Configured, NoScore
<1>3. /\ Overall(low, x) = IF x >= 100 THEN "ok" ELSE IF zeroes(low) THEN "critical" ELSE "attention"
      /\ Overall(high, y) = IF y >= 100 THEN "ok" ELSE IF zeroes(high) THEN "critical" ELSE "attention"
  BY DEF Overall
<1> HIDE DEF x, y, zeroes
<1> QED BY <1>1, <1>2, <1>3, RankOf DEF x, y

\* What each area tracks, and what of it needs attention.
Things == [inventory |-> Supplies, containers |-> Boxes, tasks |-> ActiveDuties,
           assets |-> Gear, plans |-> Guides, targets |-> Aims]

NeedAttention ==
  [inventory  |-> {i \in Supplies : SupplyNeedsAttention(i)},
   containers |-> {b \in Boxes : BoxNeedsAttention(b)},
   tasks      |-> {d \in ActiveDuties : DutyNeedsAttention(d)},
   assets     |-> {g \in Gear : Reached(gearCheck[g])},
   plans      |-> {p \in Guides : GuideNeedsAttention(p)},
   targets    |-> {t \in Aims : TargetStatus(t) # "met"}]

ScoresOf(things, need) ==
  [inventory  |-> AreaScore(things.inventory, need.inventory),
   containers |-> AreaScore(things.containers, need.containers),
   tasks      |-> AreaScore(things.tasks, need.tasks),
   assets     |-> AreaScore(things.assets, need.assets),
   plans      |-> AreaScore(things.plans, need.plans),
   targets    |-> AreaScore(things.targets, need.targets)]

LEMMA AreaScoresAre ==
  AreaScores = ScoresOf(Things, NeedAttention)
BY DEF AreaScores, ScoresOf, Things, NeedAttention

LEMMA ThingsAreFinite ==
  \A area \in Areas : IsFiniteSet(Things[area]) /\ NeedAttention[area] \subseteq Things[area]
<1>1. IsFiniteSet(ActiveDuties)
  BY ReadinessConstants, FS_Subset DEF ActiveDuties
<1>2. IsFiniteSet(Aims)
  <2>1. IsFiniteSet({"needs"} \cup {"amount"})
    BY FS_Singleton, FS_Union, Zenon
  <2>2. Aims = {"needs"} \cup {"amount"}
    BY DEF Aims
  <2> QED BY <2>1, <2>2
<1>3. /\ IsFiniteSet(Supplies) /\ IsFiniteSet(Boxes) /\ IsFiniteSet(Gear)
      /\ IsFiniteSet(Guides)
  BY ReadinessConstants
<1> QED BY <1>1, <1>2, <1>3 DEF Areas, Things, NeedAttention

LEMMA MoreNeedLess ==
  ASSUME NEW things, NEW more, NEW less,
         \A area \in Areas : /\ IsFiniteSet(things[area])
                             /\ more[area] \subseteq things[area]
                             /\ less[area] \subseteq more[area]
  PROVE  /\ ScoresOf(things, more) \in Scores /\ ScoresOf(things, less) \in Scores
         /\ Below(ScoresOf(things, more), ScoresOf(things, less))
<1> DEFINE low == ScoresOf(things, more)
           high == ScoresOf(things, less)
<1>1. ASSUME NEW area \in Areas
      PROVE  /\ low[area] = AreaScore(things[area], more[area])
             /\ high[area] = AreaScore(things[area], less[area])
  BY <1>1 DEF Areas, ScoresOf
<1>2. /\ low = [area \in Areas |-> low[area]]
      /\ high = [area \in Areas |-> high[area]]
  BY DEF Areas, ScoresOf
<1> HIDE DEF low, high
<1>3. ASSUME NEW area \in Areas
      PROVE  /\ low[area] \in NoScore..100 /\ high[area] \in NoScore..100
             /\ low[area] <= high[area]
             /\ low[area] = NoScore <=> high[area] = NoScore
  <2>1. /\ IsFiniteSet(things[area]) /\ more[area] \in SUBSET things[area]
        /\ less[area] \in SUBSET things[area] /\ less[area] \subseteq more[area]
    BY <1>3
  <2> QED BY <1>1, <2>1, AreaScoreGrows
<1> QED BY <1>2, <1>3 DEF Scores, Below, low, high

LEMMA SummaryIs ==
  ASSUME AreaScores \in Scores
  PROVE  Summary = [score |-> Score(AreaScores),
                    overall |-> Overall(AreaScores, Score(AreaScores)),
                    targets |-> TargetsOverall, tasks |-> TasksOverall]
BY Zenon DEF Summary, Scores

LEMMA Compare ==
  ASSUME NEW low \in Scores, NEW high \in Scores, Below(low, high),
         NEW lowTargets, NEW highTargets, Rank[lowTargets] <= Rank[highTargets],
         NEW lowTasks, NEW highTasks, Rank[lowTasks] <= Rank[highTasks]
  PROVE  NoBetter([score |-> Score(low), overall |-> Overall(low, Score(low)),
                   targets |-> lowTargets, tasks |-> lowTasks],
                  [score |-> Score(high), overall |-> Overall(high, Score(high)),
                   targets |-> highTargets, tasks |-> highTasks])
BY ScoreGrows, OverallGrows DEF NoBetter

\* The statuses by what makes them so.
LEMMA RankOfTasks ==
  Rank[TasksOverall] =
    IF \E d \in Duties : DutyStatus(d) = "overdue" THEN 0
    ELSE IF \E d \in Duties : DutyNeedsAttention(d) THEN 1 ELSE 2
BY RankOf, Zenon DEF TasksOverall, DutyNeedsAttention

LEMMA RankOfTargets ==
  Rank[TargetsOverall] =
    IF \E t \in Aims : TargetStatus(t) = "below_minimum" THEN 0
    ELSE IF \E t \in Aims : TargetStatus(t) # "met" THEN 1 ELSE 2
BY RankOf, Zenon DEF TargetsOverall

\* The same in the next state.
LEMMA NextSummary ==
  /\ (AreaScores = ScoresOf(Things, NeedAttention))'
  /\ (\A area \in Areas : IsFiniteSet(Things[area]) /\ NeedAttention[area] \subseteq Things[area])'
  /\ (AreaScores \in Scores)'
       => (Summary = [score |-> Score(AreaScores),
                      overall |-> Overall(AreaScores, Score(AreaScores)),
                      targets |-> TargetsOverall, tasks |-> TasksOverall])'
<1>1. (AreaScores = ScoresOf(Things, NeedAttention))'
  BY AreaScoresAre, PTL
<1>2. (\A area \in Areas : IsFiniteSet(Things[area]) /\ NeedAttention[area] \subseteq Things[area])'
  BY ThingsAreFinite, PTL
<1>3. AreaScores \in Scores
        => Summary = [score |-> Score(AreaScores),
                      overall |-> Overall(AreaScores, Score(AreaScores)),
                      targets |-> TargetsOverall, tasks |-> TasksOverall]
  BY SummaryIs
<1>4. (AreaScores \in Scores)'
       => (Summary = [score |-> Score(AreaScores),
                      overall |-> Overall(AreaScores, Score(AreaScores)),
                      targets |-> TargetsOverall, tasks |-> TasksOverall])'
  BY <1>3, PTL
<1> QED BY <1>1, <1>2, <1>4

\* When more needs attention afterwards and no status is better, the summary is
\* no better; when less does and none is worse, it is no worse.
LEMMA SummariesCompare ==
  ASSUME ActiveDuties' = ActiveDuties
  PROVE  /\ /\ \A area \in Areas : NeedAttention[area] \subseteq NeedAttention'[area]
            /\ Rank[TargetsOverall'] <= Rank[TargetsOverall]
            /\ Rank[TasksOverall'] <= Rank[TasksOverall]
            => NoBetter(Summary', Summary)
         /\ /\ \A area \in Areas : NeedAttention'[area] \subseteq NeedAttention[area]
            /\ Rank[TargetsOverall] <= Rank[TargetsOverall']
            /\ Rank[TasksOverall] <= Rank[TasksOverall']
            => NoBetter(Summary, Summary')
<1>1. /\ AreaScores = ScoresOf(Things, NeedAttention)
      /\ AreaScores' = ScoresOf(Things', NeedAttention')
  BY AreaScoresAre, NextSummary DEF ScoresOf
<1>2. Things' = Things
  BY DEF Things
<1>3. \A area \in Areas : /\ IsFiniteSet(Things[area])
                          /\ NeedAttention[area] \subseteq Things[area]
                          /\ NeedAttention'[area] \subseteq Things[area]
  BY <1>2, ThingsAreFinite, NextSummary
<1>4. ASSUME AreaScores \in Scores, AreaScores' \in Scores
      PROVE  /\ Summary = [score |-> Score(AreaScores),
                           overall |-> Overall(AreaScores, Score(AreaScores)),
                           targets |-> TargetsOverall, tasks |-> TasksOverall]
             /\ Summary' = [score |-> Score(AreaScores'),
                            overall |-> Overall(AreaScores', Score(AreaScores')),
                            targets |-> TargetsOverall', tasks |-> TasksOverall']
  <2>1. (AreaScores \in Scores)'
    BY <1>4 DEF Scores, Areas
  <2>2. Score(AreaScores)' = Score(AreaScores')
    BY DEF Score
  <2> QED BY <1>4, <2>1, SummaryIs, NextSummary, Zenon
<1>5. ASSUME \A area \in Areas : NeedAttention[area] \subseteq NeedAttention'[area],
             Rank[TargetsOverall'] <= Rank[TargetsOverall],
             Rank[TasksOverall'] <= Rank[TasksOverall]
      PROVE  NoBetter(Summary', Summary)
  <2>1. AreaScores \in Scores /\ AreaScores' \in Scores /\ Below(AreaScores', AreaScores)
    BY <1>1, <1>2, <1>3, <1>5, MoreNeedLess
  <2> QED BY <1>4, <1>5, <2>1, Compare
<1>6. ASSUME \A area \in Areas : NeedAttention'[area] \subseteq NeedAttention[area],
             Rank[TargetsOverall] <= Rank[TargetsOverall'],
             Rank[TasksOverall] <= Rank[TasksOverall']
      PROVE  NoBetter(Summary, Summary')
  <2>1. AreaScores \in Scores /\ AreaScores' \in Scores /\ Below(AreaScores, AreaScores')
    BY <1>1, <1>2, <1>3, <1>6, MoreNeedLess
  <2> QED BY <1>4, <1>6, <2>1, Compare
<1> QED BY <1>5, <1>6

-----------------------------------------------------------------------------
DateTypes == Nat \cup {Never}

LEMMA RecordTypes ==
  ASSUME ReadinessTypeOK
  PROVE  /\ calendar \in Nat /\ amount \in Nat /\ ticked \subseteq Needs
         /\ \A i \in Supplies : /\ shelf[i].expires \in DateTypes /\ shelf[i].check \in DateTypes
         /\ \A b \in Boxes : boxCheck[b] \in DateTypes
         /\ \A g \in Gear : gearCheck[g] \in DateTypes
         /\ \A d \in Duties : duties[d].due \in DateTypes
         /\ \A p \in Guides : guides[p].review \in DateTypes
         /\ Never \notin Nat /\ Reminder \in Nat /\ Minimum \in Nat /\ Desired \in Nat
BY ReadinessConstants DEF ReadinessTypeOK, DateTypes, Deadlines, DueDates, Plenty

\* Area by area.
LEMMA NeedsCompare ==
  ASSUME ActiveDuties' = ActiveDuties
  PROVE  /\ /\ \A i \in Supplies : SupplyNeedsAttention(i) => SupplyNeedsAttention(i)'
            /\ \A b \in Boxes : BoxNeedsAttention(b) => BoxNeedsAttention(b)'
            /\ \A d \in Duties : DutyNeedsAttention(d) => DutyNeedsAttention(d)'
            /\ \A g \in Gear : Reached(gearCheck[g]) => Reached(gearCheck[g])'
            /\ \A p \in Guides : GuideNeedsAttention(p) => GuideNeedsAttention(p)'
            /\ \A t \in Aims : TargetStatus(t) # "met" => TargetStatus(t)' # "met"
            => \A area \in Areas : NeedAttention[area] \subseteq NeedAttention'[area]
         /\ /\ \A i \in Supplies : SupplyNeedsAttention(i)' => SupplyNeedsAttention(i)
            /\ \A b \in Boxes : BoxNeedsAttention(b)' => BoxNeedsAttention(b)
            /\ \A d \in Duties : DutyNeedsAttention(d)' => DutyNeedsAttention(d)
            /\ \A g \in Gear : Reached(gearCheck[g])' => Reached(gearCheck[g])
            /\ \A p \in Guides : GuideNeedsAttention(p)' => GuideNeedsAttention(p)
            /\ \A t \in Aims : TargetStatus(t)' # "met" => TargetStatus(t) # "met"
            => \A area \in Areas : NeedAttention'[area] \subseteq NeedAttention[area]
<1>1. /\ NeedAttention'.inventory = {i \in Supplies : SupplyNeedsAttention(i)'}
      /\ NeedAttention'.containers = {b \in Boxes : BoxNeedsAttention(b)'}
      /\ NeedAttention'.tasks = {d \in ActiveDuties : DutyNeedsAttention(d)'}
      /\ NeedAttention'.assets = {g \in Gear : Reached(gearCheck[g])'}
      /\ NeedAttention'.plans = {p \in Guides : GuideNeedsAttention(p)'}
      /\ NeedAttention'.targets = {t \in Aims : TargetStatus(t)' # "met"}
  BY DEF NeedAttention
<1>2. /\ NeedAttention.inventory = {i \in Supplies : SupplyNeedsAttention(i)}
      /\ NeedAttention.containers = {b \in Boxes : BoxNeedsAttention(b)}
      /\ NeedAttention.tasks = {d \in ActiveDuties : DutyNeedsAttention(d)}
      /\ NeedAttention.assets = {g \in Gear : Reached(gearCheck[g])}
      /\ NeedAttention.plans = {p \in Guides : GuideNeedsAttention(p)}
      /\ NeedAttention.targets = {t \in Aims : TargetStatus(t) # "met"}
  BY DEF NeedAttention
<1>3. ActiveDuties \subseteq Duties
  BY DEF ActiveDuties
<1> QED BY <1>1, <1>2, <1>3 DEF Areas

LEMMA DayWaits ==
  ASSUME ReadinessTypeOK, DayBreaks
  PROVE  /\ ActiveDuties' = ActiveDuties
         /\ \A area \in Areas : NeedAttention[area] \subseteq NeedAttention'[area]
         /\ Rank[TargetsOverall'] <= Rank[TargetsOverall]
         /\ Rank[TasksOverall'] <= Rank[TasksOverall]
<1>0. /\ calendar \in Nat /\ calendar' = calendar + 1 /\ Never \notin Nat /\ Reminder \in Nat
      /\ UNCHANGED <<shelf, boxCheck, gearCheck, duties, guides, ticked, amount>>
  BY RecordTypes DEF DayBreaks
<1>1. ActiveDuties' = ActiveDuties
  BY <1>0 DEF ActiveDuties
<1>2. \A x \in DateTypes : Reached(x) => Reached(x)'
  BY <1>0 DEF Reached, DateTypes
<1>3. \A i \in Supplies : SupplyNeedsAttention(i) => SupplyNeedsAttention(i)'
  BY <1>0, RecordTypes DEF SupplyNeedsAttention, Reached, DateTypes
<1>4. \A b \in Boxes : BoxNeedsAttention(b) => BoxNeedsAttention(b)'
  <2>1. \A b \in Boxes : Contents[b] \subseteq Supplies
    BY ReadinessConstants
  <2> QED BY <1>0, <1>3, <2>1, RecordTypes DEF BoxNeedsAttention, Reached, DateTypes
<1>5. ASSUME NEW d \in Duties
      PROVE  /\ DutyStatus(d) = "overdue" => DutyStatus(d)' = "overdue"
             /\ DutyNeedsAttention(d) => DutyNeedsAttention(d)'
  <2>1. duties'[d] = duties[d] /\ duties[d].due \in DateTypes
    BY <1>0, RecordTypes
  <2> QED BY <1>0, <2>1 DEF DutyStatus, DutyNeedsAttention, DateTypes
<1>6. \A p \in Guides : GuideNeedsAttention(p) => GuideNeedsAttention(p)'
  BY <1>0, RecordTypes DEF GuideNeedsAttention, Reached, DateTypes
<1>7. \A t : TargetStatus(t)' = TargetStatus(t)
  BY <1>0, Zenon DEF TargetStatus
<1>8. \A area \in Areas : NeedAttention[area] \subseteq NeedAttention'[area]
  <2>1. \A g \in Gear : Reached(gearCheck[g]) => Reached(gearCheck[g])'
    BY <1>0, RecordTypes DEF Reached, DateTypes
  <2> QED BY <1>1, <1>3, <1>4, <1>5, <1>6, <1>7, <2>1, NeedsCompare
<1>9. Rank[TargetsOverall'] <= Rank[TargetsOverall]
  <2>1. TargetsOverall' = TargetsOverall
    BY <1>7 DEF TargetsOverall
  <2>2. Rank[TargetsOverall] \in 0..2
    BY RankOfTargets
  <2> QED BY <2>1, <2>2
<1>10. Rank[TasksOverall'] <= Rank[TasksOverall]
  <2>1. Rank[TasksOverall'] = IF \E d \in Duties : DutyStatus(d)' = "overdue" THEN 0
                              ELSE IF \E d \in Duties : DutyNeedsAttention(d)' THEN 1 ELSE 2
    <3>1. (Rank[TasksOverall] = IF \E d \in Duties : DutyStatus(d) = "overdue" THEN 0
                                ELSE IF \E d \in Duties : DutyNeedsAttention(d) THEN 1 ELSE 2)'
      BY RankOfTasks, PTL
    <3> QED BY <3>1 DEF Rank
  <2> QED BY <1>5, <2>1, RankOfTasks
<1> QED BY <1>1, <1>8, <1>9, <1>10

LEMMA CareHelps ==
  ASSUME ReadinessTypeOK, ReadinessTypeOK', CaredFor
  PROVE  /\ ActiveDuties' = ActiveDuties
         /\ \A area \in Areas : NeedAttention'[area] \subseteq NeedAttention[area]
         /\ Rank[TargetsOverall] <= Rank[TargetsOverall']
         /\ Rank[TasksOverall] <= Rank[TasksOverall']
<1>0. /\ calendar \in Nat /\ calendar' = calendar /\ Never \notin Nat /\ Reminder \in Nat
      /\ amount \in Nat /\ amount' \in Nat /\ amount <= amount'
      /\ ticked \subseteq ticked' /\ ticked' \subseteq Needs
      /\ Minimum \in Nat /\ Desired \in Nat
  BY RecordTypes DEF CaredFor, ReadinessTypeOK
<1>1. ASSUME NEW d \in Duties
      PROVE  duties'[d].enabled = duties[d].enabled
  BY Zenon DEF CaredFor, PutOff
<1>2. ActiveDuties' = ActiveDuties
  BY <1>1 DEF ActiveDuties
<1>3. ASSUME NEW new \in DateTypes, NEW old \in DateTypes, Later(new, old), NEW day \in Nat
      PROVE  /\ new # Never /\ new <= day => old # Never /\ old <= day
             /\ new # Never /\ new < day => old # Never /\ old < day
  BY <1>0, <1>3 DEF Later, DateTypes
<1>4. /\ \A i \in Supplies : /\ shelf[i].expires \in DateTypes /\ shelf[i].check \in DateTypes
                             /\ shelf'[i].expires \in DateTypes /\ shelf'[i].check \in DateTypes
      /\ \A b \in Boxes : boxCheck[b] \in DateTypes /\ boxCheck'[b] \in DateTypes
      /\ \A g \in Gear : gearCheck[g] \in DateTypes /\ gearCheck'[g] \in DateTypes
      /\ \A d \in Duties : duties[d].due \in DateTypes /\ duties'[d].due \in DateTypes
      /\ \A p \in Guides : guides[p].review \in DateTypes /\ guides'[p].review \in DateTypes
  BY ReadinessConstants DEF ReadinessTypeOK, DateTypes, Deadlines, DueDates
<1>5. \A i \in Supplies : SupplyNeedsAttention(i)' => SupplyNeedsAttention(i)
  <2>1. \A i \in Supplies : /\ Later(shelf'[i].expires, shelf[i].expires)
                           /\ Later(shelf'[i].check, shelf[i].check)
    BY DEF CaredFor
  <2> QED BY <1>0, <1>3, <1>4, <2>1 DEF SupplyNeedsAttention, Reached
<1>6. \A b \in Boxes : BoxNeedsAttention(b)' => BoxNeedsAttention(b)
  <2>1. \A b \in Boxes : Later(boxCheck'[b], boxCheck[b])
    BY DEF CaredFor
  <2>2. \A b \in Boxes : Contents[b] \subseteq Supplies
    BY ReadinessConstants
  <2> QED BY <1>0, <1>3, <1>4, <1>5, <2>1, <2>2 DEF BoxNeedsAttention, Reached
<1>7. \A g \in Gear : Reached(gearCheck[g])' => Reached(gearCheck[g])
  <2>1. \A g \in Gear : Later(gearCheck'[g], gearCheck[g])
    BY DEF CaredFor
  <2> QED BY <1>0, <1>3, <1>4, <2>1 DEF Reached
<1>8. \A p \in Guides : GuideNeedsAttention(p)' => GuideNeedsAttention(p)
  <2>1. \A p \in Guides : Later(guides'[p].review, guides[p].review)
    BY DEF CaredFor
  <2>2. \A p \in Guides : Reached(guides[p].review)' => Reached(guides[p].review)
    BY <1>0, <1>3, <1>4, <2>1 DEF Reached
  <2>3. \A p \in Guides : guides[p].complete => guides'[p].complete
    BY Zenon DEF CaredFor
  <2> QED BY <2>2, <2>3, Zenon DEF GuideNeedsAttention
<1>9. ASSUME NEW d \in Duties
      PROVE  /\ DutyStatus(d)' = "overdue" => DutyStatus(d) = "overdue"
             /\ DutyNeedsAttention(d)' => DutyNeedsAttention(d)
  <2> DEFINE old == duties[d].due
             new == duties'[d].due
  <2>1. \/ duties'[d] = duties[d]
        \/ (new # Never /\ calendar <= new /\ (old = Never \/ old <= new))
    BY Zenon DEF CaredFor, PutOff
  <2>2. old \in DateTypes /\ new \in DateTypes
    BY <1>4
  <2>3. CASE duties'[d] = duties[d]
    BY <1>0, <2>3, Zenon DEF DutyStatus, DutyNeedsAttention
  <2>4. CASE new # Never /\ calendar <= new /\ (old = Never \/ old <= new)
    BY <1>0, <1>1, <2>2, <2>4 DEF DutyStatus, DutyNeedsAttention, DateTypes
  <2> QED BY <2>1, <2>3, <2>4
<1>10. ASSUME NEW t \in Aims
       PROVE  /\ TargetStatus(t)' = "below_minimum" => TargetStatus(t) = "below_minimum"
              /\ TargetStatus(t)' # "met" => TargetStatus(t) # "met"
  <2>1. CASE t = "needs"
    <3>1. (ticked = Needs => ticked' = Needs) /\ (ticked' = {} => ticked = {})
      BY <1>0
    <3>2. /\ TargetStatus(t) = IF ticked = Needs THEN "met"
                               ELSE IF ticked # {} THEN "below_target" ELSE "below_minimum"
          /\ TargetStatus(t)' = IF ticked' = Needs THEN "met"
                                ELSE IF ticked' # {} THEN "below_target" ELSE "below_minimum"
      BY <2>1, Zenon DEF TargetStatus
    <3> QED BY <3>1, <3>2
  <2>2. CASE t = "amount"
    BY <1>0, <2>2 DEF TargetStatus
  <2> QED BY <2>1, <2>2 DEF Aims
<1>11. \A area \in Areas : NeedAttention'[area] \subseteq NeedAttention[area]
  BY <1>2, <1>5, <1>6, <1>7, <1>8, <1>9, <1>10, NeedsCompare
<1>12. Rank[TargetsOverall] <= Rank[TargetsOverall']
  <2>1. Rank[TargetsOverall'] = IF \E t \in Aims : TargetStatus(t)' = "below_minimum" THEN 0
                                ELSE IF \E t \in Aims : TargetStatus(t)' # "met" THEN 1 ELSE 2
    <3>1. (Rank[TargetsOverall] = IF \E t \in Aims : TargetStatus(t) = "below_minimum" THEN 0
                                  ELSE IF \E t \in Aims : TargetStatus(t) # "met" THEN 1 ELSE 2)'
      BY RankOfTargets, PTL
    <3> QED BY <3>1 DEF Rank, Aims
  <2> QED BY <1>10, <2>1, RankOfTargets
<1>13. Rank[TasksOverall] <= Rank[TasksOverall']
  <2>1. Rank[TasksOverall'] = IF \E d \in Duties : DutyStatus(d)' = "overdue" THEN 0
                              ELSE IF \E d \in Duties : DutyNeedsAttention(d)' THEN 1 ELSE 2
    <3>1. (Rank[TasksOverall] = IF \E d \in Duties : DutyStatus(d) = "overdue" THEN 0
                                ELSE IF \E d \in Duties : DutyNeedsAttention(d) THEN 1 ELSE 2)'
      BY RankOfTasks, PTL
    <3> QED BY <3>1 DEF Rank
  <2> QED BY <1>9, <2>1, RankOfTasks
<1> QED BY <1>2, <1>11, <1>12, <1>13

\* As the days pass neither the score rises nor does a status get better.
THEOREM WaitingDoesNotHelp == ReadinessSpec => WaitingNeverHelps
<1>1. ASSUME ReadinessTypeOK, [ReadinessNext]_readinessVars, calendar' > calendar
      PROVE  NoBetter(Summary', Summary)
  <2>1. calendar \in Nat
    BY <1>1, RecordTypes
  <2>2. calendar' # calendar
    BY <1>1, <2>1
  <2>3. DayBreaks
    BY <1>1, <2>2, Zenon
       DEF readinessVars, ReadinessNext, RecordEdited, SupplyEdited, CheckEdited, DutyEdited,
           GuideEdited, TargetEdited
  <2> QED BY <1>1, <2>3, DayWaits, SummariesCompare
<1>2. ReadinessTypeOK /\ [ReadinessNext]_readinessVars
        => [calendar' > calendar
              => \E old \in {Summary}, new \in {Summary'} : NoBetter(new, old)]_readinessVars
  BY <1>1
<1> QED BY <1>2, ReadinessTyped, PTL DEF ReadinessSpec, WaitingNeverHelps

\* Renewing, checking, reviewing, completing or putting off lowers neither the score
\* nor a status, however the areas are rounded and averaged.
THEOREM CareDoesNotHurt == ReadinessSpec => CareNeverHurts
<1>1. ASSUME ReadinessTypeOK, ReadinessTypeOK', CaredFor
      PROVE  NoBetter(Summary, Summary')
  BY <1>1, CareHelps, SummariesCompare
<1>2. ReadinessTypeOK /\ ReadinessTypeOK'
        => [CaredFor => \E old \in {Summary}, new \in {Summary'} : NoBetter(old, new)]_readinessVars
  BY <1>1
<1> QED BY <1>2, ReadinessTyped, PTL DEF ReadinessSpec, CareNeverHurts

-----------------------------------------------------------------------------
\* A behaviour of all the features beside each other is a behaviour of each: the
\* one that is exercised takes its own steps, the others rest.
THEOREM FeaturesAreIndependent ==
  FeaturesSpec => /\ ShoppingSpec /\ NoticesSpec /\ PlansSpec /\ TargetsSpec
                  /\ PairingSpec /\ ReadinessSpec /\ ProfilesSpec
<1>1. FeaturesInit => /\ ShoppingInit /\ NoticesInit /\ PlansInit /\ TargetsInit
                      /\ PairingInit /\ ReadinessInit /\ ProfilesInit
  BY DEF FeaturesInit
<1>2. ASSUME [FeaturesNext]_featureVars
      PROVE  /\ [ShoppingNext]_shoppingVars /\ [NoticesNext]_noticesVars
             /\ [PlansNext]_plansVars /\ [TargetsNext]_targetsVars
             /\ [PairingNext]_pairingVars /\ [ReadinessNext]_readinessVars
             /\ [ProfilesNext]_profilesVars
  BY <1>2, Zenon DEF FeaturesNext, featureVars, Rests
<1> QED BY <1>1, <1>2, PTL
        DEF FeaturesSpec, ShoppingSpec, NoticesSpec, PlansSpec, TargetsSpec, PairingSpec,
            ReadinessSpec, ProfilesSpec

\* The type invariant of the run, for any number of threads, rows and dates.
THEOREM FeaturesTyped == FeaturesSpec => []FeaturesTypeOK
<1>1. FeaturesInit => part \in Parts
  BY DEF FeaturesInit
<1>2. part \in Parts /\ [FeaturesNext]_featureVars => (part \in Parts)'
  BY DEF FeaturesNext, featureVars
<1>3. /\ part \in Parts /\ ShoppingInv /\ NoticesInv /\ PlansInv /\ TargetsInv
      /\ PairingInv /\ ReadinessTypeOK /\ ProfilesInv
      => FeaturesTypeOK
  BY Zenon DEF FeaturesTypeOK, ShoppingInv, NoticesInv, PlansInv, TargetsInv, PairingInv,
               ProfilesInv
<1> QED BY <1>1, <1>2, <1>3, FeaturesAreIndependent, ShoppingInvariant, NoticesInvariant,
           PlansInvariant, TargetsInvariant, PairingInvariant, ReadinessTyped,
           ProfilesInvariant, PTL DEF FeaturesSpec

\* And so every property proved of one feature holds of all of them together.
THEOREM FeaturesCorrect ==
  FeaturesSpec => /\ SyncAddsNoDuplicate /\ SyncListsEveryExpired
                  /\ LoneNoteSyncSucceeds /\ LoneNoteSyncAnnouncesAll
                  /\ CommittedLinksAreLive /\ ItemRequestKeepsOthers
                  /\ LoneAdoptionIsExact
                  /\ LoneExchangeIsSingleUse /\ RevocationIsFinal
                  /\ LoneHouseholdWritesHold
                  /\ WaitingNeverHelps /\ CareNeverHurts
BY FeaturesAreIndependent, SyncAddsOne, SyncListsAll, NoteSyncSucceeds, NoteSyncAnnouncesAll,
   LinksCorrect, OthersCorrect, AdoptionCorrect, SingleUseCorrect, RevocationCorrect,
   HouseholdWritesHold, WaitingDoesNotHelp, CareDoesNotHurt, PTL
=============================================================================
