------------------------------- MODULE Targets -------------------------------
(***************************************************************************)
(* Targets and the adoption of recommendations as targets                  *)
(* (planning_services.py TargetService, guidance.py).  An adoption reads   *)
(* the household profile and calculates what its recommendation asks,      *)
(* reads the targets, refuses a recommendation that one of them came from, *)
(* and inserts a target with the calculated amount at its commit.          *)
(*                                                                         *)
(* Creating, editing and deleting a target and putting the profile are one *)
(* step here: how handlers that write the same row overlap is the subject  *)
(* of ResourceService and of Profiles.                                     *)
(***************************************************************************)
EXTENDS Guidance, FiniteSets

CONSTANTS
  Adopters,         \* threads of the pool that may serve an adoption
  TargetIds,        \* bounds the live targets
  Requirements,     \* ids of requirements
  Bases,            \* bound: what the household profile may say
  NoBasis,          \* the household has no profile yet
  Amounts,          \* bound: target values clients choose
  Own,              \* the origin of a target that came from no recommendation
  NotGiven          \* a field the PATCH body does not contain

ASSUME TargetsConstants == /\ Own \notin Recommended
                           /\ Bases \subseteq Basis /\ NoBasis \notin Bases
                           /\ Amounts \subseteq Nat
                           /\ \A R \in SUBSET Requirements : R # NotGiven

VARIABLES
  basis,        \* what the household profile says
  targets,      \* the live rows of targets
  adoptions     \* what each thread is doing

targetsVars == <<basis, targets, adoptions>>

Target == [live      : BOOLEAN,
           origin    : Recommended \cup {Own},  \* with source_recommendation_id
           amount    : Nat,                     \* target_value; 0 for NULL
           required  : SUBSET Requirements,
           completed : SUBSET Requirements]     \* completed_requirement_ids

NoTarget == [live |-> FALSE, origin |-> Own, amount |-> 0, required |-> {}, completed |-> {}]

\* alone is history: has nobody changed the profile or the targets since the start.
Adoption == [pc : {"idle", "insert"}, what : Recommended \cup {Own}, amount : Nat,
             alone : BOOLEAN]
NoAdoption == [pc |-> "idle", what |-> Own, amount |-> 0, alone |-> TRUE]

TargetsTypeOK == /\ basis \in Bases \cup {NoBasis}
                 /\ targets \in [TargetIds -> Target]
                 /\ adoptions \in [Adopters -> Adoption]

TargetsInit == /\ basis = NoBasis
               /\ targets = [t \in TargetIds |-> NoTarget]
               /\ adoptions = [u \in Adopters |-> NoAdoption]

LiveTargets == {t \in TargetIds : targets[t].live}

AdoptionOvertaken(u) == IF adoptions[u].pc = "idle" THEN NoAdoption
                        ELSE [adoptions[u] EXCEPT !.alone = FALSE]
AdoptionsOvertaken == adoptions' = [u \in Adopters |-> AdoptionOvertaken(u)]

-----------------------------------------------------------------------------
\* HouseholdProfileService.upsert; targets keep the amounts they were adopted with.
PutProfile == /\ \E b \in Bases : basis' = b
              /\ AdoptionsOvertaken
              /\ UNCHANGED targets

\* Only ids of requirements the target has are kept.  A client may create a
\* target of any origin by itself.
CreateTarget ==
  /\ \E t \in TargetIds \ LiveTargets, from \in Recommended \cup {Own}, n \in Amounts,
        req \in SUBSET Requirements, done \in SUBSET Requirements :
       targets' = [targets EXCEPT ![t] = [live |-> TRUE, origin |-> from, amount |-> n,
                                          required |-> req, completed |-> done \cap req]]
  /\ AdoptionsOvertaken
  /\ UNCHANGED basis

\* The completed ids are only looked at when the body names them: a PATCH of
\* the requirements alone leaves ids of requirements that are gone.
EditedTarget(row, req, done, n) ==
  LET required == IF req = NotGiven THEN row.required ELSE req
  IN  [row EXCEPT !.required = required,
                  !.completed = IF done = NotGiven THEN row.completed
                                ELSE done \cap required,
                  !.amount = IF n = NotGiven THEN row.amount ELSE n]

UpdateTarget ==
  /\ \E t \in LiveTargets : \E req, done \in (SUBSET Requirements) \cup {NotGiven} :
       \E n \in Amounts \cup {NotGiven} :
         targets' = [targets EXCEPT ![t] = EditedTarget(targets[t], req, done, n)]
  /\ AdoptionsOvertaken
  /\ UNCHANGED basis

\* A tombstone is never read again, so its columns are forgotten.
DeleteTarget == /\ \E t \in LiveTargets : targets' = [targets EXCEPT ![t] = NoTarget]
                /\ AdoptionsOvertaken
                /\ UNCHANGED basis

\* adopt: 404 without a profile; the SELECT of the targets, and 409 if one came
\* from the recommendation.
AlreadyAdopted_StillOpen(r) ==
  \E t \in LiveTargets : targets[t].origin = r /\ targets[t].completed # targets[t].required
AlreadyAdopted(r) == \E t \in LiveTargets : targets[t].origin = r

StartAdoption(u) ==
  /\ adoptions[u].pc = "idle"
  /\ basis # NoBasis
  /\ \E r \in Recommended :
       /\ ~AlreadyAdopted(r)
       /\ adoptions' = [adoptions EXCEPT ![u] =
            [pc |-> "insert", what |-> r, amount |-> Calculated(RuleOf[r], basis), alone |-> TRUE]]
  /\ UNCHANGED <<basis, targets>>

\* TargetService.create with the amount and the requirements of the recommendation.
CommitAdoption(u) ==
  /\ adoptions[u].pc = "insert"
  /\ \E t \in TargetIds \ LiveTargets, req \in SUBSET Requirements :
       targets' = [targets EXCEPT ![t] = [live |-> TRUE, origin |-> adoptions[u].what,
                                          amount |-> adoptions[u].amount,
                                          required |-> req, completed |-> {}]]
  /\ adoptions' = [v \in Adopters |-> IF v = u THEN NoAdoption ELSE AdoptionOvertaken(v)]
  /\ UNCHANGED basis

TargetsNext == \/ PutProfile \/ CreateTarget \/ UpdateTarget \/ DeleteTarget
               \/ \E u \in Adopters : StartAdoption(u) \/ CommitAdoption(u)

TargetsSpec == TargetsInit /\ [][TargetsNext]_targetsVars

-----------------------------------------------------------------------------
AdoptedFrom(table, r) == {t \in TargetIds : table[t].live /\ table[t].origin = r}

\* guidance.py, "This recommendation is already adopted": after an adoption nobody
\* overtakes the recommendation has exactly one live target, whatever became of
\* earlier ones, and it asks what the recommendation asks of the household as
\* its profile is now.  (Two adoptions at once may add one each, and a profile
\* put meanwhile leaves a target for the household as it was.)
LoneAdoptionIsExact ==
  [][\A u \in Adopters :
       LET r == adoptions[u].what
       IN  adoptions[u].pc = "insert" /\ adoptions'[u].pc = "idle" /\ adoptions[u].alone
             => \E t \in TargetIds :
                  /\ AdoptedFrom(targets', r) = {t}
                  /\ targets'[t].amount = Calculated(RuleOf[r], basis')]_targetsVars
=============================================================================
