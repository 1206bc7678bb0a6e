----------------------------- MODULE MCFeatures -----------------------------
(***************************************************************************)
(* Finite instance of Features for TLC.  The threads that serve the centre *)
(* and those that serve a plan differ in nothing but their name.  (The     *)
(* threads of the other parts do so as well, but their states are few, and *)
(* every state is compared under all the permutations.)                    *)
(***************************************************************************)
EXTENDS Features, TLC

CONSTANT water     \* a recommendation

FeatureSymmetry == Permutations(Readers) \cup Permutations(Planners)

MCRuleOf == water :> [kind |-> "quantity_per_person_per_day", rate |-> 2]

MCContents == [b \in Boxes |-> Supplies]

MCBases == {[adults |-> 1, children |-> n, days |-> 1] : n \in 0..1}
=============================================================================
