------------------------------ MODULE Features ------------------------------
(***************************************************************************)
(* The shopping list, the notification centre, the plans, the targets, the *)
(* paired clients, the readiness summary, and the household and its        *)
(* profile beside each other.  Each is modelled with the rows it depends   *)
(* on, so what one does never depends on how its steps are interleaved     *)
(* with those of another: each behaviour exercises one of them and lets    *)
(* the others rest, which visits the sum of their states instead of the    *)
(* product.                                                                *)
(***************************************************************************)
EXTENDS Shopping, Notices, Plans, Targets, Pairing, Readiness, Profiles

VARIABLE part       \* the feature this behaviour exercises

Parts == {"shopping", "notices", "plans", "targets", "pairing", "readiness",
          "profiles"}

featureVars == <<part, shoppingVars, noticesVars, plansVars, targetsVars, pairingVars,
                 readinessVars, profilesVars>>

FeaturesTypeOK == /\ part \in Parts
                  /\ ShoppingTypeOK /\ NoticesTypeOK /\ PlansTypeOK
                  /\ TargetsTypeOK /\ PairingTypeOK /\ ReadinessTypeOK
                  /\ ProfilesTypeOK

\* Bound: at the start everything is due on one day, which matters to the centre
\* only.
FeaturesInit ==
  /\ part \in Parts
  /\ ShoppingInit /\ NoticesInit /\ PlansInit /\ TargetsInit /\ PairingInit /\ ReadinessInit
  /\ ProfilesInit
  /\ \A s, t \in Subjects : dates[s] = dates[t] /\ (part # "notices" => dates[s] = 0)

Rests(feature, vars) == part # feature => UNCHANGED vars

FeaturesNext ==
  /\ UNCHANGED part
  /\ \/ part = "shopping" /\ ShoppingNext
     \/ part = "notices" /\ NoticesNext
     \/ part = "plans" /\ PlansNext
     \/ part = "targets" /\ TargetsNext
     \/ part = "pairing" /\ PairingNext
     \/ part = "readiness" /\ ReadinessNext
     \/ part = "profiles" /\ ProfilesNext
  /\ Rests("shopping", shoppingVars)
  /\ Rests("notices", noticesVars)
  /\ Rests("plans", plansVars)
  /\ Rests("targets", targetsVars)
  /\ Rests("pairing", pairingVars)
  /\ Rests("readiness", readinessVars)
  /\ Rests("profiles", profilesVars)

FeaturesSpec == FeaturesInit /\ [][FeaturesNext]_featureVars
=============================================================================
