------------------------------- MODULE Machine -------------------------------
(***************************************************************************)
(* What a native installation does without the database: the service and   *)
(* its process, the settings file, the identity file, the image files, the *)
(* update of the program, the throttle of the sign-in and the calendar of  *)
(* recurring dates.  None of them reads what another writes, so each       *)
(* behaviour exercises one and lets the others rest, which visits the sum  *)
(* of their states instead of the product.                                 *)
(***************************************************************************)
EXTENDS ServiceHost, Settings, Identity, Updates, Media, SignIn, Recurrence

VARIABLE part       \* what this behaviour exercises

Parts == {"host", "settings", "identity", "updates", "media", "signin",
          "recurrence"}

machineVars == <<part, vars, settingsVars, identityVars, updatesVars, mediaVars,
                 signInVars, recurrenceVars>>

MachineTypeOK == /\ part \in Parts
                 /\ TypeOK /\ SettingsTypeOK /\ IdentityTypeOK
                 /\ UpdatesTypeOK /\ MediaTypeOK /\ SignInTypeOK /\ RecurrenceTypeOK

\* How long Uvicorn takes matters to the service only.
MachineInit == /\ part \in Parts
               /\ Init /\ SettingsInit /\ IdentityInit /\ UpdatesInit /\ MediaInit
               /\ SignInInit /\ RecurrenceInit
               /\ part # "host" => prompt

Rests(this, itsVars) == part # this => UNCHANGED itsVars

MachineNext ==
  /\ UNCHANGED part
  /\ \/ part = "host" /\ Next
     \/ part = "settings" /\ SettingsNext
     \/ part = "identity" /\ IdentityNext
     \/ part = "updates" /\ UpdatesNext
     \/ part = "media" /\ MediaNext
     \/ part = "signin" /\ SignInNext
     \/ part = "recurrence" /\ RecurrenceNext
  /\ Rests("host", vars)
  /\ Rests("settings", settingsVars)
  /\ Rests("identity", identityVars)
  /\ Rests("updates", updatesVars)
  /\ Rests("media", mediaVars)
  /\ Rests("signin", signInVars)
  /\ Rests("recurrence", recurrenceVars)

\* The service's own threads and the scheduler's; a part at rest has no step to
\* take, so its fairness asks nothing.
MachineSpec == /\ MachineInit /\ [][MachineNext]_machineVars
               /\ Fairness /\ SettingsFairness
=============================================================================
