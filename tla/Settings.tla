------------------------------ MODULE Settings ------------------------------
(***************************************************************************)
(* config.json of a native installation (standalone_config.py): the        *)
(* windows of the Server Manager that show and save it (manager.py), the   *)
(* server process that reads it when it starts (launcher.py) and its       *)
(* backup scheduler, which reads it again in every round                   *)
(* (core/backup_scheduler.py).                                             *)
(*                                                                         *)
(* The file is written in place: it is cut off before it is filled, and a  *)
(* reader that finds it cut off takes the defaults without a word.  Host   *)
(* and port travel in the same record and are read at the start only.      *)
(***************************************************************************)
EXTENDS Naturals

CONSTANTS
  Windows,            \* Manager windows that may be open at once
  Schedules,          \* BACKUP_SCHEDULES, or a part of it that has "off"
  Retentions,         \* the retentions users choose, DEFAULT_BACKUP_RETENTION among them
  DefaultRetention,
  NoFile, TornFile,   \* config.json is missing, or not a whole JSON document
  Down,
  MaxSettingFaults    \* bound: so many write errors and power losses

Setting == [schedule : Schedules, retention : Retentions]

ASSUME SettingsConstants ==
  /\ "off" \in Schedules /\ DefaultRetention \in Retentions
  /\ Retentions \subseteq Nat \ {0}
  /\ {NoFile, TornFile, Down} \cap Setting = {}
  /\ MaxSettingFaults \in Nat

VARIABLES
  config,         \* the content of config.json
  windows,        \* what each Manager window shows and does
  serves,         \* what the server process read when it started, or Down
  round,          \* the scheduler's round
  saved,          \* history: every setting some window has saved
  settingFaults

settingsVars == <<config, windows, serves, round, saved, settingFaults>>

Window == [pc : {"open", "writing", "saved", "restarting"}, form : Setting]

Round == [pc : {"waiting", "loaded", "prune"}, with : Setting]

\* _defaults: no backups are scheduled.
Default_Daily == [schedule |-> CHOOSE s \in Schedules : s # "off", retention |-> DefaultRetention]
Default == [schedule |-> "off", retention |-> DefaultRetention]

Waiting == [pc |-> "waiting", with |-> Default]

\* load_standalone_config; save writes valid values only.
Loaded == IF config \in Setting THEN config ELSE Default

SettingsTypeOK == /\ config \in Setting \cup {NoFile, TornFile}
                  /\ windows \in [Windows -> Window]
                  /\ serves \in Setting \cup {Down}
                  /\ round \in Round
                  /\ saved \subseteq Setting
                  /\ settingFaults \in Nat

SettingsInit == /\ config = NoFile /\ serves = Down /\ round = Waiting
                /\ windows = [w \in Windows |-> [pc |-> "open", form |-> Default]]
                /\ saved = {} /\ settingFaults = 0

SettingFault == /\ settingFaults < MaxSettingFaults
                /\ settingFaults' = settingFaults + 1

-----------------------------------------------------------------------------
\* ManagerApp.__init__: a new window shows what the file holds at that moment.
OpenWindow(w) == /\ windows[w].pc = "open"
                 /\ windows' = [windows EXCEPT ![w].form = Loaded]
                 /\ UNCHANGED <<config, serves, round, saved, settingFaults>>

EditForm(w) == /\ windows[w].pc = "open"
               /\ \E s \in Setting : windows' = [windows EXCEPT ![w].form = s]
               /\ UNCHANGED <<config, serves, round, saved, settingFaults>>

\* save_settings writes the whole form, however old it is; write_text cuts the
\* file off first.
BeginSave(w) == /\ windows[w].pc = "open"
                /\ windows' = [windows EXCEPT ![w].pc = "writing"]
                /\ config' = TornFile
                /\ UNCHANGED <<serves, round, saved, settingFaults>>

\* A second window that has filled the file meanwhile may leave the end of a
\* longer document behind this one.
FinishSave(w) ==
  /\ windows[w].pc = "writing"
  /\ windows' = [windows EXCEPT ![w].pc = "saved"]
  /\ \/ config' = windows[w].form
     \/ config # TornFile /\ config' = TornFile
  /\ saved' = saved \cup {windows[w].form}
  /\ UNCHANGED <<serves, round, settingFaults>>

\* "Unable to save"; the file stays cut off.
SaveFails(w) == /\ windows[w].pc = "writing"
                /\ SettingFault
                /\ windows' = [windows EXCEPT ![w].pc = "open"]
                /\ UNCHANGED <<config, serves, round, saved>>

\* Restart-Service stops the process with its scheduler, then starts another
\* one; Windows asks for permission first.
RestartRefused(w) == /\ windows[w].pc = "saved"
                     /\ windows' = [windows EXCEPT ![w].pc = "open"]
                     /\ UNCHANGED <<config, serves, round, saved, settingFaults>>

RestartStops(w) == /\ windows[w].pc = "saved"
                   /\ windows' = [windows EXCEPT ![w].pc = "restarting"]
                   /\ serves' = Down /\ round' = Waiting
                   /\ UNCHANGED <<config, saved, settingFaults>>

RestartStarts(w) == /\ windows[w].pc = "restarting"
                    /\ windows' = [windows EXCEPT ![w].pc = "open"]
                    /\ serves' = IF serves = Down THEN Loaded ELSE serves
                    /\ UNCHANGED <<config, round, saved, settingFaults>>

\* The buttons of the Manager, or Windows at boot (start= delayed-auto).
ServiceStarts == /\ serves = Down /\ serves' = Loaded
                 /\ UNCHANGED <<config, windows, round, saved, settingFaults>>

ServiceStops == /\ serves # Down /\ serves' = Down
                /\ round' = Waiting
                /\ UNCHANGED <<config, windows, saved, settingFaults>>

\* What was not written is lost; the windows open anew.
PowerGoes == /\ SettingFault
             /\ serves' = Down /\ round' = Waiting
             /\ windows' = [w \in Windows |-> [pc |-> "open", form |-> Loaded]]
             /\ UNCHANGED <<config, saved>>

-----------------------------------------------------------------------------
\* _backup_settings: schedule and retention come from one reading of the file.
Provided_AtStart == serves
Provided == Loaded

RoundLoads == /\ serves # Down /\ round.pc = "waiting"
              /\ round' = [pc |-> "loaded", with |-> Provided]
              /\ UNCHANGED <<config, windows, serves, saved, settingFaults>>

\* No backup is due, or it failed: the scheduler waits for the next round.
RoundEnds == /\ round.pc = "loaded"
             /\ round' = Waiting
             /\ UNCHANGED <<config, windows, serves, saved, settingFaults>>

\* backup_due asks for a schedule; create_backup succeeds.
RoundBacksUp == /\ round.pc = "loaded" /\ round.with.schedule # "off"
                /\ round' = [round EXCEPT !.pc = "prune"]
                /\ UNCHANGED <<config, windows, serves, saved, settingFaults>>

RoundPrunes == /\ round.pc = "prune"
               /\ round' = Waiting
               /\ UNCHANGED <<config, windows, serves, saved, settingFaults>>

WindowStep(w) == \/ OpenWindow(w) \/ EditForm(w)
                 \/ BeginSave(w) \/ FinishSave(w) \/ SaveFails(w)
                 \/ RestartRefused(w) \/ RestartStops(w) \/ RestartStarts(w)

RoundStep == RoundLoads \/ RoundEnds \/ RoundBacksUp \/ RoundPrunes

SettingsNext == \/ \E w \in Windows : WindowStep(w)
                \/ ServiceStarts \/ ServiceStops \/ PowerGoes
                \/ RoundStep

\* The scheduler's wait ends and its thread is scheduled; nobody is forced to
\* open a window, to save or to start the service.
SettingsFairness == WF_settingsVars(RoundStep)

-----------------------------------------------------------------------------
\* Archives are only ever removed by a retention that a user saved together
\* with a schedule: although a file found cut off reads as the defaults, their
\* retention is never applied, because the schedule read with it is "off".
PruneOnlyAsConfigured == round.pc = "prune" => round.with \in saved

\* launcher.py reads the settings anew for every round: once the file stays as
\* it is and the server is left running, the scheduler works by it again and
\* again, also when the restart after saving was refused.
SettledScheduleIsFollowed ==
  \A s \in Setting :
    <>[](config = s /\ serves # Down) => []<>(round.pc = "loaded" /\ round.with = s)
=============================================================================
