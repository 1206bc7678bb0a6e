---------------------------- MODULE Machine_proofs ----------------------------
(***************************************************************************)
(* What Machine promises, proved for every number of windows, threads,     *)
(* images, releases and bounds.  Each part has an inductive invariant of   *)
(* its own, because no part reads what another writes: a step of Machine   *)
(* is a step of every part or leaves it alone (PartsStep).                 *)
(***************************************************************************)
EXTENDS Machine, Recurrence_proofs, SequenceTheorems

LEMMA PartsStep ==
  ASSUME [MachineNext]_machineVars
  PROVE  /\ [Next]_vars
         /\ [SettingsNext]_settingsVars
         /\ [IdentityNext]_identityVars
         /\ [UpdatesNext]_updatesVars
         /\ [MediaNext]_mediaVars
         /\ [SignInNext]_signInVars
         /\ [RecurrenceNext]_recurrenceVars
<1>1. CASE UNCHANGED machineVars
  BY <1>1 DEF machineVars
<1>2. CASE MachineNext
  BY <1>2 DEF MachineNext, Rests
<1> QED BY <1>1, <1>2

-----------------------------------------------------------------------------
(***************************************************************************)
(* The Windows service.                                                    *)
(***************************************************************************)

\* The status the SCM knows and the place of the main thread.
StatusFollowsMain ==
  /\ status = "stopped" <=> main \in {"none", "returned"}
  /\ status = "start_pending" =>
       main \in {"migrate", "poll", "abort", "announce", "report"}
  /\ status \in {"running", "stop_pending"} =>
       main \in {"wait", "drain", "join", "force", "report"}

\* Uvicorn's thread runs between Migrates and a join that ends, if it is prompt.
ServerFollowsMain ==
  /\ main \in {"none", "migrate"} => server = "none"
  /\ prompt => ~old /\ (main \in {"report", "returned"} => ~Alive)

HostInv == TypeOK /\ StatusFollowsMain /\ ServerFollowsMain

LEMMA HostInit ==
  ASSUME Init
  PROVE  HostInv
<1>1. TypeOK
  BY DEF Init, TypeOK
<1>2. StatusFollowsMain /\ ServerFollowsMain
  BY DEF Init, StatusFollowsMain, ServerFollowsMain, Alive
<1> QED BY <1>1, <1>2 DEF HostInv

LEMMA HostStepType ==
  ASSUME TypeOK, [Next]_vars
  PROVE  TypeOK'
<1>1. {prompt, stop, sched, old} \subseteq BOOLEAN =>
        {prompt', stop', sched', old'} \subseteq BOOLEAN
  BY DEF vars, host, Next, MainStep, SCMStarts, Migrates, Polls, Ready, DiedStarting,
         TimesOutStarting, Aborts, MarksRunning, StopSeen, Drained, SchedulerJoined,
         Forced, Reports, ProcessEnds, Control, SetsEvent, SchedulerEnds,
         ServerStarts, ServerCrashes, ServerExits, OldExits, Alive
<1>2. starts' \in Nat /\ crashes' \in Nat
  BY DEF TypeOK, vars, host, Next, MainStep, SCMStarts, Migrates, Polls, Aborts,
         MarksRunning, StopSeen, Drained, SchedulerJoined, Forced, Reports, ProcessEnds,
         Control, SetsEvent, SchedulerEnds, ServerStarts, ServerCrashes, ServerExits,
         OldExits
<1>3. QED
  BY <1>1, <1>2
     DEF TypeOK, vars, host, Next, MainStep, SCMStarts, Migrates, Polls, Ready,
         DiedStarting, TimesOutStarting, Aborts, MarksRunning, StopSeen, Drained,
         SchedulerJoined, Forced, Reports, ProcessEnds, Control, SetsEvent,
         SchedulerEnds, ServerStarts, ServerCrashes, ServerExits, OldExits

LEMMA HostStep ==
  ASSUME HostInv, [Next]_vars
  PROVE  HostInv'
<1>1. TypeOK'
  BY HostStepType DEF HostInv
<1>2. StatusFollowsMain'
  BY DEF HostInv, TypeOK, StatusFollowsMain, vars, host, Next, MainStep, SCMStarts,
         Migrates, Polls, Ready, DiedStarting, TimesOutStarting, Aborts, MarksRunning,
         StopSeen, Drained, SchedulerJoined, Forced, Reports, ProcessEnds, Control,
         AcceptsStop, SetsEvent, SchedulerEnds, ServerStarts, ServerCrashes,
         ServerExits, OldExits
<1>3. ServerFollowsMain'
  <2> USE DEF HostInv, TypeOK, StatusFollowsMain, ServerFollowsMain, Alive
  <2>1. CASE SCMStarts /\ UNCHANGED prompt
    BY <2>1 DEF SCMStarts
  <2>2. CASE MainStep /\ UNCHANGED prompt
    BY <2>2 DEF MainStep, Migrates, Polls, Ready, DiedStarting, TimesOutStarting, Aborts,
                MarksRunning, StopSeen, Drained, SchedulerJoined, Forced, Joined,
                Reports, ProcessEnds
  <2>3. CASE (Control \/ SetsEvent \/ SchedulerEnds) /\ UNCHANGED prompt
    BY <2>3 DEF Control, SetsEvent, SchedulerEnds
  <2>4. CASE (ServerStarts \/ ServerCrashes \/ ServerExits \/ OldExits) /\ UNCHANGED prompt
    BY <2>4 DEF ServerStarts, ServerCrashes, ServerExits, OldExits
  <2>5. CASE UNCHANGED vars
    BY <2>5 DEF vars, host
  <2> QED BY <2>1, <2>2, <2>3, <2>4, <2>5 DEF Next
<1> QED BY <1>1, <1>2, <1>3 DEF HostInv

\* Types of the service host, and what each thread's place says of the others.
THEOREM HostInvariant == MachineSpec => []HostInv
<1>1. MachineInit => HostInv
  BY HostInit DEF MachineInit
<1>2. HostInv /\ [MachineNext]_machineVars => HostInv'
  BY PartsStep, HostStep
<1> QED BY <1>1, <1>2, PTL DEF MachineSpec

\* A service the SCM shows as STOPPED has no Uvicorn thread left, of its own or
\* of an earlier process, if Uvicorn ends within the time its joins allow: each
\* way to "report" goes through a join or finds the thread dead.
THEOREM HostIsOffline == MachineSpec => []OfflineWhenStopped
<1>1. HostInv => OfflineWhenStopped
  BY DEF HostInv, StatusFollowsMain, ServerFollowsMain, OfflineWhenStopped, Alive
<1> QED BY <1>1, HostInvariant, PTL

\* Once the handler has reported STOP_PENDING the main thread is past its own
\* report of RUNNING, so nothing but STOPPED follows.
THEOREM StopIsFinal == MachineSpec => StopNeverUndone
<1>1. HostInv /\ [MachineNext]_machineVars =>
        [status = "stop_pending" => status' \in {"stop_pending", "stopped"}]_vars
  <2> SUFFICES ASSUME HostInv, Next, status = "stop_pending"
               PROVE  status' \in {"stop_pending", "stopped"}
    BY PartsStep
  <2> QED
    BY DEF HostInv, StatusFollowsMain, Next, MainStep, SCMStarts, Migrates, Polls,
           Aborts, MarksRunning, StopSeen, Drained, SchedulerJoined, Forced, Reports,
           ProcessEnds, Control, SetsEvent, SchedulerEnds, ServerStarts,
           ServerCrashes, ServerExits, OldExits
<1> QED BY <1>1, HostInvariant, PTL DEF MachineSpec, StopNeverUndone

(***************************************************************************)
(* Why nothing stays pending: what PendingSettles needs but fairness.      *)
(***************************************************************************)

Pending == status \in {"start_pending", "stop_pending"}

\* What the main thread waits for has been asked for.
WaitsArePrepared ==
  /\ main = "poll" => server # "none"
  /\ main \in {"abort", "drain", "join", "force"} => told # "run"
  /\ handler = "done" => stop
  /\ status = "stop_pending" => handler \in {"called", "done"}

\* launcher.py, windows_service.py: while a start or a stop is pending, the main
\* thread has a step to take, or waits for what another thread is about to do: the
\* control handler to set the event, or Uvicorn, which has been told, to end.
PendingCanMove ==
  Pending =>
    \/ main \in {"migrate", "announce", "join", "report"}
    \/ main = "poll" /\ server # "none"
    \/ main \in {"abort", "drain", "force"} /\ (Joined \/ (Alive /\ told # "run"))
    \/ main = "wait" /\ (stop \/ handler = "called")

\* How far main, Uvicorn and the handler still have to go.
Remaining ==
  LET place == CASE main = "migrate" -> 9 [] main = "poll" -> 8 [] main = "announce" -> 7
                 [] main = "wait" -> 6 [] main = "drain" -> 5 [] main = "join" -> 4
                 [] main \in {"abort", "force"} -> 3 [] main = "report" -> 2
                 [] OTHER -> 0
      uvicorn == CASE server = "starting" -> 2 [] server = "serving" -> 1 [] OTHER -> 0
      control == CASE handler = "idle" -> 2 [] handler = "called" -> 1 [] OTHER -> 0
  IN  4 * place + uvicorn + control

\* No step takes a pending start or stop back, and each of those that fairness is
\* about takes it forward.
PendingGoesForward ==
  Pending => /\ Remaining' <= Remaining
             /\ MainStep \/ SetsEvent \/ ServerExits => Remaining' < Remaining

LEMMA WaitsStep ==
  ASSUME HostInv, WaitsArePrepared, [Next]_vars
  PROVE  WaitsArePrepared'
<1> USE DEF HostInv, TypeOK, StatusFollowsMain, WaitsArePrepared
<1>1. CASE SCMStarts
  BY <1>1 DEF SCMStarts
<1>2. CASE MainStep
  BY <1>2 DEF MainStep, Migrates, Polls, Ready, DiedStarting, TimesOutStarting, Aborts,
              MarksRunning, StopSeen, Drained, SchedulerJoined, Forced, Reports,
              ProcessEnds
<1>3. CASE Control \/ SetsEvent \/ SchedulerEnds
  BY <1>3 DEF Control, SetsEvent, SchedulerEnds
<1>4. CASE ServerStarts \/ ServerCrashes \/ ServerExits \/ OldExits
  BY <1>4 DEF ServerStarts, ServerCrashes, ServerExits, OldExits, Alive
<1>5. CASE UNCHANGED vars
  BY <1>5 DEF vars, host
<1> QED BY <1>1, <1>2, <1>3, <1>4, <1>5 DEF Next

LEMMA HostGoesForward ==
  ASSUME HostInv, Next, Pending
  PROVE  /\ Remaining' <= Remaining
         /\ MainStep \/ SetsEvent \/ ServerExits => Remaining' < Remaining
<1> USE DEF HostInv, TypeOK, StatusFollowsMain, Pending, Remaining
<1>1. CASE MainStep
  <2>1. Remaining' < Remaining
    BY <1>1 DEF MainStep, Migrates, Polls, Ready, DiedStarting, TimesOutStarting, Aborts,
                MarksRunning, StopSeen, Drained, SchedulerJoined, Forced, Reports,
                ProcessEnds
  <2>2. Remaining \in Nat /\ Remaining' \in Nat
    OBVIOUS
  <2> HIDE DEF Remaining
  <2> QED BY <2>1, <2>2
<1>2. CASE SetsEvent
  BY <1>2 DEF SetsEvent
<1>3. CASE ServerExits
  BY <1>3 DEF ServerExits, Alive
<1>4. CASE SCMStarts \/ Control
  BY <1>4 DEF SCMStarts, Control, AcceptsStop
<1>5. CASE (SchedulerEnds \/ OldExits) /\ ~MainStep /\ ~SetsEvent /\ ~ServerExits
  BY <1>5 DEF SchedulerEnds, OldExits
<1>6. CASE (ServerStarts \/ ServerCrashes) /\ ~MainStep /\ ~SetsEvent /\ ~ServerExits
  BY <1>6 DEF ServerStarts, ServerCrashes
<1> QED BY <1>1, <1>2, <1>3, <1>4, <1>5, <1>6 DEF Next

\* Nobody waits for nobody: PendingCanMove holds in every state.
THEOREM PendingIsNeverStuck == MachineSpec => []PendingCanMove
<1>1. MachineInit => HostInv /\ WaitsArePrepared
  BY HostInit DEF MachineInit, Init, WaitsArePrepared
<1>2. HostInv /\ WaitsArePrepared /\ [MachineNext]_machineVars =>
        (HostInv /\ WaitsArePrepared)'
  BY PartsStep, HostStep, WaitsStep
<1>3. ASSUME HostInv, WaitsArePrepared PROVE PendingCanMove
  <2>1. Joined \/ Alive
    BY DEF Joined
  <2> QED
    BY <1>3, <2>1 DEF HostInv, TypeOK, StatusFollowsMain, WaitsArePrepared,
                     PendingCanMove, Pending
<1> QED BY <1>1, <1>2, <1>3, PTL DEF MachineSpec

\* What is pending comes nearer its end with every step of main, of the handler and
\* of a Uvicorn told to end, and no step takes it back.
THEOREM PendingRunsDown == MachineSpec => [][PendingGoesForward]_vars
<1>1. HostInv /\ [MachineNext]_machineVars => [PendingGoesForward]_vars
  BY PartsStep, HostGoesForward DEF PendingGoesForward
<1> QED BY <1>1, HostInvariant, PTL DEF MachineSpec

-----------------------------------------------------------------------------
(***************************************************************************)
(* The settings file.                                                      *)
(***************************************************************************)

\* What a reader of the file gets: something a user saved, or the defaults.
FileWasSaved == config \in saved \cup {NoFile, TornFile}

RoundWasSaved == /\ round.pc # "waiting" => round.with \in saved \cup {Default}
                 /\ round.pc = "prune" => round.with.schedule # "off"

SettingsInv == SettingsTypeOK /\ FileWasSaved /\ RoundWasSaved

LEMMA DefaultType == Default \in Setting /\ Waiting \in Round /\ Waiting.pc = "waiting"
BY SettingsConstants DEF Default, Setting, Waiting, Round

LEMMA LoadedType ==
  ASSUME SettingsTypeOK
  PROVE  Loaded \in Setting
BY DefaultType DEF SettingsTypeOK, Loaded

LEMMA LoadedWasSaved ==
  ASSUME SettingsInv
  PROVE  Loaded \in saved \cup {Default}
BY SettingsConstants DEF SettingsInv, SettingsTypeOK, FileWasSaved, Loaded

LEMMA SettingsInitInv ==
  ASSUME SettingsInit
  PROVE  SettingsInv
<1>1. SettingsTypeOK
  BY DefaultType, SettingsConstants DEF SettingsInit, SettingsTypeOK, Window
<1>2. FileWasSaved /\ RoundWasSaved
  BY DefaultType DEF SettingsInit, FileWasSaved, RoundWasSaved
<1> QED BY <1>1, <1>2 DEF SettingsInv

LEMMA WindowStepInv ==
  ASSUME SettingsInv, NEW w \in Windows, WindowStep(w)
  PROVE  SettingsInv'
<1> USE DEF SettingsInv, SettingsTypeOK, FileWasSaved, RoundWasSaved
<1>1. CASE OpenWindow(w)
  BY <1>1, LoadedType DEF OpenWindow, Window
<1>2. CASE EditForm(w)
  BY <1>2 DEF EditForm, Window
<1>3. CASE BeginSave(w)
  BY <1>3 DEF BeginSave, Window
<1>4. CASE FinishSave(w)
  <2>1. windows[w].form \in Setting
    BY DEF Window
  <2> QED BY <1>4, <2>1 DEF FinishSave, Window
<1>5. CASE SaveFails(w)
  BY <1>5, SettingsConstants DEF SaveFails, SettingFault, Window
<1>6. CASE RestartRefused(w)
  BY <1>6 DEF RestartRefused, Window
<1>7. CASE RestartStops(w)
  BY <1>7, DefaultType DEF RestartStops, Window
<1>8. CASE RestartStarts(w)
  BY <1>8, LoadedType DEF RestartStarts, Window
<1> QED BY <1>1, <1>2, <1>3, <1>4, <1>5, <1>6, <1>7, <1>8 DEF WindowStep

LEMMA SettingsStep ==
  ASSUME SettingsInv, [SettingsNext]_settingsVars
  PROVE  SettingsInv'
<1> USE DEF SettingsInv, SettingsTypeOK, FileWasSaved, RoundWasSaved
<1>1. CASE ServiceStarts
  BY <1>1, LoadedType DEF ServiceStarts
<1>2. CASE ServiceStops
  BY <1>2, DefaultType DEF ServiceStops
<1>3. CASE PowerGoes
  <2>1. windows' \in [Windows -> Window]
    BY <1>3, LoadedType DEF PowerGoes, Window
  <2> QED BY <1>3, <2>1, DefaultType, SettingsConstants DEF PowerGoes, SettingFault
<1>4. CASE RoundLoads
  <2>1. round' \in Round /\ round'.pc = "loaded" /\ round'.with \in saved \cup {Default}
    BY <1>4, LoadedType, LoadedWasSaved DEF RoundLoads, Provided, Round
  <2> QED BY <1>4, <2>1 DEF RoundLoads
<1>5. CASE RoundEnds \/ RoundPrunes
  BY <1>5, DefaultType DEF RoundEnds, RoundPrunes
<1>6. CASE RoundBacksUp
  BY <1>6 DEF RoundBacksUp, Round
<1>7. CASE UNCHANGED settingsVars
  BY <1>7 DEF settingsVars
<1> QED
  BY <1>1, <1>2, <1>3, <1>4, <1>5, <1>6, <1>7, WindowStepInv DEF SettingsNext, RoundStep

\* No archive is removed by a retention nobody saved together with a schedule: a
\* reader of a file cut off gets the defaults, and those have the schedule "off".
THEOREM PrunesAsConfigured == MachineSpec => []PruneOnlyAsConfigured
<1>1. MachineInit => SettingsInv
  BY SettingsInitInv DEF MachineInit
<1>2. SettingsInv /\ [MachineNext]_machineVars => SettingsInv'
  BY PartsStep, SettingsStep
<1>3. SettingsInv => PruneOnlyAsConfigured
  BY DEF SettingsInv, RoundWasSaved, PruneOnlyAsConfigured, Default
<1> QED BY <1>1, <1>2, <1>3, PTL DEF MachineSpec

-----------------------------------------------------------------------------
(***************************************************************************)
(* The identity file.                                                      *)
(***************************************************************************)

LoneCreator == \A a, b \in Creators : a = b

CreatorsHaveIds == \A a \in Creators : askers[a].id \in Ids

\* A file that is whole was written by the last creator there will be, and every
\* answer given so far is what it holds.
FileIsTheAnswer == /\ idFile \in Ids => Creators = {}
                   /\ answers # {} => idFile \in Ids /\ answers = {idFile}

IdentityInv == /\ IdentityTypeOK /\ CreatorsHaveIds
               /\ ~raced => LoneCreator /\ FileIsTheAnswer

LEMMA IdentityInitInv ==
  ASSUME IdentityInit
  PROVE  IdentityInv
<1>1. IdentityTypeOK
  BY IdentityConstants DEF IdentityInit, IdentityTypeOK, Asker, NotAsking
<1>2. Creators = {}
  BY DEF IdentityInit, Creators, NotAsking
<1> QED
  BY <1>1, <1>2
     DEF IdentityInv, IdentityInit, LoneCreator, CreatorsHaveIds, FileIsTheAnswer

LEMMA IdentityStepType ==
  ASSUME IdentityTypeOK, CreatorsHaveIds, [IdentityNext]_identityVars
  PROVE  IdentityTypeOK' /\ CreatorsHaveIds'
<1> USE DEF IdentityTypeOK, CreatorsHaveIds, Creators
<1>1. ASSUME NEW a \in Askers, LooksForFile(a), raced' \in BOOLEAN
      PROVE  IdentityTypeOK' /\ CreatorsHaveIds'
  BY <1>1 DEF LooksForFile, Asker
<1>2. ASSUME NEW a \in Askers, ReadsFile(a) \/ CutsFile(a) \/ FillsFile(a) \/ FillFails(a),
             raced' \in BOOLEAN
      PROVE  IdentityTypeOK' /\ CreatorsHaveIds'
  BY <1>2, IdentityConstants
     DEF ReadsFile, CutsFile, FillsFile, FillFails, IdFault, Returns, NotAsking, Asker
<1>3. CASE ProcessesKilled /\ raced' \in BOOLEAN
  BY <1>3, IdentityConstants DEF ProcessesKilled, IdFault, NotAsking, Asker
<1>4. CASE UNCHANGED identityVars
  BY <1>4 DEF identityVars
<1> QED BY <1>1, <1>2, <1>3, <1>4 DEF IdentityNext

\* Cardinality says what the history variable is about.
LEMMA UncontestedIsLone ==
  ASSUME NEW S \in SUBSET Askers, ~(Cardinality(S) > 1)
  PROVE  \A a, b \in S : a = b
<1> SUFFICES ASSUME NEW a \in S, NEW b \in S, a # b
             PROVE  FALSE
  OBVIOUS
<1>1. IsFiniteSet(S) /\ Cardinality(S) \in Nat
  BY FS_Subset, FS_CardinalityType, IdentityConstants
<1>2. IsFiniteSet({a}) /\ Cardinality({a}) = 1
  BY FS_Singleton
<1>3. Cardinality({a} \cup {b}) = 2
  BY <1>2, FS_AddElement, b \notin {a}
<1>4. Cardinality({a} \cup {b}) <= Cardinality(S)
  BY <1>1, FS_Subset
<1> QED BY <1>1, <1>3, <1>4

LEMMA IdentityStep ==
  ASSUME IdentityInv, [IdentityNext]_identityVars
  PROVE  IdentityInv'
<1>1. IdentityTypeOK' /\ CreatorsHaveIds'
  BY IdentityStepType DEF IdentityInv
<1>2. CASE UNCHANGED identityVars
  BY <1>1, <1>2
     DEF identityVars, IdentityInv, LoneCreator, FileIsTheAnswer, Creators
<1>3. ASSUME IdentityNext, ~raced'
      PROVE  LoneCreator' /\ FileIsTheAnswer'
  <2>1. ~raced /\ ~(Cardinality(Creators') > 1)
    BY <1>3 DEF IdentityNext
  <2>2. LoneCreator'
    <3>1. Creators' \in SUBSET Askers
      BY DEF Creators
    <3> QED BY <2>1, <3>1, UncontestedIsLone DEF LoneCreator
  <2>3. LoneCreator /\ FileIsTheAnswer /\ IdentityTypeOK /\ CreatorsHaveIds
    BY <2>1 DEF IdentityInv
  <2> USE DEF FileIsTheAnswer, IdentityTypeOK, Creators
  <2>4. ASSUME NEW a \in Askers, LooksForFile(a)
        PROVE  FileIsTheAnswer'
    BY <2>3, <2>4, IdentityConstants DEF LooksForFile, Found, Asker
  <2>5. ASSUME NEW a \in Askers, ReadsFile(a)
        PROVE  FileIsTheAnswer'
    BY <2>3, <2>5 DEF ReadsFile, Returns, NotAsking, Asker
  <2>6. ASSUME NEW a \in Askers, CutsFile(a)
        PROVE  FileIsTheAnswer'
    <3>1. a \in Creators /\ answers = {}
      BY <2>3, <2>6 DEF CutsFile
    <3> QED BY <2>6, <3>1, IdentityConstants DEF CutsFile
  <2>7. ASSUME NEW a \in Askers, FillsFile(a)
        PROVE  FileIsTheAnswer'
    <3>1. a \in Creators /\ askers[a].id \in Ids /\ answers = {}
      BY <2>3, <2>7 DEF FillsFile, CreatorsHaveIds
    <3>2. Creators' = {}
      BY <2>3, <2>7, <3>1 DEF FillsFile, LoneCreator, Returns, NotAsking
    <3> QED BY <2>7, <3>1, <3>2 DEF FillsFile
  <2>8. ASSUME NEW a \in Askers, FillFails(a)
        PROVE  FileIsTheAnswer'
    BY <2>3, <2>8 DEF FillFails, Returns, NotAsking
  <2>9. CASE ProcessesKilled
    <3>1. Creators' = {}
      BY <2>9 DEF ProcessesKilled, NotAsking
    <3> QED BY <2>2, <2>3, <2>9, <3>1 DEF ProcessesKilled
  <2> QED BY <1>3, <2>2, <2>4, <2>5, <2>6, <2>7, <2>8, <2>9 DEF IdentityNext
<1> QED BY <1>1, <1>2, <1>3 DEF IdentityInv

\* All calls that ever return, across crashes, return one identity, unless two
\* first calls were creating the file at once.
THEOREM IdentityStable == MachineSpec => []IdentityIsStable
<1>1. MachineInit => IdentityInv
  BY IdentityInitInv DEF MachineInit
<1>2. IdentityInv /\ [MachineNext]_machineVars => IdentityInv'
  BY PartsStep, IdentityStep
<1>3. IdentityInv => IdentityIsStable
  <2>1. Cardinality({}) = 0 /\ Cardinality({idFile}) = 1
    BY FS_EmptySet, FS_Singleton
  <2> QED BY <2>1 DEF IdentityInv, FileIsTheAnswer, IdentityIsStable
<1> QED BY <1>1, <1>2, <1>3, PTL DEF MachineSpec

-----------------------------------------------------------------------------
(***************************************************************************)
(* The image files.                                                        *)
(***************************************************************************)

Uploading(h) == handlers[h].pc \in {"uploadData", "uploadMeta"}

\* Nobody but its uploader knows an image whose upload has not answered.
UploadsAreFresh ==
  \A h \in Handlers : Uploading(h) =>
    /\ handlers[h].image \in Images \ known
    /\ \A g \in Handlers \ {h} : handlers[g].image # handlers[h].image

OthersAreKnown ==
  \A h \in Handlers : handlers[h].pc # "idle" /\ ~Uploading(h) => handlers[h].image \in known

\* A DELETE that is about to look for the metadata or to remove it has seen the data
\* gone for good, or removed it.
DataGoesFirst == \A h \in Handlers :
  At(h, "lookMeta") \/ At(h, "deleteMeta") => handlers[h].image \notin data

GoneIsKnown == gone \subseteq known

MediaInv == /\ MediaTypeOK /\ UploadsAreFresh /\ OthersAreKnown /\ DataGoesFirst
            /\ GoneIsKnown /\ DeletedLeavesNothing

LEMMA MediaInitInv ==
  ASSUME MediaInit
  PROVE  MediaInv
BY MediaConstants
   DEF MediaInit, MediaInv, MediaTypeOK, Handler, Idle, UploadsAreFresh, OthersAreKnown,
       DataGoesFirst, GoneIsKnown, DeletedLeavesNothing, Uploading, At

\* The steps of one request.
LEMMA MediaStepUpload ==
  ASSUME MediaInv, NEW h \in Handlers,
         StartUpload(h) \/ WriteMeta(h) \/ FinishUpload(h) \/ UploadFails(h)
  PROVE  MediaInv'
<1> USE MediaConstants
    DEF MediaInv, MediaTypeOK, Handler, Idle, UploadsAreFresh, OthersAreKnown,
        DataGoesFirst, GoneIsKnown, DeletedLeavesNothing, Uploading, At, Goes, Answers
<1>1. CASE StartUpload(h)
  <2>1. PICK i \in Images \ (data \cup known) :
          /\ \A g \in Handlers : handlers[g].image # i
          /\ handlers' = [handlers EXCEPT ![h] = [pc |-> "uploadData", image |-> i]]
          /\ data' = data \cup {i}
    BY <1>1 DEF StartUpload
  <2> QED BY <1>1, <2>1 DEF StartUpload
<1>2. CASE WriteMeta(h)
  BY <1>2 DEF WriteMeta
<1>3. CASE FinishUpload(h)
  BY <1>3 DEF FinishUpload
<1>4. CASE UploadFails(h)
  BY <1>4 DEF UploadFails, MediaFault
<1> QED BY <1>1, <1>2, <1>3, <1>4

LEMMA MediaStepOther ==
  ASSUME MediaInv, NEW h \in Handlers,
         \/ StartDeleteImage(h) \/ LooksForMeta(h) \/ UnlinkData(h) \/ UnlinkMeta(h)
         \/ StartGet(h) \/ ReadMeta(h) \/ OpenData(h) \/ FinishGet(h)
  PROVE  MediaInv'
<1> USE MediaConstants
    DEF MediaInv, MediaTypeOK, Handler, Idle, UploadsAreFresh, OthersAreKnown,
        DataGoesFirst, GoneIsKnown, DeletedLeavesNothing, Uploading, At, Goes, Answers
<1>1. CASE StartDeleteImage(h)
  <2>1. PICK i \in known :
          handlers' = [handlers EXCEPT ![h] =
            [pc |-> IF i \in data THEN "deleteData" ELSE "lookMeta", image |-> i]]
    BY <1>1 DEF StartDeleteImage
  <2>2. i \in Images
    OBVIOUS
  <2>3. CASE i \in data
    BY <1>1, <2>1, <2>2, <2>3 DEF StartDeleteImage
  <2>4. CASE i \notin data
    BY <1>1, <2>1, <2>2, <2>4 DEF StartDeleteImage
  <2> QED BY <2>3, <2>4
<1>2. CASE UnlinkData(h)
  BY <1>2 DEF UnlinkData
<1>3. CASE UnlinkMeta(h)
  BY <1>3 DEF UnlinkMeta
<1>4. CASE StartGet(h)
  BY <1>4 DEF StartGet
<1>5. CASE ReadMeta(h) \/ OpenData(h)
  BY <1>5 DEF ReadMeta, OpenData, Then
<1>6. CASE FinishGet(h)
  BY <1>6 DEF FinishGet
<1>7. CASE LooksForMeta(h)
  <2>1. CASE NotFound(handlers[h].image)
    BY <1>7, <2>1 DEF LooksForMeta, NotFound
  <2>2. CASE ~NotFound(handlers[h].image)
    BY <1>7, <2>2 DEF LooksForMeta
  <2> QED BY <2>1, <2>2
<1> QED BY <1>1, <1>2, <1>3, <1>4, <1>5, <1>6, <1>7

LEMMA MediaStep ==
  ASSUME MediaInv, [MediaNext]_mediaVars
  PROVE  MediaInv'
<1>1. CASE ServerKilled
  BY <1>1, MediaConstants
     DEF ServerKilled, MediaFault, MediaInv, MediaTypeOK, Handler, Idle, UploadsAreFresh,
         OthersAreKnown, DataGoesFirst, GoneIsKnown, DeletedLeavesNothing, Uploading, At
<1>2. CASE UNCHANGED mediaVars
  BY <1>2
     DEF mediaVars, MediaInv, MediaTypeOK, UploadsAreFresh, OthersAreKnown,
         DataGoesFirst, GoneIsKnown, DeletedLeavesNothing, Uploading, At
<1> QED BY <1>1, <1>2, MediaStepUpload, MediaStepOther DEF MediaNext

\* Once a DELETE has answered, neither file of the image is left, though DELETEs
\* overlap, are killed between the two files, or overlap downloads and uploads.
THEOREM DeletedIsGone == MachineSpec => []DeletedLeavesNothing
<1>1. MachineInit => MediaInv
  BY MediaInitInv DEF MachineInit
<1>2. MediaInv /\ [MachineNext]_machineVars => MediaInv'
  BY PartsStep, MediaStep
<1>3. MediaInv => DeletedLeavesNothing
  BY DEF MediaInv
<1> QED BY <1>1, <1>2, <1>3, PTL DEF MachineSpec

-----------------------------------------------------------------------------
(***************************************************************************)
(* The update of the program.                                              *)
(***************************************************************************)

\* A question that is open is about a release that is newer than what is
\* installed: the installer that replaces it ends the window.
OffersAreNewer ==
  \A w \in Updaters : updaters[w].pc # "idle" =>
    /\ updaters[w].release \in Releases
    /\ Newer(updaters[w].release.version, installed)

\* A file stays what its last verification found until a window writes it.
VerifiedIsGood ==
  \A w \in Updaters :
    updaters[w].pc = "confirm" /\ updaters[w].release.digest /\ updaters[w].alone
      => installers[updaters[w].release] = "good"

UpdatesInv == UpdatesTypeOK /\ OffersAreNewer /\ VerifiedIsGood

LEMMA NotUpdatingType ==
  /\ NotUpdating \in Updater /\ NotUpdating.pc = "idle"
  /\ \A r \in Releases :
       LET offer == [NotUpdating EXCEPT !.pc = "offer", !.release = r]
       IN  offer \in Updater /\ offer.pc = "offer" /\ offer.release = r
BY DEF NotUpdating, Updater

LEMMA UpdatesInitInv ==
  ASSUME UpdatesInit
  PROVE  UpdatesInv
BY UpdatesConstants, NotUpdatingType
   DEF UpdatesInit, UpdatesInv, UpdatesTypeOK, OffersAreNewer, VerifiedIsGood, Content

\* What overtaking leaves: only the mark of those who asked about r goes.
LEMMA OvertakenType ==
  ASSUME UpdatesTypeOK, NEW w \in Updaters, NEW r
  PROVE  /\ OvertakenBy(w, r) \in [Updaters -> Updater]
         /\ \A v \in Updaters :
              /\ OvertakenBy(w, r)[v].pc = updaters[v].pc
              /\ OvertakenBy(w, r)[v].release = updaters[v].release
              /\ OvertakenBy(w, r)[v].alone <=>
                   updaters[v].alone /\ (v = w \/ updaters[v].release # r)
<1> SUFFICES ASSUME NEW v \in Updaters
             PROVE  LET u == [updaters[v] EXCEPT
                               !.alone = updaters[v].alone /\ (v = w \/ updaters[v].release # r)]
                    IN  /\ u \in Updater
                        /\ u.pc = updaters[v].pc /\ u.release = updaters[v].release
                        /\ u.alone <=> updaters[v].alone /\ (v = w \/ updaters[v].release # r)
  BY DEF OvertakenBy
<1> QED BY DEF UpdatesTypeOK, Updater

\* A window that writes the file takes everybody's verification of it away, its
\* own by its place.
LEMMA WritingStep ==
  ASSUME UpdatesInv, NEW w \in Updaters, updaters[w].pc # "idle",
         NEW pc \in {"fetch", "verify"}, NEW c \in Content,
         updaters' = [OvertakenBy(w, updaters[w].release) EXCEPT ![w].pc = pc],
         installers' = [installers EXCEPT ![updaters[w].release] = c],
         UNCHANGED <<latest, installed, running>>
  PROVE  UpdatesInv'
<1> DEFINE r == updaters[w].release
           O == OvertakenBy(w, r)
<1>1. /\ O \in [Updaters -> Updater]
      /\ \A v \in Updaters : /\ O[v].pc = updaters[v].pc
                             /\ O[v].release = updaters[v].release
                             /\ O[v].alone => v = w \/ (updaters[v].alone /\ updaters[v].release # r)
  BY OvertakenType DEF UpdatesInv
<1>2. updaters' = [O EXCEPT ![w].pc = pc]
  OBVIOUS
<1>3. r \in Releases
  BY DEF UpdatesInv, OffersAreNewer
<1> HIDE DEF r, O
<1>4. updaters' \in [Updaters -> Updater]
  <2>1. [O[w] EXCEPT !.pc = pc] \in Updater
    BY <1>1 DEF Updater
  <2> QED BY <1>1, <1>2, <2>1
<1>5. \A v \in Updaters : /\ updaters'[v].pc = IF v = w THEN pc ELSE updaters[v].pc
                          /\ updaters'[v].release = updaters[v].release
                          /\ v # w /\ updaters'[v].alone =>
                               updaters[v].alone /\ updaters[v].release # r
  <2> TAKE v \in Updaters
  <2>1. CASE v = w
    BY <1>1, <1>2, <2>1 DEF Updater
  <2>2. CASE v # w
    BY <1>1, <1>2, <2>2
  <2> QED BY <2>1, <2>2
<1>6. UpdatesTypeOK'
  BY <1>4 DEF UpdatesInv, UpdatesTypeOK
<1>7. OffersAreNewer'
  BY <1>5 DEF UpdatesInv, OffersAreNewer
<1>8. VerifiedIsGood'
  <2> SUFFICES ASSUME NEW v \in Updaters, updaters'[v].pc = "confirm",
                      updaters'[v].release.digest, updaters'[v].alone
               PROVE  installers'[updaters'[v].release] = "good"
    BY DEF VerifiedIsGood
  <2>1. v # w /\ updaters[v].pc = "confirm" /\ updaters[v].release # r
    BY <1>5
  <2>2. installers[updaters[v].release] = "good" /\ updaters[v].release \in Releases
    BY <1>5, <2>1 DEF UpdatesInv, VerifiedIsGood, OffersAreNewer
  <2> QED BY <1>5, <2>1, <2>2 DEF UpdatesInv, UpdatesTypeOK, r
<1> QED BY <1>6, <1>7, <1>8 DEF UpdatesInv

LEMMA ConfirmingType ==
  ASSUME NEW u \in Updater
  PROVE  LET confirming == [[u EXCEPT !.pc = "confirm"] EXCEPT !.alone = TRUE]
         IN  confirming \in Updater /\ confirming.release = u.release
<1> DEFINE asking == [u EXCEPT !.pc = "confirm"]
<1>1. asking \in Updater /\ asking.release = u.release
  BY DEF Updater
<1> HIDE DEF asking
<1>2. [asking EXCEPT !.alone = TRUE] \in Updater
  BY <1>1 DEF Updater
<1>3. [asking EXCEPT !.alone = TRUE].release = asking.release
  BY <1>1 DEF Updater
<1> QED BY <1>1, <1>2, <1>3 DEF asking

LEMMA AcceptingType ==
  ASSUME NEW u \in Updater
  PROVE  LET connecting == [u EXCEPT !.pc = "connect"]
         IN  /\ connecting \in Updater /\ connecting.pc = "connect"
             /\ connecting.release = u.release
BY DEF Updater

LEMMA UpdatesWindowStep ==
  ASSUME UpdatesInv, NEW w \in Updaters,
         \/ ChecksForUpdates(w) \/ Declines(w) \/ Accepts(w) \/ Opens(w)
         \/ Fetched(w) \/ Verified(w) \/ Mismatch(w) \/ Launches(w) \/ Fails(w)
  PROVE  UpdatesInv'
<1>1. CASE Opens(w)
  BY <1>1, WritingStep DEF Opens, Content
<1>2. CASE Fetched(w)
  BY <1>2, WritingStep DEF Fetched, Content
<1> USE UpdatesConstants, NotUpdatingType
    DEF UpdatesInv, UpdatesTypeOK, OffersAreNewer, VerifiedIsGood, Give, Content
<1>3. CASE Accepts(w)
  <2> DEFINE connecting == [updaters[w] EXCEPT !.pc = "connect"]
  <2>1. /\ connecting \in Updater /\ connecting.pc = "connect"
        /\ connecting.release = updaters[w].release
    BY AcceptingType DEF UpdatesInv, UpdatesTypeOK
  <2>2. /\ updaters' = [updaters EXCEPT ![w] = connecting] /\ updaters[w].pc # "idle"
        /\ UNCHANGED <<latest, installed, installers, running>>
    BY <1>3 DEF Accepts, Fetches
  <2> HIDE DEF connecting
  <2> QED BY <2>1, <2>2
<1>4. CASE ChecksForUpdates(w)
  BY <1>4 DEF ChecksForUpdates
<1>5. CASE Declines(w)
  BY <1>5 DEF Declines
<1>6. CASE Verified(w)
  <2> DEFINE confirming == [[updaters[w] EXCEPT !.pc = "confirm"] EXCEPT !.alone = TRUE]
  <2>1. confirming \in Updater /\ confirming.release = updaters[w].release
    BY ConfirmingType DEF UpdatesInv, UpdatesTypeOK
  <2>2. updaters' = [updaters EXCEPT ![w] = confirming]
    BY <1>6 DEF Verified
  <2>3. /\ updaters[w].pc # "idle"
        /\ updaters[w].release.digest => installers[updaters[w].release] = "good"
        /\ UNCHANGED <<latest, installed, installers, running>>
    BY <1>6 DEF Verified
  <2> QED BY <2>1, <2>2, <2>3
<1>7. CASE Mismatch(w)
  <2> DEFINE r == updaters[w].release
  <2>1. /\ updaters' = [updaters EXCEPT ![w] = NotUpdating]
        /\ installers[r] # "good" /\ r \in Releases
        /\ UNCHANGED <<latest, installed, running>>
    BY <1>7 DEF Mismatch
  <2>2. \/ installers' = installers
        \/ installers' = [installers EXCEPT ![r] = "none"]
    BY <1>7 DEF Mismatch
  <2>3. \A v \in Updaters : v # w => updaters'[v] = updaters[v]
    BY <2>1
  <2>4. installers' \in [Releases -> Content]
        /\ \A q \in Releases : installers[q] = "good" => installers'[q] = "good"
    <3>1. CASE installers' = installers
      BY <3>1
    <3>2. CASE installers' = [installers EXCEPT ![r] = "none"]
      <4> HIDE DEF r
      <4> QED BY <2>1, <3>2
    <3> QED BY <2>2, <3>1, <3>2
  <2> QED BY <2>1, <2>3, <2>4
<1>8. CASE Launches(w)
  BY <1>8 DEF Launches
<1>9. CASE Fails(w)
  BY <1>9 DEF Fails
<1> QED BY <1>1, <1>2, <1>3, <1>4, <1>5, <1>6, <1>7, <1>8, <1>9

LEMMA UpdatesStep ==
  ASSUME UpdatesInv, [UpdatesNext]_updatesVars
  PROVE  UpdatesInv'
<1> USE UpdatesConstants, NotUpdatingType
    DEF UpdatesInv, UpdatesTypeOK, OffersAreNewer, VerifiedIsGood
<1>1. CASE Publishes
  BY <1>1 DEF Publishes
<1>2. CASE InstallerRuns
  <2>1. installed' \in VersionKey /\ running' \subseteq Releases
    <3>1. PICK r \in running : installed' = r.version /\ running' = running \ {r}
      BY <1>2 DEF InstallerRuns
    <3>2. r \in Release
      OBVIOUS
    <3> QED BY <3>1, <3>2 DEF Release
  <2> QED BY <1>2, <2>1 DEF InstallerRuns
<1>3. CASE UNCHANGED updatesVars
  BY <1>3 DEF updatesVars
<1> QED BY <1>1, <1>2, <1>3, UpdatesWindowStep DEF UpdatesNext

\* What a window launches is newer than what is installed and, if it states a
\* digest and no other window wrote the file since, the published installer.
THEOREM LaunchIsVerified == MachineSpec => LoneLaunchIsVerified
<1>1. MachineInit => UpdatesInv
  BY UpdatesInitInv DEF MachineInit
<1>2. UpdatesInv /\ [MachineNext]_machineVars => UpdatesInv'
  BY PartsStep, UpdatesStep
<1>3. UpdatesInv =>
        [\A w \in Updaters :
           LET r == updaters[w].release
           IN  updaters[w].pc = "confirm" /\ running' # running /\ updaters'[w].pc = "idle"
                 => /\ Newer(r.version, installed)
                    /\ r.digest /\ updaters[w].alone => installers[r] = "good"]_updatesVars
  BY DEF UpdatesInv, OffersAreNewer, VerifiedIsGood
<1> QED BY <1>1, <1>2, <1>3, PTL DEF MachineSpec, LoneLaunchIsVerified

-----------------------------------------------------------------------------
(***************************************************************************)
(* The throttle of the sign-in.                                            *)
(***************************************************************************)

Times == Seq(0..MaxClock)

LEMMA TimesAreNat ==
  ASSUME NEW times \in Times
  PROVE  /\ Len(times) \in Nat
         /\ \A i \in 1..Len(times) : times[i] \in 0..MaxClock /\ times[i] \in Nat
<1>1. Len(times) \in Nat /\ times \in [1..Len(times) -> 0..MaxClock]
  BY LenProperties DEF Times
<1> QED BY <1>1, SignInConstants

\* What _prune_failures removes: the times up to the first that is in the window.
LEMMA ExpiredProperties ==
  ASSUME NEW times \in Times, NEW now \in Nat
  PROVE  /\ Expired(times, now) \in 0..Len(times)
         /\ \A i \in 1..Expired(times, now) : now - times[i] > LoginWindow
         /\ Expired(times, now) < Len(times) =>
              now - times[Expired(times, now) + 1] <= LoginWindow
<1> DEFINE S == {n \in 0..Len(times) : n < Len(times) => now - times[n + 1] <= LoginWindow}
<1>1. Len(times) \in S /\ S \in SUBSET Nat
  BY DEF Times
<1>2. PICK m \in S : \A n \in S : m <= n
  <2> HIDE DEF S
  <2> QED BY <1>1, LeastNatural
<1>3. Expired(times, now) \in S /\ \A n \in S : Expired(times, now) <= n
  <2>1. Expired(times, now) = CHOOSE x \in S : \A y \in S : x <= y
    BY DEF Expired, Min
  <2> HIDE DEF S
  <2> QED BY <1>2, <2>1
<1>4. ASSUME NEW i \in 1..Expired(times, now)
      PROVE  now - times[i] > LoginWindow
  <2>1. Expired(times, now) \in 0..Len(times) /\ Len(times) \in Nat
    BY <1>3 DEF Times
  <2>2. i - 1 \in 0..Len(times) /\ i - 1 < Len(times) /\ i \in 1..Len(times)
    BY <2>1
  <2>3. i - 1 \notin S
    <3> HIDE DEF S
    <3> QED BY <1>3, <2>1
  <2>4. times[i] \in Nat /\ i - 1 + 1 = i
    BY <2>2, TimesAreNat
  <2> QED BY <2>2, <2>3, <2>4, SignInConstants
<1> QED BY <1>3, <1>4

\* There is one number with these properties.
LEMMA ExpiredIs ==
  ASSUME NEW times \in Times, NEW now \in Nat, NEW n \in 0..Len(times),
         \A i \in 1..n : now - times[i] > LoginWindow,
         n < Len(times) => now - times[n + 1] <= LoginWindow
  PROVE  Expired(times, now) = n
<1> DEFINE e == Expired(times, now)
<1>1. /\ e \in 0..Len(times)
      /\ \A i \in 1..e : now - times[i] > LoginWindow
      /\ e < Len(times) => now - times[e + 1] <= LoginWindow
  BY ExpiredProperties
<1> HIDE DEF e
<1>2. Len(times) \in Nat /\ LoginWindow \in Nat /\ \A i \in 1..Len(times) : times[i] \in Nat
  BY SignInConstants, TimesAreNat
<1>3. ~(e < n)
  <2> SUFFICES ASSUME e < n PROVE FALSE
    OBVIOUS
  <2>1. e + 1 \in 1..n
    BY <1>1
  <2> QED BY <1>1, <1>2, <2>1
<1>4. ~(n < e)
  <2> SUFFICES ASSUME n < e PROVE FALSE
    OBVIOUS
  <2>1. n + 1 \in 1..e
    BY <1>1
  <2> QED BY <1>1, <1>2, <2>1
<1> QED BY <1>1, <1>3, <1>4 DEF e

LEMMA RecentProperties ==
  ASSUME NEW times \in Times, NEW now \in Nat
  PROVE  LET e == Expired(times, now)
             r == Recent(times, now)
         IN  /\ r \in Times
             /\ Len(r) = Len(times) - e
             /\ \A i \in 1..Len(r) : r[i] = times[i + e]
<1> DEFINE e == Expired(times, now)
<1>1. e \in 0..Len(times) /\ Len(times) \in Nat
  BY ExpiredProperties DEF Times
<1> HIDE DEF e
<1>2. e + 1 \in 1..(Len(times) + 1)
  BY <1>1
<1>3. /\ SubSeq(times, e + 1, Len(times)) \in Times
      /\ Len(SubSeq(times, e + 1, Len(times))) = Len(times) - e
      /\ \A i \in 1..(Len(times) - e) : SubSeq(times, e + 1, Len(times))[i] = times[i + e]
  <2>1. \A i \in (e + 1)..Len(times) : times[i] \in 0..MaxClock
    BY <1>1, TimesAreNat
  <2>2. e + 1 \in Int /\ Len(times) \in Int
    BY <1>1
  <2>3. /\ SubSeq(times, e + 1, Len(times)) \in Times
        /\ Len(SubSeq(times, e + 1, Len(times)))
             = IF e + 1 <= Len(times) THEN Len(times) - (e + 1) + 1 ELSE 0
        /\ \A i \in 1..(Len(times) - (e + 1) + 1) :
             SubSeq(times, e + 1, Len(times))[i] = times[e + 1 + i - 1]
    BY <2>1, <2>2, SubSeqProperties DEF Times
  <2>4. \A i \in 1..(Len(times) - e) : e + 1 + i - 1 = i + e
    BY <1>1
  <2> QED BY <1>1, <2>3, <2>4
<1> QED BY <1>3 DEF Recent, e

\* Time only takes from what is in the window.
LEMMA RecentShrinks ==
  ASSUME NEW times \in Times, NEW now \in Nat, NEW next \in Nat, next = now + 1
  PROVE  Len(Recent(times, next)) <= Len(Recent(times, now))
<1> DEFINE e == Expired(times, now)
           f == Expired(times, next)
<1>1. e \in 0..Len(times) /\ \A i \in 1..e : now - times[i] > LoginWindow
  BY ExpiredProperties
<1>2. f \in 0..Len(times) /\ (f < Len(times) => next - times[f + 1] <= LoginWindow)
  BY ExpiredProperties
<1>3. Len(Recent(times, now)) = Len(times) - e /\ Len(Recent(times, next)) = Len(times) - f
  BY RecentProperties
<1> HIDE DEF e, f
<1>4. Len(times) \in Nat /\ LoginWindow \in Nat /\ \A i \in 1..Len(times) : times[i] \in Nat
  BY SignInConstants, TimesAreNat
<1>5. ~(f < e)
  <2> SUFFICES ASSUME f < e PROVE FALSE
    OBVIOUS
  <2>1. f + 1 \in 1..e /\ f < Len(times) /\ f + 1 \in 1..Len(times)
    BY <1>1, <1>2, <1>4
  <2> QED BY <1>1, <1>2, <1>4, <2>1
<1> QED BY <1>1, <1>2, <1>3, <1>4, <1>5

\* Pruning once is pruning for good while the clock stands, also when the time of
\* the clock is appended.
LEMMA AppendIsRecent ==
  ASSUME NEW times \in Times, NEW now \in 0..MaxClock
  PROVE  LET r == Append(Recent(times, now), now)
         IN  r \in Times /\ Recent(r, now) = r /\ Len(r) = Len(Recent(times, now)) + 1
<1> DEFINE old_ == Recent(times, now)
           r == Append(old_, now)
           e == Expired(times, now)
<1>1. /\ old_ \in Times /\ Len(old_) = Len(times) - e
      /\ \A i \in 1..Len(old_) : old_[i] = times[i + e]
      /\ e \in 0..Len(times)
      /\ e < Len(times) => now - times[e + 1] <= LoginWindow
  BY RecentProperties, ExpiredProperties, SignInConstants
<1>2. now \in Nat /\ Len(times) \in Nat /\ LoginWindow \in Nat
  BY SignInConstants DEF Times
<1> HIDE DEF old_, e
<1>3. r \in Times /\ Len(r) = Len(old_) + 1 /\ r[1] = IF Len(old_) = 0 THEN now ELSE old_[1]
  <2>1. /\ r \in Seq(0..MaxClock) /\ Len(r) = Len(old_) + 1
        /\ \A i \in 1..Len(old_) : r[i] = old_[i]
        /\ r[Len(old_) + 1] = now
    <3>1. old_ \in Seq(0..MaxClock)
      BY <1>1 DEF Times
    <3>2. /\ Append(old_, now) \in Seq(0..MaxClock)
          /\ Len(Append(old_, now)) = Len(old_) + 1
          /\ \A i \in 1..Len(old_) : Append(old_, now)[i] = old_[i]
          /\ Append(old_, now)[Len(old_) + 1] = now
      BY <3>1, AppendProperties
    <3> QED BY <3>2
  <2>2. Len(old_) \in Nat
    BY <1>1, TimesAreNat
  <2>3. CASE Len(old_) = 0
    BY <2>1, <2>3 DEF Times
  <2>4. CASE Len(old_) # 0
    BY <2>1, <2>2, <2>4 DEF Times
  <2> QED BY <2>3, <2>4
<1> HIDE DEF r
<1>4. now - r[1] <= LoginWindow
  BY <1>1, <1>2, <1>3
<1>5. Expired(r, now) = 0
  BY <1>1, <1>2, <1>3, <1>4, ExpiredIs
<1>6. Recent(r, now) = r
  BY <1>3, <1>5, SubSeqFull DEF Recent, Times
<1> QED BY <1>3, <1>6 DEF r, old_

\* A queue that has lost only times that were out of the window reads the same.
Drops(d, times, now) == /\ d \in 0..Len(times)
                        /\ \A i \in 1..d : now - times[i] > LoginWindow

LEMMA RecentOfRest ==
  ASSUME NEW times \in Times, NEW now \in Nat, NEW d, Drops(d, times, now)
  PROVE  Recent(SubSeq(times, d + 1, Len(times)), now) = Recent(times, now)
<1> DEFINE rest == SubSeq(times, d + 1, Len(times))
           e == Expired(times, now)
<1>1. /\ e \in 0..Len(times) /\ d \in 0..Len(times) /\ Len(times) \in Nat
      /\ \A i \in 1..e : now - times[i] > LoginWindow
      /\ \A i \in 1..d : now - times[i] > LoginWindow
      /\ e < Len(times) => now - times[e + 1] <= LoginWindow
  BY ExpiredProperties, TimesAreNat DEF Drops
<1> HIDE DEF e
<1>2. LoginWindow \in Nat /\ \A i \in 1..Len(times) : times[i] \in 0..MaxClock /\ times[i] \in Nat
  BY SignInConstants, TimesAreNat
<1>3. d <= e
  <2> SUFFICES ASSUME e < d PROVE FALSE
    BY <1>1
  <2>1. e + 1 \in 1..d /\ e < Len(times) /\ e + 1 \in 1..Len(times)
    BY <1>1
  <2> QED BY <1>1, <1>2, <2>1
<1>4. /\ rest \in Times /\ Len(rest) = Len(times) - d
      /\ \A i \in 1..Len(rest) : rest[i] = times[d + i]
  <2>1. \A i \in (d + 1)..Len(times) : times[i] \in 0..MaxClock
    BY <1>1, <1>2
  <2>2. d + 1 \in Int /\ Len(times) \in Int
    BY <1>1
  <2>3. /\ rest \in Times
        /\ Len(rest) = IF d + 1 <= Len(times) THEN Len(times) - (d + 1) + 1 ELSE 0
        /\ \A i \in 1..(Len(times) - (d + 1) + 1) : rest[i] = times[d + 1 + i - 1]
    BY <2>1, <2>2, SubSeqProperties DEF Times
  <2> HIDE DEF rest
  <2>4. Len(rest) = Len(times) - d
    BY <1>1, <2>3
  <2>5. \A i \in 1..Len(rest) : d + 1 + i - 1 = d + i /\ i \in 1..(Len(times) - (d + 1) + 1)
    BY <1>1, <2>4
  <2> QED BY <2>3, <2>4, <2>5
<1> HIDE DEF rest
<1>5. Expired(rest, now) = e - d
  <2> DEFINE n == e - d
  <2>1. n \in 0..Len(rest)
    BY <1>1, <1>3, <1>4
  <2>2. \A i \in 1..n : now - rest[i] > LoginWindow
    <3> TAKE i \in 1..n
    <3>1. d + i \in 1..e /\ i \in 1..Len(rest)
      BY <1>1, <1>3, <1>4
    <3> QED BY <1>1, <1>4, <3>1
  <2>3. n < Len(rest) => now - rest[n + 1] <= LoginWindow
    <3> SUFFICES ASSUME n < Len(rest) PROVE now - rest[n + 1] <= LoginWindow
      OBVIOUS
    <3>1. n + 1 \in 1..Len(rest) /\ d + (n + 1) = e + 1 /\ e < Len(times)
      BY <1>1, <1>3, <1>4
    <3> QED BY <1>1, <1>4, <3>1
  <2> HIDE DEF n
  <2>4. Expired(rest, now) = n
    BY <1>4, <2>1, <2>2, <2>3, ExpiredIs
  <2> QED BY <2>4 DEF n
<1>6. Recent(rest, now) \in Times /\ Recent(times, now) \in Times
  BY <1>4, RecentProperties
<1>7. /\ Len(Recent(rest, now)) = Len(rest) - (e - d)
      /\ \A i \in 1..Len(Recent(rest, now)) : Recent(rest, now)[i] = rest[i + (e - d)]
  BY <1>4, <1>5, RecentProperties
<1>8. /\ Len(Recent(times, now)) = Len(times) - e
      /\ \A i \in 1..Len(Recent(times, now)) : Recent(times, now)[i] = times[i + e]
  BY RecentProperties DEF e
<1>9. Len(Recent(rest, now)) = Len(Recent(times, now))
  BY <1>1, <1>4, <1>7, <1>8
<1>10. \A i \in 1..Len(Recent(times, now)) : Recent(rest, now)[i] = Recent(times, now)[i]
  <2> TAKE i \in 1..Len(Recent(times, now))
  <2>1. i + (e - d) \in 1..Len(rest) /\ d + (i + (e - d)) = i + e
    BY <1>1, <1>3, <1>4, <1>8
  <2> QED BY <1>4, <1>7, <1>8, <1>9, <2>1
<1> QED BY <1>6, <1>9, <1>10, SeqEqual DEF Times, rest

WrongOn(k) == {a \in Attempts : attempts[a] = <<k, FALSE>>}

\* The queue is the history without times that were out of the window.
QueueIsHistory ==
  \A k \in LoginKeys : \E d \in 0..Len(guesses[k]) :
    /\ Drops(d, guesses[k], clock)
    /\ failures[k] = SubSeq(guesses[k], d + 1, Len(guesses[k]))

\* A wrong guess that passed the check is counted from then on.
PendingAreCounted ==
  \A k \in LoginKeys :
    Len(Recent(guesses[k], clock)) + Cardinality(WrongOn(k)) < MaxFailures + Cardinality(Attempts)

SignInInv == SignInTypeOK /\ QueueIsHistory /\ PendingAreCounted

LEMMA WrongOnBounds ==
  ASSUME NEW k
  PROVE  /\ IsFiniteSet(WrongOn(k)) /\ Cardinality(Attempts) \in Nat
         /\ Cardinality(WrongOn(k)) \in Nat
         /\ Cardinality(WrongOn(k)) <= Cardinality(Attempts)
<1>1. WrongOn(k) \subseteq Attempts /\ IsFiniteSet(Attempts)
  BY SignInConstants DEF WrongOn
<1> QED BY <1>1, FS_Subset, FS_CardinalityType

\* What each queue says does not depend on when it was pruned.
LEMMA RecentAgree ==
  ASSUME SignInInv, NEW k \in LoginKeys
  PROVE  /\ guesses[k] \in Times /\ clock \in Nat
         /\ Recent(failures[k], clock) = Recent(guesses[k], clock)
<1>1. guesses[k] \in Times /\ clock \in Nat
  BY SignInConstants DEF SignInInv, SignInTypeOK, Times
<1>2. PICK d \in 0..Len(guesses[k]) :
        /\ Drops(d, guesses[k], clock)
        /\ failures[k] = SubSeq(guesses[k], d + 1, Len(guesses[k]))
  BY DEF SignInInv, QueueIsHistory
<1> QED BY <1>1, <1>2, RecentOfRest

\* Nothing is dropped from a history just begun or just pruned.
LEMMA DropsNothing ==
  ASSUME NEW times \in Times, NEW now
  PROVE  /\ 0 \in 0..Len(times) /\ Drops(0, times, now)
         /\ times = SubSeq(times, 0 + 1, Len(times))
<1>1. 0 \in 0..Len(times)
  BY TimesAreNat
<1>2. times = SubSeq(times, 1, Len(times))
  BY SubSeqFull DEF Times
<1> QED BY <1>1, <1>2 DEF Drops

LEMMA NoTimes ==
  ASSUME NEW now \in Nat
  PROVE  <<>> \in Times /\ Len(<<>>) = 0 /\ Recent(<<>>, now) = <<>>
<1>1. <<>> \in Times /\ Len(<<>>) = 0
  BY EmptySeq DEF Times
<1>2. SubSeq(<<>>, Expired(<<>>, now) + 1, 0) = <<>>
  <2>1. Expired(<<>>, now) = 0
    BY <1>1, ExpiredProperties
  <2> QED BY <2>1, SubSeqEmpty
<1> QED BY <1>1, <1>2 DEF Recent

LEMMA SignInInitInv ==
  ASSUME SignInInit
  PROVE  SignInInv
<1>1. SignInTypeOK
  BY SignInConstants, EmptySeq DEF SignInInit, SignInTypeOK
<1>2. QueueIsHistory
  BY NoTimes, DropsNothing DEF SignInInit, QueueIsHistory
<1>3. PendingAreCounted
  <2> SUFFICES ASSUME NEW k \in LoginKeys
               PROVE  Len(Recent(guesses[k], clock)) + Cardinality(WrongOn(k))
                        < MaxFailures + Cardinality(Attempts)
    BY DEF PendingAreCounted
  <2>1. Len(Recent(guesses[k], clock)) = 0
    BY NoTimes DEF SignInInit
  <2> QED BY <2>1, WrongOnBounds, SignInConstants
<1> QED BY <1>1, <1>2, <1>3 DEF SignInInv

LEMMA TickInv ==
  ASSUME SignInInv, Tick
  PROVE  SignInInv'
<1> USE DEF Tick
<1>1. SignInTypeOK'
  BY SignInConstants DEF SignInInv, SignInTypeOK
<1>2. ASSUME NEW k \in LoginKeys
      PROVE  /\ guesses[k] \in Times /\ clock \in Nat /\ clock' \in Nat /\ clock' = clock + 1
             /\ \A i \in 1..Len(guesses[k]) : guesses[k][i] \in Nat
             /\ LoginWindow \in Nat /\ Len(guesses[k]) \in Nat
  BY <1>2, RecentAgree, TimesAreNat, SignInConstants
<1>3. QueueIsHistory'
  <2> SUFFICES ASSUME NEW k \in LoginKeys
               PROVE  \E d \in 0..Len(guesses[k]) :
                        /\ Drops(d, guesses[k], clock')
                        /\ failures[k] = SubSeq(guesses[k], d + 1, Len(guesses[k]))
    BY DEF QueueIsHistory, Drops
  <2>1. PICK d \in 0..Len(guesses[k]) :
          /\ Drops(d, guesses[k], clock)
          /\ failures[k] = SubSeq(guesses[k], d + 1, Len(guesses[k]))
    BY DEF SignInInv, QueueIsHistory
  <2>2. Drops(d, guesses[k], clock')
    <3>1. ASSUME NEW i \in 1..d
          PROVE  clock' - guesses[k][i] > LoginWindow
      <4>1. guesses[k][i] \in Nat /\ clock - guesses[k][i] > LoginWindow
        BY <1>2, <2>1, <3>1 DEF Drops
      <4> QED BY <1>2, <4>1
    <3> QED BY <3>1 DEF Drops
  <2> QED BY <2>1, <2>2
<1>4. PendingAreCounted'
  <2> SUFFICES ASSUME NEW k \in LoginKeys
               PROVE  Len(Recent(guesses[k], clock')) + Cardinality(WrongOn(k))
                        < MaxFailures + Cardinality(Attempts)
    BY DEF PendingAreCounted, WrongOn, Recent, Expired
  <2>1. Len(Recent(guesses[k], clock')) <= Len(Recent(guesses[k], clock))
    BY <1>2, RecentShrinks
  <2>2. Len(Recent(guesses[k], clock')) \in Nat /\ Len(Recent(guesses[k], clock)) \in Nat
    BY <1>2, RecentProperties, TimesAreNat
  <2> QED BY <2>1, <2>2, WrongOnBounds, SignInConstants DEF SignInInv, PendingAreCounted
<1> QED BY <1>1, <1>3, <1>4 DEF SignInInv

LEMMA NoAttemptIsNone == \A k, right : NoAttempt # <<k, right>>
<1> SUFFICES ASSUME NEW k, NEW right, <<>> = <<k, right>>
             PROVE  FALSE
  BY DEF NoAttempt
<1>1. Len(<<>>) = 0 /\ Len(<<k, right>>) = 2
  OBVIOUS
<1> QED BY <1>1

LEMMA StartSignInInv ==
  ASSUME SignInInv, NEW a \in Attempts, StartSignIn(a)
  PROVE  SignInInv'
<1>1. PICK k \in LoginKeys :
        /\ failures' = [failures EXCEPT ![k] = Recent(failures[k], clock)]
        /\ \/ UNCHANGED attempts
           \/ /\ ~Blocked(k)
              /\ \E right \in BOOLEAN : attempts' = [attempts EXCEPT ![a] = <<k, right>>]
  BY DEF StartSignIn
<1>2. clock' = clock /\ guesses' = guesses /\ attempts[a] = NoAttempt
  BY DEF StartSignIn
<1>3. /\ failures \in [LoginKeys -> Times] /\ guesses \in [LoginKeys -> Times]
      /\ attempts \in [Attempts -> {NoAttempt} \cup (LoginKeys \X BOOLEAN)]
      /\ clock \in Nat /\ clock \in 0..MaxClock
  BY SignInConstants DEF SignInInv, SignInTypeOK, Times
<1>4. SignInTypeOK'
  <2>1. Recent(failures[k], clock) \in Times
    BY <1>3, RecentProperties
  <2>2. failures' \in [LoginKeys -> Times]
    BY <1>1, <1>3, <2>1
  <2>3. attempts' \in [Attempts -> {NoAttempt} \cup (LoginKeys \X BOOLEAN)]
    <3>1. ASSUME NEW right \in BOOLEAN
          PROVE  <<k, right>> \in {NoAttempt} \cup (LoginKeys \X BOOLEAN)
      OBVIOUS
    <3>2. \A x \in {NoAttempt} \cup (LoginKeys \X BOOLEAN) :
            [attempts EXCEPT ![a] = x] \in [Attempts -> {NoAttempt} \cup (LoginKeys \X BOOLEAN)]
      BY <1>3, Zenon
    <3> QED BY <1>1, <1>3, <3>1, <3>2
  <2> QED BY <1>2, <1>3, <2>2, <2>3 DEF SignInTypeOK, Times
<1>5. QueueIsHistory'
  <2> SUFFICES ASSUME NEW q \in LoginKeys
               PROVE  \E d \in 0..Len(guesses[q]) :
                        /\ Drops(d, guesses[q], clock)
                        /\ failures'[q] = SubSeq(guesses[q], d + 1, Len(guesses[q]))
    BY <1>2 DEF QueueIsHistory, Drops
  <2>1. CASE q = k
    <3>1. failures'[k] = Recent(guesses[k], clock)
      BY <1>1, <1>3, RecentAgree
    <3>2. Drops(Expired(guesses[k], clock), guesses[k], clock)
      BY <1>3, ExpiredProperties DEF Drops
    <3> QED BY <2>1, <3>1, <3>2 DEF Recent, Drops
  <2>2. CASE q # k
    BY <1>1, <1>3, <2>2 DEF SignInInv, QueueIsHistory
  <2> QED BY <2>1, <2>2
<1>6. PendingAreCounted'
  <2> SUFFICES ASSUME NEW q \in LoginKeys
               PROVE  Len(Recent(guesses[q], clock)) + Cardinality(WrongOn(q)')
                        < MaxFailures + Cardinality(Attempts)
    BY <1>2 DEF PendingAreCounted, WrongOn, Recent, Expired
  <2>1. CASE attempts' = attempts \/ q # k
    <3>1. WrongOn(q)' = WrongOn(q)
      <4>1. CASE attempts' = attempts
        BY <4>1 DEF WrongOn
      <4>2. ASSUME q # k, NEW right \in BOOLEAN, attempts' = [attempts EXCEPT ![a] = <<k, right>>]
            PROVE  WrongOn(q)' = WrongOn(q)
        <5>1. <<k, right>> # <<q, FALSE>> /\ attempts[a] # <<q, FALSE>>
          BY <1>2, <4>2, NoAttemptIsNone
        <5>2. \A b \in Attempts : attempts'[b] = <<q, FALSE>> <=> attempts[b] = <<q, FALSE>>
          BY <1>3, <4>2, <5>1
        <5> QED BY <5>2 DEF WrongOn
      <4> QED BY <1>1, <2>1, <4>1, <4>2
    <3> QED BY <3>1 DEF SignInInv, PendingAreCounted
  <2>2. CASE q = k /\ attempts' # attempts
    <3>1. Len(Recent(guesses[k], clock)) < MaxFailures /\ Len(Recent(guesses[k], clock)) \in Nat
      <4>1. ~(Len(Recent(failures[k], clock)) >= MaxFailures)
        BY <1>1, <2>2 DEF Blocked
      <4>2. Len(Recent(guesses[k], clock)) \in Nat
        BY <1>3, RecentProperties, TimesAreNat
      <4> QED BY <4>1, <4>2, RecentAgree, SignInConstants
    <3>2. WrongOn(k)' \subseteq Attempts
      BY DEF WrongOn
    <3>3. /\ Cardinality(WrongOn(k)') \in Nat /\ Cardinality(Attempts) \in Nat
          /\ Cardinality(WrongOn(k)') <= Cardinality(Attempts)
      BY <3>2, FS_Subset, FS_CardinalityType, SignInConstants
    <3> QED BY <2>2, <3>1, <3>3, SignInConstants
  <2> QED BY <2>1, <2>2
<1> QED BY <1>4, <1>5, <1>6 DEF SignInInv

\* What a thread that has its answer leaves of the others.
LEMMA AnsweredStep ==
  ASSUME SignInInv, NEW a \in Attempts, NEW k \in LoginKeys, NEW right \in BOOLEAN,
         attempts[a] = <<k, right>>, NEW times \in Times, Recent(times, clock) = times,
         right => Len(times) < MaxFailures,
         ~right => Len(times) + (Cardinality(WrongOn(k)) - 1) < MaxFailures + Cardinality(Attempts),
         failures' = [failures EXCEPT ![k] = times], guesses' = [guesses EXCEPT ![k] = times],
         attempts' = [attempts EXCEPT ![a] = NoAttempt], clock' = clock
  PROVE  SignInInv'
<1>1. /\ failures \in [LoginKeys -> Times] /\ guesses \in [LoginKeys -> Times]
      /\ attempts \in [Attempts -> {NoAttempt} \cup (LoginKeys \X BOOLEAN)]
      /\ clock \in Nat /\ clock \in 0..MaxClock
  BY SignInConstants DEF SignInInv, SignInTypeOK, Times
<1>2. SignInTypeOK'
  <2>1. failures' \in [LoginKeys -> Times] /\ guesses' \in [LoginKeys -> Times]
    BY <1>1
  <2>2. attempts' \in [Attempts -> {NoAttempt} \cup (LoginKeys \X BOOLEAN)]
    BY <1>1, Zenon
  <2> QED BY <1>1, <2>1, <2>2 DEF SignInTypeOK, Times
<1>3. QueueIsHistory'
  <2> SUFFICES ASSUME NEW q \in LoginKeys
               PROVE  \E d \in 0..Len(guesses'[q]) :
                        /\ Drops(d, guesses'[q], clock)
                        /\ failures'[q] = SubSeq(guesses'[q], d + 1, Len(guesses'[q]))
    BY DEF QueueIsHistory, Drops
  <2>1. CASE q = k
    BY <1>1, <2>1, DropsNothing
  <2>2. CASE q # k
    BY <1>1, <2>2 DEF SignInInv, QueueIsHistory
  <2> QED BY <2>1, <2>2
<1>4. PendingAreCounted'
  <2> SUFFICES ASSUME NEW q \in LoginKeys
               PROVE  Len(Recent(guesses'[q], clock)) + Cardinality(WrongOn(q)')
                        < MaxFailures + Cardinality(Attempts)
    BY DEF PendingAreCounted, WrongOn, Recent, Expired
  <2>1. WrongOn(q)' = WrongOn(q) \ {a}
    BY <1>1, NoAttemptIsNone DEF WrongOn
  <2>2. /\ IsFiniteSet(WrongOn(q)) /\ Cardinality(WrongOn(q)) \in Nat
        /\ Cardinality(Attempts) \in Nat
        /\ Cardinality(WrongOn(q)) <= Cardinality(Attempts)
    BY WrongOnBounds
  <2>3. Cardinality(WrongOn(q) \ {a}) =
          IF a \in WrongOn(q) THEN Cardinality(WrongOn(q)) - 1 ELSE Cardinality(WrongOn(q))
    BY <2>2, FS_RemoveElement
  <2>4. CASE q # k
    <3>1. a \notin WrongOn(q) /\ guesses'[q] = guesses[q]
      <4>1. attempts[a] # <<q, FALSE>>
        <5>1. attempts[a][1] = k /\ <<q, FALSE>>[1] = q
          OBVIOUS
        <5> QED BY <2>4, <5>1
      <4> QED BY <1>1, <2>4, <4>1 DEF WrongOn
    <3> QED BY <2>1, <2>3, <3>1 DEF SignInInv, PendingAreCounted
  <2>5. CASE q = k
    <3>1. guesses'[k] = times /\ Len(times) \in Nat /\ MaxFailures \in Nat
      BY <1>1, TimesAreNat, SignInConstants
    <3>2. CASE right
      BY <2>1, <2>2, <2>3, <2>5, <3>1, <3>2
    <3>3. CASE ~right
      <4>1. a \in WrongOn(k)
        BY <3>3 DEF WrongOn
      <4> QED BY <2>1, <2>2, <2>3, <2>5, <3>1, <3>3, <4>1
    <3> QED BY <3>2, <3>3
  <2> QED BY <2>4, <2>5
<1> QED BY <1>2, <1>3, <1>4 DEF SignInInv

LEMMA AnswerInv ==
  ASSUME SignInInv, NEW a \in Attempts, WrongPassword(a) \/ RightPassword(a)
  PROVE  SignInInv'
<1>1. attempts[a] # NoAttempt
  BY DEF WrongPassword, RightPassword
<1>2. PICK k \in LoginKeys, right \in BOOLEAN : attempts[a] = <<k, right>>
  BY <1>1 DEF SignInInv, SignInTypeOK
<1>3. attempts[a][1] = k /\ attempts[a][2] = right
  BY <1>2
<1>4. guesses[k] \in Times /\ clock \in Nat /\ clock \in 0..MaxClock
  BY RecentAgree DEF SignInInv, SignInTypeOK
<1>5. CASE WrongPassword(a)
  <2> DEFINE times == Append(Recent(guesses[k], clock), clock)
  <2>1. /\ failures' = [failures EXCEPT ![k] = times] /\ guesses' = [guesses EXCEPT ![k] = times]
        /\ attempts' = [attempts EXCEPT ![a] = NoAttempt] /\ clock' = clock /\ ~right
    BY <1>3, <1>5, RecentAgree DEF WrongPassword
  <2>2. times \in Times /\ Recent(times, clock) = times
    BY <1>4, AppendIsRecent
  <2>3. Len(times) = Len(Recent(guesses[k], clock)) + 1
    BY <1>4, AppendIsRecent
  <2>4. Len(Recent(guesses[k], clock)) \in Nat
    BY <1>4, RecentProperties, TimesAreNat
  <2> HIDE DEF times
  <2>5. Len(times) + (Cardinality(WrongOn(k)) - 1) < MaxFailures + Cardinality(Attempts)
    BY <2>3, <2>4, WrongOnBounds, SignInConstants DEF SignInInv, PendingAreCounted
  <2> QED BY <1>2, <2>1, <2>2, <2>5, AnsweredStep
<1>6. CASE RightPassword(a)
  <2>1. /\ failures' = [failures EXCEPT ![k] = <<>>] /\ guesses' = [guesses EXCEPT ![k] = <<>>]
        /\ attempts' = [attempts EXCEPT ![a] = NoAttempt] /\ clock' = clock /\ right
    BY <1>3, <1>6 DEF RightPassword
  <2>2. <<>> \in Times /\ Recent(<<>>, clock) = <<>> /\ Len(<<>>) = 0
    BY <1>4, NoTimes
  <2>3. Len(<<>>) < MaxFailures
    BY <2>2, SignInConstants
  <2> QED BY <1>2, <2>1, <2>2, <2>3, AnsweredStep
<1> QED BY <1>5, <1>6

LEMMA SignInStep ==
  ASSUME SignInInv, [SignInNext]_signInVars
  PROVE  SignInInv'
<1>1. CASE UNCHANGED signInVars
  BY <1>1
     DEF signInVars, SignInInv, SignInTypeOK, QueueIsHistory, PendingAreCounted, Drops,
         Recent, Expired, WrongOn
<1> QED BY <1>1, TickInv, StartSignInInv, AnswerInv DEF SignInNext

\* However long a verification takes, a key has fewer wrong guesses in a window
\* than the limit and the threads together; and a window later it is served.
THEOREM SignInIsBounded == MachineSpec => []GuessesAreBounded
<1>1. MachineInit => SignInInv
  BY SignInInitInv DEF MachineInit
<1>2. SignInInv /\ [MachineNext]_machineVars => SignInInv'
  BY PartsStep, SignInStep
<1>3. SignInInv => GuessesAreBounded
  <2> SUFFICES ASSUME SignInInv, NEW k \in LoginKeys
               PROVE  /\ Len(Recent(guesses[k], clock)) < MaxFailures + Cardinality(Attempts)
                      /\ Recent(guesses[k], clock) = <<>> => ~Blocked(k)
    BY DEF GuessesAreBounded
  <2>1. Len(Recent(guesses[k], clock)) \in Nat
    BY RecentAgree, RecentProperties, TimesAreNat
  <2>2. Len(Recent(guesses[k], clock)) < MaxFailures + Cardinality(Attempts)
    BY <2>1, WrongOnBounds, SignInConstants DEF SignInInv, PendingAreCounted
  <2>3. Recent(guesses[k], clock) = <<>> => ~Blocked(k)
    BY RecentAgree, SignInConstants DEF Blocked
  <2> QED BY <2>2, <2>3
<1> QED BY <1>1, <1>2, <1>3, PTL DEF MachineSpec

-----------------------------------------------------------------------------
(***************************************************************************)
(* Recurring dates: from Recurrence_proofs.                                *)
(***************************************************************************)

\* services.py calculate_next_due and mark_plan_reviewed: a completion moves a task
\* to the first date of its schedule that it has not missed, for every interval,
\* mode and date, however many were missed, and a review is followed by one as
\* many months later.
THEOREM DueIsOnGrid == MachineSpec => DueIsFirstOnGrid
<1> DEFINE Due(on) ==
             LET base == IF recurring.mode = "completion" \/ recurring.due = NoDue
                           THEN on ELSE recurring.due
                 due == recurring'.due
             IN  \E k \in 1..(Max({0, Ordinal(on) - Ordinal(base)}) + 1) :
                   /\ due = Scheduled(recurring, base, k)
                   /\ Ordinal(due) > Ordinal(on) \/ recurring.mode = "completion"
                   /\ k = 1 \/ Ordinal(Scheduled(recurring, base, k - 1)) <= Ordinal(on)
           Next_(on) ==
             reviewed'.next =
               Scheduled([type |-> "months", interval |-> reviewed.interval], on, 1)
           A == /\ recurring'.due # recurring.due => \A on \in SomeDates : Complete(on) => Due(on)
                /\ reviewed'.next # reviewed.next =>
                     reviewed'.next = NoDue \/ \E on \in SomeDates : Next_(on)
<1>1. MachineInit => RecurrenceTypeOK
  BY RecurrenceInitInv DEF MachineInit
<1>2. RecurrenceTypeOK /\ [MachineNext]_machineVars => RecurrenceTypeOK'
  BY PartsStep, RecurrenceStep
<1>3. ASSUME RecurrenceTypeOK, [MachineNext]_machineVars
      PROVE  [A]_recurrenceVars
  <2>1. \A on \in SomeDates : Complete(on) => Due(on)
    BY <1>3, DuesOnGrid
  <2>2. ASSUME RecurrenceNext, reviewed'.next # reviewed.next, reviewed'.next # NoDue
        PROVE  \E on \in SomeDates : Next_(on)
    BY <1>3, <2>2, ReviewsOnGrid
  <2> HIDE DEF Due, Next_
  <2>3. [RecurrenceNext]_recurrenceVars
    BY <1>3, PartsStep
  <2> QED BY <2>1, <2>2, <2>3
<1>4. RecurrenceTypeOK /\ [MachineNext]_machineVars => [A]_recurrenceVars
  BY <1>3
<1>5. [][A]_recurrenceVars => DueIsFirstOnGrid
  BY DEF DueIsFirstOnGrid
<1> HIDE DEF A
<1> QED BY <1>1, <1>2, <1>4, <1>5, PTL DEF MachineSpec

\* calculate_next_due and mark_plan_reviewed: no date is set that has passed already.
THEOREM NextDatesAreLater == MachineSpec => [][NextIsLater]_recurrenceVars
<1>1. MachineInit => RecurrenceTypeOK
  BY RecurrenceInitInv DEF MachineInit
<1>2. RecurrenceTypeOK /\ [MachineNext]_machineVars => RecurrenceTypeOK'
  BY PartsStep, RecurrenceStep
<1>3. RecurrenceTypeOK /\ [MachineNext]_machineVars => [NextIsLater]_recurrenceVars
  BY PartsStep, CompleteIs, ReviewsOnGrid DEF NextIsLater
<1> QED BY <1>1, <1>2, <1>3, PTL DEF MachineSpec

-----------------------------------------------------------------------------
\* Every variable keeps its type, through any steps of any part: the dates of the
\* calendar, too, however far they move.
THEOREM MachineTyped == MachineSpec => []MachineTypeOK
<1> DEFINE Inv == /\ part \in Parts
                  /\ HostInv /\ SettingsInv /\ IdentityInv /\ UpdatesInv /\ MediaInv
                  /\ SignInInv /\ RecurrenceTypeOK
<1>1. MachineInit => Inv
  BY HostInit, SettingsInitInv, IdentityInitInv, UpdatesInitInv, MediaInitInv, SignInInitInv,
     RecurrenceInitInv
     DEF MachineInit
<1>2. Inv /\ [MachineNext]_machineVars => Inv'
  <2> SUFFICES ASSUME Inv, [MachineNext]_machineVars PROVE Inv'
    OBVIOUS
  <2>1. part' \in Parts
    BY DEF MachineNext, machineVars
  <2> QED BY <2>1, PartsStep, HostStep, SettingsStep, IdentityStep, UpdatesStep, MediaStep,
             SignInStep, RecurrenceStep
<1>3. Inv => MachineTypeOK
  BY DEF HostInv, SettingsInv, IdentityInv, UpdatesInv, MediaInv, SignInInv, MachineTypeOK
<1> QED BY <1>1, <1>2, <1>3, PTL DEF MachineSpec
=============================================================================
