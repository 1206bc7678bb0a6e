------------------------------ MODULE Backups ------------------------------
(***************************************************************************)
(* Native backups and their restore (core/backup.py), the scheduler thread *)
(* of the server (core/backup_scheduler.py), an owner's POST /backups, and *)
(* the Manager that stops the service, restores and starts it again        *)
(* (manager_entry.py).  A power loss may hit between any two steps; what    *)
(* was written before it is taken to be on the disk, in that order.        *)
(*                                                                         *)
(* Archives are named after the second they were begun in, so the file of  *)
(* a directory is identified by a time.                                    *)
(***************************************************************************)
EXTENDS FiniteSets, Naturals

CONSTANTS
  None,
  Schedule,     \* does the configuration ask for scheduled backups
  Interval,     \* a day or a week, in ticks
  Retention,    \* backup_retention, at least 1
  MaxPosts,     \* bound: so many backups are posted by owners
  MaxTime,      \* bound: the clock stops there
  MaxGen,       \* bound: so many distinct database contents
  MaxRestores,  \* bound: so many restores are begun
  MaxFaults,    \* bound: so many power losses and write errors ...
  LastFault     \* ... none of them after this time

ASSUME BackupConstants ==
  /\ Schedule \in BOOLEAN
  /\ Interval \in Nat \ {0} /\ Retention \in Nat \ {0}
  /\ {MaxTime, MaxPosts, MaxGen, MaxRestores, MaxFaults, LastFault} \subseteq Nat
  /\ None \notin Nat

VARIABLES
  clock, faults, restores, posts,
  db,       \* the content of the database file; None: cut off
  fresh,    \* the number of contents the server has produced so far
  server,   \* the server process, and who has to start one that does not run
  main,     \* main[t]: the archive of second t in backups/
  pre,      \* the same in backups/pre-restore/
  mixed,    \* the archives in backups/ that two writers have open at once
  job       \* what the three writers of archives are doing

vars == <<clock, faults, restores, posts, db, fresh, server, main, pre, mixed, job>>

Times == 0..MaxTime

\* Up, or stopped by the Manager's script, gone with the power, or the script's
\* Start-Service has failed.
Server == {"up", "stopped", "off", "refused"}

Actors == {"scheduler", "api", "manager"}

(***************************************************************************)
(* An archive cut off by a crash has no zip directory ("torn"); one whose  *)
(* writing raised is closed by the with statement and holds the manifest   *)
(* and at most a part of the database ("headed"); "full" archives hold     *)
(* all of it.                                                              *)
(***************************************************************************)
Archive == [kind : {"none", "torn", "headed", "full"}, data : Nat \cup {None}]
NoArchive == [kind |-> "none", data |-> None]
Torn == [kind |-> "torn", data |-> None]
Headed == [kind |-> "headed", data |-> None]
Full(d) == [kind |-> "full", data |-> d]

Creating == {"named", "snapped", "writing"}

Job == [pc   : Creating \cup {"idle", "prune", "asked", "check", "copy", "replace", "start"},
        at   : Times,                  \* the second in the archive's name
        data : Nat \cup {None},        \* the snapshot it holds
        from : Times]                  \* manager: the archive to restore
Idle == [pc |-> "idle", at |-> 0, data |-> None, from |-> 0]

TypeOK == /\ clock \in Times /\ {faults, restores, posts} \subseteq Nat
          /\ db \in Nat \cup {None}
          /\ fresh \in Nat /\ server \in Server /\ mixed \subseteq Times
          /\ main \in [Times -> Archive] /\ pre \in [Times -> Archive]
          /\ job \in [Actors -> Job]
          /\ job["api"].pc \in Creating \cup {"idle"}
          /\ job["scheduler"].pc \in Creating \cup {"idle", "prune"}
          /\ job["manager"].pc # "prune"

Init == /\ clock = 0 /\ faults = 0 /\ restores = 0 /\ posts = 0
        /\ db = 0 /\ fresh = 0 /\ server = "up" /\ mixed = {}
        /\ main = [t \in Times |-> NoArchive]
        /\ pre = [t \in Times |-> NoArchive]
        /\ job = [a \in Actors |-> Idle]

Tick == /\ clock < MaxTime
        /\ clock' = clock + 1
        /\ UNCHANGED <<faults, restores, db, fresh, server, main, pre, mixed, job, posts>>

\* A request of the running server changes household data.
Write == /\ server = "up" /\ fresh < MaxGen
         /\ fresh' = fresh + 1
         /\ db' = fresh + 1
         /\ UNCHANGED <<clock, faults, restores, server, main, pre, mixed, job, posts>>

-----------------------------------------------------------------------------
\* list_backups reads manifests only: an archive without database is listed.
Listed == {t \in Times : main[t].kind \in {"headed", "full"}}
Newest(S) == CHOOSE t \in S : \A s \in S : s <= t

Due_FirstOnly == Schedule /\ Listed = {}
Due == /\ Schedule
       /\ Listed # {} => clock - Newest(Listed) >= Interval

\* create_backup, for each of its three callers: the name is chosen first.
Named(a) == [job EXCEPT ![a] = [@ EXCEPT !.pc = "named", !.at = clock]]

SchedulerWakes == /\ server = "up" /\ job["scheduler"].pc = "idle" /\ Due
                  /\ job' = Named("scheduler")
                  /\ UNCHANGED <<clock, faults, restores, db, fresh, server, main, pre, mixed, posts>>

OwnerPostsBackup == /\ posts < MaxPosts /\ posts' = posts + 1
                    /\ server = "up" /\ job["api"].pc = "idle"
                    /\ job' = Named("api")
                    /\ UNCHANGED <<clock, faults, restores, db, fresh, server, main, pre, mixed>>

Snapshot(a) == /\ job[a].pc = "named"
               /\ job' = [job EXCEPT ![a].pc = "snapped", ![a].data = db]
               /\ UNCHANGED <<clock, faults, restores, db, fresh, server, main, pre, mixed, posts>>

Stored(a, archive) ==
  IF a = "manager"
    THEN pre' = [pre EXCEPT ![job[a].at] = archive] /\ UNCHANGED main
    ELSE main' = [main EXCEPT ![job[a].at] = archive] /\ UNCHANGED pre

\* Somebody else writes the file of the same name.
Writes(b, t) == b # "manager" /\ job[b].pc = "writing" /\ job[b].at = t
SharesFile(a) == a # "manager" /\ \E b \in Actors \ {a} : Writes(b, job[a].at)

\* ZipFile(path, "w") truncates whatever has that name.
OpenArchive(a) ==
  /\ job[a].pc = "snapped"
  /\ Stored(a, Torn)
  /\ mixed' = IF SharesFile(a) THEN mixed \cup {job[a].at} ELSE mixed
  /\ job' = [job EXCEPT ![a].pc = "writing"]
  /\ UNCHANGED <<clock, faults, restores, db, fresh, server, posts>>

\* Two writers of one file leave either a usable archive or a broken one, the one
\* who closes it last included.
Leaves(a, archive) ==
  /\ Stored(a, archive) \/ (a # "manager" /\ job[a].at \in mixed /\ Stored(a, Torn))
  /\ mixed' = IF SharesFile(a) THEN mixed ELSE mixed \ {job[a].at}

AfterArchive(a) == CASE a = "scheduler" -> "prune"
                     [] a = "api" -> "idle"
                     [] a = "manager" -> "copy"

CloseArchive(a) ==
  /\ job[a].pc = "writing"
  /\ Leaves(a, Full(job[a].data))
  /\ job' = [job EXCEPT ![a].pc = AfterArchive(a)]
  /\ UNCHANGED <<clock, faults, restores, db, fresh, server, posts>>

Fault == /\ faults < MaxFaults /\ clock <= LastFault
         /\ faults' = faults + 1

\* The script goes on to Start-Service, whatever the exit code of the restore.
AfterFailedRestore_Exits == "idle"
AfterFailedRestore == "start"

\* Any step of create_backup may raise; the scheduler swallows the exception,
\* the request answers 500, the restore gives up before it touched the database.
CreateFails(a) ==
  /\ job[a].pc \in Creating
  /\ Fault
  /\ IF job[a].pc = "writing" THEN Leaves(a, Headed) ELSE UNCHANGED <<main, pre, mixed>>
  /\ job' = [job EXCEPT ![a] = IF a = "manager" THEN [@ EXCEPT !.pc = AfterFailedRestore]
                                                 ELSE Idle]
  /\ UNCHANGED <<clock, restores, db, fresh, server, posts>>

\* prune_backups: all but the newest Retention files go, readable or not.
Files == {t \in Times : main[t].kind # "none"}
Newer(t) == {s \in Files : s > t}
Kept_OldestFirst == {t \in Files : Cardinality(Files) - Cardinality(Newer(t)) <= Retention}
Kept == {t \in Files : Cardinality(Newer(t)) < Retention}
Surplus == Files \ Kept

Removes(gone) ==
  /\ job["scheduler"].pc = "prune"
  /\ main' = [t \in Times |-> IF t \in gone THEN NoArchive ELSE main[t]]
  /\ job' = [job EXCEPT !["scheduler"] = Idle]
  /\ UNCHANGED <<clock, restores, db, fresh, server, pre, mixed, posts>>

Prune == Removes(Surplus) /\ UNCHANGED faults

\* unlink raises, always while the file is being written; the older ones stay too.
PruneFails ==
  \E t \in Surplus : /\ Removes(Newer(t) \cap Surplus)
                     /\ Fault \/ (Writes("api", t) /\ UNCHANGED faults)

-----------------------------------------------------------------------------
Valid_Listed(t) == main[t].kind \in {"headed", "full"}
Valid(t) == main[t].kind = "full"

\* The Manager validates the chosen archive and asks; meanwhile the server goes
\* on, and the archive may even be pruned.
ManagerAsks ==
  /\ server = "up" /\ job["manager"].pc = "idle"
  /\ restores < MaxRestores /\ restores' = restores + 1
  /\ \E t \in Times :
       Valid(t) /\ job' = [job EXCEPT !["manager"] = [Idle EXCEPT !.pc = "asked", !.from = t]]
  /\ UNCHANGED <<clock, faults, db, fresh, server, main, pre, mixed, posts>>

\* The user says no, or permission for the script or its Stop-Service is refused.
ManagerGivesUp ==
  /\ job["manager"].pc = "asked"
  /\ job' = [job EXCEPT !["manager"] = Idle]
  /\ UNCHANGED <<clock, faults, restores, db, fresh, server, main, pre, mixed, posts>>

\* Confirmed: Stop-Service ends the server process and its threads.
Killed(j) == [a \in Actors |-> IF a = "manager" THEN j[a] ELSE Idle]

ManagerStops ==
  /\ job["manager"].pc = "asked"
  /\ job' = [Killed(job) EXCEPT !["manager"].pc = "check"]
  /\ server' = "stopped" /\ mixed' = {}
  /\ UNCHANGED <<clock, faults, restores, db, fresh, main, pre, posts>>

\* restore_backup validates once more, then saves the current database.
AfterValidation_NoSafety == [job EXCEPT !["manager"].pc = "copy"]
AfterValidation == Named("manager")

Validate ==
  /\ job["manager"].pc = "check"
  /\ job' = IF Valid(job["manager"].from)
              THEN AfterValidation
              ELSE [job EXCEPT !["manager"].pc = AfterFailedRestore]
  /\ UNCHANGED <<clock, faults, restores, db, fresh, server, main, pre, mixed, posts>>

\* The candidate is copied beside the database under another name, so the
\* database itself is untouched until the rename.
CopyTarget_InPlace == None
CopyTarget == db

CopyCandidate ==
  /\ job["manager"].pc = "copy"
  /\ db' = CopyTarget
  /\ job' = [job EXCEPT !["manager"].pc = "replace"]
  /\ UNCHANGED <<clock, faults, restores, fresh, server, main, pre, mixed, posts>>

Replace ==
  /\ job["manager"].pc = "replace"
  /\ db' = main[job["manager"].from].data
  /\ job' = [job EXCEPT !["manager"].pc = "start"]
  /\ UNCHANGED <<clock, faults, restores, fresh, server, main, pre, mixed, posts>>

\* Reading the archive, copying it or replacing the database raises, as it does
\* while another process holds the database open.
RestoreFails ==
  /\ job["manager"].pc \in {"check", "copy", "replace"}
  /\ Fault
  /\ job' = [job EXCEPT !["manager"].pc = AfterFailedRestore]
  /\ UNCHANGED <<clock, restores, db, fresh, server, main, pre, mixed, posts>>

\* Start-Service, whatever the restore did.
ManagerStarts ==
  /\ job["manager"].pc = "start"
  /\ server' = "up"
  /\ job' = [job EXCEPT !["manager"] = Idle]
  /\ UNCHANGED <<clock, faults, restores, db, fresh, main, pre, mixed, posts>>

\* Exit codes 20 and 30 (for which the Manager says only that the restore failed).
\* Nobody but the user will start the server, from the Manager or as a service.
StartFails ==
  /\ job["manager"].pc = "start"
  /\ Fault
  /\ server' = "refused"
  /\ job' = [job EXCEPT !["manager"] = Idle]
  /\ UNCHANGED <<clock, restores, db, fresh, main, pre, mixed, posts>>

UserStarts ==
  /\ server = "refused" /\ server' = "up"
  /\ UNCHANGED <<clock, faults, restores, db, fresh, main, pre, mixed, job, posts>>

-----------------------------------------------------------------------------
PowerLoss == /\ Fault
             /\ server' = "off" /\ mixed' = {}
             /\ job' = [a \in Actors |-> Idle]
             /\ UNCHANGED <<clock, restores, db, fresh, main, pre, posts>>

\* The service is installed with start= delayed-auto: Windows starts it after the
\* power came back, and only then.
Boot == /\ server = "off" /\ server' = "up"
        /\ UNCHANGED <<clock, faults, restores, db, fresh, main, pre, mixed, job, posts>>

ManagerStep == Validate \/ CopyCandidate \/ Replace \/ ManagerStarts

CreateStep(a) == Snapshot(a) \/ OpenArchive(a) \/ CloseArchive(a)

Next == \/ Tick \/ Write
        \/ SchedulerWakes \/ OwnerPostsBackup \/ Prune \/ PruneFails
        \/ \E a \in Actors : CreateStep(a) \/ CreateFails(a)
        \/ ManagerAsks \/ ManagerGivesUp \/ ManagerStops \/ ManagerStep
        \/ RestoreFails \/ StartFails \/ UserStarts
        \/ PowerLoss \/ Boot

Spec == Init /\ [][Next]_vars

(***************************************************************************)
(* Threads of a running process are scheduled, the scheduler's wait ends,  *)
(* the clock goes on until its bound, so does the script the Manager runs, *)
(* and Windows starts the service after a reboot.  Faults, requests and    *)
(* users are not forced.                                                   *)
(***************************************************************************)
Fairness == /\ WF_vars(Tick) /\ WF_vars(SchedulerWakes) /\ WF_vars(Prune)
            /\ \A a \in Actors : WF_vars(CreateStep(a))
            /\ WF_vars(ManagerStep) /\ WF_vars(Boot)

FairSpec == Spec /\ Fairness

-----------------------------------------------------------------------------
\* Wherever the power fails, the database file is one complete content.
DatabaseIntact == db # None

\* BACKUP-RESTORE.md: a failed validation never proceeds to replacement.  While
\* the server does not run, its database changes at one step of a restore only,
\* and then to exactly the database of a complete archive.
RestoreOnlyFromGood ==
  [][server # "up" /\ db' # db
       => /\ job["manager"].pc = "replace"
          /\ main[job["manager"].from].kind = "full"
          /\ db' = main[job["manager"].from].data]_vars

\* When a restore replaces the database, what it held at that very moment is
\* in a complete safety archive, so nothing the household wrote is lost.
ReplacedDataIsSaved ==
  [][server # "up" /\ db' # db => \E t \in Times : pre[t] = Full(db)]_vars

\* As long as no owner posts one meanwhile, once a complete backup exists there
\* always is one: neither an interrupted backup nor pruning takes it away.
GoodBackupRemains ==
  [][posts = 0 /\ (\E t \in Times : main[t].kind = "full")
       => \E t \in Times : main'[t].kind = "full"]_vars

\* manager_entry.py: a server the Manager stopped is started again, whichever step
\* of the restore fails.  Only a Start-Service that fails itself leaves it down.
ServerComesBack == job["manager"].pc = "check" ~> server \in {"up", "refused"}

\* Whatever attempts fail, the scheduler ends up with a complete archive: an
\* unusable one left by a failure is listed, so it puts the next attempt off by
\* an interval, but never for good.  Of users it asks only to start the server after a
\* Start-Service that failed.
CompleteBackupEventually ==
  Schedule /\ (server = "refused" ~> server # "refused")
    => <>(\E t \in Times : main[t].kind = "full")
=============================================================================
