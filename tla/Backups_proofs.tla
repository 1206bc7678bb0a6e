---------------------------- MODULE Backups_proofs ----------------------------
(***************************************************************************)
(* What Backups promises, proved for every interval, retention and bound.  *)
(*                                                                         *)
(* A restore runs with the server down and its threads gone, so from the   *)
(* last validation on nothing but the restore itself touches the database  *)
(* and the archives (RestoreIsAlone, RestoreInv).  As long as no owner     *)
(* posts a backup the scheduler is the only writer of backups/, and the    *)
(* archive it has begun is newer than every other file (SchedulerInv).     *)
(***************************************************************************)
EXTENDS Backups, FiniteSetTheorems, WellFoundedInduction, TLAPS

\* The places of a restore after the service was stopped.
Restoring == {"check", "named", "snapped", "writing", "copy", "replace", "start"}

Pc(a) == job[a].pc

RestoreIsAlone ==
  /\ Pc("manager") \in Restoring => server = "stopped"
  /\ server # "up" => Pc("scheduler") = "idle" /\ Pc("api") = "idle"

\* Contents are never None: neither the database's, nor a snapshot's, nor that of
\* a complete archive.
ContentsAreWhole ==
  /\ db \in Nat
  /\ \A a \in Actors : Pc(a) \in {"snapped", "writing"} => job[a].data \in Nat
  /\ \A t \in Times : main[t].kind = "full" => main[t].data \in Nat

\* What the restore has found and done so far.
RestoreInv ==
  LET m == job["manager"]
  IN  /\ m.pc \in {"named", "snapped", "writing", "copy", "replace"} => main[m.from].kind = "full"
      /\ m.pc \in {"snapped", "writing", "copy", "replace"} => m.data = db
      /\ m.pc \in {"copy", "replace"} => pre[m.at] = Full(m.data)

RestoresInv == TypeOK /\ RestoreIsAlone /\ ContentsAreWhole /\ RestoreInv

LEMMA ArchiveTypes ==
  /\ NoArchive \in Archive /\ Torn \in Archive /\ Headed \in Archive
  /\ \A d \in Nat \cup {None} : Full(d) \in Archive /\ Full(d).kind = "full" /\ Full(d).data = d
  /\ NoArchive.kind = "none" /\ Torn.kind = "torn" /\ Headed.kind = "headed"
BY DEF NoArchive, Torn, Headed, Full, Archive

LEMMA IdleType == 0 \in Times /\ Idle \in Job /\ Idle.pc = "idle"
BY BackupConstants DEF Idle, Job, Times, Creating

LEMMA NamedType ==
  ASSUME TypeOK, NEW a \in Actors
  PROVE  /\ Named(a) \in [Actors -> Job]
         /\ Named(a)[a].pc = "named" /\ Named(a)[a].from = job[a].from
         /\ Named(a)[a].at = clock /\ Named(a)[a].data = job[a].data
         /\ \A b \in Actors \ {a} : Named(a)[b] = job[b]
<1> DEFINE named == [job[a] EXCEPT !.pc = "named", !.at = clock]
<1>1. /\ named \in Job /\ named.pc = "named" /\ named.from = job[a].from
      /\ named.at = clock /\ named.data = job[a].data
  BY DEF TypeOK, Job, Creating
<1>2. Named(a) = [job EXCEPT ![a] = named]
  BY DEF Named
<1> HIDE DEF named
<1> QED BY <1>1, <1>2 DEF TypeOK

LEMMA RestoresInit ==
  ASSUME Init
  PROVE  RestoresInv
<1>1. TypeOK
  BY BackupConstants, ArchiveTypes, IdleType DEF Init, TypeOK, Actors, Creating, Server
<1>2. RestoreIsAlone /\ ContentsAreWhole /\ RestoreInv
  BY BackupConstants, ArchiveTypes, IdleType
     DEF Init, RestoreIsAlone, ContentsAreWhole, RestoreInv, Pc, Actors, Restoring
<1> QED BY <1>1, <1>2 DEF RestoresInv

-----------------------------------------------------------------------------
\* Which names are shared stays a set of times.
LEMMA OpensMixed ==
  ASSUME TypeOK, NEW a \in Actors, OpenArchive(a)
  PROVE  mixed' \subseteq Times
BY DEF TypeOK, OpenArchive, Job

LEMMA LeavesMixed ==
  ASSUME TypeOK, NEW a \in Actors, NEW archive, Leaves(a, archive)
  PROVE  mixed' \subseteq Times
BY DEF TypeOK, Leaves

\* The steps of a writer of an archive.
LEMMA CreateStepInv ==
  ASSUME RestoresInv, NEW a \in Actors, CreateStep(a) \/ CreateFails(a)
  PROVE  RestoresInv'
<1> USE ArchiveTypes, IdleType, BackupConstants
    DEF RestoresInv, TypeOK, RestoreIsAlone, ContentsAreWhole, RestoreInv, Pc, Actors,
        Restoring, Creating
<1>1. CASE Snapshot(a)
  BY <1>1 DEF Snapshot, Job
<1>2. CASE OpenArchive(a)
  BY <1>2, OpensMixed DEF OpenArchive, Stored, Job
<1>3. CASE CloseArchive(a)
  BY <1>3, LeavesMixed DEF CloseArchive, Leaves, Stored, AfterArchive, Job
<1>4. CASE CreateFails(a)
  BY <1>4, LeavesMixed DEF CreateFails, Leaves, Stored, Fault, AfterFailedRestore, Job
<1> QED BY <1>1, <1>2, <1>3, <1>4 DEF CreateStep

\* The other steps of the server's threads.
LEMMA ServerStepInv ==
  ASSUME RestoresInv,
         Tick \/ Write \/ SchedulerWakes \/ OwnerPostsBackup \/ Prune \/ PruneFails
  PROVE  RestoresInv'
<1> USE ArchiveTypes, IdleType, BackupConstants
    DEF RestoresInv, TypeOK, RestoreIsAlone, ContentsAreWhole, RestoreInv, Pc, Actors,
        Restoring, Creating
<1>1. CASE Tick
  BY <1>1 DEF Tick, Times
<1>2. CASE Write
  BY <1>2 DEF Write
<1>3. CASE SchedulerWakes
  BY <1>3, NamedType DEF SchedulerWakes
<1>4. CASE OwnerPostsBackup
  BY <1>4, NamedType DEF OwnerPostsBackup
<1>5. CASE Prune
  BY <1>5 DEF Prune, Removes
<1>6. CASE PruneFails
  BY <1>6 DEF PruneFails, Removes, Fault
<1> QED BY <1>1, <1>2, <1>3, <1>4, <1>5, <1>6

LEMMA ManagerStepInv ==
  ASSUME RestoresInv, ManagerAsks \/ ManagerGivesUp \/ ManagerStops \/ ManagerStep
  PROVE  RestoresInv'
<1> USE ArchiveTypes, IdleType, BackupConstants
    DEF RestoresInv, TypeOK, RestoreIsAlone, ContentsAreWhole, RestoreInv, Pc, Actors,
        Restoring, Creating
<1>1. CASE ManagerAsks
  <2>1. PICK t \in Times :
          job' = [job EXCEPT !["manager"] = [Idle EXCEPT !.pc = "asked", !.from = t]]
    BY <1>1 DEF ManagerAsks
  <2> DEFINE asked == [Idle EXCEPT !.pc = "asked", !.from = t]
  <2>2. asked \in Job /\ asked.pc = "asked"
    BY DEF Job, Idle
  <2>3. job' = [job EXCEPT !["manager"] = asked]
    BY <2>1
  <2>4. /\ restores' \in Nat /\ server = "up"
        /\ UNCHANGED <<clock, faults, db, fresh, server, main, pre, mixed, posts>>
    <3>1. restores' = restores + 1 /\ server = "up"
          /\ UNCHANGED <<clock, faults, db, fresh, server, main, pre, mixed, posts>>
      BY <1>1 DEF ManagerAsks
    <3>2. restores \in Nat
      OBVIOUS
    <3> HIDE DEF TypeOK
    <3> QED BY <3>1, <3>2
  <2> HIDE DEF asked
  <2> QED BY <2>2, <2>3, <2>4
<1>2. CASE ManagerStops
  <2> DEFINE checking == [job["manager"] EXCEPT !.pc = "check"]
  <2>1. checking \in Job /\ checking.pc = "check"
    BY DEF Job
  <2>2. /\ job' \in [Actors -> Job] /\ job'["manager"] = checking
        /\ job'["scheduler"] = Idle /\ job'["api"] = Idle
    <3>1. Killed(job) \in [Actors -> Job] /\ Killed(job)["manager"] = job["manager"]
      BY DEF Killed
    <3>2. job' = [Killed(job) EXCEPT !["manager"] = checking]
      BY <1>2, <3>1 DEF ManagerStops
    <3>3. Killed(job)["scheduler"] = Idle /\ Killed(job)["api"] = Idle
      BY DEF Killed
    <3> HIDE DEF checking
    <3> QED BY <2>1, <3>1, <3>2, <3>3
  <2> HIDE DEF checking
  <2>3. server' = "stopped" /\ mixed' = {} /\ UNCHANGED <<clock, faults, restores, db, fresh, main, pre, posts>>
    BY <1>2 DEF ManagerStops
  <2>4. TypeOK'
    BY <2>1, <2>2, <2>3 DEF Server
  <2> QED BY <2>1, <2>2, <2>3, <2>4
<1>3. CASE Validate
  <2>1. CASE Valid(job["manager"].from)
    BY <1>3, <2>1, NamedType DEF Validate, Valid, AfterValidation
  <2>2. CASE ~Valid(job["manager"].from)
    BY <1>3, <2>2 DEF Validate, AfterFailedRestore, Job
  <2> QED BY <2>1, <2>2
<1>4. CASE CopyCandidate
  BY <1>4 DEF CopyCandidate, CopyTarget, Job
<1>5. CASE Replace
  BY <1>5 DEF Replace, Job
<1>6. CASE ManagerStarts
  BY <1>6 DEF ManagerStarts, Server
<1>7. CASE ManagerGivesUp
  BY <1>7 DEF ManagerGivesUp
<1> QED BY <1>1, <1>2, <1>3, <1>4, <1>5, <1>6, <1>7 DEF ManagerStep

LEMMA RestoresStep ==
  ASSUME RestoresInv, [Next]_vars
  PROVE  RestoresInv'
<1> USE ArchiveTypes, IdleType, BackupConstants
    DEF RestoresInv, TypeOK, RestoreIsAlone, ContentsAreWhole, RestoreInv, Pc, Actors,
        Restoring, Creating
<1>1. CASE PowerLoss
  <2>1. job' \in [Actors -> Job] /\ \A a \in Actors : job'[a] = Idle
    BY <1>1 DEF PowerLoss
  <2>2. /\ server' = "off" /\ mixed' = {} /\ faults' \in Nat
        /\ UNCHANGED <<clock, restores, db, fresh, main, pre, posts>>
    BY <1>1 DEF PowerLoss, Fault
  <2> QED BY <2>1, <2>2 DEF Server
<1>2. CASE Boot \/ UserStarts
  BY <1>2 DEF Boot, UserStarts, Server
<1>3. CASE UNCHANGED vars
  BY <1>3 DEF vars
<1>4. CASE RestoreFails
  BY <1>4 DEF RestoreFails, AfterFailedRestore, Fault, Job
<1>5. CASE StartFails
  BY <1>5 DEF StartFails, Fault, Server
<1> QED BY <1>1, <1>2, <1>3, <1>4, <1>5, CreateStepInv, ServerStepInv, ManagerStepInv DEF Next

\* Types, and what a restore in flight has ensured: it is alone, its candidate is a
\* complete archive, and what it will replace is in its safety archive.
THEOREM RestoresInvariant == FairSpec => []RestoresInv
BY RestoresInit, RestoresStep, PTL DEF FairSpec, Spec

\* The database file is one complete content in every state, so also wherever the
\* power fails: a restore writes beside it and renames.
THEOREM DatabaseIsIntact == FairSpec => []DatabaseIntact
<1>1. RestoresInv => DatabaseIntact
  BY BackupConstants DEF RestoresInv, ContentsAreWhole, DatabaseIntact
<1> QED BY <1>1, RestoresInvariant, PTL

\* With the server down only one step changes the database.
LEMMA ReplacingStep ==
  ASSUME RestoresInv, [Next]_vars, server # "up", db' # db
  PROVE  Replace
<1> USE DEF RestoresInv, RestoreIsAlone, Pc
<1>1. ~Write
  BY DEF Write
<1>2. ~CopyCandidate
  BY DEF CopyCandidate, CopyTarget
<1>3. ~\E a \in Actors : CreateStep(a) \/ CreateFails(a)
  BY DEF CreateStep, CreateFails, Snapshot, OpenArchive, CloseArchive
<1>4. CASE ~Replace
  BY <1>1, <1>2, <1>3, <1>4
     DEF Next, vars, Tick, SchedulerWakes, OwnerPostsBackup, Prune, PruneFails, Removes,
         ManagerAsks, ManagerGivesUp, ManagerStops, ManagerStep, Validate, ManagerStarts,
         RestoreFails, StartFails, UserStarts, PowerLoss, Boot
<1> QED BY <1>4

\* A restore puts in place the database of a complete archive, and nothing else
\* changes the database of a server that is down.
THEOREM RestoresFromGood == FairSpec => RestoreOnlyFromGood
<1>1. RestoresInv /\ [Next]_vars =>
        [server # "up" /\ db' # db
           => /\ job["manager"].pc = "replace"
              /\ main[job["manager"].from].kind = "full"
              /\ db' = main[job["manager"].from].data]_vars
  BY ReplacingStep DEF RestoresInv, RestoreInv, Replace
<1> QED BY <1>1, RestoresInvariant, PTL DEF FairSpec, Spec, RestoreOnlyFromGood

\* What a restore replaces is in a complete safety archive at that moment.
THEOREM ReplacedIsSaved == FairSpec => ReplacedDataIsSaved
<1>1. RestoresInv =>
        (job["manager"].pc = "replace" => \E t \in Times : pre[t] = Full(db))
  <2>1. RestoresInv => job["manager"].at \in Times
    BY DEF RestoresInv, TypeOK, Job, Actors
  <2> QED BY <2>1 DEF RestoresInv, RestoreInv
<1>2. RestoresInv /\ [Next]_vars =>
        [server # "up" /\ db' # db => \E t \in Times : pre[t] = Full(db)]_vars
  BY <1>1, ReplacingStep DEF Replace
<1> QED BY <1>2, RestoresInvariant, PTL DEF FairSpec, Spec, ReplacedDataIsSaved

-----------------------------------------------------------------------------
\* Every set of naturals that is not empty has a least element.
LEMMA LeastNatural ==
  ASSUME NEW S \in SUBSET Nat, S # {}
  PROVE  \E m \in S : \A n \in S : m <= n
<1> DEFINE below == {pair \in Nat \X Nat : pair[1] < pair[2]}
<1>1. OpToRel(<, Nat) = below
  BY Zenon DEF OpToRel
<1>2. IsWellFoundedOn(below, Nat)
  BY <1>1, NatLessThanWellFounded, Zenon
<1>3. \A m, n \in S : <<n, m>> \in below <=> n < m
  OBVIOUS
<1> HIDE DEF below
<1>4. PICK m \in S : \A n \in S : <<n, m>> \notin below
  BY <1>2, WFMin, Zenon
<1>5. \A n \in S : ~(n < m)
  BY <1>3, <1>4
<1> QED BY <1>5

LEMMA NewestProperties ==
  ASSUME NEW S \in SUBSET Times, S # {}
  PROVE  Newest(S) \in S /\ \A s \in S : s <= Newest(S)
<1> USE BackupConstants DEF Times
<1> DEFINE distances == {MaxTime - s : s \in S}
<1>1. distances \in SUBSET Nat /\ distances # {}
  <2>1. \A s \in S : MaxTime - s \in Nat
    OBVIOUS
  <2>2. PICK s \in S : TRUE
    OBVIOUS
  <2>3. MaxTime - s \in distances
    OBVIOUS
  <2> QED BY <2>1, <2>3
<1>2. PICK m \in distances : \A n \in distances : m <= n
  <2> HIDE DEF distances
  <2> QED BY <1>1, LeastNatural
<1>3. PICK t \in S : m = MaxTime - t
  BY <1>2
<1>4. \A s \in S : s <= t
  <2> TAKE s \in S
  <2>1. MaxTime - s \in distances
    OBVIOUS
  <2>2. m <= MaxTime - s
    <3> HIDE DEF distances
    <3> QED BY <1>2, <2>1
  <2> QED BY <1>3, <2>2
<1> QED BY <1>4 DEF Newest

\* A scheduled backup is never named like one that is listed.
LEMMA DueIsUnlisted ==
  ASSUME TypeOK, Due
  PROVE  main[clock].kind \notin {"headed", "full"}
<1> SUFFICES ASSUME clock \in Listed
             PROVE  FALSE
  BY DEF TypeOK, Listed
<1>1. Listed \in SUBSET Times /\ Listed # {}
  BY DEF Listed
<1>2. Newest(Listed) \in Times /\ clock <= Newest(Listed)
  BY <1>1, NewestProperties
<1>3. clock - Newest(Listed) >= Interval
  BY <1>1 DEF Due
<1> QED BY <1>2, <1>3, BackupConstants DEF TypeOK, Times

Exists(t) == main[t].kind # "none"

FilesArePast ==
  /\ \A t \in Times : Exists(t) => t <= clock
  /\ \A a \in {"scheduler", "api"} : Pc(a) \in Creating => job[a].at <= clock

\* While no owner posts, what the scheduler has begun is newer than every other
\* file, and takes no complete archive's name; once it is done it is complete.
SchedulerInv ==
  LET s == job["scheduler"]
  IN  posts = 0 =>
        /\ Pc("api") = "idle" /\ mixed = {}
        /\ s.pc \in Creating \cup {"prune"} => \A t \in Times : Exists(t) => t <= s.at
        /\ s.pc \in Creating => main[s.at].kind \in {"none", "torn"}
        /\ s.pc = "prune" => main[s.at].kind = "full"

BackupsInv == RestoresInv /\ FilesArePast /\ SchedulerInv

LEMMA BackupsInit ==
  ASSUME Init
  PROVE  BackupsInv
<1>1. FilesArePast /\ SchedulerInv
  BY IdleType, ArchiveTypes
     DEF Init, FilesArePast, SchedulerInv, Exists, Pc, Actors, Creating
<1> QED BY <1>1, RestoresInit DEF BackupsInv

LEMMA TimeTypes ==
  ASSUME TypeOK
  PROVE  /\ clock \in Nat /\ \A t \in Times : t \in Nat
         /\ \A a \in Actors : job[a].at \in Times /\ job[a].at \in Nat
BY BackupConstants DEF TypeOK, Times, Job

\* What a step of one writer changes: its place, and the file it has named.
LEMMA CreateStepChanges ==
  ASSUME TypeOK, NEW a \in Actors, CreateStep(a) \/ CreateFails(a)
  PROVE  /\ clock' = clock /\ posts' = posts /\ Pc(a) \in Creating
         /\ \A b \in Actors \ {a} : job'[b] = job[b]
         /\ Pc(a)' \in Creating \cup {"prune"} => job'[a].at = job[a].at
         /\ \A t \in Times : t # job[a].at => main'[t] = main[t]
<1> USE IdleType DEF TypeOK, Pc, Actors, Creating
<1>1. CASE Snapshot(a)
  BY <1>1 DEF Snapshot, Job
<1>2. CASE OpenArchive(a)
  BY <1>2 DEF OpenArchive, Stored, Job
<1>3. CASE CloseArchive(a)
  BY <1>3 DEF CloseArchive, Leaves, Stored, Job
<1>4. CASE CreateFails(a)
  BY <1>4 DEF CreateFails, Leaves, Stored, AfterFailedRestore, Job
<1> QED BY <1>1, <1>2, <1>3, <1>4 DEF CreateStep

\* What is in the file a scheduled backup has named, while no owner posts.
LEMMA ScheduledFile ==
  ASSUME BackupsInv, posts = 0, CreateStep("scheduler") \/ CreateFails("scheduler")
  PROVE  /\ Pc("scheduler")' \in Creating =>
              main'[job["scheduler"].at].kind \in {"none", "torn"}
         /\ Pc("scheduler")' = "prune" => main'[job["scheduler"].at].kind = "full"
<1> USE ArchiveTypes, IdleType
    DEF BackupsInv, RestoresInv, TypeOK, SchedulerInv, Pc, Actors, Creating
<1>1. job["scheduler"].at \in Times /\ job["scheduler"].data \in Nat \cup {None}
  BY DEF Job
<1>2. CASE Snapshot("scheduler")
  BY <1>1, <1>2 DEF Snapshot
<1>3. CASE OpenArchive("scheduler")
  BY <1>1, <1>3 DEF OpenArchive, Stored
<1>4. CASE CloseArchive("scheduler")
  BY <1>1, <1>4 DEF CloseArchive, Leaves, Stored, AfterArchive
<1>5. CASE CreateFails("scheduler")
  BY <1>1, <1>5 DEF CreateFails
<1> QED BY <1>2, <1>3, <1>4, <1>5 DEF CreateStep

\* The Manager writes no archive in backups/.
LEMMA ManagerWritesNone ==
  ASSUME CreateStep("manager") \/ CreateFails("manager")
  PROVE  UNCHANGED main
BY DEF CreateStep, Snapshot, OpenArchive, CloseArchive, CreateFails, Leaves, Stored

\* Two writers of one file are the scheduler and an owner's request.
LEMMA NoneMixed ==
  ASSUME BackupsInv, posts = 0, NEW a \in Actors, CreateStep(a) \/ CreateFails(a)
  PROVE  mixed' = {}
<1>1. mixed = {} /\ job["api"].pc = "idle"
  BY DEF BackupsInv, SchedulerInv, Pc
<1>2. ~SharesFile("scheduler") /\ ~SharesFile("manager")
  BY <1>1 DEF SharesFile, Writes, Actors
<1>3. a # "api"
  BY <1>1 DEF CreateStep, CreateFails, Snapshot, OpenArchive, CloseArchive, Creating
<1> QED
  BY <1>1, <1>2, <1>3 DEF CreateStep, CreateFails, Snapshot, OpenArchive, CloseArchive, Leaves,
     Actors

LEMMA CreateStepSchedule ==
  ASSUME BackupsInv, NEW a \in Actors, CreateStep(a) \/ CreateFails(a)
  PROVE  FilesArePast' /\ SchedulerInv'
<1>1. /\ clock' = clock /\ posts' = posts /\ Pc(a) \in Creating
      /\ \A b \in Actors \ {a} : job'[b] = job[b]
      /\ Pc(a)' \in Creating \cup {"prune"} => job'[a].at = job[a].at
      /\ \A t \in Times : t # job[a].at => main'[t] = main[t]
  BY CreateStepChanges DEF BackupsInv, RestoresInv
<1>2. /\ clock \in Nat /\ \A t \in Times : t \in Nat
      /\ \A b \in Actors : job[b].at \in Times /\ job[b].at \in Nat
  BY TimeTypes DEF BackupsInv, RestoresInv
<1>3. a = "manager" => UNCHANGED main
  BY ManagerWritesNone
<1>4. FilesArePast'
  BY <1>1, <1>2, <1>3 DEF BackupsInv, FilesArePast, Exists, Pc, Actors, Creating
<1>5. SchedulerInv'
  <2>1. CASE a = "scheduler"
    BY <1>1, <1>2, <2>1, ScheduledFile, NoneMixed
       DEF BackupsInv, SchedulerInv, Exists, Pc, Actors, Creating
  <2>2. CASE a = "api"
    BY <1>1, <2>2 DEF BackupsInv, SchedulerInv, Pc, Creating
  <2>3. CASE a = "manager"
    BY <1>1, <1>3, <2>3, NoneMixed DEF BackupsInv, SchedulerInv, Exists, Pc, Actors, Creating
  <2> QED BY <2>1, <2>2, <2>3 DEF Actors
<1> QED BY <1>4, <1>5

LEMMA ServerStepSchedule ==
  ASSUME BackupsInv,
         Tick \/ Write \/ SchedulerWakes \/ OwnerPostsBackup \/ Prune \/ PruneFails
  PROVE  FilesArePast' /\ SchedulerInv'
<1> USE ArchiveTypes, IdleType, BackupConstants
    DEF BackupsInv, RestoresInv, TypeOK, FilesArePast, SchedulerInv, Exists, Pc, Actors,
        Creating, Times
<1>1. CASE Tick
  <2>1. clock \in Nat /\ \A t \in Times : t \in Nat
    BY TimeTypes
  <2>2. \A a \in Actors : job[a].at \in Nat
    BY TimeTypes
  <2>3. clock' = clock + 1 /\ UNCHANGED <<main, job, posts, mixed>>
    BY <1>1 DEF Tick
  <2>4. FilesArePast'
    <3> HIDE DEF Creating, Times, TypeOK
    <3> QED BY <2>1, <2>2, <2>3
  <2>5. SchedulerInv'
    BY <2>3
  <2> QED BY <2>4, <2>5
<1>2. CASE Write
  BY <1>2 DEF Write
<1>3. CASE SchedulerWakes
  <2>1. main[clock].kind \in {"none", "torn"}
    <3>1. main[clock].kind \in {"none", "torn", "headed", "full"}
      BY DEF Archive
    <3> QED BY <1>3, <3>1, DueIsUnlisted DEF SchedulerWakes
  <2> QED BY <1>3, <2>1, NamedType DEF SchedulerWakes
<1>4. CASE OwnerPostsBackup
  BY <1>4, NamedType DEF OwnerPostsBackup
<1>5. CASE Prune
  BY <1>5 DEF Prune, Removes
<1>6. CASE PruneFails
  <2>1. PICK t \in Surplus : Removes(Newer(t) \cap Surplus)
    BY <1>6 DEF PruneFails
  <2> QED BY <2>1 DEF Removes
<1> QED BY <1>1, <1>2, <1>3, <1>4, <1>5, <1>6

LEMMA ManagerStepSchedule ==
  ASSUME BackupsInv,
         \/ ManagerAsks \/ ManagerGivesUp \/ ManagerStops \/ ManagerStep
         \/ RestoreFails \/ StartFails
  PROVE  FilesArePast' /\ SchedulerInv'
<1>1. UNCHANGED <<main, clock, posts>> /\ mixed' \in {mixed, {}}
  BY DEF ManagerAsks, ManagerGivesUp, ManagerStops, ManagerStep, Validate, CopyCandidate, Replace,
         ManagerStarts, RestoreFails, StartFails
<1>2. \A a \in {"scheduler", "api"} : job'[a] = job[a] \/ job'[a] = Idle
  <2> USE DEF BackupsInv, RestoresInv, TypeOK, Actors
  <2>1. CASE ManagerStops
    BY <2>1 DEF ManagerStops, Killed
  <2>2. CASE Validate
    BY <2>2, NamedType DEF Validate, AfterValidation
  <2>3. CASE ManagerAsks
    BY <2>3 DEF ManagerAsks
  <2> QED
    BY <2>1, <2>2, <2>3 DEF ManagerStep, CopyCandidate, Replace, ManagerStarts, ManagerGivesUp,
       RestoreFails, StartFails
<1> QED
  BY <1>1, <1>2, IdleType
     DEF BackupsInv, FilesArePast, SchedulerInv, Exists, Pc, Creating

LEMMA BackupsStep ==
  ASSUME BackupsInv, [Next]_vars
  PROVE  BackupsInv'
<1>1. RestoresInv'
  BY RestoresStep DEF BackupsInv
<1>2. CASE PowerLoss
  <2>1. \A a \in Actors : job'[a] = Idle
    BY <1>2 DEF PowerLoss
  <2> QED
    BY <1>1, <1>2, <2>1, IdleType
       DEF PowerLoss, BackupsInv, FilesArePast, SchedulerInv, Exists, Pc, Creating, Actors
<1>3. CASE Boot \/ UserStarts
  BY <1>1, <1>3 DEF Boot, UserStarts, BackupsInv, FilesArePast, SchedulerInv, Exists, Pc
<1>4. CASE UNCHANGED vars
  BY <1>1, <1>4 DEF vars, BackupsInv, FilesArePast, SchedulerInv, Exists, Pc
<1> QED
  BY <1>1, <1>2, <1>3, <1>4, CreateStepSchedule, ServerStepSchedule, ManagerStepSchedule
     DEF Next, BackupsInv

\* And of the archives: no file is from the future and, while no owner posts, the
\* one the scheduler has begun is newer than all others.
THEOREM BackupsInvariant == FairSpec => []BackupsInv
BY BackupsInit, BackupsStep, PTL DEF FairSpec, Spec

\* Pruning keeps the archive it comes after, for that is the newest file.
LEMMA NewestIsKept ==
  ASSUME BackupsInv, posts = 0, job["scheduler"].pc = "prune"
  PROVE  job["scheduler"].at \in Kept /\ main[job["scheduler"].at].kind = "full"
<1> DEFINE at == job["scheduler"].at
<1>1. at \in Times
  BY DEF BackupsInv, RestoresInv, TypeOK, Job, Actors
<1>2. main[at].kind = "full" /\ \A t \in Times : Exists(t) => t <= at
  BY DEF BackupsInv, SchedulerInv
<1> HIDE DEF at
<1>3. at \in Files
  BY <1>1, <1>2 DEF Files
<1>4. Newer(at) = {}
  BY <1>1, <1>2 DEF Newer, Files, Exists, Times
<1>5. Cardinality(Newer(at)) < Retention
  BY <1>4, FS_EmptySet, BackupConstants
<1> QED BY <1>2, <1>3, <1>5 DEF Kept, at

\* While no owner posts, neither an interrupted backup nor pruning takes away
\* the last complete archive.
THEOREM GoodRemains == FairSpec => GoodBackupRemains
<1>1. BackupsInv /\ [Next]_vars =>
        [posts = 0 /\ (\E t \in Times : main[t].kind = "full")
           => \E t \in Times : main'[t].kind = "full"]_vars
  <2> SUFFICES ASSUME BackupsInv, Next, posts = 0, NEW t \in Times, main[t].kind = "full"
               PROVE  \E s \in Times : main'[s].kind = "full"
    OBVIOUS
  <2>1. ASSUME NEW a \in Actors, CreateStep(a) \/ CreateFails(a)
        PROVE  main'[t].kind = "full"
    BY <2>1, ArchiveTypes
       DEF CreateStep, Snapshot, OpenArchive, CloseArchive, CreateFails, Stored, BackupsInv,
           RestoresInv, TypeOK, SchedulerInv, Pc, Actors, Creating, Leaves, Job
  <2>2. CASE Prune \/ PruneFails
    <3>1. PICK gone \in SUBSET Surplus : Removes(gone)
      BY <2>2 DEF Prune, PruneFails
    <3>2. job["scheduler"].at \in Times
      BY DEF BackupsInv, RestoresInv, TypeOK, Job, Actors
    <3>3. main'[job["scheduler"].at].kind = "full"
      BY <3>1, <3>2, NewestIsKept DEF Removes, Surplus
    <3> QED BY <3>2, <3>3
  <2>3. CASE ~Prune /\ ~PruneFails /\ \A a \in Actors : ~CreateStep(a) /\ ~CreateFails(a)
    <3>1. UNCHANGED main
      BY <2>3
         DEF Next, Tick, Write, SchedulerWakes, OwnerPostsBackup, ManagerAsks, ManagerGivesUp,
             ManagerStops, ManagerStep, Validate, CopyCandidate, Replace, ManagerStarts,
             RestoreFails, StartFails, UserStarts, PowerLoss, Boot
    <3> QED BY <3>1
  <2> QED BY <2>1, <2>2, <2>3
<1> QED BY <1>1, BackupsInvariant, PTL DEF FairSpec, Spec, GoodBackupRemains
-----------------------------------------------------------------------------
(***************************************************************************)
(* Why the server comes back: what ServerComesBack needs but fairness.     *)
(***************************************************************************)

\* manager_entry.py, the service's delayed-auto start: whoever took the server down
\* is about to start it.  A server the Manager stopped is in the hands of its script,
\* at one of the places where that goes on by itself, and of nobody else; one that lost
\* power waits for nothing but Windows.
DownHasStarter ==
  /\ server = "stopped" <=> Pc("manager") \in Restoring
  /\ server = "off" => \A a \in Actors : Pc(a) = "idle"

\* How many steps the restore in flight has to go at most.
Left == CASE Pc("manager") = "check" -> 7 [] Pc("manager") = "named" -> 6
          [] Pc("manager") = "snapped" -> 5 [] Pc("manager") = "writing" -> 4
          [] Pc("manager") = "copy" -> 3 [] Pc("manager") = "replace" -> 2
          [] Pc("manager") = "start" -> 1 [] OTHER -> 0

RestoreStep == \/ ManagerStep \/ CreateStep("manager")
               \/ RestoreFails \/ CreateFails("manager") \/ StartFails

\* Each step of the script, one that fails included, brings a restore nearer its
\* end, and nobody else's step takes it back.  It ends with the server running, unless
\* Start-Service itself fails or the power goes.
RestoreGoesForward ==
  Pc("manager") \in Restoring =>
    /\ Left' <= Left
    /\ RestoreStep => Left' < Left
    /\ Left' = 0 => server' = "up" \/ StartFails \/ PowerLoss

LEMMA StarterStep ==
  ASSUME RestoresInv, DownHasStarter, [Next]_vars
  PROVE  DownHasStarter'
<1> USE IdleType
    DEF RestoresInv, TypeOK, RestoreIsAlone, DownHasStarter, Pc, Actors, Restoring, Creating
<1>1. ASSUME NEW a \in Actors, CreateStep(a) \/ CreateFails(a)
      PROVE  DownHasStarter'
  BY <1>1 DEF CreateStep, CreateFails, Snapshot, OpenArchive, CloseArchive, AfterArchive,
              AfterFailedRestore, Job
<1>2. CASE Tick \/ Write \/ SchedulerWakes \/ OwnerPostsBackup \/ Prune \/ PruneFails
  BY <1>2 DEF Tick, Write, SchedulerWakes, OwnerPostsBackup, Prune, PruneFails, Removes, Named
<1>3. CASE ManagerAsks \/ ManagerGivesUp \/ ManagerStops
  <2>1. CASE ManagerAsks
    <3>1. PICK t \in Times : job' = [job EXCEPT !["manager"] = [Idle EXCEPT !.pc = "asked", !.from = t]]
      BY <2>1 DEF ManagerAsks
    <3>2. job'["manager"].pc = "asked"
      BY <3>1 DEF Idle
    <3> QED BY <2>1, <3>2 DEF ManagerAsks
  <2>2. CASE ManagerGivesUp
    BY <2>2 DEF ManagerGivesUp
  <2>3. CASE ManagerStops
    <3>1. Killed(job) \in [Actors -> Job]
      BY DEF Killed
    <3>2. job'["manager"].pc = "check"
      BY <2>3, <3>1 DEF ManagerStops, Job
    <3> QED BY <2>3, <3>2 DEF ManagerStops
  <2> QED BY <1>3, <2>1, <2>2, <2>3
<1>4. CASE ManagerStep \/ RestoreFails \/ StartFails
  <2>1. CASE Validate
    BY <2>1, NamedType DEF Validate, AfterValidation, AfterFailedRestore
  <2>2. CASE CopyCandidate
    BY <2>2 DEF CopyCandidate, Job
  <2>3. CASE Replace
    BY <2>3 DEF Replace, Job
  <2>4. CASE ManagerStarts \/ StartFails
    BY <2>4 DEF ManagerStarts, StartFails
  <2>5. CASE RestoreFails
    BY <2>5 DEF RestoreFails, AfterFailedRestore, Job
  <2> QED BY <1>4, <2>1, <2>2, <2>3, <2>4, <2>5 DEF ManagerStep
<1>5. CASE PowerLoss
  BY <1>5 DEF PowerLoss
<1>6. CASE Boot \/ UserStarts
  BY <1>6 DEF Boot, UserStarts
<1>7. CASE UNCHANGED vars
  BY <1>7 DEF vars
<1> QED BY <1>1, <1>2, <1>3, <1>4, <1>5, <1>6, <1>7 DEF Next

LEMMA RestoreForwardStep ==
  ASSUME RestoresInv, Next
  PROVE  RestoreGoesForward
<1> SUFFICES ASSUME Pc("manager") \in Restoring
             PROVE  /\ Left' <= Left
                    /\ RestoreStep => Left' < Left
                    /\ Left' = 0 => server' = "up" \/ StartFails \/ PowerLoss
  BY DEF RestoreGoesForward
<1> USE IdleType
    DEF RestoresInv, TypeOK, RestoreIsAlone, Pc, Actors, Restoring, Creating, Left
<1>1. CASE CreateStep("manager") \/ CreateFails("manager")
  BY <1>1 DEF CreateStep, CreateFails, Snapshot, OpenArchive, CloseArchive, AfterArchive,
              AfterFailedRestore, Job
<1>2. CASE ManagerStep \/ RestoreFails \/ StartFails
  <2>1. CASE Validate
    BY <2>1, NamedType DEF Validate, AfterValidation, AfterFailedRestore
  <2>2. CASE CopyCandidate
    BY <2>2 DEF CopyCandidate, Job
  <2>3. CASE Replace
    BY <2>3 DEF Replace, Job
  <2>4. CASE ManagerStarts
    BY <2>4 DEF ManagerStarts
  <2>5. CASE RestoreFails
    BY <2>5 DEF RestoreFails, AfterFailedRestore, Job
  <2>6. CASE StartFails
    BY <2>6 DEF StartFails
  <2> QED BY <1>2, <2>1, <2>2, <2>3, <2>4, <2>5, <2>6 DEF ManagerStep
<1>3. CASE PowerLoss /\ ~RestoreStep
  BY <1>3 DEF PowerLoss
<1>4. CASE ~RestoreStep /\ ~PowerLoss
  <2>1. job'["manager"] = job["manager"]
    <3>1. CASE Tick \/ Write \/ Prune \/ PruneFails \/ Boot \/ UserStarts
      BY <3>1 DEF Tick, Write, Prune, PruneFails, Removes, Boot, UserStarts
    <3>2. CASE SchedulerWakes \/ OwnerPostsBackup
      BY <3>2 DEF SchedulerWakes, OwnerPostsBackup, Named
    <3>3. ASSUME NEW a \in {"scheduler", "api"}, CreateStep(a) \/ CreateFails(a)
          PROVE  job'["manager"] = job["manager"]
      BY <3>3, CreateStepChanges
    <3>4. ~ManagerAsks /\ ~ManagerGivesUp /\ ~ManagerStops
      BY DEF ManagerAsks, ManagerGivesUp, ManagerStops
    <3> QED BY <1>4, <3>1, <3>2, <3>3, <3>4 DEF Next, RestoreStep
  <2> QED BY <1>4, <2>1
<1> QED BY <1>1, <1>2, <1>3, <1>4 DEF RestoreStep

\* A server the Manager has stopped is never left down: as long as it is, and no longer,
\* its script is at a place where it goes on by itself, and a server that lost its power
\* waits for Windows alone.  So only a Start-Service that fails itself can leave one down.
THEOREM DownIsBeingStarted == FairSpec => []DownHasStarter
<1>1. Init => DownHasStarter
  BY IdleType DEF Init, DownHasStarter, Pc, Actors, Restoring
<1> QED BY <1>1, RestoresInit, RestoresStep, StarterStep, PTL DEF FairSpec, Spec

\* A restore gets nearer the restart with each of its own steps, whichever of them
\* fail: an error while validating, saving, copying or replacing leads to the restart.
\* Only a failing Start-Service or a power loss ends it with the server not running.
THEOREM RestoreRunsDown == FairSpec => [][RestoreGoesForward]_vars
<1>1. RestoresInv /\ [Next]_vars => [RestoreGoesForward]_vars
  BY RestoreForwardStep
<1> QED BY <1>1, RestoresInvariant, PTL DEF FairSpec, Spec

-----------------------------------------------------------------------------
(***************************************************************************)
(* Why a complete backup comes in the end: what CompleteBackupEventually   *)
(* needs but fairness.                                                     *)
(***************************************************************************)

\* A write that raised leaves its archive under a name from before the fault.
HeadedAreEarly == \A t \in Times : main[t].kind = "headed" => t <= LastFault

\* backup_scheduler.py asks for the newest archive it can list, usable or not.  An
\* interval after the last fault at the latest, nothing unusable puts a backup off
\* any longer.
DueInTheEnd ==
  Schedule /\ (\A t \in Times : main[t].kind # "full") /\ clock >= LastFault + Interval => Due

LEMMA HeadedStep ==
  ASSUME BackupsInv, HeadedAreEarly, [Next]_vars
  PROVE  HeadedAreEarly'
<1> USE ArchiveTypes DEF HeadedAreEarly, BackupsInv, RestoresInv, TypeOK
<1>1. ASSUME NEW a \in Actors, CreateStep(a)
      PROVE  HeadedAreEarly'
  BY <1>1 DEF CreateStep, Snapshot, OpenArchive, CloseArchive, Leaves, Stored, Job
<1>2. ASSUME NEW a \in Actors, CreateFails(a)
      PROVE  HeadedAreEarly'
  <2>1. clock <= LastFault /\ clock \in Nat /\ \A t \in Times : t \in Nat
    BY <1>2, TimeTypes DEF CreateFails, Fault
  <2>2. CASE a = "manager"
    BY <1>2, <2>2, ManagerWritesNone
  <2>3. CASE a # "manager"
    <3>1. job[a].at <= clock /\ job[a].at \in Nat
      BY <1>2, <2>3, TimeTypes DEF FilesArePast, Pc, Actors, CreateFails
    <3>2. job[a].at <= LastFault
      BY <2>1, <3>1, BackupConstants
    <3>3. \/ main' = main
          \/ \E archive \in {Headed, Torn} : main' = [main EXCEPT ![job[a].at] = archive]
      BY <1>2, <2>3 DEF CreateFails, Leaves, Stored
    <3> QED BY <3>2, <3>3
  <2> QED BY <2>2, <2>3
<1>3. CASE Prune \/ PruneFails
  BY <1>3 DEF Prune, PruneFails, Removes
<1>4. CASE ~Prune /\ ~PruneFails /\ \A a \in Actors : ~CreateStep(a) /\ ~CreateFails(a)
  <2>1. UNCHANGED main
    BY <1>4
       DEF Next, Tick, Write, SchedulerWakes, OwnerPostsBackup, ManagerAsks, ManagerGivesUp,
           ManagerStops, ManagerStep, Validate, CopyCandidate, Replace, ManagerStarts,
           RestoreFails, StartFails, UserStarts, PowerLoss, Boot, vars
  <2> QED BY <2>1
<1> QED BY <1>1, <1>2, <1>3, <1>4

\* An unusable archive puts the next attempt off, but never for good.
THEOREM BackupIsDueInTheEnd == FairSpec => []DueInTheEnd
<1>1. Init => HeadedAreEarly
  BY ArchiveTypes DEF Init, HeadedAreEarly
<1>2. BackupsInv /\ HeadedAreEarly => DueInTheEnd
  <2> SUFFICES ASSUME BackupsInv, HeadedAreEarly, Schedule,
                      \A t \in Times : main[t].kind # "full", clock >= LastFault + Interval
               PROVE  Due
    BY DEF DueInTheEnd
  <2>1. \A t \in Listed : t <= LastFault
    BY DEF Listed, HeadedAreEarly
  <2>2. Listed # {} => Newest(Listed) \in Listed
    BY NewestProperties DEF Listed
  <2>3. Listed # {} => Newest(Listed) <= LastFault /\ Newest(Listed) \in Nat
    BY <2>1, <2>2, TimeTypes DEF Listed, BackupsInv, RestoresInv
  <2>4. clock \in Nat
    BY TimeTypes DEF BackupsInv, RestoresInv
  <2>5. Listed # {} => clock - Newest(Listed) >= Interval
    BY <2>3, <2>4, BackupConstants
  <2> QED BY <2>5 DEF Due
<1> QED BY <1>1, <1>2, BackupsInit, BackupsStep, HeadedStep, PTL DEF FairSpec, Spec
\* How many steps the scheduler's backup has to go.
StepsToGo == CASE Pc("scheduler") = "named" -> 3 [] Pc("scheduler") = "snapped" -> 2
               [] Pc("scheduler") = "writing" -> 1 [] OTHER -> 0

\* After the last fault a backup the scheduler has begun gets nearer its end with each
\* of its own steps and is taken back by nobody else's.  It ends in a complete archive,
\* unless a posted one writes the same file or the Manager stops the server.
BackupGoesForward ==
  clock > LastFault /\ Pc("scheduler") \in Creating =>
    /\ StepsToGo' <= StepsToGo
    /\ CreateStep("scheduler") => StepsToGo' < StepsToGo
    /\ StepsToGo' = 0 => \/ server' # "up"
                         \/ job["scheduler"].at \in mixed
                         \/ main'[job["scheduler"].at].kind = "full"

LEMMA BackupForwardStep ==
  ASSUME BackupsInv, Next
  PROVE  BackupGoesForward
<1> SUFFICES ASSUME clock > LastFault, Pc("scheduler") \in Creating
             PROVE  /\ StepsToGo' <= StepsToGo
                    /\ CreateStep("scheduler") => StepsToGo' < StepsToGo
                    /\ StepsToGo' = 0 => \/ server' # "up"
                                         \/ job["scheduler"].at \in mixed
                                         \/ main'[job["scheduler"].at].kind = "full"
  BY DEF BackupGoesForward
<1> USE IdleType, ArchiveTypes
    DEF BackupsInv, RestoresInv, TypeOK, Pc, Actors, Creating, StepsToGo
<1>1. ~Fault
  BY BackupConstants, TimeTypes DEF Fault
<1>2. CASE CreateStep("scheduler")
  <2>1. CASE Snapshot("scheduler")
    BY <2>1 DEF Snapshot, Job
  <2>2. CASE OpenArchive("scheduler")
    BY <2>2 DEF OpenArchive, Job
  <2>3. CASE CloseArchive("scheduler")
    <3>1. job["scheduler"].at \in Times /\ job["scheduler"].data \in Nat \cup {None}
      BY DEF Job
    <3>2. job["scheduler"].at \in mixed \/ main'[job["scheduler"].at].kind = "full"
      BY <2>3, <3>1 DEF CloseArchive, Leaves, Stored
    <3>3. job["scheduler"].pc = "writing" /\ job'["scheduler"].pc = "prune"
      BY <2>3 DEF CloseArchive, AfterArchive, Job
    <3> QED BY <3>2, <3>3
  <2> QED BY <1>2, <2>1, <2>2, <2>3 DEF CreateStep
<1>3. CASE ~CreateStep("scheduler")
  <2>1. CASE ManagerStops
    <3>1. server' = "stopped" /\ job'["scheduler"] = Idle
      BY <2>1 DEF ManagerStops, Killed
    <3> QED BY <1>3, <3>1
  <2>2. CASE ~ManagerStops
    <3>1. job'["scheduler"] = job["scheduler"]
      <4>1. CASE Tick \/ Write \/ Boot \/ UserStarts
        BY <4>1 DEF Tick, Write, Boot, UserStarts
      <4>2. CASE SchedulerWakes \/ Prune \/ PruneFails \/ PowerLoss
        BY <1>1, <4>2 DEF SchedulerWakes, Prune, PruneFails, Removes, PowerLoss
      <4>3. CASE OwnerPostsBackup
        BY <4>3, NamedType DEF OwnerPostsBackup
      <4>4. ASSUME NEW a \in Actors, CreateStep(a) \/ CreateFails(a)
            PROVE  job'["scheduler"] = job["scheduler"]
        BY <1>1, <1>3, <4>4, CreateStepChanges DEF CreateFails
      <4>5. CASE ManagerAsks \/ ManagerGivesUp \/ RestoreFails \/ StartFails
        BY <4>5 DEF ManagerAsks, ManagerGivesUp, RestoreFails, StartFails
      <4>6. CASE ManagerStep
        <5>1. CASE Validate
          BY <5>1, NamedType DEF Validate, AfterValidation
        <5> QED BY <4>6, <5>1 DEF ManagerStep, CopyCandidate, Replace, ManagerStarts
      <4> QED BY <2>2, <4>1, <4>2, <4>3, <4>4, <4>5, <4>6 DEF Next
    <3> QED BY <1>3, <3>1
  <2> QED BY <2>1, <2>2
<1> QED BY <1>2, <1>3

\* And once begun after the last fault it is not given up.
THEOREM LateBackupRunsDown == FairSpec => [][BackupGoesForward]_vars
<1>1. BackupsInv /\ [Next]_vars => [BackupGoesForward]_vars
  BY BackupForwardStep
<1> QED BY <1>1, BackupsInvariant, PTL DEF FairSpec, Spec
=============================================================================
