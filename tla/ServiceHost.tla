----------------------------- MODULE ServiceHost -----------------------------
(***************************************************************************)
(* The server as a Windows service: the Service Control Manager (SCM), the *)
(* control handler it calls on the dispatcher thread, the service main     *)
(* thread with the workload (windows_service.py, launcher.py), the Uvicorn *)
(* thread and the daemon thread of the backup scheduler.                   *)
(*                                                                         *)
(* Uvicorn's thread is no daemon: a process whose main thread has returned *)
(* goes on until it ends, and the SCM may start another one meanwhile.     *)
(***************************************************************************)
EXTENDS Naturals

CONSTANTS
  MaxStarts,   \* bound: so often is the service started
  MaxCrashes   \* bound: so often does Uvicorn's thread die while serving

ASSUME HostConstants == MaxStarts \in Nat /\ MaxCrashes \in Nat

VARIABLES
  prompt,    \* does Uvicorn's thread end within the time its joins allow; fixed
  status,    \* the service state the SCM was last told
  main,      \* where the service main thread is
  handler,   \* the control handler: not called, between its steps, or done
  stop,      \* stop_event
  server,    \* Uvicorn's thread
  told,      \* its should_exit and force_exit
  sched,     \* is the backup scheduler's thread running
  old,       \* does Uvicorn's thread of an earlier process still run
  starts, crashes

host == <<status, main, handler, stop, server, told, sched, old, starts, crashes>>
vars == <<prompt, host>>

TypeOK == /\ status \in {"stopped", "start_pending", "running", "stop_pending"}
          /\ main \in {"none", "migrate", "poll", "abort", "announce", "wait",
                       "drain", "join", "force", "report", "returned"}
          /\ handler \in {"idle", "called", "done"}
          /\ server \in {"none", "starting", "serving", "dead"}
          /\ told \in {"run", "exit", "force"}
          /\ {prompt, stop, sched, old} \subseteq BOOLEAN
          /\ starts \in Nat /\ crashes \in Nat

Init == /\ prompt \in BOOLEAN
        /\ status = "stopped" /\ main = "none" /\ handler = "idle"
        /\ stop = FALSE /\ server = "none" /\ told = "run"
        /\ sched = FALSE /\ old = FALSE
        /\ starts = 0 /\ crashes = 0

Alive == server \in {"starting", "serving"}

-----------------------------------------------------------------------------
\* StartService needs a stopped service, not an ended process; the new one
\* registers its handler and reports START_PENDING.
SCMStarts ==
  /\ status = "stopped" /\ main \in {"none", "returned"}
  /\ starts < MaxStarts /\ starts' = starts + 1
  /\ old' = (old \/ Alive)
  /\ status' = "start_pending" /\ main' = "migrate"
  /\ handler' = "idle" /\ stop' = FALSE /\ server' = "none" /\ told' = "run"
  /\ sched' = FALSE
  /\ UNCHANGED crashes

\* _run_migrations; then the scheduler and Uvicorn threads are started.
Migrates ==
  /\ main = "migrate"
  /\ \/ /\ main' = "poll" /\ server' = "starting" /\ sched' = TRUE
     \/ main' = "report" /\ UNCHANGED <<server, sched>>
  /\ UNCHANGED <<status, handler, stop, told, old, starts, crashes>>

\* The loop that polls for readiness, and its three ways out.
Ready == /\ server = "serving" \/ (server = "starting" /\ stop)
         /\ main' = "announce" /\ UNCHANGED told

DiedStarting == server = "dead" /\ main' = "report" /\ UNCHANGED told

TimesOutStarting == /\ server = "starting" /\ ~stop
                    /\ main' = "abort" /\ told' = "exit"

Polls == /\ main = "poll"
         /\ Ready \/ DiedStarting \/ TimesOutStarting
         /\ UNCHANGED <<status, handler, stop, server, sched, old, starts, crashes>>

\* thread.join(timeout): the thread has ended, or the time is up.
Joined_Endless == ~Alive
Joined_AtOnce == TRUE
Joined == ~Alive \/ ~prompt

Aborts == /\ main = "abort" /\ Joined
          /\ main' = "report"
          /\ UNCHANGED <<status, handler, stop, server, told, sched, old, starts, crashes>>

MarksRunning == /\ main = "announce"
                /\ status' = "running" /\ main' = "wait"
                /\ UNCHANGED <<handler, stop, server, told, sched, old, starts, crashes>>

StopSeen == /\ main = "wait" /\ stop
            /\ told' = "exit" /\ main' = "drain"
            /\ UNCHANGED <<status, handler, stop, server, sched, old, starts, crashes>>

Drained == /\ main = "drain" /\ Joined
           /\ main' = "join"
           /\ UNCHANGED <<status, handler, stop, server, told, sched, old, starts, crashes>>

\* The scheduler gets two seconds; then Uvicorn is forced if it still runs.
SchedulerJoined == /\ main = "join"
                   /\ IF Alive THEN main' = "force" /\ told' = "force"
                               ELSE main' = "report" /\ UNCHANGED told
                   /\ UNCHANGED <<status, handler, stop, server, sched, old, starts, crashes>>

Forced == /\ main = "force" /\ Joined
          /\ main' = "report"
          /\ UNCHANGED <<status, handler, stop, server, told, sched, old, starts, crashes>>

\* The finally clause of _service_main, after success and failure alike.
Reports == /\ main = "report"
           /\ status' = "stopped" /\ main' = "returned"
           /\ UNCHANGED <<handler, stop, server, told, sched, old, starts, crashes>>

ProcessEnds == /\ main = "returned" /\ ~Alive
               /\ main' = "none" /\ server' = "none" /\ sched' = FALSE
               /\ UNCHANGED <<status, handler, stop, told, old, starts, crashes>>

MainStep == \/ Migrates \/ Polls \/ Aborts \/ MarksRunning \/ StopSeen \/ Drained
            \/ SchedulerJoined \/ Forced \/ Reports \/ ProcessEnds

-----------------------------------------------------------------------------
\* The SCM delivers STOP or SHUTDOWN only while the reported status accepts it.
AcceptsStop_Pending == status \in {"start_pending", "running"}
AcceptsStop == status = "running"

\* _control_handler reports STOP_PENDING, then sets the event.
Control_ReportsStopping ==
  /\ AcceptsStop /\ handler = "idle"
  /\ status' = "stopping" /\ handler' = "called"
  /\ UNCHANGED <<main, stop, server, told, sched, old, starts, crashes>>
Control == /\ AcceptsStop /\ handler = "idle"
           /\ status' = "stop_pending" /\ handler' = "called"
           /\ UNCHANGED <<main, stop, server, told, sched, old, starts, crashes>>

SetsEvent == /\ handler = "called"
             /\ stop' = TRUE /\ handler' = "done"
             /\ UNCHANGED <<status, main, server, told, sched, old, starts, crashes>>

SchedulerEnds == /\ sched /\ stop
                 /\ sched' = FALSE
                 /\ UNCHANGED <<status, main, handler, stop, server, told, old, starts, crashes>>

-----------------------------------------------------------------------------
\* Uvicorn (external): it cannot bind the port an earlier process holds.
ServerStarts == /\ server = "starting"
                /\ \/ ~old /\ server' = "serving"
                   \/ server' = "dead"
                /\ UNCHANGED <<status, main, handler, stop, told, sched, old, starts, crashes>>

ServerCrashes == /\ server = "serving" /\ told = "run"
                 /\ crashes < MaxCrashes /\ crashes' = crashes + 1
                 /\ server' = "dead"
                 /\ UNCHANGED <<status, main, handler, stop, told, sched, old, starts>>

ServerExits == /\ Alive /\ told # "run"
               /\ server' = "dead"
               /\ UNCHANGED <<status, main, handler, stop, told, sched, old, starts, crashes>>

OldExits == /\ old /\ old' = FALSE
            /\ UNCHANGED <<status, main, handler, stop, server, told, sched, starts, crashes>>

Next == /\ \/ SCMStarts \/ MainStep \/ Control \/ SetsEvent \/ SchedulerEnds
           \/ ServerStarts \/ ServerCrashes \/ ServerExits \/ OldExits
        /\ UNCHANGED prompt

Spec == Init /\ [][Next]_vars

\* The process's own threads are scheduled and time passes, so a join or the
\* readiness loop ends; Uvicorn is trusted to end only if prompt.
Fairness == /\ WF_host(MainStep) /\ WF_host(SetsEvent)
            /\ WF_host(prompt /\ ServerExits)

FairSpec == Spec /\ Fairness

-----------------------------------------------------------------------------
\* A stop that was reported is never taken back by the main thread, which
\* reports RUNNING without looking at the event.
StopNeverUndone ==
  [][status = "stop_pending" => status' \in {"stop_pending", "stopped"}]_vars

\* Whatever Uvicorn does, nothing stays pending: an accepted stop completes though
\* Uvicorn may never come to its end, and a start gets to RUNNING or STOPPED
\* though Uvicorn may never be ready.
PendingSettles ==
  /\ status = "stop_pending" ~> status = "stopped"
  /\ status = "start_pending" ~> status \in {"running", "stopped"}

\* backup.py restores "while the normal server process is offline": once the
\* SCM shows STOPPED, no Uvicorn thread is left that could serve a request, if
\* only Uvicorn ends within the 25 seconds it is given.
OfflineWhenStopped == prompt /\ status = "stopped" => ~Alive /\ ~old
=============================================================================
