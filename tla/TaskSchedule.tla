---------------------------- MODULE TaskSchedule ----------------------------
(***************************************************************************)
(* Recurring tasks and the next-check date they project on the resource    *)
(* they inspect (TaskService in services.py).  A handler reads the task,   *)
(* validates a new link, reads the linked resource, and writes both rows   *)
(* in one commit.  Reads and the commit are steps of their own, so two     *)
(* handlers, or a handler and a PATCH of the resource, may interleave.     *)
(***************************************************************************)
EXTENDS Naturals

CONSTANTS
  Clients, Tasks,
  Resources,      \* items, containers and assets: the three branches agree
  None,
  MaxDay,         \* bound: dates are the days 1..MaxDay
  Interval,       \* recurrence_interval, in days
  MaxRev,         \* bound: tasks of this revision are not edited any more
  Calm            \* is this a calm household (below)

ASSUME TaskConstants ==
  /\ None \notin Tasks \cup Resources \cup Nat
  /\ MaxDay \in Nat /\ MaxRev \in Nat /\ Interval \in Nat \ {0}
  /\ Calm \in BOOLEAN

(***************************************************************************)
(* A calm household is served one handler at a time, no two of its live    *)
(* tasks inspect one resource, and nobody writes next_check_at directly.   *)
(***************************************************************************)
VARIABLES
  tasks,   \* the tasks table
  res,     \* the columns of the resource tables that tasks write
  req      \* what each client's handler is doing

vars == <<tasks, res, req>>

Days == 1..MaxDay
States == {"absent", "live", "deleted"}

Task == [state   : States,
         rev     : Nat,
         enabled : BOOLEAN,
         mode    : {"completion", "scheduled"},
         due     : Days \cup {None},     \* next_due_at
         done    : Days \cup {None},     \* last_completed_at
         link    : Resources \cup {None}]

Resource == [state   : States,
             rev     : Nat,
             check   : Days \cup {None},    \* next_check_at
             checked : Days \cup {None}]    \* last_checked(_at)

NoTask == [state |-> "absent", rev |-> 0, enabled |-> FALSE, mode |-> "completion",
           due |-> None, done |-> None, link |-> None]

NoRow == [state |-> "absent", rev |-> 0, check |-> None, checked |-> None]

\* A handler keeps each row as loaded and as its session will flush it.
Request == [pc   : {"idle", "validate", "insert", "sync", "commit"},
            t    : Tasks \cup {None},
            told : Task, tnew : Task,
            r    : Resources \cup {None},
            rold : Resource, rnew : Resource]

Idle == [pc |-> "idle", t |-> None, told |-> NoTask, tnew |-> NoTask,
         r |-> None, rold |-> NoRow, rnew |-> NoRow]

TypeOK == /\ tasks \in [Tasks -> Task]
          /\ res \in [Resources -> Resource]
          /\ req \in [Clients -> Request]

Init == /\ tasks = [t \in Tasks |-> NoTask]
        /\ res = [r \in Resources |-> [NoRow EXCEPT !.state = "live", !.rev = 1]]
        /\ req = [u \in Clients |-> Idle]

MayStart(u) == /\ req[u].pc = "idle"
               /\ Calm => \A v \in Clients : req[v].pc = "idle"

-----------------------------------------------------------------------------
\* calculate_next_due: from the completion, or along the grid of the old due
\* date until it lies after the completion.
Base(task, day) == IF task.mode = "scheduled" /\ task.due # None THEN task.due ELSE day

NextDue(task, day) ==
  LET base == Base(task, day)
      k == IF task.mode = "scheduled"
             THEN CHOOSE n \in 1..(MaxDay + 1) :
                    /\ base + n * Interval > day
                    /\ n = 1 \/ base + (n - 1) * Interval <= day
             ELSE 1
  IN  base + k * Interval

Projected(task) == IF task.enabled THEN task.due ELSE None

\* _sync_linked_resource on a live row; it writes next_check_at even when it
\* is NULL, the last check only when the task has been completed.
Synced_KeepsDisabled(task, row) ==
  [row EXCEPT !.check = task.due,
              !.checked = IF task.done = None THEN @ ELSE task.done, !.rev = @ + 1]
Synced(task, row) ==
  [row EXCEPT !.check = Projected(task),
              !.checked = IF task.done = None THEN @ ELSE task.done, !.rev = @ + 1]

\* Flushing an object writes the columns that changed since it was loaded.
Merge(current, loaded, new) ==
  [f \in DOMAIN current |-> IF new[f] # loaded[f] THEN new[f] ELSE current[f]]

LinkAllowed(t, r) ==
  r # None /\ Calm =>
     /\ \A o \in Tasks \ {t} : tasks[o].state = "live" => tasks[o].link # r
     /\ \A v \in Clients : req[v].tnew.link # r

\* A new link is validated by a SELECT of its own, an unchanged one is not.
Begin(u, t, new, validates) ==
  req' = [req EXCEPT ![u] = [Idle EXCEPT !.pc = IF validates THEN "validate" ELSE "sync",
                                         !.t = t, !.told = tasks[t], !.tnew = new]]

StartCreate(u) ==
  /\ MayStart(u)
  /\ \E t \in Tasks, due \in Days \cup {None}, link \in Resources \cup {None},
        mode \in {"completion", "scheduled"} :
       /\ tasks[t].state = "absent"
       /\ \A v \in Clients : req[v].t # t
       /\ LinkAllowed(t, link)
       /\ LET new == [NoTask EXCEPT !.state = "live", !.rev = 1, !.enabled = TRUE,
                                    !.mode = mode, !.due = due, !.link = link]
          IN  req' = [req EXCEPT ![u] = [Idle EXCEPT
                        !.pc = IF link = None THEN "insert" ELSE "validate",
                        !.t = t, !.tnew = new]]
  /\ UNCHANGED <<tasks, res>>

Editable(t) == tasks[t].state = "live" /\ tasks[t].rev < MaxRev

\* PATCH of one column; the due date, the switch, or the link.
StartUpdate(u) ==
  /\ MayStart(u)
  /\ \E t \in Tasks :
       /\ Editable(t)
       /\ LET next == [tasks[t] EXCEPT !.rev = @ + 1]
          IN  \/ \E d \in Days \cup {None} : Begin(u, t, [next EXCEPT !.due = d], FALSE)
              \/ \E b \in BOOLEAN : Begin(u, t, [next EXCEPT !.enabled = b], FALSE)
              \/ \E l \in Resources \cup {None} :
                   /\ LinkAllowed(t, l)
                   /\ Begin(u, t, [next EXCEPT !.link = l], l # None)
  /\ UNCHANGED <<tasks, res>>

StartComplete(u) ==
  /\ MayStart(u)
  /\ \E t \in Tasks, day \in Days :
       /\ Editable(t)
       /\ NextDue(tasks[t], day) <= MaxDay
       /\ Begin(u, t, [tasks[t] EXCEPT !.done = day, !.due = NextDue(tasks[t], day),
                                       !.rev = @ + 1], FALSE)
  /\ UNCHANGED <<tasks, res>>

\* A deleted task is switched off first, so that the sync clears the date.
Deleted_StillEnabled(task) == [task EXCEPT !.state = "deleted", !.rev = @ + 1]
Deleted(task) == [task EXCEPT !.enabled = FALSE, !.state = "deleted", !.rev = @ + 1]

StartDelete(u) ==
  /\ MayStart(u)
  /\ \E t \in Tasks : /\ Editable(t)
                      /\ Begin(u, t, Deleted(tasks[t]), FALSE)
  /\ UNCHANGED <<tasks, res>>

\* _validate_link.
Validate(u) ==
  /\ req[u].pc = "validate"
  /\ req' = [req EXCEPT ![u] =
               IF res[req[u].tnew.link].state # "live" THEN Idle
               ELSE IF req[u].told = NoTask THEN [@ EXCEPT !.pc = "insert"]
               ELSE [@ EXCEPT !.pc = "sync"]]
  /\ UNCHANGED <<tasks, res>>

LinksLive(task) == task.link # None /\ res[task.link].state = "live"

\* The SELECT of _sync_linked_resource, by the link the task will have.
Sync(u) ==
  /\ req[u].pc = "sync"
  /\ LET task == req[u].tnew
     IN  req' = [req EXCEPT ![u] =
                   IF LinksLive(task)
                     THEN [@ EXCEPT !.pc = "commit", !.r = task.link,
                                    !.rold = res[task.link],
                                    !.rnew = Synced(req[u].tnew, res[task.link])]
                     ELSE [@ EXCEPT !.pc = "commit"]]
  /\ UNCHANGED <<tasks, res>>

\* The INSERT is flushed before the sync reads, so the write lock is held and
\* read, update and commit are one step.
CommitInsert(u) ==
  /\ req[u].pc = "insert"
  /\ LET task == req[u].tnew
     IN  /\ tasks' = [tasks EXCEPT ![req[u].t] = task]
         /\ res' = IF LinksLive(task)
                     THEN [res EXCEPT ![task.link] = Synced(task, @)]
                     ELSE res
  /\ req' = [req EXCEPT ![u] = Idle]

Commit(u) ==
  /\ req[u].pc = "commit"
  /\ tasks' = IF req[u].t = None THEN tasks
              ELSE [tasks EXCEPT ![req[u].t] = Merge(@, req[u].told, req[u].tnew)]
  /\ res' = IF req[u].r = None THEN res
            ELSE [res EXCEPT ![req[u].r] = Merge(@, req[u].rold, req[u].rnew)]
  /\ req' = [req EXCEPT ![u] = Idle]

\* The resource's own handlers: PATCH next_check_at, and DELETE, which leaves
\* the tasks that link to it alone.
StartResource(u) ==
  /\ MayStart(u)
  /\ \E r \in Resources :
       /\ res[r].state = "live"
       /\ res[r].rev < MaxRev
       /\ \E new \in {[res[r] EXCEPT !.state = "deleted", !.rev = @ + 1]}
               \cup {[res[r] EXCEPT !.check = d, !.rev = @ + 1] :
                       d \in IF Calm THEN {} ELSE Days \cup {None}} :
            req' = [req EXCEPT ![u] = [Idle EXCEPT !.pc = "commit", !.r = r,
                                                   !.rold = res[r], !.rnew = new]]
  /\ UNCHANGED <<tasks, res>>

Step(u) == \/ StartCreate(u) \/ StartUpdate(u) \/ StartComplete(u) \/ StartDelete(u)
           \/ StartResource(u) \/ Validate(u) \/ Sync(u)
           \/ CommitInsert(u) \/ Commit(u)

Next == \E u \in Clients : Step(u)

Spec == Init /\ [][Next]_vars

-----------------------------------------------------------------------------
\* DATA-MODEL.md: the resource's next check is a projection of the schedule of
\* the task that inspects it.  It is, in a calm household, after any sequence of
\* edits, completions, relinks and deletions.
ProjectionFollowsTask ==
  Calm => \A t \in Tasks :
            tasks[t].state = "live" /\ LinksLive(tasks[t])
              => res[tasks[t].link].check = Projected(tasks[t])

\* The converse: a next-check date always stems from a live task.
NoOrphanProjection ==
  \A r \in Resources :
    res[r].state = "live" /\ res[r].check # None
      => \E t \in Tasks : /\ tasks[t].state = "live"
                          /\ tasks[t].link = r
                          /\ Projected(tasks[t]) = res[r].check

\* Neither row changed since the handler of u read it.
Undisturbed(u) == /\ req[u].t # None => tasks[req[u].t] = req[u].told
                  /\ req[u].r # None => res[req[u].r] = req[u].rold

\* Whatever other handlers, other tasks and direct writes do: right after the
\* commit of a task handler nobody has overtaken, the resource it links to
\* shows that task's date (and no date when it is off or deleted).
UndisturbedCommitSyncs ==
  [][\A u \in Clients :
       /\ req[u].pc \in {"insert", "commit"} /\ req'[u].pc = "idle"
       /\ req[u].t # None
       /\ Undisturbed(u)
       => LET task == tasks'[req[u].t]
          IN  ( /\ task.link # None
                /\ req[u].pc = "insert" \/ req[u].r = task.link
                /\ res'[task.link].state = "live" )
                => res'[task.link].check =
                     IF task.state = "live" THEN Projected(task) ELSE None]_vars
=============================================================================
