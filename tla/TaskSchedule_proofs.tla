------------------------- MODULE TaskSchedule_proofs -------------------------
(***************************************************************************)
(* Tasks and the dates they project, for any number of clients, tasks and  *)
(* resources, any interval and calendar.  In every household a handler     *)
(* that is to commit carries the projection of its task (RequestsInv); in  *)
(* a calm one it also carries the rows as they are, and no two live tasks  *)
(* share a resource (CalmInv), so its commit leaves each live task         *)
(* projected.                                                              *)
(***************************************************************************)
EXTENDS TaskSchedule, WellFoundedInduction, TLAPS

RequestOK(q) ==
  /\ q.pc \in {"validate", "insert", "sync"} => q.t # None /\ q.r = None
  /\ q.pc = "validate" => q.tnew.link # None
  /\ q.pc # "idle" /\ q.t # None
       => \/ q.tnew.state = "live"
          \/ q.tnew.state = "deleted" /\ ~q.tnew.enabled
  /\ q.pc = "commit" /\ q.t # None /\ q.r # None
       => q.r = q.tnew.link /\ q.rnew = Synced(q.tnew, q.rold)

RequestsInv == TypeOK /\ \A u \in Clients : RequestOK(req[u])

-----------------------------------------------------------------------------
\* Every set of naturals that is not empty has a least element.
LEMMA LeastNatural ==
  ASSUME NEW S \in SUBSET Nat, S # {}
  PROVE  \E m \in S : \A n \in S : m <= n
<1> DEFINE below == {pair \in Nat \X Nat : pair[1] < pair[2]}
<1>1. OpToRel(<, Nat) = below
  BY Zenon DEF OpToRel
<1>2. IsWellFoundedOn(below, Nat)
  BY <1>1, NatLessThanWellFounded, Zenon
<1>3. \A m, n \in S : <<n, m>> \in below <=> n < m
  OBVIOUS
<1> HIDE DEF below
<1>4. PICK m \in S : \A n \in S : <<n, m>> \notin below
  BY <1>2, WFMin, Zenon
<1>5. \A n \in S : ~(n < m)
  BY <1>3, <1>4
<1> QED BY <1>5

\* The grid of a due date passes any day within MaxDay + 1 intervals, so the step
\* that calculate_next_due looks for exists, and the date it yields is a date.
LEMMA NextDueType ==
  ASSUME NEW task \in Task, NEW day \in Days
  PROVE  NextDue(task, day) \in Nat \ {0}
<1> DEFINE base == Base(task, day)
           Beyond(n) == base + n * Interval > day
           Passes(n) == Beyond(n) /\ (n = 1 \/ base + (n - 1) * Interval <= day)
<1>0. /\ base \in Days /\ Interval \in Nat \ {0} /\ MaxDay \in Nat
      /\ base \in Nat \ {0} /\ day \in 1..MaxDay
  BY TaskConstants DEF Base, Task, Days
<1>1. \A n \in Nat : n * Interval \in Nat /\ n * Interval >= n
  BY <1>0
<1> HIDE DEF base
<1>2. \E n \in 1..(MaxDay + 1) : Passes(n)
  <2> DEFINE S == {n \in Nat : n >= 1 /\ Beyond(n)}
  <2>1. MaxDay + 1 \in S
    <3>1. MaxDay + 1 \in Nat
      BY <1>0
    <3>2. (MaxDay + 1) * Interval >= MaxDay + 1
      BY <1>1, <3>1
    <3>3. (MaxDay + 1) * Interval \in Nat
      BY <1>1, <3>1
    <3> DEFINE m == (MaxDay + 1) * Interval
    <3> HIDE DEF m
    <3>4. base + m > day
      BY <1>0, <3>2, <3>3 DEF m
    <3> QED BY <1>0, <3>1, <3>4 DEF m
  <2>2. PICK m \in S : \A n \in S : m <= n
    BY <2>1, LeastNatural
  <2>3. m \in 1..(MaxDay + 1)
    BY <1>0, <2>1, <2>2
  <2>4. m # 1 => ~Beyond(m - 1)
    BY <2>2
  <2>5. m # 1 => (m - 1) * Interval \in Nat
    BY <1>1, <2>2
  <2>6. m # 1 => base + (m - 1) * Interval <= day
    <3> DEFINE k == (m - 1) * Interval
    <3> HIDE DEF k
    <3>1. m # 1 => k \in Nat /\ ~(base + k > day)
      BY <2>4, <2>5 DEF k
    <3>2. m # 1 => base + k <= day
      BY <1>0, <3>1
    <3> QED BY <3>2 DEF k
  <2> QED BY <2>2, <2>3, <2>6
<1> DEFINE k == IF task.mode = "scheduled" THEN CHOOSE n \in 1..(MaxDay + 1) : Passes(n) ELSE 1
<1>3. (CHOOSE n \in 1..(MaxDay + 1) : Passes(n)) \in 1..(MaxDay + 1)
  <2> HIDE DEF Passes
  <2> QED BY <1>2
<1>4. k \in Nat
  BY <1>0, <1>3
<1>5. NextDue(task, day) = base + k * Interval
  BY Zenon DEF NextDue, base
<1> HIDE DEF k
<1> QED BY <1>0, <1>1, <1>4, <1>5

\* Rows stay rows.
LEMMA BlankTypes ==
  /\ NoTask \in Task /\ NoRow \in Resource /\ Idle \in Request
  /\ Idle.pc = "idle" /\ Idle.t = None /\ Idle.r = None
  /\ Idle.told = NoTask /\ Idle.tnew = NoTask /\ NoTask.link = None /\ NoTask.state = "absent"
<1>1. NoTask \in Task /\ NoRow \in Resource
  BY DEF NoTask, Task, NoRow, Resource, States
<1> QED BY <1>1 DEF Idle, Request, NoTask

LEMMA MergeTask ==
  ASSUME NEW a \in Task, NEW b \in Task, NEW c \in Task
  PROVE  Merge(a, b, c) \in Task /\ Merge(a, a, c) = c
BY DEF Merge, Task

LEMMA MergeRow ==
  ASSUME NEW a \in Resource, NEW b \in Resource, NEW c \in Resource
  PROVE  Merge(a, b, c) \in Resource /\ Merge(a, a, c) = c
BY DEF Merge, Resource

LEMMA SyncedType ==
  ASSUME NEW task \in Task, NEW row \in Resource
  PROVE  /\ Synced(task, row) \in Resource
         /\ Synced(task, row).state = row.state
         /\ Synced(task, row).check = Projected(task)
<1>1. /\ Projected(task) \in Days \cup {None} /\ task.done \in Days \cup {None}
      /\ row.rev + 1 \in Nat /\ row.checked \in Days \cup {None}
  BY DEF Projected, Task, Resource
<1> DEFINE checked == IF task.done = None THEN row.checked ELSE task.done
<1>2. checked \in Days \cup {None}
  BY <1>1
<1>3. Synced(task, row) = [row EXCEPT !.check = Projected(task), !.checked = checked,
                                      !.rev = row.rev + 1]
  BY DEF Synced
<1> HIDE DEF checked
<1> QED BY <1>1, <1>2, <1>3 DEF Resource

-----------------------------------------------------------------------------
\* One handler goes on, and the tables stay tables.
LEMMA RequestStep ==
  ASSUME RequestsInv, NEW u \in Clients, NEW q \in Request, RequestOK(q),
         req' = [req EXCEPT ![u] = q],
         tasks' \in [Tasks -> Task], res' \in [Resources -> Resource]
  PROVE  RequestsInv'
<1>1. req \in [Clients -> Request] /\ \A v \in Clients : RequestOK(req[v])
  BY DEF RequestsInv, TypeOK
<1>2. \A v \in Clients : RequestOK(req'[v])
  BY <1>1
<1>3. req' \in [Clients -> Request]
  BY <1>1
<1> QED BY <1>2, <1>3 DEF RequestsInv, TypeOK

LEMMA IdleOK == RequestOK(Idle)
BY BlankTypes DEF RequestOK

\* The request that begins to work on a task.
Starts(t, told, tnew, pc) == [Idle EXCEPT !.pc = pc, !.t = t, !.told = told, !.tnew = tnew]

LEMMA StartsOK ==
  ASSUME NEW t \in Tasks, NEW told \in Task, NEW tnew \in Task,
         NEW pc \in {"validate", "insert", "sync"},
         tnew.state = "live" \/ (tnew.state = "deleted" /\ ~tnew.enabled),
         pc = "validate" => tnew.link # None
  PROVE  /\ Starts(t, told, tnew, pc) \in Request /\ RequestOK(Starts(t, told, tnew, pc))
         /\ Starts(t, told, tnew, pc).pc = pc /\ Starts(t, told, tnew, pc).t = t
         /\ Starts(t, told, tnew, pc).told = told /\ Starts(t, told, tnew, pc).tnew = tnew
         /\ Starts(t, told, tnew, pc).r = None
<1> DEFINE q == Starts(t, told, tnew, pc)
<1>1. q \in Request
  BY BlankTypes DEF Starts, Request
<1>2. q.pc = pc /\ q.t = t /\ q.told = told /\ q.tnew = tnew /\ q.r = None
  BY BlankTypes DEF Starts, Request
<1>3. t # None
  BY TaskConstants
<1> HIDE DEF q
<1>4. RequestOK(q)
  BY <1>2, <1>3 DEF RequestOK
<1> QED BY <1>1, <1>2, <1>4 DEF q

\* What each handler of a task starts with: the row it has read, and the row as
\* it will be, which is live, or deleted and switched off.
Started(u, t, told, tnew, pc) ==
  /\ MayStart(u) /\ t \in Tasks /\ told \in Task /\ tnew \in Task
  /\ pc \in {"validate", "insert", "sync"}
  /\ tnew.state = "live" \/ (tnew.state = "deleted" /\ ~tnew.enabled)
  /\ pc = "validate" => tnew.link # None
  /\ \/ pc = "insert" /\ tnew.link = None /\ tasks[t].state = "absent" /\ told = NoTask
     \/ pc = "validate" /\ tasks[t].state = "absent" /\ told = NoTask
     \/ pc # "insert" /\ tasks[t].state = "live" /\ told = tasks[t]
  /\ (tasks[t].state = "live" /\ tnew.link = tasks[t].link) \/ LinkAllowed(t, tnew.link)
  /\ req' = [req EXCEPT ![u] = Starts(t, told, tnew, pc)]
  /\ UNCHANGED <<tasks, res>>

LEMMA StartedOK ==
  ASSUME NEW u \in Clients, NEW t, NEW told, NEW tnew, NEW pc, Started(u, t, told, tnew, pc)
  PROVE  \E q \in Request :
           /\ RequestOK(q) /\ q.pc = pc /\ q.t = t /\ q.told = told /\ q.tnew = tnew
           /\ q.r = None /\ req' = [req EXCEPT ![u] = q]
<1> DEFINE q == Starts(t, told, tnew, pc)
<1>1. /\ t \in Tasks /\ told \in Task /\ tnew \in Task /\ pc \in {"validate", "insert", "sync"}
      /\ pc = "validate" => tnew.link # None
      /\ req' = [req EXCEPT ![u] = q]
  BY DEF Started
<1>2. tnew.state = "live" \/ (tnew.state = "deleted" /\ ~tnew.enabled)
  BY Zenon DEF Started
<1>3. /\ q \in Request /\ RequestOK(q) /\ q.pc = pc /\ q.t = t /\ q.told = told
      /\ q.tnew = tnew /\ q.r = None
  <2> HIDE DEF q
  <2>1. /\ Starts(t, told, tnew, pc) \in Request /\ RequestOK(Starts(t, told, tnew, pc))
        /\ Starts(t, told, tnew, pc).pc = pc /\ Starts(t, told, tnew, pc).t = t
        /\ Starts(t, told, tnew, pc).told = told /\ Starts(t, told, tnew, pc).tnew = tnew
        /\ Starts(t, told, tnew, pc).r = None
    BY <1>1, <1>2, StartsOK
  <2> QED BY <2>1 DEF q
<1> HIDE DEF q
<1> QED BY <1>1, <1>3

StartsTask(u) == StartCreate(u) \/ StartUpdate(u) \/ StartComplete(u) \/ StartDelete(u)

LEMMA BeginForm ==
  ASSUME NEW u \in Clients, NEW t \in Tasks, NEW tnew, NEW validates \in BOOLEAN,
         Begin(u, t, tnew, validates)
  PROVE  req' = [req EXCEPT ![u] = Starts(t, tasks[t], tnew,
                                          IF validates THEN "validate" ELSE "sync")]
BY DEF Begin, Starts

LEMMA StartForm ==
  ASSUME RequestsInv, NEW u \in Clients, StartsTask(u)
  PROVE  \E t, told, tnew, pc : Started(u, t, told, tnew, pc)
<1>0. tasks \in [Tasks -> Task] /\ NoTask \in Task
  BY BlankTypes DEF RequestsInv, TypeOK
<1>1. CASE StartCreate(u)
  <2>1. PICK t \in Tasks, due \in Days \cup {None}, link \in Resources \cup {None},
             mode \in {"completion", "scheduled"} :
          /\ tasks[t].state = "absent"
          /\ \A v \in Clients : req[v].t # t
          /\ LinkAllowed(t, link)
          /\ LET new == [NoTask EXCEPT !.state = "live", !.rev = 1, !.enabled = TRUE,
                                       !.mode = mode, !.due = due, !.link = link]
             IN  req' = [req EXCEPT ![u] = [Idle EXCEPT
                           !.pc = IF link = None THEN "insert" ELSE "validate",
                           !.t = t, !.tnew = new]]
    BY <1>1, Zenon DEF StartCreate
  <2> DEFINE new == [NoTask EXCEPT !.state = "live", !.rev = 1, !.enabled = TRUE,
                                   !.mode = mode, !.due = due, !.link = link]
             pc == IF link = None THEN "insert" ELSE "validate"
  <2>2. new \in Task /\ new.state = "live" /\ new.link = link
    BY <1>0 DEF Task, States, NoTask
  <2>3. req' = [req EXCEPT ![u] = [Idle EXCEPT !.pc = pc, !.t = t, !.tnew = new]]
    BY <2>1
  <2> HIDE DEF new, pc
  <2>4. Starts(t, NoTask, new, pc) = [Idle EXCEPT !.pc = pc, !.t = t, !.tnew = new]
    BY BlankTypes DEF Starts, Request, Idle
  <2>5. /\ pc \in {"insert", "validate"}
        /\ pc = "insert" <=> link = None
    BY DEF pc
  <2>6. Started(u, t, NoTask, new, pc)
    BY <1>0, <1>1, <2>1, <2>2, <2>3, <2>4, <2>5 DEF Started, StartCreate
  <2> QED BY <2>6
<1>2. CASE StartUpdate(u)
  <2>1. PICK t \in Tasks :
          /\ Editable(t)
          /\ LET next == [tasks[t] EXCEPT !.rev = @ + 1]
             IN  \/ \E d \in Days \cup {None} : Begin(u, t, [next EXCEPT !.due = d], FALSE)
                 \/ \E b \in BOOLEAN : Begin(u, t, [next EXCEPT !.enabled = b], FALSE)
                 \/ \E l \in Resources \cup {None} :
                      /\ LinkAllowed(t, l)
                      /\ Begin(u, t, [next EXCEPT !.link = l], l # None)
    BY <1>2 DEF StartUpdate
  <2> DEFINE next == [tasks[t] EXCEPT !.rev = @ + 1]
  <2>2. next \in Task /\ next.state = "live" /\ next.link = tasks[t].link
    <3> DEFINE row == tasks[t]
               rev == row.rev + 1
    <3>0. next = [row EXCEPT !.rev = rev]
      OBVIOUS
    <3>1. row \in Task /\ row.state = "live" /\ rev \in Nat
      <4>1. row.state = "live"
        BY <2>1, Zenon DEF Editable
      <4> QED BY <1>0, <4>1 DEF Task
    <3> HIDE DEF row, rev, next
    <3>2. next \in Task /\ next.state = "live" /\ next.link = row.link
      BY <3>0, <3>1 DEF Task
    <3> QED BY <3>2 DEF row
  <2>3. /\ tasks[t] \in Task /\ tasks[t].state = "live" /\ MayStart(u)
        /\ UNCHANGED <<tasks, res>>
    BY <1>0, <1>2, <2>1 DEF Editable, StartUpdate
  <2> HIDE DEF next
  <2>4. ASSUME NEW d \in Days \cup {None}, Begin(u, t, [next EXCEPT !.due = d], FALSE)
        PROVE  Started(u, t, tasks[t], [next EXCEPT !.due = d], "sync")
    <3> DEFINE new == [next EXCEPT !.due = d]
    <3>1. new \in Task /\ new.state = "live" /\ new.link = tasks[t].link
      BY <2>2 DEF Task
    <3> HIDE DEF new
    <3>2. req' = [req EXCEPT ![u] = Starts(t, tasks[t], new, "sync")]
      BY <2>4, BeginForm DEF new
    <3>3. Started(u, t, tasks[t], new, "sync")
      BY <2>3, <3>1, <3>2 DEF Started
    <3> QED BY <3>3 DEF new
  <2>5. ASSUME NEW b \in BOOLEAN, Begin(u, t, [next EXCEPT !.enabled = b], FALSE)
        PROVE  Started(u, t, tasks[t], [next EXCEPT !.enabled = b], "sync")
    <3> DEFINE new == [next EXCEPT !.enabled = b]
    <3>1. new \in Task /\ new.state = "live" /\ new.link = tasks[t].link
      BY <2>2 DEF Task
    <3> HIDE DEF new
    <3>2. req' = [req EXCEPT ![u] = Starts(t, tasks[t], new, "sync")]
      BY <2>5, BeginForm DEF new
    <3>3. Started(u, t, tasks[t], new, "sync")
      BY <2>3, <3>1, <3>2 DEF Started
    <3> QED BY <3>3 DEF new
  <2>6. ASSUME NEW l \in Resources \cup {None}, LinkAllowed(t, l),
               Begin(u, t, [next EXCEPT !.link = l], l # None)
        PROVE  \E pc : Started(u, t, tasks[t], [next EXCEPT !.link = l], pc)
    <3> DEFINE new == [next EXCEPT !.link = l]
               pc == IF l # None THEN "validate" ELSE "sync"
    <3>1. new \in Task /\ new.state = "live" /\ new.link = l
      BY <2>2 DEF Task
    <3> HIDE DEF new
    <3>2. req' = [req EXCEPT ![u] = Starts(t, tasks[t], new, pc)]
      BY <2>6, BeginForm DEF new
    <3>3. pc \in {"validate", "sync"} /\ (pc = "validate" => l # None)
      OBVIOUS
    <3> HIDE DEF pc
    <3>4. Started(u, t, tasks[t], new, pc)
      BY <2>3, <2>6, <3>1, <3>2, <3>3 DEF Started
    <3> QED BY <3>4 DEF new
  <2> QED BY <2>1, <2>4, <2>5, <2>6 DEF next
<1>3. CASE StartComplete(u)
  <2>1. PICK t \in Tasks, day \in Days :
          /\ Editable(t)
          /\ NextDue(tasks[t], day) <= MaxDay
          /\ Begin(u, t, [tasks[t] EXCEPT !.done = day, !.due = NextDue(tasks[t], day),
                                          !.rev = @ + 1], FALSE)
    BY <1>3 DEF StartComplete
  <2> DEFINE due == NextDue(tasks[t], day)
             new == [tasks[t] EXCEPT !.done = day, !.due = due, !.rev = @ + 1]
  <2>2. /\ tasks[t] \in Task /\ tasks[t].state = "live" /\ MayStart(u)
        /\ UNCHANGED <<tasks, res>>
    BY <1>0, <1>3, <2>1 DEF Editable, StartComplete
  <2>3. due \in Days
    BY <2>1, <2>2, NextDueType, TaskConstants DEF Days
  <2>4. req' = [req EXCEPT ![u] = Starts(t, tasks[t], new, "sync")]
    BY <2>1, BeginForm
  <2> HIDE DEF due
  <2>5. new \in Task /\ new.state = "live" /\ new.link = tasks[t].link
    <3> DEFINE row == tasks[t]
               rev == row.rev + 1
    <3>1. /\ row \in Task /\ row.state = "live" /\ rev \in Nat
          /\ new = [row EXCEPT !.done = day, !.due = due, !.rev = rev]
      BY <2>2 DEF Task
    <3> HIDE DEF row, rev, new
    <3>2. new \in Task /\ new.state = "live" /\ new.link = row.link
      BY <2>3, <3>1 DEF Task
    <3> QED BY <3>2 DEF row
  <2> HIDE DEF new
  <2>6. Started(u, t, tasks[t], new, "sync")
    BY <2>2, <2>4, <2>5 DEF Started
  <2> QED BY <2>6
<1>4. CASE StartDelete(u)
  <2>1. PICK t \in Tasks : Editable(t) /\ Begin(u, t, Deleted(tasks[t]), FALSE)
    BY <1>4 DEF StartDelete
  <2> DEFINE new == Deleted(tasks[t])
  <2>2. /\ tasks[t] \in Task /\ tasks[t].state = "live" /\ MayStart(u)
        /\ UNCHANGED <<tasks, res>>
    BY <1>0, <1>4, <2>1 DEF Editable, StartDelete
  <2>3. new \in Task /\ new.state = "deleted" /\ ~new.enabled /\ new.link = tasks[t].link
    <3> DEFINE row == tasks[t]
               rev == row.rev + 1
    <3>1. /\ row \in Task /\ rev \in Nat
          /\ new = [row EXCEPT !.enabled = FALSE, !.state = "deleted", !.rev = rev]
      BY <2>2 DEF Task, Deleted
    <3> HIDE DEF row, rev, new
    <3>2. new \in Task /\ new.state = "deleted" /\ new.link = row.link
      BY <3>1 DEF Task, States
    <3>3. ~new.enabled
      BY <3>1 DEF Task
    <3> QED BY <3>2, <3>3 DEF row
  <2> HIDE DEF new
  <2>4. req' = [req EXCEPT ![u] = Starts(t, tasks[t], new, "sync")]
    BY <2>1, BeginForm DEF new
  <2>5. Started(u, t, tasks[t], new, "sync")
    BY <2>2, <2>3, <2>4 DEF Started
  <2> QED BY <2>5
<1> QED BY <1>1, <1>2, <1>3, <1>4 DEF StartsTask

\* What StartResource writes: the row deleted, or another date.
Edits(u, r, new) ==
  /\ MayStart(u) /\ r \in Resources /\ new \in Resource /\ res[r].state = "live"
  /\ Calm => new.state = "deleted"
  /\ req' = [req EXCEPT ![u] = [Idle EXCEPT !.pc = "commit", !.r = r, !.rold = res[r],
                                            !.rnew = new]]
  /\ UNCHANGED <<tasks, res>>

LEMMA ResourceForm ==
  ASSUME RequestsInv, NEW u \in Clients, StartResource(u)
  PROVE  \E r, new : Edits(u, r, new)
<1>1. PICK r \in Resources :
        /\ res[r].state = "live"
        /\ res[r].rev < MaxRev
        /\ \E new \in {[res[r] EXCEPT !.state = "deleted", !.rev = @ + 1]}
                \cup {[res[r] EXCEPT !.check = d, !.rev = @ + 1] :
                        d \in IF Calm THEN {} ELSE Days \cup {None}} :
             req' = [req EXCEPT ![u] = [Idle EXCEPT !.pc = "commit", !.r = r,
                                                    !.rold = res[r], !.rnew = new]]
  BY DEF StartResource
<1> DEFINE row == res[r]
           rev == row.rev + 1
           gone == [row EXCEPT !.state = "deleted", !.rev = rev]
           dated(d) == [row EXCEPT !.check = d, !.rev = rev]
<1>2. row \in Resource
  BY DEF RequestsInv, TypeOK
<1>3. rev \in Nat
  BY <1>2 DEF Resource
<1>4. PICK new \in {gone} \cup {dated(d) : d \in IF Calm THEN {} ELSE Days \cup {None}} :
        req' = [req EXCEPT ![u] = [Idle EXCEPT !.pc = "commit", !.r = r, !.rold = row,
                                               !.rnew = new]]
  BY <1>1, Zenon
<1>5. new = gone \/ (~Calm /\ \E d \in Days \cup {None} : new = dated(d))
  <2> HIDE DEF gone, dated
  <2> QED BY <1>4
<1> HIDE DEF row, rev
<1>6. gone \in Resource /\ gone.state = "deleted"
  BY <1>2, <1>3 DEF Resource, States
<1>7. \A d \in Days \cup {None} : dated(d) \in Resource
  BY <1>2, <1>3 DEF Resource
<1> HIDE DEF gone, dated
<1>8. new \in Resource /\ (Calm => new.state = "deleted")
  BY <1>5, <1>6, <1>7
<1>9. row.state = "live" /\ MayStart(u) /\ UNCHANGED <<tasks, res>>
  BY <1>1, Zenon DEF StartResource, row
<1>10. Edits(u, r, new)
  BY <1>4, <1>8, <1>9 DEF Edits, row
<1> QED BY <1>10

LEMMA EditsOK ==
  ASSUME NEW r \in Resources, NEW old \in Resource, NEW new \in Resource
  PROVE  LET q == [Idle EXCEPT !.pc = "commit", !.r = r, !.rold = old, !.rnew = new]
         IN  /\ q \in Request /\ RequestOK(q)
             /\ q.pc = "commit" /\ q.t = None /\ q.r = r /\ q.rold = old /\ q.rnew = new
             /\ q.tnew = NoTask
<1> DEFINE q == [Idle EXCEPT !.pc = "commit", !.r = r, !.rold = old, !.rnew = new]
<1>1. q \in Request
  BY BlankTypes DEF Request
<1>2. /\ q.pc = "commit" /\ q.t = None /\ q.r = r /\ q.rold = old /\ q.rnew = new
      /\ q.tnew = NoTask
  BY BlankTypes DEF Request
<1> HIDE DEF q
<1>3. RequestOK(q)
  BY <1>2 DEF RequestOK
<1> QED BY <1>1, <1>2, <1>3 DEF q

\* The later steps of a task handler.
LEMMA ValidatedOK ==
  ASSUME NEW k \in Request, RequestOK(k), k.pc = "validate", NEW pc \in {"insert", "sync"}
  PROVE  LET q == [k EXCEPT !.pc = pc]
         IN  /\ q \in Request /\ RequestOK(q)
             /\ q.pc = pc /\ q.t = k.t /\ q.told = k.told /\ q.tnew = k.tnew /\ q.r = None
<1> DEFINE q == [k EXCEPT !.pc = pc]
<1>1. /\ q \in Request
      /\ q.pc = pc /\ q.t = k.t /\ q.told = k.told /\ q.tnew = k.tnew /\ q.r = k.r
  BY DEF Request
<1> HIDE DEF q
<1>2. RequestOK(q) /\ q.r = None
  BY <1>1 DEF RequestOK
<1> QED BY <1>1, <1>2 DEF q

LEMMA SyncedOK ==
  ASSUME NEW k \in Request, RequestOK(k), k.pc = "sync", NEW row \in Resource,
         k.tnew.link \in Resources
  PROVE  LET q == [k EXCEPT !.pc = "commit", !.r = k.tnew.link, !.rold = row,
                            !.rnew = Synced(k.tnew, row)]
         IN  /\ q \in Request /\ RequestOK(q)
             /\ q.pc = "commit" /\ q.t = k.t /\ q.told = k.told /\ q.tnew = k.tnew
             /\ q.r = k.tnew.link /\ q.rold = row /\ q.rnew = Synced(k.tnew, row)
<1> DEFINE new == Synced(k.tnew, row)
           q == [k EXCEPT !.pc = "commit", !.r = k.tnew.link, !.rold = row, !.rnew = new]
<1>1. new \in Resource
  BY SyncedType DEF Request
<1> HIDE DEF new
<1>2. /\ q \in Request /\ q.pc = "commit" /\ q.t = k.t /\ q.told = k.told /\ q.tnew = k.tnew
      /\ q.r = k.tnew.link /\ q.rold = row /\ q.rnew = new
  BY <1>1 DEF Request
<1> HIDE DEF q
<1>3. RequestOK(q)
  BY <1>2 DEF RequestOK, new
<1> QED BY <1>2, <1>3 DEF q, new

LEMMA UnsyncedOK ==
  ASSUME NEW k \in Request, RequestOK(k), k.pc = "sync"
  PROVE  LET q == [k EXCEPT !.pc = "commit"]
         IN  /\ q \in Request /\ RequestOK(q)
             /\ q.pc = "commit" /\ q.t = k.t /\ q.told = k.told /\ q.tnew = k.tnew
             /\ q.r = None
<1> DEFINE q == [k EXCEPT !.pc = "commit"]
<1>1. /\ q \in Request
      /\ q.pc = "commit" /\ q.t = k.t /\ q.told = k.told /\ q.tnew = k.tnew /\ q.r = k.r
  BY DEF Request
<1> HIDE DEF q
<1>2. RequestOK(q) /\ q.r = None
  BY <1>1 DEF RequestOK
<1> QED BY <1>1, <1>2 DEF q

-----------------------------------------------------------------------------
\* What a commit makes of the tables.
LEMMA InsertTypes ==
  ASSUME RequestsInv, NEW u \in Clients, CommitInsert(u)
  PROVE  tasks' \in [Tasks -> Task] /\ res' \in [Resources -> Resource]
<1> DEFINE task == req[u].tnew
<1>1. /\ tasks \in [Tasks -> Task] /\ res \in [Resources -> Resource] /\ req[u] \in Request
      /\ task \in Task
  BY DEF RequestsInv, TypeOK, Request
<1>2. tasks' \in [Tasks -> Task]
  BY <1>1 DEF CommitInsert
<1>3. CASE LinksLive(task)
  <2>1. task.link \in Resources
    BY <1>1, <1>3 DEF LinksLive, Task
  <2>2. Synced(task, res[task.link]) \in Resource
    BY <1>1, <2>1, SyncedType
  <2>3. res' = [res EXCEPT ![task.link] = Synced(task, res[task.link])]
    BY <1>3 DEF CommitInsert
  <2> QED BY <1>1, <1>2, <2>2, <2>3
<1>4. CASE ~LinksLive(task)
  BY <1>1, <1>2, <1>4 DEF CommitInsert
<1> QED BY <1>3, <1>4

LEMMA CommitTypes ==
  ASSUME RequestsInv, NEW u \in Clients, Commit(u)
  PROVE  tasks' \in [Tasks -> Task] /\ res' \in [Resources -> Resource]
<1> DEFINE q == req[u]
<1>1. /\ tasks \in [Tasks -> Task] /\ res \in [Resources -> Resource]
      /\ q.t \in Tasks \cup {None} /\ q.told \in Task /\ q.tnew \in Task
      /\ q.r \in Resources \cup {None} /\ q.rold \in Resource /\ q.rnew \in Resource
  BY DEF RequestsInv, TypeOK, Request
<1>2. tasks' \in [Tasks -> Task]
  <2>1. CASE q.t = None
    BY <1>1, <2>1 DEF Commit
  <2>2. CASE q.t \in Tasks /\ q.t # None
    <3>1. tasks' = [tasks EXCEPT ![q.t] = Merge(tasks[q.t], q.told, q.tnew)]
      BY <2>2 DEF Commit
    <3>2. Merge(tasks[q.t], q.told, q.tnew) \in Task
      BY <1>1, <2>2, MergeTask
    <3> QED BY <1>1, <3>1, <3>2
  <2> QED BY <1>1, <2>1, <2>2
<1>3. res' \in [Resources -> Resource]
  <2>1. CASE q.r = None
    BY <1>1, <2>1 DEF Commit
  <2>2. CASE q.r \in Resources /\ q.r # None
    <3>1. res' = [res EXCEPT ![q.r] = Merge(res[q.r], q.rold, q.rnew)]
      BY <2>2 DEF Commit
    <3>2. Merge(res[q.r], q.rold, q.rnew) \in Resource
      BY <1>1, <2>2, MergeRow
    <3> QED BY <1>1, <3>1, <3>2
  <2> QED BY <1>1, <2>1, <2>2
<1> QED BY <1>2, <1>3

\* The new request of a handler that validates or syncs.
LEMMA ValidateForm ==
  ASSUME NEW u \in Clients, Validate(u)
  PROVE  \/ req' = [req EXCEPT ![u] = Idle]
         \/ req[u].told = NoTask /\ req' = [req EXCEPT ![u] = [req[u] EXCEPT !.pc = "insert"]]
         \/ req[u].told # NoTask /\ req' = [req EXCEPT ![u] = [req[u] EXCEPT !.pc = "sync"]]
<1>1. CASE res[req[u].tnew.link].state # "live"
  BY <1>1, Zenon DEF Validate
<1>2. CASE res[req[u].tnew.link].state = "live" /\ req[u].told = NoTask
  BY <1>2, Zenon DEF Validate
<1>3. CASE res[req[u].tnew.link].state = "live" /\ req[u].told # NoTask
  BY <1>3, Zenon DEF Validate
<1> QED BY <1>1, <1>2, <1>3

LEMMA RequestsStepInv ==
  ASSUME RequestsInv, [Next]_vars
  PROVE  RequestsInv'
<1>0. /\ tasks \in [Tasks -> Task] /\ res \in [Resources -> Resource]
      /\ \A u \in Clients : req[u] \in Request /\ RequestOK(req[u])
  BY DEF RequestsInv, TypeOK
<1>1. CASE UNCHANGED vars
  BY <1>1 DEF vars, RequestsInv, TypeOK
<1>2. ASSUME NEW u \in Clients, StartsTask(u) PROVE RequestsInv'
  <2>1. PICK t, told, tnew, pc : Started(u, t, told, tnew, pc)
    BY <1>2, StartForm
  <2>2. PICK q \in Request : RequestOK(q) /\ req' = [req EXCEPT ![u] = q]
    BY <2>1, StartedOK, Zenon
  <2>3. UNCHANGED <<tasks, res>>
    BY <2>1 DEF Started
  <2> QED BY <1>0, <2>2, <2>3, RequestStep
<1>3. ASSUME NEW u \in Clients, StartResource(u) PROVE RequestsInv'
  <2>1. PICK r, new : Edits(u, r, new)
    BY <1>3, ResourceForm
  <2>2. r \in Resources /\ res[r] \in Resource /\ new \in Resource
    BY <1>0, <2>1 DEF Edits
  <2> DEFINE q == [Idle EXCEPT !.pc = "commit", !.r = r, !.rold = res[r], !.rnew = new]
  <2>3. q \in Request /\ RequestOK(q)
    BY <2>2, EditsOK, Zenon
  <2>4. req' = [req EXCEPT ![u] = q] /\ UNCHANGED <<tasks, res>>
    BY <2>1 DEF Edits
  <2> HIDE DEF q
  <2> QED BY <1>0, <2>3, <2>4, RequestStep
<1>4. ASSUME NEW u \in Clients, Validate(u) PROVE RequestsInv'
  <2>1. UNCHANGED <<tasks, res>> /\ req[u].pc = "validate"
    BY <1>4 DEF Validate
  <2>2. CASE req' = [req EXCEPT ![u] = Idle]
    BY <1>0, <2>1, <2>2, BlankTypes, IdleOK, RequestStep
  <2>3. ASSUME NEW pc \in {"insert", "sync"},
               req' = [req EXCEPT ![u] = [req[u] EXCEPT !.pc = pc]]
        PROVE  RequestsInv'
    <3> DEFINE q == [req[u] EXCEPT !.pc = pc]
    <3>1. q \in Request /\ RequestOK(q)
      BY <1>0, <2>1, ValidatedOK, Zenon
    <3>2. req' = [req EXCEPT ![u] = q]
      BY <2>3
    <3> HIDE DEF q
    <3> QED BY <1>0, <2>1, <3>1, <3>2, RequestStep
  <2> QED BY <1>4, <2>2, <2>3, ValidateForm
<1>5. ASSUME NEW u \in Clients, Sync(u) PROVE RequestsInv'
  <2> DEFINE k == req[u]
  <2>1. k \in Request /\ RequestOK(k) /\ k.pc = "sync" /\ UNCHANGED <<tasks, res>>
    BY <1>0, <1>5 DEF Sync
  <2>2. CASE LinksLive(k.tnew)
    <3> DEFINE row == res[k.tnew.link]
               q == [k EXCEPT !.pc = "commit", !.r = k.tnew.link, !.rold = row,
                              !.rnew = Synced(k.tnew, row)]
    <3>1. k.tnew.link \in Resources /\ row \in Resource
      BY <1>0, <2>1, <2>2 DEF LinksLive, Request, Task
    <3>2. req' = [req EXCEPT ![u] = q]
      BY <1>5, <2>2, Zenon DEF Sync
    <3> HIDE DEF k, row
    <3>3. q \in Request /\ RequestOK(q)
      BY <2>1, <3>1, SyncedOK, Zenon
    <3> HIDE DEF q
    <3> QED BY <1>0, <2>1, <3>2, <3>3, RequestStep
  <2>3. CASE ~LinksLive(k.tnew)
    <3> DEFINE q == [k EXCEPT !.pc = "commit"]
    <3>1. req' = [req EXCEPT ![u] = q]
      BY <1>5, <2>3, Zenon DEF Sync
    <3> HIDE DEF k
    <3>2. q \in Request /\ RequestOK(q)
      BY <2>1, UnsyncedOK, Zenon
    <3> HIDE DEF q
    <3> QED BY <1>0, <2>1, <3>1, <3>2, RequestStep
  <2> QED BY <2>2, <2>3
<1>6. ASSUME NEW u \in Clients, CommitInsert(u) \/ Commit(u) PROVE RequestsInv'
  <2>1. req' = [req EXCEPT ![u] = Idle]
    BY <1>6 DEF CommitInsert, Commit
  <2> QED BY <1>6, <2>1, InsertTypes, CommitTypes, BlankTypes, IdleOK, RequestStep
<1> QED BY <1>1, <1>2, <1>3, <1>4, <1>5, <1>6 DEF Next, Step, StartsTask

\* Types, and what every handler in flight carries, in any household.
THEOREM RequestsInvariant == Spec => []RequestsInv
<1>1. Init => RequestsInv
  <2> SUFFICES ASSUME Init PROVE RequestsInv
    OBVIOUS
  <2>1. [NoRow EXCEPT !.state = "live", !.rev = 1] \in Resource
    BY DEF NoRow, Resource, States
  <2> QED BY <2>1, BlankTypes, IdleOK DEF Init, RequestsInv, TypeOK
<1> QED BY <1>1, RequestsStepInv, PTL DEF Spec

-----------------------------------------------------------------------------
\* A handler that ends here wrote the row it carried, and the synced resource.
LEMMA Switched ==
  ASSUME NEW task \in Task, task.state = "live" \/ (task.state = "deleted" /\ ~task.enabled)
  PROVE  Projected(task) = IF task.state = "live" THEN Projected(task) ELSE None
<1>1. CASE task.state = "live"
  BY <1>1
<1>2. CASE task.state = "deleted" /\ ~task.enabled
  BY <1>2, Zenon DEF Projected
<1> QED BY <1>1, <1>2

\* The rows after CommitInsert.
LEMMA InsertWrites ==
  ASSUME RequestsInv, NEW u \in Clients, CommitInsert(u)
  PROVE  /\ req[u].t \in Tasks /\ req[u].tnew \in Task
         /\ tasks' = [tasks EXCEPT ![req[u].t] = req[u].tnew]
         /\ \/ ~LinksLive(req[u].tnew) /\ res' = res
            \/ /\ req[u].tnew.link \in Resources
               /\ res' = [res EXCEPT ![req[u].tnew.link] =
                            Synced(req[u].tnew, res[req[u].tnew.link])]
<1>1. req[u] \in Request /\ RequestOK(req[u]) /\ req[u].pc = "insert"
  BY DEF RequestsInv, TypeOK, CommitInsert
<1>2. req[u].t \in Tasks /\ req[u].tnew \in Task
  BY <1>1 DEF RequestOK, Request
<1>3. LinksLive(req[u].tnew) => req[u].tnew.link \in Resources
  BY <1>2 DEF LinksLive, Task
<1> QED BY <1>2, <1>3, Zenon DEF CommitInsert

\* The rows after the commit of a handler that finds the rows it read.
LEMMA CommitWrites ==
  ASSUME RequestsInv, NEW u \in Clients, Commit(u), Undisturbed(u)
  PROVE  /\ req[u].t # None => /\ req[u].t \in Tasks /\ req[u].tnew \in Task
                               /\ tasks' = [tasks EXCEPT ![req[u].t] = req[u].tnew]
         /\ req[u].t = None => tasks' = tasks
         /\ req[u].r # None => /\ req[u].r \in Resources /\ req[u].rnew \in Resource
                               /\ res' = [res EXCEPT ![req[u].r] = req[u].rnew]
         /\ req[u].r = None => res' = res
<1>1. /\ req[u].t \in Tasks \cup {None} /\ req[u].told \in Task /\ req[u].tnew \in Task
      /\ req[u].r \in Resources \cup {None} /\ req[u].rold \in Resource
      /\ req[u].rnew \in Resource
  BY DEF RequestsInv, TypeOK, Request
<1>2. /\ Merge(req[u].told, req[u].told, req[u].tnew) = req[u].tnew
      /\ Merge(req[u].rold, req[u].rold, req[u].rnew) = req[u].rnew
  BY <1>1, MergeTask, MergeRow
<1>3. ASSUME req[u].t # None
      PROVE  tasks' = [tasks EXCEPT ![req[u].t] = req[u].tnew]
  BY <1>2, <1>3 DEF Commit, Undisturbed
<1>4. ASSUME req[u].r # None
      PROVE  res' = [res EXCEPT ![req[u].r] = req[u].rnew]
  BY <1>2, <1>4 DEF Commit, Undisturbed
<1>5. /\ req[u].t = None => tasks' = tasks
      /\ req[u].r = None => res' = res
  BY DEF Commit
<1> QED BY <1>1, <1>3, <1>4, <1>5

\* The commit of a task handler nobody has overtaken leaves the resource it
\* links to with the date of its task, and with no date when the task is off
\* or deleted, whatever other handlers and tasks do.
THEOREM CommitSyncs == Spec => UndisturbedCommitSyncs
<1>1. ASSUME RequestsInv, [Next]_vars, NEW u \in Clients,
             req[u].pc \in {"insert", "commit"}, req'[u].pc = "idle",
             req[u].t # None, Undisturbed(u),
             tasks'[req[u].t].link # None,
             req[u].pc = "insert" \/ req[u].r = tasks'[req[u].t].link,
             res'[tasks'[req[u].t].link].state = "live"
      PROVE  res'[tasks'[req[u].t].link].check =
               IF tasks'[req[u].t].state = "live" THEN Projected(tasks'[req[u].t]) ELSE None
  <2>0. /\ tasks \in [Tasks -> Task] /\ res \in [Resources -> Resource]
        /\ req \in [Clients -> Request] /\ RequestOK(req[u])
    BY <1>1 DEF RequestsInv, TypeOK
  <2>1. req' # req /\ Next
    BY <1>1 DEF vars
  <2>2. PICK v \in Clients : Step(v)
    BY <2>1 DEF Next
  <2>3. CommitInsert(u) \/ Commit(u)
    <3>1. \E q : req' = [req EXCEPT ![v] = q]
      <4>1. CASE StartsTask(v)
        BY <1>1, <4>1, StartForm DEF Started
      <4>2. CASE StartResource(v)
        BY <1>1, <4>2, ResourceForm DEF Edits
      <4>3. CASE Validate(v)
        BY <4>3, ValidateForm
      <4>4. CASE Sync(v) \/ CommitInsert(v) \/ Commit(v)
        BY <4>4 DEF Sync, CommitInsert, Commit
      <4> QED BY <2>2, <4>1, <4>2, <4>3, <4>4 DEF Step, StartsTask
    <3>2. v = u
      BY <1>1, <2>0, <3>1
    <3>3. /\ ~MayStart(u) /\ ~Validate(u) /\ ~Sync(u)
      BY <1>1 DEF MayStart, Validate, Sync
    <3> QED BY <2>2, <3>2, <3>3
            DEF Step, StartCreate, StartUpdate, StartComplete, StartDelete, StartResource
  <2> DEFINE task == req[u].tnew
  <2>4. /\ req[u].t \in Tasks /\ task \in Task /\ tasks'[req[u].t] = task
        /\ res'[task.link].check = Projected(task)
    <3>1. CASE CommitInsert(u)
      <4>1. /\ req[u].t \in Tasks /\ task \in Task
            /\ tasks' = [tasks EXCEPT ![req[u].t] = task]
            /\ \/ ~LinksLive(task) /\ res' = res
               \/ /\ task.link \in Resources
                  /\ res' = [res EXCEPT ![task.link] = Synced(task, res[task.link])]
        BY <1>1, <3>1, InsertWrites, Zenon
      <4> HIDE DEF task
      <4>2. tasks'[req[u].t] = task
        BY <2>0, <4>1
      <4>3. task.link \in Resources /\ res'[task.link] = Synced(task, res[task.link])
        BY <1>1, <2>0, <4>1, <4>2 DEF LinksLive
      <4> QED BY <2>0, <4>1, <4>2, <4>3, SyncedType
    <3>2. CASE Commit(u)
      <4>1. /\ req[u].t \in Tasks /\ task \in Task
            /\ tasks' = [tasks EXCEPT ![req[u].t] = task]
            /\ req[u].r # None => /\ req[u].r \in Resources
                                  /\ res' = [res EXCEPT ![req[u].r] = req[u].rnew]
        BY <1>1, <3>2, CommitWrites, Zenon
      <4>2. tasks'[req[u].t] = task
        BY <2>0, <4>1
      <4>3. req[u].pc = "commit"
        BY <3>2 DEF Commit
      <4>4. req[u].r = task.link /\ req[u].r # None
        BY <1>1, <4>2, <4>3
      <4>5. req[u].rnew = Synced(task, req[u].rold) /\ req[u].rold \in Resource
        BY <1>1, <2>0, <4>3, <4>4 DEF RequestOK, Request
      <4>6. req[u].r \in Resources /\ res'[req[u].r] = req[u].rnew
        BY <2>0, <4>1, <4>4
      <4>7. req[u].rnew.check = Projected(task)
        BY <4>1, <4>5, SyncedType
      <4> QED BY <4>1, <4>2, <4>4, <4>6, <4>7
    <3> QED BY <2>3, <3>1, <3>2
  <2>5. task.state = "live" \/ (task.state = "deleted" /\ ~task.enabled)
    BY <1>1, <2>0, Zenon DEF RequestOK
  <2> HIDE DEF task
  <2> QED BY <2>4, <2>5, Switched
<1>2. ASSUME RequestsInv, [Next]_vars
      PROVE  [\A u \in Clients :
                /\ req[u].pc \in {"insert", "commit"} /\ req'[u].pc = "idle"
                /\ req[u].t # None
                /\ Undisturbed(u)
                => LET task == tasks'[req[u].t]
                   IN  ( /\ task.link # None
                         /\ req[u].pc = "insert" \/ req[u].r = task.link
                         /\ res'[task.link].state = "live" )
                         => res'[task.link].check =
                              IF task.state = "live" THEN Projected(task) ELSE None]_vars
  BY <1>1, <1>2, Zenon
<1> QED BY <1>2, RequestsInvariant, PTL DEF Spec, UndisturbedCommitSyncs

-----------------------------------------------------------------------------
\* In a calm household.
Busy(u) == req[u].pc # "idle"

LoneHandler == \A u, v \in Clients : Busy(u) /\ Busy(v) => u = v

Live(t) == tasks[t].state = "live"

LinksUnshared ==
  \A t, o \in Tasks : t # o /\ Live(t) /\ Live(o) /\ tasks[t].link # None
                        => tasks[t].link # tasks[o].link

\* What the lone handler carries: the rows as they are, a link nobody else has,
\* and the resource if that link is live.
Carries(q) ==
  /\ q.t # None /\ (q.pc \in {"sync", "commit"} \/ (q.pc = "validate" /\ q.told # NoTask))
       => q.told = tasks[q.t]
  /\ q.r # None => q.rold = res[q.r]
  /\ q.t # None /\ q.tnew.link # None
       => \A o \in Tasks \ {q.t} : Live(o) => tasks[o].link # q.tnew.link
  /\ q.pc = "commit" /\ q.t # None /\ LinksLive(q.tnew) => q.r = q.tnew.link
  /\ q.pc = "commit" /\ q.t = None => q.r # None /\ q.rnew.state = "deleted"

CalmInv == /\ LoneHandler /\ LinksUnshared
           /\ \A u \in Clients : Busy(u) => Carries(req[u])
           /\ \A t \in Tasks : Live(t) /\ LinksLive(tasks[t])
                                 => res[tasks[t].link].check = Projected(tasks[t])

\* Only the request of u moves, everybody else is idle.
LEMMA CalmRequestStep ==
  ASSUME RequestsInv, CalmInv, NEW u \in Clients, NEW q \in Request,
         \A v \in Clients \ {u} : ~Busy(v),
         req' = [req EXCEPT ![u] = q], UNCHANGED <<tasks, res>>,
         q.pc # "idle" => Carries(q)
  PROVE  CalmInv'
<1>1. req \in [Clients -> Request]
  BY DEF RequestsInv, TypeOK
<1>2. /\ req'[u] = q
      /\ \A v \in Clients \ {u} : req'[v].pc = "idle"
  BY <1>1 DEF Busy
<1>3. LoneHandler'
  BY <1>2 DEF LoneHandler, Busy
<1>4. ASSUME NEW v \in Clients, Busy(v)' PROVE Carries(req[v])'
  <2>1. v = u /\ q.pc # "idle"
    BY <1>2, <1>4 DEF Busy
  <2>2. Carries(q)
    BY <2>1
  <2>3. req'[v] = q /\ tasks' = tasks /\ res' = res
    BY <1>2, <2>1
  <2> QED BY <2>2, <2>3 DEF Carries, Live, LinksLive
<1>5. LinksUnshared'
  BY DEF CalmInv, LinksUnshared, Live
<1>6. (\A t \in Tasks : Live(t) /\ LinksLive(tasks[t])
                          => res[tasks[t].link].check = Projected(tasks[t]))'
  BY DEF CalmInv, Live, LinksLive, Projected
<1> QED BY <1>3, <1>4, <1>5, <1>6 DEF CalmInv

\* Who may start, or is busy, is alone.
LEMMA Alone ==
  ASSUME Calm, CalmInv, NEW u \in Clients, MayStart(u) \/ Busy(u)
  PROVE  \A v \in Clients \ {u} : ~Busy(v)
BY DEF CalmInv, LoneHandler, MayStart, Busy

\* The row of t is written and its resource synced: nobody else links to it, so
\* every live task is projected.
LEMMA WriteProjects ==
  ASSUME RequestsInv, CalmInv, NEW t \in Tasks, NEW new \in Task,
         new.link # None => \A o \in Tasks \ {t} : Live(o) => tasks[o].link # new.link,
         tasks' = [tasks EXCEPT ![t] = new],
         \/ ~LinksLive(new) /\ res' = res
         \/ /\ new.link \in Resources
            /\ res' = [res EXCEPT ![new.link] = Synced(new, res[new.link])]
  PROVE  /\ LinksUnshared'
         /\ (\A o \in Tasks : Live(o) /\ LinksLive(tasks[o])
                                => res[tasks[o].link].check = Projected(tasks[o]))'
<1>0. tasks \in [Tasks -> Task] /\ res \in [Resources -> Resource]
  BY DEF RequestsInv, TypeOK
<1>1. tasks'[t] = new /\ \A o \in Tasks \ {t} : tasks'[o] = tasks[o]
  BY <1>0
<1>2. LinksUnshared'
  <2> SUFFICES ASSUME NEW a \in Tasks, NEW b \in Tasks, a # b,
                      tasks'[a].state = "live", tasks'[b].state = "live",
                      tasks'[a].link # None
               PROVE  tasks'[a].link # tasks'[b].link
    BY DEF LinksUnshared, Live
  <2>1. CASE a # t /\ b # t
    BY <1>1, <2>1 DEF CalmInv, LinksUnshared, Live
  <2>2. CASE a = t
    BY <1>1, <2>2 DEF Live
  <2>3. CASE b = t
    BY <1>1, <2>3 DEF Live
  <2> QED BY <2>1, <2>2, <2>3
<1>3. ASSUME NEW r \in Resources
      PROVE  /\ res'[r].state = res[r].state
             /\ r # new.link => res'[r] = res[r]
  <2>1. CASE new.link \in Resources /\ res' = [res EXCEPT ![new.link] = Synced(new, res[new.link])]
    BY <1>0, <2>1, SyncedType
  <2> QED BY <2>1
<1>4. ASSUME NEW o \in Tasks, tasks'[o].state = "live", tasks'[o].link # None,
             res'[tasks'[o].link].state = "live"
      PROVE  res'[tasks'[o].link].check = Projected(tasks'[o])
  <2>1. tasks'[o].link \in Resources
    BY <1>0, <1>1, <1>4 DEF Task
  <2>2. res[tasks'[o].link].state = "live"
    BY <1>3, <1>4, <2>1
  <2>3. CASE o = t
    <3>1. LinksLive(new)
      BY <1>1, <1>4, <2>2, <2>3 DEF LinksLive
    <3>2. res'[new.link] = Synced(new, res[new.link]) /\ new.link \in Resources
      BY <1>0, <3>1
    <3>3. res[new.link] \in Resource
      BY <1>0, <3>2
    <3> QED BY <1>1, <2>3, <3>2, <3>3, SyncedType
  <2>4. CASE o # t
    <3>1. tasks'[o] = tasks[o] /\ Live(o) /\ LinksLive(tasks[o])
      BY <1>1, <1>4, <2>2, <2>4 DEF Live, LinksLive
    <3>2. tasks[o].link # new.link
      BY <1>4, <2>4, <3>1
    <3>3. res'[tasks[o].link] = res[tasks[o].link]
      BY <1>3, <2>1, <3>1, <3>2
    <3>4. res[tasks[o].link].check = Projected(tasks[o])
      BY <3>1 DEF CalmInv
    <3> QED BY <3>1, <3>3, <3>4
  <2> QED BY <2>3, <2>4
<1>5. (\A o \in Tasks : Live(o) /\ LinksLive(tasks[o])
                          => res[tasks[o].link].check = Projected(tasks[o]))'
  BY <1>4 DEF Live, LinksLive, Projected
<1> QED BY <1>2, <1>5

\* What a handler starts with.
LEMMA StartCarries ==
  ASSUME RequestsInv, Calm, CalmInv, NEW u \in Clients, NEW t, NEW told, NEW tnew, NEW pc,
         Started(u, t, told, tnew, pc), NEW q \in Request,
         q.pc = pc, q.t = t, q.told = told, q.tnew = tnew, q.r = None
  PROVE  Carries(q)
<1>1. /\ t \in Tasks /\ pc \in {"validate", "insert", "sync"}
      /\ \/ pc = "insert" /\ tnew.link = None
         \/ pc = "validate" /\ told = NoTask
         \/ told = tasks[t]
      /\ (Live(t) /\ tnew.link = tasks[t].link) \/ LinkAllowed(t, tnew.link)
  BY Zenon DEF Started, Live
<1>2. q.t # None /\ (q.pc \in {"sync", "commit"} \/ (q.pc = "validate" /\ q.told # NoTask))
        => q.told = tasks[q.t]
  BY <1>1
<1>3. ASSUME tnew.link # None, NEW o \in Tasks \ {t}, Live(o)
      PROVE  tasks[o].link # tnew.link
  <2>1. CASE Live(t) /\ tnew.link = tasks[t].link
    BY <1>1, <1>3, <2>1 DEF CalmInv, LinksUnshared
  <2>2. CASE LinkAllowed(t, tnew.link)
    BY <1>3, <2>2 DEF LinkAllowed, Live
  <2> QED BY <1>1, <2>1, <2>2
<1> QED BY <1>1, <1>2, <1>3 DEF Carries

LEMMA CalmStepInv ==
  ASSUME RequestsInv, Calm, CalmInv, [Next]_vars
  PROVE  CalmInv'
<1>0. /\ tasks \in [Tasks -> Task] /\ res \in [Resources -> Resource]
      /\ req \in [Clients -> Request]
      /\ \A u \in Clients : req[u] \in Request /\ RequestOK(req[u])
      /\ \A u \in Clients : Busy(u) => Carries(req[u])
  BY DEF RequestsInv, TypeOK, CalmInv
<1>1. CASE UNCHANGED vars
  BY <1>1 DEF vars, CalmInv, LoneHandler, LinksUnshared, Busy, Live, Carries, LinksLive,
              Projected
<1>2. ASSUME NEW u \in Clients, StartsTask(u) PROVE CalmInv'
  <2>1. PICK t, told, tnew, pc : Started(u, t, told, tnew, pc)
    BY <1>2, StartForm
  <2>2. PICK q \in Request :
           /\ RequestOK(q) /\ q.pc = pc /\ q.t = t /\ q.told = told /\ q.tnew = tnew
           /\ q.r = None /\ req' = [req EXCEPT ![u] = q]
    BY <2>1, StartedOK
  <2>3. Carries(q)
    BY <2>1, <2>2, StartCarries
  <2>4. MayStart(u) /\ UNCHANGED <<tasks, res>>
    BY <2>1 DEF Started
  <2> QED BY <2>2, <2>3, <2>4, Alone, CalmRequestStep
<1>3. ASSUME NEW u \in Clients, StartResource(u) PROVE CalmInv'
  <2>1. PICK r, new : Edits(u, r, new)
    BY <1>3, ResourceForm
  <2>2. /\ r \in Resources /\ res[r] \in Resource /\ new \in Resource
        /\ new.state = "deleted" /\ MayStart(u)
    BY <1>0, <2>1 DEF Edits
  <2> DEFINE q == [Idle EXCEPT !.pc = "commit", !.r = r, !.rold = res[r], !.rnew = new]
  <2>3. /\ q \in Request
        /\ q.pc = "commit" /\ q.t = None /\ q.r = r /\ q.rold = res[r] /\ q.rnew = new
        /\ q.tnew = NoTask
    BY <2>2, BlankTypes DEF Request
  <2>4. req' = [req EXCEPT ![u] = q] /\ UNCHANGED <<tasks, res>>
    BY <2>1 DEF Edits
  <2> HIDE DEF q
  <2>5. Carries(q)
    BY <2>2, <2>3, TaskConstants DEF Carries
  <2> QED BY <2>2, <2>3, <2>4, <2>5, Alone, CalmRequestStep
<1>4. ASSUME NEW u \in Clients, Validate(u) PROVE CalmInv'
  <2>1. UNCHANGED <<tasks, res>> /\ req[u].pc = "validate" /\ Busy(u)
    BY <1>4 DEF Validate, Busy
  <2>2. Carries(req[u])
    BY <1>0, <2>1
  <2>3. CASE req' = [req EXCEPT ![u] = Idle]
    BY <2>1, <2>3, BlankTypes, Alone, CalmRequestStep
  <2>4. ASSUME NEW pc \in {"insert", "sync"},
               pc = "sync" => req[u].told # NoTask,
               req' = [req EXCEPT ![u] = [req[u] EXCEPT !.pc = pc]]
        PROVE  CalmInv'
    <3> DEFINE k == req[u]
               q == [k EXCEPT !.pc = pc]
    <3>1. k \in Request /\ RequestOK(k) /\ k.pc = "validate" /\ Carries(k)
      BY <1>0, <2>1, <2>2
    <3>2. req' = [req EXCEPT ![u] = q] /\ (pc = "sync" => k.told # NoTask)
      BY <2>4
    <3> HIDE DEF k
    <3>3. /\ q \in Request
          /\ q.pc = pc /\ q.t = k.t /\ q.told = k.told /\ q.tnew = k.tnew /\ q.r = k.r
      BY <3>1 DEF Request
    <3> HIDE DEF q
    <3>4. Carries(q)
      BY <3>1, <3>2, <3>3 DEF Carries, RequestOK
    <3> QED BY <2>1, <3>2, <3>3, <3>4, Alone, CalmRequestStep
  <2> QED BY <1>4, <2>3, <2>4, ValidateForm
<1>5. ASSUME NEW u \in Clients, Sync(u) PROVE CalmInv'
  <2> DEFINE k == req[u]
  <2>1. /\ k \in Request /\ RequestOK(k) /\ k.pc = "sync" /\ UNCHANGED <<tasks, res>>
        /\ Busy(u) /\ Carries(k) /\ k.t # None
    BY <1>0, <1>5 DEF Sync, Busy, RequestOK
  <2>2. CASE LinksLive(k.tnew)
    <3> DEFINE row == res[k.tnew.link]
               new == Synced(k.tnew, row)
               q == [k EXCEPT !.pc = "commit", !.r = k.tnew.link, !.rold = row, !.rnew = new]
    <3>1. k.tnew.link \in Resources /\ row \in Resource
      BY <1>0, <2>1, <2>2 DEF LinksLive, Request, Task
    <3>2. req' = [req EXCEPT ![u] = q]
      BY <1>5, <2>2, Zenon DEF Sync
    <3> HIDE DEF k, row
    <3>3. /\ q \in Request /\ q.pc = "commit" /\ q.t = k.t /\ q.told = k.told
          /\ q.tnew = k.tnew /\ q.r = k.tnew.link /\ q.rold = row
      BY <2>1, <3>1, SyncedOK, Zenon
    <3> HIDE DEF q
    <3>4. Carries(q)
      BY <2>1, <3>3 DEF Carries, row
    <3> QED BY <2>1, <3>2, <3>3, <3>4, Alone, CalmRequestStep
  <2>3. CASE ~LinksLive(k.tnew)
    <3> DEFINE q == [k EXCEPT !.pc = "commit"]
    <3>1. req' = [req EXCEPT ![u] = q]
      BY <1>5, <2>3, Zenon DEF Sync
    <3> HIDE DEF k
    <3>2. /\ q \in Request /\ q.pc = "commit" /\ q.t = k.t /\ q.told = k.told
          /\ q.tnew = k.tnew /\ q.r = None
      BY <2>1, UnsyncedOK, Zenon
    <3> HIDE DEF q
    <3>3. Carries(q)
      BY <2>1, <2>3, <3>2 DEF Carries
    <3> QED BY <2>1, <3>1, <3>2, <3>3, Alone, CalmRequestStep
  <2> QED BY <2>2, <2>3
<1>6. ASSUME NEW u \in Clients, CommitInsert(u) \/ Commit(u) PROVE CalmInv'
  <2>1. /\ req' = [req EXCEPT ![u] = Idle]
        /\ Busy(u)
    BY <1>6 DEF CommitInsert, Commit, Busy
  <2>2. \A v \in Clients : ~Busy(v)'
    BY <1>0, <2>1, Alone, BlankTypes DEF Busy
  <2>3. LoneHandler' /\ \A v \in Clients : Busy(v)' => Carries(req[v])'
    BY <2>2 DEF LoneHandler
  <2>4. Carries(req[u]) /\ req[u] \in Request /\ RequestOK(req[u])
    BY <1>0, <2>1
  <2>5. CASE CommitInsert(u)
    <3>1. /\ req[u].t \in Tasks /\ req[u].tnew \in Task
          /\ tasks' = [tasks EXCEPT ![req[u].t] = req[u].tnew]
          /\ \/ ~LinksLive(req[u].tnew) /\ res' = res
             \/ /\ req[u].tnew.link \in Resources
                /\ res' = [res EXCEPT ![req[u].tnew.link] =
                             Synced(req[u].tnew, res[req[u].tnew.link])]
      BY <2>5, InsertWrites, Zenon
    <3>2. req[u].tnew.link # None
            => \A o \in Tasks \ {req[u].t} : Live(o) => tasks[o].link # req[u].tnew.link
      BY <2>4, <3>1, TaskConstants DEF Carries
    <3> QED BY <2>3, <3>1, <3>2, WriteProjects DEF CalmInv
  <2>6. CASE Commit(u)
    <3>1. req[u].pc = "commit"
      BY <2>6 DEF Commit
    <3>2. Undisturbed(u)
      BY <2>4, <3>1 DEF Carries, Undisturbed
    <3>3. /\ req[u].t # None => /\ req[u].t \in Tasks /\ req[u].tnew \in Task
                                /\ tasks' = [tasks EXCEPT ![req[u].t] = req[u].tnew]
          /\ req[u].t = None => tasks' = tasks
          /\ req[u].r # None => /\ req[u].r \in Resources /\ req[u].rnew \in Resource
                                /\ res' = [res EXCEPT ![req[u].r] = req[u].rnew]
          /\ req[u].r = None => res' = res
      BY <2>6, <3>2, CommitWrites, Zenon
    <3>4. CASE req[u].t # None
      <4>1. req[u].tnew.link # None
              => \A o \in Tasks \ {req[u].t} : Live(o) => tasks[o].link # req[u].tnew.link
        BY <2>4, <3>4 DEF Carries
      <4>2. \/ ~LinksLive(req[u].tnew) /\ res' = res
            \/ /\ req[u].tnew.link \in Resources
               /\ res' = [res EXCEPT ![req[u].tnew.link] =
                            Synced(req[u].tnew, res[req[u].tnew.link])]
        <5>1. CASE req[u].r = None
          BY <2>4, <3>1, <3>3, <3>4, <5>1 DEF Carries, LinksLive
        <5>2. CASE req[u].r # None
          <6>1. req[u].r = req[u].tnew.link /\ req[u].rnew = Synced(req[u].tnew, req[u].rold)
            BY <2>4, <3>1, <3>4, <5>2 DEF RequestOK
          <6>2. req[u].rold = res[req[u].r]
            BY <2>4, <5>2 DEF Carries
          <6> QED BY <3>3, <5>2, <6>1, <6>2
        <5> QED BY <5>1, <5>2
      <4> QED BY <2>3, <3>3, <3>4, <4>1, <4>2, WriteProjects DEF CalmInv
    <3>5. CASE req[u].t = None
      <4>1. /\ tasks' = tasks /\ req[u].r \in Resources /\ req[u].rnew.state = "deleted"
            /\ res' = [res EXCEPT ![req[u].r] = req[u].rnew]
        BY <2>4, <3>1, <3>3, <3>5 DEF Carries
      <4>2. LinksUnshared'
        BY <4>1 DEF CalmInv, LinksUnshared, Live
      <4>3. ASSUME NEW o \in Tasks, tasks[o].state = "live", tasks[o].link # None,
                   res'[tasks[o].link].state = "live"
            PROVE  res'[tasks[o].link].check = Projected(tasks[o])
        <5>1. tasks[o].link \in Resources
          BY <1>0, <4>3 DEF Task
        <5>2. tasks[o].link # req[u].r /\ res'[tasks[o].link] = res[tasks[o].link]
          BY <1>0, <4>1, <4>3, <5>1
        <5> QED BY <4>3, <5>2 DEF CalmInv, Live, LinksLive
      <4>4. (\A t \in Tasks : Live(t) /\ LinksLive(tasks[t])
                                => res[tasks[t].link].check = Projected(tasks[t]))'
        BY <4>1, <4>3 DEF Live, LinksLive, Projected
      <4> QED BY <2>3, <4>2, <4>4 DEF CalmInv
    <3> QED BY <3>4, <3>5
  <2> QED BY <1>6, <2>5, <2>6
<1> QED BY <1>1, <1>2, <1>3, <1>4, <1>5, <1>6 DEF Next, Step, StartsTask

\* In a calm household links are not shared, and the lone handler carries the
\* rows as they are.
THEOREM CalmInvariant == Spec => [](Calm => CalmInv)
<1>1. Init => (Calm => CalmInv)
  <2> SUFFICES ASSUME Init PROVE CalmInv
    OBVIOUS
  <2>1. \A u \in Clients : ~Busy(u)
    BY BlankTypes DEF Init, Busy
  <2>2. \A t \in Tasks : ~Live(t)
    BY BlankTypes DEF Init, Live
  <2> QED BY <2>1, <2>2 DEF CalmInv, LoneHandler, LinksUnshared
<1>2. RequestsInv /\ (Calm => CalmInv) /\ [Next]_vars => (Calm => CalmInv)'
  BY CalmStepInv
<1> QED BY <1>1, <1>2, RequestsInvariant, PTL DEF Spec

\* There the resource a live task inspects always shows the date of the task
\* (no date when it is switched off), after any sequence of edits, completions,
\* relinks and deletions.
THEOREM ProjectionHolds == Spec => []ProjectionFollowsTask
<1>1. (Calm => CalmInv) => ProjectionFollowsTask
  BY DEF CalmInv, ProjectionFollowsTask, Live
<1> QED BY <1>1, CalmInvariant, PTL
=============================================================================
