------------------------------- MODULE Notices -------------------------------
(***************************************************************************)
(* The notification centre (operations.py).  Fetching it first derives one *)
(* event for every item that expires soon and every task that is due, and  *)
(* stores those whose event_key is new.  A key names the kind, the subject *)
(* and its date; notifications.event_key is UNIQUE, also for rows that     *)
(* were dismissed, so a commit that meets its own key there fails.         *)
(***************************************************************************)
EXTENDS Naturals

CONSTANTS
  Readers,      \* threads of the pool that may serve the centre
  Stock,        \* inventory items
  Chores,       \* tasks
  NoDate,       \* no expiry date; a task disabled, or without due date
  Soon,         \* how early an item is announced (30 days)
  Lead,         \* reminder_before_days of the tasks
  MaxToday, MaxDate, MaxMoves     \* bounds

ASSUME NoticesConstants == /\ NoDate \notin Nat
                           /\ {Soon, Lead, MaxToday, MaxDate, MaxMoves} \subseteq Nat
                           /\ Stock \cap Chores = {}

VARIABLES
  today,        \* the date
  dates,        \* the expiry or due date of each live item or task
  moves,        \* how often a date was moved
  notices,      \* the keys in the notifications table
  dismissed,    \* those with dismissed_at set; read_at is left out, as
                \* neither the sync nor the list consults it
  noteSyncs     \* what the sync of each thread is doing

noticesVars == <<today, dates, moves, notices, dismissed, noteSyncs>>

Subjects == Stock \cup Chores
Dates == 0..MaxDate
Kinds == {"inventory_expired", "inventory_expiring", "task_overdue", "task_due",
          "task_reminder"}
Keys == Kinds \X Subjects \X Dates

\* now is the date the sync began on; alone is history: has nothing moved since.
NoteSync == [pc : {"idle", "items", "tasks"}, now : 0..MaxToday,
             todo : SUBSET Keys, adds : SUBSET Keys, alone : BOOLEAN]
NoNoteSync == [pc |-> "idle", now |-> 0, todo |-> {}, adds |-> {}, alone |-> TRUE]

NoticesTypeOK == /\ today \in 0..MaxToday
                 /\ dates \in [Subjects -> Dates \cup {NoDate}]
                 /\ moves \in 0..MaxMoves
                 /\ notices \subseteq Keys
                 /\ dismissed \subseteq notices
                 /\ noteSyncs \in [Readers -> NoteSync]

NoticesInit == /\ today = 0
               /\ dates \in [Subjects -> Dates]
               /\ moves = 0
               /\ notices = {} /\ dismissed = {}
               /\ noteSyncs = [u \in Readers |-> NoNoteSync]

NotesOvertaken(u) == IF noteSyncs[u].pc = "idle" THEN NoNoteSync
                     ELSE [noteSyncs[u] EXCEPT !.alone = FALSE]
EverySyncOvertaken == noteSyncs' = [u \in Readers |-> NotesOvertaken(u)]

-----------------------------------------------------------------------------
DayPasses == /\ today < MaxToday
             /\ today' = today + 1
             /\ EverySyncOvertaken
             /\ UNCHANGED <<dates, moves, notices, dismissed>>

\* An item is replaced or deleted, a task completed, moved, disabled or deleted.
DateMoves == /\ moves < MaxMoves
             /\ moves' = moves + 1
             /\ \E s \in Subjects, d \in Dates \cup {NoDate} :
                  d # dates[s] /\ dates' = [dates EXCEPT ![s] = d]
             /\ EverySyncOvertaken
             /\ UNCHANGED <<today, notices, dismissed>>

\* The kinds of event a subject gives rise to on a day: none or one.
KindsOf(s, now) ==
  IF dates[s] = NoDate THEN {}
  ELSE IF s \in Stock
    THEN CASE dates[s] < now                         -> {"inventory_expired"}
           [] now <= dates[s] /\ dates[s] <= now + Soon -> {"inventory_expiring"}
           [] OTHER                                  -> {}
    ELSE CASE dates[s] < now -> {"task_overdue"}
           [] dates[s] = now -> {"task_due"}
           [] now < dates[s] /\ Lead > 0 /\ dates[s] <= now + Lead -> {"task_reminder"}
           [] OTHER          -> {}

Events(subjects, now) ==
  {k \in Keys : k[2] \in subjects /\ k[3] = dates[k[2]] /\ k[1] \in KindsOf(k[2], now)}

\* sync_household reads the items, looks up their events, then reads the tasks
\* and looks up theirs.
StartNoteSync(u) ==
  /\ noteSyncs[u].pc = "idle"
  /\ noteSyncs' = [noteSyncs EXCEPT ![u] =
       [NoNoteSync EXCEPT !.pc = "items", !.now = today, !.todo = Events(Stock, today)]]
  /\ UNCHANGED <<today, dates, moves, notices, dismissed>>

ReadTasks(u) ==
  /\ noteSyncs[u].pc = "items" /\ noteSyncs[u].todo = {}
  /\ noteSyncs' = [noteSyncs EXCEPT ![u].pc = "tasks",
                                    ![u].todo = Events(Chores, noteSyncs[u].now)]
  /\ UNCHANGED <<today, dates, moves, notices, dismissed>>

\* by_event_key finds a row whether or not it was dismissed.
Known_Shown(k) == k \in notices \ dismissed
Known_AnyKind(k) == \E n \in notices : n[2] = k[2] /\ n[3] = k[3]
Known(k) == k \in notices

LookUp(u) ==
  /\ \E k \in noteSyncs[u].todo :
       noteSyncs' = [noteSyncs EXCEPT ![u].todo = @ \ {k},
                                      ![u].adds = IF Known(k) THEN @ ELSE @ \cup {k}]
  /\ UNCHANGED <<today, dates, moves, notices, dismissed>>

\* One commit for all new rows; a key that is there by now fails it as a whole.
CommitNotes(u) ==
  /\ noteSyncs[u].pc = "tasks" /\ noteSyncs[u].todo = {}
  /\ LET adds == noteSyncs[u].adds
     IN  /\ notices' = IF adds \cap notices = {} THEN notices \cup adds ELSE notices
         /\ noteSyncs' = [v \in Readers |-> CASE v = u -> NoNoteSync
                                              [] notices' = notices -> noteSyncs[v]
                                              [] OTHER -> NotesOvertaken(v)]
  /\ UNCHANGED <<today, dates, moves, dismissed>>

\* A row that was dismissed can be dismissed once more.
Dismiss == /\ \E k \in notices : dismissed' = dismissed \cup {k}
           /\ UNCHANGED <<today, dates, moves, notices, noteSyncs>>

NoticesNext ==
  \/ DayPasses \/ DateMoves \/ Dismiss
  \/ \E u \in Readers : \/ StartNoteSync(u) \/ ReadTasks(u)
                        \/ LookUp(u) \/ CommitNotes(u)

NoticesSpec == NoticesInit /\ [][NoticesNext]_noticesVars

-----------------------------------------------------------------------------
LoneNoteSyncEnds(u) ==
  noteSyncs[u].pc = "tasks" /\ noteSyncs'[u].pc = "idle" /\ noteSyncs[u].alone

\* Fetching the centre fails only when another sync stored the same event in
\* between: whatever was dismissed before, a lone sync stores all it found.
LoneNoteSyncSucceeds ==
  [][\A u \in Readers : LoneNoteSyncEnds(u) => noteSyncs[u].adds \subseteq notices' \ notices
    ]_noticesVars

\* Which announcements the household can rely on, told from the dates alone.
OughtToKnow(table, s) ==
  dates[s] # NoDate =>
    IF s \in Stock
      THEN /\ dates[s] < today => <<"inventory_expired", s, dates[s]>> \in table
           /\ dates[s] \in today..(today + Soon)
                => <<"inventory_expiring", s, dates[s]>> \in table
      ELSE /\ dates[s] < today => <<"task_overdue", s, dates[s]>> \in table
           /\ dates[s] = today => <<"task_due", s, dates[s]>> \in table
           /\ Lead > 0 /\ dates[s] \in (today + 1)..(today + Lead)
                => <<"task_reminder", s, dates[s]>> \in table

\* After a lone sync every item and task has the announcement of its present
\* stage, although the earlier stage, or the same stage for another date, was
\* announced and perhaps dismissed before.
LoneNoteSyncAnnouncesAll ==
  [][\A u \in Readers : LoneNoteSyncEnds(u) => \A s \in Subjects : OughtToKnow(notices', s)
    ]_noticesVars
=============================================================================
