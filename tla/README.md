# homeprep-server in TLA+

This directory is a verification project for the Python server of this
repository (`src/homeprep_server`, FastAPI + SQLAlchemy on one SQLite file, run
as a Windows service). Its modules model the parts of the server where the order
of steps matters: the threads of the request pool, the backup scheduler, the
Manager that restores a backup, the service control manager; and the files that are
written in place beside the database. TLC checks them on small instances, and TLAPS proves
the safety properties TLC finds true, invariants and action properties, for every value of the constants.

Paths below are relative to the repository; `services.py` and the like stand for
`src/homeprep_server/services.py`.

## 1. How the program runs

These facts decide what a step is, and every module uses them.

* Route handlers are plain `def`s, so FastAPI runs each request in a thread of its
  **thread pool**: any two requests may interleave.
* Each request has its own session (`database.py`, `autoflush=False`,
  `expire_on_commit=False`). pysqlite opens a transaction at the first INSERT,
  UPDATE or DELETE, so a **SELECT is an atomic read of its own**, and what it saw
  may be stale when the handler writes.
* Nearly all handlers write once, in `session.commit()`, which flushes first: flush
  and commit are **one atomic write**, as SQLite has one writer at a time. The
  handlers with two transactions (sign-in, first-run setup) have two steps here.
* The unit of work emits `UPDATE ... SET <changed columns> WHERE id = ?`. A column
  that is equal to the loaded value is not written, and no statement tests the
  revision. The overlap of two updates is therefore a **merge per column**.
* Foreign keys are not enforced on this engine: what keeps references valid is
  the code.
* The files beside the database (`config.json`, `server-id`, images, installers) are
  written with `write_text`, `write_bytes` or `open("wb")`: **cut off first, then
  filled**, so that a reader, or a crash, may find them in between.
* **Completed writes are taken as durable, and in order.** The code never calls
  `fsync` (`core/backup.py:131-133, 224-225`; `standalone_config.py`, `identity.py` and
  `media.py` neither), so on a disk that reorders what it caches a power loss could
  leave a renamed database without its content. Every property about crashes rests on
  this assumption: a power loss cuts what is being written and loses nothing else.
* Ids are uuid4 strings: fresh, and modelled as identifiers nobody uses.

## 2. Inventory

| Component | State | Operations | Interacts with |
|---|---|---|---|
| Physical resources: containers, inventory items, assets (`services.py` `ContainerService`, `InventoryService`, `AssetService`) | rows with `revision` and `deleted_at`; an item names its container | create, update, delete with `expected_revision`; deleting a container empties it | tasks write `next_check_at` on them; plans link to them; shopping and notifications read them |
| Tasks (`services.py` `TaskService`) | due date, last completion, switch, link to a resource | create, update, complete, delete; each synchronises the linked resource | resources, notifications |
| Accounts, sessions, setup (`api/auth.py`, `api/users.py`, `api/authz.py`) | `users`, `auth_sessions`; the times of failed sign-ins in memory, under a lock | setup, sign in, sign out, create and update a user | every other route, through the session |
| Native backup and restore (`core/backup.py`, `core/backup_scheduler.py`, `api/backups.py`, `manager_entry.py`) | archives in `backups/` and `backups/pre-restore/`, the database file | create, list, prune, validate, restore; the scheduler thread; the Manager's script | the service host (stop and start), the database |
| Windows service host (`windows_service.py`, `launcher.py`) | status told to the SCM, stop event, threads | start, control handler, readiness loop, drain, forced exit | Uvicorn, the scheduler thread, the Manager |
| Shopping list (`shopping_contract.py`) | `shopping_items` | synchronise with expired items, create, update, delete | inventory |
| Notification centre (`operations.py`) | `notifications`, UNIQUE `event_key` | synchronise, dismiss, mark as read | inventory, tasks |
| Plans (`planning_services.py` `PlanService`, `api/plans.py`) | a plan with a JSON checklist, its items linked to resources or tasks | create, update, delete, review, add/update/remove item, complete | resources, tasks, targets |
| Targets and adopted recommendations (`planning_services.py` `TargetService`, `guidance.py` `adopt`) | targets with requirements, those completed, and the recommendation they came from | create, update, delete; adopt a recommendation | plans, readiness |
| Household profile (`planning_services.py` `HouseholdProfileService`) | one profile per household | upsert, with an optional revision | guidance |
| Household (`services.py` `HouseholdService`) | households; at most one is meant to exist | create | everything is scoped by it |
| Paired clients (`api/pairing.py`, `api/clients.py`, `api/client_auth.py`) | pairing sessions of ten minutes, client tokens | open, exchange once, revoke, record last use | request context |
| Readiness summary (`readiness.py`) | none | computed on every request: attention, score of each area, overall score, statuses | resources, tasks, plans, targets |
| Guidance catalogue (`guidance.py`, `recommendations/`) | none: data files | list, calculate for the household profile | targets, profile |
| Configuration and identity files (`standalone_config.py`, `core/identity.py`) | `config.json`, `server-id` | load and save; ask for the identity | launcher, scheduler, Manager; requests, backups |
| Manager window, updater (`manager.py`, `updater.py`) | a form of settings, a downloaded installer | start, stop, save settings, back up, restore, update | service host, configuration, backups |
| Media uploads (`api/media.py`) | two files per image | upload, read, delete | none |
| Taxonomy, HTTP shell, migrations, packaging, Web client | constants, code of other languages | | |

What is hard in each, and what makes it correct:

* **Resources.** Two handlers on one row; a container deleted between its
  validation and the commit of an item; a late PATCH on a deleted row. Correct: no
  lost update, tombstones are permanent, revisions grow, no live item in a deleted
  container.
* **Tasks.** A chain of edits, completions, relinks and deletions each has to leave
  the right date on the right resource; the read of the resource and its write are
  apart. Correct: the resource shows its task's date, and none after the task is gone.
* **Accounts.** Count the owners, then commit; read the sessions, then revoke; check
  for users, hash a password, then insert. Correct: an active owner remains, a
  disabled account has no live session, setup happens once. The throttle of the
  sign-in checks and records in two critical sections with a slow password check in
  between. Correct: the guesses of a window are bounded all the same.
* **Backups.** Power loss or an exception in the middle of an archive or a restore;
  three writers of archives; names with a resolution of one second; pruning by
  name. Correct: the database file is always whole, a restore takes a complete
  archive only and saves what it replaces, a good backup remains, the service
  comes back.
* **Service host.** Two threads report the status; the joins have timeouts; Uvicorn
  may die or never end. Correct: a stop is never taken back and completes, a start
  settles, RUNNING and STOPPED mean what they say.
* **Shopping, notifications.** Reading a list writes to it first, from SELECTs that
  may be stale. Correct: no duplicate, nothing missing, the fetch does not fail.
* **Plans.** One item's request rewrites the whole checklist from the copy it read,
  and validates the links of all items. Correct: other items stay as they were,
  committed links are live.
* **Targets.** An adoption calculates from the profile, looks for an earlier adoption
  and inserts later; targets and profile change meanwhile. Correct: one live target
  per adopted recommendation, with the amount for the household as it is.
* **Household and profile.** Both look for a row and insert or merge later; a client
  may leave the revision out. Correct: one household; a PUT leaves what it sent, on
  the next revision.
* **Recurring dates.** Months of different lengths, leap days, tasks done late or early,
  and clamping that is never undone. Correct: the first date of the schedule after
  the completion.
* **Configuration and identity.** Written in place, read by other threads and
  processes without a lock; a file cut off reads as the defaults, or not at all.
  Correct: no archive is removed by a retention nobody chose; the scheduler works by
  the settled file; one identity for ever.
* **Updater.** The same path for every window, answers at leisure. Correct: what is
  launched is newer than what is installed, and was verified.
* **Media.** Two files, no transaction. Correct: an image called deleted is gone.
* **Paired clients.** A token is checked by one SELECT and consumed at a commit; every
  request commits the time it was last seen. Correct: a token is used once, a
  revocation is final.
* **Readiness.** Attention, rounding and averages over the configured areas only.
  Correct: caring for something never lowers the result, waiting never raises it.

The hazards are listed one by one, with the line where each bites and the
properties that watch it, in `PROJECT.json`.

## 3. Modules

| Module | Models | Corresponds to the code as follows |
|---|---|---|
| `StoreRows` | what a row of the resource tables is, and what inserting, patching and emptying do to it | `models.py`, the assignments of the services. The ordinary columns of a row are one value `val`; `link` is `container_id` |
| `RevisionedStore` | the **abstract specification**: a client copies a row, and a write succeeds only on the version that was copied, in one step | what `API-CONTRACT.md` and `DATA-MODEL.md` promise of revisions |
| `ResourceService` | the create, update and delete handlers of the three kinds of resource | `StartUpdate`: `repository.get` with the comparison of the revision. `ValidateContainer`: the SELECT of `_validate_container`. `CommitCreate/Update/Delete`: `session.commit()`, with `Flushed` for the columns the UPDATE names |
| `TaskSchedule` | tasks, and the date they project on a resource | `Start*`: load and change the task. `Validate`: `_validate_link`. `Sync`: the SELECT and the assignments of `_sync_linked_resource`. `Commit`: both rows at once, merged by column. `CommitInsert` is one step, because `create` flushes its INSERT before the sync and so holds the write lock |
| `Accounts` | setup, sign in, sign out, create and update a user | one action per SELECT (`LoadTarget`, `ProtectLastOwner`, `SelectSessions`) and per commit. The owner's own row stays in the identity map, so an owner who edits himself works from the copy his session check loaded |
| `Backups` | the three writers of archives, pruning, restore, faults | `create_backup` is `Snapshot`, `OpenArchive`, `CloseArchive`, which any exception (`CreateFails`) or power loss may cut; two writers of one file leave it usable or torn (`Leaves`, `mixed`). `restore_backup` is `Validate`, the safety backup, `CopyCandidate`, `Replace`, each of which may raise (`RestoreFails`, `CreateFails`) and then leads where the script goes on (`AfterFailedRestore`). The script is `ManagerStops ... ManagerStarts`, or `StartFails`. `server` says who has to start a server that is not up: the script ("stopped"), Windows after a power loss ("off"; `Boot` has no other guard), or the user after a Start-Service that failed ("refused"). Pruning stops at the first file whose `unlink` raises (`PruneFails`); that it is one step leaves the archives between two unlinks unseen, of which nobody but a crash could take notice. A backup begun in the Manager window behaves like a posted one (actor `api`) |
| `ServiceHost` | the service main thread, the control handler, Uvicorn's and the scheduler's thread, the SCM | `main` is the place the main thread is at in `_service_main` and the launcher; `Joined` is a `thread.join(timeout)` |
| `Settings` | `config.json` between the Manager's windows, the start of the server and the scheduler's rounds | `BeginSave`/`FinishSave` are the two halves of `write_text` in `save_standalone_config`; `Loaded` is `load_standalone_config`; `Restart*` the rest of `save_settings`; `Provided` is the launcher's `_backup_settings` |
| `Identity` | the callers of `get_server_id` | `LooksForFile` is `exists()`, `CutsFile`/`FillsFile` the two halves of `write_text` |
| `Updates` | the update check of the Manager's windows | `Accepts` is the answer, `Opens` the file opened once `urlopen` has connected, `Fetched` and `Verified`/`Mismatch` the rest of `download_installer`; `Fails` is any `OSError` or `URLError` up to that of `os.startfile`; the answers to the two questions are actions of their own; the installer is external |
| `Media` | upload, read and delete of an image | one action per file operation, the two `exists()` of a DELETE included (`StartDeleteImage`, `LooksForMeta`); `OpenData`/`FinishGet` are the response that is streamed after the handler has returned |
| `SignIn` | the throttle of the sign-in | `StartSignIn` is `_is_login_blocked`, `WrongPassword` `_record_login_failure`, `RightPassword` `_clear_login_failures`; time is in ticks |
| `Recurrence` | `calculate_next_due` and the next review of a plan, on real dates | `AddMonths`, `AddYears`, `Advance`, `NextDue` are the functions of these names; the calendar itself is Python's |
| `Machine` | the seven modules above together | `part` says which of them a behaviour exercises: none reads what another writes |
| `Shopping` | the list, with the synchronisation that fetching it begins with | `CheckSource` is the SELECT of `_source_exists`; `CommitListSync` the commit. The edits are one step each |
| `Notices` | the notification centre | `Events` are the rules of `sync_household`, `LookUp` is `by_event_key`, `CommitNotes` the commit under the UNIQUE key |
| `Plans` | the requests that write a checklist | `StartPlanCall` copies the checklist that was read and changes the copy, `ValidateLink` is one look-up, `CommitChecklist` writes the column |
| `Guidance` | what a recommendation asks of a household | `Calculated` is `calculate_recommendation`, kind by kind, in whole numbers |
| `Targets` | targets and adoption | `StartAdoption` is the reading of the profile, the calculation and the SELECT with the 409, `CommitAdoption` the insert; `EditedTarget` the two branches of `TargetService.update` |
| `Profiles` | creating the household, putting its profile | `StartPut` reads and compares the revision, `CommitPut` is the INSERT under the primary key or the UPDATE of the columns that differ (`Changed`) |
| `Pairing` | pairing tokens and client credentials | `StartExchange`/`CommitExchange` are `exchange_pairing`; `StartClientCall`/`CommitSeen` the look-up of a credential and the commit of `last_seen_at` in `get_optional_principal`; time is in ticks |
| `Readiness` | the summary, as functions of the records it reads | `*NeedsAttention`, `DutyStatus` (`task_status`), `TargetStatus` (`evaluate_target`), `AreaScore` (`_area`), `HalfEven` (Python's `round`), `Score`, `Overall`, `TargetsOverall`, `TasksOverall`; the actions are any edit of one record, and the next day |
| `Features` | `Shopping`, `Notices`, `Plans`, `Targets`, `Pairing`, `Readiness` and `Profiles` together | each is modelled with the rows it depends on; `part` says which of them a behaviour exercises, so TLC visits the sum of their states and not the product |
| `MC*` | symmetry sets for TLC | |
| `*_proofs` | theorems and their proofs | section 6 |

A handler that refuses a request (404, 409) writes nothing; its action sends the
thread back to "idle". In `Accounts` the two SELECTs of a session check (the session,
then its user; `api/auth.py:100, 110`) are one read, `OwnerSession`: that makes a difference only if
the session is revoked or the account changed between the two, and then the request is
treated as one that checked both a moment earlier or later.

History in the state: `alone` (and `scope` in `Plans`) records whether anybody wrote
what a handler reads since it began, `owners` in `Accounts` what a handler
counted, `from` in `Pairing` which token a credential stems from, `raced` in `Identity`
whether two callers ever created the file at once; `saved` in `Settings`, `answers` in
`Identity`, `gone` in `Media` and `guesses` in `SignIn` collect what was saved, answered,
called gone or guessed. No guard reads them; they are there for the properties.

## 4. Runs

Expected to pass:

| Run | What it asks | Bounds, and why they are enough |
|---|---|---|
| `resource_serial` | Served **one handler at a time**, do the handlers implement the compare-and-set store (`KeepsPromise`), and is no live item in a deleted container (`NoDanglingItem`)? | 2 clients with forms open at once, a container, an item, an asset, 2 values, revisions to 3. A stale form needs two clients and two changes of one row |
| `resource_overlap` | With **handlers in flight at once**, what still holds: a commit nobody overtook is one atomic step of the store, tombstones are permanent, deleting a container empties it | 2 clients, a container and an item: every anomaly is between two handlers on one row or on an item and its container |
| `task_calm` | In a **calm** household (below), does each resource show the date of its task after any sequence of operations? | 2 tasks, 2 resources, so that tasks can be relinked and exchange resources; days 1 to 2 |
| `task_overlap` | With overlap, direct edits and several tasks on a resource: does the commit of a task handler nobody overtook show the right date? | 2 clients on one task and one resource |
| `accounts` | Served one by one: a disabled account has no live session. Overlapping: an update whose premises still hold keeps an owner | 2 handlers, 2 accounts, 2 sessions, the roles owner and editor (the others only differ from owner as editor does). The variable `serial` is chosen initially |
| `backups` | A power loss, or an error in any step of a backup, of pruning, of a restore or of its Start-Service: the database is whole, only complete archives are restored, the replaced content is saved, a good backup remains, a server the Manager stopped comes back, the scheduler ends up with a complete backup | 2 faults (one may hit a backup and leave an unusable archive, the next the restore), 1 restore, 1 posted backup, 1 write beyond the initial content, retention 1 (the hardest), an interval of 2 in 4 ticks, so that the schedule comes round after the faults |
| `machine` | The service: STOPPED means offline, a stop is never undone, every pending status settles. Settings: only a retention that was saved prunes, the settled file is followed. Identity: it is stable. Updates: what is launched is newer and verified. Media: what is called deleted is gone. Sign-in: guesses are bounded. Dates: the next one is the first of its schedule after the completion | Service: 3 starts, so that an earlier process may outlive its service, 2 crashes. Settings: 2 windows (a stale form needs two), 2 schedules with 2 retentions, 1 write error or power loss. Identity: 3 callers, 3 identities, 2 faults. Updates: 2 windows, 4 releases (as old as the installed one, newer with and without digest, newer without installer). Media: 2 threads, 2 images, 2 faults. Sign-in: 3 threads, a limit of 2 in a window of 1 tick, over 4 ticks. Dates: 8 dates at month ends around the leap day of 2024 and the turn of a year, every kind of recurrence with intervals 1 and 2 |
| `features` | Fetching the shopping list adds no duplicate and misses no item; fetching the centre does not fail and announces everything; checklist requests leave live links and the other items alone; a recommendation is adopted once and for the household as it is, a pairing token used once, a revocation final; waiting never helps the readiness summary and care never hurts it; one household is created, and a PUT of its profile leaves what it sent | 2 threads in each part that has any; 1 good with 2 entries (a duplicate needs two); 1 item and 1 task with three dates over two days, everything due on one day at the start; 2 checklist items with one linkable resource; 2 target ids (a duplicate needs two), 1 recommendation and 2 profiles it yields different amounts for; 1 token with 2 credentials over three ticks, of which it is open for one; for the summary two targets, and one thing in every other area, so that areas with score 0, a half, 100 and none are averaged, over two days; 2 household ids (a second one needs two), 2 values in each of 2 profile columns, revisions to 3. Only the threads of the two largest parts are declared symmetric: each permutation set costs time on every state |

Expected to be violated, each a disagreement of a document or comment with the code
(quoted in `PROJECT.json` under "findings"):

| Run | What TLC shows |
|---|---|
| `resource_lost_update` | two overlapping handlers loaded the same revision; both succeed, the second overwrites the first and ends with the same revision. `API-CONTRACT.md:32` says writes do not silently overwrite newer resources |
| `task_relink` | a task that is given another resource leaves its date on the old one. `DATA-MODEL.md:91` calls such dates projections of the linked task |
| `accounts_last_owner` | two overlapping updates each count two owners and together leave none. `users.py:59`: "At least one active owner must remain" |
| `shopping_legacy` | a PATCH of `source_type` alone leaves the legacy item id behind. `shopping_contract.py:57`: "Legacy fields stay coherent" |

Disagreements that were met while modelling and have no run of their own: with
overlapping handlers two versions of a row may carry one revision (`DATA-MODEL.md:15`)
and a live item may be stored in a deleted container (`DATA-MODEL.md:69`); two setups
at once both succeed (`CHANGELOG.md:17`, "one-time"), and so do two first household
creations (`API-CONTRACT.md:51`); two threads that fetch the shopping list at once
each add an entry (`DATA-MODEL.md:109`); two exchanges of one pairing token at
once both get a credential (`API-CONTRACT.md:154`, "single-use"); two adoptions of
one recommendation at once both add a target (`guidance.py:235`, "already
adopted"); if Uvicorn does not end within the joins
(`prompt` FALSE in `ServiceHost`), the SCM shows STOPPED while the old process still
serves, so a restore need not find the server offline (`core/backup.py:206`); two
threads that ask first for the server's identity get different ones, of which only one
stays (`core/identity.py:10`, "stable identity"); the Manager says "downloaded and
verified" of a release that states no digest (`updater.py:170`), and never offers
`rc2` over `rc1` of a version, since `version_key` ignores the number behind the marker.

The words used for the conditions of a property:

* **served one by one** (`Overlap = FALSE`, `serial`): at most one handler in flight;
  clients still hold stale forms. It is what a small household mostly sees, and it
  is the condition under which the documents are true.
* **overlapping**: no such restriction. The properties then speak of *undisturbed*,
  or *lone*, handlers: nobody wrote what they read. The point of such a property is
  that it locates every anomaly: it takes an overtaken handler.
* **calm** (`TaskSchedule`): one handler at a time, no two live tasks on one
  resource, no direct write of `next_check_at`. Any of the three breaks the
  projection by design.

Each property has a mutant in `PROJECT.json`: a plausible mistake in the code (a
dropped guard, a column forgotten, two steps exchanged) that makes it false.

## 5. Fairness

Only `Backups`, `ServiceHost` and `Settings` have liveness properties, and only steps that the
program takes by itself are fair: the clock until its bound, the scheduler's loop
(`stop_event.wait` has a timeout), the steps of a backup once begun, the Manager's
script once it has stopped the service (where a step fails it goes on to Start-Service,
`manager_entry.py:22-42`), the start of the service after a reboot (it is installed
as `delayed-auto`), and after nothing else; in the host the main thread (its joins and the readiness loop
have timeouts), the second half of the control handler, and the end of Uvicorn
only where `prompt` assumes it; in `Settings` the scheduler's round. Requests, writes, faults, crashes, stops and users are
never forced. So after a Start-Service that itself fails nothing starts the server: `ServerComesBack`
allows just that outcome, which no script could avoid, and `CompleteBackupEventually` has as its
premise that somebody starts such a server again. It depends further on the faults ending, on the
schedule being enabled and on a whole identity file (each archive names the server).
`SettledScheduleIsFollowed` asks nothing unless the file stays as it is and the server
is left running. In `Machine` a part at rest has no step to take, so its fairness asks
nothing of the other behaviours.

## 6. Proofs

Checked by TLAPS for any sets of clients, rows, values, and any bounds.

**`ResourceService_proofs`**: `TypeCorrect`, `ReferencesCorrect`, `TombstonesCorrect`,
`DeletionCorrect`. The inductive invariant is

    IInv == TypeOK /\ WellFormed /\ CreatesFresh /\ ReferencesExist

`WellFormed` says that a handler's operation fits its place and its row its kind;
`CreatesFresh` that the row a create is about to insert is absent and nobody else's.
It is needed because an INSERT on a row that exists could overwrite a tombstone or
a container that items refer to. `ReferencesExist` speaks of requests about to
commit as well as of rows, since a commit copies the one into the other.

**`ResourceRefinement_proofs`**: `CommitsAreAtomic`. Under any overlap, each step whose
commits are undisturbed is a step, or a stutter, of `RevisionedStore`; one lemma per
commit maps the merged columns to the abstract write.

Its second part, under the assumption `~Overlap`, proves `SerialServiceKeepsPromise`
(the refinement `Spec => Promise!Spec`), `SerialNoLostUpdate`, `SerialRevisionsGrow`,
`SerialNoDanglingItem`. The inductive invariant adds to the above that at most one
handler is in flight (`Alone`), that a client's copy is the row itself unless its
revision is smaller (`BaseCurrent`: this is what makes comparing revisions enough),
that row, copy and validated container are still as the handler in flight read them
(`NothingMoved`), that a held row exists (`HeldExist`) and that an absent row has
revision 0 (`AbsentUnrevised`). Together they give `Undisturbed` at every commit, and the
theorem of the first part does the rest.

**`TaskSchedule_proofs`**: `RequestsInvariant`, `CommitSyncs`, `CalmInvariant`,
`ProjectionHolds`. In any household the invariant is `RequestsInv`: types, and of each
handler in flight that its task is live, or deleted and switched off, and that the
resource it is about to write is the one its task will link to, synchronised. That is
enough for `CommitSyncs`. `ProjectionFollowsTask` is far from inductive; `CalmInv` adds that
the handler in flight is alone (`LoneHandler`), that live tasks do not share a resource
(`LinksUnshared`), and that the handler carries the rows as they are and a link that
nobody else has (`Carries`). Without the last a commit could project its task's date on
the resource of another task. That `NextDue` yields a date at
all takes the least-number principle (`LeastNatural`, from the library's theorem that < is
well-founded on the naturals): the grid of a due date passes any day.

**`Accounts_proofs`**: `AccountsInvariant`, `OwnerIsKept`, `SerialInvariant`,
`DisabledHasNoSession`. `CountedInv` says that an update that takes an active owner away, and
is past the protection, has counted a second one; so if what it counted and loaded is still
so at its commit, an owner remains. Served one by one (`serial`) the invariant says that live
sessions are of enabled accounts (`LiveUsersEnabled`), that reads are current (`ReadIsCurrent`), that a sign-in in flight is for an enabled account
(`SignsEnabledIn`) and that an update that disables an account has found every live session of
it (`FoundAll`): each of the last three bridges the gap between a SELECT and a commit.

**`Backups_proofs`**: `RestoresInvariant`, `DatabaseIsIntact`, `RestoresFromGood`,
`ReplacedIsSaved`, `BackupsInvariant`, `GoodRemains`, and four about progress (below):
`DownIsBeingStarted`, `RestoreRunsDown`, `BackupIsDueInTheEnd`, `LateBackupRunsDown`. `RestoresInv` follows the Manager
through a restore: while it runs the server is stopped and none of its threads is writing an archive (`RestoreIsAlone`), the
candidate is still the complete archive that was validated, and the content to be
replaced is in the safety archive. `BackupsInv` adds that no file is from the future
(`FilesArePast`) and that, while no owner posts, what the scheduler has begun is newer than every
file (`SchedulerInv`), so pruning, which spares the newest, spares a complete one.

**`Recurrence_proofs`** holds the lemmas of the calendar, for every date from year 1 on:
`toordinal` orders dates as their months do, and is injective (`OrdinalOrders`,
`OrdinalIsInjective`); every ordinal is reached by going on day by day (`LaterDay`, so
`AddDays` finds its date); `AddMonths` and `AddYears` yield a date of the right month with the day
clamped. So each date of a schedule is later than the one before (`ScheduleGrows`), the loop over
missed dates ends (`LoopEnds`) and stops at the first date after the completion
(`LoopFinds`). The module argues by induction all the same where a set of naturals is
enough for it (`SetOfNaturals`, from the least-number principle): over the days that can be reached,
and over the dates for which the recursive function of the loop has a value.

**`Machine_proofs`**: `HostInvariant`, `HostIsOffline`, `StopIsFinal`, `PendingIsNeverStuck`,
`PendingRunsDown`, `PrunesAsConfigured`, `IdentityStable`, `DeletedIsGone`, `LaunchIsVerified`,
`SignInIsBounded`, `DueIsOnGrid`, `NextDatesAreLater`, `MachineTyped`. One
invariant for each part, since no part reads what another writes:

* service: what the SCM was told follows the place of the main thread
  (`StatusFollowsMain`), and so does Uvicorn's thread (`ServerFollowsMain`);
* settings: what the file and the scheduler's round hold was saved, or is the default
  (`FileWasSaved`, `RoundWasSaved`);
* identity: unless two callers raced, at most one is creating the file, and once an answer
  has been given the file holds it (`LoneCreator`, `FileIsTheAnswer`);
* media: a DELETE past the data file has removed it or seen it gone (`DataGoesFirst`), and uploads
  use fresh ids (`UploadsAreFresh`);
* updates: what was verified by a window nobody overtook is good (`VerifiedIsGood`);
* sign-in: the queue of failures says of every later moment what the history says,
  whenever it was pruned (`QueueIsHistory`), and the guesses of a window together with the wrong
  passwords being verified stay below the limit plus the threads (`PendingAreCounted`);
  the bound is proved by counting them with `Cardinality`;
* recurring dates: what is stored is a date of the calendar, with an interval of its kind
  (`RecurrenceTypeOK` is inductive by itself, thanks to the lemmas above). That the next date of a
  task or a review is later than the day it follows is `NextDatesAreLater`, and that it
  is the first of its schedule is `DueIsOnGrid`.

**`Features_proofs`** has the features one after another, each with its invariant:

* plans (`PlansInvariant`, `LinksCorrect`, `OthersCorrect`): a request nobody has overtaken
  has found live the links it has looked up (`LookedUpAreLive`), has a checklist that differs from
  the current one in the item it is about only (`TouchesOnlyItsItem`), and one
  that writes nothing would write what is there (`CleanIsCurrent`);
* pairing (`SingleUseCorrect`, `RevocationCorrect`): a token that has issued a credential is
  consumed (`IssuedAreConsumed`), and an exchange nobody has overtaken still finds its
  token open (`LoneFindsOpen`); so the credential it issues is the first;
* targets (`AdoptionCorrect`): an adoption nobody has overtaken still finds no live target of
  its recommendation, and its amount is what the profile yields (`LoneFindsNone`);
* household and profile (`HouseholdWritesHold`): a writer nobody has overtaken still holds
  the profile as it is, or still finds no household (`LoneWritersAreCurrent`);
* notification centre (`NoteSyncSucceeds`, `NoteSyncAnnouncesAll`): every event a sync nobody has
  overtaken is to announce is stored, to be looked up or to be added, and none it will
  add has been stored (`LoneSyncsAccount`);
* shopping list (`SyncAddsOne`, `SyncListsAll`): the same of expired items (`LoneListSyncsKnow`);
* readiness (`WaitingDoesNotHelp`, `CareDoesNotHurt`): no invariant but types; the proof is that
  Python's `round` of a quotient is monotone (`HalfEvenGrows`) and keeps whole numbers
  (`WholeShare`; `RoundIsNearest` compares it with what rounding to the nearest means), so that the score of an area, the overall score and the overall status follow
  what needs attention (`AreaScoreGrows`, `ScoreGrows`, `OverallGrows`), and then that waiting
  adds to it and care takes away from it, area by area.

`FeaturesAreIndependent` shows that a behaviour of all together is one of each, so
that `FeaturesTyped` and `FeaturesCorrect` carry everything over to the specification the run checks.

Some theorems have no run of their own: the invariants above, those about progress,
`NextDatesAreLater`, `RoundIsNearest`, `SerialRevisionsGrow`, which `KeepsPromise` implies, and
`ReferencesCorrect`. `SerialNoLostUpdate` proves, for handlers served one by one, the property that
`resource_lost_update` shows violated when they overlap.

The assumptions on constants are the named `ASSUME`s of the modules: sentinels such as
`None` and `Keep` are not data, bounds are numbers; where things are counted (callers of
`get_server_id`, threads of the sign-in, what an area of the summary tracks) there are
finitely many.

Every invariant and every action property of a run that passes is thus stated by a theorem.
**Only model-checked**, within the bounds of section 4, are the four liveness properties, as
TLAPS does not reason about fairness here. Of three of them the safety half is proved:
which step is possible while something is pending, and that a measure of what is left goes
down with each step fairness forces and up with none.

| Property | What is proved of it | What is left to TLC |
|---|---|---|
| `ServerComesBack` | `DownIsBeingStarted`: a server is "stopped" exactly while the script of a restore is at one of its places (`DownHasStarter`); one that is "off" waits for `Boot` alone. `RestoreRunsDown`: each step of the script, and each failure of one (`RestoreFails`, `CreateFails`, `StartFails`), takes the restore nearer its end, and it ends with the server up, unless Start-Service itself fails or the power goes | that the script and the boot do take their steps |
| `CompleteBackupEventually` | `BackupIsDueInTheEnd`: an interval after the last fault, nothing unusable puts a backup off (`HeadedAreEarly`). `LateBackupRunsDown`: a backup begun after the last fault runs to its end and is complete, unless a posted one shares its file or the Manager stops the server | that the clock and the scheduler go on, and the two exceptions, which the bounds on posts and restores end |
| `PendingSettles` | `PendingIsNeverStuck`: the main thread has a step to take, or waits for the handler or a Uvicorn that is about to move (`WaitsArePrepared`). `PendingRunsDown`: `Remaining` goes down with the steps of either, and up with none | that the threads are scheduled |
| `SettledScheduleIsFollowed` | nothing beyond `PrunesAsConfigured`: it depends on the scheduler going round | all of it |

## 7. Not modelled

* **Data that no property tells apart**: names, notes, quantities, units; texts of
  errors; ordering and paging of lists; the end of `datetime.date`'s range.
* **Sessions**: their expiry. A restart of the server forgets the failed sign-ins.
* **Update handlers of targets and plans, and of shopping entries**: they follow the
  pattern of `ResourceService`, and are one step each here, so their overlap is not
  modelled again; nor are `read_at` of a notice, creating and deleting a plan, and the
  older `ShoppingService` of `operations.py`, which no route calls.
* **In the readiness summary and the guidance**: the matching of items to a target and
  the conversion of units (the model has the amount they add up to, and the amounts of
  guidance are whole numbers where the code has floating point), targets of unknown
  status, a household without targets; moving an item between containers while the
  summary is compared; minimum values, the choice of a catalogue by country.
* **Two items of one checklist with the same id**: a PATCH of the plan may send them
  (`schemas.py:483`), the server's own ids never collide. The time of the last confirmation
  of an item is not modelled either, only that a new one makes the column be written.
* **A restore of a server that is not running** (no stop and no start), and a PowerShell that
  ends, or is ended, in the middle of the script by anything but a power loss.
* **Taxonomy, system information, HTTP shell, migrations, packaging, Web client**: no
  state of their own, or code that runs before the server does. The client is present
  as the edit form of `ResourceService`. Of the Manager's window, the layout, the
  status display and the buttons that open folders and pages.

Deadlock is not checked where the system may rest: all clients idle with every row
used up to its bound, or the clock at its end. `features` checks it.

## 8. Plan

1. `StoreRows`, `RevisionedStore`, `ResourceService`, and their proofs: done.
2. `TaskSchedule`, `Accounts`, `Backups`, `ServiceHost`: done, and proved but for liveness.
3. `Shopping`, `Notices`, `Plans`, composed in `Features`: done and proved.
4. `Targets`, `Pairing`, `Readiness`, parts of `Features` too: done and proved.
5. `Profiles` and `Guidance`, which join `Features`; `Settings`, `Identity`, `Updates`, `Media`,
   `SignIn` and `Recurrence`, which join `ServiceHost` in `Machine`, so that the project keeps
   to few runs: done, and proved but for liveness.
6. The safety half of the liveness properties: done, but for `SettledScheduleIsFollowed`.
7. What could follow: the overlap of update handlers of targets, plans and shopping entries
   (section 7), for which `ResourceService` is the pattern.
