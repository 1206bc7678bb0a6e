-------------------------- MODULE ResourceService --------------------------
(***************************************************************************)
(* The create, update and delete handlers of containers, inventory items   *)
(* and assets (services.py), as the thread pool really runs them.  Every   *)
(* handler has its own SQLAlchemy session on one SQLite file: each SELECT  *)
(* is an atomic step of its own, and the flush with its commit is the one  *)
(* atomic write, whose UPDATE says WHERE id = ? and nothing about the      *)
(* revision.  A client first fetches the row it edits; the revision of     *)
(* that copy is the expected_revision it sends.                            *)
(*                                                                         *)
(* A request the handler refuses (404, 409) writes nothing: it ends here   *)
(* by closing the client's form.                                           *)
(***************************************************************************)
EXTENDS StoreRows

CONSTANTS
  Clients,
  Overlap,   \* may two handlers be in flight at once (FALSE: one by one)
  MaxRev     \* bound: rows of this revision are not edited any more

ASSUME ServiceConstants == Overlap \in BOOLEAN /\ MaxRev \in Nat

VARIABLES
  rows,   \* the committed tables
  req     \* what each client, and the handler serving it, is doing

vars == <<rows, req>>

(***************************************************************************)
(* pc "editing": the client holds base, a copy of the row.  "validate" and *)
(* "commit": a handler is in flight; snap is the row as it read it.        *)
(***************************************************************************)
Request == [pc    : {"idle", "editing", "validate", "commit"},
            op    : {"none", "create", "update", "delete"},
            row   : Rows \cup {None},
            base  : Row,
            snap  : Row,
            patch : Patch]

NoPatch == [val |-> Keep, link |-> Keep]

Idle == [pc |-> "idle", op |-> "none", row |-> None,
         base |-> Absent, snap |-> Absent, patch |-> NoPatch]

TypeOK == /\ rows \in [Rows -> Row]
          /\ req \in [Clients -> Request]

InFlight(u) == req[u].pc \in {"validate", "commit"}

MayStart == Overlap \/ \A v \in Clients : ~InFlight(v)

Live(r) == rows[r].state = "live"

Init == /\ rows = [r \in Rows |-> Absent]
        /\ req = [u \in Clients |-> Idle]

-----------------------------------------------------------------------------
\* GET /{id}: the client opens an edit form on a live row.
Fetch(u) ==
  /\ req[u].pc = "idle"
  /\ \E r \in Rows :
       /\ Live(r)
       /\ req' = [req EXCEPT ![u] = [Idle EXCEPT !.pc = "editing", !.row = r,
                                                 !.base = rows[r]]]
  /\ UNCHANGED rows

\* The client gives up, or is told 404 or 409.
Drop(u) ==
  /\ req[u].pc = "editing"
  /\ req' = [req EXCEPT ![u] = Idle]
  /\ UNCHANGED rows

\* A link in the body needs a second SELECT before anything is written.
AfterRead(p) == IF p.link \in Containers THEN "validate" ELSE "commit"

\* Only identifiers nobody uses or is about to insert: uuid4.
Unused(r) == /\ rows[r].state = "absent"
             /\ \A v \in Clients : req[v].row # r

StartCreate(u) ==
  /\ req[u].pc = "idle"
  /\ MayStart
  /\ \E r \in Rows : \E p \in NewValues(r) :
       /\ Unused(r)
       /\ req' = [req EXCEPT ![u] = [Idle EXCEPT !.pc = AfterRead(p), !.op = "create",
                                                 !.row = r, !.patch = p]]
  /\ UNCHANGED rows

\* repository.get filters deleted_at IS NULL; then the revision is compared.
Accepts_NoRevisionCheck(u) == Live(req[u].row)
Accepts(u) == /\ Live(req[u].row)
              /\ rows[req[u].row].rev = req[u].base.rev

StartUpdate(u) ==
  /\ req[u].pc = "editing"
  /\ MayStart
  /\ Accepts(u)
  /\ rows[req[u].row].rev < MaxRev
  /\ \E p \in PatchesOf(req[u].row) :
       req' = [req EXCEPT ![u].pc = AfterRead(p), ![u].op = "update",
                          ![u].snap = rows[req[u].row], ![u].patch = p]
  /\ UNCHANGED rows

StartDelete(u) ==
  /\ req[u].pc = "editing"
  /\ MayStart
  /\ Accepts(u)
  /\ rows[req[u].row].rev < MaxRev
  /\ req' = [req EXCEPT ![u].pc = "commit", ![u].op = "delete",
                        ![u].snap = rows[req[u].row]]
  /\ UNCHANGED rows

\* _validate_container: the container must be live, or the request ends in 404.
Validated(u) == Live(req[u].patch.link)

ValidateContainer(u) ==
  /\ req[u].pc = "validate"
  /\ req' = [req EXCEPT ![u] = IF Validated(u) THEN [@ EXCEPT !.pc = "commit"]
                                               ELSE Idle]
  /\ UNCHANGED rows

-----------------------------------------------------------------------------
\* INSERT.
CommitCreate(u) ==
  /\ req[u].pc = "commit" /\ req[u].op = "create"
  /\ rows' = [rows EXCEPT ![req[u].row] = Inserted(req[u].patch)]
  /\ req' = [req EXCEPT ![u] = Idle]

\* The unit of work emits only the columns that differ from the loaded object:
\* a value equal to the one that was read is not written at all.
Column(current, loaded, new) == IF Set(loaded, new) # loaded THEN new ELSE current

Flushed_WholeRow(current, loaded, p) == Patched(loaded, p)
Flushed_SqlRevision(current, loaded, p) ==
  [current EXCEPT !.val  = Column(@, loaded.val, p.val),
                  !.link = Column(@, loaded.link, p.link)]
Flushed(current, loaded, p) ==
  [current EXCEPT !.val  = Column(@, loaded.val, p.val),
                  !.link = Column(@, loaded.link, p.link),
                  !.rev  = loaded.rev + 1]

\* UPDATE ... WHERE id = ?: no test of revision or deleted_at.
CommitUpdate(u) ==
  /\ req[u].pc = "commit" /\ req[u].op = "update"
  /\ rows' = [rows EXCEPT ![req[u].row] = Flushed(@, req[u].snap, req[u].patch)]
  /\ req' = [req EXCEPT ![u] = Idle]

\* deleted_at and the revision are written; for a container the bulk UPDATE of
\* its items is part of the same transaction.
CommitDelete(u) ==
  /\ req[u].pc = "commit" /\ req[u].op = "delete"
  /\ LET r == req[u].row
     IN  rows' = [Emptied(rows, r) EXCEPT ![r].state = "deleted",
                                          ![r].rev = req[u].snap.rev + 1]
  /\ req' = [req EXCEPT ![u] = Idle]

Step(u) == \/ Fetch(u) \/ Drop(u)
           \/ StartCreate(u) \/ StartUpdate(u) \/ StartDelete(u)
           \/ ValidateContainer(u)
           \/ CommitCreate(u) \/ CommitUpdate(u) \/ CommitDelete(u)

Next == \E u \in Clients : Step(u)

Spec == Init /\ [][Next]_vars

-----------------------------------------------------------------------------
(***************************************************************************)
(* The promise, with the edit form read off the request.                   *)
(***************************************************************************)
FormOf(q) == IF q.pc = "idle" \/ q.op = "create"
               THEN [row |-> None, copy |-> Absent]
               ELSE [row |-> q.row, copy |-> q.base]

Promise == INSTANCE RevisionedStore WITH form <- [u \in Clients |-> FormOf(req[u])]

\* When handlers run one by one, the service is the compare-and-set store.
KeepsPromise == Promise!Spec

\* A handler in flight that nobody has overtaken: the row is as the client and
\* the handler saw it, and the container it validated is still there.
Undisturbed(u) ==
  /\ req[u].op # "create" => /\ rows[req[u].row] = req[u].snap
                             /\ req[u].snap = req[u].base
  /\ req[u].patch.link \in Containers => Live(req[u].patch.link)

Commits(u) == req[u].pc = "commit" /\ req'[u].pc = "idle"

\* However handlers interleave, a commit nobody has overtaken is one atomic
\* step of the promised store: every anomaly needs an overtaken handler.
UndisturbedCommitsAreAtomic ==
  [][(\A u \in Clients : Commits(u) => Undisturbed(u))
       => Promise!Next \/ UNCHANGED Promise!absVars]_vars

\* Foreign keys are not enforced by SQLite here, yet no item, stored or about
\* to be written, names a container that was never created.
LinkExists(l) == l \in Containers => rows[l].state # "absent"

ReferencesExist ==
  /\ \A i \in Items : LinkExists(rows[i].link)
  /\ \A u \in Clients : req[u].pc = "commit" => LinkExists(req[u].patch.link)

\* A late UPDATE on a row deleted in between never brings it back.
TombstonesArePermanent ==
  [][\A r \in Rows : rows[r].state = "deleted" => rows'[r].state = "deleted"]_vars

\* The instant a container goes, no live item is left in it, even when the
\* delete itself worked from a stale read.
DeletingEmptiesContainer ==
  [][\A c \in Containers : Live(c) /\ rows'[c].state = "deleted"
       => StoredIn(rows', c) = {}]_vars

\* DATA-MODEL.md: deleting a container clears or reassigns the relationship,
\* so no live item is stored in a deleted container.
NoDanglingItem ==
  \A i \in Items : Live(i) /\ rows[i].link \in Containers => Live(rows[i].link)

\* DATA-MODEL.md: the revision of an object only ever grows.
RevisionsGrow == [][\A r \in Rows : rows[r] # rows'[r] => rows'[r].rev > rows[r].rev]_vars

\* API-CONTRACT.md: a write never silently overwrites a version of the row
\* that its client has not seen.
NoLostUpdate ==
  [][\A u \in Clients : Commits(u) /\ req[u].op # "create"
       => rows[req[u].row] = req[u].base]_vars
=============================================================================
