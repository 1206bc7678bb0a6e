---------------------- MODULE ResourceRefinement_proofs ----------------------
(***************************************************************************)
(* ResourceService against the store it promises to be (RevisionedStore).  *)
(* A commit that nobody has overtaken is a step of that store; when        *)
(* handlers run one by one nobody is ever overtaken, and the service       *)
(* implements the store.                                                   *)
(***************************************************************************)
EXTENDS ResourceService_proofs

\* The promise speaks of the same rows, operation by operation.
LEMMA SameRows ==
  /\ Promise!Absent = Absent
  /\ \A r : Promise!NewValues(r) = NewValues(r) /\ Promise!PatchesOf(r) = PatchesOf(r)
  /\ \A p : Promise!Inserted(p) = Inserted(p)
  /\ \A row, p : Promise!Patched(row, p) = Patched(row, p)
  /\ \A row : Promise!Tombstone(row) = Tombstone(row)
  /\ \A t, c : Promise!Emptied(t, c) = Emptied(t, c)
  /\ Promise!Rows = Rows
BY DEF Promise!Absent, Absent, Promise!NewValues, NewValues, Promise!PatchesOf, PatchesOf,
       Promise!Patch, Patch, Promise!Inserted, Inserted, Promise!Patched, Patched,
       Promise!Set, Set, Promise!Tombstone, Tombstone, Promise!Emptied, Emptied,
       Promise!StoredIn, StoredIn, Promise!Rows, Rows

Forms == [u \in Clients |-> FormOf(req[u])]

\* Replacing one request replaces one form.
LEMMA FormReplaced ==
  ASSUME TypeInv, NEW u \in Clients, NEW q, req' = [req EXCEPT ![u] = q]
  PROVE  Forms' = [Forms EXCEPT ![u] = FormOf(q)]
BY DEF TypeInv, TypeOK, Forms

\* Flushing the row just as it was loaded is applying the patch.
LEMMA FlushedIsPatched ==
  ASSUME NEW row \in Row, NEW p \in Patch
  PROVE  Flushed(row, row, p) = Patched(row, p)
<1>1. Column(row.val, row.val, p.val) = Set(row.val, p.val)
  BY DEF Column, Set
<1>2. Column(row.link, row.link, p.link) = Set(row.link, p.link)
  BY DEF Column, Set
<1> QED
  BY <1>1, <1>2 DEF Flushed, Patched

\* Fetching opens the form on the row just read.
LEMMA FetchOpens ==
  ASSUME TypeInv, NEW u \in Clients, Fetch(u)
  PROVE  Promise!Open(u)
<1>1. PICK r \in Rows :
        /\ Live(r)
        /\ req' = [req EXCEPT ![u] = [Idle EXCEPT !.pc = "editing", !.row = r, !.base = rows[r]]]
  BY DEF Fetch
<1> DEFINE q == [Idle EXCEPT !.pc = "editing", !.row = r, !.base = rows[r]]
<1>2. FormOf(q) = [row |-> r, copy |-> rows[r]]
  BY DEF FormOf, Idle
<1>3. Forms' = [Forms EXCEPT ![u] = FormOf(q)]
  BY <1>1, FormReplaced
<1>4. Forms[u] = Promise!Closed
  BY SameRows DEF Fetch, Forms, FormOf, Promise!Closed
<1>5. rows' = rows /\ r \in Promise!Rows /\ Promise!Live(r)
  BY <1>1, SameRows DEF Fetch, Live, Promise!Live
<1> QED
  BY <1>2, <1>3, <1>4, <1>5 DEF Promise!Open, Forms

\* Ending a request that is not a creation discards the form.
LEMMA EndDiscards ==
  ASSUME TypeInv, NEW u \in Clients, req[u].pc # "idle", req[u].op # "create",
         req' = [req EXCEPT ![u] = Idle], rows' = rows
  PROVE  Promise!Discard(u)
<1>1. Forms' = [Forms EXCEPT ![u] = Promise!Closed]
  BY FormReplaced, SameRows DEF FormOf, Idle, Promise!Closed
<1>2. Forms[u].row = req[u].row /\ req[u].row # None
  BY RowConstants DEF Forms, FormOf, TypeInv, WellFormed, Shape, Rows
<1>3. Forms[u] # Promise!Closed
  BY <1>2 DEF Promise!Closed
<1> QED
  BY <1>1, <1>3 DEF Promise!Discard, Forms

\* A request that moves on without a commit leaves the form as it is.
LEMMA FormKept ==
  ASSUME TypeInv, NEW u \in Clients, NEW q, req' = [req EXCEPT ![u] = q],
         FormOf(q) = FormOf(req[u]), rows' = rows
  PROVE  UNCHANGED Promise!absVars
<1>1. Forms' = [Forms EXCEPT ![u] = FormOf(req[u])]
  BY FormReplaced
<1>2. Forms' = Forms
  BY <1>1 DEF Forms
<1> QED
  BY <1>2 DEF Promise!absVars, Forms

\* The reads that begin a handler leave every row and every form as it was.
LEMMA StartsKeep ==
  ASSUME TypeInv, NEW u \in Clients, StartCreate(u) \/ StartUpdate(u) \/ StartDelete(u)
  PROVE  UNCHANGED Promise!absVars
<1>1. CASE StartCreate(u)
  <2>1. PICK r \in Rows : \E p \in NewValues(r) :
          req' = [req EXCEPT ![u] = [Idle EXCEPT !.pc = AfterRead(p), !.op = "create",
                                                 !.row = r, !.patch = p]]
    BY <1>1 DEF StartCreate
  <2>2. PICK p \in NewValues(r) :
          req' = [req EXCEPT ![u] = [Idle EXCEPT !.pc = AfterRead(p), !.op = "create",
                                                 !.row = r, !.patch = p]]
    BY <2>1
  <2> DEFINE q == [Idle EXCEPT !.pc = AfterRead(p), !.op = "create", !.row = r, !.patch = p]
  <2>3. FormOf(q) = FormOf(req[u])
    BY <1>1 DEF FormOf, Idle, StartCreate
  <2> QED
    BY <1>1, <2>2, <2>3, FormKept DEF StartCreate
<1>2. CASE StartUpdate(u)
  <2>1. PICK p \in PatchesOf(req[u].row) :
          req' = [req EXCEPT ![u].pc = AfterRead(p), ![u].op = "update",
                             ![u].snap = rows[req[u].row], ![u].patch = p]
    BY <1>2 DEF StartUpdate
  <2> DEFINE q == [req[u] EXCEPT !.pc = AfterRead(p), !.op = "update",
                                 !.snap = rows[req[u].row], !.patch = p]
  <2>2. req[u] \in Request /\ req[u].pc = "editing" /\ req[u].op = "none"
    BY <1>2 DEF StartUpdate, TypeInv, TypeOK, WellFormed, Shape
  <2>3. q.pc = AfterRead(p) /\ q.op = "update" /\ q.row = req[u].row /\ q.base = req[u].base
    BY <2>2 DEF Request
  <2>4. FormOf(q) = FormOf(req[u])
    BY <2>2, <2>3 DEF FormOf, AfterRead
  <2>5. req' = [req EXCEPT ![u] = q]
    BY <2>1
  <2> QED
    BY <1>2, <2>4, <2>5, FormKept DEF StartUpdate
<1>3. CASE StartDelete(u)
  <2> DEFINE q == [req[u] EXCEPT !.pc = "commit", !.op = "delete", !.snap = rows[req[u].row]]
  <2>1. req[u] \in Request /\ req[u].pc = "editing" /\ req[u].op = "none"
    BY <1>3 DEF StartDelete, TypeInv, TypeOK, WellFormed, Shape
  <2>2. q.pc = "commit" /\ q.op = "delete" /\ q.row = req[u].row /\ q.base = req[u].base
    BY <2>1 DEF Request
  <2>3. FormOf(q) = FormOf(req[u])
    BY <2>1, <2>2 DEF FormOf
  <2>4. req' = [req EXCEPT ![u] = q]
    BY <1>3 DEF StartDelete
  <2> QED
    BY <1>3, <2>3, <2>4, FormKept DEF StartDelete
<1> QED
  BY <1>1, <1>2, <1>3

\* Validation either goes on silently or ends the request as if the client
\* had discarded its form.
LEMMA ValidationKeepsOrDiscards ==
  ASSUME TypeInv, NEW u \in Clients, ValidateContainer(u)
  PROVE  Promise!Discard(u) \/ UNCHANGED Promise!absVars
<1>1. req[u] \in Request /\ req[u].pc = "validate" /\ rows' = rows
  BY DEF ValidateContainer, TypeInv, TypeOK
<1>2. CASE Validated(u)
  <2> DEFINE q == [req[u] EXCEPT !.pc = "commit"]
  <2>1. q.pc = "commit" /\ q.op = req[u].op /\ q.row = req[u].row /\ q.base = req[u].base
    BY <1>1 DEF Request
  <2>2. FormOf(q) = FormOf(req[u])
    BY <1>1, <2>1 DEF FormOf
  <2>3. req' = [req EXCEPT ![u] = q]
    BY <1>2 DEF ValidateContainer
  <2> QED
    BY <1>1, <2>2, <2>3, FormKept
<1>3. CASE ~Validated(u)
  <2>1. req' = [req EXCEPT ![u] = Idle]
    BY <1>3 DEF ValidateContainer
  <2>2. CASE req[u].op = "create"
    <3>1. FormOf(Idle) = FormOf(req[u])
      BY <2>2 DEF FormOf, Idle
    <3> QED
      BY <1>1, <2>1, <3>1, FormKept
  <2>3. CASE req[u].op # "create"
    BY <1>1, <2>1, <2>3, EndDiscards
  <2> QED
    BY <2>2, <2>3
<1> QED
  BY <1>2, <1>3

\* An undisturbed INSERT is the promised store's Create.
LEMMA CreationCreates ==
  ASSUME TypeInv, CreatesFresh, NEW u \in Clients, CommitCreate(u), Undisturbed(u)
  PROVE  Promise!Create(req[u].row)
<1> DEFINE r == req[u].row
           p == req[u].patch
<1>1. r \in Rows /\ p \in NewValues(r) /\ rows[r].state = "absent"
  BY DEF CommitCreate, TypeInv, WellFormed, Shape, CreatesFresh
<1>2. rows' = [rows EXCEPT ![r] = Promise!Inserted(p)]
  BY SameRows DEF CommitCreate
<1>3. Promise!Linkable(p.link)
  BY DEF Undisturbed, Live, Promise!Linkable, Promise!Live
<1>4. FormOf(Idle) = FormOf(req[u]) /\ req' = [req EXCEPT ![u] = Idle]
  BY DEF CommitCreate, FormOf, Idle
<1>5. Forms' = [Forms EXCEPT ![u] = FormOf(req[u])]
  BY <1>4, FormReplaced
<1>6. Forms' = Forms
  BY <1>5 DEF Forms
<1> QED
  BY <1>1, <1>2, <1>3, <1>6, SameRows DEF Promise!Create, Forms

\* What an update or a delete holds when nobody has overtaken it.
LEMMA UndisturbedIsCurrent ==
  ASSUME TypeInv, NEW u \in Clients, req[u].pc = "commit", req[u].op # "create",
         Undisturbed(u)
  PROVE  /\ Promise!Current(u)
         /\ Forms[u].row = req[u].row
         /\ rows[req[u].row] = req[u].snap
<1>1. /\ Forms[u].row = req[u].row /\ Forms[u].copy = req[u].base
      /\ req[u].row \in Rows
  BY DEF Forms, FormOf, TypeInv, WellFormed, Shape
<1>2. rows[req[u].row] = req[u].snap /\ req[u].snap = req[u].base
  BY DEF Undisturbed
<1>3. Forms[u] # Promise!Closed
  BY <1>1, RowConstants DEF Promise!Closed, Rows
<1> QED
  BY <1>1, <1>2, <1>3 DEF Promise!Current, Forms

\* Ending a request closes the client's form.
LEMMA CommitClosesForm ==
  ASSUME TypeInv, NEW u \in Clients, req' = [req EXCEPT ![u] = Idle]
  PROVE  Forms' = [Forms EXCEPT ![u] = Promise!Closed]
BY FormReplaced, SameRows DEF FormOf, Idle, Promise!Closed

\* An undisturbed UPDATE is the promised compare-and-set.
LEMMA UpdateSaves ==
  ASSUME TypeInv, NEW u \in Clients, CommitUpdate(u), Undisturbed(u)
  PROVE  Promise!SaveUpdate(u)
<1> DEFINE r == req[u].row
           p == req[u].patch
<1>1. Promise!Current(u) /\ Forms[u].row = r /\ rows[r] = req[u].snap
  BY UndisturbedIsCurrent DEF CommitUpdate
<1>2. rows[r] \in Row /\ p \in Patch /\ r \in Rows
  BY Committing DEF CommitUpdate
<1>3. p \in PatchesOf(r)
  BY DEF CommitUpdate, TypeInv, WellFormed, Shape
<1>4. rows' = [rows EXCEPT ![r] = Flushed(rows[r], req[u].snap, p)]
  BY DEF CommitUpdate
<1>5. rows' = [rows EXCEPT ![r] = Promise!Patched(rows[r], p)]
  BY <1>1, <1>2, <1>4, FlushedIsPatched, SameRows
<1>6. Promise!Linkable(p.link)
  BY DEF Undisturbed, Live, Promise!Linkable, Promise!Live
<1>7. Forms' = [Forms EXCEPT ![u] = Promise!Closed]
  BY CommitClosesForm DEF CommitUpdate
<1> QED
  BY <1>1, <1>3, <1>5, <1>6, <1>7, SameRows DEF Promise!SaveUpdate, Forms

\* A row is not stored in itself, so emptying it leaves it as it is.
LEMMA EmptyingKeepsTheRow ==
  ASSUME NEW t \in [Rows -> Row], NEW r \in Rows
  PROVE  Emptied(t, r)[r] = t[r]
<1>1. r \notin StoredIn(t, r)
  BY RowConstants DEF StoredIn, Row, Rows
<1> QED
  BY <1>1 DEF Emptied

\* An undisturbed delete, with its bulk UPDATE, is the promised SaveDelete.
LEMMA DeletionSaves ==
  ASSUME TypeInv, NEW u \in Clients, CommitDelete(u), Undisturbed(u)
  PROVE  Promise!SaveDelete(u)
<1> DEFINE r == req[u].row
           e == Emptied(rows, r)
           n == req[u].snap.rev + 1
<1>1. Promise!Current(u) /\ Forms[u].row = r /\ rows[r] = req[u].snap
  BY UndisturbedIsCurrent DEF CommitDelete
<1>2. rows[r] \in Row /\ r \in Rows /\ rows \in [Rows -> Row]
  BY Committing DEF CommitDelete
<1>3. e[r] = rows[r] /\ e \in [Rows -> Row]
  BY <1>2, EmptyingKeepsTheRow, EmptiedRows
<1>4. rows' = [e EXCEPT ![r].state = "deleted", ![r].rev = n]
  BY DEF CommitDelete
<1>5. n = e[r].rev + 1
  BY <1>1, <1>3
<1> HIDE DEF e, n
<1>6. [e[r] EXCEPT !.state = "deleted", !.rev = n] = Tombstone(e[r])
  BY <1>5 DEF Tombstone
<1>7. rows' = [e EXCEPT ![r] = Promise!Tombstone(e[r])]
  BY <1>4, <1>6, SameRows
<1>8. Forms' = [Forms EXCEPT ![u] = Promise!Closed]
  BY CommitClosesForm DEF CommitDelete
<1>9. e = Promise!Emptied(rows, r)
  BY SameRows DEF e
<1> QED
  BY <1>1, <1>7, <1>8, <1>9 DEF Promise!SaveDelete, Forms

\* Every step of the service that nobody has overtaken is one of the store.
LEMMA StepRefines ==
  ASSUME TypeInv, CreatesFresh, NEW u \in Clients, Step(u),
         Commits(u) => Undisturbed(u)
  PROVE  Promise!Next \/ UNCHANGED Promise!absVars
<1>1. CASE Fetch(u)
  BY <1>1, FetchOpens DEF Promise!Next
<1>2. CASE Drop(u)
  <2>1. req[u].op = "none"
    BY <1>2 DEF Drop, TypeInv, WellFormed, Shape
  <2> QED
    BY <1>2, <2>1, EndDiscards DEF Promise!Next, Drop
<1>3. CASE StartCreate(u) \/ StartUpdate(u) \/ StartDelete(u)
  BY <1>3, StartsKeep
<1>4. CASE ValidateContainer(u)
  BY <1>4, ValidationKeepsOrDiscards DEF Promise!Next
<1>5. CASE CommitCreate(u) \/ CommitUpdate(u) \/ CommitDelete(u)
  <2>1. Commits(u) /\ req[u].row \in Rows
    BY <1>5, Committing DEF Commits, CommitCreate, CommitUpdate, CommitDelete, Idle, TypeInv, TypeOK
  <2>2. Undisturbed(u)
    BY <2>1
  <2> QED
    BY <1>5, <2>1, <2>2, CreationCreates, UpdateSaves, DeletionSaves, SameRows DEF Promise!Next
<1> QED
  BY <1>1, <1>2, <1>3, <1>4, <1>5 DEF Step

\* However handlers interleave, a commit nobody has overtaken is one atomic
\* compare-and-set: every anomaly needs an overtaken handler.
THEOREM CommitsAreAtomic == Spec => UndisturbedCommitsAreAtomic
<1>1. IInv /\ [Next]_vars
        => [(\A u \in Clients : Commits(u) => Undisturbed(u))
              => Promise!Next \/ UNCHANGED Promise!absVars]_vars
  BY StepRefines DEF Next, IInv
<1> QED
  BY <1>1, Invariance, PTL DEF Spec, UndisturbedCommitsAreAtomic

-----------------------------------------------------------------------------
(***************************************************************************)
(* Handlers one by one (Overlap is FALSE).  The read of a handler is then  *)
(* still true when it commits, and a copy whose revision is that of the    *)
(* row is the row: comparing revisions is enough.                          *)
(***************************************************************************)

\* One handler at a time.
Alone == \A u, v \in Clients : InFlight(u) /\ InFlight(v) => u = v

\* The client of u holds a copy of a row.
Holds(u) == req[u].pc # "idle" /\ req[u].op # "create"

\* Revisions tell versions apart: an older copy has a smaller revision.
BaseCurrent ==
  \A u \in Clients :
    Holds(u) => LET base == req[u].base
                    row  == rows[req[u].row]
                IN  \/ base.rev < row.rev
                    \/ base = row

\* Nothing has moved under a handler in flight.
NothingMoved ==
  \A u \in Clients :
    /\ InFlight(u) /\ req[u].op # "create" => /\ rows[req[u].row] = req[u].snap
                                              /\ req[u].snap = req[u].base
    /\ req[u].pc = "commit" /\ req[u].patch.link \in Containers => Live(req[u].patch.link)

\* A held row exists, and one that does not has no revision yet.
HeldExist == \A u \in Clients : Holds(u) => rows[req[u].row].state # "absent"

AbsentUnrevised == \A r \in Rows : rows[r].state = "absent" => rows[r].rev = 0

SerialInv == /\ TypeInv /\ CreatesFresh
             /\ Alone /\ BaseCurrent /\ NothingMoved
             /\ HeldExist /\ AbsentUnrevised

-----------------------------------------------------------------------------
\* So no commit is ever overtaken.
LEMMA NeverOvertaken ==
  ASSUME SerialInv, NEW u \in Clients, Commits(u)
  PROVE  Undisturbed(u)
BY DEF SerialInv, NothingMoved, Undisturbed, Commits, InFlight

IsCommit(u) == CommitCreate(u) \/ CommitUpdate(u) \/ CommitDelete(u)

\* Every step but the three commits only reads.
LEMMA OnlyCommitsWrite ==
  ASSUME NEW u \in Clients, Step(u), ~IsCommit(u)
  PROVE  rows' = rows
BY DEF IsCommit, Step, Fetch, Drop, StartCreate, StartUpdate, StartDelete, ValidateContainer

\* A commit raises the revision of every row it changes.
LEMMA CommitRaises ==
  ASSUME SerialInv, NEW u \in Clients, IsCommit(u), NEW r \in Rows, rows'[r] # rows[r]
  PROVE  rows'[r].rev > rows[r].rev
<1> DEFINE c == req[u].row
<1>1. TypeInv /\ rows \in [Rows -> Row] /\ rows[r] \in Row /\ rows[r].rev \in Nat
  BY DEF SerialInv, TypeInv, TypeOK, Row
<1>2. CASE CommitCreate(u)
  <2>1. r = c /\ rows[r].rev = 0
    BY <1>1, <1>2, CommitCreateRows DEF SerialInv, AbsentUnrevised, CreatesFresh, CommitCreate
  <2>2. Inserted(req[u].patch).rev = 1
    BY DEF Inserted
  <2>3. rows'[c] = Inserted(req[u].patch)
    BY <1>1, <1>2, CommitCreateRows
  <2> QED
    BY <2>1, <2>2, <2>3
<1>3. CASE CommitUpdate(u)
  <2>1. rows[c] = req[u].snap
    BY <1>3 DEF SerialInv, NothingMoved, InFlight, CommitUpdate
  <2>2. /\ req[u].snap \in Row /\ req[u].patch \in Patch /\ rows[c] \in Row
    BY <1>1, <1>3, Committing DEF CommitUpdate
  <2>3. Flushed(rows[c], req[u].snap, req[u].patch).rev = req[u].snap.rev + 1
    BY <2>2, RowOperations
  <2>4. r = c /\ rows'[c] = Flushed(rows[c], req[u].snap, req[u].patch)
    BY <1>1, <1>3, CommitUpdateRows
  <2> QED
    BY <1>1, <2>1, <2>3, <2>4
<1>4. CASE CommitDelete(u)
  <2>1. rows[c] = req[u].snap /\ c \in Rows /\ req[u].snap.rev + 1 \in Nat
    BY <1>1, <1>4, Committing DEF SerialInv, NothingMoved, InFlight, CommitDelete
  <2>2. CASE r = c
    <3> DEFINE e == Emptied(rows, c)
               n == req[u].snap.rev + 1
               new == [e[c] EXCEPT !.state = "deleted", !.rev = n]
    <3>1. e \in [Rows -> Row]
      BY <1>1, <2>1, EmptiedRows
    <3>2. rows' = [e EXCEPT ![c].state = "deleted", ![c].rev = n]
      BY <1>4 DEF CommitDelete
    <3> HIDE DEF e, n
    <3>3. rows'[c] = new
      BY <2>1, <3>1, <3>2
    <3>4. new.rev = n
      BY <2>1, <3>1 DEF Row
    <3> HIDE DEF new
    <3>5. n = rows[r].rev + 1
      BY <2>1, <2>2 DEF n
    <3> QED
      BY <1>1, <2>2, <3>3, <3>4, <3>5
  <2>3. CASE r # c
    <3>1. rows'[r] = Emptied(rows, c)[r]
      BY <1>1, <1>4, <2>3, CommitDeleteRows
    <3>2. rows'[r] = [rows[r] EXCEPT !.link = None, !.rev = @ + 1]
      BY <3>1 DEF Emptied
    <3>3. [rows[r] EXCEPT !.link = None, !.rev = @ + 1].rev = rows[r].rev + 1
      BY <1>1 DEF Row
    <3> QED
      BY <1>1, <3>2, <3>3
  <2> QED
    BY <2>2, <2>3
<1> QED
  BY <1>2, <1>3, <1>4 DEF IsCommit

-----------------------------------------------------------------------------
\* What a start leaves in the request, whichever of the three it is.
LEMMA StartedRequest ==
  ASSUME TypeInv, NEW u \in Clients, StartCreate(u) \/ StartUpdate(u) \/ StartDelete(u)
  PROVE  /\ MayStart /\ rows' = rows
         /\ req'[u].op # "create" =>
              /\ Holds(u) /\ Accepts(u)
              /\ req'[u].row = req[u].row /\ req'[u].base = req[u].base
              /\ req'[u].snap = rows[req[u].row]
<1>1. req[u] \in Request /\ Shape(req[u]) /\ req \in [Clients -> Request]
  BY DEF TypeInv, TypeOK, WellFormed
<1>2. CASE StartCreate(u)
  <2>1. PICK r \in Rows : \E p \in NewValues(r) :
          req' = [req EXCEPT ![u] = [Idle EXCEPT !.pc = AfterRead(p), !.op = "create",
                                                 !.row = r, !.patch = p]]
    BY <1>2 DEF StartCreate
  <2>2. PICK p \in NewValues(r) :
          req' = [req EXCEPT ![u] = [Idle EXCEPT !.pc = AfterRead(p), !.op = "create",
                                                 !.row = r, !.patch = p]]
    BY <2>1
  <2>3. req'[u].op = "create"
    BY <1>1, <2>2 DEF Idle
  <2> QED
    BY <1>2, <2>3 DEF StartCreate
<1>3. CASE StartUpdate(u)
  <2>1. PICK p \in PatchesOf(req[u].row) :
          req' = [req EXCEPT ![u].pc = AfterRead(p), ![u].op = "update",
                             ![u].snap = rows[req[u].row], ![u].patch = p]
    BY <1>3 DEF StartUpdate
  <2>2. /\ req'[u].row = req[u].row /\ req'[u].base = req[u].base
        /\ req'[u].snap = rows[req[u].row]
    BY <1>1, <2>1 DEF Request
  <2>3. Holds(u) /\ Accepts(u) /\ MayStart /\ rows' = rows
    BY <1>1, <1>3 DEF StartUpdate, Holds, Shape
  <2> QED
    BY <2>2, <2>3
<1>4. CASE StartDelete(u)
  <2>1. /\ req'[u].row = req[u].row /\ req'[u].base = req[u].base
        /\ req'[u].snap = rows[req[u].row]
    BY <1>1, <1>4 DEF StartDelete, Request
  <2>2. Holds(u) /\ Accepts(u) /\ MayStart /\ rows' = rows
    BY <1>1, <1>4 DEF StartDelete, Holds, Shape
  <2> QED
    BY <2>1, <2>2
<1> QED
  BY <1>2, <1>3, <1>4

\* The revision comparison is exact: what passes it is the very copy.
LEMMA AcceptedIsCurrent ==
  ASSUME SerialInv, NEW u \in Clients, Holds(u), Accepts(u)
  PROVE  req[u].base = rows[req[u].row]
<1>1. req[u].base.rev \in Nat
  BY DEF SerialInv, TypeInv, TypeOK, Request, Row
<1> QED
  BY <1>1 DEF SerialInv, BaseCurrent, Accepts

\* A validated request is otherwise unchanged, a refused one is gone.
LEMMA ValidatedRequest ==
  ASSUME TypeInv, NEW u \in Clients, ValidateContainer(u)
  PROVE  \/ req'[u] = Idle
         \/ /\ InFlight(u)
            /\ req'[u].pc = "commit" /\ req'[u].op = req[u].op
            /\ req'[u].row = req[u].row /\ req'[u].base = req[u].base
            /\ req'[u].snap = req[u].snap
<1>1. req[u] \in Request /\ req \in [Clients -> Request]
  BY DEF TypeInv, TypeOK
<1> QED
  BY <1>1 DEF ValidateContainer, Request, InFlight

\* Fetching makes the copy of the client the row as it is.
LEMMA FetchedRequest ==
  ASSUME TypeInv, NEW u \in Clients, Fetch(u)
  PROVE  /\ req'[u].pc = "editing" /\ rows' = rows
         /\ req'[u].base = rows[req'[u].row]
<1>1. PICK r \in Rows :
        req' = [req EXCEPT ![u] = [Idle EXCEPT !.pc = "editing", !.row = r, !.base = rows[r]]]
  BY DEF Fetch
<1>2. req'[u] = [Idle EXCEPT !.pc = "editing", !.row = r, !.base = rows[r]]
  BY <1>1 DEF TypeInv, TypeOK
<1> QED
  BY <1>2 DEF Idle, Fetch

\* Dropping a form and committing leave the request idle.
LEMMA EndedRequest ==
  ASSUME TypeInv, NEW u \in Clients, Drop(u) \/ IsCommit(u)
  PROVE  req'[u] = Idle
BY DEF Drop, IsCommit, CommitCreate, CommitUpdate, CommitDelete, TypeInv, TypeOK

-----------------------------------------------------------------------------
\* Without overlap, at most one handler stays in flight.
LEMMA AloneStep ==
  ASSUME ~Overlap, SerialInv, NEW u \in Clients, Step(u)
  PROVE  Alone'
<1>1. TypeInv
  BY DEF SerialInv
<1>2. \A v \in Clients \ {u} : InFlight(v)' = InFlight(v)
  BY <1>1, OthersUntouched DEF InFlight
<1>3. InFlight(u)' => InFlight(u) \/ \A v \in Clients : ~InFlight(v)
  <2>1. CASE Fetch(u)
    BY <1>1, <2>1, FetchedRequest DEF InFlight
  <2>2. CASE StartCreate(u) \/ StartUpdate(u) \/ StartDelete(u)
    BY <1>1, <2>2, StartedRequest DEF MayStart
  <2>3. CASE ValidateContainer(u)
    BY <2>3 DEF ValidateContainer, InFlight
  <2>4. CASE Drop(u) \/ IsCommit(u)
    BY <1>1, <2>4, EndedRequest DEF InFlight, Idle
  <2> QED
    BY <2>1, <2>2, <2>3, <2>4 DEF Step, IsCommit
<1> QED
  BY <1>2, <1>3 DEF SerialInv, Alone

\* A copy that has the revision of its row stays equal to the row: every change
\* of a row raises its revision.
LEMMA BaseStep ==
  ASSUME SerialInv, NEW u \in Clients, Step(u), TypeInv'
  PROVE  BaseCurrent'
<1>1. TypeInv /\ BaseCurrent
  BY DEF SerialInv
<1>2. ASSUME NEW v \in Clients \ {u}, Holds(v)'
      PROVE  \/ req'[v].base.rev < rows'[req'[v].row].rev
             \/ req'[v].base = rows'[req'[v].row]
  <2>1. req'[v] = req[v] /\ Holds(v)
    BY <1>1, <1>2, OthersUntouched DEF Holds
  <2>2. req[v].row \in Rows /\ req[v].base.rev \in Nat
    BY <1>1, <2>1 DEF Holds, TypeInv, TypeOK, WellFormed, Shape, Request, Row
  <2>3. /\ rows[req[v].row].rev \in Nat
        /\ rows'[req[v].row].rev \in Nat
    BY <1>1, <2>2 DEF TypeInv, TypeOK, Row
  <2>4. \/ rows'[req[v].row] = rows[req[v].row]
        \/ rows'[req[v].row].rev > rows[req[v].row].rev
    BY <2>2, CommitRaises, OnlyCommitsWrite
  <2> QED
    BY <1>1, <2>1, <2>2, <2>3, <2>4 DEF BaseCurrent
<1>3. ASSUME Holds(u)'
      PROVE  \/ req'[u].base.rev < rows'[req'[u].row].rev
             \/ req'[u].base = rows'[req'[u].row]
  <2>1. CASE Fetch(u)
    BY <1>1, <2>1, FetchedRequest
  <2>2. CASE StartCreate(u) \/ StartUpdate(u) \/ StartDelete(u)
    BY <1>1, <1>3, <2>2, StartedRequest, AcceptedIsCurrent DEF Holds
  <2>3. CASE ValidateContainer(u)
    BY <1>1, <1>3, <2>3, ValidatedRequest DEF ValidateContainer, BaseCurrent, Holds, Idle
  <2>4. CASE Drop(u) \/ IsCommit(u)
    BY <1>1, <1>3, <2>4, EndedRequest DEF Holds, Idle
  <2> QED
    BY <2>1, <2>2, <2>3, <2>4 DEF Step, IsCommit
<1> QED
  BY <1>2, <1>3 DEF BaseCurrent, Holds

\* The row a lone handler has read stays as it read it.
LEMMA NothingMovedStep ==
  ASSUME ~Overlap, SerialInv, NEW u \in Clients, Step(u)
  PROVE  NothingMoved'
<1>1. TypeInv /\ NothingMoved /\ Alone
  BY DEF SerialInv
<1>2. ASSUME NEW v \in Clients \ {u}, InFlight(v)'
      PROVE  /\ req'[v] = req[v] /\ InFlight(v)
             /\ rows' = rows
  <2>1. req'[v] = req[v] /\ InFlight(v)
    BY <1>1, <1>2, OthersUntouched DEF InFlight
  <2>2. ~InFlight(u)
    BY <1>1, <2>1 DEF Alone
  <2>3. ~IsCommit(u)
    BY <2>2 DEF IsCommit, CommitCreate, CommitUpdate, CommitDelete, InFlight
  <2> QED
    BY <2>1, <2>3, OnlyCommitsWrite
<1>3. ASSUME InFlight(u)', req'[u].op # "create"
      PROVE  rows'[req'[u].row] = req'[u].snap /\ req'[u].snap = req'[u].base
  <2>1. CASE Fetch(u)
    BY <1>1, <1>3, <2>1, FetchedRequest DEF InFlight
  <2>2. CASE StartCreate(u) \/ StartUpdate(u) \/ StartDelete(u)
    BY <1>1, <1>3, <2>2, StartedRequest, AcceptedIsCurrent
  <2>3. CASE ValidateContainer(u)
    BY <1>1, <1>3, <2>3, ValidatedRequest DEF ValidateContainer, NothingMoved, InFlight, Idle
  <2>4. CASE Drop(u) \/ IsCommit(u)
    BY <1>1, <1>3, <2>4, EndedRequest DEF InFlight, Idle
  <2> QED
    BY <2>1, <2>2, <2>3, <2>4 DEF Step, IsCommit
<1>4. req'[u].pc = "commit" /\ req'[u].patch.link \in Containers
        => rows'[req'[u].patch.link].state = "live"
  BY <1>1, ReadyToCommit DEF Live
<1>5. ASSUME NEW v \in Clients
      PROVE  /\ req'[v].pc \in {"validate", "commit"} /\ req'[v].op # "create"
                  => /\ rows'[req'[v].row] = req'[v].snap
                     /\ req'[v].snap = req'[v].base
             /\ req'[v].pc = "commit" /\ req'[v].patch.link \in Containers
                  => rows'[req'[v].patch.link].state = "live"
  <2>1. CASE v = u
    BY <1>3, <1>4, <2>1 DEF InFlight
  <2>2. CASE v # u
    BY <1>1, <1>2, <2>2 DEF InFlight, NothingMoved, Live
  <2> QED
    BY <2>1, <2>2
<1> QED
  BY <1>5 DEF NothingMoved, InFlight, Live

\* The row a client holds keeps existing.
LEMMA HeldStep ==
  ASSUME SerialInv, NEW u \in Clients, Step(u)
  PROVE  HeldExist'
<1>1. TypeInv /\ HeldExist
  BY DEF SerialInv
<1>2. ASSUME NEW v \in Clients, Holds(v), req'[v].row = req[v].row
      PROVE  rows'[req'[v].row].state # "absent"
  BY <1>1, <1>2, RowsStay DEF HeldExist, Holds, TypeInv, WellFormed, Shape
<1>3. ASSUME NEW v \in Clients \ {u}, Holds(v)'
      PROVE  rows'[req'[v].row].state # "absent"
  BY <1>1, <1>2, <1>3, OthersUntouched DEF Holds
<1>4. ASSUME Holds(u)'
      PROVE  rows'[req'[u].row].state # "absent"
  <2>1. CASE Fetch(u)
    <3>1. PICK r \in Rows :
            /\ Live(r)
            /\ req' = [req EXCEPT ![u] = [Idle EXCEPT !.pc = "editing", !.row = r, !.base = rows[r]]]
      BY <2>1 DEF Fetch
    <3>2. req'[u] = [Idle EXCEPT !.pc = "editing", !.row = r, !.base = rows[r]]
      BY <1>1, <3>1 DEF TypeInv, TypeOK
    <3>3. req'[u].row = r
      BY <3>2 DEF Idle
    <3> QED
      BY <2>1, <3>1, <3>3 DEF Fetch, Live
  <2>2. CASE StartCreate(u) \/ StartUpdate(u) \/ StartDelete(u)
    BY <1>1, <1>2, <1>4, <2>2, StartedRequest DEF Holds
  <2>3. CASE ValidateContainer(u)
    BY <1>1, <1>2, <1>4, <2>3, ValidatedRequest DEF ValidateContainer, Holds, Idle
  <2>4. CASE Drop(u) \/ IsCommit(u)
    BY <1>1, <1>4, <2>4, EndedRequest DEF Holds, Idle
  <2> QED
    BY <2>1, <2>2, <2>3, <2>4 DEF Step, IsCommit
<1> QED
  BY <1>3, <1>4 DEF HeldExist, Holds

\* A row that was never inserted has no revision yet.
LEMMA AbsentStep ==
  ASSUME SerialInv, NEW u \in Clients, Step(u)
  PROVE  AbsentUnrevised'
<1>1. TypeInv /\ HeldExist /\ AbsentUnrevised
  BY DEF SerialInv
<1>2. ASSUME NEW r \in Rows, rows'[r].state = "absent"
      PROVE  rows'[r].rev = 0
  <2>1. rows[r].state = "absent" /\ rows[r].rev = 0
    BY <1>1, <1>2, RowsStay DEF AbsentUnrevised
  <2>2. rows'[r] = rows[r]
    <3>1. CASE CommitCreate(u)
      BY <1>1, <1>2, <3>1, CommitCreateRows
    <3>2. CASE CommitUpdate(u)
      BY <1>1, <2>1, <3>2, CommitUpdateRows DEF HeldExist, Holds, CommitUpdate
    <3>3. CASE CommitDelete(u)
      <4>1. rows'[r] = Emptied(rows, req[u].row)[r]
        BY <1>1, <1>2, <3>3, CommitDeleteRows
      <4> QED
        BY <2>1, <4>1 DEF Emptied, StoredIn
    <3>4. CASE ~IsCommit(u)
      BY <3>4, OnlyCommitsWrite
    <3> QED
      BY <3>1, <3>2, <3>3, <3>4 DEF IsCommit
  <2> QED
    BY <2>1, <2>2
<1> QED
  BY <1>2 DEF AbsentUnrevised

\* SerialInv is inductive, and so holds throughout a serial run.
LEMMA SerialInvariance ==
  ASSUME ~Overlap
  PROVE  Spec => []SerialInv
<1>1. Init => SerialInv
  <2> SUFFICES ASSUME Init PROVE SerialInv
    OBVIOUS
  <2>1. TypeInv
    BY ConstantRecords DEF Init, TypeInv, TypeOK, WellFormed
  <2>2. \A u \in Clients : req[u].pc = "idle" /\ req[u].op = "none"
    BY DEF Init, Idle
  <2>3. \A r \in Rows : rows[r].rev = 0
    BY DEF Init, Absent
  <2> QED
    BY <2>1, <2>2, <2>3 DEF SerialInv, CreatesFresh, Alone, BaseCurrent, NothingMoved,
                            HeldExist, AbsentUnrevised, Holds, InFlight
<1>2. SerialInv /\ TypeInv' /\ [Next]_vars => SerialInv'
  <2> SUFFICES ASSUME SerialInv, TypeInv', [Next]_vars PROVE SerialInv'
    OBVIOUS
  <2>1. CASE UNCHANGED vars
    BY <2>1 DEF vars, SerialInv, CreatesFresh, Alone, BaseCurrent, NothingMoved,
                HeldExist, AbsentUnrevised, Holds, InFlight, Live
  <2>2. ASSUME NEW u \in Clients, Step(u) PROVE SerialInv'
    <3>1. CreatesFresh'
      BY <2>2, FreshStep DEF SerialInv
    <3> QED
      BY <2>2, <3>1, AloneStep, BaseStep, NothingMovedStep, HeldStep, AbsentStep DEF SerialInv
  <2> QED
    BY <2>1, <2>2 DEF Next
<1> QED
  BY <1>1, <1>2, TypeInvariance, PTL DEF Spec

\* Served one at a time, the handlers implement the compare-and-set store.
THEOREM SerialServiceKeepsPromise ==
  ASSUME ~Overlap
  PROVE  Spec => KeepsPromise
<1>1. Init => Promise!Init
  BY SameRows DEF Init, Promise!Init, FormOf, Idle, Promise!Closed
<1>2. SerialInv /\ [Next]_vars => [Promise!Next]_(Promise!absVars)
  <2> SUFFICES ASSUME SerialInv, [Next]_vars
               PROVE  Promise!Next \/ UNCHANGED Promise!absVars
    OBVIOUS
  <2>1. CASE UNCHANGED vars
    BY <2>1 DEF vars, Promise!absVars
  <2>2. ASSUME NEW u \in Clients, Step(u) PROVE Promise!Next \/ UNCHANGED Promise!absVars
    BY <2>2, NeverOvertaken, StepRefines DEF SerialInv
  <2> QED
    BY <2>1, <2>2 DEF Next
<1> QED
  BY <1>1, <1>2, SerialInvariance, PTL DEF Spec, KeepsPromise, Promise!Spec

\* Served one at a time, no commit overwrites a version its client has not seen.
THEOREM SerialNoLostUpdate ==
  ASSUME ~Overlap
  PROVE  Spec => NoLostUpdate
<1>1. SerialInv => [\A u \in Clients : Commits(u) /\ req[u].op # "create"
                     => rows[req[u].row] = req[u].base]_vars
  BY NeverOvertaken DEF Undisturbed
<1> QED
  BY <1>1, SerialInvariance, PTL DEF NoLostUpdate

\* Served one at a time, whatever changes a row raises its revision.
THEOREM SerialRevisionsGrow ==
  ASSUME ~Overlap
  PROVE  Spec => RevisionsGrow
<1>1. SerialInv /\ [Next]_vars
        => [\A r \in Rows : rows[r] # rows'[r] => rows'[r].rev > rows[r].rev]_vars
  BY CommitRaises, OnlyCommitsWrite DEF Next
<1> QED
  BY <1>1, SerialInvariance, PTL DEF Spec, RevisionsGrow

-----------------------------------------------------------------------------
\* A step of a serial run leaves no live item in a deleted container.
LEMMA DanglingStep ==
  ASSUME SerialInv, NoDanglingItem, NEW u \in Clients, Step(u), NEW i \in Items,
         rows'[i].state = "live", rows'[i].link \in Containers
  PROVE  rows'[rows'[i].link].state = "live"
<1> DEFINE c == req[u].row
           l == rows'[i].link
<1>1. TypeInv /\ i \in Rows /\ l \in Rows /\ l # i /\ l # None
  BY RowConstants DEF SerialInv, Rows
<1>2. rows[i].state = "live" /\ rows[i].link = l => rows[l].state = "live"
  BY DEF NoDanglingItem, Live
<1>3. req[u].pc = "commit" /\ req[u].patch.link = l => rows[l].state = "live"
  BY DEF SerialInv, NothingMoved, Live
<1>4. CASE CommitCreate(u)
  <2>1. rows[c].state = "absent" /\ req[u].pc = "commit"
    BY <1>4 DEF SerialInv, CreatesFresh, CommitCreate
  <2>2. rows[l].state = "live"
    BY <1>1, <1>2, <1>3, <1>4, <2>1, CommitCreateRows
  <2> QED
    BY <1>1, <1>4, <2>1, <2>2, CommitCreateRows
<1>5. CASE CommitUpdate(u)
  <2>1. /\ rows'[i].state = rows[i].state /\ rows'[l].state = rows[l].state
        /\ l \in {rows[i].link, req[u].patch.link}
    BY <1>1, <1>5, CommitUpdateRows
  <2> QED
    BY <1>2, <1>3, <1>5, <2>1 DEF CommitUpdate
<1>6. CASE CommitDelete(u)
  <2>1. i # c /\ rows'[i] = Emptied(rows, c)[i] /\ c \in Rows
    BY <1>1, <1>6, CommitDeleteRows, Committing DEF CommitDelete
  <2>2. rows[i].state = "live" /\ l = rows[i].link /\ l # c
    BY <1>1, <2>1, EmptiedRows DEF TypeInv, TypeOK
  <2> QED
    BY <1>1, <1>2, <1>6, <2>2, CommitDeleteRows
<1>7. CASE ~IsCommit(u)
  BY <1>2, <1>7, OnlyCommitsWrite
<1> QED
  BY <1>4, <1>5, <1>6, <1>7 DEF IsCommit

\* Served one at a time, no live item is stored in a deleted container.
THEOREM SerialNoDanglingItem ==
  ASSUME ~Overlap
  PROVE  Spec => []NoDanglingItem
<1>1. Init => NoDanglingItem
  BY DEF Init, NoDanglingItem, Live, Absent, Rows
<1>2. SerialInv /\ NoDanglingItem /\ [Next]_vars => NoDanglingItem'
  <2> SUFFICES ASSUME SerialInv, NoDanglingItem, [Next]_vars PROVE NoDanglingItem'
    OBVIOUS
  <2>1. CASE UNCHANGED vars
    BY <2>1 DEF vars, NoDanglingItem, Live
  <2>2. ASSUME NEW u \in Clients, Step(u) PROVE NoDanglingItem'
    BY <2>2, DanglingStep DEF NoDanglingItem, Live
  <2> QED
    BY <2>1, <2>2 DEF Next
<1> QED
  BY <1>1, <1>2, SerialInvariance, PTL DEF Spec
=============================================================================
