----------------------- MODULE ResourceService_proofs -----------------------
(***************************************************************************)
(* Theorems about ResourceService, for every set of clients and rows, with *)
(* and without overlapping handlers.                                       *)
(*                                                                         *)
(* The safety properties rest on one inductive invariant: the types, the   *)
(* shape of a request at each of its stages, the freshness of a row that   *)
(* is about to be inserted, and the existence of every container a row or  *)
(* a validated request names.                                              *)
(***************************************************************************)
EXTENDS ResourceService, TLAPS

\* A request names a row once it is under way, and a creation every column.
Shape(q) == /\ q.pc = "idle" => q = Idle
            /\ q.pc = "editing" => q.op = "none" /\ q.patch = NoPatch
            /\ q.pc \in {"validate", "commit"} => q.op # "none"
            /\ q.pc # "idle" => q.row \in Rows
            /\ q.op = "create" => q.patch \in NewValues(q.row)
            /\ q.op = "update" => q.patch \in PatchesOf(q.row)

WellFormed == \A u \in Clients : Shape(req[u])

\* The identifier of a creation in flight is nobody else's.
CreatesFresh ==
  \A u \in Clients :
    req[u].op = "create" => /\ rows[req[u].row].state = "absent"
                            /\ \A v \in Clients \ {u} : req[v].row # req[u].row

TypeInv == TypeOK /\ WellFormed

IInv == TypeInv /\ CreatesFresh /\ ReferencesExist

-----------------------------------------------------------------------------
\* The row operations stay within the type of a row.
LEMMA RowOperations ==
  ASSUME NEW row \in Row, NEW old \in Row, NEW p \in Patch
  PROVE  /\ Flushed(row, old, p) \in Row
         /\ Flushed(row, old, p).state = row.state
         /\ Flushed(row, old, p).rev = old.rev + 1
         /\ Flushed(row, old, p).link \in {row.link, p.link}
         /\ p.val # Keep /\ p.link # Keep => Inserted(p) \in Row
<1> DEFINE val  == Column(row.val, old.val, p.val)
           link == Column(row.link, old.link, p.link)
<1>1. /\ row.state \in {"absent", "live", "deleted"}
      /\ row.val \in Vals \cup {None} /\ row.link \in Containers \cup {None}
      /\ old.rev \in Nat
      /\ p.val \in Vals \cup {Keep} /\ p.link \in Containers \cup {None, Keep}
  BY DEF Row, Patch
<1>2. val \in Vals \cup {None} /\ link \in Containers \cup {None}
  BY <1>1 DEF Column, Set
<1>3. link \in {row.link, p.link}
  BY DEF Column
<1> DEFINE new(v, l, n) == [row EXCEPT !.val = v, !.link = l, !.rev = n]
<1>4. Flushed(row, old, p) = new(val, link, old.rev + 1)
  BY DEF Flushed
<1>5. old.rev + 1 \in Nat
  BY <1>1
<1>6. PICK v \in Vals \cup {None}, l \in Containers \cup {None}, n \in Nat :
         v = val /\ l = link /\ n = old.rev + 1
  BY <1>2, <1>5
<1>7. /\ Flushed(row, old, p) \in Row
      /\ Flushed(row, old, p).state = row.state
      /\ Flushed(row, old, p).rev = old.rev + 1
      /\ Flushed(row, old, p).link = link
  <2>1. Flushed(row, old, p) = new(v, l, n)
    BY <1>4, <1>6
  <2>2. /\ new(v, l, n) \in Row
        /\ new(v, l, n).state = row.state
        /\ new(v, l, n).rev = n
        /\ new(v, l, n).link = l
    BY DEF Row
  <2> HIDE DEF new, link
  <2>3. Flushed(row, old, p) \in Row
    BY <2>1, <2>2
  <2>4. Flushed(row, old, p).state = row.state
    BY <2>1, <2>2
  <2>5. Flushed(row, old, p).rev = old.rev + 1
    BY <2>1, <2>2, <1>6
  <2>6. Flushed(row, old, p).link = link
    BY <2>1, <2>2, <1>6
  <2> QED
    BY <2>3, <2>4, <2>5, <2>6
<1>8. p.val # Keep /\ p.link # Keep => Inserted(p) \in Row
  BY <1>1 DEF Row, Inserted
<1> QED
  BY <1>3, <1>7, <1>8

\* Emptying a container changes nothing of a row but its link and revision.
LEMMA EmptiedRows ==
  ASSUME NEW t \in [Rows -> Row], NEW c \in Rows
  PROVE  /\ Emptied(t, c) \in [Rows -> Row]
         /\ \A r \in Rows : /\ Emptied(t, c)[r].state = t[r].state
                            /\ Emptied(t, c)[r].link \in {t[r].link, None}
         /\ \A i \in Items : Emptied(t, c)[i].state = "live" => Emptied(t, c)[i].link # c \/ c = None
<1>1. ASSUME NEW r \in Rows
      PROVE  /\ Emptied(t, c)[r] \in Row
             /\ Emptied(t, c)[r].state = t[r].state
             /\ Emptied(t, c)[r].link \in {t[r].link, None}
  <2>1. t[r] \in Row
    OBVIOUS
  <2>2. Emptied(t, c)[r] = IF r \in StoredIn(t, c)
                             THEN [t[r] EXCEPT !.link = None, !.rev = @ + 1]
                             ELSE t[r]
    BY DEF Emptied
  <2>3. t[r].rev + 1 \in Nat
    BY <2>1 DEF Row
  <2> DEFINE new(n) == [t[r] EXCEPT !.link = None, !.rev = n]
  <2>4. \A n \in Nat : new(n) \in Row /\ new(n).state = t[r].state /\ new(n).link = None
    BY <2>1 DEF Row
  <2> QED
    BY <2>1, <2>2, <2>3, <2>4
<1>2. ASSUME NEW i \in Items, Emptied(t, c)[i].state = "live"
      PROVE  Emptied(t, c)[i].link # c \/ c = None
  <2>1. i \in Rows /\ t[i] \in Row
    BY DEF Rows
  <2>2. Emptied(t, c)[i] = IF i \in StoredIn(t, c)
                             THEN [t[i] EXCEPT !.link = None, !.rev = @ + 1]
                             ELSE t[i]
    BY <2>1 DEF Emptied
  <2>3. CASE i \in StoredIn(t, c)
    <3>1. [t[i] EXCEPT !.link = None, !.rev = @ + 1].link = None
      BY <2>1 DEF Row
    <3> QED
      BY <2>2, <2>3, <3>1
  <2>4. CASE i \notin StoredIn(t, c)
    BY <2>1, <2>2, <2>4, <1>2 DEF StoredIn
  <2> QED
    BY <2>3, <2>4
<1> QED
  BY <1>1, <1>2 DEF Emptied

-----------------------------------------------------------------------------
\* The constant records are what they should be.
LEMMA ConstantRecords == /\ Absent \in Row
                         /\ NoPatch \in Patch
                         /\ Idle \in Request /\ Shape(Idle)
<1>1. Absent \in Row
  BY DEF Absent, Row
<1>2. NoPatch \in Patch
  BY DEF NoPatch, Patch
<1>3. Idle \in Request
  BY <1>1, <1>2 DEF Idle, Request
<1>4. Shape(Idle)
  BY DEF Idle, Shape
<1> QED
  BY <1>1, <1>2, <1>3, <1>4

\* An action replaces one request by another of the right type and shape.
LEMMA RequestReplaced ==
  ASSUME TypeInv, NEW u \in Clients, NEW q \in Request, Shape(q),
         req' = [req EXCEPT ![u] = q], rows' \in [Rows -> Row]
  PROVE  TypeInv'
BY DEF TypeInv, TypeOK, WellFormed, Shape

\* Fetch leaves a well-formed request.
LEMMA FetchType ==
  ASSUME TypeInv, NEW u \in Clients, Fetch(u)
  PROVE  TypeInv'
<1>1. PICK r \in Rows :
        req' = [req EXCEPT ![u] = [Idle EXCEPT !.pc = "editing", !.row = r, !.base = rows[r]]]
  BY DEF Fetch
<1> DEFINE q == [Idle EXCEPT !.pc = "editing", !.row = r, !.base = rows[r]]
<1>2. rows[r] \in Row /\ rows' = rows /\ rows \in [Rows -> Row]
  BY DEF Fetch, TypeInv, TypeOK
<1>3. q \in Request /\ Shape(q)
  BY <1>2, ConstantRecords DEF Idle, Request, Shape
<1> QED
  BY <1>1, <1>2, <1>3, RequestReplaced

\* Drop leaves a well-formed request.
LEMMA DropType ==
  ASSUME TypeInv, NEW u \in Clients, Drop(u)
  PROVE  TypeInv'
BY ConstantRecords, RequestReplaced DEF Drop, TypeInv, TypeOK

\* StartCreate leaves a well-formed request.
LEMMA StartCreateType ==
  ASSUME TypeInv, NEW u \in Clients, StartCreate(u)
  PROVE  TypeInv'
<1>1. PICK r \in Rows : \E p \in NewValues(r) :
        req' = [req EXCEPT ![u] = [Idle EXCEPT !.pc = AfterRead(p), !.op = "create",
                                               !.row = r, !.patch = p]]
  BY DEF StartCreate
<1>2. PICK p \in NewValues(r) :
        req' = [req EXCEPT ![u] = [Idle EXCEPT !.pc = AfterRead(p), !.op = "create",
                                               !.row = r, !.patch = p]]
  BY <1>1
<1> DEFINE q == [Idle EXCEPT !.pc = AfterRead(p), !.op = "create", !.row = r, !.patch = p]
<1>3. rows' \in [Rows -> Row]
  BY DEF StartCreate, TypeInv, TypeOK
<1>4. p \in Patch
  BY DEF NewValues
<1>5. AfterRead(p) \in {"validate", "commit"}
  BY DEF AfterRead
<1>6. q \in Request /\ Shape(q)
  BY <1>4, <1>5, ConstantRecords DEF Idle, Request, Shape
<1> QED
  BY <1>3, <1>6, <1>2, RequestReplaced

\* StartUpdate leaves a well-formed request.
LEMMA StartUpdateType ==
  ASSUME TypeInv, NEW u \in Clients, StartUpdate(u)
  PROVE  TypeInv'
<1>1. PICK p \in PatchesOf(req[u].row) :
        req' = [req EXCEPT ![u].pc = AfterRead(p), ![u].op = "update",
                           ![u].snap = rows[req[u].row], ![u].patch = p]
  BY DEF StartUpdate
<1> DEFINE q == [req[u] EXCEPT !.pc = AfterRead(p), !.op = "update",
                               !.snap = rows[req[u].row], !.patch = p]
<1>2. /\ req[u] \in Request /\ Shape(req[u]) /\ req[u].pc = "editing"
      /\ rows \in [Rows -> Row] /\ rows' = rows
  BY DEF StartUpdate, TypeInv, TypeOK, WellFormed
<1>3. req[u].row \in Rows /\ rows[req[u].row] \in Row
  BY <1>2 DEF Shape
<1>4. p \in Patch
  BY DEF PatchesOf
<1>5. AfterRead(p) \in {"validate", "commit"}
  BY DEF AfterRead
<1>6. q \in Request /\ Shape(q)
  BY <1>2, <1>3, <1>4, <1>5 DEF Request, Shape
<1>7. req' = [req EXCEPT ![u] = q]
  BY <1>1
<1> QED
  BY <1>2, <1>6, <1>7, RequestReplaced

\* StartDelete leaves a well-formed request.
LEMMA StartDeleteType ==
  ASSUME TypeInv, NEW u \in Clients, StartDelete(u)
  PROVE  TypeInv'
<1> DEFINE q == [req[u] EXCEPT !.pc = "commit", !.op = "delete",
                               !.snap = rows[req[u].row]]
<1>1. /\ req[u] \in Request /\ Shape(req[u]) /\ req[u].pc = "editing"
      /\ rows \in [Rows -> Row] /\ rows' = rows
  BY DEF StartDelete, TypeInv, TypeOK, WellFormed
<1>2. req[u].row \in Rows /\ rows[req[u].row] \in Row
  BY <1>1 DEF Shape
<1>3. q \in Request /\ Shape(q)
  BY <1>1, <1>2 DEF Request, Shape
<1>4. req' = [req EXCEPT ![u] = q]
  BY DEF StartDelete
<1> QED
  BY <1>1, <1>3, <1>4, RequestReplaced

\* ValidateContainer leaves a well-formed request.
LEMMA ValidateContainerType ==
  ASSUME TypeInv, NEW u \in Clients, ValidateContainer(u)
  PROVE  TypeInv'
<1> DEFINE q == [req[u] EXCEPT !.pc = "commit"]
<1>1. /\ req[u] \in Request /\ Shape(req[u]) /\ req[u].pc = "validate"
      /\ rows \in [Rows -> Row] /\ rows' = rows
  BY DEF ValidateContainer, TypeInv, TypeOK, WellFormed
<1>2. q \in Request /\ Shape(q)
  BY <1>1 DEF Request, Shape
<1>3. req' = [req EXCEPT ![u] = q] \/ req' = [req EXCEPT ![u] = Idle]
  BY DEF ValidateContainer
<1> QED
  BY <1>1, <1>2, <1>3, ConstantRecords, RequestReplaced

\* In a commit the row is one of Rows and the request has the right type.
LEMMA Committing ==
  ASSUME TypeInv, NEW u \in Clients, req[u].pc = "commit"
  PROVE  /\ rows \in [Rows -> Row]
         /\ req[u].row \in Rows /\ rows[req[u].row] \in Row
         /\ req[u].snap \in Row /\ req[u].patch \in Patch
         /\ req[u].snap.rev + 1 \in Nat
<1>1. req[u] \in Request /\ Shape(req[u]) /\ rows \in [Rows -> Row]
  BY DEF TypeInv, TypeOK, WellFormed
<1>2. req[u].row \in Rows /\ req[u].snap \in Row /\ req[u].patch \in Patch
  BY <1>1 DEF Shape, Request
<1>3. req[u].snap.rev + 1 \in Nat
  BY <1>2 DEF Row
<1> QED
  BY <1>1, <1>2, <1>3

\* The row an INSERT writes, and nothing else.
LEMMA CommitCreateRows ==
  ASSUME TypeInv, NEW u \in Clients, CommitCreate(u)
  PROVE  /\ rows' \in [Rows -> Row]
         /\ rows'[req[u].row] = Inserted(req[u].patch)
         /\ rows'[req[u].row].state = "live"
         /\ rows'[req[u].row].link = req[u].patch.link
         /\ \A r \in Rows \ {req[u].row} : rows'[r] = rows[r]
<1>1. Shape(req[u]) /\ req[u].op = "create"
  BY DEF CommitCreate, TypeInv, WellFormed
<1>2. Inserted(req[u].patch) \in Row
  BY <1>1, Committing, RowOperations DEF CommitCreate, Shape, NewValues
<1>3. rows'[req[u].row] = Inserted(req[u].patch)
  BY Committing DEF CommitCreate
<1>4. /\ Inserted(req[u].patch).state = "live"
      /\ Inserted(req[u].patch).link = req[u].patch.link
  BY DEF Inserted
<1>5. /\ rows' \in [Rows -> Row]
      /\ \A r \in Rows \ {req[u].row} : rows'[r] = rows[r]
  BY <1>2, Committing DEF CommitCreate
<1> QED
  BY <1>3, <1>4, <1>5

\* The row an UPDATE writes keeps its state.
LEMMA CommitUpdateRows ==
  ASSUME TypeInv, NEW u \in Clients, CommitUpdate(u)
  PROVE  /\ rows' \in [Rows -> Row]
         /\ rows'[req[u].row] = Flushed(rows[req[u].row], req[u].snap, req[u].patch)
         /\ \A r \in Rows \ {req[u].row} : rows'[r] = rows[r]
         /\ \A r \in Rows : /\ rows'[r].state = rows[r].state
                            /\ rows'[r].link \in {rows[r].link, req[u].patch.link}
<1> DEFINE new == Flushed(rows[req[u].row], req[u].snap, req[u].patch)
<1>1. /\ new \in Row
      /\ new.state = rows[req[u].row].state
      /\ new.link \in {rows[req[u].row].link, req[u].patch.link}
  BY Committing, RowOperations DEF CommitUpdate
<1>2. rows' = [rows EXCEPT ![req[u].row] = new]
  BY DEF CommitUpdate
<1> HIDE DEF new
<1>3. rows \in [Rows -> Row] /\ req[u].row \in Rows
  BY Committing DEF CommitUpdate
<1>4. /\ rows' \in [Rows -> Row]
      /\ rows'[req[u].row] = new
      /\ \A r \in Rows \ {req[u].row} : rows'[r] = rows[r]
  BY <1>1, <1>2, <1>3
<1>5. \A r \in Rows : /\ rows'[r].state = rows[r].state
                     /\ rows'[r].link \in {rows[r].link, req[u].patch.link}
  BY <1>1, <1>4
<1> QED
  BY <1>4, <1>5 DEF new

\* A delete marks its row, and of the other rows it may clear links.
LEMMA CommitDeleteRows ==
  ASSUME TypeInv, NEW u \in Clients, CommitDelete(u)
  PROVE  /\ rows' \in [Rows -> Row]
         /\ rows'[req[u].row].state = "deleted"
         /\ \A r \in Rows \ {req[u].row} : rows'[r] = Emptied(rows, req[u].row)[r]
         /\ \A r \in Rows \ {req[u].row} : rows'[r].state = rows[r].state
         /\ \A r \in Rows : rows'[r].link \in {rows[r].link, None}
<1> DEFINE c == req[u].row
           e == Emptied(rows, c)
           n == req[u].snap.rev + 1
           new == [e[c] EXCEPT !.state = "deleted", !.rev = n]
<1>1. rows \in [Rows -> Row] /\ c \in Rows /\ n \in Nat
  BY Committing DEF CommitDelete
<1>2. /\ e \in [Rows -> Row]
      /\ \A r \in Rows : e[r].state = rows[r].state /\ e[r].link \in {rows[r].link, None}
  BY <1>1, EmptiedRows
<1>3. rows' = [e EXCEPT ![c].state = "deleted", ![c].rev = n]
  BY DEF CommitDelete
<1> HIDE DEF c, e, n
<1>4. rows' = [e EXCEPT ![c] = new]
  BY <1>3
<1>5. new \in Row /\ new.state = "deleted" /\ new.link = e[c].link
  BY <1>1, <1>2 DEF Row
<1> HIDE DEF new
<1>6. /\ rows' \in [Rows -> Row]
      /\ rows'[c] = new
      /\ \A r \in Rows \ {c} : rows'[r] = e[r]
  BY <1>1, <1>2, <1>4, <1>5
<1>7. \A r \in Rows : rows'[r].link \in {rows[r].link, None}
  BY <1>2, <1>5, <1>6
<1>8. \A r \in Rows \ {c} : rows'[r].state = rows[r].state
  BY <1>2, <1>6
<1> QED
  BY <1>5, <1>6, <1>7, <1>8 DEF c, e

\* Every commit ends the request.
LEMMA CommitType ==
  ASSUME TypeInv, NEW u \in Clients, CommitCreate(u) \/ CommitUpdate(u) \/ CommitDelete(u)
  PROVE  TypeInv'
<1>1. rows' \in [Rows -> Row]
  BY CommitCreateRows, CommitUpdateRows, CommitDeleteRows
<1>2. req' = [req EXCEPT ![u] = Idle]
  BY DEF CommitCreate, CommitUpdate, CommitDelete
<1> QED
  BY <1>1, <1>2, ConstantRecords, RequestReplaced

\* The types, with the shape of a request at each pc, are inductive.
LEMMA TypeInvariance == Spec => []TypeInv
<1>1. Init => TypeInv
  <2> SUFFICES ASSUME Init PROVE TypeInv
    OBVIOUS
  <2> QED
    BY ConstantRecords DEF Init, TypeInv, TypeOK, WellFormed
<1>2. TypeInv /\ [Next]_vars => TypeInv'
  <2> SUFFICES ASSUME TypeInv, [Next]_vars PROVE TypeInv'
    OBVIOUS
  <2>1. CASE UNCHANGED vars
    BY <2>1 DEF vars, TypeInv, TypeOK, WellFormed, Shape
  <2>2. ASSUME NEW u \in Clients, Step(u) PROVE TypeInv'
    BY <2>2, FetchType, DropType, StartCreateType, StartUpdateType, StartDeleteType,
       ValidateContainerType, CommitType DEF Step
  <2> QED
    BY <2>1, <2>2 DEF Next
<1> QED
  BY <1>1, <1>2, PTL DEF Spec

\* Rows and requests keep their types, whatever handlers are in flight.
THEOREM TypeCorrect == Spec => []TypeOK
<1>1. TypeInv => TypeOK
  BY DEF TypeInv
<1> QED
  BY <1>1, TypeInvariance, PTL

-----------------------------------------------------------------------------
\* A creation in flight is under way: it names a row.
LEMMA CreatorHasRow ==
  ASSUME TypeInv, NEW v \in Clients, req[v].op = "create"
  PROVE  req[v].row \in Rows /\ req[v].row # None
<1>1. Shape(req[v])
  BY DEF TypeInv, WellFormed
<1>2. req[v].pc # "idle"
  BY <1>1 DEF Shape, Idle
<1>3. None \notin Rows
  BY RowConstants DEF Rows
<1> QED
  BY <1>1, <1>2, <1>3, ConstantRecords DEF Shape

\* If no row leaves or enters "absent" but that of u, and u's request ends or
\* keeps to a row that no creation is about, creations stay fresh.
LEMMA FreshFrame ==
  ASSUME TypeInv, CreatesFresh, NEW u \in Clients, NEW q \in Request,
         req' = [req EXCEPT ![u] = q],
         \A v \in Clients \ {u} :
           req[v].op = "create" => /\ q.row # req[v].row
                                   /\ rows'[req[v].row].state = rows[req[v].row].state,
         q.op = "create" => /\ rows'[q.row].state = "absent"
                            /\ \A v \in Clients \ {u} : req[v].row # q.row
  PROVE  CreatesFresh'
BY DEF TypeInv, TypeOK, CreatesFresh

\* An identifier about to be inserted stays unused by anybody else.
LEMMA FreshStep ==
  ASSUME TypeInv, CreatesFresh, NEW u \in Clients, Step(u)
  PROVE  CreatesFresh'
<1> USE DEF TypeInv, TypeOK
<1>1. CASE Fetch(u)
  <2>1. PICK r \in Rows : /\ Live(r)
                          /\ req' = [req EXCEPT ![u] = [Idle EXCEPT !.pc = "editing", !.row = r,
                                                                    !.base = rows[r]]]
    BY <1>1 DEF Fetch
  <2> DEFINE q == [Idle EXCEPT !.pc = "editing", !.row = r, !.base = rows[r]]
  <2>2. q \in Request /\ q.op = "none" /\ q.row = r
    BY ConstantRecords DEF Idle, Request
  <2>3. rows' = rows /\ rows[r].state = "live"
    BY <1>1, <2>1 DEF Fetch, Live
  <2>4. \A v \in Clients \ {u} : req[v].op = "create" => req[v].row # r
    BY <2>3 DEF CreatesFresh
  <2>5. req' = [req EXCEPT ![u] = q]
    BY <2>1
  <2> HIDE DEF q
  <2> QED
    BY <2>2, <2>3, <2>4, <2>5, FreshFrame
<1>2. CASE StartCreate(u)
  <2>1. PICK r \in Rows : \E p \in NewValues(r) :
          /\ Unused(r)
          /\ req' = [req EXCEPT ![u] = [Idle EXCEPT !.pc = AfterRead(p), !.op = "create",
                                                    !.row = r, !.patch = p]]
    BY <1>2 DEF StartCreate
  <2>2. PICK p \in NewValues(r) :
          /\ Unused(r)
          /\ req' = [req EXCEPT ![u] = [Idle EXCEPT !.pc = AfterRead(p), !.op = "create",
                                                    !.row = r, !.patch = p]]
    BY <2>1
  <2> DEFINE q == [Idle EXCEPT !.pc = AfterRead(p), !.op = "create", !.row = r, !.patch = p]
  <2>3. q \in Request /\ q.row = r
    BY ConstantRecords DEF Idle, Request, NewValues, AfterRead
  <2>4. req' = [req EXCEPT ![u] = q] /\ rows' = rows
    BY <1>2, <2>2 DEF StartCreate
  <2>5. rows[r].state = "absent" /\ \A v \in Clients : req[v].row # r
    BY <2>2 DEF Unused
  <2> HIDE DEF q
  <2> QED
    BY <2>3, <2>4, <2>5, FreshFrame
<1>3. CASE StartUpdate(u) \/ StartDelete(u)
  <2>1. req'[u] \in Request /\ req' = [req EXCEPT ![u] = req'[u]]
    BY <1>3, StartUpdateType, StartDeleteType DEF StartUpdate, StartDelete
  <2>2. req'[u].row = req[u].row /\ req'[u].op # "create" /\ rows' = rows
    <3>1. CASE StartUpdate(u)
      <4>1. PICK p \in PatchesOf(req[u].row) :
              req' = [req EXCEPT ![u].pc = AfterRead(p), ![u].op = "update",
                                 ![u].snap = rows[req[u].row], ![u].patch = p]
        BY <3>1 DEF StartUpdate
      <4> QED
        BY <3>1, <4>1 DEF StartUpdate, Request
    <3>2. CASE StartDelete(u)
      BY <3>2 DEF StartDelete, Request
    <3> QED
      BY <1>3, <3>1, <3>2
  <2>3. \A v \in Clients \ {u} : req[v].op = "create" => req[u].row # req[v].row
    BY DEF CreatesFresh
  <2> QED
    BY <2>1, <2>2, <2>3, FreshFrame
<1>4. CASE ValidateContainer(u)
  <2>1. req'[u] \in Request /\ req' = [req EXCEPT ![u] = req'[u]] /\ rows' = rows
    BY <1>4, ValidateContainerType DEF ValidateContainer
  <2>2. CASE req'[u] = Idle
    <3>1. req'[u].row = None /\ req'[u].op = "none"
      BY <2>2 DEF Idle
    <3>2. \A v \in Clients \ {u} : req[v].op = "create" => req[v].row # None
      BY CreatorHasRow
    <3> QED
      BY <2>1, <3>1, <3>2, FreshFrame
  <2>3. CASE req'[u] = [req[u] EXCEPT !.pc = "commit"]
    <3>1. req'[u].row = req[u].row /\ req'[u].op = req[u].op
      BY <2>3 DEF Request
    <3> QED
      BY <2>1, <3>1, FreshFrame DEF CreatesFresh
  <2> QED
    BY <1>4, <2>2, <2>3 DEF ValidateContainer
<1>5. CASE Drop(u)
  BY <1>5, CreatorHasRow, ConstantRecords, FreshFrame DEF Drop, Idle
<1>6. CASE CommitCreate(u) \/ CommitUpdate(u) \/ CommitDelete(u)
  <2>1. req' = [req EXCEPT ![u] = Idle] /\ req[u].row \in Rows
    BY <1>6, Committing DEF CommitCreate, CommitUpdate, CommitDelete
  <2>2. \A v \in Clients \ {u} :
          req[v].op = "create" => /\ req[v].row \in Rows \ {req[u].row}
                                  /\ None # req[v].row
    BY CreatorHasRow DEF CreatesFresh
  <2>3. \A r \in Rows \ {req[u].row} : rows'[r].state = rows[r].state
    BY <1>6, CommitCreateRows, CommitUpdateRows, CommitDeleteRows
  <2>4. Idle.row = None /\ Idle.op = "none"
    BY DEF Idle
  <2>5. \A v \in Clients \ {u} :
          req[v].op = "create" => /\ Idle.row # req[v].row
                                  /\ rows'[req[v].row].state = rows[req[v].row].state
    BY <2>2, <2>3, <2>4
  <2>6. Idle \in Request /\ Idle.op # "create"
    BY <2>4, ConstantRecords
  <2> QED
    BY <2>1, <2>5, <2>6, FreshFrame
<1> QED
  BY <1>1, <1>2, <1>3, <1>4, <1>5, <1>6 DEF Step

-----------------------------------------------------------------------------
\* No step makes a row absent again.
LEMMA RowsStay ==
  ASSUME TypeInv, NEW u \in Clients, Step(u), NEW r \in Rows, rows[r].state # "absent"
  PROVE  rows'[r].state # "absent"
<1>1. CASE CommitCreate(u)
  BY <1>1, CommitCreateRows
<1>2. CASE CommitUpdate(u)
  BY <1>2, CommitUpdateRows
<1>3. CASE CommitDelete(u)
  BY <1>3, CommitDeleteRows
<1>4. CASE rows' = rows
  BY <1>4
<1> QED
  BY <1>1, <1>2, <1>3, <1>4
     DEF Step, Fetch, Drop, StartCreate, StartUpdate, StartDelete, ValidateContainer

\* The links a step writes come from the request it commits.
LEMMA WrittenLinks ==
  ASSUME TypeInv, NEW u \in Clients, Step(u), NEW i \in Rows
  PROVE  \/ rows'[i].link \in {rows[i].link, None}
         \/ req[u].pc = "commit" /\ rows'[i].link = req[u].patch.link
<1>1. CASE CommitCreate(u)
  BY <1>1, CommitCreateRows DEF CommitCreate
<1>2. CASE CommitUpdate(u)
  BY <1>2, CommitUpdateRows DEF CommitUpdate
<1>3. CASE CommitDelete(u)
  BY <1>3, CommitDeleteRows
<1>4. CASE rows' = rows
  BY <1>4
<1> QED
  BY <1>1, <1>2, <1>3, <1>4
     DEF Step, Fetch, Drop, StartCreate, StartUpdate, StartDelete, ValidateContainer

\* A request that becomes ready to commit names no container, or a live one.
LEMMA ReadyToCommit ==
  ASSUME TypeInv, NEW u \in Clients, Step(u), req'[u].pc = "commit"
  PROVE  LET l == req'[u].patch.link IN l \in Containers => Live(l) /\ rows' = rows
<1> SUFFICES ASSUME req'[u].patch.link \in Containers
             PROVE  Live(req'[u].patch.link) /\ rows' = rows
  OBVIOUS
<1>1. req[u] \in Request /\ Shape(req[u]) /\ req \in [Clients -> Request]
  BY DEF TypeInv, TypeOK, WellFormed
<1>2. CASE Fetch(u)
  BY <1>1, <1>2 DEF Fetch, Idle
<1>3. CASE Drop(u) \/ CommitCreate(u) \/ CommitUpdate(u) \/ CommitDelete(u)
  BY <1>1, <1>3 DEF Drop, CommitCreate, CommitUpdate, CommitDelete, Idle
<1>4. CASE StartCreate(u)
  <2>1. PICK r \in Rows : \E p \in NewValues(r) :
          req' = [req EXCEPT ![u] = [Idle EXCEPT !.pc = AfterRead(p), !.op = "create",
                                                 !.row = r, !.patch = p]]
    BY <1>4 DEF StartCreate
  <2>2. PICK p \in NewValues(r) :
          req' = [req EXCEPT ![u] = [Idle EXCEPT !.pc = AfterRead(p), !.op = "create",
                                                 !.row = r, !.patch = p]]
    BY <2>1
  <2>3. req'[u].pc = AfterRead(p) /\ req'[u].patch = p
    BY <1>1, <2>2 DEF Idle
  <2> QED
    BY <2>3 DEF AfterRead
<1>5. CASE StartUpdate(u)
  <2>1. PICK p \in PatchesOf(req[u].row) :
          req' = [req EXCEPT ![u].pc = AfterRead(p), ![u].op = "update",
                             ![u].snap = rows[req[u].row], ![u].patch = p]
    BY <1>5 DEF StartUpdate
  <2>2. req'[u].pc = AfterRead(p) /\ req'[u].patch = p
    BY <1>1, <2>1 DEF Request
  <2> QED
    BY <2>2 DEF AfterRead
<1>6. CASE StartDelete(u)
  <2>1. req'[u].patch = NoPatch
    BY <1>1, <1>6 DEF StartDelete, Request, Shape
  <2> QED
    BY <2>1, RowConstants DEF NoPatch
<1>7. CASE ValidateContainer(u)
  <2>1. CASE Validated(u)
    <3>1. req'[u].patch = req[u].patch /\ rows' = rows
      BY <1>1, <1>7, <2>1 DEF ValidateContainer, Request
    <3> QED
      BY <2>1, <3>1 DEF Validated
  <2>2. CASE ~Validated(u)
    BY <1>1, <1>7, <2>2 DEF ValidateContainer, Idle
  <2> QED
    BY <2>1, <2>2
<1> QED
  BY <1>2, <1>3, <1>4, <1>5, <1>6, <1>7 DEF Step

\* A step of one client leaves the requests of the others alone.
LEMMA OthersUntouched ==
  ASSUME TypeInv, NEW u \in Clients, Step(u), NEW v \in Clients \ {u}
  PROVE  req'[v] = req[v]
<1>1. req \in [Clients -> Request]
  BY DEF TypeInv, TypeOK
<1> QED
  BY <1>1 DEF Step, Fetch, Drop, StartCreate, StartUpdate, StartDelete, ValidateContainer,
              CommitCreate, CommitUpdate, CommitDelete

\* No step stores, or prepares to store, a container that was never created.
LEMMA ReferencesStep ==
  ASSUME TypeInv, ReferencesExist, NEW u \in Clients, Step(u)
  PROVE  ReferencesExist'
<1>1. ASSUME NEW l, LinkExists(l) PROVE LinkExists(l)'
  BY <1>1, RowsStay DEF LinkExists, Rows
<1>2. LinkExists(None)
  BY RowConstants DEF LinkExists
<1>3. ASSUME NEW i \in Items PROVE LinkExists(rows[i].link)'
  <2>1. LinkExists(rows[i].link) /\ i \in Rows
    BY DEF ReferencesExist, Rows
  <2>2. req[u].pc = "commit" => LinkExists(req[u].patch.link)
    BY DEF ReferencesExist
  <2>3. LinkExists(rows'[i].link)
    BY <1>2, <2>1, <2>2, WrittenLinks
  <2> QED
    BY <2>3, RowsStay DEF LinkExists, Rows
<1>4. ASSUME NEW v \in Clients, req'[v].pc = "commit"
      PROVE  LinkExists(req[v].patch.link)'
  <2>1. CASE v = u
    BY <1>4, <2>1, ReadyToCommit DEF LinkExists, Live
  <2>2. CASE v # u
    <3>1. req'[v] = req[v]
      BY <2>2, OthersUntouched
    <3>2. LinkExists(req[v].patch.link)
      BY <1>4, <3>1 DEF ReferencesExist
    <3> QED
      BY <3>1, <3>2, RowsStay DEF LinkExists, Rows
  <2> QED
    BY <2>1, <2>2
<1> QED
  BY <1>3, <1>4 DEF ReferencesExist

\* The whole inductive invariant of the overlapping service.
LEMMA Invariance == Spec => []IInv
<1>1. Init => IInv
  <2> SUFFICES ASSUME Init PROVE IInv
    OBVIOUS
  <2>1. TypeInv
    BY ConstantRecords DEF Init, TypeInv, TypeOK, WellFormed
  <2>2. \A u \in Clients : req[u].pc = "idle" /\ req[u].op = "none"
    BY DEF Init, Idle
  <2>3. CreatesFresh
    BY <2>2 DEF CreatesFresh
  <2>4. \A i \in Items : rows[i].link = None
    BY DEF Init, Absent, Rows
  <2>5. ReferencesExist
    BY <2>2, <2>4, RowConstants DEF ReferencesExist, LinkExists
  <2> QED
    BY <2>1, <2>3, <2>5 DEF IInv
<1>2. TypeInv /\ IInv /\ TypeInv' /\ [Next]_vars => IInv'
  <2> SUFFICES ASSUME TypeInv, IInv, TypeInv', [Next]_vars PROVE IInv'
    OBVIOUS
  <2>1. CASE UNCHANGED vars
    BY <2>1 DEF vars, IInv, CreatesFresh, ReferencesExist, LinkExists
  <2>2. ASSUME NEW u \in Clients, Step(u) PROVE IInv'
    BY <2>2, FreshStep, ReferencesStep DEF IInv
  <2> QED
    BY <2>1, <2>2 DEF Next
<1> QED
  BY <1>1, <1>2, TypeInvariance, PTL DEF Spec

\* However handlers interleave, no stored or validated link names a container
\* that was never created (foreign keys are not enforced by the database).
THEOREM ReferencesCorrect == Spec => []ReferencesExist
<1>1. IInv => ReferencesExist
  BY DEF IInv
<1> QED
  BY <1>1, Invariance, PTL

\* A late INSERT or UPDATE never brings back a row deleted in between.
THEOREM TombstonesCorrect == Spec => TombstonesArePermanent
<1>1. ASSUME IInv, NEW u \in Clients, Step(u), NEW r \in Rows, rows[r].state = "deleted"
      PROVE  rows'[r].state = "deleted"
  <2>1. TypeInv /\ CreatesFresh
    BY <1>1 DEF IInv
  <2>2. CASE CommitCreate(u)
    <3>1. rows[req[u].row].state = "absent"
      BY <2>1, <2>2 DEF CommitCreate, CreatesFresh
    <3> QED
      BY <1>1, <2>1, <2>2, <3>1, CommitCreateRows
  <2>3. CASE CommitUpdate(u)
    BY <1>1, <2>1, <2>3, CommitUpdateRows
  <2>4. CASE CommitDelete(u)
    BY <1>1, <2>1, <2>4, CommitDeleteRows
  <2>5. CASE rows' = rows
    BY <1>1, <2>5
  <2> QED
    BY <1>1, <2>2, <2>3, <2>4, <2>5
       DEF Step, Fetch, Drop, StartCreate, StartUpdate, StartDelete, ValidateContainer
<1>2. IInv /\ [Next]_vars
        => [\A r \in Rows : rows[r].state = "deleted" => rows'[r].state = "deleted"]_vars
  BY <1>1 DEF Next
<1> QED
  BY <1>2, Invariance, PTL DEF Spec, TombstonesArePermanent

\* The commit of a container's delete leaves no live item in it, even when it
\* was decided on a stale read.
THEOREM DeletionCorrect == Spec => DeletingEmptiesContainer
<1>1. ASSUME TypeInv, NEW u \in Clients, Step(u), NEW c \in Containers,
             rows[c].state = "live", rows'[c].state = "deleted"
      PROVE  StoredIn(rows', c) = {}
  <2>1. c \in Rows /\ c # None
    BY RowConstants DEF Rows
  <2>2. CommitDelete(u) /\ req[u].row = c
    <3>1. CASE CommitCreate(u)
      BY <1>1, <2>1, <3>1, CommitCreateRows
    <3>2. CASE CommitUpdate(u)
      BY <1>1, <2>1, <3>2, CommitUpdateRows
    <3>3. CASE CommitDelete(u)
      BY <1>1, <2>1, <3>3, CommitDeleteRows
    <3>4. CASE rows' = rows
      BY <1>1, <3>4
    <3> QED
      BY <1>1, <3>1, <3>2, <3>3, <3>4
         DEF Step, Fetch, Drop, StartCreate, StartUpdate, StartDelete, ValidateContainer
  <2>3. \A i \in Items : i \in Rows \ {c}
    BY RowConstants DEF Rows
  <2>4. \A i \in Items : rows'[i] = Emptied(rows, c)[i]
    BY <1>1, <2>2, <2>3, CommitDeleteRows
  <2>5. \A i \in Items : Emptied(rows, c)[i].state = "live" => Emptied(rows, c)[i].link # c
    BY <1>1, <2>1, EmptiedRows DEF TypeInv, TypeOK
  <2> QED
    BY <2>4, <2>5 DEF StoredIn
<1>2. TypeInv /\ [Next]_vars
        => [\A c \in Containers : Live(c) /\ rows'[c].state = "deleted"
              => StoredIn(rows', c) = {}]_vars
  BY <1>1 DEF Next, Live
<1> QED
  BY <1>2, TypeInvariance, PTL DEF Spec, DeletingEmptiesContainer
=============================================================================
