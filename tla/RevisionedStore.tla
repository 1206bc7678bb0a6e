-------------------------- MODULE RevisionedStore --------------------------
(***************************************************************************)
(* What the resource API promises (API-CONTRACT.md, "Optimistic            *)
(* concurrency"): a store in which a client edits the copy of a row it has *)
(* fetched, and saving it is one atomic compare-and-set.  A save takes     *)
(* effect only on the very version the client saw.                         *)
(***************************************************************************)
EXTENDS StoreRows

CONSTANT Clients

VARIABLES
  rows,   \* the tables
  form    \* form[u]: the row client u edits and the copy of it that u holds

absVars == <<rows, form>>

Closed == [row |-> None, copy |-> Absent]

Live(r) == rows[r].state = "live"

Linkable(l) == l \in Containers => Live(l)

Init == /\ rows = [r \in Rows |-> Absent]
        /\ form = [u \in Clients |-> Closed]

Create(r) ==
  /\ rows[r].state = "absent"
  /\ \E p \in NewValues(r) :
       /\ Linkable(p.link)
       /\ rows' = [rows EXCEPT ![r] = Inserted(p)]
  /\ UNCHANGED form

Open(u) ==
  /\ form[u] = Closed
  /\ \E r \in Rows : /\ Live(r)
                     /\ form' = [form EXCEPT ![u] = [row |-> r, copy |-> rows[r]]]
  /\ UNCHANGED rows

Discard(u) ==
  /\ form[u] # Closed
  /\ form' = [form EXCEPT ![u] = Closed]
  /\ UNCHANGED rows

\* The compare of the compare-and-set: the copy is still the row.
Current(u) == /\ form[u] # Closed
              /\ rows[form[u].row] = form[u].copy

SaveUpdate(u) ==
  /\ Current(u)
  /\ \E p \in PatchesOf(form[u].row) :
       /\ Linkable(p.link)
       /\ rows' = [rows EXCEPT ![form[u].row] = Patched(@, p)]
  /\ form' = [form EXCEPT ![u] = Closed]

SaveDelete(u) ==
  /\ Current(u)
  /\ LET r == form[u].row
     IN  rows' = [Emptied(rows, r) EXCEPT ![r] = Tombstone(@)]
  /\ form' = [form EXCEPT ![u] = Closed]

Next == \/ \E r \in Rows : Create(r)
        \/ \E u \in Clients : \/ Open(u)
                              \/ Discard(u)
                              \/ SaveUpdate(u)
                              \/ SaveDelete(u)

Spec == Init /\ [][Next]_absVars
=============================================================================
