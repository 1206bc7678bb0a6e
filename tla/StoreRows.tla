----------------------------- MODULE StoreRows -----------------------------
(***************************************************************************)
(* The rows of the three physical resources of a household: storage        *)
(* containers, inventory items and assets (models.py).  They share one     *)
(* shape: a soft-delete mark, the object revision, the columns a PATCH may *)
(* name (one value stands for all of them but one) and, for an item, the   *)
(* container it is stored in.                                              *)
(***************************************************************************)
EXTENDS Naturals

CONSTANTS
  Containers, Items, Assets,   \* row identifiers (uuid4), one set per table
  Vals,                        \* contents of the ordinary columns
  None,                        \* SQL NULL
  Keep                         \* a field the PATCH body does not contain

ASSUME RowConstants ==
  /\ Containers \cap (Items \cup Assets) = {}
  /\ Items \cap Assets = {}
  /\ None \notin Vals \cup Containers \cup Items \cup Assets
  /\ Keep \notin Vals \cup Containers \cup {None}

Rows == Containers \cup Items \cup Assets

Row == [state : {"absent", "live", "deleted"},
        rev   : Nat,
        val   : Vals \cup {None},
        link  : Containers \cup {None}]

Absent == [state |-> "absent", rev |-> 0, val |-> None, link |-> None]

\* A request body: a value or Keep for every column it may set.
Patch == [val : Vals \cup {Keep}, link : Containers \cup {None, Keep}]

\* InventoryUpdate has container_id; ContainerUpdate and AssetUpdate do not.
PatchesOf(r) == {p \in Patch : r \in Items \/ p.link = Keep}

\* A creation names every column.
NewValues(r) == {p \in Patch : /\ p.val # Keep
                               /\ p.link # Keep
                               /\ r \in Items \/ p.link = None}

Set_Literal(old, new) == new
Set(old, new) == IF new = Keep THEN old ELSE new

Inserted(p) == [state |-> "live", rev |-> 1, val |-> p.val, link |-> p.link]

Patched(row, p) == [row EXCEPT !.val  = Set(@, p.val),
                               !.link = Set(@, p.link),
                               !.rev  = @ + 1]

Tombstone(row) == [row EXCEPT !.state = "deleted", !.rev = @ + 1]

StoredIn(rows, c) == {i \in Items : rows[i].state = "live" /\ rows[i].link = c}

\* The bulk UPDATE of ContainerService.delete: the live items of c lose their
\* container and get a new revision, computed by SQL from the current one.
Emptied_StillStored(rows, c) == rows
Emptied(rows, c) ==
  [r \in Rows |-> IF r \in StoredIn(rows, c)
                    THEN [rows[r] EXCEPT !.link = None, !.rev = @ + 1]
                    ELSE rows[r]]
=============================================================================
