------------------------------ MODULE Shopping ------------------------------
(***************************************************************************)
(* The shopping list (shopping_contract.py).  Fetching the list first adds *)
(* an entry for every expired inventory item that has none.  The session   *)
(* does not autoflush, so each SELECT of that sync and its one commit are  *)
(* steps of their own, and clients may sync at the same time.              *)
(*                                                                         *)
(* Creating, editing and deleting an entry is one step here: how handlers  *)
(* that edit the same row overlap is the subject of ResourceService.       *)
(***************************************************************************)
EXTENDS FiniteSets

CONSTANTS
  Shoppers,          \* threads of the pool that may serve the list
  Goods,             \* inventory items
  Entries,           \* bounds the live entries
  Nil,               \* SQL NULL
  Unset              \* a field the PATCH body does not contain

ASSUME ShoppingConstants == /\ Nil \notin Goods
                            /\ Unset \notin Goods \cup {Nil}

VARIABLES
  expired,    \* the live inventory items that have expired
  entries,    \* the live rows of shopping_items
  syncs       \* what the sync of each thread is doing

shoppingVars == <<expired, entries, syncs>>

Statuses == {"pending", "purchased", "ignored"}

\* Of SHOPPING_SOURCES only inventory_expired is told apart from the others.
Sources == {"manual", "inventory_expired"}

Entry == [live     : BOOLEAN,
          source   : Sources,              \* source_type
          sourceId : Goods \cup {Nil},
          status   : Statuses,             \* with its time stamps
          legacyId : Goods \cup {Nil}]     \* source_inventory_item_id

NoEntry == [live |-> FALSE, source |-> "manual", sourceId |-> Nil,
            status |-> "pending", legacyId |-> Nil]

\* alone is history: has nobody changed the items or the list since the start.
ListSync == [pc : {"idle", "check"}, todo : SUBSET Goods, adds : SUBSET Goods,
             alone : BOOLEAN]
NoSync == [pc |-> "idle", todo |-> {}, adds |-> {}, alone |-> TRUE]

ShoppingTypeOK == /\ expired \subseteq Goods
                  /\ entries \in [Entries -> Entry]
                  /\ syncs \in [Shoppers -> ListSync]

ShoppingInit == /\ expired = {}
                /\ entries = [e \in Entries |-> NoEntry]
                /\ syncs = [u \in Shoppers |-> NoSync]

LiveEntries == {e \in Entries : entries[e].live}
FreeEntries == Entries \ LiveEntries

Overtaken(u) == IF syncs[u].pc = "idle" THEN NoSync ELSE [syncs[u] EXCEPT !.alone = FALSE]
OthersOvertaken == syncs' = [u \in Shoppers |-> Overtaken(u)]

-----------------------------------------------------------------------------
\* Days pass; items get a new date, are deleted or restocked.
GoodsChange == /\ expired' \in SUBSET Goods \ {expired}
               /\ OthersOvertaken
               /\ UNCHANGED entries

\* list_for_household: the SELECT of the inventory.
StartListSync(u) ==
  /\ syncs[u].pc = "idle"
  /\ syncs' = [syncs EXCEPT ![u] = [NoSync EXCEPT !.pc = "check", !.todo = expired]]
  /\ UNCHANGED <<expired, entries>>

\* _source_exists: one SELECT per item, whatever the status of its entry.
SourceExists_Pending(g) == \E e \in LiveEntries : /\ entries[e].source = "inventory_expired"
                                                  /\ entries[e].sourceId = g
                                                  /\ entries[e].status = "pending"
SourceExists_AnySource(g) == \E e \in LiveEntries : entries[e].sourceId = g
SourceExists(g) == \E e \in LiveEntries : /\ entries[e].source = "inventory_expired"
                                          /\ entries[e].sourceId = g

CheckSource(u) ==
  /\ syncs[u].pc = "check"
  /\ \E g \in syncs[u].todo :
       syncs' = [syncs EXCEPT ![u].todo = @ \ {g},
                              ![u].adds = IF SourceExists(g) THEN @ ELSE @ \cup {g}]
  /\ UNCHANGED <<expired, entries>>

Automatic(g) == [NoEntry EXCEPT !.live = TRUE, !.source = "inventory_expired",
                                !.sourceId = g, !.legacyId = g]

\* The new entries are committed together; with none there is no commit.
CommitListSync(u) ==
  /\ syncs[u].pc = "check" /\ syncs[u].todo = {}
  /\ LET adds == syncs[u].adds
     IN  /\ \E id \in [adds -> FreeEntries] :
              /\ \A g, h \in adds : id[g] = id[h] => g = h
              /\ entries' = [e \in Entries |-> IF \E g \in adds : id[g] = e
                                                 THEN Automatic(CHOOSE g \in adds : id[g] = e)
                                                 ELSE entries[e]]
         /\ syncs' = [v \in Shoppers |-> CASE v = u     -> NoSync
                                           [] adds = {} -> syncs[v]
                                           [] OTHER     -> Overtaken(v)]
  /\ UNCHANGED expired

-----------------------------------------------------------------------------
LegacyId(source, id) == IF source = "inventory_expired" THEN id ELSE Nil

CreateEntry ==
  /\ \E e \in FreeEntries, s \in Statuses, src \in Sources, id \in Goods \cup {Nil} :
       entries' = [entries EXCEPT ![e] =
                     [live |-> TRUE, source |-> src, sourceId |-> id, status |-> s,
                      legacyId |-> LegacyId(src, id)]]
  /\ OthersOvertaken
  /\ UNCHANGED expired

\* update: legacyId is derived anew only when the body names source_id.
Edited_WithUnset(row, s, src, id) ==
  [row EXCEPT !.status = s, !.source = src, !.sourceId = id, !.legacyId = LegacyId(src, id)]
Edited(row, s, src, id) ==
  LET source == IF src = Unset THEN row.source ELSE src
  IN  [row EXCEPT !.status = IF s = Unset THEN @ ELSE s,
                  !.source = source,
                  !.sourceId = IF id = Unset THEN @ ELSE id,
                  !.legacyId = IF id = Unset THEN @ ELSE LegacyId(source, id)]

EditEntry ==
  /\ \E e \in LiveEntries, s \in Statuses \cup {Unset}, src \in Sources \cup {Unset},
        id \in Goods \cup {Nil, Unset} :
       entries' = [entries EXCEPT ![e] = Edited(@, s, src, id)]
  /\ OthersOvertaken
  /\ UNCHANGED expired

\* A tombstone is never read again, so its columns are forgotten.
DeleteEntry == /\ \E e \in LiveEntries : entries' = [entries EXCEPT ![e] = NoEntry]
               /\ OthersOvertaken
               /\ UNCHANGED expired

ShoppingNext ==
  \/ GoodsChange \/ CreateEntry \/ EditEntry \/ DeleteEntry
  \/ \E u \in Shoppers : StartListSync(u) \/ CheckSource(u) \/ CommitListSync(u)

ShoppingSpec == ShoppingInit /\ [][ShoppingNext]_shoppingVars

-----------------------------------------------------------------------------
AutoEntries(table, g) == {e \in Entries : /\ table[e].live
                                          /\ table[e].source = "inventory_expired"
                                          /\ table[e].sourceId = g}

LoneSyncEnds(u) == syncs[u].pc = "check" /\ syncs'[u].pc = "idle" /\ syncs[u].alone

\* DATA-MODEL.md: automatic entries keep their source so that duplicates can be
\* avoided.  A sync nobody overtakes adds nothing for an item that already has an
\* automatic entry, also when that was bought or ignored long ago, and adds one
\* entry otherwise.  (Two syncs at once may add one each.)
SyncAddsNoDuplicate ==
  [][\A u \in Shoppers : LoneSyncEnds(u)
       => \A g \in Goods : AutoEntries(entries', g) # AutoEntries(entries, g)
                            => Cardinality(AutoEntries(entries', g)) = 1]_shoppingVars

\* And it leaves no expired item without an automatic entry: not when its entry
\* was deleted, nor when a manual entry names the same item.
SyncListsEveryExpired ==
  [][\A u \in Shoppers : LoneSyncEnds(u)
       => \A g \in expired : AutoEntries(entries', g) # {}]_shoppingVars

\* shopping_contract.py, "Legacy fields stay coherent": the legacy item id is the
\* source id of an entry for an expired item, and NULL for any other.
LegacyIdFollowsSource ==
  \A e \in LiveEntries : entries[e].legacyId = LegacyId(entries[e].source, entries[e].sourceId)
=============================================================================
