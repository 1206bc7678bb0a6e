------------------------------ MODULE Identity ------------------------------
(***************************************************************************)
(* The identity of a data directory (core/identity.py).  get_server_id is  *)
(* called by request threads (system information, client context, posted   *)
(* backups), by the scheduler and by the Manager's process: it looks for   *)
(* the file and, if there is none, writes a fresh UUID in place.           *)
(***************************************************************************)
EXTENDS FiniteSets, Naturals

CONSTANTS
  Askers,             \* threads that may call get_server_id
  Ids,                \* bound: so many UUIDs are drawn
  NoIdFile, TornIdFile,
  MaxIdFaults         \* bound: so many write errors and power losses

ASSUME IdentityConstants == /\ IsFiniteSet(Askers)
                            /\ NoIdFile \notin Ids /\ TornIdFile \notin Ids
                            /\ MaxIdFaults \in Nat

VARIABLES
  idFile,     \* the content of server-id
  askers,     \* where each call is, and the UUID it has drawn
  drawn,      \* the UUIDs drawn so far; uuid4 never repeats one
  answers,    \* history: every identity a call has returned
  raced,      \* history: were two calls ever creating the file at once
  idFaults

identityVars == <<idFile, askers, drawn, answers, raced, idFaults>>

Asker == [pc : {"idle", "read", "create", "write"}, id : Ids \cup {NoIdFile}]
NotAsking == [pc |-> "idle", id |-> NoIdFile]

IdentityTypeOK == /\ idFile \in Ids \cup {NoIdFile, TornIdFile}
                  /\ askers \in [Askers -> Asker]
                  /\ drawn \subseteq Ids /\ answers \subseteq Ids
                  /\ raced \in BOOLEAN /\ idFaults \in Nat

IdentityInit == /\ idFile = NoIdFile /\ drawn = {} /\ answers = {}
                /\ askers = [a \in Askers |-> NotAsking]
                /\ raced = FALSE /\ idFaults = 0

Returns(a) == askers' = [askers EXCEPT ![a] = NotAsking]

\* identity_path.exists()
Found_Never == FALSE
Found == idFile # NoIdFile

LooksForFile(a) ==
  /\ askers[a].pc = "idle"
  /\ \/ /\ Found
        /\ askers' = [askers EXCEPT ![a].pc = "read"]
        /\ UNCHANGED drawn
     \/ /\ ~Found
        /\ \E i \in Ids \ drawn :
             /\ askers' = [askers EXCEPT ![a] = [pc |-> "create", id |-> i]]
             /\ drawn' = drawn \cup {i}
  /\ UNCHANGED <<idFile, answers, idFaults>>

\* UUID("") of a file cut off raises ValueError: the request answers 500.
ReadsFile(a) ==
  /\ askers[a].pc = "read"
  /\ answers' = answers \cup ({idFile} \cap Ids)
  /\ Returns(a)
  /\ UNCHANGED <<idFile, drawn, idFaults>>

CutsFile(a) == /\ askers[a].pc = "create"
               /\ idFile' = TornIdFile
               /\ askers' = [askers EXCEPT ![a].pc = "write"]
               /\ UNCHANGED <<drawn, answers, idFaults>>

FillsFile(a) == /\ askers[a].pc = "write"
                /\ idFile' = askers[a].id
                /\ answers' = answers \cup {askers[a].id}
                /\ Returns(a)
                /\ UNCHANGED <<drawn, idFaults>>

IdFault == idFaults < MaxIdFaults /\ idFaults' = idFaults + 1

FillFails(a) == /\ askers[a].pc = "write"
                /\ IdFault
                /\ Returns(a)
                /\ UNCHANGED <<idFile, drawn, answers>>

ProcessesKilled == /\ IdFault
                   /\ askers' = [a \in Askers |-> NotAsking]
                   /\ UNCHANGED <<idFile, drawn, answers>>

Creators == {a \in Askers : askers[a].pc \in {"create", "write"}}

IdentityNext == /\ \/ \E a \in Askers : \/ LooksForFile(a) \/ ReadsFile(a)
                                        \/ CutsFile(a) \/ FillsFile(a) \/ FillFails(a)
                   \/ ProcessesKilled
                /\ raced' = (raced \/ Cardinality(Creators') > 1)

-----------------------------------------------------------------------------
\* identity.py, "Return the stable identity of this HomePrep Server data
\* directory": unless two first calls created the file at once, all calls that
\* ever return, before and after crashes, return the same identity.  (A file
\* that a crash has cut off makes every call fail, but none lies.)
IdentityIsStable == ~raced => Cardinality(answers) <= 1
=============================================================================
