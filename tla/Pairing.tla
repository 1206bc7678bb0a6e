------------------------------- MODULE Pairing -------------------------------
(***************************************************************************)
(* Pairing a client and the credential it gets (api/pairing.py,            *)
(* api/clients.py, api/client_auth.py).  A pairing token is exchanged by a *)
(* SELECT and a commit; every request with a credential finds it by a      *)
(* SELECT, and commits the time it was last seen before the request is     *)
(* served.                                                                 *)
(***************************************************************************)
EXTENDS FiniteSets, Naturals

CONSTANTS
  Callers,      \* threads of the pool that may serve clients
  Tokens,       \* pairing requests
  Credentials,  \* client credentials
  NoToken, NoCredential,
  Lifetime,     \* PAIRING_LIFETIME_MINUTES, in ticks
  MaxNow        \* bound: the time stops there

ASSUME PairingConstants == /\ Lifetime \in Nat \ {0} /\ MaxNow \in Nat
                           /\ NoToken \notin Tokens /\ NoCredential \notin Credentials

VARIABLES
  now,
  pairings,     \* client_pairings
  clients,      \* client_credentials
  calls         \* what each thread is doing

pairingVars == <<now, pairings, clients, calls>>

Moments == 0..MaxNow

PairingRow == [state : {"none", "open", "consumed"}, expires : 0..(MaxNow + Lifetime)]
NoPairing == [state |-> "none", expires |-> 0]

Credential == [state : {"none", "active", "revoked"},
               from  : Tokens \cup {NoToken},   \* history: the token it stems from
               seen  : Moments]                 \* last_seen_at
NoClient == [state |-> "none", from |-> NoToken, seen |-> 0]

\* alone is history: has nobody else exchanged the token since the start.
Call == [pc : {"idle", "exchange", "seen"}, token : Tokens \cup {NoToken},
         client : Credentials \cup {NoCredential}, loaded : Credential, alone : BOOLEAN]
NoCall == [pc |-> "idle", token |-> NoToken, client |-> NoCredential,
           loaded |-> NoClient, alone |-> TRUE]

PairingTypeOK == /\ now \in Moments
                 /\ pairings \in [Tokens -> PairingRow]
                 /\ clients \in [Credentials -> Credential]
                 /\ calls \in [Callers -> Call]

PairingInit == /\ now = 0
               /\ pairings = [p \in Tokens |-> NoPairing]
               /\ clients = [c \in Credentials |-> NoClient]
               /\ calls = [u \in Callers |-> NoCall]

-----------------------------------------------------------------------------
MinutesPass == /\ now < MaxNow /\ now' = now + 1
               /\ UNCHANGED <<pairings, clients, calls>>

\* Bound: an id is left for every exchange that is under way.
Unused == {c \in Credentials : clients[c].state = "none"}
Spare == Cardinality(Unused) > Cardinality({u \in Callers : calls[u].pc = "exchange"})

\* create_pairing, by an owner.
CreatePairing ==
  /\ \E p \in Tokens :
       /\ pairings[p].state = "none"
       /\ pairings' = [pairings EXCEPT ![p] = [state |-> "open", expires |-> now + Lifetime]]
  /\ UNCHANGED <<now, clients, calls>>

\* create_client: a credential without pairing.
CreateClient ==
  /\ Spare
  /\ \E c \in Unused : clients' = [clients EXCEPT ![c].state = "active"]
  /\ UNCHANGED <<now, pairings, calls>>

\* exchange_pairing: consumed_at IS NULL and expires_at > now, or 401.
Exchangeable_UntilExpiry(p) == pairings[p].state # "none" /\ pairings[p].expires > now
Exchangeable(p) == pairings[p].state = "open" /\ pairings[p].expires > now

StartExchange(u) ==
  /\ calls[u].pc = "idle" /\ Spare
  /\ \E p \in Tokens : /\ Exchangeable(p)
                       /\ calls' = [calls EXCEPT ![u] = [NoCall EXCEPT !.pc = "exchange",
                                                                       !.token = p]]
  /\ UNCHANGED <<now, pairings, clients>>

\* One transaction marks the pairing and inserts the credential.
CommitExchange(u) ==
  /\ calls[u].pc = "exchange"
  /\ LET p == calls[u].token
     IN  /\ \E c \in Unused :
              clients' = [clients EXCEPT ![c] = [NoClient EXCEPT !.state = "active", !.from = p]]
         /\ pairings' = [pairings EXCEPT ![p].state = "consumed"]
         /\ calls' = [v \in Callers |-> IF v = u THEN NoCall
                                        ELSE IF calls[v].token = p
                                          THEN [calls[v] EXCEPT !.alone = FALSE]
                                        ELSE calls[v]]
  /\ UNCHANGED now

\* revoke_client: revoking is idempotent, so its read and its write are one step.
Revoke == /\ \E c \in Credentials : /\ clients[c].state = "active"
                                    /\ clients' = [clients EXCEPT ![c].state = "revoked"]
          /\ UNCHANGED <<now, pairings, calls>>

\* get_optional_principal finds a credential that is not revoked.
StartClientCall(u) ==
  /\ calls[u].pc = "idle"
  /\ \E c \in Credentials :
       /\ clients[c].state = "active"
       /\ calls' = [calls EXCEPT ![u] = [NoCall EXCEPT !.pc = "seen", !.client = c,
                                                       !.loaded = clients[c]]]
  /\ UNCHANGED <<now, pairings, clients>>

\* The UPDATE sets last_seen_at alone.
Seen_WholeRow(current, loaded) == [loaded EXCEPT !.seen = now]
Seen(current, loaded) == [current EXCEPT !.seen = now]

CommitSeen(u) ==
  /\ calls[u].pc = "seen"
  /\ LET c == calls[u].client
     IN  clients' = [clients EXCEPT ![c] = Seen(clients[c], calls[u].loaded)]
  /\ calls' = [calls EXCEPT ![u] = NoCall]
  /\ UNCHANGED <<now, pairings>>

\* 401 for a token or a credential that is unknown, used, expired or revoked, 403
\* for a write with read-only access.
Refused(u) == calls[u].pc = "idle" /\ UNCHANGED pairingVars

PairingNext ==
  \/ MinutesPass \/ CreatePairing \/ CreateClient \/ Revoke
  \/ \E u \in Callers : \/ StartExchange(u) \/ CommitExchange(u)
                        \/ StartClientCall(u) \/ CommitSeen(u)
                        \/ Refused(u)

PairingSpec == PairingInit /\ [][PairingNext]_pairingVars

-----------------------------------------------------------------------------
Issued(table, p) == {c \in Credentials : table[c].state # "none" /\ table[c].from = p}

\* API-CONTRACT.md, pairing tokens are single-use: an exchange nobody overtakes
\* issues the one and only credential of its token, even if that of an earlier
\* exchange was revoked since.  (Two exchanges at once may issue one each.)
LoneExchangeIsSingleUse ==
  [][\A u \in Callers :
       LET p == calls[u].token
       IN  calls[u].pc = "exchange" /\ calls'[u].pc = "idle" /\ calls[u].alone
             => Issued(clients, p) = {} /\ Cardinality(Issued(clients', p)) = 1]_pairingVars

\* A request in flight when its credential is revoked, which records the client
\* as seen afterwards, does not bring the credential back.
RevocationIsFinal ==
  [][\A c \in Credentials : clients[c].state = "revoked" => clients'[c].state = "revoked"
    ]_pairingVars
=============================================================================
