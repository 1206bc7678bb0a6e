------------------------------ MODULE Accounts ------------------------------
(***************************************************************************)
(* Human accounts, their Web sessions and the first-run provisioning       *)
(* (api/auth.py, api/users.py, api/authz.py).  A handler is a chain of     *)
(* SELECTs followed by one commit, so what a SELECT found may no longer    *)
(* hold when the commit lands.                                             *)
(***************************************************************************)
EXTENDS FiniteSets, Naturals

CONSTANTS
  Handlers,     \* threads of the pool that may serve an account request
  Users,        \* usernames; users.username is UNIQUE
  Sessions,     \* session ids (bound: every sign-in uses up one)
  Roles,        \* authz.USER_ROLES, or a part of it that has "owner"
  None, Keep,
  Modes         \* BOOLEAN, or the one value of serial to look at

ASSUME AccountConstants ==
  /\ None \notin Users \cup Sessions
  /\ "owner" \in Roles
  /\ Keep \notin Roles /\ Keep \notin BOOLEAN
  /\ Modes \subseteq BOOLEAN

VARIABLES
  serial,       \* are handlers served one by one; fixed in a behaviour
  users,        \* the users table
  sessions,     \* the auth_sessions table
  job           \* what each handler is doing

vars == <<serial, users, sessions, job>>

User == [exists : BOOLEAN, role : Roles, disabled : BOOLEAN]
NoUser == [exists |-> FALSE, role |-> "owner", disabled |-> FALSE]

Session == [state : {"unused", "live", "revoked"}, user : Users \cup {None}]

\* UserUpdate: role, disabled and password are optional; reset stands for a
\* new password.
Change == [role : Roles \cup {Keep}, disabled : BOOLEAN \cup {Keep}, reset : BOOLEAN]
NoChange == [role |-> Keep, disabled |-> Keep, reset |-> FALSE]

Job == [pc     : {"idle", "setup", "session", "create",
                  "load", "protect", "revoke", "commit"},
        actor  : Users \cup {None},     \* the account of the session used
        target : Users \cup {None},
        loaded : User,                  \* the target row as this handler read it
        owners : SUBSET Users,          \* the active owners it counted
        change : Change,
        found  : SUBSET Sessions]       \* the sessions it will revoke

Idle == [pc |-> "idle", actor |-> None, target |-> None, loaded |-> NoUser,
         owners |-> {}, change |-> NoChange, found |-> {}]

TypeOK == /\ serial \in BOOLEAN
          /\ users \in [Users -> User]
          /\ sessions \in [Sessions -> Session]
          /\ job \in [Handlers -> Job]

Init == /\ serial \in Modes
        /\ users = [u \in Users |-> NoUser]
        /\ sessions = [s \in Sessions |-> [state |-> "unused", user |-> None]]
        /\ job = [h \in Handlers |-> Idle]

ActiveOwners == {u \in Users : /\ users[u].exists
                               /\ users[u].role = "owner"
                               /\ ~users[u].disabled}

MayStart(h) == /\ job[h].pc = "idle"
               /\ serial => \A g \in Handlers : job[g].pc = "idle"

Goto(h, pc) == job' = [job EXCEPT ![h].pc = pc]
Finish(h) == job' = [job EXCEPT ![h] = Idle]

\* get_optional_user and require_owner: a live session of an active owner.  The two
\* SELECTs, of the session and of its user, are one read here.
OwnerSession(s) == sessions[s].state = "live" /\ sessions[s].user \in ActiveOwners

-----------------------------------------------------------------------------
\* setup_owner counts the users, then inserts; a taken username fails the
\* INSERT and the request ends with an error.
StartSetup(h) ==
  /\ MayStart(h)
  /\ \A u \in Users : ~users[u].exists
  /\ \E u \in Users : job' = [job EXCEPT ![h] = [Idle EXCEPT !.pc = "setup", !.target = u]]
  /\ UNCHANGED <<users, sessions>>

Inserts(h, role) ==
  LET u == job[h].target
  IN  /\ ~users[u].exists
      /\ users' = [users EXCEPT ![u] = [exists |-> TRUE, role |-> role, disabled |-> FALSE]]

CommitSetup(h) ==
  /\ job[h].pc = "setup"
  /\ \/ Inserts(h, "owner") /\ Goto(h, "session")
     \/ users[job[h].target].exists /\ UNCHANGED users /\ Finish(h)
  /\ UNCHANGED sessions

\* login: the account exists, is not disabled and the password is right.
StartLogin(h) ==
  /\ MayStart(h)
  /\ \E u \in Users :
       /\ users[u].exists /\ ~users[u].disabled
       /\ job' = [job EXCEPT ![h] = [Idle EXCEPT !.pc = "session", !.target = u]]
  /\ UNCHANGED <<users, sessions>>

\* _create_session, the second transaction of setup_owner and login.  When the
\* model has run out of session ids the sign-in is given up.
CommitSession(h) ==
  /\ job[h].pc = "session"
  /\ \/ \E s \in Sessions :
          /\ sessions[s].state = "unused"
          /\ sessions' = [sessions EXCEPT ![s] = [state |-> "live", user |-> job[h].target]]
     \/ (\A s \in Sessions : sessions[s].state # "unused") /\ UNCHANGED sessions
  /\ Finish(h)
  /\ UNCHANGED users

\* logout: revoking is idempotent, so its read and its write are one step.
Logout(s) ==
  /\ sessions[s].state = "live"
  /\ serial => \A h \in Handlers : job[h].pc = "idle"
  /\ sessions' = [sessions EXCEPT ![s].state = "revoked"]
  /\ UNCHANGED <<users, job>>

-----------------------------------------------------------------------------
\* create_user: the dependency checks the owner; the UNIQUE constraint is the
\* only guard of the INSERT.
StartCreateUser(h) ==
  /\ MayStart(h)
  /\ \E s \in Sessions, u \in Users, r \in Roles :
       /\ OwnerSession(s)
       /\ job' = [job EXCEPT ![h] = [Idle EXCEPT !.pc = "create", !.target = u,
                                                 !.change.role = r]]
  /\ UNCHANGED <<users, sessions>>

CommitCreateUser(h) ==
  /\ job[h].pc = "create"
  /\ Inserts(h, job[h].change.role) \/ (users[job[h].target].exists /\ UNCHANGED users)
  /\ Finish(h)
  /\ UNCHANGED sessions

-----------------------------------------------------------------------------
\* update_user.  Its dependency has loaded the owner's own row: if that is the
\* target, session.get answers from the identity map without a SELECT.
StartUpdateUser(h) ==
  /\ MayStart(h)
  /\ \E s \in Sessions, u \in Users, c \in Change :
       /\ OwnerSession(s)
       /\ job' = [job EXCEPT ![h] = [Idle EXCEPT
                    !.pc = "load", !.actor = sessions[s].user, !.target = u, !.change = c,
                    !.loaded = IF u = sessions[s].user THEN users[u] ELSE NoUser]]
  /\ UNCHANGED <<users, sessions>>

LoadTarget(h) ==
  /\ job[h].pc = "load"
  /\ LET u == job[h].target
         row == IF u = job[h].actor THEN job[h].loaded ELSE users[u]
     IN  job' = [job EXCEPT ![h] = IF row.exists
                                     THEN [@ EXCEPT !.pc = "protect", !.loaded = row,
                                                    !.actor = None]
                                     ELSE Idle]
  /\ UNCHANGED <<users, sessions>>

RemovesOwner(c) == c.role \notin {Keep, "owner"} \/ c.disabled = TRUE

\* _protect_last_owner: counts only when the loaded target is an active owner.
Refused_LastOwner_OnlyRole(h) ==
  /\ job[h].loaded.role = "owner" /\ ~job[h].loaded.disabled
  /\ job[h].change.role \notin {Keep, "owner"}
  /\ Cardinality(ActiveOwners) <= 1
Refused_LastOwner(h) ==
  /\ job[h].loaded.role = "owner" /\ ~job[h].loaded.disabled
  /\ RemovesOwner(job[h].change)
  /\ Cardinality(ActiveOwners) <= 1

RevokesSessions(h) == \/ job[h].change.reset
                      \/ job[h].change.disabled = TRUE /\ ~job[h].loaded.disabled

ProtectLastOwner(h) ==
  /\ job[h].pc = "protect"
  /\ job' = [job EXCEPT ![h] =
               IF Refused_LastOwner(h) THEN Idle
               ELSE [@ EXCEPT !.pc = IF RevokesSessions(h) THEN "revoke" ELSE "commit",
                              !.owners = ActiveOwners]]
  /\ UNCHANGED <<users, sessions>>

\* The SELECT of the sessions to revoke.
SelectSessions(h) ==
  /\ job[h].pc = "revoke"
  /\ job' = [job EXCEPT ![h].pc = "commit",
                        ![h].found = {s \in Sessions : /\ sessions[s].state = "live"
                                                       /\ sessions[s].user = job[h].target}]
  /\ UNCHANGED <<users, sessions>>

\* Columns that the change leaves equal to the loaded row are not written.
Written(current, loaded, new) ==
  IF new = Keep \/ new = loaded THEN current ELSE new

Updated(h) ==
  LET row == job[h].loaded
  IN  [users[job[h].target] EXCEPT
         !.role     = Written(@, row.role, job[h].change.role),
         !.disabled = Written(@, row.disabled, job[h].change.disabled)]

\* Revoking marks exactly the sessions that were found.
Revoked_Forgotten(h) == sessions
Revoked(h) == [s \in Sessions |-> IF s \in job[h].found
                                    THEN [sessions[s] EXCEPT !.state = "revoked"]
                                    ELSE sessions[s]]

CommitUpdateUser(h) ==
  /\ job[h].pc = "commit"
  /\ users' = [users EXCEPT ![job[h].target] = Updated(h)]
  /\ sessions' = Revoked(h)
  /\ Finish(h)

HandlerStep(h) ==
  \/ StartSetup(h) \/ CommitSetup(h)
  \/ StartLogin(h) \/ CommitSession(h)
  \/ StartCreateUser(h) \/ CommitCreateUser(h)
  \/ StartUpdateUser(h) \/ LoadTarget(h) \/ ProtectLastOwner(h)
  \/ SelectSessions(h) \/ CommitUpdateUser(h)

Next == /\ (\E s \in Sessions : Logout(s)) \/ (\E h \in Handlers : HandlerStep(h))
        /\ UNCHANGED serial

Spec == Init /\ [][Next]_vars

-----------------------------------------------------------------------------
\* users.py, "At least one active owner must remain": a configured server
\* always has somebody who can administer it.
OwnerRemains == (\E u \in Users : users[u].exists) => ActiveOwners # {}

\* API-CONTRACT.md: disabling an account revokes its sessions, so re-enabling
\* it later brings none of them back (requests served one by one).
SerialDisabledHasNoSession ==
  serial => \A s \in Sessions :
              sessions[s].state = "live" => ~users[sessions[s].user].disabled

\* What the protection gives when handlers overlap: an update whose owners are
\* still the ones it counted, and whose target is still the row it loaded,
\* never removes the last owner.
UndisturbedUpdateKeepsOwner ==
  [][\A h \in Handlers :
       /\ job[h].pc = "commit" /\ job'[h].pc = "idle"
       /\ job[h].owners = ActiveOwners
       /\ job[h].loaded = users[job[h].target]
       /\ OwnerRemains
       => OwnerRemains']_vars
=============================================================================
