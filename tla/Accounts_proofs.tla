---------------------------- MODULE Accounts_proofs ----------------------------
(***************************************************************************)
(* The two properties of accounts, for any number of threads, users and    *)
(* sessions.  Served one by one, an update commits on the row it loaded    *)
(* and revokes the sessions it found (SerialInv); served together, an      *)
(* update that gets to its commit has either left the target an active     *)
(* owner or counted another (CountedInv).                                  *)
(***************************************************************************)
EXTENDS Accounts, FiniteSetTheorems, TLAPS

Updating(h) == job[h].pc \in {"load", "protect", "revoke", "commit"}

TargetsAreUsers ==
  \A h \in Handlers : /\ job[h].pc # "idle" => job[h].target \in Users
                      /\ job[h].pc = "create" => job[h].change.role \in Roles

\* What the protection of the last owner has let through.
CountedInv ==
  \A h \in Handlers :
    /\ job[h].pc \in {"protect", "revoke", "commit"} => job[h].loaded.exists
    /\ /\ job[h].pc \in {"revoke", "commit"}
       /\ job[h].loaded.role = "owner" /\ ~job[h].loaded.disabled
       /\ RemovesOwner(job[h].change)
       => ~(Cardinality(job[h].owners) <= 1)

AccountsInv == TypeOK /\ TargetsAreUsers /\ CountedInv

LEMMA IdleType ==
  /\ NoUser \in User /\ NoChange \in Change
  /\ Idle \in Job /\ Idle.pc = "idle" /\ Idle.target = None /\ Idle.change = NoChange
BY AccountConstants DEF NoUser, User, NoChange, Change, Idle, Job

LEMMA AccountsInit ==
  ASSUME Init
  PROVE  AccountsInv
BY AccountConstants, IdleType
   DEF Init, AccountsInv, TypeOK, TargetsAreUsers, CountedInv, Session

\* A step of one handler replaces its own job.
LEMMA JobStep ==
  ASSUME AccountsInv, NEW h \in Handlers, NEW j \in Job,
         job' = [job EXCEPT ![h] = j],
         j.pc # "idle" => j.target \in Users,
         j.pc = "create" => j.change.role \in Roles,
         j.pc \in {"protect", "revoke", "commit"} => j.loaded.exists,
         /\ j.pc \in {"revoke", "commit"}
         /\ j.loaded.role = "owner" /\ ~j.loaded.disabled
         /\ RemovesOwner(j.change)
         => ~(Cardinality(j.owners) <= 1),
         users' \in [Users -> User], sessions' \in [Sessions -> Session], serial' = serial
  PROVE  AccountsInv'
BY DEF AccountsInv, TypeOK, TargetsAreUsers, CountedInv

LEMMA StartTypes ==
  ASSUME NEW u \in Users
  PROVE  /\ LET j == [Idle EXCEPT !.pc = "setup", !.target = u]
            IN  j \in Job /\ j.pc = "setup" /\ j.target = u
         /\ LET j == [Idle EXCEPT !.pc = "session", !.target = u]
            IN  j \in Job /\ j.pc = "session" /\ j.target = u
BY IdleType DEF Job, Change

LEMMA CreateTypes ==
  ASSUME NEW u \in Users, NEW r \in Roles
  PROVE  LET j == [Idle EXCEPT !.pc = "create", !.target = u, !.change.role = r]
         IN  j \in Job /\ j.pc = "create" /\ j.target = u /\ j.change.role = r
BY IdleType DEF Job, Change

\* What the later steps of an update make of the job.
LEMMA LoadedTypes ==
  ASSUME NEW k \in Job, NEW row \in User
  PROVE  LET j == [k EXCEPT !.pc = "protect", !.loaded = row, !.actor = None]
         IN  /\ j \in Job /\ j.pc = "protect" /\ j.loaded = row
             /\ j.target = k.target /\ j.change = k.change
BY DEF Job

LEMMA FoundTypes ==
  ASSUME NEW k \in Job, NEW S \in SUBSET Sessions
  PROVE  LET j == [[k EXCEPT !.pc = "commit"] EXCEPT !.found = S]
         IN  /\ j \in Job /\ j.pc = "commit" /\ j.found = S /\ j.loaded = k.loaded
             /\ j.target = k.target /\ j.change = k.change /\ j.owners = k.owners
BY DEF Job

LEMMA InsertType ==
  ASSUME TypeOK, NEW h \in Handlers, NEW role \in Roles, Inserts(h, role), job[h].target \in Users
  PROVE  users' \in [Users -> User]
BY DEF TypeOK, Inserts, User

\* Written keeps a column's type.
LEMMA WrittenType ==
  ASSUME NEW S, NEW current \in S, NEW loaded, NEW new \in S \cup {Keep}
  PROVE  Written(current, loaded, new) \in S
BY DEF Written

LEMMA UpdatedType ==
  ASSUME TypeOK, NEW h \in Handlers, job[h].target \in Users
  PROVE  /\ Updated(h) \in User
         /\ [users EXCEPT ![job[h].target] = Updated(h)] \in [Users -> User]
<1> DEFINE row == users[job[h].target]
           c == job[h].change
<1>1. row \in User /\ c \in Change /\ users \in [Users -> User]
  BY DEF TypeOK, Job
<1>2. Written(row.role, job[h].loaded.role, c.role) \in Roles
  BY <1>1, WrittenType, Zenon DEF User, Change
<1>3. Written(row.disabled, job[h].loaded.disabled, c.disabled) \in BOOLEAN
  <2>1. row.disabled \in BOOLEAN /\ c.disabled \in BOOLEAN \cup {Keep}
    BY <1>1 DEF User, Change
  <2> QED BY <2>1, Zenon DEF Written
<1>4. Updated(h) \in User
  BY <1>1, <1>2, <1>3 DEF Updated, User
<1> QED BY <1>1, <1>4

LEMMA SignInStepInv ==
  ASSUME AccountsInv, UNCHANGED serial, NEW h \in Handlers,
         \/ StartSetup(h) \/ CommitSetup(h) \/ StartLogin(h) \/ CommitSession(h)
         \/ StartCreateUser(h) \/ CommitCreateUser(h)
  PROVE  AccountsInv'
<1> USE IdleType DEF AccountsInv, TypeOK
<1>1. CASE StartSetup(h)
  <2>1. PICK u \in Users :
          job' = [job EXCEPT ![h] = [Idle EXCEPT !.pc = "setup", !.target = u]]
    BY <1>1 DEF StartSetup
  <2> DEFINE j == [Idle EXCEPT !.pc = "setup", !.target = u]
  <2>2. j \in Job /\ j.pc = "setup" /\ j.target = u
    BY StartTypes
  <2>3. job' = [job EXCEPT ![h] = j] /\ UNCHANGED <<users, sessions>>
    BY <1>1, <2>1 DEF StartSetup
  <2> HIDE DEF j
  <2> QED BY <2>2, <2>3, JobStep
<1>2. CASE CommitSetup(h)
  <2>1. job[h].pc = "setup" /\ job[h].target \in Users /\ "owner" \in Roles
    BY <1>2, AccountConstants DEF CommitSetup, TargetsAreUsers
  <2>2. CASE Inserts(h, "owner") /\ Goto(h, "session")
    <3> DEFINE j == [job[h] EXCEPT !.pc = "session"]
    <3>1. j \in Job /\ j.pc = "session" /\ j.target = job[h].target
      BY DEF Job
    <3>2. job' = [job EXCEPT ![h] = j]
      BY <2>2 DEF Goto
    <3> HIDE DEF j
    <3> QED BY <1>2, <2>1, <2>2, <3>1, <3>2, InsertType, JobStep DEF CommitSetup
  <2>3. CASE UNCHANGED users /\ Finish(h)
    BY <1>2, <2>3, JobStep DEF CommitSetup, Finish
  <2> QED BY <1>2, <2>2, <2>3 DEF CommitSetup
<1>3. CASE StartLogin(h)
  <2>1. PICK u \in Users :
          job' = [job EXCEPT ![h] = [Idle EXCEPT !.pc = "session", !.target = u]]
    BY <1>3 DEF StartLogin
  <2> DEFINE j == [Idle EXCEPT !.pc = "session", !.target = u]
  <2>2. j \in Job /\ j.pc = "session" /\ j.target = u
    BY StartTypes
  <2>3. job' = [job EXCEPT ![h] = j] /\ UNCHANGED <<users, sessions>>
    BY <1>3, <2>1 DEF StartLogin
  <2> HIDE DEF j
  <2> QED BY <2>2, <2>3, JobStep
<1>4. CASE CommitSession(h)
  <2>1. job[h].target \in Users
    BY <1>4 DEF CommitSession, TargetsAreUsers
  <2>2. sessions' \in [Sessions -> Session]
    BY <1>4, <2>1 DEF CommitSession, Session
  <2> QED BY <1>4, <2>2, JobStep DEF CommitSession, Finish
<1>5. CASE StartCreateUser(h)
  <2>1. PICK u \in Users, r \in Roles :
          job' = [job EXCEPT ![h] = [Idle EXCEPT !.pc = "create", !.target = u, !.change.role = r]]
    BY <1>5 DEF StartCreateUser
  <2> DEFINE j == [Idle EXCEPT !.pc = "create", !.target = u, !.change.role = r]
  <2>2. j \in Job /\ j.pc = "create" /\ j.target = u /\ j.change.role = r
    BY CreateTypes, Zenon
  <2>3. job' = [job EXCEPT ![h] = j] /\ UNCHANGED <<users, sessions>>
    BY <1>5, <2>1 DEF StartCreateUser
  <2> HIDE DEF j
  <2> QED BY <2>2, <2>3, JobStep
<1>6. CASE CommitCreateUser(h)
  <2>1. job[h].target \in Users /\ job[h].change.role \in Roles
    BY <1>6 DEF CommitCreateUser, TargetsAreUsers
  <2>2. users' \in [Users -> User]
    BY <1>6, <2>1, InsertType DEF CommitCreateUser
  <2> QED BY <1>6, <2>2, JobStep DEF CommitCreateUser, Finish
<1> QED BY <1>1, <1>2, <1>3, <1>4, <1>5, <1>6

LEMMA UpdateStepInv ==
  ASSUME AccountsInv, UNCHANGED serial, NEW h \in Handlers,
         \/ StartUpdateUser(h) \/ LoadTarget(h) \/ ProtectLastOwner(h)
         \/ SelectSessions(h) \/ CommitUpdateUser(h)
  PROVE  AccountsInv'
<1>0. /\ TypeOK /\ job[h] \in Job /\ job[h].change \in Change /\ job[h].loaded \in User
      /\ users \in [Users -> User] /\ sessions \in [Sessions -> Session]
      /\ job \in [Handlers -> Job]
      /\ job[h].pc # "idle" => job[h].target \in Users
  BY DEF AccountsInv, TypeOK, TargetsAreUsers, Job
<1>1. CASE StartUpdateUser(h)
  <2>1. PICK s \in Sessions, u \in Users, c \in Change :
          /\ OwnerSession(s)
          /\ job' = [job EXCEPT ![h] = [Idle EXCEPT
                       !.pc = "load", !.actor = sessions[s].user, !.target = u, !.change = c,
                       !.loaded = IF u = sessions[s].user THEN users[u] ELSE NoUser]]
    BY <1>1 DEF StartUpdateUser
  <2> DEFINE a == sessions[s].user
             row == IF u = a THEN users[u] ELSE NoUser
             j == [Idle EXCEPT !.pc = "load", !.actor = a, !.target = u, !.change = c,
                               !.loaded = row]
  <2>2. a \in Users /\ row \in User
    BY <1>0, <2>1, IdleType DEF OwnerSession, ActiveOwners
  <2>3. job' = [job EXCEPT ![h] = j]
    BY <2>1
  <2> HIDE DEF a, row
  <2>4. /\ j \in Job /\ j.pc = "load" /\ j.actor = a /\ j.target = u
        /\ j.change = c /\ j.loaded = row
    BY <2>2, IdleType DEF Job
  <2>5. UNCHANGED <<users, sessions>>
    BY <1>1 DEF StartUpdateUser
  <2> HIDE DEF j
  <2> QED BY <1>0, <2>3, <2>4, <2>5, JobStep
<1>2. CASE LoadTarget(h)
  <2> DEFINE u == job[h].target
             row == IF u = job[h].actor THEN job[h].loaded ELSE users[u]
             j == [job[h] EXCEPT !.pc = "protect", !.loaded = row, !.actor = None]
  <2>1. row \in User /\ u \in Users /\ UNCHANGED <<users, sessions>>
    BY <1>0, <1>2 DEF LoadTarget
  <2>2. job' = [job EXCEPT ![h] = IF row.exists THEN j ELSE Idle]
    BY <1>0, <1>2 DEF LoadTarget
  <2> HIDE DEF row
  <2>3. j \in Job /\ j.pc = "protect" /\ j.loaded = row /\ j.target = u
    BY <1>0, <2>1, LoadedTypes, Zenon
  <2> HIDE DEF j, u
  <2>4. CASE row.exists
    BY <1>0, <2>1, <2>2, <2>3, <2>4, JobStep
  <2>5. CASE ~row.exists
    BY <1>0, <2>1, <2>2, <2>5, IdleType, JobStep
  <2> QED BY <2>4, <2>5
<1>3. CASE ProtectLastOwner(h)
  <2> DEFINE pc == IF RevokesSessions(h) THEN "revoke" ELSE "commit"
             j == [job[h] EXCEPT !.pc = pc, !.owners = ActiveOwners]
  <2>1. /\ job[h].pc = "protect" /\ job[h].loaded.exists /\ UNCHANGED <<users, sessions>>
        /\ pc \in {"revoke", "commit"} /\ ActiveOwners \in SUBSET Users
    BY <1>3 DEF ProtectLastOwner, AccountsInv, CountedInv, ActiveOwners
  <2>2. job' = [job EXCEPT ![h] = IF Refused_LastOwner(h) THEN Idle ELSE j]
    BY <1>0, <1>3 DEF ProtectLastOwner
  <2> HIDE DEF pc
  <2>3. /\ j \in Job /\ j.pc = pc /\ j.owners = ActiveOwners /\ j.loaded = job[h].loaded
        /\ j.target = job[h].target /\ j.change = job[h].change /\ j.found = job[h].found
    BY <1>0, <2>1 DEF Job
  <2> HIDE DEF j
  <2>4. CASE ~Refused_LastOwner(h)
    <3>1. /\ j.loaded.role = "owner" /\ ~j.loaded.disabled /\ RemovesOwner(j.change)
          => ~(Cardinality(j.owners) <= 1)
      BY <2>3, <2>4, Zenon DEF Refused_LastOwner
    <3> QED BY <1>0, <2>1, <2>2, <2>3, <2>4, <3>1, JobStep
  <2>5. CASE Refused_LastOwner(h)
    BY <1>0, <2>1, <2>2, <2>5, IdleType, JobStep
  <2> QED BY <2>4, <2>5
<1>4. CASE SelectSessions(h)
  <2> DEFINE S == {s \in Sessions : /\ sessions[s].state = "live"
                                    /\ sessions[s].user = job[h].target}
             j == [[job[h] EXCEPT !.pc = "commit"] EXCEPT !.found = S]
  <2>1. /\ job[h].pc = "revoke" /\ job[h].loaded.exists /\ UNCHANGED <<users, sessions>>
        /\ S \in SUBSET Sessions
    BY <1>4 DEF SelectSessions, AccountsInv, CountedInv
  <2>2. job' = [job EXCEPT ![h] = j]
    BY <1>0, <1>4 DEF SelectSessions
  <2> HIDE DEF S
  <2>3. /\ j \in Job /\ j.pc = "commit" /\ j.owners = job[h].owners
        /\ j.loaded = job[h].loaded /\ j.target = job[h].target /\ j.change = job[h].change
    BY <1>0, <2>1, FoundTypes, Zenon
  <2> HIDE DEF j
  <2>4. /\ j.loaded.role = "owner" /\ ~j.loaded.disabled /\ RemovesOwner(j.change)
        => ~(Cardinality(j.owners) <= 1)
    BY <2>1, <2>3 DEF AccountsInv, CountedInv
  <2> QED BY <1>0, <2>1, <2>2, <2>3, <2>4, JobStep
<1>5. CASE CommitUpdateUser(h)
  <2>1. job[h].target \in Users
    BY <1>0, <1>5 DEF CommitUpdateUser
  <2>2. users' \in [Users -> User]
    BY <1>0, <1>5, <2>1, UpdatedType DEF CommitUpdateUser
  <2>3. sessions' \in [Sessions -> Session]
    BY <1>0, <1>5 DEF CommitUpdateUser, Revoked, Session
  <2> QED BY <1>0, <1>5, <2>2, <2>3, IdleType, JobStep DEF CommitUpdateUser, Finish
<1> QED BY <1>1, <1>2, <1>3, <1>4, <1>5

LEMMA AccountsStep ==
  ASSUME AccountsInv, [Next]_vars
  PROVE  AccountsInv'
<1>1. CASE UNCHANGED vars
  BY <1>1 DEF vars, AccountsInv, TypeOK, TargetsAreUsers, CountedInv
<1>2. ASSUME NEW s \in Sessions, Logout(s), UNCHANGED serial
      PROVE  AccountsInv'
  <2>1. sessions' \in [Sessions -> Session]
    BY <1>2 DEF Logout, AccountsInv, TypeOK, Session
  <2> QED BY <1>2, <2>1 DEF Logout, AccountsInv, TypeOK, TargetsAreUsers, CountedInv
<1>3. ASSUME NEW h \in Handlers, HandlerStep(h), UNCHANGED serial
      PROVE  AccountsInv'
  BY <1>3, SignInStepInv, UpdateStepInv DEF HandlerStep
<1> QED BY <1>1, <1>2, <1>3 DEF Next

\* Whatever the threads, users and sessions: every job has a known user for its
\* target, and an update past the protection has counted.
THEOREM AccountsInvariant == Spec => []AccountsInv
<1>1. Init => AccountsInv
  BY AccountsInit
<1>2. AccountsInv /\ [Next]_vars => AccountsInv'
  BY AccountsStep
<1> QED BY <1>1, <1>2, PTL DEF Spec

-----------------------------------------------------------------------------
\* Only the commit of an update takes a handler from "commit" to "idle".
LEMMA CommitEnds ==
  ASSUME AccountsInv, Next, NEW h \in Handlers, job[h].pc = "commit", job'[h].pc = "idle"
  PROVE  CommitUpdateUser(h)
<1>1. PICK g \in Handlers : HandlerStep(g)
  BY DEF Next, Logout
<1>2. job \in [Handlers -> Job]
  BY DEF AccountsInv, TypeOK
<1>3. g = h
  BY <1>1, <1>2
     DEF HandlerStep, StartSetup, CommitSetup, StartLogin, CommitSession, StartCreateUser,
         CommitCreateUser, StartUpdateUser, LoadTarget, ProtectLastOwner, SelectSessions,
         CommitUpdateUser, Goto, Finish
<1> QED BY <1>1, <1>3
        DEF HandlerStep, MayStart, StartSetup, CommitSetup, StartLogin, CommitSession,
            StartCreateUser, CommitCreateUser, StartUpdateUser, LoadTarget, ProtectLastOwner,
            SelectSessions

LEMMA AnotherThan ==
  ASSUME NEW S, NEW x \in S, ~(Cardinality(S) <= 1)
  PROVE  \E y \in S : y # x
<1>1. SUFFICES ASSUME \A y \in S : y = x PROVE FALSE
  OBVIOUS
<1>2. S = {x}
  BY <1>1
<1>3. Cardinality({x}) = 1
  BY FS_Singleton
<1> QED BY <1>2, <1>3

\* The commit of an update that nobody disturbed leaves an active owner.
LEMMA CommitKeepsOwner ==
  ASSUME AccountsInv, NEW h \in Handlers, CommitUpdateUser(h),
         job[h].owners = ActiveOwners, job[h].loaded = users[job[h].target], OwnerRemains
  PROVE  OwnerRemains'
<1> DEFINE t == job[h].target
           c == job[h].change
<1>1. /\ t \in Users /\ users \in [Users -> User] /\ users[t].exists
      /\ c \in Change /\ users' = [users EXCEPT ![t] = Updated(h)]
  BY DEF CommitUpdateUser, AccountsInv, TypeOK, TargetsAreUsers, CountedInv, Job
<1>2. \A o \in ActiveOwners : o # t => o \in ActiveOwners'
  BY <1>1 DEF ActiveOwners
<1>3. CASE t \notin ActiveOwners
  BY <1>1, <1>2, <1>3 DEF OwnerRemains
<1>4. CASE t \in ActiveOwners /\ RemovesOwner(c)
  <2>1. ~(Cardinality(ActiveOwners) <= 1)
    BY <1>4 DEF CommitUpdateUser, AccountsInv, CountedInv, ActiveOwners
  <2>2. PICK o \in ActiveOwners : o # t
    BY <1>4, <2>1, AnotherThan
  <2> QED BY <1>2, <2>2 DEF OwnerRemains
<1>5. CASE t \in ActiveOwners /\ ~RemovesOwner(c)
  <2>1. users[t].role = "owner" /\ ~users[t].disabled
    BY <1>5 DEF ActiveOwners
  <2>2. Written(users[t].role, users[t].role, c.role) = "owner"
    BY <1>5, <2>1 DEF RemovesOwner, Written
  <2>3. ~Written(users[t].disabled, users[t].disabled, c.disabled)
    <3>1. c.disabled \in BOOLEAN \cup {Keep} /\ c.disabled # TRUE
      BY <1>1, <1>5 DEF Change, RemovesOwner
    <3>2. c.disabled = FALSE \/ c.disabled = Keep
      BY <3>1, Zenon
    <3> QED BY <2>1, <3>2, Zenon DEF Written
  <2>4. users'[t] = [users[t] EXCEPT !.role = Written(@, users[t].role, c.role),
                                     !.disabled = Written(@, users[t].disabled, c.disabled)]
    BY <1>1 DEF Updated
  <2>5. users'[t].exists /\ users'[t].role = "owner" /\ ~users'[t].disabled
    BY <1>1, <2>2, <2>3, <2>4 DEF User
  <2> QED BY <1>1, <2>5 DEF OwnerRemains, ActiveOwners
<1> QED BY <1>3, <1>4, <1>5

\* users.py, _protect_last_owner: while nobody else writes the users it counted
\* or the row it loaded, an update never removes the last active owner.
THEOREM OwnerIsKept == Spec => UndisturbedUpdateKeepsOwner
<1>1. ASSUME AccountsInv, [Next]_vars
      PROVE  [\A h \in Handlers :
                /\ job[h].pc = "commit" /\ job'[h].pc = "idle"
                /\ job[h].owners = ActiveOwners
                /\ job[h].loaded = users[job[h].target]
                /\ OwnerRemains
                => OwnerRemains']_vars
  BY <1>1, CommitEnds, CommitKeepsOwner DEF vars
<1> QED BY <1>1, AccountsInvariant, PTL DEF Spec, UndisturbedUpdateKeepsOwner

-----------------------------------------------------------------------------
\* Requests served one by one.  What a handler has read is still what the
\* tables hold, and nobody signs a disabled account in.
Busy(h) == job[h].pc # "idle"

LoneHandler == \A g, h \in Handlers : Busy(g) /\ Busy(h) => g = h

LiveUsersEnabled ==
  \A s \in Sessions :
    sessions[s].state = "live" => /\ sessions[s].user \in Users
                                  /\ ~users[sessions[s].user].disabled

SignsEnabledIn ==
  \A h \in Handlers : job[h].pc = "session" => ~users[job[h].target].disabled

ReadIsCurrent ==
  \A h \in Handlers :
    /\ job[h].pc = "load" /\ job[h].actor = job[h].target
       => job[h].loaded = users[job[h].target]
    /\ job[h].pc \in {"protect", "revoke", "commit"} => job[h].loaded = users[job[h].target]

FoundAll ==
  \A h \in Handlers :
    /\ job[h].pc = "commit" /\ job[h].change.disabled = TRUE /\ ~job[h].loaded.disabled
    => \A s \in Sessions : /\ sessions[s].state = "live"
                           /\ sessions[s].user = job[h].target
                           => s \in job[h].found

SerialInv == /\ LoneHandler /\ LiveUsersEnabled /\ SignsEnabledIn
             /\ ReadIsCurrent /\ FoundAll

LEMMA OthersIdle ==
  ASSUME AccountsInv, serial, SerialInv, NEW h \in Handlers, HandlerStep(h)
  PROVE  \A g \in Handlers : g # h => ~Busy(g)
<1>1. CASE MayStart(h)
  BY <1>1 DEF MayStart, Busy
<1>2. CASE Busy(h)
  BY <1>2 DEF SerialInv, LoneHandler
<1> QED BY <1>1, <1>2
        DEF HandlerStep, StartSetup, CommitSetup, StartLogin, CommitSession, StartCreateUser,
            CommitCreateUser, StartUpdateUser, LoadTarget, ProtectLastOwner, SelectSessions,
            CommitUpdateUser, Busy

\* While the others are idle, only the job that changes has to be looked at.
LEMMA SerialJob ==
  ASSUME AccountsInv, NEW h \in Handlers, \A g \in Handlers : g # h => ~Busy(g),
         NEW j \in Job, job' = [job EXCEPT ![h] = j], LiveUsersEnabled',
         j.pc = "session" => ~users'[j.target].disabled,
         j.pc = "load" /\ j.actor = j.target => j.loaded = users'[j.target],
         j.pc \in {"protect", "revoke", "commit"} => j.loaded = users'[j.target],
         j.pc = "commit" /\ j.change.disabled = TRUE /\ ~j.loaded.disabled
           => \A s \in Sessions : /\ sessions'[s].state = "live"
                                  /\ sessions'[s].user = j.target
                                  => s \in j.found
  PROVE  SerialInv'
<1>1. job \in [Handlers -> Job]
  BY DEF AccountsInv, TypeOK
<1>2. job'[h] = j /\ \A g \in Handlers : g # h => job'[g].pc = "idle"
  BY <1>1 DEF Busy
<1>3. LoneHandler' /\ SignsEnabledIn'
  BY <1>2 DEF LoneHandler, SignsEnabledIn, Busy
<1>4. ReadIsCurrent'
  BY <1>2 DEF ReadIsCurrent
<1>5. FoundAll'
  BY <1>2 DEF FoundAll
<1> QED BY <1>3, <1>4, <1>5 DEF SerialInv

\* An account is inserted enabled, and no other row changes.
LEMMA InsertKeepsEnabled ==
  ASSUME AccountsInv, LiveUsersEnabled, NEW h \in Handlers, job[h].target \in Users, NEW role,
         Inserts(h, role), UNCHANGED sessions
  PROVE  LiveUsersEnabled' /\ ~users'[job[h].target].disabled
<1>1. users \in [Users -> User]
  BY DEF AccountsInv, TypeOK
<1>2. /\ ~users'[job[h].target].disabled
      /\ \A u \in Users : u # job[h].target => users'[u] = users[u]
  BY <1>1 DEF Inserts
<1> QED BY <1>2 DEF LiveUsersEnabled

LEMMA SignInStepSerial ==
  ASSUME AccountsInv, serial, SerialInv, NEW h \in Handlers, HandlerStep(h),
         \/ StartSetup(h) \/ CommitSetup(h) \/ StartLogin(h) \/ CommitSession(h)
         \/ StartCreateUser(h) \/ CommitCreateUser(h)
  PROVE  SerialInv'
<1>0. /\ \A g \in Handlers : g # h => ~Busy(g)
      /\ LiveUsersEnabled /\ job[h] \in Job /\ job \in [Handlers -> Job]
      /\ UNCHANGED <<users, sessions>> => LiveUsersEnabled'
      /\ Busy(h) => job[h].target \in Users
  BY OthersIdle DEF SerialInv, LiveUsersEnabled, AccountsInv, TypeOK, TargetsAreUsers, Busy
<1>1. CASE StartSetup(h)
  <2>1. PICK u \in Users :
          job' = [job EXCEPT ![h] = [Idle EXCEPT !.pc = "setup", !.target = u]]
    BY <1>1 DEF StartSetup
  <2> DEFINE j == [Idle EXCEPT !.pc = "setup", !.target = u]
  <2>2. j \in Job /\ j.pc = "setup"
    BY StartTypes
  <2>3. job' = [job EXCEPT ![h] = j] /\ UNCHANGED <<users, sessions>>
    BY <1>1, <2>1 DEF StartSetup
  <2> HIDE DEF j
  <2> QED BY <1>0, <2>2, <2>3, SerialJob
<1>2. CASE CommitSetup(h)
  <2>1. job[h].target \in Users
    BY <1>0, <1>2 DEF CommitSetup, Busy
  <2>2. CASE Inserts(h, "owner") /\ Goto(h, "session")
    <3> DEFINE j == [job[h] EXCEPT !.pc = "session"]
    <3>1. j \in Job /\ j.pc = "session" /\ j.target = job[h].target
      BY <1>0 DEF Job
    <3>2. job' = [job EXCEPT ![h] = j]
      BY <1>0, <2>2 DEF Goto
    <3>3. LiveUsersEnabled' /\ ~users'[job[h].target].disabled
      BY <1>0, <1>2, <2>1, <2>2, InsertKeepsEnabled DEF CommitSetup
    <3> HIDE DEF j
    <3> QED BY <1>0, <3>1, <3>2, <3>3, SerialJob
  <2>3. CASE UNCHANGED users /\ Finish(h)
    BY <1>0, <1>2, <2>3, IdleType, SerialJob DEF CommitSetup, Finish
  <2> QED BY <1>2, <2>2, <2>3 DEF CommitSetup
<1>3. CASE StartLogin(h)
  <2>1. PICK u \in Users :
          /\ ~users[u].disabled
          /\ job' = [job EXCEPT ![h] = [Idle EXCEPT !.pc = "session", !.target = u]]
    BY <1>3 DEF StartLogin
  <2> DEFINE j == [Idle EXCEPT !.pc = "session", !.target = u]
  <2>2. j \in Job /\ j.pc = "session" /\ j.target = u
    BY StartTypes
  <2>3. job' = [job EXCEPT ![h] = j] /\ UNCHANGED <<users, sessions>>
    BY <1>3, <2>1 DEF StartLogin
  <2> HIDE DEF j
  <2> QED BY <1>0, <2>1, <2>2, <2>3, SerialJob
<1>4. CASE CommitSession(h)
  <2>1. /\ job[h].target \in Users /\ ~users[job[h].target].disabled
        /\ UNCHANGED users /\ Finish(h) /\ sessions \in [Sessions -> Session]
    BY <1>0, <1>4 DEF CommitSession, Busy, SerialInv, SignsEnabledIn, AccountsInv, TypeOK
  <2>2. LiveUsersEnabled'
    BY <1>0, <1>4, <2>1 DEF CommitSession, LiveUsersEnabled
  <2> QED BY <1>0, <2>1, <2>2, IdleType, SerialJob DEF Finish
<1>5. CASE StartCreateUser(h)
  <2>1. PICK u \in Users, r \in Roles :
          job' = [job EXCEPT ![h] = [Idle EXCEPT !.pc = "create", !.target = u, !.change.role = r]]
    BY <1>5 DEF StartCreateUser
  <2> DEFINE j == [Idle EXCEPT !.pc = "create", !.target = u, !.change.role = r]
  <2>2. j \in Job /\ j.pc = "create" /\ j.target = u /\ j.change.role = r
    BY CreateTypes, Zenon
  <2>3. job' = [job EXCEPT ![h] = j] /\ UNCHANGED <<users, sessions>>
    BY <1>5, <2>1 DEF StartCreateUser
  <2> HIDE DEF j
  <2> QED BY <1>0, <2>2, <2>3, SerialJob
<1>6. CASE CommitCreateUser(h)
  <2>1. job[h].target \in Users /\ Finish(h) /\ UNCHANGED sessions
    BY <1>0, <1>6 DEF CommitCreateUser, Busy
  <2>2. LiveUsersEnabled'
    BY <1>0, <1>6, <2>1, InsertKeepsEnabled DEF CommitCreateUser
  <2> QED BY <1>0, <2>1, <2>2, IdleType, SerialJob DEF Finish
<1> QED BY <1>1, <1>2, <1>3, <1>4, <1>5, <1>6

\* Disabling on the row as it is, with all its sessions found, leaves none live.
LEMMA CommitKeepsEnabled ==
  ASSUME AccountsInv, SerialInv, NEW h \in Handlers, CommitUpdateUser(h)
  PROVE  LiveUsersEnabled'
<1> DEFINE t == job[h].target
           c == job[h].change
           old == users[t].disabled
           new == Written(old, old, c.disabled)
<1>1. /\ t \in Users /\ users \in [Users -> User] /\ sessions \in [Sessions -> Session]
      /\ c \in Change /\ job[h].loaded = users[t] /\ job[h].pc = "commit"
      /\ users' = [users EXCEPT ![t] = Updated(h)] /\ sessions' = Revoked(h)
      /\ LiveUsersEnabled
  BY DEF CommitUpdateUser, AccountsInv, TypeOK, TargetsAreUsers, Job, SerialInv, ReadIsCurrent
<1>2. users'[t].disabled = new
  <2>1. users'[t] = [users[t] EXCEPT !.role = Written(@, users[t].role, c.role),
                                     !.disabled = Written(@, users[t].disabled, c.disabled)]
    BY <1>1 DEF Updated
  <2>2. users[t] \in User
    BY <1>1
  <2> HIDE DEF new, c
  <2> QED BY <2>1, <2>2 DEF User, new
<1>3. \A s \in Sessions :
        sessions'[s].state = "live" => /\ sessions'[s] = sessions[s]
                                       /\ sessions[s].state = "live" /\ s \notin job[h].found
  BY <1>1 DEF Revoked, Session
<1>4. new => old \/ c.disabled = TRUE
  <2>1. c.disabled = TRUE \/ c.disabled = FALSE \/ c.disabled = Keep
    BY <1>1 DEF Change
  <2> QED BY <2>1, Zenon DEF Written
<1>5. ASSUME NEW s \in Sessions, sessions'[s].state = "live", sessions'[s].user = t
      PROVE  ~users'[t].disabled
  <2>1. ~old
    BY <1>1, <1>3, <1>5 DEF LiveUsersEnabled
  <2>2. ~(c.disabled = TRUE)
    BY <1>1, <1>3, <1>5, <2>1 DEF SerialInv, FoundAll
  <2> QED BY <1>2, <1>4, <2>1, <2>2
<1>6. \A u \in Users : u # t => users'[u] = users[u]
  BY <1>1
<1> QED BY <1>1, <1>3, <1>5, <1>6 DEF LiveUsersEnabled

LEMMA UpdateStepSerial ==
  ASSUME AccountsInv, serial, SerialInv, NEW h \in Handlers, HandlerStep(h),
         \/ StartUpdateUser(h) \/ LoadTarget(h) \/ ProtectLastOwner(h)
         \/ SelectSessions(h) \/ CommitUpdateUser(h)
  PROVE  SerialInv'
<1>0. /\ \A g \in Handlers : g # h => ~Busy(g)
      /\ LiveUsersEnabled /\ job[h] \in Job /\ job \in [Handlers -> Job]
      /\ UNCHANGED <<users, sessions>> => LiveUsersEnabled'
      /\ Busy(h) => job[h].target \in Users
      /\ users \in [Users -> User] /\ job[h].loaded \in User
  BY OthersIdle DEF SerialInv, LiveUsersEnabled, AccountsInv, TypeOK, TargetsAreUsers, Busy, Job
<1>1. CASE StartUpdateUser(h)
  <2>1. PICK s \in Sessions, u \in Users, c \in Change :
          /\ OwnerSession(s)
          /\ job' = [job EXCEPT ![h] = [Idle EXCEPT
                       !.pc = "load", !.actor = sessions[s].user, !.target = u, !.change = c,
                       !.loaded = IF u = sessions[s].user THEN users[u] ELSE NoUser]]
    BY <1>1 DEF StartUpdateUser
  <2> DEFINE a == sessions[s].user
             row == IF u = a THEN users[u] ELSE NoUser
             j == [Idle EXCEPT !.pc = "load", !.actor = a, !.target = u, !.change = c,
                               !.loaded = row]
  <2>2. a \in Users /\ row \in User /\ (u = a => row = users[u])
    BY <1>0, <2>1, IdleType DEF OwnerSession, ActiveOwners
  <2>3. job' = [job EXCEPT ![h] = j] /\ UNCHANGED <<users, sessions>>
    BY <1>1, <2>1 DEF StartUpdateUser
  <2> HIDE DEF a, row
  <2>4. j \in Job /\ j.pc = "load" /\ j.actor = a /\ j.target = u /\ j.loaded = row
    BY <2>2, IdleType DEF Job
  <2> HIDE DEF j
  <2> QED BY <1>0, <2>2, <2>3, <2>4, SerialJob
<1>2. CASE LoadTarget(h)
  <2> DEFINE u == job[h].target
             row == IF u = job[h].actor THEN job[h].loaded ELSE users[u]
             j == [job[h] EXCEPT !.pc = "protect", !.loaded = row, !.actor = None]
  <2>1. row \in User /\ u \in Users /\ row = users[u] /\ UNCHANGED <<users, sessions>>
    BY <1>0, <1>2 DEF LoadTarget, Busy, SerialInv, ReadIsCurrent
  <2>2. job' = [job EXCEPT ![h] = IF row.exists THEN j ELSE Idle]
    BY <1>0, <1>2 DEF LoadTarget
  <2> HIDE DEF row
  <2>3. j \in Job /\ j.pc = "protect" /\ j.loaded = row /\ j.target = u
    BY <1>0, <2>1, LoadedTypes, Zenon
  <2> HIDE DEF j, u
  <2>4. CASE row.exists
    BY <1>0, <2>1, <2>2, <2>3, <2>4, SerialJob
  <2>5. CASE ~row.exists
    BY <1>0, <2>1, <2>2, <2>5, IdleType, SerialJob
  <2> QED BY <2>4, <2>5
<1>3. CASE ProtectLastOwner(h)
  <2> DEFINE pc == IF RevokesSessions(h) THEN "revoke" ELSE "commit"
             j == [job[h] EXCEPT !.pc = pc, !.owners = ActiveOwners]
  <2>1. /\ job[h].loaded = users[job[h].target] /\ UNCHANGED <<users, sessions>>
        /\ pc \in {"revoke", "commit"} /\ ActiveOwners \in SUBSET Users
        /\ pc = "commit" => ~RevokesSessions(h)
    BY <1>3 DEF ProtectLastOwner, SerialInv, ReadIsCurrent, ActiveOwners
  <2>2. job' = [job EXCEPT ![h] = IF Refused_LastOwner(h) THEN Idle ELSE j]
    BY <1>0, <1>3 DEF ProtectLastOwner
  <2> HIDE DEF pc
  <2>3. /\ j \in Job /\ j.pc = pc /\ j.loaded = job[h].loaded
        /\ j.target = job[h].target /\ j.change = job[h].change
    BY <1>0, <2>1 DEF Job
  <2> HIDE DEF j
  <2>4. CASE ~Refused_LastOwner(h)
    <3>1. ~(j.pc = "commit" /\ j.change.disabled = TRUE /\ ~j.loaded.disabled)
      BY <2>1, <2>3, Zenon DEF RevokesSessions
    <3> QED BY <1>0, <2>1, <2>2, <2>3, <2>4, <3>1, SerialJob
  <2>5. CASE Refused_LastOwner(h)
    BY <1>0, <2>1, <2>2, <2>5, IdleType, SerialJob
  <2> QED BY <2>4, <2>5
<1>4. CASE SelectSessions(h)
  <2> DEFINE S == {s \in Sessions : /\ sessions[s].state = "live"
                                    /\ sessions[s].user = job[h].target}
             j == [[job[h] EXCEPT !.pc = "commit"] EXCEPT !.found = S]
  <2>1. /\ job[h].loaded = users[job[h].target] /\ UNCHANGED <<users, sessions>>
        /\ S \in SUBSET Sessions
        /\ \A s \in Sessions : sessions[s].state = "live" /\ sessions[s].user = job[h].target
                               => s \in S
    BY <1>4 DEF SelectSessions, SerialInv, ReadIsCurrent
  <2>2. job' = [job EXCEPT ![h] = j]
    BY <1>0, <1>4 DEF SelectSessions
  <2> HIDE DEF S
  <2>3. /\ j \in Job /\ j.pc = "commit" /\ j.found = S
        /\ j.loaded = job[h].loaded /\ j.target = job[h].target
    BY <1>0, <2>1 DEF Job
  <2> HIDE DEF j
  <2> QED BY <1>0, <2>1, <2>2, <2>3, SerialJob
<1>5. CASE CommitUpdateUser(h)
  BY <1>0, <1>5, IdleType, SerialJob, CommitKeepsEnabled DEF CommitUpdateUser, Finish
<1> QED BY <1>1, <1>2, <1>3, <1>4, <1>5

LEMMA SerialStep ==
  ASSUME AccountsInv, serial => SerialInv, [Next]_vars
  PROVE  serial' => SerialInv'
<1>0. serial' = serial
  BY DEF Next, vars
<1> SUFFICES ASSUME serial, SerialInv PROVE SerialInv'
  BY <1>0
<1>1. CASE UNCHANGED vars
  BY <1>1 DEF vars, SerialInv, LoneHandler, LiveUsersEnabled, SignsEnabledIn, ReadIsCurrent,
              FoundAll, Busy
<1>2. ASSUME NEW s \in Sessions, Logout(s)
      PROVE  SerialInv'
  <2>1. \A r \in Sessions : sessions'[r].state = "live" => sessions'[r] = sessions[r]
    BY <1>2 DEF Logout, AccountsInv, TypeOK, Session
  <2>2. UNCHANGED <<users, job>> /\ \A h \in Handlers : ~Busy(h)
    BY <1>2 DEF Logout, Busy
  <2> QED BY <2>1, <2>2 DEF SerialInv, LoneHandler, LiveUsersEnabled, SignsEnabledIn,
                            ReadIsCurrent, FoundAll, Busy
<1>3. ASSUME NEW h \in Handlers, HandlerStep(h)
      PROVE  SerialInv'
  BY <1>3, SignInStepSerial, UpdateStepSerial DEF HandlerStep
<1> QED BY <1>1, <1>2, <1>3 DEF Next

\* Served one by one: the handler in flight has read the rows as they are, it signs
\* in enabled accounts alone, and no live session is one of a disabled account.
THEOREM SerialInvariant == Spec => [](serial => SerialInv)
<1>1. Init => (serial => SerialInv)
  BY IdleType DEF Init, SerialInv, LoneHandler, LiveUsersEnabled, SignsEnabledIn, ReadIsCurrent,
                  FoundAll, Busy
<1>2. AccountsInv /\ (serial => SerialInv) /\ [Next]_vars => (serial => SerialInv)'
  BY SerialStep
<1> QED BY <1>1, <1>2, AccountsInvariant, PTL DEF Spec

\* API-CONTRACT.md: disabling an account revokes its sessions.  Served one by
\* one, no session of a disabled account is ever live.
THEOREM DisabledHasNoSession == Spec => []SerialDisabledHasNoSession
<1>1. (serial => SerialInv) => SerialDisabledHasNoSession
  BY DEF SerialInv, LiveUsersEnabled, SerialDisabledHasNoSession
<1> QED BY <1>1, SerialInvariant, PTL
=============================================================================
