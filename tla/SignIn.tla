-------------------------------- MODULE SignIn --------------------------------
(***************************************************************************)
(* The throttle of the sign-in (api/auth.py): the times of the wrong       *)
(* guesses are kept in the memory of the process, by host and user name.   *)
(* A request looks under a lock whether there are too many, verifies the   *)
(* password for a long time without it, and takes it again to note the     *)
(* failure or to forget them all; requests of other threads pass in        *)
(* between.                                                                *)
(***************************************************************************)
EXTENDS FiniteSetsExt, Naturals, Sequences

CONSTANTS
  Attempts,        \* threads of the pool that may serve a sign-in
  LoginKeys,       \* _login_key: host and user name
  MaxFailures,     \* LOGIN_MAX_FAILURES
  LoginWindow,     \* LOGIN_WINDOW_SECONDS, in ticks
  MaxClock         \* bound: so many ticks pass

ASSUME SignInConstants == /\ IsFiniteSet(Attempts)
                          /\ MaxFailures \in Nat \ {0} /\ LoginWindow \in Nat
                          /\ MaxClock \in Nat

VARIABLES
  clock,         \* monotonic()
  failures,      \* _LOGIN_FAILURES; a key that is not there has no failures
  attempts,      \* the key whose password each thread verifies, and its outcome
  guesses        \* history: the wrong guesses of a window, since the last right one

signInVars == <<clock, failures, attempts, guesses>>

NoAttempt == <<>>

SignInTypeOK == /\ clock \in 0..MaxClock
                /\ failures \in [LoginKeys -> Seq(0..MaxClock)]
                /\ attempts \in [Attempts -> {NoAttempt} \cup (LoginKeys \X BOOLEAN)]
                /\ guesses \in [LoginKeys -> Seq(0..MaxClock)]

SignInInit == /\ clock = 0
              /\ failures = [k \in LoginKeys |-> <<>>]
              /\ attempts = [a \in Attempts |-> NoAttempt]
              /\ guesses = [k \in LoginKeys |-> <<>>]

\* _prune_failures removes from the left, where the oldest are, up to the first that
\* is not out of the window: a thread reads the clock just before it takes the
\* lock, which is one step here.
Expired(times, now) ==
  Min({n \in 0..Len(times) : n < Len(times) => now - times[n + 1] <= LoginWindow})

Recent(times, now) == SubSeq(times, Expired(times, now) + 1, Len(times))

\* _is_login_blocked
Blocked_OneMore(k) == Len(Recent(failures[k], clock)) > MaxFailures
Blocked(k) == Len(Recent(failures[k], clock)) >= MaxFailures

\* The request is answered 429, or goes on to verify the password.  An unknown
\* or disabled user is a wrong guess like any other.
StartSignIn(a) ==
  /\ attempts[a] = NoAttempt
  /\ \E k \in LoginKeys :
       /\ failures' = [failures EXCEPT ![k] = Recent(failures[k], clock)]
       /\ \/ Blocked(k) /\ UNCHANGED attempts
          \/ ~Blocked(k) /\ \E right \in BOOLEAN :
                              attempts' = [attempts EXCEPT ![a] = <<k, right>>]
  /\ UNCHANGED <<clock, guesses>>

\* _record_login_failure
WrongPassword(a) ==
  /\ attempts[a] # NoAttempt /\ ~attempts[a][2]
  /\ LET k == attempts[a][1]
     IN  /\ failures' = [failures EXCEPT ![k] = Append(Recent(failures[k], clock), clock)]
         /\ guesses' = [guesses EXCEPT ![k] = Append(Recent(guesses[k], clock), clock)]
  /\ attempts' = [attempts EXCEPT ![a] = NoAttempt]
  /\ UNCHANGED clock

\* _clear_login_failures; the session it creates is a matter of Accounts.
RightPassword(a) ==
  /\ attempts[a] # NoAttempt /\ attempts[a][2]
  /\ failures' = [failures EXCEPT ![attempts[a][1]] = <<>>]
  /\ guesses' = [guesses EXCEPT ![attempts[a][1]] = <<>>]
  /\ attempts' = [attempts EXCEPT ![a] = NoAttempt]
  /\ UNCHANGED clock

Tick == /\ clock < MaxClock /\ clock' = clock + 1
        /\ UNCHANGED <<failures, attempts, guesses>>

SignInNext == \/ Tick
              \/ \E a \in Attempts : StartSignIn(a) \/ WrongPassword(a) \/ RightPassword(a)

-----------------------------------------------------------------------------
\* api/auth.py, LOGIN_MAX_FAILURES: since requests may pass the check together and
\* fail one after the other, a key may exceed the limit, but never by more than
\* the other threads of the pool, however long each verification takes; and
\* once its wrong guesses are a window old it is served again.
GuessesAreBounded ==
  \A k \in LoginKeys :
    /\ Len(Recent(guesses[k], clock)) < MaxFailures + Cardinality(Attempts)
    /\ Recent(guesses[k], clock) = <<>> => ~Blocked(k)
=============================================================================
