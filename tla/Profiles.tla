------------------------------- MODULE Profiles -------------------------------
(***************************************************************************)
(* The household and its profile (services.py HouseholdService,            *)
(* planning_services.py HouseholdProfileService).  POST /households looks  *)
(* for a household and inserts one at its commit; PUT /household-profile   *)
(* reads the profile, checks the revision if the client sent one, and      *)
(* inserts the row or updates the columns that differ from what it read.   *)
(* Handlers of other threads pass between the two steps of each.           *)
(***************************************************************************)
EXTENDS FiniteSets, Naturals

CONSTANTS
  Writers,         \* threads of the pool that may serve these requests
  Houses,          \* bound: ids of households
  Values,          \* what a column of a profile may hold
  NoProfile,
  MaxProfileRevision   \* bound

ASSUME ProfilesConstants ==
  /\ MaxProfileRevision \in Nat
  /\ NoProfile \notin [people : Values, days : Values, revision : Nat]

VARIABLES
  households,      \* the live rows of households
  profile,         \* the row of household_profiles of one of them: what is put
                   \* into the row of another never touches it
  writers          \* what each thread is doing

profilesVars == <<households, profile, writers>>

\* adults, children, pets and country_code in one column, and preparedness_days.
Sent == [people : Values, days : Values]

Profile == [people : Values, days : Values, revision : Nat]

\* The profile a PUT has read, what it writes and the revision it expects (0 for
\* none); alone is history: has no other handler committed meanwhile.
Put == [seen : Profile \cup {NoProfile}, sent : Sent, expected : Nat, alone : BOOLEAN]

Creation == [alone : BOOLEAN]

NotWriting == <<>>

ProfilesTypeOK == /\ households \subseteq Houses
                  /\ profile \in Profile \cup {NoProfile}
                  /\ \A w \in Writers : \/ writers[w] = NotWriting
                                        \/ writers[w] \in Put \cup Creation

ProfilesInit == /\ households = {}
                /\ profile = NoProfile
                /\ writers = [w \in Writers |-> NotWriting]

Puts(w) == "sent" \in DOMAIN writers[w]
Creates(w) == DOMAIN writers[w] = {"alone"}

\* w is done, and all that the others have read before is old.
WriterCommits(w) ==
  writers' = [v \in Writers |-> IF v = w \/ writers[v] = NotWriting THEN NotWriting
                                ELSE [writers[v] EXCEPT !.alone = FALSE]]

WriterStarts(w, call) == writers' = [writers EXCEPT ![w] = call]

-----------------------------------------------------------------------------
\* HouseholdService.create: 409, and nothing changes, if there is a household.
StartCreateHousehold(w) == /\ writers[w] = NotWriting
                           /\ IF households = {} THEN WriterStarts(w, [alone |-> TRUE])
                                                 ELSE UNCHANGED writers
                           /\ UNCHANGED <<households, profile>>

CommitHousehold(w) == /\ Creates(w)
                      /\ \E h \in Houses \ households : households' = households \cup {h}
                      /\ WriterCommits(w)
                      /\ UNCHANGED profile

\* A revision of a profile that is not there is refused as well.
Accepted_IfThere(seen, expected) == seen # NoProfile \/ expected = 0
Accepted(seen, expected) ==
  expected = 0 \/ (seen # NoProfile /\ expected = seen.revision)

\* HouseholdProfileService.upsert up to the commit.  The payload names every
\* column: those the client left out have their default.
StartPut(w) ==
  /\ writers[w] = NotWriting
  /\ households # {}
  /\ profile # NoProfile => profile.revision < MaxProfileRevision
  /\ \E sent \in Sent, expected \in 0..MaxProfileRevision :
       /\ Accepted(profile, expected)
       /\ WriterStarts(w, [seen |-> profile, sent |-> sent, expected |-> expected,
                           alone |-> TRUE])
  /\ UNCHANGED <<households, profile>>

\* The UPDATE sets the columns that differ from what was read, and the revision.
Changed(row, put) ==
  [people   |-> IF put.sent.people = put.seen.people THEN row.people ELSE put.sent.people,
   days     |-> IF put.sent.days = put.seen.days THEN row.days ELSE put.sent.days,
   revision |-> put.seen.revision + 1]

CommitPut(w) ==
  /\ Puts(w)
  /\ LET put == writers[w]
     IN  \/ /\ put.seen = NoProfile /\ profile = NoProfile
            /\ profile' = [people |-> put.sent.people, days |-> put.sent.days, revision |-> 1]
            /\ WriterCommits(w)
         \/ /\ put.seen = NoProfile /\ profile # NoProfile
            /\ WriterStarts(w, NotWriting)        \* the primary key is taken: 500
            /\ UNCHANGED profile
         \/ /\ put.seen # NoProfile
            /\ profile' = Changed(profile, put)
            /\ WriterCommits(w)
  /\ UNCHANGED households

ProfilesNext == \E w \in Writers : \/ StartCreateHousehold(w) \/ CommitHousehold(w)
                                   \/ StartPut(w) \/ CommitPut(w)

ProfilesSpec == ProfilesInit /\ [][ProfilesNext]_profilesVars

-----------------------------------------------------------------------------
\* services.py, "This HomePrep Server already has a household", and
\* planning_services.py, "Revision mismatch": a creation nobody overtakes leaves
\* exactly one household; a PUT nobody overtakes leaves exactly what it sent,
\* on the revision after the one its client expected, or the first.  (Two
\* creations at once leave two households; two PUTs at once a row neither sent.)
LoneHouseholdWritesHold ==
  [][\A w \in Writers :
       writers[w] # NotWriting /\ writers'[w] = NotWriting /\ writers[w].alone =>
         IF Creates(w) THEN Cardinality(households') = 1
         ELSE LET put == writers[w]
              IN  /\ [people |-> profile'.people, days |-> profile'.days] = put.sent
                  /\ profile'.revision = IF profile = NoProfile THEN 1
                                         ELSE profile.revision + 1
                  /\ put.expected # 0 => profile'.revision = put.expected + 1]_profilesVars
=============================================================================
