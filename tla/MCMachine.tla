------------------------------ MODULE MCMachine ------------------------------
(***************************************************************************)
(* Finite instance of Machine for TLC: the releases that may be published  *)
(* (one as old as the installed version, a newer one with and one without  *)
(* a digest, and a newer one nobody has attached an installer to) and the  *)
(* dates clients send.                                                     *)
(***************************************************************************)
EXTENDS Machine

VersionOf(n, stable) == [number |-> n, stable |-> stable]

MCFirstInstalled == VersionOf(1, FALSE)

MCReleases ==
  {[version |-> VersionOf(1, FALSE), installer |-> TRUE, digest |-> TRUE],
   [version |-> VersionOf(1, TRUE), installer |-> TRUE, digest |-> TRUE],
   [version |-> VersionOf(2, TRUE), installer |-> TRUE, digest |-> FALSE],
   [version |-> VersionOf(3, TRUE), installer |-> FALSE, digest |-> FALSE]}

\* The ends of months around a leap day and the turn of a year.
DatesOf(y, m, days) == {[year |-> y, month |-> m, day |-> d] : d \in days}

MCSomeDates ==
  DatesOf(2023, 12, {30, 31}) \cup DatesOf(2024, 1, {31})
    \cup DatesOf(2024, 2, {1, 28, 29}) \cup DatesOf(2024, 3, {1, 31})

MCHorizon == [year |-> 2024, month |-> 3, day |-> 31]
=============================================================================
