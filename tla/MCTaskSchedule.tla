--------------------------- MODULE MCTaskSchedule ---------------------------
(***************************************************************************)
(* Finite instance of TaskSchedule for TLC.  Clients, tasks and resources  *)
(* are only compared for equality, so each set may be permuted.            *)
(***************************************************************************)
EXTENDS TaskSchedule, TLC

Symmetry == Permutations(Clients) \cup Permutations(Tasks) \cup Permutations(Resources)
=============================================================================
