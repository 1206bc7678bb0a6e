------------------------- MODULE MCResourceService -------------------------
(***************************************************************************)
(* Finite instance of ResourceService for TLC.  Nothing orders clients, so *)
(* they may be permuted.                                                   *)
(***************************************************************************)
EXTENDS ResourceService, TLC

ClientSymmetry == Permutations(Clients)
=============================================================================
