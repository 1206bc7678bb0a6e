----------------------------- MODULE MCAccounts -----------------------------
(***************************************************************************)
(* Finite instance of Accounts for TLC.  Nothing orders handlers, users    *)
(* or sessions, so each set may be permuted.                               *)
(***************************************************************************)
EXTENDS Accounts, TLC

Symmetry == Permutations(Handlers) \cup Permutations(Users) \cup Permutations(Sessions)
=============================================================================
