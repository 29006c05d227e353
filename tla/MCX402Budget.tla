--------------------------- MODULE MCX402Budget -----------------------------
(* Instances of X402Budget for TLC; the .cfg files choose the processes. *)
EXTENDS X402Budget, TLC

ClientSymmetry == Permutations(Clients)
=============================================================================
