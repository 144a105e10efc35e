----------------------------- MODULE MCPostTrade -----------------------------
(***************************************************************************)
(* Post-trade processing by itself: two fills of one account and one       *)
(* correction, which an analyst asks for and a manager approves.           *)
(***************************************************************************)
EXTENDS PostTrade, TLC

Symmetry == Permutations(Executions)
=============================================================================
