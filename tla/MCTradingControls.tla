-------------------------- MODULE MCTradingControls --------------------------
(* A small instance of TradingControls: two instruments, four requests.     *)
EXTENDS TradingControls, TLC

CONSTANTS i1, i2, k1, k2, k3, k4

Symmetry == Permutations(Instruments) \cup Permutations(Keys)
=============================================================================
