---------------------------- MODULE MCRealWallet -----------------------------
(* Small instances of RealWallet: two wallets, whose owners are members too. *)
EXTENDS RealWallet, TLC

CONSTANTS w1, w2, u1, u2, m1, m2, k1, k2, t1, d1, d2

MCOwner == [w \in Wallets |-> IF w = w1 THEN u1 ELSE u2]

Symmetry == Permutations(Withdrawals) \cup Permutations(Deposits)
            \cup Permutations(Members \ {u1, u2})
=============================================================================
