------------------------------ MODULE MCOutbox -------------------------------
(* Small instances of Outbox: two rows, of which one may be unroutable.       *)
EXTENDS Outbox, TLC

CONSTANTS p1, p2, c1, c2

Symmetry == Permutations(Publishers) \cup Permutations(Consumers)
=============================================================================
