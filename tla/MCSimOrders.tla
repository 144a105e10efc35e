---------------------------- MODULE MCSimOrders -----------------------------
(* Small instances of SimOrders.  With Price = 1000 and Fee = 1 (FEE_RATE   *)
(* is 0.001) a BUY of 5 lots reserves 5005.                                 *)
EXTENDS SimOrders, TLC

CONSTANTS o1, o2, o3, r1, r2, w1, w2, k1, k2, k3, x1

Symmetry == Permutations(Orders) \cup Permutations(Requests) \cup Permutations(Workers)
            \cup Permutations(CreateKeys) \cup Permutations(CancelKeys)

Payload(side, qty, lim) == [side |-> side, qty |-> qty, lim |-> lim]

\* Market orders, a resting (unmarketable) limit order on each side.
BookPayloads == {Payload("BUY", 5, MARKET), Payload("SELL", 5, MARKET),
                 Payload("BUY", 5, 999), Payload("SELL", 5, 1001)}
MarketPayloads == {Payload("BUY", 5, MARKET), Payload("SELL", 5, MARKET)}
BuyPayloads == {Payload("BUY", 5, MARKET)}
FillScenarios == {"IMMEDIATE_FULL_FILL", "PARTIAL_THEN_FILL"}
=============================================================================
