------------------------------- MODULE MCBooks -------------------------------
(***************************************************************************)
(* The three places that keep books of money: the real wallet's balances   *)
(* and ledger, the post-trade and valuation records of simulated fills,    *)
(* and the events of the financial boundary.  Their tables are disjoint    *)
(* and none calls another, so one run explores each for itself: "book" is  *)
(* the one that a behaviour is about.                                      *)
(***************************************************************************)
EXTENDS RealWallet, PostTrade, FinancialEvents

CONSTANTS w1, w2, u1, u2, m1, k1, k2, t1, d1, d2

\* Two wallets, whose owners are members of the tenant.
MCOwner == [w \in Wallets |-> IF w = w1 THEN u1 ELSE u2]

VARIABLE book

booksVars == <<book, vars, postTradeVars, eventVars>>

BooksInit ==
    /\ book \in {"wallet", "trades", "events"}
    /\ Init /\ PostTradeInit /\ EventsInit

BooksNext ==
    /\ \/ book = "wallet" /\ Next          /\ UNCHANGED <<postTradeVars, eventVars>>
       \/ book = "trades" /\ PostTradeNext /\ UNCHANGED <<vars, eventVars>>
       \/ book = "events" /\ EventsNext    /\ UNCHANGED <<vars, postTradeVars>>
    /\ UNCHANGED book

BooksSpec == BooksInit /\ [][BooksNext]_booksVars

Symmetry == Permutations(Withdrawals) \cup Permutations(Deposits)
            \cup Permutations(Executions)
=============================================================================
