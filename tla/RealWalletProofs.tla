-------------------------- MODULE RealWalletProofs --------------------------
(***************************************************************************)
(* Proofs about RealWallet: the row shapes and check constraints, the two  *)
(* balance columns against the rows that explain them, conservation of     *)
(* money, and dual approval, for all wallets, amounts and numbers of rows. *)
(*                                                                         *)
(* The invariants that speak of money are equations between sums over the  *)
(* rows of a table.  Every service changes one row of one table and at     *)
(* most two balances, so the argument is the same for each: the lemmas     *)
(* below say what the changed row adds to and takes from every sum.        *)
(***************************************************************************)
EXTENDS RealWallet, SumTheorems, TLAPS

\* What the rows of a table say, as functions of the table.
Active(wd, w)     == {k \in Withdrawals : wd[k].wallet = w /\ wd[k].hold = "ACTIVE"}
Captured(wd)      == {k \in Withdrawals : wd[k].hold = "CAPTURED"}
Posted(wd, cp, w) == {k \in cp : wd[k].wallet = w}
Unheld(wd, cp, w) == {k \in cp : wd[k].wallet = w /\ wd[k].hold # "CAPTURED"}
Credited(dp)      == {d \in Deposits : dp[d].st = "CREDITED"}
CreditedTo(dp, w) == {d \in Deposits : dp[d].st = "CREDITED" /\ dp[d].wallet = w}
Into(tr, w)       == {t \in Transfers : tr[t].dst = w}
OutOf(tr, w)      == {t \in Transfers : tr[t].src = w}

\* The rows themselves: a row that does not exist names no wallet, and a row
\* that does names one; the owner of a wallet has no vote on its withdrawals;
\* a withdrawal with an active hold has no capture in the ledger, and one with
\* a captured hold has.
RowsOK ==
    /\ \A d \in Deposits : deposit[d].st # "NONE" => deposit[d].wallet \in Wallets
    /\ \A t \in Transfers : transfer[t].st = "NONE" =>
           transfer[t].src = NoWallet /\ transfer[t].dst = NoWallet
    /\ \A k \in Withdrawals :
           /\ withdrawal[k].st # "NONE" =>
                 /\ withdrawal[k].wallet \in Wallets
                 /\ approvals[k][Owner[withdrawal[k].wallet]] = "NONE"
           /\ withdrawal[k].st = "NONE" =>
                 /\ withdrawal[k].wallet = NoWallet /\ withdrawal[k].hold = "NONE"
                 /\ k \notin captures
                 /\ \A m \in Members : approvals[k][m] = "NONE"
           /\ withdrawal[k].hold = "ACTIVE" => k \notin captures
           /\ withdrawal[k].hold = "CAPTURED" => k \in captures

\* The inductive invariant.
IInv == /\ TypeOK /\ RowsOK
        /\ HeldIsActiveHolds /\ MoneyConserved /\ LedgerExplainsBalance
        /\ SignedByTwo

-----------------------------------------------------------------------------
(* Sums over rows.                                                         *)

\* The tables f and g, and the row sets S and T, differ at most in row x.
RowChange(D, x, f, S, g, T) ==
    /\ IsFiniteSet(D) /\ S \subseteq D /\ T \subseteq D /\ S \ {x} = T \ {x}
    /\ \A y \in D : f[y].amt \in Nat /\ g[y].amt \in Nat
    /\ \A y \in D \ {x} : g[y] = f[y]

\* Two sums of amounts over row sets that differ at most in one row.
LEMMA AmountsStep ==
    ASSUME NEW D, NEW x, NEW f, NEW S, NEW g, NEW T, RowChange(D, x, f, S, g, T)
    PROVE  /\ SumAmounts(g, T) = SumAmounts(f, S)
                 - (IF x \in S THEN f[x].amt ELSE 0) + (IF x \in T THEN g[x].amt ELSE 0)
           /\ SumAmounts(f, S) \in Nat
           /\ SumAmounts(g, T) \in Nat
           /\ x \in S => f[x].amt <= SumAmounts(f, S)
<1> DEFINE fa == [y \in S |-> f[y].amt]
           ga == [y \in T |-> g[y].amt]
<1>1. IsFiniteSet(S) /\ IsFiniteSet(T)
  BY FS_Subset DEF RowChange
<1>2. \A y \in S : fa[y] \in Nat /\ fa[y] = f[y].amt
  BY DEF RowChange
<1>3. \A y \in T : ga[y] \in Nat /\ ga[y] = g[y].amt
  BY DEF RowChange
<1>4. \A y \in S \ {x} : ga[y] = fa[y]
  BY DEF RowChange
<1>5. SumAmounts(f, S) = SumFunctionOnSet(fa, S) /\ SumAmounts(g, T) = SumFunctionOnSet(ga, T)
  BY DEF SumAmounts
<1> HIDE DEF fa, ga
<1>6. /\ SumFunctionOnSet(fa, S) \in Nat
      /\ \A y \in S : fa[y] <= SumFunctionOnSet(fa, S)
      /\ SumFunctionOnSet(ga, T) \in Nat
  BY <1>1, <1>2, <1>3, SumNat
<1>7. SumFunctionOnSet(ga, T) = SumFunctionOnSet(fa, S)
           - (IF x \in S THEN fa[x] ELSE 0) + (IF x \in T THEN ga[x] ELSE 0)
  <2>1. (\A y \in S : fa[y] \in Int) /\ (\A y \in T : ga[y] \in Int)
    BY <1>2, <1>3
  <2>2. DifferAt(x, fa, S, ga, T)
    BY <1>1, <1>4, <2>1 DEF RowChange, DifferAt
  <2> QED BY <2>2, SumStep
<1> QED BY <1>2, <1>3, <1>5, <1>6, <1>7

\* The types of the tables, the part of TypeOK that the sums need.
DepositRows(dp)     == \A d \in Deposits : dp[d].amt \in Nat
TransferRows(tr)    == \A t \in Transfers : tr[t].amt \in Nat
WithdrawalRows(wd)  == \A k \in Withdrawals : wd[k].amt \in Nat

Part(c, n) == IF c THEN n ELSE 0

\* A changed deposit row moves the two sums over credited deposits.
LEMMA DepositRow ==
    ASSUME NEW dp, NEW ep, DepositRows(dp), DepositRows(ep), NEW d \in Deposits,
           \A e \in Deposits \ {d} : ep[e] = dp[e], NEW w
    PROVE  /\ SumAmounts(ep, Credited(ep)) = SumAmounts(dp, Credited(dp))
                 - Part(dp[d].st = "CREDITED", dp[d].amt)
                 + Part(ep[d].st = "CREDITED", ep[d].amt)
           /\ SumAmounts(ep, CreditedTo(ep, w)) = SumAmounts(dp, CreditedTo(dp, w))
                 - Part(dp[d].st = "CREDITED" /\ dp[d].wallet = w, dp[d].amt)
                 + Part(ep[d].st = "CREDITED" /\ ep[d].wallet = w, ep[d].amt)
           /\ SumAmounts(dp, Credited(dp)) \in Nat
           /\ SumAmounts(dp, CreditedTo(dp, w)) \in Nat
<1>1. IsFiniteSet(Deposits)
  BY WalletAssumption
<1>2. /\ Credited(dp) \in SUBSET Deposits /\ Credited(ep) \in SUBSET Deposits
      /\ Credited(dp) \ {d} = Credited(ep) \ {d}
      /\ d \in Credited(dp) <=> dp[d].st = "CREDITED"
      /\ d \in Credited(ep) <=> ep[d].st = "CREDITED"
  BY DEF Credited
<1>3. /\ CreditedTo(dp, w) \in SUBSET Deposits /\ CreditedTo(ep, w) \in SUBSET Deposits
      /\ CreditedTo(dp, w) \ {d} = CreditedTo(ep, w) \ {d}
      /\ d \in CreditedTo(dp, w) <=> dp[d].st = "CREDITED" /\ dp[d].wallet = w
      /\ d \in CreditedTo(ep, w) <=> ep[d].st = "CREDITED" /\ ep[d].wallet = w
  BY DEF CreditedTo
<1>4. (\A y \in Deposits : dp[y].amt \in Nat) /\ (\A y \in Deposits : ep[y].amt \in Nat)
  BY DEF DepositRows
<1>5. /\ SumAmounts(ep, Credited(ep)) = SumAmounts(dp, Credited(dp))
            - (IF d \in Credited(dp) THEN dp[d].amt ELSE 0)
            + (IF d \in Credited(ep) THEN ep[d].amt ELSE 0)
      /\ SumAmounts(dp, Credited(dp)) \in Nat
  <2>1. RowChange(Deposits, d, dp, Credited(dp), ep, Credited(ep))
    BY <1>1, <1>2, <1>4 DEF RowChange
  <2> QED BY <2>1, AmountsStep
<1>6. /\ SumAmounts(ep, CreditedTo(ep, w)) = SumAmounts(dp, CreditedTo(dp, w))
            - (IF d \in CreditedTo(dp, w) THEN dp[d].amt ELSE 0)
            + (IF d \in CreditedTo(ep, w) THEN ep[d].amt ELSE 0)
      /\ SumAmounts(dp, CreditedTo(dp, w)) \in Nat
  <2>1. RowChange(Deposits, d, dp, CreditedTo(dp, w), ep, CreditedTo(ep, w))
    BY <1>1, <1>3, <1>4 DEF RowChange
  <2> QED BY <2>1, AmountsStep
<1> QED BY <1>2, <1>3, <1>5, <1>6 DEF Part

\* A changed transfer row moves the sums of what came in and went out.
LEMMA TransferRow ==
    ASSUME NEW tr, NEW ur, TransferRows(tr), TransferRows(ur), NEW t \in Transfers,
           \A s \in Transfers \ {t} : ur[s] = tr[s], NEW w
    PROVE  /\ SumAmounts(ur, Into(ur, w)) = SumAmounts(tr, Into(tr, w))
                 - Part(tr[t].dst = w, tr[t].amt) + Part(ur[t].dst = w, ur[t].amt)
           /\ SumAmounts(ur, OutOf(ur, w)) = SumAmounts(tr, OutOf(tr, w))
                 - Part(tr[t].src = w, tr[t].amt) + Part(ur[t].src = w, ur[t].amt)
           /\ SumAmounts(tr, Into(tr, w)) \in Nat
           /\ SumAmounts(tr, OutOf(tr, w)) \in Nat
<1>1. IsFiniteSet(Transfers)
  BY WalletAssumption
<1>2. /\ Into(tr, w) \in SUBSET Transfers /\ Into(ur, w) \in SUBSET Transfers
      /\ Into(tr, w) \ {t} = Into(ur, w) \ {t}
      /\ t \in Into(tr, w) <=> tr[t].dst = w
      /\ t \in Into(ur, w) <=> ur[t].dst = w
  BY DEF Into
<1>3. /\ OutOf(tr, w) \in SUBSET Transfers /\ OutOf(ur, w) \in SUBSET Transfers
      /\ OutOf(tr, w) \ {t} = OutOf(ur, w) \ {t}
      /\ t \in OutOf(tr, w) <=> tr[t].src = w
      /\ t \in OutOf(ur, w) <=> ur[t].src = w
  BY DEF OutOf
<1>4. (\A y \in Transfers : tr[y].amt \in Nat) /\ (\A y \in Transfers : ur[y].amt \in Nat)
  BY DEF TransferRows
<1>5. /\ SumAmounts(ur, Into(ur, w)) = SumAmounts(tr, Into(tr, w))
            - (IF t \in Into(tr, w) THEN tr[t].amt ELSE 0)
            + (IF t \in Into(ur, w) THEN ur[t].amt ELSE 0)
      /\ SumAmounts(tr, Into(tr, w)) \in Nat
  <2>1. RowChange(Transfers, t, tr, Into(tr, w), ur, Into(ur, w))
    BY <1>1, <1>2, <1>4 DEF RowChange
  <2> QED BY <2>1, AmountsStep
<1>6. /\ SumAmounts(ur, OutOf(ur, w)) = SumAmounts(tr, OutOf(tr, w))
            - (IF t \in OutOf(tr, w) THEN tr[t].amt ELSE 0)
            + (IF t \in OutOf(ur, w) THEN ur[t].amt ELSE 0)
      /\ SumAmounts(tr, OutOf(tr, w)) \in Nat
  <2>1. RowChange(Transfers, t, tr, OutOf(tr, w), ur, OutOf(ur, w))
    BY <1>1, <1>3, <1>4 DEF RowChange
  <2> QED BY <2>1, AmountsStep
<1> QED BY <1>2, <1>3, <1>5, <1>6 DEF Part

\* A changed withdrawal row, and the capture of that withdrawal, move the sums
\* of active holds, captured holds, captures, and captures without a hold.
LEMMA WithdrawalRow ==
    ASSUME NEW wd, NEW xd, WithdrawalRows(wd), WithdrawalRows(xd), NEW k \in Withdrawals,
           \A j \in Withdrawals \ {k} : xd[j] = wd[j],
           NEW cp, cp \subseteq Withdrawals, NEW dp, dp \subseteq Withdrawals,
           cp \ {k} = dp \ {k}, NEW w
    PROVE  /\ SumAmounts(xd, Active(xd, w)) = SumAmounts(wd, Active(wd, w))
                 - Part(wd[k].wallet = w /\ wd[k].hold = "ACTIVE", wd[k].amt)
                 + Part(xd[k].wallet = w /\ xd[k].hold = "ACTIVE", xd[k].amt)
           /\ SumAmounts(xd, Captured(xd)) = SumAmounts(wd, Captured(wd))
                 - Part(wd[k].hold = "CAPTURED", wd[k].amt)
                 + Part(xd[k].hold = "CAPTURED", xd[k].amt)
           /\ SumAmounts(xd, Posted(xd, dp, w)) = SumAmounts(wd, Posted(wd, cp, w))
                 - Part(k \in cp /\ wd[k].wallet = w, wd[k].amt)
                 + Part(k \in dp /\ xd[k].wallet = w, xd[k].amt)
           /\ SumAmounts(xd, Unheld(xd, dp, w)) = SumAmounts(wd, Unheld(wd, cp, w))
                 - Part(k \in cp /\ wd[k].wallet = w /\ wd[k].hold # "CAPTURED", wd[k].amt)
                 + Part(k \in dp /\ xd[k].wallet = w /\ xd[k].hold # "CAPTURED", xd[k].amt)
           /\ SumAmounts(wd, Active(wd, w)) \in Nat
           /\ SumAmounts(wd, Captured(wd)) \in Nat
           /\ SumAmounts(wd, Posted(wd, cp, w)) \in Nat
           /\ SumAmounts(wd, Unheld(wd, cp, w)) \in Nat
           /\ wd[k].wallet = w /\ wd[k].hold = "ACTIVE" =>
                 wd[k].amt <= SumAmounts(wd, Active(wd, w))
<1>1. IsFiniteSet(Withdrawals)
  BY WalletAssumption
<1>2. (\A y \in Withdrawals : wd[y].amt \in Nat) /\ (\A y \in Withdrawals : xd[y].amt \in Nat)
  BY DEF WithdrawalRows
<1>3. /\ Active(wd, w) \in SUBSET Withdrawals /\ Active(xd, w) \in SUBSET Withdrawals
      /\ Active(wd, w) \ {k} = Active(xd, w) \ {k}
      /\ k \in Active(wd, w) <=> wd[k].wallet = w /\ wd[k].hold = "ACTIVE"
      /\ k \in Active(xd, w) <=> xd[k].wallet = w /\ xd[k].hold = "ACTIVE"
  BY DEF Active
<1>4. /\ Captured(wd) \in SUBSET Withdrawals /\ Captured(xd) \in SUBSET Withdrawals
      /\ Captured(wd) \ {k} = Captured(xd) \ {k}
      /\ k \in Captured(wd) <=> wd[k].hold = "CAPTURED"
      /\ k \in Captured(xd) <=> xd[k].hold = "CAPTURED"
  BY DEF Captured
<1>5. /\ Posted(wd, cp, w) \in SUBSET Withdrawals /\ Posted(xd, dp, w) \in SUBSET Withdrawals
      /\ Posted(wd, cp, w) \ {k} = Posted(xd, dp, w) \ {k}
      /\ k \in Posted(wd, cp, w) <=> k \in cp /\ wd[k].wallet = w
      /\ k \in Posted(xd, dp, w) <=> k \in dp /\ xd[k].wallet = w
  BY DEF Posted
<1>6. /\ Unheld(wd, cp, w) \in SUBSET Withdrawals /\ Unheld(xd, dp, w) \in SUBSET Withdrawals
      /\ Unheld(wd, cp, w) \ {k} = Unheld(xd, dp, w) \ {k}
      /\ k \in Unheld(wd, cp, w) <=> k \in cp /\ wd[k].wallet = w /\ wd[k].hold # "CAPTURED"
      /\ k \in Unheld(xd, dp, w) <=> k \in dp /\ xd[k].wallet = w /\ xd[k].hold # "CAPTURED"
  BY DEF Unheld
<1>7. /\ SumAmounts(xd, Active(xd, w)) = SumAmounts(wd, Active(wd, w))
            - (IF k \in Active(wd, w) THEN wd[k].amt ELSE 0)
            + (IF k \in Active(xd, w) THEN xd[k].amt ELSE 0)
      /\ SumAmounts(wd, Active(wd, w)) \in Nat
      /\ k \in Active(wd, w) => wd[k].amt <= SumAmounts(wd, Active(wd, w))
  <2>1. RowChange(Withdrawals, k, wd, Active(wd, w), xd, Active(xd, w))
    BY <1>1, <1>2, <1>3 DEF RowChange
  <2> QED BY <2>1, AmountsStep
<1>8. /\ SumAmounts(xd, Captured(xd)) = SumAmounts(wd, Captured(wd))
            - (IF k \in Captured(wd) THEN wd[k].amt ELSE 0)
            + (IF k \in Captured(xd) THEN xd[k].amt ELSE 0)
      /\ SumAmounts(wd, Captured(wd)) \in Nat
  <2>1. RowChange(Withdrawals, k, wd, Captured(wd), xd, Captured(xd))
    BY <1>1, <1>2, <1>4 DEF RowChange
  <2> QED BY <2>1, AmountsStep
<1>9. /\ SumAmounts(xd, Posted(xd, dp, w)) = SumAmounts(wd, Posted(wd, cp, w))
            - (IF k \in Posted(wd, cp, w) THEN wd[k].amt ELSE 0)
            + (IF k \in Posted(xd, dp, w) THEN xd[k].amt ELSE 0)
      /\ SumAmounts(wd, Posted(wd, cp, w)) \in Nat
  <2>1. RowChange(Withdrawals, k, wd, Posted(wd, cp, w), xd, Posted(xd, dp, w))
    BY <1>1, <1>2, <1>5 DEF RowChange
  <2> QED BY <2>1, AmountsStep
<1>10. /\ SumAmounts(xd, Unheld(xd, dp, w)) = SumAmounts(wd, Unheld(wd, cp, w))
             - (IF k \in Unheld(wd, cp, w) THEN wd[k].amt ELSE 0)
             + (IF k \in Unheld(xd, dp, w) THEN xd[k].amt ELSE 0)
       /\ SumAmounts(wd, Unheld(wd, cp, w)) \in Nat
  <2>1. RowChange(Withdrawals, k, wd, Unheld(wd, cp, w), xd, Unheld(xd, dp, w))
    BY <1>1, <1>2, <1>6 DEF RowChange
  <2> QED BY <2>1, AmountsStep
<1>11. (k \in dp \/ k \notin dp) /\ wd[k].amt \in Nat /\ xd[k].amt \in Nat
  BY <1>2
<1> QED BY <1>3, <1>4, <1>5, <1>6, <1>7, <1>8, <1>9, <1>10, <1>11 DEF Part

-----------------------------------------------------------------------------
(* The three equations, with the tables as arguments.                      *)

HeldEq(p, h, wd) ==
    \A w \in Wallets : h[w] = SumAmounts(wd, Active(wd, w)) /\ h[w] <= p[w]

MoneyEq(p, dp, wd) ==
    SumFunctionOnSet(p, Wallets) =
        SumAmounts(dp, Credited(dp)) - SumAmounts(wd, Captured(wd))

LedgerEq(p, dp, tr, wd, cp) ==
    \A w \in Wallets :
        p[w] = (SumAmounts(dp, CreditedTo(dp, w)) + SumAmounts(tr, Into(tr, w))
                - SumAmounts(tr, OutOf(tr, w)) - SumAmounts(wd, Posted(wd, cp, w)))
               + SumAmounts(wd, Unheld(wd, cp, w))

\* The invariants are these equations, before and after a step.
LEMMA Restated ==
    /\ HeldIsActiveHolds <=> HeldEq(posted, held, withdrawal)
    /\ MoneyConserved <=> MoneyEq(posted, deposit, withdrawal)
    /\ LedgerExplainsBalance <=> LedgerEq(posted, deposit, transfer, withdrawal, captures)
    /\ HeldIsActiveHolds' <=> HeldEq(posted', held', withdrawal')
    /\ MoneyConserved' <=> MoneyEq(posted', deposit', withdrawal')
    /\ LedgerExplainsBalance' <=> LedgerEq(posted', deposit', transfer', withdrawal', captures')
BY DEF HeldIsActiveHolds, MoneyConserved, LedgerExplainsBalance, Ledger,
       HeldEq, MoneyEq, LedgerEq, Active, Captured, Posted, Unheld,
       Credited, CreditedTo, Into, OutOf

\* What the sums need of the type invariant.
LEMMA TypeFacts ==
    ASSUME TypeOK
    PROVE  /\ DepositRows(deposit) /\ TransferRows(transfer) /\ WithdrawalRows(withdrawal)
           /\ captures \subseteq Withdrawals
BY DEF TypeOK, DepositRows, TransferRows, WithdrawalRows

\* The sums of the equations are natural numbers.
LedgerSumsNat(w) ==
    /\ SumAmounts(deposit, CreditedTo(deposit, w)) \in Nat
    /\ SumAmounts(transfer, Into(transfer, w)) \in Nat
    /\ SumAmounts(transfer, OutOf(transfer, w)) \in Nat
    /\ SumAmounts(withdrawal, Posted(withdrawal, captures, w)) \in Nat
    /\ SumAmounts(withdrawal, Unheld(withdrawal, captures, w)) \in Nat
    /\ SumAmounts(withdrawal, Captured(withdrawal)) \in Nat
    /\ SumAmounts(deposit, Credited(deposit)) \in Nat

\* They are, when the tables have their types.
LEMMA LedgerSums ==
    ASSUME TypeOK, NEW w
    PROVE  LedgerSumsNat(w)
<1>1. RowChange(Deposits, w, deposit, CreditedTo(deposit, w), deposit, CreditedTo(deposit, w))
  BY TypeFacts, WalletAssumption DEF RowChange, DepositRows, CreditedTo
<1>2. RowChange(Deposits, w, deposit, Credited(deposit), deposit, Credited(deposit))
  BY TypeFacts, WalletAssumption DEF RowChange, DepositRows, Credited
<1>3. RowChange(Transfers, w, transfer, Into(transfer, w), transfer, Into(transfer, w))
  BY TypeFacts, WalletAssumption DEF RowChange, TransferRows, Into
<1>4. RowChange(Transfers, w, transfer, OutOf(transfer, w), transfer, OutOf(transfer, w))
  BY TypeFacts, WalletAssumption DEF RowChange, TransferRows, OutOf
<1>5. RowChange(Withdrawals, w, withdrawal, Posted(withdrawal, captures, w),
                withdrawal, Posted(withdrawal, captures, w))
  BY TypeFacts, WalletAssumption DEF RowChange, WithdrawalRows, Posted
<1>6. RowChange(Withdrawals, w, withdrawal, Unheld(withdrawal, captures, w),
                withdrawal, Unheld(withdrawal, captures, w))
  BY TypeFacts, WalletAssumption DEF RowChange, WithdrawalRows, Unheld
<1>7. RowChange(Withdrawals, w, withdrawal, Captured(withdrawal), withdrawal, Captured(withdrawal))
  BY TypeFacts, WalletAssumption DEF RowChange, WithdrawalRows, Captured
<1> QED BY <1>1, <1>2, <1>3, <1>4, <1>5, <1>6, <1>7, AmountsStep DEF LedgerSumsNat

-----------------------------------------------------------------------------
(* Deposits.                                                               *)

\* The parts of the invariant that a deposit step leaves alone.
DepositFrame == UNCHANGED <<held, transfer, withdrawal, approvals, captures>>

\* Steps before the credit change a row that is not credited, to one that is
\* not credited either.
LEMMA QuietDepositStep ==
    ASSUME IInv, NEW d \in Deposits, TypeOK', DepositFrame, posted' = posted,
           deposit[d].st # "CREDITED", deposit'[d].st # "CREDITED",
           deposit'[d].st # "NONE" => deposit'[d].wallet \in Wallets,
           \A e \in Deposits \ {d} : deposit'[e] = deposit[e]
    PROVE  IInv'
<1> USE DEF IInv
<1>1. DepositRows(deposit) /\ DepositRows(deposit')
  BY DEF TypeOK, DepositRows
<1>2. RowsOK'
  BY DEF RowsOK, DepositFrame
<1>3. HeldIsActiveHolds'
  BY Restated DEF DepositFrame
<1>4. MoneyConserved'
  <2>1. SumAmounts(deposit', Credited(deposit')) = SumAmounts(deposit, Credited(deposit))
    <3>1. /\ SumAmounts(deposit', Credited(deposit')) = SumAmounts(deposit, Credited(deposit))
                 - Part(deposit[d].st = "CREDITED", deposit[d].amt)
                 + Part(deposit'[d].st = "CREDITED", deposit'[d].amt)
          /\ SumAmounts(deposit, Credited(deposit)) \in Nat
      BY <1>1, DepositRow
    <3> QED BY <3>1 DEF Part
  <2>2. MoneyEq(posted, deposit, withdrawal)
    BY Restated
  <2>3. MoneyEq(posted', deposit', withdrawal')
    BY <2>1, <2>2 DEF MoneyEq, DepositFrame
  <2> QED BY <2>3, Restated
<1>5. LedgerExplainsBalance'
  <2>1. ASSUME NEW w \in Wallets
        PROVE  SumAmounts(deposit', CreditedTo(deposit', w))
                 = SumAmounts(deposit, CreditedTo(deposit, w))
    <3>1. /\ SumAmounts(deposit', CreditedTo(deposit', w)) = SumAmounts(deposit, CreditedTo(deposit, w))
                 - Part(deposit[d].st = "CREDITED" /\ deposit[d].wallet = w, deposit[d].amt)
                 + Part(deposit'[d].st = "CREDITED" /\ deposit'[d].wallet = w, deposit'[d].amt)
          /\ SumAmounts(deposit, CreditedTo(deposit, w)) \in Nat
      BY <1>1, DepositRow
    <3> QED BY <3>1 DEF Part
  <2>2. LedgerEq(posted, deposit, transfer, withdrawal, captures)
    BY Restated
  <2>3. LedgerEq(posted', deposit', transfer', withdrawal', captures')
    BY <2>1, <2>2 DEF LedgerEq, DepositFrame
  <2> QED BY <2>3, Restated
<1>6. SignedByTwo'
  BY DEF SignedByTwo, DepositFrame
<1> QED BY <1>2, <1>3, <1>4, <1>5, <1>6

\* credit_deposit adds the amount to the balance, to the credited deposits and
\* to the ledger, once: the row was not credited before.
LEMMA CreditStep ==
    ASSUME IInv, NEW d \in Deposits, credit_deposit(d)
    PROVE  IInv'
<1> DEFINE w0 == deposit[d].wallet
           amt == deposit[d].amt
<1> USE DEF IInv
<1>1. /\ deposit[d].st # "CREDITED" /\ w0 \in Wallets /\ amt \in Nat
      /\ posted' = [posted EXCEPT ![w0] = @ + amt]
      /\ DepositFrame
  BY DEF credit_deposit, Creditable, RowsOK, TypeOK, DepositFrame
<1>2. /\ deposit'[d].st = "CREDITED" /\ deposit'[d].wallet = w0 /\ deposit'[d].amt = amt
      /\ \A e \in Deposits \ {d} : deposit'[e] = deposit[e]
  BY DEF credit_deposit, TypeOK
<1>3. TypeOK'
  BY DEF credit_deposit, Creditable, RowsOK, TypeOK
<1>4. RowsOK'
  BY <1>1, <1>2 DEF RowsOK, DepositFrame
<1>5. DepositRows(deposit) /\ DepositRows(deposit')
  BY <1>3 DEF TypeOK, DepositRows
<1>6. /\ posted \in [Wallets -> Nat] /\ held \in [Wallets -> Nat]
      /\ posted'[w0] = posted[w0] + amt
      /\ \A v \in Wallets \ {w0} : posted'[v] = posted[v]
  BY <1>1 DEF TypeOK
<1>7. HeldIsActiveHolds'
  <2>1. HeldEq(posted, held, withdrawal)
    BY Restated
  <2>2. HeldEq(posted', held', withdrawal')
    <3> SUFFICES ASSUME NEW v \in Wallets
                 PROVE  held'[v] = SumAmounts(withdrawal', Active(withdrawal', v)) /\ held'[v] <= posted'[v]
      BY DEF HeldEq
    <3>1. held[v] = SumAmounts(withdrawal, Active(withdrawal, v)) /\ held[v] <= posted[v]
      BY <2>1 DEF HeldEq
    <3>2. posted[v] <= posted'[v] /\ posted[v] \in Nat /\ posted'[v] \in Nat /\ held[v] \in Nat
      BY <1>1, <1>6
    <3> QED BY <1>1, <3>1, <3>2 DEF DepositFrame
  <2> QED BY <2>2, Restated
<1>8. MoneyConserved'
  <2>1. MoneyEq(posted, deposit, withdrawal)
    BY Restated
  <2>2. /\ SumAmounts(deposit', Credited(deposit')) = SumAmounts(deposit, Credited(deposit))
                 - Part(deposit[d].st = "CREDITED", deposit[d].amt)
                 + Part(deposit'[d].st = "CREDITED", deposit'[d].amt)
        /\ SumAmounts(deposit, Credited(deposit)) \in Nat
    BY <1>2, <1>5, DepositRow
  <2>3. SumAmounts(deposit', Credited(deposit')) = SumAmounts(deposit, Credited(deposit)) + amt
    BY <1>1, <1>2, <2>2 DEF Part
  <2>4. /\ SumFunctionOnSet(posted', Wallets) = SumFunctionOnSet(posted, Wallets) + amt
        /\ SumFunctionOnSet(posted, Wallets) \in Int
    <3>1. posted \in [Wallets -> Int] /\ posted' \in [Wallets -> Int]
      BY <1>3, <1>6 DEF TypeOK
    <3>2. DifferAt(w0, posted, Wallets, posted', Wallets)
      BY <1>6, <3>1, WalletAssumption DEF DifferAt
    <3>3. w0 \in Wallets
      BY <1>1
    <3>4. /\ SumFunctionOnSet(posted', Wallets)
                = SumFunctionOnSet(posted, Wallets) - posted[w0] + posted'[w0]
          /\ SumFunctionOnSet(posted, Wallets) \in Int
      <4> HIDE DEF w0
      <4> QED BY <3>2, <3>3, SumStep
    <3> QED BY <1>1, <1>6, <3>1, <3>4
  <2>5. SumAmounts(withdrawal, Captured(withdrawal)) \in Int
    BY LedgerSums DEF LedgerSumsNat
  <2>6. MoneyEq(posted', deposit', withdrawal')
    BY <1>1, <2>1, <2>2, <2>3, <2>4, <2>5 DEF MoneyEq, DepositFrame
  <2> QED BY <2>6, Restated
<1>9. LedgerExplainsBalance'
  <2>1. LedgerEq(posted, deposit, transfer, withdrawal, captures)
    BY Restated
  <2>2. ASSUME NEW v \in Wallets
        PROVE  posted'[v] = (SumAmounts(deposit', CreditedTo(deposit', v)) + SumAmounts(transfer', Into(transfer', v))
                    - SumAmounts(transfer', OutOf(transfer', v)) - SumAmounts(withdrawal', Posted(withdrawal', captures', v)))
                   + SumAmounts(withdrawal', Unheld(withdrawal', captures', v))
    <3>1. /\ SumAmounts(deposit', CreditedTo(deposit', v)) = SumAmounts(deposit, CreditedTo(deposit, v))
                 - Part(deposit[d].st = "CREDITED" /\ deposit[d].wallet = v, deposit[d].amt)
                 + Part(deposit'[d].st = "CREDITED" /\ deposit'[d].wallet = v, deposit'[d].amt)
          /\ SumAmounts(deposit, CreditedTo(deposit, v)) \in Nat
      BY <1>2, <1>5, DepositRow
    <3>2. posted'[v] - posted[v] = SumAmounts(deposit', CreditedTo(deposit', v))
                                     - SumAmounts(deposit, CreditedTo(deposit, v))
      BY <1>1, <1>2, <1>6, <3>1 DEF Part
    <3>3. LedgerSumsNat(v)
      BY LedgerSums DEF IInv
    <3>4. posted[v] = (SumAmounts(deposit, CreditedTo(deposit, v)) + SumAmounts(transfer, Into(transfer, v))
                - SumAmounts(transfer, OutOf(transfer, v)) - SumAmounts(withdrawal, Posted(withdrawal, captures, v)))
               + SumAmounts(withdrawal, Unheld(withdrawal, captures, v))
      BY <2>1 DEF LedgerEq
    <3>5. posted[v] \in Int /\ posted'[v] \in Int /\ SumAmounts(deposit', CreditedTo(deposit', v)) \in Int
      BY <1>3, <1>6, <3>1, <1>2, <1>1 DEF TypeOK, Part
    <3> HIDE DEF IInv, w0, amt
    <3> QED BY <1>1, <3>2, <3>3, <3>4, <3>5 DEF DepositFrame, LedgerSumsNat
  <2>3. LedgerEq(posted', deposit', transfer', withdrawal', captures')
    BY <2>2 DEF LedgerEq
  <2> QED BY <2>3, Restated
<1>10. SignedByTwo'
  BY <1>1 DEF SignedByTwo, DepositFrame
<1> QED BY <1>3, <1>4, <1>7, <1>8, <1>9, <1>10

-----------------------------------------------------------------------------
(* Internal transfers.                                                     *)

\* create_internal_transfer takes the amount from one balance and gives it to
\* another, in the balances and in the ledger; what is held back stays covered.
LEMMA TransferStep ==
    ASSUME IInv, NEW t \in Transfers, NEW src \in Wallets, NEW dst \in Wallets,
           NEW amt \in Amounts, create_internal_transfer(t, src, dst, amt)
    PROVE  IInv'
<1> USE DEF IInv
<1>1. /\ src # dst /\ amt \in Nat /\ posted[src] - held[src] >= amt
      /\ transfer[t].st = "NONE" /\ transfer[t].src = NoWallet /\ transfer[t].dst = NoWallet
      /\ UNCHANGED <<held, deposit, withdrawal, approvals, captures>>
  BY WalletAssumption DEF create_internal_transfer, available_atomic, RowsOK
<1>2. /\ transfer'[t] = [st |-> "COMPLETED", src |-> src, dst |-> dst, amt |-> amt]
      /\ \A s \in Transfers \ {t} : transfer'[s] = transfer[s]
  BY DEF create_internal_transfer, TypeOK
<1>3. /\ posted \in [Wallets -> Nat] /\ held \in [Wallets -> Nat]
      /\ posted' = [posted EXCEPT ![src] = @ - amt, ![dst] = @ + amt]
  BY DEF TypeOK, create_internal_transfer
<1>4. /\ posted'[src] = posted[src] - amt /\ posted'[dst] = posted[dst] + amt
      /\ \A v \in Wallets \ {src, dst} : posted'[v] = posted[v]
      /\ DOMAIN posted' = Wallets
  BY <1>1, <1>3
<1>5. HeldEq(posted, held, withdrawal)
  BY Restated
<1>6. \A v \in Wallets : posted'[v] \in Nat /\ held[v] <= posted'[v]
  <2> SUFFICES ASSUME NEW v \in Wallets PROVE posted'[v] \in Nat /\ held[v] <= posted'[v]
    OBVIOUS
  <2>1. held[v] <= posted[v] /\ held[v] \in Nat /\ posted[v] \in Nat /\ amt \in Nat
    BY <1>1, <1>3, <1>5 DEF HeldEq
  <2>2. posted[src] - held[src] >= amt /\ posted[src] \in Nat /\ held[src] \in Nat
    BY <1>1, <1>3
  <2> QED BY <1>4, <2>1, <2>2
<1>7. TypeOK'
  <2>1. posted' \in [Wallets -> Nat]
    BY <1>3, <1>6
  <2>2. transfer' \in [Transfers -> [st : {"NONE", "COMPLETED"}, src : Wallets \cup {NoWallet},
                                   dst : Wallets \cup {NoWallet}, amt : Nat]]
    BY <1>1 DEF create_internal_transfer, TypeOK
  <2> QED BY <1>1, <2>1, <2>2 DEF TypeOK
<1>8. RowsOK'
  BY <1>1, <1>2 DEF RowsOK
<1>9. HeldIsActiveHolds'
  <2>1. HeldEq(posted', held', withdrawal')
    BY <1>1, <1>5, <1>6 DEF HeldEq
  <2> QED BY <2>1, Restated
<1>10. MoneyConserved'
  <2> DEFINE p == [v \in Wallets |-> IF v = src THEN posted[src] - amt ELSE posted[v]]
  <2>1. /\ \A v \in Wallets : posted[v] \in Int /\ p[v] \in Int /\ posted'[v] \in Int
        /\ \A v \in Wallets \ {src} : p[v] = posted[v]
        /\ \A v \in Wallets \ {dst} : posted'[v] = p[v]
        /\ p[src] = posted[src] - amt /\ p[dst] = posted[dst]
    BY <1>1, <1>3, <1>4, <1>6
  <2> HIDE DEF p
  <2>2. DifferAt(src, posted, Wallets, p, Wallets)
    BY <2>1, WalletAssumption DEF DifferAt
  <2>3. DifferAt(dst, p, Wallets, posted', Wallets)
    BY <2>1, WalletAssumption DEF DifferAt
  <2>4. /\ SumFunctionOnSet(p, Wallets) = SumFunctionOnSet(posted, Wallets) - posted[src] + p[src]
        /\ SumFunctionOnSet(posted, Wallets) \in Int
    BY <2>2, SumStep
  <2>5. SumFunctionOnSet(posted', Wallets) = SumFunctionOnSet(p, Wallets) - p[dst] + posted'[dst]
    BY <2>3, SumStep
  <2>6. SumFunctionOnSet(posted', Wallets) = SumFunctionOnSet(posted, Wallets)
    BY <1>1, <1>4, <2>1, <2>4, <2>5
  <2>7. MoneyEq(posted, deposit, withdrawal)
    BY Restated
  <2>8. MoneyEq(posted', deposit', withdrawal')
    BY <1>1, <2>6, <2>7 DEF MoneyEq
  <2> QED BY <2>8, Restated
<1>11. LedgerExplainsBalance'
  <2>1. LedgerEq(posted, deposit, transfer, withdrawal, captures)
    BY Restated
  <2>2. TransferRows(transfer) /\ TransferRows(transfer')
    BY <1>7 DEF TypeOK, TransferRows
  <2>3. ASSUME NEW v \in Wallets
        PROVE  posted'[v] = (SumAmounts(deposit', CreditedTo(deposit', v)) + SumAmounts(transfer', Into(transfer', v))
                    - SumAmounts(transfer', OutOf(transfer', v)) - SumAmounts(withdrawal', Posted(withdrawal', captures', v)))
                   + SumAmounts(withdrawal', Unheld(withdrawal', captures', v))
    <3>1. /\ SumAmounts(transfer', Into(transfer', v)) = SumAmounts(transfer, Into(transfer, v))
                 - Part(transfer[t].dst = v, transfer[t].amt) + Part(transfer'[t].dst = v, transfer'[t].amt)
          /\ SumAmounts(transfer', OutOf(transfer', v)) = SumAmounts(transfer, OutOf(transfer, v))
                 - Part(transfer[t].src = v, transfer[t].amt) + Part(transfer'[t].src = v, transfer'[t].amt)
      BY <1>2, <2>2, TransferRow
    <3>2. LedgerSumsNat(v)
      BY LedgerSums
    <3>3. v # NoWallet
      BY WalletAssumption
    <3>4. /\ SumAmounts(transfer', Into(transfer', v)) = SumAmounts(transfer, Into(transfer, v)) + Part(dst = v, amt)
          /\ SumAmounts(transfer', OutOf(transfer', v)) = SumAmounts(transfer, OutOf(transfer, v)) + Part(src = v, amt)
      BY <1>1, <1>2, <3>1, <3>2, <3>3 DEF Part, LedgerSumsNat
    <3>5. posted'[v] = posted[v] + Part(dst = v, amt) - Part(src = v, amt)
      BY <1>1, <1>3, <1>4 DEF Part
    <3>6. posted[v] = (SumAmounts(deposit, CreditedTo(deposit, v)) + SumAmounts(transfer, Into(transfer, v))
                - SumAmounts(transfer, OutOf(transfer, v)) - SumAmounts(withdrawal, Posted(withdrawal, captures, v)))
               + SumAmounts(withdrawal, Unheld(withdrawal, captures, v))
      BY <2>1 DEF LedgerEq
    <3>7. Part(dst = v, amt) \in Int /\ Part(src = v, amt) \in Int
      BY <1>1 DEF Part
    <3> HIDE DEF IInv
    <3> QED BY <1>1, <3>2, <3>4, <3>5, <3>6, <3>7 DEF LedgerSumsNat
  <2>4. LedgerEq(posted', deposit', transfer', withdrawal', captures')
    BY <2>3 DEF LedgerEq
  <2> QED BY <2>4, Restated
<1>12. SignedByTwo'
  BY <1>1 DEF SignedByTwo
<1> QED BY <1>7, <1>8, <1>9, <1>10, <1>11, <1>12

-----------------------------------------------------------------------------
(* Withdrawals.                                                            *)

\* Withdrawal k, of wallet v, has an active hold; is captured in the ledger;
\* is captured in the ledger although its hold was not.
ActiveAt(row, v)       == row.wallet = v /\ row.hold = "ACTIVE"
PostedAt(row, in, v)   == in /\ row.wallet = v
UnheldAt(row, in, v)   == in /\ row.wallet = v /\ row.hold # "CAPTURED"

\* A step on withdrawal k changes its row, its capture and the balance of w0.
WithdrawalChange(k, w0) ==
    /\ \A j \in Withdrawals \ {k} : withdrawal'[j] = withdrawal[j]
    /\ captures \ {k} = captures' \ {k}
    /\ UNCHANGED <<deposit, transfer>>
    /\ \A v \in Wallets \ {w0} : posted'[v] = posted[v]

\* The balances follow the row: the amount of the hold leaves held_atomic when
\* the hold ends, and posted_atomic when it is captured or when the ledger
\* gains a capture that a hold backs.
BalancesFollow(k, w0) ==
    LET row == withdrawal[k]  new == withdrawal'[k]
    IN  /\ posted'[w0] = posted[w0] + Part(row.hold = "CAPTURED", row.amt)
                                    - Part(new.hold = "CAPTURED", new.amt)
        /\ \A v \in Wallets :
              /\ held'[v] = held[v] - Part(ActiveAt(row, v), row.amt) + Part(ActiveAt(new, v), new.amt)
              /\ held'[v] <= posted'[v]
              /\ posted'[v] = posted[v]
                    + Part(PostedAt(row, k \in captures, v), row.amt)
                    - Part(PostedAt(new, k \in captures', v), new.amt)
                    - Part(UnheldAt(row, k \in captures, v), row.amt)
                    + Part(UnheldAt(new, k \in captures', v), new.amt)

\* If so, the equations are preserved.
LEMMA WithdrawalEquations ==
    ASSUME IInv, TypeOK', NEW k \in Withdrawals, NEW w0 \in Wallets,
           WithdrawalChange(k, w0), BalancesFollow(k, w0)
    PROVE  HeldIsActiveHolds' /\ MoneyConserved' /\ LedgerExplainsBalance'
<1> DEFINE row == withdrawal[k]
           new == withdrawal'[k]
<1> USE DEF IInv
<1>1. /\ WithdrawalRows(withdrawal) /\ WithdrawalRows(withdrawal')
      /\ captures \subseteq Withdrawals /\ captures' \subseteq Withdrawals
      /\ \A j \in Withdrawals \ {k} : withdrawal'[j] = withdrawal[j]
      /\ captures \ {k} = captures' \ {k}
      /\ row.amt \in Nat /\ new.amt \in Nat
  BY DEF TypeOK, WithdrawalRows, WithdrawalChange
<1>2. UNCHANGED <<deposit, transfer>>
  BY DEF WithdrawalChange
<1>3. ASSUME NEW v
      PROVE  /\ SumAmounts(withdrawal', Active(withdrawal', v)) = SumAmounts(withdrawal, Active(withdrawal, v))
                   - Part(ActiveAt(row, v), row.amt) + Part(ActiveAt(new, v), new.amt)
             /\ SumAmounts(withdrawal', Captured(withdrawal')) = SumAmounts(withdrawal, Captured(withdrawal))
                   - Part(row.hold = "CAPTURED", row.amt) + Part(new.hold = "CAPTURED", new.amt)
             /\ SumAmounts(withdrawal', Posted(withdrawal', captures', v))
                  = SumAmounts(withdrawal, Posted(withdrawal, captures, v))
                   - Part(PostedAt(row, k \in captures, v), row.amt)
                   + Part(PostedAt(new, k \in captures', v), new.amt)
             /\ SumAmounts(withdrawal', Unheld(withdrawal', captures', v))
                  = SumAmounts(withdrawal, Unheld(withdrawal, captures, v))
                   - Part(UnheldAt(row, k \in captures, v), row.amt)
                   + Part(UnheldAt(new, k \in captures', v), new.amt)
  BY <1>1, WithdrawalRow DEF ActiveAt, PostedAt, UnheldAt
<1>4. \A v \in Wallets : posted[v] \in Int /\ posted'[v] \in Int
  BY DEF TypeOK
<1>5. HeldIsActiveHolds'
  <2>1. HeldEq(posted, held, withdrawal)
    BY Restated
  <2>2. HeldEq(posted', held', withdrawal')
    BY <1>3, <2>1 DEF HeldEq, BalancesFollow
  <2> QED BY <2>2, Restated
<1>6. MoneyConserved'
  <2>1. DifferAt(w0, posted, Wallets, posted', Wallets)
    BY <1>4, WalletAssumption DEF DifferAt, WithdrawalChange
  <2>2. /\ SumFunctionOnSet(posted', Wallets)
              = SumFunctionOnSet(posted, Wallets) - posted[w0] + posted'[w0]
        /\ SumFunctionOnSet(posted, Wallets) \in Int
    BY <2>1, SumStep
  <2>3. posted'[w0] = posted[w0] + Part(row.hold = "CAPTURED", row.amt)
                                 - Part(new.hold = "CAPTURED", new.amt)
    BY DEF BalancesFollow
  <2>4. SumAmounts(withdrawal', Captured(withdrawal')) = SumAmounts(withdrawal, Captured(withdrawal))
          - Part(row.hold = "CAPTURED", row.amt) + Part(new.hold = "CAPTURED", new.amt)
    BY <1>3
  <2>5. /\ SumAmounts(withdrawal, Captured(withdrawal)) \in Nat
        /\ SumAmounts(deposit, Credited(deposit)) \in Nat
    BY LedgerSums DEF LedgerSumsNat
  <2>6. Part(row.hold = "CAPTURED", row.amt) \in Nat /\ Part(new.hold = "CAPTURED", new.amt) \in Nat
    BY <1>1 DEF Part
  <2>7. MoneyEq(posted, deposit, withdrawal)
    BY Restated
  <2>8. MoneyEq(posted', deposit', withdrawal')
    <3> HIDE DEF row, new, IInv
    <3> QED BY <1>2, <1>4, <2>2, <2>3, <2>4, <2>5, <2>6, <2>7 DEF MoneyEq
  <2> QED BY <2>8, Restated
<1>7. LedgerExplainsBalance'
  <2>1. LedgerEq(posted, deposit, transfer, withdrawal, captures)
    BY Restated
  <2>2. ASSUME NEW v \in Wallets
        PROVE  posted'[v] = (SumAmounts(deposit', CreditedTo(deposit', v)) + SumAmounts(transfer', Into(transfer', v))
                    - SumAmounts(transfer', OutOf(transfer', v)) - SumAmounts(withdrawal', Posted(withdrawal', captures', v)))
                   + SumAmounts(withdrawal', Unheld(withdrawal', captures', v))
    <3>1. LedgerSumsNat(v)
      BY LedgerSums
    <3>2. posted[v] = (SumAmounts(deposit, CreditedTo(deposit, v)) + SumAmounts(transfer, Into(transfer, v))
                - SumAmounts(transfer, OutOf(transfer, v)) - SumAmounts(withdrawal, Posted(withdrawal, captures, v)))
               + SumAmounts(withdrawal, Unheld(withdrawal, captures, v))
      BY <2>1 DEF LedgerEq
    <3> DEFINE p1 == Part(PostedAt(row, k \in captures, v), row.amt)
               p2 == Part(PostedAt(new, k \in captures', v), new.amt)
               u1 == Part(UnheldAt(row, k \in captures, v), row.amt)
               u2 == Part(UnheldAt(new, k \in captures', v), new.amt)
    <3>3. posted'[v] = posted[v] + p1 - p2 - u1 + u2
      BY DEF BalancesFollow
    <3>4. p1 \in Int /\ p2 \in Int /\ u1 \in Int /\ u2 \in Int
      BY <1>1 DEF Part
    <3>5. /\ SumAmounts(withdrawal', Posted(withdrawal', captures', v))
                  = SumAmounts(withdrawal, Posted(withdrawal, captures, v)) - p1 + p2
          /\ SumAmounts(withdrawal', Unheld(withdrawal', captures', v))
                  = SumAmounts(withdrawal, Unheld(withdrawal, captures, v)) - u1 + u2
      BY <1>3
    <3> HIDE DEF p1, p2, u1, u2, row, new, IInv
    <3> QED BY <1>2, <1>4, <3>1, <3>2, <3>3, <3>4, <3>5 DEF LedgerSumsNat
  <2>3. LedgerEq(posted', deposit', transfer', withdrawal', captures')
    BY <2>2 DEF LedgerEq
  <2> QED BY <2>3, Restated
<1> QED BY <1>5, <1>6, <1>7

\* Dual approval is kept by a step that casts no vote, when the state it moves
\* the withdrawal to needs the two votes only if the state before did.
LEMMA SignedKept ==
    ASSUME SignedByTwo, NEW k \in Withdrawals, approvals' = approvals,
           \A j \in Withdrawals \ {k} : withdrawal'[j] = withdrawal[j],
           withdrawal'[k].st \in {"APPROVED", "SIGNED", "COMPLETED"} =>
               /\ withdrawal[k].st \in {"APPROVED", "SIGNED", "COMPLETED"}
               /\ withdrawal'[k].wallet = withdrawal[k].wallet
    PROVE  SignedByTwo'
BY DEF SignedByTwo

\* request_withdrawal creates the row and its hold; the balance covers it.
LEMMA RequestStep ==
    ASSUME IInv, NEW k \in Withdrawals, NEW w \in Wallets, NEW amt \in Amounts,
           request_withdrawal(k, w, amt)
    PROVE  IInv'
<1> USE DEF IInv
<1>1. /\ withdrawal[k].st = "NONE" /\ withdrawal[k].wallet = NoWallet
      /\ withdrawal[k].hold = "NONE" /\ k \notin captures
      /\ posted[w] - held[w] >= amt /\ amt \in Nat
      /\ held' = [held EXCEPT ![w] = @ + amt]
      /\ UNCHANGED <<posted, deposit, transfer, approvals, captures>>
  BY WalletAssumption DEF request_withdrawal, available_atomic, RowsOK
<1>2. /\ withdrawal'[k] = [st |-> "REQUESTED", wallet |-> w, amt |-> amt, hold |-> "ACTIVE"]
      /\ \A j \in Withdrawals \ {k} : withdrawal'[j] = withdrawal[j]
  BY DEF request_withdrawal, TypeOK
<1>3. /\ posted \in [Wallets -> Nat] /\ held \in [Wallets -> Nat]
      /\ held'[w] = held[w] + amt /\ \A v \in Wallets \ {w} : held'[v] = held[v]
  BY <1>1 DEF TypeOK
<1>4. TypeOK'
  <2>1. held' \in [Wallets -> Nat]
    BY <1>1, <1>3
  <2>2. withdrawal' \in [Withdrawals -> [st : WithdrawalStates, wallet : Wallets \cup {NoWallet},
                                       amt : Nat, hold : {"NONE", "ACTIVE", "RELEASED", "CAPTURED"}]]
    BY <1>1 DEF request_withdrawal, TypeOK, WithdrawalStates
  <2> QED BY <1>1, <2>1, <2>2 DEF TypeOK
<1>5. RowsOK'
  BY <1>1, <1>2, WalletAssumption DEF RowsOK
<1>6. WithdrawalChange(k, w)
  BY <1>1, <1>2 DEF WithdrawalChange
<1>7. BalancesFollow(k, w)
  <2>1. ASSUME NEW v \in Wallets PROVE held'[v] <= posted'[v]
    <3>1. held[v] <= posted[v] /\ posted[v] \in Nat /\ held[v] \in Nat
      BY <1>3, Restated DEF HeldEq
    <3> QED BY <1>1, <1>3, <3>1
  <2>2. ASSUME NEW v \in Wallets
        PROVE  held'[v] = held[v] - 0 + Part(w = v, amt)
    BY <1>1, <1>3 DEF Part
  <2>3. NoWallet \notin Wallets /\ \A v \in Wallets : posted[v] \in Nat
    BY <1>3, WalletAssumption
  <2> QED BY <1>1, <1>2, <2>1, <2>2, <2>3 DEF BalancesFollow, Part, ActiveAt, PostedAt, UnheldAt
<1>8. HeldIsActiveHolds' /\ MoneyConserved' /\ LedgerExplainsBalance'
  BY <1>4, <1>6, <1>7, WithdrawalEquations
<1>9. SignedByTwo'
  BY <1>1, <1>2, SignedKept
<1> QED BY <1>4, <1>5, <1>8, <1>9

\* The row of withdrawal k after a step that changes its state and its hold.
RowMoves(k, st, hold) ==
    /\ withdrawal'[k].st = st /\ withdrawal'[k].hold = hold
    /\ withdrawal'[k].wallet = withdrawal[k].wallet /\ withdrawal'[k].amt = withdrawal[k].amt
    /\ \A j \in Withdrawals \ {k} : withdrawal'[j] = withdrawal[j]

\* A hold that ends: released, when the withdrawal is cancelled or fails, or
\* captured together with the ledger's capture, when it completes.
LEMMA HoldEnds ==
    ASSUME IInv, NEW k \in Withdrawals, NEW st \in WithdrawalStates \ {"NONE"},
           NEW target \in {"RELEASED", "CAPTURED"},
           withdrawal[k].st # "NONE", withdrawal[k].hold = "ACTIVE", Ends(k, st, target),
           captures' = IF target = "CAPTURED" THEN captures \cup {k} ELSE captures,
           st \in {"APPROVED", "SIGNED", "COMPLETED"} => withdrawal[k].st = "SIGNED",
           UNCHANGED <<deposit, transfer, approvals>>
    PROVE  IInv'
<1> DEFINE w == withdrawal[k].wallet
           amt == withdrawal[k].amt
<1> USE DEF IInv
<1>1. w \in Wallets /\ amt \in Nat /\ k \notin captures /\ w # NoWallet
  BY WalletAssumption DEF RowsOK, TypeOK
<1>2. RowMoves(k, st, target)
  BY DEF Ends, TypeOK, RowMoves
<1>3. /\ posted \in [Wallets -> Nat] /\ held \in [Wallets -> Nat]
      /\ held' = [held EXCEPT ![w] = @ - amt]
      /\ posted' = IF target = "CAPTURED" THEN [posted EXCEPT ![w] = @ - amt] ELSE posted
  BY DEF TypeOK, Ends
<1>4. amt <= held[w] /\ held[w] \in Nat /\ posted[w] \in Nat /\ held[w] <= posted[w]
  <2>1. held[w] = SumAmounts(withdrawal, Active(withdrawal, w)) /\ held[w] <= posted[w]
    BY <1>1, Restated DEF HeldEq
  <2>2. WithdrawalRows(withdrawal) /\ captures \subseteq Withdrawals
    BY TypeFacts
  <2>3. withdrawal[k].amt <= SumAmounts(withdrawal, Active(withdrawal, w))
    BY <2>2, WithdrawalRow
  <2> QED BY <1>1, <1>3, <2>1, <2>3
<1>5. /\ held'[w] = held[w] - amt /\ \A v \in Wallets \ {w} : held'[v] = held[v]
      /\ posted'[w] = posted[w] - Part(target = "CAPTURED", amt)
      /\ \A v \in Wallets \ {w} : posted'[v] = posted[v]
  BY <1>1, <1>3, <1>4 DEF Part
<1>6. TypeOK'
  <2>1. held' \in [Wallets -> Nat]
    BY <1>1, <1>3, <1>4
  <2>2. posted' \in [Wallets -> Nat]
    BY <1>1, <1>3, <1>4
  <2>3. withdrawal' \in [Withdrawals -> [st : WithdrawalStates, wallet : Wallets \cup {NoWallet},
                                       amt : Nat, hold : {"NONE", "ACTIVE", "RELEASED", "CAPTURED"}]]
    BY DEF Ends, TypeOK
  <2> QED BY <2>1, <2>2, <2>3 DEF TypeOK
<1>7. RowsOK'
  BY <1>1, <1>2 DEF RowsOK, RowMoves
<1>8. WithdrawalChange(k, w)
  BY <1>1, <1>2, <1>5 DEF WithdrawalChange, RowMoves
<1>9. BalancesFollow(k, w)
  <2>1. ASSUME NEW v \in Wallets PROVE held'[v] <= posted'[v]
    <3>1. held[v] <= posted[v] /\ posted[v] \in Nat /\ held[v] \in Nat
      BY <1>3, Restated DEF HeldEq
    <3> QED BY <1>1, <1>4, <1>5, <3>1 DEF Part
  <2>2. ASSUME NEW v \in Wallets
        PROVE  held'[v] = held[v] - Part(w = v, amt) + 0
    BY <1>1, <1>3, <1>4, <1>5 DEF Part
  <2>3. ASSUME NEW v \in Wallets
        PROVE  posted'[v] = posted[v] + 0 - Part(w = v /\ target = "CAPTURED", amt) - 0 + 0
    BY <1>1, <1>3, <1>4, <1>5 DEF Part
  <2>4. k \in captures' <=> target = "CAPTURED"
    BY <1>1
  <2> QED BY <1>1, <1>2, <1>4, <1>5, <2>1, <2>2, <2>3, <2>4
          DEF BalancesFollow, Part, ActiveAt, PostedAt, UnheldAt, RowMoves
<1>10. HeldIsActiveHolds' /\ MoneyConserved' /\ LedgerExplainsBalance'
  BY <1>1, <1>6, <1>8, <1>9, WithdrawalEquations
<1>11. SignedByTwo'
  BY <1>2, SignedKept DEF RowMoves
<1> QED BY <1>6, <1>7, <1>10, <1>11

\* A step that only changes the state of a withdrawal, or posts the capture of
\* one whose hold is not active any more: no balance moves.
LEMMA RowOnly ==
    ASSUME IInv, NEW k \in Withdrawals, NEW st \in WithdrawalStates \ {"NONE"},
           withdrawal[k].st # "NONE", EndsUnheld(k, st),
           \/ captures' = captures
           \/ captures' = captures \cup {k} /\ withdrawal[k].hold # "ACTIVE",
           UNCHANGED <<deposit, transfer>>, SignedByTwo',
           approvals' \in [Withdrawals -> [Members -> {"NONE", "APPROVED", "REJECTED"}]],
           \A j \in Withdrawals \ {k} : approvals'[j] = approvals[j],
           approvals'[k][Owner[withdrawal[k].wallet]] = "NONE"
    PROVE  IInv'
<1> DEFINE w == withdrawal[k].wallet
           amt == withdrawal[k].amt
<1> USE DEF IInv
<1>1. w \in Wallets /\ amt \in Nat
  BY DEF RowsOK, TypeOK
<1>2. RowMoves(k, st, withdrawal[k].hold) /\ UNCHANGED <<held, posted>>
  BY DEF EndsUnheld, TypeOK, RowMoves
<1>3. TypeOK'
  <2>1. withdrawal' \in [Withdrawals -> [st : WithdrawalStates, wallet : Wallets \cup {NoWallet},
                                       amt : Nat, hold : {"NONE", "ACTIVE", "RELEASED", "CAPTURED"}]]
    BY DEF EndsUnheld, TypeOK
  <2> QED BY <1>2, <2>1 DEF TypeOK
<1>4. RowsOK'
  BY <1>1, <1>2 DEF RowsOK, RowMoves
<1>5. WithdrawalChange(k, w)
  BY <1>1, <1>2 DEF WithdrawalChange, RowMoves
<1>6. BalancesFollow(k, w)
  <2>1. HeldEq(posted, held, withdrawal) /\ posted \in [Wallets -> Nat] /\ held \in [Wallets -> Nat]
    BY Restated DEF TypeOK
  <2>2. withdrawal[k].hold = "CAPTURED" => k \in captures
    BY DEF RowsOK
  <2> QED BY <1>1, <1>2, <2>1, <2>2 DEF BalancesFollow, Part, ActiveAt, PostedAt, UnheldAt, RowMoves, HeldEq
<1>7. HeldIsActiveHolds' /\ MoneyConserved' /\ LedgerExplainsBalance'
  BY <1>1, <1>3, <1>5, <1>6, WithdrawalEquations
<1> QED BY <1>3, <1>4, <1>7

\* approve_withdrawal: a vote is cast once, by a member who is not the owner, so
\* the approvals of others than the owner are all approvals, and only grow.
LEMMA ApproveStep ==
    ASSUME IInv, NEW k \in Withdrawals, NEW m \in Members,
           NEW decision \in {"APPROVED", "REJECTED"}, approve_withdrawal(k, m, decision)
    PROVE  IInv'
<1> DEFINE votes == [approvals[k] EXCEPT ![m] = decision]
           st == Decided(withdrawal[k].st, decision, votes)
           owner == Owner[withdrawal[k].wallet]
           Yes(v) == {x \in Members \ {owner} : v[x] = "APPROVED"}
<1> USE DEF IInv
<1>1. /\ withdrawal[k].st # "NONE" /\ withdrawal[k].st \in WithdrawalStates
      /\ m # owner /\ approvals[k][m] = "NONE" /\ approvals[k][owner] = "NONE"
      /\ owner \in Members
      /\ approvals[k] \in [Members -> {"NONE", "APPROVED", "REJECTED"}]
  BY WalletAssumption DEF approve_withdrawal, MayDecide, RowsOK, TypeOK
<1>2. /\ approvals' = [approvals EXCEPT ![k] = votes]
      /\ approvals'[k] = votes /\ \A j \in Withdrawals \ {k} : approvals'[j] = approvals[j]
      /\ UNCHANGED <<posted, held, deposit, transfer, captures>>
      /\ withdrawal' = [withdrawal EXCEPT ![k].st = st]
  BY DEF approve_withdrawal, TypeOK
<1>3. votes[owner] = "NONE" /\ votes \in [Members -> {"NONE", "APPROVED", "REJECTED"}]
  BY <1>1
<1>4. approvals' \in [Withdrawals -> [Members -> {"NONE", "APPROVED", "REJECTED"}]]
  BY <1>2, <1>3 DEF TypeOK
<1>5. st \in WithdrawalStates \ {"NONE"}
  BY <1>1 DEF Decided, WithdrawalStates
<1>6. EndsUnheld(k, st)
  BY <1>2 DEF EndsUnheld
<1>7. SignedByTwo'
  <2>1. RowMoves(k, st, withdrawal[k].hold)
    BY <1>2 DEF RowMoves, TypeOK
  <2>2. ASSUME st \in {"APPROVED", "SIGNED", "COMPLETED"}
        PROVE  Cardinality(Yes(votes)) >= 2
    <3>1. {x \in Members : votes[x] = "APPROVED"} = Yes(votes)
      BY <1>3
    <3>2. IsFiniteSet(Yes(votes)) /\ Cardinality(Yes(votes)) \in Nat
      BY WalletAssumption, FS_Subset, FS_CardinalityType
    <3>3. CASE Cardinality(Yes(votes)) >= 2
      BY <3>3
    <3>4. CASE ~(Cardinality(Yes(votes)) >= 2)
      <4>1. withdrawal[k].st \in {"APPROVED", "SIGNED", "COMPLETED"}
        BY <2>2, <3>1, <3>4 DEF Decided
      <4>2. Cardinality(Yes(approvals[k])) >= 2
        BY <4>1 DEF SignedByTwo
      <4>3. Yes(approvals[k]) \in SUBSET Yes(votes)
        BY <1>1
      <4>4. /\ Cardinality(Yes(approvals[k])) <= Cardinality(Yes(votes))
            /\ Cardinality(Yes(approvals[k])) \in Nat
        BY <3>2, <4>3, FS_Subset, FS_CardinalityType
      <4> QED BY <3>2, <4>2, <4>4
    <3> QED BY <3>3, <3>4
  <2>3. ASSUME NEW j \in Withdrawals,
               withdrawal'[j].st \in {"APPROVED", "SIGNED", "COMPLETED"}
        PROVE  Cardinality({x \in Members \ {Owner[withdrawal'[j].wallet]} :
                                approvals'[j][x] = "APPROVED"}) >= 2
    <3>1. CASE j = k
      <4>1. withdrawal'[j].st = st /\ withdrawal'[j].wallet = withdrawal[k].wallet
        BY <2>1, <3>1 DEF RowMoves
      <4>2. approvals'[j] = votes
        BY <1>2, <3>1
      <4> HIDE DEF st, votes
      <4> QED BY <2>2, <2>3, <4>1, <4>2
    <3>2. CASE j # k
      BY <1>2, <2>1, <2>3, <3>2 DEF RowMoves, SignedByTwo
    <3> QED BY <3>1, <3>2
  <2> QED BY <2>3 DEF SignedByTwo
<1>8. approvals'[k][owner] = "NONE"
  BY <1>2, <1>3
<1> HIDE DEF st, votes
<1> QED BY <1>1, <1>2, <1>4, <1>5, <1>6, <1>7, <1>8, RowOnly

\* The other steps on a withdrawal.
LEMMA WithdrawalSteps ==
    ASSUME IInv, NEW k \in Withdrawals, WithdrawalStep(k)
    PROVE  IInv'
<1>1. CASE \E w \in Wallets, amt \in Amounts : request_withdrawal(k, w, amt)
  BY <1>1, RequestStep
<1>2. CASE \E m \in Members, decision \in {"APPROVED", "REJECTED"} : approve_withdrawal(k, m, decision)
  BY <1>2, ApproveStep
<1>3. CASE cancel_withdrawal(k)
  BY <1>3, HoldEnds DEF cancel_withdrawal, WithdrawalStates
<1>4. /\ approvals \in [Withdrawals -> [Members -> {"NONE", "APPROVED", "REJECTED"}]]
      /\ withdrawal[k].st # "NONE" => approvals[k][Owner[withdrawal[k].wallet]] = "NONE"
      /\ SignedByTwo
  BY DEF IInv, TypeOK, RowsOK
<1>5. ASSUME NEW st, EndsUnheld(k, st) PROVE RowMoves(k, st, withdrawal[k].hold)
  BY <1>5 DEF EndsUnheld, IInv, TypeOK, RowMoves
<1>6. CASE fail_withdrawal(k)
  <2>1. CASE withdrawal[k].hold = "ACTIVE"
    BY <1>6, <2>1, HoldEnds DEF fail_withdrawal, FailHold, WithdrawalStates
  <2>2. CASE withdrawal[k].hold # "ACTIVE"
    <3>1. /\ EndsUnheld(k, "FAILED") /\ withdrawal[k].st # "NONE"
          /\ UNCHANGED <<deposit, transfer, approvals, captures>>
      BY <1>6, <2>2 DEF fail_withdrawal, FailHold
    <3>2. SignedByTwo'
      BY <1>4, <1>5, <3>1, SignedKept DEF RowMoves
    <3>3. "FAILED" \in WithdrawalStates \ {"NONE"}
      BY DEF WithdrawalStates
    <3> QED BY <1>4, <3>1, <3>2, <3>3, RowOnly
  <2> QED BY <2>1, <2>2
<1>7. CASE complete_withdrawal(k)
  <2>1. /\ withdrawal[k].st = "SIGNED" /\ captures' = captures \cup {k} /\ CaptureHold(k)
        /\ UNCHANGED <<deposit, transfer, approvals>>
        /\ "COMPLETED" \in WithdrawalStates \ {"NONE"}
    BY <1>7 DEF complete_withdrawal, WithdrawalStates
  <2>2. CASE withdrawal[k].hold = "ACTIVE"
    BY <2>1, <2>2, HoldEnds DEF CaptureHold
  <2>3. CASE withdrawal[k].hold # "ACTIVE"
    <3>1. EndsUnheld(k, "COMPLETED")
      BY <2>1, <2>3 DEF CaptureHold
    <3>2. SignedByTwo'
      BY <1>4, <1>5, <2>1, <3>1, SignedKept DEF RowMoves
    <3> QED BY <1>4, <2>1, <2>3, <3>1, <3>2, RowOnly
  <2> QED BY <2>2, <2>3
<1>8. CASE CustodySigns(k)
  <2>1. /\ EndsUnheld(k, "SIGNED") /\ withdrawal[k].st = "APPROVED"
        /\ UNCHANGED <<deposit, transfer, approvals, captures>>
        /\ "SIGNED" \in WithdrawalStates \ {"NONE"}
    BY <1>8 DEF CustodySigns, EndsUnheld, WithdrawalStates
  <2>2. SignedByTwo'
    BY <1>4, <1>5, <2>1, SignedKept DEF RowMoves
  <2> QED BY <1>4, <2>1, <2>2, RowOnly
<1> QED BY <1>1, <1>2, <1>3, <1>6, <1>7, <1>8 DEF WithdrawalStep

\* The steps on a deposit.
LEMMA DepositSteps ==
    ASSUME IInv, NEW d \in Deposits, DepositStep(d)
    PROVE  IInv'
<1>1. CASE credit_deposit(d)
  BY <1>1, CreditStep
<1>2. CASE \E w \in Wallets, amt \in Amounts, conf \in 0 .. 1 : record_detected_deposit(d, w, amt, conf)
  <2>1. PICK w \in Wallets, amt \in Amounts, conf \in 0 .. 1 : record_detected_deposit(d, w, amt, conf)
    BY <1>2
  <2>2. amt \in Nat /\ conf \in Nat
    BY WalletAssumption
  <2>3. TypeOK'
    BY <2>1, <2>2 DEF IInv, TypeOK, record_detected_deposit
  <2> QED BY <2>1, <2>2, <2>3, QuietDepositStep DEF IInv, TypeOK, record_detected_deposit, DepositFrame
<1>3. CASE ChainConfirms(d)
  <2>1. TypeOK'
    BY <1>3 DEF IInv, TypeOK, ChainConfirms
  <2> QED BY <1>3, <2>1, QuietDepositStep DEF IInv, TypeOK, RowsOK, ChainConfirms, DepositFrame
<1>4. CASE ChainReorganizes(d)
  <2>1. TypeOK'
    <3> DEFINE Row == [st : {"NONE", "DETECTED", "CONFIRMING", "CREDITED", "REORGED"},
                       wallet : Wallets \cup {NoWallet}, amt : Nat, conf : Nat]
    <3>1. deposit \in [Deposits -> Row]
      BY DEF IInv, TypeOK
    <3>2. [deposit[d] EXCEPT !.st = "REORGED"] \in Row
      BY <3>1
    <3>3. deposit' = [deposit EXCEPT ![d] = [deposit[d] EXCEPT !.st = "REORGED"]]
      BY <1>4 DEF ChainReorganizes
    <3>4. deposit' \in [Deposits -> Row]
      <4> HIDE DEF Row
      <4> QED BY <3>1, <3>2, <3>3
    <3> QED BY <1>4, <3>4 DEF IInv, TypeOK, ChainReorganizes
  <2> QED BY <1>4, <2>1, QuietDepositStep DEF IInv, TypeOK, RowsOK, ChainReorganizes, DepositFrame
<1> QED BY <1>1, <1>2, <1>3, <1>4 DEF DepositStep

-----------------------------------------------------------------------------
(* The theorems.                                                           *)

\* Every step preserves the inductive invariant, and it holds initially.
LEMMA Inductive == Spec => []IInv
<1>1. Init => IInv
  <2> SUFFICES ASSUME Init PROVE IInv
    OBVIOUS
  <2>1. TypeOK
    BY DEF Init, TypeOK, NoDeposit, NoTransfer, NoWithdrawal, WithdrawalStates
  <2>2. RowsOK
    BY DEF Init, RowsOK, NoDeposit, NoTransfer, NoWithdrawal
  <2>3. /\ \A w : Active(withdrawal, w) = {} /\ Posted(withdrawal, captures, w) = {}
               /\ Unheld(withdrawal, captures, w) = {} /\ CreditedTo(deposit, w) = {}
        /\ \A w \in Wallets : Into(transfer, w) = {} /\ OutOf(transfer, w) = {}
        /\ Captured(withdrawal) = {} /\ Credited(deposit) = {}
    BY WalletAssumption DEF Init, Active, Posted, Unheld, CreditedTo, Into, OutOf, Captured,
       Credited, NoDeposit, NoTransfer, NoWithdrawal
  <2>4. \A f : SumAmounts(f, {}) = 0
    BY SumEmpty DEF SumAmounts
  <2>5. SumFunctionOnSet(posted, Wallets) = 0
    <3>1. IsFiniteSet(Wallets) /\ \A w \in Wallets : posted[w] = 0
      BY WalletAssumption DEF Init
    <3> QED BY <3>1, SumZero
  <2>6. HeldEq(posted, held, withdrawal) /\ MoneyEq(posted, deposit, withdrawal)
        /\ LedgerEq(posted, deposit, transfer, withdrawal, captures)
    <3>1. \A w \in Wallets : posted[w] = 0 /\ held[w] = 0
      BY DEF Init
    <3>2. HeldEq(posted, held, withdrawal)
      BY <2>3, <2>4, <3>1 DEF HeldEq
    <3>3. MoneyEq(posted, deposit, withdrawal)
      BY <2>3, <2>4, <2>5 DEF MoneyEq
    <3>4. LedgerEq(posted, deposit, transfer, withdrawal, captures)
      BY <2>3, <2>4, <3>1 DEF LedgerEq
    <3> QED BY <3>2, <3>3, <3>4
  <2>7. SignedByTwo
    BY DEF Init, SignedByTwo, NoWithdrawal
  <2> QED BY <2>1, <2>2, <2>6, <2>7, Restated DEF IInv
<1>2. IInv /\ [Next]_vars => IInv'
  <2> SUFFICES ASSUME IInv, [Next]_vars PROVE IInv'
    OBVIOUS
  <2>1. CASE \E d \in Deposits : DepositStep(d)
    BY <2>1, DepositSteps
  <2>2. CASE \E t \in Transfers, src, dst \in Wallets, amt \in Amounts :
                 create_internal_transfer(t, src, dst, amt)
    BY <2>2, TransferStep
  <2>3. CASE \E k \in Withdrawals : WithdrawalStep(k)
    BY <2>3, WithdrawalSteps
  <2>4. CASE UNCHANGED vars
    <3>1. TypeOK' /\ RowsOK' /\ SignedByTwo'
      BY <2>4 DEF IInv, vars, TypeOK, RowsOK, SignedByTwo
    <3>2. HeldIsActiveHolds' /\ MoneyConserved' /\ LedgerExplainsBalance'
      BY <2>4, Restated DEF IInv, vars
    <3> QED BY <3>1, <3>2 DEF IInv
  <2> QED BY <2>1, <2>2, <2>3, <2>4 DEF Next
<1> QED BY <1>1, <1>2, PTL DEF Spec

\* The rows have the shape of their tables and no balance is ever negative.
THEOREM WalletTypes == Spec => []TypeOK
<1>1. IInv => TypeOK
  BY DEF IInv
<1> QED BY <1>1, Inductive, PTL

\* held_atomic is the sum of the active holds and is covered by posted_atomic,
\* whatever order requests, cancellations, failures, completions, votes and
\* transfers come in.
THEOREM HoldsAreCovered == Spec => []HeldIsActiveHolds
<1>1. IInv => HeldIsActiveHolds
  BY DEF IInv
<1> QED BY <1>1, Inductive, PTL

\* The balances together are the credited deposits less the captured holds.
THEOREM MoneyIsConserved == Spec => []MoneyConserved
<1>1. IInv => MoneyConserved
  BY DEF IInv
<1> QED BY <1>1, Inductive, PTL

\* The balance projection and the ledger differ only by withdrawals that were
\* completed after their hold was released.
THEOREM BalanceIsExplained == Spec => []LedgerExplainsBalance
<1>1. IInv => LedgerExplainsBalance
  BY DEF IInv
<1> QED BY <1>1, Inductive, PTL

\* Nothing is signed or completed without two approvals of others than the owner.
THEOREM DualApproval == Spec => []SignedByTwo
<1>1. IInv => SignedByTwo
  BY DEF IInv
<1> QED BY <1>1, Inductive, PTL

=============================================================================
