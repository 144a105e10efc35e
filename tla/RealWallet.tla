----------------------------- MODULE RealWallet ------------------------------
(***************************************************************************)
(* The domain services of real_wallet/services.py for one tenant and one   *)
(* asset network: deposits, internal transfers, and withdrawals with their *)
(* holds and approvals, beside the double-entry ledger.                    *)
(*                                                                         *)
(* Every service is one transaction that locks the row it decides about    *)
(* (the deposit, the withdrawal, the balances) before it reads it, so each *)
(* is one step; what is checked are the sequences of calls that clients,   *)
(* approvers, the custody provider and the chain watcher can make.         *)
(* The feature flags are on.                                               *)
(***************************************************************************)
EXTENDS Integers, FiniteSets, Functions

CONSTANTS
    Wallets,        \* one per owner
    NoWallet,       \* no wallet, in a row that does not exist
    Members,        \* members of the tenant, the owners among them
    Owner,          \* the owner of each wallet
    Withdrawals,    \* withdrawals, by Idempotency-Key (unique in the tenant)
    Transfers,      \* internal transfers, by Idempotency-Key
    Deposits,       \* chain outputs <<transaction_hash, output_index>>
    Amounts,        \* amounts clients and the chain use
    Required        \* confirmations_required of the network

ASSUME WalletAssumption ==
    /\ NoWallet \notin Wallets /\ Owner \in [Wallets -> Members]
    /\ Amounts \subseteq Nat \ {0} /\ Required \in Nat
    /\ IsFiniteSet(Wallets) /\ IsFiniteSet(Members) /\ IsFiniteSet(Withdrawals)
    /\ IsFiniteSet(Transfers) /\ IsFiniteSet(Deposits)   \* keys are bounded columns

VARIABLES
    posted,     \* AssetBalance.posted_atomic
    held,       \* AssetBalance.held_atomic
    deposit,    \* Deposit rows
    transfer,   \* InternalTransfer rows, each with its ledger transaction
    withdrawal, \* Withdrawal rows, each with the state of its BalanceHold
    approvals,  \* WithdrawalApproval: the decision of each member
    captures    \* withdrawals with a ledger transaction "withdrawal-capture:<id>"

vars == <<posted, held, deposit, transfer, withdrawal, approvals, captures>>

NoDeposit    == [st |-> "NONE", wallet |-> NoWallet, amt |-> 0, conf |-> 0]
NoTransfer   == [st |-> "NONE", src |-> NoWallet, dst |-> NoWallet, amt |-> 0]
NoWithdrawal == [st |-> "NONE", wallet |-> NoWallet, amt |-> 0, hold |-> "NONE"]

Init == /\ posted = [w \in Wallets |-> 0] /\ held = [w \in Wallets |-> 0]
        /\ deposit = [d \in Deposits |-> NoDeposit]
        /\ transfer = [t \in Transfers |-> NoTransfer]
        /\ withdrawal = [k \in Withdrawals |-> NoWithdrawal]
        /\ approvals = [k \in Withdrawals |-> [m \in Members |-> "NONE"]]
        /\ captures = {}

\* Variant: what is held back is not subtracted.
available_Posted(w) == posted[w]

available_atomic(w) == posted[w] - held[w]

-----------------------------------------------------------------------------
(* Deposits.                                                               *)

record_detected_deposit(d, w, amt, conf) ==
    /\ deposit[d].st = "NONE"
    /\ deposit' = [deposit EXCEPT ![d] =
                      [st |-> IF conf > 0 THEN "CONFIRMING" ELSE "DETECTED",
                       wallet |-> w, amt |-> amt, conf |-> conf]]
    /\ UNCHANGED <<posted, held, transfer, withdrawal, approvals, captures>>

\* The chain watcher, which is not part of the repository: a confirmation is
\* added, or the transaction is dropped from the chain before it was credited.
ChainConfirms(d) ==
    /\ deposit[d].st \in {"DETECTED", "CONFIRMING"} /\ deposit[d].conf < Required
    /\ deposit' = [deposit EXCEPT ![d].st = "CONFIRMING", ![d].conf = @ + 1]
    /\ UNCHANGED <<posted, held, transfer, withdrawal, approvals, captures>>

ChainReorganizes(d) ==
    /\ deposit[d].st \in {"DETECTED", "CONFIRMING"}
    /\ deposit' = [deposit EXCEPT ![d].st = "REORGED"]
    /\ UNCHANGED <<posted, held, transfer, withdrawal, approvals, captures>>

\* Variant: a credited deposit is credited again when the call is repeated.
Creditable_Again(d) == deposit[d].st \notin {"NONE", "REORGED"} /\ deposit[d].conf >= Required

Creditable(d) == /\ deposit[d].st \notin {"NONE", "CREDITED", "REORGED"}
                 /\ deposit[d].conf >= Required

credit_deposit(d) ==
    /\ Creditable(d)
    /\ posted' = [posted EXCEPT ![deposit[d].wallet] = @ + deposit[d].amt]
    /\ deposit' = [deposit EXCEPT ![d].st = "CREDITED"]
    /\ UNCHANGED <<held, transfer, withdrawal, approvals, captures>>

\* A wallet gets its AssetBalance row with its first credited deposit.
HasBalance(w) == \E d \in Deposits : deposit[d].st = "CREDITED" /\ deposit[d].wallet = w

-----------------------------------------------------------------------------
(* Internal transfers.                                                     *)

create_internal_transfer(t, src, dst, amt) ==
    /\ transfer[t].st = "NONE" /\ src # dst
    /\ HasBalance(src) /\ HasBalance(dst) /\ available_atomic(src) >= amt
    /\ transfer' = [transfer EXCEPT ![t] = [st |-> "COMPLETED", src |-> src, dst |-> dst, amt |-> amt]]
    /\ posted' = [posted EXCEPT ![src] = @ - amt, ![dst] = @ + amt]
    /\ UNCHANGED <<held, deposit, withdrawal, approvals, captures>>

-----------------------------------------------------------------------------
(* Withdrawals.                                                            *)

\* create_hold and the withdrawal in one transaction.
request_withdrawal(k, w, amt) ==
    /\ withdrawal[k].st = "NONE"
    /\ HasBalance(w) /\ available_atomic(w) >= amt
    /\ held' = [held EXCEPT ![w] = @ + amt]
    /\ withdrawal' = [withdrawal EXCEPT ![k] =
                         [st |-> "REQUESTED", wallet |-> w, amt |-> amt, hold |-> "ACTIVE"]]
    /\ UNCHANGED <<posted, deposit, transfer, approvals, captures>>

\* _transition_hold of withdrawal k to target, and the withdrawal's new state.
Ends(k, st, target) ==
    LET w == withdrawal[k].wallet  amt == withdrawal[k].amt
    IN  /\ held' = [held EXCEPT ![w] = @ - amt]
        /\ posted' = IF target = "CAPTURED" THEN [posted EXCEPT ![w] = @ - amt] ELSE posted
        /\ withdrawal' = [withdrawal EXCEPT ![k].st = st, ![k].hold = target]

\* The same when the hold is not active any more.
EndsUnheld(k, st) == /\ withdrawal' = [withdrawal EXCEPT ![k].st = st]
                     /\ UNCHANGED <<held, posted>>

\* release_hold raises unless the hold is active.
cancel_withdrawal(k) ==
    /\ withdrawal[k].st = "REQUESTED" /\ withdrawal[k].hold = "ACTIVE"
    /\ Ends(k, "CANCELLED", "RELEASED")
    /\ UNCHANGED <<deposit, transfer, approvals, captures>>

\* Variant: the hold is released without looking at its state.
FailHold_Blind(k) == Ends(k, "FAILED", "RELEASED")

FailHold(k) == IF withdrawal[k].hold = "ACTIVE" THEN Ends(k, "FAILED", "RELEASED")
               ELSE EndsUnheld(k, "FAILED")

fail_withdrawal(k) ==
    /\ withdrawal[k].st \notin {"NONE", "COMPLETED", "CANCELLED", "FAILED"}
    /\ FailHold(k)
    /\ UNCHANGED <<deposit, transfer, approvals, captures>>

CaptureHold(k) == IF withdrawal[k].hold = "ACTIVE" THEN Ends(k, "COMPLETED", "CAPTURED")
                  ELSE EndsUnheld(k, "COMPLETED")

\* Variant: the hold is captured and no ledger transaction is posted.
complete_NoPosting(k) ==
    /\ withdrawal[k].st = "SIGNED"
    /\ CaptureHold(k)
    /\ UNCHANGED <<deposit, transfer, approvals, captures>>

\* SIGNED stands for SIGNED, BROADCAST and CONFIRMING.  post_transaction finds
\* an existing capture by its idempotency key.
complete_withdrawal(k) ==
    /\ withdrawal[k].st = "SIGNED"
    /\ captures' = captures \cup {k}
    /\ CaptureHold(k)
    /\ UNCHANGED <<deposit, transfer, approvals>>

\* The custody provider, outside the application, signs what is APPROVED.
CustodySigns(k) ==
    /\ withdrawal[k].st = "APPROVED"
    /\ withdrawal' = [withdrawal EXCEPT ![k].st = "SIGNED"]
    /\ UNCHANGED <<posted, held, deposit, transfer, approvals, captures>>

\* Variant: the wallet's owner may decide as well.
MayDecide_Owner(k, m) == approvals[k][m] = "NONE"

\* A member who is not the owner, once.
MayDecide(k, m) == m # Owner[withdrawal[k].wallet] /\ approvals[k][m] = "NONE"

\* The state after a decision; the state before it is not looked at.
Decided(st, decision, votes) ==
    IF decision = "REJECTED" THEN "REJECTED"
    ELSE IF Cardinality({m \in Members : votes[m] = "APPROVED"}) >= 2 THEN "APPROVED"
    ELSE st

approve_withdrawal(k, m, decision) ==
    LET votes == [approvals[k] EXCEPT ![m] = decision]
    IN  /\ withdrawal[k].st # "NONE" /\ MayDecide(k, m)
        /\ approvals' = [approvals EXCEPT ![k] = votes]
        /\ withdrawal' = [withdrawal EXCEPT ![k].st = Decided(@, decision, votes)]
        /\ UNCHANGED <<posted, held, deposit, transfer, captures>>

-----------------------------------------------------------------------------
DepositStep(d) ==
    \/ \E w \in Wallets, amt \in Amounts, conf \in 0 .. 1 : record_detected_deposit(d, w, amt, conf)
    \/ ChainConfirms(d) \/ ChainReorganizes(d) \/ credit_deposit(d)

WithdrawalStep(k) ==
    \/ \E w \in Wallets, amt \in Amounts : request_withdrawal(k, w, amt)
    \/ cancel_withdrawal(k) \/ fail_withdrawal(k) \/ complete_withdrawal(k)
    \/ \E m \in Members, decision \in {"APPROVED", "REJECTED"} : approve_withdrawal(k, m, decision)
    \/ CustodySigns(k)

Next ==
    \/ \E d \in Deposits : DepositStep(d)
    \/ \E t \in Transfers, src, dst \in Wallets, amt \in Amounts :
           create_internal_transfer(t, src, dst, amt)
    \/ \E k \in Withdrawals : WithdrawalStep(k)

Spec == Init /\ [][Next]_vars

-----------------------------------------------------------------------------
(* Properties.                                                             *)

WithdrawalStates == {"NONE", "REQUESTED", "APPROVED", "REJECTED", "SIGNED",
                     "COMPLETED", "CANCELLED", "FAILED"}

\* Rows have the shape of their tables, and the check constraints hold:
\* posted_atomic and held_atomic are never negative.
TypeOK ==
    /\ posted \in [Wallets -> Nat] /\ held \in [Wallets -> Nat]
    /\ deposit \in [Deposits -> [st : {"NONE", "DETECTED", "CONFIRMING", "CREDITED", "REORGED"},
                                 wallet : Wallets \cup {NoWallet}, amt : Nat, conf : Nat]]
    /\ transfer \in [Transfers -> [st : {"NONE", "COMPLETED"}, src : Wallets \cup {NoWallet},
                                   dst : Wallets \cup {NoWallet}, amt : Nat]]
    /\ withdrawal \in [Withdrawals -> [st : WithdrawalStates, wallet : Wallets \cup {NoWallet},
                                       amt : Nat, hold : {"NONE", "ACTIVE", "RELEASED", "CAPTURED"}]]
    /\ approvals \in [Withdrawals -> [Members -> {"NONE", "APPROVED", "REJECTED"}]]
    /\ captures \subseteq Withdrawals

SumAmounts(f, S) == SumFunctionOnSet([x \in S |-> f[x].amt], S)

\* held_atomic is the sum of the active holds and never exceeds posted_atomic,
\* over all orders of requests, cancels, failures, completions and transfers.
HeldIsActiveHolds ==
    \A w \in Wallets :
        /\ held[w] = SumAmounts(withdrawal, {k \in Withdrawals :
                         withdrawal[k].wallet = w /\ withdrawal[k].hold = "ACTIVE"})
        /\ held[w] <= posted[w]

\* Money is conserved: the balances of all wallets together are the credited
\* deposits, each counted once, less the captured holds.
MoneyConserved ==
    SumFunctionOnSet(posted, Wallets) =
        SumAmounts(deposit, {d \in Deposits : deposit[d].st = "CREDITED"})
        - SumAmounts(withdrawal, {k \in Withdrawals : withdrawal[k].hold = "CAPTURED"})

\* The customer's ledger account: credits less debits of the posted entries.
Ledger(w) ==
    SumAmounts(deposit, {d \in Deposits : deposit[d].st = "CREDITED" /\ deposit[d].wallet = w})
    + SumAmounts(transfer, {t \in Transfers : transfer[t].dst = w})
    - SumAmounts(transfer, {t \in Transfers : transfer[t].src = w})
    - SumAmounts(withdrawal, {k \in captures : withdrawal[k].wallet = w})

\* The balance projection and the ledger agree except for withdrawals that were
\* completed although their hold had been released; nothing else, in particular
\* no repeated completion, moves them apart.
LedgerExplainsBalance ==
    \A w \in Wallets :
        posted[w] = Ledger(w) + SumAmounts(withdrawal, {k \in captures :
                                    withdrawal[k].wallet = w /\ withdrawal[k].hold # "CAPTURED"})

\* Dual approval: custody never gets to sign, and nothing is completed, unless
\* two members other than the owner have approved.
SignedByTwo ==
    \A k \in Withdrawals : withdrawal[k].st \in {"APPROVED", "SIGNED", "COMPLETED"} =>
        Cardinality({m \in Members \ {Owner[withdrawal[k].wallet]} :
                        approvals[k][m] = "APPROVED"}) >= 2

\* "Cancellation/failure releases an active hold; completion captures it": a
\* completed withdrawal has taken its amount out of the customer's balance.
CompletionCapturesHold ==
    \A k \in Withdrawals : withdrawal[k].st = "COMPLETED" => withdrawal[k].hold = "CAPTURED"
=============================================================================
