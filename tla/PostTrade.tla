------------------------------ MODULE PostTrade ------------------------------
(***************************************************************************)
(* What a simulated fill writes beside the order: the canonical trade with *)
(* its settlement instruction, confirmation and position effect            *)
(* (apps/post_trade), and the tax lots, realized P&L and cost basis        *)
(* (apps/valuation).  A fill is one transaction that holds the locks of    *)
(* the reservation and the account; corrections and exceptions are worked  *)
(* on later, by two people, under the lock of their own row only.          *)
(*                                                                         *)
(* One instrument; prices and fees are whole amounts per unit, so that the *)
(* unit cost of a lot is exact.  Audit rows and events are left out.       *)
(***************************************************************************)
EXTENDS Integers, Sequences, FiniteSets, FiniteSetsExt, SequencesExt

CONSTANTS
    Accounts,       \* simulated accounts
    Executions,     \* execution ids of the simulated execution adapter
    Quantities,     \* quantities of fills
    Prices,         \* prices of fills, per unit
    UnitFee,        \* fee of a fill, per unit
    Corrections,    \* TradeCorrection rows
    Tickets,        \* PostTradeException rows
    Analysts,       \* users in post_trade_analyst
    TradeManagers,  \* users in post_trade_manager: AnalystRole and ManagerRole
    Nobody          \* an empty assigned_to, requested_by or approved_by

ASSUME PostTradeAssumption ==
    /\ Quantities \subseteq Nat \ {0} /\ Prices \subseteq Nat /\ UnitFee \in Nat
    /\ \A p \in Prices : p > UnitFee
    /\ Nobody \notin Analysts \cup TradeManagers

VARIABLES
    holding,        \* SimulatedPosition.quantity
    cash,           \* SimulatedAccount.total_balance, counted from its start
    trade,          \* Trade rows, each with its settlement instruction
    effects,        \* TradePositionEffect rows
    confirmations,  \* net_amount of the versions of a trade's confirmation
    lots,           \* TaxLot rows, in the order of their creation
    disposals,      \* TaxLotDisposition rows
    realized,       \* RealizedPnLEvent.realized_pnl of each selling trade
    costBasis,      \* CostBasisPosition of each account
    correction,     \* TradeCorrection rows
    ticket,         \* PostTradeException rows
    firstTaker      \* history: by ticket, who it was assigned to first

bookVars == <<lots, disposals, realized, costBasis>>
postTradeVars == <<holding, cash, trade, effects, confirmations, bookVars,
                   correction, ticket, firstTaker>>

Operators  == Analysts \cup TradeManagers
EffectTypes == {"REVERSAL", "CORRECTION", "CANCEL_AND_REBOOK"}

NoTrade      == [state |-> "NONE"]
NoCorrection == [status |-> "NONE"]
NoTicket     == [state |-> "NONE"]

Captured == {e \in Executions : trade[e].state # "NONE"}

PostTradeInit ==
    /\ holding = [a \in Accounts |-> 0] /\ cash = [a \in Accounts |-> 0]
    /\ trade = [e \in Executions |-> NoTrade]
    /\ effects = {}
    /\ confirmations = [e \in Executions |-> <<>>]
    /\ lots = <<>> /\ disposals = {}
    /\ realized = [e \in Executions |-> 0]
    /\ costBasis = [a \in Accounts |-> [quantity |-> 0, gross |-> 0]]
    /\ correction = [c \in Corrections |-> NoCorrection]
    /\ ticket = [x \in Tickets |-> NoTicket] /\ firstTaker = [x \in Tickets |-> Nobody]

-----------------------------------------------------------------------------
(* The lifecycle of a trade.                                               *)

TRANSITIONS == [
    CAPTURED              |-> {"VALIDATING", "EXCEPTION", "CANCELLED"},
    VALIDATING            |-> {"VALIDATED", "EXCEPTION", "FAILED"},
    VALIDATED             |-> {"ALLOCATION_PENDING", "ALLOCATED", "EXCEPTION"},
    ALLOCATION_PENDING    |-> {"ALLOCATED", "EXCEPTION"},
    ALLOCATED             |-> {"SETTLEMENT_PENDING", "EXCEPTION"},
    SETTLEMENT_PENDING    |-> {"SETTLEMENT_INSTRUCTED", "EXCEPTION", "CANCELLED"},
    SETTLEMENT_INSTRUCTED |-> {"SETTLEMENT_PROCESSING", "SETTLED", "EXCEPTION", "CANCELLED"},
    SETTLEMENT_PROCESSING |-> {"SETTLED", "EXCEPTION", "FAILED"},
    EXCEPTION             |-> {"VALIDATING", "FAILED", "REVERSED", "CANCELLED"},
    SETTLED               |-> {"REVERSED"}]

\* The states that process_simulated_fill takes a new trade through.
FillPath == <<"CAPTURED", "VALIDATING", "VALIDATED", "ALLOCATED", "SETTLEMENT_PENDING",
              "SETTLEMENT_INSTRUCTED", "SETTLEMENT_PROCESSING", "SETTLED">>

can_transition(from, to) == from \in DOMAIN TRANSITIONS /\ to \in TRANSITIONS[from]

-----------------------------------------------------------------------------
(* Tax lots, realized P&L and cost basis of one account.                   *)

LotsOf(ls, a) == {i \in DOMAIN ls : ls[i].account = a}
Remaining(ls) == [i \in DOMAIN ls |-> ls[i].remaining]
Cost(ls)      == [i \in DOMAIN ls |-> ls[i].remaining * ls[i].unit]

Open(ls, a) == SumFunctionOnSet(Remaining(ls), LotsOf(ls, a))

\* Variant: the newest lot first.
Ahead_Lifo(ls, a, i) == SumFunctionOnSet(Remaining(ls), {j \in LotsOf(ls, a) : j > i})

\* What the lots before lot i can still supply.
Ahead(ls, a, i) == SumFunctionOnSet(Remaining(ls), {j \in LotsOf(ls, a) : j < i})

\* Variant: a sale is taken from its first lot as far as that lot goes.
Taken_OneLot(ls, a, q, i) ==
    IF ls[i].account # a \/ Ahead(ls, a, i) > 0 THEN 0 ELSE Min({q, ls[i].remaining})

\* What a sale of q units takes from lot i.
Taken(ls, a, q, i) ==
    IF ls[i].account # a THEN 0
    ELSE Max({0, Min({q - Ahead(ls, a, i), ls[i].remaining})})

\* CostBasisService.calculate, after the lots have changed.
Calculated(ls, a) == [quantity |-> Open(ls, a), gross |-> SumFunctionOnSet(Cost(ls), LotsOf(ls, a))]

\* TaxLotService.open_for_trade.
open_for_trade(e, a, q, p) ==
    /\ lots' = Append(lots, [trade |-> e, account |-> a, original |-> q,
                             remaining |-> q, unit |-> p + UnitFee])
    /\ UNCHANGED <<disposals, realized>>

\* TaxLotService.dispose_fifo; too few lots raise, and the fill is rolled back.
dispose_fifo(e, a, q, p) ==
    LET taken == [i \in DOMAIN lots |-> Taken(lots, a, q, i)]
        used  == {i \in DOMAIN lots : taken[i] > 0}
        basis == SumFunctionOnSet([i \in DOMAIN lots |-> taken[i] * lots[i].unit], used)
    IN  /\ Open(lots, a) >= q
        /\ lots' = [i \in DOMAIN lots |-> [lots[i] EXCEPT !.remaining = @ - taken[i]]]
        /\ disposals' = disposals \cup {[lot |-> i, trade |-> e, quantity |-> taken[i],
                                         basis |-> taken[i] * lots[i].unit] : i \in used}
        /\ realized' = [realized EXCEPT ![e] = q * p - basis - q * UnitFee]

process_trade_accounting(e, a, side, q, p) ==
    /\ IF side = "BUY" THEN open_for_trade(e, a, q, p) ELSE dispose_fifo(e, a, q, p)
    /\ costBasis' = [costBasis EXCEPT ![a] = Calculated(lots', a)]

-----------------------------------------------------------------------------
(* The fill: settle_trade and process_simulated_fill, called by            *)
(* apply_execution in its transaction.                                     *)

Signed(side, q) == IF side = "BUY" THEN q ELSE -q

\* ObligationService.calculate: cash against units, and the fee.
Obligations(q, p) == [cash |-> q * p, asset |-> q, fee |-> q * UnitFee]

\* SettlementInstructionService.create_from_trade: the fee adds to what a buyer
\* delivers and is taken out of what a seller receives.
Instruction(side, q, p) ==
    LET due == Obligations(q, p)
    IN  IF side = "BUY" THEN [deliver |-> due.cash + due.fee, receive |-> due.asset]
                        ELSE [deliver |-> due.asset, receive |-> due.cash - due.fee]

\* TradeConfirmationService.generate.
NetAmount(side, q, p) == q * p + Signed(side, q * UnitFee)

\* A second delivery of the execution is found in the inbox and changes nothing.
process_simulated_fill(e, a, side, q, p) ==
    /\ e \notin Captured
    /\ side = "SELL" => holding[a] >= q
    /\ holding' = [holding EXCEPT ![a] = @ + Signed(side, q)]
    /\ cash' = [cash EXCEPT ![a] = @ - Signed(side, q * p) - q * UnitFee]
    /\ \A i \in 1 .. Len(FillPath) - 1 : can_transition(FillPath[i], FillPath[i + 1])
    /\ trade' = [trade EXCEPT ![e] =
            [state |-> Last(FillPath), version |-> Len(FillPath), account |-> a,
             side |-> side, quantity |-> q, price |-> p,
             instruction |-> Instruction(side, q, p)]]
    /\ effects' = effects \cup {[trade |-> e, type |-> "TRADE", quantity |-> Signed(side, q)]}
    /\ confirmations' = [confirmations EXCEPT ![e] = <<NetAmount(side, q, p)>>]
    /\ process_trade_accounting(e, a, side, q, p)
    /\ UNCHANGED <<correction, ticket, firstTaker>>

-----------------------------------------------------------------------------
(* TradeCorrectionService.                                                 *)

RequestCorrection(c, e, type, maker) ==
    /\ correction[c].status = "NONE" /\ e \in Captured
    /\ correction' = [correction EXCEPT ![c] =
            [status |-> "PENDING", trade |-> e, type |-> type, by |-> maker]]
    /\ UNCHANGED <<holding, cash, trade, effects, confirmations, bookVars, ticket, firstTaker>>

\* The one limit on corrections of the same trade is the unique (trade, effect_type).
ApproveCorrection(c, checker) ==
    LET e == correction[c].trade  type == correction[c].type
    IN  /\ correction[c].status = "PENDING" /\ correction[c].by # checker
        /\ \A f \in effects : <<f.trade, f.type>> # <<e, type>>
        /\ effects' = effects \cup {[trade |-> e, type |-> type,
                                     quantity |-> -Signed(trade[e].side, trade[e].quantity)]}
        /\ correction' = [correction EXCEPT ![c].status = "APPROVED"]
        /\ trade' = [trade EXCEPT ![e].state = "REVERSED", ![e].version = @ + 1]
        /\ confirmations' = [confirmations EXCEPT ![e] = Append(@, -Last(@))]
        /\ UNCHANGED <<holding, cash, bookVars, ticket, firstTaker>>

-----------------------------------------------------------------------------
(* PostTradeExceptionService and the operator API before it.  A request    *)
(* whose If-Match is not the row's version, or that repeats a key, changes *)
(* nothing.                                                                *)

LiveStates == {"OPEN", "ASSIGNED", "INVESTIGATING", "ESCALATED"}
Live(x) == ticket[x].state \in LiveStates

\* At most one live row for a trade and an exception type (a partial index).
OpenTicket(x, e, severity) ==
    /\ ticket[x].state = "NONE" /\ e \in Captured
    /\ \A y \in Tickets : Live(y) => ticket[y].trade # e
    /\ ticket' = [ticket EXCEPT ![x] =
            [state |-> "OPEN", trade |-> e, severity |-> severity,
             assigned |-> Nobody, requested |-> Nobody, approved |-> Nobody]]
    /\ UNCHANGED firstTaker

\* Variant: every assignment sets requested_by.
Requester_Last(x, u) == IF ticket[x].severity = "CRITICAL" THEN u ELSE ticket[x].requested

\* requested_by of a critical case is set if it is empty.
Requester(x, u) ==
    IF ticket[x].severity = "CRITICAL" /\ ticket[x].requested = Nobody
    THEN u ELSE ticket[x].requested

AssignTicket(x, u) ==
    /\ u \in Operators /\ ticket[x].state \in {"OPEN", "ESCALATED"}
    /\ ticket' = [ticket EXCEPT ![x].assigned = u, ![x].state = "ASSIGNED",
                                ![x].requested = Requester(x, u)]
    /\ firstTaker' = IF firstTaker[x] = Nobody THEN [firstTaker EXCEPT ![x] = u] ELSE firstTaker

EscalateTicket(x, u) ==
    /\ u \in Operators /\ ticket[x].state \in {"OPEN", "ASSIGNED", "INVESTIGATING"}
    /\ ticket' = [ticket EXCEPT ![x].state = "ESCALATED"] /\ UNCHANGED firstTaker

MayResolve(x, u) ==
    ticket[x].severity = "CRITICAL" => ticket[x].requested \notin {Nobody, u}

ResolveTicket(x, u) ==
    /\ u \in TradeManagers /\ Live(x) /\ MayResolve(x, u)
    /\ ticket' = [ticket EXCEPT ![x].state = "RESOLVED", ![x].approved = u]
    /\ UNCHANGED firstTaker

TicketStep(x) ==
    /\ \/ \E e \in Executions, severity \in {"HIGH", "CRITICAL"} : OpenTicket(x, e, severity)
       \/ \E u \in Operators : AssignTicket(x, u) \/ EscalateTicket(x, u) \/ ResolveTicket(x, u)
    /\ UNCHANGED <<holding, cash, trade, effects, confirmations, bookVars, correction>>

-----------------------------------------------------------------------------
PostTradeNext ==
    \/ \E e \in Executions, a \in Accounts, side \in {"BUY", "SELL"},
          q \in Quantities, p \in Prices : process_simulated_fill(e, a, side, q, p)
    \/ \E c \in Corrections, e \in Executions, type \in EffectTypes, u \in Operators :
          RequestCorrection(c, e, type, u)
    \/ \E c \in Corrections, u \in Operators : ApproveCorrection(c, u)
    \/ \E x \in Tickets : TicketStep(x)

PostTradeSpec == PostTradeInit /\ [][PostTradeNext]_postTradeVars

-----------------------------------------------------------------------------
(* Properties.                                                             *)

TradesOf(a) == {e \in Captured : trade[e].account = a}

\* The cash a trade's settlement instruction moves into the account.
InstructedCash(e) == IF trade[e].side = "BUY" THEN -trade[e].instruction.deliver
                                              ELSE trade[e].instruction.receive

SumQuantities(rows) == SumFunctionOnSet([r \in rows |-> r.quantity], rows)

\* PositionValuationService.quantity and the sum of the ValuationReconciler:
\* all effects of the account, whatever their type.
PositionQuantity(a) == SumQuantities({f \in effects : trade[f.trade].account = a})

\* The corrections of an account that were approved, and the units each took back.
Approved(a) == {c \in Corrections : correction[c].status = "APPROVED"
                                        /\ trade[correction[c].trade].account = a}
TakenBack(a) == [c \in Approved(a) |->
                    LET t == trade[correction[c].trade] IN Signed(t.side, t.quantity)]

\* Four books keep the position of an account and none reads another: the
\* simulated position that reservations are checked against, the open tax lots,
\* the cost basis and the position effects.  The first three agree at all times,
\* so that a sale the position covers is never rolled back for want of tax lots,
\* and the effects differ from them by the trades that corrections took back,
\* each approved correction once.  The cash balance is the sum of the settlement
\* instructions.
BooksAgree ==
    \A a \in Accounts :
        /\ Open(lots, a) = holding[a]
        /\ costBasis[a].quantity = holding[a]
        /\ PositionQuantity(a) = holding[a] - SumFunctionOnSet(TakenBack(a), Approved(a))
        /\ cash[a] = SumFunctionOnSet([e \in TradesOf(a) |-> InstructedCash(e)], TradesOf(a))

\* The POSITION_QUANTITY_MISMATCH check of the ValuationReconciler: the position
\* effects of an account add up to the quantity of its cost basis.
PositionMatchesEffects == \A a \in Accounts : PositionQuantity(a) = costBasis[a].quantity

\* Lots are used up in the order they were acquired, nothing is disposed of twice,
\* and no cost is lost: the realized P&L, computed lot by lot, is the cash gained
\* plus the cost basis of what is still held.
FifoExplainsPnL ==
    \A a \in Accounts :
        LET mine == LotsOf(lots, a)
            sold == {e \in TradesOf(a) : trade[e].side = "SELL"}
            used(i) == {d \in disposals : d.lot = i}
        IN  /\ \A i, j \in mine : i < j /\ used(j) # {} => lots[i].remaining = 0
            /\ \A i \in mine : lots[i].original - lots[i].remaining
                                   = SumQuantities(used(i))
            /\ SumFunctionOnSet(realized, sold) = cash[a] + costBasis[a].gross

\* A critical exception is closed by a manager other than the one who took it
\* first, however often it is escalated and assigned anew in between.
CriticalResolvedByTwo ==
    \A x \in Tickets :
        ticket[x].state = "RESOLVED" /\ ticket[x].severity = "CRITICAL"
            => firstTaker[x] \in Operators \ {ticket[x].approved}
=============================================================================
