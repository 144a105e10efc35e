------------------------------ MODULE SimOrders ------------------------------
(***************************************************************************)
(* The simulated order pipeline of apps/trading/application/simulation.py: *)
(* create, process_created_order, apply_execution and cancel, with the     *)
(* reservation and settlement adapter of integrations/financial and the    *)
(* deterministic execution adapter of integrations/execution.              *)
(*                                                                         *)
(* The database is PostgreSQL at READ COMMITTED.  A transaction that holds *)
(* the row lock of the order (or of the account) from its first write to   *)
(* its commit is one step of this model; whatever it read before it took   *)
(* that lock is read in an earlier step and kept in the process's own      *)
(* variables, so every stale read the locking permits can happen.          *)
(*                                                                         *)
(* One simulated account and one instrument are modelled: accounts and     *)
(* instruments share no row that these operations write.  Quantities are   *)
(* whole lots and the fee is an exact amount per lot.                      *)
(***************************************************************************)
EXTENDS Integers, FiniteSets, Functions

CONSTANTS
    Orders,       \* order ids (uuid4) that may still be handed out
    Requests,     \* threads serving HTTP requests
    Workers,      \* threads running process_created_order
    CreateKeys,   \* Idempotency-Key values of create requests
    CancelKeys,   \* Idempotency-Key values of cancel requests
    Payloads,     \* order payloads clients submit, see PayloadAssumption
    Scenarios,    \* execution scenarios the provider may be configured with
    Price,        \* SIMULATED_EXECUTION_PRICES of the instrument, per lot
    Fee,          \* Price * FEE_RATE, per lot
    InitBalance,  \* SimulatedAccount.total_balance when trading starts
    Inline,       \* SIMULATED_EXECUTION_INLINE
    MaxAborts,    \* bound: how many processing transactions may abort
    MaxReviews    \* bound: how often the subject's compliance decision may change

MARKET == 0       \* limit_price of an order of type MARKET (NULL in the code)

AllScenarios == {"IMMEDIATE_FULL_FILL", "PARTIAL_THEN_FILL",
                 "OPEN_THEN_CANCEL", "REJECT", "EXPIRE"}

ASSUME MoneyAssumption == Price \in Nat /\ Fee \in Nat /\ InitBalance \in Nat
                          /\ Price > Fee
ASSUME OrderAssumption == IsFiniteSet(Orders)      \* ids of 128 bits
ASSUME ScenarioAssumption == Scenarios \subseteq AllScenarios
ASSUME FlagAssumption == Inline \in BOOLEAN /\ MaxAborts \in Nat /\ MaxReviews \in Nat

\* 0.4 of a quantity is a whole number of lots.
ASSUME PayloadAssumption ==
    /\ Payloads \subseteq [side : {"BUY", "SELL"}, qty : Nat \ {0}, lim : Nat]
    /\ \A p \in Payloads : p.qty % 5 = 0

VARIABLES
    order,      \* TradingOrder with its reservation, trades and processed executions
    routed,     \* orders with a ProcessedEvent of simulated-order-router-v1
    inlineDue,  \* orders whose on_commit callback has not run yet
    balance,    \* SimulatedAccount.total_balance
    position,   \* SimulatedPosition.quantity
    createRec,  \* IdempotencyRecord of POST /orders, by key
    cancelRec,  \* IdempotencyRecord of POST /orders/<id>/cancel, by order and key
    req,        \* what each request thread is in the middle of
    work,       \* what each processing thread is in the middle of
    aborts,     \* processing transactions aborted so far
    compliance  \* trading eligibility of the subject, and how often it changed

vars == <<order, routed, inlineDue, balance, position, createRec, cancelRec,
          req, work, aborts, compliance>>

-----------------------------------------------------------------------------
(* Order states (apps/trading/domain/orders.py).                           *)

TERMINAL_STATES == {"FILLED", "CANCELLED", "REJECTED", "EXPIRED"}

States == {"PENDING", "ACCEPTED", "OPEN", "PARTIALLY_FILLED",
           "CANCEL_PENDING"} \cup TERMINAL_STATES

TRANSITIONS ==
    [s \in States |->
        CASE s = "PENDING"          -> {"ACCEPTED", "REJECTED"}
          [] s = "ACCEPTED"         -> {"OPEN", "CANCEL_PENDING"}
          [] s = "OPEN"             -> {"PARTIALLY_FILLED", "FILLED",
                                        "CANCEL_PENDING", "EXPIRED"}
          [] s = "PARTIALLY_FILLED" -> {"FILLED", "CANCEL_PENDING"}
          [] s = "CANCEL_PENDING"   -> {"CANCELLED"}
          [] OTHER                  -> {}]

\* transition_order raises unless this holds.
Allowed(current, target) == target \in TRANSITIONS[current]

-----------------------------------------------------------------------------
(* The execution adapter (integrations/execution/simulated.py).  Execution *)
(* ids are deterministic: sim:<order>:1, :2, :reject and :expire.          *)

FillIds == {"1", "2"}
ExecIds == FillIds \cup {"reject", "expire"}

Execution(id, qty, outcome) == [id |-> id, qty |-> qty, outcome |-> outcome]

Marketable(p) == \/ p.lim = MARKET
                 \/ p.side = "BUY" /\ Price <= p.lim
                 \/ p.side = "SELL" /\ Price >= p.lim

\* The first and, when there are two, the second execution of an order.
\* An execution of id "none" stands for the end of the list.
NoExecution == Execution("none", 0, "NONE")

FirstPart(qty) == (2 * qty) \div 5        \* quantity * 0.4

Fills(p, scenario) == scenario # "OPEN_THEN_CANCEL" /\ Marketable(p)

FirstExecution(p, scenario) ==
    CASE scenario = "REJECT" -> Execution("reject", 0, "REJECT")
      [] scenario = "EXPIRE" -> Execution("expire", 0, "EXPIRE")
      [] scenario = "PARTIAL_THEN_FILL" /\ Fills(p, scenario) ->
            Execution("1", FirstPart(p.qty), "FILL")
      [] scenario = "IMMEDIATE_FULL_FILL" /\ Fills(p, scenario) ->
            Execution("1", p.qty, "FILL")
      [] OTHER -> NoExecution

SecondExecution(p, scenario) ==
    IF scenario = "PARTIAL_THEN_FILL" /\ Fills(p, scenario)
    THEN Execution("2", p.qty - FirstPart(p.qty), "FILL")
    ELSE NoExecution

-----------------------------------------------------------------------------
(* Orders, reservations and the account.                                   *)

None == -1                       \* no ProcessedEvent / no trade for an execution

Exists(o) == order[o].st # "NONE"
Live(o)   == order[o].st \in {"PENDING", "ACCEPTED", "OPEN", "PARTIALLY_FILLED"}

\* What one lot takes out of the reservation: cash for a BUY, stock for a SELL.
UnitCost(side) == IF side = "BUY" THEN Price + Fee ELSE 1

Reserved(side) ==
    LET held == {o \in Orders : order[o].res = "ACTIVE" /\ order[o].p.side = side}
    IN  SumFunctionOnSet([o \in Orders |-> order[o].left], held)

available_quote == balance - Reserved("BUY")

\* RiskEngine: of its limits only the funds check reads state that changes.
RiskAllows(p) == p.side = "BUY" => p.qty * Price <= available_quote

\* Variant: the total is compared, not what is left after other reservations.
CanReserve_Total(p) == IF p.side = "BUY" THEN balance >= p.qty * UnitCost("BUY")
                       ELSE position >= p.qty

\* reserve_funds raises unless this holds.
CanReserve(p) == IF p.side = "BUY"
                 THEN available_quote >= p.qty * UnitCost("BUY")
                 ELSE position - Reserved("SELL") >= p.qty

\* SelfTradePreventionEngine: an active order of the other side whose price
\* crosses the incoming one.
Crosses(p, q) == \/ p.lim = MARKET \/ q.lim = MARKET
                 \/ p.side = "BUY" /\ p.lim >= q.lim
                 \/ p.side = "SELL" /\ p.lim <= q.lim

SelfTrade(p) == \E o \in Orders : /\ Live(o)
                                  /\ order[o].p.side # p.side
                                  /\ Crosses(p, order[o].p)

-----------------------------------------------------------------------------
(* A transaction on one order works on a record t: the order's own fields  *)
(* with the balance, the position and ok, which turns FALSE when the code  *)
(* raises and the whole transaction is rolled back.                        *)

Raise(t) == [t EXCEPT !.ok = FALSE]

\* Variant: remaining_amount is not reset.
release_KeepsAmount(t) == IF t.res = "ACTIVE" THEN [t EXCEPT !.res = "RELEASED"] ELSE t

release_reservation(t) ==
    IF t.res = "ACTIVE" THEN [t EXCEPT !.res = "RELEASED", !.left = 0] ELSE t

CanSettle(t, qty) == /\ t.left >= qty * UnitCost(t.p.side)
                     /\ t.p.side = "SELL" => t.pos >= qty

\* Variant: the fee of a sale is not deducted from the proceeds.
settle_SellWithoutFee(t, qty) ==
    LET left == t.left - qty * UnitCost(t.p.side)
        buy  == t.p.side = "BUY"
    IN  [t EXCEPT !.bal  = IF buy THEN @ - qty * (Price + Fee) ELSE @ + qty * Price,
                  !.pos  = IF buy THEN @ + qty ELSE @ - qty,
                  !.left = left,
                  !.res  = IF left = 0 THEN "CONSUMED" ELSE @]

\* Variant: the reservation of a sale is reduced by cash as well.
settle_CashOnly(t, qty) ==
    LET left == t.left - qty * UnitCost("BUY")
        buy  == t.p.side = "BUY"
    IN  [t EXCEPT !.bal  = IF buy THEN @ - qty * (Price + Fee) ELSE @ + qty * (Price - Fee),
                  !.pos  = IF buy THEN @ + qty ELSE @ - qty,
                  !.left = left,
                  !.res  = IF left = 0 THEN "CONSUMED" ELSE @]

settle_trade(t, qty) ==
    LET left == t.left - qty * UnitCost(t.p.side)
        buy  == t.p.side = "BUY"
    IN  [t EXCEPT !.bal  = IF buy THEN @ - qty * (Price + Fee) ELSE @ + qty * (Price - Fee),
                  !.pos  = IF buy THEN @ + qty ELSE @ - qty,
                  !.left = left,
                  !.res  = IF left = 0 THEN "CONSUMED" ELSE @]

\* PENDING -> ACCEPTED -> OPEN, the steps a fill or an expiry takes first.
Opened(st) == IF st \in {"PENDING", "ACCEPTED"} THEN "OPEN" ELSE st

\* Variant: filled_quantity is set to the execution's quantity, not increased by it.
ApplyFill_Assigns(t, e) ==
    LET filled == t.filled + e.qty
        target == IF filled = t.p.qty THEN "FILLED" ELSE "PARTIALLY_FILLED"
    IN  IF /\ filled <= t.p.qty
           /\ CanSettle(t, e.qty)
           /\ Allowed(Opened(t.st), target)
        THEN [settle_trade(t, e.qty) EXCEPT !.st = target,
                                            !.filled = e.qty,
                                            !.trade[e.id] = e.qty]
        ELSE Raise(t)

ApplyFill(t, e) ==
    LET filled == t.filled + e.qty
        target == IF filled = t.p.qty THEN "FILLED" ELSE "PARTIALLY_FILLED"
    IN  IF /\ filled <= t.p.qty
           /\ CanSettle(t, e.qty)
           /\ Allowed(Opened(t.st), target)
        THEN [settle_trade(t, e.qty) EXCEPT !.st = target,
                                            !.filled = filled,
                                            !.trade[e.id] = e.qty]
        ELSE Raise(t)

\* A REJECT (from the state as it is) or an EXPIRE (from OPEN) ends the order.
ApplyEnd(t, from, target) ==
    IF Allowed(from, target)
    THEN [release_reservation(t) EXCEPT !.st = target]
    ELSE Raise(t)

\* The mutation apply_execution hands to consume_once.
Mutation(t, e) ==
    CASE e.outcome = "REJECT" -> ApplyEnd(t, t.st, "REJECTED")
      [] e.outcome = "EXPIRE" -> ApplyEnd(t, Opened(t.st), "EXPIRED")
      [] OTHER -> ApplyFill(t, e)

\* consume_once(simulated-execution-v1): a known execution id is skipped when
\* its payload is the same and refused when it is not.
apply_execution(t, e) ==
    IF ~t.ok \/ e = NoExecution \/ t.done[e.id] = e.qty THEN t
    ELSE IF t.done[e.id] # None THEN Raise(t)
    ELSE [Mutation(t, e) EXCEPT !.done[e.id] = e.qty]

\* order.state = ACCEPTED is saved without a lock on, or a fresh read of, the
\* row: what it overwrites is whatever was committed since the read.
AcceptIfPending(t, seen, scenario) ==
    IF seen = "PENDING" /\ scenario # "REJECT" THEN [t EXCEPT !.st = "ACCEPTED"] ELSE t

OpenIfAccepted(t) == IF t.ok /\ t.st = "ACCEPTED" THEN [t EXCEPT !.st = "OPEN"] ELSE t

Transaction(o) ==
    [st |-> order[o].st, p |-> order[o].p, filled |-> order[o].filled,
     res |-> order[o].res, left |-> order[o].left, trade |-> order[o].trade,
     done |-> order[o].done, bal |-> balance, pos |-> position, ok |-> TRUE]

process_created_order(o, seen, scenario) ==
    LET p  == order[o].p
        t0 == AcceptIfPending(Transaction(o), seen, scenario)
        t1 == apply_execution(t0, FirstExecution(p, scenario))
        t2 == apply_execution(t1, SecondExecution(p, scenario))
    IN  OpenIfAccepted(t2)

\* Commit of transaction t on order o; updated_at moves when the row is saved.
Commit(o, t, saved) ==
    /\ order' = [order EXCEPT ![o] =
                    [st |-> t.st, p |-> t.p, filled |-> t.filled, res |-> t.res,
                     left |-> t.left, trade |-> t.trade, done |-> t.done,
                     ver |-> IF saved THEN @.ver + 1 ELSE @.ver]]
    /\ balance' = t.bal
    /\ position' = t.pos

-----------------------------------------------------------------------------
Idle == [pc |-> "idle"]

NoOrder == [st |-> "NONE", p |-> [side |-> "BUY", qty |-> 0, lim |-> MARKET],
            filled |-> 0, res |-> "NONE", left |-> 0,
            trade |-> [i \in FillIds |-> 0], done |-> [i \in ExecIds |-> None],
            ver |-> 0]

Init == /\ order = [o \in Orders |-> NoOrder]
        /\ routed = {} /\ inlineDue = {}
        /\ balance = InitBalance /\ position = 0
        /\ createRec = [k \in CreateKeys |-> [st |-> "none"]]
        /\ cancelRec = [o \in Orders |-> [k \in CancelKeys |-> [st |-> "none"]]]
        /\ req = [r \in Requests |-> Idle]
        /\ work = [w \in Workers |-> Idle]
        /\ aborts = 0
        /\ compliance = [eligible |-> TRUE, reviews |-> 0]

-----------------------------------------------------------------------------
(* create: the idempotency record is inserted, or the existing one locked, *)
(* in the same transaction as the order, so a second request with the same *)
(* key waits until the first one has committed or rolled back.             *)

\* Variant: the record is written only after the order, so nobody waits for it.
KeyHeld_Never(k) == FALSE

KeyHeld(k) == \E r \in Requests : req[r].pc = "create" /\ req[r].key = k

\* A record without a response: the request is evaluated (again).
Unanswered(k, p) == \/ createRec[k].st = "none"
                    \/ createRec[k].st = "open" /\ createRec[k].p = p

\* The first evaluate, before the account row is locked.
CreateBegin(r, k, p) ==
    /\ req[r].pc = "idle" /\ compliance.eligible /\ ~KeyHeld(k) /\ Unanswered(k, p)
    /\ RiskAllows(p) /\ ~SelfTrade(p)
    /\ req' = [req EXCEPT ![r] = [pc |-> "create", key |-> k, p |-> p]]
    /\ UNCHANGED <<order, routed, inlineDue, balance, position, createRec,
                   cancelRec, work, aborts, compliance>>

\* A surveillance denial commits the findings and, with them, an idempotency
\* record that has no response.
Denied(k, p) == createRec' = [createRec EXCEPT ![k] = [st |-> "open", p |-> p]]

CreateDenied(r, k, p) ==
    /\ req[r].pc = "idle" /\ compliance.eligible /\ ~KeyHeld(k) /\ Unanswered(k, p)
    /\ RiskAllows(p) /\ SelfTrade(p)
    /\ Denied(k, p)
    /\ UNCHANGED <<order, routed, inlineDue, balance, position, cancelRec, req,
                   work, aborts, compliance>>

NewOrder(p) == [NoOrder EXCEPT !.st = "PENDING", !.p = p, !.res = "ACTIVE",
                               !.left = p.qty * UnitCost(p.side), !.ver = 1]

\* Variant: self-trade prevention is not repeated under the account lock.
PassesControls_RiskOnly(p) == RiskAllows(p)

\* _create_allowed: the account row is locked and everything evaluated again.
PassesControls(p) == RiskAllows(p) /\ ~SelfTrade(p)

CreateCommit(r, o) ==
    LET k == req[r].key  p == req[r].p
    IN  /\ req[r].pc = "create" /\ ~Exists(o)
        /\ PassesControls(p) /\ CanReserve(p)
        /\ order' = [order EXCEPT ![o] = NewOrder(p)]
        /\ createRec' = [createRec EXCEPT ![k] = [st |-> "done", p |-> p, ord |-> o]]
        /\ inlineDue' = IF Inline THEN inlineDue \cup {o} ELSE inlineDue
        /\ req' = [req EXCEPT ![r] = Idle]
        /\ UNCHANGED <<routed, balance, position, cancelRec, work, aborts,
                       compliance>>

CreateRefused(r) ==
    /\ req[r].pc = "create" /\ RiskAllows(req[r].p) /\ SelfTrade(req[r].p)
    /\ Denied(req[r].key, req[r].p)
    /\ req' = [req EXCEPT ![r] = Idle]
    /\ UNCHANGED <<order, routed, inlineDue, balance, position, cancelRec,
                   work, aborts, compliance>>

\* ValueError of the risk engine or of reserve_funds, or the thread dies: the
\* transaction is rolled back, the idempotency record with it.
CreateRollback(r) ==
    /\ req[r].pc = "create"
    /\ req' = [req EXCEPT ![r] = Idle]
    /\ UNCHANGED <<order, routed, inlineDue, balance, position, createRec,
                   cancelRec, work, aborts, compliance>>

-----------------------------------------------------------------------------
(* Compliance (apps/compliance/services.py).  A transition of the subject's *)
(* KYC, AML, sanctions, jurisdiction or account state, a restriction or an  *)
(* override ends in _invalidate_pending_simulation_orders_if_denied.        *)

Review(eligible) == /\ compliance.reviews < MaxReviews
                    /\ compliance' = [eligible |-> eligible, reviews |-> compliance.reviews + 1]

\* One UPDATE of the state column of every PENDING order: the reservation and
\* updated_at stay as they are, and no event is written.
ComplianceDenies ==
    /\ Review(FALSE)
    /\ order' = [o \in Orders |-> IF order[o].st = "PENDING"
                                  THEN [order[o] EXCEPT !.st = "REJECTED"] ELSE order[o]]
    /\ UNCHANGED <<routed, inlineDue, balance, position, createRec, cancelRec, req,
                   work, aborts>>

\* The subject becomes eligible, or a review date passes and _evaluate denies
\* from then on although no transition has happened.
ComplianceChanges(eligible) ==
    /\ compliance.eligible # eligible /\ Review(eligible)
    /\ UNCHANGED <<order, routed, inlineDue, balance, position, createRec, cancelRec,
                   req, work, aborts>>

-----------------------------------------------------------------------------
(* process_created_order: run by the JetStream consumer inside consume_once *)
(* (via "router"), and by the request thread after commit when Inline.      *)

\* Any order whose created event is in the stream may be delivered, any number
\* of times; consume_once returns at once when it finds its ProcessedEvent.
RouterRead(w, o, scenario) ==
    /\ work[w].pc = "idle" /\ Exists(o) /\ o \notin routed
    /\ work' = [work EXCEPT ![w] = [pc |-> "read", via |-> "router", ord |-> o,
                                    seen |-> order[o].st, scenario |-> scenario]]
    /\ UNCHANGED <<order, routed, inlineDue, balance, position, createRec,
                   cancelRec, req, aborts, compliance>>

InlineRead(w, o, scenario) ==
    /\ work[w].pc = "idle" /\ o \in inlineDue
    /\ inlineDue' = inlineDue \ {o}
    /\ work' = [work EXCEPT ![w] = [pc |-> "read", via |-> "inline", ord |-> o,
                                    seen |-> order[o].st, scenario |-> scenario]]
    /\ UNCHANGED <<order, routed, balance, position, createRec, cancelRec, req,
                   aborts, compliance>>

\* Variant: no unique constraint on the router's ProcessedEvent.
WinsInbox_Always(j) == TRUE

\* The insert of the router's ProcessedEvent fails when another consumer has
\* committed it, and takes the whole transaction with it.
WinsInbox(j) == j.via = "router" => j.ord \notin routed

ProcessCommit(w) ==
    LET j == work[w]
        t == process_created_order(j.ord, j.seen, j.scenario)
        saved == t # Transaction(j.ord) \/ (j.seen = "PENDING" /\ j.scenario # "REJECT")
    IN  /\ j.pc = "read" /\ WinsInbox(j) /\ t.ok
        /\ Commit(j.ord, t, saved)
        /\ routed' = IF j.via = "router" THEN routed \cup {j.ord} ELSE routed
        /\ work' = [work EXCEPT ![w] = Idle]
        /\ UNCHANGED <<inlineDue, createRec, cancelRec, req, aborts, compliance>>

\* An exception of the code, or the lost insert: nothing is committed.  The
\* consumer naks (or acks the duplicate); the inline callback is not retried.
ProcessRollback(w) ==
    LET j == work[w]
    IN  /\ j.pc = "read"
        /\ ~WinsInbox(j) \/ ~process_created_order(j.ord, j.seen, j.scenario).ok
        /\ work' = [work EXCEPT ![w] = Idle]
        /\ UNCHANGED <<order, routed, inlineDue, balance, position, createRec,
                       cancelRec, req, aborts, compliance>>

\* Variant: the ProcessedEvent is committed before the order is processed.
ProcessAbort_AfterAck(w) ==
    /\ work[w].pc = "read" /\ aborts < MaxAborts
    /\ aborts' = aborts + 1
    /\ routed' = routed \cup {work[w].ord}
    /\ work' = [work EXCEPT ![w] = Idle]
    /\ UNCHANGED <<order, inlineDue, balance, position, createRec, cancelRec, req,
                   compliance>>

\* The worker dies, the connection drops, or the post-trade processor finds no
\* settlement calendar: the same rollback, for a reason outside this module.
ProcessAbort(w) ==
    /\ work[w].pc = "read" /\ aborts < MaxAborts
    /\ aborts' = aborts + 1
    /\ work' = [work EXCEPT ![w] = Idle]
    /\ UNCHANGED <<order, routed, inlineDue, balance, position, createRec,
                   cancelRec, req, compliance>>

-----------------------------------------------------------------------------
(* cancel: the idempotency record is committed by a transaction of its own *)
(* before the order row is locked.                                         *)

CancelBegin(r, o, k, v) ==
    LET rec == cancelRec[o][k]
    IN  /\ req[r].pc = "idle" /\ Exists(o) /\ v \in 1 .. order[o].ver
        /\ rec.st = "none" \/ (rec.st = "open" /\ rec.ver = v)
        /\ cancelRec' = [cancelRec EXCEPT ![o][k] = [st |-> "open", ver |-> v]]
        /\ req' = [req EXCEPT ![r] = [pc |-> "cancel", key |-> k, ord |-> o, ver |-> v]]
        /\ UNCHANGED <<order, routed, inlineDue, balance, position, createRec,
                       work, aborts, compliance>>

\* complete_idempotent_request: whatever the record says by now is overwritten.
Answer(r, answer) ==
    LET q == req[r]
    IN  /\ cancelRec' = [cancelRec EXCEPT ![q.ord][q.key] = [st |-> answer, ver |-> q.ver]]
        /\ req' = [req EXCEPT ![r] = Idle]

Cancellable(o) == order[o].st \in {"ACCEPTED", "OPEN", "PARTIALLY_FILLED"}

CancelCommit(r) ==
    LET o == req[r].ord
    IN  /\ req[r].pc = "cancel" /\ order[o].ver = req[r].ver /\ Cancellable(o)
        /\ Commit(o, [release_reservation(Transaction(o)) EXCEPT !.st = "CANCELLED"], TRUE)
        /\ Answer(r, "ok")
        /\ UNCHANGED <<routed, inlineDue, createRec, work, aborts, compliance>>

\* updated_at is no longer the expected version: 409 is stored as the answer.
CancelConflict(r) ==
    /\ req[r].pc = "cancel" /\ order[req[r].ord].ver # req[r].ver
    /\ Answer(r, "conflict")
    /\ UNCHANGED <<order, routed, inlineDue, balance, position, createRec, work,
                   aborts, compliance>>

\* ORDER_INVALID_STATE, or the thread dies after the record was committed: the
\* record stays without an answer and the request may be sent again.
CancelRollback(r) ==
    /\ req[r].pc = "cancel"
    /\ req' = [req EXCEPT ![r] = Idle]
    /\ UNCHANGED <<order, routed, inlineDue, balance, position, createRec,
                   cancelRec, work, aborts, compliance>>

-----------------------------------------------------------------------------
RequestStep(r) ==
    \/ \E k \in CreateKeys, p \in Payloads : CreateBegin(r, k, p) \/ CreateDenied(r, k, p)
    \/ \E o \in Orders : CreateCommit(r, o)
    \/ CreateRefused(r)
    \/ CreateRollback(r)
    \/ \E o \in Orders, k \in CancelKeys : \E v \in 1 .. order[o].ver : CancelBegin(r, o, k, v)
    \/ CancelCommit(r)
    \/ CancelConflict(r)
    \/ CancelRollback(r)

WorkerStep(w) ==
    \/ \E o \in Orders, s \in Scenarios : RouterRead(w, o, s)
    \/ \E o \in Orders, s \in Scenarios : InlineRead(w, o, s)
    \/ ProcessCommit(w)
    \/ ProcessRollback(w)
    \/ ProcessAbort(w)

ComplianceStep == ComplianceDenies \/ \E b \in BOOLEAN : ComplianceChanges(b)

Next == \/ \E r \in Requests : RequestStep(r)
        \/ \E w \in Workers : WorkerStep(w)
        \/ ComplianceStep

Spec == Init /\ [][Next]_vars

\* A transaction that has begun ends, in a commit, a rollback or an abort.
Ends(w) == work[w].pc = "read" /\ work' = [work EXCEPT ![w] = Idle]

\* The consumer loop fetches again after every ack, nak and fetch timeout, and a
\* message that was not acknowledged is delivered again.
Fairness ==
    /\ \A w \in Workers : WF_work(Ends(w))
    /\ \A o \in Orders : SF_vars(\E w \in Workers, s \in Scenarios : RouterRead(w, o, s))

FairSpec == Spec /\ Fairness

-----------------------------------------------------------------------------
(* Properties.                                                             *)

Answered == {"ok", "conflict"}

OrderRecords ==
    [st : States \cup {"NONE"}, p : Payloads \cup {NoOrder.p}, filled : Nat,
     res : {"NONE", "ACTIVE", "RELEASED", "CONSUMED"}, left : Nat,
     trade : [FillIds -> Nat], done : [ExecIds -> Nat \cup {None}], ver : Nat]

CreateRecords == [st : {"none"}] \cup [st : {"open"}, p : Payloads]
                 \cup [st : {"done"}, p : Payloads, ord : Orders]
CancelRecords == [st : {"none"}] \cup [st : {"open"} \cup Answered, ver : Nat]

RequestStates == {Idle} \cup [pc : {"create"}, key : CreateKeys, p : Payloads]
                 \cup [pc : {"cancel"}, key : CancelKeys, ord : Orders, ver : Nat]
WorkerStates == {Idle} \cup [pc : {"read"}, via : {"router", "inline"}, ord : Orders,
                             seen : States, scenario : Scenarios]

\* Every variable has the shape the database schema and the threads give it; in
\* particular no reservation is ever overdrawn (left is a natural number).
TypeOK ==
    /\ order \in [Orders -> OrderRecords]
    /\ routed \subseteq Orders /\ inlineDue \subseteq Orders
    /\ balance \in Int /\ position \in Int
    /\ createRec \in [CreateKeys -> CreateRecords]
    /\ cancelRec \in [Orders -> [CancelKeys -> CancelRecords]]
    /\ req \in [Requests -> RequestStates]
    /\ work \in [Workers -> WorkerStates]
    /\ aborts \in 0 .. MaxAborts
    /\ compliance \in [eligible : BOOLEAN, reviews : 0 .. MaxReviews]

\* Reconciliation checks FILLED_QUANTITY_MATCHES_EXECUTIONS and OVERFILL: what
\* an order says is filled is what its trades add up to, and never more than
\* it asked for, however often its executions are delivered.
FillsMatchTrades ==
    \A o \in Orders : /\ order[o].filled = order[o].trade["1"] + order[o].trade["2"]
                      /\ order[o].filled <= order[o].p.qty

\* Reconciliation check RESERVATION_CONSISTENCY: an order that has ended holds
\* nothing back.
ReservationConsistency ==
    \A o \in Orders : order[o].st \in TERMINAL_STATES =>
                         order[o].res # "ACTIVE" /\ order[o].left = 0

\* The one way to end that does not release the reservation is a compliance
\* denial: an order that has ended and still holds something back was rejected
\* before any of its executions, and holds back all that it reserved.  Fills,
\* cancels, rejections and expiries of the pipeline leave nothing behind, not
\* even when they meet a denial half-way.
OnlyDenialsHoldBack ==
    \A o \in Orders :
        order[o].st \in TERMINAL_STATES /\ (order[o].res = "ACTIVE" \/ order[o].left # 0) =>
            /\ order[o].st = "REJECTED" /\ \A i \in ExecIds : order[o].done[i] = None
            /\ order[o].left = order[o].p.qty * UnitCost(order[o].p.side)

\* The other half of RESERVATION_CONSISTENCY: while an order can still be filled
\* its reservation is active and covers exactly the unfilled rest with fees, so
\* that RESERVATION_UNDERFUNDED cannot stop a later settlement.
LiveReservationCovers ==
    \A o \in Orders : Live(o) =>
        /\ order[o].res = "ACTIVE"
        /\ order[o].left = (order[o].p.qty - order[o].filled) * UnitCost(order[o].p.side)

\* Signed sum over all trades of the given amount per lot.
TradeSum(perLot) ==
    SumFunctionOnSet([o \in Orders |-> (order[o].trade["1"] + order[o].trade["2"])
                                       * perLot[order[o].p.side]], Orders)

\* What a trade of one lot does to the position and to the balance.
StockPerLot == [side \in {"BUY", "SELL"} |-> IF side = "BUY" THEN 1 ELSE -1]
CashPerLot == [side \in {"BUY", "SELL"} |-> IF side = "BUY" THEN -(Price + Fee) ELSE Price - Fee]

\* Reconciliation check POSITION_MATCHES_TRADE_HISTORY, and the same for cash:
\* position and balance are what the trades say, fees included, so no trade
\* was settled twice or not at all.
LedgerMatchesTrades ==
    /\ position = TradeSum(StockPerLot)
    /\ balance = InitBalance + TradeSum(CashPerLot)

\* The active reservations never add up to more than there is: available_quote
\* and the available position stay nonnegative although creates, fills and
\* cancels of different orders interleave (WALLET_PROJECTION_NONNEGATIVE).
ReservationsCovered == balance >= Reserved("BUY") /\ position >= Reserved("SELL")

\* Self-trade prevention: the account never has two live orders of opposite
\* sides that cross, not even when both were submitted at the same moment and
\* each saw an empty book at its first evaluation.
NoSelfCross ==
    \A o1, o2 \in Orders :
        Live(o1) /\ Live(o2) /\ order[o1].p.side # order[o2].p.side =>
            ~Crosses(order[o1].p, order[o2].p)

\* One order per Idempotency-Key: every order is the recorded answer of exactly
\* one key, whether the request was sent once, repeated or sent twice at once.
OneOrderPerKey ==
    \A o \in Orders : Exists(o) =>
        Cardinality({k \in CreateKeys : createRec[k].st = "done" /\ createRec[k].ord = o}) = 1

\* A terminal order is final: no redelivery, late execution or cancel changes
\* its state, its fills, its trades or its reservation again.
Outcome(r) == <<r.st, r.filled, r.trade, r.res, r.left>>

TerminalNeverRegresses ==
    [][\A o \in Orders : order[o].st \in TERMINAL_STATES =>
                            Outcome(order'[o]) = Outcome(order[o])]_vars

\* Same key, same body, same answer: a cancel request that has been answered
\* is answered the same way ever after.
CancelReplayStable ==
    [][\A o \in Orders, k \in CancelKeys :
           cancelRec[o][k].st \in Answered => cancelRec'[o][k] = cancelRec[o][k]]_vars

\* A created order does not stay PENDING: it is routed although deliveries are
\* repeated and processing transactions abort (finitely often).
EventuallyProcessed ==
    \A o \in Orders : order[o].st = "PENDING" ~> order[o].st # "PENDING"
=============================================================================
