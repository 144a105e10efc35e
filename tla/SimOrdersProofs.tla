-------------------------- MODULE SimOrdersProofs ---------------------------
(***************************************************************************)
(* The simulated order pipeline for any number of orders, requests,        *)
(* workers and keys, any prices and any mix of scenarios.                  *)
(*                                                                         *)
(* In every configuration, whoever processes the orders and however often  *)
(* compliance reviews intervene: fills match trades, balance and position  *)
(* match trades, the active reservations are covered, every order is the   *)
(* answer to exactly one idempotency key, and only a compliance denial     *)
(* leaves an ended order its reservation.  MoneyInv, KeysInv, HoldsInv.    *)
(*                                                                         *)
(* With the JetStream consumer as the only one that processes orders       *)
(* (SIMULATED_EXECUTION_INLINE = false): a live order's reservation covers *)
(* what is left to fill; and, as long as no compliance review invalidates  *)
(* an order, an ended order holds nothing back and is final, and no two    *)
(* live orders cross.                                                      *)
(*                                                                         *)
(* The reason is the unique ProcessedEvent of the router and not the row   *)
(* lock: process_created_order reads the order without one, and what it    *)
(* then overwrites is an order nobody has filled or cancelled, because any *)
(* transaction that did has inserted the ProcessedEvent the loser trips    *)
(* over.  RouterInv states exactly that.                                   *)
(***************************************************************************)
EXTENDS SimOrders, SumTheorems, TLAPS

-----------------------------------------------------------------------------
(* What holds of an order, or of a transaction's private copy of it.       *)

\* The reservation is active and pays for exactly what is left to fill.
Covered(t) ==
    t.res = "ACTIVE" /\ t.left = (t.p.qty - t.filled) * UnitCost(t.p.side)

\* Trades, fills, reservation and processed executions of t fit together.
Sound(t) ==
    /\ t.filled = t.trade["1"] + t.trade["2"]
    /\ t.filled <= t.p.qty
    /\ \A i \in FillIds : t.done[i] = None => t.trade[i] = 0
    /\ t.st \in TERMINAL_STATES /\ MaxReviews = 0 => t.res # "ACTIVE" /\ t.left = 0
    /\ t.st \in {"PENDING", "ACCEPTED", "OPEN", "PARTIALLY_FILLED"} => Covered(t)

TxRecords ==
    [st : States, p : Payloads, filled : Nat,
     res : {"NONE", "ACTIVE", "RELEASED", "CONSUMED"}, left : Nat,
     trade : [FillIds -> Nat], done : [ExecIds -> Nat \cup {None}],
     bal : Int, pos : Int, ok : BOOLEAN]

\* The executions the adapter produces.
Executions == [id : FillIds, qty : Nat, outcome : {"FILL"}]
              \cup [id : {"reject"}, qty : {0}, outcome : {"REJECT"}]
              \cup [id : {"expire"}, qty : {0}, outcome : {"EXPIRE"}]

\* What an order that no consumer has routed may look like: PENDING, or
\* invalidated by a compliance review.
Untouched(st) == st = "PENDING" \/ (MaxReviews # 0 /\ st = "REJECTED")

\* An order that no consumer has routed has its whole reservation, and a
\* consumer that read it saw it that way.
RouterInv ==
    /\ inlineDue = {}
    /\ routed \subseteq {o \in Orders : Exists(o)}
    /\ \A o \in Orders : Exists(o) => Sound(order[o]) /\ order[o].p \in Payloads
    /\ \A o \in Orders : ~Exists(o) => order[o] = NoOrder
    /\ \A o \in Orders : Exists(o) /\ o \notin routed =>
          Untouched(order[o].st) /\ Covered(order[o])
    /\ \A w \in Workers : work[w].pc = "read" =>
          /\ work[w].via = "router" /\ Exists(work[w].ord)
          /\ work[w].ord \notin routed => Untouched(work[w].seen)
    /\ \A r \in Requests : req[r].pc = "cancel" => Exists(req[r].ord)

Inv == TypeOK /\ RouterInv

-----------------------------------------------------------------------------
\* One lot always costs something, on either side.
LEMMA UnitCostPositive == \A s : UnitCost(s) \in Nat /\ UnitCost(s) > 0
BY MoneyAssumption DEF UnitCost

\* Taking b lots off a rest of a lots takes b lots' cost off its cost.
LEMMA RestCost == \A a, b, u \in Int : (a - b) * u = a * u - b * u
OBVIOUS

\* A positive number of lots at a positive cost is not free.
LEMMA PositiveProduct == \A a, u \in Nat : a > 0 /\ u > 0 => a * u > 0
OBVIOUS

\* The adapter's executions have whole quantities.
LEMMA ExecutionsTyped ==
    ASSUME NEW p \in Payloads, NEW s \in Scenarios
    PROVE  /\ FirstExecution(p, s) \in Executions \cup {NoExecution}
           /\ SecondExecution(p, s) \in Executions \cup {NoExecution}
<1>1. p.qty \in Nat /\ p.qty > 0
  BY PayloadAssumption
<1>2. (2 * p.qty) \div 5 \in Nat /\ p.qty - (2 * p.qty) \div 5 \in Nat
  BY <1>1
<1>3. FirstExecution(p, s) \in Executions \cup {NoExecution}
  BY <1>1, <1>2, ScenarioAssumption
  DEF FirstExecution, Fills, FirstPart, Execution, Executions, NoExecution, FillIds, AllScenarios
<1>4. SecondExecution(p, s) \in Executions \cup {NoExecution}
  BY <1>2 DEF SecondExecution, FirstPart, Execution, Executions, NoExecution, FillIds
<1> QED BY <1>3, <1>4

\* What settle_trade may write into a transaction keeps its type.
LEMMA TxUpdate ==
    ASSUME NEW t \in TxRecords, NEW b \in Int, NEW n \in Int, NEW l \in Nat,
           NEW r \in {"NONE", "ACTIVE", "RELEASED", "CONSUMED"}
    PROVE  [t EXCEPT !.bal = b, !.pos = n, !.left = l, !.res = r] \in TxRecords
BY DEF TxRecords

\* settle_trade moves exactly the cost of the quantity out of the reservation.
LEMMA SettleFacts ==
    ASSUME NEW t \in TxRecords, NEW q \in Nat, CanSettle(t, q)
    PROVE  LET u == settle_trade(t, q)
           IN  /\ u \in TxRecords
               /\ u.left = t.left - q * UnitCost(t.p.side)
               /\ u.res = IF u.left = 0 THEN "CONSUMED" ELSE t.res
               /\ u.st = t.st /\ u.p = t.p /\ u.filled = t.filled /\ u.trade = t.trade
               /\ u.done = t.done /\ u.ok = t.ok
               /\ u.bal = IF t.p.side = "BUY" THEN t.bal - q * (Price + Fee)
                                              ELSE t.bal + q * (Price - Fee)
               /\ u.pos = IF t.p.side = "BUY" THEN t.pos + q ELSE t.pos - q
<1> DEFINE l == t.left - q * UnitCost(t.p.side)
           b == IF t.p.side = "BUY" THEN t.bal - q * (Price + Fee)
                                    ELSE t.bal + q * (Price - Fee)
           n == IF t.p.side = "BUY" THEN t.pos + q ELSE t.pos - q
           r == IF l = 0 THEN "CONSUMED" ELSE t.res
           u == settle_trade(t, q)
<1>1. l \in Nat /\ b \in Int /\ n \in Int
  BY UnitCostPositive, MoneyAssumption DEF CanSettle, TxRecords
<1>2. r \in {"NONE", "ACTIVE", "RELEASED", "CONSUMED"}
  BY DEF TxRecords
<1>3. u = [t EXCEPT !.bal = b, !.pos = n, !.left = l, !.res = r]
  BY DEF settle_trade, TxRecords
<1>4. u.left = l /\ u.res = IF u.left = 0 THEN "CONSUMED" ELSE t.res
  BY <1>3 DEF TxRecords
<1> HIDE DEF l, b, n, r, u
<1>5. u.st = t.st /\ u.p = t.p /\ u.filled = t.filled /\ u.trade = t.trade
      /\ u.done = t.done /\ u.ok = t.ok
  BY <1>3 DEF TxRecords
<1>6. u \in TxRecords
  BY <1>1, <1>2, <1>3, TxUpdate
<1>7. u.bal = b /\ u.pos = n
  BY <1>3 DEF TxRecords
<1> QED BY <1>4, <1>5, <1>6, <1>7 DEF l, u, b, n

\* What a fill writes into a transaction keeps its type.
LEMMA TxUpdateFill ==
    ASSUME NEW t \in TxRecords, NEW s \in States, NEW f \in Nat,
           NEW i \in FillIds, NEW q \in Nat
    PROVE  [t EXCEPT !.st = s, !.filled = f, !.trade[i] = q] \in TxRecords
BY DEF TxRecords, FillIds

\* Recording a processed execution keeps the transaction's type.
LEMMA TxUpdateDone ==
    ASSUME NEW t \in TxRecords, NEW i \in ExecIds, NEW q \in Nat
    PROVE  [t EXCEPT !.done[i] = q] \in TxRecords
BY DEF TxRecords

\* Moving the state, or releasing the reservation, keeps the type.
LEMMA TxUpdateEnd ==
    ASSUME NEW t \in TxRecords, NEW s \in States, NEW l \in Nat,
           NEW r \in {"NONE", "ACTIVE", "RELEASED", "CONSUMED"}
    PROVE  /\ [t EXCEPT !.st = s] \in TxRecords
           /\ [t EXCEPT !.res = r, !.left = l] \in TxRecords
BY DEF TxRecords

\* A raised transaction is well-typed and will not commit.
LEMMA RaiseFacts ==
    ASSUME NEW t \in TxRecords
    PROVE  Raise(t) \in TxRecords /\ ~Raise(t).ok /\ Raise(t).p = t.p
BY DEF TxRecords, Raise

\* From a terminal state nothing is allowed; a fill starts from a live state.
LEMMA FillFromLive ==
    ASSUME NEW s \in States, NEW target \in {"FILLED", "PARTIALLY_FILLED"},
           Allowed(Opened(s), target)
    PROVE  s \in {"PENDING", "ACCEPTED", "OPEN", "PARTIALLY_FILLED"}
BY DEF Allowed, Opened, TRANSITIONS, States, TERMINAL_STATES

\* Rejection starts from PENDING, expiry from before the first fill.
LEMMA EndFromLive ==
    ASSUME NEW s \in States
    PROVE  /\ Allowed(s, "REJECTED") => s = "PENDING"
           /\ Allowed(Opened(s), "EXPIRED") => s \in {"PENDING", "ACCEPTED", "OPEN"}
BY DEF Allowed, Opened, TRANSITIONS, States, TERMINAL_STATES

\* A fill keeps trades, fills and reservation in step, or raises.
LEMMA FillSound ==
    ASSUME NEW t \in TxRecords, Sound(t), NEW i \in FillIds, NEW q \in Nat,
           t.done[i] = None
    PROVE  LET u == [ApplyFill(t, Execution(i, q, "FILL")) EXCEPT !.done[i] = q]
           IN  u \in TxRecords /\ u.p = t.p /\ (u.ok => Sound(u))
<1> DEFINE e == Execution(i, q, "FILL")
           f == t.filled + q
           target == IF f = t.p.qty THEN "FILLED" ELSE "PARTIALLY_FILLED"
           guard == f <= t.p.qty /\ CanSettle(t, q) /\ Allowed(Opened(t.st), target)
           a == ApplyFill(t, e)
           u == [a EXCEPT !.done[i] = q]
<1>1. e.id = i /\ e.qty = q
  BY DEF Execution
<1>2. CASE ~guard
  <2>1. a = Raise(t)
    BY <1>1, <1>2 DEF ApplyFill
  <2>2. a \in TxRecords /\ ~a.ok /\ a.p = t.p
    BY <2>1, RaiseFacts
  <2> HIDE DEF a
  <2>3. u \in TxRecords
    BY <2>2, TxUpdateDone DEF ExecIds
  <2>4. ~u.ok /\ u.p = t.p
    BY <2>2 DEF TxRecords
  <2> QED BY <2>3, <2>4 DEF a
<1>3. CASE guard
  <2> DEFINE s == settle_trade(t, q)
             c == q * UnitCost(t.p.side)
  <2>1. a = [s EXCEPT !.st = target, !.filled = f, !.trade[i] = q]
    BY <1>1, <1>3 DEF ApplyFill
  <2>2. /\ s \in TxRecords /\ s.left = t.left - c
        /\ s.res = IF s.left = 0 THEN "CONSUMED" ELSE t.res
        /\ s.p = t.p /\ s.filled = t.filled /\ s.trade = t.trade /\ s.done = t.done
    BY <1>3, SettleFacts
  <2>3. t.st \in {"PENDING", "ACCEPTED", "OPEN", "PARTIALLY_FILLED"}
    <3>1. target \in {"FILLED", "PARTIALLY_FILLED"} /\ t.st \in States
      BY DEF TxRecords
    <3> HIDE DEF target
    <3> QED BY <3>1, <1>3, FillFromLive
  <2>4. t.res = "ACTIVE" /\ t.left = (t.p.qty - t.filled) * UnitCost(t.p.side)
    BY <2>3 DEF Sound, Covered
  <2>5. f \in Nat /\ t.filled \in Nat /\ t.p.qty \in Nat /\ UnitCost(t.p.side) \in Nat
        /\ UnitCost(t.p.side) > 0 /\ f <= t.p.qty
    BY <1>3, UnitCostPositive, PayloadAssumption DEF TxRecords
  <2>6. s.left = (t.p.qty - f) * UnitCost(t.p.side)
    <3>1. (t.p.qty - t.filled) - q = t.p.qty - f
      BY <2>5
    <3>2. (t.p.qty - t.filled) \in Int /\ UnitCost(t.p.side) \in Int /\ q \in Int
      BY <2>5
    <3> HIDE DEF f
    <3> QED BY <3>1, <3>2, <2>2, <2>4, RestCost
  <2>7. f # t.p.qty => s.left # 0
    <3>1. f # t.p.qty => t.p.qty - f \in Nat /\ t.p.qty - f > 0
      BY <2>5
    <3> HIDE DEF f
    <3> QED BY <3>1, <2>5, <2>6, PositiveProduct
  <2>8. f = t.p.qty => s.left = 0
    <3> HIDE DEF f
    <3> QED BY <2>5, <2>6
  <2>9. target \in States
    BY DEF States, TERMINAL_STATES
  <2> HIDE DEF s, c, f, target, guard, e, a
  <2>10. a \in TxRecords
    <3>1. [s EXCEPT !.st = target, !.filled = f, !.trade[i] = q] \in TxRecords
      BY <2>2, <2>5, <2>9, TxUpdateFill
    <3> QED BY <2>1, <3>1
  <2>11. /\ a.st = target /\ a.filled = f /\ a.trade = [t.trade EXCEPT ![i] = q]
         /\ a.p = t.p /\ a.left = s.left /\ a.res = s.res /\ a.done = t.done
    BY <2>1, <2>2 DEF TxRecords
  <2>12. u \in TxRecords
    BY <2>10, TxUpdateDone DEF ExecIds
  <2>13. /\ u.st = target /\ u.filled = f /\ u.trade = [t.trade EXCEPT ![i] = q]
         /\ u.p = t.p /\ u.left = s.left /\ u.res = s.res
         /\ u.done = [t.done EXCEPT ![i] = q]
    BY <2>10, <2>11 DEF TxRecords
  <2> HIDE DEF u
  <2>14. u.filled = u.trade["1"] + u.trade["2"]
    <3>1. t.trade \in [FillIds -> Nat] /\ t.trade[i] = 0
          /\ t.filled = t.trade["1"] + t.trade["2"]
      BY DEF TxRecords, Sound
    <3> QED BY <3>1, <2>13 DEF f, FillIds
  <2>15. \A j \in FillIds : u.done[j] = None => u.trade[j] = 0
    <3>1. t.trade \in [FillIds -> Nat] /\ t.done \in [ExecIds -> Nat \cup {None}]
      BY DEF TxRecords
    <3>2. \A j \in FillIds : t.done[j] = None => t.trade[j] = 0
      BY DEF Sound
    <3> QED BY <3>1, <3>2, <2>13 DEF None, FillIds, ExecIds
  <2>16. CASE f = t.p.qty
    <3>1. u.st = "FILLED" /\ u.left = 0 /\ u.res = "CONSUMED"
      BY <2>16, <2>2, <2>8, <2>13 DEF target
    <3> QED BY <3>1, <2>5, <2>12, <2>13, <2>14, <2>15 DEF Sound, a, u, e
  <2>17. CASE f # t.p.qty
    <3>1. u.st = "PARTIALLY_FILLED" /\ u.res = "ACTIVE"
          /\ u.left = (u.p.qty - u.filled) * UnitCost(u.p.side)
      BY <2>17, <2>2, <2>4, <2>6, <2>7, <2>13 DEF target
    <3> QED BY <3>1, <2>5, <2>12, <2>13, <2>14, <2>15
            DEF Sound, Covered, a, u, e, TERMINAL_STATES
  <2> QED BY <2>16, <2>17
<1> QED BY <1>2, <1>3

\* Releasing the reservation and ending the order, or raising.
LEMMA EndSound ==
    ASSUME NEW t \in TxRecords, Sound(t), NEW i \in {"reject", "expire"},
           NEW from \in States, NEW target \in TERMINAL_STATES,
           Allowed(from, target) =>
               t.st \in {"PENDING", "ACCEPTED", "OPEN", "PARTIALLY_FILLED"}
    PROVE  LET u == [ApplyEnd(t, from, target) EXCEPT !.done[i] = 0]
           IN  u \in TxRecords /\ u.p = t.p /\ (u.ok => Sound(u))
<1> DEFINE a == ApplyEnd(t, from, target)
           u == [a EXCEPT !.done[i] = 0]
<1>1. CASE ~Allowed(from, target)
  <2>1. a \in TxRecords /\ ~a.ok /\ a.p = t.p
    BY <1>1, RaiseFacts DEF ApplyEnd
  <2> HIDE DEF a
  <2>2. u \in TxRecords
    BY <2>1, TxUpdateDone DEF ExecIds
  <2>3. ~u.ok /\ u.p = t.p
    BY <2>1 DEF TxRecords
  <2> QED BY <2>2, <2>3 DEF a
<1>2. CASE Allowed(from, target)
  <2> DEFINE s == [t EXCEPT !.res = "RELEASED", !.left = 0]
  <2>1. t.res = "ACTIVE"
    BY <1>2 DEF Sound, Covered
  <2>2. a = [s EXCEPT !.st = target]
    BY <1>2, <2>1 DEF ApplyEnd, release_reservation
  <2>3. s \in TxRecords
    BY TxUpdateEnd DEF TxRecords
  <2>4. target \in States
    BY DEF States
  <2>5. /\ a.st = target /\ a.res = "RELEASED" /\ a.left = 0 /\ a.p = t.p
        /\ a.filled = t.filled /\ a.trade = t.trade /\ a.done = t.done
    BY <2>2 DEF TxRecords
  <2> HIDE DEF a, s
  <2>6. a \in TxRecords
    BY <2>2, <2>3, <2>4, TxUpdateEnd
  <2>7. u \in TxRecords
    BY <2>6, TxUpdateDone DEF ExecIds
  <2>8. /\ u.st = target /\ u.res = "RELEASED" /\ u.left = 0 /\ u.p = t.p
        /\ u.filled = t.filled /\ u.trade = t.trade /\ u.done = [t.done EXCEPT ![i] = 0]
    BY <2>5, <2>6 DEF TxRecords
  <2> HIDE DEF u
  <2>9. \A j \in FillIds : u.done[j] = t.done[j]
    BY <2>8 DEF TxRecords, FillIds, ExecIds
  <2>10. Sound(u)
    BY <2>8, <2>9 DEF Sound, TERMINAL_STATES
  <2> QED BY <2>7, <2>8, <2>10 DEF a, u
<1> QED BY <1>1, <1>2

\* apply_execution: a duplicate changes nothing, a conflict raises, and a new
\* execution is applied soundly or raises.
LEMMA ApplySound ==
    ASSUME NEW t \in TxRecords, t.ok => Sound(t), NEW e \in Executions \cup {NoExecution}
    PROVE  LET u == apply_execution(t, e)
           IN  u \in TxRecords /\ u.p = t.p /\ (u.ok => Sound(u))
<1> DEFINE u == apply_execution(t, e)
<1>1. CASE ~t.ok \/ e = NoExecution
  BY <1>1 DEF apply_execution
<1>2. CASE ~(~t.ok \/ e = NoExecution) /\ t.done[e.id] # None
  <2>1. u = t \/ u = Raise(t)
    BY <1>2 DEF apply_execution
  <2> HIDE DEF u
  <2> QED BY <1>2, <2>1, RaiseFacts DEF u
<1>3. CASE ~(~t.ok \/ e = NoExecution) /\ t.done[e.id] = None
  <2>0. e.qty \in Nat
    BY <1>3 DEF Executions
  <2>1. u = [Mutation(t, e) EXCEPT !.done[e.id] = e.qty]
    BY <1>3, <2>0 DEF apply_execution, None
  <2>2. Sound(t) /\ t.st \in States
    BY <1>3 DEF TxRecords
  <2>3. CASE e \in [id : FillIds, qty : Nat, outcome : {"FILL"}]
    <3>1. e = Execution(e.id, e.qty, "FILL") /\ e.id \in FillIds /\ e.qty \in Nat
      BY <2>3 DEF Execution
    <3>2. Mutation(t, e) = ApplyFill(t, Execution(e.id, e.qty, "FILL"))
      BY <2>3, <3>1 DEF Mutation
    <3> QED BY <1>3, <2>1, <2>2, <3>1, <3>2, FillSound
  <2>4. CASE e \in [id : {"reject"}, qty : {0}, outcome : {"REJECT"}]
    <3>1. Mutation(t, e) = ApplyEnd(t, t.st, "REJECTED") /\ e.id = "reject" /\ e.qty = 0
      BY <2>4 DEF Mutation
    <3>2. Allowed(t.st, "REJECTED") => t.st = "PENDING"
      BY <2>2, EndFromLive
    <3>3. "REJECTED" \in TERMINAL_STATES
      BY DEF TERMINAL_STATES
    <3> QED BY <2>1, <2>2, <3>1, <3>2, <3>3, EndSound
  <2>5. CASE e \in [id : {"expire"}, qty : {0}, outcome : {"EXPIRE"}]
    <3>1. Mutation(t, e) = ApplyEnd(t, Opened(t.st), "EXPIRED") /\ e.id = "expire" /\ e.qty = 0
      BY <2>5 DEF Mutation
    <3>2. Allowed(Opened(t.st), "EXPIRED") => t.st \in {"PENDING", "ACCEPTED", "OPEN"}
      BY <2>2, EndFromLive
    <3>3. "EXPIRED" \in TERMINAL_STATES /\ Opened(t.st) \in States
      BY <2>2 DEF TERMINAL_STATES, Opened, States
    <3> QED BY <2>1, <2>2, <3>1, <3>2, <3>3, EndSound
  <2> QED BY <1>3, <2>3, <2>4, <2>5 DEF Executions
<1> QED BY <1>1, <1>2, <1>3

\* Moving on to ACCEPTED or to OPEN keeps a covered order sound.
LEMMA StateStepSound ==
    ASSUME NEW t \in TxRecords, t.ok => Sound(t) /\ Covered(t), NEW s \in {"ACCEPTED", "OPEN"}
    PROVE  LET u == [t EXCEPT !.st = s]
           IN  u \in TxRecords /\ u.p = t.p /\ (u.ok => Sound(u))
<1> DEFINE u == [t EXCEPT !.st = s]
<1>1. s \in States
  BY DEF States
<1>2. u \in TxRecords
  BY <1>1, TxUpdateEnd DEF TxRecords
<1>3. /\ u.st = s /\ u.p = t.p /\ u.filled = t.filled /\ u.res = t.res /\ u.left = t.left
      /\ u.trade = t.trade /\ u.done = t.done /\ u.ok = t.ok
  BY DEF TxRecords
<1> HIDE DEF u
<1>4. u.ok => Sound(u)
  BY <1>3 DEF Sound, Covered, TERMINAL_STATES
<1> QED BY <1>2, <1>3, <1>4 DEF u

\* One processing transaction that starts from a sound order with its whole
\* reservation, whatever state the order was read in and is in by now.
LEMMA ProcessSound ==
    ASSUME NEW o \in Orders, order[o] \in OrderRecords, order[o].p \in Payloads,
           balance \in Int, position \in Int, Sound(order[o]),
           Exists(o), Covered(order[o]), NEW s \in Scenarios, NEW seen
    PROVE  LET u == process_created_order(o, seen, s)
           IN  u \in TxRecords /\ u.p = order[o].p /\ (u.ok => Sound(u))
<1> DEFINE t == Transaction(o)
           t0 == AcceptIfPending(t, seen, s)
           t1 == apply_execution(t0, FirstExecution(order[o].p, s))
           t2 == apply_execution(t1, SecondExecution(order[o].p, s))
           u == OpenIfAccepted(t2)
<1>1. t \in TxRecords /\ Sound(t) /\ Covered(t) /\ t.p = order[o].p
  <2>1. t \in TxRecords
    BY DEF Transaction, TxRecords, OrderRecords, Exists
  <2> QED BY <2>1 DEF Transaction, Sound, Covered
<1> HIDE DEF t
<1>2. t0 \in TxRecords /\ t0.p = order[o].p /\ (t0.ok => Sound(t0))
  BY <1>1, StateStepSound DEF AcceptIfPending
<1> HIDE DEF t0
<1>3. t1 \in TxRecords /\ t1.p = order[o].p /\ (t1.ok => Sound(t1))
  BY <1>2, ExecutionsTyped, ApplySound
<1> HIDE DEF t1
<1>4. t2 \in TxRecords /\ t2.p = order[o].p /\ (t2.ok => Sound(t2))
  BY <1>3, ExecutionsTyped, ApplySound
<1> HIDE DEF t2
<1>5. u \in TxRecords /\ u.p = order[o].p /\ (u.ok => Sound(u))
  <2>1. t2.ok /\ t2.st = "ACCEPTED" => Covered(t2)
    BY <1>4 DEF Sound
  <2> QED BY <1>4, <2>1, StateStepSound DEF OpenIfAccepted
<1>6. u = process_created_order(o, seen, s)
  BY DEF process_created_order, t, t0, t1, t2
<1> QED BY <1>5, <1>6

-----------------------------------------------------------------------------
(* The inductive step.                                                     *)

\* Committing a sound transaction leaves a sound order and touches no other.
LEMMA CommitSound ==
    ASSUME TypeOK, NEW o \in Orders, NEW t \in TxRecords, Sound(t),
           NEW saved \in BOOLEAN, Commit(o, t, saved)
    PROVE  /\ order' \in [Orders -> OrderRecords] /\ balance' \in Int /\ position' \in Int
           /\ order'[o].st = t.st /\ order'[o].p = t.p /\ Sound(order'[o])
           /\ \A x \in Orders : x # o => order'[x] = order[x]
<1> DEFINE new == [st |-> t.st, p |-> t.p, filled |-> t.filled, res |-> t.res,
                   left |-> t.left, trade |-> t.trade, done |-> t.done,
                   ver |-> IF saved THEN order[o].ver + 1 ELSE order[o].ver]
<1>1. order' = [order EXCEPT ![o] = new] /\ balance' = t.bal /\ position' = t.pos
  BY DEF Commit
<1>2. order[o].ver \in Nat /\ order \in [Orders -> OrderRecords]
  BY DEF TypeOK, OrderRecords
<1>3. new \in OrderRecords
  BY <1>2 DEF OrderRecords, TxRecords
<1>4. Sound(new) /\ new.st = t.st /\ new.p = t.p
  BY DEF Sound, Covered
<1> HIDE DEF new
<1>5. order' \in [Orders -> OrderRecords] /\ order'[o] = new
  BY <1>1, <1>2, <1>3
<1>6. \A x \in Orders : x # o => order'[x] = order[x]
  BY <1>1, <1>2
<1>7. balance' \in Int /\ position' \in Int
  BY <1>1 DEF TxRecords
<1> QED BY <1>4, <1>5, <1>6, <1>7

\* Nothing exists initially, so the inductive invariant holds.
LEMMA InitInv == Init => Inv
<1> SUFFICES ASSUME Init PROVE Inv
  OBVIOUS
<1>1. NoOrder \in OrderRecords /\ NoOrder.st = "NONE"
  BY DEF NoOrder, OrderRecords, States, FillIds, ExecIds, None
<1> HIDE DEF NoOrder
<1>2. TypeOK
  BY <1>1, MoneyAssumption, FlagAssumption
  DEF Init, TypeOK, CreateRecords, CancelRecords, RequestStates, WorkerStates, Idle
<1>3. RouterInv
  BY <1>1 DEF Init, RouterInv, Exists, Idle
<1> QED BY <1>2, <1>3 DEF Inv

\* The steps of a request that write no order.
LEMMA RequestKeepsInv ==
    ASSUME Inv, NEW r \in Requests, UNCHANGED <<order, routed, inlineDue, balance, position, work, aborts,
                                            compliance>>,
           createRec' \in [CreateKeys -> CreateRecords],
           cancelRec' \in [Orders -> [CancelKeys -> CancelRecords]],
           NEW q \in RequestStates, q.pc = "cancel" => Exists(q.ord),
           req' = [req EXCEPT ![r] = q]
    PROVE  Inv'
<1>1. TypeOK'
  BY DEF Inv, TypeOK
<1>2. \A x \in Requests : req'[x].pc = "cancel" => Exists(req'[x].ord)
  BY DEF Inv, TypeOK, RouterInv
<1>3. RouterInv'
  BY <1>2 DEF Inv, RouterInv, Exists
<1> QED BY <1>1, <1>3 DEF Inv

\* An idle thread is in no request.
LEMMA IdleIsRequestState == Idle \in RequestStates /\ Idle.pc # "cancel"
BY DEF Idle, RequestStates

\* Writing one create record keeps the table's type.
LEMMA CreateRecordUpdate ==
    ASSUME Inv, NEW k \in CreateKeys, NEW v \in CreateRecords
    PROVE  [createRec EXCEPT ![k] = v] \in [CreateKeys -> CreateRecords]
BY DEF Inv, TypeOK

\* Writing one cancel record keeps the table's type.
LEMMA CancelRecordUpdate ==
    ASSUME Inv, NEW o \in Orders, NEW k \in CancelKeys, NEW v \in CancelRecords
    PROVE  [cancelRec EXCEPT ![o][k] = v] \in [Orders -> [CancelKeys -> CancelRecords]]
BY DEF Inv, TypeOK

\* What a request thread in the middle of a create or a cancel holds.
LEMMA RequestFacts ==
    ASSUME Inv, NEW r \in Requests
    PROVE  /\ req[r].pc = "create" => req[r].key \in CreateKeys /\ req[r].p \in Payloads
           /\ req[r].pc = "cancel" => /\ req[r].key \in CancelKeys /\ req[r].ord \in Orders
                                      /\ req[r].ver \in Nat /\ Exists(req[r].ord)
<1>1. req[r] \in RequestStates
  BY DEF Inv, TypeOK
<1> QED BY <1>1 DEF Inv, RouterInv, RequestStates, Idle

\* A new order is sound: nothing filled, everything reserved.
LEMMA NewOrderSound ==
    ASSUME NEW p \in Payloads
    PROVE  /\ NewOrder(p) \in OrderRecords /\ Sound(NewOrder(p))
           /\ NewOrder(p).st = "PENDING" /\ NewOrder(p).p = p /\ Covered(NewOrder(p))
<1> DEFINE c == p.qty * UnitCost(p.side)
           n == NewOrder(p)
<1>1. p.qty \in Nat /\ UnitCost(p.side) \in Nat
  BY PayloadAssumption, UnitCostPositive
<1>2. c \in Nat /\ p.qty - 0 = p.qty
  BY <1>1
<1>3. n = [NoOrder EXCEPT !.st = "PENDING", !.p = p, !.res = "ACTIVE", !.left = c, !.ver = 1]
  BY DEF NewOrder
<1> HIDE DEF c, n
<1>4. NoOrder \in OrderRecords
  BY DEF NoOrder, OrderRecords, States, FillIds, ExecIds, None
<1>5. n \in OrderRecords
  BY <1>2, <1>3, <1>4 DEF OrderRecords, States
<1>6. /\ n.st = "PENDING" /\ n.p = p /\ n.res = "ACTIVE" /\ n.left = c
      /\ n.filled = 0 /\ \A i \in FillIds : n.trade[i] = 0
  BY <1>3 DEF NoOrder
<1>7. Sound(n) /\ Covered(n)
  BY <1>1, <1>2, <1>6 DEF Sound, Covered, TERMINAL_STATES, FillIds, c
<1> QED BY <1>5, <1>6, <1>7 DEF n

\* _create_allowed adds a sound PENDING order that nobody has routed.
LEMMA CreateCommitInv ==
    ASSUME ~Inline, Inv, NEW r \in Requests, NEW o \in Orders, CreateCommit(r, o)
    PROVE  Inv'
<1> DEFINE k == req[r].key
           p == req[r].p
<1>1. k \in CreateKeys /\ p \in Payloads
  BY RequestFacts DEF CreateCommit
<1>2. /\ order' = [order EXCEPT ![o] = NewOrder(p)] /\ ~Exists(o)
      /\ createRec' = [createRec EXCEPT ![k] = [st |-> "done", p |-> p, ord |-> o]]
      /\ inlineDue' = inlineDue /\ req' = [req EXCEPT ![r] = Idle]
      /\ UNCHANGED <<routed, balance, position, cancelRec, work, aborts, compliance>>
  BY DEF CreateCommit
<1> HIDE DEF k, p
<1>3. createRec' \in [CreateKeys -> CreateRecords]
  BY <1>1, <1>2, CreateRecordUpdate DEF CreateRecords
<1>4. TypeOK'
  <2>1. order' \in [Orders -> OrderRecords]
    BY <1>1, <1>2, NewOrderSound DEF Inv, TypeOK
  <2>2. req' \in [Requests -> RequestStates]
    BY <1>2, IdleIsRequestState DEF Inv, TypeOK
  <2> QED BY <1>2, <1>3, <2>1, <2>2 DEF Inv, TypeOK
<1>5. order'[o] = NewOrder(p) /\ \A x \in Orders : x # o => order'[x] = order[x]
  BY <1>2 DEF Inv, TypeOK
<1>6. order'[o].st = "PENDING" /\ Sound(order'[o]) /\ Covered(order'[o])
      /\ order'[o].p \in Payloads
  BY <1>1, <1>5, NewOrderSound
<1>7. \A x \in Requests : req'[x].pc = "cancel" => Exists(req'[x].ord) /\ req'[x].ord \in Orders
  <2> SUFFICES ASSUME NEW x \in Requests, req'[x].pc = "cancel"
               PROVE  Exists(req'[x].ord) /\ req'[x].ord \in Orders
    OBVIOUS
  <2>1. req'[x] = req[x]
    BY <1>2, IdleIsRequestState DEF Inv, TypeOK
  <2> QED BY <2>1, RequestFacts
<1>8. \A x \in Workers : work[x].pc = "read" => work[x].ord \in Orders
  BY DEF Inv, TypeOK, WorkerStates, Idle
<1>9. RouterInv'
  BY <1>2, <1>5, <1>6, <1>7, <1>8 DEF Inv, RouterInv, Exists, Untouched
<1> QED BY <1>4, <1>9 DEF Inv

\* A transaction committed on an order that exists, by a worker or a request.
LEMMA OrderCommitInv ==
    ASSUME Inv, NEW o \in Orders, Exists(o), NEW t \in TxRecords, Sound(t),
           t.p = order[o].p, NEW saved \in BOOLEAN, Commit(o, t, saved),
           inlineDue' = inlineDue, aborts' = aborts, createRec' = createRec,
           compliance' = compliance,
           routed' = routed \/ routed' = routed \cup {o}, o \in routed',
           cancelRec' \in [Orders -> [CancelKeys -> CancelRecords]],
           req' = req \/ \E r \in Requests : req' = [req EXCEPT ![r] = Idle],
           work' = work \/ \E w \in Workers : work' = [work EXCEPT ![w] = Idle]
    PROVE  Inv'
<1>1. /\ order' \in [Orders -> OrderRecords] /\ balance' \in Int /\ position' \in Int
      /\ order'[o].st = t.st /\ order'[o].p = t.p /\ Sound(order'[o])
      /\ \A x \in Orders : x # o => order'[x] = order[x]
  BY CommitSound DEF Inv
<1>2. t.st # "NONE" /\ order[o].p \in Payloads
  BY DEF TxRecords, States, TERMINAL_STATES, Inv, RouterInv
<1>3. \A x \in Workers : work'[x] = work[x] \/ work'[x] = Idle
  BY DEF Inv, TypeOK
<1>4. \A x \in Requests : req'[x] = req[x] \/ req'[x] = Idle
  BY DEF Inv, TypeOK
<1>5. work' \in [Workers -> WorkerStates] /\ req' \in [Requests -> RequestStates]
  BY IdleIsRequestState DEF Inv, TypeOK, WorkerStates
<1>6. TypeOK'
  BY <1>1, <1>5 DEF Inv, TypeOK
<1>7. \A x \in Orders : Exists(x) => order'[x].st # "NONE"
  BY <1>1, <1>2 DEF Exists
<1>8. \A x \in Workers : work'[x].pc = "read" =>
         /\ work'[x].via = "router" /\ work'[x].ord \in Orders /\ Exists(work'[x].ord)
         /\ work'[x].ord \notin routed => Untouched(work'[x].seen)
  <2>1. \A x \in Workers : work[x].pc = "read" => work[x].ord \in Orders
    BY DEF Inv, TypeOK, WorkerStates, Idle
  <2>2. Idle.pc # "read"
    BY DEF Idle
  <2> HIDE DEF Idle
  <2> QED BY <1>3, <2>1, <2>2 DEF Inv, RouterInv
<1>9. \A x \in Requests : req'[x].pc = "cancel" => req'[x].ord \in Orders /\ Exists(req'[x].ord)
  BY <1>4, IdleIsRequestState, RequestFacts
<1>10. RouterInv'
  BY <1>1, <1>2, <1>7, <1>8, <1>9 DEF Inv, RouterInv, Exists
<1> QED BY <1>6, <1>10 DEF Inv

\* The transaction of a consumer that wins its ProcessedEvent starts from an
\* order nobody has filled or cancelled, whatever happened since it was read.
LEMMA WorkerFacts ==
    ASSUME Inv, NEW w \in Workers, work[w].pc = "read", WinsInbox(work[w])
    PROVE  LET j == work[w]
           IN  /\ j.ord \in Orders /\ j.via = "router" /\ j.ord \notin routed
               /\ Exists(j.ord) /\ j.scenario \in Scenarios
               /\ Untouched(order[j.ord].st) /\ Covered(order[j.ord]) /\ Sound(order[j.ord])
               /\ order[j.ord] \in OrderRecords /\ order[j.ord].p \in Payloads
<1>1. work[w] \in WorkerStates
  BY DEF Inv, TypeOK
<1>2. work[w].ord \in Orders /\ work[w].scenario \in Scenarios
  BY <1>1 DEF WorkerStates, Idle
<1>3. work[w].via = "router" /\ work[w].ord \notin routed
  BY DEF Inv, RouterInv, WinsInbox
<1> QED BY <1>2, <1>3 DEF Inv, RouterInv, TypeOK

\* A consumer's transaction keeps the inductive invariant: WorkerFacts gives
\* the state it starts from, ProcessSound the order it leaves.
LEMMA ProcessCommitInv ==
    ASSUME Inv, NEW w \in Workers, ProcessCommit(w)
    PROVE  Inv'
<1> DEFINE j == work[w]
           t == process_created_order(j.ord, j.seen, j.scenario)
           saved == t # Transaction(j.ord) \/ (j.seen = "PENDING" /\ j.scenario # "REJECT")
<1>1. /\ j.pc = "read" /\ WinsInbox(j) /\ t.ok /\ Commit(j.ord, t, saved)
      /\ routed' = IF j.via = "router" THEN routed \cup {j.ord} ELSE routed
      /\ work' = [work EXCEPT ![w] = Idle]
      /\ UNCHANGED <<inlineDue, createRec, cancelRec, req, aborts, compliance>>
  BY DEF ProcessCommit
<1>2. /\ j.ord \in Orders /\ j.via = "router" /\ Exists(j.ord)
      /\ j.scenario \in Scenarios /\ Covered(order[j.ord])
      /\ Sound(order[j.ord]) /\ order[j.ord] \in OrderRecords /\ order[j.ord].p \in Payloads
  BY <1>1, WorkerFacts
<1>3. t \in TxRecords /\ t.p = order[j.ord].p /\ Sound(t)
  BY <1>1, <1>2, ProcessSound DEF Inv, TypeOK
<1>4. saved \in BOOLEAN
  OBVIOUS
<1>5. routed' = routed \cup {j.ord}
  BY <1>1, <1>2
<1>6. cancelRec' \in [Orders -> [CancelKeys -> CancelRecords]]
  BY <1>1 DEF Inv, TypeOK
<1> HIDE DEF t, saved, j
<1> QED BY <1>1, <1>2, <1>3, <1>4, <1>5, <1>6, OrderCommitInv

\* A cancel ends a routed live order and releases its reservation.
LEMMA CancelCommitInv ==
    ASSUME Inv, NEW r \in Requests, CancelCommit(r)
    PROVE  Inv'
<1> DEFINE o == req[r].ord
           k == req[r].key
           t == Transaction(o)
           s == [t EXCEPT !.res = "RELEASED", !.left = 0]
           u == [release_reservation(t) EXCEPT !.st = "CANCELLED"]
<1>1. o \in Orders /\ k \in CancelKeys /\ req[r].ver \in Nat /\ Exists(o)
  BY RequestFacts DEF CancelCommit
<1>2. /\ Cancellable(o) /\ Commit(o, u, TRUE)
      /\ cancelRec' = [cancelRec EXCEPT ![o][k] = [st |-> "ok", ver |-> req[r].ver]]
      /\ req' = [req EXCEPT ![r] = Idle]
      /\ UNCHANGED <<routed, inlineDue, createRec, work, aborts, compliance>>
  BY DEF CancelCommit, Answer
<1>3. cancelRec' \in [Orders -> [CancelKeys -> CancelRecords]]
  <2>1. [st |-> "ok", ver |-> req[r].ver] \in CancelRecords
    BY <1>1 DEF CancelRecords, Answered
  <2> QED BY <1>1, <1>2, <2>1, CancelRecordUpdate
<1>4. order[o].st \in {"ACCEPTED", "OPEN", "PARTIALLY_FILLED"}
  BY <1>2 DEF Cancellable
<1>5. o \in routed
  BY <1>1, <1>4 DEF Inv, RouterInv, Untouched
<1>6. order[o] \in OrderRecords /\ Sound(order[o]) /\ order[o].p \in Payloads
      /\ balance \in Int /\ position \in Int
  BY <1>1 DEF Inv, RouterInv, TypeOK
<1>7. t \in TxRecords
  BY <1>4, <1>6 DEF Transaction, TxRecords, OrderRecords, States
<1>8. Sound(t) /\ t.p = order[o].p /\ t.st = order[o].st
  BY <1>6 DEF Transaction, Sound, Covered
<1>9. t.res = "ACTIVE"
  BY <1>4, <1>8 DEF Sound, Covered
<1> HIDE DEF t, o, k
<1>10. u = [s EXCEPT !.st = "CANCELLED"]
  BY <1>9 DEF release_reservation
<1>11. /\ u.st = "CANCELLED" /\ u.res = "RELEASED" /\ u.left = 0 /\ u.p = t.p
       /\ u.filled = t.filled /\ u.trade = t.trade /\ u.done = t.done
  BY <1>7, <1>10 DEF TxRecords
<1>12. s \in TxRecords /\ "CANCELLED" \in States
  BY <1>7, TxUpdateEnd DEF States, TERMINAL_STATES, TxRecords
<1> HIDE DEF u, s
<1>13. u \in TxRecords
  BY <1>10, <1>12, TxUpdateEnd DEF TxRecords
<1>14. Sound(u)
  BY <1>8, <1>11 DEF Sound, TERMINAL_STATES
<1> QED BY <1>1, <1>2, <1>3, <1>5, <1>8, <1>11, <1>13, <1>14, OrderCommitInv

\* Reads and rollbacks of a worker.
LEMMA WorkerKeepsInv ==
    ASSUME Inv, NEW w \in Workers, NEW j \in WorkerStates,
           work' = [work EXCEPT ![w] = j], aborts' \in 0 .. MaxAborts,
           j.pc = "read" => /\ j.via = "router" /\ Exists(j.ord)
                            /\ j.ord \notin routed => Untouched(j.seen),
           UNCHANGED <<order, routed, inlineDue, balance, position, createRec, cancelRec, req,
                       compliance>>
    PROVE  Inv'
<1>1. TypeOK'
  BY DEF Inv, TypeOK
<1>2. \A x \in Workers : work'[x] = work[x] \/ work'[x] = j
  BY DEF Inv, TypeOK
<1>3. RouterInv'
  BY <1>2 DEF Inv, RouterInv, Exists
<1> QED BY <1>1, <1>3 DEF Inv

\* A compliance review may end a PENDING order, but leaves its reservation
\* with it: that is why an order resurrected by process_created_order is
\* still covered.
LEMMA ComplianceInv ==
    ASSUME Inv, ComplianceStep
    PROVE  Inv'
<1>1. /\ UNCHANGED <<routed, inlineDue, balance, position, createRec, cancelRec, req, work, aborts>>
      /\ compliance.reviews < MaxReviews
      /\ \E b \in BOOLEAN : compliance' = [eligible |-> b, reviews |-> compliance.reviews + 1]
  BY DEF ComplianceStep, ComplianceDenies, ComplianceChanges, Review
<1>2. compliance.reviews \in Nat /\ MaxReviews \in Nat /\ compliance.reviews + 1 \in 0 .. MaxReviews
      /\ MaxReviews # 0
  BY <1>1, FlagAssumption DEF Inv, TypeOK
<1>3. compliance' \in [eligible : BOOLEAN, reviews : 0 .. MaxReviews]
  BY <1>1, <1>2
<1>4. CASE UNCHANGED order
  BY <1>1, <1>3, <1>4 DEF Inv, TypeOK, RouterInv, Exists
<1>5. CASE ComplianceDenies
  <2>1. \A o \in Orders : order'[o] = IF order[o].st = "PENDING"
                                     THEN [order[o] EXCEPT !.st = "REJECTED"] ELSE order[o]
    BY <1>5 DEF ComplianceDenies
  <2>2. ASSUME NEW o \in Orders
        PROVE  /\ order'[o] \in OrderRecords /\ order'[o].p = order[o].p
               /\ (order'[o].st = "NONE") = (order[o].st = "NONE")
               /\ order[o].st = "NONE" => order'[o] = order[o]
               /\ Untouched(order[o].st) => Untouched(order'[o].st)
               /\ Covered(order[o]) => Covered(order'[o])
               /\ Sound(order[o]) => Sound(order'[o])
    <3>1. order[o] \in OrderRecords
      BY DEF Inv, TypeOK
    <3>2. CASE order[o].st # "PENDING"
      BY <2>1, <3>1, <3>2
    <3>3. CASE order[o].st = "PENDING"
      <4>1. order'[o] = [order[o] EXCEPT !.st = "REJECTED"]
        BY <2>1, <3>3
      <4>2. order'[o] \in OrderRecords
        BY <3>1, <4>1 DEF OrderRecords, States, TERMINAL_STATES
      <4>3. /\ order'[o].st = "REJECTED" /\ order'[o].p = order[o].p
            /\ order'[o].filled = order[o].filled /\ order'[o].res = order[o].res
            /\ order'[o].left = order[o].left /\ order'[o].trade = order[o].trade
            /\ order'[o].done = order[o].done
        BY <3>1, <4>1 DEF OrderRecords
      <4> QED BY <1>2, <3>3, <4>2, <4>3 DEF Sound, Covered, Untouched
    <3> QED BY <3>2, <3>3
  <2>3. order' \in [Orders -> OrderRecords]
    <3>1. order' = [o \in Orders |-> order'[o]]
      BY <1>5 DEF ComplianceDenies
    <3> QED BY <2>2, <3>1
  <2>4. TypeOK'
    BY <1>1, <1>3, <2>3 DEF Inv, TypeOK
  <2>5. \A w \in Workers : work[w].pc = "read" => work[w].ord \in Orders
    BY DEF Inv, TypeOK, WorkerStates, Idle
  <2>6. \A r \in Requests : req[r].pc = "cancel" => req[r].ord \in Orders
    BY RequestFacts
  <2>7. RouterInv'
    BY <1>1, <2>2, <2>5, <2>6 DEF Inv, RouterInv, Exists
  <2> QED BY <2>4, <2>7 DEF Inv
<1> QED BY <1>4, <1>5 DEF ComplianceStep, ComplianceChanges

\* Every step keeps the inductive invariant, one case per action.
LEMMA StepInv ==
    ASSUME ~Inline, Inv, [Next]_vars
    PROVE  Inv'
<1>0. createRec \in [CreateKeys -> CreateRecords]
      /\ cancelRec \in [Orders -> [CancelKeys -> CancelRecords]]
      /\ aborts \in 0 .. MaxAborts /\ inlineDue = {} /\ Idle \in WorkerStates /\ Idle.pc # "read"
      /\ MaxAborts \in Nat
  BY FlagAssumption DEF Inv, TypeOK, RouterInv, WorkerStates, Idle
<1>1. CASE UNCHANGED vars
  BY <1>1 DEF vars, Inv, TypeOK, RouterInv, Exists
<1>2. ASSUME NEW r \in Requests, RequestStep(r) PROVE Inv'
  <2>1. ASSUME NEW k \in CreateKeys, NEW p \in Payloads, CreateBegin(r, k, p) PROVE Inv'
    <3>1. [pc |-> "create", key |-> k, p |-> p] \in RequestStates
      BY DEF RequestStates
    <3> QED BY <1>0, <2>1, <3>1, RequestKeepsInv DEF CreateBegin
  <2>2. ASSUME NEW k \in CreateKeys, NEW p \in Payloads, CreateDenied(r, k, p) PROVE Inv'
    <3>1. createRec' \in [CreateKeys -> CreateRecords]
      BY <2>2, CreateRecordUpdate DEF CreateDenied, Denied, CreateRecords
    <3> QED BY <2>2, <3>1 DEF CreateDenied, Inv, TypeOK, RouterInv, Exists
  <2>3. ASSUME NEW o \in Orders, CreateCommit(r, o) PROVE Inv'
    BY <2>3, CreateCommitInv
  <2>4. CASE CreateRefused(r)
    <3>1. createRec' \in [CreateKeys -> CreateRecords]
      BY <2>4, CreateRecordUpdate, RequestFacts DEF CreateRefused, Denied, CreateRecords
    <3> QED BY <1>0, <2>4, <3>1, RequestKeepsInv, IdleIsRequestState DEF CreateRefused
  <2>5. CASE CreateRollback(r)
    BY <1>0, <2>5, RequestKeepsInv, IdleIsRequestState DEF CreateRollback
  <2>6. ASSUME NEW o \in Orders, NEW k \in CancelKeys, NEW v \in 1 .. order[o].ver,
               CancelBegin(r, o, k, v)
        PROVE  Inv'
    <3>1. order[o].ver \in Nat
      BY DEF Inv, TypeOK, OrderRecords
    <3>2. v \in Nat
      BY <3>1
    <3>3. cancelRec' \in [Orders -> [CancelKeys -> CancelRecords]]
      BY <2>6, <3>2, CancelRecordUpdate DEF CancelBegin, CancelRecords
    <3>4. [pc |-> "cancel", key |-> k, ord |-> o, ver |-> v] \in RequestStates
      BY <3>2 DEF RequestStates
    <3> QED BY <1>0, <2>6, <3>3, <3>4, RequestKeepsInv DEF CancelBegin
  <2>7. CASE CancelCommit(r)
    BY <2>7, CancelCommitInv
  <2>8. CASE CancelConflict(r)
    <3>1. req[r].ord \in Orders /\ req[r].key \in CancelKeys /\ req[r].ver \in Nat
      BY <2>8, RequestFacts DEF CancelConflict
    <3>2. [st |-> "conflict", ver |-> req[r].ver] \in CancelRecords
      BY <3>1 DEF CancelRecords, Answered
    <3>3. cancelRec' \in [Orders -> [CancelKeys -> CancelRecords]]
      BY <2>8, <3>1, <3>2, CancelRecordUpdate DEF CancelConflict, Answer
    <3> QED BY <1>0, <2>8, <3>3, RequestKeepsInv, IdleIsRequestState DEF CancelConflict, Answer
  <2>9. CASE CancelRollback(r)
    BY <1>0, <2>9, RequestKeepsInv, IdleIsRequestState DEF CancelRollback
  <2> QED BY <1>2, <2>1, <2>2, <2>3, <2>4, <2>5, <2>6, <2>7, <2>8, <2>9 DEF RequestStep
<1>3. ASSUME NEW w \in Workers, WorkerStep(w) PROVE Inv'
  <2>1. ASSUME NEW o \in Orders, NEW s \in Scenarios, RouterRead(w, o, s) PROVE Inv'
    <3> DEFINE j == [pc |-> "read", via |-> "router", ord |-> o,
                     seen |-> order[o].st, scenario |-> s]
    <3>1. Untouched(order[o].st) /\ Exists(o) /\ o \notin routed
      BY <2>1 DEF RouterRead, Inv, RouterInv
    <3>2. j \in WorkerStates
      BY <3>1 DEF WorkerStates, States, TERMINAL_STATES, Untouched
    <3> QED BY <1>0, <2>1, <3>1, <3>2, WorkerKeepsInv DEF RouterRead
  <2>2. ASSUME NEW o \in Orders, NEW s \in Scenarios, InlineRead(w, o, s) PROVE Inv'
    BY <1>0, <2>2 DEF InlineRead
  <2>3. CASE ProcessCommit(w)
    BY <2>3, ProcessCommitInv
  <2>4. CASE ProcessRollback(w)
    BY <1>0, <2>4, WorkerKeepsInv DEF ProcessRollback
  <2>5. CASE ProcessAbort(w)
    <3>1. aborts' \in 0 .. MaxAborts
      BY <1>0, <2>5 DEF ProcessAbort
    <3> QED BY <1>0, <2>5, <3>1, WorkerKeepsInv DEF ProcessAbort
  <2> QED BY <1>3, <2>1, <2>2, <2>3, <2>4, <2>5 DEF WorkerStep
<1>4. CASE ComplianceStep
  BY <1>4, ComplianceInv
<1> QED BY <1>1, <1>2, <1>3, <1>4 DEF Next

-----------------------------------------------------------------------------
\* The inductive invariant holds throughout consumer-only operation.
LEMMA Invariance == ASSUME ~Inline PROVE Spec => []Inv
<1>1. Init => Inv
  BY InitInv
<1>2. Inv /\ [Next]_vars => Inv'
  BY StepInv
<1> QED BY <1>1, <1>2, PTL DEF Spec

\* An order that was never created has no fills and no state.
LEMMA NoOrderFacts ==
    /\ NoOrder.filled = 0 /\ NoOrder.trade["1"] = 0 /\ NoOrder.trade["2"] = 0
    /\ NoOrder.p.qty = 0 /\ NoOrder.st = "NONE"
BY DEF NoOrder, FillIds

\* In consumer-only operation, while compliance invalidates no order, a filled,
\* cancelled, rejected or expired order holds no reservation.
THEOREM NoReservationLeak ==
    ASSUME ~Inline, MaxReviews = 0 PROVE Spec => []ReservationConsistency
<1>1. Inv => ReservationConsistency
  BY NoOrderFacts DEF Inv, RouterInv, Sound, ReservationConsistency, Exists, TERMINAL_STATES
<1> QED BY <1>1, Invariance, PTL

\* In consumer-only operation a live order's reservation is active and covers
\* exactly what is left to fill, fees included.
THEOREM ReservationAlwaysCovers == ASSUME ~Inline PROVE Spec => []LiveReservationCovers
<1>1. Inv => LiveReservationCovers
  BY NoOrderFacts DEF Inv, RouterInv, Sound, Covered, LiveReservationCovers, Live, Exists
<1> QED BY <1>1, Invariance, PTL

\* The step behind TerminalIsFinal: only an order that does not exist, is still
\* PENDING (ProcessCommit) or can be cancelled (CancelCommit) is ever written.
LEMMA TerminalStep ==
    ASSUME MaxReviews = 0, Inv, [Next]_vars, NEW o \in Orders,
           order[o].st \in TERMINAL_STATES
    PROVE  Outcome(order'[o]) = Outcome(order[o])
<1> SUFFICES order'[o] = order[o]
  BY Zenon
<1>0. order \in [Orders -> OrderRecords] /\ order[o].st # "NONE" /\ order[o].st # "PENDING"
      /\ order[o].st \notin {"ACCEPTED", "OPEN", "PARTIALLY_FILLED"}
  BY DEF Inv, TypeOK, TERMINAL_STATES
<1>1. ASSUME NEW r \in Requests, NEW x \in Orders, CreateCommit(r, x)
      PROVE  order'[o] = order[o]
  BY <1>0, <1>1 DEF CreateCommit, Exists
<1>2. ASSUME NEW w \in Workers, ProcessCommit(w) PROVE order'[o] = order[o]
  <2> DEFINE x == work[w].ord
  <2>1. x \in Orders /\ order[x].st = "PENDING"
    BY <1>2, WorkerFacts DEF ProcessCommit, Untouched
  <2>2. x # o
    BY <1>0, <2>1
  <2>3. PICK v : order' = [order EXCEPT ![x] = v]
    BY <1>2, Zenon DEF ProcessCommit, Commit
  <2> QED BY <1>0, <2>1, <2>2, <2>3
<1>3. ASSUME NEW r \in Requests, CancelCommit(r) PROVE order'[o] = order[o]
  <2> DEFINE x == req[r].ord
  <2>1. x # o
    BY <1>0, <1>3 DEF CancelCommit, Cancellable
  <2>2. PICK v : order' = [order EXCEPT ![x] = v]
    BY <1>3, Zenon DEF CancelCommit, Commit
  <2> QED BY <1>0, <2>1, <2>2
<1>4. CASE UNCHANGED order
  BY <1>4
<1>5. ASSUME NEW r \in Requests, RequestStep(r) PROVE order'[o] = order[o]
  BY <1>1, <1>3, <1>4, <1>5 DEF RequestStep, CreateBegin, CreateDenied, CreateRefused,
     CreateRollback, CancelBegin, CancelConflict, CancelRollback
<1>6. ASSUME NEW w \in Workers, WorkerStep(w) PROVE order'[o] = order[o]
  BY <1>2, <1>4, <1>6 DEF WorkerStep, RouterRead, InlineRead, ProcessRollback, ProcessAbort
<1>7. CASE UNCHANGED vars
  BY <1>7 DEF vars
<1>8. ~ComplianceStep
  BY DEF ComplianceStep, ComplianceDenies, ComplianceChanges, Review, Inv, TypeOK
<1> QED BY <1>5, <1>6, <1>7, <1>8 DEF Next

\* In consumer-only operation, while compliance invalidates no order, a
\* terminal order is final: redelivered events,
\* late executions and cancels leave its state, fills, trades and reservation
\* as they are.  (Run sim_denied shows what happens with a compliance review.)
THEOREM TerminalIsFinal ==
    ASSUME ~Inline, MaxReviews = 0 PROVE Spec => TerminalNeverRegresses
<1> DEFINE Final == \A o \in Orders : order[o].st \in TERMINAL_STATES =>
                                        Outcome(order'[o]) = Outcome(order[o])
<1>1. Inv /\ [Next]_vars => [Final]_vars
  BY TerminalStep
<1>2. Spec => [][Final]_vars
  BY <1>1, Invariance, PTL DEF Spec
<1> QED BY <1>2 DEF TerminalNeverRegresses

-----------------------------------------------------------------------------
(* Money, whoever processes the orders.  What follows assumes nothing of   *)
(* Inline or of compliance reviews: an order may be processed twice, ended *)
(* and revived.  Every transaction still settles exactly the lots it adds  *)
(* to the trades, and pays for them out of the order's own reservation.    *)

\* The lots the trades of an order add up to.
Lots(t) == t.trade["1"] + t.trade["2"]

\* The order's fills are its trades, and only an active reservation holds funds.
Accounted(t) ==
    /\ t.filled = Lots(t)
    /\ t.filled <= t.p.qty
    /\ \A i \in FillIds : t.done[i] = None => t.trade[i] = 0
    /\ t.res # "ACTIVE" => t.left = 0

\* Position and balance without the order's own trades.
StockBefore(t) == t.pos - Lots(t) * StockPerLot[t.p.side]
CashBefore(t) == t.bal - Lots(t) * CashPerLot[t.p.side]

\* Position and balance without what the order's reservation holds.
FreeStock(t) == t.pos - (IF t.p.side = "SELL" THEN t.left ELSE 0)
FreeCash(t) == t.bal - (IF t.p.side = "BUY" THEN t.left ELSE 0)

\* From t to u the trades explain the money, and no free money is used.
PaidFromReservation(t, u) ==
    /\ u.p = t.p
    /\ StockBefore(u) = StockBefore(t) /\ CashBefore(u) = CashBefore(t)
    /\ FreeStock(u) >= FreeStock(t) /\ FreeCash(u) >= FreeCash(t)

\* What a processing transaction that started in t may have become.
Reached(t, u) == u \in TxRecords /\ (u.ok => Accounted(u) /\ PaidFromReservation(t, u))

\* The money of a transaction is a number of lots or cash.
LEMMA MoneyTypes ==
    ASSUME NEW t \in TxRecords
    PROVE  /\ t.left \in Nat /\ t.bal \in Int /\ t.pos \in Int /\ t.filled \in Nat
           /\ t.p.qty \in Nat /\ t.p.side \in {"BUY", "SELL"} /\ Lots(t) \in Nat
           /\ StockPerLot[t.p.side] \in Int /\ CashPerLot[t.p.side] \in Int
           /\ StockBefore(t) \in Int /\ CashBefore(t) \in Int
           /\ FreeStock(t) \in Int /\ FreeCash(t) \in Int
<1>1. /\ t.left \in Nat /\ t.bal \in Int /\ t.pos \in Int /\ t.filled \in Nat
      /\ t.p.qty \in Nat /\ t.p.side \in {"BUY", "SELL"}
  BY PayloadAssumption DEF TxRecords
<1>2. t.trade["1"] \in Nat /\ t.trade["2"] \in Nat
  BY DEF TxRecords, FillIds
<1>3. Lots(t) \in Nat
  BY <1>2 DEF Lots
<1>4. StockPerLot[t.p.side] \in Int /\ CashPerLot[t.p.side] \in Int
  BY <1>1, MoneyAssumption DEF StockPerLot, CashPerLot
<1>5. StockBefore(t) \in Int /\ CashBefore(t) \in Int
  BY <1>1, <1>3, <1>4 DEF StockBefore, CashBefore
<1>6. FreeStock(t) \in Int /\ FreeCash(t) \in Int
  BY <1>1 DEF FreeStock, FreeCash
<1> QED BY <1>1, <1>3, <1>4, <1>5, <1>6

\* Payments compose.
LEMMA PaymentsCompose ==
    ASSUME NEW t \in TxRecords, NEW u \in TxRecords, NEW v \in TxRecords,
           PaidFromReservation(t, u), PaidFromReservation(u, v)
    PROVE  PaidFromReservation(t, v)
BY MoneyTypes DEF PaidFromReservation

\* A step that leaves fills, trades, reservation, balance and position alone,
\* or releases the reservation, keeps the accounts.
LEMMA NoTradeStep ==
    ASSUME NEW t \in TxRecords, NEW u \in TxRecords, Accounted(t),
           u.p = t.p, u.filled = t.filled, u.trade = t.trade,
           \A i \in FillIds : u.done[i] = t.done[i],
           u.bal = t.bal, u.pos = t.pos,
           \/ u.res = t.res /\ u.left = t.left
           \/ u.left = 0
    PROVE  Accounted(u) /\ PaidFromReservation(t, u)
<1>1. Accounted(u)
  BY DEF Accounted, Lots
<1>2. StockBefore(u) = StockBefore(t) /\ CashBefore(u) = CashBefore(t)
  BY DEF StockBefore, CashBefore, Lots
<1>3. u.left <= t.left /\ u.left \in Nat
  BY MoneyTypes
<1>4. FreeStock(u) >= FreeStock(t) /\ FreeCash(u) >= FreeCash(t)
  BY <1>3, MoneyTypes DEF FreeStock, FreeCash
<1> QED BY <1>1, <1>2, <1>4 DEF PaidFromReservation

\* One lot more is one lot's worth more.
LEMMA OneMoreTrade == \A a, b, c \in Int : (a + b) * c = a * c + b * c
OBVIOUS

\* A fill pays for exactly the lots it trades, or raises.
LEMMA FillPays ==
    ASSUME NEW t \in TxRecords, Accounted(t), NEW i \in FillIds, NEW q \in Nat,
           t.done[i] = None
    PROVE  Reached(t, [ApplyFill(t, Execution(i, q, "FILL")) EXCEPT !.done[i] = q])
<1> DEFINE e == Execution(i, q, "FILL")
           f == t.filled + q
           target == IF f = t.p.qty THEN "FILLED" ELSE "PARTIALLY_FILLED"
           guard == f <= t.p.qty /\ CanSettle(t, q) /\ Allowed(Opened(t.st), target)
           a == ApplyFill(t, e)
           u == [a EXCEPT !.done[i] = q]
<1>1. e.id = i /\ e.qty = q
  BY DEF Execution
<1>2. CASE ~guard
  <2>1. a = Raise(t)
    BY <1>1, <1>2 DEF ApplyFill
  <2>2. a \in TxRecords /\ ~a.ok
    BY <2>1, RaiseFacts
  <2> HIDE DEF a
  <2>3. u \in TxRecords
    BY <2>2, TxUpdateDone DEF ExecIds
  <2>4. ~u.ok
    BY <2>2 DEF TxRecords
  <2> QED BY <2>3, <2>4 DEF a, Reached
<1>3. CASE guard
  <2> DEFINE s == settle_trade(t, q)
             c == q * UnitCost(t.p.side)
  <2>1. a = [s EXCEPT !.st = target, !.filled = f, !.trade[i] = q]
    BY <1>1, <1>3 DEF ApplyFill
  <2>2. /\ s \in TxRecords /\ s.left = t.left - c
        /\ s.res = IF s.left = 0 THEN "CONSUMED" ELSE t.res
        /\ s.p = t.p /\ s.filled = t.filled /\ s.trade = t.trade /\ s.done = t.done
        /\ s.bal = IF t.p.side = "BUY" THEN t.bal - q * (Price + Fee)
                                       ELSE t.bal + q * (Price - Fee)
        /\ s.pos = IF t.p.side = "BUY" THEN t.pos + q ELSE t.pos - q
    BY <1>3, SettleFacts
  <2>3. f \in Nat /\ f <= t.p.qty
    BY <1>3, MoneyTypes
  <2>4. target \in States
    BY DEF States, TERMINAL_STATES
  <2> HIDE DEF s, c, f, target, guard, e, a
  <2>5. a \in TxRecords
    <3>1. [s EXCEPT !.st = target, !.filled = f, !.trade[i] = q] \in TxRecords
      BY <2>2, <2>3, <2>4, TxUpdateFill
    <3> QED BY <2>1, <3>1
  <2>6. /\ a.filled = f /\ a.trade = [t.trade EXCEPT ![i] = q]
        /\ a.p = t.p /\ a.left = s.left /\ a.res = s.res /\ a.done = t.done
        /\ a.bal = s.bal /\ a.pos = s.pos
    BY <2>1, <2>2 DEF TxRecords
  <2>7. u \in TxRecords
    BY <2>5, TxUpdateDone DEF ExecIds
  <2>8. /\ u.filled = f /\ u.trade = [t.trade EXCEPT ![i] = q]
        /\ u.p = t.p /\ u.left = s.left /\ u.res = s.res
        /\ u.done = [t.done EXCEPT ![i] = q] /\ u.bal = s.bal /\ u.pos = s.pos
    BY <2>5, <2>6 DEF TxRecords
  <2> HIDE DEF u
  <2>9. t.trade \in [FillIds -> Nat] /\ t.done \in [ExecIds -> Nat \cup {None}] /\ t.trade[i] = 0
    BY DEF TxRecords, Accounted
  <2>10. Lots(u) = Lots(t) + q
    BY <2>8, <2>9 DEF Lots, FillIds
  <2>11. \A j \in FillIds : u.done[j] = None => u.trade[j] = 0
    <3>1. \A j \in FillIds : t.done[j] = None => t.trade[j] = 0
      BY DEF Accounted
    <3> QED BY <3>1, <2>8, <2>9 DEF None, FillIds, ExecIds
  <2>12. u.res # "ACTIVE" => u.left = 0
    <3>1. t.res # "ACTIVE" => t.left = 0
      BY DEF Accounted
    <3>2. c \in Nat
      BY UnitCostPositive DEF c
    <3>3. s.left \in Nat /\ t.left \in Nat
      BY <2>2, MoneyTypes
    <3> QED BY <2>2, <2>8, <3>1, <3>2, <3>3
  <2>13. Accounted(u)
    <3>1. t.filled = Lots(t)
      BY DEF Accounted
    <3> QED BY <2>3, <2>8, <2>10, <2>11, <2>12, <3>1 DEF Accounted, f
  <2>14. StockBefore(u) = StockBefore(t) /\ CashBefore(u) = CashBefore(t)
    <3>1. Lots(t) \in Int /\ q \in Int /\ StockPerLot[t.p.side] \in Int
          /\ CashPerLot[t.p.side] \in Int
      BY MoneyTypes
    <3>2. /\ Lots(u) * StockPerLot[t.p.side] = Lots(t) * StockPerLot[t.p.side] + q * StockPerLot[t.p.side]
          /\ Lots(u) * CashPerLot[t.p.side] = Lots(t) * CashPerLot[t.p.side] + q * CashPerLot[t.p.side]
      BY <2>10, <3>1, OneMoreTrade
    <3>3. u.pos = t.pos + q * StockPerLot[t.p.side] /\ u.bal = t.bal + q * CashPerLot[t.p.side]
      BY <2>2, <2>8, MoneyTypes, MoneyAssumption DEF StockPerLot, CashPerLot
    <3> QED BY <2>8, <3>1, <3>2, <3>3, MoneyTypes DEF StockBefore, CashBefore
  <2>15. FreeStock(u) >= FreeStock(t) /\ FreeCash(u) >= FreeCash(t)
    <3>1. q * (Price - Fee) \in Nat /\ q * (Price + Fee) \in Nat
      BY MoneyAssumption
    <3>2. CASE t.p.side = "BUY"
      <4>1. c = q * (Price + Fee)
        BY <3>2 DEF c, UnitCost
      <4> QED BY <2>2, <2>8, <3>1, <3>2, <4>1, MoneyTypes DEF FreeStock, FreeCash
    <3>3. CASE t.p.side = "SELL"
      <4>1. c = q
        BY <3>3 DEF c, UnitCost
      <4> QED BY <2>2, <2>8, <3>1, <3>3, <4>1, MoneyTypes DEF FreeStock, FreeCash
    <3> QED BY <3>2, <3>3, MoneyTypes
  <2>16. PaidFromReservation(t, u)
    BY <2>8, <2>14, <2>15 DEF PaidFromReservation
  <2> QED BY <2>7, <2>13, <2>16 DEF Reached, u, a, e
<1> QED BY <1>2, <1>3

\* Ending the order releases what its reservation still holds, or raises.
LEMMA EndPays ==
    ASSUME NEW t \in TxRecords, Accounted(t), NEW i \in {"reject", "expire"},
           NEW from \in States, NEW target \in TERMINAL_STATES
    PROVE  Reached(t, [ApplyEnd(t, from, target) EXCEPT !.done[i] = 0])
<1> DEFINE a == ApplyEnd(t, from, target)
           u == [a EXCEPT !.done[i] = 0]
<1>1. CASE ~Allowed(from, target)
  <2>1. a \in TxRecords /\ ~a.ok
    BY <1>1, RaiseFacts DEF ApplyEnd
  <2> HIDE DEF a
  <2>2. u \in TxRecords
    BY <2>1, TxUpdateDone DEF ExecIds
  <2>3. ~u.ok
    BY <2>1 DEF TxRecords
  <2> QED BY <2>2, <2>3 DEF a, Reached
<1>2. CASE Allowed(from, target)
  <2> DEFINE s == release_reservation(t)
  <2>1. a = [s EXCEPT !.st = target]
    BY <1>2 DEF ApplyEnd
  <2>2. s \in TxRecords /\ s.left = 0 /\ s.p = t.p /\ s.filled = t.filled
        /\ s.trade = t.trade /\ s.done = t.done /\ s.bal = t.bal /\ s.pos = t.pos
    <3>1. CASE t.res = "ACTIVE"
      <4>1. s = [t EXCEPT !.res = "RELEASED", !.left = 0]
        BY <3>1 DEF release_reservation
      <4>2. s \in TxRecords
        <5>1. \A r \in {"NONE", "ACTIVE", "RELEASED", "CONSUMED"}, l \in Nat :
                 [t EXCEPT !.res = r, !.left = l] \in TxRecords
          BY DEF TxRecords
        <5>2. [t EXCEPT !.res = "RELEASED", !.left = 0] \in TxRecords
          BY <5>1
        <5> QED BY <4>1, <5>2
      <4>3. s.left = 0 /\ s.p = t.p /\ s.filled = t.filled
            /\ s.trade = t.trade /\ s.done = t.done /\ s.bal = t.bal /\ s.pos = t.pos
        BY <4>1 DEF TxRecords
      <4> QED BY <4>2, <4>3
    <3>2. CASE t.res # "ACTIVE"
      BY <3>2 DEF release_reservation, Accounted
    <3> QED BY <3>1, <3>2
  <2>3. target \in States
    BY DEF States
  <2> HIDE DEF s, a
  <2>4. a \in TxRecords
    BY <2>1, <2>2, <2>3, TxUpdateEnd DEF TxRecords
  <2>5. a.left = 0 /\ a.p = t.p /\ a.filled = t.filled /\ a.trade = t.trade
        /\ a.done = t.done /\ a.bal = t.bal /\ a.pos = t.pos
    BY <2>1, <2>2 DEF TxRecords
  <2>6. u \in TxRecords
    BY <2>4, TxUpdateDone DEF ExecIds
  <2>7. u.left = 0 /\ u.p = t.p /\ u.filled = t.filled /\ u.trade = t.trade
        /\ u.done = [t.done EXCEPT ![i] = 0] /\ u.bal = t.bal /\ u.pos = t.pos
    BY <2>4, <2>5 DEF TxRecords
  <2> HIDE DEF u
  <2>8. \A j \in FillIds : u.done[j] = t.done[j]
    BY <2>7 DEF TxRecords, FillIds, ExecIds
  <2>9. Accounted(u) /\ PaidFromReservation(t, u)
    BY <2>6, <2>7, <2>8, NoTradeStep
  <2> QED BY <2>6, <2>9 DEF Reached, u, a
<1> QED BY <1>1, <1>2

\* apply_execution: a duplicate moves no money, a conflict raises, and a new
\* execution pays for what it trades.
LEMMA ApplyPays ==
    ASSUME NEW t \in TxRecords, NEW x \in TxRecords, Reached(x, t),
           NEW e \in Executions \cup {NoExecution}
    PROVE  Reached(x, apply_execution(t, e))
<1> DEFINE u == apply_execution(t, e)
<1>1. CASE ~t.ok \/ e = NoExecution
  BY <1>1 DEF apply_execution
<1>2. CASE ~(~t.ok \/ e = NoExecution) /\ t.done[e.id] # None
  <2>1. u = t \/ u = Raise(t)
    BY <1>2 DEF apply_execution
  <2> HIDE DEF u
  <2> QED BY <1>2, <2>1, RaiseFacts DEF u, Reached
<1>3. CASE ~(~t.ok \/ e = NoExecution) /\ t.done[e.id] = None
  <2>0. e.qty \in Nat
    BY <1>3 DEF Executions
  <2>1. u = [Mutation(t, e) EXCEPT !.done[e.id] = e.qty]
    BY <1>3, <2>0 DEF apply_execution, None
  <2>2. Accounted(t) /\ PaidFromReservation(x, t) /\ t.st \in States
    BY <1>3 DEF TxRecords, Reached
  <2>3. SUFFICES Reached(t, u)
    <3>1. ASSUME Reached(t, u) PROVE Reached(x, u)
      <4> HIDE DEF u
      <4> QED BY <2>2, <3>1, PaymentsCompose DEF Reached
    <3> QED BY <3>1
  <2>4. CASE e \in [id : FillIds, qty : Nat, outcome : {"FILL"}]
    <3>1. e = Execution(e.id, e.qty, "FILL") /\ e.id \in FillIds /\ e.qty \in Nat
      BY <2>4 DEF Execution
    <3>2. Mutation(t, e) = ApplyFill(t, Execution(e.id, e.qty, "FILL"))
      BY <2>4, <3>1 DEF Mutation
    <3> QED BY <1>3, <2>1, <2>2, <3>1, <3>2, FillPays
  <2>5. CASE e \in [id : {"reject"}, qty : {0}, outcome : {"REJECT"}]
    <3>1. Mutation(t, e) = ApplyEnd(t, t.st, "REJECTED") /\ e.id = "reject" /\ e.qty = 0
      BY <2>5 DEF Mutation
    <3>2. "REJECTED" \in TERMINAL_STATES
      BY DEF TERMINAL_STATES
    <3> QED BY <2>1, <2>2, <3>1, <3>2, EndPays
  <2>6. CASE e \in [id : {"expire"}, qty : {0}, outcome : {"EXPIRE"}]
    <3>1. Mutation(t, e) = ApplyEnd(t, Opened(t.st), "EXPIRED") /\ e.id = "expire" /\ e.qty = 0
      BY <2>6 DEF Mutation
    <3>2. "EXPIRED" \in TERMINAL_STATES /\ Opened(t.st) \in States
      BY <2>2 DEF TERMINAL_STATES, Opened, States
    <3> QED BY <2>1, <2>2, <3>1, <3>2, EndPays
  <2> QED BY <1>3, <2>4, <2>5, <2>6 DEF Executions
<1> QED BY <1>1, <1>2, <1>3

\* Saving another state, ACCEPTED or OPEN, moves no money.
LEMMA StatePays ==
    ASSUME NEW x \in TxRecords, NEW t \in TxRecords, Reached(x, t), NEW s \in States
    PROVE  Reached(x, [t EXCEPT !.st = s])
<1> DEFINE u == [t EXCEPT !.st = s]
<1>1. u \in TxRecords
  BY TxUpdateEnd DEF TxRecords
<1>2. /\ u.p = t.p /\ u.filled = t.filled /\ u.res = t.res /\ u.left = t.left
      /\ u.trade = t.trade /\ u.done = t.done /\ u.ok = t.ok /\ u.bal = t.bal /\ u.pos = t.pos
  BY DEF TxRecords
<1> HIDE DEF u
<1>3. u.ok => Accounted(t) /\ PaidFromReservation(x, t)
  BY <1>2 DEF Reached
<1>4. u.ok => Accounted(u) /\ PaidFromReservation(t, u)
  BY <1>1, <1>2, <1>3, NoTradeStep
<1>5. u.ok => PaidFromReservation(x, u)
  BY <1>1, <1>3, <1>4, PaymentsCompose
<1> QED BY <1>1, <1>4, <1>5 DEF Reached, u

\* The transaction on an order starts with the order's own row.
LEMMA TransactionReached ==
    ASSUME NEW o \in Orders, order[o] \in OrderRecords, order[o].p \in Payloads,
           balance \in Int, position \in Int, Accounted(order[o]), Exists(o)
    PROVE  Transaction(o) \in TxRecords /\ Reached(Transaction(o), Transaction(o))
<1> DEFINE t == Transaction(o)
<1>1. t \in TxRecords
  BY DEF Transaction, TxRecords, OrderRecords, Exists
<1>2. Accounted(t)
  BY DEF Transaction, Accounted, Lots
<1> HIDE DEF t
<1>3. PaidFromReservation(t, t)
  BY <1>1, MoneyTypes DEF PaidFromReservation
<1> QED BY <1>1, <1>2, <1>3 DEF Reached, t

\* One processing transaction, whatever state the order was read in and is in
\* by now, and however often it has been processed before.
LEMMA ProcessPays ==
    ASSUME NEW o \in Orders, order[o] \in OrderRecords, order[o].p \in Payloads,
           balance \in Int, position \in Int, Accounted(order[o]), Exists(o),
           NEW s \in Scenarios, NEW seen
    PROVE  Reached(Transaction(o), process_created_order(o, seen, s))
<1> DEFINE t == Transaction(o)
           t0 == AcceptIfPending(t, seen, s)
           t1 == apply_execution(t0, FirstExecution(order[o].p, s))
           t2 == apply_execution(t1, SecondExecution(order[o].p, s))
           u == OpenIfAccepted(t2)
<1>1. t \in TxRecords /\ Reached(t, t) /\ "ACCEPTED" \in States /\ "OPEN" \in States
  BY TransactionReached DEF States
<1> HIDE DEF t
<1>2. Reached(t, t0) /\ t0 \in TxRecords
  <2>1. t0 = t \/ t0 = [t EXCEPT !.st = "ACCEPTED"]
    BY DEF AcceptIfPending
  <2>2. Reached(t, [t EXCEPT !.st = "ACCEPTED"])
    BY <1>1, StatePays
  <2> QED BY <1>1, <2>1, <2>2 DEF Reached
<1> HIDE DEF t0
<1>3. Reached(t, t1) /\ t1 \in TxRecords
  BY <1>1, <1>2, ExecutionsTyped, ApplyPays DEF Reached
<1> HIDE DEF t1
<1>4. Reached(t, t2) /\ t2 \in TxRecords
  BY <1>1, <1>3, ExecutionsTyped, ApplyPays DEF Reached
<1> HIDE DEF t2
<1>5. Reached(t, u)
  <2>1. u = t2 \/ u = [t2 EXCEPT !.st = "OPEN"]
    BY DEF OpenIfAccepted
  <2>2. Reached(t, [t2 EXCEPT !.st = "OPEN"])
    BY <1>1, <1>4, StatePays
  <2> QED BY <1>4, <2>1, <2>2
<1>6. u = process_created_order(o, seen, s)
  BY DEF process_created_order, t, t0, t1, t2
<1> QED BY <1>5, <1>6 DEF t

-----------------------------------------------------------------------------
(* The sums over all orders, and how they follow a step.                   *)

\* What the reservation of an order holds back on one side.
Held(r, side) == IF r.res = "ACTIVE" /\ r.p.side = side THEN r.left ELSE 0

\* The rows are typed before and after, and only the row of o may differ.
OneRowChanges(o) ==
    /\ o \in Orders /\ order \in [Orders -> OrderRecords] /\ order' \in [Orders -> OrderRecords]
    /\ \A x \in Orders : x # o => order'[x] = order[x]

\* The numbers of a typed row.
LEMMA RowTypes ==
    ASSUME NEW r \in OrderRecords
    PROVE  /\ r.left \in Nat /\ r.filled \in Nat /\ r.p.qty \in Nat /\ r.p.side \in {"BUY", "SELL"}
           /\ Lots(r) \in Nat
<1>1. r.p \in Payloads \cup {NoOrder.p} /\ NoOrder.p.side = "BUY" /\ NoOrder.p.qty = 0
  BY DEF OrderRecords, NoOrder
<1>2. r.p.qty \in Nat /\ r.p.side \in {"BUY", "SELL"}
  BY <1>1, PayloadAssumption
<1>3. r.left \in Nat /\ r.filled \in Nat
  BY DEF OrderRecords
<1>4. r.trade["1"] \in Nat /\ r.trade["2"] \in Nat
  BY DEF OrderRecords, FillIds
<1> QED BY <1>2, <1>3, <1>4 DEF Lots

\* Both sides' amounts per lot are integers.
LEMMA PerLotTypes ==
    StockPerLot \in [{"BUY", "SELL"} -> Int] /\ CashPerLot \in [{"BUY", "SELL"} -> Int]
BY MoneyAssumption DEF StockPerLot, CashPerLot

\* A step that writes one row changes the trade sum by that row's lots.
LEMMA TradeSumStep ==
    ASSUME NEW o, OneRowChanges(o), NEW c \in [{"BUY", "SELL"} -> Int]
    PROVE  /\ TradeSum(c)' = TradeSum(c) - Lots(order[o]) * c[order[o].p.side]
                                         + Lots(order'[o]) * c[order'[o].p.side]
           /\ TradeSum(c) \in Int
<1> DEFINE f == [x \in Orders |-> (order[x].trade["1"] + order[x].trade["2"]) * c[order[x].p.side]]
           g == [x \in Orders |-> (order'[x].trade["1"] + order'[x].trade["2"]) * c[order'[x].p.side]]
<1>1. o \in Orders /\ \A x \in Orders : order[x] \in OrderRecords /\ order'[x] \in OrderRecords
  BY DEF OneRowChanges
<1>2. ASSUME NEW x \in Orders
      PROVE  /\ f[x] = Lots(order[x]) * c[order[x].p.side] /\ f[x] \in Int
             /\ g[x] = Lots(order'[x]) * c[order'[x].p.side] /\ g[x] \in Int
  <2>1. order[x] \in OrderRecords /\ order'[x] \in OrderRecords
    BY <1>1
  <2>2. Lots(order[x]) \in Nat /\ order[x].p.side \in {"BUY", "SELL"}
        /\ Lots(order'[x]) \in Nat /\ order'[x].p.side \in {"BUY", "SELL"}
    BY <2>1, RowTypes
  <2>3. c[order[x].p.side] \in Int /\ c[order'[x].p.side] \in Int
    BY <2>2
  <2>4. f[x] = Lots(order[x]) * c[order[x].p.side] /\ g[x] = Lots(order'[x]) * c[order'[x].p.side]
    BY DEF Lots
  <2> QED BY <2>2, <2>3, <2>4
<1>3. TradeSum(c) = SumFunctionOnSet(f, Orders) /\ TradeSum(c)' = SumFunctionOnSet(g, Orders)
  BY DEF TradeSum
<1>4. \A x \in Orders \ {o} : g[x] = f[x]
  BY DEF OneRowChanges
<1> HIDE DEF f, g
<1>5. DifferAt(o, f, Orders, g, Orders)
  BY <1>2, <1>4, OrderAssumption DEF DifferAt
<1>6. /\ SumFunctionOnSet(g, Orders) = SumFunctionOnSet(f, Orders)
                - (IF o \in Orders THEN f[o] ELSE 0) + (IF o \in Orders THEN g[o] ELSE 0)
      /\ SumFunctionOnSet(f, Orders) \in Int
  BY <1>5, SumStep
<1> QED BY <1>1, <1>2, <1>3, <1>6

\* A step that writes one row changes the reserved sum by what that row holds.
LEMMA ReservedStep ==
    ASSUME NEW o, OneRowChanges(o), NEW side
    PROVE  /\ Reserved(side)' = Reserved(side) - Held(order[o], side) + Held(order'[o], side)
           /\ Reserved(side) \in Int
<1> DEFINE f == [x \in Orders |-> order[x].left]
           g == [x \in Orders |-> order'[x].left]
           S == {x \in Orders : order[x].res = "ACTIVE" /\ order[x].p.side = side}
           T == {x \in Orders : order'[x].res = "ACTIVE" /\ order'[x].p.side = side}
<1>1. o \in Orders /\ \A x \in Orders : order[x] \in OrderRecords /\ order'[x] \in OrderRecords
  BY DEF OneRowChanges
<1>2. \A x \in Orders : f[x] = order[x].left /\ f[x] \in Int /\ g[x] = order'[x].left /\ g[x] \in Int
  BY <1>1, RowTypes
<1>3. Reserved(side) = SumFunctionOnSet(f, S) /\ Reserved(side)' = SumFunctionOnSet(g, T)
  BY DEF Reserved
<1>4. S \ {o} = T \ {o} /\ \A x \in S \ {o} : g[x] = f[x]
  BY DEF OneRowChanges
<1>5. S \subseteq Orders /\ T \subseteq Orders
  OBVIOUS
<1>6. /\ o \in S <=> order[o].res = "ACTIVE" /\ order[o].p.side = side
      /\ o \in T <=> order'[o].res = "ACTIVE" /\ order'[o].p.side = side
  BY <1>1
<1> HIDE DEF f, g, S, T
<1>7. IsFiniteSet(S)
  BY <1>5, OrderAssumption, FS_Subset
<1>8. DifferAt(o, f, S, g, T)
  BY <1>2, <1>4, <1>5, <1>7 DEF DifferAt
<1>9. /\ SumFunctionOnSet(g, T) = SumFunctionOnSet(f, S)
                - (IF o \in S THEN f[o] ELSE 0) + (IF o \in T THEN g[o] ELSE 0)
      /\ SumFunctionOnSet(f, S) \in Int
  BY <1>8, SumStep
<1> QED BY <1>1, <1>2, <1>3, <1>6, <1>9 DEF Held

-----------------------------------------------------------------------------
(* The invariant behind the money.                                         *)

\* Every order that exists is accounted for, and the threads work on orders
\* that exist.
RowsInv ==
    /\ inlineDue \subseteq {o \in Orders : Exists(o)}
    /\ \A o \in Orders : Exists(o) => Accounted(order[o]) /\ order[o].p \in Payloads
    /\ \A o \in Orders : ~Exists(o) => order[o] = NoOrder
    /\ \A w \in Workers : work[w].pc = "read" => work[w].ord \in Orders /\ Exists(work[w].ord)
    /\ \A r \in Requests : req[r].pc = "cancel" => req[r].ord \in Orders /\ Exists(req[r].ord)

MoneyInv == TypeOK /\ RowsInv /\ LedgerMatchesTrades /\ ReservationsCovered

\* Initially there is no order, no trade and no reservation.
LEMMA InitMoney == ASSUME Init PROVE MoneyInv
<1>1. NoOrder \in OrderRecords /\ NoOrder.st = "NONE" /\ NoOrder.res = "NONE"
      /\ NoOrder.trade["1"] = 0 /\ NoOrder.trade["2"] = 0 /\ NoOrder.p.side = "BUY"
  BY DEF NoOrder, OrderRecords, States, FillIds, ExecIds, None
<1>2. TypeOK
  BY InitInv DEF Inv
<1>3. \A o \in Orders : order[o] = NoOrder
  BY DEF Init
<1>4. RowsInv
  <2> HIDE DEF NoOrder
  <2> QED BY <1>1, <1>3 DEF Init, RowsInv, Exists, Idle
<1>5. ASSUME NEW c \in [{"BUY", "SELL"} -> Int] PROVE TradeSum(c) = 0
  <2> DEFINE f == [x \in Orders |-> (order[x].trade["1"] + order[x].trade["2"]) * c[order[x].p.side]]
  <2>1. c["BUY"] \in Int
    OBVIOUS
  <2>2. \A x \in Orders : f[x] = (0 + 0) * c["BUY"]
    <3> HIDE DEF NoOrder
    <3> QED BY <1>1, <1>3
  <2>3. \A x \in Orders : f[x] = 0
    BY <2>1, <2>2
  <2>4. TradeSum(c) = SumFunctionOnSet(f, Orders)
    BY DEF TradeSum
  <2> HIDE DEF f
  <2> QED BY <2>3, <2>4, SumZero, OrderAssumption
<1>6. ASSUME NEW side PROVE Reserved(side) = 0
  <2> DEFINE f == [x \in Orders |-> order[x].left]
             S == {x \in Orders : order[x].res = "ACTIVE" /\ order[x].p.side = side}
  <2>1. S = {}
    <3> HIDE DEF NoOrder
    <3> QED BY <1>1, <1>3
  <2>2. Reserved(side) = SumFunctionOnSet(f, S)
    BY DEF Reserved
  <2> HIDE DEF f, S
  <2> QED BY <2>1, <2>2, SumEmpty
<1>7. TradeSum(StockPerLot) = 0 /\ TradeSum(CashPerLot) = 0
      /\ Reserved("BUY") = 0 /\ Reserved("SELL") = 0
  BY <1>5, <1>6, PerLotTypes
<1>8. balance = InitBalance /\ position = 0 /\ InitBalance \in Nat
  BY MoneyAssumption DEF Init
<1>9. LedgerMatchesTrades /\ ReservationsCovered
  BY <1>7, <1>8 DEF LedgerMatchesTrades, ReservationsCovered
<1> QED BY <1>2, <1>4, <1>9 DEF MoneyInv

\* A commit whose money comes out of the order's own reservation.
LEMMA CommitMoney ==
    ASSUME MoneyInv, NEW o \in Orders, Exists(o), NEW t \in TxRecords, Accounted(t),
           PaidFromReservation(Transaction(o), t), NEW saved \in BOOLEAN, Commit(o, t, saved)
    PROVE  /\ order' \in [Orders -> OrderRecords] /\ balance' \in Int /\ position' \in Int
           /\ \A x \in Orders : Exists(x) => order'[x].st # "NONE" /\ Accounted(order'[x])
                                             /\ order'[x].p \in Payloads
           /\ \A x \in Orders : ~Exists(x) => order'[x] = order[x]
           /\ LedgerMatchesTrades' /\ ReservationsCovered'
<1> DEFINE new == [st |-> t.st, p |-> t.p, filled |-> t.filled, res |-> t.res,
                   left |-> t.left, trade |-> t.trade, done |-> t.done,
                   ver |-> IF saved THEN order[o].ver + 1 ELSE order[o].ver]
           old == Transaction(o)
<1>1. order' = [order EXCEPT ![o] = new] /\ balance' = t.bal /\ position' = t.pos
  BY DEF Commit
<1>2. /\ order \in [Orders -> OrderRecords] /\ order[o] \in OrderRecords /\ order[o].ver \in Nat
      /\ balance \in Int /\ position \in Int
      /\ Accounted(order[o]) /\ order[o].p \in Payloads
  BY DEF MoneyInv, TypeOK, OrderRecords, RowsInv
<1>3. new \in OrderRecords
  BY <1>2 DEF OrderRecords, TxRecords
<1>4. /\ new.st = t.st /\ new.p = t.p /\ new.filled = t.filled /\ new.res = t.res
      /\ new.left = t.left /\ new.trade = t.trade /\ new.done = t.done
  OBVIOUS
<1>5. /\ old.p = order[o].p /\ old.left = order[o].left /\ old.trade = order[o].trade
      /\ old.res = order[o].res /\ old.bal = balance /\ old.pos = position
  BY DEF Transaction
<1>6. old \in TxRecords /\ PaidFromReservation(old, t)
  BY <1>2, TransactionReached
<1> HIDE DEF new, old
<1>7. order' \in [Orders -> OrderRecords] /\ order'[o] = new
  BY <1>1, <1>2, <1>3
<1>8. \A x \in Orders : x # o => order'[x] = order[x]
  BY <1>1, <1>2
<1>9. OneRowChanges(o)
  BY <1>2, <1>7, <1>8 DEF OneRowChanges
<1>10. t.p = order[o].p /\ t.st # "NONE"
  BY <1>5, <1>6 DEF PaidFromReservation, TxRecords, States, TERMINAL_STATES
<1>11. Accounted(new)
  BY <1>4 DEF Accounted, Lots
<1>12. \A x \in Orders : Exists(x) => order'[x].st # "NONE" /\ Accounted(order'[x])
                                     /\ order'[x].p \in Payloads
  BY <1>2, <1>4, <1>7, <1>8, <1>10, <1>11 DEF MoneyInv, RowsInv, Exists
<1>13. \A x \in Orders : ~Exists(x) => order'[x] = order[x]
  BY <1>8
<1>14. LedgerMatchesTrades'
  <2> DEFINE s == order[o].p.side
  <2>1. /\ order'[o].p.side = s /\ Lots(order[o]) = Lots(old) /\ Lots(order'[o]) = Lots(t)
        /\ old.p.side = s /\ t.p.side = s
    BY <1>4, <1>5, <1>7, <1>10 DEF Lots
  <2>2. /\ TradeSum(StockPerLot)' = TradeSum(StockPerLot) - Lots(old) * StockPerLot[s]
                                                       + Lots(t) * StockPerLot[s]
        /\ TradeSum(StockPerLot) \in Int
    BY <1>9, <2>1, PerLotTypes, TradeSumStep
  <2>3. /\ TradeSum(CashPerLot)' = TradeSum(CashPerLot) - Lots(old) * CashPerLot[s]
                                                     + Lots(t) * CashPerLot[s]
        /\ TradeSum(CashPerLot) \in Int
    BY <1>9, <2>1, PerLotTypes, TradeSumStep
  <2>4. /\ t.pos - Lots(t) * StockPerLot[s] = position - Lots(old) * StockPerLot[s]
        /\ t.bal - Lots(t) * CashPerLot[s] = balance - Lots(old) * CashPerLot[s]
    BY <1>5, <1>6, <2>1 DEF PaidFromReservation, StockBefore, CashBefore
  <2>5. Lots(t) \in Int /\ Lots(old) \in Int /\ StockPerLot[s] \in Int /\ CashPerLot[s] \in Int
        /\ t.pos \in Int /\ t.bal \in Int
    BY <1>6, <2>1, MoneyTypes
  <2>6. position = TradeSum(StockPerLot) /\ balance = InitBalance + TradeSum(CashPerLot)
        /\ InitBalance \in Int
    BY MoneyAssumption DEF MoneyInv, LedgerMatchesTrades
  <2>7. Lots(t) * StockPerLot[s] \in Int /\ Lots(old) * StockPerLot[s] \in Int
        /\ Lots(t) * CashPerLot[s] \in Int /\ Lots(old) * CashPerLot[s] \in Int
    BY <2>5
  <2> HIDE DEF s
  <2>8. position' = TradeSum(StockPerLot)'
    BY <1>1, <1>2, <2>2, <2>4, <2>5, <2>6, <2>7
  <2>9. balance' = InitBalance + TradeSum(CashPerLot)'
    <3> DEFINE x == Lots(t) * CashPerLot[s]
               y == Lots(old) * CashPerLot[s]
    <3>1. TradeSum(CashPerLot)' = TradeSum(CashPerLot) - y + x /\ TradeSum(CashPerLot) \in Int
      BY <2>3
    <3>2. t.bal - x = balance - y /\ x \in Int /\ y \in Int
      BY <2>4, <2>7
    <3> HIDE DEF x, y
    <3> QED BY <1>1, <1>2, <2>5, <2>6, <3>1, <3>2
  <2> QED BY <2>8, <2>9 DEF LedgerMatchesTrades
<1>15. ReservationsCovered'
  <2>1. order[o].left \in Nat /\ t.left \in Nat /\ t.bal \in Int /\ t.pos \in Int
        /\ order[o].p.side \in {"BUY", "SELL"}
    BY <1>2, RowTypes, MoneyTypes
  <2>2. /\ order[o].res # "ACTIVE" => order[o].left = 0
        /\ t.res # "ACTIVE" => t.left = 0
    BY <1>2 DEF Accounted
  <2>3. ASSUME NEW side
        PROVE  /\ Held(order[o], side) = IF order[o].p.side = side THEN order[o].left ELSE 0
               /\ Held(order'[o], side) = IF order[o].p.side = side THEN t.left ELSE 0
    BY <1>4, <1>7, <1>10, <2>2 DEF Held
  <2>4. /\ Reserved("BUY")' = Reserved("BUY") - Held(order[o], "BUY") + Held(order'[o], "BUY")
        /\ Reserved("SELL")' = Reserved("SELL") - Held(order[o], "SELL") + Held(order'[o], "SELL")
        /\ Reserved("BUY") \in Int /\ Reserved("SELL") \in Int
    BY <1>9, ReservedStep
  <2>5. /\ t.bal - (IF order[o].p.side = "BUY" THEN t.left ELSE 0)
              >= balance - (IF order[o].p.side = "BUY" THEN order[o].left ELSE 0)
        /\ t.pos - (IF order[o].p.side = "SELL" THEN t.left ELSE 0)
              >= position - (IF order[o].p.side = "SELL" THEN order[o].left ELSE 0)
    BY <1>5, <1>6, <1>10 DEF PaidFromReservation, FreeCash, FreeStock
  <2>6. balance >= Reserved("BUY") /\ position >= Reserved("SELL")
    BY DEF MoneyInv, ReservationsCovered
  <2>7. balance' >= Reserved("BUY")'
    BY <1>1, <1>2, <2>1, <2>3, <2>4, <2>5, <2>6
  <2>8. position' >= Reserved("SELL")'
    BY <1>1, <1>2, <2>1, <2>3, <2>4, <2>5, <2>6
  <2> QED BY <2>7, <2>8 DEF ReservationsCovered
<1>16. balance' \in Int /\ position' \in Int
  BY <1>1, MoneyTypes
<1> QED BY <1>7, <1>12, <1>13, <1>14, <1>15, <1>16

\* A step that changes no order, no balance and no position keeps the money.
LEMMA SameRows ==
    ASSUME MoneyInv, UNCHANGED <<order, balance, position>>
    PROVE  LedgerMatchesTrades' /\ ReservationsCovered'
BY DEF MoneyInv, LedgerMatchesTrades, ReservationsCovered, TradeSum, Reserved

\* The steps of a request that write no order.
LEMMA RequestKeepsMoney ==
    ASSUME MoneyInv, NEW r \in Requests,
           UNCHANGED <<order, routed, inlineDue, balance, position, work, aborts, compliance>>,
           createRec' \in [CreateKeys -> CreateRecords],
           cancelRec' \in [Orders -> [CancelKeys -> CancelRecords]],
           NEW q \in RequestStates, q.pc = "cancel" => q.ord \in Orders /\ Exists(q.ord),
           req' = [req EXCEPT ![r] = q]
    PROVE  MoneyInv'
<1>1. TypeOK'
  BY DEF MoneyInv, TypeOK
<1>2. \A x \in Requests : req'[x].pc = "cancel" => req'[x].ord \in Orders /\ Exists(req'[x].ord)
  BY DEF MoneyInv, TypeOK, RowsInv
<1>3. RowsInv'
  BY <1>2 DEF MoneyInv, RowsInv, Exists
<1> QED BY <1>1, <1>3, SameRows DEF MoneyInv

\* The steps of a worker that write no order.
LEMMA WorkerKeepsMoney ==
    ASSUME MoneyInv, NEW w \in Workers, NEW j \in WorkerStates,
           work' = [work EXCEPT ![w] = j], aborts' \in 0 .. MaxAborts,
           j.pc = "read" => j.ord \in Orders /\ Exists(j.ord), inlineDue' \subseteq inlineDue,
           UNCHANGED <<order, routed, balance, position, createRec, cancelRec, req, compliance>>
    PROVE  MoneyInv'
<1>1. TypeOK'
  BY DEF MoneyInv, TypeOK
<1>2. \A x \in Workers : work'[x] = work[x] \/ work'[x] = j
  BY DEF MoneyInv, TypeOK
<1>3. RowsInv'
  BY <1>2 DEF MoneyInv, RowsInv, Exists
<1> QED BY <1>1, <1>3, SameRows DEF MoneyInv

\* What a request thread in the middle of a create or a cancel holds.
LEMMA RequestHolds ==
    ASSUME TypeOK, NEW r \in Requests
    PROVE  /\ req[r].pc = "create" => req[r].key \in CreateKeys /\ req[r].p \in Payloads
           /\ req[r].pc = "cancel" => /\ req[r].key \in CancelKeys /\ req[r].ord \in Orders
                                      /\ req[r].ver \in Nat
<1>1. req[r] \in RequestStates
  BY DEF TypeOK
<1> QED BY <1>1 DEF RequestStates, Idle

\* A new order takes its reservation out of what is free.
LEMMA CreateMoney ==
    ASSUME MoneyInv, NEW r \in Requests, NEW o \in Orders, CreateCommit(r, o)
    PROVE  MoneyInv'
<1> DEFINE k == req[r].key
           p == req[r].p
           c == p.qty * UnitCost(p.side)
<1>1. k \in CreateKeys /\ p \in Payloads /\ req[r].pc = "create"
  BY RequestHolds DEF CreateCommit, MoneyInv
<1>2. /\ order' = [order EXCEPT ![o] = NewOrder(p)] /\ ~Exists(o)
      /\ createRec' = [createRec EXCEPT ![k] = [st |-> "done", p |-> p, ord |-> o]]
      /\ inlineDue' \subseteq inlineDue \cup {o} /\ req' = [req EXCEPT ![r] = Idle]
      /\ UNCHANGED <<routed, balance, position, cancelRec, work, aborts, compliance>>
      /\ CanReserve(p)
  BY DEF CreateCommit
<1> HIDE DEF k, p
<1>3. createRec' \in [CreateKeys -> CreateRecords]
  <2>1. [st |-> "done", p |-> p, ord |-> o] \in CreateRecords
    BY <1>1 DEF CreateRecords
  <2> QED BY <1>1, <1>2, <2>1 DEF MoneyInv, TypeOK
<1>4. order \in [Orders -> OrderRecords] /\ order[o] = NoOrder
      /\ balance \in Int /\ position \in Int
  BY <1>2 DEF MoneyInv, TypeOK, RowsInv
<1>5. order'[o] = NewOrder(p) /\ \A x \in Orders : x # o => order'[x] = order[x]
  BY <1>2, <1>4
<1>6. NewOrder(p) \in OrderRecords /\ NewOrder(p).st = "PENDING" /\ NewOrder(p).p = p
  BY <1>1, NewOrderSound
<1>7. order' \in [Orders -> OrderRecords]
  BY <1>2, <1>4, <1>6
<1>8. TypeOK'
  <2>1. req' \in [Requests -> RequestStates]
    BY <1>2, IdleIsRequestState DEF MoneyInv, TypeOK
  <2> QED BY <1>2, <1>3, <1>7, <2>1 DEF MoneyInv, TypeOK
<1>9. p.qty \in Nat /\ p.side \in {"BUY", "SELL"} /\ c \in Nat
  <2>1. p.qty \in Nat /\ p.side \in {"BUY", "SELL"} /\ UnitCost(p.side) \in Nat
    BY <1>1, PayloadAssumption, UnitCostPositive
  <2> QED BY <2>1
<1>10. /\ NewOrder(p).left = c /\ NewOrder(p).res = "ACTIVE" /\ NewOrder(p).filled = 0
       /\ NewOrder(p).trade["1"] = 0 /\ NewOrder(p).trade["2"] = 0
  BY DEF NewOrder, NoOrder, FillIds
<1>11. NoOrder.res # "ACTIVE" /\ NoOrder.trade["1"] = 0 /\ NoOrder.trade["2"] = 0
       /\ NoOrder.p.side = "BUY"
  BY DEF NoOrder, FillIds
<1> HIDE DEF c
<1>12. Accounted(order'[o]) /\ order'[o].p \in Payloads /\ order'[o].st # "NONE"
  <2>1. \A i \in FillIds : order'[o].trade[i] = 0
    BY <1>5, <1>10 DEF FillIds
  <2> QED BY <1>1, <1>5, <1>6, <1>9, <1>10, <2>1 DEF Accounted, Lots
<1>13. RowsInv'
  <2>1. \A x \in Requests : req'[x].pc = "cancel" => req'[x].ord \in Orders /\ Exists(req'[x].ord)
    <3> SUFFICES ASSUME NEW x \in Requests, req'[x].pc = "cancel"
                 PROVE  req'[x].ord \in Orders /\ Exists(req'[x].ord)
      OBVIOUS
    <3>1. req'[x] = req[x]
      BY <1>2, IdleIsRequestState DEF MoneyInv, TypeOK
    <3> QED BY <3>1 DEF MoneyInv, RowsInv
  <2>2. \A x \in Orders : Exists(x) => order'[x].st # "NONE"
    BY <1>5, <1>12 DEF Exists
  <2> QED BY <1>2, <1>5, <1>12, <2>1, <2>2 DEF MoneyInv, RowsInv, Exists
<1>14. OneRowChanges(o)
  BY <1>4, <1>5, <1>7 DEF OneRowChanges
<1>15. LedgerMatchesTrades'
  <2>1. Lots(order[o]) = 0 /\ Lots(order'[o]) = 0
        /\ order[o].p.side \in {"BUY", "SELL"} /\ order'[o].p.side \in {"BUY", "SELL"}
    BY <1>4, <1>5, <1>6, <1>9, <1>10, <1>11 DEF Lots
  <2>2. ASSUME NEW d \in [{"BUY", "SELL"} -> Int] PROVE TradeSum(d)' = TradeSum(d)
    <3>1. /\ TradeSum(d)' = TradeSum(d) - 0 * d[order[o].p.side] + 0 * d[order'[o].p.side]
          /\ TradeSum(d) \in Int
      BY <1>14, <2>1, TradeSumStep
    <3>2. d[order[o].p.side] \in Int /\ d[order'[o].p.side] \in Int
      BY <2>1
    <3>3. 0 * d[order[o].p.side] = 0 /\ 0 * d[order'[o].p.side] = 0
      BY <3>2
    <3> QED BY <3>1, <3>3
  <2>3. TradeSum(StockPerLot)' = TradeSum(StockPerLot) /\ TradeSum(CashPerLot)' = TradeSum(CashPerLot)
    BY <2>2, PerLotTypes
  <2> QED BY <1>2, <2>3 DEF MoneyInv, LedgerMatchesTrades
<1>16. ReservationsCovered'
  <2>1. /\ Reserved("BUY")' = Reserved("BUY") - Held(order[o], "BUY") + Held(order'[o], "BUY")
        /\ Reserved("SELL")' = Reserved("SELL") - Held(order[o], "SELL") + Held(order'[o], "SELL")
        /\ Reserved("BUY") \in Int /\ Reserved("SELL") \in Int
    BY <1>14, ReservedStep
  <2>2. ASSUME NEW side
        PROVE  Held(order[o], side) = 0 /\ Held(order'[o], side) = IF p.side = side THEN c ELSE 0
    BY <1>4, <1>5, <1>6, <1>10, <1>11 DEF Held
  <2>3. balance >= Reserved("BUY") /\ position >= Reserved("SELL")
    BY DEF MoneyInv, ReservationsCovered
  <2>4. /\ p.side = "BUY" => balance - Reserved("BUY") >= c
        /\ p.side = "SELL" => position - Reserved("SELL") >= c
    <3>1. CASE p.side = "BUY"
      <4>1. c = p.qty * UnitCost("BUY")
        BY <3>1 DEF c
      <4> QED BY <1>2, <3>1, <4>1 DEF CanReserve, available_quote
    <3>2. CASE p.side = "SELL"
      <4>1. c = p.qty
        BY <1>9, <3>2 DEF c, UnitCost
      <4> QED BY <1>2, <3>2, <4>1 DEF CanReserve
    <3> QED BY <1>9, <3>1, <3>2
  <2>5. balance' >= Reserved("BUY")' /\ position' >= Reserved("SELL")'
    BY <1>2, <1>4, <1>9, <2>1, <2>2, <2>3, <2>4
  <2> QED BY <2>5 DEF ReservationsCovered
<1> QED BY <1>8, <1>13, <1>15, <1>16 DEF MoneyInv

\* A transaction committed on an order that exists, by a worker or a request.
LEMMA OrderCommitMoney ==
    ASSUME MoneyInv, NEW o \in Orders, Exists(o), NEW t \in TxRecords, Accounted(t),
           PaidFromReservation(Transaction(o), t), NEW saved \in BOOLEAN, Commit(o, t, saved),
           inlineDue' = inlineDue, aborts' = aborts, createRec' = createRec,
           compliance' = compliance, routed' \subseteq Orders,
           cancelRec' \in [Orders -> [CancelKeys -> CancelRecords]],
           req' = req \/ \E r \in Requests : req' = [req EXCEPT ![r] = Idle],
           work' = work \/ \E w \in Workers : work' = [work EXCEPT ![w] = Idle]
    PROVE  MoneyInv'
<1>1. /\ order' \in [Orders -> OrderRecords] /\ balance' \in Int /\ position' \in Int
      /\ \A x \in Orders : Exists(x) => order'[x].st # "NONE" /\ Accounted(order'[x])
                                        /\ order'[x].p \in Payloads
      /\ \A x \in Orders : ~Exists(x) => order'[x] = order[x]
      /\ LedgerMatchesTrades' /\ ReservationsCovered'
  BY CommitMoney
<1>2. \A x \in Workers : work'[x] = work[x] \/ work'[x] = Idle
  BY DEF MoneyInv, TypeOK
<1>3. \A x \in Requests : req'[x] = req[x] \/ req'[x] = Idle
  BY DEF MoneyInv, TypeOK
<1>4. work' \in [Workers -> WorkerStates] /\ req' \in [Requests -> RequestStates]
  BY IdleIsRequestState DEF MoneyInv, TypeOK, WorkerStates
<1>5. TypeOK'
  BY <1>1, <1>4 DEF MoneyInv, TypeOK
<1>6. Idle.pc # "read" /\ Idle.pc # "cancel"
  BY DEF Idle
<1>7. RowsInv'
  <2> HIDE DEF Idle
  <2> QED BY <1>1, <1>2, <1>3, <1>6 DEF MoneyInv, RowsInv, Exists
<1> QED BY <1>1, <1>5, <1>7 DEF MoneyInv

\* A processing transaction keeps the money, however often the order has been
\* processed before and whatever has become of it since it was read.
LEMMA ProcessCommitMoney ==
    ASSUME MoneyInv, NEW w \in Workers, ProcessCommit(w)
    PROVE  MoneyInv'
<1> DEFINE j == work[w]
           t == process_created_order(j.ord, j.seen, j.scenario)
           saved == t # Transaction(j.ord) \/ (j.seen = "PENDING" /\ j.scenario # "REJECT")
<1>1. /\ j.pc = "read" /\ t.ok /\ Commit(j.ord, t, saved)
      /\ routed' = IF j.via = "router" THEN routed \cup {j.ord} ELSE routed
      /\ work' = [work EXCEPT ![w] = Idle]
      /\ UNCHANGED <<inlineDue, createRec, cancelRec, req, aborts, compliance>>
  BY DEF ProcessCommit
<1>2. j \in WorkerStates
  BY DEF MoneyInv, TypeOK
<1>3. j.ord \in Orders /\ j.scenario \in Scenarios
  BY <1>1, <1>2 DEF WorkerStates, Idle
<1>4. /\ Exists(j.ord) /\ Accounted(order[j.ord]) /\ order[j.ord].p \in Payloads
      /\ order[j.ord] \in OrderRecords /\ balance \in Int /\ position \in Int
      /\ routed \subseteq Orders /\ cancelRec \in [Orders -> [CancelKeys -> CancelRecords]]
  BY <1>1, <1>3 DEF MoneyInv, RowsInv, TypeOK
<1>5. Reached(Transaction(j.ord), t)
  BY <1>3, <1>4, ProcessPays
<1>6. saved \in BOOLEAN
  OBVIOUS
<1> HIDE DEF t, saved, j
<1>7. t \in TxRecords /\ Accounted(t) /\ PaidFromReservation(Transaction(j.ord), t)
  BY <1>1, <1>5 DEF Reached
<1>8. routed' \subseteq Orders
  BY <1>1, <1>3, <1>4
<1> QED BY <1>1, <1>3, <1>4, <1>6, <1>7, <1>8, OrderCommitMoney

\* A cancel only releases.
LEMMA CancelCommitMoney ==
    ASSUME MoneyInv, NEW r \in Requests, CancelCommit(r)
    PROVE  MoneyInv'
<1> DEFINE o == req[r].ord
           k == req[r].key
           t == Transaction(o)
           s == release_reservation(t)
           u == [s EXCEPT !.st = "CANCELLED"]
<1>1. o \in Orders /\ k \in CancelKeys /\ req[r].ver \in Nat /\ Exists(o)
  BY RequestHolds DEF CancelCommit, MoneyInv, RowsInv
<1>2. /\ Commit(o, u, TRUE)
      /\ cancelRec' = [cancelRec EXCEPT ![o][k] = [st |-> "ok", ver |-> req[r].ver]]
      /\ req' = [req EXCEPT ![r] = Idle]
      /\ UNCHANGED <<routed, inlineDue, createRec, work, aborts, compliance>>
  BY DEF CancelCommit, Answer
<1>3. cancelRec' \in [Orders -> [CancelKeys -> CancelRecords]]
  <2>1. [st |-> "ok", ver |-> req[r].ver] \in CancelRecords
    BY <1>1 DEF CancelRecords, Answered
  <2> QED BY <1>1, <1>2, <2>1 DEF MoneyInv, TypeOK
<1>4. order[o] \in OrderRecords /\ Accounted(order[o]) /\ order[o].p \in Payloads
      /\ balance \in Int /\ position \in Int /\ routed \subseteq Orders
  BY <1>1 DEF MoneyInv, RowsInv, TypeOK
<1>5. t \in TxRecords /\ Reached(t, t) /\ t.ok
  BY <1>1, <1>4, TransactionReached DEF Transaction
<1> HIDE DEF t, o, k
<1>6. /\ s \in TxRecords /\ s.p = t.p /\ s.filled = t.filled /\ s.trade = t.trade
      /\ s.done = t.done /\ s.bal = t.bal /\ s.pos = t.pos /\ s.ok = t.ok
      /\ s.left = 0
  <2>1. CASE t.res = "ACTIVE"
    <3>1. s = [t EXCEPT !.res = "RELEASED", !.left = 0] /\ t.st \in States
      BY <1>5, <2>1 DEF release_reservation, TxRecords
    <3>2. s \in TxRecords
      BY <1>5, <3>1, TxUpdateEnd
    <3>3. /\ s.p = t.p /\ s.filled = t.filled /\ s.trade = t.trade /\ s.left = 0
          /\ s.done = t.done /\ s.bal = t.bal /\ s.pos = t.pos /\ s.ok = t.ok
      BY <1>5, <3>1 DEF TxRecords
    <3> QED BY <3>2, <3>3
  <2>2. CASE t.res # "ACTIVE"
    BY <1>5, <2>2 DEF release_reservation, Reached, Accounted
  <2> QED BY <2>1, <2>2
<1>7. Accounted(t)
  BY <1>5 DEF Reached
<1> HIDE DEF s
<1>8. Reached(t, s)
  <2>1. Accounted(s) /\ PaidFromReservation(t, s)
    BY <1>5, <1>6, <1>7, NoTradeStep
  <2> QED BY <1>6, <2>1 DEF Reached
<1>9. Reached(t, u) /\ u.ok = t.ok
  <2>1. "CANCELLED" \in States
    BY DEF States, TERMINAL_STATES
  <2>2. Reached(t, u)
    BY <1>5, <1>6, <1>8, <2>1, StatePays
  <2>3. u.ok = t.ok
    BY <1>6 DEF TxRecords
  <2> QED BY <2>2, <2>3
<1> HIDE DEF u
<1>10. u \in TxRecords /\ Accounted(u) /\ PaidFromReservation(Transaction(o), u)
  BY <1>5, <1>9 DEF Reached, t
<1> QED BY <1>1, <1>2, <1>3, <1>4, <1>10, OrderCommitMoney

\* A compliance review moves no money and no reservation.
LEMMA ComplianceMoney ==
    ASSUME MoneyInv, ComplianceStep
    PROVE  MoneyInv'
<1>1. /\ UNCHANGED <<routed, inlineDue, balance, position, createRec, cancelRec, req, work, aborts>>
      /\ compliance.reviews < MaxReviews
      /\ \E b \in BOOLEAN : compliance' = [eligible |-> b, reviews |-> compliance.reviews + 1]
  BY DEF ComplianceStep, ComplianceDenies, ComplianceChanges, Review
<1>2. compliance.reviews \in Nat /\ compliance.reviews + 1 \in 0 .. MaxReviews
  BY <1>1, FlagAssumption DEF MoneyInv, TypeOK
<1>3. compliance' \in [eligible : BOOLEAN, reviews : 0 .. MaxReviews]
  BY <1>1, <1>2
<1>4. CASE UNCHANGED order
  <2>1. TypeOK' /\ RowsInv'
    BY <1>1, <1>3, <1>4 DEF MoneyInv, TypeOK, RowsInv, Exists
  <2> QED BY <1>1, <1>4, <2>1, SameRows DEF MoneyInv
<1>5. CASE ComplianceDenies
  <2>1. \A o \in Orders : order'[o] = IF order[o].st = "PENDING"
                                     THEN [order[o] EXCEPT !.st = "REJECTED"] ELSE order[o]
    BY <1>5 DEF ComplianceDenies
  <2>2. ASSUME NEW o \in Orders
        PROVE  /\ order'[o] \in OrderRecords /\ order'[o].p = order[o].p
               /\ order'[o].trade = order[o].trade /\ order'[o].left = order[o].left
               /\ order'[o].res = order[o].res
               /\ (order'[o].st = "NONE") = (order[o].st = "NONE")
               /\ order[o].st = "NONE" => order'[o] = order[o]
               /\ Accounted(order[o]) => Accounted(order'[o])
    <3>1. order[o] \in OrderRecords
      BY DEF MoneyInv, TypeOK
    <3>2. CASE order[o].st # "PENDING"
      BY <2>1, <3>1, <3>2
    <3>3. CASE order[o].st = "PENDING"
      <4>1. order'[o] = [order[o] EXCEPT !.st = "REJECTED"]
        BY <2>1, <3>3
      <4>2. order'[o] \in OrderRecords
        BY <3>1, <4>1 DEF OrderRecords, States, TERMINAL_STATES
      <4>3. /\ order'[o].st = "REJECTED" /\ order'[o].p = order[o].p
            /\ order'[o].filled = order[o].filled /\ order'[o].res = order[o].res
            /\ order'[o].left = order[o].left /\ order'[o].trade = order[o].trade
            /\ order'[o].done = order[o].done
        BY <3>1, <4>1 DEF OrderRecords
      <4> QED BY <3>3, <4>2, <4>3 DEF Accounted, Lots
    <3> QED BY <3>2, <3>3
  <2>3. order' \in [Orders -> OrderRecords]
    <3>1. order' = [o \in Orders |-> order'[o]]
      BY <1>5 DEF ComplianceDenies
    <3> QED BY <2>2, <3>1
  <2>4. TypeOK'
    BY <1>1, <1>3, <2>3 DEF MoneyInv, TypeOK
  <2>5. RowsInv'
    BY <1>1, <2>2 DEF MoneyInv, RowsInv, Exists
  <2>6. ASSUME NEW c PROVE TradeSum(c)' = TradeSum(c)
    <3>1. [x \in Orders |-> (order'[x].trade["1"] + order'[x].trade["2"]) * c[order'[x].p.side]]
          = [x \in Orders |-> (order[x].trade["1"] + order[x].trade["2"]) * c[order[x].p.side]]
      BY <2>2
    <3> QED BY <3>1 DEF TradeSum
  <2>7. ASSUME NEW side PROVE Reserved(side)' = Reserved(side)
    <3>1. [x \in Orders |-> order'[x].left] = [x \in Orders |-> order[x].left]
      BY <2>2
    <3>2. {x \in Orders : order'[x].res = "ACTIVE" /\ order'[x].p.side = side}
          = {x \in Orders : order[x].res = "ACTIVE" /\ order[x].p.side = side}
      BY <2>2
    <3> QED BY <3>1, <3>2 DEF Reserved
  <2>8. TradeSum(StockPerLot)' = TradeSum(StockPerLot) /\ TradeSum(CashPerLot)' = TradeSum(CashPerLot)
        /\ Reserved("BUY")' = Reserved("BUY") /\ Reserved("SELL")' = Reserved("SELL")
    BY <2>6, <2>7
  <2>9. LedgerMatchesTrades' /\ ReservationsCovered'
    BY <1>1, <2>8 DEF MoneyInv, LedgerMatchesTrades, ReservationsCovered
  <2> QED BY <2>4, <2>5, <2>9 DEF MoneyInv
<1> QED BY <1>4, <1>5 DEF ComplianceStep, ComplianceChanges

\* Every step keeps the money, one case per action.
LEMMA StepMoney ==
    ASSUME MoneyInv, [Next]_vars
    PROVE  MoneyInv'
<1>0. /\ createRec \in [CreateKeys -> CreateRecords]
      /\ cancelRec \in [Orders -> [CancelKeys -> CancelRecords]]
      /\ order \in [Orders -> OrderRecords]
      /\ aborts \in 0 .. MaxAborts /\ Idle \in WorkerStates /\ Idle.pc # "read" /\ MaxAborts \in Nat
  BY FlagAssumption DEF MoneyInv, TypeOK, WorkerStates, Idle
<1>1. CASE UNCHANGED vars
  <2>1. TypeOK' /\ RowsInv'
    BY <1>1 DEF vars, MoneyInv, TypeOK, RowsInv, Exists
  <2>2. UNCHANGED <<order, balance, position>>
    BY <1>1 DEF vars
  <2> QED BY <2>1, <2>2, SameRows DEF MoneyInv
<1>2. ASSUME NEW r \in Requests, RequestStep(r) PROVE MoneyInv'
  <2>1. ASSUME NEW k \in CreateKeys, NEW p \in Payloads, CreateBegin(r, k, p) PROVE MoneyInv'
    <3>1. [pc |-> "create", key |-> k, p |-> p] \in RequestStates
      BY DEF RequestStates
    <3> QED BY <1>0, <2>1, <3>1, RequestKeepsMoney DEF CreateBegin
  <2>2. ASSUME NEW k \in CreateKeys, NEW p \in Payloads, CreateDenied(r, k, p) PROVE MoneyInv'
    <3>1. createRec' \in [CreateKeys -> CreateRecords]
      BY <1>0, <2>2 DEF CreateDenied, Denied, CreateRecords
    <3>2. TypeOK' /\ RowsInv'
      BY <2>2, <3>1 DEF CreateDenied, MoneyInv, TypeOK, RowsInv, Exists
    <3>3. UNCHANGED <<order, balance, position>>
      BY <2>2 DEF CreateDenied
    <3> QED BY <3>2, <3>3, SameRows DEF MoneyInv
  <2>3. ASSUME NEW o \in Orders, CreateCommit(r, o) PROVE MoneyInv'
    BY <2>3, CreateMoney
  <2>4. CASE CreateRefused(r)
    <3>1. req[r].key \in CreateKeys /\ req[r].p \in Payloads
      BY <2>4, RequestHolds DEF CreateRefused, MoneyInv
    <3>2. createRec' \in [CreateKeys -> CreateRecords]
      BY <1>0, <2>4, <3>1 DEF CreateRefused, Denied, CreateRecords
    <3> QED BY <1>0, <2>4, <3>2, RequestKeepsMoney, IdleIsRequestState DEF CreateRefused
  <2>5. CASE CreateRollback(r)
    BY <1>0, <2>5, RequestKeepsMoney, IdleIsRequestState DEF CreateRollback
  <2>6. ASSUME NEW o \in Orders, NEW k \in CancelKeys, NEW v \in 1 .. order[o].ver,
               CancelBegin(r, o, k, v)
        PROVE  MoneyInv'
    <3>1. order[o].ver \in Nat
      BY <1>0 DEF OrderRecords
    <3>2. v \in Nat
      BY <3>1
    <3>3. cancelRec' \in [Orders -> [CancelKeys -> CancelRecords]]
      <4>1. [st |-> "open", ver |-> v] \in CancelRecords
        BY <3>2 DEF CancelRecords
      <4> QED BY <1>0, <2>6, <4>1 DEF CancelBegin
    <3>4. [pc |-> "cancel", key |-> k, ord |-> o, ver |-> v] \in RequestStates
      BY <3>2 DEF RequestStates
    <3> QED BY <1>0, <2>6, <3>3, <3>4, RequestKeepsMoney DEF CancelBegin
  <2>7. CASE CancelCommit(r)
    BY <2>7, CancelCommitMoney
  <2>8. CASE CancelConflict(r)
    <3>1. req[r].ord \in Orders /\ req[r].key \in CancelKeys /\ req[r].ver \in Nat
      BY <2>8, RequestHolds DEF CancelConflict, MoneyInv
    <3>2. [st |-> "conflict", ver |-> req[r].ver] \in CancelRecords
      BY <3>1 DEF CancelRecords, Answered
    <3>3. cancelRec' \in [Orders -> [CancelKeys -> CancelRecords]]
      BY <1>0, <2>8, <3>1, <3>2 DEF CancelConflict, Answer
    <3> QED BY <1>0, <2>8, <3>3, RequestKeepsMoney, IdleIsRequestState DEF CancelConflict, Answer
  <2>9. CASE CancelRollback(r)
    BY <1>0, <2>9, RequestKeepsMoney, IdleIsRequestState DEF CancelRollback
  <2> QED BY <1>2, <2>1, <2>2, <2>3, <2>4, <2>5, <2>6, <2>7, <2>8, <2>9 DEF RequestStep
<1>3. ASSUME NEW w \in Workers, WorkerStep(w) PROVE MoneyInv'
  <2>0. ASSUME NEW o \in Orders, NEW s \in Scenarios, NEW via \in {"router", "inline"}, Exists(o)
        PROVE  [pc |-> "read", via |-> via, ord |-> o, seen |-> order[o].st, scenario |-> s]
                   \in WorkerStates
    <3>1. order[o].st \in States
      BY <1>0, <2>0 DEF OrderRecords, Exists
    <3> QED BY <3>1 DEF WorkerStates
  <2>1. ASSUME NEW o \in Orders, NEW s \in Scenarios, RouterRead(w, o, s) PROVE MoneyInv'
    BY <1>0, <2>0, <2>1, WorkerKeepsMoney DEF RouterRead
  <2>2. ASSUME NEW o \in Orders, NEW s \in Scenarios, InlineRead(w, o, s) PROVE MoneyInv'
    <3>1. Exists(o)
      BY <2>2 DEF InlineRead, MoneyInv, RowsInv
    <3> QED BY <1>0, <2>0, <2>2, <3>1, WorkerKeepsMoney DEF InlineRead
  <2>3. CASE ProcessCommit(w)
    BY <2>3, ProcessCommitMoney
  <2>4. CASE ProcessRollback(w)
    BY <1>0, <2>4, WorkerKeepsMoney DEF ProcessRollback
  <2>5. CASE ProcessAbort(w)
    <3>1. aborts' \in 0 .. MaxAborts
      BY <1>0, <2>5 DEF ProcessAbort
    <3> QED BY <1>0, <2>5, <3>1, WorkerKeepsMoney DEF ProcessAbort
  <2> QED BY <1>3, <2>1, <2>2, <2>3, <2>4, <2>5 DEF WorkerStep
<1>4. CASE ComplianceStep
  BY <1>4, ComplianceMoney
<1> QED BY <1>1, <1>2, <1>3, <1>4 DEF Next

\* The money's invariant holds in every configuration.
LEMMA MoneyInvariance == Spec => []MoneyInv
<1>1. Init => MoneyInv
  BY InitMoney
<1>2. MoneyInv /\ [Next]_vars => MoneyInv'
  BY StepMoney
<1> QED BY <1>1, <1>2, PTL DEF Spec

\* Every variable keeps its type: no reservation is ever overdrawn and no
\* thread works on an order that does not exist.
THEOREM TypeCorrect == Spec => []TypeOK
<1>1. MoneyInv => TypeOK
  BY DEF MoneyInv
<1> QED BY <1>1, MoneyInvariance, PTL

\* filled_quantity is always the sum of the order's trades and never exceeds
\* its quantity, however deliveries repeat, with consumers and request threads
\* processing the same order and compliance reviews in between.
THEOREM FillsAlwaysMatchTrades == Spec => []FillsMatchTrades
<1>1. MoneyInv => FillsMatchTrades
  BY NoOrderFacts DEF MoneyInv, RowsInv, Accounted, Lots, FillsMatchTrades
<1> QED BY <1>1, MoneyInvariance, PTL

\* Position and balance are always what the trades say, fees included: no
\* trade is settled twice or not at all, inline processing or not.
THEOREM LedgerAlwaysMatchesTrades == Spec => []LedgerMatchesTrades
<1>1. MoneyInv => LedgerMatchesTrades
  BY DEF MoneyInv
<1> QED BY <1>1, MoneyInvariance, PTL

\* The active reservations never add up to more than the account has, even
\* where an ended order was revived or a reservation leaked.
THEOREM ReservationsAlwaysCovered == Spec => []ReservationsCovered
<1>1. MoneyInv => ReservationsCovered
  BY DEF MoneyInv
<1> QED BY <1>1, MoneyInvariance, PTL

-----------------------------------------------------------------------------
(* One order per idempotency key.                                          *)

Answers(k, o) == createRec[k].st = "done" /\ createRec[k].ord = o

\* Orders and the records that answer with them correspond one to one, and a
\* request in the middle of a create holds a key nobody has answered and
\* nobody else holds.
KeysInv ==
    /\ \A k \in CreateKeys : createRec[k].st = "done" => Exists(createRec[k].ord)
    /\ \A o \in Orders : Exists(o) => \E k \in CreateKeys : Answers(k, o)
    /\ \A o \in Orders : \A a, b \in CreateKeys : Answers(a, o) /\ Answers(b, o) => a = b
    /\ \A r \in Requests : req[r].pc = "create" => createRec[req[r].key].st # "done"
    /\ \A a, b \in Requests :
          req[a].pc = "create" /\ req[b].pc = "create" /\ req[a].key = req[b].key => a = b

\* The same orders exist before and after.
SameOrders == \A x \in Orders : (order'[x].st = "NONE") <=> (order[x].st = "NONE")

\* What a commit writes, for any transaction.
LEMMA CommitRow ==
    ASSUME order \in [Orders -> OrderRecords], NEW o \in Orders, NEW t, NEW saved,
           Commit(o, t, saved)
    PROVE  /\ order'[o].st = t.st /\ order'[o].p = t.p
           /\ \A x \in Orders : x # o => order'[x] = order[x]
<1> DEFINE new == [st |-> t.st, p |-> t.p, filled |-> t.filled, res |-> t.res,
                   left |-> t.left, trade |-> t.trade, done |-> t.done,
                   ver |-> IF saved THEN order[o].ver + 1 ELSE order[o].ver]
<1>1. order' = [order EXCEPT ![o] = new]
  BY DEF Commit
<1>2. new.st = t.st /\ new.p = t.p
  OBVIOUS
<1> HIDE DEF new
<1> QED BY <1>1, <1>2

\* A processing transaction or a cancel creates no order.
LEMMA CommitSameOrders ==
    ASSUME MoneyInv, NEW o \in Orders, Exists(o), NEW t \in TxRecords, NEW saved, Commit(o, t, saved)
    PROVE  SameOrders
<1>1. order'[o].st = t.st /\ \A x \in Orders : x # o => order'[x] = order[x]
  BY CommitRow DEF MoneyInv, TypeOK
<1>2. t.st # "NONE"
  BY DEF TxRecords, States, TERMINAL_STATES
<1> QED BY <1>1, <1>2 DEF SameOrders, Exists

\* A step that leaves the orders and the create records as they are, and in
\* which one thread at most leaves or starts a request.
LEMMA ThreadKeepsKeys ==
    ASSUME TypeOK, KeysInv, SameOrders, createRec' = createRec,
           \/ req' = req
           \/ \E r \in Requests : \E q : req' = [req EXCEPT ![r] = q] /\ q.pc # "create"
    PROVE  KeysInv'
<1>1. \A r \in Requests : req'[r] = req[r] \/ req'[r].pc # "create"
  BY DEF TypeOK
<1>2. \A k \in CreateKeys : createRec[k].st = "done" => createRec[k].ord \in Orders
  BY DEF TypeOK, CreateRecords
<1>3. \A k \in CreateKeys : \A o : Answers(k, o)' = Answers(k, o)
  BY DEF Answers
<1>4. \A k \in CreateKeys : createRec'[k].st = "done" => Exists(createRec[k].ord)'
  BY <1>2 DEF KeysInv, Exists, SameOrders
<1>5. \A o \in Orders : Exists(o)' => \E k \in CreateKeys : Answers(k, o)'
  BY <1>3 DEF KeysInv, Exists, SameOrders
<1>6. \A o \in Orders : \A a, b \in CreateKeys : Answers(a, o)' /\ Answers(b, o)' => a = b
  BY <1>3 DEF KeysInv
<1>7. \A r \in Requests : req'[r].pc = "create" => createRec'[req'[r].key].st # "done"
  BY <1>1 DEF KeysInv
<1>8. \A a, b \in Requests :
         req'[a].pc = "create" /\ req'[b].pc = "create" /\ req'[a].key = req'[b].key => a = b
  BY <1>1 DEF KeysInv
<1> QED BY <1>4, <1>5, <1>6, <1>7, <1>8 DEF KeysInv

\* A request starts with a key that is unanswered and that nobody holds.
LEMMA BeginKeepsKeys ==
    ASSUME TypeOK, KeysInv, NEW r \in Requests, NEW k \in CreateKeys, NEW p \in Payloads,
           CreateBegin(r, k, p)
    PROVE  KeysInv'
<1> DEFINE q == [pc |-> "create", key |-> k, p |-> p]
<1>1. /\ req' = [req EXCEPT ![r] = q] /\ ~KeyHeld(k) /\ Unanswered(k, p)
      /\ UNCHANGED <<order, createRec>>
  BY DEF CreateBegin
<1>2. q.pc = "create" /\ q.key = k
  OBVIOUS
<1> HIDE DEF q
<1>3. req'[r] = q /\ \A x \in Requests : x # r => req'[x] = req[x]
  BY <1>1 DEF TypeOK
<1>4. createRec[k].st # "done"
  BY <1>1 DEF Unanswered
<1>5. \A x \in Requests : req[x].pc = "create" => req[x].key # k
  BY <1>1 DEF KeyHeld
<1>6. \A x \in Requests : req'[x].pc = "create" => createRec'[req'[x].key].st # "done"
  BY <1>1, <1>2, <1>3, <1>4 DEF KeysInv
<1>7. \A a, b \in Requests :
         req'[a].pc = "create" /\ req'[b].pc = "create" /\ req'[a].key = req'[b].key => a = b
  BY <1>2, <1>3, <1>5 DEF KeysInv
<1> QED BY <1>1, <1>6, <1>7 DEF KeysInv, Exists, Answers

\* A denial leaves a record without an answer where there was no answer.
LEMMA DeniedKeepsKeys ==
    ASSUME TypeOK, KeysInv, NEW k \in CreateKeys, NEW p, createRec[k].st # "done", Denied(k, p),
           order' = order, req' = req \/ \E r \in Requests : req' = [req EXCEPT ![r] = Idle]
    PROVE  KeysInv'
<1>1. createRec'[k].st = "open" /\ \A x \in CreateKeys : x # k => createRec'[x] = createRec[x]
  BY DEF Denied, TypeOK
<1>2. \A x \in CreateKeys : /\ (createRec'[x].st = "done") <=> (createRec[x].st = "done")
                            /\ createRec[x].st = "done" => createRec'[x] = createRec[x]
  BY <1>1
<1>3. \A x \in CreateKeys : \A o : Answers(x, o)' <=> Answers(x, o)
  BY <1>2 DEF Answers
<1>4. \A r \in Requests : req'[r] = req[r] \/ req'[r].pc # "create"
  BY DEF TypeOK, Idle
<1>5. \A r \in Requests : req[r].pc = "create" => req[r].key \in CreateKeys
  BY RequestHolds
<1>6. \A x \in CreateKeys : createRec'[x].st = "done" => Exists(createRec[x].ord)'
  BY <1>2 DEF KeysInv, Exists
<1>7. \A o \in Orders : Exists(o)' => \E x \in CreateKeys : Answers(x, o)'
  BY <1>3 DEF KeysInv, Exists
<1>8. \A o \in Orders : \A a, b \in CreateKeys : Answers(a, o)' /\ Answers(b, o)' => a = b
  BY <1>3 DEF KeysInv
<1>9. \A r \in Requests : req'[r].pc = "create" => createRec'[req'[r].key].st # "done"
  BY <1>2, <1>4, <1>5 DEF KeysInv
<1>10. \A a, b \in Requests :
         req'[a].pc = "create" /\ req'[b].pc = "create" /\ req'[a].key = req'[b].key => a = b
  BY <1>4 DEF KeysInv
<1> QED BY <1>6, <1>7, <1>8, <1>9, <1>10 DEF KeysInv

\* The order and the answer to its key are committed together.
LEMMA CommitKeepsKeys ==
    ASSUME TypeOK, KeysInv, NEW r \in Requests, NEW o \in Orders, CreateCommit(r, o)
    PROVE  KeysInv'
<1> PICK k : k = req[r].key
  OBVIOUS
<1> DEFINE p == req[r].p
           rec == [st |-> "done", p |-> p, ord |-> o]
<1>1. /\ order' = [order EXCEPT ![o] = NewOrder(p)] /\ ~Exists(o)
      /\ createRec' = [createRec EXCEPT ![k] = rec] /\ req' = [req EXCEPT ![r] = Idle]
      /\ req[r].pc = "create"
  BY DEF CreateCommit
<1>2. k \in CreateKeys /\ p \in Payloads
  BY <1>1, RequestHolds
<1>3. rec.st = "done" /\ rec.ord = o
  OBVIOUS
<1>4. createRec[k].st # "done"
  BY <1>1 DEF KeysInv
<1>5. \A x \in Requests : x # r /\ req[x].pc = "create" => req[x].key # k
  BY <1>1 DEF KeysInv
<1> HIDE DEF p, rec
<1>6. createRec'[k] = rec /\ \A x \in CreateKeys : x # k => createRec'[x] = createRec[x]
  BY <1>1, <1>2 DEF TypeOK
<1>7. order'[o].st = "PENDING" /\ \A x \in Orders : x # o => order'[x] = order[x]
  BY <1>1, <1>2, NewOrderSound DEF TypeOK
<1>8. \A x \in Requests : req'[x].pc = "create" => x # r /\ req'[x] = req[x]
  BY <1>1 DEF TypeOK, Idle
<1>9. \A x \in CreateKeys : createRec[x].st = "done" =>
         createRec[x].ord \in Orders /\ createRec[x].ord # o
  <2>1. \A x \in CreateKeys : createRec[x].st = "done" => createRec[x].ord \in Orders
    BY DEF TypeOK, CreateRecords
  <2> QED BY <1>1, <2>1 DEF KeysInv
<1>10. \A x \in CreateKeys : createRec'[x].st = "done" => Exists(createRec[x].ord)'
  BY <1>3, <1>6, <1>7, <1>9 DEF KeysInv, Exists
<1>11. \A x \in Orders : Exists(x)' => \E a \in CreateKeys : Answers(a, x)'
  <2>1. Answers(k, o)'
    BY <1>3, <1>6 DEF Answers
  <2>2. ASSUME NEW x \in Orders, x # o, Exists(x)' PROVE \E a \in CreateKeys : Answers(a, x)'
    <3>1. Exists(x)
      BY <1>7, <2>2 DEF Exists
    <3>2. PICK a \in CreateKeys : Answers(a, x)
      BY <3>1 DEF KeysInv
    <3>3. a # k
      BY <1>4, <3>2 DEF Answers
    <3> QED BY <1>6, <3>2, <3>3 DEF Answers
  <2> QED BY <1>2, <2>1, <2>2
<1>12. \A x \in Orders : \A a, b \in CreateKeys : Answers(a, x)' /\ Answers(b, x)' => a = b
  BY <1>3, <1>6, <1>9 DEF KeysInv, Answers
<1>13. \A x \in Requests : req'[x].pc = "create" => createRec'[req'[x].key].st # "done"
  <2>1. \A x \in Requests : req[x].pc = "create" => req[x].key \in CreateKeys
    BY RequestHolds
  <2> QED BY <1>5, <1>6, <1>8, <2>1 DEF KeysInv
<1>14. \A a, b \in Requests :
         req'[a].pc = "create" /\ req'[b].pc = "create" /\ req'[a].key = req'[b].key => a = b
  BY <1>8 DEF KeysInv
<1> QED BY <1>10, <1>11, <1>12, <1>13, <1>14 DEF KeysInv

\* Every step keeps the correspondence, one case per action.
LEMMA StepKeys ==
    ASSUME MoneyInv, KeysInv, [Next]_vars
    PROVE  KeysInv'
<1>0. TypeOK /\ Idle.pc # "create"
  BY DEF MoneyInv, Idle
<1>1. UNCHANGED order => SameOrders
  BY DEF SameOrders
<1>2. CASE UNCHANGED vars
  BY <1>0, <1>1, <1>2, ThreadKeepsKeys DEF vars
<1>3. ASSUME NEW r \in Requests, RequestStep(r) PROVE KeysInv'
  <2>1. ASSUME NEW k \in CreateKeys, NEW p \in Payloads, CreateBegin(r, k, p) PROVE KeysInv'
    BY <1>0, <2>1, BeginKeepsKeys
  <2>2. ASSUME NEW k \in CreateKeys, NEW p \in Payloads, CreateDenied(r, k, p) PROVE KeysInv'
    BY <1>0, <2>2, DeniedKeepsKeys DEF CreateDenied, Unanswered
  <2>3. ASSUME NEW o \in Orders, CreateCommit(r, o) PROVE KeysInv'
    BY <1>0, <2>3, CommitKeepsKeys
  <2>4. CASE CreateRefused(r)
    <3>1. req[r].pc = "create" /\ req[r].key \in CreateKeys /\ createRec[req[r].key].st # "done"
      BY <1>0, <2>4, RequestHolds DEF CreateRefused, KeysInv
    <3> QED BY <1>0, <2>4, <3>1, DeniedKeepsKeys DEF CreateRefused
  <2>5. CASE CreateRollback(r)
    BY <1>0, <1>1, <2>5, ThreadKeepsKeys DEF CreateRollback
  <2>6. ASSUME NEW o \in Orders, NEW k \in CancelKeys, NEW v \in 1 .. order[o].ver,
               CancelBegin(r, o, k, v)
        PROVE  KeysInv'
    <3> DEFINE q == [pc |-> "cancel", key |-> k, ord |-> o, ver |-> v]
    <3>1. req' = [req EXCEPT ![r] = q] /\ q.pc # "create" /\ UNCHANGED <<order, createRec>>
      BY <2>6 DEF CancelBegin
    <3> HIDE DEF q
    <3> QED BY <1>0, <1>1, <3>1, ThreadKeepsKeys
  <2>7. CASE CancelCommit(r)
    <3> DEFINE o == req[r].ord
               s == release_reservation(Transaction(o))
               u == [s EXCEPT !.st = "CANCELLED"]
    <3>1. /\ Commit(o, u, TRUE) /\ req' = [req EXCEPT ![r] = Idle] /\ createRec' = createRec
          /\ o \in Orders /\ Exists(o)
      BY <1>0, <2>7, RequestHolds DEF CancelCommit, Answer, MoneyInv, RowsInv
    <3>2. order'[o].st = u.st /\ \A x \in Orders : x # o => order'[x] = order[x]
      <4> HIDE DEF o, u
      <4> QED BY <1>0, <3>1, CommitRow DEF TypeOK
    <3>3. u.st = "CANCELLED"
      BY DEF release_reservation, Transaction
    <3>4. SameOrders
      <4> HIDE DEF o, u
      <4> QED BY <3>1, <3>2, <3>3 DEF SameOrders, Exists
    <3> QED BY <1>0, <3>1, <3>4, ThreadKeepsKeys
  <2>8. CASE CancelConflict(r)
    BY <1>0, <1>1, <2>8, ThreadKeepsKeys DEF CancelConflict, Answer
  <2>9. CASE CancelRollback(r)
    BY <1>0, <1>1, <2>9, ThreadKeepsKeys DEF CancelRollback
  <2> QED BY <1>3, <2>1, <2>2, <2>3, <2>4, <2>5, <2>6, <2>7, <2>8, <2>9 DEF RequestStep
<1>4. ASSUME NEW w \in Workers, WorkerStep(w) PROVE KeysInv'
  <2>1. CASE ProcessCommit(w)
    <3> DEFINE j == work[w]
               t == process_created_order(j.ord, j.seen, j.scenario)
               saved == t # Transaction(j.ord) \/ (j.seen = "PENDING" /\ j.scenario # "REJECT")
    <3>1. /\ j.pc = "read" /\ Commit(j.ord, t, saved)
          /\ UNCHANGED <<createRec, req>>
      BY <2>1 DEF ProcessCommit
    <3>2. j \in WorkerStates
      BY <1>0 DEF TypeOK
    <3>3. j.ord \in Orders /\ j.scenario \in Scenarios
      BY <3>1, <3>2 DEF WorkerStates, Idle
    <3>4. /\ Exists(j.ord) /\ Accounted(order[j.ord]) /\ order[j.ord].p \in Payloads
          /\ order[j.ord] \in OrderRecords /\ balance \in Int /\ position \in Int
      BY <3>1, <3>3 DEF MoneyInv, RowsInv, TypeOK
    <3>5. t \in TxRecords
      BY <3>3, <3>4, ProcessPays DEF Reached
    <3> HIDE DEF t, saved, j
    <3>6. SameOrders
      BY <3>1, <3>3, <3>4, <3>5, CommitSameOrders
    <3> QED BY <1>0, <3>1, <3>6, ThreadKeepsKeys
  <2>2. CASE ~ProcessCommit(w)
    <3>1. UNCHANGED <<order, createRec, req>>
      BY <1>4, <2>2 DEF WorkerStep, RouterRead, InlineRead, ProcessRollback, ProcessAbort
    <3> QED BY <1>0, <1>1, <3>1, ThreadKeepsKeys
  <2> QED BY <2>1, <2>2
<1>5. CASE ComplianceStep
  <2>1. UNCHANGED <<createRec, req>>
    BY <1>5 DEF ComplianceStep, ComplianceDenies, ComplianceChanges
  <2>2. CASE UNCHANGED order
    BY <1>0, <1>1, <2>1, <2>2, ThreadKeepsKeys
  <2>3. CASE ComplianceDenies
    <3>1. \A x \in Orders : order[x] \in OrderRecords
      BY <1>0 DEF TypeOK
    <3>2. ASSUME NEW x \in Orders PROVE (order'[x].st = "NONE") <=> (order[x].st = "NONE")
      <4>1. order'[x] = IF order[x].st = "PENDING" THEN [order[x] EXCEPT !.st = "REJECTED"]
                        ELSE order[x]
        BY <2>3 DEF ComplianceDenies
      <4>2. order[x].st = "PENDING" => order'[x].st = "REJECTED"
        BY <3>1, <4>1 DEF OrderRecords
      <4> QED BY <4>1, <4>2
    <3>3. SameOrders
      BY <3>2 DEF SameOrders
    <3> QED BY <1>0, <2>1, <3>3, ThreadKeepsKeys
  <2> QED BY <1>5, <2>2, <2>3 DEF ComplianceStep, ComplianceChanges
<1> QED BY <1>2, <1>3, <1>4, <1>5 DEF Next

\* Every order is the recorded answer of exactly one Idempotency-Key, however
\* often a request is repeated and however many threads serve the same key.
THEOREM OneOrderForEachKey == Spec => []OneOrderPerKey
<1>1. Init => KeysInv
  <2> SUFFICES ASSUME Init PROVE KeysInv
    OBVIOUS
  <2>1. NoOrder.st = "NONE"
    BY DEF NoOrder
  <2> HIDE DEF NoOrder
  <2> QED BY <2>1 DEF Init, KeysInv, Answers, Exists, Idle
<1>2. MoneyInv /\ KeysInv /\ [Next]_vars => KeysInv'
  BY StepKeys
<1>3. KeysInv => OneOrderPerKey
  <2> SUFFICES ASSUME KeysInv, NEW o \in Orders, Exists(o)
               PROVE  Cardinality({k \in CreateKeys : createRec[k].st = "done"
                                                      /\ createRec[k].ord = o}) = 1
    BY DEF OneOrderPerKey
  <2> DEFINE S == {k \in CreateKeys : createRec[k].st = "done" /\ createRec[k].ord = o}
  <2>1. PICK k \in CreateKeys : Answers(k, o)
    BY DEF KeysInv
  <2>2. S = {k}
    BY <2>1 DEF KeysInv, Answers
  <2> HIDE DEF S
  <2>3. Cardinality(S) = 1
    BY <2>2, FS_Singleton
  <2> QED BY <2>3 DEF S
<1> QED BY <1>1, <1>2, <1>3, MoneyInvariance, PTL DEF Spec

-----------------------------------------------------------------------------
(* What an order that has ended may still hold back.                       *)

\* Nobody has executed anything of the order yet.
Unexecuted(t) == \A i \in ExecIds : t.done[i] = None

\* An active reservation pays for what is left to fill; a PENDING order has no
\* execution behind it; an order that ended with its reservation was REJECTED
\* before its first execution.
Kept(t) ==
    /\ t.res = "ACTIVE" => t.left = (t.p.qty - t.filled) * UnitCost(t.p.side)
    /\ t.st = "PENDING" => Unexecuted(t)
    /\ t.st \in TERMINAL_STATES /\ t.res = "ACTIVE" => t.st = "REJECTED" /\ Unexecuted(t)

\* A transaction that may still commit is accounted for and keeps its reservation.
KeptOrRaised(t) == t \in TxRecords /\ (t.ok => Accounted(t) /\ Kept(t))

HoldsInv == \A o \in Orders : Exists(o) => Kept(order[o])

\* The fill that completes an order uses up its reservation.
LEMMA FillKeeps ==
    ASSUME NEW t \in TxRecords, Accounted(t), Kept(t), NEW i \in FillIds, NEW q \in Nat,
           t.done[i] = None
    PROVE  LET u == [ApplyFill(t, Execution(i, q, "FILL")) EXCEPT !.done[i] = q]
           IN  u.ok => Kept(u)
<1> DEFINE e == Execution(i, q, "FILL")
           f == t.filled + q
           target == IF f = t.p.qty THEN "FILLED" ELSE "PARTIALLY_FILLED"
           guard == f <= t.p.qty /\ CanSettle(t, q) /\ Allowed(Opened(t.st), target)
           a == ApplyFill(t, e)
           u == [a EXCEPT !.done[i] = q]
<1>1. e.id = i /\ e.qty = q
  BY DEF Execution
<1>2. CASE ~guard
  <2>1. a = Raise(t)
    BY <1>1, <1>2 DEF ApplyFill
  <2>2. a \in TxRecords /\ ~a.ok
    BY <2>1, RaiseFacts
  <2> HIDE DEF a
  <2>3. ~u.ok
    BY <2>2 DEF TxRecords
  <2> QED BY <2>3 DEF a, e
<1>3. CASE guard
  <2> DEFINE s == settle_trade(t, q)
             c == UnitCost(t.p.side)
  <2>1. a = [s EXCEPT !.st = target, !.filled = f, !.trade[i] = q]
    BY <1>1, <1>3 DEF ApplyFill
  <2>2. /\ s \in TxRecords /\ s.left = t.left - q * c
        /\ s.res = IF s.left = 0 THEN "CONSUMED" ELSE t.res
        /\ s.p = t.p
    BY <1>3, SettleFacts
  <2>3. /\ f \in Nat /\ f <= t.p.qty /\ t.filled \in Nat /\ t.p.qty \in Nat /\ c \in Nat
        /\ t.left \in Nat
    BY <1>3, MoneyTypes, UnitCostPositive
  <2>4. target \in States /\ target \in {"FILLED", "PARTIALLY_FILLED"}
        /\ (target = "FILLED" => f = t.p.qty)
    BY DEF States, TERMINAL_STATES
  <2>5. f = t.filled + q
    OBVIOUS
  <2> HIDE DEF s, c, f, target, guard, e, a
  <2>6. a \in TxRecords
    <3>1. [s EXCEPT !.st = target, !.filled = f, !.trade[i] = q] \in TxRecords
      BY <2>2, <2>3, <2>4, TxUpdateFill
    <3> QED BY <2>1, <3>1
  <2>7. a.st = target /\ a.filled = f /\ a.p = t.p /\ a.left = s.left /\ a.res = s.res
    BY <2>1, <2>2 DEF TxRecords
  <2>8. u.st = target /\ u.filled = f /\ u.p = t.p /\ u.left = s.left /\ u.res = s.res
    BY <2>6, <2>7 DEF TxRecords
  <2> HIDE DEF u
  <2>9. u.res = "ACTIVE" => u.left = (t.p.qty - f) * c /\ u.left # 0
    <3>1. ASSUME u.res = "ACTIVE" PROVE t.res = "ACTIVE" /\ u.left # 0
      BY <2>2, <2>8, <3>1
    <3>2. t.res = "ACTIVE" => t.left = (t.p.qty - t.filled) * c
      BY DEF Kept, c
    <3>3. ((t.p.qty - t.filled) - q) * c = (t.p.qty - t.filled) * c - q * c
      BY <2>3, RestCost
    <3>4. (t.p.qty - t.filled) - q = t.p.qty - f
      BY <2>3, <2>5
    <3> QED BY <2>2, <2>8, <3>1, <3>2, <3>3, <3>4
  <2>10. f = t.p.qty => (t.p.qty - f) * c = 0
    <3>1. 0 * c = 0
      BY <2>3
    <3>2. f = t.p.qty => t.p.qty - f = 0
      BY <2>3
    <3> QED BY <3>1, <3>2
  <2>11. ~(u.st \in TERMINAL_STATES /\ u.res = "ACTIVE") /\ u.st # "PENDING"
    BY <2>4, <2>8, <2>9, <2>10 DEF TERMINAL_STATES
  <2>12. u.res = "ACTIVE" => u.left = (u.p.qty - u.filled) * UnitCost(u.p.side)
    BY <2>8, <2>9 DEF c
  <2>13. Kept(u)
    BY <2>11, <2>12 DEF Kept
  <2> QED BY <2>13 DEF u, a, e
<1> QED BY <1>2, <1>3

\* A rejection or an expiry of the pipeline releases the reservation.
LEMMA EndKeeps ==
    ASSUME NEW t \in TxRecords, NEW i \in {"reject", "expire"},
           NEW from \in States, NEW target \in TERMINAL_STATES
    PROVE  LET u == [ApplyEnd(t, from, target) EXCEPT !.done[i] = 0]
           IN  u.ok => Kept(u)
<1> DEFINE a == ApplyEnd(t, from, target)
           u == [a EXCEPT !.done[i] = 0]
<1>1. CASE ~Allowed(from, target)
  <2>1. a \in TxRecords /\ ~a.ok
    BY <1>1, RaiseFacts DEF ApplyEnd
  <2> HIDE DEF a
  <2>2. ~u.ok
    BY <2>1 DEF TxRecords
  <2> QED BY <2>2 DEF a
<1>2. CASE Allowed(from, target)
  <2> DEFINE s == release_reservation(t)
  <2>1. a = [s EXCEPT !.st = target]
    BY <1>2 DEF ApplyEnd
  <2>2. s \in TxRecords /\ s.res # "ACTIVE"
    <3>1. t.st \in States /\ [t EXCEPT !.res = "RELEASED", !.left = 0] \in TxRecords
      BY TxUpdateEnd DEF TxRecords
    <3>2. [t EXCEPT !.res = "RELEASED", !.left = 0].res = "RELEASED"
      BY DEF TxRecords
    <3> QED BY <3>1, <3>2 DEF release_reservation
  <2> HIDE DEF s, a
  <2>3. a \in TxRecords /\ a.res # "ACTIVE" /\ a.st = target
    <3>1. target \in States
      BY DEF States
    <3>2. a \in TxRecords
      BY <2>1, <2>2, <3>1, TxUpdateEnd DEF TxRecords
    <3> QED BY <2>1, <2>2, <3>2 DEF TxRecords
  <2>4. u.res # "ACTIVE" /\ u.st = target
    BY <2>3 DEF TxRecords
  <2> HIDE DEF u
  <2>5. Kept(u)
    BY <2>4 DEF Kept, TERMINAL_STATES
  <2> QED BY <2>5 DEF u, a
<1> QED BY <1>1, <1>2

\* apply_execution, whatever it is given.
LEMMA ApplyKeeps ==
    ASSUME NEW t \in TxRecords, KeptOrRaised(t), NEW e \in Executions \cup {NoExecution}
    PROVE  KeptOrRaised(apply_execution(t, e))
<1> DEFINE u == apply_execution(t, e)
<1>0. u \in TxRecords /\ (u.ok => Accounted(u))
  <2>1. t.ok => PaidFromReservation(t, t)
    BY MoneyTypes DEF PaidFromReservation
  <2>2. Reached(t, t)
    BY <2>1 DEF Reached, KeptOrRaised
  <2>3. Reached(t, u)
    BY <2>2, ApplyPays
  <2> QED BY <2>3 DEF Reached
<1>1. CASE ~t.ok \/ e = NoExecution
  BY <1>1 DEF apply_execution
<1>2. CASE ~(~t.ok \/ e = NoExecution) /\ t.done[e.id] # None
  <2>1. u = t \/ u = Raise(t)
    BY <1>2 DEF apply_execution
  <2> HIDE DEF u
  <2>2. u = Raise(t) => ~u.ok
    BY RaiseFacts
  <2> QED BY <1>0, <2>1, <2>2 DEF u, KeptOrRaised
<1>3. CASE ~(~t.ok \/ e = NoExecution) /\ t.done[e.id] = None
  <2>0. e.qty \in Nat
    BY <1>3 DEF Executions
  <2>1. u = [Mutation(t, e) EXCEPT !.done[e.id] = e.qty]
    BY <1>3, <2>0 DEF apply_execution, None
  <2>2. Accounted(t) /\ Kept(t) /\ t.st \in States
    BY <1>3 DEF TxRecords, KeptOrRaised
  <2>3. u.ok => Kept(u)
    <3>4. CASE e \in [id : FillIds, qty : Nat, outcome : {"FILL"}]
      <4>1. e = Execution(e.id, e.qty, "FILL") /\ e.id \in FillIds /\ e.qty \in Nat
        BY <3>4 DEF Execution
      <4>2. Mutation(t, e) = ApplyFill(t, Execution(e.id, e.qty, "FILL"))
        BY <3>4, <4>1 DEF Mutation
      <4> QED BY <1>3, <2>1, <2>2, <4>1, <4>2, FillKeeps
    <3>5. CASE e \in [id : {"reject"}, qty : {0}, outcome : {"REJECT"}]
      <4>1. Mutation(t, e) = ApplyEnd(t, t.st, "REJECTED") /\ e.id = "reject" /\ e.qty = 0
        BY <3>5 DEF Mutation
      <4>2. "REJECTED" \in TERMINAL_STATES
        BY DEF TERMINAL_STATES
      <4> QED BY <2>1, <2>2, <4>1, <4>2, EndKeeps
    <3>6. CASE e \in [id : {"expire"}, qty : {0}, outcome : {"EXPIRE"}]
      <4>1. Mutation(t, e) = ApplyEnd(t, Opened(t.st), "EXPIRED") /\ e.id = "expire" /\ e.qty = 0
        BY <3>6 DEF Mutation
      <4>2. "EXPIRED" \in TERMINAL_STATES /\ Opened(t.st) \in States
        BY <2>2 DEF TERMINAL_STATES, Opened, States
      <4> QED BY <2>1, <2>2, <4>1, <4>2, EndKeeps
    <3> QED BY <1>3, <3>4, <3>5, <3>6 DEF Executions
  <2> HIDE DEF u
  <2> QED BY <1>0, <2>3 DEF u, KeptOrRaised
<1> QED BY <1>1, <1>2, <1>3

\* Saving ACCEPTED or OPEN keeps the reservation as it is.
LEMMA StateKeeps ==
    ASSUME NEW t \in TxRecords, KeptOrRaised(t), NEW s \in {"ACCEPTED", "OPEN"}
    PROVE  KeptOrRaised([t EXCEPT !.st = s])
<1> DEFINE u == [t EXCEPT !.st = s]
<1>1. u \in TxRecords
  <2>1. t.left \in Nat /\ t.res \in {"NONE", "ACTIVE", "RELEASED", "CONSUMED"} /\ s \in States
    BY DEF TxRecords, States
  <2> QED BY <2>1, TxUpdateEnd
<1>2. /\ u.st = s /\ u.p = t.p /\ u.filled = t.filled /\ u.res = t.res /\ u.left = t.left
      /\ u.trade = t.trade /\ u.done = t.done /\ u.ok = t.ok
  BY DEF TxRecords
<1> HIDE DEF u
<1>3. u.ok => Accounted(u)
  BY <1>2 DEF KeptOrRaised, Accounted, Lots
<1>4. u.ok => Kept(u)
  BY <1>2 DEF KeptOrRaised, Kept, TERMINAL_STATES
<1> QED BY <1>1, <1>3, <1>4 DEF KeptOrRaised, u

\* One processing transaction, also of an order that a denial has ended: either
\* it revives the order with its whole reservation or it leaves it as it is.
LEMMA ProcessKeeps ==
    ASSUME NEW o \in Orders, order[o].p \in Payloads, NEW s \in Scenarios, NEW seen,
           KeptOrRaised(Transaction(o))
    PROVE  KeptOrRaised(process_created_order(o, seen, s))
<1> DEFINE t == Transaction(o)
           t0 == AcceptIfPending(t, seen, s)
           t1 == apply_execution(t0, FirstExecution(order[o].p, s))
           t2 == apply_execution(t1, SecondExecution(order[o].p, s))
           u == OpenIfAccepted(t2)
<1>1. KeptOrRaised(t)
  OBVIOUS
<1> HIDE DEF t
<1>2. KeptOrRaised(t0)
  <2>1. t0 = t \/ t0 = [t EXCEPT !.st = "ACCEPTED"]
    BY DEF AcceptIfPending
  <2>2. KeptOrRaised([t EXCEPT !.st = "ACCEPTED"])
    BY <1>1, StateKeeps DEF KeptOrRaised
  <2> QED BY <1>1, <2>1, <2>2
<1> HIDE DEF t0
<1>3. KeptOrRaised(t1)
  BY <1>2, ExecutionsTyped, ApplyKeeps DEF KeptOrRaised
<1> HIDE DEF t1
<1>4. KeptOrRaised(t2)
  BY <1>3, ExecutionsTyped, ApplyKeeps DEF KeptOrRaised
<1> HIDE DEF t2
<1>5. KeptOrRaised(u)
  <2>1. u = t2 \/ u = [t2 EXCEPT !.st = "OPEN"]
    BY DEF OpenIfAccepted
  <2>2. KeptOrRaised([t2 EXCEPT !.st = "OPEN"])
    BY <1>4, StateKeeps DEF KeptOrRaised
  <2> QED BY <1>4, <2>1, <2>2
<1>6. u = process_created_order(o, seen, s)
  BY DEF process_created_order, t, t0, t1, t2
<1> QED BY <1>5, <1>6

\* A commit of a transaction that keeps its reservation keeps all rows.
LEMMA CommitKeeps ==
    ASSUME MoneyInv, HoldsInv, NEW o \in Orders, Exists(o), NEW t \in TxRecords, Kept(t),
           NEW saved \in BOOLEAN, Commit(o, t, saved)
    PROVE  HoldsInv'
<1> DEFINE new == [st |-> t.st, p |-> t.p, filled |-> t.filled, res |-> t.res,
                   left |-> t.left, trade |-> t.trade, done |-> t.done,
                   ver |-> IF saved THEN order[o].ver + 1 ELSE order[o].ver]
<1>1. order' = [order EXCEPT ![o] = new] /\ order \in [Orders -> OrderRecords]
  BY DEF Commit, MoneyInv, TypeOK
<1>2. Kept(new)
  BY DEF Kept, Unexecuted
<1> HIDE DEF new
<1>3. \A x \in Orders : order'[x] = IF x = o THEN new ELSE order[x]
  BY <1>1
<1> QED BY <1>2, <1>3 DEF HoldsInv, Exists

\* A row that exists starts a transaction that keeps its reservation.
LEMMA TransactionKept ==
    ASSUME MoneyInv, HoldsInv, NEW o \in Orders, Exists(o)
    PROVE  KeptOrRaised(Transaction(o)) /\ order[o].p \in Payloads
<1>1. /\ order[o] \in OrderRecords /\ order[o].p \in Payloads /\ balance \in Int /\ position \in Int
      /\ Accounted(order[o]) /\ Kept(order[o])
  BY DEF MoneyInv, TypeOK, RowsInv, HoldsInv
<1>2. Transaction(o) \in TxRecords
  BY <1>1, TransactionReached
<1>3. Accounted(Transaction(o)) /\ Kept(Transaction(o))
  BY <1>1 DEF Transaction, Accounted, Kept, Unexecuted, Lots
<1> QED BY <1>1, <1>2, <1>3 DEF KeptOrRaised

LEMMA StepHolds ==
    ASSUME MoneyInv, HoldsInv, [Next]_vars
    PROVE  HoldsInv'
<1>0. order \in [Orders -> OrderRecords]
  BY DEF MoneyInv, TypeOK
<1>1. ASSUME UNCHANGED order PROVE HoldsInv'
  BY <1>1 DEF HoldsInv, Exists
<1>2. ASSUME NEW r \in Requests, NEW o \in Orders, CreateCommit(r, o) PROVE HoldsInv'
  <2> DEFINE p == req[r].p
  <2>1. p \in Payloads /\ order' = [order EXCEPT ![o] = NewOrder(p)]
    BY <1>2, RequestHolds DEF CreateCommit, MoneyInv
  <2> HIDE DEF p
  <2>2. /\ NewOrder(p).st = "PENDING" /\ NewOrder(p).p = p /\ NewOrder(p).filled = 0
        /\ NewOrder(p).left = p.qty * UnitCost(p.side) /\ NewOrder(p).done = [i \in ExecIds |-> None]
    BY DEF NewOrder, NoOrder
  <2>3. p.qty \in Nat /\ p.qty - 0 = p.qty
    BY <2>1, PayloadAssumption
  <2>4. Kept(NewOrder(p))
    BY <2>2, <2>3 DEF Kept, Unexecuted, TERMINAL_STATES
  <2> QED BY <1>0, <2>1, <2>4 DEF HoldsInv, Exists
<1>3. ASSUME NEW r \in Requests, CancelCommit(r) PROVE HoldsInv'
  <2> DEFINE o == req[r].ord
             t == Transaction(o)
             s == release_reservation(t)
             u == [s EXCEPT !.st = "CANCELLED"]
  <2>1. o \in Orders /\ Exists(o) /\ Commit(o, u, TRUE)
    BY <1>3, RequestHolds DEF CancelCommit, MoneyInv, RowsInv
  <2>2. t \in TxRecords /\ t.st \in States
    BY <2>1, TransactionKept DEF KeptOrRaised, TxRecords
  <2> HIDE DEF t, o
  <2>3. s \in TxRecords /\ s.res # "ACTIVE"
    <3>1. [t EXCEPT !.res = "RELEASED", !.left = 0] \in TxRecords
      BY <2>2, TxUpdateEnd
    <3>2. [t EXCEPT !.res = "RELEASED", !.left = 0].res = "RELEASED"
      BY <2>2 DEF TxRecords
    <3> QED BY <2>2, <3>1, <3>2 DEF release_reservation
  <2> HIDE DEF s
  <2>4. u \in TxRecords /\ u.res # "ACTIVE" /\ u.st = "CANCELLED"
    <3>1. "CANCELLED" \in States /\ s.left \in Nat
          /\ s.res \in {"NONE", "ACTIVE", "RELEASED", "CONSUMED"}
      BY <2>3 DEF States, TERMINAL_STATES, TxRecords
    <3>2. u \in TxRecords
      BY <2>3, <3>1, TxUpdateEnd
    <3>3. u.res # "ACTIVE" /\ u.st = "CANCELLED"
      BY <2>3 DEF TxRecords
    <3> QED BY <3>2, <3>3
  <2> HIDE DEF u
  <2>5. Kept(u)
    BY <2>4 DEF Kept
  <2> QED BY <2>1, <2>4, <2>5, CommitKeeps
<1>4. ASSUME NEW w \in Workers, ProcessCommit(w) PROVE HoldsInv'
  <2> DEFINE j == work[w]
             t == process_created_order(j.ord, j.seen, j.scenario)
             saved == t # Transaction(j.ord) \/ (j.seen = "PENDING" /\ j.scenario # "REJECT")
  <2>1. j.pc = "read" /\ t.ok /\ Commit(j.ord, t, saved) /\ saved \in BOOLEAN
    BY <1>4 DEF ProcessCommit
  <2>2. j \in WorkerStates
    BY DEF MoneyInv, TypeOK
  <2>3. j.ord \in Orders /\ j.scenario \in Scenarios /\ Exists(j.ord)
    BY <2>1, <2>2 DEF WorkerStates, Idle, MoneyInv, RowsInv
  <2>4. KeptOrRaised(t)
    BY <2>3, TransactionKept, ProcessKeeps
  <2> HIDE DEF t, saved, j
  <2> QED BY <2>1, <2>3, <2>4, CommitKeeps DEF KeptOrRaised
<1>5. ASSUME ComplianceDenies PROVE HoldsInv'
  <2> SUFFICES ASSUME NEW o \in Orders, order'[o].st # "NONE" PROVE Kept(order'[o])
    BY DEF HoldsInv, Exists
  <2>1. order'[o] = IF order[o].st = "PENDING" THEN [order[o] EXCEPT !.st = "REJECTED"]
                    ELSE order[o]
    BY <1>5 DEF ComplianceDenies
  <2>2. CASE order[o].st # "PENDING"
    BY <2>1, <2>2 DEF HoldsInv, Exists
  <2>3. CASE order[o].st = "PENDING"
    <3>1. /\ order'[o].st = "REJECTED" /\ order'[o].p = order[o].p
          /\ order'[o].filled = order[o].filled /\ order'[o].res = order[o].res
          /\ order'[o].left = order[o].left /\ order'[o].done = order[o].done
      BY <1>0, <2>1, <2>3 DEF OrderRecords
    <3>2. Kept(order[o])
      BY <2>3 DEF HoldsInv, Exists
    <3> QED BY <2>3, <3>1, <3>2 DEF Kept, Unexecuted
  <2> QED BY <2>2, <2>3
<1>6. CASE UNCHANGED vars
  BY <1>1, <1>6 DEF vars
<1>7. ASSUME NEW r \in Requests, RequestStep(r) PROVE HoldsInv'
  <2>1. CASE \E o \in Orders : CreateCommit(r, o)
    BY <1>2, <2>1
  <2>2. CASE CancelCommit(r)
    BY <1>3, <2>2
  <2>3. CASE ~(\E o \in Orders : CreateCommit(r, o)) /\ ~CancelCommit(r)
    <3>1. UNCHANGED order
      BY <1>7, <2>3 DEF RequestStep, CreateBegin, CreateDenied, CreateRefused, CreateRollback,
                        CancelBegin, CancelConflict, CancelRollback
    <3> QED BY <1>1, <3>1
  <2> QED BY <2>1, <2>2, <2>3
<1>8. ASSUME NEW w \in Workers, WorkerStep(w) PROVE HoldsInv'
  <2>1. CASE ~ProcessCommit(w)
    <3>1. UNCHANGED order
      BY <1>8, <2>1 DEF WorkerStep, RouterRead, InlineRead, ProcessRollback, ProcessAbort
    <3> QED BY <1>1, <3>1
  <2> QED BY <1>4, <2>1
<1>9. CASE ComplianceStep
  BY <1>1, <1>5, <1>9 DEF ComplianceStep, ComplianceChanges
<1> QED BY <1>6, <1>7, <1>8, <1>9 DEF Next

\* In every configuration, with the callback and the consumer both processing
\* orders and reviews at any time: whatever a terminal order still holds back
\* was left by a compliance denial, and is all that it reserved.
THEOREM OnlyDenialsLeaveReservations == Spec => []OnlyDenialsHoldBack
<1>1. Init => HoldsInv
  <2> SUFFICES ASSUME Init PROVE HoldsInv
    OBVIOUS
  <2>1. NoOrder.st = "NONE"
    BY DEF NoOrder
  <2> HIDE DEF NoOrder
  <2> QED BY <2>1 DEF Init, HoldsInv, Exists
<1>2. MoneyInv /\ HoldsInv /\ [Next]_vars => HoldsInv'
  BY StepHolds
<1>3. MoneyInv /\ HoldsInv => OnlyDenialsHoldBack
  <2> SUFFICES ASSUME MoneyInv, HoldsInv, NEW o \in Orders, order[o].st \in TERMINAL_STATES,
                      order[o].res = "ACTIVE" \/ order[o].left # 0
               PROVE  /\ order[o].st = "REJECTED" /\ Unexecuted(order[o])
                      /\ order[o].left = order[o].p.qty * UnitCost(order[o].p.side)
    BY DEF OnlyDenialsHoldBack, Unexecuted
  <2>1. Exists(o) /\ order[o] \in OrderRecords
    BY DEF Exists, TERMINAL_STATES, MoneyInv, TypeOK
  <2>2. Accounted(order[o]) /\ Kept(order[o])
    BY <2>1 DEF MoneyInv, RowsInv, HoldsInv
  <2>3. order[o].res = "ACTIVE"
    BY <2>2 DEF Accounted
  <2>4. order[o].st = "REJECTED" /\ Unexecuted(order[o])
        /\ order[o].left = (order[o].p.qty - order[o].filled) * UnitCost(order[o].p.side)
    BY <2>2, <2>3 DEF Kept
  <2>5. order[o].filled = 0
    BY <2>2, <2>4 DEF Accounted, Unexecuted, Lots, FillIds, ExecIds
  <2>6. order[o].p.qty - 0 = order[o].p.qty
    BY <2>1, RowTypes
  <2> QED BY <2>4, <2>5, <2>6
<1> QED BY <1>1, <1>2, <1>3, MoneyInvariance, PTL DEF Spec

-----------------------------------------------------------------------------
(* Self-trade prevention.                                                  *)

\* Crossing does not depend on which of two opposite orders came first.
LEMMA CrossesSymmetric ==
    ASSUME NEW p \in Payloads, NEW q \in Payloads, p.side # q.side, Crosses(p, q)
    PROVE  Crosses(q, p)
<1>1. p.lim \in Nat /\ q.lim \in Nat /\ p.side \in {"BUY", "SELL"} /\ q.side \in {"BUY", "SELL"}
  BY PayloadAssumption
<1> QED BY <1>1 DEF Crosses

\* Without compliance reviews and inline processing no step but the creation
\* of an order makes an order live, and none changes what it asks for.
LEMMA LiveStep ==
    ASSUME MaxReviews = 0, ~Inline, Inv, [Next]_vars, NEW o \in Orders, Live(o)',
           \A r \in Requests : ~CreateCommit(r, o)
    PROVE  Live(o) /\ order'[o].p = order[o].p
<1>0. order \in [Orders -> OrderRecords]
  BY DEF Inv, TypeOK
<1>1. CASE order'[o] = order[o]
  BY <1>1 DEF Live
<1>2. ASSUME NEW r \in Requests, NEW x \in Orders, CreateCommit(r, x), x # o
      PROVE  order'[o] = order[o]
  BY <1>0, <1>2 DEF CreateCommit
<1>3. ASSUME NEW w \in Workers, ProcessCommit(w) PROVE Live(o) /\ order'[o].p = order[o].p
  <2> DEFINE j == work[w]
             t == process_created_order(j.ord, j.seen, j.scenario)
             saved == t # Transaction(j.ord) \/ (j.seen = "PENDING" /\ j.scenario # "REJECT")
  <2>1. j.pc = "read" /\ WinsInbox(j) /\ Commit(j.ord, t, saved)
    BY <1>3 DEF ProcessCommit
  <2>2. /\ j.ord \in Orders /\ Exists(j.ord) /\ j.scenario \in Scenarios
        /\ Untouched(order[j.ord].st) /\ Covered(order[j.ord]) /\ Sound(order[j.ord])
        /\ order[j.ord] \in OrderRecords /\ order[j.ord].p \in Payloads
    BY <2>1, WorkerFacts
  <2>3. t.p = order[j.ord].p
    BY <2>2, ProcessSound DEF Inv, TypeOK
  <2> HIDE DEF t, saved, j
  <2>4. order'[j.ord].p = t.p /\ \A x \in Orders : x # j.ord => order'[x] = order[x]
    BY <1>0, <2>1, <2>2, CommitRow
  <2>5. CASE o = j.ord
    BY <1>0, <2>2, <2>3, <2>4, <2>5 DEF Untouched, Live
  <2>6. CASE o # j.ord
    BY <1>0, <1>1, <2>4, <2>6
  <2> QED BY <2>5, <2>6
<1>4. ASSUME NEW r \in Requests, CancelCommit(r) PROVE order'[o] = order[o]
  <2> DEFINE x == req[r].ord
             s == release_reservation(Transaction(x))
             u == [s EXCEPT !.st = "CANCELLED"]
  <2>1. Commit(x, u, TRUE)
    BY <1>4 DEF CancelCommit
  <2>2. u.st = "CANCELLED" /\ x \in Orders
    BY <1>4, RequestFacts DEF release_reservation, Transaction, CancelCommit
  <2> HIDE DEF x, u
  <2>3. order'[x].st = u.st /\ \A y \in Orders : y # x => order'[y] = order[y]
    BY <1>0, <2>1, <2>2, CommitRow
  <2> QED BY <1>0, <2>2, <2>3 DEF Live
<1>5. ASSUME NEW r \in Requests, RequestStep(r) PROVE order'[o] = order[o]
  BY <1>2, <1>4, <1>5 DEF RequestStep, CreateBegin, CreateDenied, CreateRefused,
     CreateRollback, CancelBegin, CancelConflict, CancelRollback
<1>6. ASSUME NEW w \in Workers, WorkerStep(w) PROVE Live(o) /\ order'[o].p = order[o].p
  BY <1>1, <1>3, <1>6 DEF WorkerStep, RouterRead, InlineRead, ProcessRollback, ProcessAbort
<1>7. CASE UNCHANGED vars
  BY <1>1, <1>7 DEF vars
<1>8. ~ComplianceStep
  BY DEF ComplianceStep, ComplianceDenies, ComplianceChanges, Review, Inv, TypeOK
<1> QED BY <1>1, <1>5, <1>6, <1>7, <1>8 DEF Next

\* A new order crosses no live order of the other side: both controls ran
\* again under the account lock.
LEMMA StepNoSelfCross ==
    ASSUME MaxReviews = 0, ~Inline, Inv, NoSelfCross, [Next]_vars
    PROVE  NoSelfCross'
<1>1. ASSUME NEW x \in Orders, NEW y \in Orders, Live(x)', Live(y)',
             order'[x].p.side # order'[y].p.side,
             NEW r \in Requests, CreateCommit(r, x)
      PROVE  ~Crosses(order'[x].p, order'[y].p) /\ ~Crosses(order'[y].p, order'[x].p)
  <2> DEFINE p == req[r].p
  <2>1. p \in Payloads /\ ~SelfTrade(p) /\ order' = [order EXCEPT ![x] = NewOrder(p)]
    BY <1>1, RequestFacts DEF CreateCommit, PassesControls
  <2>2. x # y
    BY <1>1
  <2> HIDE DEF p
  <2>3. order'[x] = NewOrder(p) /\ order'[y] = order[y]
    BY <2>1, <2>2 DEF Inv, TypeOK
  <2>4. order'[x].p = p
    BY <2>1, <2>3, NewOrderSound
  <2>5. Live(y) /\ order[y].p \in Payloads
    BY <1>1, <2>3 DEF Live, Inv, RouterInv, Exists
  <2>6. ~Crosses(p, order[y].p)
    BY <1>1, <2>1, <2>3, <2>4, <2>5 DEF SelfTrade
  <2>7. ~Crosses(order[y].p, p)
    BY <1>1, <2>1, <2>3, <2>4, <2>5, <2>6, CrossesSymmetric
  <2> QED BY <2>3, <2>4, <2>6, <2>7
<1>2. SUFFICES ASSUME NEW x \in Orders, NEW y \in Orders, Live(x)', Live(y)',
                      order'[x].p.side # order'[y].p.side,
                      \A r \in Requests : ~CreateCommit(r, x),
                      \A r \in Requests : ~CreateCommit(r, y)
               PROVE  ~Crosses(order'[x].p, order'[y].p)
  BY <1>1 DEF NoSelfCross
<1>3. Live(x) /\ order'[x].p = order[x].p
  BY <1>2, LiveStep
<1>4. Live(y) /\ order'[y].p = order[y].p
  BY <1>2, LiveStep
<1> QED BY <1>2, <1>3, <1>4 DEF NoSelfCross

\* In consumer-only operation, while compliance invalidates no order, the
\* account never has two live orders that cross, however many creates are
\* evaluated at the same moment.
THEOREM OrdersNeverSelfCross ==
    ASSUME ~Inline, MaxReviews = 0 PROVE Spec => []NoSelfCross
<1>1. Init => NoSelfCross
  <2> SUFFICES ASSUME Init PROVE NoSelfCross
    OBVIOUS
  <2>1. \A o \in Orders : ~Live(o)
    <3>1. NoOrder.st = "NONE"
      BY DEF NoOrder
    <3> HIDE DEF NoOrder
    <3> QED BY <3>1 DEF Init, Live
  <2> QED BY <2>1 DEF NoSelfCross
<1>2. Inv /\ NoSelfCross /\ [Next]_vars => NoSelfCross'
  BY StepNoSelfCross
<1> QED BY <1>1, <1>2, Invariance, PTL DEF Spec
=============================================================================
