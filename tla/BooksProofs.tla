----------------------------- MODULE BooksProofs -----------------------------
(***************************************************************************)
(* Proofs about the two books beside the real wallet: the post-trade and   *)
(* valuation records of simulated fills (PostTrade) and the events of the  *)
(* financial boundary (FinancialEvents).                                   *)
(***************************************************************************)
EXTENDS PostTrade, FinancialEvents, SumTheorems, SequenceTheorems, TLAPS

-----------------------------------------------------------------------------
(* Events of the financial boundary.                                       *)

\* A publisher only works on rows that exist, what it has sent is on the wire,
\* and the inbox remembers payloads.
EventsInv ==
    /\ outbox \in [OutboxIds -> [status : {"NONE", "PENDING", "IN_FLIGHT", "PUBLISHED"},
                                 attempts : Nat, payload : Payloads \cup {NoPayload}]]
    /\ pending \in [Publishers -> SUBSET OutboxIds] /\ sentBy \in [Publishers -> SUBSET OutboxIds]
    /\ inbox \in [EventIds -> Payloads \cup {NoPayload}]
    /\ DOMAIN handled = EventIds
    /\ \A p \in Publishers : \A e \in pending[p] : outbox[e].status # "NONE"
    /\ \A p \in Publishers : \A e \in sentBy[p] :
          outbox[e].status # "NONE" /\ <<e, outbox[e].payload>> \in wire
    /\ SentOnceHandledOnce

\* A row's new version in the outbox, the other rows being the same.
OutboxRow(e, status, payload) ==
    /\ outbox'[e].status = status /\ outbox'[e].payload = payload
    /\ \A f \in OutboxIds \ {e} : outbox'[f] = outbox[f]

\* A row is PUBLISHED only when its event is on the wire, and every event is
\* handled at most once, with the payload the inbox remembers.
THEOREM EventsAreSentAndHandledOnce == EventsSpec => []SentOnceHandledOnce
<1>1. EventsInit => EventsInv
  BY FinancialEventsAssumption DEF EventsInit, EventsInv, SentOnceHandledOnce, EventIds
<1>2. EventsInv /\ [EventsNext]_eventVars => EventsInv'
  <2> SUFFICES ASSUME EventsInv, [EventsNext]_eventVars PROVE EventsInv'
    OBVIOUS
  <2> USE DEF EventsInv
  <2>1. ASSUME NEW e \in OutboxIds, NEW hash \in Payloads, enqueue_financial_event(e, hash)
        PROVE  EventsInv'
    <3>1. OutboxRow(e, "PENDING", hash)
      BY <2>1 DEF enqueue_financial_event, OutboxRow
    <3>2. outbox' \in [OutboxIds -> [status : {"NONE", "PENDING", "IN_FLIGHT", "PUBLISHED"},
                                     attempts : Nat, payload : Payloads \cup {NoPayload}]]
      BY <2>1 DEF enqueue_financial_event
    <3>3. UNCHANGED <<pending, sentBy, wire, inbox, handled>>
      BY <2>1 DEF enqueue_financial_event
    <3>4. \A p \in Publishers : e \notin pending[p] /\ e \notin sentBy[p]
      BY <2>1 DEF enqueue_financial_event
    <3>5. SentOnceHandledOnce'
      BY <3>1, <3>3 DEF OutboxRow, SentOnceHandledOnce
    <3> QED BY <3>1, <3>2, <3>3, <3>4, <3>5 DEF OutboxRow
  <2>2. ASSUME NEW e \in OutboxIds, release_expired_claims(e)
        PROVE  EventsInv'
    <3>1. OutboxRow(e, "PENDING", outbox[e].payload)
      BY <2>2 DEF release_expired_claims, OutboxRow
    <3> QED BY <2>2, <3>1 DEF release_expired_claims, OutboxRow, SentOnceHandledOnce
  <2>3. ASSUME NEW e \in OutboxIds, NEW p \in Publishers, claim_outbox_batch(p, e)
        PROVE  EventsInv'
    <3>1. OutboxRow(e, "IN_FLIGHT", outbox[e].payload)
      BY <2>3 DEF claim_outbox_batch, OutboxRow, ClaimedStatus
    <3> QED BY <2>3, <3>1 DEF claim_outbox_batch, OutboxRow, SentOnceHandledOnce, ClaimedStatus
  <2>4. ASSUME NEW e \in OutboxIds, NEW p \in Publishers, Send(p, e)
        PROVE  EventsInv'
    BY <2>4 DEF Send, SentOnceHandledOnce
  <2>5. ASSUME NEW e \in OutboxIds, NEW p \in Publishers, mark_outbox_published(p, e)
        PROVE  EventsInv'
    <3>1. CASE outbox[e].status = "IN_FLIGHT"
      <4>1. OutboxRow(e, "PUBLISHED", outbox[e].payload)
        BY <2>5, <3>1 DEF mark_outbox_published, OutboxRow
      <4> QED BY <2>5, <3>1, <4>1 DEF mark_outbox_published, OutboxRow, SentOnceHandledOnce
    <3>2. CASE outbox[e].status # "IN_FLIGHT"
      BY <2>5, <3>2 DEF mark_outbox_published, SentOnceHandledOnce
    <3> QED BY <3>1, <3>2
  <2>6. ASSUME NEW p \in Publishers, PublisherDies(p)
        PROVE  EventsInv'
    BY <2>6 DEF PublisherDies, SentOnceHandledOnce
  <2>7. ASSUME NEW e \in WebhookIds, NEW hash \in Payloads, ProviderSends(e, hash)
        PROVE  EventsInv'
    BY <2>7 DEF ProviderSends, SentOnceHandledOnce
  <2>8. ASSUME NEW e \in EventIds, NEW hash \in Payloads, consume_financial_event(e, hash)
        PROVE  EventsInv'
    <3>1. handled[e] = <<>> /\ hash # NoPayload
      BY <2>8, FinancialEventsAssumption DEF consume_financial_event, IsNew, SentOnceHandledOnce
    <3>2. handled'[e] = <<hash>> /\ inbox'[e] = hash
      BY <2>8, <3>1 DEF consume_financial_event
    <3>3. \A f \in EventIds \ {e} : handled'[f] = handled[f] /\ inbox'[f] = inbox[f]
      BY <2>8 DEF consume_financial_event
    <3> QED BY <2>8, <3>1, <3>2, <3>3 DEF consume_financial_event, SentOnceHandledOnce
  <2>9. ASSUME NEW e \in EventIds, NEW hash \in Payloads, record_dead_letter(e, hash)
        PROVE  EventsInv'
    BY <2>9 DEF record_dead_letter, SentOnceHandledOnce
  <2>10. CASE UNCHANGED eventVars
    BY <2>10 DEF eventVars, SentOnceHandledOnce
  <2> QED BY <2>1, <2>2, <2>3, <2>4, <2>5, <2>6, <2>7, <2>8, <2>9, <2>10 DEF EventsNext
<1>3. EventsInv => SentOnceHandledOnce
  BY DEF EventsInv
<1> QED BY <1>1, <1>2, <1>3, PTL DEF EventsSpec

-----------------------------------------------------------------------------
(* Post-trade exceptions.                                                  *)

TicketRow ==
    [state : LiveStates \cup {"RESOLVED"}, trade : Executions, severity : {"HIGH", "CRITICAL"},
     assigned : Operators \cup {Nobody}, requested : Operators \cup {Nobody},
     approved : Operators \cup {Nobody}]

\* requested_by of a critical case is, at all times, the one who took it first.
TookIt(row, first) == row.severity = "CRITICAL" => row.requested = first

\* A row that exists has all its columns; one that does not was never assigned.
TicketsInv ==
    /\ DOMAIN ticket = Tickets /\ firstTaker \in [Tickets -> Operators \cup {Nobody}]
    /\ \A x \in Tickets : IF ticket[x].state = "NONE" THEN firstTaker[x] = Nobody
                           ELSE ticket[x] \in TicketRow /\ TookIt(ticket[x], firstTaker[x])
    /\ CriticalResolvedByTwo

\* One ticket becomes row and was taken first by first; the others stay.
LEMMA TicketChange ==
    ASSUME TicketsInv, NEW x \in Tickets, NEW row \in TicketRow,
           NEW first \in Operators \cup {Nobody},
           ticket' = [ticket EXCEPT ![x] = row],
           firstTaker' = [firstTaker EXCEPT ![x] = first], TookIt(row, first),
           row.state = "RESOLVED" /\ row.severity = "CRITICAL"
               => row.requested \in Operators \ {row.approved}
    PROVE  TicketsInv'
<1>1. /\ ticket'[x] = row /\ \A y \in Tickets \ {x} : ticket'[y] = ticket[y]
      /\ firstTaker'[x] = first /\ \A y \in Tickets \ {x} : firstTaker'[y] = firstTaker[y]
      /\ DOMAIN ticket' = Tickets /\ firstTaker' \in [Tickets -> Operators \cup {Nobody}]
  BY DEF TicketsInv
<1>2. row.state # "NONE"
  BY DEF TicketRow, LiveStates
<1>3. \A y \in Tickets : IF ticket'[y].state = "NONE" THEN firstTaker'[y] = Nobody
                         ELSE ticket'[y] \in TicketRow /\ TookIt(ticket'[y], firstTaker'[y])
  BY <1>1, <1>2 DEF TicketsInv
<1>4. CriticalResolvedByTwo'
  BY <1>1 DEF TicketsInv, CriticalResolvedByTwo, TookIt
<1> QED BY <1>1, <1>3, <1>4 DEF TicketsInv

\* A critical exception is resolved by a manager who is not the one who took it
\* first, over any number of escalations and assignments.
THEOREM CriticalNeedsTwo == PostTradeSpec => []CriticalResolvedByTwo
<1>1. PostTradeInit => TicketsInv
  BY DEF PostTradeInit, TicketsInv, NoTicket, CriticalResolvedByTwo
<1>2. TicketsInv /\ [PostTradeNext]_postTradeVars => TicketsInv'
  <2> SUFFICES ASSUME TicketsInv, [PostTradeNext]_postTradeVars PROVE TicketsInv'
    OBVIOUS
  <2>1. ASSUME UNCHANGED <<ticket, firstTaker>> PROVE TicketsInv'
    BY <2>1 DEF TicketsInv, CriticalResolvedByTwo
  <2>2. ASSUME NEW x \in Tickets, NEW e \in Executions, NEW severity \in {"HIGH", "CRITICAL"},
               OpenTicket(x, e, severity)
        PROVE  TicketsInv'
    <3> DEFINE row == [state |-> "OPEN", trade |-> e, severity |-> severity,
                       assigned |-> Nobody, requested |-> Nobody, approved |-> Nobody]
    <3>1. row \in TicketRow /\ row.state # "RESOLVED" /\ row.requested = Nobody
      BY DEF TicketRow, LiveStates
    <3>2. ticket' = [ticket EXCEPT ![x] = row] /\ ticket[x].state = "NONE"
      BY <2>2 DEF OpenTicket
    <3> HIDE DEF row
    <3>3. /\ firstTaker' = [firstTaker EXCEPT ![x] = firstTaker[x]] /\ firstTaker[x] = Nobody
          /\ firstTaker[x] \in Operators \cup {Nobody}
      BY <2>2, <3>2 DEF OpenTicket, TicketsInv
    <3>4. TookIt(row, firstTaker[x])
      BY <3>1, <3>3 DEF TookIt
    <3> QED BY <3>1, <3>2, <3>3, <3>4, TicketChange
  <2>3. ASSUME NEW x \in Tickets, NEW u \in Operators, AssignTicket(x, u)
        PROVE  TicketsInv'
    <3> DEFINE row == [ticket[x] EXCEPT !.assigned = u, !.state = "ASSIGNED",
                                        !.requested = Requester(x, u)]
               first == IF firstTaker[x] = Nobody THEN u ELSE firstTaker[x]
    <3>0. ticket[x] \in TicketRow /\ TookIt(ticket[x], firstTaker[x])
      BY <2>3 DEF AssignTicket, TicketsInv
    <3>1. row \in TicketRow /\ row.state # "RESOLVED"
      BY <3>0 DEF TicketRow, LiveStates, Requester
    <3>2. row.severity = ticket[x].severity /\ row.requested = Requester(x, u)
      BY <3>0 DEF TicketRow
    <3>3. ticket' = [ticket EXCEPT ![x] = row]
      BY <2>3 DEF AssignTicket
    <3>4. firstTaker' = [firstTaker EXCEPT ![x] = first] /\ first \in Operators \cup {Nobody}
      BY <2>3 DEF AssignTicket, TicketsInv
    <3>5. TookIt(row, first)
      BY <3>0, <3>2 DEF TookIt, Requester
    <3> HIDE DEF row, first
    <3> QED BY <3>1, <3>3, <3>4, <3>5, TicketChange
  <2>4. ASSUME NEW x \in Tickets, NEW u \in Operators, EscalateTicket(x, u)
        PROVE  TicketsInv'
    <3> DEFINE row == [ticket[x] EXCEPT !.state = "ESCALATED"]
    <3>0. ticket[x] \in TicketRow /\ TookIt(ticket[x], firstTaker[x])
      BY <2>4 DEF EscalateTicket, TicketsInv
    <3>1. row \in TicketRow /\ row.state # "RESOLVED" /\ TookIt(row, firstTaker[x])
      BY <3>0 DEF TicketRow, LiveStates, TookIt
    <3>2. ticket' = [ticket EXCEPT ![x] = row]
      BY <2>4 DEF EscalateTicket
    <3> HIDE DEF row
    <3>3. /\ firstTaker' = [firstTaker EXCEPT ![x] = firstTaker[x]]
          /\ firstTaker[x] \in Operators \cup {Nobody}
      BY <2>4 DEF EscalateTicket, TicketsInv
    <3> QED BY <3>1, <3>2, <3>3, TicketChange
  <2>5. ASSUME NEW x \in Tickets, NEW u \in Operators, ResolveTicket(x, u)
        PROVE  TicketsInv'
    <3> DEFINE row == [ticket[x] EXCEPT !.state = "RESOLVED", !.approved = u]
    <3>0. ticket[x] \in TicketRow /\ MayResolve(x, u) /\ TookIt(ticket[x], firstTaker[x])
      BY <2>5 DEF ResolveTicket, TicketsInv, Live, LiveStates
    <3>1. /\ row \in TicketRow /\ TookIt(row, firstTaker[x])
          /\ row.severity = "CRITICAL" => row.requested \in Operators \ {row.approved}
      BY <3>0 DEF TicketRow, MayResolve, TookIt
    <3>2. ticket' = [ticket EXCEPT ![x] = row]
      BY <2>5 DEF ResolveTicket
    <3> HIDE DEF row
    <3>3. /\ firstTaker' = [firstTaker EXCEPT ![x] = firstTaker[x]]
          /\ firstTaker[x] \in Operators \cup {Nobody}
      BY <2>5 DEF ResolveTicket, TicketsInv
    <3> QED BY <3>1, <3>2, <3>3, TicketChange
  <2>6. CASE \E x \in Tickets : TicketStep(x)
    BY <2>2, <2>3, <2>4, <2>5, <2>6 DEF TicketStep
  <2>7. ASSUME NEW e, NEW a, NEW side, NEW q, NEW p, process_simulated_fill(e, a, side, q, p)
        PROVE  TicketsInv'
    BY <2>1, <2>7 DEF process_simulated_fill
  <2>8. ASSUME NEW c, NEW e, NEW type, NEW u, RequestCorrection(c, e, type, u)
        PROVE  TicketsInv'
    BY <2>1, <2>8 DEF RequestCorrection
  <2>9. ASSUME NEW c, NEW u, ApproveCorrection(c, u)
        PROVE  TicketsInv'
    BY <2>1, <2>9 DEF ApproveCorrection
  <2>10. CASE UNCHANGED postTradeVars
    BY <2>1, <2>10 DEF postTradeVars
  <2> QED BY <2>6, <2>7, <2>8, <2>9, <2>10 DEF PostTradeNext
<1>3. TicketsInv => CriticalResolvedByTwo
  BY DEF TicketsInv
<1> QED BY <1>1, <1>2, <1>3, PTL DEF PostTradeSpec

-----------------------------------------------------------------------------
(* Tax lots.                                                               *)

LotRow == [trade : Executions, account : Accounts, original : Nat,
           remaining : Nat, unit : Nat]

\* The smaller and the larger of two integers.
LEMMA MinMax ==
    ASSUME NEW x \in Int, NEW y \in Int
    PROVE  /\ Min({x, y}) = IF x <= y THEN x ELSE y
           /\ Max({x, y}) = IF x <= y THEN y ELSE x
<1>1. CASE x <= y
  <2>1. Min({x, y}) = x
    <3>1. x \in {x, y} /\ \A z \in {x, y} : x <= z
      BY <1>1
    <3>2. \A m \in {x, y} : (\A z \in {x, y} : m <= z) => m = x
      BY <1>1
    <3> QED BY <3>1, <3>2 DEF Min
  <2>2. Max({x, y}) = y
    <3>1. y \in {x, y} /\ \A z \in {x, y} : y >= z
      BY <1>1
    <3>2. \A m \in {x, y} : (\A z \in {x, y} : m >= z) => m = y
      BY <1>1
    <3> QED BY <3>1, <3>2 DEF Max
  <2> QED BY <1>1, <2>1, <2>2
<1>2. CASE ~(x <= y)
  <2>1. Min({x, y}) = y
    <3>1. y \in {x, y} /\ \A z \in {x, y} : y <= z
      BY <1>2
    <3>2. \A m \in {x, y} : (\A z \in {x, y} : m <= z) => m = y
      BY <1>2
    <3> QED BY <3>1, <3>2 DEF Min
  <2>2. Max({x, y}) = x
    <3>1. x \in {x, y} /\ \A z \in {x, y} : x >= z
      BY <1>2
    <3>2. \A m \in {x, y} : (\A z \in {x, y} : m >= z) => m = x
      BY <1>2
    <3> QED BY <3>1, <3>2 DEF Max
  <2> QED BY <1>2, <2>1, <2>2
<1> QED BY <1>1, <1>2

\* The lots of an account up to lot n.
UpTo(ls, a, n) == {j \in LotsOf(ls, a) : j <= n}

\* The rows of a sequence of lots.
LEMMA LotFacts ==
    ASSUME NEW ls \in Seq(LotRow)
    PROVE  /\ IsFiniteSet(DOMAIN ls) /\ DOMAIN ls \subseteq Nat
           /\ DOMAIN ls = 1 .. Len(ls) /\ Len(ls) \in Nat
           /\ \A i \in DOMAIN ls : ls[i].remaining \in Nat /\ ls[i].unit \in Nat
<1>1. DOMAIN ls = 1 .. Len(ls) /\ Len(ls) \in Nat
  OBVIOUS
<1>2. IsFiniteSet(1 .. Len(ls))
  BY <1>1, FS_Interval
<1>3. \A i \in 1 .. Len(ls) : ls[i] \in LotRow
  OBVIOUS
<1>4. \A i \in 1 .. Len(ls) : ls[i].remaining \in Nat /\ ls[i].unit \in Nat
  BY <1>3 DEF LotRow
<1> QED BY <1>1, <1>2, <1>4

\* The lots of an account and what is left of them.
LEMMA LotValues ==
    ASSUME NEW ls \in Seq(LotRow), NEW a
    PROVE  /\ IsFiniteSet(LotsOf(ls, a)) /\ LotsOf(ls, a) \subseteq Nat
           /\ \A i \in LotsOf(ls, a) : Remaining(ls)[i] = ls[i].remaining /\ ls[i].remaining \in Nat
<1>1. IsFiniteSet(DOMAIN ls) /\ LotsOf(ls, a) \subseteq DOMAIN ls /\ LotsOf(ls, a) \subseteq Nat
  BY LotFacts DEF LotsOf
<1>2. IsFiniteSet(LotsOf(ls, a))
  BY <1>1, FS_Subset
<1>3. \A i \in LotsOf(ls, a) : Remaining(ls)[i] = ls[i].remaining /\ ls[i].remaining \in Nat
  BY LotFacts DEF LotsOf, Remaining
<1> QED BY <1>1, <1>2, <1>3

\* Sums over lots are finite sums of natural numbers.
LEMMA LotSums ==
    ASSUME NEW ls \in Seq(LotRow), NEW a, NEW n
    PROVE  /\ NatPart(Remaining(ls), UpTo(ls, a, n), LotsOf(ls, a))
           /\ NatPart(Remaining(ls), {j \in LotsOf(ls, a) : j < n}, LotsOf(ls, a))
           /\ Open(ls, a) \in Nat /\ Ahead(ls, a, n) \in Nat
           /\ IsFiniteSet(LotsOf(ls, a)) /\ LotsOf(ls, a) \subseteq Nat
           /\ \A i \in LotsOf(ls, a) : Remaining(ls)[i] = ls[i].remaining /\ ls[i].remaining \in Nat
<1>1. /\ IsFiniteSet(LotsOf(ls, a)) /\ LotsOf(ls, a) \subseteq Nat
      /\ \A i \in LotsOf(ls, a) : Remaining(ls)[i] = ls[i].remaining /\ ls[i].remaining \in Nat
  BY LotValues
<1>4. /\ NatPart(Remaining(ls), UpTo(ls, a, n), LotsOf(ls, a))
      /\ NatPart(Remaining(ls), {j \in LotsOf(ls, a) : j < n}, LotsOf(ls, a))
      /\ NatPart(Remaining(ls), LotsOf(ls, a), LotsOf(ls, a))
  BY <1>1 DEF NatPart, UpTo
<1>5. Open(ls, a) \in Nat
  BY <1>4, SumPart DEF Open
<1>6. Ahead(ls, a, n) \in Nat
  BY <1>4, SumPart DEF Ahead
<1> QED BY <1>1, <1>4, <1>5, <1>6

\* What is taken of r units when rest are still wanted.
TakeUpTo(rest, r) == IF rest <= 0 THEN 0 ELSE IF rest <= r THEN rest ELSE r

\* What a sale takes from a lot, without Min and Max.
LEMMA TakenValue ==
    ASSUME NEW ls \in Seq(LotRow), NEW a, NEW q \in Nat, NEW i \in LotsOf(ls, a)
    PROVE  Taken(ls, a, q, i) = TakeUpTo(q - Ahead(ls, a, i), ls[i].remaining)
<1> DEFINE rest == q - Ahead(ls, a, i)
           r == ls[i].remaining
<1>0. ls[i].account = a
  BY DEF LotsOf
<1>1. rest \in Int /\ r \in Nat
  <2>1. Ahead(ls, a, i) \in Nat
    BY LotSums
  <2>2. ls[i].remaining \in Nat
    BY LotSums
  <2> QED BY <2>1, <2>2
<1>2. Taken(ls, a, q, i) = Max({0, Min({rest, r})})
  BY <1>0 DEF Taken
<1> HIDE DEF rest, r
<1>3. Min({rest, r}) = IF rest <= r THEN rest ELSE r
  BY <1>1, MinMax
<1> DEFINE m == Min({rest, r})
<1>4. m \in Int /\ m = IF rest <= r THEN rest ELSE r
  BY <1>1, <1>3
<1>7. Taken(ls, a, q, i) = Max({0, m})
  BY <1>2
<1> HIDE DEF m
<1>8. Max({0, m}) = IF 0 <= m THEN m ELSE 0
  <2>1. ASSUME NEW z \in Int, z = 0
        PROVE  Max({z, m}) = IF z <= m THEN m ELSE z
    BY <1>4, MinMax
  <2> QED BY <2>1
<1>9. Taken(ls, a, q, i) = TakeUpTo(rest, r)
  BY <1>1, <1>4, <1>7, <1>8 DEF TakeUpTo
<1> QED BY <1>9 DEF rest, r

\* dispose_fifo as a function on the lots.
TakenOf(ls, a, q) == [i \in DOMAIN ls |-> Taken(ls, a, q, i)]

\* A sale takes from no lot more than it has, nothing from another account's, and
\* from a later lot only when the earlier ones are used up.
LEMMA TakenBounds ==
    ASSUME NEW ls \in Seq(LotRow), NEW a, NEW q \in Nat
    PROVE  /\ \A i \in DOMAIN ls : /\ TakenOf(ls, a, q)[i] \in Nat
                                   /\ TakenOf(ls, a, q)[i] <= ls[i].remaining
                                   /\ ls[i].account # a => TakenOf(ls, a, q)[i] = 0
           /\ \A i, j \in LotsOf(ls, a) : i < j /\ TakenOf(ls, a, q)[j] > 0
                 => TakenOf(ls, a, q)[i] = ls[i].remaining
<1>1. ASSUME NEW i \in DOMAIN ls, ls[i].account # a
      PROVE  TakenOf(ls, a, q)[i] = 0
  BY <1>1 DEF TakenOf, Taken
<1>2. ASSUME NEW i \in LotsOf(ls, a)
      PROVE  /\ i \in DOMAIN ls /\ i \in Nat /\ TakenOf(ls, a, q)[i] = Taken(ls, a, q, i)
             /\ ls[i].remaining \in Nat /\ Ahead(ls, a, i) \in Nat
  BY LotSums DEF LotsOf, TakenOf
<1>3. ASSUME NEW i \in LotsOf(ls, a)
      PROVE  TakenOf(ls, a, q)[i] \in Nat /\ TakenOf(ls, a, q)[i] <= ls[i].remaining
  BY <1>2, TakenValue DEF TakeUpTo
<1>4. ASSUME NEW i \in DOMAIN ls
      PROVE  TakenOf(ls, a, q)[i] \in Nat /\ TakenOf(ls, a, q)[i] <= ls[i].remaining
  <2>1. ls[i].remaining \in Nat
    BY LotFacts
  <2>2. i \in LotsOf(ls, a) \/ ls[i].account # a
    BY DEF LotsOf
  <2> QED BY <1>1, <1>3, <2>1, <2>2
<1>5. ASSUME NEW i \in LotsOf(ls, a), NEW j \in LotsOf(ls, a), i < j, TakenOf(ls, a, q)[j] > 0
      PROVE  TakenOf(ls, a, q)[i] = ls[i].remaining
  <2>1. Ahead(ls, a, i) + ls[i].remaining <= Ahead(ls, a, j)
    <3> DEFINE S == {l \in LotsOf(ls, a) : l < i}
               T == {l \in LotsOf(ls, a) : l < j}
    <3>1. /\ IsFiniteSet(S) /\ i \notin S /\ S \cup {i} \subseteq T /\ IsFiniteSet(T)
          /\ \A k \in T : Remaining(ls)[k] \in Nat
          /\ \A k \in S \cup {i} : Remaining(ls)[k] \in Int
      <4>1. \A l \in LotsOf(ls, a) : l \in Nat
        BY <1>2
      <4>2. S \in SUBSET LotsOf(ls, a) /\ T \in SUBSET LotsOf(ls, a) /\ IsFiniteSet(LotsOf(ls, a))
        BY LotSums DEF NatPart
      <4>3. IsFiniteSet(S) /\ IsFiniteSet(T)
        BY <4>2, FS_Subset
      <4>4. i \notin S /\ S \cup {i} \subseteq T
        BY <1>5, <4>1
      <4>5. \A l \in LotsOf(ls, a) : Remaining(ls)[l] \in Nat
        BY LotSums
      <4> QED BY <4>3, <4>4, <4>5
    <3>2. Ahead(ls, a, i) = SumFunctionOnSet(Remaining(ls), S)
          /\ Ahead(ls, a, j) = SumFunctionOnSet(Remaining(ls), T)
      BY DEF Ahead
    <3>3. Remaining(ls)[i] = ls[i].remaining
      BY LotSums
    <3> HIDE DEF S, T
    <3>4. SumFunctionOnSet(Remaining(ls), S \cup {i}) = SumFunctionOnSet(Remaining(ls), S) + Remaining(ls)[i]
      BY <3>1, SumAdd
    <3>5. NatPart(Remaining(ls), S \cup {i}, T)
      BY <3>1 DEF NatPart
    <3>6. SumFunctionOnSet(Remaining(ls), S \cup {i}) <= SumFunctionOnSet(Remaining(ls), T)
      BY <3>5, SumPart
    <3> QED BY <3>2, <3>3, <3>4, <3>6
  <2>2. q - Ahead(ls, a, j) > 0
    <3>1. TakenOf(ls, a, q)[j] = TakeUpTo(q - Ahead(ls, a, j), ls[j].remaining)
      BY <1>2, TakenValue
    <3>2. q - Ahead(ls, a, j) \in Int /\ ls[j].remaining \in Nat
      BY <1>2
    <3>3. \A x \in Int, r \in Nat : TakeUpTo(x, r) > 0 => x > 0
      BY DEF TakeUpTo
    <3> QED BY <1>5, <3>1, <3>2, <3>3
  <2>3. TakenOf(ls, a, q)[i] = TakeUpTo(q - Ahead(ls, a, i), ls[i].remaining)
    BY <1>2, TakenValue
  <2> QED BY <1>2, <2>1, <2>2, <2>3 DEF TakeUpTo
<1> QED BY <1>1, <1>4, <1>5

\* What a sale of q units takes from the lots up to n: q, or all they have.
LEMMA TakenUpTo ==
    ASSUME NEW ls \in Seq(LotRow), NEW a, NEW q \in Nat, NEW n \in Nat
    PROVE  SumFunctionOnSet(TakenOf(ls, a, q), UpTo(ls, a, n))
               = LET have == SumFunctionOnSet(Remaining(ls), UpTo(ls, a, n))
                 IN  IF q <= have THEN q ELSE have
<1> DEFINE T == TakenOf(ls, a, q)
           R == Remaining(ls)
           have(m) == SumFunctionOnSet(R, UpTo(ls, a, m))
           took(m) == SumFunctionOnSet(T, UpTo(ls, a, m))
           P == {m \in Nat : took(m) = IF q <= have(m) THEN q ELSE have(m)}
<1>0. \A j \in LotsOf(ls, a) : j \in Nat
  BY LotFacts DEF LotsOf
<1>1. \A m : have(m) \in Nat
  BY LotSums, SumPart
<1>2. 0 \in P
  <2>1. UpTo(ls, a, 0) = {}
    <3>1. \A j \in LotsOf(ls, a) : j \in Nat /\ j # 0
      BY LotFacts DEF LotsOf
    <3> QED BY <3>1 DEF UpTo
  <2>2. took(0) = 0 /\ have(0) = 0
    BY <2>1, SumEmpty
  <2> QED BY <2>2
<1>3. ASSUME NEW m \in P
      PROVE  m + 1 \in P
  <2>1. m \in Nat /\ took(m) = IF q <= have(m) THEN q ELSE have(m)
    OBVIOUS
  <2>2. CASE m + 1 \notin LotsOf(ls, a)
    <3>1. UpTo(ls, a, m + 1) = UpTo(ls, a, m)
      BY <1>0, <2>1, <2>2 DEF UpTo
    <3> QED BY <2>1, <3>1
  <2>3. CASE m + 1 \in LotsOf(ls, a)
    <3> DEFINE U == UpTo(ls, a, m)
               k == m + 1
    <3>1. /\ UpTo(ls, a, k) = U \cup {k} /\ k \notin U /\ k \in LotsOf(ls, a)
          /\ U \subseteq LotsOf(ls, a)
      BY <1>0, <2>1, <2>3 DEF UpTo
    <3>2. Ahead(ls, a, k) = have(m)
      <4>1. {j \in LotsOf(ls, a) : j < k} = U
        BY <1>0, <2>1 DEF UpTo
      <4> QED BY <4>1 DEF Ahead
    <3>3. IsFiniteSet(U) /\ IsFiniteSet(LotsOf(ls, a))
      BY <3>1, LotSums, FS_Subset
    <3>4. \A j \in LotsOf(ls, a) : T[j] \in Int /\ R[j] \in Int
      <4>1. \A j \in LotsOf(ls, a) : j \in DOMAIN ls
        BY DEF LotsOf
      <4>2. \A j \in DOMAIN ls : T[j] \in Nat
        BY TakenBounds
      <4>3. \A j \in LotsOf(ls, a) : R[j] \in Nat
        BY LotSums
      <4> QED BY <4>1, <4>2, <4>3
    <3>5. /\ T[k] = TakeUpTo(q - Ahead(ls, a, k), ls[k].remaining)
          /\ R[k] = ls[k].remaining /\ ls[k].remaining \in Nat
      BY <3>1, TakenValue, LotSums DEF TakenOf, LotsOf
    <3> HIDE DEF U, k, T, R
    <3>6. SumFunctionOnSet(T, U \cup {k}) = SumFunctionOnSet(T, U) + T[k]
      BY <3>1, <3>3, <3>4, SumAdd
    <3>7. SumFunctionOnSet(R, U \cup {k}) = SumFunctionOnSet(R, U) + R[k]
      BY <3>1, <3>3, <3>4, SumAdd
    <3>8. took(k) = took(m) + T[k] /\ have(k) = have(m) + R[k]
      BY <3>1, <3>6, <3>7 DEF U
    <3> HIDE DEF took, have
    <3>9. took(k) = IF q <= have(k) THEN q ELSE have(k)
      BY <1>1, <2>1, <3>2, <3>5, <3>8 DEF TakeUpTo
    <3> QED BY <2>1, <3>9 DEF k
  <2> QED BY <2>2, <2>3
<1> HIDE DEF P
<1>4. n \in P
  BY <1>2, <1>3, NatSetInduction
<1> QED BY <1>4 DEF P

\* A sale that the open lots cover takes all of it from them.
LEMMA TakenIsSold ==
    ASSUME NEW ls \in Seq(LotRow), NEW a, NEW q \in Nat, Open(ls, a) >= q
    PROVE  SumFunctionOnSet(TakenOf(ls, a, q), LotsOf(ls, a)) = q
<1>1. Len(ls) \in Nat /\ UpTo(ls, a, Len(ls)) = LotsOf(ls, a)
  BY LotFacts DEF UpTo, LotsOf
<1>2. SumFunctionOnSet(Remaining(ls), UpTo(ls, a, Len(ls))) = Open(ls, a) /\ Open(ls, a) \in Nat
  BY <1>1, LotSums DEF Open
<1> QED BY <1>1, <1>2, TakenUpTo

-----------------------------------------------------------------------------
(* The books after a purchase and after a sale.                            *)

\* The cost of an account's open lots.
Gross(ls, a) == SumFunctionOnSet(Cost(ls), LotsOf(ls, a))

\* The lots after a sale of q units.
SoldLots(ls, a, q) ==
    [i \in DOMAIN ls |-> [ls[i] EXCEPT !.remaining = @ - TakenOf(ls, a, q)[i]]]

\* The cost of what a sale takes from each lot.
TakenCost(ls, a, q) == [i \in DOMAIN ls |-> TakenOf(ls, a, q)[i] * ls[i].unit]

\* The costs of an account's lots, as a finite sum.
LEMMA CostSums ==
    ASSUME NEW ls \in Seq(LotRow), NEW a
    PROVE  /\ IsFiniteSet(LotsOf(ls, a)) /\ LotsOf(ls, a) \subseteq DOMAIN ls
           /\ \A i \in LotsOf(ls, a) : Cost(ls)[i] = ls[i].remaining * ls[i].unit /\ Cost(ls)[i] \in Nat
           /\ Gross(ls, a) \in Nat
<1>1. IsFiniteSet(LotsOf(ls, a)) /\ LotsOf(ls, a) \subseteq DOMAIN ls
  BY LotSums DEF LotsOf
<1>2. \A i \in LotsOf(ls, a) : /\ Cost(ls)[i] = ls[i].remaining * ls[i].unit
                               /\ ls[i].remaining \in Nat /\ ls[i].unit \in Nat
  BY <1>1, LotFacts DEF Cost
<1>3. \A m, n \in Nat : m * n \in Nat
  OBVIOUS
<1>4. \A i \in LotsOf(ls, a) : Cost(ls)[i] \in Nat
  BY <1>2, <1>3
<1>5. Gross(ls, a) \in Nat
  BY <1>1, <1>4, SumNat DEF Gross
<1> QED BY <1>1, <1>2, <1>4, <1>5

\* A purchase adds one lot, to its own account.
LEMMA BoughtLots ==
    ASSUME NEW ls \in Seq(LotRow), NEW row \in LotRow, NEW b
    PROVE  LET new == Append(ls, row)
           IN  /\ new \in Seq(LotRow)
               /\ Open(new, b) = Open(ls, b) + (IF b = row.account THEN row.remaining ELSE 0)
               /\ Gross(new, b) = Gross(ls, b)
                      + (IF b = row.account THEN row.remaining * row.unit ELSE 0)
<1> DEFINE new == Append(ls, row)
           k == Len(ls) + 1
<1>1. /\ new \in Seq(LotRow) /\ Len(new) = k /\ Len(ls) \in Nat
      /\ DOMAIN ls = 1 .. Len(ls) /\ DOMAIN new = 1 .. k
      /\ \A i \in 1 .. Len(ls) : new[i] = ls[i]
      /\ new[k] = row
  OBVIOUS
<1>2. /\ k \notin DOMAIN ls /\ DOMAIN new = DOMAIN ls \cup {k}
      /\ \A i \in DOMAIN ls : new[i] = ls[i]
  BY <1>1
<1>3. row.remaining \in Nat /\ row.unit \in Nat
  BY DEF LotRow
<1> HIDE DEF new, k
<1>4. /\ k \notin LotsOf(ls, b) /\ LotsOf(ls, b) \ {k} = LotsOf(new, b) \ {k}
      /\ k \in LotsOf(new, b) <=> b = row.account
      /\ \A i \in LotsOf(ls, b) : new[i] = ls[i] /\ i \in DOMAIN ls /\ i \in DOMAIN new
  BY <1>1, <1>2 DEF LotsOf
<1>5. DifferAt(k, Remaining(ls), LotsOf(ls, b), Remaining(new), LotsOf(new, b))
  <2>1. \A i \in LotsOf(ls, b) : Remaining(ls)[i] \in Int
    BY LotValues
  <2>2. \A i \in LotsOf(new, b) : Remaining(new)[i] \in Int
    BY <1>1, LotValues
  <2>3. \A i \in LotsOf(ls, b) : Remaining(new)[i] = Remaining(ls)[i]
    BY <1>4 DEF Remaining
  <2>4. IsFiniteSet(LotsOf(ls, b))
    BY LotValues
  <2> QED BY <1>4, <2>1, <2>2, <2>3, <2>4 DEF DifferAt
<1>6. DifferAt(k, Cost(ls), LotsOf(ls, b), Cost(new), LotsOf(new, b))
  <2>1. \A i \in LotsOf(ls, b) : Cost(ls)[i] \in Int
    BY CostSums
  <2>2. \A i \in LotsOf(new, b) : Cost(new)[i] \in Int
    BY <1>1, CostSums
  <2>3. \A i \in LotsOf(ls, b) : Cost(new)[i] = Cost(ls)[i]
    BY <1>4 DEF Cost
  <2>4. IsFiniteSet(LotsOf(ls, b))
    BY LotValues
  <2> QED BY <1>4, <2>1, <2>2, <2>3, <2>4 DEF DifferAt
<1>7. Remaining(new)[k] = row.remaining /\ Cost(new)[k] = row.remaining * row.unit
  BY <1>1, <1>2 DEF Remaining, Cost
<1>8. row.remaining * row.unit \in Int
  BY <1>3
<1>9. Open(new, b) = Open(ls, b) + (IF b = row.account THEN row.remaining ELSE 0)
  BY <1>3, <1>4, <1>5, <1>7, SumStep DEF Open
<1>10. Gross(new, b) = Gross(ls, b) + (IF b = row.account THEN row.remaining * row.unit ELSE 0)
  BY <1>4, <1>6, <1>7, <1>8, SumStep DEF Gross
<1> QED BY <1>1, <1>9, <1>10 DEF new

\* A sale that the lots cover keeps every lot's account and makes the position
\* smaller by what is sold and the cost by the cost of what was taken; the lots
\* of the other accounts stay as they are.
LEMMA SoldLotsFacts ==
    ASSUME NEW ls \in Seq(LotRow), NEW a, NEW q \in Nat, Open(ls, a) >= q
    PROVE  LET new == SoldLots(ls, a, q)
           IN  /\ new \in Seq(LotRow) /\ DOMAIN new = DOMAIN ls
               /\ \A i \in DOMAIN ls : /\ new[i].account = ls[i].account
                                       /\ new[i].original = ls[i].original
                                       /\ new[i].remaining = ls[i].remaining - TakenOf(ls, a, q)[i]
               /\ \A b : LotsOf(new, b) = LotsOf(ls, b)
               /\ Open(new, a) = Open(ls, a) - q
               /\ Gross(new, a) = Gross(ls, a) - SumFunctionOnSet(TakenCost(ls, a, q), LotsOf(ls, a))
               /\ SumFunctionOnSet(TakenCost(ls, a, q), LotsOf(ls, a)) \in Int
               /\ \A b : b # a => Open(new, b) = Open(ls, b) /\ Gross(new, b) = Gross(ls, b)
<1> DEFINE new == SoldLots(ls, a, q)
           T == TakenOf(ls, a, q)
           C == TakenCost(ls, a, q)
<1>1. \A i \in DOMAIN ls : T[i] \in Nat /\ T[i] <= ls[i].remaining /\ (ls[i].account # a => T[i] = 0)
  BY TakenBounds
<1>2. \A i \in DOMAIN ls : ls[i] \in LotRow
  OBVIOUS
<1>3. \A i \in DOMAIN ls : ls[i].remaining \in Nat /\ ls[i].unit \in Nat
  BY LotFacts
<1>4. DOMAIN new = DOMAIN ls
      /\ \A i \in DOMAIN ls : new[i] = [ls[i] EXCEPT !.remaining = @ - T[i]]
  BY DEF SoldLots
<1> HIDE DEF T, new
<1>5. \A i \in DOMAIN ls : /\ new[i].account = ls[i].account /\ new[i].original = ls[i].original
                           /\ new[i].remaining = ls[i].remaining - T[i] /\ new[i].unit = ls[i].unit
                           /\ new[i] \in LotRow
  <2> TAKE i \in DOMAIN ls
  <2>1. /\ ls[i] \in LotRow /\ ls[i].remaining \in Nat /\ T[i] \in Nat /\ T[i] <= ls[i].remaining
        /\ new[i] = [ls[i] EXCEPT !.remaining = ls[i].remaining - T[i]]
    BY <1>1, <1>2, <1>3, <1>4
  <2>2. ls[i].remaining - T[i] \in Nat
    BY <2>1
  <2> QED BY <2>1, <2>2 DEF LotRow
<1>6. new \in Seq(LotRow)
  <2>1. DOMAIN ls = 1 .. Len(ls) /\ Len(ls) \in Nat
    BY LotFacts
  <2>2. new \in [1 .. Len(ls) -> LotRow]
    <3>1. new = [i \in DOMAIN ls |-> [ls[i] EXCEPT !.remaining = @ - T[i]]]
      BY DEF new, T, SoldLots
    <3> QED BY <1>4, <1>5, <2>1, <3>1
  <2> QED BY <2>1, <2>2, SeqDef
<1>7. \A b : LotsOf(new, b) = LotsOf(ls, b) /\ LotsOf(ls, b) \subseteq DOMAIN ls
  BY <1>4, <1>5 DEF LotsOf
<1>8. \A b : IsFiniteSet(LotsOf(ls, b)) /\ \A i \in LotsOf(ls, b) : ls[i].account = b
  BY LotValues DEF LotsOf
<1>9. ASSUME NEW b
      PROVE  IsSumOn(Remaining(ls), Remaining(new), T, LotsOf(ls, b))
  <2>1. \A i \in DOMAIN ls : /\ Remaining(ls)[i] = ls[i].remaining
                             /\ Remaining(new)[i] = ls[i].remaining - T[i]
    BY <1>4, <1>5 DEF Remaining
  <2>2. \A i \in DOMAIN ls : /\ Remaining(new)[i] \in Int /\ T[i] \in Int
                             /\ Remaining(ls)[i] = Remaining(new)[i] + T[i]
    BY <1>1, <1>3, <2>1
  <2> QED BY <1>7, <1>8, <2>2 DEF IsSumOn
<1>10. ASSUME NEW b
       PROVE  IsSumOn(Cost(ls), Cost(new), C, LotsOf(ls, b))
  <2>1. \A i \in DOMAIN ls : /\ Cost(ls)[i] = ls[i].remaining * ls[i].unit
                             /\ Cost(new)[i] = (ls[i].remaining - T[i]) * ls[i].unit
                             /\ C[i] = T[i] * ls[i].unit
    BY <1>4, <1>5 DEF Cost, TakenCost, T
  <2>2. \A r, t, u \in Int : r * u = (r - t) * u + t * u /\ (r - t) * u \in Int /\ t * u \in Int
    OBVIOUS
  <2>3. \A i \in DOMAIN ls : /\ Cost(new)[i] \in Int /\ C[i] \in Int
                             /\ Cost(ls)[i] = Cost(new)[i] + C[i]
    <3> TAKE i \in DOMAIN ls
    <3> DEFINE r == ls[i].remaining
               t == T[i]
               u == ls[i].unit
    <3>1. r \in Int /\ t \in Int /\ u \in Int
      BY <1>1, <1>3
    <3>2. Cost(ls)[i] = r * u /\ Cost(new)[i] = (r - t) * u /\ C[i] = t * u
      BY <2>1
    <3> HIDE DEF r, t, u, C
    <3> QED BY <2>2, <3>1, <3>2
  <2> HIDE DEF C
  <2> QED BY <1>7, <1>8, <2>3 DEF IsSumOn
<1>11. \A i \in DOMAIN ls : ls[i].account # a => C[i] = 0
  <2>1. \A u \in Int : 0 * u = 0
    OBVIOUS
  <2>2. \A i \in DOMAIN ls : C[i] = T[i] * ls[i].unit
    BY DEF TakenCost, T
  <2>3. \A i \in DOMAIN ls : ls[i].unit \in Int /\ (ls[i].account # a => T[i] = 0)
    BY <1>1, <1>3
  <2> HIDE DEF C, T
  <2> QED BY <2>1, <2>2, <2>3
<1> HIDE DEF C
<1>12. SumFunctionOnSet(T, LotsOf(ls, a)) = q
  BY TakenIsSold DEF T
<1>13. /\ Open(new, a) = Open(ls, a) - q
       /\ Gross(new, a) = Gross(ls, a) - SumFunctionOnSet(C, LotsOf(ls, a))
       /\ SumFunctionOnSet(C, LotsOf(ls, a)) \in Int
  <2>1. /\ Open(ls, a) = SumFunctionOnSet(Remaining(ls), LotsOf(ls, a))
        /\ Open(new, a) = SumFunctionOnSet(Remaining(new), LotsOf(ls, a))
        /\ Gross(ls, a) = SumFunctionOnSet(Cost(ls), LotsOf(ls, a))
        /\ Gross(new, a) = SumFunctionOnSet(Cost(new), LotsOf(ls, a))
    BY <1>7 DEF Open, Gross
  <2>2. /\ Open(ls, a) = Open(new, a) + q /\ Open(new, a) \in Int
    BY <1>9, <1>12, <2>1, SumOfSums
  <2>3. /\ Gross(ls, a) = Gross(new, a) + SumFunctionOnSet(C, LotsOf(ls, a))
        /\ Gross(new, a) \in Int /\ SumFunctionOnSet(C, LotsOf(ls, a)) \in Int
    BY <1>10, <2>1, SumOfSums
  <2> QED BY <2>2, <2>3
<1>14. ASSUME NEW b, b # a
       PROVE  Open(new, b) = Open(ls, b) /\ Gross(new, b) = Gross(ls, b)
  <2>1. /\ Open(ls, b) = SumFunctionOnSet(Remaining(ls), LotsOf(ls, b))
        /\ Open(new, b) = SumFunctionOnSet(Remaining(new), LotsOf(ls, b))
        /\ Gross(ls, b) = SumFunctionOnSet(Cost(ls), LotsOf(ls, b))
        /\ Gross(new, b) = SumFunctionOnSet(Cost(new), LotsOf(ls, b))
    BY <1>7 DEF Open, Gross
  <2>2. \A i \in LotsOf(ls, b) : T[i] = 0 /\ C[i] = 0
    BY <1>1, <1>7, <1>8, <1>11, <1>14
  <2>3. SumFunctionOnSet(T, LotsOf(ls, b)) = 0
    BY <1>8, <2>2, SumZero
  <2>4. SumFunctionOnSet(C, LotsOf(ls, b)) = 0
    BY <1>8, <2>2, SumZero
  <2>5. Open(ls, b) = Open(new, b) + 0 /\ Open(new, b) \in Int
    BY <1>9, <2>1, <2>3, SumOfSums
  <2>6. Gross(ls, b) = Gross(new, b) + 0 /\ Gross(new, b) \in Int
    BY <1>10, <2>1, <2>4, SumOfSums
  <2> QED BY <2>5, <2>6
<1> QED BY <1>4, <1>5, <1>6, <1>7, <1>13, <1>14 DEF new, T, C

\* A row of the canonical trade, its settlement instruction with it.
TradeRowOK(t) ==
    /\ t.account \in Accounts /\ t.side \in {"BUY", "SELL"}
    /\ t.quantity \in Quantities /\ t.price \in Prices
    /\ t.instruction = Instruction(t.side, t.quantity, t.price)

RowsOK ==
    /\ DOMAIN trade = Executions /\ IsFiniteSet(Captured)
    /\ \A e \in Captured : TradeRowOK(trade[e])
    /\ lots \in Seq(LotRow)
    /\ holding \in [Accounts -> Int] /\ cash \in [Accounts -> Int]
    /\ realized \in [Executions -> Int]
    /\ DOMAIN costBasis = Accounts
    /\ \A a \in Accounts : costBasis[a] = Calculated(lots, a)
    /\ \A c \in Corrections : correction[c].status = "PENDING"
          => correction[c].trade \in Captured /\ correction[c].type \in EffectTypes

EffectsOK ==
    IsFiniteSet(effects) /\ \A f \in effects : f.trade \in Captured /\ f.quantity \in Int

DisposalsOK ==
    /\ IsFiniteSet(disposals)
    /\ \A d \in disposals : d.lot \in DOMAIN lots /\ d.trade \in Captured /\ d.quantity \in Int

TradeEffects(a) == {f \in effects : f.type = "TRADE" /\ trade[f.trade].account = a}
CashOf(a) == [e \in TradesOf(a) |-> InstructedCash(e)]

\* The agreement of the books as far as fills write them: corrections left out.
FillsAgree ==
    \A a \in Accounts :
        /\ Open(lots, a) = holding[a] /\ costBasis[a].quantity = holding[a]
        /\ holding[a] = SumQuantities(TradeEffects(a))
        /\ cash[a] = SumFunctionOnSet(CashOf(a), TradesOf(a))

BooksInv == RowsOK /\ EffectsOK /\ DisposalsOK /\ FillsAgree /\ FifoExplainsPnL

\* The rows that a sale of q units adds to the dispositions.
UsedLots(ls, a, q) == {i \in DOMAIN ls : TakenOf(ls, a, q)[i] > 0}
Disposed(ls, e, a, q) ==
    {[lot |-> i, trade |-> e, quantity |-> TakenOf(ls, a, q)[i],
      basis |-> TakenOf(ls, a, q)[i] * ls[i].unit] : i \in UsedLots(ls, a, q)}

\* The cost basis of a sale, summed over the lots it uses, is what the account's
\* lots cost less afterwards.
LEMMA BasisIsCost ==
    ASSUME NEW ls \in Seq(LotRow), NEW a, NEW q \in Nat, Open(ls, a) >= q
    PROVE  SumFunctionOnSet(TakenCost(ls, a, q), UsedLots(ls, a, q))
               = Gross(ls, a) - Gross(SoldLots(ls, a, q), a)
<1> DEFINE T == TakenOf(ls, a, q)
           C == TakenCost(ls, a, q)
<1>1. \A i \in DOMAIN ls : /\ T[i] \in Nat /\ (ls[i].account # a => T[i] = 0)
                           /\ ls[i].unit \in Nat /\ C[i] = T[i] * ls[i].unit
  BY TakenBounds, LotFacts DEF TakenCost
<1>2. \A t, u \in Nat : t * u \in Int /\ (t = 0 => t * u = 0)
  OBVIOUS
<1> HIDE DEF T, C
<1>3. \A i \in DOMAIN ls : C[i] \in Int /\ (T[i] = 0 => C[i] = 0)
  BY <1>1, <1>2
<1>4. LotsOf(ls, a) \subseteq DOMAIN ls /\ IsFiniteSet(LotsOf(ls, a))
  BY LotValues DEF LotsOf
<1>5. UsedLots(ls, a, q) \subseteq LotsOf(ls, a)
  BY <1>1 DEF UsedLots, LotsOf, T
<1>6. \A i \in LotsOf(ls, a) \ UsedLots(ls, a, q) : C[i] = 0
  BY <1>1, <1>3, <1>4 DEF UsedLots, T
<1>7. ZeroOutside(C, UsedLots(ls, a, q), LotsOf(ls, a))
  BY <1>3, <1>4, <1>5, <1>6 DEF ZeroOutside
<1>8. SumFunctionOnSet(C, UsedLots(ls, a, q)) = SumFunctionOnSet(C, LotsOf(ls, a))
  BY <1>7, SumSupport
<1>9. /\ Gross(SoldLots(ls, a, q), a) = Gross(ls, a) - SumFunctionOnSet(C, LotsOf(ls, a))
      /\ SumFunctionOnSet(C, LotsOf(ls, a)) \in Int
  BY SoldLotsFacts DEF C
<1>10. Gross(ls, a) \in Nat
  BY CostSums
<1> QED BY <1>8, <1>9, <1>10 DEF C

\* What a fill does to the lots, the dispositions and the realized P&L.
LEMMA FillLots ==
    ASSUME RowsOK, NEW e \in Executions, NEW a \in Accounts, NEW side \in {"BUY", "SELL"},
           NEW q \in Quantities, NEW p \in Prices, process_simulated_fill(e, a, side, q, p)
    PROVE  /\ lots' \in Seq(LotRow)
           /\ Open(lots', a) = Open(lots, a) + Signed(side, q)
           /\ \A b : b # a => Open(lots', b) = Open(lots, b) /\ Gross(lots', b) = Gross(lots, b)
           /\ side = "BUY" =>
                 /\ \E row \in LotRow : /\ lots' = Append(lots, row)
                                        /\ row.account = a /\ row.original = row.remaining
                 /\ Gross(lots', a) = Gross(lots, a) + q * p + q * UnitFee
                 /\ disposals' = disposals /\ realized' = realized
           /\ side = "SELL" =>
                 /\ Open(lots, a) >= q /\ lots' = SoldLots(lots, a, q)
                 /\ disposals' = disposals \cup Disposed(lots, e, a, q)
                 /\ realized' = [realized EXCEPT ![e] =
                        q * p - (Gross(lots, a) - Gross(lots', a)) - q * UnitFee]
<1>1. lots \in Seq(LotRow) /\ q \in Nat /\ p \in Nat /\ UnitFee \in Nat
  BY PostTradeAssumption DEF RowsOK
<1>2. process_trade_accounting(e, a, side, q, p)
  BY DEF process_simulated_fill
<1>3. CASE side = "BUY"
  <2> DEFINE row == [trade |-> e, account |-> a, original |-> q, remaining |-> q, unit |-> p + UnitFee]
  <2>1. lots' = Append(lots, row) /\ disposals' = disposals /\ realized' = realized
    BY <1>2, <1>3 DEF process_trade_accounting, open_for_trade
  <2>2. /\ row \in LotRow /\ row.account = a /\ row.original = row.remaining
        /\ row.remaining = q /\ row.unit = p + UnitFee
    BY <1>1 DEF LotRow
  <2> HIDE DEF row
  <2>3. /\ lots' \in Seq(LotRow)
        /\ \A b : /\ Open(lots', b) = Open(lots, b) + (IF b = a THEN q ELSE 0)
                  /\ Gross(lots', b) = Gross(lots, b) + (IF b = a THEN q * (p + UnitFee) ELSE 0)
    BY <1>1, <2>1, <2>2, BoughtLots
  <2>4. \A b : Open(lots, b) \in Nat /\ Gross(lots, b) \in Nat
    <3>1. ASSUME NEW b PROVE Gross(lots, b) \in Nat
      BY <1>1, CostSums
    <3>2. ASSUME NEW b PROVE Open(lots, b) \in Nat
      <4>1. \A n : Open(lots, b) \in Nat
        BY <1>1, LotSums
      <4> QED BY <4>1
    <3> QED BY <3>1, <3>2
  <2>5. q * (p + UnitFee) = q * p + q * UnitFee /\ q * p \in Int /\ q * UnitFee \in Int
    BY <1>1
  <2>6. Signed(side, q) = q
    BY <1>3 DEF Signed
  <2>7. Open(lots', a) = Open(lots, a) + Signed(side, q)
    BY <2>3, <2>6
  <2>8. \A b : b # a => Open(lots', b) = Open(lots, b) /\ Gross(lots', b) = Gross(lots, b)
    BY <2>3, <2>4
  <2>9. Gross(lots', a) = Gross(lots, a) + q * p + q * UnitFee
    BY <2>3, <2>4, <2>5
  <2> QED BY <1>3, <2>1, <2>2, <2>3, <2>7, <2>8, <2>9
<1>4. CASE side = "SELL"
  <2>1. dispose_fifo(e, a, q, p)
    BY <1>2, <1>4 DEF process_trade_accounting
  <2>2. /\ Open(lots, a) >= q /\ lots' = SoldLots(lots, a, q)
        /\ disposals' = disposals \cup Disposed(lots, e, a, q)
    BY <2>1 DEF dispose_fifo, SoldLots, TakenOf, Disposed, UsedLots
  <2>3. realized' = [realized EXCEPT ![e] =
            q * p - SumFunctionOnSet(TakenCost(lots, a, q), UsedLots(lots, a, q)) - q * UnitFee]
    BY <2>1 DEF dispose_fifo, TakenOf, TakenCost, UsedLots
  <2>4. SumFunctionOnSet(TakenCost(lots, a, q), UsedLots(lots, a, q)) = Gross(lots, a) - Gross(lots', a)
    BY <1>1, <2>2, BasisIsCost
  <2>5. /\ lots' \in Seq(LotRow) /\ Open(lots', a) = Open(lots, a) - q
        /\ \A b : b # a => Open(lots', b) = Open(lots, b) /\ Gross(lots', b) = Gross(lots, b)
    BY <1>1, <2>2, SoldLotsFacts
  <2>6. Signed(side, q) = -q
    BY <1>4 DEF Signed
  <2>7. Open(lots, a) \in Nat
    <3>1. \A n : Open(lots, a) \in Nat
      BY <1>1, LotSums
    <3> QED BY <3>1
  <2>8. Open(lots', a) = Open(lots, a) + Signed(side, q)
    BY <1>1, <2>5, <2>6, <2>7
  <2> QED BY <1>4, <2>2, <2>3, <2>4, <2>5, <2>8
<1> QED BY <1>3, <1>4

\* A fill captures one new trade and leaves the others as they are.
LEMMA FillTrades ==
    ASSUME RowsOK, NEW e \in Executions, NEW a \in Accounts, NEW side \in {"BUY", "SELL"},
           NEW q \in Quantities, NEW p \in Prices, process_simulated_fill(e, a, side, q, p)
    PROVE  /\ e \notin Captured /\ Captured' = Captured \cup {e}
           /\ \A x \in Captured : trade'[x] = trade[x]
           /\ DOMAIN trade' = Executions
           /\ trade'[e].account = a /\ trade'[e].side = side /\ trade'[e].quantity = q
           /\ trade'[e].price = p /\ trade'[e].instruction = Instruction(side, q, p)
           /\ q \in Nat /\ p \in Nat /\ UnitFee \in Nat /\ q * p \in Int /\ q * UnitFee \in Int
<1>1. q \in Nat /\ p \in Nat /\ UnitFee \in Nat
  BY PostTradeAssumption
<1>2. q * p \in Int /\ q * UnitFee \in Int
  BY <1>1
<1> DEFINE row == [state |-> Last(FillPath), version |-> Len(FillPath), account |-> a,
                   side |-> side, quantity |-> q, price |-> p,
                   instruction |-> Instruction(side, q, p)]
<1>3. e \notin Captured /\ trade' = [trade EXCEPT ![e] = row] /\ DOMAIN trade = Executions
  BY DEF process_simulated_fill, RowsOK
<1>4. row.state # "NONE"
  <2>1. Last(FillPath) = "SETTLED"
    BY DEF Last, FillPath
  <2> QED BY <2>1
<1>5. /\ row.account = a /\ row.side = side /\ row.quantity = q /\ row.price = p
      /\ row.instruction = Instruction(side, q, p)
  OBVIOUS
<1> HIDE DEF row
<1>6. DOMAIN trade' = Executions /\ trade'[e] = row /\ \A x \in Executions \ {e} : trade'[x] = trade[x]
  BY <1>3
<1>7. Captured' = Captured \cup {e}
  BY <1>3, <1>4, <1>6 DEF Captured
<1>8. \A x \in Captured : trade'[x] = trade[x]
  BY <1>3, <1>6 DEF Captured
<1> QED BY <1>1, <1>2, <1>3, <1>5, <1>6, <1>7, <1>8

\* A fill keeps the rows well formed.
LEMMA FillRows ==
    ASSUME RowsOK, NEW e \in Executions, NEW a \in Accounts, NEW side \in {"BUY", "SELL"},
           NEW q \in Quantities, NEW p \in Prices, process_simulated_fill(e, a, side, q, p)
    PROVE  RowsOK'
<1>1. lots \in Seq(LotRow) /\ e \in Executions
  BY DEF RowsOK
<1>2. DOMAIN trade' = Executions /\ IsFiniteSet(Captured')
  <2>1. IsFiniteSet(Captured)
    BY DEF RowsOK
  <2> QED BY <2>1, FillTrades, FS_AddElement
<1>3. \A x \in Captured' : TradeRowOK(trade'[x])
  <2>1. ASSUME NEW x \in Captured
        PROVE  TradeRowOK(trade'[x])
    <3>1. trade'[x] = trade[x] /\ TradeRowOK(trade[x])
      BY FillTrades DEF RowsOK
    <3> QED BY <3>1 DEF TradeRowOK
  <2>2. TradeRowOK(trade'[e])
    BY FillTrades DEF TradeRowOK
  <2>3. Captured' = Captured \cup {e}
    BY FillTrades
  <2> QED BY <2>1, <2>2, <2>3
<1>4. lots' \in Seq(LotRow)
  BY FillLots
<1>5. holding' \in [Accounts -> Int] /\ cash' \in [Accounts -> Int]
  <2>1. Signed(side, q) \in Int /\ Signed(side, q * p) \in Int /\ q * UnitFee \in Int
    BY FillTrades DEF Signed
  <2>2. /\ holding' = [holding EXCEPT ![a] = @ + Signed(side, q)]
        /\ cash' = [cash EXCEPT ![a] = @ - Signed(side, q * p) - q * UnitFee]
    BY DEF process_simulated_fill
  <2>3. holding \in [Accounts -> Int] /\ cash \in [Accounts -> Int]
    BY DEF RowsOK
  <2> QED BY <2>1, <2>2, <2>3
<1>6. realized' \in [Executions -> Int]
  <2>1. realized \in [Executions -> Int]
    BY DEF RowsOK
  <2>2. CASE side = "BUY"
    BY <2>1, <2>2, FillLots
  <2>3. CASE side = "SELL"
    <3>1. Gross(lots, a) \in Nat /\ Gross(lots', a) \in Nat
      BY <1>1, <1>4, CostSums
    <3>2. q * p \in Int /\ q * UnitFee \in Int
      BY FillTrades
    <3>3. realized' = [realized EXCEPT ![e] =
                q * p - (Gross(lots, a) - Gross(lots', a)) - q * UnitFee]
      BY <2>3, FillLots
    <3>4. q * p - (Gross(lots, a) - Gross(lots', a)) - q * UnitFee \in Int
      BY <3>1, <3>2
    <3> QED BY <2>1, <3>3, <3>4
  <2> QED BY <2>2, <2>3
<1>7. DOMAIN costBasis' = Accounts /\ \A b \in Accounts : costBasis'[b] = Calculated(lots', b)
  <2>1. costBasis' = [costBasis EXCEPT ![a] = Calculated(lots', a)]
    BY DEF process_simulated_fill, process_trade_accounting
  <2>2. ASSUME NEW b \in Accounts, b # a
        PROVE  Calculated(lots', b) = Calculated(lots, b)
    BY <2>2, FillLots DEF Calculated, Gross
  <2>3. DOMAIN costBasis = Accounts /\ \A b \in Accounts : costBasis[b] = Calculated(lots, b)
    BY DEF RowsOK
  <2> QED BY <2>1, <2>2, <2>3
<1>8. \A c \in Corrections : correction'[c].status = "PENDING"
          => correction'[c].trade \in Captured' /\ correction'[c].type \in EffectTypes
  <2>1. correction' = correction
    BY DEF process_simulated_fill
  <2>2. Captured' = Captured \cup {e}
    BY FillTrades
  <2> QED BY <2>1, <2>2 DEF RowsOK
<1> QED BY <1>2, <1>3, <1>4, <1>5, <1>6, <1>7, <1>8 DEF RowsOK

\* A fill keeps the effects and the dispositions well formed.
LEMMA FillSides ==
    ASSUME BooksInv, NEW e \in Executions, NEW a \in Accounts, NEW side \in {"BUY", "SELL"},
           NEW q \in Quantities, NEW p \in Prices, process_simulated_fill(e, a, side, q, p)
    PROVE  EffectsOK' /\ DisposalsOK'
<1>1. RowsOK /\ EffectsOK /\ DisposalsOK
  BY DEF BooksInv
<1>2. Captured' = Captured \cup {e} /\ q \in Nat
  BY <1>1, FillTrades
<1>3. lots \in Seq(LotRow)
  BY <1>1 DEF RowsOK
<1>4. EffectsOK'
  <2> DEFINE f == [trade |-> e, type |-> "TRADE", quantity |-> Signed(side, q)]
  <2>1. effects' = effects \cup {f}
    BY DEF process_simulated_fill
  <2>2. f.trade = e /\ f.quantity \in Int
    BY <1>2 DEF Signed
  <2> HIDE DEF f
  <2>3. IsFiniteSet(effects')
    BY <1>1, <2>1, FS_AddElement DEF EffectsOK
  <2> QED BY <1>1, <1>2, <2>1, <2>2, <2>3 DEF EffectsOK
<1>5. CASE side = "BUY"
  <2>1. disposals' = disposals
    BY <1>1, <1>5, FillLots
  <2>2. DOMAIN lots \subseteq DOMAIN lots'
    <3>1. PICK row \in LotRow : lots' = Append(lots, row)
      BY <1>1, <1>5, FillLots
    <3> QED BY <1>3, <3>1
  <2>3. DisposalsOK'
    BY <1>1, <1>2, <2>1, <2>2 DEF DisposalsOK
  <2> QED BY <1>4, <2>3
<1>6. CASE side = "SELL"
  <2>1. /\ Open(lots, a) >= q /\ lots' = SoldLots(lots, a, q)
        /\ disposals' = disposals \cup Disposed(lots, e, a, q)
    BY <1>1, <1>6, FillLots
  <2>2. DOMAIN lots' = DOMAIN lots
    BY <2>1 DEF SoldLots
  <2>3. IsFiniteSet(Disposed(lots, e, a, q))
    <3>1. IsFiniteSet(DOMAIN lots) /\ UsedLots(lots, a, q) \subseteq DOMAIN lots
      BY <1>3, LotFacts DEF UsedLots
    <3>2. IsFiniteSet(UsedLots(lots, a, q))
      BY <3>1, FS_Subset
    <3> DEFINE f == [i \in UsedLots(lots, a, q) |->
                       [lot |-> i, trade |-> e, quantity |-> TakenOf(lots, a, q)[i],
                        basis |-> TakenOf(lots, a, q)[i] * lots[i].unit]]
    <3>3. f \in Surjection(UsedLots(lots, a, q), Disposed(lots, e, a, q))
      BY DEF Surjection, Disposed
    <3> HIDE DEF f
    <3> QED BY <3>2, <3>3, FS_Surjection
  <2>4. \A d \in Disposed(lots, e, a, q) : d.lot \in DOMAIN lots /\ d.trade = e /\ d.quantity \in Int
    <3>1. \A i \in DOMAIN lots : TakenOf(lots, a, q)[i] \in Nat
      BY <1>2, <1>3, TakenBounds
    <3> QED BY <3>1 DEF Disposed, UsedLots
  <2>5. IsFiniteSet(disposals')
    BY <1>1, <2>1, <2>3, FS_Union DEF DisposalsOK
  <2>6. DisposalsOK'
    BY <1>1, <1>2, <2>1, <2>2, <2>4, <2>5 DEF DisposalsOK
  <2> QED BY <1>4, <2>6
<1> QED BY <1>5, <1>6

\* One more row adds its quantity.
LEMMA OneMoreRow ==
    ASSUME NEW rows, IsFiniteSet(rows), \A r \in rows : r.quantity \in Int,
           NEW x, x \notin rows, x.quantity \in Int
    PROVE  /\ SumQuantities(rows \cup {x}) = SumQuantities(rows) + x.quantity
           /\ SumQuantities(rows) \in Int
<1> DEFINE f == [r \in rows |-> r.quantity]
           g == [r \in rows \cup {x} |-> r.quantity]
<1>1. \A y \in rows : f[y] \in Int /\ g[y] = f[y]
  OBVIOUS
<1>2. \A y \in rows \cup {x} : g[y] \in Int
  OBVIOUS
<1>3. g[x] = x.quantity
  OBVIOUS
<1>4. SumQuantities(rows) = SumFunctionOnSet(f, rows)
      /\ SumQuantities(rows \cup {x}) = SumFunctionOnSet(g, rows \cup {x})
  BY DEF SumQuantities
<1> HIDE DEF f, g
<1>5. DifferAt(x, f, rows, g, rows \cup {x})
  BY <1>1, <1>2 DEF DifferAt
<1>6. /\ SumFunctionOnSet(g, rows \cup {x}) = SumFunctionOnSet(f, rows) - 0 + g[x]
      /\ SumFunctionOnSet(f, rows) \in Int
  BY <1>5, SumStep
<1> QED BY <1>3, <1>4, <1>6

RowCash(t) == IF t.side = "BUY" THEN -t.instruction.deliver ELSE t.instruction.receive

\* The cash of a settlement instruction.
LEMMA CashOfTrade ==
    ASSUME NEW t, TradeRowOK(t)
    PROVE  /\ RowCash(t) = -Signed(t.side, t.quantity * t.price)
                                     - t.quantity * UnitFee
           /\ RowCash(t) \in Int
<1> DEFINE q == t.quantity
           p == t.price
<1>1. q \in Nat /\ p \in Nat /\ UnitFee \in Nat
  BY PostTradeAssumption DEF TradeRowOK
<1>2. q * p \in Int /\ q * UnitFee \in Int
  BY <1>1
<1>3. t.instruction = Instruction(t.side, q, p) /\ t.side \in {"BUY", "SELL"}
  BY DEF TradeRowOK
<1> HIDE DEF q, p
<1>4. CASE t.side = "BUY"
  <2>1. t.instruction.deliver = q * p + q * UnitFee
    BY <1>3, <1>4 DEF Instruction, Obligations
  <2>2. RowCash(t) = -(q * p + q * UnitFee) /\ Signed(t.side, q * p) = q * p
    BY <1>4, <2>1 DEF RowCash, Signed
  <2> QED BY <1>2, <2>2 DEF q, p
<1>5. CASE t.side = "SELL"
  <2>1. t.instruction.receive = q * p - q * UnitFee
    BY <1>3, <1>5 DEF Instruction, Obligations
  <2>2. RowCash(t) = q * p - q * UnitFee /\ Signed(t.side, q * p) = -(q * p)
    BY <1>5, <2>1 DEF RowCash, Signed
  <2> QED BY <1>2, <2>2 DEF q, p
<1> QED BY <1>3, <1>4, <1>5

\* A fill moves the cash of its own settlement instruction.
LEMMA FillCash ==
    ASSUME RowsOK, NEW e \in Executions, NEW a \in Accounts, NEW side \in {"BUY", "SELL"},
           NEW q \in Quantities, NEW p \in Prices, process_simulated_fill(e, a, side, q, p),
           NEW b \in Accounts
    PROVE  /\ TradesOf(b)' = IF b = a THEN TradesOf(b) \cup {e} ELSE TradesOf(b)
           /\ e \notin TradesOf(b) /\ IsFiniteSet(TradesOf(b))
           /\ SumFunctionOnSet(CashOf(b)', TradesOf(b)') = SumFunctionOnSet(CashOf(b), TradesOf(b))
                 + (IF b = a THEN -Signed(side, q * p) - q * UnitFee ELSE 0)
           /\ SumFunctionOnSet(CashOf(b), TradesOf(b)) \in Int
<1>1. /\ e \notin Captured /\ Captured' = Captured \cup {e}
      /\ \A x \in Captured : trade'[x] = trade[x]
      /\ trade'[e].account = a /\ trade'[e].side = side
      /\ trade'[e].quantity = q /\ trade'[e].price = p
  BY FillTrades
<1>2. RowsOK'
  BY FillRows
<1>3. /\ e \notin TradesOf(b) /\ TradesOf(b) \subseteq Captured
      /\ TradesOf(b)' = IF b = a THEN TradesOf(b) \cup {e} ELSE TradesOf(b)
  BY <1>1 DEF TradesOf
<1>4. IsFiniteSet(TradesOf(b))
  BY <1>3, FS_Subset DEF RowsOK
<1>5. \A x \in TradesOf(b) : CashOf(b)[x] = InstructedCash(x) /\ CashOf(b)[x] \in Int
  <2> TAKE x \in TradesOf(b)
  <2>1. TradeRowOK(trade[x])
    BY <1>3 DEF RowsOK
  <2> QED BY <2>1, CashOfTrade DEF CashOf, InstructedCash, RowCash
<1>6. ASSUME NEW x \in TradesOf(b)'
      PROVE  /\ CashOf(b)'[x] = InstructedCash(x)' /\ CashOf(b)'[x] \in Int
             /\ InstructedCash(x)' = -Signed(trade'[x].side, trade'[x].quantity * trade'[x].price)
                                        - trade'[x].quantity * UnitFee
  <2>1. x \in Captured'
    BY DEF TradesOf
  <2>2. TradeRowOK(trade'[x])
    BY <1>2, <2>1 DEF RowsOK
  <2>3. /\ InstructedCash(x)' = -Signed(trade'[x].side, trade'[x].quantity * trade'[x].price)
                                   - trade'[x].quantity * UnitFee
        /\ InstructedCash(x)' \in Int
    BY <2>2, CashOfTrade DEF InstructedCash, RowCash
  <2> QED BY <2>3 DEF CashOf
<1>7. \A x \in TradesOf(b) : InstructedCash(x)' = InstructedCash(x)
  BY <1>1, <1>3 DEF InstructedCash
<1>8. DifferAt(e, CashOf(b), TradesOf(b), CashOf(b)', TradesOf(b)')
  <2>1. \A x \in TradesOf(b) \ {e} : CashOf(b)'[x] = CashOf(b)[x]
    BY <1>3, <1>5, <1>6, <1>7
  <2> QED BY <1>3, <1>4, <1>5, <1>6, <2>1 DEF DifferAt
<1>9. b = a => CashOf(b)'[e] = -Signed(side, q * p) - q * UnitFee
  BY <1>1, <1>3, <1>6
<1>10. /\ SumFunctionOnSet(CashOf(b)', TradesOf(b)') = SumFunctionOnSet(CashOf(b), TradesOf(b))
            - (IF e \in TradesOf(b) THEN CashOf(b)[e] ELSE 0)
            + (IF e \in TradesOf(b)' THEN CashOf(b)'[e] ELSE 0)
       /\ SumFunctionOnSet(CashOf(b), TradesOf(b)) \in Int
  BY <1>8, SumStep
<1> QED BY <1>3, <1>4, <1>9, <1>10

\* A fill keeps the books in agreement.
LEMMA FillAgree ==
    ASSUME BooksInv, NEW e \in Executions, NEW a \in Accounts, NEW side \in {"BUY", "SELL"},
           NEW q \in Quantities, NEW p \in Prices, process_simulated_fill(e, a, side, q, p)
    PROVE  FillsAgree'
<1>1. RowsOK /\ EffectsOK /\ FillsAgree /\ RowsOK'
  BY FillRows DEF BooksInv
<1>2. /\ e \notin Captured /\ Captured' = Captured \cup {e}
      /\ \A x \in Captured : trade'[x] = trade[x]
      /\ trade'[e].account = a
      /\ q \in Nat /\ q * p \in Int /\ q * UnitFee \in Int
  BY <1>1, FillTrades
<1>3. SUFFICES ASSUME NEW b \in Accounts
               PROVE  /\ Open(lots', b) = holding'[b] /\ costBasis'[b].quantity = holding'[b]
                      /\ holding'[b] = SumQuantities(TradeEffects(b)')
                      /\ cash'[b] = SumFunctionOnSet(CashOf(b)', TradesOf(b)')
  BY DEF FillsAgree
<1>4. /\ Open(lots, b) = holding[b] /\ holding[b] = SumQuantities(TradeEffects(b))
      /\ cash[b] = SumFunctionOnSet(CashOf(b), TradesOf(b))
  BY <1>1 DEF FillsAgree
<1>5. /\ holding'[b] = holding[b] + (IF b = a THEN Signed(side, q) ELSE 0)
      /\ cash'[b] = cash[b] + (IF b = a THEN -Signed(side, q * p) - q * UnitFee ELSE 0)
      /\ Signed(side, q) \in Int
  <2>1. /\ holding' = [holding EXCEPT ![a] = @ + Signed(side, q)]
        /\ cash' = [cash EXCEPT ![a] = @ - Signed(side, q * p) - q * UnitFee]
    BY DEF process_simulated_fill
  <2>2. Signed(side, q) \in Int /\ Signed(side, q * p) \in Int
    BY <1>2 DEF Signed
  <2>3. holding \in [Accounts -> Int] /\ cash \in [Accounts -> Int]
    BY <1>1 DEF RowsOK
  <2> QED BY <1>2, <2>1, <2>2, <2>3
<1>6. Open(lots', b) = holding'[b]
  <2>1. Open(lots', b) = Open(lots, b) + (IF b = a THEN Signed(side, q) ELSE 0)
    <3>1. Open(lots, b) \in Int
      BY <1>1, <1>4 DEF RowsOK
    <3> QED BY <1>1, <3>1, FillLots
  <2> QED BY <1>4, <1>5, <2>1
<1>7. costBasis'[b].quantity = holding'[b]
  <2>1. costBasis'[b] = Calculated(lots', b)
    BY <1>1 DEF RowsOK
  <2> QED BY <1>6, <2>1 DEF Calculated
<1>8. holding'[b] = SumQuantities(TradeEffects(b)')
  <2> DEFINE f == [trade |-> e, type |-> "TRADE", quantity |-> Signed(side, q)]
  <2>1. effects' = effects \cup {f} /\ f.trade = e /\ f.type = "TRADE" /\ f.quantity = Signed(side, q)
    BY DEF process_simulated_fill
  <2> HIDE DEF f
  <2>2. f \notin effects /\ \A g \in effects : g.trade \in Captured /\ g.quantity \in Int
    BY <1>1, <1>2, <2>1 DEF EffectsOK
  <2>3. TradeEffects(b)' = IF b = a THEN TradeEffects(b) \cup {f} ELSE TradeEffects(b)
    BY <1>2, <2>1, <2>2 DEF TradeEffects
  <2>4. TradeEffects(b) \subseteq effects /\ IsFiniteSet(TradeEffects(b))
    BY <1>1, FS_Subset DEF TradeEffects, EffectsOK
  <2>5. /\ SumQuantities(TradeEffects(b) \cup {f}) = SumQuantities(TradeEffects(b)) + f.quantity
        /\ SumQuantities(TradeEffects(b)) \in Int
    BY <1>5, <2>1, <2>2, <2>4, OneMoreRow
  <2> QED BY <1>4, <1>5, <2>1, <2>3, <2>5
<1>9. cash'[b] = SumFunctionOnSet(CashOf(b)', TradesOf(b)')
  BY <1>1, <1>4, <1>5, FillCash
<1> QED BY <1>6, <1>7, <1>8, <1>9

\* The three parts of FifoExplainsPnL, for one account or one lot.
UsedOf(i) == {d \in disposals : d.lot = i}
SalesOf(a) == {e \in TradesOf(a) : trade[e].side = "SELL"}

OrderOK(a) == \A i, j \in LotsOf(lots, a) : i < j /\ UsedOf(j) # {} => lots[i].remaining = 0
UseOK(i)   == lots[i].original - lots[i].remaining = SumQuantities(UsedOf(i))
PnLOK(a)   == SumFunctionOnSet(realized, SalesOf(a)) = cash[a] + costBasis[a].gross

LEMMA FifoParts ==
    FifoExplainsPnL <=> \A a \in Accounts : /\ OrderOK(a) /\ PnLOK(a)
                                            /\ \A i \in LotsOf(lots, a) : UseOK(i)
BY DEF FifoExplainsPnL, OrderOK, UseOK, PnLOK, UsedOf, SalesOf

\* What a sale disposes of a lot: nothing, or one new row.
LEMMA SoldOf ==
    ASSUME BooksInv, NEW e \in Executions, NEW a \in Accounts, NEW side \in {"BUY", "SELL"},
           NEW q \in Quantities, NEW p \in Prices, process_simulated_fill(e, a, side, q, p),
           side = "SELL", NEW i \in DOMAIN lots
    PROVE  LET t == TakenOf(lots, a, q)[i]
           IN  /\ t = 0 => UsedOf(i)' = UsedOf(i)
               /\ t > 0 => \E d : /\ UsedOf(i)' = UsedOf(i) \cup {d}
                                  /\ d \notin UsedOf(i) /\ d.quantity = t
<1> DEFINE t == TakenOf(lots, a, q)[i]
           rec(j) == [lot |-> j, trade |-> e, quantity |-> TakenOf(lots, a, q)[j],
                      basis |-> TakenOf(lots, a, q)[j] * lots[j].unit]
<1>1. RowsOK /\ DisposalsOK /\ e \notin Captured
  BY FillTrades DEF BooksInv
<1>2. disposals' = disposals \cup Disposed(lots, e, a, q)
  BY <1>1, FillLots
<1>3. \A d \in disposals : d.trade # e
  BY <1>1 DEF DisposalsOK
<1>4. Disposed(lots, e, a, q) = {rec(j) : j \in UsedLots(lots, a, q)}
  BY DEF Disposed
<1>5. \A j : rec(j).lot = j /\ rec(j).trade = e /\ rec(j).quantity = TakenOf(lots, a, q)[j]
  OBVIOUS
<1>6. i \in UsedLots(lots, a, q) <=> t > 0
  BY DEF UsedLots
<1> HIDE DEF rec, t
<1>7. ASSUME t = 0 PROVE UsedOf(i)' = UsedOf(i)
  BY <1>2, <1>4, <1>5, <1>6, <1>7 DEF UsedOf
<1>8. ASSUME t > 0 PROVE /\ UsedOf(i)' = UsedOf(i) \cup {rec(i)}
                         /\ rec(i) \notin UsedOf(i) /\ rec(i).quantity = t
  BY <1>2, <1>3, <1>4, <1>5, <1>6, <1>8 DEF UsedOf, t
<1> QED BY <1>7, <1>8 DEF t

\* A fill keeps the lots used up in the order of their acquisition.
LEMMA FillOrder ==
    ASSUME BooksInv, NEW e \in Executions, NEW a \in Accounts, NEW side \in {"BUY", "SELL"},
           NEW q \in Quantities, NEW p \in Prices, process_simulated_fill(e, a, side, q, p),
           NEW b \in Accounts
    PROVE  OrderOK(b)'
<1>1. RowsOK /\ DisposalsOK /\ OrderOK(b)
  BY FifoParts DEF BooksInv
<1>2. lots \in Seq(LotRow) /\ q \in Nat
  BY <1>1, FillTrades DEF RowsOK
<1>3. CASE side = "BUY"
  <2>1. disposals' = disposals
    BY <1>1, <1>3, FillLots
  <2>2. PICK row \in LotRow : lots' = Append(lots, row)
    BY <1>1, <1>3, FillLots
  <2>3. /\ DOMAIN lots' = DOMAIN lots \cup {Len(lots) + 1} /\ Len(lots) \in Nat
        /\ DOMAIN lots = 1 .. Len(lots) /\ \A i \in DOMAIN lots : lots'[i] = lots[i]
    BY <1>2, <2>2
  <2>4. \A j : UsedOf(j)' = UsedOf(j)
    BY <2>1 DEF UsedOf
  <2>5. ASSUME NEW i \in LotsOf(lots', b), NEW j \in LotsOf(lots', b), i < j, UsedOf(j) # {}
        PROVE  lots'[i].remaining = 0
    <3>1. j \in DOMAIN lots
      BY <1>1, <2>5 DEF UsedOf, DisposalsOK
    <3>2. i \in DOMAIN lots
      BY <2>3, <2>5, <3>1 DEF LotsOf
    <3>3. i \in LotsOf(lots, b) /\ j \in LotsOf(lots, b)
      BY <2>3, <2>5, <3>1, <3>2 DEF LotsOf
    <3> QED BY <1>1, <2>3, <2>5, <3>2, <3>3 DEF OrderOK
  <2> QED BY <2>4, <2>5 DEF OrderOK
<1>4. CASE side = "SELL"
  <2>1. Open(lots, a) >= q /\ lots' = SoldLots(lots, a, q)
    BY <1>1, <1>4, FillLots
  <2>2. /\ LotsOf(lots', b) = LotsOf(lots, b)
        /\ \A i \in DOMAIN lots : lots'[i].remaining = lots[i].remaining - TakenOf(lots, a, q)[i]
    BY <1>2, <2>1, SoldLotsFacts
  <2>3. /\ \A i \in DOMAIN lots : /\ TakenOf(lots, a, q)[i] \in Nat
                                  /\ TakenOf(lots, a, q)[i] <= lots[i].remaining
                                  /\ lots[i].account # a => TakenOf(lots, a, q)[i] = 0
        /\ \A i, j \in LotsOf(lots, a) : i < j /\ TakenOf(lots, a, q)[j] > 0
              => TakenOf(lots, a, q)[i] = lots[i].remaining
    BY <1>2, TakenBounds
  <2>4. ASSUME NEW i \in LotsOf(lots, b), NEW j \in LotsOf(lots, b), i < j, UsedOf(j)' # {}
        PROVE  lots'[i].remaining = 0
    <3>1. /\ i \in DOMAIN lots /\ j \in DOMAIN lots /\ lots[j].account = b
          /\ lots[i].remaining \in Nat
      BY <1>2, LotFacts DEF LotsOf
    <3>2. CASE TakenOf(lots, a, q)[j] = 0
      <4>1. UsedOf(j)' = UsedOf(j)
        BY <1>4, <3>1, <3>2, SoldOf
      <4>2. lots[i].remaining = 0
        BY <1>1, <2>4, <4>1 DEF OrderOK
      <4> QED BY <2>2, <2>3, <3>1, <4>2
    <3>3. CASE TakenOf(lots, a, q)[j] # 0
      <4>1. b = a /\ TakenOf(lots, a, q)[j] > 0
        BY <2>3, <3>1, <3>3
      <4>2. TakenOf(lots, a, q)[i] = lots[i].remaining
        BY <2>3, <2>4, <4>1
      <4> QED BY <2>2, <3>1, <4>2
    <3> QED BY <3>2, <3>3
  <2> QED BY <2>2, <2>4 DEF OrderOK
<1> QED BY <1>3, <1>4

\* A fill keeps each lot's dispositions equal to what was used of it.
LEMMA FillUse ==
    ASSUME BooksInv, NEW e \in Executions, NEW a \in Accounts, NEW side \in {"BUY", "SELL"},
           NEW q \in Quantities, NEW p \in Prices, process_simulated_fill(e, a, side, q, p),
           NEW b \in Accounts, NEW i \in LotsOf(lots', b)
    PROVE  UseOK(i)'
<1>1. RowsOK /\ DisposalsOK /\ \A j \in LotsOf(lots, b) : UseOK(j)
  BY FifoParts DEF BooksInv
<1>2. lots \in Seq(LotRow) /\ q \in Nat
  BY <1>1, FillTrades DEF RowsOK
<1>3. /\ IsFiniteSet(UsedOf(i)) /\ \A d \in UsedOf(i) : d.quantity \in Int
  <2>1. UsedOf(i) \subseteq disposals
    BY DEF UsedOf
  <2> QED BY <1>1, <2>1, FS_Subset DEF DisposalsOK
<1>4. CASE side = "BUY"
  <2>1. UsedOf(i)' = UsedOf(i)
    <3>1. disposals' = disposals
      BY <1>1, <1>4, FillLots
    <3> QED BY <3>1 DEF UsedOf
  <2>2. PICK row \in LotRow : lots' = Append(lots, row) /\ row.original = row.remaining
    BY <1>1, <1>4, FillLots
  <2>3. /\ DOMAIN lots' = DOMAIN lots \cup {Len(lots) + 1} /\ Len(lots) \in Nat
        /\ DOMAIN lots = 1 .. Len(lots) /\ \A j \in DOMAIN lots : lots'[j] = lots[j]
        /\ lots'[Len(lots) + 1] = row
    BY <1>2, <2>2
  <2>4. CASE i \in DOMAIN lots
    <3>1. i \in LotsOf(lots, b) /\ lots'[i] = lots[i]
      BY <2>3, <2>4 DEF LotsOf
    <3> QED BY <1>1, <2>1, <3>1 DEF UseOK
  <2>5. CASE i = Len(lots) + 1
    <3>1. UsedOf(i) = {}
      BY <1>1, <2>3, <2>5 DEF UsedOf, DisposalsOK
    <3>2. SumQuantities({}) = 0
      BY SumEmpty DEF SumQuantities
    <3>3. row.original - row.remaining = 0
      BY <2>2 DEF LotRow
    <3> QED BY <2>1, <2>3, <2>5, <3>1, <3>2, <3>3 DEF UseOK
  <2> QED BY <2>3, <2>4, <2>5 DEF LotsOf
<1>5. CASE side = "SELL"
  <2> DEFINE t == TakenOf(lots, a, q)[i]
  <2>1. Open(lots, a) >= q /\ lots' = SoldLots(lots, a, q)
    BY <1>1, <1>5, FillLots
  <2>2. /\ LotsOf(lots', b) = LotsOf(lots, b)
        /\ \A j \in DOMAIN lots : /\ lots'[j].remaining = lots[j].remaining - TakenOf(lots, a, q)[j]
                                  /\ lots'[j].original = lots[j].original
    BY <1>2, <2>1, SoldLotsFacts
  <2>3. i \in LotsOf(lots, b) /\ i \in DOMAIN lots
    BY <2>2 DEF LotsOf
  <2>4. t \in Nat /\ lots[i].remaining \in Nat /\ lots[i].original \in Nat
    <3>1. t \in Nat
      BY <1>2, <2>3, TakenBounds
    <3>2. lots[i] \in LotRow
      BY <1>2, <2>3
    <3> QED BY <3>1, <3>2 DEF LotRow
  <2>5. lots'[i].remaining = lots[i].remaining - t /\ lots'[i].original = lots[i].original
    BY <2>2, <2>3
  <2>6. lots[i].original - lots[i].remaining = SumQuantities(UsedOf(i))
    BY <1>1, <2>3 DEF UseOK
  <2>7. /\ t = 0 => UsedOf(i)' = UsedOf(i)
        /\ t > 0 => \E d : UsedOf(i)' = UsedOf(i) \cup {d} /\ d \notin UsedOf(i) /\ d.quantity = t
    BY <1>5, <2>3, SoldOf
  <2> HIDE DEF t
  <2>8. CASE t = 0
    BY <2>4, <2>5, <2>6, <2>7, <2>8 DEF UseOK
  <2>9. CASE t > 0
    <3>1. PICK d : UsedOf(i)' = UsedOf(i) \cup {d} /\ d \notin UsedOf(i) /\ d.quantity = t
      BY <2>7, <2>9
    <3>2. SumQuantities(UsedOf(i) \cup {d}) = SumQuantities(UsedOf(i)) + t
      BY <1>3, <2>4, <3>1, OneMoreRow
    <3> QED BY <2>4, <2>5, <2>6, <3>1, <3>2 DEF UseOK
  <2> QED BY <2>4, <2>8, <2>9
<1> QED BY <1>4, <1>5

\* A fill changes the realized P&L as it changes cash and cost.
LEMMA FillPnL ==
    ASSUME BooksInv, NEW e \in Executions, NEW a \in Accounts, NEW side \in {"BUY", "SELL"},
           NEW q \in Quantities, NEW p \in Prices, process_simulated_fill(e, a, side, q, p),
           NEW b \in Accounts
    PROVE  PnLOK(b)'
<1>1. RowsOK /\ RowsOK' /\ PnLOK(b) /\ FillsAgree
  BY FifoParts, FillRows DEF BooksInv
<1>2. /\ e \notin Captured /\ Captured' = Captured \cup {e}
      /\ \A x \in Captured : trade'[x] = trade[x]
      /\ q * p \in Int /\ q * UnitFee \in Int
  BY <1>1, FillTrades
<1>3. lots \in Seq(LotRow) /\ lots' \in Seq(LotRow) /\ realized \in [Executions -> Int]
      /\ realized' \in [Executions -> Int] /\ cash \in [Accounts -> Int]
  BY <1>1 DEF RowsOK
<1>4. Gross(lots, b) \in Nat /\ Gross(lots', b) \in Nat
  BY <1>3, CostSums
<1>5. costBasis[b].gross = Gross(lots, b) /\ costBasis'[b].gross = Gross(lots', b)
  <2>1. costBasis[b] = Calculated(lots, b) /\ costBasis'[b] = Calculated(lots', b)
    BY <1>1 DEF RowsOK
  <2> QED BY <2>1 DEF Calculated, Gross
<1>6. /\ TradesOf(b)' = IF b = a THEN TradesOf(b) \cup {e} ELSE TradesOf(b)
      /\ e \notin TradesOf(b) /\ IsFiniteSet(TradesOf(b))
  BY <1>1, FillCash
<1>7. trade'[e].side = side
  BY <1>1, FillTrades
<1>8. /\ SalesOf(b)' = IF b = a /\ side = "SELL" THEN SalesOf(b) \cup {e} ELSE SalesOf(b)
      /\ e \notin SalesOf(b) /\ SalesOf(b) \subseteq TradesOf(b) /\ SalesOf(b) \subseteq Executions
  BY <1>2, <1>6, <1>7 DEF SalesOf, TradesOf, Captured
<1>9. IsFiniteSet(SalesOf(b))
  BY <1>6, <1>8, FS_Subset
<1>10. cash'[b] = cash[b] + (IF b = a THEN -Signed(side, q * p) - q * UnitFee ELSE 0)
  <2>1. cash' = [cash EXCEPT ![a] = @ - Signed(side, q * p) - q * UnitFee]
    BY DEF process_simulated_fill
  <2>2. Signed(side, q * p) \in Int
    BY <1>2 DEF Signed
  <2> QED BY <1>2, <1>3, <2>1, <2>2
<1>11. SumFunctionOnSet(realized, SalesOf(b)) = cash[b] + Gross(lots, b)
  BY <1>1, <1>5 DEF PnLOK
<1>12. SUFFICES SumFunctionOnSet(realized', SalesOf(b)') = cash'[b] + Gross(lots', b)
  BY <1>5 DEF PnLOK
<1>13. CASE side = "BUY"
  <2>1. realized' = realized /\ SalesOf(b)' = SalesOf(b)
    BY <1>1, <1>8, <1>13, FillLots
  <2>2. /\ b = a => Gross(lots', b) = Gross(lots, b) + q * p + q * UnitFee
        /\ b # a => Gross(lots', b) = Gross(lots, b)
    BY <1>1, <1>13, FillLots
  <2>3. Signed(side, q * p) = q * p
    BY <1>13 DEF Signed
  <2> QED BY <1>2, <1>3, <1>4, <1>10, <1>11, <2>1, <2>2, <2>3
<1>14. CASE side = "SELL"
  <2> DEFINE v == q * p - (Gross(lots, a) - Gross(lots', a)) - q * UnitFee
  <2>1. realized' = [realized EXCEPT ![e] = v]
    BY <1>1, <1>14, FillLots
  <2>2. b # a => Gross(lots', b) = Gross(lots, b)
    BY <1>1, FillLots
  <2>3. Signed(side, q * p) = -(q * p)
    BY <1>14 DEF Signed
  <2>4. realized'[e] = v /\ \A x \in SalesOf(b) : realized'[x] = realized[x]
    BY <1>3, <1>8, <2>1
  <2> HIDE DEF v
  <2>5. DifferAt(e, realized, SalesOf(b), realized', SalesOf(b)')
    <3>1. SalesOf(b) \ {e} = SalesOf(b)' \ {e} /\ SalesOf(b)' \subseteq Executions
      BY <1>8
    <3>2. \A y \in Executions : realized[y] \in Int /\ realized'[y] \in Int
      BY <1>3
    <3> QED BY <1>8, <1>9, <2>4, <3>1, <3>2 DEF DifferAt
  <2>6. /\ SumFunctionOnSet(realized', SalesOf(b)') = SumFunctionOnSet(realized, SalesOf(b))
             - (IF e \in SalesOf(b) THEN realized[e] ELSE 0)
             + (IF e \in SalesOf(b)' THEN realized'[e] ELSE 0)
        /\ SumFunctionOnSet(realized, SalesOf(b)) \in Int
    BY <2>5, SumStep
  <2>7. CASE b = a
    <3>1. SumFunctionOnSet(realized', SalesOf(b)') = SumFunctionOnSet(realized, SalesOf(b)) + v
      <4>1. e \in SalesOf(b)' /\ e \notin SalesOf(b)
        BY <1>8, <1>14, <2>7
      <4> QED BY <2>4, <2>6, <4>1
    <3>2. cash'[b] = cash[b] + q * p - q * UnitFee
      BY <1>2, <1>3, <1>10, <2>3, <2>7
    <3>3. v = q * p - (Gross(lots, b) - Gross(lots', b)) - q * UnitFee
      BY <2>7 DEF v
    <3> QED BY <1>2, <1>3, <1>4, <1>11, <3>1, <3>2, <3>3
  <2>8. CASE b # a
    <3>1. SumFunctionOnSet(realized', SalesOf(b)') = SumFunctionOnSet(realized, SalesOf(b))
      <4>1. e \notin SalesOf(b)' /\ e \notin SalesOf(b)
        BY <1>8, <2>8
      <4> QED BY <2>6, <4>1
    <3> QED BY <1>3, <1>4, <1>10, <1>11, <2>2, <2>8, <3>1
  <2> QED BY <2>7, <2>8
<1> QED BY <1>13, <1>14

\* A fill keeps the whole invariant.
LEMMA FillKeeps ==
    ASSUME BooksInv, NEW e \in Executions, NEW a \in Accounts, NEW side \in {"BUY", "SELL"},
           NEW q \in Quantities, NEW p \in Prices, process_simulated_fill(e, a, side, q, p)
    PROVE  BooksInv'
<1>1. RowsOK
  BY DEF BooksInv
<1>2. RowsOK' /\ EffectsOK' /\ DisposalsOK' /\ FillsAgree'
  BY <1>1, FillRows, FillSides, FillAgree
<1>3. FifoExplainsPnL'
  <2>1. \A b \in Accounts : /\ OrderOK(b)' /\ PnLOK(b)' /\ \A i \in LotsOf(lots', b) : UseOK(i)'
    BY FillOrder, FillUse, FillPnL
  <2> QED BY <2>1 DEF FifoExplainsPnL, OrderOK, UseOK, PnLOK, UsedOf, SalesOf
<1> QED BY <1>2, <1>3 DEF BooksInv

\* Steps that leave positions, cash and lots alone keep the invariant: captured
\* trades keep their terms, and the effects gain no TRADE row.
LEMMA OtherStepsKeep ==
    ASSUME BooksInv, UNCHANGED <<holding, cash, bookVars>>,
           DOMAIN trade' = Executions, Captured' = Captured,
           \A e \in Captured : /\ trade'[e].account = trade[e].account
                               /\ trade'[e].side = trade[e].side
                               /\ trade'[e].quantity = trade[e].quantity
                               /\ trade'[e].price = trade[e].price
                               /\ trade'[e].instruction = trade[e].instruction,
           EffectsOK',
           {f \in effects' : f.type = "TRADE"} = {f \in effects : f.type = "TRADE"},
           \A c \in Corrections : correction'[c].status = "PENDING"
              => correction'[c].trade \in Captured /\ correction'[c].type \in EffectTypes
    PROVE  BooksInv'
<1>1. /\ lots' = lots /\ holding' = holding /\ cash' = cash /\ realized' = realized
      /\ costBasis' = costBasis /\ disposals' = disposals
  BY DEF bookVars
<1>2. RowsOK /\ EffectsOK /\ DisposalsOK /\ FillsAgree /\ FifoExplainsPnL
  BY DEF BooksInv
<1>3. RowsOK'
  <2>1. \A e \in Captured' : TradeRowOK(trade'[e])
    BY <1>2 DEF RowsOK, TradeRowOK
  <2> QED BY <1>1, <1>2, <2>1 DEF RowsOK
<1>4. DisposalsOK'
  BY <1>1, <1>2 DEF DisposalsOK
<1>5. \A a : TradesOf(a)' = TradesOf(a) /\ SalesOf(a)' = SalesOf(a)
  BY DEF TradesOf, SalesOf
<1>6. \A a : TradeEffects(a)' = TradeEffects(a)
  BY <1>2 DEF TradeEffects, EffectsOK
<1>7. \A a : CashOf(a)' = CashOf(a)
  <2>1. \A e \in Captured : InstructedCash(e)' = InstructedCash(e)
    BY DEF InstructedCash
  <2>2. \A a : TradesOf(a) \subseteq Captured
    BY DEF TradesOf
  <2> QED BY <1>5, <2>1, <2>2 DEF CashOf
<1>8. FillsAgree'
  <2>1. \A a \in Accounts :
           /\ Open(lots, a) = holding[a] /\ costBasis[a].quantity = holding[a]
           /\ holding[a] = SumQuantities(TradeEffects(a))
           /\ cash[a] = SumFunctionOnSet(CashOf(a), TradesOf(a))
    BY <1>2 DEF FillsAgree
  <2>2. \A a \in Accounts :
           /\ Open(lots', a) = holding'[a] /\ costBasis'[a].quantity = holding'[a]
           /\ holding'[a] = SumQuantities(TradeEffects(a)')
           /\ cash'[a] = SumFunctionOnSet(CashOf(a)', TradesOf(a)')
    BY <1>1, <1>5, <1>6, <1>7, <2>1
  <2> QED BY <2>2 DEF FillsAgree
<1>9. FifoExplainsPnL'
  <2>1. \A a \in Accounts : OrderOK(a) /\ PnLOK(a) /\ \A i \in LotsOf(lots, a) : UseOK(i)
    BY <1>2, FifoParts
  <2>2. \A i : UsedOf(i)' = UsedOf(i)
    BY <1>1 DEF UsedOf
  <2>3. \A a \in Accounts : OrderOK(a)'
    BY <1>1, <2>1, <2>2 DEF OrderOK
  <2>4. \A a \in Accounts : \A i \in LotsOf(lots', a) : UseOK(i)'
    BY <1>1, <2>1, <2>2 DEF UseOK
  <2>5. \A a \in Accounts : PnLOK(a)'
    BY <1>1, <1>5, <2>1 DEF PnLOK
  <2> QED BY <2>3, <2>4, <2>5 DEF FifoExplainsPnL, OrderOK, UseOK, PnLOK, UsedOf, SalesOf
<1> QED BY <1>3, <1>4, <1>8, <1>9 DEF BooksInv

\* The books start empty.
LEMMA BooksStart == PostTradeInit => BooksInv
<1> SUFFICES ASSUME PostTradeInit PROVE BooksInv
  OBVIOUS
<1>1. Captured = {}
  BY DEF PostTradeInit, Captured, NoTrade
<1>2. lots = <<>> /\ DOMAIN lots = {} /\ \A a : LotsOf(lots, a) = {}
  BY DEF PostTradeInit, LotsOf
<1>3. \A a : TradesOf(a) = {} /\ SalesOf(a) = {} /\ TradeEffects(a) = {}
  BY <1>1 DEF TradesOf, SalesOf, TradeEffects, PostTradeInit
<1>4. \A a : Open(lots, a) = 0 /\ Gross(lots, a) = 0
  BY <1>2, SumEmpty DEF Open, Gross
<1>5. \A f : SumFunctionOnSet(f, {}) = 0
  BY SumEmpty
<1>6. RowsOK
  <2>1. \A a \in Accounts : costBasis[a] = Calculated(lots, a)
    BY <1>4 DEF PostTradeInit, Calculated, Gross
  <2>2. lots \in Seq(LotRow)
    BY <1>2
  <2>3. \A c \in Corrections : correction[c].status # "PENDING"
    BY DEF PostTradeInit, NoCorrection
  <2>4. IsFiniteSet(Captured)
    BY <1>1, FS_EmptySet
  <2> QED BY <1>1, <2>1, <2>2, <2>3, <2>4 DEF RowsOK, PostTradeInit
<1>7. EffectsOK /\ DisposalsOK
  BY FS_EmptySet DEF EffectsOK, DisposalsOK, PostTradeInit
<1>8. FillsAgree
  <2>1. \A a : SumQuantities(TradeEffects(a)) = 0 /\ SumFunctionOnSet(CashOf(a), TradesOf(a)) = 0
    BY <1>3, <1>5 DEF SumQuantities
  <2>2. \A a \in Accounts : holding[a] = 0 /\ cash[a] = 0 /\ costBasis[a].quantity = 0
    BY DEF PostTradeInit
  <2> QED BY <1>4, <2>1, <2>2 DEF FillsAgree
<1>9. FifoExplainsPnL
  <2>1. \A a \in Accounts : cash[a] = 0 /\ costBasis[a].gross = 0
    BY DEF PostTradeInit
  <2>2. \A a \in Accounts : PnLOK(a)
    BY <1>3, <1>5, <2>1 DEF PnLOK
  <2>3. \A a \in Accounts : OrderOK(a) /\ \A i \in LotsOf(lots, a) : UseOK(i)
    BY <1>2 DEF OrderOK
  <2> QED BY <2>2, <2>3, FifoParts
<1> QED BY <1>6, <1>7, <1>8, <1>9 DEF BooksInv

\* Every step of post-trade processing keeps the invariant.
LEMMA BooksStep == BooksInv /\ [PostTradeNext]_postTradeVars => BooksInv'
<1> SUFFICES ASSUME BooksInv, [PostTradeNext]_postTradeVars PROVE BooksInv'
  OBVIOUS
<1>1. RowsOK /\ EffectsOK
  BY DEF BooksInv
<1>2. ASSUME NEW e \in Executions, NEW a \in Accounts, NEW side \in {"BUY", "SELL"},
             NEW q \in Quantities, NEW p \in Prices, process_simulated_fill(e, a, side, q, p)
      PROVE  BooksInv'
  BY <1>2, FillKeeps
<1>3. ASSUME NEW c \in Corrections, NEW e \in Executions, NEW type \in EffectTypes,
             NEW u \in Operators, RequestCorrection(c, e, type, u)
      PROVE  BooksInv'
  <2>1. /\ UNCHANGED <<holding, cash, bookVars>> /\ trade' = trade /\ effects' = effects
        /\ correction' = [correction EXCEPT ![c] =
              [status |-> "PENDING", trade |-> e, type |-> type, by |-> u]]
        /\ e \in Captured
    BY <1>3 DEF RequestCorrection
  <2>2. Captured' = Captured
    BY <2>1 DEF Captured
  <2>3. \A d \in Corrections : correction'[d].status = "PENDING"
           => correction'[d].trade \in Captured /\ correction'[d].type \in EffectTypes
    <3>1. ASSUME NEW d \in Corrections, correction'[d].status = "PENDING"
          PROVE  correction'[d].trade \in Captured /\ correction'[d].type \in EffectTypes
      <4>1. CASE d = c /\ c \in DOMAIN correction
        BY <2>1, <4>1
      <4>2. CASE ~(d = c /\ c \in DOMAIN correction)
        <5>1. correction'[d] = correction[d]
          BY <2>1, <4>2
        <5> QED BY <1>1, <3>1, <5>1 DEF RowsOK
      <4> QED BY <4>1, <4>2
    <3> QED BY <3>1
  <2>4. EffectsOK' /\ DOMAIN trade' = Executions
    BY <1>1, <2>1, <2>2 DEF EffectsOK, RowsOK
  <2> QED BY <2>1, <2>2, <2>3, <2>4, OtherStepsKeep
<1>4. ASSUME NEW c \in Corrections, NEW u \in Operators, ApproveCorrection(c, u)
      PROVE  BooksInv'
  <2> DEFINE e == correction[c].trade
             row == [trade |-> e, type |-> correction[c].type,
                     quantity |-> -Signed(trade[e].side, trade[e].quantity)]
  <2>1. /\ UNCHANGED <<holding, cash, bookVars>> /\ correction[c].status = "PENDING"
        /\ effects' = effects \cup {row}
        /\ correction' = [correction EXCEPT ![c].status = "APPROVED"]
        /\ trade' = [trade EXCEPT ![e].state = "REVERSED", ![e].version = @ + 1]
    BY <1>4 DEF ApproveCorrection
  <2>2. e \in Captured /\ row.type \in EffectTypes /\ TradeRowOK(trade[e])
    BY <1>1, <2>1 DEF RowsOK
  <2>3. -Signed(trade[e].side, trade[e].quantity) \in Int
    <3>1. trade[e].quantity \in Nat
      BY <2>2, PostTradeAssumption DEF TradeRowOK
    <3> QED BY <3>1 DEF Signed
  <2>4. row.trade = e /\ row.quantity \in Int
    BY <2>3
  <2> HIDE DEF e, row
  <2>5. e \in Executions /\ DOMAIN trade = Executions
    BY <1>1, <2>2 DEF Captured, RowsOK
  <2>6. /\ DOMAIN trade' = Executions
        /\ \A x \in Executions \ {e} : trade'[x] = trade[x]
        /\ trade'[e] = [trade[e] EXCEPT !.state = "REVERSED", !.version = @ + 1]
    BY <2>1, <2>5
  <2>7. /\ trade'[e].account = trade[e].account /\ trade'[e].side = trade[e].side
        /\ trade'[e].quantity = trade[e].quantity /\ trade'[e].price = trade[e].price
        /\ trade'[e].instruction = trade[e].instruction
    BY <2>6
  <2>8. Captured' = Captured
    <3>1. trade'[e].state # "NONE"
      BY <2>6
    <3> QED BY <2>2, <2>5, <2>6, <3>1 DEF Captured
  <2>9. EffectsOK'
    <3>1. IsFiniteSet(effects')
      BY <1>1, <2>1, FS_AddElement DEF EffectsOK
    <3> QED BY <1>1, <2>1, <2>2, <2>4, <2>8, <3>1 DEF EffectsOK
  <2>10. {f \in effects' : f.type = "TRADE"} = {f \in effects : f.type = "TRADE"}
    BY <2>1, <2>2 DEF EffectTypes
  <2>11. \A d \in Corrections : correction'[d].status = "PENDING"
            => correction'[d].trade \in Captured /\ correction'[d].type \in EffectTypes
    <3>1. \A d : correction'[d].status = "PENDING" => correction'[d] = correction[d]
      BY <2>1
    <3> QED BY <1>1, <3>1 DEF RowsOK
  <2>12. \A x \in Captured : /\ trade'[x].account = trade[x].account
                             /\ trade'[x].side = trade[x].side
                             /\ trade'[x].quantity = trade[x].quantity
                             /\ trade'[x].price = trade[x].price
                             /\ trade'[x].instruction = trade[x].instruction
    BY <2>6, <2>7 DEF Captured
  <2> QED BY <2>1, <2>6, <2>8, <2>9, <2>10, <2>11, <2>12, OtherStepsKeep
<1>5. ASSUME UNCHANGED <<holding, cash, trade, effects, bookVars, correction>>
      PROVE  BooksInv'
  <2>1. Captured' = Captured
    BY <1>5 DEF Captured
  <2>2. EffectsOK' /\ DOMAIN trade' = Executions
    BY <1>1, <1>5, <2>1 DEF EffectsOK, RowsOK
  <2>3. \A d \in Corrections : correction'[d].status = "PENDING"
           => correction'[d].trade \in Captured /\ correction'[d].type \in EffectTypes
    BY <1>1, <1>5 DEF RowsOK
  <2> QED BY <1>5, <2>1, <2>2, <2>3, OtherStepsKeep
<1>6. ASSUME NEW x \in Tickets, TicketStep(x)
      PROVE  BooksInv'
  BY <1>5, <1>6 DEF TicketStep
<1>7. CASE UNCHANGED postTradeVars
  BY <1>5, <1>7 DEF postTradeVars
<1> QED BY <1>2, <1>3, <1>4, <1>6, <1>7 DEF PostTradeNext

-----------------------------------------------------------------------------
(* Corrections.                                                            *)

EffectsOf(a) == {f \in effects : trade[f.trade].account = a}
AllApproved  == {c \in Corrections : correction[c].status = "APPROVED"}

\* A correction that was requested has all its columns.
RequestedRows ==
    \A c \in Corrections : correction[c].status = "PENDING" =>
        correction[c] \in [status : {"PENDING"}, trade : Executions, type : EffectTypes, by : Operators]

\* Every approved correction is of a captured trade, and the effects of an account
\* are its position less what corrections took back.
CorrectedInv ==
    /\ DOMAIN correction = Corrections /\ RequestedRows /\ IsFiniteSet(AllApproved)
    /\ \A c \in AllApproved : correction[c].trade \in Captured
    /\ \A a \in Accounts :
          SumQuantities(EffectsOf(a)) = holding[a] - SumFunctionOnSet(TakenBack(a), Approved(a))

\* The sums of an account are over finite sets of integers.
LEMMA CorrectedSums ==
    ASSUME BooksInv, CorrectedInv, NEW a \in Accounts
    PROVE  /\ IsFiniteSet(EffectsOf(a)) /\ \A f \in EffectsOf(a) : f.quantity \in Int
           /\ IsFiniteSet(Approved(a)) /\ \A c \in Approved(a) : TakenBack(a)[c] \in Int
           /\ SumFunctionOnSet(TakenBack(a), Approved(a)) \in Int
           /\ holding[a] \in Int
<1>1. RowsOK /\ EffectsOK
  BY DEF BooksInv
<1>2. IsFiniteSet(EffectsOf(a)) /\ \A f \in EffectsOf(a) : f.quantity \in Int
  <2>1. EffectsOf(a) \subseteq effects
    BY DEF EffectsOf
  <2> QED BY <1>1, <2>1, FS_Subset DEF EffectsOK
<1>3. Approved(a) \subseteq AllApproved
  BY DEF Approved, AllApproved
<1>4. IsFiniteSet(Approved(a))
  BY <1>3, FS_Subset DEF CorrectedInv
<1>5. ASSUME NEW c \in Approved(a)
      PROVE  TakenBack(a)[c] \in Int
  <2> DEFINE t == trade[correction[c].trade]
  <2>1. TradeRowOK(t)
    BY <1>1, <1>3 DEF CorrectedInv, RowsOK
  <2>2. t.quantity \in Nat
    BY <2>1, PostTradeAssumption DEF TradeRowOK
  <2>3. TakenBack(a)[c] = Signed(t.side, t.quantity)
    BY DEF TakenBack
  <2> QED BY <2>2, <2>3 DEF Signed
<1>6. SumFunctionOnSet(TakenBack(a), Approved(a)) \in Int
  BY <1>4, <1>5, SumInt
<1>7. holding[a] \in Int
  BY <1>1 DEF RowsOK
<1> QED BY <1>2, <1>4, <1>5, <1>6, <1>7

\* A fill adds its quantity to the effects of its account and to the position.
LEMMA FillCorrected ==
    ASSUME BooksInv, CorrectedInv, NEW e \in Executions, NEW a \in Accounts,
           NEW side \in {"BUY", "SELL"}, NEW q \in Quantities, NEW p \in Prices,
           process_simulated_fill(e, a, side, q, p)
    PROVE  CorrectedInv'
<1>1. RowsOK /\ EffectsOK
  BY DEF BooksInv
<1>2. /\ e \notin Captured /\ Captured' = Captured \cup {e}
      /\ \A x \in Captured : trade'[x] = trade[x]
      /\ trade'[e].account = a /\ q \in Nat
  BY <1>1, FillTrades
<1>3. correction' = correction
  BY DEF process_simulated_fill
<1>4. /\ AllApproved' = AllApproved /\ DOMAIN correction' = Corrections /\ RequestedRows'
      /\ IsFiniteSet(AllApproved') /\ \A c \in AllApproved' : correction'[c].trade \in Captured'
  BY <1>2, <1>3 DEF CorrectedInv, AllApproved, RequestedRows
<1>5. ASSUME NEW b \in Accounts
      PROVE  SumQuantities(EffectsOf(b)')
                = holding'[b] - SumFunctionOnSet(TakenBack(b)', Approved(b)')
  <2>1. \A c \in AllApproved : trade'[correction[c].trade] = trade[correction[c].trade]
    BY <1>2 DEF CorrectedInv
  <2>2. Approved(b)' = Approved(b)
    BY <1>3, <2>1 DEF Approved, AllApproved
  <2>3. Approved(b) \subseteq AllApproved
    BY DEF Approved, AllApproved
  <2>4. TakenBack(b)' = TakenBack(b)
    BY <1>3, <2>1, <2>2, <2>3 DEF TakenBack
  <2>5. holding'[b] = holding[b] + (IF b = a THEN Signed(side, q) ELSE 0) /\ Signed(side, q) \in Int
    <3>1. holding' = [holding EXCEPT ![a] = @ + Signed(side, q)]
      BY DEF process_simulated_fill
    <3>2. Signed(side, q) \in Int
      BY <1>2 DEF Signed
    <3>3. holding \in [Accounts -> Int]
      BY <1>1 DEF RowsOK
    <3> QED BY <3>1, <3>2, <3>3
  <2> DEFINE f == [trade |-> e, type |-> "TRADE", quantity |-> Signed(side, q)]
  <2>6. effects' = effects \cup {f} /\ f.trade = e /\ f.quantity = Signed(side, q)
    BY DEF process_simulated_fill
  <2> HIDE DEF f
  <2>7. f \notin effects /\ \A g \in effects : g.trade \in Captured
    BY <1>1, <1>2, <2>6 DEF EffectsOK
  <2>8. EffectsOf(b)' = IF b = a THEN EffectsOf(b) \cup {f} ELSE EffectsOf(b)
    BY <1>2, <2>6, <2>7 DEF EffectsOf
  <2>9. f \notin EffectsOf(b)
    BY <2>7 DEF EffectsOf
  <2>10. /\ SumQuantities(EffectsOf(b) \cup {f}) = SumQuantities(EffectsOf(b)) + f.quantity
         /\ SumQuantities(EffectsOf(b)) \in Int
    BY <2>5, <2>6, <2>9, CorrectedSums, OneMoreRow
  <2>11. SumQuantities(EffectsOf(b)) = holding[b] - SumFunctionOnSet(TakenBack(b), Approved(b))
    BY DEF CorrectedInv
  <2>12. SumFunctionOnSet(TakenBack(b), Approved(b)) \in Int /\ holding[b] \in Int
    BY CorrectedSums
  <2> QED BY <2>2, <2>4, <2>5, <2>6, <2>8, <2>10, <2>11, <2>12
<1> QED BY <1>4, <1>5 DEF CorrectedInv

\* An approved correction adds the opposite of its trade to the effects alone.
LEMMA ApproveCorrected ==
    ASSUME BooksInv, CorrectedInv, NEW c \in Corrections, NEW u \in Operators,
           ApproveCorrection(c, u)
    PROVE  CorrectedInv'
<1> DEFINE e == correction[c].trade
           s == Signed(trade[e].side, trade[e].quantity)
           row == [trade |-> e, type |-> correction[c].type, quantity |-> -s]
<1>1. RowsOK /\ EffectsOK
  BY DEF BooksInv
<1>2. /\ holding' = holding /\ correction[c].status = "PENDING"
      /\ effects' = effects \cup {row}
      /\ correction' = [correction EXCEPT ![c].status = "APPROVED"]
      /\ trade' = [trade EXCEPT ![e].state = "REVERSED", ![e].version = @ + 1]
      /\ \A f \in effects : <<f.trade, f.type>> # <<e, correction[c].type>>
  BY DEF ApproveCorrection
<1>3. e \in Captured /\ TradeRowOK(trade[e])
  BY <1>1, <1>2 DEF RowsOK
<1>4. s \in Int
  <2>1. trade[e].quantity \in Nat
    BY <1>3, PostTradeAssumption DEF TradeRowOK
  <2> QED BY <2>1 DEF Signed
<1>5. row.trade = e /\ row.quantity = -s /\ row \notin effects
  BY <1>2
<1>6. e \in Executions /\ DOMAIN trade = Executions
  BY <1>1, <1>3 DEF Captured, RowsOK
<1>7. s = Signed(trade[e].side, trade[e].quantity)
  OBVIOUS
<1>8. correction[c].trade = e
  OBVIOUS
<1> HIDE DEF e, s, row
<1>9. /\ \A x \in Executions \ {e} : trade'[x] = trade[x]
      /\ trade'[e] = [trade[e] EXCEPT !.state = "REVERSED", !.version = @ + 1]
      /\ DOMAIN trade' = Executions
  BY <1>2, <1>6
<1>10. trade'[e].state # "NONE"
  BY <1>9
<1>11. Captured' = Captured
  BY <1>3, <1>6, <1>9, <1>10 DEF Captured
<1>12. \A x \in Captured : /\ trade'[x].account = trade[x].account
                           /\ trade'[x].side = trade[x].side
                           /\ trade'[x].quantity = trade[x].quantity
  <2>1. /\ trade'[e].account = trade[e].account /\ trade'[e].side = trade[e].side
        /\ trade'[e].quantity = trade[e].quantity
    BY <1>9
  <2> QED BY <1>9, <2>1 DEF Captured
<1>13. /\ DOMAIN correction' = Corrections
       /\ \A d \in Corrections \ {c} : correction'[d] = correction[d]
       /\ correction'[c] = [correction[c] EXCEPT !.status = "APPROVED"]
  BY <1>2 DEF CorrectedInv
<1>14. correction'[c].status = "APPROVED" /\ correction'[c].trade = e
  <2>1. correction[c] \in [status : {"PENDING"}, trade : Executions, type : EffectTypes, by : Operators]
    BY <1>2 DEF CorrectedInv, RequestedRows
  <2> QED BY <1>8, <1>13, <2>1
<1>15. c \notin AllApproved /\ AllApproved' = AllApproved \cup {c}
  BY <1>2, <1>13, <1>14 DEF AllApproved
<1>16. /\ IsFiniteSet(AllApproved')
       /\ \A d \in AllApproved' : correction'[d].trade \in Captured'
  <2>1. IsFiniteSet(AllApproved')
    BY <1>15, FS_AddElement DEF CorrectedInv
  <2>2. AllApproved \subseteq Corrections \ {c}
    BY <1>15 DEF AllApproved
  <2> QED BY <1>3, <1>11, <1>13, <1>14, <1>15, <2>1, <2>2 DEF CorrectedInv
<1>17. ASSUME NEW b \in Accounts
       PROVE  SumQuantities(EffectsOf(b)')
                 = holding'[b] - SumFunctionOnSet(TakenBack(b)', Approved(b)')
  <2>1. \A d \in AllApproved : d # c /\ correction'[d] = correction[d] /\ correction[d].trade \in Captured
    BY <1>13, <1>15 DEF CorrectedInv, AllApproved
  <2>2. /\ Approved(b)' = IF trade[e].account = b THEN Approved(b) \cup {c} ELSE Approved(b)
        /\ c \notin Approved(b) /\ Approved(b) \subseteq AllApproved
    <3>1. \A d \in AllApproved : trade'[correction'[d].trade].account = trade[correction[d].trade].account
      BY <1>12, <2>1
    <3>2. trade'[correction'[c].trade].account = trade[e].account
      BY <1>3, <1>12, <1>14
    <3>3. Approved(b) = {d \in AllApproved : trade[correction[d].trade].account = b}
      BY DEF Approved, AllApproved
    <3>4. Approved(b)' = {d \in AllApproved' : trade'[correction'[d].trade].account = b}
      BY DEF Approved, AllApproved
    <3> QED BY <1>15, <3>1, <3>2, <3>3, <3>4
  <2>3. \A d \in Approved(b) : TakenBack(b)'[d] = TakenBack(b)[d]
    <3> TAKE d \in Approved(b)
    <3>1. d \in Approved(b)' /\ d \in AllApproved
      BY <2>2
    <3>2. /\ TakenBack(b)[d] = Signed(trade[correction[d].trade].side, trade[correction[d].trade].quantity)
          /\ TakenBack(b)'[d] = Signed(trade'[correction'[d].trade].side, trade'[correction'[d].trade].quantity)
      BY <3>1 DEF TakenBack
    <3> QED BY <1>12, <2>1, <3>1, <3>2
  <2>4. c \in Approved(b)' => TakenBack(b)'[c] = s
    BY <1>3, <1>7, <1>12, <1>14 DEF TakenBack
  <2>5. DifferAt(c, TakenBack(b), Approved(b), TakenBack(b)', Approved(b)')
    <3>1. \A d \in Approved(b)' : TakenBack(b)'[d] \in Int
      BY <1>4, <2>2, <2>3, <2>4, CorrectedSums
    <3> QED BY <2>2, <2>3, <3>1, CorrectedSums DEF DifferAt
  <2>6. SumFunctionOnSet(TakenBack(b)', Approved(b)') = SumFunctionOnSet(TakenBack(b), Approved(b))
            + (IF trade[e].account = b THEN s ELSE 0)
    <3>1. SumFunctionOnSet(TakenBack(b)', Approved(b)') = SumFunctionOnSet(TakenBack(b), Approved(b))
             - (IF c \in Approved(b) THEN TakenBack(b)[c] ELSE 0)
             + (IF c \in Approved(b)' THEN TakenBack(b)'[c] ELSE 0)
      BY <2>5, SumStep
    <3>2. SumFunctionOnSet(TakenBack(b), Approved(b)) \in Int
      BY CorrectedSums
    <3>3. c \in Approved(b)' <=> trade[e].account = b
      BY <2>2
    <3> QED BY <1>4, <2>2, <2>4, <3>1, <3>2, <3>3
  <2>7. EffectsOf(b)' = IF trade[e].account = b THEN EffectsOf(b) \cup {row} ELSE EffectsOf(b)
    <3>1. \A f \in effects' : f.trade \in Captured
      BY <1>1, <1>2, <1>3, <1>5 DEF EffectsOK
    <3>2. \A f \in effects' : trade'[f.trade].account = trade[f.trade].account
      BY <1>12, <3>1
    <3> QED BY <1>2, <1>5, <3>2 DEF EffectsOf
  <2>8. row \notin EffectsOf(b) /\ row.quantity \in Int
    BY <1>4, <1>5 DEF EffectsOf
  <2>9. /\ SumQuantities(EffectsOf(b) \cup {row}) = SumQuantities(EffectsOf(b)) + row.quantity
        /\ SumQuantities(EffectsOf(b)) \in Int
    BY <2>8, CorrectedSums, OneMoreRow
  <2>10. SumQuantities(EffectsOf(b)) = holding[b] - SumFunctionOnSet(TakenBack(b), Approved(b))
    BY DEF CorrectedInv
  <2>11. SumFunctionOnSet(TakenBack(b), Approved(b)) \in Int /\ holding[b] \in Int
    BY CorrectedSums
  <2> QED BY <1>2, <1>4, <1>5, <2>6, <2>7, <2>9, <2>10, <2>11
<1>18. RequestedRows'
  BY <1>13, <1>14 DEF CorrectedInv, RequestedRows
<1> QED BY <1>13, <1>16, <1>17, <1>18 DEF CorrectedInv

\* The other steps change neither effects nor approved corrections.
LEMMA OthersCorrected ==
    ASSUME CorrectedInv, UNCHANGED <<holding, trade, effects>>, DOMAIN correction' = Corrections,
           RequestedRows', AllApproved' = AllApproved, \A c \in AllApproved : correction'[c] = correction[c]
    PROVE  CorrectedInv'
<1>1. Captured' = Captured
  BY DEF Captured
<1>2. \A a : EffectsOf(a)' = EffectsOf(a)
  BY DEF EffectsOf
<1>3. \A a : Approved(a) = {c \in AllApproved : trade[correction[c].trade].account = a}
  BY DEF Approved, AllApproved
<1>4. \A a : Approved(a)' = {c \in AllApproved' : trade'[correction'[c].trade].account = a}
  BY DEF Approved, AllApproved
<1>5. \A a : Approved(a)' = Approved(a) /\ Approved(a) \subseteq AllApproved
  BY <1>3, <1>4
<1>6. \A a : TakenBack(a)' = TakenBack(a)
  BY <1>5 DEF TakenBack
<1> QED BY <1>1, <1>2, <1>5, <1>6 DEF CorrectedInv

LEMMA CorrectedStep == BooksInv /\ CorrectedInv /\ [PostTradeNext]_postTradeVars => CorrectedInv'
<1> SUFFICES ASSUME BooksInv, CorrectedInv, [PostTradeNext]_postTradeVars PROVE CorrectedInv'
  OBVIOUS
<1>1. ASSUME NEW e \in Executions, NEW a \in Accounts, NEW side \in {"BUY", "SELL"},
             NEW q \in Quantities, NEW p \in Prices, process_simulated_fill(e, a, side, q, p)
      PROVE  CorrectedInv'
  BY <1>1, FillCorrected
<1>2. ASSUME NEW c \in Corrections, NEW e \in Executions, NEW type \in EffectTypes,
             NEW u \in Operators, RequestCorrection(c, e, type, u)
      PROVE  CorrectedInv'
  <2> DEFINE row == [status |-> "PENDING", trade |-> e, type |-> type, by |-> u]
  <2>1. /\ UNCHANGED <<holding, trade, effects>> /\ correction' = [correction EXCEPT ![c] = row]
        /\ correction[c].status = "NONE"
    BY <1>2 DEF RequestCorrection
  <2>2. row.status # "APPROVED"
    OBVIOUS
  <2> HIDE DEF row
  <2>3. /\ DOMAIN correction' = Corrections /\ correction'[c] = row
        /\ \A d \in Corrections \ {c} : correction'[d] = correction[d]
    BY <2>1 DEF CorrectedInv
  <2>4. AllApproved' = AllApproved /\ c \notin AllApproved
    BY <2>1, <2>2, <2>3 DEF AllApproved
  <2>5. \A d \in AllApproved : correction'[d] = correction[d]
    BY <2>3, <2>4 DEF AllApproved
  <2>6. RequestedRows'
    BY <2>3 DEF CorrectedInv, RequestedRows, row
  <2> QED BY <2>1, <2>3, <2>4, <2>5, <2>6, OthersCorrected
<1>3. ASSUME NEW c \in Corrections, NEW u \in Operators, ApproveCorrection(c, u)
      PROVE  CorrectedInv'
  BY <1>3, ApproveCorrected
<1>4. ASSUME UNCHANGED <<holding, trade, effects, correction>>
      PROVE  CorrectedInv'
  <2>1. AllApproved' = AllApproved /\ DOMAIN correction' = Corrections /\ RequestedRows'
    BY <1>4 DEF AllApproved, CorrectedInv, RequestedRows
  <2> QED BY <1>4, <2>1, OthersCorrected
<1>5. ASSUME NEW x \in Tickets, TicketStep(x)
      PROVE  CorrectedInv'
  BY <1>4, <1>5 DEF TicketStep
<1>6. CASE UNCHANGED postTradeVars
  BY <1>4, <1>6 DEF postTradeVars
<1> QED BY <1>1, <1>2, <1>3, <1>5, <1>6 DEF PostTradeNext

LEMMA CorrectedStart == PostTradeInit => CorrectedInv
<1> SUFFICES ASSUME PostTradeInit PROVE CorrectedInv
  OBVIOUS
<1>1. AllApproved = {} /\ DOMAIN correction = Corrections /\ RequestedRows
  BY DEF PostTradeInit, AllApproved, NoCorrection, RequestedRows
<1>2. \A a : EffectsOf(a) = {} /\ Approved(a) = {}
  BY <1>1 DEF EffectsOf, Approved, AllApproved, PostTradeInit
<1>3. \A f : SumFunctionOnSet(f, {}) = 0
  BY SumEmpty
<1>4. \A a \in Accounts : holding[a] = 0
  BY DEF PostTradeInit
<1>5. \A a \in Accounts :
         SumQuantities(EffectsOf(a)) = 0 /\ SumFunctionOnSet(TakenBack(a), Approved(a)) = 0
  BY <1>2, <1>3 DEF SumQuantities
<1> QED BY <1>1, <1>4, <1>5, FS_EmptySet DEF CorrectedInv

\* Position, tax lots and cost basis of an account agree, the position effects are
\* the same less what approved corrections took back, and the cash is what the
\* settlement instructions moved: for any number of accounts, executions, lots
\* and corrections, and all quantities, prices and fees.
THEOREM BooksStayInAgreement == PostTradeSpec => []BooksAgree
<1>1. PostTradeInit => BooksInv /\ CorrectedInv
  BY BooksStart, CorrectedStart
<1>2. BooksInv /\ CorrectedInv /\ [PostTradeNext]_postTradeVars => (BooksInv /\ CorrectedInv)'
  BY BooksStep, CorrectedStep
<1>3. BooksInv /\ CorrectedInv => BooksAgree
  BY DEF BooksInv, FillsAgree, CorrectedInv, BooksAgree, PositionQuantity, EffectsOf, CashOf
<1> QED BY <1>1, <1>2, <1>3, PTL DEF PostTradeSpec

\* dispose_fifo uses lots in the order of their acquisition and loses neither
\* units nor cost: realized P&L is cash gained plus the cost of what is held.
THEOREM FifoExplainsProfit == PostTradeSpec => []FifoExplainsPnL
<1>1. BooksInv => FifoExplainsPnL
  BY DEF BooksInv
<1> QED BY <1>1, BooksStart, BooksStep, PTL DEF PostTradeSpec

=============================================================================
