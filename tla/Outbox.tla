------------------------------- MODULE Outbox --------------------------------
(***************************************************************************)
(* The transactional outbox of apps/foundation: enqueue_event,             *)
(* claim_outbox_batch, publish_batch and mark_publish_result on one side   *)
(* of the JetStream broker, consume_once and the consumer loop of          *)
(* consume_simulated_orders on the other.                                  *)
(*                                                                         *)
(* Each database transaction is one step.  Publishing is not: a publisher  *)
(* claims a batch, sends its events one by one and marks the results when  *)
(* the whole batch has been sent, so its lease may expire, another         *)
(* publisher may claim the same rows, and it may die at every point in     *)
(* between.  Row ids are the events themselves, in order of insertion.     *)
(***************************************************************************)
EXTENDS Naturals, FiniteSets

CONSTANTS
    Events,       \* outbox rows, by primary key
    Routable,     \* rows whose event_type subject_for accepts
    Publishers,   \* processes running publish_outbox
    Consumers,    \* processes running consume_simulated_orders
    Limit,        \* rows per claim
    MaxAttempts,  \* OUTBOX_MAX_ATTEMPTS
    MaxCopies,    \* bound: messages the broker may hold for one event id
    MaxFailures,  \* bound: transient publish errors
    MaxCrashes    \* bound: process deaths and failed mutations

ASSUME OutboxAssumption ==
    /\ Events \subseteq Nat /\ Routable \subseteq Events
    /\ Limit \in Nat \ {0} /\ MaxAttempts \in Nat \ {0} /\ MaxCopies \in Nat \ {0}
    /\ MaxFailures \in Nat /\ MaxCrashes \in Nat

VARIABLES
    row,        \* OutboxEvent: state, attempt_count, and whether its lease
                \*   (when CLAIMED) or its backoff (when PENDING) is running
    pub,        \* what each publisher is in the middle of
    healthy,    \* OUTBOX_LAST_SUCCESS is recent, no alert
    sent,       \* messages the stream ever stored for the event
    stream,     \* messages <<event, copy>> not acknowledged yet
    cons,       \* what each consumer is in the middle of
    processed,  \* ProcessedEvent rows of the consumer
    effects,    \* committed mutations of the consumer, by event
    failures, crashes

vars == <<row, pub, healthy, sent, stream, cons, processed, effects, failures, crashes>>

broker == <<sent, stream>>
inbox  == <<cons, processed, effects>>

RowStates == {"NONE", "PENDING", "CLAIMED", "PUBLISHED", "DEAD_LETTER"}
Messages  == Events \X (1 .. MaxCopies)

Resting == [pc |-> "idle", todo |-> {}, ok |-> {}, bad |-> {}]
Waiting == [pc |-> "idle"]

Init == /\ row = [e \in Events |-> [st |-> "NONE", att |-> 0, wait |-> FALSE]]
        /\ pub = [w \in Publishers |-> Resting]
        /\ healthy = TRUE
        /\ sent = [e \in Events |-> 0] /\ stream = {}
        /\ cons = [c \in Consumers |-> Waiting]
        /\ processed = {} /\ effects = [e \in Events |-> 0]
        /\ failures = 0 /\ crashes = 0

-----------------------------------------------------------------------------
(* Rows.                                                                   *)

\* A business transaction commits its event.  Ids are allocated before the
\* commit, so rows need not appear in the order of their ids.
enqueue_event(e) ==
    /\ row[e].st = "NONE"
    /\ row' = [row EXCEPT ![e].st = "PENDING"]
    /\ UNCHANGED <<pub, healthy, broker, inbox, failures, crashes>>

\* claimed_at is lease_seconds ago, or next_attempt_at has come.
TimePasses(e) ==
    /\ row[e].st \in {"PENDING", "CLAIMED"} /\ row[e].wait
    /\ row' = [row EXCEPT ![e].wait = FALSE]
    /\ UNCHANGED <<pub, healthy, broker, inbox, failures, crashes>>

\* Variant: a claim whose lease has expired is not taken over.
Eligible_PendingOnly(e) == row[e].st = "PENDING" /\ ~row[e].wait

Eligible(e) == row[e].st \in {"PENDING", "CLAIMED"} /\ ~row[e].wait

\* order_by("id")[:limit]
Batch == LET due == {e \in Events : Eligible(e)}
         IN  {e \in due : Cardinality({f \in due : f < e}) < Limit}

\* The state mark_publish_result gives to row r, which it reads again under a
\* lock but whose state it does not look at.
MarkedRow(r, failed) ==
    LET att == r.att + 1
    IN  CASE ~failed -> [st |-> "PUBLISHED", att |-> att, wait |-> FALSE]
          [] failed /\ att >= MaxAttempts -> [st |-> "DEAD_LETTER", att |-> att, wait |-> FALSE]
          [] OTHER -> [st |-> "PENDING", att |-> att, wait |-> TRUE]

-----------------------------------------------------------------------------
(* publish_batch.                                                          *)

claim_outbox_batch(w) ==
    /\ pub[w].pc = "idle" /\ Batch # {}
    /\ row' = [e \in Events |-> IF e \in Batch
                                THEN [row[e] EXCEPT !.st = "CLAIMED", !.wait = TRUE]
                                ELSE row[e]]
    /\ pub' = [pub EXCEPT ![w] = [Resting EXCEPT !.pc = "busy", !.todo = Batch]]
    /\ UNCHANGED <<healthy, broker, inbox, failures, crashes>>

ClaimNothing(w) ==
    /\ pub[w].pc = "idle" /\ Batch = {}
    /\ pub' = [pub EXCEPT ![w].pc = "empty"]
    /\ UNCHANGED <<row, healthy, broker, inbox, failures, crashes>>

Exhausted == \E e \in Events : row[e].st = "DEAD_LETTER"

\* An empty claim refreshes the heartbeat unless there are dead letters.
IdlePoll(w) ==
    /\ pub[w].pc = "empty"
    /\ healthy' = (healthy \/ ~Exhausted)
    /\ pub' = [pub EXCEPT ![w] = Resting]
    /\ UNCHANGED <<row, broker, inbox, failures, crashes>>

\* The heartbeat gets old and the alert fires.
HeartbeatExpires ==
    /\ healthy /\ healthy' = FALSE
    /\ UNCHANGED <<row, pub, broker, inbox, failures, crashes>>

\* Events of a batch are sent in the order of their ids.
Sending(w, e) == /\ pub[w].pc = "busy" /\ e \in pub[w].todo
                 /\ \A f \in pub[w].todo : e <= f

Store(e) == /\ sent' = [sent EXCEPT ![e] = @ + 1]
            /\ stream' = stream \cup {<<e, sent[e] + 1>>}

\* JetStream stores an event it does not know, and one it has forgotten (its
\* duplicate window for Nats-Msg-Id has passed); otherwise it only confirms.
Accepted(e) == \/ sent[e] < MaxCopies /\ Store(e)
               \/ sent[e] > 0 /\ UNCHANGED broker

PublishOk(w, e) ==
    /\ Sending(w, e) /\ e \in Routable
    /\ Accepted(e)
    /\ pub' = [pub EXCEPT ![w].todo = @ \ {e}, ![w].ok = @ \cup {e}]
    /\ UNCHANGED <<row, healthy, inbox, failures, crashes>>

\* Variant: the rest of the batch is reported as sent.
Break_RestIsSent(w, e) ==
    pub' = [pub EXCEPT ![w].todo = {}, ![w].bad = {e}, ![w].ok = @ \cup (pub[w].todo \ {e})]

\* The first error ends the loop: the rows behind it are neither sent nor
\* marked, and stay CLAIMED until their lease expires.
Break(w, e) == pub' = [pub EXCEPT ![w].todo = {}, ![w].bad = {e}]

\* A timeout or a lost connection, with or without the message stored.
PublishError(w, e) ==
    /\ Sending(w, e) /\ e \in Routable /\ failures < MaxFailures
    /\ Accepted(e) \/ UNCHANGED broker
    /\ Break(w, e)
    /\ failures' = failures + 1
    /\ UNCHANGED <<row, healthy, inbox, crashes>>

\* subject_for raises NON_CANONICAL_EVENT_SUBJECT, every time.
PublishUnroutable(w, e) ==
    /\ Sending(w, e) /\ e \notin Routable
    /\ Break(w, e)
    /\ UNCHANGED <<row, healthy, broker, inbox, failures, crashes>>

\* mark_publish_result for the next of the results, and the heartbeat when it
\* was published.
MarkNext(w, e) ==
    LET results == pub[w].ok \cup pub[w].bad
        rest == [pub[w] EXCEPT !.ok = @ \ {e}, !.bad = @ \ {e}]
    IN  /\ pub[w].pc = "busy" /\ pub[w].todo = {}
        /\ e \in results /\ \A f \in results : e <= f
        /\ row' = [row EXCEPT ![e] = MarkedRow(row[e], e \in pub[w].bad)]
        /\ healthy' = (healthy \/ e \in pub[w].ok)
        /\ pub' = [pub EXCEPT ![w] = IF results = {e} THEN Resting ELSE rest]
        /\ UNCHANGED <<broker, inbox, failures, crashes>>

\* The process dies, or connect or drain raises, which ends the command: no
\* result is marked.  It is started again with nothing in hand.
PublisherDies(w) ==
    /\ pub[w].pc = "busy" /\ crashes < MaxCrashes
    /\ pub' = [pub EXCEPT ![w] = Resting]
    /\ crashes' = crashes + 1
    /\ UNCHANGED <<row, healthy, broker, inbox, failures>>

-----------------------------------------------------------------------------
(* The consumer.                                                           *)

\* Variant: the message is acknowledged when it is fetched.
Fetch_AckFirst(c, m) ==
    /\ cons[c].pc = "idle" /\ m \in stream
    /\ cons' = [cons EXCEPT ![c] = [pc |-> IF m[1] \in processed THEN "ack" ELSE "mutate",
                                    msg |-> m]]
    /\ stream' = stream \ {m}
    /\ UNCHANGED <<row, pub, healthy, sent, processed, effects, failures, crashes>>

\* A message that is not acknowledged is delivered, and delivered again, to
\* any consumer.  consume_once looks for the ProcessedEvent first.
Fetch(c, m) ==
    /\ cons[c].pc = "idle" /\ m \in stream
    /\ cons' = [cons EXCEPT ![c] = [pc |-> IF m[1] \in processed THEN "ack" ELSE "mutate",
                                    msg |-> m]]
    /\ UNCHANGED <<row, pub, healthy, broker, processed, effects, failures, crashes>>

\* Variant: no unique constraint on (event_id, consumer_name).
InsertWins_Always(e) == TRUE

\* The unique constraint lets one transaction insert the ProcessedEvent.
InsertWins(e) == e \notin processed

\* Mutation and ProcessedEvent commit together, or the insert fails and both
\* are rolled back; either way the message is acknowledged next.
consume_once(c) ==
    LET e == cons[c].msg[1]
    IN  /\ cons[c].pc = "mutate"
        /\ effects' = IF InsertWins(e) THEN [effects EXCEPT ![e] = @ + 1] ELSE effects
        /\ processed' = processed \cup {e}
        /\ cons' = [cons EXCEPT ![c].pc = "ack"]
        /\ UNCHANGED <<row, pub, healthy, broker, failures, crashes>>

Ack(c) ==
    /\ cons[c].pc = "ack"
    /\ stream' = stream \ {cons[c].msg}
    /\ cons' = [cons EXCEPT ![c] = Waiting]
    /\ UNCHANGED <<row, pub, healthy, sent, processed, effects, failures, crashes>>

\* The mutation raises (nak), or the consumer dies before or after its commit.
ConsumerFails(c) ==
    /\ cons[c].pc # "idle" /\ crashes < MaxCrashes
    /\ cons' = [cons EXCEPT ![c] = Waiting]
    /\ crashes' = crashes + 1
    /\ UNCHANGED <<row, pub, healthy, broker, processed, effects, failures>>

-----------------------------------------------------------------------------
Send(w) == \E e \in Events : PublishOk(w, e) \/ PublishError(w, e) \/ PublishUnroutable(w, e)
Mark(w) == \E e \in Events : MarkNext(w, e)
Poll(w) == claim_outbox_batch(w) \/ ClaimNothing(w) \/ IdlePoll(w)
Receive(c) == \E m \in stream : Fetch(c, m)

Next ==
    \/ \E e \in Events : enqueue_event(e) \/ TimePasses(e)
    \/ \E w \in Publishers : Poll(w) \/ Send(w) \/ Mark(w) \/ PublisherDies(w)
    \/ \E c \in Consumers : Receive(c) \/ consume_once(c) \/ Ack(c) \/ ConsumerFails(c)
    \/ HeartbeatExpires

Spec == Init /\ [][Next]_vars

\* publish_outbox and the consumer loop run for ever and are restarted when
\* they die; a publish returns or times out; leases and backoffs run out.
Fairness ==
    /\ \A e \in Events : WF_vars(TimePasses(e))
    /\ \A w \in Publishers : WF_vars(Poll(w)) /\ WF_vars(Send(w)) /\ WF_vars(Mark(w))
    /\ \A c \in Consumers : WF_vars(Receive(c)) /\ WF_vars(consume_once(c)) /\ WF_vars(Ack(c))

FairSpec == Spec /\ Fairness

-----------------------------------------------------------------------------
(* Properties.                                                             *)

\* Rows, messages and processes have the shape the schema and the loops give
\* them; a batch in hand is never also a batch sent.
TypeOK ==
    /\ row \in [Events -> [st : RowStates, att : Nat, wait : BOOLEAN]]
    /\ pub \in [Publishers -> [pc : {"idle", "empty", "busy"}, todo : SUBSET Events,
                               ok : SUBSET Events, bad : SUBSET Events]]
    /\ healthy \in BOOLEAN
    /\ sent \in [Events -> 0 .. MaxCopies] /\ stream \subseteq Messages
    /\ cons \in [Consumers -> {Waiting} \cup [pc : {"mutate", "ack"}, msg : Messages]]
    /\ processed \subseteq Events /\ effects \in [Events -> Nat]
    /\ failures \in 0 .. MaxFailures /\ crashes \in 0 .. MaxCrashes

\* No event is lost: until it has had its effect, a committed event is either
\* still in the outbox or in the stream unacknowledged, whatever batches were
\* broken off, leases lost and processes killed.
NothingLost ==
    \A e \in Events : row[e].st # "NONE" /\ effects[e] = 0 =>
        \/ row[e].st \in {"PENDING", "CLAIMED", "DEAD_LETTER"}
        \/ \E m \in stream : m[1] = e

\* The outbox drains: no row stays PENDING or CLAIMED for ever, neither the
\* ones behind an unroutable event nor the ones of a publisher that died.
OutboxDrains ==
    \A e \in Events : row[e].st = "PENDING" ~> row[e].st \in {"PUBLISHED", "DEAD_LETTER"}

\* OUTBOX_MAX_ATTEMPTS errors in a row end in DEAD_LETTER, of a routable event
\* too, and then nobody sends it again; its effect is missing for good unless
\* one of the sends that failed was stored after all.
Unsent(e) == row[e].st = "DEAD_LETTER" /\ sent[e] = 0

\* The outbox and the inbox together implement EventDelivery.
Delivery == INSTANCE EventDelivery
                WITH accepted <- {e \in Events : row[e].st # "NONE"},
                     abandoned <- {e \in Events : Unsent(e)}

\* At most one effect per committed event, and none for any other.
ImplementsDelivery == Delivery!Spec

\* The same with the eventual effect of every routable event that is not a dead
\* letter the broker never stored: a send that timed out and was dead-lettered
\* but did reach the stream still has its effect, once.
ImplementsLiveDelivery == Delivery!LiveSpec
=============================================================================
