--------------------------- MODULE FinancialEvents ---------------------------
(***************************************************************************)
(* The outbox and the inbox of the financial boundary                      *)
(* (financial_boundary/eventing.py).  Unlike the outbox of apps/foundation *)
(* a claim has no owner: a row is IN_FLIGHT until its lease ends, and      *)
(* whoever knows its id may mark it published.  The repository has no      *)
(* publishing loop for it; publishers are modelled from the functions they *)
(* call: claim, send, then mark, and they may die or be late at any point. *)
(* Provider webhooks (webhooks.py) reach the same inbox without an outbox. *)
(***************************************************************************)
EXTENDS Naturals, Sequences, FiniteSets

CONSTANTS
    OutboxIds,      \* event ids of the outbox
    WebhookIds,     \* event ids derived from a provider's event id
    Payloads,       \* payload hashes
    Publishers,
    MaxAttempts,    \* bound on the claims of a row
    MaxRetries,     \* bound on DeadLetterEvent.retry_count
    NoPayload       \* no row in the inbox

ASSUME FinancialEventsAssumption ==
    OutboxIds \cap WebhookIds = {} /\ NoPayload \notin Payloads

VARIABLES
    outbox,     \* FinancialOutboxEvent: status, attempts and payload_hash
    pending,    \* events each publisher has claimed and not sent yet
    sentBy,     \* events each publisher has sent and not marked yet
    wire,       \* envelopes <<event_id, payload_hash>> that can be delivered
    inbox,      \* payload_hash of the ProcessedEvent of each event
    handled,    \* payloads whose handler has committed, for each event
    deadLetter  \* DeadLetterEvent.retry_count

eventVars == <<outbox, pending, sentBy, wire, inbox, handled, deadLetter>>

EventIds == OutboxIds \cup WebhookIds

EventsInit ==
    /\ outbox = [e \in OutboxIds |-> [status |-> "NONE", attempts |-> 0, payload |-> NoPayload]]
    /\ pending = [p \in Publishers |-> {}] /\ sentBy = [p \in Publishers |-> {}]
    /\ wire = {}
    /\ inbox = [e \in EventIds |-> NoPayload]
    /\ handled = [e \in EventIds |-> <<>>]
    /\ deadLetter = [e \in EventIds |-> 0]

-----------------------------------------------------------------------------
(* The outbox.                                                             *)

enqueue_financial_event(e, hash) ==
    /\ outbox[e].status = "NONE"
    /\ outbox' = [outbox EXCEPT ![e] = [status |-> "PENDING", attempts |-> 0, payload |-> hash]]
    /\ UNCHANGED <<pending, sentBy, wire, inbox, handled, deadLetter>>

\* Variant: the row counts as published when a publisher takes it.
ClaimedStatus_Early == "PUBLISHED"

ClaimedStatus == "IN_FLIGHT"

\* One row at a time; a batch is a sequence of such steps under one lock.
claim_outbox_batch(p, e) ==
    /\ outbox[e].status = "PENDING" /\ outbox[e].attempts < MaxAttempts
    /\ outbox' = [outbox EXCEPT ![e].status = ClaimedStatus, ![e].attempts = @ + 1]
    /\ pending' = [pending EXCEPT ![p] = @ \cup {e}]
    /\ UNCHANGED <<sentBy, wire, inbox, handled, deadLetter>>

\* The publisher hands the event to the broker.
Send(p, e) ==
    /\ e \in pending[p]
    /\ pending' = [pending EXCEPT ![p] = @ \ {e}]
    /\ sentBy' = [sentBy EXCEPT ![p] = @ \cup {e}]
    /\ wire' = wire \cup {<<e, outbox[e].payload>>}
    /\ UNCHANGED <<outbox, inbox, handled, deadLetter>>

\* The row needs to be IN_FLIGHT, for this publisher or for another one; a row
\* that is not is refused and stays as it is.
mark_outbox_published(p, e) ==
    /\ e \in sentBy[p]
    /\ outbox' = IF outbox[e].status = "IN_FLIGHT"
                 THEN [outbox EXCEPT ![e].status = "PUBLISHED"] ELSE outbox
    /\ sentBy' = [sentBy EXCEPT ![p] = @ \ {e}]
    /\ UNCHANGED <<pending, wire, inbox, handled, deadLetter>>

\* The lease of an IN_FLIGHT row has ended.
release_expired_claims(e) ==
    /\ outbox[e].status = "IN_FLIGHT"
    /\ outbox' = [outbox EXCEPT ![e].status = "PENDING"]
    /\ UNCHANGED <<pending, sentBy, wire, inbox, handled, deadLetter>>

\* A publisher dies and forgets what it had claimed.
PublisherDies(p) ==
    /\ pending[p] \cup sentBy[p] # {}
    /\ pending' = [pending EXCEPT ![p] = {}] /\ sentBy' = [sentBy EXCEPT ![p] = {}]
    /\ UNCHANGED <<outbox, wire, inbox, handled, deadLetter>>

-----------------------------------------------------------------------------
(* The inbox.  An envelope may be delivered any number of times.           *)

\* A provider sends a verified webhook, perhaps again and with other contents.
ProviderSends(e, hash) ==
    /\ <<e, hash>> \notin wire
    /\ wire' = wire \cup {<<e, hash>>}
    /\ UNCHANGED <<outbox, pending, sentBy, inbox, handled, deadLetter>>

\* The primary key of ProcessedEvent decides.
IsNew(e, hash) == inbox[e] = NoPayload

\* The inbox row and the handler's effect are one transaction.  What is not new is
\* a duplicate or an EventReplayConflict, and neither changes anything.
consume_financial_event(e, hash) ==
    /\ <<e, hash>> \in wire /\ IsNew(e, hash)
    /\ inbox' = [inbox EXCEPT ![e] = hash]
    /\ handled' = [handled EXCEPT ![e] = Append(@, hash)]
    /\ UNCHANGED <<outbox, pending, sentBy, wire, deadLetter>>

\* The handler fails: its transaction is rolled back and the failure recorded.
record_dead_letter(e, hash) ==
    /\ <<e, hash>> \in wire /\ IsNew(e, hash)
    /\ deadLetter[e] < MaxRetries
    /\ deadLetter' = [deadLetter EXCEPT ![e] = @ + 1]
    /\ UNCHANGED <<outbox, pending, sentBy, wire, inbox, handled>>

-----------------------------------------------------------------------------
EventsNext ==
    \/ \E e \in OutboxIds :
          \/ \E hash \in Payloads : enqueue_financial_event(e, hash)
          \/ release_expired_claims(e)
          \/ \E p \in Publishers :
                claim_outbox_batch(p, e) \/ Send(p, e) \/ mark_outbox_published(p, e)
    \/ \E p \in Publishers : PublisherDies(p)
    \/ \E e \in WebhookIds, hash \in Payloads : ProviderSends(e, hash)
    \/ \E e \in EventIds, hash \in Payloads :
          consume_financial_event(e, hash) \/ record_dead_letter(e, hash)

EventsSpec == EventsInit /\ [][EventsNext]_eventVars

-----------------------------------------------------------------------------
(* Properties.                                                             *)

\* Although a late publisher may mark a row that another one has claimed, a row is
\* PUBLISHED only when its event has been handed to the broker: a publisher that
\* dies or is late costs a second delivery, never the event.  And the handler's
\* effect is committed at most once per event id, with the contents the inbox
\* remembers, whatever is delivered again or replayed with other contents.
SentOnceHandledOnce ==
    /\ \A e \in OutboxIds :
          outbox[e].status = "PUBLISHED" => <<e, outbox[e].payload>> \in wire
    /\ \A e \in EventIds :
          handled[e] = (IF inbox[e] = NoPayload THEN <<>> ELSE <<inbox[e]>>)
=============================================================================
