---------------------------- MODULE OutboxProofs -----------------------------
(***************************************************************************)
(* For any number of events, publishers and consumers, any batch size and  *)
(* any number of copies, failures and crashes: no committed event is lost, *)
(* and outbox and inbox together implement the safety part of              *)
(* EventDelivery (at most one effect, only of committed events).           *)
(*                                                                         *)
(* The argument does not use leases at all: a publisher reports as sent    *)
(* only what the broker has confirmed, and a message leaves the stream     *)
(* only after the ProcessedEvent of its event is committed.                *)
(***************************************************************************)
EXTENDS Outbox, TLAPS

-----------------------------------------------------------------------------
Written == {e \in Events : row[e].st # "NONE"}

\* What is PUBLISHED, or about to be marked so, has been stored by the broker.
SentInv ==
    /\ \A e \in Events : row[e].st = "PUBLISHED" => sent[e] > 0
    /\ \A w \in Publishers : \A e \in pub[w].ok : sent[e] > 0

\* What the broker has stored stays in the stream until it is processed.
StreamInv ==
    /\ \A e \in Events : sent[e] > 0 /\ e \notin processed => \E m \in stream : m[1] = e
    /\ \A c \in Consumers : cons[c].pc = "ack" => cons[c].msg[1] \in processed

\* One effect for each ProcessedEvent.
EffectInv == \A e \in Events : effects[e] = IF e \in processed THEN 1 ELSE 0

\* Only rows that were written are claimed, sent and consumed.
OriginInv ==
    /\ \A w \in Publishers : pub[w].todo \subseteq Written /\ pub[w].ok \subseteq Written
                             /\ pub[w].bad \subseteq Written
    /\ \A m \in stream : m[1] \in Written
    /\ \A c \in Consumers : cons[c].pc # "idle" => cons[c].msg[1] \in Written

IInv == TypeOK /\ SentInv /\ StreamInv /\ EffectInv /\ OriginInv

-----------------------------------------------------------------------------
\* Nothing is written, sent or processed initially.
LEMMA InitIInv == Init => IInv
<1> SUFFICES ASSUME Init PROVE IInv
  OBVIOUS
<1> USE OutboxAssumption
<1>1. TypeOK
  BY DEF Init, TypeOK, RowStates, Resting, Waiting, Messages
<1>2. SentInv
  BY DEF Init, SentInv, Resting
<1>3. StreamInv
  BY DEF Init, StreamInv, Waiting
<1>4. EffectInv /\ OriginInv
  BY DEF Init, EffectInv, OriginInv, Resting, Waiting
<1> QED BY <1>1, <1>2, <1>3, <1>4 DEF IInv

\* mark_publish_result returns a row, PUBLISHED only without an error, and
\* never one that was not written.
LEMMA MarkedRowFacts ==
    ASSUME NEW r \in [st : RowStates, att : Nat, wait : BOOLEAN], NEW failed \in BOOLEAN
    PROVE  LET m == MarkedRow(r, failed)
           IN  /\ m \in [st : RowStates, att : Nat, wait : BOOLEAN]
               /\ m.st # "NONE"
               /\ m.st = "PUBLISHED" => ~failed
<1>1. r.att + 1 \in Nat
  OBVIOUS
<1> QED BY <1>1 DEF MarkedRow, RowStates

\* A step that only changes rows, and gives no row a new PUBLISHED state.
LEMMA RowStep ==
    ASSUME IInv, row' \in [Events -> [st : RowStates, att : Nat, wait : BOOLEAN]],
           \A e \in Events : /\ row[e].st # "NONE" => row'[e].st # "NONE"
                             /\ row'[e].st = "PUBLISHED" => row[e].st = "PUBLISHED",
           UNCHANGED <<pub, healthy, broker, inbox, failures, crashes>>
    PROVE  IInv'
<1>1. TypeOK'
  BY DEF IInv, TypeOK, broker, inbox
<1>2. SentInv'
  BY DEF IInv, SentInv, broker, inbox
<1>3. StreamInv' /\ EffectInv'
  BY DEF IInv, StreamInv, EffectInv, broker, inbox
<1>4. OriginInv'
  BY DEF IInv, OriginInv, Written, broker, inbox
<1> QED BY <1>1, <1>2, <1>3, <1>4 DEF IInv

\* A step of one publisher that leaves rows, broker and inbox alone.
LEMMA PublisherStep ==
    ASSUME IInv, NEW w \in Publishers,
           NEW p \in [pc : {"idle", "empty", "busy"}, todo : SUBSET Events,
                      ok : SUBSET Events, bad : SUBSET Events],
           p.todo \subseteq Written, p.ok \subseteq pub[w].ok, p.bad \subseteq Written,
           pub' = [pub EXCEPT ![w] = p],
           healthy' \in BOOLEAN, failures' \in 0 .. MaxFailures, crashes' \in 0 .. MaxCrashes,
           UNCHANGED <<row, broker, inbox>>
    PROVE  IInv'
<1>1. TypeOK'
  BY DEF IInv, TypeOK, broker, inbox
<1>2. \A x \in Publishers : pub'[x] = pub[x] \/ (x = w /\ pub'[x] = p)
  BY DEF IInv, TypeOK
<1>3. SentInv'
  BY <1>2 DEF IInv, SentInv, broker, inbox
<1>4. StreamInv' /\ EffectInv'
  BY DEF IInv, StreamInv, EffectInv, broker, inbox
<1>5. OriginInv'
  BY <1>2 DEF IInv, OriginInv, Written, broker, inbox
<1> QED BY <1>1, <1>3, <1>4, <1>5 DEF IInv

\* What the broker may do with a publish: the event ends up stored, nothing
\* leaves the stream, and only messages of that event enter it.
LEMMA BrokerFacts ==
    ASSUME IInv, NEW e \in Events, Accepted(e)
    PROVE  /\ sent' \in [Events -> 0 .. MaxCopies] /\ stream' \subseteq Messages
           /\ sent'[e] > 0
           /\ \A f \in Events : f # e => sent'[f] = sent[f]
           /\ stream \subseteq stream'
           /\ \A m \in stream' : m \in stream \/ m[1] = e
           /\ sent[e] = 0 => \E m \in stream' : m[1] = e
<1> USE OutboxAssumption
<1>0. sent \in [Events -> 0 .. MaxCopies] /\ stream \subseteq Messages
  BY DEF IInv, TypeOK
<1>1. CASE sent[e] < MaxCopies /\ Store(e)
  <2>1. sent[e] \in 0 .. MaxCopies
    BY <1>0
  <2>2. sent[e] + 1 \in 1 .. MaxCopies
    BY <1>1, <2>1
  <2>3. <<e, sent[e] + 1>> \in Messages
    BY <2>2 DEF Messages
  <2>4. sent' = [sent EXCEPT ![e] = sent[e] + 1] /\ stream' = stream \cup {<<e, sent[e] + 1>>}
    BY <1>1 DEF Store
  <2>5. sent' \in [Events -> 0 .. MaxCopies] /\ sent'[e] > 0
        /\ \A f \in Events : f # e => sent'[f] = sent[f]
    BY <1>0, <2>2, <2>4
  <2>6. /\ stream' \subseteq Messages /\ stream \subseteq stream'
        /\ \A m \in stream' : m \in stream \/ m[1] = e
        /\ \E m \in stream' : m[1] = e
    BY <1>0, <2>3, <2>4
  <2> QED BY <2>5, <2>6
<1>2. CASE sent[e] > 0 /\ UNCHANGED broker
  BY <1>0, <1>2 DEF broker
<1> QED BY <1>1, <1>2 DEF Accepted

\* Sending e, whether the publisher learns of it (p.ok) or not.
LEMMA SendStep ==
    ASSUME IInv, NEW w \in Publishers, NEW e \in Events, e \in Written, Accepted(e),
           NEW p \in [pc : {"idle", "empty", "busy"}, todo : SUBSET Events,
                      ok : SUBSET Events, bad : SUBSET Events],
           p.todo \subseteq Written, p.ok \subseteq pub[w].ok \cup {e}, p.bad \subseteq Written,
           pub' = [pub EXCEPT ![w] = p], failures' \in 0 .. MaxFailures,
           UNCHANGED <<row, healthy, inbox, crashes>>
    PROVE  IInv'
<1>1. /\ sent' \in [Events -> 0 .. MaxCopies] /\ stream' \subseteq Messages
      /\ sent'[e] > 0
      /\ \A f \in Events : f # e => sent'[f] = sent[f]
      /\ stream \subseteq stream'
      /\ \A m \in stream' : m \in stream \/ m[1] = e
      /\ sent[e] = 0 => \E m \in stream' : m[1] = e
  BY BrokerFacts
<1>2. TypeOK'
  BY <1>1 DEF IInv, TypeOK, inbox
<1>3. \A x \in Publishers : pub'[x] = pub[x] \/ (x = w /\ pub'[x] = p)
  BY DEF IInv, TypeOK
<1>4. \A f \in Events : sent[f] > 0 => sent'[f] > 0
  BY <1>1
<1>5. \A x \in Publishers : pub[x].ok \subseteq Events
  BY DEF IInv, TypeOK
<1>6. SentInv'
  BY <1>1, <1>3, <1>4, <1>5 DEF IInv, SentInv
<1>7. \A f \in Events : sent'[f] > 0 /\ f \notin processed => \E m \in stream' : m[1] = f
  <2> SUFFICES ASSUME NEW f \in Events, sent'[f] > 0, f \notin processed
               PROVE  \E m \in stream' : m[1] = f
    OBVIOUS
  <2>1. CASE sent[f] > 0
    BY <1>1, <2>1 DEF IInv, StreamInv
  <2>2. CASE sent[f] = 0
    BY <1>1, <2>2
  <2>3. sent[f] \in 0 .. MaxCopies
    BY DEF IInv, TypeOK
  <2> QED BY <2>1, <2>2, <2>3
<1>8. StreamInv' /\ EffectInv'
  BY <1>7 DEF IInv, StreamInv, EffectInv, inbox
<1>9. OriginInv'
  BY <1>1, <1>3 DEF IInv, OriginInv, Written, inbox
<1> QED BY <1>2, <1>6, <1>8, <1>9 DEF IInv

\* Marking a result: PUBLISHED only for an event the broker has confirmed.
LEMMA MarkStep ==
    ASSUME IInv, NEW w \in Publishers, NEW e \in Events, MarkNext(w, e)
    PROVE  IInv'
<1> DEFINE results == pub[w].ok \cup pub[w].bad
           failed == e \in pub[w].bad
           p == IF results = {e} THEN Resting
                ELSE [pub[w] EXCEPT !.ok = @ \ {e}, !.bad = @ \ {e}]
           m == MarkedRow(row[e], failed)
<1>1. /\ e \in results /\ row' = [row EXCEPT ![e] = m]
      /\ healthy' = (healthy \/ e \in pub[w].ok)
      /\ pub' = [pub EXCEPT ![w] = p]
      /\ UNCHANGED <<broker, inbox, failures, crashes>>
  BY DEF MarkNext
<1>2. /\ row[e] \in [st : RowStates, att : Nat, wait : BOOLEAN]
      /\ pub[w] \in [pc : {"idle", "empty", "busy"}, todo : SUBSET Events,
                     ok : SUBSET Events, bad : SUBSET Events]
  BY DEF IInv, TypeOK
<1>3. /\ p \in [pc : {"idle", "empty", "busy"}, todo : SUBSET Events,
                ok : SUBSET Events, bad : SUBSET Events]
      /\ p.todo \subseteq pub[w].todo /\ p.ok \subseteq pub[w].ok /\ p.bad \subseteq pub[w].bad
  BY <1>2 DEF Resting
<1>4. /\ m \in [st : RowStates, att : Nat, wait : BOOLEAN] /\ m.st # "NONE"
      /\ m.st = "PUBLISHED" => ~failed
  <2>1. failed \in BOOLEAN
    OBVIOUS
  <2> HIDE DEF failed
  <2> QED BY <1>2, <2>1, MarkedRowFacts
<1>5. m.st = "PUBLISHED" => sent[e] > 0
  BY <1>1, <1>4 DEF IInv, SentInv
<1> HIDE DEF m, p, results, failed
<1>6. TypeOK'
  <2>1. healthy' \in BOOLEAN
    BY <1>1
  <2> QED BY <1>1, <1>3, <1>4, <2>1 DEF IInv, TypeOK, broker, inbox
<1>7. \A f \in Events : row'[f] = row[f] \/ (f = e /\ row'[f] = m)
  BY <1>1 DEF IInv, TypeOK
<1>8. \A x \in Publishers : pub'[x] = pub[x] \/ (x = w /\ pub'[x] = p)
  BY <1>1 DEF IInv, TypeOK
<1>9. SentInv'
  BY <1>1, <1>3, <1>5, <1>7, <1>8 DEF IInv, SentInv, broker
<1>10. StreamInv' /\ EffectInv'
  BY <1>1 DEF IInv, StreamInv, EffectInv, broker, inbox
<1>11. Written \subseteq Written'
  BY <1>4, <1>7 DEF Written
<1>12. OriginInv'
  <2>1. \A x \in Publishers : /\ pub'[x].todo \subseteq Written /\ pub'[x].ok \subseteq Written
                              /\ pub'[x].bad \subseteq Written
    BY <1>3, <1>8 DEF IInv, OriginInv
  <2> HIDE DEF Written
  <2> QED BY <1>1, <1>11, <2>1 DEF IInv, OriginInv, broker, inbox
<1> QED BY <1>6, <1>9, <1>10, <1>12 DEF IInv

\* A consumer that fetches or drops a message.
LEMMA ConsumerStep ==
    ASSUME IInv, NEW c \in Consumers,
           NEW d \in {Waiting} \cup [pc : {"mutate", "ack"}, msg : Messages],
           d.pc # "idle" => d.msg[1] \in Written,
           d.pc = "ack" => d.msg[1] \in processed,
           cons' = [cons EXCEPT ![c] = d], crashes' \in 0 .. MaxCrashes,
           UNCHANGED <<row, pub, healthy, broker, processed, effects, failures>>
    PROVE  IInv'
<1>1. TypeOK'
  BY DEF IInv, TypeOK, broker
<1>2. \A x \in Consumers : cons'[x] = cons[x] \/ (x = c /\ cons'[x] = d)
  BY DEF IInv, TypeOK
<1>3. SentInv' /\ EffectInv'
  BY DEF IInv, SentInv, EffectInv, broker
<1>4. StreamInv'
  BY <1>2 DEF IInv, StreamInv, broker
<1>5. OriginInv'
  BY <1>2 DEF IInv, OriginInv, Written, broker
<1> QED BY <1>1, <1>3, <1>4, <1>5 DEF IInv

\* The state a consumer is in when it is not idle.
LEMMA ConsumerFacts ==
    ASSUME IInv, NEW c \in Consumers, cons[c].pc # "idle"
    PROVE  /\ cons[c] \in [pc : {"mutate", "ack"}, msg : Messages]
           /\ cons[c].msg[1] \in Events /\ cons[c].msg[1] \in Written
<1>1. cons[c] \in [pc : {"mutate", "ack"}, msg : Messages]
  BY DEF IInv, TypeOK, Waiting
<1> QED BY <1>1 DEF IInv, OriginInv, Messages

\* consume_once adds the effect and the ProcessedEvent together, or neither.
LEMMA ConsumeStep ==
    ASSUME IInv, NEW c \in Consumers, consume_once(c)
    PROVE  IInv'
<1> DEFINE e == cons[c].msg[1]
           d == [cons[c] EXCEPT !.pc = "ack"]
<1>1. /\ cons[c].pc = "mutate"
      /\ effects' = IF e \notin processed THEN [effects EXCEPT ![e] = effects[e] + 1] ELSE effects
      /\ processed' = processed \cup {e} /\ cons' = [cons EXCEPT ![c] = d]
      /\ UNCHANGED <<row, pub, healthy, broker, failures, crashes>>
  BY DEF consume_once, InsertWins
<1>2. cons[c] \in [pc : {"mutate", "ack"}, msg : Messages] /\ e \in Events /\ e \in Written
  BY <1>1, ConsumerFacts
<1>3. d \in [pc : {"mutate", "ack"}, msg : Messages] /\ d.msg[1] = e
  BY <1>2
<1> HIDE DEF e, d
<1>4. TypeOK'
  BY <1>1, <1>2, <1>3 DEF IInv, TypeOK, broker
<1>5. \A x \in Consumers : cons'[x] = cons[x] \/ (x = c /\ cons'[x] = d)
  BY <1>1 DEF IInv, TypeOK
<1>6. SentInv'
  BY <1>1 DEF IInv, SentInv, broker
<1>7. EffectInv'
  <2>1. effects \in [Events -> Nat] /\ \A f \in Events : effects[f] = IF f \in processed THEN 1 ELSE 0
    BY DEF IInv, TypeOK, EffectInv
  <2> QED BY <1>1, <1>2, <2>1 DEF EffectInv
<1>8. StreamInv'
  BY <1>1, <1>3, <1>5 DEF IInv, StreamInv, broker
<1>9. OriginInv'
  BY <1>1, <1>2, <1>3, <1>5 DEF IInv, OriginInv, Written, broker
<1> QED BY <1>4, <1>6, <1>7, <1>8, <1>9 DEF IInv

\* Only a message of a processed event is acknowledged.
LEMMA AckStep ==
    ASSUME IInv, NEW c \in Consumers, Ack(c)
    PROVE  IInv'
<1>1. /\ cons[c].pc = "ack" /\ stream' = stream \ {cons[c].msg}
      /\ cons' = [cons EXCEPT ![c] = Waiting]
      /\ UNCHANGED <<row, pub, healthy, sent, processed, effects, failures, crashes>>
  BY DEF Ack
<1>2. cons[c].msg[1] \in processed
  BY <1>1 DEF IInv, StreamInv
<1>3. TypeOK'
  BY <1>1 DEF IInv, TypeOK
<1>4. \A x \in Consumers : cons'[x] = cons[x] \/ cons'[x].pc = "idle"
  BY <1>1 DEF IInv, TypeOK, Waiting
<1>5. SentInv' /\ EffectInv'
  BY <1>1 DEF IInv, SentInv, EffectInv
<1>6. StreamInv'
  BY <1>1, <1>2, <1>4 DEF IInv, StreamInv
<1>7. OriginInv'
  BY <1>1, <1>4 DEF IInv, OriginInv, Written
<1> QED BY <1>3, <1>5, <1>6, <1>7 DEF IInv

\* claim_outbox_batch takes written rows only and leaves none unwritten.
LEMMA ClaimStep ==
    ASSUME IInv, NEW w \in Publishers, claim_outbox_batch(w)
    PROVE  IInv'
<1> DEFINE p == [Resting EXCEPT !.pc = "busy", !.todo = Batch]
<1>1. Batch \subseteq Written /\ Batch \subseteq Events
  BY DEF Batch, Eligible, Written
<1>2. /\ row' = [e \in Events |-> IF e \in Batch
                                  THEN [row[e] EXCEPT !.st = "CLAIMED", !.wait = TRUE]
                                  ELSE row[e]]
      /\ pub' = [pub EXCEPT ![w] = p]
      /\ UNCHANGED <<healthy, broker, inbox, failures, crashes>>
  BY DEF claim_outbox_batch
<1> HIDE DEF Batch
<1>3. /\ p \in [pc : {"idle", "empty", "busy"}, todo : SUBSET Events,
                ok : SUBSET Events, bad : SUBSET Events]
      /\ p.todo = Batch /\ p.ok = {} /\ p.bad = {}
  BY <1>1 DEF Resting
<1> HIDE DEF p
<1>4. row' \in [Events -> [st : RowStates, att : Nat, wait : BOOLEAN]]
  <2>1. \A r \in [st : RowStates, att : Nat, wait : BOOLEAN] :
           [r EXCEPT !.st = "CLAIMED", !.wait = TRUE] \in [st : RowStates, att : Nat, wait : BOOLEAN]
    BY DEF RowStates
  <2>2. \A e \in Events : row[e] \in [st : RowStates, att : Nat, wait : BOOLEAN]
    BY DEF IInv, TypeOK
  <2> QED BY <1>2, <2>1, <2>2
<1>5. \A e \in Events : row'[e].st = row[e].st \/ (e \in Written /\ row'[e].st = "CLAIMED")
  <2>1. \A r \in [st : RowStates, att : Nat, wait : BOOLEAN] :
           [r EXCEPT !.st = "CLAIMED", !.wait = TRUE].st = "CLAIMED"
    OBVIOUS
  <2>2. \A e \in Events : row[e] \in [st : RowStates, att : Nat, wait : BOOLEAN]
    BY DEF IInv, TypeOK
  <2>3. ASSUME NEW e \in Events, e \in Batch
        PROVE  e \in Written /\ row'[e].st = "CLAIMED"
    <3>1. row'[e] = [row[e] EXCEPT !.st = "CLAIMED", !.wait = TRUE]
      BY <1>2, <2>3
    <3> QED BY <1>1, <2>1, <2>2, <2>3, <3>1
  <2>4. ASSUME NEW e \in Events, e \notin Batch
        PROVE  row'[e] = row[e]
    BY <1>2, <2>4
  <2> QED BY <2>3, <2>4
<1>6. TypeOK'
  BY <1>2, <1>3, <1>4 DEF IInv, TypeOK, broker, inbox
<1>7. \A x \in Publishers : pub'[x] = pub[x] \/ (x = w /\ pub'[x] = p)
  BY <1>2 DEF IInv, TypeOK
<1>8. SentInv'
  BY <1>2, <1>3, <1>5, <1>7 DEF IInv, SentInv, broker
<1>9. StreamInv' /\ EffectInv'
  BY <1>2 DEF IInv, StreamInv, EffectInv, broker, inbox
<1>10. Written \subseteq Written'
  BY <1>5 DEF Written
<1>11. OriginInv'
  <2> HIDE DEF Written
  <2> QED BY <1>1, <1>2, <1>3, <1>7, <1>10 DEF IInv, OriginInv, broker, inbox
<1> QED BY <1>6, <1>8, <1>9, <1>11 DEF IInv

\* The three outcomes of sending an event keep the invariant.
LEMMA PublishStep ==
    ASSUME IInv, NEW w \in Publishers, NEW e \in Events,
           PublishOk(w, e) \/ PublishError(w, e) \/ PublishUnroutable(w, e)
    PROVE  IInv'
<1> DEFINE P == [pc : {"idle", "empty", "busy"}, todo : SUBSET Events,
                 ok : SUBSET Events, bad : SUBSET Events]
           sentOk == [pub[w] EXCEPT !.todo = @ \ {e}, !.ok = @ \cup {e}]
           broken == [pub[w] EXCEPT !.todo = {}, !.bad = {e}]
<1>1. /\ pub[w] \in P /\ pub \in [Publishers -> P]
      /\ pub[w].todo \subseteq Written /\ pub[w].bad \subseteq Written
      /\ failures \in 0 .. MaxFailures /\ crashes \in 0 .. MaxCrashes /\ healthy \in BOOLEAN
  BY DEF IInv, TypeOK, OriginInv
<1>2. e \in pub[w].todo /\ e \in Written
  BY <1>1 DEF PublishOk, PublishError, PublishUnroutable, Sending
<1>3. /\ sentOk \in P /\ sentOk.todo \subseteq Written /\ sentOk.ok = pub[w].ok \cup {e}
      /\ sentOk.bad \subseteq Written
  BY <1>1
<1>4. /\ broken \in P /\ broken.todo = {} /\ broken.ok = pub[w].ok /\ broken.bad = {e}
  BY <1>1
<1>5. CASE PublishOk(w, e)
  <2>1. pub' = [pub EXCEPT ![w] = sentOk]
    BY <1>1, <1>5 DEF PublishOk
  <2> HIDE DEF sentOk
  <2> QED BY <1>1, <1>2, <1>3, <1>5, <2>1, SendStep DEF PublishOk
<1>6. CASE PublishError(w, e)
  <2>1. pub' = [pub EXCEPT ![w] = broken]
    BY <1>1, <1>6 DEF PublishError, Break
  <2>2. failures' \in 0 .. MaxFailures
    BY <1>1, <1>6, OutboxAssumption DEF PublishError
  <2> HIDE DEF broken
  <2>3. CASE Accepted(e)
    BY <1>1, <1>2, <1>4, <1>6, <2>1, <2>2, <2>3, SendStep DEF PublishError
  <2>4. CASE UNCHANGED broker
    BY <1>1, <1>2, <1>4, <1>6, <2>1, <2>2, <2>4, PublisherStep DEF PublishError
  <2> QED BY <1>6, <2>3, <2>4 DEF PublishError
<1>7. CASE PublishUnroutable(w, e)
  <2>1. pub' = [pub EXCEPT ![w] = broken]
    BY <1>1, <1>7 DEF PublishUnroutable, Break
  <2> HIDE DEF broken
  <2> QED BY <1>1, <1>2, <1>4, <1>7, <2>1, PublisherStep DEF PublishUnroutable
<1> QED BY <1>5, <1>6, <1>7

\* Every step keeps the inductive invariant, one case per action.
LEMMA StepIInv == IInv /\ [Next]_vars => IInv'
<1> SUFFICES ASSUME IInv, [Next]_vars PROVE IInv'
  OBVIOUS
<1> DEFINE P == [pc : {"idle", "empty", "busy"}, todo : SUBSET Events,
                 ok : SUBSET Events, bad : SUBSET Events]
<1>0. /\ row \in [Events -> [st : RowStates, att : Nat, wait : BOOLEAN]]
      /\ pub \in [Publishers -> P] /\ healthy \in BOOLEAN
      /\ failures \in 0 .. MaxFailures /\ crashes \in 0 .. MaxCrashes
  BY DEF IInv, TypeOK
<1>1. ASSUME NEW e \in Events, enqueue_event(e) PROVE IInv'
  <2>1. row' = [row EXCEPT ![e].st = "PENDING"]
    BY <1>1 DEF enqueue_event
  <2>2. row' \in [Events -> [st : RowStates, att : Nat, wait : BOOLEAN]]
    BY <1>0, <2>1 DEF RowStates
  <2>3. \A f \in Events : row'[f].st = row[f].st \/ row'[f].st = "PENDING"
    BY <1>0, <2>1
  <2> QED BY <1>1, <2>2, <2>3, RowStep DEF enqueue_event
<1>2. ASSUME NEW e \in Events, TimePasses(e) PROVE IInv'
  <2>1. row' = [row EXCEPT ![e].wait = FALSE]
    BY <1>2 DEF TimePasses
  <2>2. row' \in [Events -> [st : RowStates, att : Nat, wait : BOOLEAN]]
    BY <1>0, <2>1
  <2>3. \A f \in Events : row'[f].st = row[f].st
    BY <1>0, <2>1
  <2> QED BY <1>2, <2>2, <2>3, RowStep DEF TimePasses
<1>3. ASSUME NEW w \in Publishers, claim_outbox_batch(w) PROVE IInv'
  BY <1>3, ClaimStep
<1>4. ASSUME NEW w \in Publishers, ClaimNothing(w) PROVE IInv'
  <2> DEFINE p == [pub[w] EXCEPT !.pc = "empty"]
  <2>1. p \in P /\ p.todo = pub[w].todo /\ p.ok = pub[w].ok /\ p.bad = pub[w].bad
    BY <1>0
  <2>2. pub' = [pub EXCEPT ![w] = p]
    BY <1>0, <1>4 DEF ClaimNothing
  <2>3. p.todo \subseteq Written /\ p.bad \subseteq Written
    BY <2>1 DEF IInv, OriginInv
  <2> HIDE DEF p
  <2> QED BY <1>0, <1>4, <2>1, <2>2, <2>3, PublisherStep DEF ClaimNothing
<1>5. Resting \in P /\ Resting.todo = {} /\ Resting.ok = {} /\ Resting.bad = {}
  BY DEF Resting
<1>6. ASSUME NEW w \in Publishers, IdlePoll(w) PROVE IInv'
  <2>1. healthy' \in BOOLEAN
    BY <1>6 DEF IdlePoll
  <2> QED BY <1>0, <1>5, <1>6, <2>1, PublisherStep DEF IdlePoll
<1>7. ASSUME NEW w \in Publishers, PublisherDies(w) PROVE IInv'
  <2>1. crashes' \in 0 .. MaxCrashes
    BY <1>0, <1>7, OutboxAssumption DEF PublisherDies
  <2> QED BY <1>0, <1>5, <1>7, <2>1, PublisherStep DEF PublisherDies
<1>8. ASSUME NEW w \in Publishers, Send(w) PROVE IInv'
  BY <1>8, PublishStep DEF Send
<1>9. ASSUME NEW w \in Publishers, Mark(w) PROVE IInv'
  BY <1>9, MarkStep DEF Mark
<1>10. ASSUME NEW c \in Consumers, NEW m \in stream, Fetch(c, m) PROVE IInv'
  <2> DEFINE d == [pc |-> IF m[1] \in processed THEN "ack" ELSE "mutate", msg |-> m]
  <2>1. d \in [pc : {"mutate", "ack"}, msg : Messages] /\ d.msg = m
        /\ (d.pc = "ack" => m[1] \in processed) /\ m[1] \in Written
    BY DEF IInv, TypeOK, OriginInv
  <2> QED BY <1>0, <1>10, <2>1, ConsumerStep DEF Fetch
<1>11. ASSUME NEW c \in Consumers, consume_once(c) PROVE IInv'
  BY <1>11, ConsumeStep
<1>12. ASSUME NEW c \in Consumers, Ack(c) PROVE IInv'
  BY <1>12, AckStep
<1>13. ASSUME NEW c \in Consumers, ConsumerFails(c) PROVE IInv'
  <2>1. crashes' \in 0 .. MaxCrashes
    BY <1>0, <1>13, OutboxAssumption DEF ConsumerFails
  <2>2. Waiting.pc = "idle"
    BY DEF Waiting
  <2> QED BY <1>0, <1>13, <2>1, <2>2, ConsumerStep DEF ConsumerFails
<1>14. CASE HeartbeatExpires
  BY <1>14 DEF HeartbeatExpires, IInv, TypeOK, SentInv, StreamInv, EffectInv, OriginInv,
     Written, broker, inbox
<1>15. CASE UNCHANGED vars
  BY <1>15 DEF vars, IInv, TypeOK, SentInv, StreamInv, EffectInv, OriginInv, Written
<1> QED BY <1>1, <1>2, <1>3, <1>4, <1>6, <1>7, <1>8, <1>9, <1>10, <1>11, <1>12, <1>13, <1>14,
        <1>15 DEF Next, Poll, Receive

\* The inductive invariant holds in every reachable state.
LEMMA OutboxInvariance == Spec => []IInv
BY InitIInv, StepIInv, PTL DEF Spec

-----------------------------------------------------------------------------
\* No committed event is ever lost, for any number of publishers, consumers,
\* failures and crashes, and although a publisher may work with a lease that
\* has long expired.
THEOREM NoEventLost == Spec => []NothingLost
<1>1. IInv => NothingLost
  <2> SUFFICES ASSUME IInv, NEW e \in Events, row[e].st # "NONE", effects[e] = 0,
                      row[e].st \notin {"PENDING", "CLAIMED", "DEAD_LETTER"}
               PROVE  \E m \in stream : m[1] = e
    BY DEF NothingLost
  <2>1. row[e].st = "PUBLISHED"
    BY DEF IInv, TypeOK, RowStates
  <2>2. e \notin processed
    BY DEF IInv, EffectInv
  <2> QED BY <2>1, <2>2 DEF IInv, SentInv, StreamInv
<1> QED BY <1>1, OutboxInvariance, PTL

\* Rows are written once: every other step leaves the set of written rows.
LEMMA WrittenStep ==
    ASSUME IInv, [Next]_vars
    PROVE  \/ \E e \in Events : enqueue_event(e)
           \/ Written' = Written
<1>0. row \in [Events -> [st : RowStates, att : Nat, wait : BOOLEAN]]
  BY DEF IInv, TypeOK
<1>1. CASE UNCHANGED row
  BY <1>1 DEF Written
<1>2. ASSUME NEW e \in Events, TimePasses(e) PROVE Written' = Written
  BY <1>0, <1>2 DEF TimePasses, Written
<1>3. ASSUME NEW w \in Publishers, claim_outbox_batch(w) PROVE Written' = Written
  <2>1. Batch \subseteq Written
    BY DEF Batch, Eligible, Written
  <2>2. \A e \in Events : row'[e].st = row[e].st \/ (e \in Written /\ row'[e].st = "CLAIMED")
    <3> HIDE DEF Batch, Written
    <3> QED BY <1>0, <1>3, <2>1 DEF claim_outbox_batch
  <2> QED BY <2>2 DEF Written
<1>4. ASSUME NEW w \in Publishers, NEW e \in Events, MarkNext(w, e) PROVE Written' = Written
  <2> DEFINE failed == e \in pub[w].bad
             m == MarkedRow(row[e], failed)
  <2>1. row' = [row EXCEPT ![e] = m] /\ e \in pub[w].ok \cup pub[w].bad
    BY <1>4 DEF MarkNext
  <2>2. e \in Written
    BY <2>1 DEF IInv, OriginInv
  <2>3. failed \in BOOLEAN
    OBVIOUS
  <2> HIDE DEF failed
  <2>4. m.st # "NONE"
    BY <1>0, <2>3, MarkedRowFacts
  <2> HIDE DEF m
  <2> QED BY <1>0, <2>1, <2>2, <2>4 DEF Written
<1> QED BY <1>1, <1>2, <1>3, <1>4 DEF Next, vars, Poll, Send, Mark, Receive, ClaimNothing, IdlePoll,
        PublishOk, PublishError, PublishUnroutable, PublisherDies, Fetch, consume_once, Ack,
        ConsumerFails, HeartbeatExpires

\* Effects change in one step only, from 0 to 1, and of a written event.
LEMMA EffectsStep ==
    ASSUME IInv, [Next]_vars
    PROVE  \/ effects' = effects
           \/ \E e \in Written : /\ effects[e] = 0 /\ effects' = [effects EXCEPT ![e] = 1]
                                 /\ row' = row
<1>1. ASSUME NEW c \in Consumers, consume_once(c), effects' # effects
      PROVE  \E e \in Written : /\ effects[e] = 0 /\ effects' = [effects EXCEPT ![e] = 1]
                                /\ row' = row
  <2> DEFINE e == cons[c].msg[1]
  <2>1. e \notin processed /\ effects' = [effects EXCEPT ![e] = effects[e] + 1] /\ row' = row
    BY <1>1 DEF consume_once, InsertWins
  <2>2. e \in Written /\ e \in Events
    BY <1>1, ConsumerFacts DEF consume_once
  <2>3. effects[e] = 0
    BY <2>1, <2>2 DEF IInv, EffectInv
  <2>4. effects' = [effects EXCEPT ![e] = 1]
    BY <2>1, <2>3
  <2> HIDE DEF e, Written
  <2> QED BY <2>1, <2>2, <2>3, <2>4
<1> QED BY <1>1 DEF Next, vars, inbox, Poll, Send, Mark, Receive, ClaimNothing, IdlePoll,
        enqueue_event, TimePasses, claim_outbox_batch, MarkNext, PublishOk, PublishError,
        PublishUnroutable, PublisherDies, Fetch, Ack, ConsumerFails, HeartbeatExpires

\* Outbox and inbox together deliver at most once and only what was written:
\* every behaviour of the implementation is one of EventDelivery.
THEOREM OutboxRefinement == Spec => ImplementsDelivery
<1>1. Init => Delivery!Init
  BY DEF Init, Delivery!Init
<1>2. IInv /\ [Next]_vars => [Delivery!Next]_<<Written, effects>>
  <2> SUFFICES ASSUME IInv, [Next]_vars PROVE [Delivery!Next]_<<Written, effects>>
    OBVIOUS
  <2>1. ASSUME NEW e \in Events, enqueue_event(e) PROVE Delivery!Accept(e)
    <3>1. row[e].st = "NONE" /\ row' = [row EXCEPT ![e].st = "PENDING"] /\ effects' = effects
      BY <2>1 DEF enqueue_event, inbox
    <3>2. row \in [Events -> [st : RowStates, att : Nat, wait : BOOLEAN]]
      BY DEF IInv, TypeOK
    <3>3. \A f \in Events : row'[f].st = IF f = e THEN "PENDING" ELSE row[f].st
      BY <3>1, <3>2
    <3>4. e \notin Written /\ Written' = Written \cup {e}
      BY <3>1, <3>3 DEF Written
    <3> QED BY <3>1, <3>4 DEF Delivery!Accept, Written
  <2>2. ASSUME NEW e \in Written, effects[e] = 0, effects' = [effects EXCEPT ![e] = 1], row' = row
        PROVE  Delivery!Deliver(e) /\ e \in Events
    BY <2>2 DEF Delivery!Deliver, Written
  <2>3. CASE \E e \in Events : enqueue_event(e)
    BY <2>1, <2>3 DEF Delivery!Next
  <2>4. CASE Written' = Written /\ effects' = effects
    BY <2>4
  <2>5. CASE effects' # effects
    BY <2>2, <2>5, EffectsStep DEF Delivery!Next
  <2> QED BY <2>3, <2>4, <2>5, WrittenStep
<1> QED BY <1>1, <1>2, OutboxInvariance, PTL
        DEF Spec, ImplementsDelivery, Delivery!Spec, Written
=============================================================================
