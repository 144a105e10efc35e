---------------------------- MODULE EventDelivery ----------------------------
(***************************************************************************)
(* What the transactional outbox and the inbox (ProcessedEvent) promise    *)
(* together: an event written by a committed business transaction has its  *)
(* effect in the consumer at most once, never without having been written, *)
(* and, when its subject can be routed, eventually, unless it is given up: *)
(* which events are given up, and when, is left to the implementation.     *)
(***************************************************************************)
EXTENDS Naturals

CONSTANTS Events,       \* events that business transactions may write
          Routable      \* those whose subject belongs to a canonical domain

VARIABLES accepted,     \* events whose transaction has committed
          effects,      \* how often the consumer's mutation was committed
          abandoned     \* events given up for an operator to look at

Init == accepted = {} /\ effects = [e \in Events |-> 0]

Accept(e) == /\ e \notin accepted
             /\ accepted' = accepted \cup {e}
             /\ UNCHANGED effects

Deliver(e) == /\ e \in accepted /\ effects[e] = 0
              /\ effects' = [effects EXCEPT ![e] = 1]
              /\ UNCHANGED accepted

Next == \E e \in Events : Accept(e) \/ Deliver(e)

Spec == Init /\ [][Next]_<<accepted, effects>>

LiveSpec == /\ Spec
            /\ \A e \in Routable : WF_<<accepted, effects>>(e \notin abandoned /\ Deliver(e))
=============================================================================
