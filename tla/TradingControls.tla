--------------------------- MODULE TradingControls ---------------------------
(***************************************************************************)
(* The halt and resume endpoints of apps/trading/api/admin_views.py, and   *)
(* the admission decision that control_state and evaluate of               *)
(* apps/trading/application/simulation.py take from the rows they write.   *)
(*                                                                         *)
(* One transaction per POST.  update_or_create keeps the row of a scope    *)
(* and with it created_at, which is set when the row is first inserted.    *)
(***************************************************************************)
EXTENDS Naturals, FiniteSets

CONSTANTS Instruments,   \* instrument ids
          Keys           \* Idempotency-Key values; bounds the number of posts

Platform == "*"          \* scope_ref of the PLATFORM row
Scopes   == Instruments \cup {Platform}

ASSUME ScopeAssumption == Platform \notin Instruments

VARIABLES
    control,  \* TradingControl by scope: state and created_at (0: no row)
    inserted, \* creation times handed out so far
    record,   \* IdempotencyRecord by key: the answered request
    sent,     \* history: the request made under each key
    asked,    \* history: the state asked for last, by scope
    newest    \* history: the scope of the request made last of all

controlVars == <<control, inserted, record, sent, asked, newest>>

\* What the four views post; rows never hold another state.
Posted == {"HALTED", "ACTIVE"}

Unanswered == [scope |-> Platform, state |-> "NONE"]

ControlInit == /\ control = [s \in Scopes |-> [state |-> "NONE", created |-> 0]]
               /\ inserted = 0
               /\ record = [k \in Keys |-> Unanswered]
               /\ sent = [k \in Keys |-> Unanswered]
               /\ asked = [s \in Scopes |-> "NONE"] /\ newest = Platform

Row(s) == control[s].created > 0

\* update_or_create(scope, scope_ref, defaults)
Upsert(s, state) ==
    IF Row(s) THEN /\ control' = [control EXCEPT ![s].state = state]
                   /\ UNCHANGED inserted
    ELSE /\ inserted' = inserted + 1
         /\ control' = [control EXCEPT ![s] = [state |-> state, created |-> inserted + 1]]

\* Variant: the response is not stored with the key.
Remember_Nothing(k, s, state) == UNCHANGED record

\* complete_idempotent_request, in the transaction of the control row.
Remember(k, s, state) == record' = [record EXCEPT ![k] = [scope |-> s, state |-> state]]

\* TradingControlView.post.  A key that has been answered gets the stored answer
\* (IDEMPOTENCY_CONFLICT for another body) and the row is not touched.  The path
\* is part of the record's scope; a key is used with one path here.
Handle(s, state, k) ==
    IF record[k] = Unanswered THEN Upsert(s, state) /\ Remember(k, s, state)
    ELSE UNCHANGED <<control, inserted, record>>

\* An operator asks for a state under a new key.
Post(s, state, k) ==
    /\ sent[k] = Unanswered /\ Handle(s, state, k)
    /\ sent' = [sent EXCEPT ![k] = [scope |-> s, state |-> state]]
    /\ asked' = [asked EXCEPT ![s] = state] /\ newest' = s

\* The client, or a proxy, sends an earlier request again, any time later.
Resent(k) ==
    /\ sent[k] # Unanswered /\ Handle(sent[k].scope, sent[k].state, k)
    /\ UNCHANGED <<sent, asked, newest>>

ControlNext == \E k \in Keys : (\E s \in Scopes, state \in Posted : Post(s, state, k)) \/ Resent(k)

ControlSpec == ControlInit /\ [][ControlNext]_controlVars

-----------------------------------------------------------------------------
(* The decision.                                                           *)

\* The rows control_state looks at, and the one created last among them.
Relevant(i) == {s \in {Platform, i} : Row(s)}

control_state(i) ==
    IF Relevant(i) = {} THEN "ACTIVE"
    ELSE LET latest == CHOOSE s \in Relevant(i) :
                           \A x \in Relevant(i) : control[x].created <= control[s].created
         IN  control[latest].state

\* evaluate: CANCEL_ONLY, and CLOSE_ONLY for a BUY, are passed on as HALTED;
\* the risk engine refuses HALTED and MAINTENANCE.
Denied(state, side) == \/ state \in {"HALTED", "MAINTENANCE", "CANCEL_ONLY"}
                       \/ state = "CLOSE_ONLY" /\ side = "BUY"

preview(i, side) == IF Denied(control_state(i), side) THEN "DENY" ELSE "ALLOW"

-----------------------------------------------------------------------------
(* Properties.                                                             *)

\* As long as an instrument has no row of its own the platform control decides,
\* and it is the state asked for last, over any number of halts and resumes: a
\* halt or resume that is delivered again late does not undo what followed it.
PlatformDecides ==
    \A i \in Instruments : ~Row(i) /\ Row(Platform) =>
        preview(i, "BUY") = IF asked[Platform] = "HALTED" THEN "DENY" ELSE "ALLOW"

\* A platform halt denies every new order: nothing was requested after it.
PlatformHaltDenies ==
    newest = Platform /\ asked[Platform] = "HALTED" => \A i \in Instruments : preview(i, "BUY") = "DENY"
=============================================================================
