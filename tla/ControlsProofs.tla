---------------------------- MODULE ControlsProofs ----------------------------
(***************************************************************************)
(* Proofs about the trading controls and about the maker/checker requests  *)
(* of the operations app, for any number of instruments, accounts,         *)
(* managers, requests and Idempotency-Keys.                                *)
(***************************************************************************)
EXTENDS TradingControls, OperatorActions, TLAPS

-----------------------------------------------------------------------------
(* Trading controls.                                                       *)

RowStates == Posted \cup {"NONE"}

\* A row holds the state asked for last of its scope, and a request that was made
\* has been answered, so that it is not applied when it comes again.
ControlInv ==
    /\ control \in [Scopes -> [state : RowStates, created : Nat]]
    /\ inserted \in Nat
    /\ record \in [Keys -> [scope : Scopes, state : RowStates]]
    /\ sent \in [Keys -> [scope : Scopes, state : RowStates]]
    /\ \A k \in Keys : sent[k] = Unanswered <=> record[k] = Unanswered
    /\ asked \in [Scopes -> RowStates]
    /\ \A s \in Scopes : Row(s) => control[s].state = asked[s] /\ asked[s] \in Posted

\* Upsert writes the posted state into the row of the scope and into no other.
LEMMA UpsertWrites ==
    ASSUME ControlInv, NEW s \in Scopes, NEW state \in Posted, Upsert(s, state)
    PROVE  /\ control' \in [Scopes -> [state : RowStates, created : Nat]]
           /\ inserted' \in Nat /\ control'[s].state = state
           /\ \A x \in Scopes \ {s} : control'[x] = control[x]
<1>0. /\ control \in [Scopes -> [state : RowStates, created : Nat]]
      /\ inserted \in Nat /\ state \in RowStates
  BY DEF ControlInv, RowStates
<1>1. CASE Row(s)
  <2>1. control' = [control EXCEPT ![s].state = state] /\ inserted' = inserted
    BY <1>1 DEF Upsert
  <2> QED BY <1>0, <2>1
<1>2. CASE ~Row(s)
  <2>1. /\ control' = [control EXCEPT ![s] = [state |-> state, created |-> inserted + 1]]
        /\ inserted' = inserted + 1
    BY <1>2 DEF Upsert
  <2> QED BY <1>0, <2>1
<1> QED BY <1>1, <1>2

LEMMA ControlInvariant == ControlSpec => []ControlInv
<1>1. ControlInit => ControlInv
  BY DEF ControlInit, ControlInv, RowStates, Unanswered, Scopes, Row
<1>2. ControlInv /\ [ControlNext]_controlVars => ControlInv'
  <2> SUFFICES ASSUME ControlInv, [ControlNext]_controlVars
               PROVE  ControlInv'
    OBVIOUS
  <2>1. ASSUME NEW k \in Keys, NEW s \in Scopes, NEW state \in Posted, Post(s, state, k)
        PROVE  ControlInv'
    <3> DEFINE q == [scope |-> s, state |-> state]
    <3>1. q \in [scope : Scopes, state : RowStates] /\ q # Unanswered
      BY DEF RowStates, Posted, Unanswered
    <3>2. /\ sent' = [sent EXCEPT ![k] = q]
          /\ asked' = [asked EXCEPT ![s] = state]
      BY <2>1 DEF Post
    <3>3. /\ asked' \in [Scopes -> RowStates] /\ asked'[s] = state
          /\ \A x \in Scopes \ {s} : asked'[x] = asked[x]
      BY <3>2 DEF ControlInv, RowStates
    <3> HIDE DEF q
    <3>4. /\ sent' \in [Keys -> [scope : Scopes, state : RowStates]]
          /\ sent'[k] # Unanswered /\ \A x \in Keys \ {k} : sent'[x] = sent[x]
      BY <3>1, <3>2 DEF ControlInv
    <3>5. CASE record[k] = Unanswered
      <4>1. Upsert(s, state) /\ record' = [record EXCEPT ![k] = q]
        BY <2>1, <3>5 DEF Post, Handle, Remember, q
      <4>2. /\ control' \in [Scopes -> [state : RowStates, created : Nat]]
            /\ inserted' \in Nat /\ control'[s].state = state
            /\ \A x \in Scopes \ {s} : control'[x] = control[x]
        BY <4>1, UpsertWrites
      <4>3. /\ record' \in [Keys -> [scope : Scopes, state : RowStates]]
            /\ record'[k] # Unanswered /\ \A x \in Keys \ {k} : record'[x] = record[x]
        BY <3>1, <4>1 DEF ControlInv
      <4>4. \A x \in Keys : sent'[x] = Unanswered <=> record'[x] = Unanswered
        BY <3>4, <4>3 DEF ControlInv
      <4>5. \A x \in Scopes : Row(x)' => control'[x].state = asked'[x] /\ asked'[x] \in Posted
        BY <3>3, <4>2 DEF ControlInv, Row
      <4> QED BY <3>3, <3>4, <4>2, <4>3, <4>4, <4>5 DEF ControlInv
    <3>6. CASE record[k] # Unanswered
      BY <2>1, <3>6 DEF Post, ControlInv
    <3> QED BY <3>5, <3>6
  <2>2. ASSUME UNCHANGED <<control, inserted, record, sent, asked>>
        PROVE  ControlInv'
    BY <2>2 DEF ControlInv, Row
  <2>3. ASSUME NEW k \in Keys, Resent(k)
        PROVE  ControlInv'
    <3>1. record[k] # Unanswered
      BY <2>3 DEF Resent, ControlInv
    <3>2. UNCHANGED <<control, inserted, record, sent, asked>>
      BY <2>3, <3>1 DEF Resent, Handle
    <3> QED BY <2>2, <3>2
  <2>4. CASE UNCHANGED controlVars
    BY <2>2, <2>4 DEF controlVars
  <2> QED BY <2>1, <2>3, <2>4 DEF ControlNext
<1> QED BY <1>1, <1>2, PTL DEF ControlSpec

\* For an instrument without a row of its own, control_state is the state that
\* was asked for last of the platform, however often it was halted and resumed
\* and however late an earlier request comes again.
THEOREM ThePlatformDecides == ControlSpec => []PlatformDecides
<1>1. ControlInv => PlatformDecides
  <2> SUFFICES ASSUME ControlInv, NEW i \in Instruments, ~Row(i), Row(Platform)
               PROVE  preview(i, "BUY") = IF asked[Platform] = "HALTED" THEN "DENY" ELSE "ALLOW"
    BY DEF PlatformDecides
  <2>1. Relevant(i) = {Platform}
    BY ScopeAssumption DEF Relevant
  <2>2. Platform \in Scopes /\ control[Platform].created \in Nat
    BY DEF Scopes, ControlInv
  <2>3. control_state(i) = control[Platform].state
    <3> DEFINE latest == CHOOSE s \in Relevant(i) :
                             \A x \in Relevant(i) : control[x].created <= control[s].created
    <3>1. latest \in Relevant(i)
      BY <2>1, <2>2
    <3>2. control_state(i) = control[latest].state
      BY <2>1 DEF control_state
    <3> QED BY <2>1, <3>1, <3>2
  <2>4. control[Platform].state = asked[Platform] /\ asked[Platform] \in {"HALTED", "ACTIVE"}
    BY <2>2 DEF ControlInv, Posted
  <2> QED BY <2>3, <2>4 DEF preview, Denied
<1> QED BY <1>1, ControlInvariant, PTL

-----------------------------------------------------------------------------
(* Maker/checker requests.                                                 *)

Types == DOMAIN ACTION_ROLE_POLICY

RestraintRow == [kind : {"FREEZE", "HALT", "HOLD"}, account : Accounts \cup {None},
                 level : {"PARTIAL", "FULL"}, released : BOOLEAN]

\* The people a request has passed.
Checked(q) ==
    /\ q.status \in {"NONE", "PENDING", "APPROVED", "EXECUTED"}
    /\ q.status \in {"APPROVED", "EXECUTED"} =>
          q.approver \in Managers /\ q.approver # q.maker /\ Authorized(q.approver, q.type)
    /\ q.status = "EXECUTED" =>
          q.executor \in Managers /\ q.executor # q.maker /\ Authorized(q.executor, q.type)

OperatorRows ==
    /\ restraint \in Seq(RestraintRow)
    /\ DOMAIN action = ActionIds /\ \A r \in ActionIds : Checked(action[r])
    /\ DOMAIN posting = Managers
    /\ \A m \in Managers : posting[m].does # "nothing" => posting[m].req \in ActionIds

OperatorInv == OperatorRows /\ OneReleasePerRequest

\* Which rows are released, and which of a kind are in force, after a step.
ReleasedRows == {i \in DOMAIN restraint : restraint[i].released}

\* A new row is in force.
LEMMA InsertKeeps ==
    ASSUME OperatorRows, NEW kind \in {"FREEZE", "HALT", "HOLD"}, NEW a \in Accounts \cup {None},
           NEW level \in {"PARTIAL", "FULL"}, Insert(kind, a, level)
    PROVE  /\ restraint' \in Seq(RestraintRow) /\ ReleasedRows' = ReleasedRows
           /\ \A k, b : InForce(k, b) \subseteq InForce(k, b)'
<1> DEFINE row == [kind |-> kind, account |-> a, level |-> level, released |-> FALSE]
<1>1. restraint' = Append(restraint, row)
  BY DEF Insert
<1>2. row \in RestraintRow /\ row.released = FALSE
  BY DEF RestraintRow
<1> HIDE DEF row
<1>3. restraint \in Seq(RestraintRow)
  BY DEF OperatorRows
<1>4. /\ restraint' \in Seq(RestraintRow)
      /\ DOMAIN restraint' = DOMAIN restraint \cup {Len(restraint) + 1}
      /\ \A i \in DOMAIN restraint : restraint'[i] = restraint[i]
      /\ restraint'[Len(restraint) + 1] = row
  BY <1>1, <1>2, <1>3
<1>5. ReleasedRows' = ReleasedRows
  <2>1. \A i \in DOMAIN restraint' : i \in DOMAIN restraint \/ ~restraint'[i].released
    BY <1>2, <1>4
  <2> QED BY <1>4, <2>1 DEF ReleasedRows
<1>6. \A k, b : InForce(k, b) \subseteq InForce(k, b)'
  BY <1>4 DEF InForce
<1> QED BY <1>4, <1>5, <1>6

\* A freeze that gets a new level stays in force.
LEMMA LevelKeeps ==
    ASSUME OperatorRows, NEW i \in DOMAIN restraint, NEW level \in {"PARTIAL", "FULL"},
           restraint' = [restraint EXCEPT ![i].level = level]
    PROVE  /\ restraint' \in Seq(RestraintRow) /\ ReleasedRows' = ReleasedRows
           /\ \A k, b : InForce(k, b) \subseteq InForce(k, b)'
<1>1. restraint \in Seq(RestraintRow)
  BY DEF OperatorRows
<1>2. restraint[i] \in RestraintRow
  BY <1>1
<1>3. [restraint[i] EXCEPT !.level = level] \in RestraintRow
  BY <1>2 DEF RestraintRow
<1>4. restraint' = [restraint EXCEPT ![i] = [restraint[i] EXCEPT !.level = level]]
  OBVIOUS
<1>5. restraint' \in Seq(RestraintRow) /\ DOMAIN restraint' = DOMAIN restraint
  BY <1>1, <1>3, <1>4
<1>6. \A j \in DOMAIN restraint : /\ restraint'[j].kind = restraint[j].kind
                                  /\ restraint'[j].account = restraint[j].account
                                  /\ restraint'[j].released = restraint[j].released
  BY <1>1
<1>7. ReleasedRows' = ReleasedRows /\ \A k, b : InForce(k, b) \subseteq InForce(k, b)'
  BY <1>5, <1>6 DEF ReleasedRows, InForce
<1> QED BY <1>5, <1>7

\* The commands that a single manager may give.
Imposes(m, k) ==
    \/ OperatorTradingHalt(m, k)
    \/ \E a \in Accounts : OperatorLegalHold(m, k, a)
    \/ \E a \in Accounts, level \in {"PARTIAL", "FULL"} : OperatorFreeze(m, k, a, level)

\* A command of a manager releases nothing.
LEMMA CommandKeeps ==
    ASSUME OperatorRows, NEW m \in Managers, NEW k \in CommandKeys, Imposes(m, k)
    PROVE  /\ restraint' \in Seq(RestraintRow) /\ ReleasedRows' = ReleasedRows
           /\ \A kind, b : InForce(kind, b) \subseteq InForce(kind, b)'
           /\ UNCHANGED <<action, posting, released>>
<1>1. UNCHANGED <<action, posting, released>>
  BY DEF Imposes, OperatorTradingHalt, OperatorLegalHold, OperatorFreeze, Command
<1>2. CASE OperatorTradingHalt(m, k)
  <2>1. CASE Insert("HALT", None, "FULL")
    BY <1>1, <2>1, InsertKeeps
  <2>2. CASE restraint' = restraint
    BY <1>1, <2>2 DEF OperatorRows, ReleasedRows, InForce
  <2> QED BY <1>2, <2>1, <2>2 DEF OperatorTradingHalt
<1>3. ASSUME NEW a \in Accounts, OperatorLegalHold(m, k, a)
      PROVE  /\ restraint' \in Seq(RestraintRow) /\ ReleasedRows' = ReleasedRows
             /\ \A kind, b : InForce(kind, b) \subseteq InForce(kind, b)'
  <2>1. Insert("HOLD", a, "FULL")
    BY <1>3 DEF OperatorLegalHold
  <2> QED BY <1>1, <2>1, InsertKeeps
<1>4. ASSUME NEW a \in Accounts, NEW level \in {"PARTIAL", "FULL"}, OperatorFreeze(m, k, a, level)
      PROVE  /\ restraint' \in Seq(RestraintRow) /\ ReleasedRows' = ReleasedRows
             /\ \A kind, b : InForce(kind, b) \subseteq InForce(kind, b)'
  <2>1. CASE Insert("FREEZE", a, level)
    BY <1>1, <2>1, InsertKeeps
  <2>2. CASE \E i \in InForce("FREEZE", a) : restraint' = [restraint EXCEPT ![i].level = level]
    <3>1. PICK i \in DOMAIN restraint : restraint' = [restraint EXCEPT ![i].level = level]
      BY <2>2 DEF InForce
    <3> QED BY <1>1, <3>1, LevelKeeps
  <2> QED BY <1>4, <2>1, <2>2 DEF OperatorFreeze
<1> QED BY <1>1, <1>2, <1>3, <1>4 DEF Imposes

\* A step that releases and executes nothing keeps OneReleasePerRequest.
LEMMA NoReleaseKeeps ==
    ASSUME OneReleasePerRequest, ReleasedRows' = ReleasedRows, released' = released,
           \A r \in ActionIds : action[r].status = "EXECUTED" <=> action'[r].status = "EXECUTED"
    PROVE  OneReleasePerRequest'
BY DEF OneReleasePerRequest, ReleasedRows

\* Execution releases one row that was in force, for a request that was approved.
LEMMA ExecuteFacts ==
    ASSUME OperatorInv, NEW m \in Managers, OperatorExecute(m)
    PROVE  \E r \in ActionIds, i \in DOMAIN restraint :
               /\ action[r].status = "APPROVED" /\ MayExecute(m, r)
               /\ ~restraint[i].released /\ i \in Releasable(r)
               /\ restraint' = [restraint EXCEPT ![i].released = TRUE]
               /\ released' = released \cup {[req |-> r, row |-> i]}
               /\ action' = [action EXCEPT ![r].status = "EXECUTED", ![r].executor = m]
               /\ posting' = [posting EXCEPT ![m] = NoPost]
<1> DEFINE r == posting[m].req
<1>1. r \in ActionIds
  BY DEF OperatorExecute, OperatorInv, OperatorRows
<1>2. PICK i \in Releasable(r) : /\ restraint' = [restraint EXCEPT ![i].released = TRUE]
                                 /\ released' = released \cup {[req |-> r, row |-> i]}
  BY DEF OperatorExecute
<1>3. i \in DOMAIN restraint /\ ~restraint[i].released
  BY <1>2 DEF Releasable, InForce
<1>4. MayExecute(m, r) /\ action[r].status = "APPROVED"
  BY DEF OperatorExecute, MayExecute
<1> QED BY <1>1, <1>2, <1>3, <1>4 DEF OperatorExecute, Executed
LEMMA OperatorInvariant == OperatorSpec => []OperatorInv
<1>1. OperatorInit => OperatorInv
  <2> SUFFICES ASSUME OperatorInit PROVE OperatorInv
    OBVIOUS
  <2>1. OperatorRows
    BY DEF OperatorInit, OperatorRows, Checked, NoAction, NoPost
  <2>2. OneReleasePerRequest
    BY DEF OperatorInit, OneReleasePerRequest, NoAction
  <2> QED BY <2>1, <2>2 DEF OperatorInv
<1>2. OperatorInv /\ [OperatorNext]_operatorVars => OperatorInv'
  <2> SUFFICES ASSUME OperatorInv, [OperatorNext]_operatorVars
               PROVE  OperatorInv'
    OBVIOUS
  <2>1. OperatorRows /\ OneReleasePerRequest
    BY DEF OperatorInv
  <2>2. ASSUME NEW m \in Managers, NEW k \in CommandKeys, Imposes(m, k)
        PROVE  OperatorInv'
    <3>1. /\ restraint' \in Seq(RestraintRow) /\ ReleasedRows' = ReleasedRows
          /\ UNCHANGED <<action, posting, released>>
      BY <2>1, <2>2, CommandKeeps
    <3>2. OperatorRows'
      BY <2>1, <3>1 DEF OperatorRows
    <3>3. OneReleasePerRequest'
      BY <2>1, <3>1, NoReleaseKeeps
    <3> QED BY <3>2, <3>3 DEF OperatorInv
  <2>3. ASSUME restraint' = restraint, released' = released, DOMAIN action' = ActionIds,
               \A r \in ActionIds : /\ Checked(action'[r])
                                    /\ action[r].status = "EXECUTED" <=> action'[r].status = "EXECUTED",
               DOMAIN posting' = Managers,
               \A m \in Managers : posting'[m].does # "nothing" => posting'[m].req \in ActionIds
        PROVE  OperatorInv'
    <3>1. OperatorRows'
      BY <2>1, <2>3 DEF OperatorRows
    <3>2. ReleasedRows' = ReleasedRows
      BY <2>3 DEF ReleasedRows
    <3>3. OneReleasePerRequest'
      BY <2>1, <2>3, <3>2, NoReleaseKeeps
    <3> QED BY <3>1, <3>3 DEF OperatorInv
  <2>4. ASSUME NEW m \in Managers, NEW r \in ActionIds, NEW type \in Types,
               NEW target \in Targets(type), OperatorActionCreate(m, r, type, target)
        PROVE  OperatorInv'
    <3> DEFINE row == [NoAction EXCEPT !.status = "PENDING", !.type = type,
                                       !.target = target, !.maker = m]
    <3>1. /\ action[r] = NoAction /\ action' = [action EXCEPT ![r] = row]
          /\ UNCHANGED <<restraint, posting, answered, released>>
      BY <2>4 DEF OperatorActionCreate
    <3>2. row.status = "PENDING" /\ NoAction.status = "NONE"
      BY DEF NoAction
    <3> HIDE DEF row
    <3>3. Checked(row)
      BY <3>2 DEF Checked
    <3>4. DOMAIN action' = ActionIds /\ action'[r] = row /\ \A s \in ActionIds \ {r} : action'[s] = action[s]
      BY <2>1, <3>1 DEF OperatorRows
    <3>5. \A s \in ActionIds : /\ Checked(action'[s])
                               /\ action[s].status = "EXECUTED" <=> action'[s].status = "EXECUTED"
      BY <2>1, <3>1, <3>2, <3>3, <3>4 DEF OperatorRows
    <3> QED BY <2>1, <2>3, <3>1, <3>4, <3>5 DEF OperatorRows
  <2>5. ASSUME NEW r \in ActionIds, RequestExpires(r)
        PROVE  OperatorInv'
    <3>1. /\ action[r].status = "PENDING" /\ action' = [action EXCEPT ![r].expired = TRUE]
          /\ UNCHANGED <<restraint, posting, answered, released>>
      BY <2>5 DEF RequestExpires
    <3>2. DOMAIN action' = ActionIds /\ \A s \in ActionIds \ {r} : action'[s] = action[s]
      BY <2>1, <3>1 DEF OperatorRows
    <3>3. action'[r].status = "PENDING"
      BY <2>1, <3>1 DEF OperatorRows
    <3>4. \A s \in ActionIds : /\ Checked(action'[s])
                               /\ action[s].status = "EXECUTED" <=> action'[s].status = "EXECUTED"
      <4>1. Checked(action'[r])
        BY <3>3 DEF Checked
      <4> QED BY <2>1, <3>1, <3>2, <3>3, <4>1 DEF OperatorRows
    <3> QED BY <2>1, <2>3, <3>1, <3>2, <3>4 DEF OperatorRows
  <2>6. ASSUME NEW m \in Managers, NEW r \in ActionIds, NEW does \in {"approve", "execute"},
               BeginPost(m, r, does)
        PROVE  OperatorInv'
    <3>1. /\ posting' = [posting EXCEPT ![m] = [does |-> does, req |-> r]]
          /\ UNCHANGED <<restraint, action, answered, released>>
      BY <2>6 DEF BeginPost
    <3>2. /\ DOMAIN posting' = Managers
          /\ \A n \in Managers : posting'[n].does # "nothing" => posting'[n].req \in ActionIds
      BY <2>1, <3>1 DEF OperatorRows
    <3> QED BY <2>1, <2>3, <3>1, <3>2 DEF OperatorRows
  <2>7. ASSUME NEW m \in Managers, posting' = [posting EXCEPT ![m] = NoPost]
        PROVE  /\ DOMAIN posting' = Managers
               /\ \A n \in Managers : posting'[n].does # "nothing" => posting'[n].req \in ActionIds
    BY <2>1, <2>7 DEF OperatorRows, NoPost
  <2>8. ASSUME NEW m \in Managers, OperatorApprove(m)
        PROVE  OperatorInv'
    <3> DEFINE r == posting[m].req
    <3>1. /\ r \in ActionIds /\ MayApprove(m, r)
          /\ action' = [action EXCEPT ![r].status = "APPROVED", ![r].approver = m]
          /\ posting' = [posting EXCEPT ![m] = NoPost] /\ UNCHANGED <<restraint, answered, released>>
      BY <2>1, <2>8 DEF OperatorApprove, OperatorRows
    <3> HIDE DEF r
    <3>2. DOMAIN action' = ActionIds /\ \A s \in ActionIds \ {r} : action'[s] = action[s]
      BY <2>1, <3>1 DEF OperatorRows
    <3>3. /\ action'[r] = [action[r] EXCEPT !.status = "APPROVED", !.approver = m]
          /\ action[r].status = "PENDING" /\ action[r].maker # m /\ Authorized(m, action[r].type)
      BY <2>1, <3>1 DEF OperatorRows, MayApprove
    <3>4. Checked(action'[r]) /\ action'[r].status # "EXECUTED"
      BY <2>1, <3>1, <3>3 DEF Checked, OperatorRows
    <3>5. \A s \in ActionIds : /\ Checked(action'[s])
                               /\ action[s].status = "EXECUTED" <=> action'[s].status = "EXECUTED"
      BY <2>1, <3>2, <3>3, <3>4 DEF OperatorRows
    <3> QED BY <2>3, <2>7, <3>1, <3>2, <3>5
  <2>9. ASSUME NEW m \in Managers, OperatorExecute(m)
        PROVE  OperatorInv'
    <3>1. PICK r \in ActionIds, i \in DOMAIN restraint :
               /\ action[r].status = "APPROVED" /\ MayExecute(m, r)
               /\ ~restraint[i].released /\ i \in Releasable(r)
               /\ restraint' = [restraint EXCEPT ![i].released = TRUE]
               /\ released' = released \cup {[req |-> r, row |-> i]}
               /\ action' = [action EXCEPT ![r].status = "EXECUTED", ![r].executor = m]
               /\ posting' = [posting EXCEPT ![m] = NoPost]
      BY <2>9, ExecuteFacts
    <3>2. DOMAIN action' = ActionIds /\ \A s \in ActionIds \ {r} : action'[s] = action[s]
      BY <2>1, <3>1 DEF OperatorRows
    <3>3. action'[r] = [action[r] EXCEPT !.status = "EXECUTED", !.executor = m]
      BY <2>1, <3>1 DEF OperatorRows
    <3>4. Checked(action'[r]) /\ action'[r].status = "EXECUTED"
      BY <2>1, <3>1, <3>3 DEF Checked, OperatorRows, MayExecute
    <3>5. restraint \in Seq(RestraintRow)
      BY <2>1 DEF OperatorRows
    <3>6. /\ restraint' \in Seq(RestraintRow) /\ DOMAIN restraint' = DOMAIN restraint
          /\ restraint'[i].released /\ \A j \in DOMAIN restraint \ {i} : restraint'[j] = restraint[j]
      <4>1. restraint[i] \in RestraintRow
        BY <3>5
      <4> DEFINE row == [restraint[i] EXCEPT !.released = TRUE]
      <4>2. row \in RestraintRow /\ row.released = TRUE
        BY <4>1 DEF RestraintRow
      <4>3. restraint' = [restraint EXCEPT ![i] = row]
        BY <3>1
      <4> HIDE DEF row
      <4>4. /\ restraint' \in Seq(RestraintRow) /\ DOMAIN restraint' = DOMAIN restraint
            /\ restraint'[i] = row /\ \A j \in DOMAIN restraint \ {i} : restraint'[j] = restraint[j]
        BY <3>5, <4>2, <4>3
      <4> QED BY <4>2, <4>4
    <3>7. OperatorRows'
      <4>1. \A s \in ActionIds : Checked(action'[s])
        BY <2>1, <3>2, <3>4 DEF OperatorRows
      <4> QED BY <2>7, <3>1, <3>2, <3>6, <4>1 DEF OperatorRows
    <3>8. OneReleasePerRequest'
      <4> DEFINE x == [req |-> r, row |-> i]
      <4>1. x.req = r /\ x.row = i /\ released' = released \cup {x}
        BY <3>1
      <4> HIDE DEF x
      <4>2. /\ {y.req : y \in released} = {s \in ActionIds : action[s].status = "EXECUTED"}
            /\ {y.row : y \in released} = {j \in DOMAIN restraint : restraint[j].released}
            /\ \A y, z \in released : y.req = z.req <=> y.row = z.row
        BY <2>1 DEF OneReleasePerRequest
      <4>3. \A y \in released : y.req # r /\ y.row # i
        BY <3>1, <4>2
      <4>4. {y.req : y \in released'} = {s \in ActionIds : action'[s].status = "EXECUTED"}
        <5>1. {y.req : y \in released'} = {y.req : y \in released} \cup {r}
          BY <4>1
        <5>2. {s \in ActionIds : action'[s].status = "EXECUTED"}
                 = {s \in ActionIds : action[s].status = "EXECUTED"} \cup {r}
          BY <3>2, <3>4
        <5> QED BY <4>2, <5>1, <5>2
      <4>5. {y.row : y \in released'} = {j \in DOMAIN restraint' : restraint'[j].released}
        <5>1. {y.row : y \in released'} = {y.row : y \in released} \cup {i}
          BY <4>1
        <5>2. {j \in DOMAIN restraint' : restraint'[j].released}
                 = {j \in DOMAIN restraint : restraint[j].released} \cup {i}
          BY <3>6
        <5> QED BY <4>2, <5>1, <5>2
      <4>6. \A y, z \in released' : y.req = z.req <=> y.row = z.row
        BY <4>1, <4>2, <4>3
      <4> QED BY <4>4, <4>5, <4>6 DEF OneReleasePerRequest
    <3> QED BY <3>7, <3>8 DEF OperatorInv
  <2>10. ASSUME NEW m \in Managers, RefusePost(m)
         PROVE  OperatorInv'
    <3>1. posting' = [posting EXCEPT ![m] = NoPost] /\ UNCHANGED <<restraint, action, answered, released>>
      BY <2>10 DEF RefusePost
    <3> QED BY <2>1, <2>3, <2>7, <3>1 DEF OperatorRows
  <2>11. CASE UNCHANGED operatorVars
    <3>1. UNCHANGED <<restraint, action, posting, released>>
      BY <2>11 DEF operatorVars
    <3> QED BY <2>1, <2>3, <3>1 DEF OperatorRows
  <2>12. ASSUME NEW m \in Managers, ManagerStep(m)
         PROVE  OperatorInv'
    <3>1. ASSUME NEW r \in ActionIds, NEW type \in Types, NEW target \in Targets(type),
                 OperatorActionCreate(m, r, type, target)
          PROVE  OperatorInv'
      BY <2>4, <3>1
    <3>2. ASSUME NEW k \in CommandKeys, Imposes(m, k)
          PROVE  OperatorInv'
      BY <2>2, <3>2
    <3>3. \/ \E k \in CommandKeys : Imposes(m, k)
          \/ \E r \in ActionIds, type \in Types : \E target \in Targets(type) :
                 OperatorActionCreate(m, r, type, target)
          \/ \E r \in ActionIds, does \in {"approve", "execute"} : BeginPost(m, r, does)
          \/ OperatorApprove(m) \/ OperatorExecute(m) \/ RefusePost(m)
      BY <2>12, Zenon DEF ManagerStep, Types, Imposes
    <3> QED BY <2>6, <2>8, <2>9, <2>10, <3>1, <3>2, <3>3
  <2> QED BY <2>5, <2>11, <2>12 DEF OperatorNext
<1> QED BY <1>1, <1>2, PTL DEF OperatorSpec

\* Execution ends exactly one row for one request, and no row is ended otherwise:
\* posts read the status without a lock and the service reads it again under one.
THEOREM OneReleaseForEachRequest == OperatorSpec => []OneReleasePerRequest
<1>1. OperatorInv => OneReleasePerRequest
  BY DEF OperatorInv
<1> QED BY <1>1, OperatorInvariant, PTL

\* Who asked for a release neither approved nor executed it, and those who did
\* held a role that ACTION_ROLE_POLICY names for its type.
THEOREM ReleasesNeedFourEyes == OperatorSpec => []FourEyes
<1>1. OperatorInv => FourEyes
  <2> SUFFICES ASSUME OperatorInv, NEW x \in released
               PROVE  /\ action[x.req].maker \notin {action[x.req].approver, action[x.req].executor}
                      /\ \A m \in {action[x.req].approver, action[x.req].executor} :
                            m \in Managers /\ Authorized(m, action[x.req].type)
    BY DEF FourEyes
  <2>1. x.req \in ActionIds /\ action[x.req].status = "EXECUTED"
    BY DEF OperatorInv, OneReleasePerRequest
  <2>2. Checked(action[x.req])
    BY <2>1 DEF OperatorInv, OperatorRows
  <2> QED BY <2>1, <2>2 DEF Checked
<1> QED BY <1>1, OperatorInvariant, PTL

\* What is given back to account a by a step.
GivenBack(a, act) == ~MutationAllowed(a, act) /\ MutationAllowed(a, act)'

\* While rows in force stay in force, a freeze still forbids what every freeze
\* forbids, and the rest unless it is lowered; halts and holds stay.
LEMMA StillForbidden ==
    ASSUME \A kind, b : InForce(kind, b) \subseteq InForce(kind, b)', NEW a, NEW act \in Acts,
           restraint' \in Seq(RestraintRow)
    PROVE  /\ GivenBack(a, act) => act \notin PartialActs /\ Lowered(a)
           /\ DeletionBlocked(a) => DeletionBlocked(a)'
<1>1. ASSUME GivenBack(a, act) PROVE act \notin PartialActs /\ Lowered(a)
  <2>1. act = "trading" => InForce("HALT", None) = {}
    BY <1>1 DEF GivenBack, MutationAllowed
  <2>2. PICK i \in InForce("FREEZE", a) : ~(restraint[i].level # "FULL" /\ act \notin PartialActs)
    BY <1>1, <2>1 DEF GivenBack, MutationAllowed
  <2>3. i \in InForce("FREEZE", a)' /\ i \in DOMAIN restraint'
    BY <2>2 DEF InForce
  <2>4. restraint'[i].level # "FULL" /\ act \notin PartialActs
    BY <1>1, <2>3 DEF GivenBack, MutationAllowed
  <2>5. restraint'[i].level \in {"PARTIAL", "FULL"}
    <3>1. restraint'[i] \in RestraintRow
      BY <2>3
    <3> QED BY <3>1 DEF RestraintRow
  <2> QED BY <2>2, <2>3, <2>4, <2>5 DEF Lowered
<1>2. DeletionBlocked(a) => DeletionBlocked(a)'
  BY DEF DeletionBlocked
<1> QED BY <1>1, <1>2

\* What the end of row i gives back is what row i forbade.
LEMMA EndGivesBack ==
    ASSUME OperatorRows, NEW i \in DOMAIN restraint, ~restraint[i].released,
           restraint' = [restraint EXCEPT ![i].released = TRUE], NEW a, NEW act \in Acts
    PROVE  /\ GivenBack(a, act) => \/ i \in InForce("FREEZE", a)
                                   \/ act = "trading" /\ i \in InForce("HALT", None)
           /\ DeletionBlocked(a) /\ ~DeletionBlocked(a)' => i \in InForce("HOLD", a)
<1>1. DOMAIN restraint' = DOMAIN restraint /\ \A j \in DOMAIN restraint \ {i} : restraint'[j] = restraint[j]
  BY DEF OperatorRows
<1>2. \A kind, b : \A j \in InForce(kind, b) \ {i} : j \in InForce(kind, b)'
  BY <1>1 DEF InForce
<1>3. ASSUME GivenBack(a, act), i \notin InForce("FREEZE", a),
             ~(act = "trading" /\ i \in InForce("HALT", None))
      PROVE  FALSE
  <2>1. act = "trading" => InForce("HALT", None)' = {}
    BY <1>3 DEF GivenBack, MutationAllowed
  <2>2. act = "trading" => InForce("HALT", None) = {}
    BY <1>2, <1>3, <2>1
  <2>3. PICK j \in InForce("FREEZE", a) : ~(restraint[j].level # "FULL" /\ act \notin PartialActs)
    BY <1>3, <2>2 DEF GivenBack, MutationAllowed
  <2>4. j # i /\ j \in DOMAIN restraint /\ j \in InForce("FREEZE", a)'
    BY <1>2, <1>3, <2>3 DEF InForce
  <2>5. restraint'[j] = restraint[j]
    BY <1>1, <2>4
  <2> QED BY <1>3, <2>3, <2>4, <2>5 DEF GivenBack, MutationAllowed
<1>4. ASSUME DeletionBlocked(a), ~DeletionBlocked(a)' PROVE i \in InForce("HOLD", a)
  <2>1. PICK j : j \in InForce("HOLD", a)
    BY <1>4 DEF DeletionBlocked
  <2>2. InForce("HOLD", a)' = {}
    BY <1>4 DEF DeletionBlocked
  <2> QED BY <1>2, <2>1, <2>2
<1> QED BY <1>3, <1>4

\* What a step may give back to an account, and how.
Justified(a) ==
    /\ \A act \in Acts : GivenBack(a, act) =>
           \/ CarriedOut("FREEZE", a)
           \/ act = "trading" /\ CarriedOut("HALT", None)
           \/ act \notin PartialActs /\ Lowered(a)
    /\ DeletionBlocked(a) /\ ~DeletionBlocked(a)' => CarriedOut("HOLD", a)

\* What a freeze, a halt or a hold forbids becomes allowed only in the step that
\* executes the approved request made for it, but for deposits, which one
\* manager gives back by lowering a FULL freeze to PARTIAL.
THEOREM RestraintsHoldUntilReleased == OperatorSpec => ForbiddenUntilReleased
<1>1. ASSUME OperatorInv, OperatorNext, NEW a \in Accounts
      PROVE  Justified(a)
  <2>1. OperatorRows
    BY <1>1 DEF OperatorInv
  <2>2. ASSUME \A kind, b : InForce(kind, b) \subseteq InForce(kind, b)', restraint' \in Seq(RestraintRow)
        PROVE  Justified(a)
    <3>1. DeletionBlocked(a) => DeletionBlocked(a)'
      BY <2>2 DEF DeletionBlocked
    <3> QED BY <2>2, <3>1, StillForbidden DEF Justified
  <2>3. ASSUME NEW m \in Managers, NEW k \in CommandKeys, Imposes(m, k)
        PROVE  Justified(a)
    BY <2>1, <2>2, <2>3, CommandKeeps
  <2>4. ASSUME restraint' = restraint
        PROVE  Justified(a)
    BY <2>1, <2>2, <2>4 DEF InForce, OperatorRows
  <2>5. ASSUME NEW m \in Managers, OperatorExecute(m)
        PROVE  Justified(a)
    <3>1. PICK r \in ActionIds, i \in DOMAIN restraint :
                  /\ action[r].status = "APPROVED"
                  /\ ~restraint[i].released /\ i \in Releasable(r)
                  /\ restraint' = [restraint EXCEPT ![i].released = TRUE]
                  /\ action' = [action EXCEPT ![r].status = "EXECUTED", ![r].executor = m]
      BY <1>1, <2>5, ExecuteFacts
    <3>2. action'[r].status = "EXECUTED"
      BY <2>1, <3>1 DEF OperatorRows, Checked
    <3>3. \A kind, b : i \in InForce(kind, b) => CarriedOut(kind, b)
      BY <3>1, <3>2 DEF CarriedOut
    <3>4. \A act \in Acts : /\ GivenBack(a, act) => \/ i \in InForce("FREEZE", a)
                                                    \/ act = "trading" /\ i \in InForce("HALT", None)
                            /\ DeletionBlocked(a) /\ ~DeletionBlocked(a)' => i \in InForce("HOLD", a)
      BY <2>1, <3>1, EndGivesBack
    <3>5. "deposit" \in Acts
      BY DEF Acts
    <3> QED BY <3>3, <3>4, <3>5 DEF Justified
  <2>6. ASSUME NEW m \in Managers, ManagerStep(m)
        PROVE  Justified(a)
    <3>1. \/ \E k \in CommandKeys : Imposes(m, k)
          \/ \E r \in ActionIds, type \in Types : \E target \in Targets(type) :
                 OperatorActionCreate(m, r, type, target)
          \/ \E r \in ActionIds, does \in {"approve", "execute"} : BeginPost(m, r, does)
          \/ OperatorApprove(m) \/ OperatorExecute(m) \/ RefusePost(m)
      BY <2>6, Zenon DEF ManagerStep, Types, Imposes
    <3>2. \/ \E k \in CommandKeys : Imposes(m, k)
          \/ restraint' = restraint
          \/ OperatorExecute(m)
      BY <3>1 DEF OperatorActionCreate, BeginPost, OperatorApprove, RefusePost
    <3> QED BY <2>3, <2>4, <2>5, <3>2
  <2>7. ASSUME NEW r \in ActionIds, RequestExpires(r)
        PROVE  Justified(a)
    BY <2>4, <2>7 DEF RequestExpires
  <2> QED BY <1>1, <2>6, <2>7 DEF OperatorNext
<1>2. OperatorInv /\ [OperatorNext]_operatorVars => [\A a \in Accounts : Justified(a)]_operatorVars
  BY <1>1
<1>3. OperatorSpec => [][\A a \in Accounts : Justified(a)]_operatorVars
  BY <1>2, OperatorInvariant, PTL DEF OperatorSpec
<1> QED BY <1>3 DEF ForbiddenUntilReleased, Justified, GivenBack

=============================================================================
