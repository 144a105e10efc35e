------------------------ MODULE FinancialHaltsProofs -------------------------
(***************************************************************************)
(* For any number of requests, makers and checkers: competing approvals    *)
(* never re-enable an operation.  The advisory lock makes what a checker   *)
(* read still true when it commits (LockInv); approved_at, assumed to grow *)
(* in commit order, makes the newest approval the one committed last       *)
(* (ClockInv).                                                             *)
(***************************************************************************)
EXTENDS FinancialHalts, TLAPS

\* The newest approval carries the last time handed out.
ClockInv ==
    /\ \A r \in Ids : approval[r] <= clock
    /\ Approved # {} => \E r \in Approved : approval[r] = clock

\* Only requests that were made are approved.
MadeInv ==
    /\ \A r \in Approved : request[r] # NoRequest
    /\ \A a \in Actors : checker[a].pc # "idle" => request[checker[a].req] # NoRequest

\* A checker that has read the state in force holds the lock, and the state is
\* still in force.
LockInv == \A a \in Actors : checker[a].pc = "locked" =>
               lock = a /\ checker[a].seen = current_halt_state

Inv == TypeOK /\ ClockInv /\ MadeInv /\ LockInv /\ EveryApprovalInForce

-----------------------------------------------------------------------------
\* With the clock invariant there is a newest approval, and it was made.
LEMMA NewestFacts ==
    ASSUME Inv, Approved # {}
    PROVE  /\ Newest \in Approved /\ Newest \in Ids
           /\ \A x \in Approved : approval[x] <= approval[Newest]
           /\ request[Newest] # NoRequest
<1>1. PICK r \in Approved : approval[r] = clock
  BY DEF Inv, ClockInv
<1>2. \A x \in Approved : approval[x] <= approval[r]
  BY <1>1 DEF Inv, ClockInv, Approved
<1>3. Newest \in Approved /\ \A x \in Approved : approval[x] <= approval[Newest]
  BY <1>1, <1>2 DEF Newest
<1> QED BY <1>3 DEF Approved, Inv, MadeInv

\* The state in force is a halt state.
LEMMA CurrentTyped == Inv => current_halt_state \in HaltStates
<1> SUFFICES ASSUME Inv PROVE current_halt_state \in HaltStates
  OBVIOUS
<1>1. CASE Approved = {}
  BY <1>1 DEF current_halt_state, HaltStates
<1>2. CASE Approved # {}
  <2>1. Newest \in Ids /\ request[Newest] # NoRequest
    BY <1>2, NewestFacts
  <2>2. request[Newest] \in [state : HaltStates \ {"ACTIVE"}, by : Actors]
    BY <2>1 DEF Inv, TypeOK
  <2> QED BY <1>2, <2>2 DEF current_halt_state
<1> QED BY <1>1, <1>2

\* Nothing is requested or approved initially.
LEMMA InitInv == Init => Inv
BY ActorAssumption DEF Init, Inv, TypeOK, ClockInv, MadeInv, LockInv, EveryApprovalInForce,
   Approved, Idle, NoRequest

\* Steps that neither approve nor change a request that was made leave the
\* state in force alone.
LEMMA SameState ==
    ASSUME Inv, approval' = approval,
           \A r \in Ids : request[r] # NoRequest => request'[r] = request[r]
    PROVE  /\ current_halt_state' = current_halt_state
           /\ Approved' = Approved
           /\ EveryApprovalInForce'
           /\ \A r \in Approved' : request'[r] # NoRequest
<1>1. Approved' = Approved /\ Newest' = Newest
  BY DEF Approved, Newest
<1>2. \A r \in Approved : request'[r] = request[r] /\ request[r] # NoRequest
  BY DEF Inv, MadeInv, Approved
<1>3. current_halt_state' = current_halt_state
  BY <1>1, <1>2, NewestFacts DEF current_halt_state
<1>4. EveryApprovalInForce'
  BY <1>1, <1>2, <1>3 DEF Inv, EveryApprovalInForce, AllowedNow
<1> QED BY <1>1, <1>2, <1>3, <1>4

\* The approval committed last is the newest one.
LEMMA CommitMakesNewest ==
    ASSUME Inv, NEW r \in Ids, clock' = clock + 1, request' = request,
           approval' = [approval EXCEPT ![r] = clock + 1]
    PROVE  /\ Approved' = Approved \cup {r}
           /\ current_halt_state' = request[r].state
           /\ ClockInv'
<1>1. approval \in [Ids -> Nat] /\ clock \in Nat /\ \A x \in Ids : approval[x] <= clock
  BY DEF Inv, TypeOK, ClockInv
<1>2. approval'[r] = clock + 1 /\ \A x \in Ids : x # r => approval'[x] = approval[x]
  BY <1>1
<1>3. Approved' = Approved \cup {r}
  BY <1>1, <1>2 DEF Approved
<1>4. \A x \in Approved' : approval'[x] <= approval'[r]
  BY <1>1, <1>2 DEF Approved
<1>5. \A x \in Approved' : (\A y \in Approved' : approval'[y] <= approval'[x]) => x = r
  <2> SUFFICES ASSUME NEW x \in Approved', \A y \in Approved' : approval'[y] <= approval'[x],
                      x # r
               PROVE  FALSE
    OBVIOUS
  <2>1. x \in Ids /\ approval'[x] <= clock
    BY <1>1, <1>2 DEF Approved
  <2>2. approval'[r] <= approval'[x]
    BY <1>3
  <2>3. approval'[x] \in Nat
    BY <1>1, <1>2, <2>1
  <2> QED BY <1>1, <1>2, <2>1, <2>2, <2>3
<1>6. r \in Approved'
  BY <1>3
<1>7. Newest' = r
  BY <1>4, <1>5, <1>6 DEF Newest
<1>8. current_halt_state' = request[r].state
  BY <1>6, <1>7 DEF current_halt_state
<1>9. ClockInv'
  BY <1>1, <1>2, <1>6 DEF ClockInv
<1> QED BY <1>3, <1>8, <1>9

\* A checker in the middle of an approval names a request.
LEMMA CheckerFacts ==
    ASSUME Inv, NEW a \in Actors, checker[a].pc # "idle"
    PROVE  checker[a].req \in Ids
           /\ request[checker[a].req] \in [state : HaltStates \ {"ACTIVE"}, by : Actors]
<1>1. checker[a].req \in Ids
  BY DEF Inv, TypeOK, Idle
<1> QED BY <1>1 DEF Inv, TypeOK, MadeInv

\* request_financial_halt adds a request and touches no other.
LEMMA RequestStep ==
    ASSUME Inv, NEW a \in Actors, NEW r \in Ids, NEW s \in HaltStates,
           request_financial_halt(a, r, s)
    PROVE  Inv' /\ AllowedNow' = AllowedNow
<1>1. /\ request[r] = NoRequest /\ s # "ACTIVE"
      /\ request' = [request EXCEPT ![r] = [state |-> s, by |-> a]]
      /\ UNCHANGED <<approval, clock, lock, checker>>
  BY DEF request_financial_halt
<1>2. TypeOK'
  BY <1>1 DEF Inv, TypeOK
<1>3. [state |-> s, by |-> a] # NoRequest
  BY ActorAssumption DEF NoRequest
<1>4. /\ \A x \in Ids : request[x] # NoRequest => request'[x] = request[x]
      /\ \A x \in Ids : request[x] # NoRequest => request'[x] # NoRequest
  BY <1>1 DEF Inv, TypeOK
<1>5. /\ current_halt_state' = current_halt_state /\ Approved' = Approved
      /\ EveryApprovalInForce' /\ \A x \in Approved' : request'[x] # NoRequest
  BY <1>1, <1>4, SameState
<1>6. ClockInv'
  BY <1>1, <1>5 DEF Inv, ClockInv
<1>7. LockInv'
  BY <1>1, <1>5 DEF Inv, LockInv
<1>8. MadeInv'
  BY <1>1, <1>4, <1>5, CheckerFacts DEF Inv, MadeInv
<1> QED BY <1>2, <1>5, <1>6, <1>7, <1>8 DEF Inv, AllowedNow

\* The steps of a checker that commit nothing.
LEMMA CheckerStep ==
    ASSUME Inv, NEW a \in Actors,
           NEW d \in {Idle} \cup [pc : {"begun"}, req : Ids]
                            \cup [pc : {"locked"}, req : Ids, seen : HaltStates],
           checker' = [checker EXCEPT ![a] = d],
           d.pc # "idle" => request[d.req] # NoRequest,
           d.pc = "locked" => lock' = a /\ d.seen = current_halt_state,
           \/ lock' = lock
           \/ lock = NoActor /\ lock' = a
           \/ lock = a /\ lock' = NoActor,
           UNCHANGED <<request, approval, clock>>
    PROVE  Inv' /\ AllowedNow' = AllowedNow
<1>1. TypeOK'
  BY DEF Inv, TypeOK
<1>2. /\ current_halt_state' = current_halt_state /\ Approved' = Approved
      /\ EveryApprovalInForce' /\ \A x \in Approved' : request'[x] # NoRequest
  BY SameState
<1>3. \A x \in Actors : checker'[x] = IF x = a THEN d ELSE checker[x]
  BY DEF Inv, TypeOK
<1>4. ClockInv'
  BY <1>2 DEF Inv, ClockInv
<1>5. MadeInv'
  BY <1>2, <1>3 DEF Inv, MadeInv
<1>6. LockInv'
  <2> SUFFICES ASSUME NEW x \in Actors, checker'[x].pc = "locked"
               PROVE  lock' = x /\ checker'[x].seen = current_halt_state
    BY <1>2 DEF LockInv
  <2>1. CASE x = a
    BY <1>3, <2>1
  <2>2. CASE x # a
    <3>1. lock = x /\ checker[x].seen = current_halt_state /\ checker'[x] = checker[x]
      BY <1>3, <2>2 DEF Inv, LockInv
    <3>2. lock' = lock
      BY <2>2, <3>1, ActorAssumption
    <3> QED BY <3>1, <3>2
  <2> QED BY <2>1, <2>2
<1> QED BY <1>1, <1>2, <1>4, <1>5, <1>6 DEF Inv, AllowedNow

\* An approval is committed on the state it was checked against.
LEMMA CommitStep ==
    ASSUME Inv, NEW a \in Actors, ApproveCommit(a)
    PROVE  Inv' /\ AllowedNow' \subseteq AllowedNow
<1> DEFINE r == checker[a].req
<1>1. /\ checker[a].pc = "locked" /\ clock' = clock + 1 /\ request' = request
      /\ approval' = [approval EXCEPT ![r] = clock + 1]
      /\ checker' = [checker EXCEPT ![a] = Idle]
      /\ Allowed[request[r].state] \subseteq Allowed[checker[a].seen]
      /\ lock' = IF lock = a THEN NoActor ELSE lock
  BY DEF ApproveCommit, Release, Reduces
<1>2. r \in Ids /\ request[r] \in [state : HaltStates \ {"ACTIVE"}, by : Actors]
      /\ request[r] # NoRequest
  BY <1>1, CheckerFacts DEF Inv, MadeInv
<1>3. lock = a /\ checker[a].seen = current_halt_state
  BY <1>1 DEF Inv, LockInv
<1> HIDE DEF r
<1>4. Approved' = Approved \cup {r} /\ current_halt_state' = request[r].state /\ ClockInv'
  BY <1>1, <1>2, CommitMakesNewest
<1>5. AllowedNow' = Allowed[request[r].state] /\ AllowedNow' \subseteq AllowedNow
  BY <1>1, <1>3, <1>4 DEF AllowedNow, Allowed
<1>6. TypeOK'
  BY <1>1, <1>2 DEF Inv, TypeOK
<1>7. \A x \in Actors : checker'[x] = IF x = a THEN Idle ELSE checker[x]
  BY <1>1 DEF Inv, TypeOK
<1>8. Idle.pc = "idle"
  BY DEF Idle
<1>9. MadeInv'
  BY <1>1, <1>2, <1>4, <1>7, <1>8 DEF Inv, MadeInv
<1>10. LockInv'
  BY <1>3, <1>7, <1>8 DEF Inv, LockInv
<1>11. EveryApprovalInForce'
  <2>1. \A x \in Approved : AllowedNow \subseteq Allowed[request[x].state]
    BY DEF Inv, EveryApprovalInForce
  <2>2. \A x \in Approved' : x \in Approved \/ x = r
    BY <1>4
  <2>3. request' = request /\ Allowed' = Allowed
    BY <1>1 DEF Allowed, Mutations, HaltStates
  <2> HIDE DEF AllowedNow, Allowed
  <2>4. \A x \in Approved' : AllowedNow' \subseteq Allowed[request[x].state]
    BY <1>5, <2>1, <2>2
  <2> QED BY <2>3, <2>4 DEF EveryApprovalInForce
<1> QED BY <1>4, <1>5, <1>6, <1>9, <1>10, <1>11 DEF Inv

\* Every step keeps the invariant and allows no more than before.
LEMMA StepInv == Inv /\ [Next]_vars => Inv' /\ AllowedNow' \subseteq AllowedNow
<1> SUFFICES ASSUME Inv, [Next]_vars PROVE Inv' /\ AllowedNow' \subseteq AllowedNow
  OBVIOUS
<1>1. CASE UNCHANGED vars
  BY <1>1 DEF vars, Inv, TypeOK, ClockInv, MadeInv, LockInv, EveryApprovalInForce, AllowedNow,
     current_halt_state, Newest, Approved
<1>2. ASSUME NEW a \in Actors, NEW r \in Ids, NEW s \in HaltStates, request_financial_halt(a, r, s)
      PROVE  Inv' /\ AllowedNow' \subseteq AllowedNow
  BY <1>2, RequestStep
<1>3. ASSUME NEW a \in Actors, NEW r \in Ids, ApproveBegin(a, r)
      PROVE  Inv' /\ AllowedNow' \subseteq AllowedNow
  <2> DEFINE d == [pc |-> "begun", req |-> r]
  <2>1. /\ d \in [pc : {"begun"}, req : Ids] /\ d.pc = "begun" /\ request[d.req] # NoRequest
    BY <1>3 DEF ApproveBegin
  <2> HIDE DEF d
  <2>2. checker' = [checker EXCEPT ![a] = d] /\ UNCHANGED <<request, approval, clock, lock>>
    BY <1>3 DEF ApproveBegin, d
  <2> QED BY <2>1, <2>2, CheckerStep
<1>4. ASSUME NEW a \in Actors, ApproveLock(a) PROVE Inv' /\ AllowedNow' \subseteq AllowedNow
  <2> DEFINE d == [pc |-> "locked", req |-> checker[a].req, seen |-> current_halt_state]
  <2>1. checker[a].pc = "begun" /\ lock = NoActor /\ lock' = a
        /\ checker' = [checker EXCEPT ![a] = d] /\ UNCHANGED <<request, approval, clock>>
    BY <1>4 DEF ApproveLock, LockFree
  <2>2. checker[a].req \in Ids /\ request[checker[a].req] # NoRequest
    BY <2>1, CheckerFacts DEF Inv, MadeInv
  <2>3. d \in [pc : {"locked"}, req : Ids, seen : HaltStates]
        /\ d.req = checker[a].req /\ d.seen = current_halt_state
    BY <2>2, CurrentTyped
  <2> HIDE DEF d
  <2> QED BY <2>1, <2>2, <2>3, CheckerStep
<1>5. ASSUME NEW a \in Actors, ApproveCommit(a) PROVE Inv' /\ AllowedNow' \subseteq AllowedNow
  BY <1>5, CommitStep
<1>6. ASSUME NEW a \in Actors, ApproveRollback(a) PROVE Inv' /\ AllowedNow' \subseteq AllowedNow
  <2>1. Idle.pc = "idle"
    BY DEF Idle
  <2>2. /\ checker' = [checker EXCEPT ![a] = Idle] /\ UNCHANGED <<request, approval, clock>>
        /\ lock' = IF lock = a THEN NoActor ELSE lock
    BY <1>6 DEF ApproveRollback, Release
  <2> QED BY <2>1, <2>2, CheckerStep
<1> QED BY <1>1, <1>2, <1>3, <1>4, <1>5, <1>6 DEF Next

-----------------------------------------------------------------------------
\* Every halt that was ever approved is still in force, with any number of
\* checkers approving at once.
THEOREM ApprovedHaltsHold == Spec => []EveryApprovalInForce
<1>1. Inv => EveryApprovalInForce
  BY DEF Inv
<1> QED BY <1>1, InitInv, StepInv, PTL DEF Spec

\* No step ever allows an operation that was not allowed before: competing
\* approvals cannot re-enable one.
THEOREM HaltsOnlyReduce == Spec => CapabilityOnlyShrinks
<1>1. Inv /\ [Next]_vars => [AllowedNow' \subseteq AllowedNow]_vars
  BY StepInv
<1> QED BY <1>1, InitInv, StepInv, PTL DEF Spec, CapabilityOnlyShrinks
=============================================================================
