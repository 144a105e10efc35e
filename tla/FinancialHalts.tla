--------------------------- MODULE FinancialHalts ----------------------------
(***************************************************************************)
(* The maker/checker halt authority of financial_boundary/halts.py, for    *)
(* one tenant: halt requests and approvals are append-only rows, and the   *)
(* state in force is the one of the newest approval.                       *)
(*                                                                         *)
(* approve_financial_halt locks the request row, then waits for the        *)
(* tenant's advisory lock, and only then reads the state in force; both    *)
(* locks are held until its transaction ends.                              *)
(***************************************************************************)
EXTENDS Naturals

CONSTANTS Ids,      \* halt requests that may be made
          Actors,   \* operators
          NoActor,  \* no one, the holder of a free lock
          Roles     \* the roles of each actor

ASSUME ActorAssumption == NoActor \notin Actors
ASSUME RolesAssumption ==
    Roles \in [Actors -> SUBSET {"financial_viewer", "financial_operations", "financial_manager"}]

VARIABLES
    request,   \* FinancialHaltRequest by id
    approval,  \* FinancialHaltApproval by request: approved_at, 0 when there is none
    clock,     \* the last approved_at
    lock,      \* holder of pg_advisory_xact_lock, or NoActor
    checker    \* the approval each actor is in the middle of

vars == <<request, approval, clock, lock, checker>>

Mutations == {"DEPOSIT", "WITHDRAWAL", "TRANSFER", "RESERVATION", "SETTLEMENT"}

HaltStates == {"ACTIVE", "WITHDRAWALS_HALTED", "FUNDING_HALTED", "READ_ONLY",
               "ALL_MUTATIONS_HALTED"}

Allowed == [s \in HaltStates |->
              CASE s = "ACTIVE" -> Mutations
                [] s = "WITHDRAWALS_HALTED" -> Mutations \ {"WITHDRAWAL"}
                [] s = "FUNDING_HALTED" -> Mutations \ {"DEPOSIT"}
                [] OTHER -> {}]

NoRequest == [state |-> "NONE", by |-> NoActor]
Idle      == [pc |-> "idle"]

Init == /\ request = [r \in Ids |-> NoRequest]
        /\ approval = [r \in Ids |-> 0]
        /\ clock = 0 /\ lock = NoActor
        /\ checker = [a \in Actors |-> Idle]

-----------------------------------------------------------------------------
Approved == {r \in Ids : approval[r] > 0}

\* order_by("-approved_at").first()
Newest == CHOOSE r \in Approved : \A x \in Approved : approval[x] <= approval[r]

current_halt_state == IF Approved = {} THEN "ACTIVE" ELSE request[Newest].state

\* assert_financial_operation_allowed raises for every other operation.
AllowedNow == Allowed[current_halt_state]

request_financial_halt(a, r, state) ==
    /\ Roles[a] \cap {"financial_operations", "financial_manager"} # {}
    /\ state # "ACTIVE"
    /\ request[r] = NoRequest
    /\ request' = [request EXCEPT ![r] = [state |-> state, by |-> a]]
    /\ UNCHANGED <<approval, clock, lock, checker>>

-----------------------------------------------------------------------------
(* approve_financial_halt.                                                 *)

RowLocked(r) == \E a \in Actors : checker[a].pc # "idle" /\ checker[a].req = r

\* The request row is locked.  An approval that already exists is returned, so
\* only a request without one leads on.
ApproveBegin(a, r) ==
    /\ checker[a].pc = "idle" /\ "financial_manager" \in Roles[a]
    /\ request[r] # NoRequest /\ request[r].by # a
    /\ ~RowLocked(r) /\ r \notin Approved
    /\ checker' = [checker EXCEPT ![a] = [pc |-> "begun", req |-> r]]
    /\ UNCHANGED <<request, approval, clock, lock>>

\* Variant: the advisory lock is not waited for.
LockFree_Always == TRUE

LockFree == lock = NoActor

\* The advisory lock is taken and the state in force read.
ApproveLock(a) ==
    /\ checker[a].pc = "begun" /\ LockFree
    /\ lock' = a
    /\ checker' = [checker EXCEPT ![a] = [pc |-> "locked", req |-> checker[a].req,
                                          seen |-> current_halt_state]]
    /\ UNCHANGED <<request, approval, clock>>

\* Variant: any other state may follow, not only a more restrictive one.
Reduces_Differs(proposed, seen) == Allowed[proposed] # Allowed[seen]

\* The proposed state must take something away and give nothing back.
Reduces(proposed, seen) == /\ Allowed[proposed] \subseteq Allowed[seen]
                           /\ Allowed[proposed] # Allowed[seen]

Release(a) == /\ lock' = IF lock = a THEN NoActor ELSE lock
              /\ checker' = [checker EXCEPT ![a] = Idle]

ApproveCommit(a) ==
    LET r == checker[a].req
    IN  /\ checker[a].pc = "locked" /\ Reduces(request[r].state, checker[a].seen)
        /\ clock' = clock + 1
        /\ approval' = [approval EXCEPT ![r] = clock + 1]
        /\ Release(a)
        /\ UNCHANGED request

\* HaltTransitionDenied, or the transaction dies before its commit.
ApproveRollback(a) ==
    /\ checker[a].pc # "idle"
    /\ Release(a)
    /\ UNCHANGED <<request, approval, clock>>

Next == \E a \in Actors :
           \/ \E r \in Ids, s \in HaltStates : request_financial_halt(a, r, s)
           \/ \E r \in Ids : ApproveBegin(a, r)
           \/ ApproveLock(a) \/ ApproveCommit(a) \/ ApproveRollback(a)

Spec == Init /\ [][Next]_vars

-----------------------------------------------------------------------------
(* Properties.                                                             *)

\* Requests and approvals have the shape of their tables.
TypeOK ==
    /\ request \in [Ids -> {NoRequest} \cup [state : HaltStates \ {"ACTIVE"}, by : Actors]]
    /\ approval \in [Ids -> Nat] /\ clock \in Nat
    /\ lock \in Actors \cup {NoActor}
    /\ checker \in [Actors -> {Idle} \cup [pc : {"begun"}, req : Ids]
                              \cup [pc : {"locked"}, req : Ids, seen : HaltStates]]

\* Competing approvals never re-enable an operation: no step, of any number of
\* checkers approving different requests at once, allows more than before.
CapabilityOnlyShrinks == [][AllowedNow' \subseteq AllowedNow]_vars

\* Every approved halt stays in force: what is allowed now is allowed by each
\* approval ever made, not only by the newest one.
EveryApprovalInForce == \A r \in Approved : AllowedNow \subseteq Allowed[request[r].state]
=============================================================================
