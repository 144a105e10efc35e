--------------------------- MODULE OperatorActions ---------------------------
(***************************************************************************)
(* Account freezes, the emergency trading halt and legal holds of one      *)
(* tenant, and the maker/checker requests that end them: the operator      *)
(* endpoints of operations/views.py with approve_operator_request and      *)
(* execute_operator_request of operations/services.py.                     *)
(*                                                                         *)
(* A post reads the request's status without a lock and compares it with   *)
(* If-Match (BeginPost); the service then locks the row, reads it again    *)
(* and writes or refuses.  In between other transactions commit.  The      *)
(* answers kept under idempotency keys are modelled where a repeated       *)
(* command would impose something a second time; a request id stands for   *)
(* the key it was created under.                                           *)
(***************************************************************************)
EXTENDS Naturals, Sequences, FiniteSets

CONSTANTS Accounts,      \* accounts of the tenant
          Managers,      \* operators with a manager role
          RolesOf,       \* OperatorRole rows: [Managers -> SUBSET roles]
          ActionIds,     \* OperatorActionRequest ids; bounds the requests made
          CommandKeys,   \* Idempotency-Key values; bounds freezes, halts and holds
          None           \* a NULL column

ASSUME NoneIsNobody == None \notin Managers \cup Accounts

VARIABLES
    restraint,  \* AccountFreeze, TradingHalt and LegalHold rows in order of creation
    action,     \* OperatorActionRequest by id
    posting,    \* by manager: the approve or execute post being worked on
    answered,   \* IdempotencyRecord: the keys whose command has been carried out
    released    \* history: which request ended which row

operatorVars == <<restraint, action, posting, answered, released>>

\* PROVIDER_ACTIVATION stands for the five types that have no effect here.
ACTION_ROLE_POLICY ==
    [UNFREEZE            |-> {"security_manager", "platform_admin"},
     KILL_SWITCH_RELEASE |-> {"operations_manager", "platform_admin"},
     LEGAL_HOLD_RELEASE  |-> {"compliance_manager", "platform_admin"},
     PROVIDER_ACTIVATION |-> {"operations_manager", "platform_admin"}]

Authorized(m, type) == RolesOf[m] \cap ACTION_ROLE_POLICY[type] # {}

NoAction == [status |-> "NONE", type |-> None, target |-> None, maker |-> None,
             approver |-> None, executor |-> None, expired |-> FALSE]
NoPost   == [does |-> "nothing", req |-> None]

OperatorInit == /\ restraint = <<>>
                /\ action = [r \in ActionIds |-> NoAction]
                /\ posting = [m \in Managers |-> NoPost]
                /\ answered = {} /\ released = {}

\* The rows of a kind that are in force (released_at IS NULL).
InForce(kind, a) == {i \in DOMAIN restraint : /\ restraint[i].kind = kind
                                              /\ restraint[i].account = a
                                              /\ ~restraint[i].released}

-----------------------------------------------------------------------------
(* Imposing: one transaction each, by one manager.                         *)

Insert(kind, a, level) ==
    restraint' = Append(restraint, [kind |-> kind, account |-> a, level |-> level, released |-> FALSE])

\* The record of a new key is completed in the transaction of the effect; a key
\* that has one is answered from it and nothing is done.
Command(k) == /\ k \notin answered /\ answered' = answered \cup {k}
              /\ UNCHANGED <<action, posting, released>>

\* update_or_create: the freeze in force gets the new level.
OperatorFreeze(m, k, a, level) ==
    /\ Authorized(m, "UNFREEZE") /\ Command(k)
    /\ \/ InForce("FREEZE", a) = {} /\ Insert("FREEZE", a, level)
       \/ \E i \in InForce("FREEZE", a) : restraint' = [restraint EXCEPT ![i].level = level]

\* get_or_create: a halt in force stays as it is.
OperatorTradingHalt(m, k) ==
    /\ Authorized(m, "KILL_SWITCH_RELEASE") /\ Command(k)
    /\ IF InForce("HALT", None) = {} THEN Insert("HALT", None, "FULL") ELSE UNCHANGED restraint

OperatorLegalHold(m, k, a) ==
    Authorized(m, "LEGAL_HOLD_RELEASE") /\ Command(k) /\ Insert("HOLD", a, "FULL")

-----------------------------------------------------------------------------
(* Requests.                                                               *)

\* target_ref is not checked when the request is made: an account may not be
\* frozen and the serial number of a hold may not have been given out.
Targets(type) == CASE type = "UNFREEZE" -> Accounts
                   [] type = "LEGAL_HOLD_RELEASE" -> 1 .. Cardinality(CommandKeys)
                   [] type = "KILL_SWITCH_RELEASE" -> DOMAIN restraint
                   [] OTHER -> {None}

OperatorActionCreate(m, r, type, target) ==
    /\ action[r] = NoAction /\ Authorized(m, type)
    /\ action' = [action EXCEPT ![r] = [NoAction EXCEPT !.status = "PENDING", !.type = type,
                                                        !.target = target, !.maker = m]]
    /\ UNCHANGED <<restraint, posting, answered, released>>

\* expires_at, one hour after the request, has passed; of a request that has been
\* approved nothing reads it.
RequestExpires(r) ==
    /\ action[r].status = "PENDING" /\ ~action[r].expired
    /\ action' = [action EXCEPT ![r].expired = TRUE]
    /\ UNCHANGED <<restraint, posting, answered, released>>

\* The unlocked read: the status is the one the client sent in If-Match (any
\* other status than these two is refused by the service).
BeginPost(m, r, does) ==
    /\ posting[m] = NoPost
    /\ action[r].status = IF does = "approve" THEN "PENDING" ELSE "APPROVED"
    /\ posting' = [posting EXCEPT ![m] = [does |-> does, req |-> r]]
    /\ UNCHANGED <<restraint, action, answered, released>>

\* Variant: the maker may approve.
MayApprove_Self(m, r) == /\ action[r].status = "PENDING" /\ ~action[r].expired
                         /\ Authorized(m, action[r].type)

\* approve_operator_request, with the row locked.
MayApprove(m, r) == /\ action[r].maker # m
                    /\ action[r].status = "PENDING" /\ ~action[r].expired
                    /\ Authorized(m, action[r].type)

\* The rows a request may end, read with a lock: the freeze in force of the
\* account, or the halt or hold the target names if it is in force.
Releasable(r) ==
    LET t == action[r].target
        named(kind) == {i \in DOMAIN restraint : /\ i = t /\ restraint[i].kind = kind
                                                 /\ ~restraint[i].released}
    IN  CASE action[r].type = "UNFREEZE" -> InForce("FREEZE", t)
          [] action[r].type = "KILL_SWITCH_RELEASE" -> named("HALT")
          [] action[r].type = "LEGAL_HOLD_RELEASE" -> named("HOLD")
          [] OTHER -> {}

\* Variant: the status is not read again under the lock.
MayExecute_Unlocked(m, r) == /\ action[r].maker # m
                             /\ Authorized(m, action[r].type)

\* execute_operator_request, with the row locked; there is no look at expires_at.
MayExecute(m, r) == /\ action[r].status = "APPROVED" /\ action[r].approver # None
                    /\ action[r].maker # m
                    /\ Authorized(m, action[r].type)

OperatorApprove(m) ==
    LET r == posting[m].req IN
    /\ posting[m].does = "approve" /\ MayApprove(m, r)
    /\ action' = [action EXCEPT ![r].status = "APPROVED", ![r].approver = m]
    /\ posting' = [posting EXCEPT ![m] = NoPost]
    /\ UNCHANGED <<restraint, answered, released>>

\* Variant: the request is not closed when it has been carried out.
Executed_Open(r, m) == action' = [action EXCEPT ![r].executor = m]

Executed(r, m) == action' = [action EXCEPT ![r].status = "EXECUTED", ![r].executor = m]

OperatorExecute(m) ==
    LET r == posting[m].req IN
    /\ posting[m].does = "execute" /\ MayExecute(m, r)
    /\ \E i \in Releasable(r) : /\ restraint' = [restraint EXCEPT ![i].released = TRUE]
                                /\ released' = released \cup {[req |-> r, row |-> i]}
    /\ Executed(r, m)
    /\ posting' = [posting EXCEPT ![m] = NoPost]
    /\ UNCHANGED answered

\* PermissionError: the idempotency record is deleted and nothing else is written.
RefusePost(m) ==
    LET r == posting[m].req IN
    /\ \/ posting[m].does = "approve" /\ ~MayApprove(m, r)
       \/ posting[m].does = "execute" /\ ~(MayExecute(m, r) /\ Releasable(r) # {})
    /\ posting' = [posting EXCEPT ![m] = NoPost]
    /\ UNCHANGED <<restraint, action, answered, released>>

ManagerStep(m) ==
    \/ \E k \in CommandKeys : \/ OperatorTradingHalt(m, k)
                              \/ \E a \in Accounts : \/ OperatorLegalHold(m, k, a)
                                                     \/ \E level \in {"PARTIAL", "FULL"} :
                                                            OperatorFreeze(m, k, a, level)
    \/ \E r \in ActionIds : \/ \E type \in DOMAIN ACTION_ROLE_POLICY : \E target \in Targets(type) :
                                   OperatorActionCreate(m, r, type, target)
                            \/ \E does \in {"approve", "execute"} : BeginPost(m, r, does)
    \/ OperatorApprove(m) \/ OperatorExecute(m) \/ RefusePost(m)

OperatorNext == (\E m \in Managers : ManagerStep(m)) \/ (\E r \in ActionIds : RequestExpires(r))

OperatorSpec == OperatorInit /\ [][OperatorNext]_operatorVars

-----------------------------------------------------------------------------
(* What the restraints are for.                                            *)

\* What every freeze forbids; a FULL one forbids deposits (payments/views.py) too.
PartialActs == {"withdrawal", "transfer", "trading", "credentials"}
Acts == PartialActs \cup {"deposit"}

\* assert_sensitive_mutation_allowed
MutationAllowed(a, act) ==
    /\ act = "trading" => InForce("HALT", None) = {}
    /\ \A i \in InForce("FREEZE", a) : restraint[i].level # "FULL" /\ act \notin PartialActs

\* deletion_disposition: a deletion request is marked as blocked.
DeletionBlocked(a) == InForce("HOLD", a) # {}

-----------------------------------------------------------------------------
(* Properties.                                                             *)

\* Execution ends exactly one row and no row is ended twice or by anything but
\* an executed request, however the posts of several managers interleave.
OneReleasePerRequest ==
    /\ {x.req : x \in released} = {r \in ActionIds : action[r].status = "EXECUTED"}
    /\ {x.row : x \in released} = {i \in DOMAIN restraint : restraint[i].released}
    /\ \A x, y \in released : x.req = y.req <=> x.row = y.row

\* Nobody ends a restraint alone: the one who asked neither approved nor
\* executed, and approver and executor held a role of the action's domain.
FourEyes ==
    \A x \in released : LET q == action[x.req] IN
        /\ q.maker \notin {q.approver, q.executor}
        /\ \A m \in {q.approver, q.executor} : m \in Managers /\ Authorized(m, q.type)

\* A request that was approved is executed, and it was made for a row of this
\* kind and account that was in force.
CarriedOut(kind, a) ==
    \E r \in ActionIds : /\ action[r].status = "APPROVED" /\ action'[r].status = "EXECUTED"
                         /\ Releasable(r) \cap InForce(kind, a) # {}

\* The FULL freeze in force of the account becomes a PARTIAL one.
Lowered(a) ==
    \E i \in InForce("FREEZE", a) : /\ restraint[i].level = "FULL" /\ restraint'[i].level = "PARTIAL"
                                    /\ i \in InForce("FREEZE", a)'

\* What a freeze, a halt or a hold forbids stays forbidden until a request made
\* for that very freeze, halt or hold is approved and executed, with one
\* exception, which docs/ACCOUNT-FREEZE.md does not speak of: what only a FULL
\* freeze forbids is given back by one manager who posts PARTIAL over it.
ForbiddenUntilReleased ==
    [][\A a \in Accounts :
        /\ \A act \in Acts : ~MutationAllowed(a, act) /\ MutationAllowed(a, act)' =>
               \/ CarriedOut("FREEZE", a)
               \/ act = "trading" /\ CarriedOut("HALT", None)
               \/ act \notin PartialActs /\ Lowered(a)
        /\ DeletionBlocked(a) /\ ~DeletionBlocked(a)' => CarriedOut("HOLD", a)]_operatorVars
=============================================================================
