---------------------------- MODULE Registration -----------------------------
(***************************************************************************)
(* Registration by e-mail with a one-time code: the register, verify and   *)
(* resend endpoints (users/registration_safety.py and                      *)
(* users/email_verification.py) and the outbox worker that mails the codes *)
(* (process_transactional_email_outbox in users/tasks.py).                 *)
(*                                                                         *)
(* Verify, resend and delivery hold the lock of the registration row from  *)
(* their first read to their commit, so each is one step; the delivery     *)
(* holds it while it calls the provider.  Not in one step are: the look    *)
(* for an account and the insert of a registration; the claim of a mail,   *)
(* its delivery, and what the exception handler writes.                    *)
(***************************************************************************)
EXTENDS Naturals, Sequences, FiniteSets, FiniteSetsExt, Functions

CONSTANTS Addresses,       \* normalised e-mail addresses
          RegIds,          \* PendingRegistration ids; bounds the registrations
          Clients,         \* register requests worked on at the same time
          Mailers,         \* workers running the outbox task
          MaxSends,        \* EMAIL_OTP_MAX_SENDS_PER_HOUR
          MaxGuesses,      \* EMAIL_OTP_MAX_ATTEMPTS
          MaxTries,        \* attempts before a mail is a dead letter
          MaxChallenges,   \* bound: challenges ever made
          MaxMailFaults    \* bound: provider errors and deaths of workers

ASSUME RegistrationAssumption ==
    {MaxSends, MaxGuesses, MaxTries, MaxChallenges} \subseteq Nat \ {0} /\ MaxMailFaults \in Nat

VARIABLES
    mailEnabled,  \* TRANSACTIONAL_EMAIL_ENABLED
    madeBy,       \* by address: the registrations that made a User of it
    existing,     \* addresses that had a User before
    pending,      \* PendingRegistration by id
    challenge,    \* EmailVerificationChallenge rows in order of creation
    mail,         \* TransactionalEmailOutbox by idempotency_key
    registering,  \* by client: the register request after its look for a User
    mailer,       \* by worker: the mail in hand
    mailFaults

registrationVars == <<mailEnabled, madeBy, existing, pending, challenge, mail, registering,
                      mailer, mailFaults>>

\* "otp:<registration>:<ordinal>", and the welcome mail with ordinal 0 here.
LastOrdinal == IF MaxSends > MaxChallenges THEN MaxSends ELSE MaxChallenges
MailKeys == RegIds \X (0 .. LastOrdinal)
Welcome(p) == <<p, 0>>

\* The age of a challenge: in the cooldown, valid, expired, an hour old.
Fresh   == 0
Expired == 2
HourOld == 3

NoReg  == [status |-> "NONE"]
NoMail == [status |-> "NONE"]
AtRest == [at |-> "rest"]

RegistrationInit ==
    /\ mailEnabled \in BOOLEAN
    /\ madeBy = [a \in Addresses |-> {}] /\ existing \in SUBSET Addresses
    /\ pending = [p \in RegIds |-> NoReg] /\ challenge = <<>>
    /\ mail = [k \in MailKeys |-> NoMail]
    /\ registering = [c \in Clients |-> AtRest] /\ mailer = [w \in Mailers |-> AtRest]
    /\ mailFaults = 0

HasAccount(a) == a \in existing \/ madeBy[a] # {}

Open(p)   == pending[p].status = "pending" /\ ~pending[p].lapsed
Active(p) == {i \in DOMAIN challenge : challenge[i].reg = p /\ challenge[i].status = "active"}

NewChallenge(p, a, ordinal) ==
    [reg |-> p, address |-> a, ordinal |-> ordinal, status |-> "active", age |-> Fresh, guesses |-> 0]

\* A due outbox row; otp is the challenge whose code is in the payload and
\* tries is attempt_count, which only counts up to MaxTries.
NewMail(otp) == [status |-> "pending", due |-> TRUE, tries |-> 0, otp |-> otp]

-----------------------------------------------------------------------------
(* Registering.                                                            *)

\* is_decoy is read before the transaction.
RegisterBegins(c, a) ==
    /\ registering[c] = AtRest
    /\ registering' = [registering EXCEPT ![c] = [at |-> "read", address |-> a, decoy |-> HasAccount(a)]]
    /\ UNCHANGED <<mailEnabled, madeBy, existing, pending, challenge, mail, mailer, mailFaults>>

\* Rows of the address that have lapsed are closed with their challenges; the
\* row that is still pending is reused; otherwise a new one is inserted.  A
\* request that loses the race for the unique index rereads the winner's row.
Register(c) ==
    LET a      == registering[c].address
        lapsed == {p \in RegIds : /\ pending[p].status = "pending" /\ pending[p].address = a
                                  /\ pending[p].lapsed}
        live   == {p \in RegIds : Open(p) /\ pending[p].address = a}
        closed == [p \in RegIds |-> IF p \in lapsed THEN [pending[p] EXCEPT !.status = "expired"]
                                                    ELSE pending[p]]
        ended  == [i \in DOMAIN challenge |->
                      IF challenge[i].reg \in lapsed /\ challenge[i].status = "active"
                      THEN [challenge[i] EXCEPT !.status = "invalidated"] ELSE challenge[i]]
    IN  /\ registering[c].at = "read"
        /\ \/ /\ live # {}
              /\ pending' = closed /\ challenge' = ended /\ UNCHANGED mail
           \/ /\ live = {} /\ Len(challenge) < MaxChallenges
              /\ \E p \in {q \in RegIds : pending[q] = NoReg} :
                     /\ pending' = [closed EXCEPT ![p] = [status |-> "pending", address |-> a, lapsed |-> FALSE,
                                                          decoy |-> registering[c].decoy]]
                     /\ challenge' = Append(ended, NewChallenge(p, a, 1))
                     /\ mail' = IF registering[c].decoy THEN mail
                                ELSE [mail EXCEPT ![<<p, 1>>] = NewMail(Len(challenge) + 1)]
        /\ registering' = [registering EXCEPT ![c] = AtRest]
        /\ UNCHANGED <<mailEnabled, madeBy, existing, mailer, mailFaults>>

-----------------------------------------------------------------------------
(* Verifying.                                                              *)

\* Variant: the unique index on the address is not there.
CanActivate_Twice(p) == ~pending[p].decoy

\* _activate_registration: the insert of the User fails when the address has one.
CanActivate(p) == ~pending[p].decoy /\ ~HasAccount(pending[p].address)

Guessable(i) == challenge[i].guesses < MaxGuesses

\* A code is tried; after MaxGuesses tries the challenge is locked.  When the
\* activation fails everything is rolled back, the count included.
Verify(p, right) ==
    \E i \in Active(p) :
        /\ Open(p) /\ challenge[i].age < Expired
        /\ \/ /\ ~Guessable(i)
              /\ challenge' = [challenge EXCEPT ![i].status = "locked"]
              /\ UNCHANGED <<madeBy, pending, mail>>
           \/ /\ Guessable(i) /\ (~right \/ pending[p].decoy)
              /\ challenge' = [challenge EXCEPT ![i].guesses = @ + 1]
              /\ UNCHANGED <<madeBy, pending, mail>>
           \/ /\ Guessable(i) /\ right /\ CanActivate(p)
              /\ challenge' = [challenge EXCEPT ![i].status = "consumed", ![i].guesses = @ + 1]
              /\ madeBy' = [madeBy EXCEPT ![pending[p].address] = @ \cup {p}]
              /\ pending' = [pending EXCEPT ![p].status = "completed"]
              /\ mail' = [mail EXCEPT ![Welcome(p)] = NewMail(0)]
        /\ UNCHANGED <<mailEnabled, existing, registering, mailer, mailFaults>>

-----------------------------------------------------------------------------
(* Sending again.                                                          *)

\* Challenges of the address in the last hour; the next ordinal is one more.
Sends(a) == Cardinality({i \in DOMAIN challenge : challenge[i].address = a /\ challenge[i].age < HourOld})
Ordinal(p) == Sends(pending[p].address) + 1

\* Variant: the sends of the last hour are not counted.
ResendDue_NoLimit(p) == Open(p) /\ \A i \in Active(p) : challenge[i].age > Fresh

ResendDue(p) ==
    /\ Open(p) /\ \A i \in Active(p) : challenge[i].age > Fresh
    /\ Sends(pending[p].address) < MaxSends

\* queue_email raises when a mail with that key has another content, and the
\* payload holds a code that was made just now.
KeyConflict(p) == ~pending[p].decoy /\ mail[<<p, Ordinal(p)>>] # NoMail

\* A new code takes the place of the earlier ones.
Invalidated(p) == [i \in DOMAIN challenge |-> IF i \in Active(p) THEN [challenge[i] EXCEPT !.status = "invalidated"]
                                                                ELSE challenge[i]]

Resend(p) ==
    /\ ResendDue(p) /\ Len(challenge) < MaxChallenges /\ ~KeyConflict(p)
    /\ challenge' = Append(Invalidated(p), NewChallenge(p, pending[p].address, Ordinal(p)))
    /\ mail' = IF pending[p].decoy THEN mail
               ELSE [mail EXCEPT ![<<p, Ordinal(p)>>] = NewMail(Len(challenge) + 1)]
    /\ UNCHANGED <<mailEnabled, madeBy, existing, pending, registering, mailer, mailFaults>>

-----------------------------------------------------------------------------
(* The mail worker.                                                        *)

Update(w, k, row, hand) ==
    /\ mail' = [mail EXCEPT ![k] = row] /\ mailer' = [mailer EXCEPT ![w] = hand]
    /\ UNCHANGED <<mailEnabled, madeBy, existing, pending, challenge, registering>>

\* Variant: a mail whose worker died is not taken over.
Claimable_PendingOnly(k) == mail[k].status = "pending" /\ mail[k].due

\* Due and pending, or processing with a lease that has run out.
Claimable(k) == mail[k].status \in {"pending", "processing"} /\ mail[k].due

ClaimMail(w, k) ==
    /\ mailer[w] = AtRest /\ Claimable(k)
    /\ Update(w, k, [mail[k] EXCEPT !.status = "processing", !.due = FALSE, !.tries = Min({@ + 1, MaxTries})],
              [at |-> "claimed", key |-> k])
    /\ UNCHANGED mailFaults

\* Variant: the ordinal of the mail is not compared.
DeliveryIsCurrent_AnyOrdinal(k) ==
    k[2] # 0 => Open(k[1]) /\ \E i \in Active(k[1]) : challenge[i].age < Expired

\* _otp_delivery_is_current
DeliveryIsCurrent(k) ==
    k[2] # 0 => Open(k[1]) /\ \E i \in Active(k[1]) : challenge[i].age < Expired /\ challenge[i].ordinal = k[2]

Holds(w, k) == mailer[w].at = "claimed" /\ mailer[w].key = k

Suppress(w, k) ==
    /\ Holds(w, k) /\ ~DeliveryIsCurrent(k)
    /\ Update(w, k, [mail[k] EXCEPT !.status = "dead_letter", !.due = FALSE], AtRest)
    /\ UNCHANGED mailFaults

Disabled(w, k) ==
    /\ Holds(w, k) /\ DeliveryIsCurrent(k) /\ ~mailEnabled
    /\ Update(w, k, [mail[k] EXCEPT !.status = "pending", !.due = FALSE], AtRest)
    /\ UNCHANGED mailFaults

\* The row is locked and read again, but its status is not looked at.
DeliverMail(w, k) ==
    /\ Holds(w, k) /\ DeliveryIsCurrent(k) /\ mailEnabled
    /\ Update(w, k, [mail[k] EXCEPT !.status = "sent", !.due = FALSE], AtRest)
    /\ UNCHANGED mailFaults

Fault == mailFaults < MaxMailFaults /\ mailFaults' = mailFaults + 1

\* The provider fails, it may have accepted the message before, and the
\* transaction is rolled back.
ProviderFails(w, k) ==
    /\ Holds(w, k) /\ DeliveryIsCurrent(k) /\ mailEnabled /\ Fault
    /\ Update(w, k, mail[k], [at |-> "failed", key |-> k, tries |-> mail[k].tries])

\* The handler writes without a lock what follows from the row it has in hand.
AfterFailure(k, tries) ==
    [mail[k] EXCEPT !.status = IF tries >= MaxTries THEN "dead_letter" ELSE "pending", !.due = FALSE]

\* An error that cannot be retried gives a dead letter at once.
RecordFailure(w, retryable) ==
    LET k == mailer[w].key IN
    /\ mailer[w].at = "failed"
    /\ Update(w, k, AfterFailure(k, IF retryable THEN mailer[w].tries ELSE MaxTries), AtRest)
    /\ UNCHANGED mailFaults

MailerDies(w) ==
    /\ mailer[w] # AtRest /\ Fault
    /\ mailer' = [mailer EXCEPT ![w] = AtRest]
    /\ UNCHANGED <<mailEnabled, madeBy, existing, pending, challenge, mail, registering>>

-----------------------------------------------------------------------------
(* Time.                                                                   *)

\* Challenges grow old in the order they were made.
ChallengeAges(i) ==
    /\ challenge[i].age < HourOld
    /\ \A j \in 1 .. i - 1 : challenge[j].age > challenge[i].age
    /\ challenge' = [challenge EXCEPT ![i].age = @ + 1]
    /\ UNCHANGED <<mailEnabled, madeBy, existing, pending, mail, registering, mailer, mailFaults>>

\* A registration lives for a day, its first challenge is an hour old by then.
RegistrationLapses(p) ==
    /\ Open(p) /\ \E i \in DOMAIN challenge : challenge[i].reg = p /\ challenge[i].age = HourOld
    /\ pending' = [pending EXCEPT ![p].lapsed = TRUE]
    /\ UNCHANGED <<mailEnabled, madeBy, existing, challenge, mail, registering, mailer, mailFaults>>

\* next_attempt_at has come, or the lease has run out.
MailDue(k) ==
    /\ mail[k].status \in {"pending", "processing"} /\ ~mail[k].due
    /\ mail' = [mail EXCEPT ![k].due = TRUE]
    /\ UNCHANGED <<mailEnabled, madeBy, existing, pending, challenge, registering, mailer, mailFaults>>

-----------------------------------------------------------------------------
MailerWorks(w) ==
    \/ \E k \in MailKeys : Suppress(w, k) \/ Disabled(w, k) \/ DeliverMail(w, k) \/ ProviderFails(w, k)
    \/ \E retryable \in BOOLEAN : RecordFailure(w, retryable)

RegistrationNext ==
    \/ \E c \in Clients : Register(c) \/ \E a \in Addresses : RegisterBegins(c, a)
    \/ \E p \in RegIds : Resend(p) \/ RegistrationLapses(p) \/ \E right \in BOOLEAN : Verify(p, right)
    \/ \E w \in Mailers : MailerWorks(w) \/ MailerDies(w) \/ \E k \in MailKeys : ClaimMail(w, k)
    \/ \E i \in DOMAIN challenge : ChallengeAges(i)
    \/ \E k \in MailKeys : MailDue(k)

\* The beat starts the task every minute, it takes the mail that is due first,
\* a worker that is up goes on, and backoffs and leases run out.
RegistrationFairness ==
    /\ \A k \in MailKeys : WF_registrationVars(MailDue(k))
    /\ \A k \in MailKeys : SF_registrationVars(\E w \in Mailers : ClaimMail(w, k))
    /\ \A w \in Mailers : WF_registrationVars(MailerWorks(w))

RegistrationSpec == RegistrationInit /\ [][RegistrationNext]_registrationVars /\ RegistrationFairness

-----------------------------------------------------------------------------
(* Properties.                                                             *)

\* Every account was made by one registration, which was no decoy, and by the
\* one code of it that was accepted, whatever requests raced for the address.
OneAccountPerAddress ==
    /\ \A a \in Addresses : Cardinality(madeBy[a] \cup (IF a \in existing THEN {"before"} ELSE {})) <= 1
    /\ \A p \in RegIds :
           Cardinality({i \in DOMAIN challenge : challenge[i].reg = p /\ challenge[i].status = "consumed"}) =
               IF pending[p].status = "completed" /\ ~pending[p].decoy /\ p \in madeBy[pending[p].address]
               THEN 1 ELSE 0

\* The codes of an address that are less than an hour old took a bounded number of
\* guesses between them, over all its registrations and resends: besides the
\* sends of an hour there is one code more at most, of a registration that began
\* when the one before it had made the account.
GuessesBounded ==
    \A a \in Addresses :
        LET recent == {i \in DOMAIN challenge : challenge[i].address = a /\ challenge[i].age < HourOld}
        IN  SumFunctionOnSet([i \in recent |-> challenge[i].guesses], recent) <= (MaxSends + 1) * MaxGuesses

\* A step in which worker w gives the mail it holds to the provider.
Submits(w) == /\ mailer[w].at = "claimed"
              /\ \/ mailer'[w].at = "failed"
                 \/ /\ mailer'[w] = AtRest /\ mail'[mailer[w].key].status = "sent"
                    /\ UNCHANGED mailFaults

\* A mail with a code that a resend has replaced, that has expired or that has
\* been used is not given to the provider, however late its worker is.
OnlyCurrentCodeSubmitted ==
    [][\A w \in Mailers : Submits(w) /\ mailer[w].key[2] # 0 =>
           LET code == challenge[mail[mailer[w].key].otp]
           IN  code.status = "active" /\ code.age < Expired]_registrationVars

\* A mail does not stay in the outbox: it is sent or a dead letter in the end,
\* whatever failed (test_email_outbox_has_durable_periodic_recovery).
MailEnds ==
    \A k \in MailKeys : mailEnabled /\ mail[k].status = "pending" ~> mail[k].status \in {"sent", "dead_letter"}
=============================================================================
