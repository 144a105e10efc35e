# Formal models of the beyvra backend

TLA+ specifications of the parts of this repository that move money, orders and
events, checked with TLC on small instances and, where the argument goes
through for every instance, proved with TLAPS.  The modules are translated from
the code under `src/FX`; `PROJECT.json` gives the lines behind every definition.

The backend is a Django application on PostgreSQL (READ COMMITTED) with NATS
JetStream between the services.  Its own rules live in service functions that
run in database transactions; what is hard about them is what happens between
transactions: values read before a lock and used after it, events delivered
again, processes that die between two commits, and long sequences of calls that
are legal one by one.

## The system

| Component | State | Operations | Hard behaviour | Correct means |
|---|---|---|---|---|
| Simulated order pipeline (`apps/trading/application/simulation.py`) | orders, idempotency records | `create`, `process_created_order`, `apply_execution`, `cancel` | request threads, consumers and the on-commit callback interleave; an unlocked read | fills match trades; ended orders are final; one order per key; no self-trade |
| Financial adapter (`integrations/financial/simulated.py`) | account, reservations, positions | reserve, release, settle | several orders draw on one account | reservations are covered; books match trades |
| Execution adapter (`integrations/execution/simulated.py`) | none | `submit_order` | deterministic ids, partial fills | an execution is applied once |
| Compliance (`apps/compliance/services.py`) | profile, restrictions, overrides, cases | transitions, restrictions, overrides; invalidation of pending orders | writes order rows that others are processing | a denied order does not execute and holds nothing |
| Outbox and inbox (`apps/foundation`) | `OutboxEvent`, `ProcessedEvent` | enqueue, claim, publish, mark, `consume_once` | leases, retries, deaths, duplicates | exactly one effect, nothing lost |
| Trading controls (`apps/trading/api/admin_views.py`) | one row per scope | halt, resume | rows updated in place, replays | a halt denies |
| Financial halts (`financial_boundary/halts.py`) | requests, approvals | request, approve | concurrent checkers | capability only shrinks |
| Real wallet (`real_wallet/services.py`) | balances, holds, deposits, withdrawals, approvals, ledger | deposit, credit, transfer, withdraw, approve, cancel, fail, complete | sequences over weeks by several parties | money conserved; dual approval; holds within balance |
| Financial boundary events and webhooks (`financial_boundary/eventing.py`, `webhooks.py`) | second outbox, inbox, dead letters | enqueue, claim, release, mark, consume | claims without owners; late and dying publishers; repeated webhooks | published means sent; one effect per event |
| Operator maker/checker (`operations`) | freezes, trading halt, legal holds, requests | freeze, halt, hold, request, approve, execute | unlocked reads, approvals used late | four eyes; what is forbidden stays forbidden until released |
| Operations background tasks (`operations/tasks.py`) | notifications, report and export jobs, files | create, read, deliver, generate | retries, repeated tasks, deaths of processes | one outcome per notification; no job stuck; files exist |
| Registration and mail (`users/registration_safety.py`, `email_verification.py`, `tasks.py`) | pending registrations, challenges, mail outbox | register, verify, resend, mail | reads before the transaction; slow mail workers; unlocked failure handler | one account per address; bounded guesses; only current codes mailed |
| Post-trade and valuation (`apps/post_trade`, `apps/valuation`) | trades, effects, instructions, confirmations, tax lots, P&L, cost basis, corrections, exceptions | fill, correct, assign, escalate, resolve | several books of one position; runs inside the execution transaction | the books agree; FIFO; two people per critical case |
| Treasury, platform commands | requests, approvals | approve, execute | repeats the maker/checker pattern | not modelled |
| Everything else (sessions, security, market data, realtime, content, demo wallet, payments, release tooling) | rows, caches | CRUD, I/O | outside services | not modelled |

How they interact: `create` writes the order, its reservation and an outbox row
in one transaction; the publisher sends the row to JetStream; the consumer runs
`process_created_order` inside `consume_once`; executions settle through the
financial adapter in that transaction; `cancel` and compliance reviews write the
same order row from outside; trading controls and the risk engine decide
whether `create` gets that far.  The financial halts gate the real-money
operations, the real wallet among them.  `process_simulated_fill` runs inside the
execution transaction and ends in the valuation records.  Freezes and the trading
halt of the operations app are looked up by the views of wallets, payments and
bank accounts.  Notifications, jobs and mails leave the request by an `on_commit`
callback and a Celery task.

## Modules

| Module | Models | Extended by |
|---|---|---|
| `SimOrders` | the order pipeline with both adapters, self-trade prevention and the compliance writer | `MCSimOrders`, `SimOrdersProofs` |
| `EventDelivery` | the abstract promise of outbox and inbox | instantiated by `Outbox` |
| `Outbox` | publishers, rows, broker, consumers | `MCOutbox`, `OutboxProofs` |
| `TradingControls` | control rows and the admission decision | `MCTradingControls`, `MCControls`, `ControlsProofs` |
| `FinancialHalts` | halt requests and their approval | `MCControls`, `FinancialHaltsProofs` |
| `OperatorActions` | freezes, halts, legal holds and the requests that end them | `MCControls`, `ControlsProofs` |
| `RealWallet` | the wallet services and the ledger | `MCRealWallet`, `MCBooks`, `RealWalletProofs` |
| `PostTrade` | what a fill writes beside the order; corrections and exceptions | `MCPostTrade`, `MCBooks`, `BooksProofs` |
| `FinancialEvents` | outbox and inbox of the financial boundary | `MCBooks`, `BooksProofs` |
| `Registration` | registration, one-time codes, the mail outbox and its worker | `MCControls`, `MCBackground`, `BackgroundProofs` |
| `OperationsTasks` | notifications and jobs from the request to the last retry | `MCBackground`, `BackgroundProofs` |
| `SumTheorems` | nothing: lemmas about sums over finite sets | the proof modules about money, lots and guesses |

`MCControls`, `MCBooks` and `MCBackground` each check several components in one
run.  The components of such a module keep disjoint tables and never call each
other, so no behaviour of one depends on a step of another: a variable chosen at
the start (`plane`, `book`, `queue`) says which of them moves, and the run's
states are the sum of theirs instead of the product.  `Registration` moves on two of
the planes of `MCControls`: `codes` without mail workers and with more challenges,
`mails` with two workers.

`SimOrders` and `Outbox` meet in `consume_once`: `SimOrders` assumes that the
created event of an order may be delivered at any time and any number of times
(`RouterRead`), `Outbox` shows where those deliveries come from and that the
inbox turns them into one effect.

### SimOrders

A transaction that holds its row lock from the first write to the commit is one
step.  What it read *before* it had the lock is read in an earlier step and kept
in `work` or `req`: `RouterRead`/`InlineRead` take the unlocked read of line 314
and `ProcessCommit` writes with whatever was seen then; `CreateBegin` is the
first evaluation, `CreateCommit` the second one under the account lock;
`CancelBegin` commits the idempotency record in a transaction of its own,
`CancelCommit` and `CancelConflict` lock the order.  `ProcessRollback` is an
exception of the code (nak), `ProcessAbort` a death of the process or a failure
of post-trade processing.

An order carries its reservation (`res`, `left`), its trades, its processed
execution ids (`done`) and a version for `updated_at`.  The operators
`apply_execution`, `settle_trade`, `release_reservation` work on a private copy
of these fields; `ok = FALSE` in it is a raised exception, and then nothing is
committed.

`ComplianceDenies` is the `UPDATE` of
`_invalidate_pending_simulation_orders_if_denied`, which every compliance
transition ends in; `ComplianceChanges` is eligibility gained, or lost because a
review date has passed.

Abstractions: one account, one instrument (nothing these operations write is
shared between two); quantities in lots of which 0.4 is a whole number, a fixed
price and an exact fee per lot, so decimal rounding is not in the model; of the
risk limits only the funds check.  An account has one tenant.

### Outbox and EventDelivery

A publisher claims a batch, sends it event by event (`PublishOk`, `PublishError`
ends the batch through `Break`, `PublishUnroutable` is `subject_for` raising) and
marks the results when all are sent (`MarkNext`).  A lease or a backoff that has
run out is `TimePasses`.  `PublisherDies` may happen anywhere; the rows stay
CLAIMED until the lease runs out.  A consumer fetches a message that is not
acknowledged, commits in `consume_once`, and acknowledges in a later step.
JetStream is external: a message with a known `Nats-Msg-Id` may be stored again
(outside the deduplication window) up to `MaxCopies` times.

`EventDelivery` says: an event that was written takes effect at most once, and if
it can be routed and is not given up, eventually.  The mapping takes `accepted` as
the rows that exist, `effects` as the committed mutations and `abandoned` as the
rows that are DEAD_LETTER although no send of theirs reached the stream
(`Unsent`): `OUTBOX_MAX_ATTEMPTS` failures end so for a routable event too.

### TradingControls, FinancialHalts, RealWallet

`TradingControls`: one transaction per POST (`Handle`); `Post` is a new request and
`Resent` an earlier one that arrives again.  `created` is the order of the
`created_at` values, which `update_or_create` does not move; `asked` and `newest` are
history: what operators asked for last.  `preview` is what the risk engine does with
`control_state`.

`FinancialHalts`: the approval is split at its locks: row lock and dual-control
checks (`ApproveBegin`), advisory lock and read of the state in force
(`ApproveLock`), reduction check and insert (`ApproveCommit` or
`ApproveRollback`).

`RealWallet`: every service locks what it decides about before reading it, so
each is one step; the module is about sequences of calls.  Confirmations,
reorganizations and the custody signature come from outside and are external
actions.

### OperatorActions

Imposing a freeze, a halt or a hold is one transaction by one manager; a key that
was answered does nothing again.  Ending one takes a request, an approval and an
execution.  `BeginPost` is the unlocked read of the status that is compared with
`If-Match`; `OperatorApprove`, `OperatorExecute` and `RefusePost` are the service
under the row's lock.  In between other managers' posts commit, and the request
may expire.  An UNFREEZE request names the account and not the freeze, as in the
code.  `MutationAllowed` and `DeletionBlocked` are what the restraints are looked
up for; `deposit` stands for the acts that only a FULL freeze forbids.

### OperationsTasks

`task[t]` follows the Celery task of a row: due (the callback has not run), queued,
taken, done, given up, or lost with a process that died.  A delivery is one
transaction, but the realtime push inside it cannot be rolled back
(`DeliveryFails`).  A job is claimed (`Claim`, `SkipJob`, `RefuseJob`), its file is
written, it is completed in a second transaction, and the metrics are counted before
the task returns (`ReturnJob`); `JobFails` is the exception handler, at any of these
points, the last one included.  `Redelivered` is a task that was published twice; its
second copy runs after the first has ended and counts its own `retries`, while the
history `tried` counts the failures of all copies.

### Registration

Verify, resend and delivery lock the registration row and are one step each.
`RegisterBegins` reads whether the address has an account before the transaction of
`Register`.  A worker claims a mail, delivers it in a second transaction, and after
an error writes the outcome without a lock (`RecordFailure`), perhaps over what
another worker did after the lease had run out.  The age of a challenge runs from
the cooldown over validity to an hour, in the order of creation.

### PostTrade and FinancialEvents

`process_simulated_fill` is the whole transaction of a fill: position and cash of
the financial adapter, the trade's path to SETTLED, effect, instruction,
confirmation, and tax lots, P&L and cost basis.  Amounts are whole numbers per
unit.  Corrections and exceptions are later transactions of two people; `firstTaker`
is history: who an exception was assigned to first.

`FinancialEvents` takes a publisher apart into claim, send and mark; the mark asks
only whether the row is IN_FLIGHT.  The repository contains the functions and not
the loop that calls them, so `Send` and `PublisherDies` are external.

## Runs

| Run | Instance | Shows |
|---|---|---|
| `sim_router` | 3 orders, 2 requests, 2 consumers, 3 keys | all safety properties of the pipeline with the consumer as the only processor |
| `sim_money` | 2 orders, 1 request, 2 processors, callback on, fills in two parts, REJECT, EXPIRE, 1 abort, 2 compliance reviews | money stays right with everything on, only compliance denials leave money reserved, and no order stays PENDING |
| `sim_denied` | 2 orders, 3 reviews | *violated*: an order rejected by compliance is executed |
| `sim_cancel_replay` | 1 order, 2 requests, 1 key | *violated*: an answered cancel changes its answer |
| `sim_reservation` | 2 orders, 2 requests, 2 consumers, all ways to end, 1 review | *violated*: an order rejected by compliance keeps its reservation |
| `outbox_delivery` | 2 events (one unroutable), 2 publishers, 2 consumers, 2 attempts per row, 2 failures, 1 death | nothing lost, one effect, the outbox drains, and what is not a dead letter the broker never stored has its effect |
| `controls_planes` | financial halts: 3 requests, 3 actors; trading controls: 2 instruments, 3 keys; operations: 3 managers, 1 account, 2 commands, 2 requests; registration: 1 address, 2 registrations, 4 challenges without mail workers, or 1 registration, 2 challenges, 2 workers | what was stopped stays stopped until its own release, whatever is sent again; four eyes; one account, bounded guesses, only the current code is mailed |
| `controls_halt` | 2 instruments | *violated*: a platform halt loses against a younger instrument row |
| `books_sequences` | wallet: 2 wallets, 2 withdrawals, 1 transfer, 2 deposits; trades: 1 account, 3 fills, 1 correction, 1 exception; events: 1 outbox event, 1 webhook with two contents, 2 publishers | holds, balances, ledger, dual approval; position, lots, cost basis and cash agree, and effects but for approved corrections; two people per critical case; one effect per event |
| `wallet_capture` | 1 withdrawal, 4 members | *violated*: a cancelled withdrawal is completed without its hold |
| `books_correction` | 1 account, 2 fills, 1 correction | *violated*: after an approved correction the position effects no longer add up to the cost basis |
| `background_ends` | 2 notifications, or 2 jobs and 2 workers, or 1 registration and 2 mail workers; 1 fault each | one outcome, files exist, and everything comes to an end, if only a given-up one |

The runs marked *violated* state what a document, a comment, a test or a
reconciliation check of the repository says, and TLC finds the behaviour of the
code that contradicts it.  `PROJECT.json` quotes the lines.

The cause behind `sim_denied` is that `process_created_order` reads and saves the
order without a row lock.  With the consumer alone that is harmless (it is proved
below), because a consumer that lost the race fails on its `ProcessedEvent`; the
compliance update has no such row, and neither has the on-commit callback:
`TerminalNeverRegresses` fails for `Inline = TRUE` as well.  What `sim_money` shows is
that this costs no money: nothing is settled twice and nothing is spent that is not
there.

`sim_reservation` states the RESERVATION_CONSISTENCY check of
`apps/trading/reconciliation.py:46-52`: an order that has ended holds nothing back.  The
compliance update rejects an order and leaves its reservation active, so the check
reports RESERVATION_LEAK.  `OnlyDenialsHoldBack` in `sim_money` says that this is the
only way: whatever an ended order holds back is the whole reservation of an order that
is REJECTED and was never executed, with every other way to end in the run.

`books_correction` states the POSITION_QUANTITY_MISMATCH check of
`apps/valuation/reconciliation.py:20`, which sums effects of every type, as
`PositionValuationService.quantity` does.  An approved correction adds an effect and
leaves lots and cost basis alone, so the position that is valued and the cost it is
compared with are no longer of the same trades.  `BooksAgree` in `books_sequences` says
that nothing else moves them apart.

The missing look at the withdrawal's state behind `wallet_capture` also lets two
later approvals turn a rejected withdrawal into an approved one.

Disagreements and surprises that the models show without a run of their own:

* `publisher.py:101` says that the liveness alert is not to be cleared while
  exhausted events remain; a success of another batch refreshes the heartbeat at
  `publisher.py:121`.
* `execute_operator_request` does not look at `expires_at`: an approval is good for
  ever.  `docs/ACCOUNT-FREEZE.md` calls the request expiring.  With the target
  being an account, a late execution also ends a freeze imposed after the approval.
* The ordinal in the key of a verification mail is a count over the last hour.  A
  registration lives for a day, so after an hour a resend meets its own first key
  with another code and `queue_email` raises (`KeyConflict`).
* A routable event whose publishes fail `OUTBOX_MAX_ATTEMPTS` times is a DEAD_LETTER
  and never has its effect unless a send that timed out did reach the stream
  (`foundation/services.py:47`); `ImplementsLiveDelivery` is conditional on that.
* What only a FULL freeze forbids, such as a deposit, one security manager gives back
  by posting PARTIAL over FULL (`operations/views.py:637`), while ending a PARTIAL
  freeze takes a request and a second person.  `ForbiddenUntilReleased` names this as
  its one exception; `docs/ACCOUNT-FREEZE.md` does not speak of it.
* `docs/NOTIFICATION-DELIVERY.md:3` says "Retry exhaustion records a safe reason for
  operators" and `docs/runbooks/NOTIFICATION-DELIVERY-FAILURE.md:3` "dead-letter permanent
  or exhausted failures".  `operations/tasks.py:101-106` raises the last exception and
  nothing else: the outbox event stays open and there is no dead letter or reason.
  `NotificationEnds` states this outcome (`Exhausted`).
* An exception after a job was COMPLETED, while its metrics are counted, sets the job
  to FAILED although its file is there (`operations/tasks.py:179`), and it is made again.
* The unlocked failure handler of a slow mail worker (`users/tasks.py:225`) writes over a
  mail that another worker has sent: it is sent again, or called a dead letter.
* `TradeCorrectionService.approve` looks neither at the trade's state nor at earlier
  corrections: a trade can be reversed once per correction type.

### Bounds

`Orders`, `CreateKeys`, `CancelKeys` limit how much is submitted, `MaxAborts`,
`MaxReviews`, `MaxFailures`, `MaxCrashes` how often something from outside
happens, `MaxCopies` how many duplicates the broker stores.  Three orders are
what the deeper cases need: one to buy a position, two to cross.  Two threads of
a kind suffice for every race in the code, each of which is between one read and
one write.  In `books_sequences` three fills
of one or two units at two prices make a sale span two lots and leave one partly
used; a second account doubles the time and adds no interaction, as lots, cost
basis and cash are kept per account.  In `controls_planes` two requests and two
commands are what a stale approval needs: freeze, release, freeze again, release.
In the outbox run the failures are as many as the attempts, so that a routable event
can become a dead letter unsent.  In `codes` four challenges are one more than the
sends of an hour and the first code of a second registration come to, so that without
the send limit the guesses would exceed the bound.
In `background_ends` one fault and one retry reach every end a task can have; the hourly
limit on sends plays no part in it and is 1.
The balance pays for some and not for all of the orders (two of
three in `sim_router`, one of two elsewhere), so reservations compete.  In the
outbox runs messages are delivered again after a consumer died or failed; a
second stored copy (`MaxCopies = 2`) adds no new kind of duplicate for the
consumer and is left to the proofs, which hold for any `MaxCopies`.
`MaxTries`, `NoteRetries`, `JobRetries`, `MaxGuesses` and `MaxSends` are settings
of the code, made small.  Thread, order and key sets are symmetric in runs without liveness properties.
Deadlock is not checked: a system whose requests are all answered is at rest.

### Fairness

`Outbox`: the publisher and consumer commands are endless loops that are
restarted, so polling, sending, marking, fetching, committing and acknowledging
are weakly fair, and time passes; failures and deaths are not fair and are
bounded, as in any liveness claim under faults.  `SimOrders`: a transaction that
has begun ends by a commit, a rollback or an abort (weak), and an order's message that
was not acknowledged is delivered again although the consumers are busy with
others (strong fairness per order).  Requests, cancels, reviews and aborts have
no fairness.  `OperationsTasks`: callbacks run and a worker that has a task goes on
(weak); a queued task is taken although others keep the workers busy (strong).
`Registration`: the beat starts the mail task every minute and it takes the mail
that is due first, so a mail that is due again and again is claimed (strong), a
worker goes on, and backoffs and leases run out (weak).  Deaths are bounded; a task
that died with its process is an end of its own (`lost`), because nothing in the
code looks for it.

## Proofs

Every safety property a passing run checks, invariant or action property, is also
proved, for any number of orders, events, requests, threads, rows and keys; the
refinement of `EventDelivery` too.  The runs came first: each inductive invariant
below was checked by TLC on small instances before it was proved.

What the proofs assume of the constants is what the `ASSUME`s of the modules say,
and TLC evaluates them in the runs.  The ones that are there for the proofs:
tables that are summed over have finitely many possible rows (`OrderAssumption`,
`WalletAssumption`; ids and keys are columns of bounded length), and no
notification or job is called "none", the value of an idle worker
(`TaskAssumption`).

### Sums

`SumTheorems` is about `SumFunctionOnSet` of the community modules, which the
models use for every sum.  Its definition is a recursive function chosen over the
subsets of a set, so each fact needs an induction.  The library's induction
theorems have an operator as their parameter, which the provers cannot
instantiate; `SetInduction` and `NatSetInduction` have a set instead (of subsets,
or of numbers), derived from the well-foundedness of inclusion and of `<`.  From
them: the sum exists and is unique (`AdditiveExists`, `AdditiveUnique`), one more
element (`SumAdd`), pointwise sums (`SumOfSums`), bounds (`SumNat`, `SumPart`,
`SumBound`), and the one most proofs rest on, `SumStep`: when a step changes one
row, the sum changes by the difference of that row.

### SimOrdersProofs

Two arguments, for two kinds of claims.

`MoneyInv` holds in every configuration, with consumers, callbacks and compliance
reviews all writing the same order.  It says that an order's fills are its trades,
that an execution id without a `ProcessedEvent` has no trade, and that only an
active reservation holds funds (`Accounted`), together with the two properties
about sums.  The states of orders play no part in it, which is why revived orders
cost nothing.  The step is `PaidFromReservation`: between the beginning of a
transaction and its commit, balance and position less the order's own trades stay
the same, and balance and position less the order's own reservation do not fall.
It composes, so it is shown for each operator on the private copy (`FillPays`,
`EndPays`, `ApplyPays`, `ProcessPays`), and `CommitMoney` turns it into the
statement about all orders.

* `TypeCorrect`, `FillsAlwaysMatchTrades`, `LedgerAlwaysMatchesTrades`,
  `ReservationsAlwaysCovered`: no assumption beyond the constants' types.
* `OneOrderForEachKey`, from `KeysInv`: answered keys and orders correspond one to
  one, and a request in the middle of a create holds a key that is unanswered and
  that no other request holds.

`RouterInv` needs the consumer as the only processor (`~Inline`).  The properties
are not inductive: `process_created_order` overwrites the state it read earlier,
and what saves them is a fact about the inbox.  `RouterInv` says that an order no
consumer has routed has never been filled or cancelled and has its whole
reservation, and that a consumer holding a read of it saw it that way.  `Sound`
relates state, fills and reservation of one order, operator by operator
(`FillSound`, `EndSound`, `ApplySound`, `ProcessSound`).

* `ReservationAlwaysCovers`: with compliance reviews at any time.
* `NoReservationLeak`, `TerminalIsFinal`, `OrdersNeverSelfCross`: with
  `MaxReviews = 0`.  `sim_reservation` and `sim_denied` show that the assumption is
  needed for the first two; for the last one it is needed because a revived order has
  not been compared with the orders created while it was dead.

`OnlyDenialsLeaveReservations` needs neither assumption.  `HoldsInv` says of every
order (`Kept`) that an active reservation pays for what is left to fill, that a PENDING
order has no execution behind it, and that an order that ended with its reservation was
REJECTED before its first execution.  The proof follows the private copy through
`apply_execution`: an execution that ends the order releases the reservation in the same
transaction.

### RealWalletProofs

`WalletTypes`, `HoldsAreCovered`, `MoneyIsConserved`, `BalanceIsExplained`,
`DualApproval`.  Balances are equations between sums over four tables.  `RowsOK`
strengthens them by what ties the tables together: a row that does not exist names
no wallet, a withdrawal with an active hold has no capture in the ledger and one
with a captured hold has, and the owner of a wallet has no vote.  Each service
changes one row of one table and at most two balances, so `SumStep` gives the
new value of every sum.

### BooksProofs

`BooksStayInAgreement` and `FifoExplainsProfit` rest on `BooksInv`, which looks at the
effects of trades only (`FillsAgree`): that the books agree is what makes `dispose_fifo` find enough lots, and FIFO is
what keeps cost and quantity in step.  `DisposalsOK` says that the
dispositions are finitely many and name lots and trades that exist.  The core is `TakenUpTo`, an induction over the lots of an
account: what a sale takes from the first n lots is the smaller of its quantity
and what they hold.  `CorrectedInv` then adds the effects of corrections: each approved
correction has put the opposite of its trade into the sum, once.
`CriticalNeedsTwo` rests on `TicketsInv`: `requested_by` of a critical ticket is whoever
took it first (`TookIt`), which no later assignment may change; comparing the columns
with each other would not show that.  `EventsAreSentAndHandledOnce` rests on `EventsInv`: what a
publisher remembers as sent is on the wire under the row's own payload, so it does
not matter whose claim it marks.

### OutboxProofs, FinancialHaltsProofs, ControlsProofs

`NoEventLost` and the refinement `OutboxRefinement` of `EventDelivery`.  `IInv`
says that what is marked or about to be marked published was stored (`SentInv`),
that what was stored stays in the stream until it is processed (`StreamInv`), that
there is one effect per `ProcessedEvent` (`EffectInv`), and that only written rows
are handled (`OriginInv`).

`ApprovedHaltsHold` and `HaltsOnlyReduce`.  The strengthening is `LockInv`: a
checker that has read the state in force holds the advisory lock, so the state is
still in force when it commits; `ClockInv` makes the newest approval unique.

`ThePlatformDecides` needs that a row holds the state asked for last of its scope and
that a request that was sent has its answer stored, so that it changes nothing when it
comes again (`ControlInv`).  `OneReleaseForEachRequest`,
`ReleasesNeedFourEyes` and `RestraintsHoldUntilReleased` rest on `OperatorInv`:
a request that has moved on was approved by an authorized manager other than its
maker, and the released rows are those of executed requests.  The last of the three
covers every act that a freeze forbids, those of a FULL freeze included.

### BackgroundProofs

`DeliveredOnce` and `CompletedJobsHaveFiles`: a task is in the hands of one worker
(`OneTaker`), a worker at `written` has its file on disk (`WrittenIsOnDisk`), and
pushes are counted by the failures of all copies (`PushesCounted`).

`OneAccountForAnAddress`, `CodesSubmittedAreCurrent` and `GuessesAreBounded` share
`RegistrationInv`.  The bound on guesses is the hardest argument of the project.
A resend counts the codes of the last hour, but a new registration does not, so
the bound has to hold across registrations: `SendsBounded` gives an address without
an account and without an open registration less room for recent codes than one
that has either.  When a registration lapses within the hour it must give room back:
its codes have different ordinals, because `queue_email` refuses a key that was
used with other contents, and none of them is the ordinal of its first code.

### Only model-checked

Liveness (`EventuallyProcessed`, `OutboxDrains`, `ImplementsLiveDelivery`,
`JobEnds`, `NotificationEnds`, `MailEnds`), since the prover treats neither fairness
nor `ENABLED`.  The properties of the runs marked *violated* are false, and the
theorems next to them carry the assumptions under which the code does what it says.

## Not modelled

Decimal rounding (numeric(36,18)) of settlements and unit costs; several
instruments and tenants; risk limits that read no changing state; PostgreSQL
deadlocks inside one statement; wall clocks that step back; serialization, metrics
and audit rows; HTTP and WebSocket I/O; third-party providers beyond their effect on
the modelled rows.

Whole components that are left out, and why: treasury and the kill switch of
`platform_ops` repeat the maker/checker pattern of `OperatorActions`, each call one
transaction under the row's lock; the KYC/AML case life cycle consists of one-row
state machines; market data, pricing and reference data fetch and format; sessions,
devices, content and support are CRUD views; migrations are generated; the
`.codestra` validators and the disabled release script are development tooling.
This is most of the repository's lines and little of what its parts promise each
other.

A second copy of a task that runs at the same time as the first is not in
`OperationsTasks`: two copies of a job can then both write a file, and the later
completion names its own.

## Plan

1. `FinancialEvents` as a second implementation of `EventDelivery`, with the
   refinement proved.
2. Conditions under which the properties of the *violated* runs hold, as theorems:
   a cancel with one thread per key, a platform halt without younger instrument rows,
   a completion that finds its hold active.
3. Treasury transfers and the kill switch, as further users of the maker/checker
   rule.
