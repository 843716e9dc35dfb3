# stellar-pay-backend in TLA+

A verification project for the backend in `../src`: TLA+ modules of its parts,
TLC configurations that check them on small instances, and TLAPS proofs of what
holds for every instance. `PROJECT.json` maps each definition to the lines it
models and lists the runs, the mutants that show a property can fail, the
hazards, the findings and the theorems.

    tlc -workers 2 -config ReconciliationTwoWorkers.cfg MCReconciliation.tla
    tlapm ReconciliationProofs.tla

## The system

A merchant creates a payment over HTTP and is given the shared Stellar account
and a memo to pay with. A reconciliation worker polls Horizon for incoming
transactions, matches them to open payments by memo, moves the payments through
their statuses and enqueues a webhook for each move. A delivery loop posts the
webhooks and retries them. One process runs all three (`startup.rs:57`); they
share only the database, and nothing prevents a second process.

    merchant --POST /v1/payments--> PaymentService --.
                                                     v
    payer --> Stellar ledger <--Horizon-- worker --> payments, idempotency_keys
                                            |
                                            '--emit--> webhook_events --> delivery loop --POST--> merchant

| Component (crate) | State | Operations | What is hard | What makes it correct |
|---|---|---|---|---|
| state machine (`core`) | none | `can_transition_to`, `event_type` | the from-sets of SQL and of memory derive from it | only legal moves; terminal states are terminal |
| payment repository (`payments`) | `payments`, `idempotency_keys` | `create_with_idempotency_key`, `update_status`, `find_*`, `list*` | two implementations; three UNIQUE/PRIMARY KEY constraints that only Postgres has | compare-and-set on the status; hash and key unique |
| payment creation (`payments`, `api`) | requests in flight | `create_payment`, `create_with_idempotency` | lookup and insert are two steps; retries overlap; replies are lost | one key, one payment; an answer tells the truth about the tables |
| payment transitions (`payments`) | calls in flight | `mark_detected`, `confirm_payment`, `fail_payment`, `expire_payment` | the check is made on an old read | one winner; success is final |
| reconciliation worker (`reconciliation`) | batch of clones, current payment | `run_once`, `process_pending`, `process_detected`, `emit` | stale clones, several workers, an error that ends the pass, a crash between update and event | no double credit; outcome as on the ledger; no false or repeated event; every payment ends |
| Stellar client (`stellar`) | none (the ledger is outside) | `find_payment`, `get_transaction` | page limit, age limit, newest match wins, errors read as transactions | what it returns is on the ledger, with the memo, and not too old; nothing newer was passed over unless it was misread |
| webhook delivery (`webhooks`) | `webhook_events`, batch of clones | `enqueue`, `fetch_due`, `deliver`, `mark_delivered`, `mark_failed` | lost answers, lost updates, crash in between, backoff counter | at least once; final is final; given up only after all attempts |
| webhook signing (`webhooks`) | none | HMAC | - | not modelled |
| on-chain recorder (`onchain`) | none | `record_payment` | best effort, between two other effects | at most one record, confirmed payments only |
| listing (`api`, `payments`) | none (the client walks) | `list_payments`, `list_paginated`, `count` | two queries, u32 arithmetic, rows that appear and move under the walk | a walk misses nothing, a total covers its page |
| server, CLI | two loops over one database | `run_server` | both loops die together, at any await | what the merchant hears is so; each payment comes to an end |

## Modules

| Module | Models |
|---|---|
| `PaymentDomain` | the constants that tables and ledger share |
| `PaymentStatus` | statuses, `can_transition_to`, `valid_from_states`, event types |
| `PaymentRepository` | the two tables and the atomic operations of the trait, for `Backend` "postgres" or "memory" |
| `PaymentCreation` | concurrent and retried `POST /v1/payments`, its properties at the end |
| `Amounts` | decimals: `validate_amount`, NUMERIC, `normalize`, equality |
| `CreateTransaction` | `PaymentCreation` one level down: the statements of the transaction, index locks, the connection pool, the amount on its way to the row |
| `PaymentTransitions` | concurrent callers of the read-check-update transitions |
| `HorizonLedger` | the ledger, and what `find_payment` and `get_transaction` answer |
| `HorizonClient` | `find_payment` one level down: the page, the loop over its records, one GET per candidate |
| `Reconciliation` | the worker: one step per await, any number of workers |
| `ReconciliationProperties` | what it must get right, with the refinement mapping |
| `PaymentLifecycle` | the abstract specification: what the backend promises about a payment |
| `WebhookDelivery` | table and delivery loop, properties at the end |
| `WebhookOutbox` | the abstract specification: what the backend promises about an event |
| `StellarPay` | the composition: both loops in one process, over one clock and one `webhook_events` |
| `PaymentListing` | `GET /v1/payments` and a client that walks its pages |
| `ReconciliationProofs`, `StellarPayProofs` | theorems about the workers, and about both loops together |
| `WebhookDeliveryProofs`, `HorizonClientProofs` | about the delivery loop and `find_payment` |
| `PaymentCreationProofs`, `CreateTransactionProofs` | about requests that create, as steps and as statements |
| `PaymentTransitionsProofs`, `PaymentListingProofs` | about the transition calls and the listing |
| `MC*` | instances for TLC |

`PaymentCreation`, `PaymentTransitions`, `PaymentListing` and `Reconciliation`
extend `PaymentRepository`, so all share one definition of the tables and of what
an update does. `Reconciliation` composes it with `HorizonLedger` and an outbox
(the rows inserted into `webhook_events`), and `StellarPay` composes that with
`WebhookDelivery`: the n-th row of the outbox is event n of the delivery loop.

Three pairs of a specification and what it promises are connected by refinement:
`Reconciliation` implements `PaymentLifecycle`, `WebhookDelivery` implements
`WebhookOutbox`, `CreateTransaction` implements `PaymentCreation` (so that the
worker may take a create for one step). `HorizonClient` is connected to
`HorizonLedger` by the invariant `AnswersAtOnce`: the loop's answer is one of the
`Matches` of the feed at the first GET, the newest but for the misread ones, and `None`
only if there is no other.

### State and actions against the code

**Repository.** `payments[id]` is a row or `NoPayment`, `idempotency_keys[key]`
the `payment_id` or `None`. `CreateWithIdempotencyKey` is the transaction of
`repository.rs:331-373`; it is refused (`CreateConflicts`) by a taken reference
or, in Postgres only, by a taken key. `UpdateStatus` is the one UPDATE of
`repository.rs:414-453`: `MayUpdate` is its WHERE clause together with the UNIQUE
column of the hash, `Updated` its SET clause with the COALESCE. In memory the
mutex makes each operation one step as well.

**Creation.** A request goes `idle -> lookup -> insert -> done`; without a key it
skips the lookup. `Replay` and `KeyUnknown` are the two outcomes of
`find_by_idempotency_key`, `Insert` and `InsertRefused` those of the insert. A
commit whose reply is lost is the second disjunct of `Insert`. A retry is
another request with the same key; `bound` remembers what its key named when it
came.

**Create transaction.** While its request is at `insert`, `tx` runs
`none -> begun -> row -> keyed`: `Begin` is `pool.begin` and waits for one of
`MaxConnections`, `InsertPayment` and `InsertKey` are the two INSERTs, `Commit` and
`Rollback` its ends. Nothing uncommitted is in the tables; the rows of an open
transaction are its request's `call`. An INSERT of a value that an open
transaction holds (`HoldsReference`, `HoldsKey`) is not enabled until that one
ends. `Refused` is SQL state 23505 from either INSERT, `Overflows` 22003 from the
first. `Validate`, `ToNumeric`/`FitsNumeric` and `Normalize` are what happens to the
amount in between; the refinement maps a body to its normalised form.

**Horizon client.** `GetPage` fixes `seen`, the end of the page, `Skip`, `Break` and
`Candidate` are the guards of the loop in their order, `OtherMemo` and `Found` the two
outcomes of `get_transaction_memo` when it reads the transaction, `RequestFails` any of
its errors. `ErrorDocument` is the third outcome: only 404 is checked for
(`client.rs:118`), and the one field decoded is optional (`client.rs:52`), so that the
JSON body of a 429 or 5xx is `Ok(None)` and the loop goes on, past a match as well. The
history `misread` holds these records. `Operation` and `CloseLedger` append to the feed
meanwhile.

**Worker.** `StartPass` takes clones of the open payments, `TakePayment` the
oldest one left and decides between expiry, lookup and settlement by the clone;
`FindHit`/`FindMiss` are `find_payment` with `amounts_match`, and `FindOlder`/`FindNothing`
the same when error documents made it pass over matches; `MarkDetected`,
`MarkExpired`, `MarkConfirmed`, `MarkFailed` the updates; `RecordPayment`, `Emit`
and `EmitFails` the effects that follow. `UpdateRefused` and `RequestFails` are
the `?` that end a pass, `Crash` a process that stops at any await.

**Listing.** `Ask` and `Read` are a client that starts with some query and asks for
the next page while `page * per_page < total`; `Clamp` is what the handler does to
its query, `ListPayments` the service's two queries, `Newest` the order by
`created_at` with its ties open. `Create` commits a payment up to `MaxLag` after
`Payment::new` drew its `created_at`. `Offset % U32` is the wrapped offset of a build
without overflow checks, `Panic` that of one with them.

**Delivery.** `FetchDue` takes the batch, `Take` its next row, `Post` makes the
request (accepted or not by the merchant, its answer received or not),
`MarkDelivered`, `MarkFailed` and `MarkLost` what is written afterwards. The
loop logs an error and goes on with the next row; only a crash ends a batch.

**Composition.** `EmitEvent` is the worker's `Emit` together with the table's
`Enqueue`; `Reconcile` and `Deliver` are all other steps of either loop, `CallFails`
their failing calls, `ProcessDies` resets the locals of both at once. `lost` records
each event that a status was reached for and that was never inserted.

### What the modules simplify

- `memo` stands for the pair (destination, memo). Every stored payment has one,
  since `create_payment` generates it, so the early returns on a missing memo are
  never taken. Two payments *can* share a memo, as nothing in the schema forbids it.
- Amounts are values that are equal or not, and which bodies are valid is a choice,
  except in `CreateTransaction`, where they are decimals.
- `created_at` is the moment of the commit, except in `PaymentListing`. API and
  ledger share one clock.
- For the worker one ledger record is one transaction with one native payment, and
  `find_payment` is one step (`FindHit`, `FindMiss`; `FindOlder`, `FindNothing` for what
  error documents lead to); `HorizonClient` shows that the loop amounts to no
  more, for transactions of several operations, of any type and asset. The
  ledger also lists transactions that failed, which Horizon leaves out of a payments
  feed by default; the worker asks for the flag anyway, so both are covered.
- A reply lost after `update_status` committed is that update followed by `Crash`:
  the worker loses its locals in both cases.
- `list_pending_for_reconciliation` orders by `created_at`, in memory as well;
  ties may come in either order.
- The webhook clock counts minutes and jumps to the next due moment.
- Neither HTTP client sets a timeout, and a peer that never answers stops its loop.
  For the delivery loop a POST may stay out for ever, and liveness is stated for
  POSTs that return (`PostsReturn`). The worker's GETs are assumed to return.

## Runs

| Run | Instance | What it shows |
|---|---|---|
| `workers_race` | 2 workers, 2 payments with one memo, 2 transactions, clock 0..1 | no double credit, hash exactly while credited, the outcome is the ledger's verdict, events neither repeated nor false, one on-chain record, whatever the clones, crashes and refusals; and all of it implements `PaymentLifecycle` |
| `one_worker` | 1 worker, 2 payments, 2 transactions, clock 0..2, window 1, a page of 1 record | a credit is backed by a record of the right memo, amount and age; nothing expires early; events come in the order of the statuses; every payment leaves pending and every detected one is settled |
| `lost_event` (violation) | 1 worker | a transition whose enqueue fails, or that a crash follows, is never announced |
| `concurrent_creation` | 3 requests, 4 bodies, 1 key, 2 connections, NUMERIC(3, 1) | the statements implement `PaymentCreation`: tables consistent, one key one payment, retries replay, answers true; no transaction is left open; amounts round-trip; every request ends |
| `repeat_conflicts` (violation) | 3 requests, 2 bodies, 2 keys | an overlapping repeat is answered 409 |
| `conflict_without_reference` (violation) | same | a key conflict is reported as a duplicate reference |
| `transition_callers` | 3 callers, 2 payments, 2 hashes | one winner per move, successes last, conflicts have a cause, legal moves only |
| `webhook_delivery` | 1 loop, 2 events, batch of 1, the real schedule | delivered means received, failed means six failed POSTs, no POST too early, final is final; the loop implements `WebhookOutbox`, and if POSTs return every event is over in the end |
| `stellar_pay` | 1 payment, 1 transaction, both loops, one retry, clock 0..2 | the merchant hears only what is so; no event is lost but by a failed insert, a lost reply or the process dying; if POSTs return every payment ends and its events are delivered or given up |
| `horizon_client` | a feed of up to 3 records of 4 kinds and 3 transactions, a page of 2 | `find_payment` answers as one step at its first GET, but for misread matches |
| `foreign_asset` (violation) | same | a payment of an issued asset is returned |
| `listing` | 3 payments, pages of 1 and 2, u32 of 8 values, clock 0..3, commits 1 late | a walk from page 1 misses no payment that was there and shares its time with no other; a total is never short of its page |

**Bounds.** Two payments that share a memo and a reference space of two are what
it takes for two of them to compete for a transaction, and for one to block the
other in a pass. Two transactions give a wrong one and a right one, an old one
and a new one, and with a page of one record a match that is pushed off the page.
Two workers are enough for every pair of stale clone and update; a third would
only repeat what the second does. `MaxTime` bounds `Tick`, which ends a run and no proof, and `CreatePayment`
leaves each payment its window before the bound. Three requests are an original,
its retry, and a stranger with the same reference or another body for the key;
two connections make the third wait. NUMERIC(3, 1) has amounts that are too large
(100), too fine (1.05) and written with a trailing zero (10.0), as NUMERIC(20, 7)
has. `MaxTries` caps the history counter at the number of attempts the schedule
allows; `FailedAfterAllTries` compares against that number only. With a batch of one
and two events the batch binds: an event waits for a later pass while the other one
and its retries go first. That the second row of a larger batch is posted from a clone
fetched before the first one's POST is covered by the proofs, which hold for any
batch size; `EventEnds` is checked for a batch of one only. `MaxFeed` of three
with a page of two gives records inside, at the end of and beyond a page, and one
appended while the loop runs. `MaxEvents` of two holds all events one payment can
have. `U32` of 8 puts page 5 of 2 beyond the overflow; `Moves` keeps to expiry, as
`PaymentListing` only asks whether a payment enters or leaves a status.

Symmetry is used for ids, references, hashes, requests and workers where no
liveness is checked. Where it is (`one_worker`, `concurrent_creation`,
`webhook_delivery`), the names are numbers and `NamesInOrder` is the CONSTRAINT:
they are used in order. Names are chosen by steps on which no fairness is assumed,
so each behaviour left out is one that is kept with its names exchanged.

**Fairness.** `run_loop` and `run_delivery_loop` tick for ever, and calls of the
database and of Horizon are taken to return: hence weak fairness of the clock, of the
worker's `Advance`, and of the delivery loop's `Advance` except at `post`. Outages end:
from some point on every step is a `SteadyNext` step (a Horizon that answers by error
documents is an outage too). This is stated on steps, as a failed request cannot be
told from a crash by the states. Refused updates and failed enqueues may go on for
ever, and nothing is assumed of payers. Without the end of outages no payment or event
need come to its end.

The specification assumes nothing of the merchant either: it may accept or refuse, its
answers may be lost, and its connection may stay open in silence for ever, for the
client has no timeout (`service.rs:32` of the webhooks crate). `EventEnds` and
`PaymentEnds` therefore have a premise, `PostsReturn`: each POST ends, answered or not.
Without it they are false, since one silent connection stops the loop. `StellarPay`
assumes the same of the two loops beside each other.

In `CreateTransaction` weak fairness of `TxAdvance` says that a statement that need not
wait returns; outages need not end there, since a failed request has ended.

**Deadlock** is checked except where the system stops because its bounded input is
used up: requests and callers that are each used once, one search and one walk.

## Findings

- `lost_event`: `emit` (`worker.rs:149`) logs an error and drops the event, and the
  status commits before it; `docs/architecture.md:81` promises one per transition.
- `repeat_conflicts`: the loser of two overlapping requests with one key is
  answered 409 and not with the original (`idempotency.rs:29`, `docs/api.md:46`).
- `conflict_without_reference`: any `Conflict` becomes `DuplicateReference`, also
  that of the key (`idempotency.rs:29`, `errors.rs:13`).
- `foreign_asset`: `find_payment` never looks at `asset_type` (`client.rs:217`), while
  `payments.rs:6` of the crate calls what it returns a native-XLM payment "already
  filtered down from the raw Horizon payments feed". `amounts_match` compares the
  number only, so that such a payment is credited.

Other disagreements of docs and code were met that no run is spent on:
- `get_transaction_memo` takes the problem document of a 429 or 5xx for a transaction
  without a memo (`client.rs:118-127`), while `StellarError` (`client.rs:11`) has
  variants for requests that fail and bodies that cannot be decoded, and
  `get_transaction` ends in `Decode` on the same document. `find_payment` may so answer
  an older match, or `None` for a payment that is on the page: `AnswersAtOnce` without
  `misread` shows it. `CreditBacked` holds all the same, and a later pass finds the
  payment unless it expires first.
- The in-memory repository overwrites a key (`repository.rs:140`): two overlapping
  requests with one key and two references create two payments, against
  `docs/api.md:46`. `SameKeySamePayment` with `Backend = "memory"` shows it.
- An amount too large for NUMERIC(20, 7) is answered 500, while `docs/api.md:71`
  gives "`400` invalid amount"; `Overflows` models it.
- Nothing builds `PaymentCreated`, while `docs/api.md:131` lists `payment.created`
  among the delivered events.
- `mark_delivered` does not count the attempt that succeeded, while the example at
  `docs/api.md:118` shows `"attempts": 1`.
- The example at `docs/api.md:56` shows `"amount": "10.5000000"`; rows are read
  back normalised, as `10.5`.

## Proofs

`tlapm` checks every leaf. The theorems hold for all values of the constants
that meet the named assumptions, which TLC evaluates on every run: `None` is no
hash, id or key, `NoPayment` is no row, `Backend` is one of the two, `Drafts` are
bodies, the window and the clock's bound are natural numbers, a page is not empty, a
pause lasts a while, a memo is known for each hash, the amounts that can be asked for
include the ones they are read back as, a u32 has more than one value. What a
theorem assumes beyond these stands in its statement and below.

Each component has an inductive invariant. It is listed here with the reason why
the properties alone would not do. All invariants were first checked by TLC on
the instances of the runs.

**`ReconciliationProofs`.** The type invariant is not inductive: a worker that is
about to write needs a payment and, for `detect`, a hash; a worker that announces
needs a status that has an event; and an update keeps the row's own id only if
rows are stored under their id. `LocalInv` adds these facts, and that a pass lists
open payments only.
- `TypeCorrect`: from `LocalInv`.
- `HashExactlyWhenCredited`: inductive relative to `LocalInv`: only `detect` writes a
  hash, and it has one.
- `NoDoubleCredit`: for Postgres; every hash that is written is free.

`SettlementInv` is what makes the rest true although every worker acts on old
reads. `Snapshot`: a clone agrees with its row in all columns but the status,
which is one the row has been in (`Reached`), and a hash it has is the row's.
`ReasonsHold`: what was found before an await (a window that is over, a
transaction that pays, a verdict) is still a reason at the update. `AnnouncedByOne`: of
all workers only the one whose update matched a row announces that move, and it
has not been announced or recorded before.
- `CreditIsBacked`, `OutcomeIsTrue`, `NothingExpiresEarly`, `AnnouncementsAreTrue`,
  `RecordIsUnique`: for any number of workers and either repository.
- `AnnouncementsInOrder`: for one worker, which is what `run_server` starts. A
  second one can move a payment on before the first has announced.
- `WorkersImplementLifecycle`: for Postgres, as `PaymentLifecycle` credits a hash once.
  Each step maps to one of its steps or to none.

**`StellarPayProofs`.** `SystemInv` is `SettlementInv` with what only the composition
can say: a transaction is on the ledger once, the delivery loops handle and the
merchant receives only rows that `emit` has inserted, these rows are as many as
the outbox, and each status reached is accounted for (inserted, lost, or in the
hands of a worker). The worker's lemmas are used as they are; new are a clock
that jumps and a death of all loops at once.
- `NoEventVanishes`, `MerchantHearsTheTruth`: for any number of workers and delivery
  loops, any schedule and either repository.

**`WebhookDeliveryProofs`.** `DeliveryInv` needs one loop (`OneLoop`), as the code does:
a clone in the batch *is* its row (`ClonesAreRows`), since nobody else updates due
rows; a pending row has attempts left and waits for exactly the pause after its
last failure (`RowsCount`); and a row's attempts are behind its POSTs while a refusal is
not recorded (`AnswersKnown`).
- `DeliveryTypeCorrect` (the schedule is never read outside its bounds),
  `GivenUpAfterAllTries`, `NoPostBeforeItIsDue`, `OverIsOver`, `LoopImplementsOutbox`:
  with one loop, for any schedule, batch size and set of events.
- `DeliveredMeansReceived`: for any number of loops, from `LooseInv`, which forgets
  the attempts.

**`PaymentCreationProofs`.** `TableInv` adds to the types that rows are stored under
their id, what a request's location says of its body, key and answer, and
`TablesConsistent`; it is inductive for either backend.
- `CreationTypeCorrect`, `CreationKeepsTablesConsistent`: from `TableInv`.
- `OneKeyOnePayment`, `RetriesReplay`: for Postgres. A bound key stays bound to its
  payment (`BoundKeysStay`), and `KeysStay` ties answers and arrivals to the binding.
  In memory the first fails (see Findings).
- `AnswersMatchTables`: for either backend; `OwnRows` says that each stored row
  belongs to one request, which was answered 201 or has lost its answer.

The steps are proved for `LooseSpec`, in which the row of a commit is only known to
be that request's, with its reference. That is what `CreateTransaction`, whose
rows carry the amount as the column has it, satisfies as well.

**`CreateTransactionProofs`.** `LocksHeld`: what an open transaction has inserted is
neither in the tables nor held by another one, so that its commit cannot meet
a conflict any more. `AmountsKept`: an amount that was accepted is valid, and the row made
of it is its normalised form. All theorems assume `MaxScale <= NumericScale`: the 7
digits of `amount.rs:18` fit the 7 of the column (`migrations/0001`, line 6).
- `TransactionTypeCorrect`: no transaction stays open after its request.
- `StatementsKeepPromises`: over Postgres the promises of `PaymentCreation` with
  the statements, locks, rollbacks and connections interleaved.
- `AmountsRoundTrip`: for every decimal of the accepted scale. It rests on
  `10^(m+n) = 10^m * 10^n` for the recursive `PowerOfTen`. The library's theorems on
  recursive functions cannot be used, so that its existence and this law are
  proved by least counterexample (`LeastNat`, `PowersExist`, `PowersAgree`).
- `StatementsImplementCreation`: either backend; all statements but the commit map to
  no step.

**`PaymentTransitionsProofs`.** `ReadsAreOld`: the status a caller has read is one the
payment has been in, one legal move from the target once the check has passed,
and no longer the payment's when the update has missed. `SuccessLasts` and `OneWinner` are
inductive with it.
- `OneCallerWins`, `SuccessIsKept`, `ConflictsAreReal`, `RowsMoveLegally`,
  `TransitionsTypeCorrect`: any number of callers and payments, either repository.

**`HorizonClientProofs`.** `FeedInOrder`: ledgers close one after the other, so that a
`break` on an old record passes over no younger one. `LoopInv`: each match between
the loop's position and the end of the page was misread, no record the loop has yet
to come to was, and a candidate has passed the guards. `MatchesAreMatches` translates `HorizonLedger`'s `Matches` over the mapped
feed into the records the loop looks for; one lemma per guard shows the
invariant inductive.
- `ClientTypeCorrect`: from `TypeOK /\ FeedInOrder /\ LoopInv`.
- `LoopAnswersAtOnce`: for any feed, kinds of operations, page limit and interleaving,
  whichever GETs fail or are misread.

**`PaymentListingProofs`.** `WalkInv`: a payment that was there when the walk began
and has not been shown has at least as many newer ones before it in the listing as the
pages read so far could hold, and the last total said so. This survives payments that
appear, since nothing leaves these listings and the newer ones only become more.
- `ListingTypeCorrect`, `TotalsCoverPages`: for any page size, queries and moves.
- `WalksMissNothing`: when there are fewer payments than a u32 has values
  (`FewPayments`). A walk through more would reach pages whose offset overflows.

**Only model-checked.** Liveness (`PaymentEnds`, `PendingEnds`, `DetectedIsSettled`,
`EventEnds`, `RequestEnds`) rests on fairness and ENABLED, which are out of the prover's
reach; so is induction over data except by least counterexample, as for the powers
of ten. Every invariant, action property and refinement that a
passing run checks is the conclusion of a theorem.

## Not modelled

Signing (HMAC over bytes), configuration, migrations, routing and JSON shapes,
the read-only CLI paths, `get_account` (no caller), and the reads of one payment or
of one payment's events: single queries over rows that are never deleted. With
two delivery loops `mark_delivered` and `mark_failed` would overwrite each other, as
neither looks at the status; `run_server` starts one, and the properties are
checked and proved for one (`DeliveredWasReceived` for any number). A GET of Horizon
that never returns and clocks that disagree are not modelled either. The composition
takes a payment as created in one step, which
`CreateTransaction` justifies, and leaves the requests of merchants to it.

## Plan

The theorems about one component hold for its own specification. What is left is
to carry them over to the composition: `SystemSpec` implements `PaymentLifecycle` (its
steps on payments and outbox are the worker's) and, with one loop, `WebhookOutbox`
(where an event that `emit` inserts is an enqueue), so that what `WebhookDeliveryProofs`
shows of pauses and attempts holds beside the workers too.
