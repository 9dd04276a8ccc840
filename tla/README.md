# Verification of the balance service, the analytics path and the web applications

TLA+ models of the money paths of this repository and of the applications over
them, TLC configurations that check them on small instances, and TLAPS proofs of
what holds for every instance. Source paths below are relative to
`src/services/balance-service/src` (B), `src/services/analytics-server/src` (A) and
`src/web` (W).

## 1. The system

| part | state it keeps | operations | talks to |
|---|---|---|---|
| Posting reducer (B `modules/posting`) | `account.balance`, `transaction`, `ledger_entry`, `outbox_event`, spend counters | post fresh, post pending, record failed | runs in its caller's database transaction |
| Transfers (B `modules/transfers`) | `transaction` PENDING rows, `hold`, `account.held` | initiate internal, initiate external, confirm, cancel, lazy expiry | posting, one-time codes, idempotency, payees |
| One-time codes (B `modules/otp`) | two Redis keys per user | generate, consume | called by transfers' confirm and by the code application |
| Idempotency (B `modules/idempotency`) | `idempotency_key` | execute, failure hook | wraps initiates and inbound credits |
| Spend limits (B `modules/limits`) | `user_limits` caps | set, resolve | read by posting under the account lock |
| Payees (B `modules/payees`) | `external_payee.cooling_off_until` | enroll | read by initiate external |
| Rails (B `modules/rails`) | `hold.external_ref`, status POSTED to REVERSED | outbound success, outbound failure, inbound credit | called by the external rail, uses posting |
| Approvals and audit (B `modules/approvals`, `modules/audit`) | `approval_request`, `audit_log` | propose, approve, reject a reversal | uses posting |
| Accounts (B `modules/accounts`) | `account.status`, account rows | create, freeze, unfreeze | audit |
| Outbox relay (B `modules/relay`) | `outbox_event.published_at` | poll loop: claim, publish, mark | Postgres to a Redis stream |
| Analytics consumer (A `modules/consumer`) | Redis consumer group, Mongo read model | reclaim, read, upsert, acknowledge | Redis stream to Mongo |
| Analytics reporting (A `modules/reporting`) | none: aggregates the read model | account summaries, daily aggregates | Mongo |
| Client application (W `client`) | page reducers, cache of the pending transfer, mutations on the wire | the steps of the internal and external transfer pages | its stub server (W `client/src/mocks`) or the balance service |
| Code application (W `otp`) | feed with countdown, revealed code | refresh, reveal, count down | the one-time codes |
| Admin application (W `admin`) | hooks' results, cached lists, pages of the log | propose and decide reversals, freeze, set limits, read the log | its stub server (W `admin/src/mocks`) or the balance service |
| HTTP surface, gateways, tools | none the above depends on | | |

Requests run concurrently in several instances of each service. The only
coordination is Postgres (READ COMMITTED, `SELECT ... FOR UPDATE` on accounts,
guarded single-statement updates on statuses, unique indexes, an advisory lock per
owner) and, for codes, single Redis commands. The rail and the users may repeat,
reorder and contradict themselves. A browser tab runs one callback at a time, with
its requests and their answers lost, late or overtaken on the way.

### What is hard, and what makes each part correct

* Two initiates of one customer sweep before either inserts; confirm works in
  several database transactions with a Redis call between them; a prior pending
  transfer is read without a lock. Correct means: one pending transfer at most,
  one terminal outcome per transfer, one event per outcome, money moved once.
* `account.held` is a running total written by hand in five places. Correct
  means: it is the sum of the placed holds, is spent with the transfer it was
  placed for, and is covered by the balance.
* Rail callbacks and approvals both reverse. Correct means: at most one mirror
  movement per transaction, a settled transfer is not reversed by the rail, an
  admin reversal has two admins behind it.
* The hold's expiry is judged by JavaScript, the transaction's by Postgres.
* A code is two Redis keys, written and deleted one after the other by requests
  that overlap and die. Correct means: a code authorizes one confirm, is counted
  against, and never locks its user out for good.
* Spend counters are reset when they are next used, by transactions whose `now()`
  is older than their lock. Correct means: a counter is the sum of what was sent
  in its window, and a transfer is posted exactly if no cap is exceeded.
* A request may be repeated under its idempotency key while the first attempt is
  still running, has failed, or is about to record its failure. Correct means: one
  transaction per key, one answer.
* The relay and the consumer may die between any two of their writes, in several
  instances. Correct means: a row is marked published only when it was sent, an
  entry acknowledged only when it was written, every committed event known in the
  end, and no repetition without a failure.
* The reducer writes four tables. Correct means: balances are the opening balance
  plus the ledger, `balance_after` is what it says, money is conserved, and the two
  reports agree with each other and with the balances.
* A page repeats a transfer it does not know the fate of, and shows what it cached
  before another tab or another administrator acted. Correct means: one pass makes
  one transfer, an outcome on the screen is the one that happened, and a cache that
  nothing is on its way to change is current.

`PROJECT.json` lists the hazards at their lines with the properties that would
catch each going wrong.

## 2. The modules

| module | what it is |
|---|---|
| `BalanceCore` | constants and their assumptions, the state, the type invariant, the locks, the posting reducer, hold release |
| `Transfers` | actions of `TransfersService` |
| `Rails` | actions of `RailsService` |
| `BackOffice` | actions of `ApprovalService` and the freeze switch |
| `BalanceService` | composition: `Next`, `Spec`, invariants, action properties, the refinement of `Payments` |
| `Payments` | abstract specification: what the service promises a customer and the event consumers |
| `Reconciliation` | the property that adds up holds |
| `Reports` | the two reports of the analytics server over any part of the events |
| `AccountOpening` | `createAccount`: advisory lock, count, insert, colliding numbers |
| `SpendLimits` | caps and their edits, the windowed counters, over `AccountOpening` |
| `Otp` | `OtpService.generate` and `consume`, one Redis command a step |
| `OtpApp` | the code application over `Otp`: the feed, the revealed code, the countdowns |
| `Idempotency` | `IdempotencyService.execute` with its keys, its races and its failure recording |
| `EventPipeline` | the outbox relay, the stream and the analytics consumer |
| `EventFeed` | abstract specification of that path: what was committed becomes known, nothing else does |
| `ClientStore` | the request handlers the client application is developed and tested against |
| `Money` | amounts as they are typed into the customer's forms, and as the applications show them |
| `ClientApp` | the client application in one tab over `ClientStore`, with the customer active elsewhere |
| `AdminStore` | the request handlers the admin application is developed and tested against |
| `Console` | the admin application in one tab over `AdminStore`, with other administrators at work |
| `MCBalance`, `MCLimits`, `MCClient`, `MCConsole` | small instances for TLC |
| `BalanceInvariant` | the strengthening (`Shape`) that makes the type invariant inductive |
| `Sums`, `SumTheorems` | sums of amounts, counted in minor units, and what is proved of them |
| `BalanceProofs` | proofs about `BalanceService`, `Reconciliation` and `Reports` |
| `PipelineProofs`, `IdempotencyProofs`, `OtpProofs`, `LimitsProofs` | proofs about `EventPipeline`, `Idempotency`, `OtpApp`, `SpendLimits` |
| `ClientProofs`, `ConsoleProofs` | proofs about `ClientApp` and `Console`, each with the server it is over |

### The balance service: state and code

Tables are functions over a bounded pool of row ids. A `transaction` row is its
`status` and its immutable `header`; the hold of a transaction (at most one) is
its status `hold[t]` and whether `external_ref` is set, `railRef[t]`. `balance`,
`held` and `frozen` are the columns of `account`; `ledger`, `outbox`, `approval`,
`audit` the tables of those names; `inboundKey` the idempotency keys of inbound
credits; `codes` who has an active one-time code; `clock` the database's `now()`.
`expires = 0` in a header stands for the NULL of a row that was never PENDING.

### Grain of atomicity

A committed database transaction is one step, with everything it writes. A
request that reads before it locks, or works in several database transactions, is
a process `p \in Procs` whose progress is `req[p]`:

* initiate internal: sweep, then insert and commit (`BeginInternal`,
  `CommitInternal`);
* initiate external: cooling-off and unlocked read of the prior pending transfer,
  then its release and the sweeps, then lock, check, insert and commit, or refusal
  and the failure hook's transaction (`BeginExternal`, `SweepExternal`,
  `CommitExternal`, `RefuseExternal`, `RecordFreshFailed`);
* confirm: load and expiry check, re-read and code, then the money transaction,
  then, after a refusal, the failure's transaction (`ConfirmLoad`,
  `ConfirmAuthorize`, `ConfirmPost` or `ConfirmSettle`, `ConfirmRefused`,
  `PersistConfirmFailure`);
* propose a reversal: unlocked reads, then the insert.

An initiate's sweep keeps row locks (and the account lock of the hold it releases)
until its commit, so its effects are written in the commit step and the locks are
derived from `req` in between (`RowLocked`, `AccountLocked`); a step that would
wait for a lock is disabled. The release of the prior hold and the sweeps are one
step: a transfer of the customer that commits between those statements is seen by
the later ones exactly as if it had committed before the first. `Abort` ends a
request at any point, with nothing kept but what it had committed: it is the
rejected guard, the database error, the deadlock victim out of retries and the
crash of the instance. A replayed or refused call that changes nothing is no step.

### Codes, limits and account openings

`Otp`: `record` and `marker[c]` are the keys `otp:<user>` and `otp:<user>:<hash>`
of one user with the ticks they have to live; each Redis command is a step
(`SET NX EX`, `SET EX`, `GETDEL`, `DEL`, `GET`, `SET KEEPTTL XX`) and `req[p]` is
what a request does next. `Die` ends a request between two of them. A wrong guess
is a code whose marker is not there. `hits`, `tries`, `burnt`, `overtaken` and
`overlapped` record what happened: how often a code was found right, how many wrong
codes were counted against it, that it was locked out, that some request acted on a
record that was no longer the one it had read, or placed its two keys at different
ticks, and against which codes a wrong guess was counted from a count another
confirm had changed since (`Current`).
`OtpApp` puts the tab on top of it: `feed[t]`, `shown[t]` and the countdowns, all
moved by one `Tick` of the clock.

`AccountOpening`: a request draws a number, begins its transaction (and so fixes
`now()`), waits for the advisory lock of the owner, counts, inserts, and on a
collision draws again in a new transaction, up to `MaxDraws`. `SpendLimits` shares
its `account` rows, with the two counters and their dates. `BeginSpend` fixes
`now()`, `PostSpend` is the reducer's check, reset and write under the account
lock; `BeginAgain` is the retry after a deadlock. An edit of a cap reads the row,
then writes it with its audit record (`ReadBefore`, `WriteLimits`). `sent`, `late`
and the `alone` of an edit record what happened, for the properties.

### Idempotency

`row` is the `idempotency_key` table of one owner (keys of different owners are
different primary keys), in progress while its `tx` is None; `writer[k]` is the
call whose open transaction wrote the row, so that what other transactions find is
`Committed(k)`; `tx` the committed transactions; `recent` the keys created less
than a minute ago; `call` where each call is between its statements; `told` the
answers given, each possibly lost (`Answer`). `Check` and `Claim` are separate
steps, so two calls pass the replay check together. `Claim` waits for another
call's uncommitted row, and finds it gone or committed (`ClaimLost`). `Fail` is the
rollback of a business failure; the recording of it is a transaction of its own
(`RecordFailure`) which may find that the key was resolved since
(`FailureRaceResolved`). `Abort` is every other error, the deadlock and the crash,
at any point. Keys do not expire: a sweep of `expires_at` is spoken of in comments
and is not in the code.

### The event pipeline and the reports

`row` is the outbox table, with `claimed[r]` the rows the open transaction of relay
`r` has locked (`FOR UPDATE SKIP LOCKED`) and `toSend[r]` those it has not yet sent
by XADD. `stream` is the Redis stream; `group`, `start`, `lastId`, `pel` and `idle`
the consumer group: whether it exists, where it began, what it last delivered, what
is delivered and not acknowledged, and what of that has been so for a minute.
`batch[c]`, `written[c]` and `pass[c]` are the progress of the consumer's tick,
`docs` the read model. All consumers have one name, so that any of them reclaims
any idle entry. `RelayFails` and `ConsumerFails` end a tick at any point, with the
rows unlocked or the batch dropped. The stream and the group are external: they
are modelled from the commands the services send.

`Reports` computes the two aggregations over any subset of the events the balance
service has written, as any of them may have arrived.

### The web applications

`ClientApp` is one tab: the page that is open, its reducer (`wizard`), the
idempotency keys it has made, the mutations on the wire (`calls`, each with its
answer once the server gave one), and what RTK Query caches of the pending transfer
(`feed`, `reading`, `stale`). A mutation is sent, served and heard in three steps;
`Lose` fails it before or after the server acts, or lets it arrive later. A page that
was left no longer hears its answers, the cache still does. The server is
`ClientStore`, the handlers of `client/src/mocks`, each of which runs to its end in
one callback and is one step; the customer may act elsewhere. `Console` has the same
shape, with a hook's last result in place of a reducer, the lists under their tags
(`cache`), and the audit log read page by page while it grows; its server is
`AdminStore`, from `admin/src/mocks`. `Banner` is the alert of the approval queue: the
error of the hook triggered last, above a list that has rows. The stub's log is a
fixture; the one the console reads in earnest is the balance service's, which is
sorted by `created_at`. `log` is the set of the places of its rows in that order, so
that `Record` may add a row at the head or, if it was committed late, behind it;
`Newer` counts the rows before it, which is what an offset counts. A page is the log
as it was when the page was read. The stubs keep their own rules for pending
transfers, holds, cooling off and approvals; those of the balance service are in
the modules above.

`Money` is `lib/money.ts` of the customer's application, and `formatMinorUnits` of the
independent copy in the one-time code application. A text is a record of what it reads
as: whether it is a plain decimal at all, the number before the point, how many digits
follow it and what they say. `Attempt` submits a text the form accepts, and what goes
on the wire is its `ToMinor`. Thousands separators and the currency are left out.

### Abstractions

Amounts are small naturals, one currency. In `BalanceService` the verdict of the
spend caps is left open (`ConfirmRefused` is always possible) and a code is there or
not; `SpendLimits` and `Otp` decide both, and leave out funds and transfers in turn.
The confirmation-of-payee token, request shapes, and 404 answers are not modelled in
the services: the inputs are those that pass. `Tick` moves the database clock up to
`MaxClock`; `TicksPerMs` makes JavaScript's truncation of a timestamp visible. In
`Idempotency` the operation is only its outcome; in `Transfers` and `Rails` a key
that replays is no step. A document of the read model is its event id. A code drawn
at random is taken never to repeat an earlier one.

## 3. The runs

Bounds are small sets in the .cfg; a feature a run of `MCBalance` is not about is
switched off by an empty set (`Refs`, `Admins`, `Destinations`). Deadlock is checked
in every run but those of `MCLimits`, whose requests are made once and end, and
`console`, where the administrator has no mutation left and nothing is on its way.

| run | module and instance | states | shows |
|---|---|---|---|
| `transfers` | `MCBalance`: 1 customer, 2 accounts with 1 unit each, 2 transfers, 2 requests | 1.13 M | `SinglePending`, `HeldIsPlacedSum`, `FreezeStopsDebits`, refinement of `Payments` |
| `outbound` | `MCBalance`: 1 account with 1 unit, amounts 1 and 2, 1 inbound reference, 3 transactions, 2 requests, clock to 3, milliseconds of 2 ticks, payee cooling off until 2 | 3.05 M | `TypeOK`, `HoldFollowsTransfer`, `MoneyOnce`, `FundsCoverHolds`, `SettledXorReversed`, `OneEventPerOutcome`, `SettleSpendsHold` |
| `approvals` | `MCBalance`: 2 admins, 2 approvals, 1 inbound reference, 3 transactions, 2 requests | 342 k | `FourEyes`, `ReversalOnce`, `AfterIsCurrent`, `ReportsAgree` |
| `idempotency` | 3 calls, 2 keys, 2 fingerprints, 2 transactions | 425 k | `AtMostOnce`, `AnswersAgree`, `ResolvedForGood` |
| `pipeline` | 2 events, one malformed, 2 relays, 2 consumers, the group created at any time, 1 failure | 219 k | `MarkedIsSent`, `AcknowledgedIsKnown`, `RepeatedOnlyAfterFailure`, refinement of `EventFeed` with its liveness |
| `codes` | `OtpApp`: 2 codes, 1 tab, 2 confirms, 2 attempts, 2 ticks to live | 2.19 M | `SingleUse`, `ThrottleHolds`, `LiveCodeIsRecorded`, `ShownIsLive`, `GateClears` |
| `limits` | `MCLimits`: 1 customer, 3 numbers, 2 openings, 2 debits of 1 or 2, 2 edits, 3 days, months of 2 days | 1.94 M | `AccountCap`, `CapsEnforced`, `TrailShowsChange` |
| `client` | `MCClient`: 1 account, 1 destination, 1 payee, 2 transfers, 2 keys, 1 mutation on the wire, 1 upset | 2.92 M | `OnePending`, `OneTransferPerFlow`, `HoldsAddUp`, `ScreenTellsOutcome`, `FeedIsCurrent`, `ResultStays` |
| `console` | `MCConsole`: 2 admins, 3 transactions and room for 2 reversals, 3 approvals, 2 mutations on the wire, 1 upset, 5 log rows in pages of 2 | 4.63 M | `ReversedByOneApproval`, `ListsAreCurrent`, `BannerTellsLatest`, `NothingSkipped` |
| `supersede_leak` | `MCBalance` | | violates `HoldsBackPending`, see 4 |
| `spend_midnight` | `MCLimits`: 1 account, 3 debits, 2 days, no edits | | violates `DailyCapHolds`, see 4 |
| `silent_refusal` | `MCConsole`: 3 admins, 1 mutation | | violates `RefusalsAreTold`, see 4 |

Why the bounds are enough. Every race of the balance service is between two
requests (or a request and a callback) about one or two rows of one customer. Two
requests, two transfers of one customer and one more row for a reversal or a
replacement make each of them happen. A key is raced for by a call that fails and
records it, one that claims meanwhile and one that replays; the second key and
fingerprint are there for reuse and suspected duplicates. In the pipeline two
relays suffice to contend for a row, two consumers to reclaim from each other, and
two events to have a malformed one before or after the other; a second failure
repeats what one has done. Two codes and two confirms make one request meet the
record of the other's code, and two ticks let one of two keys outlive the other. Two
debits meet on one account over two resets of the day and one of the month, two
openings on the last free place and on one number. A tab with one mutation on the
wire and one loss, or one doing of the customer elsewhere, can repeat, be overtaken
and be resumed; the console has two mutations, since its two hooks of one screen
overlap, and three pages hold all of its log, with rows that come in at any place of
it. The outbound run has two ticks in a millisecond and a clock that goes past
deadlines, so that JavaScript and Postgres may judge one deadline differently; its two
amounts are one that is covered and one that is covered only after the inbound
credit. The mutants of `PROJECT.json` show that each property is reached by the
states it is about. Symmetry over row ids, requests, approvals and admins is used for
safety only and is sound: no property names one of them, and the one `CHOOSE`
(`PriorPending`) is over a set `SinglePending` keeps to one element.

### Fairness

None is assumed of the balance service, of idempotency, limits and the
applications: a user may never confirm, a transfer expires only when somebody looks,
a caller may not retry. All said of them is safety.

`OtpApp` assumes `WF_vars(Tick)`: time passes, and with it Redis expires keys. No
request is assumed to go on; `GateClears` holds because every key that is ever
written has an expiry.

`EventPipeline` assumes that the relay's and the consumer's own steps and the
creation of the group happen if they stay possible: both are loops that schedule
their next tick whatever the last one did (`RelayService` and
`StreamConsumerService`, `scheduleNext`), in containers that restart, and both
services create or retry what they need on each start. It assumes that time passes
(`BecomesIdle`) and, by `MaxFailures`, that outages end. Nothing makes an event be
committed, and no fairness is asked of a failure. `PipelineAssumptions` asks that
the entries nobody can process do not fill a whole reclaim pass. A
malformed entry is skipped and never acknowledged, and each reclaim pass takes the
oldest idle entries. The model does not measure the minute of `CLAIM_MIN_IDLE_MS`,
so an entry reclaimed in one pass may be idle again in the next, and stuck ones could
starve those behind them. In the code they would have to fill all the passes of a
minute, `READ_COUNT` (100) entries each; the assumption rules that out, and the
liveness stated here is conditional on it.

## 4. Where the code and its documents disagree

Three runs check a statement of the documents that the code does not keep.

* `supersede_leak`, `HoldsBackPending`: an internal initiate sweeps the customer's
  pending transfer without looking at its hold
  (B `modules/transfers/service/impl/transfers.service.ts:291`). If it was outbound,
  the hold stays PLACED on a cancelled transfer and nothing can release it later:
  the money stays reserved. `specs/04-balance-service.md:61` says the hold is
  released. An outbound initiate releases the hold of the transfer it read (line
  938) before the sweeps (402-403), which are statements of their own and see what
  another initiate committed in between: two outbound initiates suffice too.
* `spend_midnight`, `DailyCapHolds`: the counters are reset by comparing their date
  with `now()`, which is fixed when the transaction begins, while the account is
  locked afterwards (B `modules/posting/service/impl/posting.service.ts:491`). A debit
  that began before midnight and is posted after one of the new day sets the date
  back; the next debit of the new day starts the counter from zero. More than the
  daily cap is sent in that day. `specs/04-balance-service.md:334-335` says the
  counters "never exceed the cap under a concurrent race".
* `silent_refusal`, `RefusalsAreTold`: the approval queue returns "No pending
  approvals." for an empty list
  (W `admin/src/components/organisms/ApprovalsQueue.tsx:29-31`) before it comes to
  its alert. An administrator who decides about the last pending approval after
  another has, is refused with 409; the answer invalidates the list, the refetch
  empties it, and nothing tells of the failure. Line 12 of that file says "a failed
  action surfaces via the `Alert` atom", and W `admin/docs/README.md:410-411` that
  each panel "surfaces its own action error".

`HoldFollowsTransfer` states what does hold of a hold and its transfer in the
presence of the first, `CapsEnforced` what holds of an account no debit has posted
to out of the order of days, `BannerTellsLatest` what holds of the alert above a
queue that has rows.

Three more disagreements were met and are listed with their hazards: the verdicts of
JavaScript and Postgres on expiry differ within a millisecond, so that a hold is
EXPIRED and its transfer CANCELLED (`docs/domain.md:1333` of the balance service says
they agree); a call that fails
and finds its key resolved answers the other call's transaction without comparing
fingerprints (B `modules/idempotency/service/impl/idempotency.service.ts:167`); and the
consumer group begins at the end of the stream, so that what was published before
it existed is not delivered (A
`modules/consumer/service/impl/stream-consumer.service.ts:120`; the comment there says
so, `docs/ARCHITECTURE.md:344-345` does not).

## 5. The proofs

All proofs are for every value of the constants under the assumptions named in the
modules (`CoreAssumptions`, `ReportAssumptions`, `PipelineAssumptions`,
`IdempotencyAssumptions`, `OtpAssumptions`, `DeadlineAssumption`,
`OpeningAssumptions`, `LimitsAssumptions`, `StoreAssumptions`, `NoneIsNothing`,
`AppAssumptions`, `MoneyAssumptions`, `AdminAssumptions`, `FixtureAssumptions`,
`ConsoleAssumptions`): any number of customers, accounts, requests, rows, codes,
instances, failures, tabs and mutations on the wire. What the assumptions ask is
that bounds are numbers, that what is typed is among the amounts there may be, that
None is no value, that the accounts a report is over are finitely many
(`ReportAssumptions`), that a duplicate is no longer suspected once its transfer has
expired (`StoreAssumptions`, as the constants of the stub have it) and that the
fixtures hold nothing reversed and the one proposal they have is of something posted
(`FixtureAssumptions`).

Every invariant and every action property that a passing run checks is a theorem.

### The balance service (`BalanceProofs`)

First `Spec => []Base` where `Base == TypeOK /\ Shape`. `TypeOK`
is not inductive by itself: that a posting writes an account of `AllAccounts`, or
that a release subtracts the amount of a header that exists, depends on what a
request remembers being still true. `Shape` says that: a row has a header from its
insert on and keeps it (`RowOK`); what a request has read is of a row that exists
and is the customer's, and rows it has swept stay PENDING while it holds their locks
(`RequestOK`, `LocksDisjoint`); an approval is about a row that moved
(`ApprovalOK`). There is one lemma per action, and under it one step per conjunct
the action disturbs.

Then every step of `Next` is shown to be one of a dozen effects on
rows, holds and money (`Effect`: a transfer opens, lapses, is confirmed, settles,
is recorded failed, is booked, possibly as the mirror of another, ...), using `Base`
and `SweptOK` (an external initiate that has swept pays the clearing account). Each
property is proved effect by effect and not action by action. The inductive invariant is
`SafetyInv == Base /\ SweptOK /\ SinglePending /\ OneEventPerOutcome /\
ReversalOnce`; from it follow those three invariants and the action properties
`LifecycleOnly` (a status changes only along its life cycle) and `AppendOnly`
(ledger, headers, events and audit records are only added to), which are stated
only as theorems. `MoneyOnce`, `AfterIsCurrent` and `FourEyes` rest on the same invariant:
the first two because the two ledger rows of a transaction are written by the effect that makes
it POSTED and by no other, with the balances, the third with `ApprovalsKept` (every approval was proposed on record,
an executed one has reversed its target), which excludes a second execution for
one target.

`HoldInv` adds `OutboundOK` (a customer's outbound row pays the clearing account), and
makes `HoldFollowsTransfer`, `SettledXorReversed` and `FundsCoverHolds` inductive
with it. The last one rests on `AccountStep`, which says what any step may do to
the balance and the reserved figure of one account. `FreezeStopsDebits` and
`SettleSpendsHold` are action properties of the same invariant.

`RefinesPayments` is `Spec => ImplementsPayments`, the
refinement mapping of `BalanceService`, again effect by effect: each is a step of
`Payments` or changes nothing the customer and the consumers see.

### Sums

Held figures, reports and spend counters are sums over sets whose size no constant
fixes. `Total(f)` of `Sums` is the number of units of f: the cardinality of the set of
pairs of a member and one of its units. What a sum does when a member is added,
taken away or renamed (`TotalAdd`, `TotalRemove`, `TotalRenamed`) is then a matter of
cardinalities of disjoint sets and of bijections, with no recursion. That a sum may
be taken in parts (`TotalOfParts`) needs an induction on a finite set: it takes a
smallest counterexample, by the library's theorem that strict inclusion of finite
sets is well-founded.

`HeldIsPlacedSum` is inductive with `HoldInv` and `RowsFinite` (there are finitely
many rows at any time): the effect that changes the status of a hold changes `held`
by the amount of that row. `ReportsAgree` speaks of every set of events that may
have arrived. For any such set the legs summed account by account, and the headers
summed type by type, are what they are summed at once (`TotalOfParts`), and the debit
legs, like the credit legs, stand one to one for the transactions that moved
(`MoneyOnce`, `TotalRenamed`). That all legs of an account explain its balance is
inductive as `BooksBalance`, since the legs of a transaction that is about to move
are not in the ledger yet.

### The pipeline and idempotency

`PipelineProofs`: `Ind` says that claims are of unpublished rows and of one relay
each, and what is claimed and no longer to be sent is in the stream (`ClaimOK`); that
the stream holds committed events (`StreamOK`); that pending entries and batches lie
between the group's start and its last id (`GroupOK`); and that an entry about to be
acknowledged has its document (`WrittenOK`), next to `MarkedIsSent` and
`AcknowledgedIsKnown` themselves. `RepeatedOnlyAfterFailure` needs `RepeatsOK` with
it: an event is in the stream once more than ticks failed only if it is marked, or
sent by a relay that has yet to mark it. The safety half of `ImplementsFeed` is
`RefinesFeed`.

`IdempotencyProofs`: `Ind` says that an uncommitted row is the claim of the call
that wrote it and every claimed call has one (`ClaimsOK`), and that a transaction is
the one its key is linked to (`LinksOK`), next to `CommittedIsCompleted` (nobody but
its writer finds a key in progress, stated only as a theorem) and `AnswersAgree`. A
key is resolved by `Complete` or `RecordFailure`, and one lemma (`ResolveStep`) is
about both. From `Ind`: `AtMostOnce`, `AnswersAgree` and the action property
`ResolvedForGood`.

### Codes and limits

`OtpProofs`: a code is dead before its marker is placed, by the one request that
drew it, and after it was found right (`OnceOK`, which makes `SingleUse`
inductive); unless a request was overtaken, a live code and its record expire at
the same tick (`InStep`, from which `LiveCodeIsRecorded` follows); the record never
reaches the count at which it is burnt and has an expiry (`RecordOK`); while no count
against a code was stale, its record holds the number of its wrong guesses
(`TallyOK`, with which `ThrottleHolds` is inductive). `ShownIsLive`
needs `AwaitedOK`, the same statement of a code whose answer is still on its way,
with the lag of that answer.

`LimitsProofs`: one opening at a time has the lock of an owner (`OneHolder`) and one
that has counted still has room (`RoomLeft`), which is what keeps `AccountCap` when
the row is inserted. `TrailShowsChange` follows from `AloneOK`: what an edit has read
is in the row until another edit of it comes between. `TrailShowsRow` (the last audit
record shows the row as it is) is stated only as a theorem.
`CapsEnforced` compares what the code decides from two counters with what was really
sent. `CountersKept` is the invariant behind it: as long as nothing was posted to an
account out of the order of days, nothing was sent after the day its counters stand
for, and each counter is the sum of what was sent in its window up to that day. The
step of it is the reset: a day of a later window has an empty sum, a day of the same
one adds to the old sum (`SentMore`, `SentNothing`), and days in order have their
months in order (`MonthsInOrder`).

### The web applications

`ClientProofs`: `ClientInv == StoreOK /\ TabOK`. Of the server: ids are handed out in
order and only what is stored has a status or a hold (`Numbered`), a key names the
transfer made under it (`KeysKept`, from which `OneTransferPerFlow` follows), with
`OnePending` and `HoldsAddUp`, each handler being one of a few effects on the rows.
Of the tab: a page past its initiate is about a stored transfer and what it says of
its outcome is so (`WizardOK`); an answer on its way says what is on record, and a
page has one decision about its transfer on the wire and stays with that transfer
until it is answered (`CallsOK`), without which a late answer could put the outcome
of one transfer on the page of another; and what was read of the pending transfer
holds unless an answer is outstanding, a refresh is due or the tab could not know
(`FeedOK`). From it: the five invariants of the run and `ResultStays`.

Three theorems are about `Money`, for amounts of any size up to the largest:
`ShownAsTyped` (nothing is rounded or dropped on the way to minor units),
`TypedAsShown` (every amount can be typed, and as the decimal that is shown of it) and
`AppsShowTheSame` (two formatters, written apart, agree on every integer string). TLC
compares the conversion with a reference in thousandths for some five thousand texts
(`ParsedExactly` in `MCClient`).

`ConsoleProofs`: `ConsoleInv == StoreOK /\ TabOK`. Of the server: one proposal at
most for a transaction waits or was executed and what waits is posted
(`ApprovalsOK`), and what is reversed has one executed approval and one compensation
(`ReversalsOK`). Of the tab: a call is about something there is, and an answer that
says done says so of a decision that was taken (`CallsOK`); a hook that says done is
right about its argument, and a call that is its latest has the argument it shows
(`HooksOK`); a list is current unless the tab has been told that it is not, is about
to be by an answer the server has given (`Promised`), or could not know (`ListsOK`); and a call on the wire was sent no later
than its hook was triggered last, or before the screen was opened (`SentOK`). `ListsAreCurrent`, `BannerTellsLatest` and
`ReversedByOneApproval` follow. `BannerTellsLatest` has two halves: a banner is of the
decision asked for last, none asked for later being on its way; and over a queue with
rows, no banner means that this decision was taken. Of an empty queue the second half
says nothing, since it is false there (section 4). `NothingSkipped` is about rows that
were there when the first page was read. The rows ahead of such a row only become
more (`NewerMonotone`), so that it does not move to an earlier page; the proof takes
the first page on which a row as old as it is shown (`FirstPage`).

## 6. Only model-checked

* Liveness: the fairness half of `ImplementsFeed` (every committed, readable event
  becomes known) and `GateClears`. The prover has no rules for fairness here and
  cannot reason about ENABLED.
* The three runs that expect a violation: a counterexample is not a theorem.

## 7. Not modelled

* Of the services: the HTTP surface, request validation and signatures, paging and
  listing; the confirmation-of-payee token; the enrolment of a payee (one insert);
  lock order inside a database transaction and the bounded retry of
  `common/db/run-in-transaction.ts`, since a transaction is one step (a deadlock's
  victim is `Abort` or `BeginAgain`).
* Of the codes: what a request does to the record of another code after its own
  expired between its two commands is modelled, but `LiveCodeIsRecorded` is not
  claimed of it (`overtaken`). Wrong guesses that overlap are modelled too, and
  `ThrottleHolds` is not claimed of the codes they are counted against
  (`overlapped`): the comment at B `modules/otp/service/impl/otp.service.ts:45-47`
  accepts an under-count "by one"; a guess that is late by several others sets the
  count back by as many.
* Of limits: that the audit records of edits that overlap chain. Both record what the
  first of them found, and `TrailShowsChange` is not claimed of them (`alone`).
* Of reporting: days, time zones, filters, paging, and the latest known balance of an
  account, which is ordered by the clocks of the instances that posted.
* Of the client application: the accounts page and account opening, queries and tags
  other than the pending transfer's, a wrong captcha, and the reload after
  `PENDING_TRANSFER_CONFLICT` (W `client/src/components/pages/TransferPage.tsx:163`).
  Of the admin application: analytics, filters, the fields of forms, and reads that
  fail, which leave the list as it was; its copy of
  `lib/money.ts` has the text of the customer's.
* Gateways and the identity provider are configuration; tools and seeds are scripts;
  `mockServiceWorker.js` of each application is generated. None has state the above
  depends on.
