# TenzoPay in TLA+

TenzoPay issues payment cards against a balance of USDT. Customers deposit USDT
on a chain, a deposit becomes a balance in a double-entry ledger, and a card
authorization places a hold on that balance which a settlement consumes or a
reversal gives back. These modules model the API (`src/apps/api/src`) wherever
its state changes, and the two places in the browser whose state matters to it.
TLC checks them on small instances; TLAPS proves most of their safety
properties for every instance.

Paths below are relative to `src/apps/api/src` unless they start with `src/`.

## 1. Inventory

### Components that keep or move money

| Component | State | Operations | Callers |
|---|---|---|---|
| **Ledger** `ledger/ledger.service.ts` | accounts, transactions with a unique idempotency key, entries | `creditDeposit`, `reverseDeposit`, `chargeFee`, `placeHold`, `releaseHold`, `settleAuthorization`, `creditRefund`, `postAdjustment`; `getBalance`, `verifyIntegrity` read | every component below |
| **Fees** `ledger/fees.service.ts` | one fee row per posting | `depositFee`, `transactionFee`, `cardIssuanceFee`, `record` | ledger, deposits, ASA, cards |
| **ASA** `webhooks/asa.service.ts` | `authorization_events`, PENDING rows of `card_transactions` | `decide`, which answers the network's request within its time budget | the provider, once or several times per authorization |
| **Card webhooks** `webhooks/webhooks.service.ts` | `card_transactions`, `cards.status` | `syncCardTransaction`, `syncCardState` | the inbox |
| **Stale sweep** `webhooks/webhooks.service.ts:197` | the same rows | `sweepStaleAuthorizations` | an hourly job |
| **Deposits** `deposits/deposits.service.ts` | `deposits` | `recordTransfer`, `advanceConfirmations`, `credit`, `advanceAllPending`, `watchCreditedForReorg`, `reconcileAddress` | chain webhooks, jobs, operators |
| **Cards** `cards/cards.service.ts` | `cards`, `card_rules` | `create`, `setStatus`, `updateLimits` | customers, staff |
| **Billing** `billing/billing.service.ts` | `users.plan`, `planDunningSince` | `chargeDuePlans`, `setPlan` | a daily job, staff |

### Components that decide who, where and when

| Component | State | Operations | Callers |
|---|---|---|---|
| **Inbox** `webhooks/webhooks.service.ts` | `webhook_events`: status, attempts | `receive`, `process`, `retryFailed`, `replay` | providers, a job, operators |
| **Deposit addresses** `deposits/deposit-address.service.ts` | `deposit_addresses` with three unique indexes | `getOrCreate` | customers |
| **Sessions** `auth/auth.service.ts`, `src/apps/web/src/lib/api.ts` | `sessions`, `users.status`, tokens of reset and verification, the browser's cookie | `register`, `login`, `refresh`, `logout`, `logoutAll`, `resetPassword`, `verifyEmail`, `setUserStatus`, `pruneSessions` | browsers, staff, a job |
| **KYC** `kyc/kyc.service.ts` | `account_holders` | `submit`, `applyProviderUpdate` | customers, the inbox |
| **Transactions feed** `transactions/transactions.service.ts`, `src/apps/web/src/components/app/transaction-feed.tsx` | none in the API, the pages in the browser | `list`, the button that loads more | browsers |
| **Settings** `settings/settings.service.ts` | one row per setting | `set` (which parses), `get`, `getMany` | staff |

Around them: the scheduled jobs (`jobs/jobs.service.ts`), the admin console's API
(`admin/`), the Lithic client with its retries (`providers/lithic/`), the Alchemy
client (`providers/alchemy/`), notifications, the shared money type
(`src/packages/shared/src/money.ts`), the mock providers, and the two front ends
(`src/apps/web`, `src/apps/admin`).

### How they interact

Components call each other directly, inside one Node process: a handler runs
until it awaits, and others run while it waits for the database or a provider.
They share the database. Three things hold it together: unique indexes (above
all the one on `ledger_transactions.idempotencyKey`, which every money movement
names a key for), the SERIALIZABLE isolation of the three operations that check a
balance, and the idempotency keys the card issuer remembers. Everything else,
such as the status columns of rows, is read, decided on and written in separate
statements. Providers call back by webhook, at least once and in no particular
order; jobs repeat what a lost webhook should have done.

### What is hard here, and what correct means

* **Ledger.** Concurrent transactions that read before they write; retries
  after serialization failures; two calls with one key. Correct: money is
  conserved, a key is applied once, a checked operation never overdraws, an
  answer is true, every call returns.
* **Card authorizations.** The request may be delivered again while the first
  delivery is being decided, and staff may change the fee rates in between; the
  hold, the row and the record are three writes, each of which may fail on its
  own; webhooks are reordered, lost, retried and replayed; the process restarts.
  Correct: an approval has its hold, a hold is captured or returned but not both
  and not twice, the held balance covers the open holds, and no hold is
  forgotten.
* **Deposits.** Several callers advance one deposit at once; the chain
  reorganises between any two reads; the fee setting changes between crediting
  and reversing. Correct: a transfer is credited once and only when deep enough,
  reversed at most once and exactly, and credited in the end if it stays.
* **Intake.** Two first requests for an address race for one derivation index; a
  webhook with several transfers fails in the middle, or never comes. Correct:
  every transfer becomes one deposit of the customer the sender meant.
* **Inbox and KYC.** The attempt counter is written from what was read earlier;
  restarts cut processing off; the issuer's decision may overtake the row it is
  about. Correct: a bounded number of attempts, one at a time, every event comes
  to an end, and PROCESSED means processed.
* **Cards.** Fee, issuer and row are three steps that a failure can separate; a
  change that timed out may be carried out late; webhooks are lost or reordered.
  Correct: one fee a card, the ceiling holds, frozen stays frozen, the row shows
  what the issuer does, the limit shown is the one in force.
* **Billing.** A pass acts on what it read at its start, and may die between the
  charge and the clock. Correct: nobody loses a plan before the days of grace.
* **Sessions.** Rotation under concurrent refreshes; a login that has checked the
  account issues its session after a freeze or a reset revoked them all.
* **Feed.** Pages of a list that grows while it is read, merged from tables that
  are read one after the other.

`PROJECT.json` lists these hazards one by one with the line each bites at.

## 2. Modules

| Module | Models |
|---|---|
| `LedgerPostings` | the entries of each ledger operation, balancing, applying; a pure module |
| `Fees` | the arithmetic of the fees; a pure module |
| `LedgerSerial` | abstract: operations happen one at a time, once per key, against the balance they spend |
| `Ledger` | `LedgerService` under concurrency |
| `HoldContract` | abstract: a hold is placed, then captured or returned |
| `CardHolds` | ASA, transaction webhooks and the stale sweep around one cardholder's balance |
| `DepositContract` | abstract: credited once when deep, reversed once when gone |
| `Deposits` | `DepositsService` and its jobs over a chain that reorganises |
| `Inbox` | receiving, processing, retrying and replaying webhook events; to be extended |
| `Verification` | `Inbox` with the KYC handler, `submit` and the issuer's decisions |
| `Intake` | `Inbox` with the chain's webhooks, the allocation of addresses and the reconciliation sweep |
| `Cards` | `CardsService`, card state webhooks and the issuer |
| `Billing` | `chargeDuePlans` and `setPlan` |
| `Sessions` | `AuthService`, the freeze by staff, the pruning job and the browsers' cookies |
| `Feed` | `TransactionsService.list` and the browser that reads page after page |
| `*Proofs` | theorems about the module of that name (those about `Fees` are in `DepositsProofs`, those about `Billing` and `Feed` in `AccountProofs`) |
| `MC*` | instances for TLC |

`CardHolds` and `Deposits` use the entries of `LedgerPostings` and the rates of
`Fees`, and take a ledger operation to be one step: `Ledger` is about the inside
of such a step, and `LedgerProofs!ImplementsSerial` is the licence for treating
it as one when only checked operations and credits are about. `Intake` ends
where `Deposits` begins: with the deposit row `recordTransfer` writes.

Common conventions. A handler is a record with the step it has reached (`pc`)
and what it has read; one action is the code between two awaits. A call that
waits for the database or a provider may fail there, or die with the process.
Failures, requests and retries that the code does not bound are bounded by
constants named `Max...`. History variables record what the state forgets; each
module lists them under `History`. Two kinds are used: those a property compares
with, such as `tries`, and those that mark the cases a property sets apart, such
as `crowded`. Each of the latter is a disagreement or a known weakness, named in
section 4. A definition whose comment ends in `mutant` is a plausible mistake
that a property catches; nothing else uses it.

### Ledger

State: `bal[u][a]` is what u's transactions added to account `a` (the entries,
summed up, as `getAccountBalance` does), `posted` the idempotency keys that
exist, `feeRow[k]` the fee row of the transaction with key k. Per call: `pc`,
`req`, `seen` (the available balance in the call's snapshot), `stale` (a
conflicting transaction has committed since), `attempt`. `unguarded[u]` is
history: what unchecked operations took.

| Action | Code |
|---|---|
| `Submit` | an operation is called |
| `FoundExisting`, `Refuse`, `Reject`, `Open` | the first reads: the key exists (a deposit or a settlement goes on to its fee row all the same); the balance is short; the arguments make no balanced transaction; go on |
| `Commit` | `post`, the fee row (`RecordFee`) and the end of the transaction; marks conflicting snapshots stale |
| `LoseRace` | P2002 on the key, `resolveDuplicate` |
| `SerializationFailure`, `GiveUp` | P2034/40001, `withSerializableRetry` |
| `Abandon` | the transaction fails and the error is thrown |

Conflict detection (`Conflicting`) applies only between transactions that are
both SERIALIZABLE, as in Postgres: deposits, reversals, releases, settlements
and refunds run at the default isolation and make nobody's snapshot stale.
Preconditions of callers are in each request's `after` (a reversal follows its
deposit). They are facts about the callers in `deposits/` and `webhooks/`.

### Fees

`ApplyBps`, `Clamp`, `DepositFee` and `TransactionFee` are the functions of
`FeesService` over integers, with the code's truncating division. The rates staff
may set (`DepositRates`, `TransactionRates`) are those `SettingsService.parse`
accepts. `Deposits` and `CardHolds` take a set `Rates` of them and let any be in
force at any moment.

### CardHolds

One cardholder, one card, any number of authorizations. `asa[d]` is a delivery
of the network's request with the step its handler is at: lookup, check, hold,
row, record, reply. `hook[e]` is the webhook about one state of one
authorization, with the row its handler read. `sweep` is the job. `row`,
`event`, `posted`, `taken`, `bal` and `card` are the database; `provider` and
`answers` the outside. Faults are chosen per run from `FaultKinds`, at most
`MaxFaults` of them: a failing read, a failing hold that may have committed, a
failing row or record, a failing handler, a network timeout, a request the
provider forgets, a lost webhook, an outage of the provider's lookup, a malformed
request, a restart, an operator's replay.

Each delivery works out its fee with rates of its own (`FeesAsked`), since the
setting is read anew. Amounts are in one unit; the code multiplies cents by
10 000. `FROZEN` stands for a frozen card and for an owner who is not ACTIVE (both
are answered `CARD_PAUSED`). A replay starts when the event is not being
processed.

The redaction of stored payloads is a parameter, `StoredToken`: the identity, or
what `redact` leaves of the token. The passing runs use the identity, so that
they say something about the logic behind it; `card_redacted` shows what the
code does with the payload it stores. The proofs are about both.

Two histories belong to that and to the outage: `misjudged` has the authorizations
that the sweep gave up although the provider knows them, `drawn` what was taken out
of the held account for such an authorization, or for what has no token, without an
open hold of its own. Requests for an amount of zero are left out: the
ledger refuses a hold of nothing (`assertBalanced`), so that they are declined.

### Deposits

Transfers are those that `recordTransfer` accepts. `depth[t]` is the chain,
`row[t]` the deposit (status and whether it has a `ledgerTransactionId`),
`worker[w]` a running `advanceConfirmations`, `watch` the reorg watch, `rate` the
fee setting, `deep`, `reorgs` and `late` history. A worker reads, asks the chain, and
then writes a status or goes on to credit: three awaits at which others run.
`AskChain` has a second outcome for an unknown transfer, the grace of ten minutes
for young deposits. A call whose request to the database or the chain fails ends
where it is (`CallFails`, `WatchFails`); `Restart` ends all of them.

### Inbox, Verification, Intake

`inbox[e]` is the row of an event, `run[w]` a call of `process`, either in the
background of a delivery, for an operator, or the retry job's (`Job`), which
walks the events it read at its start (`todo`). `Inbox` has every write of
`process` as a step that may fail; the module that extends it conjoins `Mark`,
`Handled` and `HandlerFails` with what its handler does.

In `Verification` event k announces the issuer's k-th decision. `submit` creates
the account holder at the issuer, reads it back and saves it, three awaits. In
`Nameless` are the events whose payload names the account holder in `token` alone,
which the inbox does not keep. In
`Intake` an event is a transaction whose webhook lists its transfers; the inbox stores
the first `MaxItems` of them and the handler records these one by one. A deposit row
has the unique key of the table: the transaction and the log index, as the webhook
gives it or as the sweep reads it, which finds none in some (`Unnumbered`) and takes 0. `row` and `call` are `getOrCreate` with its lookup, the
next index, the insert under the unique indexes, the registration for webhooks,
and the answer after a lost race. An address is its index: the key derivation is
taken to be injective. The transfers a loop has still to walk are a set, of which it
takes the earliest (`Foremost`). The sweep reads each address's first page from the
chain: the transfers with fewer than `PageSize` earlier ones.

### Cards

A card is known by its key: the customer and the first thirty bytes of name and
limits, after which `create` names its idempotency keys. Several inputs may share
one, so that `KeyLimits[k]` is a set of daily limits; whoever creates with one of
them gets the card of the key and attaches its own limit. `state[k]` is the card at the issuer, `status[k]` the row,
`rules[k][l]` the issuer's velocity rule for the amount l, `ruleRows[k]` what
`card_rules` knows of them. `call[c]` walks one of `create` (count, charge, issue, save,
then the limit), `setStatus` (issuer, then row) or `updateLimits` (delete at the
issuer, delete the rows, create, promote and record the new rule, write the row).
`late` holds requests the client gave up on and the issuer may still carry out;
`news[k]` the state webhooks on their way. That the issuer answers a repeated
idempotency key as it did the first time is an assumption about it. The plan of
the customer is fixed, and one period stands for day and month.

### Billing

`pass` is the run of `chargeDuePlans`: what it read of all accounts at its start,
those still to do, and how far the current one has come. Between any two of its
steps balances change and staff call `setPlan`. `failing[u]` is history: the first
day on which a fee could not be collected since the last payment or change of
plan. It is what the dunning clock `since[u]` ought to say.

### Sessions

One account with its browsers. `row[t]` is the session found by refresh token t,
`jar[d]` the cookie of browser d, `call[c]` a request at one of its awaits: read,
issue, revoke the old session, answer. `oldPassword` and `escaped` are history
about live sessions and are inherited when a refresh issues a session from
another.

### Feed

`createdAt` is set when the row is written and `visible` when its transaction
commits, which may be later. `list` reads its tables one after the other, each
with twice the page size, and answers the newest of what it fetched. Like those of
`Inbox`, the parts of the specification (`FeedInit`, `FeedNext`, ...) carry the
module's name, so that one module can hold the theorems about it and about `Billing`.

## 3. Runs

| Run | Instance | Shows |
|---|---|---|
| `ledger` | two callers, two users, requests with every operation and repeats of them at another fee or none, two attempts | `ZeroSum`, `AppliedOnce`, `FeeWithPosting`, `OverdraftBounded`, `AnswerTruthful` |
| `ledger_checked` | two callers, five checked or crediting requests, three attempts, fairness | `AvailableNonNegative`, refinement of `LedgerSerial`, `CallsReturn` |
| `card_holds` | one authorization, two deliveries at once, two fee rates, two faults of twelve kinds, outage and malformed request among them, the card in any state | `ApprovedHasHold`, `HeldCovers`, refinement of `HoldContract` |
| `card_resolved` | two authorizations on one balance, one of them abroad, two fee rates, both card limits, one perhaps forgotten, fairness | `HeldIsOutstanding`, `HoldsResolved` |
| `deposits` | one transfer, two workers and the watch, one reorganisation, one failure or restart, three fee rates of which one is the default of zero, fairness | refinement of `DepositContract`, `CreditExact`, `ReversalExact`, `ConfirmedIsCredited`, `MinedIsCredited` |
| `verification` | three decisions, one without a webhook and one whose webhook does not name the holder, two submissions, two attempts, one replay, two failures, fairness | `AttemptsBounded`, `ProcessedReachedRow`, `EventsSettle` |
| `intake` | two customers, one transaction of three transfers, one too small and one without a number, two of them stored, a page of three, one failure, fairness of the sweep | `MoneyGoesToPayee`, `ProcessedIsRecorded`, `TransfersFound` |
| `cards` | two keys under a ceiling of one, one of them that of two inputs, two requests at once and four in all, two limits, two faults | `OneFeeOneCard`, `CeilingHeld`, `FrozenStaysFrozen`, `RowFollowsIssuer`, `LimitInForce` |
| `billing` | one account, two months of four days, two days of grace, two passes that die | `GraceRespected`, `PassSettles` |
| `sessions` | two browsers, three tokens, two requests at once and five in all, one failure | `FrozenStaysOut`, `OldPasswordEnds`, `HonestIsNoThief`, `TokenBuysOnce` |
| `feed` | four rows in two tables, pages of one, four instants, one failed request | `PagesInOrder`, `EverythingShown`, `NoEmptyPage` |
| `card_redacted` | violation of `HoldsResolved`: one authorization, no fault | the stored payload has lost the token, holds are never resolved |

**Why the bounds suffice.** Every race in the code is between two handlers over
one row, one key or one balance: two callers, deliveries, workers, requests or
submissions, plus the job, are all the parties such a race has. Two requests on
one balance are needed for an overdraft, and `ledger` has three that compete with
a reversal. Two or three attempts let a retry succeed and run out; the code's
eight and five differ only in number, and the proofs take any number. Two faults
allow one to strike during the recovery from another. `Required = 2` has a depth
below, at and before the threshold. The amounts of `card_holds` make a hold fit
once but not twice, and a settlement with its fee equal to its hold; its two
rates ask for fees of 1 and 2. The rates of `deposits` have no fee, one that is
truncated and one that hits its maximum. In `billing`, two months let a clock
run into the next one, and the grace ends before the month does. In `cards`, four
requests are enough to create, freeze, unfreeze and freeze again, or to set a limit twice and
return to the first. Three tokens let a session be rotated and its successor
again, or two browsers log in and one rotate. Four rows over two tables with
pages of one give a page that is full from one table, and a last page.

**Fairness.** `Ledger`: a call that is inside the database goes on (every branch
of the code ends in a return, a throw or another attempt). `CardHolds`: handlers
run on, the provider reports what became of an approved authorization and
repeats an unanswered request, and the sweep comes round hourly. `Deposits`:
handlers run on and blocks are mined; the jobs come to each open deposit again
and again, so that visiting it is strongly fair: between two visits another call
may occupy the worker. `Verification`: runs of `process` go on, and the retry job
comes round. `Intake`: only the sweep is fair; it needs no webhook. Nothing is
assumed of customers, staff or faults. The other modules check safety only.

**Deadlock** is checked for the ledger, where a caller can always ask again. The
other models stop when everything has happened and all bounds are used up, and
their runs do not check it.

**Symmetry** is used in `sessions` (browsers, requests, tokens) and `feed` (rows
of one table); neither run has a liveness property.

## 4. What the checks set apart, and what the code does there

### Finding

`webhooks.service.ts:68`: the inbox stores a redacted payload without the
transaction token, and the handler works on the stored copy, so that no hold is
ever settled or released (`card_redacted`). `src/docs/ARCHITECTURE.md:102` says
that the webhook releases the hold and debits the settlement.

### Disagreements that have no run of their own

Each breaks a property of a passing run, which names the case and sets it apart.

* `ledger.service.ts:477`, `:643`: reversals run at READ COMMITTED, so a hold
  racing with the reversal of its deposit passes its check and overdraws. I5
  (`ledger.service.ts:15–20`) says the available balance never goes negative;
  `OverdraftBounded` says how far it may.
* `ledger.service.ts:797`: a settlement above its hold debits the available
  balance unchecked, with the same effect.
* `ledger.service.ts:428`: a repeated `creditDeposit` inserts the fee row of a
  posting that was made without a fee, against `:426`. All deposit fees are zero
  until staff set one (`settings.service.ts:95–128`), so a restart between the posting and the row of
  the deposit is enough. The deposit is then credited in full, its row says that a
  fee was taken, and a reversal takes that fee from revenue, where it never went.
  Both are in the runs: `FeeWithPosting` says that a row comes late only to a posting
  without one, and `CreditExact` and `ReversalExact` how far the accounts are then
  from the row (`FeeMoved`).
* `asa.service.ts:172`: a second delivery finds the hold of the first and saves a
  row with its own fee. If staff changed the rates in between, the row says more
  (or less) than was held, and the settlement or release consumes what the row
  says. The comments at `:165–168` and `webhooks.service.ts:330–336` rely on the
  two being equal. `Overstated` is the difference; without that term `HeldCovers`
  fails.
* `asa.service.ts:305`: when the row cannot be written, the webhook recreates it
  without the reserved fee, which stays in the held account. `HeldCovers` is
  checked with this fault, `HeldIsOutstanding` without.
* `asa.service.ts:178`: after a network timeout the DECLINED webhook may be
  processed before the hold commits. `HoldsResolved` is checked without timeouts.
* `webhooks.service.ts:328`: the retry of a failed webhook finds the row already
  updated and skips the ledger, against the comment at `:95`. `HoldsResolved` is
  checked without failing handlers.
* `webhooks.service.ts:239`, `:276`: the sweep hands `syncCardTransaction` what the
  provider reports under names it does not read, and does nothing;
  `src/docs/BACKGROUND-JOBS.md:39` says it applies it. It resolves only what the
  provider does not know.
* `providers/lithic/lithic-card.provider.ts:304–314`: `getTransaction` answers null
  on every error and the sweep takes that for "never heard of it", releases the
  hold of a live transaction, and its settlement debits the held account again.
  `src/docs/BACKGROUND-JOBS.md:43` says "provider errors → touch nothing, try
  next hour". The fault "outage" is in `card_holds`: `HeldCovers` says that the held
  account is short by what was drawn for such authorizations (`drawn`) and no more,
  and `HoldContract` calls their holds disputed. `HoldsResolved` is checked without it.
* `providers/lithic/lithic.client.ts:145`: an unfreeze that timed out is sent again, and the issuer may
  carry out either after a freeze that came later. The card is then open, although the customer was
  told that it "will decline new transactions until you unfreeze it"
  (`cards.service.ts:336`). `FrozenStaysFrozen` says that nothing else opens a frozen
  card (`thawed`).
* `cards.service.ts:113`, `:500–506`: the key of a creation, "Stable per (user, name,
  limits)", is cut to thirty bytes. With a long name a creation with other limits
  comes back to the first card, whose row it does not change, and attaches another rule to it.
  `LimitInForce` sets such cards apart (`twinned`).
* `webhooks.service.ts:152–154`: a verification event that names the account holder in
  `token` alone finds no row, since `redact.ts:9` has wiped it, and counts as processed,
  against `kyc.service.ts:17`. `ProcessedReachedRow` counts it as `missed`.
* `redact.ts:40–41`: of a webhook with more than two hundred items the inbox stores
  two hundred and processes no others, although it says PROCESSED.
  `ProcessedIsRecorded` speaks of the stored ones; the rest is left to the sweep.
* `providers/alchemy/alchemy.provider.ts:202–206`: a transfer whose `uniqueId` has no
  decimal log index gets the index 0 from the sweep and its own from the webhook
  (`webhooks.service.ts:467`). If both record it, it has two deposit rows, which are both
  credited, against `src/README.md:189`; of two such transfers in one transaction
  the sweep records one. `MoneyGoesToPayee` allows a second row for these alone
  (`Unnumbered`), `TransfersFound` speaks of transfers the sweep can tell apart.
* `deposits.service.ts:300`: a stale ORPHANED is written over a deposit just
  credited, which nothing reverses then, against `:196` and
  `src/docs/BACKGROUND-JOBS.md:58`. The contract holds all the same.
* `fees.service.ts:62`: a deposit fee of the whole amount makes an entry of zero,
  which `assertBalanced` refuses: such a deposit is never credited. It is request
  `d2` of `ledger`; in `deposits` the rates stay below the amount.
  `DepositsProofs!SomethingIsLeft` says which rates do.
* `deposits.service.ts:432–436`: the sweep reads the oldest hundred transfers of an
  address and no further page, so that the transfers of a busy address whose
  webhooks were lost are not found, against `:417–419`,
  `src/docs/BACKGROUND-JOBS.md:19` and `src/docs/RUNBOOK.md:147`. The page of
  `intake` is as large as its chain.
* `auth.service.ts:234`: the session of a refresh token is issued before the old one
  is revoked (`:236`). Two requests that look the token up before the first revokes
  it each issue a session, and both stay live; a refresh that dies in between
  leaves the token good for another. `:32–33` says "Refresh rotates on every use.
  Replaying a consumed token revokes the whole session family" and `:197–200` that
  a token that was rotated and comes again ends every session. `TokenBuysOnce`
  holds from the answer on, for whoever looks the token up then.
* `auth.service.ts:212`: a cookie whose session was revoked without being rotated
  (by a reset, a logout of all, a freeze) counts as stolen as well, against `:199`, and ends
  every session of the account. `HonestIsNoThief` sets revoked ones (`swept`)
  apart.
* `transactions.service.ts:62`: rows of the same millisecond as the last of a page
  are skipped, although `:45–46` and the comments in `transaction-feed.tsx` say
  that nothing is (`Tied`).
* `settings.service.ts:92` says of the fees "Not yet applied by any code path".
  They are.

### Cases the properties name

* **Cards.** `crowded`: two creations at once both count the open cards before
  either is saved; or a late webhook opens a closed row again. `overtaken`,
  `muddled`: two requests, or webhooks, about one card overtook each other or were
  lost. `unruled`: a change of limits failed between two steps or met another.
  `reused`: a limit that was set before is asked for under the idempotency key of
  its deleted rule and gets that rule back. `thawed`, `twinned`: see above.
  Creating again with the input of a closed card answers the closed card.
* **Billing.** `touched`: staff changed the plan during the pass, which writes
  STARTER over it. `misdated`: the pass died between the charge and the clock,
  which then runs although the fee is paid, or the clock was started over a change
  of plan. A month left unpaid at its end is never collected.
* **Sessions.** `escaped`: a request that had read the account before a revocation
  of all issues its session after it. `torn`: a freeze or a reset died between its
  two writes. `hasty`: a browser had two requests at once (two answers of 401 each
  send a refresh) or lost an answer. `verifyEmail` (`auth.service.ts:270`) sets
  ACTIVE whatever the status was, and ends a freeze; no property contradicts it.
* **Verification.** `missed`: the decision came before the row, or without the
  holder's name, and was dropped as processed. `overtaken`: an older decision was
  written over a later one. Either ends with the next write of a decision as late,
  which a customer whose row says ACCEPTED cannot bring about: `submit` answers from
  the row.
* **Feed.** `left`: a row that no longer passes the filter moves the pages.
* **Deposits.** ORPHANED is final: a transfer that is mined again is not credited;
  `MinedIsCredited` speaks of transfers that stay.
* **Card authorizations.** With a daily limit, a second delivery may count the
  first one's row and be answered differently. The money is safe, the answers
  differ; `card_holds` has no limit. `misjudged`, `drawn`: see the outage above.

## 5. Proofs

All theorems hold for any values of the constants within the module's named
assumption, which TLC evaluates in every run of that module. Each proof has the
same shape: an inductive invariant, a lemma for each action (or for each group of
actions that touch the same part), and the temporal step at the end.

| Theorem | Of | Further assumption |
|---|---|---|
| `TypeCorrect` | all modules below but `Fees` | none |
| `ZeroSumCorrect`, `AppliedOnceCorrect`, `OverdraftBoundedCorrect`, `AnswerTruthfulCorrect`, `FeeWithPostingCorrect` | `Ledger` | none |
| `AvailableNonNegativeCorrect`, `ImplementsSerial` | `Ledger` | no request debits unchecked |
| `DepositFeeBounded`, `RoundsDown`, `SplittingIsCheaper`, `SomethingIsLeft`, `TransactionFeeNatural` | `Fees` | as stated |
| `ApprovedHasHoldCorrect`, `HoldContractCorrect`, `HeldCoversCorrect` | `CardHolds` | none |
| `ConfirmedIsCreditedCorrect`, `ImplementsContract`, `CreditExactCorrect`, `ReversalExactCorrect` | `Deposits` | none |
| `AttemptsBoundedCorrect`, `ProcessedReachedRowCorrect` | `Verification` | none |
| `MoneyGoesToPayeeCorrect`, `ProcessedIsRecordedCorrect` | `Intake` | none |
| `OneFeeOneCardCorrect`, `CeilingHeldCorrect`, `FrozenStaysFrozenCorrect`, `RowFollowsIssuerCorrect`, `LimitInForceCorrect` | `Cards` | none |
| `GraceRespectedCorrect`, `PassSettlesCorrect` | `Billing` | none |
| `PagesInOrderCorrect`, `EverythingShownCorrect`, `NoEmptyPageCorrect` | `Feed` | none |
| `FrozenStaysOutCorrect`, `OldPasswordEndsCorrect`, `HonestIsNoThiefCorrect`, `TokenBuysOnceCorrect` | `Sessions` | none |

**LedgerProofs.** `IInv` adds to `TypeOK` and `ZeroSum` the facts that make the
check at the snapshot good at the commit (`OpenInv`): an open call has balancing
entries; a checked one saw enough for its debit, and while its snapshot is not
stale it saw at most what is available plus what unchecked operations have taken.
Without them `OverdraftBounded` is not inductive: from an arbitrary state an open
call may hold an outdated view. `FeeWithPosting` needs `FeeRowInv`: only a posted
key has a fee row, so that the step that posts writes the first. For the
refinement, `NothingUnguardedStep` shows that the history variable stays zero when
no operation debits unchecked, and `CommitImplementsTransfer` that a commit is
then a `Transfer` of the serial ledger; every other action stutters.

**CardHoldsProofs.** `HoldInv` says that a handler which has approved, or is about
to, has its hold in the ledger, and so do the recorded event and the answers.
`ContractInv` says what handlers that work on old readings know all the same: a
webhook handler's row, a written row and the sweep's candidate each imply keys
in the ledger and a state of the provider's transaction. Since that state changes
once, two handlers cannot be about to post opposite keys, although the row they
compare with may be overwritten at any time. The sweep makes an exception: it may be
told of nothing where there is something (`Given`), and then its key and the
webhook's may both be posted, which the contract calls a dispute.

The theorem about the held balance needs sums over any finite set of
authorizations (`MapThenSumSet`). The provers cannot instantiate the library's
induction; what is needed of a sum (it splits at one element, it is monotone) is
proved instead by least counterexamples: of the sets for which the fact fails,
well-foundedness of the proper subset relation on finite sets (`WFMin`) gives a
smallest one, and taking one element out of it contradicts that it fails.
`CoverInv` gives each authorization its due: what its open hold took, and once it
is over nothing, or less by what an overstated row may have consumed too much.
The held balance and what was drawn are at least the sum of the dues. A handler moves
one summand, and `ReadInv` says that the amount it is about to take out, which it read
some steps ago, is no more than that summand and its excess allow, unless the
authorization is misjudged or redacted: then there is nothing left of its own hold to
take, and `drawn` has all of it. `HoldsAreOurs` says that what redaction leaves of a
token has no hold.

**DepositsProofs** has the lemmas about fees, which reason about `\div` from one
fact, where a truncated quotient lies, and give the ranges of the fees for
every rate staff can set. `IInv` says that a call about to credit has seen enough
confirmations (`CallInv`), a transfer that was deep and is gone was reorganised
(`ChainInv`), a credit implies depth and a reversal a credit (`LedgerInv`), the
watch reverses only credited deposits whose posting it knows (`WatchInv`). None of
these reads the deposit row except through `ConfirmedIsCredited`, because a stale
write may put the row back at any time. `CallFeeInv` and `FeeInv` tie the accounts
of a transfer to its fee row, or to no fee where the row came late, and
`WatchFeeInv` says that the fee the watch reverses with is the one on record, or was
when the watch read it.

**VerificationProofs.** `CountInv` follows the counter of an event through every
point at which a run can be, together with who may be running it: the retry job
takes an event only when nobody else has it, as long as no operator replays.
`ReachedInv` says that the decision of a run whose handler is done is in the row, or
a later one is, or it is among those set apart; a write to the row that leaves
another decision behind sets it apart as well (`RowKept`).

**IntakeProofs.** `TableInv` says that the table of addresses has no gaps: the
indices given out are 1 to the number of holders, each to one user. Hence the
next index, `Max` of the column plus one, is one more than there are holders, and of
two requests that took the same index the second finds it gone (`CallInv`). Types
rest on it, since without it the indices might run past the number of users.
`ChainInv` says that what was mined went to the address its payee has in the
table and never loses, so that the owner `recordTransfer` finds is the payee.
`KeysInv` says under which index a transfer may have a row, which makes the row of a
numbered one its only one.
`ItemsInv` is about the handler: a transfer of the event that it no longer has
before it is recorded or too small (`Settled`). It survives the retry, which walks all of
them again, because `RecordTransfer` leaves a row behind whether or not it
writes one, and it survives everything else the inbox does because no step but
the handler's own takes a run to a place that claims something (`Moves`).

**CardsProofs.** `PaidInv` says that a call about to issue has paid, `SafeInv` that
a safe card is not open unless thawed, and nothing under way but a late unfreeze would open it, `RowInv` that the last
webhook on its way says what the issuer does and that a row about to be written
agrees with it, `RoomInv` that while one creation is under way there is room for
its card. `RuleInv` follows the change of a limit through its steps at the issuer and
in `card_rules` (`Between`): what is left of the old rule and there already of the new
one when each of these calls is about to be made. It holds for the cards on which
nothing failed, no two changes met and no other creation came back (`twinned`), and it needs
that the amount was not set before (`reused`): the issuer answers a repeated request
with the rule of the first.

**AccountProofs**, about `Billing`. `PassInv` says what the pass may still believe of accounts it
has not come to, `ClockInv` that a running clock is not older than the first
failure, `PaidInv` that a clock and a payment of its month exclude each other, `SettledInv`
that the accounts behind the pass are settled.

About `Feed`. `PageInv` places the cursor at the end of the pages there are, which
puts the next page behind them all. `ShownInv` follows a row that is owed to the
reader: it is shown, or lies behind the last page, or the request that will come
upon it has not read its table, or has fetched it, or has fetched two pages' worth of
newer rows (`NewestTakes`, by cardinalities); in that last case the answer is full
and has not come as far as the row. Here a table must be asked for more than a page
(the code asks for two): cut short at a page, it would hide that there is more.
`MoreInv` has the row that makes the announced page non-empty.

**SessionsProofs.** `Typed` adds to `TypeOK` what each suspended request may hold.
`FrozenInv` and `PasswordInv` say that a request about to issue a session which it
should not was overtaken by the revocation, and so will its session be marked.
`OwnedInv` says that no two browsers know one token. From it `HonestInv` has that
the cookie of a browser with one request in flight is ended only while the answer
that replaces it is on its way, whatever the other browsers do. `SpentInv` says
that the session of a rotation that was answered, or is about to be, is over, and
what is over stays over until its slot serves for a new token; `TokenBuysOnce`,
which is about steps, follows from what the look-up accepts.

### Only model-checked

* Liveness, which is beyond the prover: `CallsReturn`, `HoldsResolved`,
  `MinedIsCredited`, `EventsSettle`, `TransfersFound`.
* `HeldIsOutstanding`, which says that held equals open when each request is
  delivered once at a time and nothing fails between hold, row and answer.

Every other safety property the runs check is stated by a theorem, and so is each refinement.

## 6. What is left, and what is not modelled

The modules cover every service of the API that changes state under
concurrency. What could still be added: the composition of `Inbox` with
`CardHolds`, which has a coarser inbox of its own, and more than one cardholder.

Not modelled, and why:

* **Read paths**: reports and lists of the admin console (with cursors of the
  database), balances, `deposits.listForUser`, the audit log, logging,
  notifications. Nothing reads them back into a decision.
* **Front ends** (`src/apps/web`, `src/apps/admin`): they render what the API
  answers, except for the cookie with its refresh and the feed, which are
  modelled. They, the marketing pages, the UI kit and the seed data are about two
  thirds of the repository's lines, so that the share of lines with a definition
  in these modules stays small although the services are covered.
* **Cryptography**: signature checks, password hashing, the derivation of
  deposit addresses. Of the hash that makes an idempotency key `Cards` has what
  matters: that it is cut.
* **The providers** are external and modelled from how the code uses them. The mock
  providers are stand-ins for development.
* **Conversions** of `money.ts`: the models count in one unit.
* **Throttling and limits of passes** (`take` is 500 in billing, 200 in the
  deposit jobs and the sweep, 20 in the retry job): the models have fewer rows than a pass.
* **Staff sessions**: staff log in without a session row. `Session.replacedById` and
  the status CLOSED are never written.
* **Settings** other than fee rates are constants.

`PROJECT.json` has the status of each component.
