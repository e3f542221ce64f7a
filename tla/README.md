# A TLA+ development of the ACBU backend

The ACBU backend mints, burns and moves ACBU, a basket-backed asset on Stellar.
It is a Node.js service over PostgreSQL (Prisma), MongoDB, Redis, RabbitMQ, the
Stellar network and a few fintech providers. This directory models what has to
stay true of its money, rows, credentials and messages when requests overlap,
messages are delivered twice, calls are answered late and processes die. TLC
checks the models on small instances; TLAPS proves every safety property the runs
check for any instance.

Source paths below are relative to the repository's `src/` directory.
`PROJECT.json` maps every definition to the lines it stands for, lists every
component and every hazard with the properties that watch it.

## 1. Inventory

| Part | State | Operations | What is hard | What makes it correct |
|---|---|---|---|---|
| On-ramp (`controllers/mintController.ts`, `onrampController.ts`, `jobs/usdcConvertAndMintJob.ts`, `xlmToAcbuJob.ts`, `services/stellar/usdcSwap.ts`) | `OnRampSwap` and `Transaction` rows, two queues, the chain | register, replay, enqueue; claim, swap, record, mint, compensate, complete, release, retry | redelivery, lost answers, a crash between an effect and its record | one claim at a time; each effect accounted for; deposits end |
| Basket mint (`mintController.ts`) | `Transaction` row, pause flag | deposit, confirm | two requests on one row, stale reads | completed means minted; no row left claimed |
| Withdrawal (`jobs/withdrawalProcessingJob.ts`, `services/fintech/router.ts`) | burn rows, queue | find, disburse, fail over, complete, notify, give up | no claim, unclear payments, retries | completed means paid; paid once |
| Event listener (`services/stellar/eventListener.ts`, `jobs/acbu_*`) | cursors in memory, health | poll, parse, dispatch, retry, dead-letter, reconnect, restart | partial handler failure, restart, paging | nothing behind the cursor skipped; all dispatched |
| USDC conversion (`jobs/usdcConversionJob.ts`) | mint rows, reserve history, queue | claim, buy per currency, book, complete, release | failure inside a loop of external effects | ledger backed by purchases; bought once |
| Apportionment and weights (`calculateBasketDistribution`, `services/basket`, `jobs/proposedWeightsJob.ts`) | `BasketConfig` rows | propose, activate, read, split | rounding, rows inserted one by one | exact sums; a basket is the whole of one proposal |
| Auth (`services/auth`, `utils/jtiDenyList.ts`) | user row, OTPs, deny-list in Redis and in memory, keys, refresh tokens | sign in, second factor, refresh, revoke, delete | counters read and written back, concurrent exchange, Redis outages | guesses bounded; a credential is used once |
| Recovery (`services/recovery`) | attempts, OTPs, devices, sessions | unlock, verify, rotate | concurrent attempts at a limit, one step of several failing | guesses bounded; sessions replaced by the new one |
| KYC documents (`controllers/kycController.ts`, `services/storage`) | application and document rows, the object and its tag | upload, confirm, scan, tag, download | content replaced between scan and download | what is served is clean |
| Directory (`controllers/userController.ts`, `services/user`, `services/recipient`) | profile, contacts, guardians | patch, prove, add, delete, resolve | requests let in before a deletion run after it | nobody hidden is found; what was erased stays away |
| Message consumers (`jobs/webhookConsumer.ts`, `notificationConsumer.ts`, `auditConsumer.ts`) | webhook rows, queues | publish, deliver, retry, dead-letter | retries by timer after the ack, mail and then text | every message ends somewhere; effects bounded |
| Lists (`utils/pagination.ts`, controllers) | none | next page by cursor or offset | rows committed out of order while a client pages | nothing twice, nothing lost, nobody else's |
| Bills (`services/bills`) | `Transaction` rows, partner | pay, reconcile, refund | webhook against request, double refund, limit | refunds are backed; the limit holds |
| Wallet and transfers (`services/wallet`, `services/transfer`) | wallet version, address, balance caches, transfers | enrol, transfer | several processes with caches | a transfer relies on a fresh balance; one per key |
| Salary, bulk (`services/salary`, `services/enterpriseService.ts`) | batches and items, jobs and rows | create, process, retry, close | partial batches, overlapping files | paid once; the totals are true |
| Chain calls, fiat, faucet (`services/stellar/contractClient.ts`, `client.ts`, `services/fiat`) | sequence number, `Transaction` rows | simulate, sign, send, resend, poll, give up | a transaction applied after it was given up | once on chain; rows agree with it |
| Investment (`controllers/investmentController.ts`, `jobs/investmentWithdrawalJob.ts`, `services/investment`) | withdrawals, strategies, yield ledger | request, sweep, announce; allocate, release, accrue | overlapping sweeps, clocks, lost updates | announced once; deployed within limits |
| Provider clients (`services/fintech/*`, HTTP client) | token, breaker, references | disburse, query, resend | resending of POSTs, token expiry | a payout is made once |
| Inbound calls (`index.ts`, `controllers/webhookController.ts`, signature guards) | webhook rows | check, store, answer | order of middleware, replays | only signed and fresh calls are handled; stored once |
| Reserves (`services/reserve`) | reserve rows, chain values, events | track, alert, pause, rebalance | stale totals, overlapping rounds | the chain holds what custody had; decisions settle |
| Oracle (`services/oracle`) | rate rows | fetch, combine, smooth, store | outliers, stale comparison | a minority cannot move the rate; jumps are flagged |
| Read caches (`config/limits.ts`, `services/rates/acbuRateCache.ts`, `exchangeRateService.ts`) | one entry and one load each | get, load, expire | shared loads, errors, expiry | fresh; no regress; outages contained |
| Treasury view (`controllers/governmentController.ts`) | a cache entry per actor | get, load, keep, evict | queries side by side, loads not shared | the reader's own rows, sums that add up, no older than a life and a load |
| Circuit breaker (`utils/circuitBreaker.ts`) | state, counters, last failure | canExecute, record, getState | answers that arrive in another state | trips and closes after answers in a row; recovers |
| Job lock (`utils/jobLock.ts`) | a MongoDB document with a TTL | acquire, release, expire | work longer than the TTL, fail-open | one runs; jobs run again |
| Process (`index.ts`, `config/*`, `gracefulShutdown.ts`, `services/health`) | connections, consumers, flags | start, retry, serve, lose, stop | a signal during the start, a lost broker | healthy means started; stop after the last request |
| Primary keys (`utils/idGenerator.ts`) | last millisecond, counter | generateId | clock set back, counter used up | ids in order |
| Burn requests, rate limiter, drift audit, deposit limits, schedules, treasury reconciliation, idempotency store | | | | section 7 |

How the parts interact: controllers write rows and publish to RabbitMQ
(`config/rabbitmq.ts`); consumers take messages one at a time (`prefetch(1)`),
change the rows and call Stellar or a provider; effects of the Soroban contracts
come back through the event listener, whose handlers publish to the withdrawal
and conversion queues. The usual retry protocol is: on an error publish a copy
with `x-retries + 1` and ack, on the last one reject. When the connection
closes, `config/rabbitmq.ts` forgets the channel and no consumer of the process
is registered again; its handlers go on running. Scheduled jobs of every process
run under the job lock or, where the module says so, under none.

## 2. Modules

| Module | Models | Run in |
|---|---|---|
| `OnRamp`, `OnRampProofs`, `Deposit` | both on-ramp pipelines from the request to the terminal row; `Deposit` is the abstract promise they implement | `MCOnRamp` |
| `Withdrawal`, `WithdrawalProofs` | burn effect to payout: listener handler, queue, consumers, providers | `MCWithdrawal` |
| `UsdcConversion`, `UsdcConversionProofs` | mint effect to reserve history | `MCUsdcConversion` |
| `Auth`, `Recovery`, `Kyc`, `Directory`, `Queues`, `Paging`, `AccountsProofs` | accounts, and what serves them | `MCAccounts` |
| `Bills`, `Wallet`, `Salary`, `Bulk`, `ChainCalls`, `Investment`, `Providers`, `Inbound`, `PaymentsProofs` | what moves a user's money | `MCPayments` |
| `BasketMint`, `Reserves`, `Oracle`, `BasketDistribution`, `ReadCaches`, `Treasury`, `BasketWeights`, `Allocation`, `BasketProofs`, `Sums` | what stands behind the basket | `MCBasket` |
| `CircuitBreaker`, `JobLock`, `EventListener`, `Lifecycle`, `IdGenerator`, `PlatformProofs` | what every service stands on | `MCPlatform` |

Each component is a specification of its own with its `Init`, `Next` and
variables. `MCAccounts`, `MCPayments`, `MCBasket` and `MCPlatform` put components
that share no state beside each other for one run: a variable `part`, chosen at
the start, says which of them moves, and the others stay in one initial state, so
that the states of a run are the sum and not the product of the components'.
Where components do share state they are one module: `OnRamp` has the request,
the queues, the consumers and the chain; `Withdrawal` and `UsdcConversion` have
the listener's handler, the queue, the consumers, the providers and the ledger;
`Recovery` has the deny-list and the sessions; `Providers` the breaker, the token
and the HTTP client.

Conventions. A handler is a process with a program counter; a step ends at each
`await` whose effect others can see. A call that can fail has three outcomes: it
is applied and answered, it is lost, or it is applied and answered with an error
("late"). In `OnRamp`, `Withdrawal`, `UsdcConversion`, `BasketMint` and
`EventListener` the constant `Faults` says which kinds happen and `MaxFaults` how
many; elsewhere a counter with its own bound (`MaxErrors`, `MaxLosses`...) does.
A crash forgets what only the process knew and gives the delivery back to the
broker; a closed channel gives the delivery back while the handler goes on.
Queues are bags indexed by row and `x-retries`, so delivery order is free.
Variables under "what happened, for the properties" are history: nothing reads
them but a property. An operator marked "Mutation" is a plausible bug of the
definition below it; no specification uses it. It is there to show that a
property can fail.

### OnRamp and Deposit
`status` is `OnRampSwap.status`; `xlmRecorded` the rows whose `xlmAmount` is set
(XLM deposits from the start); `queued`, `dead` the queues; `pc`, `job`,
`retries`, `attached` a consumer; `row` and `booked` the `Transaction` rows of
attempts; `swaps`, `mints`, `burns` what happened on chain; `lostSwaps`,
`lostMints` count effects whose record an error or a crash destroyed. `Usdc`
deposits take the swap branch, the others come in through `xlmToAcbuJob.ts`; the
two consumers differ in `AfterLoad` and `ReleaseStatus` only. `Deposit` has no
queue, consumer or retry: a deposit is opened, converted once, minted once and
settled, completed if it was minted and failed if not. `ImplementsDeposit` maps
its `stage` to `Stage`, the status with `pending_convert` and `processing` as
"open". It holds where no database call, process or late chain answer fails;
otherwise a retry repeats an effect whose record was lost, which the abstract
specification does not allow and `MintAccounting` and `SwapAccounting` count.

### Withdrawal
Rows have a provider route (`DEFAULT_CURRENCY_PROVIDERS`); `getProvider` is the
router's rule with its fallback, `Disburse` and `Failover` the two tries of an
attempt. TLC explores every choice of the rows that have all payment fields.
`clouded` remembers the rows that two consumers held at once or for which an
answer was unclear or cut off: only for the others can the code promise anything
about double payment. At this commit nothing in the repository creates a burn row
with a hash and the deployed router only knows a simulated provider; the model
takes the rows that the consumer's query describes.

### UsdcConversion, BasketDistribution, BasketWeights
`bought` are purchases at a provider, `entries` history rows, `skipped` the
currencies whose purchase the last attempt gave up. An amount that is not a
positive number is acked with the row still claimed, as in the code. No writer of
this commit leaves a mint row pending with a hash; `Init` takes the state the
listener's query describes. `BasketDistribution` computes in units of `1/Sub`
stroop, so rounding down the amount is part of the model. `BasketWeights` is
where the weights come from: passes of several processes insert one row per
currency, an administrator activates rows of one `effectiveFrom`.

### BasketMint
One row per idempotency key. `Find`, `CheckPaused`, `CreateTx`, `MarkProcessing`,
`Invoke`, `Complete`, `Audit`, `ServiceFail`, `FailTx` are the awaits of the two
handlers; a deposit checks the pause before it looks for the key, a confirmation
after. All writes are by id, as in the code.

### Auth, Recovery
One account. `user` are the fields of its row, `chals` the challenge tokens by
age, `denied` and `local` the deny-list in Redis and in each process, `keys` and
`tokens` API keys and refresh tokens. Secrets are left out: what the client sends
is right or wrong. The properties except exactly what the code cannot keep: two
attempts that held a copy of the failure counter at once, tokens that met a
failing Redis, tokens exchanged at once. `guesses` are the wrong passcodes and
codes of sign-in compared in a row: a lockout ends the row, and so does a right
passcode, which resets the counter in the code. The codes of
`verifyMfaChallengeForUser` (the second factor elsewhere) have no counter at all; what
bounds them is that a challenge token is good for one code, which `codesTried` says.
`Recovery` counts passcodes and codes that were compared in a day against the limits
per user, identifier and device. Between a comparison and the record of the attempt
are calls that may throw (`verifyDevice`, `detectSuspiciousPatterns`, the record
itself): such an attempt is compared and not counted, one for each failed call.

### Kyc, Directory
`Kyc` has one document: the object's content by version, its tag, its row, the
scan on its way. `Directory` lets every request run on after the account it
belongs to was deleted; one alias stands for username, email and phone, which are
each unique and each looked up alone.

### Queues
Three consumers with three protocols. The webhook consumer acknowledges and sends
again from a timer, so `stranded` remembers what died in between. `Enveloped` are
the messages published in the envelope that `parseIncomingMessage` asks for: all
in `Accounts`, which asks how the handlers behave, and those the code really
wraps in `Queues_envelope`.

### Paging
Rows have an instant and become visible later; rows of one instant come in any
order. `walk` is one client's list with its filter and limit, as answered and as
used, which differ for salary schedules.

### Bills, Wallet, Salary, Bulk
`Bills`: every bill is of amount one, paid with the key of one user (`ofUser`) or of
the organisation the user is in; rows of organisation keys have neither a user nor an
organisation, so the sum that the limit is compared with (`Counted`) never has them;
partner answers and webhooks come in any order and number. `Wallet`: the second
`createTransfer`, the one in force; `relied` are the versions a sufficient balance was
loaded under. `Salary`: all requests carry one key. `processSalaryBatch` hands
`createTransfer` no signing key, and without one it pays nothing and answers pending; the
model also has what the rest of it may do: answer completed, or answer failed or
throw, each with the payment out or not (`Answers`). `Bulk`: files share keys; the transaction around a chunk
wraps nothing, so an error takes nothing back.

### ChainCalls, Providers, Inbound, Investment
`ChainCalls`: all calls are signed by one account; `mempool` are transactions the
network may still apply, also long after the caller gave up, or found a result that
it could not read. `Providers`: a payout
is known to its provider by `payRef`, which decides whether a resent request pays
again. `Inbound`: a call has flaws (forged, unsigned, compressed, stale...), and
passes the middleware in the order of `index.ts`. `Investment`: sweeps of any
number of processes overlap and hold what they read.

### Reserves, Oracle, ReadCaches, Treasury, Allocation
`Reserves`: a round walks over the basket, reads the rate and then the holding of a
currency, and stores their product with the total of the rows as they are then. A
rate that moves between the two reads makes a product that custody may never have
been worth; `blended` are the currencies this happened to, and `held` what can be
read of each. `calm` counts undisturbed full rounds. `Oracle`: the answers are a
non-decreasing sequence of rates, and an outlier is excluded by its place in it;
`Fetched` is what the job can make of any answers. `ReadCaches`: one module for three caches; they differ in what an
error leaves and in when a life begins; the clock starts at 1, as `until = 0` means
that nothing is cached.
`Treasury`: the treasury view of a government; facts (rows that count, reserves)
hold or not, `turned` is when one last changed; a response is what its queries
read at different moments, kept under the key of who asked. `Turn` is the
place of a currency in the response: the basket's order, then the codes'. Loads are
bounded, answers from the cache are not.
`Allocation`: transactions read a row and write it back without a lock; passes of
several servers accrue under the job lock.

### CircuitBreaker, JobLock, EventListener, Lifecycle, IdGenerator
`GuardInTry` distinguishes `StellarClient`, which asks `canExecute` inside its
`try`, from the provider clients, which ask before it. In `JobLock` an instance
is one run slot (timers of one process may overlap as well). In `EventListener`
`cursor + 1` is the effect being dispatched, `pos` the handler that has it;
handlers are of two kinds as the code has them: those that resolve the hash on
Horizon and drop the event if that fails, and those that catch their own error.
`Lifecycle` runs `startServer`, lost connections, requests and the handler of
`SIGTERM` beside each other. `IdGenerator` reduces a UUIDv7 to millisecond and
counter; the clock goes on and is set back.

## 3. Runs

| Run | Checks | Shows |
|---|---|---|
| `OnRamp_faults` | ClaimExclusion, MintAccounting, SwapAccounting, TerminalStable | safety under every fault kind: one deposit of each pipeline, 2 consumers, 3 faults |
| `OnRamp_service` | ImplementsDeposit, DepositsSettle | with a chain that refuses and messages that are duplicated, the on-ramp implements `Deposit`, and all deposits end |
| `Withdrawal_faults` | CompletedIsPaid, PaidOnceInSequence, WithdrawalsEnd | 2 rows with different routes, 3 burn effects, 2 consumers, 2 faults |
| `UsdcConversion_faults` | LedgerSound, ConvertedOnce, ConversionsEnd | 2 rows, 2 currencies, 2 consumers, 2 faults |
| `Accounts` | AuthSound, RecoverySound, ServedIsClean, DirectorySound, MessagesAccounted, ListsSound | each component with two or three overlapping requests |
| `Payments` | BillsSound, WalletSound, SalaryAccounted, BulkAccounted, CallsAccounted, AnnouncedOnce, PayoutsAccounted, InboundSound | the same for what moves money, with failing calls |
| `Basket` | MintsAccounted, ReservesSound, RatesSound, FairShares, CachesSound, WeightsSound, DeploymentSound | the same for what stands behind the basket |
| `Platform` | OneRuns, CursorSound, OrderlyLifecycle, IdsOrdered, Recovers, JobsRunAgain, EffectsDispatched | lock, listener, process, ids and breaker, with liveness |
| `BasketMint_once` (violated) | ConfirmedOnce | two confirmations of one deposit both read `pending` and both mint |
| `CircuitBreaker_horizon` (violated) | CooldownEnds | refusals recorded as failures restart the cooldown for ever |
| `JobLock_release` (violated) | HolderKeepsLock | a run that outlived its lock deletes its successor's |
| `Queues_envelope` (violated) | AttemptedBeforeGivenUp | webhooks are published without the envelope their consumer asks for and dead-lettered untried |

What each property says is the comment in front of it. A property named "...Sound"
is the conjunction of the named parts defined before it, the component's type
invariant among them. Where the code cannot keep a promise under some overlap or
loss, a history variable records exactly that overlap or loss and the property
excepts it; the exception is the statement of the limit, and section 4 lists it.

Bounds. Two consumers or requests are enough for the races on one row, since no
code compares more than two; two rows show that one row's trouble does not reach
another. Some components have three actors: three callers of the breaker (one that
trips it, two whose answers come late), three run slots (an overrun, its successor
and the one let in), three visitors of a document. Retry budgets are 1 to 3, the
least with a first, a middle and a last attempt where the code tells them apart.
Limits and thresholds are scaled down to values that a behaviour reaches and passes:
`MaxAttempts` 2 of 3 sign-ins, `UserMax` 2 and `IdentifierMax` 3 of 5 recoveries,
a bill limit of 1 with 2 bills, a ledger of 2 entries with 3 credits, a counter
of ids up to 2 with 4 ids. Fault bounds let one attempt fail in two places or two
attempts fail; three or four in the on-ramp and the listener reach the end of every
retry loop. The tracking rounds have one trouble (the theorem any number), rates of 1
and 2, holdings of 0 and 1, and begin with a rate of 1 and with custody of the first
currency. Two rate rows have a first that nothing judges and a second that is judged,
flagged and smoothed; longer averages are the theorem's. Chunks of 2
in files of 3 rows and pages of 2 in lists of 3 have a full and a partial one. `Quote` {100, 102, 150} has two rates within the outlier threshold and one
outside of it. Times are ticks in which an entry can be used before, at and after its
end. Amounts up to 23 half stroops and 4 weights up to 5 reach every case of ties
and remainders of the split. Deadlock checking is off where a finite set of requests,
effects or ticks is simply used up. Symmetry is used only in runs without a
temporal property, of model values the components treat alike.

Fairness is weak fairness of the steps of a handler that has started (the Node
event loop runs it on), of the broker's delivery to an idle attached consumer,
of the listener's loop, of time, and of the timers that try the lock. Faults,
requests, effects, crashes, outages and recoveries are never fair.

## 4. Disagreements between the code and its comments

The four violated runs are listed as findings. The rest was met while modelling;
the models contain the behaviour, and no property claims the contrary.

Mint, withdrawal, conversion:
- `usdcConvertAndMintJob.ts:51` passes `retries >= MAX_RETRIES - 1`, so the last
  but one attempt marks the deposit failed and a copy is published that nothing
  can claim; the comment above says only the attempt that exhausts the budget may.
- `mintController.ts:154`: when the publish fails the row stays, and a replay is
  answered 202 although no message exists.
- A swap or mint that is applied but answered with an error is repeated by the
  retry (`lostSwaps`, `lostMints` count exactly these).
- `withdrawalProcessingJob.ts:193` and the catch of `confirmMint` write `failed`
  over a row that may have become `completed`.
- `usdcConversionJob.ts`: history rows carry no `transactionId`; a database error
  after a purchase makes the retry buy again; `amountChange` is `Decimal(20,2)` and
  rounds what the apportionment made exact.
- `governmentController.ts:159` takes at most 50,000 rows in no order: beyond that the
  treasury's balance is of some of them, and nothing says so.
- A basket deposit converts its amount twice (`mintController.ts:455` and `543`),
  possibly with two rates.

Messages and process:
- `config/rabbitmq.ts:65-73` puts `deadLetterExchange` into `arguments`, where
  RabbitMQ expects `x-dead-letter-exchange`: rejected messages are dropped.
- `notificationConsumer.ts` calls `parseIncomingMessage` without importing it; a text
  that fails after its mail makes the mail go out again; without keys SendGrid and
  Twilio only log, and the message is acknowledged.
- The savings vault and burning handlers return normally after a transient error,
  so the listener neither retries nor captures the event.
- After the broker's connection closed no consumer subscribes again though the health
  report says RabbitMQ is up; a `SIGTERM` during the start lets `startServer` go on.
- `circuitBreaker.ts:50` says one test request is allowed in `HALF_OPEN`; every
  request is.
- `idGenerator.ts`: "strictly ordered by generation time". When the counter is used up,
  `generateId` waits for the next millisecond and writes the old one into the id with
  a fresh counter, and with a clock set back it writes the older millisecond.
  `IdsOrdered` excepts exactly those ids.
- `yieldAccrualJob.ts:12`: "only one instance runs per interval (#418)". The lock is released
  at the end of a pass, so every instance, and every restart, accrues the same day.
- `index.ts` blocks GraphQL queries before the body is parsed, compares `Content-Length`
  with the inflated body, and imports `config/webhookSignatureGuard`, which does not exist.

Accounts:
- The failure counter of a sign-in is read, raised and written back, so concurrent
  attempts count once; a right passcode resets it, so that wrong codes of the second
  factor lock nobody out who knows the passcode; with Redis down two processes accept the
  same challenge token;
  the deny-list forgets a token at its `exp` while `verifyJwt` accepts it for the clock
  tolerance.
- Deletion leaves refresh tokens live; requests let in before it write personal data
  back; `verify2fa` never marks the OTP used; `authBruteGuard.recordFailure` has no caller.
- Recovery writes `recovery_recovery_initiated` to the audit trail and
  `detectSuspiciousPatterns` counts `recovery_initiated`. An attempt is recorded after the
  passcode was compared and after calls that may throw.
- A document's verdict tags a key whose content may have been replaced since it was scanned.
- Lists order by `createdAt` alone; a filtered cursor row that changes its status ends
  the walk early; `getSalarySchedules` answers a clamped limit and uses the raw one.

Payments:
- `billsService.ts` guards no status by the one before it: late or repeated webhooks
  overwrite a refund; a failed `enqueueWebhook` turns a completed bill failed; the
  limit is checked before the row is created; `limitsService.ts:20-34` looks for rows by
  `organizationId`, which `payBill` does not write, so organisation keys have no limit.
- A salary batch stays in `processing` when its run throws; a transfer whose item could
  not be written is marked failed; `createTransfer` is called without `If-Match`.
- The `$transaction` around a bulk chunk wraps nothing; identical rows of a file are skipped.
- `client.ts`: `isBadSeqError` looks in another field than the error has; transactions have no time
  bound; `contractClient.ts` ignores the status `ERROR` of `sendTransaction` and polls for 120 s.
- `services/fiat` passes no transaction id, so a failure is not written to the row.
- The HTTP client resends POSTs; Flutterwave's transfers carry no reference, Paystack's
  is `Date.now()`, and a failover always has a new one.
- A sweep whose update was applied but answered with an error never announces the withdrawal.
- `allocationService.ts`: "Updates deployed_notional_usd atomically"; the transaction reads
  and writes under Read Committed, so overlapping changes are lost.

Basket:
- Tracking divides by the rows of the round before; the rebalancing queue has no consumer.
- A zero from a central bank or the fintech partner is averaged in; when no source is near
  the median all are used. A central bank's negative rate would be too (not modelled).
- `ReserveTracker.ts:44-59` multiplies a rate and a balance read one after the other.
- An error of the ACBU rate's source, or a 4xx of the forex API, leaves nothing behind, so
  each later request loads again; `OutageContained` is about the other errors.
- The limits' fallback snapshot lives through an outage and its expiry is counted from the
  last reader that joined the load.
- Proposed weights are inserted one by one; two passes in the same millisecond share
  `effectiveFrom`.

## 5. Proofs

`OnRampProofs` proves for any sets of deposits and consumers, any retry budget,
any fault kinds and bounds: TypeOK, ClaimExclusion, MintAfterSwap, MintAccounting,
SwapAccounting, RowsBacked and TerminalStable; and, where database, process and late
chain faults are excluded, ExactlyOnce and the refinement ImplementsDeposit. The only
assumptions are those in `OnRamp` on its constants, which TLC evaluates in every run.
ClaimExclusion is not inductive: that a claim can succeed only when nobody holds
the row needs that a row with a holder is in `processing`, and (after a late
completion) `completed`. The invariant `IInv` adds: a busy worker has a deposit
(`JobOK`); the status a held row has at each step (`HolderStatus`); a handler past
the swap has its amount recorded (`Converted`); the attempt's Transaction row
matches its step (`RowInv`, `RowAtStep`); effects not yet recorded are in one
handler's hands (`Unrecorded`); and the loss counters stay zero when the faults
that raise them are excluded (`NoLoss`). There is one lemma per action;
`LocalBefore` and `LocalAfter` say once that a step of one handler leaves the rows
of other holders alone. The refinement has one step per action too: a claim, a
retry or a redelivery changes nothing abstract, the swap is `Convert`, the contract
call `Mint`, the terminal writes `Settle`; that no effect is repeated is the accounting
invariant with the loss counters at zero. DepositsInHand has an invariant of its own
(`Kept`), below.

The theorems of the other proof modules each say `Spec => []P` for a property `P` that
a run checks, for any value of the constants within the assumptions of the
component's module: that a "none" value is no member of the set it stands beside,
that bounds and budgets are numbers (positive where the code has a first attempt),
that rows of a kind are apart from those of another. What the code counts or adds up
is assumed finite: requests in `Recovery`, visitors in `Kyc`, strategies in
`Allocation`, rows in `Paging`, files in `Bulk`, coins in `BasketWeights`, ledger rows
and reserves in `Treasury`. Of the numbers the code fixes, `Paging` assumes that the
default limit of salary schedules is not below the default of the other lists (50 and
20 in the code), as an offset that outruns what a page takes would leave rows out;
`Oracle` that the limit for a review is not above that of the breaker, and that rates
are counted in a unit that twelve divides, so that the mean of up to four is a
number of units; `ReadCaches` that neither "no rate" nor an answer out of bounds is a
version. Each proof has the same plan: the invariant below holds at the start
(`...InitInv`), every action keeps it (one lemma per action or per group of actions
that do the same to it), it implies the property. TLC finds each invariant true in
all states of its component's run (in a module that extends the MC module and the
proof module, with the invariant in the configuration), except those of `ReadCaches`
and `Treasury`, which were proved without that.

| Module | Theorem | What the induction needs besides the property |
|---|---|---|
| `UsdcConversionProofs` | LedgerIsSound, EachConvertedOnce, CompletedStays, ConversionsInHand | who is past the claim has its row in `processing` (`Placed`), alone (`Exclusive`); behind `next` the currencies are booked or given up, ahead of it unbought unless the row has a cloud (`Fresh`); purchases run ahead of history rows (`RowSound`). A retry of a row without a cloud was paid for by a refusal of the basket (`RetriesPaid`), so none is rejected before the refusals outnumber the retries |
| `WithdrawalProofs` | CompletedWasPaid, PaidOnce, WithdrawalsInHand | nothing claims a row, so the argument is about the rows without a cloud: they have one worker (`Alone`), which has not paid before "complete" (`Placed`), and pending means unpaid except while it is about to be completed (`RowSound`, `Completing`). A worker with such a row is connected, and at its end the row is closed or has a retry left (`Follows`) |
| `BasketProofs` | BasketMintsAccounted | one deposit has created the row (`OneCreator`); completed is minted; a row in `processing` has a request at work or was lost (`ProcessingIsWorked`) |
| | DeploymentIsSound | a change that will raise a strategy read a value it fits on; the strategies a pass has still to credit have fewer credits than there were passes, and only the holder of the lock has any (`PassSound`) |
| | ReservesAreSound | what a round or the contract holds could be read of custody (`ValuesHeld`), and a rate that a round has read goes with the holding now unless it moved (`RateHeld`); a round without trouble is alone, and the rows behind it are custody's (`CleanRounds`); after one calm round the values of all rows are true, after two their weights (`CalmRows`) |
| | RatesAreSound | a run holds a positive rate, flagged if it trips (`RunsJudged`); a run that is alone judged against the newest row (`AloneJudged`), so the flag of each row tells its move (`MovesFlagged`). That a composite follows most of its answers needs no step (`MostDecide`): the median lies within any stretch of the sorted answers that has a majority, one of that stretch stays, and what stays is close to the median |
| | SharesAreFair | no induction over steps: ranks of remainders are all different and count up (`RankBelow`, `RankGrows`, `RanksCount`), and what the floors left is less than the number of shares (`MissingBounded`), so the largest remainders get one more each and the sum is exact |
| | WeightsAreSound | a row of the table is the one of its process's proposal (`RowsMade`), and an instant tells whose they are unless two passes shared it (`InstantsTell`); the proposal adds up to the whole (`SumOfPart`, `SumRenamed`) |
| | CachesAreSound | what is cached or waited for was the source's version a life and a load ago at most (`EntryFresh`, `LoadsTimely`), limits only move on from the environment's (`LimitsKept`), readers share the load (`OneLoad`). For the treasury: what a load has read (`ViewsRead`) and what an entry was made of (`EntriesRead`) has turned since if it is no longer so; and `ResponseAddsUp`, which needs no step: every currency is in the list once (`OrderedOnce`), and sums by currency are the sum of all (`SumGrouped`) |
| `PaymentsProofs` | WalletsAreSound | cached tags are not newer than what was loaded under them (`CacheSound`); a caller at the version of the wallet saw its address (`CallerSound`) |
| | AnnouncedAtMostOnce | one sweep at most is about to announce a request, the one whose update counted (`RequestSound`) |
| | CallsAreAccounted | network and ledger hold only the newest transaction of a call, so a new one is signed when the last can never be applied (`OneEach`, `CallSound`) |
| | BillsAreSound | the refunds granted and those found refundable are within the completions, the unwritten ones and the races (`BillBacked`); what a user's key had checked against the limit has a place left (`Room`) |
| | InboundIsSound | a delivery at its handler was signed by a known secret (`CallPassed`) |
| | PayoutsAreAccounted | a payout made is under its reference, which the provider remembers (`PayoutSound`); a token that is used outlives the margin (`BearerGood`) |
| | SalariesAreAccounted | one request has the batch (`OneBatch`); each payment is in its item or misread; what an item shows as completed was paid (`PaidSound`, `ResultSound`) |
| | BulkIsAccounted | the counts of a job are those of its rows (`JobCounts`), and each success created its transfer (`SuccessesCreated`); the sum over files is compared through `Sums` |
| `AccountsProofs` | DownloadsAreClean | what the scan read is the content unless it was replaced (`ContentKnown`) |
| | RecoveryIsBounded | at the limit only the requests that passed it before are still to compare, which are counted, and comparisons run ahead of records by the failed calls at most (`UnlocksCounted`, `CodesCounted`); after a rotation a key is there or about to be (`HandedOver`) |
| | SignInIsSound | the attempt under way holds the counter as it is, which wrong answers outrun by the failed calls at most (`Guarded`); a claimed token is on the deny-list (`ClaimedOnce`); an exchange under way is the first (`ExchangedOnce`) |
| | QueuesAccount | each message by its kind: posts are counted in the row but for the one being written (`WebhookOk`); what this delivery has sent (`NoticeOk`, `AuditOk`) |
| | DirectoryIsSound | a request has met everybody visible and every code current since it began (`MetOk`); a deleted user has nothing and no request (`Erased`); guardians share no handle, the one about to be added included (`Apart`) |
| | ListsAreSound | a row of the first page that is not yet returned is older than the cursor, or, by offset, has at least `offset` newer rows before it (`Ahead`): with its instant to itself its place in any order is the number of newer rows (`PlaceOfAlone`), which only grows |
| `PlatformProofs` | CountsBounded, TypeCorrect, ClosesProperly, TripsProperly | in `CLOSED` the failure counter of a breaker, in `HALF_OPEN` the success counter, never exceeds the answers that came in a row (`CountsInRow`) |
| | OneInstanceRuns | an instance at work owns the document, as old as its work (`WorksUnderLock`) |
| | IdsStayOrdered | no id is above what the generator remembers (`Remembered`) |
| | LifecycleIsOrderly | only a started process listens, and its server is there until the last request is answered (`ServesAfterBoot`) |
| | CursorsAreSound | page and position are within the ledger (`PositionsRight`), behind them all is settled (`CursorBehindSettled`), and what was offered since the start was delivered once more at most than there were restarts (`OfferedOnce`) |

Sums and counts. The community modules define a sum by recursion over a finite set,
and induction over it is out of the prover's reach. `Sums` goes another way: it takes
the library's sum as the recursive function over the subsets of a set that it is
(`SumEmpty`, `SumRemove`), and proves a fact about all finite sets by contradiction,
from a smallest set for which it fails (`LeastWrong`). So are proved that equal terms
have equal sums, that sums are linear, monotone and bounded, that a changed term
changes the sum by as much (`SumChanged`), that renaming or grouping the terms changes
nothing (`SumRenamed`, `SumGrouped`), that a sum of ones counts (`SumCounts`), and the
facts on ranks. `BasketProofs` and `PaymentsProofs` cite them.

Only model-checked is liveness (DepositsSettle, WithdrawalsEnd, ConversionsEnd, Recovers,
JobsRunAgain, EffectsDispatched), which is out of the prover's reach, and the four
violated properties, whose counterexamples are the result. For the three pipelines the
safety half of it is proved: nothing is ever stranded, so that a fair scheduler
always has a step to take.

- DepositsInHand: a pending deposit is about to be published, queued, with a consumer
  about to claim it or with one that will publish it again; one in `processing` is
  with the consumer that claimed it. It holds where the database, the processes and
  the connections stay up and the broker loses no message, whatever the chain and the
  duplicates of the broker do. Each of these hypotheses is needed: a claim whose
  process died, or a lost message, does strand a row (no sweep looks for such rows).
- WithdrawalsInHand needs no hypothesis on the environment: the same for every pending
  row whose burn was seen, but for the rows that lost an answer, a connection or a
  process themselves (`clouded`).
- ConversionsInHand: the same for valid mints, while the consumers stay connected and
  no more attempts fail than there are retries.

TLC found their invariants true under the faults they allow (in modules that extend
the MC modules, with up to four faults). What remains of liveness is that the steps
left are taken and that refusals come to an end.

MintAfterSwap, RowsBacked, ExactlyOnce, ClosesAfterSuccesses, TripsAfterFailures and
CompletedStays are only proved.

## 6. State of the plan

Modelled: the parts of section 2. Proved: all safety properties, the action property
and the refinement of the runs. Proved beyond them: that
nothing is stranded in the three pipelines. What is left of the plan is out of reach:
the provers have no rule for liveness under fairness or for ENABLED, and the parts of
section 7 do not run at this commit or keep no state a property could be about. A
change of the code that gives them one (the burn requests, the rate limiter, the drift
audit) is where the next module belongs.

## 7. Not modelled

- Burn requests (`burnController.ts`) use `prisma.wallet` and `prisma.burnTransaction`,
  which the schema does not have. The first `createTransfer` of `transferService.ts` is
  replaced by the second, and the submission with a signing key (638-772), which no
  caller reaches, calls an undefined `submitStellarPayment`.
- `salaryScheduleJob.ts` calls an undefined `computeNextRun`; `middleware/rateLimiter.ts` ends in
  the middle of a function, and `utils/cache.ts` has no other user; `weightDriftAuditJob.ts`
  does not import the lock it takes and `calculateDriftReport` always throws; `sumDepositsUsdSince`
  aggregates a column that does not exist; `simulateOffRamp` always throws.
- No callers at this commit: the idempotency store, `guardedChat`, `watchWithResumeToken`,
  `floatRevenueService`, `createLedgerEntries`, `getMintFeeBps`,
  `computeDeployableAllocation`, the functions that invalidate a cache, `reset` of the breaker.
  (`buildAndSubmitTransaction` has none either; `ChainCalls` has it as its classic calls.)
- Treasury reconciliation, reports, savings, rates and reserve endpoints only read.
- Fees and amounts before a row exists, XDR building, encryption and hashing, KYC review and
  validator rewards, the travel rule, checks that only refuse a request, routing of other
  requests, logging, metrics and tracing have no state that a property here is about.
