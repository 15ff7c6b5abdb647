# HiveMachine gateway: TLA+ models, model checking and proofs

HiveMachine is an inference marketplace. A Go gateway (`src/cmd/gateway`,
`src/pkg`) takes HTTP and WebSocket requests, forwards them to a core written
in Rust over gRPC, charges prepaid balances, and runs workflow jobs, provider
health checks, payment rails and a libp2p service beside them. Only the Go side
is in this repository. The core is reached through `src/internal/grpc/client.go`
and is modelled as an environment that may answer, fail or stay silent.

Nearly everything is held in memory and shared between goroutines: one per HTTP
request, one per job, two or three per stream, a heartbeat loop. Unit tests run
these one after the other. The models here run them in every order.

The repository is read at one commit. Every definition that stands for code
names its file and lines in `PROJECT.json` (`map`). Paths below leave out
`src/`.

## 1. Inventory

What each component keeps, does, talks to, where it is hard, and what makes it
correct. The column "model" is the state of the project.

| Component | Model |
|---|---|
| Inference API and balances; Stripe top-up | `GatewayBilling` over `BalanceStore`, implements `PrepaidLedger` |
| Completion stream; gRPC client | `CompletionStream`, implements `StreamDelivery` |
| Workflow jobs | `WorkflowJobs`, implements `JobLifecycle` |
| P2P sessions | `P2PSessions` |
| Provider registry, heartbeat, router, failover, tracker | `ProviderRouting` |
| TAP and TNK deposits, rail balances | `RailDeposits` |
| Wallet and keystore | `WalletKeystore` |
| Model packing | `MemoryPacker` |
| SQLite store | balances: `SQLBalance`; receipts, quota: not modelled |
| Pricing and quota | not modelled, see 5 |
| Disputes | `Disputes` |
| Trust tiers | not modelled, see 5 |
| P2P receive, message router, bridge, discovery | not modelled, see 5 |
| Token counter; task distributor; workflow engine | not modelled, see 5 |
| Receipts | which receipts are saved: `GatewayBilling`; signatures: not modelled |
| Gateway process, dashboard, CLI, agent, API client, tool bundle | wiring and presentation: not modelled |

**Inference API and balances** (`pkg/gateway/api/server.go`). State:
`InMemoryBalanceStore`, a map from API key to int64 cents behind one mutex, and
a receipt store. Operations: four inference routes (two unary ones, an SSE and a
WebSocket route), `topUp`, queries. A handler reads the balance, calls the core
for up to a minute, saves a receipt, deducts; the SSE route deducts before it
saves the receipt, the WebSocket route does neither. Hard: the balance that
admits a request is stale when it is charged; `Deduct` silently does nothing
when the balance is too low; `Add` wraps. Correct: no account is overdrawn, an
answer goes unpaid only when the account really was short, receipts cover the
charges.

**Stripe top-up** (`pkg/paygate/stripe/paygate.go`). State: none of its own; it
credits the balance store. Operations: create a Checkout session, handle a
webhook. Hard: events come in any order, before the payment settled, and again
when an answer was lost. Correct: a credit was paid, and was credited once.

**Completion stream** (`internal/grpc/client.go`, `pkg/gateway/ws/stream.go`,
`api/server.go`, `proxy/proxy.go`). State: a buffered channel of 64 chunks, an
error channel of one, a context, and on the WebSocket route two flags shared by
two goroutines. Producer, forwarder, reporter, tracker and handler each wait for
another. Hard: a full buffer whose reader has left, an error that two goroutines
read from one channel, channels that close in two steps, concurrent writes to
one connection. Correct: a client that stays is told how the stream ended and
lost no chunk before `[DONE]`; every goroutine ends.

**Workflow jobs** (`pkg/gateway/jobs`). State: a store of `*Job` behind a mutex
that guards the map and not the jobs. Operations: submit (starts the executor),
cancel, events, list, get. Hard: `transitionTo` checks the state and writes it
later, `Succeed` and `Fail` write state and outcome apart, event streams read a
growing log, a proxy without providers returns `nil, nil`. Correct: an ended job
changes only in a real race, its outcome matches its state, watchers get events
once and in order, every job settles.

**P2P sessions** (`pkg/p2p`). State: a table of sessions in `Host` and one in
`SessionManager`, each behind its mutex, and the mutex of `P2PService`.
Operations: open, close, send, disconnect, idle check, start, stop. Hard: every
operation passes through both tables and lets go of the first mutex in between;
`Start` keeps the service mutex while it runs the heartbeat. Correct: the tables
agree until shutdown, a session is never half closed, an ended session carries
nothing, idle sessions go, `Stop` returns.

**Provider registry and heartbeat** (`pkg/gateway/provider`). State: a map from
id to `*ProviderState`. Operations: `Refresh` from the core's list, `Get`,
`UpdateHeartbeat`, `UpdateFailure`, the loop. Hard: `Get` hands out the objects,
pings end after `Refresh` dropped their provider. Correct: only a ping that was
under way brings a dropped provider back; the loop marks and heals providers.

**Router, failover, tracker** (`pkg/gateway/proxy`). State: counts per provider.
Operations: `RouteAll`, the failover of the two unary calls, `RecordSuccess`,
`RecordFailure`. Correct: a candidate was healthy at some moment while the
request routed; the tracker holds each attempt once.

**TAP and TNK deposits** (`pkg/paygate/tap`, `tnk`, `balance`). State: a tracker
of transfers seen, deposit addresses with their keys, rail balances, all in
memory. Operations: `Start` (a loop over a log subscription, for the addresses
known then), `Settle`, `Deduct`, `Stop`. Hard: the chain is reorganised and logs
come again; the number of confirmations is an unsigned difference; check, credit
and mark are three steps, and every `Start` adds a loop; amounts pass through an
int64. Correct: a confirmed transfer is credited once and to the owner of its
address, a credited one stays on the chain, an account is what came in less what
was spent, nothing is credited after `Stop`.

**SQLite store** (`pkg/store`). State: balances, quotas and receipts in tables.
Operations on a balance: get, set, deduct, add. Hard: `Deduct` and `AddCredits`
read in one statement and write in another; a restart or an error may lie
between. Correct: what was acknowledged is in the table once, what was not is
not. Nothing constructs the store yet.

**Wallet** (`pkg/wallet`, `cmd/cli/cmd/wallet.go`). State: a wallet, its encrypted
mnemonic and an unlocked flag in memory, and `wallet.json`. Operations: create,
restore, unlock, lock, export. Hard: a new process does not load the keystore;
a creation replaces the wallet in memory before the save that may refuse;
wallet and keystore are guarded by another mutex than the save that reads them;
processes share the name of the temporary file; saves fail. Correct: the file
always parses, its keystore opens its wallet, an acknowledged wallet stays.

**Disputes** (`pkg/gateway/dispute`). State: a map of `*Dispute` behind a mutex.
Operations: open, review, resolve, expire, get. Hard: answers are put together
from the shared object after the mutex was given back; resolving requests and
expiries race. Correct: a dispute is decided once, its decider is answered with
that decision, and none stays open.

**Pricing and quota** (`pkg/gateway/pricing`). State: counts by epoch, locked
prices, the published state. Operations: `LockPrice`, `PriceFor`,
`ReleaseSession`, `RecordRequest`, the ticker. Hard: the clock is read outside
the mutex and counts are added after it; `PriceFor` reads a map without it.
Correct: what is published goes forward only, the latest stored state is the
published one, demand is complete. Nothing constructs the market yet, and no
module models it (5).

**Trust tiers** (`pkg/gateway/trust`, `proxy/router.go`). State: tier, stake with
a slash flag, TPM and KYB of each provider. Operations: set, stake, enrol,
approve, slash; the router's check. Hard: a slash resets the tier to the value
that also means "none yet", so later enrolments raise it; the router reads flag
and tier of the shared object one after the other. Correct: a slashed provider
is no candidate until it stakes again. The gateway makes no trust store, and no
module models it (5).

**Model packing** (`pkg/gateway/provider/packer`). State: a budget and a slice of
placements behind one mutex. Operations: place, remove, optimise, set the
budget. Hard: sequences of calls that leave gaps, and a budget kept as a running
difference. Correct: placements do not overlap, lie in the memory and within
the budget. Nothing constructs a packer yet.

**Gateway process** (`cmd/gateway/main.go`). It starts the heartbeat (58) before
the one `Refresh` (62) and stops it at exit (171). It never starts the rails'
subscriptions nor the P2P service, gives the job handler no proxy through
`NewServer`, and persists neither balances nor receipts. The models take each
component with the options its constructor offers, and these facts are noted
where they matter.

## 2. Modules

| Module | Models | Used by |
|---|---|---|
| `BalanceStore` | the operations of `InMemoryBalanceStore` on int64 values | `GatewayBilling`, `PrepaidLedger`, `SQLBalance` |
| `PrepaidLedger` | abstract: what prepaid billing promises | refined by `GatewayBilling` |
| `GatewayBilling` | handlers, top-ups and Stripe events over the balance store | |
| `StreamDelivery` | abstract: what a stream promises its client | refined by `CompletionStream` |
| `CompletionStream` | one stream on either route | |
| `JobLifecycle` | abstract: what a job promises those who submit and cancel it | refined by `WorkflowJobs` |
| `WorkflowJobs` | job, executor, cancelling callers, event streams | |
| `P2PSessions` | both session tables, sends, start and stop | |
| `ProviderRouting` | registry, heartbeat loop, routing and failover, tracker | |
| `RailDeposits` | chain, log loops, deposit tracker, rail balances | |
| `WalletKeystore` | wallet in memory and on disk, in several processes | |
| `MemoryPacker` | placements and budget of one provider's memory | |
| `SQLBalance` | balances in the database, statement by statement | |
| `Disputes` | disputes, the requests about them, reviews and expiry | |
| `MC*` | instances for TLC | runs |
| `*_proofs` | theorems and their proofs | |
| `Standalone_proofs` | the proofs about `MemoryPacker`, `SQLBalance` and `Disputes` | |

`Standalone_proofs` extends three modules at once, which is why their common
names carry a prefix (`PackerTypeOK`, `SQLNext`, `DisputesInit`); the three share
no state.

Three conventions hold throughout. An action is one critical section, or one
access to shared state outside of any; a handler that lets go of a mutex between
two accesses is several actions, and `pc`, `exec`, `open`, `send` and the like
name the next one. Definitions under a comment that begins with "Mutant" are
plausible bugs: each replaces the definition after it, and each property of a
passing run is violated under one of them (`mutants` in `PROJECT.json`).
Variables the comments call history record what happened for a property to
speak about; no guard reads them.

### GatewayBilling

`Arrive`, `CheckBalance`, the four outcomes of the call (`CoreAnswers`,
`NoProviders`, `StreamClosesBare`, `CallFails`), `SaveReceipt` and `DeductCost` are
the steps of the four handlers (`chatCompletions`, `completions`,
`streamChatCompletions` and the WebSocket handler). `TopUp` is the route of that
name; `Checkout`, `CustomerPays` and `Webhook` are Stripe's side and the gateway's
handler. `Add` and `Deduct` act on a map of `Int64`, with the wrap of the
addition. An anonymous caller has the empty key, which `Admits` lets pass. Costs
are a free choice among `Costs`: what is checked does not depend on how a cost is
computed, only that it is computed once, after the answer.

`PrepaidLedger` has no handlers, no receipts and no Stripe. Money enters by
credits, leaves at most once for each request of the account, as far as the
account covers it; a waived request is never charged. `ImplementsLedger` maps a
handler to its request by `Standing`.

### WorkflowJobs

Every transition is a check and a write (`transitionTo`). State is a Go string,
address and length, written without a lock: two overlapping writes may leave a
torn string, so the write of a thread that overlapped another has `torn` as one
more outcome. `NilAnswer` is the executor's dereference of the answer that a
proxy without provider returns with a nil error: the process ends and all is
`lost`. Reads of the log by a watcher are modelled as a read of its length; the
slice header may be torn as well, which could crash the watcher's goroutine and
is not modelled.

`JobLifecycle` has no check apart from its write, no store and no log. A job moves
as `MayMove` allows, a cancel is accepted by the move or refused once the job has
ended, an outcome is attached once to the end it belongs to. A race only loosens
this: it may move its job otherwise or leave it torn. `ImplementsLifecycle` maps a
job to be racy once it has `racers`, a cancelling request to the answer its write
or its check settled (`Answer`), and checks, saves and the log to stutters.

### CompletionStream

Init is the moment after the stream was opened, on one of the two routes, or not
opened at all (a proxy without provider hands out closed channels). `select` is
a disjunction over the ready cases. `Disconnect` and `Deadline` are the client
and the timeout of the context.

`StreamDelivery` knows neither goroutines nor channels: chunks come from a source,
a client that stays gets them and is told one end, and `Done` without a finish
reason only when it has everything. `ImplementsDelivery` maps the producer to the
source (`Source`), the handler to `over`, and the two goroutines that may write at
once to `clash`, which can happen on the WebSocket route and after the source
failed only.

### P2PSessions

`closing` is the session whose closer holds the manager's mutex while it calls
the host; actions that take that mutex require `ManagerFree`. `late` and
`delivered` are the history `EndedSessionsAreSilent` needs. A peer may refuse a
dial or a stream at any time.

### ProviderRouting

`view` holds, for each request, the objects its call of `Get` handed out: "live"
while the registry has the same object, the last status once `Refresh` removed
it. `Refresh` is applied at once under the mutex, with an answer given earlier.
`raced` records ids dropped while the loop held them, and `sawHealthy` the
providers that were healthy while a request routed. The gateway pings all
providers through its one gRPC client, so all pings tell the same: whether the
core is up. Staleness, trust tier and score are a free choice of `CheckStale`;
an id that has gone is always stale. Unsynchronized reads are single steps: a
torn status is not "healthy" and excludes the provider, as some other status
would.

### RailDeposits

One rail, TAP's. TNK has a loop of its own with the same steps; its tracker is a
bare map that two loops would read and write at once, a data race, and its rail
has no `Settle`, so what is shown here holds there for a single loop only. The
two rails share nothing but the type of their store.

A transfer is mined, may lose its block in a reorganisation and be mined again,
at the same or another index; `logs` keeps every log there ever was, since the
subscription may hand over any of them again (a log that a reorganisation removed comes once
more, with a mark the loop does not read). `Receive` is the part of
`handleLogMulti` that touches nothing shared: the watched addresses, the header,
which may be `Lag` blocks old, and the test of the confirmations, with the
difference modulo `Word`. `Check`, `Credit` and `MarkProcessed` are the tracker's
lookup, the `settle` closure with its lookup of the owner and the credit, and the
mark. An early return for a price that fails is the second half of `Credit`.
`Int64` is what `big.Int.Int64` keeps of an amount and what the unchecked `+=` of
`RailStore.AddCredits` keeps of a sum, `ToCents` a price that rounds to zero.
`AddCredits` is what loops and `Settle` do to an account. The main program builds both rails and never calls `Start`; the model
takes the calls the type offers: `Start` again, once more after `Stop`, and
`Stop` once, as a second one would close a closed channel. A loop also ends with
its context, at any time.

History names the ways in which the code falls short of what one would like, and
each property says that nothing else does: `raced` the transfers that two loops
were about to credit at once, `moved` those a reorganisation took off the chain,
`undone` those it took off after they had all their confirmations, `misled` those
that a header older than the log, or the log of a block that was gone, let
through, `oversized` the accounts that got an amount no int64 holds, `late` the
loops started after `Stop` returned. `confirmed` looks at the chain and not at
what a loop saw, so `undone` excuses no credit that a loop gave too early.
`worth` and `spent` are what an account should have got and gave.

### WalletKeystore

Each process has a `PersistentService` over a `DefaultWalletService`. A creation
is `BeginCreation` (the wallet), `FinishCreation` (the keystore) under the inner
mutex, then `Bind` (keystore, metadata and the look for a file), `OpenTmp`,
`Write`, `Rename` or `RemoveTmp` under the outer one. `Unlock` holds the outer
mutex throughout; `Mnemonic`, `UnlockInner` and `Decrypt` are the three calls of
`GetMnemonic` before its save. Files are inodes: `wallet.json` and
`wallet.json.tmp` name one or none, `WriteFile` truncates the inode the name has
at that time, and a rename by another process leaves the writer with an inode
that is the wallet by now. A write may fail or be short (`Torn`), a rename may
fail. `Crash` ends a process between any two steps. The inner service sets the
wallet and the keystore one after the other while the saving calls read both
without its mutex; that is why a creation takes two steps.

The command line makes one call a process and looks for the file before it
creates; the library offers concurrent calls and has mutexes for them, so the
model makes them. What `AloneItStays` leaves out was seen while modelling: a
creation that is refused because the file exists has already replaced wallet and
keystore in memory, and the next successful `Unlock` or `GetMnemonic` of that
process saves it over the stored wallet. Loss of power (there is no fsync) and
a failing derivation of addresses, which returns before the save, are not
modelled.

### MemoryPacker

The slice is a set, as `Place` and `Optimize` sort it by address first. The walk
through the gaps is the least address among 0 and the ends with nothing in the
way (`FirstFit`). `Optimize` keeps each end and moves each start to the greatest
end before it, which is what the two assignments in the code's order do.
`stretched` and `fair` say until when the bookkeeping is right: until an
`Optimize` closed a gap, and for a budget that was installed with the use and the
room there was. `Remove` subtracts the extent, so the use may fall below zero
afterwards.

### SQLBalance

`Call`, `SelectRow` and `WriteRow` are a call and its two statements; SQLite makes
a statement atomic and durable. A failing statement changes nothing, and
`Restart` ends the calls under way and keeps the table. A restart may also strike
between a write and its answer, which to the table is the same as a call whose
answer nobody reads. `Set` stores any int64, also a negative one. `base` and
`acked` are history: the value last set and the calls acknowledged since.
`beside` has the pairs of calls that were at work on a key at once. Of such calls
a later write may erase what an earlier one did, and `LostOnlyToOverlap` says
that it takes this: the row is made of the base and of some of the acknowledged
calls, and each of the others overlapped one of these. `crossed` are the keys
that were last set in the middle of a call, whose write erases the set.

### Disputes

A request takes its dispute (`Request`), decides under the mutex
(`SetResolution`) and then reads state and time one after the other
(`ShowState`, `ShowResolvedAt`). `Review` and `Expiry` are the two things the
package offers and the gateway does not start: `UpdateState` by somebody, as in
the tests, and the expiry service. With `Review`, callers may make every
transition that `TransitionTo` allows. A resolution credits nothing. An id is
eight hex digits of a random UUID; `OpenDispute` assumes it is new, where the
store would put the dispute over the one with that id.

## 3. Runs

Each passing run checks the properties below. The type invariants are proved
(section 4), and the runs do not check them a second time.

| Run | Instance | Distinct states | Shows |
|---|---|---|---|
| `billing` | 2 requests, 1 key and the empty key, 1 Checkout session | 365,614 | `Solvent`, `UnpaidOnlyWhenShort`, `ReceiptsCoverCharges`, `StripeCreditsArePaid`, `ImplementsLedger` |
| `jobs` | 1 job of 2 steps, 2 cancelling callers, 1 watcher | 380,074 | `LateWritersRaced`, `OutcomeMatchesState`, `WatchersInOrder`, `JobsSettle`, `ImplementsLifecycle` |
| `stream` | buffer of 2, up to 5 chunks, both routes | 78,919 | `DoneMeansAll`, `EndingReachesClient`, `OutcomeHeardOnce`, `GoroutinesEnd`, `ImplementsDelivery` |
| `p2p` | 2 sessions, 2 peers, 1 send | 59,214 | `ManagedIsHosted`, `NoneHalfClosed`, `EndedSessionsAreSilent`, `CountsAgree`, `IdleSessionsGo` |
| `routing` | 2 providers, 1 request, 2 refreshes | 271,920 | `UnlistedWerePinged`, `CandidatesWereUp`, `DownIsNoticed`, `UpHeals` |
| `deposits` | 2 loops, 2 transfers, 3 blocks, 1 reorganisation, 2 deliveries | 2,807,961 | `OncePerTransfer`, `CreditedStaysMined`, `OwnersOnly`, `AccountsAddUp`, `StoppedIsQuiet` |
| `wallet` | 2 processes, 3 calls, 1 of them with another password | 679,523 | `FileWhole`, `KeyOfWallet`, `AloneItStays` |
| `packer` | 2 models of 1 to 3 MB, a memory of 5, 3 placements | 142,725 | `Disjoint`, `Counted` |
| `sql_balance` | 1 key, 3 calls, 2 of them at once | 1,094,751 | `LostOnlyToOverlap` |
| `disputes` | 2 disputes, 2 requests, reviews and expiry | 108,165 | `DecidedOnce`, `AnswerIsOwnDecision`, `NoneStaysOpen` |

The other two runs check what a document or a comment says and the code does not
do. TLC finds the counterexample; `findings` quotes the line. Further places where
code and text differ are in section 5, each with the property that bounds it.

| Run | Claim | What happens |
|---|---|---|
| `stripe_redelivery` | rail operations are idempotent | an event whose 200 is lost comes again and credits again |
| `p2p_stop` | `Stop` shuts down the host and all sessions | `Start` keeps the mutex that `Stop` waits for |

### Bounds

- Billing. `MaxInt64 = 7` keeps the wrap of `Add`: credits of 3 from a top-up
  and two deliveries of a session reach 9. Costs 0, 2 and 3 leave an account
  exactly empty, short by one, or untouched. Two requests of one key are what
  the races between admission and charge need. `MaxTries = 2` is one
  redelivery, `MaxTopUps = 1` one credit in between.
- Jobs. Two callers race each other and the executor; two steps give a log of
  four events, enough for a watcher to skip one.
- Stream. A buffer of 2 fills with 3 more chunks to come. `Cap` is 64 in the
  code, and the properties compare its length with `Cap` only.
- P2P. One session stays while the other closes; a single send meets all ways in
  which its session may end.
- Routing. `RecoverAfter = 2` stands for 3 pings in a row and still differs from
  1 and from "any". `MaxRefreshes = 2` drops a provider and lists it again; the
  program itself calls `Refresh` once. One request suffices for `CandidatesWereUp`
  as requests share nothing but the tracker, whose counts the single request
  exercises through failover.
- Deposits. Two loops are what the race between check and mark needs, and the
  second is also the one started after `Stop`. `Confirmations = 1` (12 in the
  code) and three blocks give logs with too few, just enough and, through a
  header one block old (`Lag = 1`) or a reorganisation, negative confirmations.
  `Word = 16` stands for 2^64: amounts of 7 and 10 wei lie on the two sides of
  the int64, and 7 wei are 3 cents, so that a settlement and the credits of two
  loops add up to 9 and wrap. A charge of 2 cents fits one credit and not two
  more. Two logs are two transfers or one transfer twice; two deliveries that
  pass the confirmation test repeat one of them or bring both.
- Wallet. Two calls race for the file and the third comes afterwards, with the
  other password if it is that one. Two processes share the temporary file, and
  a process may start, crash and start again as often as it likes.
- Packer. A memory of 5 with a reserve of 1 holds up to three models, so that a
  removal leaves a gap in the middle, and a 3 MB model meets free memory that is
  scattered. `MaxBelow` stops the use three megabytes below zero and `MaxAddress`
  the placements at 8, both beyond where the budget is already wrong.
- SQL. `MaxInt64 = 3` makes the second credit overflow, and `Set` stores -1 or 2.
  Two overlapping calls and a third that overlaps one of them or comes
  afterwards; keys are rows of their own, so one key meets all there is.
- Disputes. Two requests race for one dispute while the other one expires.

### Fairness, and deadlock

Safety is checked without fairness assumptions. Liveness runs use `FairSpec`,
weak fairness on the steps of goroutines that can run, which Go's scheduler
gives, and on calls of the core only where they end by themselves: a context of
60 or 120 s, the 30 s of the gRPC client's `http.Client`, 5 s of a ping. Nothing
is assumed of clients, callers, operators, Stripe or of the core's answers.

- Nothing is claimed of the end of a request. On the SSE route `sendSSEChunk`
  (`server.go:851`) writes to the connection and may wait for a client that does
  not read, and a WebSocket handler waits for goroutines that may be stuck with
  an abandoned producer; `GoroutinesEnd` says exactly when that happens.
- `GoroutinesEnd` and `EndingReachesClient` assume a client that stays reads.
- `IdleSessionsGo` and the two heartbeat properties assume the ticker, which the
  runtime provides. `DownIsNoticed` and `UpHeals` speak of a core that stays down
  or up; `Refresh` is bounded, so its last answer is followed by pings.
- `NoneStaysOpen` assumes that time passes and that a running expiry service
  ticks; the gateway starts none, so there an open dispute stays open.
- `JobsSettle` excepts the two ends the code really has, a torn state and a
  panic of the process.

Deadlock is checked in `packer`, which never stops. The other instances come to
rest when their bounded requests are over; whether somebody waits for ever is
what the liveness properties and `p2p_stop` are for.

## 4. Proofs

TLAPS proves the following for every value of the constants, from the named
assumptions on constants alone (`BillingAssumption` with `MaxInt64Assumption`,
`JobsAssumption`, `StreamAssumption`, `SessionsAssumption`, `RoutingAssumption`,
`DepositsAssumption`, `WalletAssumption`, `PackerAssumption`, `SQLAssumption`,
`DisputesAssumption`). TLC evaluates those assumptions in the passing runs.

| Module | Theorem | Property |
|---|---|---|
| `GatewayBilling_proofs` | `TypeCorrect`, `Solvency`, `Shortfall`, `LedgerRefinement`, `CreditsArePaid`, `ReceiptsMatch` | `TypeOK`, `Solvent`, `UnpaidOnlyWhenShort`, `ImplementsLedger`, `StripeCreditsArePaid`, `ReceiptsCoverCharges` |
| `WorkflowJobs_proofs` | `JobsTypeCorrect`, `LateWriters`, `Outcomes`, `InLogOrder`, `LifecycleRefinement` | `TypeOK`, `LateWritersRaced`, `OutcomeMatchesState`, `WatchersInOrder`, `ImplementsLifecycle` |
| `CompletionStream_proofs` | `Types`, `DoneAll`, `EndingReaches`, `HeardOnce`, `DeliveryRefinement`, `AbandonedLate` | `TypeOK`, `DoneMeansAll`, `EndingReachesClient`, `OutcomeHeardOnce`, `ImplementsDelivery`, `AbandonedMeansCancelled` |
| `P2PSessions_proofs` | `SessionsTypeCorrect`, `Hosted`, `ClosesWhole`, `Silent`, `Counts` | `TypeOK`, `ManagedIsHosted`, `NoneHalfClosed`, `EndedSessionsAreSilent`, `CountsAgree` |
| `ProviderRouting_proofs` | `RoutingTypeCorrect`, `Unlisted`, `Candidates`, `Tracker` | `TypeOK`, `UnlistedWerePinged`, `CandidatesWereUp`, `TrackerAgrees` |
| `RailDeposits_proofs` | `Types`, `Once`, `Confirmed`, `Owners`, `AddUp`, `Quiet` | `TypeOK`, `OncePerTransfer`, `CreditedStaysMined`, `OwnersOnly`, `AccountsAddUp`, `StoppedIsQuiet` |
| `WalletKeystore_proofs` | `Types`, `WholeAlways`, `KeyAlways`, `Stays` | `TypeOK`, `FileWhole`, `KeyOfWallet`, `AloneItStays` |
| `Standalone_proofs`: packer | `PackerTypes`, `NoOverlap`, `Footprint`, `UseIsCounted` | `PackerTypeOK`, `Disjoint`, `ExtentIsFootprint`, `Counted` |
| `Standalone_proofs`: SQL | `SQLTypes`, `LostUpdates` | `SQLTypeOK`, `LostOnlyToOverlap` |
| `Standalone_proofs`: disputes | `DisputesTypes`, `OneDecision`, `OwnAnswer` | `DisputesTypeOK`, `DecidedOnce`, `AnswerIsOwnDecision` |

No run checks the type invariants, `AbandonedMeansCancelled`, `TrackerAgrees` and
`ExtentIsFootprint` again: their proofs cover the instances.

The arguments:

- *Billing.* The invariant is `TypeInv /\ Solvent /\ Admission /\
  UnpaidOnlyWhenShort`. `TypeInv` adds to the types that a session which exists
  carries a positive amount, without which a credit could not be typed.
  `Admission` ties each request to its place in the handler: nothing was taken
  before the charge, and what it saw plus what had been charged by then is at
  most what its account was credited. `UnpaidOnlyWhenShort` is not inductive
  without it, as the step that charges sees the balance then and not the one at
  admission. The refinement shows that each step is a credit, an opening, a
  charge, a waiver or a stutter of the ledger. `StripeCreditsArePaid` is inductive
  with the types. `ReceiptsCoverCharges` needs `Receipted`, which says at which
  step a receipt is there and what stands in it, and `NobodyCreditsNoKey`: the
  empty key never holds money, so an anonymous answer is never charged.
- *Jobs.* `TypeInv` adds that the length of the log follows the executor
  (`LogFollowsExecutor`), without which it could outgrow its type.
  `GoneTogether` says a panic ends all goroutines at once. `RaceInv` says
  whoever has checked and not written an ended job is in `racers`, and that a
  result or an error the executor has yet to write fits the state. `WatchOrder`
  bounds what a watcher sent by the length of the log, which only grows, and by
  its cursor whenever it polls: what comes next lies beyond. The refinement
  needs `Lawful`: whoever has checked and not written is a racer, or its write
  is still a move the state allows. A write by somebody alone is therefore a
  move of the lifecycle, and any other one is excused by its race.
- *Stream.* `Closing` reads off the producer's step what is closed. `Flow` counts
  chunks: delivered, in the channel and in hand add up to what the core sent, on
  the SSE route exactly. `SseEnding`, `Leaving` and `LastWord` follow the end on
  each route, and `OneError` the single error from its channel to the one
  goroutine that hears it. For the refinement, `Reach` says that nobody writes
  once the handler is through, that an error is told once, and, chunk by chunk,
  where everything is that a WebSocket client has not got yet.
- *P2P.* `Tables` adds to the two properties what a closer holds while it has
  the mutex (`Locked`) and that an opener registered with the host before it
  inserts (`Opened`). `Silence` follows a late send: its session has left the
  manager for good, so its first step fails. The two counts of a session differ
  by the number of sends between them, a cardinality that each step changes by
  one on the side it counts.
- *Routing.* `Pings`: whatever the loop holds is listed or was dropped under it,
  and a listed provider is in the registry. `Seen`: a request has seen healthy
  every candidate and every object of its view that it would still find healthy,
  also one frozen by `Refresh`. `Trying` ties the attempts of a request to its
  step, so that an attempt is recorded for a provider not yet tried.
- *Deposits.* `OncePerTransfer` is not inductive: it says nothing of a loop that
  is about to credit. `Clean` says such a loop's log was never credited, `Marked`
  that a credited log is marked or about to be, `Alone` that two loops past the
  tracker with one log are known as rivals, `Steady` that a transfer that was not
  reorganised has one log. `InHand` and `WatchOwned` give the owner that the
  credit needs, `PaidLogged` that only logs are paid. `CreditedStaysMined`
  compares a credit with the chain long after the test that led to it. `Buried`
  says that a transfer with its confirmations is recorded as such, and `HeldFirm`
  and `PaidFirm` that a transfer in a loop's hand or paid is still confirmed
  where it is, or was undone, or misled its loop. `AccountsAddUp` is inductive
  with the types: a sum in the range of the int64 is kept, and what is spent is
  bounded by what is there (`AddCreditsAddsUp`).
- *Wallet.* `Ready` says what each step may rely on and who holds which mutex.
  `Matching` and `Saved` follow the pair of wallet and keystore from memory to
  the file, up to the overlaps `Beside` and `Makers` describe. `Fresh`, `OneSaves`
  and `Whole` say that without an overlap a save works on an inode of its own.
  `Names`, `OneOwner`, `Peace` and `Acknowledged` reduce `AloneItStays` to one
  process: keystores are never read from disk, so one creation means one saver.
- *Packer.* `Disjoint` is inductive with the types, which say each placement has
  an extent: an address of `FirstFit` is clear by definition, and `Optimize` moves
  a start to the greatest end before it, which passes no other placement.
  `Counted` compares the use with a sum over all placements. A fold cannot be
  reasoned about by induction on an operator here, so the proof unfolds it and
  shows that a sum over a finite set is that of one element and the rest, with the
  smallest counterexample in the place of induction; `Finite` says the sum exists.
- *SQL.* `MadeOf` takes a value apart: a base, some acknowledged calls, and for
  each of the others one of these that it overlapped. `RowMadeOf` says so of the
  rows; `ReadMadeOf` says so of what a call has read, where what it lacks may
  overlap the call itself, and that it does is `WorkBeside`: calls at work on a
  row at once are known to overlap. So the write of a call makes a row of what it
  read and its own entry. `AckedEnded` keeps that entry apart from those there,
  and `ReadEnough` keeps differences in the int64. Sums over sets of entries and
  of footprints are one function with weights.
- *Disputes.* `Found` says a request past its lookup has a dispute that exists.
  `Stamped` says an ended dispute has its time, which `Shown` carries into the two
  reads of the answer: a decision is terminal, so nothing changes between them.

Only model-checked: the liveness properties (`JobsSettle`, `GoroutinesEnd`,
`IdleSessionsGo`, `DownIsNoticed`, `UpHeals`, `NoneStaysOpen`), as fairness and `ENABLED` are beyond the prover. Every safety property and every
refinement the passing runs check is proved. The proofs of the refinements are
about `Spec`, without fairness: what the abstract specifications promise is
safety.

## 5. Not modelled, and what was noticed

Where the code falls short of a text, and the property of a run that says when:

- Jobs. `jobs/job_test.go:113` tests that no transition leaves a terminal state.
  A cancel checked before the job ended and written after it does
  (`LateWritersRaced`: only such a race can; `ImplementsLifecycle` says all a
  race can do). An event stream reads the log again for its cursor after it sent
  what it read before; an event appended in between is never sent, so
  `WatchersInOrder` promises order and no repetition, and not every event.
- Streams. A producer whose reader left while the channel was full never ends
  (`GoroutinesEnd`: only then), where the roadmap has it stop on disconnect.
- Wallet. A new process attaches the metadata of the stored wallet and not its
  keystore, so `Unlock` answers `ErrNoWallet` (`wallet.go:385`), whatever the
  password. A refused creation has replaced the wallet in memory, and a later
  `Unlock` saves it (`AloneItStays`: only after a second creation).
- Packing. `Place` (`packer.go:130`) accepts a model whose footprint the free
  memory covers altogether and no gap does, and places it beyond the end of the
  memory. `Optimize` (175) computes the end of a placement from the start it has
  just overwritten; the extent grows, `Remove` gives back too much, and `Place`
  overcommits (`Counted`: only from then on). The specification has packing fit
  the memory and its budget.
- SQLite. Of two overlapping calls on a key the later write erases the earlier
  (`LostOnlyToOverlap`: only then), and a call erases a `Set` that came in its
  middle. A balance goes negative by a sum that wraps or by a negative `Set`.
- Deposits. A header older than the log makes the unsigned difference of
  `tap.go:179` huge, and a log that a reorganisation removed comes again without
  its mark being read (`tap.go:149`): either credits a transfer that is not on the
  chain (`CreditedStaysMined`: beyond these, only when confirmations were undone).
  An account wraps beyond an int64 (`rail.go:90` of `balance`; `AccountsAddUp`).
- Disputes. `GetDispute` puts its answer together outside the mutex and may show
  an open dispute with a time of resolution; the answer to a decision cannot go
  wrong in this way (`AnswerIsOwnDecision`). In the gateway nobody reviews and
  nothing expires, so each request to resolve an open dispute is refused.

Not modelled:

- The tracker's exclusion: `health.go:22` says the tracker drives the exclusion
  decisions of `RouteAll`, and the roadmap marks it done. `RouteAll` never asks
  the tracker. The latency score is never updated either.
- `HeartbeatLoop.Start` and `Stop` are not safe against each other (`Stop` reads
  `stoppedCh` after the unlock). The process calls each once.
- Admission by concurrency limit and the count of active requests
  (`registry.go:252-290`) have no caller.
- Pricing: the market has no caller outside its tests. Read, not modelled:
  `PriceFor` reads the statistics without the mutex; the ticker publishes the
  epoch on its clock, so requests that follow are in no published state;
  `LockPrice` for a session that has a price gives it another one; `market.go:201`
  turns dollars per 1,000 tokens into cents per 1M tokens with a factor of 10,000,
  which is 100,000; the capacity is estimated from the demand and exceeds it, so
  the premium for a utilization above one is never reached.
- Trust tiers: the gateway makes no trust store, so its router lets every provider
  pass (a free choice in `ProviderRouting`). Read, not modelled: a slash resets
  the tier to the value that means "none yet", so a later enrolment raises it
  again; `SetEconomicTrust` replaces the object that has the slash flag; nothing
  reads the cache of verified quotes.
- Quota: the gateway never calls the setter of a quota store. The SQLite quota
  reads and writes as the balance does, and `SQLBalance` stands for both hazards.
- SQLite receipts are inserted once and read.
- P2P `Receive` waits on a channel that no path makes, and the message router
  therefore drops every message; the bridge has no caller; discovery is calls of
  the DHT without state of its own.
- `OptimalPlacement` plans from an empty memory whatever is placed, and reads the
  budget without the mutex; it stores nothing.
- A TAP log taken before it has enough confirmations is dropped, and only a second
  delivery brings it back (`tap.go:180`); no text promises one.
- TAP `CheckDeposit` reads the chain and stores nothing; `handleLog` has no caller.
- The token counter, the task distributor and the workflow engine are arithmetic
  on one message, a table without a caller and a library of pure steps.
- Cryptography (signatures, key derivation, TPM quotes), generated protobuf
  code, chain and DHT I/O, the dashboard and the command line.
- `.agents/skills/comet/scripts/comet-hook-router.mjs`: a minified bundle of an
  editor tool vendored beside the program, no part of it.
- Restart of the gateway: nothing is persisted, so a restart is a new `Init`.

## 6. How the project grew, and what could follow

The order was that of the money: the balance and what is charged to it, then the
components whose goroutines share state with it (streams, jobs, P2P sessions,
providers), then what credits it (rails) and what holds keys (the wallet), and at
last two packages the gateway does not construct yet (packer, SQLite store) and
the disputes. Proofs followed in the same order, and last came the two
abstract specifications of streams and jobs.

Were the parts that stand alone today wired into the gateway, the models to write
next would compose them: `SQLBalance` under `GatewayBilling`, whose concurrent
handlers would meet the lost update; a trust store in `ProviderRouting`, in the
place of the free choice of `CheckStale`; a resolution of `Disputes` that credits
the ledger; the market, once its prices reach the cost of a request. Today no
code joins them, so no model does.
