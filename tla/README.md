# A TLA+ verification of ig-client

ig-client is an asynchronous Rust client for the IG Markets REST and Lightstreamer
APIs. This directory holds TLA+ modules translated from its source, TLC configurations
that check them on small instances, and theorems about them, with proofs, for every
value of their constants. Paths below are relative to the repository; `http.rs`,
`auth.rs`, `client.rs`, ... are the files of `src/application/`.

- [Inventory](#inventory): the parts of the system and what makes each correct
- [Plan](#plan): modules, runs and theorems, done and to do
- [The modules](#the-modules): how each corresponds to the code
- [The runs](#the-runs): what each checks, its bounds and its fairness
- [The theorems](#the-theorems): what is proved and how
- [Where code and documentation disagree](#where-code-and-documentation-disagree)
- [What is not modelled](#what-is-not-modelled)

`PROJECT.json` holds the same in tabular form: components, runs, the mutated definitions
that show each property can fail, the source lines of every definition, the hazards and
the theorems.

## Inventory

### Request pipeline and API-key pool (`http.rs`, `src/model/retry.rs`)

State: `HttpClient` holds a pool of `KeySlot`s, one per configured API key. A slot has an
`Auth` (the session of that key), a `RateLimiter` (its buckets) and the instant its
cooldown ends. Shared across requests: `primary` (the slot trading and streaming use) and
`cursor` (round robin), both atomics, and `selected`, the account in force with its
account-wide bucket.

Operations: a request is classified by verb and path (Trading, Historical, NonTrading),
given a policy (orders and percent-escaped mutations are sent once), and then looped:
`reserve_slot` picks a key and takes a token of its bucket, `request_on_slot` resolves
the session, takes a token of the account and sends; the answer ends the request, rotates
it to another key (allowance of the key spent), refreshes the session and replays on the
same key (401), or retries in place (429, 5xx).

Hard: the selector awaits on logins, buckets and timers while other requests park keys,
promote a primary and refresh sessions; the primary is read, judged and stored in steps.
Three repetitions nest, and the innermost sends the token of its first attempt again. Correct means: an order is
never placed twice, the repetitions do not multiply, each physical send is paid for, a
key that refused is left and one that did not is kept, every request ends.

### Session management (`auth.rs`, `src/model/auth.rs`)

State: one `RwLock<Option<Session>>` per key. Operations: `get_session` (log in when
there is none or it is in its refresh margin), `login` (v2 or OAuth), which then moves a
v2 session to the configured account with `switch_account`, `force_refresh`, `logout`.
No lock is held across a network call and nothing makes a login single-flight, so any
number of logins, switches and logouts overlap and the last write wins. Correct means: a
session never names an account it is not served on, the account a login happened to land
on is never left behind, and no call chases its own tail through login, switch and
get_session.

### Account switch (`http.rs` with `auth.rs`)

`HttpClient::switch_account` moves the v2 session at IG, or under OAuth only the client's
own choice, and then replaces account and bucket under one lock. Correct means that the
session and the selected account agree and that a request pairs one account with its own
bucket.

### Dynamic market streamer (`dynamic_streamer.rs`)

State shared by clones: the EPIC list, `is_connected`, a generation counter, the pair of
`Notify`s (shutdown, stopped) of the latest connection, and per connection a task and a
forwarder. Operations: `add`, `remove`, `clear`, `start`, `connect`, `disconnect`. A change
of the list on a connected streamer signals the old connection, waits at most a grace for
its confirmation, and opens a new one. Hard: the connection's task and callers race on
`is_connected`; a permit may be given before the wait for it begins, or to another waiter;
opening may fail; the grace may expire. Correct means: one connection runs, the one a later
call can stop, subscribed to the list; operations return; a stopped streamer falls silent.

### Quote streamer (`quote_streamer.rs`)

One mutex over a session (idle, open, closed) and an LRU map of subscriptions with a cap.
`quote` waits for the first update, into which later ones are merged; an entry whose task
ended is retried; a dead session is reopened; the least recently used entry is evicted by aborting
its task; `close` signals, joins the tasks and disconnects. Correct means: the cap holds,
the instruments in use are kept, every task has somebody who will stop it whatever fails,
nothing runs after close, close returns.

### Streamer client (`client.rs`, StreamerClient; `interfaces/listener.rs`)

One Lightstreamer session, opened by the first subscription, a converter task per
subscription, a shutdown signal. `connect` waits for the end of the session or a signal,
`disconnect` signals, joins the converters and closes the session; a caller may give any of
these up at an await, or drop the client. A `Listener` pumps a stream into a callback. Hard:
a call that was given up half way and made again. Correct means: no converter outlives its
client unnoticed, a session is closed only when its converters have unsubscribed, one
session's signal stops no converter of the next, a callback hears each update once.

### Client service operations (`client.rs`, `src/application/interfaces/`)

Most are one request each, and what matters is what the request's policy lets happen when
answers are late or lost. Control of their own: the paging of categories and of account
histories, the enrichment of a market list a few requests at a time, the polling of a deal
confirmation. Correct means: nothing is ordered twice, a list that is returned is complete,
entries that shift between pages are not lost, polling backs off and ends.

### Rate limiter (`rate_limiter.rs`)

Three `governor` buckets per key, whose quotas are derived from the configuration, and one
bucket per account, shared by the clients of a process. Correct means: zero values never reach
`governor`, and rounding never exceeds the promised rate.

### Client setup and configuration (`config.rs`, `http.rs`)

`Config::new` reads the environment; `HttpClient::new` builds a slot per key, finds the
account's bucket in the registry of the process and logs in on the first key that is not
exhausted. Every slot's `Auth` takes the same bucket for its logins and keeps it when the client
switches its account. Correct means: keys are tried in order, none is skipped, clients of one
account share its bucket and clients of two do not.

### Hierarchy walk and storage (`market_hierarchy.rs`, `src/storage/`)

A recursive walk of the navigation tree under a bound on the depth; flattening,
deduplication and replacement of the stored tree in one transaction of batches under foreign
keys; upserts of filtered markets, of prices (with the upgrade of their table) and of
transactions. Several services use one database. Correct means: what is stored is one tree as
a whole, an upgrade that stopped half way is finished by the next, storing twice is storing
once, and what a call reports is what it did.

### Streaming conversion, types, utilities

`streaming_convert.rs`, `src/model/`, `src/presentation/`, `src/utils/`: how the fields of an
update become a record, and a record JSON and back; the orders that constructors make; the
netting of positions; the expiry and the instrument of a transaction. No concurrency; a
long sequence (updates merged into a quote, positions netted, orders rounded) or an odd
value is what a test would miss. The rest is immutable records and derived serde code.

### How they interact

Client operations call the request pipeline; the pipeline calls the `Auth` of the slot it
is on and the rate limiters of slot and account; `Auth` sends its own requests through the
pacing of the same limiters but not through the pipeline, so a 401 inside a login does not
re-enter it. Streamers take their Lightstreamer credentials from the primary's session when
they are opened. Storage and the hierarchy walk use the client and nothing uses them; the
services share the HTTP client and the database pool, and no state of their own.

## Plan

Order is by how much of the system's behaviour rests on a part.

| # | Module | Contents | State |
|---|--------|----------|-------|
| 1 | `RequestPool`, `RequestContract` | the request pipeline; the contract it implements | modelled, checked, proved |
| 2 | `DynamicStreamer` | the market streamer with its connection tasks | modelled, checked, proved |
| 3 | `AccountSession` | v2 sessions under login, switch, logout; the selected account | modelled, checked, proved |
| 4 | `QuoteStreamer` | subscriptions under a cap, eviction, reopening, close | modelled, checked, proved |
| 5 | `StreamerClient`, `StreamListener` | one session, converters, shutdown; the pump of a callback | modelled, checked, proved |
| 6 | `MarketCatalog`, `TransactionSync`, `DealConfirmation`, `ClientOperations` | the operations of `Client` | modelled, checked, proved |
| 7 | `MarketHierarchy`, `MarketDatabase`, `FilteredMarkets`, `PriceStore` | the walk and the stores it and others fill | modelled, checked, proved |
| 8 | `RatePacing`, `ClientSetup` | quotas and buckets; keys, buckets of accounts, first login | modelled, checked, proved |
| 9 | `OAuthSession` | v3 tokens, their margin, the account chosen | modelled, checked, proved |
| 10 | `StreamUpdates`, `WireValues`, `PositionNetting`, `TransactionExpiry`, `OrderRequests`, `InstrumentNames` | what is made of data | modelled, checked, proved |

`ClientServices` composes modules 5 to 10 (`DynamicStreamer`, `QuoteStreamer`, `AccountSession`
and `RequestPool` are checked by themselves). The abstract specification is
`RequestContract`.

Every safety property of a run is proved (see [the theorems](#the-theorems)). Left to do: a
*subscription set* that `DynamicStreamer` and `QuoteStreamer` both implement.

## The modules

### RequestPool

| TLA+ | Code |
|------|------|
| `ready[k]` | `Auth::has_ready_session` of slot k |
| `left[k]` | the rest of `KeySlot::cooldown_until`, in ticks |
| `primary`, `cursor` | the atomics of `HttpClient` |
| `call`, `tried`, `replayed`, `replay_on` | arguments and locals of `request_internal` |
| `start`, `offset`, `waiting`, `wake` | locals of `reserve_slot`: scan, keys in `select_all`, sleep |
| `slot`, `attempt` | the slot and the attempt of `make_http_request_paced` |
| `seen` | `current` in `promote_primary_if_needed`: the primary it has read |
| `held`, `charged`, `sends`, `refused` | history: tokens in hand, sends, keys that refused |
| `proved` | history: keys that have logged in |

`Begin` is the call. `SelectPrimary`, `ReservePrimary`, `PrimarySession` are the trading
branch of `reserve_slot`; `SelectSlot`, `Pass1`, `Pass2`, `Login`, `Wait`, `Wake`, `Race`,
`Won` the other one, `Replay` the pinned replay. `Promote`, `Judge` and `Move` are
`promote_primary_if_needed`, which works on the atomic without a compare-and-swap: the primary
is read, the key that was read is judged, the new one is stored, and other requests run in
between; `HandOut` is the return of the selector after it. `OnSlot`, `Charge`, `Send`, `Answer`,
`Retry` are `request_on_slot` with `make_http_request_paced`; `Settle` is the match of
`request_internal` on what they return, and `Refresh` its `force_refresh`. `Tick`, `Lapse`
and `LoginPrimary` are time, expiry and the client's own login.

A step runs from one await, or access to the primary, to the next. Two passes over the pool are one step per key,
because other requests run on other threads meanwhile. A bucket grants or refuses freely:
every refill pattern of the real limiter is among those behaviours, and no property here
depends on when it refills. What `get_session` of a key reports is free unless its session
is ready.

`RequestContract` is what a caller may rely on: on the wire only while the request is open,
and not more often than its kind allows. `ImplementsContract` instantiates it with
`open` := not idle, `allowed` := the budget of the call, `sent` := `sends`.

### DynamicStreamer

| TLA+ | Code |
|------|------|
| `epics`, `is_connected` | the fields of that name |
| `latest` | the connection of the latest `generation` |
| `current` | the connection whose `Notify` pair is stored |
| `state[s]`, `subs[s]` | a connection: opening, `connect()`, `disconnect()`, about to clear the flag, forwarder ending; its EPICs |
| `signalled[s]`, `stopped[s]` | the permits of its two `Notify`s |
| `pc`, `mine`, `clearing` | where a caller waits, on which connection, whether in `clear` |
| `past` | history: operations overlapped, a grace ran out, or a connection was claimed while an older one was about to clear the flag |

`Add`, `Remove`, `Clear`, `Start`, `Disconnect` run up to their first wait, `Reconnected` is
the end of the handshake (confirmed or the grace over), `Opened` the end of
`start_internal`'s network calls, failed or not. `ShutDown`, `Lost`, `Check`, `Report`, `Confirm`
are the connection's task: the check of the generation and the awaited write of `is_connected`
are two steps. `connect` blocks on the same signals a task waits on and changes
nothing else. A generation number only tells which start is the latest, so the latest start
itself stands for it, and connections that nobody refers to are reused.

### AccountSession

| TLA+ | Code |
|------|------|
| `session`, `fresh` | `Auth::session` and whether it is outside its refresh margin |
| `selected` | `HttpClient::selected`: the account, and with it its bucket |
| `served[t]` | IG's side: the account a token is served on, none when dead |
| `pc`, `op`, `target` | where a task waits, its operation, the account it switches to |
| `logging_in` | it is in `login`, between storing the session and the end of the account selection |
| `mine`, `new`, `bucket` | its copy of a session, the token of IG's answer, the bucket it draws on |
| `past` | history: operations overlapped, or a login followed a switch |

`Request`, `ForceRefresh`, `Switch`, `Logout` begin an operation. `GetSession` is
`get_session` with `refresh_token`, `Login` POST /session and the store, with
`ShouldSwitchAccount` (no account is selected where none is configured, `Unset`), `Select` the
`get_session` inside the switch that a login makes, `Put` PUT /session, `Switched` the store
after it, `Adopt` the end of `HttpClient::switch_account`, `Send` the request with its 401
refresh, `Revoke` DELETE /session and the clearing. `Resume` returns a session to whoever
asked for it. `Expire` and `Invalidate` are the clock and IG.

The CST and X-SECURITY-TOKEN pair is one token. A lost answer to the PUT, and an answer
without tokens, are outcomes of `Put`. That IG issues a new token with a switch and ends
the old one is what `switch_account` and the comments of `request_internal` (http.rs:930)
rely on; it is external. A login inside a login (another task logged out in between) is
collapsed with its caller: it ends in the same stores.

### QuoteStreamer

| TLA+ | Code |
|------|------|
| `state`, `entries`, `lock` | the tuple behind the mutex of `Inner`, and who holds it |
| `last_used` | the order of `Entry::last_used`, least recent first |
| `events`, `events_told` | the session's event task (its end is `alive` turning false); the signal reached it |
| `task[t]`, `told` | a subscription's task: running, aborted, ended; the signal reached it |
| `pc`, `asked`, `joins` | where a caller waits, for which instrument, for which tasks |
| `since`, `raced` | history: instruments asked for during a wait; a close overlapped a request |

`Quote` calls; `Take` is `subscription` from the mutex to its next wait: `Refuse` (closed),
`Reopen` (the session ended: abort what is left of it), `Find` (a live entry), `MakeRoom`
(evict, then subscribe). `Opened` is `open_session`, `Subscribed` the subscribe request and
the new task, both of which may fail, `Answered` the end of the wait for a quote. `Shutdown`
is the signal of `close`, `CloseLocked` the emptied map, `Closed` the joins and the
disconnect. A `watch` receiver sees only what is sent after it subscribes, so the signal
reaches the tasks that run when it is sent. An aborted task runs until the runtime drops it
(`Unsubscribe`). Task numbers that nothing refers to are reused.

### ClientServices

What is built on `Client`, composed: a behaviour is that of one service (`service`), because
services share only what they see succeed or fail. Its modules keep their own state, and
their promises stand at the end of each; `ClientServices` conjoins those of one kind.

**StreamerClient.** `client`, `alive`, `watched` are the session, whether it runs, and which one
`connect` watches; `task[t]` a converter (its session, where it is, whether its receiver is
there); `converter_tasks` the `JoinHandle`s, `told` the signal, `detached` handles that went with
a given-up call. Each operation is cut at its awaits (`Subscribe`, `SessionOpened`, `Subscribed`,
`SubscribeFailed`; `Disconnect`, `Joined`, `SessionClosed`); `Cancel` drops the call at any of
them, `DropClient` the client. `Convert`, `Stopped`, `StreamEnds`, `Rejected` are the converter.
**StreamListener**: `PumpEvent` with `OnItemUpdate`, `PumpClosed`, `PumpStopped` are the branches of
the pump's `select!`, `events` the queue of the library.

**OAuthSession.** A token has what IG still grants (`lives`) and what the client believes
(`keeps`), counted down together by `Elapse` and `Sleep`; the first may have run for up to `Delay`
when the answer comes (`late`). `Want`, `Get`, `Refresh`, `LoggedIn`, `LoginFails` follow one task
to a session; `Prepare` builds the headers, once; each attempt is `Dispatch`ed when the buckets let
it pass and ends in `Served`, `Unauthorized`, `AttemptFails` or `RetryLater`, after which the same
token goes out again when the backoff (`pause`) is slept out. `waited` is the time since the
session was read, which nothing relates to the margin. `OthersLogin`, `OthersLogout`,
`OthersSwitch` are what the others do to the session and to the chosen account at any moment.

**ClientOperations.** Every method of the service traits with its verb, its kind of path and the
policy it asks for; `Policy` is what the HTTP client makes of it, `Exchange` IG's side (done or
not, and which reply comes back), `Repeat` a retry, a rotation or a replay, `Return` the end.
**DealConfirmation**: the poll with `backoff_delay` in integers of `Width` bits. **MarketCatalog**:
`PageAnswered` is one answer to the next request, in which IG may name another page or size;
`Start` and `Detailed` are the buffered details, a few at once and in any order.
**TransactionSync**: `Post` is IG inserting an entry anywhere in the history between two pages;
the rows are then stored one by one in a transaction.

**MarketHierarchy** turns the recursion into a stack of the answers being worked through.
**MarketDatabase**: `Script` is the refresh as its statements, a deletion per table and the
batches of the deduplicated rows in the code's order; `Run` carries one out under READ COMMITTED
(`snapshot`, `written`, row locks, foreign keys at its end). **FilteredMarkets** upserts
market by market in the order of the recursion. **PriceStore** is the upgrade as its seven
statements, each committed on its own, by processes that begin together and stop anywhere,
and the upsert of a batch.

**RatePacing**: `Bucket` derives interval and burst of each class from the configuration; `Admit`
is the cell-rate algorithm of `governor` (external) with `tat`. **ClientSetup**: `BuildClient` with
`LoginAccepted`, `LoginExhausted`, `LoginRefused` is `HttpClient::new`, slot by slot; `Registered` the
registry of account buckets; `SelectAccount` the later switch, which replaces the bucket of
requests (`bucket`) and not that of the slots' logins (`session_bucket`).

**StreamUpdates**: a kind of subscription has a field of each class (number, choice, text);
`Receive` is one update with IG's item state and the fields that changed, `Converted` the record,
with the default record where a field cannot be read, and `Merged` what a quote keeps.
**WireValues** reads a field from JSON, writes it and reads it again. **PositionNetting** nets
positions one after the other as `+` does. **OrderRequests** builds orders (`NewOrder`,
`WithStopLoss`, `WithTakeProfit`, `Expires`) and places them with IG (`Meets`, external).
**TransactionExpiry** and **InstrumentNames** are `parse_period` on the calendar and
`parse_instrument_name` on the parts of a name.

## The runs

| Run | Instance | States | Shows |
|-----|----------|--------|-------|
| `request_pool` | 2 callers, 2 keys, 1 retry | all safety of the pipeline | nothing sent twice, unpaid, or on a refused key; keys left for one reason; the primary moves only to keys that have logged in |
| `request_returns` | 1 caller, 3 keys, every kind of request | contract, liveness | the pipeline implements `RequestContract`; every request ends |
| `dynamic_streamer` | 2 callers, 2 markets, 3 connections | 484,746 | one running connection, known and stoppable; operations return; silence after a stop |
| `account_session` | 2 tasks, 3 accounts, 4 tokens | 313,385 | sessions tell their account; no landing account left; none sent on but what another's unfinished login has stored; operations return |
| `quote_streamer` | 2 callers, 3 instruments, room for 2 | 146,620 | every task owned, the cap, eviction by use, silence after close; calls return |
| `services` | each of 19 services in turn | 125,403 | calls return; the walk, the catalogue and the stores tell the whole truth; nothing is placed twice; pace kept; converters owned; tokens and records right |
| six violation runs | | | see [below](#where-code-and-documentation-disagree) |

The `services` run in its parts: `WalkTells` (three navigations: a tree, a node under two parents,
a cycle; any request may fail), `WholeRefresh` and `RejectedForRepeats` (two services, one or two
exchange names, four trees of up to four rows in batches of two), `CatalogTells` (two
categories, three pages of two), `EffectsOnce` (every operation, three sends), `StoresTell` (a
history that grows to four entries, five databases to upgrade by two processes, two writers of
markets in opposite orders), `PausesKept` (5-bit backoff, four budgets, two clients of two
accounts), `ConvertersOwned` (two sessions, two subscriptions), `TokenServes` (lives of one and
three seconds, a margin of one, answers a second late, two seconds of waiting, one retry after two
more: tokens run out in hand), `RecordsTell` (updates, callbacks, codecs, every month of four years, names,
two orders), `NettingTells` (three positions), `CallsReturn` for all of them.

**Bounds.** *Keys.* With two keys a request can rotate, replay, run out of candidates and
find all of them parked; the third key of `request_returns` is there for a rotation after a
rotation and for a choice of the key to wait on. *Callers.* Two, one pinned to the primary
and one that rotates, are what the shared `primary`, `cursor`, cooldowns and sessions need to
be changed under a request; every property is about one request, or one session, and what
others do to it. *Retries and cooldown.* One retry tells a budget from none, a cooldown of
one or two ticks tells parked from free and one parked key from another. *Connections.* Three:
one that closes while two overlapping operations open theirs. `Free` keeps an operation from
beginning when the bound would make it wait. *Tokens.* A token nothing refers to is reused, so
four tokens (the cached one, one in the hands of each task, and the one IG answers with)
never run out and histories are not cut. *Instruments.* Three with room for two: the least
number in which evicting by use differs from evicting the other one; three subscription tasks
are the one kept, the one being opened and one still being dropped.
*Accounts.* Where login lands, the configured one and one to switch to: the smallest set in
which all three differ. *Services.* Pages, batches and rows of two make every list cross a boundary,
one page limit fits and one does not; a batch of two puts a child in the batch after its
parent's; two clients, processes and writers are the fewest that interleave; two sessions and
two subscriptions let a late signal meet the next session; the widths of the counters are small
so that they overflow within the run; three marked positions turn a direction and turn it back.
Each service has its own constants, so that the size of one does not bound another.
The theorems hold without any of these bounds.

**Fairness.** In `RequestPool` weak fairness of every caller's step and of `Tick`: tokio polls
a task that was woken, timers fire, buckets refill. That IG answers or the connection breaks
is an assumption about the environment: the code bounds no network call (`transport_builder`
sets no timeout, `RestApiConfig::timeout` is read from the configuration and applied nowhere,
and doc/MUTATION_REQUEST_POLICY.md:68 says so). Starting a request is not fair, nor is what
IG answers: `RequestReturns` holds if IG answers 429 for ever. In `DynamicStreamer` weak
fairness of the wait (the grace ends it), of opening and of the connection tasks' own moves,
none of `Lost`: a session need not break. In `AccountSession` weak fairness of every task's
step. `OperationReturns` there excepts runs in which sessions keep being lost, because a
logout or expiry between every login and its account selection makes each login start
another: the code has no bound on that. In `QuoteStreamer` strong fairness of the mutex (tokio
serves its waiters in order), weak fairness of network calls and waits for a quote, of a task
that was told to stop and of dropping an aborted one; none of sessions or subscriptions ending
by themselves. `OperationReturns` there excepts runs in which a close met a request for a
subscription, which `close_returns` shows may hang. In `ClientServices` weak fairness of what ends a
call (`Answering`: an answer or an error comes) and of what a process, a writer or a converter
goes on with by itself, none of calls, updates and failures. What is told to stop has strong
fairness (`TaskStopped`): tokio's `select!` picks among ready branches at random, so a stream that
is never dry cannot keep a task from its signal for ever. `CallsReturn` is stated per process
(`Unfinished`), and for the streaming client of what must end: a disconnect, a `connect` whose session
is gone, the converters of a client that was dropped.

**Liveness of two callers.** `RequestReturns` is checked with one caller over three keys:
what other callers do to it (sessions that lapse, keys that are parked) is present through
`Lapse` and the initial cooldowns.

**Deadlock** is checked where callers can always begin another operation. `services` and
`never_rejected` do not check it: a transaction that was converted, a tree that was walked or a client
that was dropped has nothing left to do.

**Histories.** `RunningIsCurrent`, `ConnectedIsTrue`, `FallsSilent` and `AccountInForce` hold
of operations that do not overlap and say so through `past`; what overlap does to the
streamer and the account is in the violation runs. The first three (`Orderly`) also except that a
connection is claimed while an older one's task stands between the check of its generation and
its write of `is_connected`: then a connection may run that is reported as disconnected
(see [below](#where-code-and-documentation-disagree)). All other properties hold of every
interleaving.

## The theorems

`RequestPoolProofs` proves each safety property of `RequestPool` for any number of keys and
callers, any retry budget, cooldown and workload. The only assumption is `PoolAssumption`
(at least one key, a cooldown that lasts). The properties are not inductive: that a request
never returns to a refused key rests on what the selector holds in hand, and the budget of
sends on how many keys were left. `RequestInv` is typing, `LoginInScan` (a login of pass 2 has
a candidate) and, for each caller, one part per idea:

- `IdleInv`: no request, no trace of the last one;
- `PinInv`: a pinned replay is on the slot that was refreshed, and is the only one;
- `SelectInv`: in the selector, the keys tried are those that refused, and one is left;
- `CandidateInv`: what is about to be handed out was not tried;
- `KeyInv`: on a key, all the other keys tried have refused;
- `SingleInv`: what is sent once is never refreshed or replayed;
- `PaidInv`: the tokens in hand;
- `CountInv`: sends are bounded by keys left, attempts and the replay.

A step of one caller leaves the other callers' locals alone (`StepIsLocal`), so each part is
shown for the caller that moves, by groups of actions. The parts give the seven safety
theorems, and `Implements`, the refinement of `RequestContract`: `CountInv` bounds each
`Send`, and `IdleInv` says that a new request starts from nothing. `PrimaryIsProved` has an invariant
of its own (`ProvedInv`): a key with a session has logged in, and so has the one a promotion holds,
which is why the store of a late promotion moves the primary to a key that works or worked,
however it interleaves with others.

`AccountSessionProofs` proves five properties of `AccountSession` for any tasks, accounts and
tokens, from `SessionAssumption` (the accounts are accounts, `None` is no value).
`Control` says what a task has in hand where it is. `SessionTellsAccount` then rests on one
idea, `Steady`: no step serves a token that something refers to on another account; it dies
or its account stays. What is stored is a copy of what was stored, or what IG has just
answered, and `Told` carries the answer from the PUT to the store. `NoLandingLeft` is
inductive given `Control`. `Meanwhile` (`LandingOnlyMeanwhile`) puts the two together: whoever is to
send took its session from its own switch, which names a chosen account, or from the cache, where
`NoLandingLeft` leaves another task's login as the only source of the landing account; a replay after
a 401 reads the cache again and is covered.
`AccountInForce` needs to know the operation that is under way (`ForceInv`): there is one task in
one at most unless operations overlapped; a login goes on after its answer only to select the
account (`Selecting`); and what that task has made of session and selected account (`Agrees`):
they agree but while a login selects and between the two stores of a switch.

`DynamicStreamerProofs` proves typing, `RunningIsCurrent` and `ConnectedIsTrue` for any callers,
markets and connections, under `DoubleStart = FALSE`, of orderly operations. `Reports` says that only
the latest connection is about to clear the flag. `Alone` says that of operations that do not
overlap one caller at most is in one; `Opening` what it may rely on while it waits, `OneRuns` that
a connection that runs is current, latest and streams the list, `Speaks` what is_connected says
of a connection that may be closing by itself. None is inductive without the others: whether a
task that ends may clear the flag depends on who bumped the generation since.

`QuoteStreamerProofs` proves typing, `TasksOwned`, `ClosedIsSilent`, `WithinCapacity` and the action
property `WaitedForKept` for any callers, instruments, tasks and capacity, in three layers.
`Control`: who holds the mutex, and where the tasks that run are found meanwhile. `Order`, which
needs it: the order of use lists the instruments of the map, each once (`Listed`), and there is
room for the one being subscribed (`Room`); the cap follows because a running task is in the map.
`Followed`: whatever comes after a waiting caller's instrument in the order was asked for since,
so when it is the one evicted, all the others were (`EvictedByMany`).

The services are proved one by one, each as the specification of its module alone (its `Init` and
the steps that `ClientServices` takes for it), with one inductive invariant each, named after it.
`ClientServicesProofs` then carries every invariant over the composition: a step of another
service leaves it alone (`StoresStep`, `RecordsStep`, `CallsStep`), so the properties hold of
`Spec` of `ClientServices`, the specification that the `services` run checks.

`StoreProofs` is the walk and the stores.
- *The walk* (`TreesAgree`). `ChildrenOf` of an entry are found by counting places in the tree, and
  the stack holds what is still to be processed of each level. `WalkStands` says where the walk is:
  the stack is as deep as the tree is open, and its levels never skip one. `WalkAccounts` is the
  point: what stands below an entry, chained with what is still to be processed there, is what IG
  lists. That needs no induction over the navigation, so cycles, markets under several nodes and
  any depth are covered.
- *The stored tree* (`RefreshesAgree`, `RefusalsAgree`). `ScriptIs` is about the program of a refresh for
  any tree and any batch size: the two deletions, then every row of the deduplicated tree in one
  batch, each key once, and, when no id is listed twice, each row in the batch of its parent or a
  later one. It rests on `DedupeIs` (the rows that upserts one by one would leave), `ChunksSend`
  (the batches are the list, cut at multiples of `Batch`) and `ParentIs` (the parent of an entry
  stands before it in preorder). `DatabaseInv` says of each open transaction: `Sending`, what was
  written with what is still to be sent is the tree; `Seen`, what a deletion has seen is there and
  not its own; `Writes`, only rows of its exchange were written or deleted; `Noted`, whom it may
  meet is in `met`; `Clears`, if it met no other of its exchange then all that was stored is deleted
  or about to be; `Refers`, what is still to be sent refers to what was written or is sent first;
  and of two of them `Apart`: no row is written by both. At the commit `Sending` and `Clears` give
  `WholeRefresh`; a refusal contradicts `Clears` (a node deleted under an instrument) or `Refers` (a
  row before its parent).
- *Prices*: where a process is among the seven statements tells how far the schema is at least,
  whoever else runs them (`Migrates`); open transactions write different rows and count the new
  ones among them (`CountsNew`). *Filtered markets*: a writer's open rows are those of the listings
  it has processed (`Processed`). *Transactions*: an entry that was there at the call and is not yet
  read stands on a page still to come, whatever was posted since (`StillToCome`); the rows sent are
  the transaction's but for those stored before (`RowsSent`). Together `StoresAgree`.

`CallProofs` is what a client does for one call.
- `TokenServes`: `Timed` relates the client's count of a token to IG's, `Lasts` what is left of it to the
  time it has been in hand: their sum, with the delay of the answer, stays above the margin, or is
  the token's whole life, through waits, retries and backoffs of any length. So an attempt is served
  as long as that time fits the margin; the theorem does not assume that it does. `EffectsOnce`: that every operation on an order path is a mutation of the
  order service is a lemma over the whole table of operations. `ConvertersOwned`: the invariant adds
  who has been told in each phase of a disconnect, also of one that was given up.
- `PausesAreKept`: the backoff is the planned one, however far the shift and at any width (`ConfirmInv`);
  what a bucket admitted between any two ticks fits its rate (`PacingInv`: `tat` stands at least an
  interval after a tick for each request admitted since, and never far ahead of the clock); a client is on the first key that was
  not exhausted, its requests on the bucket that its account has in the registry and its logins on
  the configured account's (`SetupInv`).
- `CatalogsAgree`: what was found, with the rest of the category that is being read, is what the code
  list asks for, if IG answered with the pages it named (`CatKeeps`); an instrument is found once
  (`CatOnce`), and the details that come are those of the markets at their places, a few at once
  (`CatEntries`).

`RecordProofs` is what is made of data: updates and their callbacks, JSON fields, periods on the
calendar, option names, orders, netting. `PositionsNet`: the P&L of a netted position stays the worth
of all marked ones, which is arithmetic (`WorthAdds`), and needs that an EPIC without marked
positions has counted none (`Untouched`). `RecordsAgree` conjoins the others: a listener has heard a
prefix of what was published, in order (`ListenerInv`); an order is what was asked for through every
builder call, and what the client believes it holds is off by at most half a hundredth per fill
(`OrdersInv`); a value read, written and read again is the same (`WireInv`); the last day of the
month before, over the end of the year and in leap years (`ExpiryInv`).

`TypesAgree` is the types of all services. Some say more than a set of values, and rest on the
invariants above: whoever a shutdown signal can still reach is a converter that runs, and what
connect watches is the client's session (`StreamerTyped`); a token is an aged grant, also where a
login was answered late (`OAuthTyped`); a request goes out only below its bound (`OpsTyped`), a page is
asked for only below the limit (`CatalogTyped`); there are no more buckets than accounts
(`SetupTyped`); what an open transaction was given are rows of its tables (`DatabaseInv`).

**Assumptions.** Each module names what it assumes of its constants, and TLC evaluates it on every
run: bounds are numbers, `None`-like values are none of the values they stand beside
(`NoneAssumption`, `NoRow`, `BadTime`), sets that something is chosen from are not empty, trees are in
preorder (`DatabaseAssumption`: a walk returns a node before its children), accounts are finitely
many (`SetupAssumption`). One restricts more: `SyncAssumption` bounds a history by the pages that
the page counter can count, `Rows * (2^CountWidth - 1)`, which with 32 bits and pages of 200 no
account reaches; of more, the cast of the page count would lose pages.

**What is out of reach.** Only model-checked: liveness (`RequestReturns`, `OperationReturns`, `FallsSilent`,
`CallsReturn`), which needs fairness and ENABLED. Every safety property that a passing run checks is
also a theorem. Induction over data is not available to the provers. Where the code recurs or folds, the model is a state machine (the walk, the netting, the
statements of a transaction) or says which place of a list each result comes from (the
deduplicated rows), and a proof about numbers takes the least counterexample.

## Where code and documentation disagree

- `transient_failures_retried`: `doc/RATE_LIMITER.md:198` promises retries of 429 and 5xx. With
  another key left the retry budget is dropped (http.rs:886), on the grounds that rotation
  handles it (http.rs:883), but only a spent key allowance rotates: the failure is returned
  after one attempt.
- `cooldown_honoured`: when every key is parked the comment at http.rs:571 has the pool honour
  the shortest cooldown. It sleeps it out and then waits on every candidate, keys still parked
  included (http.rs:596).
- `updated_list_is_streamed`: `dynamic_streamer.rs:34` calls all operations safe to use
  concurrently. `add` and `remove` look at `is_connected` after changing the list, which is false
  while another operation opens the connection with the list as it was: nobody reconnects, and
  the market is never streamed, or never dropped.
- `never_a_mix`: http.rs:1086 says that a request sees the old account and bucket or the new pair.
  On v2 the switched session is visible before the selected account is, so a request in between
  goes out on one account and draws on the other's bucket.
- `close_returns`: quote_streamer.rs:159 says that `close` stops every task the streamer spawned.
  It signals before it takes the mutex (line 384), so a request that is opening a session or a
  subscription meanwhile spawns a task that listens too late; `close` then waits for it, holding
  the mutex, for as long as the session lives, and so does every later call. Another `close`,
  whose signal comes before its own wait, would free them.
- `never_rejected`: market_database.rs:199-201 says that deduplication keeps parents before children
  for the foreign key. It keeps the position of an id's first listing with the data of its last, so a
  node listed at the top and again under a later node gets a parent whose row comes in a later
  batch, and the whole refresh is rejected, although no other service runs.

Three more disagreements have no run of their own; a property leaves room for each and for no more:

- A comment of `login` (auth.rs:412-420) clears the session when the account cannot be selected, so
  that no request runs silently against the wrong account. The session is stored (395) before the
  account is selected (421): meanwhile a request of another task, or its replay after a 401, finds
  it in the cache and goes out on the account the login landed on. `LandingOnlyMeanwhile` allows
  this and nothing else.
- The doc of `promote_primary_if_needed` (http.rs:1197) has the first usable slot take over from a
  parked incumbent. The incumbent is read and judged before the store (1201-1210), so a second
  promotion that judged it too displaces the first, although that key works. What is left of the
  promise is that either has logged in: `PrimaryAuthenticated`.
- The comment at dynamic_streamer.rs:424-428 says that the check of the generation keeps a
  superseded task from leaving the streamer disconnected while live. The write of the flag (430)
  awaits its lock after the check (429): a task whose session was lost may pass the check, a caller
  disconnects and starts again, and the old task then hides the new connection. `Orderly` excepts it.

## What is not modelled

- The pacing of `Auth`'s own requests, and their retries: they delay a step and change nothing
  it does.
- The bytes: paths, headers and JSON beyond the codecs of `WireValues`. What the pipeline reads
  of a request is the record `Calls`, what it reads of an answer the set `Answers`. Records that
  only carry data, derived serde code, accessors, `Display`, the logger, ids, `finance.rs`.
- Read queries (market_database.rs:510-602): they change nothing. `get_statistics` counts in
  several statements, so its numbers may belong to different moments; nothing is promised.
- The price channel of the dynamic streamer (it carries data and decides nothing), and a second
  `start` on a connected streamer: the documents promise nothing for it, and
  `DoubleStart = FALSE` keeps callers from it. With `TRUE` the first connection is orphaned,
  which is listed as a hazard.
- Several services at once, and services together with the pipeline below them: `ClientServices`
  lets a request or a statement fail at any time instead. The v3 session is likewise followed
  apart from the pipeline; a streaming session stays on the configured account after a v3 switch.
- Signal handlers and the end of the process; a crash shows only in the database (`Stop`, `Fail`).
- Examples and tests of the repository; the external crates (`governor`, `sqlx`, `chrono`,
  `lightstreamer_rs`) beyond what the code relies on.

What the models assume, or leave out knowingly:

- `MarketDatabase`, `FilteredMarkets`, `PriceStore`: PostgreSQL locks the rows a statement writes
  and checks foreign keys at its end; an index left without its constraint is still unique.
- `TransactionSync`: two transactions of equal raw text are one row, as the hash makes them.
- `RatePacing`: `per_second_period` rounds down, so the fixed rate is kept only because it divides
  the second (`PacingAssumption`).
- `OAuthSession`: nothing is assumed of how the waits, backoffs and answers compare with the margin.
  In the code they can exceed it (a first backoff of 10 s against a margin of 10 s), so that a retry
  goes out on a token that has run out; `TokenServes` says up to where that cannot happen. The
  401 that answers it costs a login and the replay of a Standard request, and fails any other.
- `ClientSetup`: a key listed twice makes two slots, which refuse together. An account that is not
  configured (empty or `DEFAULT_ACCOUNT_ID`) is one more account here; what it means for the login
  is in `AccountSession` (`Unset`), checked with an account configured and proved with either.
- `OrderRequests`: quotes lie within the two levels that stand for "at market".
- `PositionNetting`: the level of a netted position is the plain mean of two levels whatever the
  sizes, so it is left out, and with it the marking of a position after it was netted.
- `WireValues`: a float that is not finite reads back as none, and an account record written
  with an empty field does not read back; `WireTells` names both. An unparsable deal date becomes
  the present moment and an unparsable P&L zero: neither is modelled.
- `InstrumentNames`: a name ends in one parenthesis at most.
