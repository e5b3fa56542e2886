# Verification of exchange-router

TLA+ models of exchange-router, a Python library and service that puts one
interface in front of six cryptocurrency exchanges. The models are translated
from the source under `src/exchange_router`; TLC checks them on small instances
and TLAPS proves the safety properties for every value of their constants.

## 1. The system

### Parts, state and interaction

| Part | Source | State it keeps | Operations | Talks to |
|---|---|---|---|---|
| Service WebSocket fan-out | `service/stream_manager.py`, `websocket_endpoint` in `service/main.py` | `active_streams` (key to bucket of clients), `upstream_tasks` (key to task), `_closing` | `subscribe`, `unsubscribe`, `shutdown`, the upstream handler, client closes | adapters' `stream_*` generators; clients' sockets |
| StreamHub | `exchanges/base.py` | queues per topic, subscribed topics, connected event, socket, connection task | `subscribe`, `unsubscribe`, `close`, the `_run` loop | venue WebSocket; `_ws_connect` of every adapter |
| Service-mode backend with local fallback | `backend.py`, `_core.py` | `degraded`, attempts per call, `_closed` | `fetch`, `stream`, `_degrade`, `close` | the service over HTTP and WebSocket; local adapters |
| Adapter registry | `exchanges/__init__.py` | `EXCHANGE_REGISTRY` | load, start up, shut down | adapters |
| HTTP endpoints | `service/main.py` | none | one handler per route | adapters |
| Sync router | `router.py`, `async_router.py`, `handle.py` | loop thread, `_closed`, bounded buffer per stream | `run`, `iterate`, `stop` | `AsyncCore` on another thread |
| Core reads and batches | `_core.py`, `batch.py` | handshake result, scope, capability cache, warm task | reads, `*_many`, `warm`, handshake | backend |
| Info and margin caches | `exchanges/base.py` | tables and their read times | `_ensure_info_cache`, `_margin_table` | venue REST |
| Rate limiting | the six `adapter.py` | backoff deadlines, last request times, sliding windows | `_make_request`, `_await_throttle`, `acquire` | venue REST |
| Hyperliquid hub pool | `hyperliquid/adapter.py` | hubs, topic references | `_acquire_topic`, `_release_topic` | StreamHub |
| Adapter streams, books | the six `adapter.py` | local books, sequence numbers | the `stream_*` methods | StreamHub queues |
| Adapter reads | the six `adapter.py` | none beyond a call | the `get_*` methods | venue REST, info cache |
| Pagination, series | `exchanges/base.py`, adapters | none beyond a call | `_paginate_backwards` and relatives | venue REST |
| Capabilities, errors | `capabilities.py`, `errors.py`, `backend.py` | none | mapping of faults, statuses and close codes | all |
| Models, rows, frames, funding | `models.py`, `rows.py`, `frames.py`, `funding.py` | none | pure data | all |
| Auditor | `tools/auditor` | none of the program's | development tool | live venues |

A market-data message travels from a venue's socket through `StreamHub._run`
into the queue of each `_ws_connect` generator, through the adapter's `stream_*`
generator into `StreamManager._upstream_handler`, and from there to every client
of the key. A read travels from a router method through `AsyncCore` to a backend:
the remote one asks a running service, the local one calls the adapter in the
same process, and the fallback one changes from the first to the second once.

Everything in the service, and everything of an `AsyncRouter`, runs on one asyncio
event loop. Concurrency is the interleaving of coroutines at their awaits; there
are threads only in the synchronous `Router`.

### What is hard, and what makes each part correct

* **Fan-out.** Clients join and leave a key while its task is being created,
  cancelled, is sending, or is unwinding; sends and closes fail or time out.
  Correct: one live upstream per key with clients; no client fed by two
  generations, skipped, closed twice, or left connected to silence; everything
  that waits is released.
* **StreamHub.** `subscribe` suspends between registering a queue and sending
  SUBSCRIBE; the connection breaks at any moment, and a reconnect re-subscribes a
  snapshot. Correct: what the hub thinks is subscribed is streamed; readers are
  fed; nothing unread stays subscribed; a closed hub stays closed.
* **Streams.** A reader's queue drops its oldest frame when it is full, frames are
  lost while the connection is down, some do not parse and some lack the number that
  would show a loss. Correct: what a stream yields is a value the venue had, never an
  older one after a newer one, and it catches up.
* **Fallback.** Many calls meet a dead service together; retries, the switch and
  `close()` interleave. Correct: one announced switch, no local work before it,
  every call ends.
* **Reads.** The same call runs in the process or over HTTP, may be refused at four
  places, and fails in many ways. Correct: the capability tables are true, the type of an
  error does not depend on the mode, the call returns.
* **Series.** Rows are read page by page, while the venue revises and adds rows.
  Correct: the result ends at the anchor, has no holes, is complete unless
  something cut it short.
* **Requests.** A batch of calls shares locks, semaphores, a sliding window and a
  backoff deadline. Correct: limits hold at their edges, a deadline stops what has
  not passed it, one refresh serves all, nobody waits for ever.
* **Hub pool, loop thread, handshake.** Reference counts across awaits,
  check-then-act across threads. Not modelled yet (section 6).

`PROJECT.json` lists each hazard at its line with the properties that would catch it.

## 2. Modules

| Module | Content |
|---|---|
| `StreamManager` | the fan-out: endpoint coroutines, upstream handlers, closes, shutdown |
| `Broadcast` | the abstract specification of the fan-out, which `StreamManager` implements |
| `StreamHub` | subscriptions, connection task, reconnects and close of one hub |
| `Channels` | what each `stream_*` method of the six adapters does before its first frame and with each frame, one record per method |
| `Feeds` | venue, hub queues and stream method of one topic, for every shape of `Channels` |
| `LiveValue` | the abstract specification of a stream, which `Feeds` implements |
| `Fallback` | retrying fetches, reconnecting streams, the one-way switch, close, registry |
| `Capabilities` | the capability tables of the six adapters |
| `Methods` | what each `get_*` method of the six adapters does, as a sequence of steps |
| `Calls` | one read or stream from `AsyncCore` to the adapter and back, in both modes; composes `Channels`, `Methods` and `Capabilities` |
| `TimeSeries` | the reads of `Methods` that fetch a series, against a venue that changes meanwhile |
| `Requests` | a batch of calls on one adapter: info cache, `_make_request`, rate limits |
| `*Proofs` | the theorems of the module before the suffix; `CapabilityProofs` those that compare `Capabilities` with `Methods` and `Channels` |
| `MC*` | what TLC needs besides: symmetry for the hub, the pairs of `Requests`; otherwise only the module itself |

In each of them a step is one uninterrupted stretch of a coroutine, from one
suspending await to the next. The locks of `StreamManager` and `StreamHub` guard
sections that contain no await, so acquiring them never suspends and they do not
appear as state; the info lock of `Requests` does. Payloads, names and error texts
are abstracted to what the properties distinguish. Definitions whose comment begins
with "Slip" are deliberately wrong variants of the definition that follows them. No
specification uses them; substituting one for the definition it mirrors must make
TLC find a violation, which shows that the property depends on that line of the code.

### StreamManager

`endpoint[c]` is the program counter of a connection's `websocket_endpoint`
(`idle`, `handshake`, `streaming` in its receive loop, `leaving` inside
`unsubscribe`, `closed`), `handler[t]` that of an `_upstream_handler` task. A
connection subscribes at most once and a subscription starts at most one task, so
a task is named after the client whose `subscribe` created it.

| Action | Code |
|---|---|
| `Connect`, `HandshakeFails` | accept, first message, the refusals with 1008 and 1003 |
| `Subscribe`, `Unsubscribe`, `UnsubscribeTimesOut`, `Unsubscribed` | `subscribe`; `unsubscribe` up to the wait, the second cancellation of `wait_for`, the return |
| `HandlerStart`, `HandlerItem`, `HandlerSent` | the loop over the adapter's stream: snapshot of the bucket, gathered sends, removal of the clients that failed |
| `HandlerEnds`, `HandlerCancelled`, `Finally`, `HandlerClosed` | the stream ends or raises, the task is cancelled, the `finally` clause, its wait for the closes |
| `HandlerAbsorbsCancel` | `wait_for` of Python 3.10 and 3.11 swallows a cancellation that arrives when the awaited future is already done; the adapter's generator is in such a call once, in `StreamHub.subscribe` |
| `CloseEnds` | `_close_client`, whether spawned or awaited |
| `Shutdown`, `ShutdownTasksEnded`, `ShutdownEnds` | `shutdown` |

After `Shutdown` no connection is accepted: uvicorn stops accepting before the
lifespan handler that calls `shutdown()` runs. `seen` and `feeder` are history
variables, read by properties only. `Broadcast` promises that a client listens to one source
for good and gets its items one after the other until it is given up; the refinement maps
its sources to the tasks, `source` to `feeder`, `got` to `seen`, and the clients given up to
those with a close under way or done.

### StreamHub

`sub[s]` is the program counter of an adapter's `_ws_connect` generator, `run` that
of `_run`. The frame of a `ws.send` that follows a lock section without an await in
between is written in the same stretch. `upstream` is what the exchange streams on
the current connection. A payload may carry one, some or all topics of the
re-subscription, since the adapters batch differently. `Interrupts` says which
interruptions of a pending `subscribe()` happen: its thirty-second timeout and a
cancellation. A cancelled `subscribe()` ends as `leaked`: every adapter calls it
before the `try` whose `finally` unsubscribes. A reconnect waits at least one second,
so `Reconnects` is taken only once coroutines that were ready have run.

Keepalive and the doubling of the reconnect delay are left out; the data path is module
`Feeds`.

### Fallback

A call is one `fetch` of the backend, with the `_check_open` that precedes it; a
stream is one consumer of `AsyncCore.stream(reconnect=True)`. `outcome` records how a
call ended: an answer, an error of the SDK's tree, `unreachable`, `closed`, or
`foreign` for an exception from outside the tree. `EnterLocal` is the lazy load in
`LocalBackend._adapter`. `close()` sets the flag and closes the HTTP client in one
stretch and empties the registry in a later one. The handshake, the warm task and
`reconnect=False` are left out.

### Channels, Feeds and LiveValue

`Channels` gives each stream method a record: the markets it refuses, its
steps before the first frame, whether a frame carries the whole value, independent
events, or deltas, whether a bad frame is skipped or ends the stream, and whether both
sides must be there. Deltas come in three kinds: `patch` looks at no number (Kraken's
books, Bybit's ticker), `sequenced` expects the number after the last one (Bybit's `u`),
`chained` expects the frame's own `prevSeqId` to be the last `seqId` (OKX). `Feeds` starts
from any of the shapes that occur.

The venue's value is a book of one quantity per level; a ticker is the simple case.
`hist` is the venue's history and frame number `u` describes `hist[u]`, so that what a
reader holds can be compared with what was true. `Put` is the drop-oldest of
`StreamHub._run`; a fault breaks the connection or damages one frame (`Damaged`,
`Opening`): it does not parse, or it is a delta or a snapshot without one of its numbers. `Read` takes one
frame through the method; `Gap` is the comparison of the code, which needs a number on both
sides (`Compared`), so a delta without one is applied, stored as `last = None`, and the next one is
not compared either; `Ends` is the method's
`return`. With `restart`, the local mode, `AsyncCore.stream` enters the stream again at
once. Returning from an `async for` body does not close the inner generator: the event loop
schedules its `aclose()`, so the new queue is registered before the old one is
unregistered. `stale` holds the readers in that state and `OldQueueGone` is the
scheduled `aclose()`. Without `restart` the stream ends and is unsubscribed.

So not every value is one the venue had. `missed` holds the readers that lost a frame
since the snapshot they build on, and `doubt` those that have applied a delta they could not
compare after such a loss: always a possibility for a `patch` stream, and for the others the
numberless frames just described. `out[r].sure` records whether the book was beyond doubt when
the value was yielded. `at`, `missed`, `doubt` and `sure` are history variables, which
no guard reads. `YieldedIsReal` is about the sure values; without that condition it is false of
the code. A snapshot ends the doubt.

`LiveValue` promises that a reader is shown values the venue had, in an order that never
goes back, until the reader starts over: then what it was shown is forgotten. The refinement maps
`out` to `Shown`: a stream that ends and is entered again, and a book that comes
into doubt, are a reader that starts over, and streams that ask for a replay are mapped to
a reader that is shown nothing. `PatchedIsReal` states what `patch` streams guarantee of the
book they hold. A frame that parses and has its numbers but leaves out
some of its levels is not modelled.

### Capabilities, Methods and Calls

`Capabilities` transcribes the tables: for each market the advertised reads, streams and
intervals. `Methods` gives each `get_*` method the markets it refuses and its steps
(requests whose failure is fatal, ignored when the venue rejects it, or always ignored; table lookups; interval maps;
the pages of a series). `Calls` runs one call. `Preflight` is `_preflight`, which looks at the
table unless it has none (a failed capability fetch over a service stays quiet);
`Enter` and `EnterStream` are the dispatch of `LocalBackend` and of the endpoints, `StepDone`,
`RequestFails`, `RequestIgnored`, `Absent`, `NoMarginTable`, `CapacityReached` the method's
steps, and `Status`, `ErrorForStatus`, `ErrorForFault`, `Retry` and `Report` the way back.

### TimeSeries

A row is a timestamp and a revision (or one of several rows with one timestamp); time is
counted in intervals. `NextPage` is a turn of `_paginate_backwards`, `Direct` a single
request, `Bulk` a request for all the venue keeps, `Walk` the forward walk of Kraken's
futures candles, `Recent` OKX's recent page before its archive, `AnchoredWindow`,
`RecentFunding` and `OlderFunding` Binance's funding windows. `Rejected` and `Raises` are
failing pages, swallowed or not; `Revised` and `NewRow` are the venue's.

The anchor of a page is honoured by every venue but one: Exchange_Notes.md:260-262 leaves
open whether Bybit's long/short ratio does, so its `fetch` is `latest` and each of its
pages ends at the anchor or at the newest row, as the venue likes.

### Requests

The six `_make_request` differ in a record: whether they sleep until the deadline read
before the request, enter a semaphore and a sliding window besides (OKX), or loop under a
lock until deadline and spacing allow (Kraken); how long a wait they accept; what an
answer may do to the deadline. Times are kept as what is left of them, so no clock bounds
the model. `stale` counts, per task, requests sent before a deadline that had been set.
A batch is over before a fresh table goes stale.

## 3. Runs

| Run | Instance | Result |
|---|---|---|
| `manager` | 2 clients, 2 keys, 3 items per stream | passes, 108,312 states |
| `manager_lossy_cancel` | 2 clients, 1 key, cancellations may be absorbed | passes, 40,800 states |
| `hub` | 3 subscribers, 2 topics, 2 breaks, both interrupts | passes, 14,789 states under symmetry |
| `hub_calm` | 3 subscribers, 2 topics, 1 break, no interrupts | passes, 40,376 states |
| `hub_cancelled_subscribe` | 2 subscribers, 1 topic, cancellations | violates `ReadersAreFed` |
| `fallback` | 2 calls, 1 stream, 2 retries, 3 changes of the service | passes, 123,711 states |
| `feeds` | 2 readers, a bid and an ask level, queues of 2, 3 updates, 1 fault, every stream shape | passes, 415,122 states |
| `feeds_no_resync` | 1 reader, the same queue and updates, no fault | violates `Resyncs` |
| `calls` | every exchange, market, route, interval and mode, 1 retry, 2 failing requests | passes, 47,688 states |
| `series` | rows 2 to 6, limits up to 5, pages of 3 (archive 2), 3 pages, 1 fault, 2 changes, every way to read | passes, 939,078 states |
| `series_walk` | the same without faults and changes | violates `WalkEndsAtAnchor` |
| `requests` | 3 tasks, two of them on one pair, 2 at a time, 2 tries, all six adapters | passes, 342,097 states |

Why the bounds suffice. In the fan-out two clients on one key give every overlap
of two generations (one leaving, one arriving) and of two members of a bucket;
three items are needed for a gap to become visible after a failed send. In the hub two
subscribers share a topic while a third uses the other; two breaks give a break during a
re-subscription that an earlier break caused. In the fallback model two calls are enough
for one to lose the race to switch, and three changes let the service come back and fail
again. In `feeds` three updates overflow a queue of two behind a snapshot, one fault is enough to
strip a frame of its number before or after the loss, and the second reader keeps the topic
subscribed while the first comes and goes. `calls` is not a sample: the
tables and methods are all there, and two failing requests give an ignored failure before a
fatal one and a failure in each attempt of a retried call. In `series` the range is longer than a page, shorter than what three pages
hold, and the limit goes past the page, the archive page and what the venue keeps. In
`requests` a third task finds the batch full, the lock taken and the bucket empty; the waits lie
on both sides of what an adapter sleeps through. Symmetry is used only in a run without
liveness properties.

**Fairness.** Weak fairness is put on what the event loop and the timeouts of the
code guarantee: a ready coroutine runs; a send or close ends within its
five seconds; `wait_for(task, 2.0)` expires; a socket the server has closed ends its
receive loop; a request is answered or times out; a sleep elapses; a connection attempt
succeeds or fails; an `aclose()` the loop has scheduled runs. Peers, items from upstream,
an operator's shutdown, network breaks, new calls and `close()` carry no fairness. In the hub
fairness covers the reader's steps inside `subscribe` and the connection task;
`Connects` is strongly fair, the assumption that an exchange tried again and again is
reached in the end, and breaks are finite, so the network holds eventually. The
code can guarantee neither; without them no reader can be promised anything. `Connect` of
`Feeds` makes the same assumption.

Deadlock checking is off for `fallback` and the feeds, because a program may simply
have made all its calls and a venue may go quiet. The other models must not deadlock; `Finished`,
`Done` and `Ended` are the legitimate ends.

### What the violated properties show

* `hub_cancelled_subscribe`: a cancelled `subscribe()` leaves its queue behind, so the
  topic is known but was never subscribed; later readers of it read silence until a
  reconnect.
* `feeds_no_resync`: the adapters log "ending stream so clients resync" and return on a
  sequence gap. In local mode the stream is entered again before the old queue is
  unregistered, so the hub sees no first queue, sends no SUBSCRIBE, the venue sends no snapshot,
  and the new book ignores every delta until the connection breaks.
* `series_walk`: HTTP_Reference.md:120 promises that the row at `start` is the newest of
  the response when it exists. Kraken's walk stops when a page's last row is at
  `anchor - interval`, and the row at the anchor is not fetched.

### Observations without a run

* HTTP_Reference.md:118-120 promises of `funding_rate` too that the row at `start` is
  the newest of the response. Binance's history is asked for `limit` rows of a window of `limit`
  cycles, which includes both ends and so holds one row more (`binance/adapter.py:820-827`). Which rows
  come is the venue's choice (`Window`); when it sends the oldest first, the row at `start` is left
  out. `EndsAtAnchor` excepts exactly this case, a window that holds more rows than were
  asked for.
* HTTP_Reference.md:120 also promises rows with `timestamp <= start`, of `long_short_ratio`
  among others. Where the venue ignores `endTime`, as Exchange_Notes.md:262 allows for Bybit, nothing
  filters the rows and newer ones come back; `EndsAtAnchor` excepts such a venue.
* Python_API.md:486 names a market type that is not carried as "the one place the modes
  still differ" for a stream. `Calls` has another: a stream that the adapter rejects before its
  first frame (an unlisted symbol of KuCoin's spot market, `kucoin/adapter.py:370`) raises `BadRequest`
  locally, while over a service `_upstream_handler` logs the error and closes with 1011
  (`stream_manager.py:112`), which `stream()` takes for a drop and retries for ever (`_core.py:429-433`).
  `SameTypeInBothModes` excepts both.
* In `StreamHub` a topic whose last reader leaves while a reconnect re-subscribes stays
  subscribed; `LeaksOnlyWhileResubscribing` shows that it is the only way.
* In `Fallback` the second of two calls in flight raises `RouterUnreachable` although
  the first one has switched, and a stream that is dialing while `close()` runs loads
  the registry again afterwards.
* With an interpreter that absorbs a cancellation an old fan-out handler may feed the
  next generation's clients for up to two seconds; `manager_lossy_cancel` shows that
  the second cancellation ends it.
* `NoTwoVersions` and `Contiguous` name the exceptions they need: a venue with a single row, a sparse
  window, a funding window that holds more rows than a page, a venue that ignores anchors.
* In `Feeds` a delta or a snapshot without its number switches the gap check off for the frames
  next to it; a loss there goes unnoticed until the next snapshot. No document says otherwise, so
  the exception is part of `YieldedIsReal` and not a violated property.

## 4. Proofs

The theorems hold for every value of the constants that satisfies the named `ASSUME`
of the module.

**StreamManagerProofs.** `TypeCorrect` and `NobodyIsLeftInSilence` hold on any
interpreter. The others assume `LossyCancel = FALSE`, and need it. `OneUpstreamPerKey`
is not inductive: that a handler which is
unwinding cannot remove its successor depends on who was cancelled, and that it
cannot reach the successor's clients on who joined under whom. `RegistryInv` adds

* `FreshClients`: a connection that has not subscribed has no task, feed or items;
* `Cancellations`: only existing tasks are cancelled, and an endpoint waits only for
  a cancelled one;
* `Generations`: members of a bucket have its key, joined under its registered task,
  and nobody is closing them;
* `Batches`: the same of the clients a send is under way to.

From it follow `OneUpstreamFeedsAKey`, `HandlersKeepToTheirClients`, and, as a property of
steps, `NobodyIsClosedTwice`. The refinement `FanOutIsABroadcast` needs `Progress` besides: each
member of a bucket has seen nothing, or exactly what its stream has produced, or, while
a send is under way, one item less. With it
every step that sends or closes is a `Serve` of the task the clients joined under, a
subscription is a `Join`, an item a `Produce`, and all else a stutter. So a client misses
nothing from its first item on, all its items come from one upstream, and none comes after the
service began to close it.

**StreamHubProofs.** `HubInv` says that the event is set exactly while `_run` reads
(`EventAndSocket`), that on an intact connection the exchange streams, or `_run` is
about to request, all the hub believes in (`Promises`), and that a closed hub's task is
cancelled. It yields `HubBeliefsAreTrue`, `ClosedForGood` and `NoLeakOnASetConnection`.
`UninterruptedReadersAreFed` assumes `Interrupts = {}`, and needs it: with
cancellations it is what `hub_cancelled_subscribe` refutes. `FedInv` adds that every topic with a
queue is subscribed or has a `subscribe()` on its way (`TopicsAreSeenTo`), and that nobody
waits for an event that is set, since a waiter would otherwise count as on its way for
ever.

**FallbackProofs.** The bound on attempts in `TypeOK` is not inductive; `Budget` says that a
call that may still send has failures left. With it, `TypeCorrect`,
`SwitchIsAnnouncedOnce` and `LocalWorkIsAnnounced`.

**FeedsProofs.** What a reader is shown comes out of its queue, so `IInv` says that every
queued frame, if it parses, is true of the history, its numbers too where it has them (`QueueTrue`), that
frames are in order (`QueueOrdered`), not behind what was shown (`OutBehindQueue`), and
that what was shown is in the history. `PutShifts` says what drop-oldest does to a
queue. That gives `FeedTypes`. It does not give the values: a delta without a number is right only if
nothing was lost before it. `ChainInv` adds a chain per reader: within its queue no update is
missing, whatever was dropped at the head (`NoHoles`); the head continues where the reader is,
unless it missed something (`HeadFits`); the tail ends where the venue is, as long as the
subscription stands (`TailFits`); and a book not in doubt is the venue's at that place, which is
also the number the method remembers, if it remembers one (`BookReal`). A delta that can be compared is then
right by its number, and one that cannot by the chain, or it puts the book in doubt. `ValuesAreReal`,
`PatchedBooksAreReal` and the refinement `FeedsImplementLiveValue` follow, for any number of
readers, levels, updates and faults and any queue size.

**CallsProofs.** `TranslationsAgree` shows for every exception that both ways back give the
documented type; `CauseInv` carries the cause of a failure from where it is raised
to the report. `SameFailureSameType` follows for any number of retries and faults, with
the two exceptions among streams that `Named` excludes: a market type that is not carried, and
over a service an adapter that raises before the first item.
`TablesAreTrue` and `OffersAreServed` rest on **CapabilityProofs**, where `TablesAgree` compares, exchange by
exchange, the advertised tables with what the methods refuse and the intervals they map, which
says nothing of a call yet. `TruthInv` carries it through a call: a method runs on an offered route
only, and an exception is `NotImplementedError` exactly where the table does not offer the
call. `ServedInv` adds that an interval still to be looked up is one the method maps, and that
what is raised is `Explained`.

**RequestsProofs.** `OneStaleRequest` is not inductive: `StaleIsSpent` adds where a task that has
sent a stale request can be (not before the gate), and that, when it sleeps, it
sleeps past the deadline. `DeadlinesAreKept` follows, for any waits and numbers of tasks and
tries. `LockInv` says that whoever fetches the table holds the lock and the table is
not fresh; `OneRefreshServesAll` follows. `VenueLimitsAreKept` compares what the adapter
believes with what the venue counts: for OKX, that the log of the venue is the
bucket less the entries it has yet to pop (`LogIsBucket`), for Kraken, that the last request is at
least as old as the throttle believes (`SpacedInv`); both need the log in order. That the
pops of `acquire` stop at the first recent entry is a least-element argument, taken from the well-foundedness of
the naturals.

**TimeSeriesProofs.** The proofs begin with lemmas about the operators: what the newest or
the earliest n rows of a set are, what a cut to the limit or an anchor leaves, and that a
non-empty set of timestamps has a least and a greatest element. `ReadInv` says how far a read
is: where each kind of read starts, that `current_end` is the oldest timestamp read
(`Paging`), that `from_ts` is just past the rows of the walk (`Walks`), and that nothing past the
anchor was read (`Anchored`). Where the venue may ignore anchors (`~Heeds`) the last of these does not hold. `ReadInv` gives `ReadsAreBounded`; each further theorem adds what it needs.

* `ReadsEndAtAnchor`: `EndInv`, no settled row is above what the first page
  brought (`Tops`), whether or not the venue honoured its anchor; the funding windows before it change nothing
  about that, a full anchored window has every row up to the anchor, and a walk that is not cut short
  goes on until it is at most one row from its end (`Reaches`).
* `ReadsHaveNoHole`: `HoleInv`. That the rows read have no hole is not enough while a
  page is to come: the archive must also reach up to the recent page (`Joined`) and the walk
  up to `from_ts` (`Passed`).
* `ReadsReturnOneVersion`: `VersionInv`. A page carries the rows at `current_end` once more; either
  they are still as they were read, or nothing else was read and the next page is the
  last (`Alone`), which is the exception of the property.
* `ReadsAreExhaustive`: `FullInv`, the settled rows are read down to `current_end`. It assumes
  `PageSize > 2` and `ArchivePage > 1`. Two rows may share a timestamp, and
  a page no larger than such a group brings the same group again, which ends the pagination; the
  pages of the adapters have a hundred rows and more.

The theorems about holes, versions and completeness are about venues that heed an anchor, which the
properties say themselves. `None` is assumed to be no integer, as in the code.

Every invariant and every safety property of steps that a passing run checks is stated by a theorem.
Only model-checked are the liveness properties (`DroppedClientLeaves`, `LeavingEnds`,
`ShutdownReturns`, `ReaderEventuallyFed`, `CloseEndsTheTask`, `EveryFetchEnds`,
`StreamsRecover`, `CatchesUp`, `CallReturns`, `EveryCallEnds`), since fairness and ENABLED
are outside the prover's reach.

## 5. Plan

Done: the fan-out with its refinement, the hub and the fallback; the data path of the streams
and its refinement; reads, tables and errors; series; rate limits and the info cache; the proofs of
all their safety properties.

1. `HubPool`: Hyperliquid's topic references over several hubs, composed with the
   subscription part of `StreamHub`.
2. `RouterThread`: the loop thread of the sync router, with handshake, warm task and
   registry.

## 6. Not modelled

* The synchronous router's loop thread, the handshake and the warm task, and the
  Hyperliquid hub pool beyond its refusal at capacity: planned.
* The hubs an adapter keeps per URL or subscription shape (Kraken's `_hub_key`, KuCoin's
  token endpoints): one hub and one topic stand for each.
* `_margin_table`, which is the info cache once more, and the small caches of the adapters
  (Hyperliquid's context snapshot, OKX's funding cycle, Kraken's futures tickers, symbol maps).
* The translation of venue payloads field by field, data models, rows and frames: floating
  point data without state or control.
* The auditor: terminal and network I/O.

Sizes of payloads, wording of errors, logging and wall-clock durations are abstracted
everywhere; a timeout may fire whenever its wait is pending.
