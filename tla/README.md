# A TLA+ model of the Mudrex WebSocket proxy

The program is an asyncio proxy. Clients connect over WebSocket and subscribe to
streams (`ticker:BTCUSDT`, `kline:1m:BTCUSDT`, ...). The proxy keeps one WebSocket
connection to Bybit, subscribes there to a topic when its first client needs it and
unsubscribes when its last client leaves, and fans every Bybit message out to the
clients through Redis Pub/Sub. Redis also holds a reference count for every stream.

This directory holds TLA+ modules for the parts of the program that carry its state,
TLC configurations that check them on small instances, and proofs checked by TLAPS.
`PROJECT.json` maps every definition to the source lines it models.

All modules model the sources under `src/app`.

## 1. Inventory

| part | source | state | operations | what is hard |
|---|---|---|---|---|
| Redis Pub/Sub manager | `redis/pubsub.py` | `_subscriptions` (channel -> client -> callback), `_lock`, `_listener_task`, `_listener_retries`, `_running`; in redis-py the set of channels of the connection | `subscribe`, `unsubscribe`, `unsubscribe_client`, `publish`, `_listen`, `_handle_message`, `stop` | the lock is held across Redis commands that may raise half-way; the listener ends, pauses, degrades or spins next to them; one fan-out waits for every client; `stop` takes no lock |
| Reference counts | `redis/subscriptions.py`, `redis/client.py` | in Redis: a hash of counts, a set of active keys, a set of upstream marks; `_lock` | `increment`, `decrement`, `get_count`, `mark_upstream_*`, `cleanup_stale` | `increment` takes no lock; one decrement is up to three commands; commands fail or are retried after they took effect; the process dies between two of them |
| Bybit client | `upstream/bybit_client.py` | `_subscribed`, `_pending_subscribe`, `_connected`, `_reconnect_delay`, the socket, three tasks; at Bybit the topics of the connection | `start`, `stop`, `subscribe`, `unsubscribe`, `_connect_loop`, `_resubscribe`, `_listen`, `_heartbeat_loop` | calls arrive while the connection drops, or while `_resubscribe` is between two batches; a send may suspend; heartbeats outlive their connection |
| Upstream pool | `upstream/pool.py` | `_upstream_subscribed`, `_in_flight`, `_lock`, the clients | `start`, `stop`, `ensure_subscribed`, `ensure_unsubscribed`, `_on_upstream_message` | check, claim and result are separated by awaits; the decision to unsubscribe rests on a count in Redis |
| Connection manager | `websocket/manager.py` | `_clients` with each client's streams, last activity and rate window | `connect`, `disconnect`, `add_subscription`, `remove_subscription`, `cleanup_idle`, `check_receive_rate` | limit check and insertion straddle `accept()`; the idle sweep works on a list of ids; windows follow each other without overlap |
| Client handler | `websocket/handler.py`, `adapter.py` | `_subscribed_keys`, `_consecutive_send_errors` | `handle`, `_handle_subscribe`, `_handle_unsubscribe`, `_on_stream_message`, `_cleanup` | the connection closes in the middle of a request; an exception in Pub/Sub ends a request, or the cleanup, half-way |
| Streams and topics | `websocket/models.py`, `pool.py`, `handler.py` | none | `parse_stream_arg`, `make_stream_key`, `_make_channel`, `_make_topic` | several streams map to one channel; names are cut at `:` and `.` in six places that must agree |
| Transformer | `upstream/transformer.py` | none | `transform` and one function per type of message | deltas carry only what changed |
| Life cycle | `standalone_server.py`, `main.py` | the background tasks and who is started | `startup`, `main`, `shutdown`, `_periodic_cleanup` | order of the stops; handlers must not outlive what they call |
| Redis connection pool | `redis/client.py` | a singleton | `get_redis`, `close_redis` | what a retry on timeout means for commands that are not idempotent |

How they interact. `ClientHandler` calls, for each stream of a request,
`SubscriptionManager.increment`, `PubSubManager.subscribe` and
`UpstreamPool.ensure_subscribed` (the three in reverse direction for an unsubscribe or a
cleanup), then tells `ConnectionManager`. The pool calls the Bybit client and marks the
result in `SubscriptionManager`. Messages go the other way: the Bybit client calls the
pool back, the pool transforms and publishes, the Pub/Sub listener calls the handlers'
callbacks. The startup calls `cleanup_stale`; a periodic task calls `cleanup_idle`.

What makes each part correct:

* Pub/Sub: Redis feeds exactly the channels that have a client; no client loses its feed
  because another one leaves; a message reaches every client registered, in order, and
  no client makes the others wait for longer than a timeout.
* Counts: the count of a stream is the number of clients that use it.
* Bybit client: after any loss of the connection, Bybit streams the topics that were
  subscribed before, without the pool doing anything; a connection in use is pinged in
  time; `stop` leaves nothing running.
* Pool: a topic is subscribed once however many clients ask at the same time; it is
  subscribed as long as a client needs it and no longer.
* Manager and handler: what was counted is discounted exactly once whenever and however
  the client leaves; the limits hold; an ended client is called by nobody.
* Names: what Bybit sends on the topic of a stream arrives on the channel of the stream,
  and what is read back out of a key is what was counted.
* Life cycle: no handler runs without the services it calls; a signal ends the server
  (unless the listener of Pub/Sub has blocked the event loop: see `PubSubManager_spin`).

## 2. Modules

| module | models | composes |
|---|---|---|
| `Feeds` | what `redis/pubsub.py` promises its callers: joining and quitting a channel in one step, no lock, no listener; no code of its own | |
| `PubSubManager` | `redis/pubsub.py`: the registry, the lock, the listener task, the Redis connection below them | implements `Feeds` |
| `Delivery` | `redis/pubsub.py`: `publish`, the listener's queue and the fan-out, with `_on_stream_message` of `handler.py` | registering is one step each |
| `SubscriptionManager` | `redis/subscriptions.py`, faults of Redis, death and restart of the process | |
| `BybitClient` | `upstream/bybit_client.py`: topics and the Bybit end of its connection | |
| `Reconnection` | `upstream/bybit_client.py`: the connect loop, backoff, heartbeats and `stop`, in time | |
| `UpstreamPool` | `upstream/pool.py` | instances of `SubscriptionManager` and `BybitClient`; its steps call their actions |
| `ClientHandler` | `websocket/handler.py`, `websocket/manager.py`, between clients | the counts, Pub/Sub and the pool appear as calls that are one step each |
| `Streams` | every place that builds or cuts a name: operators, no state | |
| `Transformer` | `upstream/transformer.py`, `_on_upstream_message` of `pool.py`: operators, no state | `Streams` |
| `Requests` | one client's requests from `receive_text` to keys, channels and counts, argument by argument; the rate window; a ticker on its way back | `Streams`, `Transformer` |
| `Lifecycle` | `standalone_server.py` (`main.py`'s lifespan has the same steps), start and stop of everything | `Reconnection` |
| `MC*` | the instances TLC checks: symmetry sets, maps, sample arguments | |
| `*Proofs` | theorems and proofs of the module they are named after | `UpstreamPoolProofs` uses those of the counts and of the Bybit client |

Two modules are about `pubsub.py`, two about `bybit_client.py`, two about a handler:
each pair splits the component along a line that the code does not cross often. What the
two have in common (registering a callback, that a connection is lost) is one step in the
one that is not about it.

### What is one step

The program is one event loop. A coroutine runs without interruption until an `await`
that really suspends, so an action is the code between two such suspensions.

* A Redis command always suspends. Its action is placed at the moment Redis executes it.
* `asyncio.Lock`: waiting for a lock is merged with the start of the call, which is
  enabled when the lock is free. The locks of the pool and the connection manager are
  never held across a suspension, so the code under them is one action. The locks of
  `subscriptions.py` (`decrement`) and `pubsub.py` are held across Redis commands; there
  the lock is the set of suspended calls (`deleting`, `held`), and it orders the steps.
* `ws.send` puts the frame on the wire at once and then suspends only under
  back-pressure. Every send has the two outcomes; in `BybitClient` they are `...Returns`
  and `...Suspends` and `MaxSuspensions` bounds the second, in `Delivery` a client is
  `stalled` or not.
* A SUBSCRIBE or UNSUBSCRIBE that raises means in redis-py that the connection was lost;
  the next use reconnects and resubscribes the channels redis-py knows.
* `accept()` of the adapter the standalone server uses does nothing; FastAPI's, which
  the older `main.py` uses, suspends. `AcceptSuspends` chooses.
* Time (`Delivery`, `Requests`, `Reconnection`): a clock ticks only while no task is
  ready. A sleep or a timeout that is over is served before the next tick.

### State and actions

**PubSubManager**: `channels` and `callbacks` are the two levels of `_subscriptions`;
`redisChannels` is what Redis feeds; `held` the call that is suspended with the lock;
`listener` and `retries` the listener task; `running` and `pubsubOpen` the life of the
manager. `failedSubscribe` and the other history variables only remember which calls
raised. `Subscribe`, `Unsubscribe` and `UnsubscribeClient` run up to their first command;
`...Done`, `UnsubscribeClientNext`, `...Raises` are what follows. `Listen...` and
`Listener...` are the listener, `Stop` and `StopClosed` the two halves of `stop`.
`Spin` is an event loop that no task gives back. In `Feeds`, `clients`, `fed` and `broken`
stand for `callbacks`, `redisChannels` and `failedSubscribe`.

**Delivery**: `queue` is what waits on the listener's connection, `sends` the members of
the `gather` of the present fan-out that have not ended, `elapsed` its duration, `stalled`
the clients whose connection takes no more, `sendErrors` `_consecutive_send_errors`.
`HandleMessage` takes the snapshot of the callbacks; `StartSend`, `SendEnds` and
`TimesOut` are one send. A message is written when its send starts, so a send that is
cancelled has been delivered to the connection. `owed` and `late` remember what a client
is still to get, and what it got after it left.

**SubscriptionManager**: `fields` and `count` are the hash, `marked` the upstream set,
`deleting` a `decrement` between its HINCRBY and the end of its HDEL and SREM, `process`
whether the server is starting or serving. A holder is one client's use of a stream;
`refs` says which holders have been counted, `overlapped` which keys were incremented
while a deletion ran, `faults` counts what went wrong. The `...Fault` actions are a
command that failed, with and without effect, and a retry of one that had taken effect.
`Crash` and `CleanupStale` are the death of the process and what its successor does.

**BybitClient**: variables and methods carry the names of the code; `loop` says where
`_connect_loop` is, `rest` which topics `_resubscribe` has still to send, `sending` which
calls wait in `ws.send`; `open` and `live` are the connection and the topics Bybit
streams on it.

**Reconnection**: `stage` is where `_connect_loop` is, `delay` and `wait` its backoff.
Every connection adds a member to `heartbeats`; `latest` is the one `_heartbeat_task`
names. `gap` and `sincePing` measure how long there has been no connection and no ping.

**UpstreamPool**: a task is one client's use of one stream as `handler.py` drives it.
`task[s].pc` is the await the handler is in; the sets are the pool's. `Count` and
`Discount` call the actions of the counts, `EnsureSubscribed`, `EnsureUnsubscribed` and
the steps after them those of the Bybit client. `Restart` is the death of the process and
its successor: what Redis holds stays, everything else starts over.

**ClientHandler**: `handler[c].at` is the call the handler of `c` is in, `stream` the
stream it is busy with, `todo` the streams of its loop; `keys` is `_subscribed_keys`,
`tracked` the manager's copy. `idle` and `sweep` are the idle timeout and the list that
`cleanup_idle` works through. Ids are `id(websocket)`, so `Return` lets a new connection
have the id of one that nothing refers to any more. `listener` is the task of `_listen`:
`ListenEnds` may happen whenever no channel is left, and no handler goes on after it.

**Streams, Transformer**: a text is a sequence of words, in which `:`, `.`, `*` and a
blank are words of their own: these are the characters the code cuts or rejects a text at.
`Split` says what `str.split` returns: its n-th part lies between the n-th cut and the
next, and the n-th of a set of positions is the one with n others before it (`Rank`,
`Nth`), so nothing in it is recursive. `SymbolOf` (`str.replace`) and the prefix tests are
modelled by what they do too. A record of Bybit's ticker has the fields that were sent;
`TickerData` says what becomes of each, of those that were not sent too.

**Requests**: a request is gone through one argument per step, and `_cleanup` gives back
one key per step, in any order; `op` is what the handler is busy with, `todo` the
arguments and `returning` the keys that are left. Messages of Bybit and the clock go on in
between. `held` maps a key to the stream whose argument made it, `granted` are the streams
the client was told it has, `left` the channels it gave up, `counts` the counts in Redis,
`windowStart` and `receiveCount` the rate window; `accepted` remembers when messages were
let through. `view` is a client that lays every update over the last.

**Lifecycle**: `phase` is where `main` is. A handler is seen only as far as it needs the
services, and as far as it feeds the listener: `registered` are the clients with a
callback in Pub/Sub, and `listener` may start to spin when there is none, in the middle
of a shutdown too. Stopping the pool is `StopBegins` and `StopEnds` of `Reconnection`,
between which the connection goes on.

## 3. Runs

| run | instance | what it shows |
|---|---|---|
| `PubSubManager` | 2 clients, 2 channels, 2 retries | `FedUnlessFailed`, `NoOrphanFeed`, `NoIdleChannel`: the dict and Redis agree whenever the lock is free, except where a command raised; `ImplementsFeeds`: to its callers the manager is `Feeds`, in particular no step takes the feed of a channel that keeps a client |
| `Delivery` | 2 clients, 2 channels, 2 messages, a timeout of 1 tick, 1 error | `InOrder`, `NothingIsDropped`, `AtMostOneLate`, `FanoutIsBounded`, `OwedIsWritten`, while clients stall, leave, unsubscribe and close in the middle of a fan-out |
| `SubscriptionManager` | 3 holders, 2 keys, 2 faults or crashes | what the unlocked `increment` still guarantees: `NeverOvercounts`, `ExactUnlessOverlap`; `NoStaleField`: fields at or below zero come from faults only, and a crash followed by `cleanup_stale` leaves none |
| `BybitClient` | 3 topics, 2 callers, batches of 1, 2 failures, 2 suspended sends | `TrackedIsLive`, `ReconnectKeepsTopics`, `TrackedBecomesLive`: reconnects restore what was subscribed |
| `UpstreamPool` | 2 handlers of 1 stream, 1 failure, 1 suspended send, 1 fault or crash | `OneSubscriber`, `NoLeak`, `InFlightEnds`; `UpstreamIsStreamed`: what the pool holds Bybit streams, or a resubscription or a reconnect is about to restore |
| `ClientHandler` | 2 clients, 2 streams, 1 exception of Pub/Sub | `CountsMatchHandlers`, `GoneIsSilent`, `StreamIsFed` for every overlap of requests, closes and idle closes |
| `ClientHandler_alone` | 1 client, 3 streams, a limit of 2 | `ManagerAgrees`; `ClosedIsTornDown`: wherever the handler was when its connection closed, it is torn down, unless Pub/Sub raised or its listener blocked the event loop |
| `Requests` | 1 client, 2 connections, 6 lists of arguments (plain, with an interval, compound, dotted, legacy, invalid), each to subscribe or to unsubscribe, a limit of 3 streams, 1 message a second | `AtMostTwiceTheRate`; `GrantedIsFed`, `CountsFollowKeys`, `RoutedBack`: names agree from the argument to the topic and back; `ViewIsCurrent`: laid over each other, the updates give the ticker, for the fields an update may leave out and for the others where the last delta carried them |
| `Lifecycle` | 2 clients, 3 connections, a ping every 2 ticks, delays of 1, 2, 3 | `HandlersAreServed`, `ShutdownLeavesNothing`; `ShutdownEnds`: a signal ends the server unless the event loop gets blocked; `HeartbeatsEnd`, `KeptAlive`, `BackoffFollowsFailures` |

The inductive invariants `RegistryInv`, `ClientInv`, `PoolInv` and `HandlerInv` are
checked along with them; their first part is the type invariant of the module. The type
invariants of the counts, of `Delivery` and of `Lifecycle` are proved (section 4); that
of `Requests` is proved and checked by its run.

Three runs end in a counterexample: the code does something its own text says it does
not.

| run | what happens |
|---|---|
| `UpstreamPool_demand` | a client arrives after `ensure_unsubscribed` has read a count of zero: it finds the topic subscribed, and the topic is then dropped under it (no count is lost here) |
| `PubSubManager_spin` | once the last channel is unsubscribed, redis-py's `listen()` ends at once every time; the `while` loop around it never suspends again and blocks the event loop, and the listener counts as healthy |
| `ClientHandler_alias` | `kline:1m:X` and `kline:5m:X` are one channel with one callback per client; unsubscribing one silences the other |

### What the models show besides

These behaviours are reachable in the models and have no run of their own. The
properties that hold name them as their exceptions.

* An `increment` between the HINCRBY to zero and the HDEL of a `decrement` is deleted
  with the field: a client is subscribed and the count is zero (`subscriptions.py:57`;
  `overlapped` in `ExactUnlessOverlap`).
* Positive counts of a dead process are kept by `cleanup_stale` (`subscriptions.py:194`).
* A SUBSCRIBE that raises leaves its channel in the dict for ever (`SubscribeRaises`); an
  exception of `unsubscribe_client` keeps a dead client in the manager (`LeaveRaises`).
* A topic unsubscribed while it is pending comes back with the next reconnect
  (`UnsubscribeReturns` does not purge `pending`); a subscribe during a suspended
  unsubscribe is lost (`SubscribeReturns` next to `UnsubscribeSuspends`).
* With FastAPI's `accept()` the client limit can be passed (`Connect`, `Accepted`).
* `cleanup_idle` closes, from a list it made earlier, a client that has been active since
  (`manager.py:203`).
* "Messages per second" (`config.py`) is per window: twice as many pass around a
  boundary (`AtMostTwiceTheRate` is tight).
* Every update of a ticker has a price, a percentage, a bid and an ask. Where Bybit's delta
  had none they are "0", "0.00" and null (`transformer.py:71`), and overwrite what the
  client knew. This disagrees with "Partial updates - only changed fields included per
  message" (`gist-updated.md:201`). `ViewIsCurrent` says nothing of these fields when the
  last delta did not carry them; without that condition TLC refutes it with the first
  delta that is about another field.
* Every kline is Bybit's 1-minute one, whatever interval was asked for (`MakeTopic`).
* What `PubSubManager_spin` shows of the manager alone reaches the whole process. In
  `Lifecycle` the clients that an ordinary shutdown closes take the last callbacks with
  them; if the listener learns it before `stop` cancels it, neither the handlers nor
  `main` nor `shutdown` go on. In `ClientHandler` it happens to the last client on any
  channel while its handler waits for Redis: the handler never resumes.
* The legacy form `tickers.5m:B` makes a key that `_cleanup` reads as another symbol
  (`strayed`), and messages of a symbol with a `.` go to a channel nobody is on.
* A client that stalls is never closed by the threshold on failed sends: a timeout is not
  counted (`ErrorsMeanClosed`), and each message of its channels costs a timeout.
* Heartbeats of old connections go on when a reconnect takes less than the ping interval
  (`HeartbeatsEnd` has the outage as its condition); pings of one connection are further
  apart than the interval by the time a ping waits; no pong is awaited, so a silent
  connection is never replaced.
* The drain of `shutdown` finds nobody: leaving the server has waited for the handlers.

### Bounds and why they are enough

* Two clients or callers show every race between two of them; three holders let one
  count, one discount and one delete. Two channels or keys show that operations on one
  leave the other alone. The pool has one stream, since its set and its lock make streams
  independent; its proofs are for any number. Three topics with batches of one give a
  resubscription a beginning, a middle and an end.
* `MaxFailures`, `MaxFaults`, `MaxErrors`, `MaxSuspensions` bound counters that would
  otherwise be unbounded. Two failures let a connection drop again during the
  resubscription after the first. One fault or exception is enough to break an operation
  in the middle; a second one hits an operation that already runs in such a state.
* `LISTENER_MAX_RETRIES` is 2 in place of 10, `BATCH` 1 in place of 10, the client's
  limit 2; only the comparison with the limit matters.
* `Delivery`: with two messages a second fan-out waits for the first; a timeout of one
  tick tells waiting from having waited too long.
* `Requests`: a second is two ticks, so that windows start between seconds; `Horizon` 4
  has two windows after the first. `MaxConnections` 2 shows that a connection starts with
  a fresh window and that a cleanup has left nothing.
* `Lifecycle`: two clients show one that returns while the other is still in its cleanup,
  and a last one that takes the last callback. Three connections have two old heartbeats
  next to the new one. An interval of 2 with delays of 1, 2 and 3 has outages shorter and
  longer than the interval.
  `MaxWaits` bounds the failures that are counted; `SaturationAssumption` says that the
  delay has reached its maximum by then (or does not grow), so that more failures change
  nothing.

Deadlock is checked except in `Requests`, `Delivery` and `Lifecycle`, where the
bound on the clock, on messages or on connections stops the model, or the server has shut
down or its event loop is blocked.

### Fairness

All tasks share one event loop, and `PubSubManager_spin` shows that the listener may block
it for good once no channel is subscribed. So every fairness below presumes that it does
not. `ClientHandler` and `Lifecycle` have the listener in them: their fairness is about
steps while the loop is free, and their liveness properties except, by name
(`EventLoopBlocked`), the runs in which it is blocked. `BybitClient`, `UpstreamPool` and
`Delivery` leave the listener's end out and take the loop to be free throughout: a blocked
loop would stop their steps as well, so that `TrackedBecomesLive`, `InFlightEnds` and
`OwedIsWritten` say nothing of it. Likewise the clock of `Lifecycle` counts while the loop
is free: `KeptAlive` is about a process that runs, and a blocked one sends no ping.

* `BybitClient`: the connect loop and suspended sends go on (weak fairness of each of the
  loop's steps and of the end of a send). The loop is a task of its own, all its awaits
  have a timeout or end with the connection. No fairness for calls, drops or `stop`. That
  failures are bounded is the assumption that the network settles.
* `UpstreamPool`, `ClientHandler`: a handler that has started an operation goes on while
  the event loop is free, since every Redis command and every send ends, in a result or in
  an exception. No fairness for requests, connections and closes, nor for Redis faults.
* `Delivery`: the listener and its sends go on and timers fire (weak fairness of the
  fan-out as a whole). Nothing is assumed of the clients: `OwedIsWritten` holds although
  one never reads again.
* `Lifecycle`: the steps of shutdown and of a handler that has been closed go on while the
  event loop is free (weak fairness). A server that is left closes every connection, however often the handler
  goes back into a request first: strong fairness of `Leave` while closing.

## 4. Proofs

All for arbitrary constants; the assumptions are the named `ASSUME`s of the modules
(finite sets of clients, streams and tasks; natural bounds; positive intervals; the
arguments of a request are any texts). TLC evaluates them on every instance.

* **PubSubManagerProofs.** `RegistryInv` says how the dict, the callbacks and Redis relate
  in the middle of a call: the channel of the one suspended call is where they may
  differ. Three safety properties are its instances where no call is suspended.
  `FeedsAreImplemented`: every step of the manager is a step of `Feeds` or cannot be seen
  there. A call takes effect when the callbacks change: `subscribe` of a known channel and
  both ways to leave at their start, the first `subscribe` of a channel when Redis has
  answered, for until then the channel has no client (`OpeningIsEmpty`). What `Feeds`
  promises is proved of `Feeds` and carried over: `ClientsAreHeard`, `FeedIsKept`.
* **SubscriptionManagerProofs.** `CountInv` bounds each count by its holders, less the
  decrements under way; with no overlap it is an equality. The parts that speak of runs
  without a fault are kept together (`FaultlessInv`), for a step that is a fault owes them
  nothing. An extra lemma, `PositiveIsHeld`, is what the pool needs.
* **BybitClientProofs.** `ClientInv` says what is known of the connection at each place of
  the loop. `Resend`, one batch of a resubscription, is used at the first batch and at
  the later ones, so its lemma is stated for any sets. `TopicsSurviveReconnects` is an
  action property.
* **UpstreamPoolProofs.** Each step of the pool is a step of the counts or leaves them
  alone (`CountsAreUsedAsSpecified`), so the theorems on the counts hold of the
  composition. `PoolInv` is inductive given them. `NoLeak` needs `HoldersInPlace`: a
  handler past its increment is counted until its decrement. Likewise each step is a step
  of the Bybit client, leaves it alone, or is the death of the process
  (`ClientIsUsedAsSpecified`; `SendsInPlace` says that a handler has one send under way at
  most). So `ClientInv` holds in the composition, and `PoolTopicsAreStreamed` joins the two
  ends: the pool's set is in the client's hands (`InHand`: until a send suspends, what the
  pool holds or has in flight is subscribed, or waits for a batch of the resubscription),
  and what the client has in hand is what Bybit streams.
* **ClientHandlerProofs.** `HandlerInv` is a conjunction over clients, so a step of one
  handler needs checking for that client only (`OneClient`). `WithinLimit` is what makes
  `ManagerAgrees` inductive: the handler checks the limit on the whole request, the
  manager on every stream, and the streams still to be added must be counted.
  `CountsDriftByErrorsOnly` counts, per channel, the handlers that hold it; every error
  moves a count by at most one. `StreamsAreFed` needs that no two streams share a channel,
  the very thing `ClientHandler_alias` shows to be necessary.
* **RequestsProofs.** First the names, for texts of any length over any words. A position
  is known by its rank (`NthIs`, `NthExists`), so the parts of a split text are known:
  the first ends at the first separator, the last begins after the last one. Whence
  `FromKeyOfKey` (what `_cleanup` cuts out of a key is the channel it was counted under),
  `KeysTellChannels` (streams with one key have one channel), both unless a symbol holds a
  `:`, and `StreamsComeBack` (from the topic to the channel, unless it holds a `.`). Then
  the requests: `StreamInv` is `HeldInv` (what is held, counted and registered), `WorkInv`
  (where the handler is) and `ViewInv` (what the client has seen). `GrantedIsFed` is not
  inductive: an argument whose key is in the set already is reported as subscribed and
  registered nowhere, so what is held must be fed (`HeldIsFed`), and a key must be that of
  the stream it was put in for (`KeysNameStreams`). `CountsFollowKeys` counts the keys of a
  channel before and after one is added or given back. `ViewsAreCurrent` needs that a
  client with a view is registered on the channel of the ticker, so that no delta passes
  it by; it is about the fields an update may leave out, and about the others where the
  last delta carried them. `RateIsBounded` has an invariant of its own: `RateInv` says how many of the
  messages let through lie in the present window, that those before came before it, and
  that those a full limit further back came at least a second before it.
* **DeliveryProofs.** `FanoutInv`: a fan-out has one send per client, all as old as the
  fan-out; the clock stops at their deadline. `LateInv`: a send to a client that has left
  is the first since it left. `OrderInv`: ids written to a client are below the one in
  its send, that one below those on the queue. `RegistryInv`: a client is owed what it is
  registered for, so the snapshot of `_handle_message` has it.
* **LifecycleProofs.** `LoopInv`, `ResubscribingInv`, `HeartbeatInv` say where the connect
  loop and each heartbeat may be; a heartbeat's remaining sleep and the length of an
  outage add up to no more than the interval, whence `HeartbeatsEnd`. `PingInv`: while
  the client listens, the last connection's heartbeat lives, and its sleep and the time
  since the last ping are bounded together; whence `KeptAlive`. `ServerInv` says for each
  phase of `main` what runs. `BackoffCountsFailures`: the delay follows the powers of the
  multiplier up to the cap, and stays there (`GrowthIsCapped`). That the recursive function
  `Power` has the values it should (`PowerIs`) needs an induction; it is made as an
  argument about the least number for which it fails (`LeastNatural`), since the library's
  induction theorems cannot be instantiated.

Only model-checked: the five liveness properties (`TrackedBecomesLive`, `InFlightEnds`,
`ClosedIsTornDown`, `OwedIsWritten`, `ShutdownEnds`), which rest on fairness, out of this
prover's reach. Every invariant and every action property of the runs is stated by a
theorem.

## 5. Not modelled

* The fields of a relayed kline and trade: they are renamed one by one. Only the first
  candle of a message is relayed, which is modelled.
* A subscription that Bybit refuses is only logged (`bybit_client.py:212`): every frame is
  taken to be accepted.
* HTTP endpoints, metrics, logging, configuration, the script `connect_ws.py`: they read
  other components' state or set constants.
* Answers to a client's requests: nothing is decided on them.
* A signal during startup, which kills the process.
* `send_to_client`, `broadcast`, `RedisRetryMixin`, `make_topic_for_kline`, the read-only
  queries of `subscriptions.py`: nothing calls them.
* External code, modelled from how this code uses it: redis-py (which channels it
  resubscribes, that `listen()` ends without channels), the websockets server (a handler
  per connection, waited for when the server is left), Bybit (the topics of a connection,
  deltas of a ticker).

## 6. What could come next

* `ClientHandler` over `Feeds` and an abstract pool in place of its one-step calls. `Feeds`
  says already what its steps in Pub/Sub may be (a call is one step, only the first client
  of a channel can get an exception from `subscribe`, a client that quits is off the channel
  whether the call raises or not); of the pool there is no abstract specification yet.
* Several processes on one Redis: the counts are shared, the marks and the pools are not.

## 7. Running

`tlc -workers 2 -config <run>.cfg <module>.tla` with the module `PROJECT.json` names for
the run, and `tlapm <module>Proofs.tla`. Every run ends within about two and a half minutes.
