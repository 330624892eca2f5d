---------------------------- MODULE ClientHandler ----------------------------
(***************************************************************************)
(* The client side of the proxy: the connections that                      *)
(* app/websocket/manager.py tracks and the handler of each client,         *)
(* app/websocket/handler.py.                                               *)
(*                                                                         *)
(* A handler is a coroutine of its own.  It suspends in every call to the  *)
(* counts, to Pub/Sub and to the pool; each of these calls is one step     *)
(* here, and modules SubscriptionManager, PubSubManager and UpstreamPool   *)
(* say what happens inside.  A call to Pub/Sub is what it is in module     *)
(* Feeds.  Only Pub/Sub can raise: the counts and the Bybit client catch   *)
(* what fails below them.  The listener of Pub/Sub shares the event loop   *)
(* with the handlers and may block it for good.                            *)
(***************************************************************************)
EXTENDS Integers, FiniteSets

CONSTANTS
  Client,                        \* connections
  Stream,                        \* stream keys: "ticker:X", "kline:1m:X", ...
  NoStream,                      \* where a handler is busy with no stream
  Channel,                       \* "stream_type:symbol"
  ChannelOf,                     \* the channel of a stream key
  MAX_CLIENTS_TOTAL,             \* see config.py
  MAX_SUBSCRIPTIONS_PER_CLIENT,  \* see config.py
  AcceptSuspends,                \* websocket.accept() suspends (FastAPI only)
  MaxErrors                      \* bound on calls to Pub/Sub that raise

ASSUME ClientAssumption == IsFiniteSet(Client) /\ IsFiniteSet(Stream)
ASSUME NoStreamAssumption == NoStream \notin Stream
ASSUME ChannelAssumption == ChannelOf \in [Stream -> Channel]
ASSUME LimitsAssumption ==
  MAX_CLIENTS_TOTAL \in Nat /\ MAX_SUBSCRIPTIONS_PER_CLIENT \in Nat
ASSUME AcceptAssumption == AcceptSuspends \in BOOLEAN
ASSUME ErrorsAssumption == MaxErrors \in Nat

VARIABLES
  clients,    \* the keys of manager._clients
  tracked,    \* tracked[c]: ClientState.subscriptions
  keys,       \* keys[c]: _subscribed_keys of the handler
  handler,    \* handler[c]: the call the handler of c is suspended in
  socket,     \* socket[c]: the connection is open
  idle,       \* clients with no activity for CLIENT_IDLE_TIMEOUT
  sweep,      \* clients cleanup_idle has found idle and not closed yet
  count,      \* the counts in Redis
  callbacks,  \* callbacks[ch]: clients Pub/Sub calls for a message
  listener,   \* the task of PubSubManager._listen
  errors      \* calls to Pub/Sub that have raised

managerVars == <<clients, tracked>>
idleVars == <<idle, sweep>>
pubsubVars == <<listener, errors>>
vars == <<managerVars, keys, handler, socket, idleVars, count, callbacks, pubsubVars>>

(***************************************************************************)
(* "new": not connected; "accepting": past the limit check; "receiving":   *)
(* waiting for a message.  "subscribing", "unsubscribing" and "cleaning"   *)
(* are the loops over the streams in todo.                                 *)
(* "registering" and "unregistering" are in Pub/Sub, "ensuring" and        *)
(* "releasing" in the pool, for one stream; "leaving" is in                *)
(* unsubscribe_client and "disconnecting" in disconnect.                   *)
(***************************************************************************)
Place ==
  {"new", "accepting", "receiving", "subscribing", "registering", "ensuring",
   "unsubscribing", "unregistering", "releasing", "cleaning", "leaving", "disconnecting",
   "gone"}

TypeOK ==
  /\ clients \subseteq Client
  /\ tracked \in [Client -> SUBSET Stream]
  /\ keys \in [Client -> SUBSET Stream]
  /\ handler \in [Client -> [at : Place, stream : Stream \cup {NoStream},
                            todo : SUBSET Stream]]
  /\ socket \in [Client -> BOOLEAN]
  /\ idle \subseteq Client
  /\ sweep \subseteq Client
  /\ count \in [Channel -> Nat]
  /\ callbacks \in [Channel -> SUBSET Client]
  /\ listener \in {"unstarted", "listening", "spinning"}
  /\ errors \in 0..MaxErrors

Init ==
  /\ clients = {}
  /\ tracked = [c \in Client |-> {}]
  /\ keys = [c \in Client |-> {}]
  /\ handler = [c \in Client |-> [at |-> "new", stream |-> NoStream, todo |-> {}]]
  /\ socket = [c \in Client |-> FALSE]
  /\ idle = {}
  /\ sweep = {}
  /\ count = [ch \in Channel |-> 0]
  /\ callbacks = [ch \in Channel |-> {}]
  /\ listener = "unstarted"
  /\ errors = 0

At(c, place) == handler[c].at = place

Goto(c, place) ==
  handler' = [handler EXCEPT ![c] = [at |-> place, stream |-> NoStream, todo |-> {}]]

Loop(c, place, args) ==
  handler' = [handler EXCEPT ![c] = [at |-> place, stream |-> NoStream, todo |-> args]]

(***************************************************************************)
(* On to the call for st, or on to the next call for the same stream.      *)
(***************************************************************************)
Take(c, place, st) ==
  handler' = [handler EXCEPT ![c] =
                [at |-> place, stream |-> st, todo |-> @.todo \ {st}]]

Continue(c, place) ==
  handler' = [handler EXCEPT ![c] =
                [at |-> place, stream |-> @.stream, todo |-> @.todo]]

Here(c) == ChannelOf[handler[c].stream]

Raise == errors < MaxErrors /\ errors' = errors + 1 /\ UNCHANGED listener

-----------------------------------------------------------------------------
(***************************************************************************)
(* ConnectionManager                                                       *)
(***************************************************************************)
Registered(c) ==
  /\ clients' = clients \cup {c}
  /\ tracked' = [tracked EXCEPT ![c] = {}]
  /\ socket' = [socket EXCEPT ![c] = TRUE]
  /\ Goto(c, "receiving")
  /\ UNCHANGED <<keys, idleVars, count, callbacks, pubsubVars>>

(***************************************************************************)
(* connect: the limit is checked before accept(), the client is inserted   *)
(* after it.                                                               *)
(***************************************************************************)
Connect(c) ==
  /\ At(c, "new")
  /\ Cardinality(clients) < MAX_CLIENTS_TOTAL
  /\ IF AcceptSuspends
     THEN /\ Goto(c, "accepting")
          /\ UNCHANGED <<managerVars, keys, socket, idleVars, count, callbacks, pubsubVars>>
     ELSE Registered(c)

Accepted(c) == At(c, "accepting") /\ Registered(c)

(***************************************************************************)
(* add_subscription                                                        *)
(***************************************************************************)
AddSubscription(c, st) ==
  IF c \in clients /\ Cardinality(tracked[c]) < MAX_SUBSCRIPTIONS_PER_CLIENT
  THEN tracked' = [tracked EXCEPT ![c] = @ \cup {st}] /\ idle' = idle \ {c}
  ELSE UNCHANGED <<tracked, idle>>

RemoveSubscription(c, st) ==
  IF c \in clients
  THEN tracked' = [tracked EXCEPT ![c] = @ \ {st}] /\ idle' = idle \ {c}
  ELSE UNCHANGED <<tracked, idle>>

(***************************************************************************)
(* Time passes without any activity of c.                                  *)
(***************************************************************************)
BecomeIdle(c) ==
  /\ c \in clients \ idle
  /\ idle' = idle \cup {c}
  /\ UNCHANGED <<managerVars, keys, handler, socket, sweep, count, callbacks, pubsubVars>>

(***************************************************************************)
(* cleanup_idle makes its list, then closes the connections in it one by   *)
(* one, waiting for each.                                                  *)
(***************************************************************************)
FindIdle ==
  /\ sweep = {}
  /\ clients \cap idle # {}
  /\ sweep' = clients \cap idle
  /\ UNCHANGED <<managerVars, keys, handler, socket, idle, count, callbacks, pubsubVars>>

CloseIdle(c) ==
  /\ c \in sweep
  /\ sweep' = sweep \ {c}
  /\ socket' = IF c \in clients THEN [socket EXCEPT ![c] = FALSE] ELSE socket
  /\ UNCHANGED <<managerVars, keys, handler, idle, count, callbacks, pubsubVars>>

(***************************************************************************)
(* The client, the network, or three failed sends in a row close the       *)
(* connection: from here on receive_text() raises.                         *)
(***************************************************************************)
Close(c) ==
  /\ socket[c]
  /\ socket' = [socket EXCEPT ![c] = FALSE]
  /\ UNCHANGED <<managerVars, keys, handler, idleVars, count, callbacks, pubsubVars>>

-----------------------------------------------------------------------------
(***************************************************************************)
(* _handle_subscribe                                                       *)
(***************************************************************************)

(***************************************************************************)
(* Mutant: the limit is off by one.                                        *)
(***************************************************************************)
ReceiveOneMore(c, place, args) ==
  /\ At(c, "receiving")
  /\ socket[c]
  /\ args # {}
  /\ idle' = idle \ {c}
  /\ IF /\ place = "subscribing"
        /\ Cardinality(keys[c]) + Cardinality(args) > MAX_SUBSCRIPTIONS_PER_CLIENT + 1
     THEN UNCHANGED handler
     ELSE Loop(c, place, args)
  /\ UNCHANGED <<managerVars, keys, socket, sweep, count, callbacks, pubsubVars>>

(***************************************************************************)
(* A message arrives; for "subscribe" the limit is checked on the whole    *)
(* request, before any stream is looked at.                                *)
(***************************************************************************)
Receive(c, place, args) ==
  /\ At(c, "receiving")
  /\ socket[c]
  /\ args # {}
  /\ idle' = idle \ {c}
  /\ IF /\ place = "subscribing"
        /\ Cardinality(keys[c]) + Cardinality(args) > MAX_SUBSCRIPTIONS_PER_CLIENT
     THEN UNCHANGED handler
     ELSE Loop(c, place, args)
  /\ UNCHANGED <<managerVars, keys, socket, sweep, count, callbacks, pubsubVars>>

(***************************************************************************)
(* The next stream: counted, unless the client has it already.             *)
(***************************************************************************)
SubscribeNext(c, st) ==
  /\ At(c, "subscribing")
  /\ st \in handler[c].todo
  /\ IF st \in keys[c]
     THEN Loop(c, "subscribing", handler[c].todo \ {st}) /\ UNCHANGED count
     ELSE /\ count' = [count EXCEPT ![ChannelOf[st]] = @ + 1]
          /\ Take(c, "registering", st)
  /\ UNCHANGED <<managerVars, keys, socket, idleVars, callbacks, pubsubVars>>

(***************************************************************************)
(* pubsub.subscribe, which starts the listener with the first channel.     *)
(***************************************************************************)
Register(c) ==
  /\ At(c, "registering")
  /\ callbacks' = [callbacks EXCEPT ![Here(c)] = @ \cup {c}]
  /\ listener' = IF listener = "unstarted" THEN "listening" ELSE listener
  /\ Continue(c, "ensuring")
  /\ UNCHANGED <<managerVars, keys, socket, idleVars, count, errors>>

(***************************************************************************)
(* pubsub.subscribe raises, which only the first client of a channel can   *)
(* meet: the exception ends the whole request.                             *)
(***************************************************************************)
RegisterRaises(c) ==
  /\ At(c, "registering")
  /\ callbacks[Here(c)] = {}
  /\ Raise
  /\ Goto(c, "receiving")
  /\ UNCHANGED <<managerVars, keys, socket, idleVars, count, callbacks>>

(***************************************************************************)
(* ensure_subscribed has returned: the stream becomes the client's.        *)
(***************************************************************************)
Subscribed(c) ==
  /\ At(c, "ensuring")
  /\ keys' = [keys EXCEPT ![c] = @ \cup {handler[c].stream}]
  /\ AddSubscription(c, handler[c].stream)
  /\ Loop(c, "subscribing", handler[c].todo)
  /\ UNCHANGED <<clients, socket, sweep, count, callbacks, pubsubVars>>

(***************************************************************************)
(* No stream is left: the response is sent.  A send that raises is only    *)
(* logged.                                                                 *)
(***************************************************************************)
Respond(c) ==
  /\ At(c, "subscribing") \/ At(c, "unsubscribing")
  /\ handler[c].todo = {}
  /\ Goto(c, "receiving")
  /\ UNCHANGED <<managerVars, keys, socket, idleVars, count, callbacks, pubsubVars>>

-----------------------------------------------------------------------------
(***************************************************************************)
(* _handle_unsubscribe                                                     *)
(***************************************************************************)

(***************************************************************************)
(* decrement removes a count that reaches zero.                            *)
(***************************************************************************)
Decrement(ch) ==
  count' = [count EXCEPT ![ch] = IF @ > 1 THEN @ - 1 ELSE 0]

UnsubscribeNext(c, st) ==
  /\ At(c, "unsubscribing")
  /\ st \in handler[c].todo
  /\ IF st \in keys[c]
     THEN Decrement(ChannelOf[st]) /\ Take(c, "unregistering", st)
     ELSE UNCHANGED count /\ Loop(c, "unsubscribing", handler[c].todo \ {st})
  /\ UNCHANGED <<managerVars, keys, socket, idleVars, callbacks, pubsubVars>>

(***************************************************************************)
(* Mutant: the channel goes with its first client.                         *)
(***************************************************************************)
UnregisterEveryone(c) ==
  /\ At(c, "unregistering")
  /\ callbacks' = [callbacks EXCEPT ![Here(c)] = {}]
  /\ Continue(c, "releasing")
  /\ UNCHANGED <<managerVars, keys, socket, idleVars, count, pubsubVars>>

Unregister(c) ==
  /\ At(c, "unregistering")
  /\ callbacks' = [callbacks EXCEPT ![Here(c)] = @ \ {c}]
  /\ Continue(c, "releasing")
  /\ UNCHANGED <<managerVars, keys, socket, idleVars, count, pubsubVars>>

(***************************************************************************)
(* pubsub.unsubscribe raises for the last client of a channel, whose       *)
(* callback is gone by then; the stream stays in _subscribed_keys.         *)
(***************************************************************************)
UnregisterRaises(c) ==
  /\ At(c, "unregistering")
  /\ callbacks[Here(c)] = {c}
  /\ Raise
  /\ callbacks' = [callbacks EXCEPT ![Here(c)] = {}]
  /\ Goto(c, "receiving")
  /\ UNCHANGED <<managerVars, keys, socket, idleVars, count>>

(***************************************************************************)
(* Mutant: the manager is not told.                                        *)
(***************************************************************************)
UnsubscribedUntold(c) ==
  /\ At(c, "releasing")
  /\ keys' = [keys EXCEPT ![c] = @ \ {handler[c].stream}]
  /\ Loop(c, "unsubscribing", handler[c].todo)
  /\ UNCHANGED <<managerVars, socket, idleVars, count, callbacks, pubsubVars>>

Unsubscribed(c) ==
  /\ At(c, "releasing")
  /\ keys' = [keys EXCEPT ![c] = @ \ {handler[c].stream}]
  /\ RemoveSubscription(c, handler[c].stream)
  /\ Loop(c, "unsubscribing", handler[c].todo)
  /\ UNCHANGED <<clients, socket, sweep, count, callbacks, pubsubVars>>

-----------------------------------------------------------------------------
(***************************************************************************)
(* Mutant: an idle close leaves the teardown to disconnect().              *)
(***************************************************************************)
CleanupOfOthers(c) ==
  /\ At(c, "receiving")
  /\ ~socket[c]
  /\ c \notin idle
  /\ Loop(c, "cleaning", keys[c])
  /\ UNCHANGED <<managerVars, keys, socket, idleVars, count, callbacks, pubsubVars>>

(***************************************************************************)
(* Mutant: the set is cleared before the loop over it.                     *)
(***************************************************************************)
CleanupClearsFirst(c) ==
  /\ At(c, "receiving")
  /\ ~socket[c]
  /\ keys' = [keys EXCEPT ![c] = {}]
  /\ Loop(c, "cleaning", {})
  /\ UNCHANGED <<managerVars, socket, idleVars, count, callbacks, pubsubVars>>

(***************************************************************************)
(* _cleanup, once receive_text() has raised                                *)
(***************************************************************************)
Cleanup(c) ==
  /\ At(c, "receiving")
  /\ ~socket[c]
  /\ Loop(c, "cleaning", keys[c])
  /\ UNCHANGED <<managerVars, keys, socket, idleVars, count, callbacks, pubsubVars>>

(***************************************************************************)
(* The next stream is discounted, and ensure_unsubscribed runs.            *)
(***************************************************************************)
CleanupNext(c, st) ==
  /\ At(c, "cleaning")
  /\ st \in handler[c].todo
  /\ Decrement(ChannelOf[st])
  /\ Loop(c, "cleaning", handler[c].todo \ {st})
  /\ UNCHANGED <<managerVars, keys, socket, idleVars, callbacks, pubsubVars>>

CleanupClears(c) ==
  /\ At(c, "cleaning")
  /\ handler[c].todo = {}
  /\ keys' = [keys EXCEPT ![c] = {}]
  /\ Goto(c, "leaving")
  /\ UNCHANGED <<managerVars, socket, idleVars, count, callbacks, pubsubVars>>

Forget(c) == callbacks' = [ch \in Channel |-> callbacks[ch] \ {c}]

(***************************************************************************)
(* Mutant: the callbacks are left behind.                                  *)
(***************************************************************************)
LeaveRegistered(c) ==
  /\ At(c, "leaving")
  /\ Goto(c, "disconnecting")
  /\ UNCHANGED <<managerVars, keys, socket, idleVars, count, callbacks, pubsubVars>>

Leave(c) ==
  /\ At(c, "leaving")
  /\ Forget(c)
  /\ Goto(c, "disconnecting")
  /\ UNCHANGED <<managerVars, keys, socket, idleVars, count, pubsubVars>>

(***************************************************************************)
(* unsubscribe_client raises when it empties a channel; disconnect is not  *)
(* reached.                                                                *)
(***************************************************************************)
LeaveRaises(c) ==
  /\ At(c, "leaving")
  /\ \E ch \in Channel : callbacks[ch] = {c}
  /\ Raise
  /\ Forget(c)
  /\ Goto(c, "gone")
  /\ UNCHANGED <<managerVars, keys, socket, idleVars, count>>

Disconnect(c) ==
  /\ At(c, "disconnecting")
  /\ clients' = clients \ {c}
  /\ idle' = idle \ {c}
  /\ Goto(c, "gone")
  /\ UNCHANGED <<tracked, keys, socket, sweep, count, callbacks, pubsubVars>>

(***************************************************************************)
(* A new connection may get the id of one that nothing refers to any more; *)
(* cleanup_idle's list holds ids only.                                     *)
(***************************************************************************)
Return(c) ==
  /\ At(c, "gone")
  /\ c \notin clients
  /\ Goto(c, "new")
  /\ UNCHANGED <<managerVars, keys, socket, idleVars, count, callbacks, pubsubVars>>

-----------------------------------------------------------------------------
(***************************************************************************)
(* Once no channel is subscribed the listener spins and never suspends     *)
(* again (see ListenEnds of module PubSubManager), so that no handler goes *)
(* on.  After a call that raised, Redis may feed other channels than those *)
(* that have callbacks.  Spin keeps a blocked event loop from looking like *)
(* a deadlock.                                                             *)
(***************************************************************************)
ListenEnds ==
  /\ listener = "listening"
  /\ errors > 0 \/ \A ch \in Channel : callbacks[ch] = {}
  /\ listener' = "spinning"
  /\ UNCHANGED <<managerVars, keys, handler, socket, idleVars, count, callbacks, errors>>

EventLoopBlocked == listener = "spinning"

Spin == EventLoopBlocked /\ UNCHANGED vars

-----------------------------------------------------------------------------
Progress(c) ==
  \/ Accepted(c)
  \/ \E st \in Stream :
       SubscribeNext(c, st) \/ UnsubscribeNext(c, st) \/ CleanupNext(c, st)
  \/ Register(c) \/ RegisterRaises(c) \/ Subscribed(c)
  \/ Unregister(c) \/ UnregisterRaises(c) \/ Unsubscribed(c)
  \/ Respond(c)
  \/ Cleanup(c) \/ CleanupClears(c) \/ Leave(c) \/ LeaveRaises(c)
  \/ Disconnect(c)

Environment(c) ==
  \/ Connect(c) \/ Return(c) \/ Close(c) \/ BecomeIdle(c)
  \/ \E place \in {"subscribing", "unsubscribing"}, args \in SUBSET Stream :
       Receive(c, place, args)

TaskRuns ==
  \/ \E c \in Client : Progress(c)
  \/ \E c \in Client : Environment(c)
  \/ FindIdle
  \/ \E c \in Client : CloseIdle(c)
  \/ ListenEnds

Next == (~EventLoopBlocked /\ TaskRuns) \/ Spin

Spec == Init /\ [][Next]_vars

(***************************************************************************)
(* A handler goes on when the call it waits for returns, as long as the    *)
(* event loop is not blocked.                                              *)
(***************************************************************************)
FairSpec == Spec /\ \A c \in Client : WF_vars(~EventLoopBlocked /\ Progress(c))

-----------------------------------------------------------------------------
(***************************************************************************)
(* Properties                                                              *)
(***************************************************************************)

(***************************************************************************)
(* The uses of a channel that have been counted and not discounted.        *)
(***************************************************************************)
Counted(c, st) ==
  \/ /\ st \in keys[c]
     /\ ~(handler[c].at \in {"unregistering", "releasing"} /\ handler[c].stream = st)
     /\ At(c, "cleaning") => st \in handler[c].todo
  \/ handler[c].at \in {"registering", "ensuring"} /\ handler[c].stream = st

Uses(ch) ==
  {u \in Client \X Stream : ChannelOf[u[2]] = ch /\ Counted(u[1], u[2])}

(***************************************************************************)
(* Whatever requests, disconnects and idle closes overlap, every use of a  *)
(* channel is counted once and discounted once, but for the calls to       *)
(* Pub/Sub that raised: each puts the count wrong by at most one, up when  *)
(* the stream it counted is not recorded, down when the stream it          *)
(* discounted stays in _subscribed_keys and is discounted again.           *)
(***************************************************************************)
CountsMatchHandlers ==
  \A ch \in Channel : count[ch] - Cardinality(Uses(ch)) \in -errors..errors

(***************************************************************************)
(* The manager and the handler agree on a client's streams between two     *)
(* requests, and the client is within its limit.                           *)
(***************************************************************************)
ManagerAgrees ==
  \A c \in Client :
    At(c, "receiving") =>
      /\ tracked[c] = keys[c]
      /\ Cardinality(keys[c]) <= MAX_SUBSCRIPTIONS_PER_CLIENT

(***************************************************************************)
(* Pub/Sub never calls a handler that has ended, even when it raised.      *)
(***************************************************************************)
GoneIsSilent ==
  \A c \in Client : handler[c].at \in {"new", "gone"} =>
    \A ch \in Channel : c \notin callbacks[ch]

(***************************************************************************)
(* A stream the client was told it has is fed by its channel.              *)
(***************************************************************************)
StreamIsFed ==
  errors = 0 =>
    \A c \in Client : At(c, "receiving") =>
      \A st \in keys[c] : c \in callbacks[ChannelOf[st]]

(***************************************************************************)
(* "handler runs full teardown": the connection of a client that is        *)
(* closed, whatever its handler was doing then, leaves the manager and     *)
(* every channel, unless Pub/Sub raised or the event loop got blocked.     *)
(* The second may happen to the last client on any channel in the middle   *)
(* of giving it up, and its connection stays in the manager then.          *)
(***************************************************************************)
TornDown(c) == c \notin clients /\ \A ch \in Channel : c \notin callbacks[ch]

ClosedIsTornDown ==
  \A c \in Client :
    (c \in clients /\ ~socket[c]) ~> (TornDown(c) \/ errors > 0 \/ EventLoopBlocked)

(***************************************************************************)
(* The inductive invariant.  Away is where a handler has no connection to  *)
(* serve; Wanted are the streams of a client, with those its request may   *)
(* still add.                                                              *)
(***************************************************************************)
Away == {"new", "accepting", "disconnecting", "gone"}

Adding == {"registering", "ensuring"}

Wanted(c) ==
  keys[c] \cup
    {st \in Stream :
       \/ handler[c].at \in {"subscribing"} \cup Adding /\ st \in handler[c].todo
       \/ handler[c].at \in Adding /\ st = handler[c].stream}

ServedIsRegistered ==
  \A c \in Client :
    handler[c].at \notin {"new", "accepting", "gone"} => c \in clients

KeysTracked ==
  \A c \in Client :
    IF handler[c].at \in Away \cup {"leaving"}
    THEN keys[c] = {} ELSE tracked[c] = keys[c]

WithinLimit ==
  \A c \in Client : Cardinality(Wanted(c)) <= MAX_SUBSCRIPTIONS_PER_CLIENT

StreamInHand ==
  \A c \in Client :
    /\ handler[c].at \in Adding => handler[c].stream \in Stream \ keys[c]
    /\ handler[c].at \in {"unregistering", "releasing"}
         => handler[c].stream \in keys[c]
    /\ At(c, "cleaning") => handler[c].todo \subseteq keys[c]

AwayIsSilent ==
  \A c \in Client, ch \in Channel :
    c \in callbacks[ch] => handler[c].at \notin Away

HandlerInv ==
  /\ TypeOK
  /\ ServedIsRegistered
  /\ KeysTracked
  /\ WithinLimit
  /\ StreamInHand
  /\ AwayIsSilent

=============================================================================
