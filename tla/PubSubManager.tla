---------------------------- MODULE PubSubManager ----------------------------
(***************************************************************************)
(* The Redis Pub/Sub manager of one proxy process, app/redis/pubsub.py.    *)
(*                                                                         *)
(* Every coroutine of the process runs on one event loop, so a piece of    *)
(* code between two awaits that really suspend is one action.  The manager *)
(* suspends while it holds self._lock and waits for a SUBSCRIBE or an      *)
(* UNSUBSCRIBE to be sent to Redis; the call that waits is in held.        *)
(* Acquiring the lock is not a step of its own: a call starts when the     *)
(* lock is free.                                                           *)
(***************************************************************************)
EXTENDS Naturals

CONSTANTS
  Client,               \* client ids
  Channel,              \* Redis channels, one per (stream_type, symbol)
  LISTENER_MAX_RETRIES  \* errors the listener survives (10 in the code)

ASSUME RetriesAssumption == LISTENER_MAX_RETRIES \in Nat \ {0}

VARIABLES
  channels,          \* the keys of self._subscriptions
  callbacks,         \* callbacks[ch]: the clients in self._subscriptions[ch]
  redisChannels,     \* channels the pubsub connection is subscribed to
  held,              \* the call that holds self._lock across an await, if any
  running,           \* self._running
  pubsubOpen,        \* self._pubsub is not None
  listener,          \* where the _listen task is
  retries,           \* self._listener_retries
  failedSubscribe,   \* channels whose last SUBSCRIBE raised (history)
  failedUnsubscribe  \* channels whose teardown an error cut short (history)

registryVars == <<channels, callbacks, redisChannels, held>>
listenerVars == <<listener, retries>>
lifeVars     == <<running, pubsubOpen>>
historyVars  == <<failedSubscribe, failedUnsubscribe>>
vars == <<registryVars, listenerVars, lifeVars, historyVars>>

Call == [op : {"subscribe", "unsubscribe", "leave"}, client : Client,
         ch : Channel, rest : SUBSET Channel]

(***************************************************************************)
(* "paused" is the sleep after an error; "spinning" is the while loop of   *)
(* _listen going round without ever suspending; "stopped" is the task that *)
(* stop() cancelled and forgot, "ended" one that was started too late.     *)
(***************************************************************************)
ListenerState ==
  {"unstarted", "listening", "paused", "spinning", "degraded", "stopped",
   "ended"}

TypeOK ==
  /\ channels \subseteq Channel
  /\ callbacks \in [Channel -> SUBSET Client]
  /\ redisChannels \subseteq Channel
  /\ held \subseteq Call
  /\ running \in BOOLEAN
  /\ pubsubOpen \in BOOLEAN
  /\ listener \in ListenerState
  /\ retries \in 0..LISTENER_MAX_RETRIES
  /\ failedSubscribe \subseteq Channel
  /\ failedUnsubscribe \subseteq Channel

(***************************************************************************)
(* The state after start(): connected to Redis, no channel, no listener.   *)
(***************************************************************************)
Init ==
  /\ channels = {}
  /\ callbacks = [ch \in Channel |-> {}]
  /\ redisChannels = {}
  /\ held = {}
  /\ running = TRUE
  /\ pubsubOpen = TRUE
  /\ listener = "unstarted"
  /\ retries = 0
  /\ failedSubscribe = {}
  /\ failedUnsubscribe = {}

-----------------------------------------------------------------------------
(***************************************************************************)
(* subscribe                                                               *)
(***************************************************************************)
Unlocked == held = {}

Suspend(op, c, ch, rest) ==
  held' = held \cup {[op |-> op, client |-> c, ch |-> ch, rest |-> rest]}

(***************************************************************************)
(* Mutant: subscribe does not take the lock.                               *)
(***************************************************************************)
SubscribeUnlocked(c, ch) ==
  /\ channels' = channels \cup {ch}
  /\ IF ch \notin channels /\ pubsubOpen
     THEN Suspend("subscribe", c, ch, {}) /\ UNCHANGED callbacks
     ELSE /\ callbacks' = [callbacks EXCEPT ![ch] = @ \cup {c}]
          /\ UNCHANGED held
  /\ UNCHANGED <<redisChannels, listenerVars, lifeVars, historyVars>>

(***************************************************************************)
(* subscribe up to its first suspension.  The key is inserted before the   *)
(* SUBSCRIBE is sent; a known channel is joined at once.                   *)
(***************************************************************************)
Subscribe(c, ch) ==
  /\ Unlocked
  /\ channels' = channels \cup {ch}
  /\ IF ch \notin channels /\ pubsubOpen
     THEN Suspend("subscribe", c, ch, {}) /\ UNCHANGED callbacks
     ELSE /\ callbacks' = [callbacks EXCEPT ![ch] = @ \cup {c}]
          /\ UNCHANGED held
  /\ UNCHANGED <<redisChannels, listenerVars, lifeVars, historyVars>>

(***************************************************************************)
(* The SUBSCRIBE went through: start the listener on the first one,        *)
(* register the callback, release the lock.                                *)
(***************************************************************************)
SubscribeDone(call) ==
  /\ call.op = "subscribe"
  /\ pubsubOpen
  /\ redisChannels' = redisChannels \cup {call.ch}
  /\ listener' = IF listener # "unstarted" THEN listener
                 ELSE IF running THEN "listening" ELSE "ended"
  /\ callbacks' = [callbacks EXCEPT ![call.ch] = @ \cup {call.client}]
  /\ held' = held \ {call}
  /\ failedSubscribe' = failedSubscribe \ {call.ch}
  /\ failedUnsubscribe' = failedUnsubscribe \ {call.ch}
  /\ UNCHANGED <<channels, retries, lifeVars>>

(***************************************************************************)
(* The SUBSCRIBE raised, or stop() cleared the dict while it was sent (a   *)
(* listener created then finds the manager stopped): the lock is released, *)
(* the exception reaches the caller, and the key stays.                    *)
(***************************************************************************)
SubscribeRaises(call) ==
  /\ call.op = "subscribe"
  /\ held' = held \ {call}
  /\ failedSubscribe' = failedSubscribe \cup {call.ch}
  /\ \/ UNCHANGED listener
     \/ ~pubsubOpen /\ listener = "unstarted" /\ listener' = "ended"
  /\ UNCHANGED <<channels, callbacks, redisChannels, retries, lifeVars,
                 failedUnsubscribe>>

-----------------------------------------------------------------------------
(***************************************************************************)
(* unsubscribe                                                             *)
(***************************************************************************)

(***************************************************************************)
(* Mutant: unsubscribe does not take the lock.                             *)
(***************************************************************************)
UnsubscribeUnlocked(c, ch) ==
  LET last == ch \in channels /\ callbacks[ch] \subseteq {c} IN
  /\ callbacks' = [callbacks EXCEPT ![ch] = @ \ {c}]
  /\ channels' = IF last THEN channels \ {ch} ELSE channels
  /\ IF last /\ pubsubOpen
     THEN Suspend("unsubscribe", c, ch, {}) ELSE UNCHANGED held
  /\ UNCHANGED <<redisChannels, listenerVars, lifeVars, historyVars>>

(***************************************************************************)
(* unsubscribe up to its first suspension.  Nothing happens for an unknown *)
(* channel; the last callback takes the key with it.                       *)
(***************************************************************************)
Unsubscribe(c, ch) ==
  LET last == ch \in channels /\ callbacks[ch] \subseteq {c} IN
  /\ Unlocked
  /\ callbacks' = [callbacks EXCEPT ![ch] = @ \ {c}]
  /\ channels' = IF last THEN channels \ {ch} ELSE channels
  /\ IF last /\ pubsubOpen
     THEN Suspend("unsubscribe", c, ch, {}) ELSE UNCHANGED held
  /\ UNCHANGED <<redisChannels, listenerVars, lifeVars, historyVars>>

UnsubscribeDone(call) ==
  /\ call.op = "unsubscribe"
  /\ redisChannels' = redisChannels \ {call.ch}
  /\ held' = held \ {call}
  /\ failedUnsubscribe' = failedUnsubscribe \ {call.ch}
  /\ UNCHANGED <<channels, callbacks, listenerVars, lifeVars, failedSubscribe>>

(***************************************************************************)
(* unsubscribe_client: drop the client everywhere, then delete the emptied *)
(* channels one by one, with one UNSUBSCRIBE each.                         *)
(***************************************************************************)
UnsubscribeClient(c) ==
  LET emptied == {ch \in channels : callbacks[ch] = {c}} IN
  /\ Unlocked
  /\ callbacks' = [ch \in Channel |-> callbacks[ch] \ {c}]
  /\ \/ /\ emptied = {} \/ ~pubsubOpen
        /\ channels' = channels \ emptied
        /\ UNCHANGED held
     \/ /\ pubsubOpen
        /\ \E ch \in emptied :
             /\ channels' = channels \ {ch}
             /\ Suspend("leave", c, ch, emptied \ {ch})
  /\ UNCHANGED <<redisChannels, listenerVars, lifeVars, historyVars>>

(***************************************************************************)
(* Mutant: unsubscribe_client stops after the first emptied channel.       *)
(***************************************************************************)
UnsubscribeClientStops(call) ==
  /\ call.op = "leave"
  /\ redisChannels' = redisChannels \ {call.ch}
  /\ failedUnsubscribe' = failedUnsubscribe \ {call.ch}
  /\ held' = held \ {call}
  /\ UNCHANGED <<channels, callbacks, listenerVars, lifeVars, failedSubscribe>>

(***************************************************************************)
(* One UNSUBSCRIBE of unsubscribe_client went through; go on with the next *)
(* emptied channel or release the lock.                                    *)
(***************************************************************************)
UnsubscribeClientNext(call) ==
  /\ call.op = "leave"
  /\ redisChannels' = redisChannels \ {call.ch}
  /\ failedUnsubscribe' = failedUnsubscribe \ {call.ch}
  /\ \/ /\ call.rest = {}
        /\ held' = held \ {call}
        /\ UNCHANGED channels
     \/ \E ch \in call.rest \cap channels :
          /\ channels' = channels \ {ch}
          /\ held' = (held \ {call}) \cup
                       {[op |-> "leave", client |-> call.client, ch |-> ch,
                         rest |-> call.rest \ {ch}]}
  /\ UNCHANGED <<callbacks, listenerVars, lifeVars, failedSubscribe>>

(***************************************************************************)
(* An UNSUBSCRIBE raised (or stop() cleared the dict meanwhile): the lock  *)
(* is released and the channels not reached yet stay as they are.          *)
(***************************************************************************)
UnsubscribeRaises(call) ==
  /\ call.op \in {"unsubscribe", "leave"}
  /\ held' = held \ {call}
  /\ failedUnsubscribe' = failedUnsubscribe \cup {call.ch} \cup call.rest
  /\ UNCHANGED <<channels, callbacks, redisChannels, listenerVars, lifeVars,
                 failedSubscribe>>

-----------------------------------------------------------------------------
(***************************************************************************)
(* The listener task                                                       *)
(***************************************************************************)

(***************************************************************************)
(* redis-py's PubSub.listen() is `while self.subscribed: ...`: once the    *)
(* last UNSUBSCRIBE is confirmed the async for ends, and the while loop    *)
(* around it starts over, ends again, and so on without suspending.  The   *)
(* confirmation may arrive before the coroutine that asked for it resumes. *)
(***************************************************************************)
ListenEnds ==
  /\ listener = "listening"
  /\ \A ch \in redisChannels :
       \E call \in held : call.ch = ch /\ call.op # "subscribe"
  /\ listener' = "spinning"
  /\ UNCHANGED <<registryVars, retries, lifeVars, historyVars>>

ListenerRedisError ==
  /\ listener = "listening"
  /\ listener' = "paused"
  /\ UNCHANGED <<registryVars, retries, lifeVars, historyVars>>

(***************************************************************************)
(* Mutant: the listener never gives up.                                    *)
(***************************************************************************)
ListenerErrorForever ==
  /\ listener = "listening"
  /\ retries' = retries + 1
  /\ listener' = "paused"
  /\ UNCHANGED <<registryVars, lifeVars, historyVars>>

(***************************************************************************)
(* Any other exception counts against LISTENER_MAX_RETRIES; no success     *)
(* ever resets the count.                                                  *)
(***************************************************************************)
ListenerError ==
  /\ listener = "listening"
  /\ retries' = retries + 1
  /\ listener' = IF retries' >= LISTENER_MAX_RETRIES THEN "degraded"
                 ELSE "paused"
  /\ UNCHANGED <<registryVars, lifeVars, historyVars>>

ListenerResumes ==
  /\ listener = "paused"
  /\ listener' = "listening"
  /\ UNCHANGED <<registryVars, retries, lifeVars, historyVars>>

(***************************************************************************)
(* is_listener_healthy, as GET /health reports it.                         *)
(***************************************************************************)
IsListenerHealthy == listener \notin {"degraded", "ended"}

-----------------------------------------------------------------------------
(***************************************************************************)
(* stop(): first cancel the listener, then close the connection and clear  *)
(* the dict.  It does not take the lock.                                   *)
(***************************************************************************)
Stop ==
  /\ running
  /\ running' = FALSE
  /\ listener' = IF listener \in {"unstarted", "degraded"} THEN listener
                 ELSE "stopped"
  /\ UNCHANGED <<registryVars, retries, pubsubOpen, historyVars>>

StopClosed ==
  /\ ~running
  /\ pubsubOpen
  /\ pubsubOpen' = FALSE
  /\ redisChannels' = {}
  /\ channels' = {}
  /\ callbacks' = [ch \in Channel |-> {}]
  /\ UNCHANGED <<held, listenerVars, running, historyVars>>

-----------------------------------------------------------------------------
(***************************************************************************)
(* Nothing else runs once a task never suspends again; Spin keeps such a   *)
(* state from looking like a deadlock.                                     *)
(***************************************************************************)
EventLoopBlocked == listener = "spinning"

Spin == EventLoopBlocked /\ UNCHANGED vars

Operation ==
  \E c \in Client :
    \/ \E ch \in Channel : Subscribe(c, ch) \/ Unsubscribe(c, ch)
    \/ UnsubscribeClient(c)

Resumption ==
  \E call \in held :
    \/ SubscribeDone(call) \/ SubscribeRaises(call)
    \/ UnsubscribeDone(call) \/ UnsubscribeClientNext(call)
    \/ UnsubscribeRaises(call)

Listener ==
  ListenEnds \/ ListenerRedisError \/ ListenerError \/ ListenerResumes

Next ==
  \/ ~EventLoopBlocked /\ Operation
  \/ ~EventLoopBlocked /\ Resumption
  \/ ~EventLoopBlocked /\ Listener
  \/ ~EventLoopBlocked /\ (Stop \/ StopClosed)
  \/ Spin

Spec == Init /\ [][Next]_vars

-----------------------------------------------------------------------------
(***************************************************************************)
(* Properties                                                              *)
(***************************************************************************)

(***************************************************************************)
(* While no call holds the lock, every channel the manager knows is fed by *)
(* Redis, except the ones whose last SUBSCRIBE raised.  subscribe() relies *)
(* on it when it joins a known channel without talking to Redis.           *)
(***************************************************************************)
FedUnlessFailed ==
  (Unlocked /\ pubsubOpen) => channels \ redisChannels \subseteq failedSubscribe

(***************************************************************************)
(* Redis sends nothing for a channel nobody listens to, except where an    *)
(* UNSUBSCRIBE raised: the dict and the connection do not drift apart.     *)
(***************************************************************************)
NoOrphanFeed ==
  Unlocked => redisChannels \ channels \subseteq failedUnsubscribe

(***************************************************************************)
(* A channel without a client leaves the dict, unless an error cut the     *)
(* call that opened or closed it short.                                    *)
(***************************************************************************)
NoIdleChannel ==
  Unlocked => \A ch \in channels :
                callbacks[ch] = {} => ch \in failedSubscribe \cup failedUnsubscribe

(***************************************************************************)
(* To its callers the manager is what module Feeds says, as if every call  *)
(* were one step, taken when the callbacks change: no client joins a       *)
(* channel that is being opened or closed by another call, and no feed     *)
(* ends under a client.                                                    *)
(***************************************************************************)
F == INSTANCE Feeds
       WITH clients <- callbacks, fed <- redisChannels,
            broken <- failedSubscribe, open <- pubsubOpen

ImplementsFeeds == F!Spec

(***************************************************************************)
(* What the call that holds the lock still owes to a channel.              *)
(***************************************************************************)
Opening(ch) == \E call \in held : call.op = "subscribe" /\ call.ch = ch
Closing(ch) == \E call \in held : call.op # "subscribe" /\ call.ch = ch
Emptied(ch) == \E call \in held : ch \in call.rest

LockExclusive == \A a, b \in held : a = b

CallbacksRegistered == \A ch \in Channel : callbacks[ch] # {} => ch \in channels

CallsInStep ==
  \A call \in held :
    /\ call.op = "subscribe" /\ pubsubOpen => call.ch \in channels
    /\ call.op # "leave" => call.rest = {}
    /\ call.op # "subscribe" => call.ch \notin channels
    /\ \A ch \in call.rest : callbacks[ch] = {}

RetriesLeft == listener # "degraded" => retries < LISTENER_MAX_RETRIES

FeedAccounted ==
  pubsubOpen => \A ch \in channels :
    ch \in redisChannels \/ ch \in failedSubscribe \/ Opening(ch)

OrphanAccounted ==
  /\ ~pubsubOpen => redisChannels = {}
  /\ \A ch \in redisChannels :
       ch \in channels \/ ch \in failedUnsubscribe \/ Closing(ch)

IdleAccounted ==
  \A ch \in channels :
    \/ callbacks[ch] # {}
    \/ ch \in failedSubscribe \cup failedUnsubscribe
    \/ Opening(ch) \/ Emptied(ch)

(***************************************************************************)
(* The inductive invariant: whoever holds the lock accounts for every      *)
(* difference between the dict, the callbacks and the Redis connection.    *)
(***************************************************************************)
RegistryInv ==
  /\ TypeOK
  /\ LockExclusive
  /\ CallbacksRegistered
  /\ CallsInStep
  /\ RetriesLeft
  /\ FeedAccounted
  /\ OrphanAccounted
  /\ IdleAccounted

(***************************************************************************)
(* "The listener never silently dies": while /health calls it healthy and  *)
(* the manager runs, the task can still read a message.                    *)
(***************************************************************************)
ListenerNeverSilentlyDies ==
  (running /\ IsListenerHealthy) => listener # "spinning"

=============================================================================
