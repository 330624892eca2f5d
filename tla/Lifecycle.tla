----------------------------- MODULE Lifecycle -----------------------------
(***************************************************************************)
(* The server from start to end: startup, main and shutdown of             *)
(* app/standalone_server.py (app/main.py has the same steps in lifespan),  *)
(* start and stop of the pool, the Pub/Sub manager and the Redis client,   *)
(* the periodic cleanup task, the handlers of the clients, the listener of *)
(* the Pub/Sub manager, and the connection of the Bybit client (module     *)
(* Reconnection).                                                          *)
(*                                                                         *)
(* The websockets server, and uvicorn for app/main.py, calls a handler for *)
(* each connection while it serves; when it is left it closes the          *)
(* connections and waits until every handler has returned.  A signal that  *)
(* arrives during startup kills the process and is left out.               *)
(***************************************************************************)
EXTENDS Reconnection

CONSTANT Client

VARIABLES
  phase,    \* where main() is
  redis,    \* the Redis client is open
  pubsub,   \* pubsub_manager._running
  pool,     \* upstream_pool._running
  clients,  \* the pool has its Bybit client in _clients
  created,  \* Bybit clients created so far
  cleanup,  \* the task of _periodic_cleanup
  handler,     \* handler[c]: where the handler of c is
  registered,  \* clients with a callback in the Pub/Sub manager
  listener     \* the task of PubSubManager._listen

serviceVars == <<redis, pubsub, pool, clients, created>>
callbackVars == <<registered, listener>>
serverVars == <<phase, serviceVars, cleanup, handler, callbackVars>>
vars == <<serverVars, connVars>>

Phases ==
  {"boot", "failed", "starting", "serving", "closing", "draining", "cancelling",
   "stopping pool", "stopping client", "stopping pubsub", "closing redis", "shut"}

TypeOK ==
  /\ ConnTypeOK
  /\ phase \in Phases
  /\ redis \in BOOLEAN /\ pubsub \in BOOLEAN /\ pool \in BOOLEAN /\ clients \in BOOLEAN
  /\ created \in Nat
  /\ cleanup \in {"none", "sleeping", "cleaning", "ended"}
  /\ handler \in [Client -> {"absent", "connected", "subscribing", "leaving"}]
  /\ registered \subseteq Client
  /\ listener \in {"unstarted", "listening", "spinning", "stopped"}

Init ==
  /\ ConnInit
  /\ phase = "boot"
  /\ redis = FALSE /\ pubsub = FALSE /\ pool = FALSE /\ clients = FALSE
  /\ created = 0
  /\ cleanup = "none"
  /\ handler = [c \in Client |-> "absent"]
  /\ registered = {} /\ listener = "unstarted"

Goes(from, to) == phase = from /\ phase' = to
Enters(c, from, to) == handler[c] = from /\ handler' = [handler EXCEPT ![c] = to]

-----------------------------------------------------------------------------
(***************************************************************************)
(* startup()                                                               *)
(***************************************************************************)
HealthCheckFails ==
  /\ Goes("boot", "failed")
  /\ redis' = TRUE
  /\ UNCHANGED <<pubsub, pool, clients, created, cleanup, handler, callbackVars, connVars>>

(***************************************************************************)
(* Once Redis has answered, nothing waits until cleanup_stale asks Redis   *)
(* again: the manager, the pool with its first client and the cleanup task *)
(* start in one step.                                                      *)
(***************************************************************************)
StartServices ==
  /\ Goes("boot", "starting")
  /\ redis' = TRUE /\ pubsub' = TRUE /\ pool' = TRUE
  /\ clients' = TRUE /\ created' = created + 1
  /\ Start
  /\ cleanup' = "sleeping"
  /\ UNCHANGED <<handler, callbackVars>>

StaleCleaned ==
  /\ Goes("starting", "serving")
  /\ UNCHANGED <<serviceVars, cleanup, handler, callbackVars, connVars>>

-----------------------------------------------------------------------------
(***************************************************************************)
(* The handlers, as far as they need the services                          *)
(***************************************************************************)
Accept(c) ==
  /\ phase = "serving"
  /\ Enters(c, "absent", "connected")
  /\ UNCHANGED <<phase, serviceVars, cleanup, callbackVars, connVars>>

(***************************************************************************)
(* A subscribe request, up to its call of the pool: Pub/Sub has the        *)
(* callback by then, and starts its listener with the first channel.       *)
(***************************************************************************)
Subscribe(c) ==
  /\ Enters(c, "connected", "subscribing")
  /\ registered' = registered \cup {c}
  /\ listener' = IF listener = "unstarted" THEN "listening" ELSE listener
  /\ UNCHANGED <<phase, serviceVars, cleanup, connVars>>

(***************************************************************************)
(* ensure_subscribed asks the pool for its client, and creates one when    *)
(* there is none.                                                          *)
(***************************************************************************)
EnsureSubscribed(c) ==
  /\ Enters(c, "subscribing", "connected")
  /\ clients' = TRUE
  /\ created' = IF clients THEN created ELSE created + 1
  /\ UNCHANGED <<phase, redis, pubsub, pool, cleanup, callbackVars, connVars>>

(***************************************************************************)
(* The connection is closed, by the client or the server; _cleanup begins. *)
(***************************************************************************)
Leave(c) ==
  /\ Enters(c, "connected", "leaving")
  /\ UNCHANGED <<phase, serviceVars, cleanup, callbackVars, connVars>>

(***************************************************************************)
(* The client gives up its last stream, or unsubscribe_client takes it out *)
(* of every channel in _cleanup.                                           *)
(***************************************************************************)
Unregister(c) ==
  /\ c \in registered
  /\ registered' = registered \ {c}
  /\ UNCHANGED <<phase, serviceVars, cleanup, handler, listener, connVars>>

Unsubscribe(c) == handler[c] = "connected" /\ Unregister(c)
UnsubscribeClient(c) == handler[c] = "leaving" /\ Unregister(c)

HandlerReturns(c) ==
  /\ c \notin registered
  /\ Enters(c, "leaving", "absent")
  /\ UNCHANGED <<phase, serviceVars, cleanup, callbackVars, connVars>>

-----------------------------------------------------------------------------
(***************************************************************************)
(* _periodic_cleanup: cleanup_idle closes the clients it finds idle.       *)
(***************************************************************************)
CleanupWakes ==
  /\ cleanup = "sleeping" /\ cleanup' = "cleaning"
  /\ UNCHANGED <<phase, serviceVars, handler, callbackVars, connVars>>

ClosesIdle(c) ==
  /\ cleanup = "cleaning"
  /\ Enters(c, "connected", "leaving")
  /\ UNCHANGED <<phase, serviceVars, cleanup, callbackVars, connVars>>

CleanupSleeps ==
  /\ cleanup = "cleaning" /\ cleanup' = "sleeping"
  /\ UNCHANGED <<phase, serviceVars, handler, callbackVars, connVars>>

-----------------------------------------------------------------------------
(***************************************************************************)
(* _listen, once no channel is subscribed: its loop never suspends again   *)
(* (see ListenEnds of module PubSubManager).  All of the process runs on   *)
(* one event loop, so nothing happens after that.                          *)
(***************************************************************************)
ListenEnds ==
  /\ listener = "listening" /\ registered = {}
  /\ listener' = "spinning"
  /\ UNCHANGED <<phase, serviceVars, cleanup, handler, registered, connVars>>

EventLoopBlocked == listener = "spinning"

-----------------------------------------------------------------------------
(***************************************************************************)
(* The end of main() and shutdown()                                        *)
(***************************************************************************)
Signal ==
  /\ Goes("serving", "closing")
  /\ UNCHANGED <<serviceVars, cleanup, handler, callbackVars, connVars>>

(***************************************************************************)
(* Mutant: shutdown() is called inside the block of serve().               *)
(***************************************************************************)
ShutdownInsideServe ==
  /\ Goes("closing", "draining")
  /\ UNCHANGED <<serviceVars, cleanup, handler, callbackVars, connVars>>

(***************************************************************************)
(* The block of serve() is left: its connections are closed and its        *)
(* handlers have returned.                                                 *)
(***************************************************************************)
ServerLeft ==
  /\ Goes("closing", "draining")
  /\ \A c \in Client : handler[c] = "absent"
  /\ UNCHANGED <<serviceVars, cleanup, handler, callbackVars, connVars>>

(***************************************************************************)
(* The clients that are still there are closed, with two seconds for their *)
(* handlers; since the server was left there are none.                     *)
(***************************************************************************)
DrainClients ==
  /\ Goes("draining", "cancelling")
  /\ handler' = [c \in Client |->
                   IF handler[c] = "connected" THEN "leaving" ELSE handler[c]]
  /\ UNCHANGED <<serviceVars, cleanup, callbackVars, connVars>>

(***************************************************************************)
(* Mutant: the cleanup task treats its cancellation as an error, and       *)
(* shutdown waits for it.                                                  *)
(***************************************************************************)
CancelIsSwallowed ==
  /\ Goes("cancelling", "stopping pool")
  /\ cleanup = "ended"
  /\ UNCHANGED <<serviceVars, cleanup, handler, callbackVars, connVars>>

CancelCleanup ==
  /\ Goes("cancelling", "stopping pool")
  /\ cleanup' = "ended"
  /\ UNCHANGED <<serviceVars, handler, callbackVars, connVars>>

(***************************************************************************)
(* pool.stop() stops its client, and forgets it once it has stopped.       *)
(***************************************************************************)
StopPool ==
  /\ Goes("stopping pool", "stopping client")
  /\ pool' = FALSE
  /\ StopBegins
  /\ UNCHANGED <<redis, pubsub, clients, created, cleanup, handler, callbackVars>>

PoolStopped ==
  /\ Goes("stopping client", "stopping pubsub")
  /\ StopEnds
  /\ clients' = FALSE
  /\ UNCHANGED <<redis, pubsub, pool, created, cleanup, handler, callbackVars>>

(***************************************************************************)
(* The listener is cancelled and the callbacks are cleared.                *)
(***************************************************************************)
StopPubSub ==
  /\ Goes("stopping pubsub", "closing redis")
  /\ pubsub' = FALSE
  /\ registered' = {}
  /\ listener' = IF listener = "unstarted" THEN listener ELSE "stopped"
  /\ UNCHANGED <<redis, pool, clients, created, cleanup, handler, connVars>>

CloseRedis ==
  /\ Goes("closing redis", "shut")
  /\ redis' = FALSE
  /\ UNCHANGED <<pubsub, pool, clients, created, cleanup, handler, callbackVars, connVars>>

-----------------------------------------------------------------------------
Startup == HealthCheckFails \/ StartServices \/ StaleCleaned
Handles(c) ==
  \/ Accept(c) \/ Subscribe(c) \/ EnsureSubscribed(c) \/ Unsubscribe(c)
  \/ Leave(c) \/ UnsubscribeClient(c) \/ HandlerReturns(c)
  \/ ClosesIdle(c)
Shutdown ==
  \/ ServerLeft \/ DrainClients \/ CancelCleanup
  \/ StopPool \/ PoolStopped \/ StopPubSub \/ CloseRedis

(***************************************************************************)
(* A step of some task; time is another, as the tasks see it.              *)
(***************************************************************************)
TaskRuns ==
  \/ Startup \/ Signal \/ Shutdown
  \/ \E c \in Client : Handles(c)
  \/ CleanupWakes \/ CleanupSleeps
  \/ ListenEnds
  \/ ConnNext /\ UNCHANGED serverVars

Next == ~EventLoopBlocked /\ TaskRuns

Spec == Init /\ [][Next]_vars

(***************************************************************************)
(* While the event loop is not blocked, the tasks of the process run when  *)
(* they are ready, and a server that is left closes every connection; a    *)
(* client need never leave by itself.                                      *)
(***************************************************************************)
Running(step) == ~EventLoopBlocked /\ step

Fairness ==
  /\ WF_vars(Running(Shutdown))
  /\ \A c \in Client :
       /\ WF_vars(Running(EnsureSubscribed(c)))
       /\ WF_vars(Running(UnsubscribeClient(c)))
       /\ WF_vars(Running(HandlerReturns(c)))
       /\ SF_vars(Running(phase = "closing" /\ Leave(c)))

FairSpec == Spec /\ Fairness

-----------------------------------------------------------------------------
(***************************************************************************)
(* A handler never runs without the services it calls, also while the      *)
(* server shuts down: what a client leaves behind is given back to Redis,  *)
(* Pub/Sub and the pool before these are stopped.                          *)
(***************************************************************************)
HandlersAreServed ==
  \A c \in Client : handler[c] # "absent" => redis /\ pubsub /\ pool /\ clients

(***************************************************************************)
(* The process creates one Bybit client of its category; in particular     *)
(* ensure_subscribed creates none after pool.stop() has forgotten the      *)
(* first, which nobody would stop.                                         *)
(***************************************************************************)
OneBybitClient == created <= 1

(***************************************************************************)
(* When shutdown() returns, all that still runs is heartbeats of earlier   *)
(* connections, and perhaps one that was created while stop() waited; they *)
(* find the client stopped when they run next.                             *)
(***************************************************************************)
ShutdownLeavesNothing ==
  phase = "shut" =>
    /\ listener \in {"unstarted", "stopped"}
    /\ cleanup = "ended" /\ ~pool /\ ~clients /\ ~pubsub /\ ~redis
    /\ \A c \in Client : handler[c] = "absent"
    /\ stage = "ended" /\ ~connected
    /\ \A h \in heartbeats : h.of < latest \/ h.stage = "started"

(***************************************************************************)
(* A signal ends the server, whatever its clients, the cleanup task and    *)
(* the connection to Bybit are doing, unless the event loop gets blocked.  *)
(* That may well happen: the clients that are closed take the last         *)
(* callbacks with them, and when the listener learns it before stop()      *)
(* cancels it, it spins, and no handler, not main() and not shutdown()     *)
(* goes on.                                                                *)
(***************************************************************************)
ShutdownEnds == phase = "closing" ~> (phase = "shut" \/ EventLoopBlocked)

=============================================================================
