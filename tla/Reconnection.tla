---------------------------- MODULE Reconnection ----------------------------
(***************************************************************************)
(* The connection of a Bybit client in time, app/upstream/bybit_client.py: *)
(* the connect loop with its backoff, the heartbeat task of each           *)
(* connection, start and stop.  The topics sent on the connection are in   *)
(* module BybitClient.                                                     *)
(*                                                                         *)
(* Every connection creates a heartbeat task; only the last one is kept in *)
(* _heartbeat_task, and nothing but _connected tells an older one to end.  *)
(* Time passes in ticks, while no task is ready to run: a sleep or a       *)
(* timeout that is over is served before the next tick.                    *)
(***************************************************************************)
EXTENDS Integers

CONSTANTS
  PING_INTERVAL,             \* in ticks, like all times
  PING_TIMEOUT,
  RECONNECT_DELAY_INITIAL,
  RECONNECT_DELAY_MULTIPLIER,
  RECONNECT_DELAY_MAX,
  MaxConnections,            \* bound on the connections established
  MaxWaits                   \* where the count of waits saturates

ASSUME PingAssumption ==
  /\ PING_INTERVAL \in Nat \ {0}
  /\ PING_TIMEOUT \in Nat \ {0}
ASSUME DelayAssumption ==
  /\ RECONNECT_DELAY_INITIAL \in Nat \ {0}
  /\ RECONNECT_DELAY_MULTIPLIER \in Nat \ {0}
  /\ RECONNECT_DELAY_MAX \in Nat
  /\ RECONNECT_DELAY_INITIAL <= RECONNECT_DELAY_MAX
ASSUME BoundsAssumption == MaxConnections \in Nat /\ MaxWaits \in Nat

(***************************************************************************)
(* RECONNECT_DELAY_MULTIPLIER to the power of n.                           *)
(***************************************************************************)
Power[n \in Nat] == IF n = 0 THEN 1 ELSE RECONNECT_DELAY_MULTIPLIER * Power[n - 1]

(***************************************************************************)
(* The bound on waits hides nothing: by then the delay grows no more.      *)
(***************************************************************************)
ASSUME SaturationAssumption ==
  \/ RECONNECT_DELAY_MULTIPLIER = 1
  \/ RECONNECT_DELAY_INITIAL * Power[MaxWaits] >= RECONNECT_DELAY_MAX

VARIABLES
  running,     \* self._running
  connected,   \* self._connected
  stage,       \* where _connect_loop is
  delay,       \* self._reconnect_delay
  wait,        \* what is left of the sleep of _schedule_reconnect
  heartbeats,  \* heartbeat tasks that have not ended
  latest,      \* the connection of self._heartbeat_task
  stopping,    \* where stop() is
  waits,       \* waits since a connection was last established
  gap,         \* ticks since the connection was lost
  sincePing    \* ticks since a ping was last sent or a heartbeat created

loopVars == <<connected, stage, delay, wait, waits>>
heartbeatVars == <<heartbeats, latest>>
clockVars == <<gap, sincePing>>
connVars == <<running, loopVars, heartbeatVars, stopping, clockVars>>

Least(a, b) == IF a <= b THEN a ELSE b
Longest == IF PING_INTERVAL <= PING_TIMEOUT THEN PING_TIMEOUT ELSE PING_INTERVAL
Heartbeat ==
  [of : 1..MaxConnections, stage : {"started", "sleeping", "pinging"}, left : 0..Longest]

Stages ==
  {"idle", "dialing", "resubscribing", "listening", "closing", "waiting", "ended"}

ConnTypeOK ==
  /\ running \in BOOLEAN
  /\ connected \in BOOLEAN
  /\ stage \in Stages
  /\ delay \in 1..RECONNECT_DELAY_MAX
  /\ wait \in 0..RECONNECT_DELAY_MAX
  /\ heartbeats \subseteq Heartbeat
  /\ latest \in 0..MaxConnections
  /\ stopping \in {"no", "cancelling", "done"}
  /\ waits \in 0..MaxWaits
  /\ gap \in 0..PING_INTERVAL + 1
  /\ sincePing \in 0..PING_INTERVAL + PING_TIMEOUT + 1

ConnInit ==
  /\ running = FALSE /\ connected = FALSE
  /\ stage = "idle" /\ stopping = "no"
  /\ delay = RECONNECT_DELAY_INITIAL /\ wait = 0 /\ waits = 0
  /\ heartbeats = {} /\ latest = 0
  /\ gap = 0 /\ sincePing = 0

-----------------------------------------------------------------------------
(***************************************************************************)
(* start() and the connect loop                                            *)
(***************************************************************************)
Start ==
  /\ ~running
  /\ running' = TRUE
  /\ stage' = "dialing"
  /\ UNCHANGED <<connected, delay, wait, waits, heartbeatVars, stopping, clockVars>>

(***************************************************************************)
(* The listener and the heartbeat of a new connection are created.         *)
(***************************************************************************)
StartTasks ==
  /\ stage' = "listening"
  /\ latest' = latest + 1
  /\ heartbeats' = heartbeats \cup {[of |-> latest + 1, stage |-> "started", left |-> 0]}
  /\ sincePing' = 0

(***************************************************************************)
(* Mutant: the delay is not set back when a connection is established.     *)
(***************************************************************************)
DialedKeepsDelay ==
  /\ stage = "dialing" /\ latest < MaxConnections
  /\ connected' = TRUE /\ waits' = 0
  /\ gap' = 0
  /\ stage' = "resubscribing" /\ UNCHANGED <<heartbeatVars, sincePing>>
  /\ UNCHANGED <<running, delay, wait, stopping>>

(***************************************************************************)
(* The connection is established.  Topics there are to resubscribe are     *)
(* sent before the tasks are created.                                      *)
(***************************************************************************)
Dialed ==
  /\ stage = "dialing" /\ latest < MaxConnections
  /\ connected' = TRUE
  /\ delay' = RECONNECT_DELAY_INITIAL /\ waits' = 0
  /\ gap' = 0
  /\ \/ stage' = "resubscribing" /\ UNCHANGED <<heartbeatVars, sincePing>>
     \/ StartTasks
  /\ UNCHANGED <<running, wait, stopping>>

Resubscribed ==
  /\ stage = "resubscribing"
  /\ StartTasks
  /\ UNCHANGED <<running, connected, delay, wait, waits, stopping, gap>>

(***************************************************************************)
(* After _connect_once the loop sleeps before it dials again, unless       *)
(* stop() was called.                                                      *)
(***************************************************************************)
NotConnected ==
  /\ connected' = FALSE
  /\ gap' = IF connected THEN 0 ELSE gap
  /\ IF running THEN stage' = "waiting" /\ wait' = delay
     ELSE stage' = "ended" /\ UNCHANGED wait
  /\ UNCHANGED <<running, delay, waits, heartbeatVars, stopping, sincePing>>

DialFails == stage = "dialing" /\ NotConnected

(***************************************************************************)
(* Bybit or the network closes the connection and the listener task ends;  *)
(* the connect loop finds out when it runs next.                           *)
(***************************************************************************)
ListenerEnds ==
  /\ stage = "listening"
  /\ stage' = "closing"
  /\ UNCHANGED <<running, connected, delay, wait, waits, heartbeatVars, stopping, clockVars>>

ConnectionEnds == stage = "closing" /\ NotConnected

(***************************************************************************)
(* _schedule_reconnect after its sleep; then the loop condition.           *)
(***************************************************************************)
WaitEnds ==
  /\ stage = "waiting" /\ wait = 0
  /\ delay' = Least(delay * RECONNECT_DELAY_MULTIPLIER, RECONNECT_DELAY_MAX)
  /\ waits' = Least(waits + 1, MaxWaits)
  /\ stage' = IF running THEN "dialing" ELSE "ended"
  /\ UNCHANGED <<running, connected, wait, heartbeatVars, stopping, clockVars>>

-----------------------------------------------------------------------------
(***************************************************************************)
(* The heartbeat tasks                                                     *)
(***************************************************************************)
Asleep(h) == [h EXCEPT !.stage = "sleeping", !.left = PING_INTERVAL]

(***************************************************************************)
(* Mutant: the loop runs while the client does.                            *)
(***************************************************************************)
GoesOnWhileRunning(h) == IF running THEN {Asleep(h)} ELSE {}

(***************************************************************************)
(* The loop condition: what becomes of the heartbeat h when it is checked. *)
(***************************************************************************)
GoesOn(h) == IF running /\ connected THEN {Asleep(h)} ELSE {}

Rest(h) == heartbeats \ {h}

HeartbeatStarts(h) ==
  /\ h.stage = "started"
  /\ heartbeats' = Rest(h) \cup GoesOn(h)
  /\ UNCHANGED <<running, loopVars, latest, stopping, clockVars>>

(***************************************************************************)
(* The sleep is over.  Without a connection there is nothing to ping, else *)
(* the ping is sent, and it may have to wait.                              *)
(***************************************************************************)
HeartbeatWakes(h) ==
  /\ h.stage = "sleeping" /\ h.left = 0
  /\ \/ heartbeats' = Rest(h) \cup GoesOn(h)
     \/ /\ connected
        /\ heartbeats' = Rest(h) \cup {[h EXCEPT !.stage = "pinging", !.left = PING_TIMEOUT]}
  /\ sincePing' = IF connected THEN 0 ELSE sincePing
  /\ UNCHANGED <<running, loopVars, latest, stopping, gap>>

(***************************************************************************)
(* Mutant: a ping that fails ends the heartbeat.                           *)
(***************************************************************************)
PingEndsHeartbeat(h) ==
  /\ h.stage = "pinging"
  /\ heartbeats' = Rest(h)
  /\ UNCHANGED <<running, loopVars, latest, stopping, clockVars>>

(***************************************************************************)
(* The ping that waited was written, failed or timed out: only the log     *)
(* tells these apart.                                                      *)
(***************************************************************************)
PingEnds(h) ==
  /\ h.stage = "pinging"
  /\ heartbeats' = Rest(h) \cup GoesOn(h)
  /\ UNCHANGED <<running, loopVars, latest, stopping, clockVars>>

-----------------------------------------------------------------------------
(***************************************************************************)
(* stop(), up to the point where it first waits for a task it cancelled:   *)
(* the listener ends, and the last heartbeat with it.                      *)
(***************************************************************************)
StopBegins ==
  /\ stopping = "no" /\ stage # "idle"
  /\ running' = FALSE /\ connected' = FALSE
  /\ gap' = IF connected THEN 0 ELSE gap
  /\ stage' = IF stage = "listening" THEN "closing" ELSE stage
  /\ heartbeats' = {h \in heartbeats : h.of # latest}
  /\ stopping' = "cancelling"
  /\ UNCHANGED <<delay, wait, waits, latest, sincePing>>

(***************************************************************************)
(* Mutant: _connection_task is not among the tasks that are cancelled.     *)
(***************************************************************************)
StopForgetsTask ==
  /\ stopping = "cancelling"
  /\ stopping' = "done"
  /\ UNCHANGED <<running, loopVars, heartbeatVars, clockVars>>

(***************************************************************************)
(* stop() cancels the connect loop, wherever it has got to meanwhile, and  *)
(* closes the connection.                                                  *)
(***************************************************************************)
StopEnds ==
  /\ stopping = "cancelling"
  /\ stage' = "ended"
  /\ connected' = FALSE
  /\ gap' = IF connected THEN 0 ELSE gap
  /\ stopping' = "done"
  /\ UNCHANGED <<running, delay, wait, waits, heartbeatVars, sincePing>>

-----------------------------------------------------------------------------
(***************************************************************************)
(* No task is ready.  A ping does not wait on a connection that is lost.   *)
(***************************************************************************)
NobodyIsReady ==
  /\ stage # "closing" /\ stopping # "cancelling"
  /\ stage = "waiting" => wait > 0
  /\ \A h \in heartbeats : h.left > 0 /\ (h.stage = "pinging" => connected)

Tick ==
  /\ NobodyIsReady
  /\ wait' = IF stage = "waiting" THEN wait - 1 ELSE wait
  /\ heartbeats' = {[h EXCEPT !.left = h.left - 1] : h \in heartbeats}
  /\ gap' = IF connected THEN 0 ELSE Least(gap + 1, PING_INTERVAL + 1)
  /\ sincePing' = Least(sincePing + 1, PING_INTERVAL + PING_TIMEOUT + 1)
  /\ UNCHANGED <<running, connected, stage, delay, waits, latest, stopping>>

ConnNext ==
  \/ Dialed \/ Resubscribed \/ DialFails
  \/ ListenerEnds \/ ConnectionEnds \/ WaitEnds
  \/ \E h \in heartbeats : HeartbeatStarts(h) \/ HeartbeatWakes(h) \/ PingEnds(h)
  \/ Tick

-----------------------------------------------------------------------------
(***************************************************************************)
(* An outage longer than the ping interval ends every heartbeat, also the  *)
(* ones stop() does not know.  A shorter one does not: the loop of the old *)
(* connection finds _connected set again and pings the new one for good.   *)
(***************************************************************************)
HeartbeatsEnd == ~connected /\ gap > PING_INTERVAL => heartbeats = {}

(***************************************************************************)
(* While the client listens, no more than the interval and the time one    *)
(* ping may wait pass without a ping, whatever became of earlier           *)
(* connections, their heartbeats and their pings.                          *)
(***************************************************************************)
KeptAlive ==
  stage = "listening" => sincePing <= PING_INTERVAL + PING_TIMEOUT

(***************************************************************************)
(* The n-th wait in a row that leads to no connection lasts INITIAL *      *)
(* MULTIPLIER ^ (n - 1), at most MAX; a connection, however short, sets    *)
(* the delay back.                                                         *)
(***************************************************************************)
BackoffFollowsFailures ==
  delay = Least(RECONNECT_DELAY_INITIAL * Power[waits], RECONNECT_DELAY_MAX)

=============================================================================
