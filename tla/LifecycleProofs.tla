-------------------------- MODULE LifecycleProofs --------------------------
(***************************************************************************)
(* Proofs about the life of the server and of its connection to Bybit, for *)
(* any number of clients and connections and any intervals and delays.     *)
(***************************************************************************)
EXTENDS Lifecycle, WellFoundedInduction, TLAPS

-----------------------------------------------------------------------------
(***************************************************************************)
(* Every step of the connection keeps the types of its variables.          *)
(***************************************************************************)
LEMMA LeastType ==
  ASSUME NEW a \in Int, NEW b \in Int
  PROVE  Least(a, b) \in Int /\ Least(a, b) <= a /\ Least(a, b) <= b
         /\ (Least(a, b) = a \/ Least(a, b) = b)
BY DEF Least

(***************************************************************************)
(* What the loop condition leaves of a heartbeat is a heartbeat.           *)
(***************************************************************************)
LEMMA AsleepType ==
  ASSUME NEW h \in Heartbeat
  PROVE  /\ Asleep(h) \in Heartbeat
         /\ Asleep(h).of = h.of /\ Asleep(h).stage = "sleeping"
         /\ Asleep(h).left = PING_INTERVAL
<1>1. PING_INTERVAL \in 0..Longest BY PingAssumption DEF Longest
<1> QED BY <1>1 DEF Asleep, Heartbeat

(***************************************************************************)
(* A ping that waits is a stage of the heartbeat.                          *)
(***************************************************************************)
LEMMA PingingType ==
  ASSUME NEW h \in Heartbeat,
         NEW p, p = [h EXCEPT !.stage = "pinging", !.left = PING_TIMEOUT]
  PROVE  /\ p \in Heartbeat
         /\ p.of = h.of /\ p.stage = "pinging" /\ p.left = PING_TIMEOUT
<1>1. PING_TIMEOUT \in 0..Longest BY PingAssumption DEF Longest
<1> QED BY <1>1 DEF Heartbeat

(***************************************************************************)
(* A tick takes one from what is left of each sleep and timeout.           *)
(***************************************************************************)
LEMMA TickedType ==
  ASSUME NEW h \in Heartbeat, h.left > 0,
         NEW p, p = [h EXCEPT !.left = h.left - 1]
  PROVE  p \in Heartbeat /\ p.of = h.of /\ p.stage = h.stage /\ p.left = h.left - 1
BY PingAssumption DEF Heartbeat, Longest

(***************************************************************************)
(* The tasks of a new connection.                                          *)
(***************************************************************************)
LEMMA StartTasksType ==
  ASSUME ConnTypeOK, StartTasks, latest < MaxConnections
  PROVE  /\ stage' \in Stages /\ latest' \in 0..MaxConnections
         /\ heartbeats' \subseteq Heartbeat
         /\ sincePing' \in 0..PING_INTERVAL + PING_TIMEOUT + 1
<1>1. [of |-> latest + 1, stage |-> "started", left |-> 0] \in Heartbeat
  BY PingAssumption, BoundsAssumption DEF ConnTypeOK, Heartbeat, Longest
<1> QED BY <1>1, PingAssumption, BoundsAssumption DEF ConnTypeOK, StartTasks, Stages

(***************************************************************************)
(* Resubscribing means that there is room for another connection.          *)
(***************************************************************************)
Room == stage \in {"resubscribing"} => latest < MaxConnections

(***************************************************************************)
(* Each step of the connect loop, the heartbeats and the clock.            *)
(***************************************************************************)
LEMMA ConnTypeNext ==
  ASSUME ConnTypeOK, Room, ConnNext
  PROVE  ConnTypeOK' /\ Room'
<1> USE PingAssumption, DelayAssumption, BoundsAssumption
<1> USE DEF loopVars, heartbeatVars, clockVars
<1>1. CASE Dialed
  <2>1. CASE StartTasks
    BY <1>1, <2>1, StartTasksType DEF Dialed, ConnTypeOK, Room, StartTasks
  <2>2. CASE stage' = "resubscribing" /\ UNCHANGED <<heartbeatVars, sincePing>>
    BY <1>1, <2>2 DEF Dialed, ConnTypeOK, Room, Stages
  <2> QED BY <1>1, <2>1, <2>2 DEF Dialed
<1>2. CASE Resubscribed
  <2>1. StartTasks /\ latest < MaxConnections BY <1>2 DEF Resubscribed, Room
  <2>2. stage' = "listening" BY <2>1 DEF StartTasks
  <2>3. /\ latest' \in 0..MaxConnections
        /\ heartbeats' \subseteq Heartbeat
        /\ sincePing' \in 0..PING_INTERVAL + PING_TIMEOUT + 1
    BY <2>1, StartTasksType
  <2>4. UNCHANGED <<running, connected, delay, wait, waits, stopping, gap>>
    BY <1>2 DEF Resubscribed
  <2>5. Room' BY <2>2 DEF Room
  <2>6. stage' \in Stages BY <2>2 DEF Stages
  <2>7. ConnTypeOK' BY <2>3, <2>4, <2>6 DEF ConnTypeOK
  <2> QED BY <2>5, <2>7
<1>3. CASE NotConnected
  <2>1. stage' \in {"waiting", "ended"} /\ (wait' = delay \/ wait' = wait)
    BY <1>3 DEF NotConnected
  <2>2. connected' \in BOOLEAN /\ (gap' = 0 \/ gap' = gap)
    BY <1>3 DEF NotConnected
  <2>3. UNCHANGED <<running, delay, waits, heartbeats, latest, stopping, sincePing>>
    BY <1>3 DEF NotConnected
  <2>4. wait' \in 0..RECONNECT_DELAY_MAX BY <2>1 DEF ConnTypeOK
  <2>5. gap' \in 0..PING_INTERVAL + 1 BY <2>2 DEF ConnTypeOK
  <2>6. stage' \in Stages BY <2>1 DEF Stages
  <2>7. ConnTypeOK' BY <2>2, <2>3, <2>4, <2>5, <2>6 DEF ConnTypeOK
  <2>8. Room' BY <2>1 DEF Room
  <2> QED BY <2>7, <2>8
<1>4. CASE ListenerEnds
  BY <1>4 DEF ListenerEnds, ConnTypeOK, Room, Stages
<1>5. CASE WaitEnds
  <2>1. delay * RECONNECT_DELAY_MULTIPLIER \in Nat /\ delay * RECONNECT_DELAY_MULTIPLIER >= 1
    BY DEF ConnTypeOK
  <2>2. delay' \in 1..RECONNECT_DELAY_MAX
    BY <1>5, <2>1 DEF WaitEnds, Least, ConnTypeOK
  <2>3. waits' \in 0..MaxWaits
    BY <1>5 DEF WaitEnds, Least, ConnTypeOK
  <2> QED BY <1>5, <2>2, <2>3 DEF WaitEnds, ConnTypeOK, Room, Stages
<1>6. ASSUME NEW h \in heartbeats, HeartbeatStarts(h) \/ HeartbeatWakes(h) \/ PingEnds(h)
      PROVE  ConnTypeOK' /\ Room'
  <2>1. h \in Heartbeat BY DEF ConnTypeOK
  <2>2. GoesOn(h) \subseteq Heartbeat
    BY <2>1, AsleepType DEF GoesOn
  <2>3. [h EXCEPT !.stage = "pinging", !.left = PING_TIMEOUT] \in Heartbeat
    BY <2>1, PingingType
  <2>4. heartbeats' \subseteq Heartbeat
    BY <1>6, <2>2, <2>3 DEF HeartbeatStarts, HeartbeatWakes, PingEnds, Rest, ConnTypeOK
  <2>5. sincePing' \in 0..PING_INTERVAL + PING_TIMEOUT + 1
    BY <1>6 DEF HeartbeatStarts, HeartbeatWakes, PingEnds, ConnTypeOK
  <2>6. UNCHANGED <<running, loopVars, latest, stopping, gap>>
    BY <1>6 DEF HeartbeatStarts, HeartbeatWakes, PingEnds
  <2> QED BY <2>4, <2>5, <2>6 DEF ConnTypeOK, Room
<1>7. CASE Tick
  <2>1. heartbeats' \subseteq Heartbeat
    BY <1>7, TickedType DEF Tick, NobodyIsReady, ConnTypeOK
  <2>2. gap' \in 0..PING_INTERVAL + 1
    BY <1>7 DEF Tick, Least, ConnTypeOK
  <2>3. sincePing' \in 0..PING_INTERVAL + PING_TIMEOUT + 1
    BY <1>7 DEF Tick, Least, ConnTypeOK
  <2>4. wait' \in 0..RECONNECT_DELAY_MAX
    BY <1>7 DEF Tick, NobodyIsReady, ConnTypeOK
  <2> QED BY <1>7, <2>1, <2>2, <2>3, <2>4 DEF Tick, ConnTypeOK, Room
<1> QED
  BY <1>1, <1>2, <1>3, <1>4, <1>5, <1>6, <1>7 DEF ConnNext, DialFails, ConnectionEnds

-----------------------------------------------------------------------------
(***************************************************************************)
(* What a step of the whole server does to the connection.                 *)
(***************************************************************************)
ConnStep ==
  \/ ConnNext
  \/ stage = "idle" /\ Start
  \/ StopBegins \/ StopEnds
  \/ UNCHANGED connVars

(***************************************************************************)
(* Starting and stopping keep the types as well.                           *)
(***************************************************************************)
LEMMA ConnTypeStep ==
  ASSUME ConnTypeOK, Room, ConnStep
  PROVE  ConnTypeOK' /\ Room'
<1> USE DEF loopVars, heartbeatVars, clockVars
<1>1. CASE ConnNext BY <1>1, ConnTypeNext
<1>2. CASE stage = "idle" /\ Start
  BY <1>2 DEF Start, ConnTypeOK, Room, Stages
<1>3. CASE StopBegins
  <2>1. connected' \in BOOLEAN /\ running' \in BOOLEAN /\ (gap' = 0 \/ gap' = gap)
    BY <1>3 DEF StopBegins
  <2>2. gap' \in 0..PING_INTERVAL + 1 BY <2>1, PingAssumption DEF ConnTypeOK
  <2>3. stage' = stage \/ stage' = "closing" BY <1>3 DEF StopBegins
  <2>4. stage' \in Stages /\ Room'
    BY <1>3, <2>3 DEF Stages, StopBegins, Room, ConnTypeOK
  <2>5. heartbeats' \subseteq Heartbeat BY <1>3 DEF StopBegins, ConnTypeOK
  <2>6. UNCHANGED <<delay, wait, waits, latest, sincePing>> /\ stopping' = "cancelling"
    BY <1>3 DEF StopBegins
  <2> QED BY <2>1, <2>2, <2>4, <2>5, <2>6 DEF ConnTypeOK
<1>4. CASE StopEnds
  <2>1. connected' \in BOOLEAN /\ (gap' = 0 \/ gap' = gap)
    BY <1>4 DEF StopEnds
  <2>2. gap' \in 0..PING_INTERVAL + 1 BY <2>1, PingAssumption DEF ConnTypeOK
  <2>3. stage' \in Stages /\ Room' BY <1>4 DEF Stages, StopEnds, Room
  <2>4. UNCHANGED <<running, delay, wait, waits, heartbeats, latest, sincePing>>
        /\ stopping' = "done"
    BY <1>4 DEF StopEnds
  <2> QED BY <2>1, <2>2, <2>3, <2>4 DEF ConnTypeOK
<1>5. CASE UNCHANGED connVars
  BY <1>5 DEF connVars, ConnTypeOK, Room
<1> QED BY <1>1, <1>2, <1>3, <1>4, <1>5 DEF ConnStep

-----------------------------------------------------------------------------
(***************************************************************************)
(* How the flags of the client go with the place of its connect loop.      *)
(***************************************************************************)
LoopInv ==
  /\ stage = "idle" => ~running /\ ~connected /\ stopping = "no" /\ heartbeats = {}
  /\ stage # "idle" => (running <=> stopping = "no")
  /\ running /\ stage \in {"resubscribing", "listening"} => connected
  /\ stopping = "done" => stage = "ended" /\ ~connected

(***************************************************************************)
(* The flags go with the loop in every step.                               *)
(***************************************************************************)
LEMMA LoopInvStep ==
  ASSUME ConnTypeOK, LoopInv, ConnStep
  PROVE  LoopInv'
<1> USE DEF loopVars, heartbeatVars, clockVars
<1>1. CASE Dialed BY <1>1 DEF Dialed, StartTasks, LoopInv, ConnTypeOK
<1>2. CASE Resubscribed BY <1>2 DEF Resubscribed, StartTasks, LoopInv, ConnTypeOK
<1>3. CASE stage \in {"dialing", "closing"} /\ NotConnected
  <2>1. stage' \in {"waiting", "ended"} /\ ~connected' BY <1>3 DEF NotConnected
  <2>2. UNCHANGED <<running, stopping, heartbeats>> BY <1>3 DEF NotConnected
  <2>3. stopping # "done" BY <1>3 DEF LoopInv
  <2> QED BY <1>3, <2>1, <2>2, <2>3 DEF LoopInv
<1>4. CASE ListenerEnds BY <1>4 DEF ListenerEnds, LoopInv, ConnTypeOK
<1>5. CASE WaitEnds
  <2>1. stage' \in {"dialing", "ended"} BY <1>5 DEF WaitEnds
  <2>2. UNCHANGED <<running, connected, stopping>> BY <1>5 DEF WaitEnds
  <2>3. stage = "waiting" /\ stopping # "done" BY <1>5 DEF WaitEnds, LoopInv
  <2> QED BY <2>1, <2>2, <2>3 DEF LoopInv
<1>6. ASSUME NEW h \in heartbeats, HeartbeatStarts(h) \/ HeartbeatWakes(h) \/ PingEnds(h)
      PROVE  LoopInv'
  BY <1>6 DEF HeartbeatStarts, HeartbeatWakes, PingEnds, LoopInv
<1>7. CASE Tick
  <2>1. UNCHANGED <<running, connected, stage, stopping>> BY <1>7 DEF Tick
  <2>2. heartbeats = {} => heartbeats' = {} BY <1>7 DEF Tick
  <2> QED BY <2>1, <2>2 DEF LoopInv
<1>8. CASE stage = "idle" /\ Start BY <1>8 DEF Start, LoopInv
<1>9. CASE StopBegins
  <2>1. ~running' /\ ~connected' /\ stopping' = "cancelling" BY <1>9 DEF StopBegins
  <2>2. stage' # "idle" BY <1>9 DEF StopBegins
  <2> QED BY <2>1, <2>2 DEF LoopInv
<1>10. CASE StopEnds BY <1>10 DEF StopEnds, LoopInv
<1>11. CASE UNCHANGED connVars BY <1>11 DEF connVars, LoopInv
<1> QED
  BY <1>1, <1>2, <1>3, <1>4, <1>5, <1>6, <1>7, <1>8, <1>9, <1>10, <1>11
  DEF ConnStep, ConnNext, DialFails, ConnectionEnds

-----------------------------------------------------------------------------
(***************************************************************************)
(* How long each heartbeat may still sleep or wait; once stop() has begun, *)
(* the last heartbeat is gone, and one created since has not run yet.      *)
(***************************************************************************)
Shaped(h) ==
  /\ h.of <= latest
  /\ h.stage = "started" => h.left = 0
  /\ h.stage = "sleeping" => h.left <= PING_INTERVAL
  /\ h.stage = "pinging" => h.left <= PING_TIMEOUT
  /\ stopping # "no" => h.of < latest \/ h.stage = "started"

(***************************************************************************)
(* While there is no connection, each sleep ends before the outage is      *)
(* longer than the ping interval.                                          *)
(***************************************************************************)
EndsInOutage(h) ==
  ~connected => IF h.stage = "sleeping" THEN h.left + gap <= PING_INTERVAL ELSE gap = 0

HeartbeatInv == \A h \in heartbeats : Shaped(h) /\ EndsInOutage(h)

(***************************************************************************)
(* A heartbeat that has just been created fits.                            *)
(***************************************************************************)
LEMMA StartTasksHeartbeats ==
  ASSUME ConnTypeOK, HeartbeatInv, StartTasks, UNCHANGED stopping,
         (connected' /\ gap' = 0) \/ UNCHANGED <<connected, gap>>,
         connected \/ gap = 0 \/ connected'
  PROVE  HeartbeatInv'
<1> SUFFICES ASSUME NEW h \in heartbeats' PROVE Shaped(h)' /\ EndsInOutage(h)'
  BY DEF HeartbeatInv
<1>1. CASE h \in heartbeats
  <2>1. h \in Heartbeat /\ Shaped(h) /\ EndsInOutage(h)
    BY <1>1 DEF HeartbeatInv, ConnTypeOK
  <2>2. h.of \in Int /\ h.of <= latest /\ latest' = latest + 1 /\ latest \in Int
    BY <2>1 DEF Heartbeat, ConnTypeOK, Shaped, StartTasks
  <2>3. h.of < latest' BY <2>2
  <2> QED BY <2>1, <2>2, <2>3 DEF Shaped, EndsInOutage
<1>2. CASE h = [of |-> latest + 1, stage |-> "started", left |-> 0]
  BY <1>2 DEF Shaped, EndsInOutage, StartTasks, ConnTypeOK
<1> QED BY <1>1, <1>2 DEF StartTasks

(***************************************************************************)
(* stop() may find the loop resubscribing: then the outage has just begun. *)
(***************************************************************************)
ResubscribingInv == stage = "resubscribing" => connected \/ gap = 0

(***************************************************************************)
(* Resubscribing without a connection lasts no time.                       *)
(***************************************************************************)
LEMMA ResubscribingStep ==
  ASSUME ConnTypeOK, LoopInv, ResubscribingInv, ConnStep
  PROVE  ResubscribingInv'
<1> USE DEF loopVars, heartbeatVars, clockVars
<1>1. CASE Dialed BY <1>1 DEF Dialed, ResubscribingInv
<1>2. CASE Resubscribed BY <1>2 DEF Resubscribed, StartTasks, ResubscribingInv
<1>3. CASE NotConnected BY <1>3 DEF NotConnected, ResubscribingInv
<1>4. CASE ListenerEnds BY <1>4 DEF ListenerEnds, ResubscribingInv
<1>5. CASE WaitEnds BY <1>5 DEF WaitEnds, ResubscribingInv
<1>6. ASSUME NEW h \in heartbeats, HeartbeatStarts(h) \/ HeartbeatWakes(h) \/ PingEnds(h)
      PROVE  ResubscribingInv'
  BY <1>6 DEF HeartbeatStarts, HeartbeatWakes, PingEnds, ResubscribingInv
<1>7. CASE Tick
  <2>1. stage = "resubscribing" => connected
    BY <1>7 DEF Tick, NobodyIsReady, LoopInv, ConnTypeOK
  <2> QED BY <1>7, <2>1 DEF Tick, ResubscribingInv
<1>8. CASE Start BY <1>8 DEF Start, ResubscribingInv
<1>9. CASE StopBegins BY <1>9 DEF StopBegins, ResubscribingInv
<1>10. CASE StopEnds BY <1>10 DEF StopEnds, ResubscribingInv
<1>11. CASE UNCHANGED connVars BY <1>11 DEF connVars, ResubscribingInv
<1> QED
  BY <1>1, <1>2, <1>3, <1>4, <1>5, <1>6, <1>7, <1>8, <1>9, <1>10, <1>11
  DEF ConnStep, ConnNext, DialFails, ConnectionEnds

(***************************************************************************)
(* Losing the connection, when it is noticed or by stop(), begins an       *)
(* outage in which every sleep still ends in time.                         *)
(***************************************************************************)
LEMMA OutageBegins ==
  ASSUME ConnTypeOK, HeartbeatInv, NEW h \in heartbeats,
         connected' = FALSE, gap' = IF connected THEN 0 ELSE gap
  PROVE  EndsInOutage(h)'
<1>1. h \in Heartbeat /\ Shaped(h) /\ EndsInOutage(h) BY DEF HeartbeatInv, ConnTypeOK
<1>2. CASE connected
  BY <1>1, <1>2, PingAssumption DEF Shaped, EndsInOutage, Heartbeat, Longest
<1>3. CASE ~connected BY <1>1, <1>3 DEF EndsInOutage
<1> QED BY <1>2, <1>3

(***************************************************************************)
(* A heartbeat that goes on sleeps for the interval, and only while the    *)
(* client is connected.                                                    *)
(***************************************************************************)
LEMMA GoesOnShaped ==
  ASSUME ConnTypeOK, LoopInv, NEW h \in Heartbeat, Shaped(h), NEW g \in GoesOn(h)
  PROVE  Shaped(g) /\ EndsInOutage(g)
<1>1. g = Asleep(h) /\ running /\ connected BY DEF GoesOn
<1>2. /\ g \in Heartbeat /\ g.of = h.of /\ g.stage = "sleeping" /\ g.left = PING_INTERVAL
  BY <1>1, AsleepType
<1>3. stopping = "no" BY <1>1 DEF LoopInv
<1> QED BY <1>1, <1>2, <1>3, PingAssumption DEF Shaped, EndsInOutage

(***************************************************************************)
(* Steps that leave the connection as it is keep every heartbeat fit.      *)
(***************************************************************************)
LEMMA HeartbeatKept ==
  ASSUME NEW h, Shaped(h) /\ EndsInOutage(h),
         UNCHANGED <<connected, gap, latest, stopping>>
  PROVE  Shaped(h)' /\ EndsInOutage(h)'
BY DEF Shaped, EndsInOutage

(***************************************************************************)
(* Every heartbeat ends in time.                                           *)
(***************************************************************************)
LEMMA HeartbeatStep ==
  ASSUME ConnTypeOK, LoopInv, ResubscribingInv, HeartbeatInv, ConnStep
  PROVE  HeartbeatInv'
<1> USE DEF loopVars, heartbeatVars, clockVars
<1>1. CASE Dialed
  <2>1. CASE StartTasks
    <3>1. UNCHANGED stopping /\ connected' /\ gap' = 0 BY <1>1 DEF Dialed
    <3> QED BY <2>1, <3>1, StartTasksHeartbeats
  <2>2. CASE stage' = "resubscribing" /\ UNCHANGED <<heartbeatVars, sincePing>>
    BY <1>1, <2>2 DEF Dialed, HeartbeatInv, Shaped, EndsInOutage
  <2> QED BY <1>1, <2>1, <2>2 DEF Dialed
<1>2. CASE Resubscribed
  <2>1. StartTasks /\ UNCHANGED stopping /\ UNCHANGED <<connected, gap>>
    BY <1>2 DEF Resubscribed
  <2>2. connected \/ gap = 0 BY <1>2 DEF Resubscribed, ResubscribingInv
  <2> QED BY <2>1, <2>2, StartTasksHeartbeats
<1>3. CASE NotConnected
  <2>1. /\ connected' = FALSE /\ gap' = IF connected THEN 0 ELSE gap
        /\ UNCHANGED <<heartbeats, latest, stopping>>
    BY <1>3 DEF NotConnected
  <2>2. \A h \in heartbeats : EndsInOutage(h)' BY <2>1, OutageBegins
  <2> QED BY <2>1, <2>2 DEF HeartbeatInv, Shaped
<1>4. CASE ListenerEnds BY <1>4 DEF ListenerEnds, HeartbeatInv, Shaped, EndsInOutage
<1>5. CASE WaitEnds BY <1>5 DEF WaitEnds, HeartbeatInv, Shaped, EndsInOutage
<1>6. ASSUME NEW h \in heartbeats, HeartbeatStarts(h) \/ HeartbeatWakes(h) \/ PingEnds(h)
      PROVE  HeartbeatInv'
  <2>1. h \in Heartbeat /\ Shaped(h) BY DEF ConnTypeOK, HeartbeatInv
  <2>2. UNCHANGED <<connected, gap, latest, stopping>>
    BY <1>6 DEF HeartbeatStarts, HeartbeatWakes, PingEnds
  <2> DEFINE p == [h EXCEPT !.stage = "pinging", !.left = PING_TIMEOUT]
  <2>3. \/ heartbeats' = Rest(h) \cup GoesOn(h)
        \/ h.stage = "sleeping" /\ connected /\ heartbeats' = Rest(h) \cup {p}
    BY <1>6 DEF HeartbeatStarts, HeartbeatWakes, PingEnds
  <2>4. \A g \in GoesOn(h) : Shaped(g) /\ EndsInOutage(g) BY <2>1, GoesOnShaped
  <2>5. h.stage = "sleeping" /\ connected => Shaped(p) /\ EndsInOutage(p)
    <3>1. p \in Heartbeat /\ p.of = h.of /\ p.stage = "pinging" /\ p.left = PING_TIMEOUT
      BY <2>1, PingingType
    <3> QED BY <2>1, <3>1, PingAssumption DEF Shaped, EndsInOutage
  <2>6. \A g \in heartbeats' : Shaped(g) /\ EndsInOutage(g)
    BY <2>3, <2>4, <2>5 DEF Rest, HeartbeatInv
  <2> QED BY <2>2, <2>6, HeartbeatKept DEF HeartbeatInv
<1>7. CASE Tick
  <2> SUFFICES ASSUME NEW g \in heartbeats' PROVE Shaped(g)' /\ EndsInOutage(g)'
    BY DEF HeartbeatInv
  <2>1. PICK h \in heartbeats : g = [h EXCEPT !.left = h.left - 1] BY <1>7 DEF Tick
  <2>2. /\ h \in Heartbeat /\ Shaped(h) /\ EndsInOutage(h) /\ h.left > 0
        /\ h.stage = "pinging" => connected
    BY <1>7 DEF Tick, NobodyIsReady, HeartbeatInv, ConnTypeOK
  <2>3. g \in Heartbeat /\ g.of = h.of /\ g.stage = h.stage /\ g.left = h.left - 1
    BY <2>1, <2>2, TickedType
  <2>4. h.left \in Int /\ gap \in Int BY <2>2 DEF Heartbeat, ConnTypeOK
  <2>5. UNCHANGED <<connected, latest, stopping>>
        /\ gap' = IF connected THEN 0 ELSE Least(gap + 1, PING_INTERVAL + 1)
    BY <1>7 DEF Tick
  <2>6. Shaped(g)'
    BY <2>2, <2>3, <2>4, <2>5, PingAssumption DEF Shaped
  <2>7. EndsInOutage(g)'
    <3>1. SUFFICES ASSUME ~connected
                   PROVE  g.stage = "sleeping" /\ g.left + gap' <= PING_INTERVAL
      BY <2>5 DEF EndsInOutage
    <3>2. h.stage = "sleeping" BY <2>2, <3>1 DEF Shaped, Heartbeat
    <3>3. gap' \in Int /\ gap' <= gap + 1
      BY <2>4, <2>5, <3>1, LeastType, PingAssumption
    <3>4. h.left + gap <= PING_INTERVAL BY <2>2, <3>1, <3>2 DEF EndsInOutage
    <3> QED BY <2>3, <2>4, <3>2, <3>3, <3>4, PingAssumption
  <2> QED BY <2>6, <2>7
<1>8. CASE stage = "idle" /\ Start BY <1>8 DEF Start, HeartbeatInv, LoopInv
<1>9. CASE StopBegins
  <2> SUFFICES ASSUME NEW h \in heartbeats' PROVE Shaped(h)' /\ EndsInOutage(h)'
    BY DEF HeartbeatInv
  <2>1. h \in heartbeats /\ h.of # latest /\ latest' = latest /\ connected' = FALSE
        /\ gap' = IF connected THEN 0 ELSE gap
    BY <1>9 DEF StopBegins
  <2>2. EndsInOutage(h)' BY <2>1, OutageBegins
  <2>3. h \in Heartbeat /\ Shaped(h) BY <2>1 DEF HeartbeatInv, ConnTypeOK
  <2>4. h.of < latest' BY <2>1, <2>3 DEF Shaped, Heartbeat, ConnTypeOK
  <2>5. Shaped(h)' BY <2>1, <2>3, <2>4 DEF Shaped
  <2> QED BY <2>2, <2>5
<1>10. CASE StopEnds
  <2>1. /\ connected' = FALSE /\ gap' = IF connected THEN 0 ELSE gap
        /\ UNCHANGED <<heartbeats, latest>> /\ stopping # "no"
    BY <1>10 DEF StopEnds
  <2>2. \A h \in heartbeats : EndsInOutage(h)' BY <2>1, OutageBegins
  <2> QED BY <2>1, <2>2 DEF HeartbeatInv, Shaped
<1>11. CASE UNCHANGED connVars
  BY <1>11 DEF connVars, HeartbeatInv, Shaped, EndsInOutage
<1> QED
  BY <1>1, <1>2, <1>3, <1>4, <1>5, <1>6, <1>7, <1>8, <1>9, <1>10, <1>11
  DEF ConnStep, ConnNext, DialFails, ConnectionEnds

-----------------------------------------------------------------------------
(***************************************************************************)
(* A heartbeat that pings in time.                                         *)
(***************************************************************************)
InTime(h) ==
  /\ h.stage = "started" => sincePing = 0
  /\ h.stage = "sleeping" => sincePing + h.left <= PING_INTERVAL + PING_TIMEOUT
  /\ h.stage = "pinging" => sincePing + h.left <= PING_TIMEOUT

(***************************************************************************)
(* A connection that is listened to has one; when stop() has begun, no     *)
(* time has passed since the connection was established.                   *)
(***************************************************************************)
PingInv ==
  stage = "listening" =>
    IF running THEN \E h \in heartbeats : InTime(h) ELSE sincePing = 0

(***************************************************************************)
(* A ping on time follows from the invariant.                              *)
(***************************************************************************)
LEMMA PingInvKeepsAlive == ConnTypeOK /\ PingInv => KeptAlive
<1> SUFFICES ASSUME ConnTypeOK, PingInv, stage = "listening"
             PROVE  sincePing <= PING_INTERVAL + PING_TIMEOUT
  BY DEF KeptAlive
<1>1. CASE ~running BY <1>1, PingAssumption DEF PingInv, ConnTypeOK
<1>2. CASE running
  <2>1. PICK h \in heartbeats : InTime(h) BY <1>2 DEF PingInv
  <2>2. h \in Heartbeat /\ sincePing \in Int BY DEF ConnTypeOK
  <2>3. h.left \in Int /\ h.left >= 0 /\ h.stage \in {"started", "sleeping", "pinging"}
    BY <2>2, PingAssumption DEF Heartbeat, Longest
  <2> QED BY <2>1, <2>2, <2>3, PingAssumption DEF InTime
<1> QED BY <1>1, <1>2

(***************************************************************************)
(* The heartbeat of a new connection is in time.                           *)
(***************************************************************************)
LEMMA StartTasksPing ==
  ASSUME StartTasks PROVE PingInv'
<1> DEFINE n == [of |-> latest + 1, stage |-> "started", left |-> 0]
<1>1. n \in heartbeats' /\ sincePing' = 0 BY DEF StartTasks
<1>2. n.stage = "started" OBVIOUS
<1>3. \E h \in heartbeats' : h.stage = "started" BY <1>1, <1>2
<1>4. PICK h \in heartbeats' : h.stage = "started" BY <1>3
<1>5. InTime(h)' BY <1>1, <1>4 DEF InTime
<1> QED BY <1>1, <1>4, <1>5 DEF PingInv

(***************************************************************************)
(* When one heartbeat runs, one that was in time still is, or the one that *)
(* ran has taken its place.                                                *)
(***************************************************************************)
LEMMA HeartbeatPings ==
  ASSUME ConnTypeOK, LoopInv, HeartbeatInv, PingInv, NEW h \in heartbeats,
         HeartbeatStarts(h) \/ HeartbeatWakes(h) \/ PingEnds(h)
  PROVE  PingInv'
<1> USE DEF loopVars, heartbeatVars, clockVars
<1> DEFINE p == [h EXCEPT !.stage = "pinging", !.left = PING_TIMEOUT]
<1>1. UNCHANGED <<running, stage>> BY DEF HeartbeatStarts, HeartbeatWakes, PingEnds
<1>2. h \in Heartbeat /\ sincePing \in Int BY DEF ConnTypeOK
<1>3. CASE stage # "listening" BY <1>1, <1>3 DEF PingInv
<1>4. CASE ~running /\ stage = "listening"
  BY <1>1, <1>4 DEF PingInv, HeartbeatStarts, HeartbeatWakes, PingEnds
<1>5. CASE running /\ stage = "listening"
  <2> DEFINE a == Asleep(h)
  <2>1. connected /\ GoesOn(h) = {a} BY <1>5 DEF LoopInv, GoesOn
  <2>2. PICK w \in heartbeats : InTime(w) BY <1>5 DEF PingInv
  <2>3. w \in Heartbeat /\ Shaped(w) BY DEF ConnTypeOK, HeartbeatInv
  <2>4. a.stage = "sleeping" /\ a.left = PING_INTERVAL BY <1>2, AsleepType
  <2>5. p.stage = "pinging" /\ p.left = PING_TIMEOUT BY <1>2, PingingType
  <2>6. CASE HeartbeatWakes(h)
    <3>1. sincePing' = 0 BY <2>1, <2>6 DEF HeartbeatWakes
    <3>2. a \in heartbeats' \/ p \in heartbeats' BY <2>1, <2>6 DEF HeartbeatWakes
    <3>3. InTime(a)' /\ InTime(p)'
      BY <2>4, <2>5, <3>1, PingAssumption DEF InTime
    <3>4. \E g \in heartbeats' : InTime(g)' BY <3>2, <3>3
    <3> QED BY <1>1, <1>5, <3>4 DEF PingInv
  <2>7. CASE HeartbeatStarts(h) \/ PingEnds(h)
    <3>1. heartbeats' = Rest(h) \cup {a} /\ sincePing' = sincePing
      BY <2>1, <2>7 DEF HeartbeatStarts, PingEnds
    <3>2. CASE w # h
      <4>1. w \in heartbeats' /\ InTime(w)' BY <2>2, <3>1, <3>2 DEF Rest, InTime
      <4> QED BY <1>1, <1>5, <4>1 DEF PingInv
    <3>3. CASE w = h
      <4>1. h.left \in Int /\ h.left >= 0 BY <1>2, PingAssumption DEF Heartbeat, Longest
      <4>2. h.stage \in {"started", "pinging"}
        BY <2>7 DEF HeartbeatStarts, PingEnds
      <4>3. sincePing <= PING_TIMEOUT
        BY <1>2, <2>2, <3>3, <4>1, <4>2, PingAssumption DEF InTime
      <4>4. InTime(a)' BY <1>2, <2>4, <3>1, <4>3, PingAssumption DEF InTime
      <4>5. a \in heartbeats' BY <3>1
      <4> QED BY <1>1, <1>5, <4>4, <4>5 DEF PingInv
    <3> QED BY <3>2, <3>3
  <2> QED BY <2>6, <2>7
<1> QED BY <1>3, <1>4, <1>5

(***************************************************************************)
(* Time passes only while the client waits for nothing that is due.        *)
(***************************************************************************)
LEMMA TickPings ==
  ASSUME ConnTypeOK, LoopInv, HeartbeatInv, PingInv, Tick
  PROVE  PingInv'
<1>1. UNCHANGED <<running, stage>> BY DEF Tick
<1>2. CASE stage # "listening" BY <1>1, <1>2 DEF PingInv
<1>3. CASE stage = "listening"
  <2>1. running BY <1>3 DEF Tick, NobodyIsReady, LoopInv, ConnTypeOK
  <2>2. PICK w \in heartbeats : InTime(w) BY <1>3, <2>1 DEF PingInv
  <2>3. w \in Heartbeat /\ Shaped(w) /\ w.left > 0 /\ sincePing \in Int
    BY DEF ConnTypeOK, HeartbeatInv, Tick, NobodyIsReady
  <2> DEFINE t == [w EXCEPT !.left = w.left - 1]
  <2>4. t \in heartbeats' BY DEF Tick
  <2>5. t.stage = w.stage /\ t.left = w.left - 1 /\ w.left \in Int
    BY <2>3, TickedType DEF Heartbeat
  <2>6. sincePing' \in Int /\ sincePing' <= sincePing + 1
    BY <2>3, LeastType, PingAssumption DEF Tick
  <2>7. t.stage # "started" BY <2>3, <2>5 DEF Shaped
  <2>8. InTime(t)' BY <2>2, <2>3, <2>5, <2>6, <2>7, PingAssumption DEF InTime
  <2>9. \E g \in heartbeats' : InTime(g)' BY <2>4, <2>8
  <2> QED BY <1>1, <1>3, <2>1, <2>9 DEF PingInv
<1> QED BY <1>2, <1>3

(***************************************************************************)
(* Pings stay in time in every step.                                       *)
(***************************************************************************)
LEMMA PingInvStep ==
  ASSUME ConnTypeOK, LoopInv, HeartbeatInv, PingInv, ConnStep
  PROVE  PingInv'
<1> USE DEF loopVars, heartbeatVars, clockVars
<1>1. CASE Dialed
  <2>1. CASE StartTasks BY <2>1, StartTasksPing
  <2>2. CASE stage' = "resubscribing" BY <2>2 DEF PingInv
  <2> QED BY <1>1, <2>1, <2>2 DEF Dialed
<1>2. CASE Resubscribed BY <1>2, StartTasksPing DEF Resubscribed
<1>3. CASE NotConnected BY <1>3 DEF NotConnected, PingInv
<1>4. CASE ListenerEnds BY <1>4 DEF ListenerEnds, PingInv
<1>5. CASE WaitEnds BY <1>5 DEF WaitEnds, PingInv
<1>6. ASSUME NEW h \in heartbeats, HeartbeatStarts(h) \/ HeartbeatWakes(h) \/ PingEnds(h)
      PROVE  PingInv'
  BY <1>6, HeartbeatPings
<1>7. CASE Tick BY <1>7, TickPings
<1>8. CASE Start BY <1>8 DEF Start, PingInv
<1>9. CASE StopBegins BY <1>9 DEF StopBegins, PingInv
<1>10. CASE StopEnds BY <1>10 DEF StopEnds, PingInv
<1>11. CASE UNCHANGED connVars
  BY <1>11 DEF connVars, PingInv, InTime
<1> QED
  BY <1>1, <1>2, <1>3, <1>4, <1>5, <1>6, <1>7, <1>8, <1>9, <1>10, <1>11
  DEF ConnStep, ConnNext, DialFails, ConnectionEnds

-----------------------------------------------------------------------------
(***************************************************************************)
(* Every set of natural numbers has a least one: what the proofs below use *)
(* in place of induction.                                                  *)
(***************************************************************************)
LEMMA LeastNatural ==
  ASSUME NEW T, T \subseteq Nat, T # {}
  PROVE  \E n \in T : \A m \in T : n <= m
<1> DEFINE below == {pair \in Nat \X Nat : pair[1] < pair[2]}
<1>1. IsWellFoundedOn(below, Nat)
  BY NatLessThanWellFounded DEF OpToRel
<1>2. PICK n \in T : \A m \in T : <<m, n>> \notin below
  <2> HIDE DEF below
  <2> QED
    BY <1>1, WFMin
<1>3. \A m \in T : ~(m < n)
  BY <1>2
<1> QED
  BY <1>3

(***************************************************************************)
(* g gives the powers of the multiplier up to the n-th.                    *)
(***************************************************************************)
Powers(g, n) ==
  /\ g \in [0..n -> Nat \ {0}] /\ g[0] = 1
  /\ \A i \in 1..n : g[i] = RECONNECT_DELAY_MULTIPLIER * g[i - 1]

(***************************************************************************)
(* There is such a function for every n: the one for the least n without   *)
(* could be made from the one before.                                      *)
(***************************************************************************)
LEMMA PowersExist ==
  ASSUME NEW n \in Nat
  PROVE  \E g : Powers(g, n)
<1> DEFINE M == RECONNECT_DELAY_MULTIPLIER
           T == {m \in Nat : ~ \E g : Powers(g, m)}
<1>0. M \in Nat \ {0}
  BY DelayAssumption
<1>1. SUFFICES ASSUME T # {} PROVE FALSE
  OBVIOUS
<1>2. PICK m \in T : \A k \in T : m <= k
  <2>1. T \subseteq Nat
    OBVIOUS
  <2> HIDE DEF T
  <2> QED
    BY <1>1, <2>1, LeastNatural
<1>3. m \in Nat
  OBVIOUS
<1>4. CASE m = 0
  <2> DEFINE g == [i \in 0..0 |-> 1]
  <2>1. Powers(g, 0)
    BY DEF Powers
  <2> QED
    BY <1>4, <2>1
<1>5. CASE m > 0
  <2>1. m - 1 \in Nat /\ m - 1 \notin T
    BY <1>2, <1>3, <1>5
  <2>2. PICK f : Powers(f, m - 1)
    BY <2>1
  <2> DEFINE g == [i \in 0..m |-> IF i = m THEN M * f[m - 1] ELSE f[i]]
  <2>3. f \in [0..(m - 1) -> Nat \ {0}] /\ f[0] = 1
        /\ \A i \in 1..(m - 1) : f[i] = M * f[i - 1]
    BY <2>2 DEF Powers
  <2>4. f[m - 1] \in Nat \ {0}
    BY <1>3, <1>5, <2>3
  <2>5. M * f[m - 1] \in Nat \ {0}
    BY <1>0, <2>4
  <2>6. \A i \in 0..(m - 1) : g[i] = f[i]
    BY <1>3
  <2>7. g[m] = M * f[m - 1] /\ g[m - 1] = f[m - 1]
    BY <1>3, <1>5
  <2>8. g \in [0..m -> Nat \ {0}]
    BY <1>3, <2>3, <2>5
  <2> HIDE DEF g
  <2>9. \A i \in 1..m : g[i] = M * g[i - 1]
    <3> SUFFICES ASSUME NEW i \in 1..m PROVE g[i] = M * g[i - 1]
      OBVIOUS
    <3>1. CASE i = m
      BY <2>7, <3>1
    <3>2. CASE i # m
      <4>1. i \in 1..(m - 1) /\ i \in 0..(m - 1) /\ i - 1 \in 0..(m - 1)
        BY <1>3, <3>2
      <4> QED
        BY <2>3, <2>6, <4>1
    <3> QED
      BY <3>1, <3>2
  <2>10. g[0] = 1
    BY <1>3, <1>5, <2>3, <2>6
  <2>11. Powers(g, m)
    BY <2>8, <2>9, <2>10 DEF Powers
  <2> QED
    BY <2>11
<1> QED
  BY <1>3, <1>4, <1>5

(***************************************************************************)
(* Two such functions agree as far as both go.                             *)
(***************************************************************************)
LEMMA PowersAgree ==
  ASSUME NEW n \in Nat, NEW m \in Nat, n <= m,
         NEW g, Powers(g, n), NEW h, Powers(h, m), NEW i \in 0..n
  PROVE  g[i] = h[i]
<1> DEFINE M == RECONNECT_DELAY_MULTIPLIER
           T == {j \in 0..n : g[j] # h[j]}
<1>1. SUFFICES ASSUME T # {} PROVE FALSE
  OBVIOUS
<1>2. PICK j \in T : \A k \in T : j <= k
  <2>1. T \subseteq Nat
    OBVIOUS
  <2> HIDE DEF T
  <2> QED
    BY <1>1, <2>1, LeastNatural
<1>3. j # 0 /\ j \in 0..n /\ g[j] # h[j]
  BY <1>2 DEF Powers
<1>4. j - 1 \in 0..n /\ j - 1 \notin T /\ j \in 1..n /\ j \in 1..m
  BY <1>2, <1>3
<1>5. g[j - 1] = h[j - 1]
  BY <1>4
<1>6. g[j] = M * g[j - 1] /\ h[j] = M * h[j - 1]
  BY <1>4 DEF Powers
<1> QED
  BY <1>3, <1>5, <1>6

(***************************************************************************)
(* So the recursive definition of Power has a solution, and Power is what  *)
(* its definition says.                                                    *)
(***************************************************************************)
LEMMA PowerIs ==
  /\ Power[0] = 1
  /\ \A n \in Nat : /\ Power[n] \in Nat \ {0}
                    /\ Power[n + 1] = RECONNECT_DELAY_MULTIPLIER * Power[n]
<1> DEFINE M == RECONNECT_DELAY_MULTIPLIER
           G(n) == CHOOSE g : Powers(g, n)
           F == [n \in Nat |-> G(n)[n]]
<1>1. \A n \in Nat : Powers(G(n), n)
  BY PowersExist
<1> HIDE DEF G
<1>2. F[0] = 1
  BY <1>1 DEF Powers
<1>3. ASSUME NEW n \in Nat
      PROVE  F[n + 1] = M * F[n]
  <2>1. Powers(G(n), n) /\ Powers(G(n + 1), n + 1) /\ n + 1 \in Nat /\ n <= n + 1 /\ n \in 0..n
    BY <1>1
  <2>2. G(n)[n] = G(n + 1)[n]
    BY <2>1, PowersAgree
  <2>3. G(n + 1)[n + 1] = M * G(n + 1)[n]
    <3>1. n + 1 \in 1..(n + 1) /\ n + 1 - 1 = n
      OBVIOUS
    <3> QED
      BY <2>1, <3>1 DEF Powers
  <2> QED
    BY <2>2, <2>3
<1> HIDE DEF F
<1>4. F = [n \in Nat |-> IF n = 0 THEN 1 ELSE M * F[n - 1]]
  <2>1. \A n \in Nat : F[n] = IF n = 0 THEN 1 ELSE M * F[n - 1]
    <3> SUFFICES ASSUME NEW n \in Nat, n # 0 PROVE F[n] = M * F[n - 1]
      BY <1>2
    <3>1. n - 1 \in Nat /\ n - 1 + 1 = n
      OBVIOUS
    <3> QED
      BY <1>3, <3>1
  <2>2. F = [n \in Nat |-> F[n]]
    BY DEF F
  <2> QED
    BY <2>1, <2>2
<1>5. Power = [n \in Nat |-> IF n = 0 THEN 1 ELSE M * Power[n - 1]]
  <2>1. Power = CHOOSE f : f = [n \in Nat |-> IF n = 0 THEN 1 ELSE M * f[n - 1]]
    BY DEF Power
  <2>2. \E f : f = [n \in Nat |-> IF n = 0 THEN 1 ELSE M * f[n - 1]]
    BY <1>4
  <2> QED
    BY <2>1, <2>2
<1>6. Power[0] = 1
  BY <1>5
<1>7. \A n \in Nat : Power[n + 1] = M * Power[n]
  <2> SUFFICES ASSUME NEW n \in Nat PROVE Power[n + 1] = M * Power[n]
    OBVIOUS
  <2>1. n + 1 \in Nat /\ n + 1 # 0 /\ n + 1 - 1 = n
    OBVIOUS
  <2> QED
    BY <1>5, <2>1
<1>8. \A n \in Nat : Power[n] \in Nat \ {0}
  <2> DEFINE T == {n \in Nat : Power[n] \notin Nat \ {0}}
  <2> SUFFICES ASSUME T # {} PROVE FALSE
    OBVIOUS
  <2>1. PICK n \in T : \A m \in T : n <= m
    <3>1. T \subseteq Nat
      OBVIOUS
    <3> HIDE DEF T
    <3> QED
      BY <3>1, LeastNatural
  <2>2. n # 0
    BY <1>6
  <2>3. n - 1 \in Nat /\ Power[n - 1] \in Nat \ {0} /\ n - 1 + 1 = n
    BY <2>1, <2>2
  <2>4. Power[n] = M * Power[n - 1]
    BY <1>7, <2>3
  <2>5. M * Power[n - 1] \in Nat \ {0}
    BY <2>3, DelayAssumption
  <2> QED
    BY <2>4, <2>5
<1> QED
  BY <1>6, <1>7, <1>8

(***************************************************************************)
(* A delay that is capped, multiplied and capped again is as long as one   *)
(* that is capped only once.                                               *)
(***************************************************************************)
LEMMA GrowthIsCapped ==
  ASSUME NEW a \in Nat \ {0}, NEW max \in Nat \ {0}, NEW m \in Nat \ {0}
  PROVE  /\ Least(Least(a, max) * m, max) = Least(a * m, max)
         /\ a >= max => Least(a * m, max) = max
<1>1. max * m >= max /\ a * m >= a /\ max * m \in Nat /\ a * m \in Nat
  <2>1. \A x \in Nat : x * m >= x /\ x * m \in Nat
    <3> SUFFICES ASSUME NEW x \in Nat PROVE x * m >= x /\ x * m \in Nat
      OBVIOUS
    <3>1. m = (m - 1) + 1 /\ m - 1 \in Nat
      OBVIOUS
    <3>2. x * m = x * (m - 1) + x /\ x * (m - 1) \in Nat
      BY <3>1
    <3> QED
      BY <3>2
  <2> QED
    BY <2>1
<1>2. CASE a <= max
  BY <1>1, <1>2 DEF Least
<1>3. CASE ~(a <= max)
  <2>1. Least(a, max) = max
    BY <1>3 DEF Least
  <2>2. Least(max * m, max) = max
    BY <1>1 DEF Least
  <2>3. Least(a * m, max) = max
    BY <1>1, <1>3 DEF Least
  <2> QED
    BY <2>1, <2>2, <2>3
<1> QED
  BY <1>2, <1>3

(***************************************************************************)
(* One more wait, whether or not the count of waits saturates.             *)
(***************************************************************************)
LEMMA BackoffWaited ==
  ASSUME ConnTypeOK, BackoffFollowsFailures, WaitEnds
  PROVE  BackoffFollowsFailures'
<1> DEFINE M == RECONNECT_DELAY_MULTIPLIER
           MAX == RECONNECT_DELAY_MAX
           due == RECONNECT_DELAY_INITIAL * Power[waits]
           next == RECONNECT_DELAY_INITIAL * Power[waits + 1]
<1>1. M \in Nat \ {0} /\ MAX \in Nat \ {0} /\ RECONNECT_DELAY_INITIAL \in Nat \ {0}
  BY DelayAssumption
<1>2. /\ waits \in Nat /\ waits <= MaxWaits /\ delay = Least(due, MAX)
      /\ delay' = Least(delay * M, MAX) /\ waits' = Least(waits + 1, MaxWaits)
  BY BoundsAssumption DEF WaitEnds, BackoffFollowsFailures, ConnTypeOK
<1>3. due \in Nat \ {0} /\ next = due * M
  <2>1. Power[waits] \in Nat \ {0} /\ Power[waits + 1] = M * Power[waits]
    BY <1>2, PowerIs
  <2> QED
    BY <1>1, <2>1
<1>4. waits = MaxWaits => M = 1 \/ due >= MAX
  BY SaturationAssumption
<1> HIDE DEF M, MAX, due, next
<1>5. /\ delay' = Least(due * M, MAX)
      /\ due >= MAX => Least(due * M, MAX) = MAX
  BY <1>1, <1>2, <1>3, GrowthIsCapped
<1>6. CASE waits < MaxWaits
  <2>1. waits' = waits + 1
    BY <1>2, <1>6, BoundsAssumption DEF Least
  <2>2. delay' = Least(next, MAX)
    BY <1>3, <1>5
  <2> QED
    BY <2>1, <2>2 DEF BackoffFollowsFailures, next, MAX
<1>7. CASE waits = MaxWaits
  <2>1. waits' = waits
    BY <1>2, <1>7, BoundsAssumption DEF Least
  <2>2. delay' = Least(due, MAX)
    <3>1. CASE M = 1
      BY <1>3, <1>5, <3>1
    <3>2. CASE due >= MAX
      BY <1>1, <1>3, <1>5, <3>2 DEF Least
    <3> QED
      BY <1>4, <1>7, <3>1, <3>2
  <2> QED
    BY <2>1, <2>2 DEF BackoffFollowsFailures, due, MAX
<1> QED
  BY <1>2, <1>6, <1>7, BoundsAssumption

(***************************************************************************)
(* The other steps of the connection change neither the delay nor the      *)
(* count, or set both back.                                                *)
(***************************************************************************)
LEMMA BackoffStep ==
  ASSUME ConnTypeOK, BackoffFollowsFailures, ConnStep
  PROVE  BackoffFollowsFailures'
<1>1. CASE WaitEnds
  BY <1>1, BackoffWaited
<1>2. CASE Dialed
  <2>1. delay' = RECONNECT_DELAY_INITIAL /\ waits' = 0
    BY <1>2 DEF Dialed
  <2>2. RECONNECT_DELAY_INITIAL * Power[0] = RECONNECT_DELAY_INITIAL
    BY PowerIs, DelayAssumption
  <2> QED
    BY <2>1, <2>2, DelayAssumption DEF BackoffFollowsFailures, Least
<1>3. CASE UNCHANGED <<delay, waits>>
  BY <1>3 DEF BackoffFollowsFailures
<1> QED
  BY <1>1, <1>2, <1>3
     DEF ConnStep, ConnNext, Resubscribed, DialFails, ListenerEnds, ConnectionEnds,
         NotConnected, HeartbeatStarts, HeartbeatWakes, PingEnds, Tick, Start,
         StopBegins, StopEnds, connVars, loopVars

(***************************************************************************)
(* The first wait is the initial delay.                                    *)
(***************************************************************************)
LEMMA BackoffInit == ConnInit => BackoffFollowsFailures
<1>1. RECONNECT_DELAY_INITIAL * Power[0] = RECONNECT_DELAY_INITIAL
  BY PowerIs, DelayAssumption
<1> QED
  BY <1>1, DelayAssumption DEF ConnInit, BackoffFollowsFailures, Least

-----------------------------------------------------------------------------
(***************************************************************************)
(* What the client and the services are in each phase of main().           *)
(***************************************************************************)
Before == {"boot", "failed"}
Up == {"starting", "serving", "closing", "draining", "cancelling", "stopping pool"}
Stopped == {"stopping pubsub", "closing redis", "shut"}

ServerInv ==
  /\ phase \in Before => created = 0 /\ stage = "idle"
  /\ phase \in Up => stage # "idle" /\ stopping = "no" /\ redis /\ pubsub /\ pool /\ clients
  /\ phase \notin Before => created = 1
  /\ phase = "stopping client" => stopping = "cancelling" /\ ~pool
  /\ phase \in Stopped => stopping = "done" /\ ~pool /\ ~clients
  /\ phase \in {"closing redis", "shut"}
       => ~pubsub /\ listener \in {"unstarted", "stopped"}
  /\ phase = "shut" => ~redis
  /\ phase \in Stopped \cup {"stopping pool", "stopping client"} => cleanup = "ended"
  /\ phase \notin {"serving", "closing"} => \A c \in Client : handler[c] = "absent"

ConnInv == Room /\ LoopInv /\ ResubscribingInv /\ HeartbeatInv /\ PingInv
Inv == TypeOK /\ ConnInv /\ ServerInv

(***************************************************************************)
(* The invariant holds when the process starts.                            *)
(***************************************************************************)
LEMMA InvInit == Init => Inv
<1> SUFFICES ASSUME Init PROVE Inv OBVIOUS
<1> USE DEF Init, ConnInit
<1>1. ConnTypeOK
  <2>1. stage \in Stages BY DEF Stages
  <2>2. delay \in 1..RECONNECT_DELAY_MAX /\ wait \in 0..RECONNECT_DELAY_MAX
    BY DelayAssumption
  <2>3. latest \in 0..MaxConnections /\ waits \in 0..MaxWaits BY BoundsAssumption
  <2>4. gap \in 0..PING_INTERVAL + 1 /\ sincePing \in 0..PING_INTERVAL + PING_TIMEOUT + 1
    BY PingAssumption
  <2>5. running \in BOOLEAN /\ connected \in BOOLEAN OBVIOUS
  <2> QED BY <2>1, <2>2, <2>3, <2>4, <2>5 DEF ConnTypeOK
<1>2. TypeOK BY <1>1 DEF TypeOK, Phases
<1>3. ConnInv
  BY DEF ConnInv, Room, LoopInv, ResubscribingInv, HeartbeatInv, PingInv
<1>4. ServerInv BY DEF ServerInv, Before, Up, Stopped
<1> QED BY <1>2, <1>3, <1>4 DEF Inv

(***************************************************************************)
(* Every step of the server is a step of the connection or leaves it.      *)
(***************************************************************************)
LEMMA NextIsConnStep ==
  ASSUME Inv, [Next]_vars PROVE ConnStep
<1> USE DEF Goes
<1>1. CASE StartServices
  BY <1>1 DEF StartServices, ConnStep, Inv, ServerInv, Before
<1>2. CASE StopPool BY <1>2 DEF StopPool, ConnStep
<1>3. CASE PoolStopped BY <1>3 DEF PoolStopped, ConnStep
<1>4. CASE ConnNext BY <1>4 DEF ConnStep
<1>5. CASE UNCHANGED connVars BY <1>5 DEF ConnStep
<1>6. CASE Startup
  BY <1>6, <1>1, <1>5 DEF Startup, HealthCheckFails, StaleCleaned
<1>7. CASE Shutdown
  BY <1>7, <1>2, <1>3, <1>5
  DEF Shutdown, ServerLeft, DrainClients, CancelCleanup, StopPubSub, CloseRedis
<1>8. ASSUME NEW c \in Client, Handles(c) PROVE ConnStep
  BY <1>8, <1>5
  DEF Handles, Accept, Subscribe, EnsureSubscribed, Unsubscribe, Unregister, Leave,
      UnsubscribeClient, HandlerReturns, ClosesIdle
<1>9. CASE Signal \/ CleanupWakes \/ CleanupSleeps \/ ListenEnds
  BY <1>9, <1>5 DEF Signal, CleanupWakes, CleanupSleeps, ListenEnds
<1>10. CASE UNCHANGED vars BY <1>10, <1>5 DEF vars
<1> QED BY <1>4, <1>6, <1>7, <1>8, <1>9, <1>10 DEF Next, TaskRuns

(***************************************************************************)
(* The connection's own steps neither start nor stop its client.           *)
(***************************************************************************)
LEMMA ConnNextKeepsStopping ==
  ASSUME ConnTypeOK, LoopInv, ConnNext
  PROVE  UNCHANGED stopping /\ (stage' = "idle" <=> stage = "idle")
<1>1. ASSUME NEW h \in heartbeats, HeartbeatStarts(h) \/ HeartbeatWakes(h) \/ PingEnds(h)
      PROVE  UNCHANGED <<stopping, stage>>
  BY <1>1 DEF HeartbeatStarts, HeartbeatWakes, PingEnds, loopVars
<1> QED
  BY <1>1
  DEF ConnNext, Dialed, StartTasks, Resubscribed, DialFails, ListenerEnds, ConnectionEnds,
      WaitEnds, NotConnected, Tick

(***************************************************************************)
(* Each step of the server leads to what the next phase asks for.          *)
(***************************************************************************)
LEMMA ServerInvNext ==
  ASSUME Inv, [Next]_vars
  PROVE  ServerInv'
<1> USE DEF Inv, ServerInv, Before, Up, Stopped, Goes, Enters, serviceVars, callbackVars
<1>1. CASE HealthCheckFails BY <1>1 DEF HealthCheckFails, connVars, loopVars
<1>2. CASE StartServices BY <1>2 DEF StartServices, Start, ConnInv, LoopInv
<1>3. CASE StaleCleaned BY <1>3 DEF StaleCleaned, connVars, loopVars
<1>4. ASSUME NEW c \in Client, Handles(c) PROVE ServerInv'
  <2>1. phase \in {"serving", "closing"}
    BY <1>4 DEF Handles, Accept, Subscribe, EnsureSubscribed, Unsubscribe, Leave,
       UnsubscribeClient, HandlerReturns, ClosesIdle
  <2>2. UNCHANGED <<phase, serviceVars, cleanup, connVars>>
    BY <1>4, <2>1 DEF Handles, Accept, Subscribe, EnsureSubscribed, Unsubscribe, Unregister,
       Leave, UnsubscribeClient, HandlerReturns, ClosesIdle, TypeOK
  <2> QED BY <2>1, <2>2 DEF connVars, loopVars
<1>5. CASE CleanupWakes \/ CleanupSleeps
  BY <1>5 DEF CleanupWakes, CleanupSleeps, connVars, loopVars
<1>16. CASE ListenEnds
  <2>1. phase \notin {"closing redis", "shut"}
    BY <1>16 DEF ListenEnds
  <2> QED BY <1>16, <2>1 DEF ListenEnds, connVars, loopVars
<1>6. CASE Signal BY <1>6 DEF Signal, connVars, loopVars
<1>7. CASE ServerLeft BY <1>7 DEF ServerLeft, connVars, loopVars
<1>8. CASE DrainClients BY <1>8 DEF DrainClients, connVars, loopVars
<1>9. CASE CancelCleanup BY <1>9 DEF CancelCleanup, connVars, loopVars
<1>10. CASE StopPool BY <1>10 DEF StopPool, StopBegins
<1>11. CASE PoolStopped BY <1>11 DEF PoolStopped, StopEnds
<1>12. CASE StopPubSub BY <1>12 DEF StopPubSub, connVars, loopVars
<1>13. CASE CloseRedis BY <1>13 DEF CloseRedis, connVars, loopVars
<1>14. CASE ConnNext /\ UNCHANGED serverVars
  <2>1. UNCHANGED stopping /\ (stage' = "idle" <=> stage = "idle")
    BY <1>14, ConnNextKeepsStopping DEF TypeOK, ConnInv
  <2> QED BY <1>14, <2>1 DEF serverVars
<1>15. CASE UNCHANGED vars BY <1>15 DEF vars, serverVars, connVars, loopVars
<1> QED
  BY <1>1, <1>2, <1>3, <1>4, <1>5, <1>6, <1>7, <1>8, <1>9, <1>10, <1>11, <1>12, <1>13,
     <1>14, <1>15, <1>16
  DEF Next, TaskRuns, Startup, Shutdown

(***************************************************************************)
(* The types of the server's variables.                                    *)
(***************************************************************************)
LEMMA TypeNext ==
  ASSUME Inv, [Next]_vars
  PROVE  TypeOK'
<1>1. ConnTypeOK'
  <2>1. ConnTypeOK /\ Room BY DEF Inv, TypeOK, ConnInv
  <2> QED BY <2>1, NextIsConnStep, ConnTypeStep
<1>0. created' = created \/ created' = created + 1 => created' \in Nat
  <2>1. created \in Nat BY DEF Inv, TypeOK
  <2> QED BY <2>1
<1> USE DEF Inv, TypeOK, Phases, Goes, Enters, serviceVars, callbackVars
<1>2. CASE Startup
  <2>1. CASE HealthCheckFails BY <1>1, <2>1 DEF HealthCheckFails
  <2>2. CASE StartServices
    <3>1. redis' \in BOOLEAN /\ pubsub' \in BOOLEAN /\ pool' \in BOOLEAN
          /\ clients' \in BOOLEAN
      BY <2>2 DEF StartServices
    <3>2. phase' = "starting" /\ cleanup' = "sleeping" /\ handler' = handler
          /\ created' = created + 1
      BY <2>2 DEF StartServices
    <3>3. created' \in Nat BY <1>0, <3>2
    <3>4. phase' \in Phases /\ cleanup' \in {"none", "sleeping", "cleaning", "ended"}
      BY <3>2
    <3>5. handler' \in [Client -> {"absent", "connected", "subscribing", "leaving"}]
      BY <3>2
    <3>6. UNCHANGED callbackVars
      BY <2>2 DEF StartServices
    <3> QED BY <1>1, <3>1, <3>3, <3>4, <3>5, <3>6
  <2>3. CASE StaleCleaned BY <1>1, <2>3 DEF StaleCleaned
  <2> QED BY <1>2, <2>1, <2>2, <2>3 DEF Startup
<1>3. ASSUME NEW c \in Client, Handles(c) PROVE TypeOK'
  <2>1. CASE EnsureSubscribed(c)
    <3>1. handler' \in [Client -> {"absent", "connected", "subscribing", "leaving"}]
      BY <2>1 DEF EnsureSubscribed
    <3>2. created' \in Nat
      <4>1. created' = created \/ created' = created + 1 BY <2>1 DEF EnsureSubscribed
      <4> QED BY <1>0, <4>1
    <3>3. clients' \in BOOLEAN
          /\ UNCHANGED <<phase, redis, pubsub, pool, cleanup, callbackVars>>
      BY <2>1 DEF EnsureSubscribed
    <3> QED BY <1>1, <3>1, <3>2, <3>3
  <2>2. CASE ~EnsureSubscribed(c)
    <3>1. handler' \in [Client -> {"absent", "connected", "subscribing", "leaving"}]
      BY <1>3, <2>2 DEF Handles, Accept, Subscribe, Unsubscribe, Unregister, Leave,
         UnsubscribeClient, HandlerReturns, ClosesIdle
    <3>2. UNCHANGED <<phase, serviceVars, cleanup>>
      BY <1>3, <2>2 DEF Handles, Accept, Subscribe, Unsubscribe, Unregister, Leave,
         UnsubscribeClient, HandlerReturns, ClosesIdle
    <3>3. /\ registered' \subseteq Client
          /\ listener' \in {"unstarted", "listening", "spinning", "stopped"}
      BY <1>3, <2>2 DEF Handles, Accept, Subscribe, Unsubscribe, Unregister, Leave,
         UnsubscribeClient, HandlerReturns, ClosesIdle
    <3> QED BY <1>1, <3>1, <3>2, <3>3
  <2> QED BY <2>1, <2>2
<1>4. CASE CleanupWakes \/ CleanupSleeps \/ Signal \/ ListenEnds
  BY <1>1, <1>4 DEF CleanupWakes, CleanupSleeps, Signal, ListenEnds
<1>5. CASE Shutdown
  BY <1>1, <1>5 DEF Shutdown, ServerLeft, DrainClients, CancelCleanup, StopPool,
     PoolStopped, StopPubSub, CloseRedis
<1>6. CASE UNCHANGED serverVars BY <1>1, <1>6 DEF serverVars
<1> QED BY <1>2, <1>3, <1>4, <1>5, <1>6 DEF Next, TaskRuns, vars

(***************************************************************************)
(* The invariant is inductive.                                             *)
(***************************************************************************)
LEMMA InvNext == Inv /\ [Next]_vars => Inv'
<1> SUFFICES ASSUME Inv, [Next]_vars PROVE Inv' OBVIOUS
<1>1. ConnStep BY NextIsConnStep
<1>2. ConnTypeOK /\ Room /\ LoopInv /\ ResubscribingInv /\ HeartbeatInv /\ PingInv
  BY DEF Inv, TypeOK, ConnInv
<1>3. Room' BY <1>1, <1>2, ConnTypeStep
<1>4. LoopInv' BY <1>1, <1>2, LoopInvStep
<1>5. ResubscribingInv' BY <1>1, <1>2, ResubscribingStep
<1>6. HeartbeatInv' BY <1>1, <1>2, HeartbeatStep
<1>7. PingInv' BY <1>1, <1>2, PingInvStep
<1>8. ServerInv' BY ServerInvNext
<1>9. TypeOK' BY TypeNext
<1> QED BY <1>3, <1>4, <1>5, <1>6, <1>7, <1>8, <1>9 DEF Inv, ConnInv

(***************************************************************************)
(* The invariant in every reachable state.                                 *)
(***************************************************************************)
LEMMA InvHolds == Spec => []Inv
BY InvInit, InvNext, PTL DEF Spec

-----------------------------------------------------------------------------
(***************************************************************************)
(* An outage longer than the ping interval ends the heartbeats of every    *)
(* connection there has been.                                              *)
(***************************************************************************)
THEOREM HeartbeatsEndInOutages == Spec => []HeartbeatsEnd
<1>1. Inv => HeartbeatsEnd
  <2> SUFFICES ASSUME Inv, ~connected, gap > PING_INTERVAL, NEW h \in heartbeats
               PROVE  FALSE
    BY DEF HeartbeatsEnd
  <2>1. h \in Heartbeat /\ EndsInOutage(h) /\ gap \in Int
    BY DEF Inv, TypeOK, ConnTypeOK, ConnInv, HeartbeatInv
  <2>2. h.left \in Int /\ h.left >= 0 BY <2>1, PingAssumption DEF Heartbeat, Longest
  <2> QED BY <2>1, <2>2, PingAssumption DEF EndsInOutage
<1> QED BY <1>1, InvHolds, PTL

(***************************************************************************)
(* For any delays and any multiplier: the n-th wait in a row of            *)
(* _schedule_reconnect lasts INITIAL * MULTIPLIER ^ (n - 1), at most MAX,  *)
(* and a connection sets it back.                                          *)
(***************************************************************************)
THEOREM BackoffCountsFailures == Spec => []BackoffFollowsFailures
<1>1. Init => BackoffFollowsFailures
  BY BackoffInit DEF Init
<1>2. BackoffFollowsFailures /\ Inv /\ [Next]_vars => BackoffFollowsFailures'
  <2> SUFFICES ASSUME BackoffFollowsFailures, Inv, [Next]_vars
               PROVE  BackoffFollowsFailures'
    OBVIOUS
  <2>1. ConnStep
    BY NextIsConnStep DEF Inv
  <2>2. ConnTypeOK
    BY DEF Inv, TypeOK
  <2> QED
    BY <2>1, <2>2, BackoffStep
<1> QED
  BY <1>1, <1>2, InvHolds, PTL DEF Spec

(***************************************************************************)
(* A client that listens is never longer without a ping than the interval  *)
(* and one timeout.                                                        *)
(***************************************************************************)
THEOREM ClientIsKeptAlive == Spec => []KeptAlive
<1>1. Inv => KeptAlive BY PingInvKeepsAlive DEF Inv, TypeOK, ConnInv
<1> QED BY <1>1, InvHolds, PTL

(***************************************************************************)
(* A handler never runs without the services it calls.                     *)
(***************************************************************************)
THEOREM ServicesOutliveHandlers == Spec => []HandlersAreServed
<1>1. Inv => HandlersAreServed BY DEF Inv, ServerInv, Up, HandlersAreServed
<1> QED BY <1>1, InvHolds, PTL

(***************************************************************************)
(* The process creates one Bybit client.                                   *)
(***************************************************************************)
THEOREM OneClientIsCreated == Spec => []OneBybitClient
<1>1. Inv => created = 0 \/ created = 1 BY DEF Inv, ServerInv
<1>2. created = 0 \/ created = 1 => OneBybitClient BY DEF OneBybitClient
<1> QED BY <1>1, <1>2, InvHolds, PTL

(***************************************************************************)
(* When shutdown() returns, nothing goes on but heartbeats about to end.   *)
(***************************************************************************)
THEOREM ShutdownIsComplete == Spec => []ShutdownLeavesNothing
<1>1. Inv => ShutdownLeavesNothing
  <2> SUFFICES ASSUME Inv, phase = "shut" PROVE ShutdownLeavesNothing
    BY DEF ShutdownLeavesNothing
  <2>1. stopping = "done" /\ cleanup = "ended" /\ ~pool /\ ~clients /\ ~pubsub /\ ~redis
        /\ listener \in {"unstarted", "stopped"}
        /\ \A c \in Client : handler[c] = "absent"
    BY DEF Inv, ServerInv, Stopped
  <2>2. stage = "ended" /\ ~connected BY <2>1 DEF Inv, ConnInv, LoopInv
  <2>3. \A h \in heartbeats : h.of < latest \/ h.stage = "started"
    BY <2>1 DEF Inv, ConnInv, HeartbeatInv, Shaped
  <2> QED BY <2>1, <2>2, <2>3 DEF ShutdownLeavesNothing
<1> QED BY <1>1, InvHolds, PTL

(***************************************************************************)
(* Every variable keeps its type.                                          *)
(***************************************************************************)
THEOREM TypeCorrect == Spec => []TypeOK
<1>1. Inv => TypeOK BY DEF Inv
<1> QED BY <1>1, InvHolds, PTL

=============================================================================
