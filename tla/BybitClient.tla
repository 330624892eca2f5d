----------------------------- MODULE BybitClient -----------------------------
(***************************************************************************)
(* The upstream WebSocket client of one category,                          *)
(* app/upstream/bybit_client.py: the connect loop, the resubscription      *)
(* after a reconnect, and subscribe and unsubscribe called by the pool.    *)
(*                                                                         *)
(* ws.send puts the frame on the wire at once and then suspends only under *)
(* back-pressure; Bybit executes the frames of a connection in order, so a *)
(* frame takes effect on live when it is sent.                             *)
(***************************************************************************)
EXTENDS Naturals, FiniteSets

CONSTANTS
  Topic,         \* Bybit topics
  Caller,        \* coroutines that call subscribe and unsubscribe
  BATCH,         \* BYBIT_MAX_SYMBOLS_PER_SUBSCRIPTION (10 in the code)
  ConnectLoop,   \* _connect_loop, which sends too when it resubscribes
  MaxFailures,   \* bound on dropped connections and failed attempts
  MaxSuspensions \* bound on sends that suspend

ASSUME TopicAssumption == IsFiniteSet(Topic)
ASSUME BatchAssumption == BATCH \in Nat \ {0}
ASSUME ConnectLoopAssumption == ConnectLoop \notin Caller
ASSUME FailuresAssumption == MaxFailures \in Nat
ASSUME SuspensionsAssumption == MaxSuspensions \in Nat

VARIABLES
  subscribed,  \* self._subscribed
  pending,     \* self._pending_subscribe
  connected,   \* self._connected
  loop,        \* where _connect_loop is
  rest,        \* topics _resubscribe has not sent yet
  sending,     \* calls suspended in ws.send
  open,        \* the connection in self._ws is open
  live,        \* topics Bybit streams on it
  failures,    \* dropped connections and failed attempts so far
  suspensions  \* sends that have suspended so far

topicVars == <<subscribed, pending, live>>
loopVars == <<connected, loop, rest>>
sendVars == <<sending, suspensions>>
vars == <<topicVars, loopVars, sendVars, open, failures>>

Send == [op : {"subscribe", "unsubscribe"}, topics : SUBSET Topic,
         caller : Caller \cup {ConnectLoop}]

TypeOK ==
  /\ subscribed \subseteq Topic
  /\ pending \subseteq Topic
  /\ connected \in BOOLEAN
  /\ loop \in {"connecting", "resubscribing", "listening", "sleeping", "stopped"}
  /\ rest \subseteq Topic
  /\ sending \subseteq Send
  /\ open \in BOOLEAN
  /\ live \subseteq Topic
  /\ failures \in 0..MaxFailures
  /\ suspensions \in 0..MaxSuspensions

(***************************************************************************)
(* The state after start(): the connect loop is about to connect.          *)
(***************************************************************************)
Init ==
  /\ subscribed = {}
  /\ pending = {}
  /\ connected = FALSE
  /\ loop = "connecting"
  /\ rest = {}
  /\ sending = {}
  /\ open = FALSE
  /\ live = {}
  /\ failures = 0
  /\ suspensions = 0

Failure == failures < MaxFailures /\ failures' = failures + 1

Suspended(c) == \E s \in sending : s.caller = c

Suspend(op, ts, c) ==
  /\ suspensions < MaxSuspensions
  /\ suspensions' = suspensions + 1
  /\ sending' = sending \cup {[op |-> op, topics |-> ts, caller |-> c]}

-----------------------------------------------------------------------------
(***************************************************************************)
(* subscribe([t]) as the pool calls it                                     *)
(***************************************************************************)
CanSend == connected /\ open

(***************************************************************************)
(* subscribe runs to its end.  A send that cannot be made, or fails,       *)
(* leaves the topic pending, and in either case it counts as subscribed.   *)
(***************************************************************************)
SubscribeReturns(t) ==
  /\ subscribed' = subscribed \cup {t}
  /\ \/ t \in subscribed /\ UNCHANGED <<live, pending>>
     \/ t \notin subscribed /\ CanSend /\ live' = live \cup {t} /\ UNCHANGED pending
     \/ t \notin subscribed /\ ~CanSend /\ pending' = pending \cup {t} /\ UNCHANGED live
  /\ UNCHANGED <<loopVars, sendVars, open, failures>>

SubscribeSuspends(t, c) ==
  /\ t \notin subscribed
  /\ CanSend
  /\ live' = live \cup {t}
  /\ Suspend("subscribe", {t}, c)
  /\ UNCHANGED <<subscribed, pending, loopVars, open, failures>>

(***************************************************************************)
(* unsubscribe([t]).  A send that fails at once leaves the topic tracked;  *)
(* pending is never purged.                                                *)
(***************************************************************************)
UnsubscribeReturns(t) ==
  /\ \/ t \notin subscribed /\ UNCHANGED <<subscribed, live>>
     \/ t \in subscribed /\ CanSend
        /\ live' = live \ {t} /\ subscribed' = subscribed \ {t}
     \/ t \in subscribed /\ ~connected
        /\ subscribed' = subscribed \ {t} /\ UNCHANGED live
     \/ t \in subscribed /\ connected /\ ~open /\ UNCHANGED <<subscribed, live>>
  /\ UNCHANGED <<pending, loopVars, sendVars, open, failures>>

UnsubscribeSuspends(t, c) ==
  /\ t \in subscribed
  /\ CanSend
  /\ live' = live \ {t}
  /\ Suspend("unsubscribe", {t}, c)
  /\ UNCHANGED <<subscribed, pending, loopVars, open, failures>>

(***************************************************************************)
(* A suspended send ends, in an exception only if the connection dropped.  *)
(***************************************************************************)
SendEnds(s, raised) ==
  /\ raised => ~open
  /\ sending' = sending \ {s}
  /\ subscribed' = IF s.op = "subscribe" THEN subscribed \cup s.topics
                   ELSE IF raised THEN subscribed ELSE subscribed \ s.topics
  /\ pending' = IF s.op = "subscribe" /\ raised THEN pending \cup s.topics
                ELSE pending
  /\ loop' = IF s.caller = ConnectLoop /\ rest = {} /\ loop # "stopped"
             THEN "listening" ELSE loop
  /\ UNCHANGED <<live, connected, rest, open, failures, suspensions>>

-----------------------------------------------------------------------------
(***************************************************************************)
(* The connect loop                                                        *)
(***************************************************************************)
Batches(ts) ==
  {b \in SUBSET ts :
     Cardinality(b) = IF Cardinality(ts) > BATCH THEN BATCH ELSE Cardinality(ts)}

(***************************************************************************)
(* One batch of _resubscribe: subs and pend are the two sets before it, up *)
(* says whether the connection is open.                                    *)
(***************************************************************************)
Resend(ts, subs, pend, up) ==
  \E batch \in Batches(ts) :
    /\ rest' = ts \ batch
    /\ live' = IF up THEN live \cup batch ELSE live
    /\ \/ /\ subscribed' = subs \cup batch
          /\ pending' = IF up THEN pend ELSE pend \cup batch
          /\ loop' = IF rest' = {} THEN "listening" ELSE "resubscribing"
          /\ UNCHANGED sendVars
       \/ /\ up
          /\ Suspend("subscribe", batch, ConnectLoop)
          /\ subscribed' = subs
          /\ pending' = pend
          /\ loop' = "resubscribing"

(***************************************************************************)
(* Mutant: the reconnect does not resubscribe.                             *)
(***************************************************************************)
ConnectWithoutResubscribe ==
  /\ loop = "connecting"
  /\ open' = TRUE
  /\ connected' = TRUE
  /\ loop' = "listening"
  /\ UNCHANGED <<topicVars, rest, sendVars, failures>>

(***************************************************************************)
(* Mutant: the set is cleared before it is read.                           *)
(***************************************************************************)
ConnectClearsFirst ==
  /\ loop = "connecting"
  /\ open' = TRUE
  /\ connected' = TRUE
  /\ IF subscribed = {} \/ pending = {}
     THEN loop' = "listening" /\ subscribed' = {}
          /\ UNCHANGED <<pending, live, rest, sendVars>>
     ELSE Resend(pending, {}, {}, TRUE)
  /\ UNCHANGED failures

(***************************************************************************)
(* The connection is made.  Both sets are emptied and every topic in them  *)
(* is sent again, unless no topic is subscribed.                           *)
(***************************************************************************)
ConnectSucceeds ==
  /\ loop = "connecting"
  /\ open' = TRUE
  /\ connected' = TRUE
  /\ \/ /\ subscribed = {}
        /\ loop' = "listening"
        /\ UNCHANGED <<topicVars, rest, sendVars>>
     \/ /\ subscribed # {}
        /\ Resend(subscribed \cup pending, {}, {}, TRUE)
  /\ UNCHANGED failures

ConnectFails ==
  /\ loop = "connecting"
  /\ Failure
  /\ loop' = "sleeping"
  /\ UNCHANGED <<topicVars, connected, rest, sendVars, open>>

(***************************************************************************)
(* The pause between two batches is over.                                  *)
(***************************************************************************)
ResubscribeNext ==
  /\ loop = "resubscribing"
  /\ ~Suspended(ConnectLoop)
  /\ Resend(rest, subscribed, pending, open)
  /\ UNCHANGED <<connected, open, failures>>

(***************************************************************************)
(* The connection is lost; the code notices when it reads or sends.        *)
(***************************************************************************)
Drop ==
  /\ open
  /\ Failure
  /\ open' = FALSE
  /\ live' = {}
  /\ UNCHANGED <<subscribed, pending, loopVars, sendVars>>

(***************************************************************************)
(* Mutant: the flag is not reset when the listener ends.                   *)
(***************************************************************************)
ListenerEndsConnected ==
  /\ loop = "listening"
  /\ ~open
  /\ loop' = "sleeping"
  /\ UNCHANGED <<topicVars, connected, rest, sendVars, open, failures>>

ListenerEnds ==
  /\ loop = "listening"
  /\ ~open
  /\ connected' = FALSE
  /\ loop' = "sleeping"
  /\ UNCHANGED <<topicVars, rest, sendVars, open, failures>>

(***************************************************************************)
(* The reconnect delay is over.  Every send on the lost connection has     *)
(* raised by then.                                                         *)
(***************************************************************************)
Wake ==
  /\ loop = "sleeping"
  /\ sending = {}
  /\ loop' = "connecting"
  /\ UNCHANGED <<topicVars, connected, rest, sendVars, open, failures>>

(***************************************************************************)
(* stop() cancels the connect loop where it is, then closes the socket.    *)
(***************************************************************************)
Stop ==
  /\ loop # "stopped"
  /\ loop' = "stopped"
  /\ connected' = FALSE
  /\ rest' = {}
  /\ sending' = {s \in sending : s.caller # ConnectLoop}
  /\ UNCHANGED <<topicVars, open, failures, suspensions>>

StopCloses ==
  /\ loop = "stopped"
  /\ open
  /\ open' = FALSE
  /\ live' = {}
  /\ UNCHANGED <<subscribed, pending, loopVars, sendVars, failures>>

Connection ==
  \/ ConnectSucceeds \/ ConnectFails \/ ResubscribeNext
  \/ Drop \/ ListenerEnds \/ Wake

Calls ==
  \E t \in Topic :
    \/ SubscribeReturns(t)
    \/ UnsubscribeReturns(t)
    \/ \E c \in Caller :
         /\ ~Suspended(c)
         /\ SubscribeSuspends(t, c) \/ UnsubscribeSuspends(t, c)

Resumptions == \E s \in sending, raised \in BOOLEAN : SendEnds(s, raised)

Next ==
  \/ Calls
  \/ Resumptions
  \/ Connection
  \/ Stop
  \/ StopCloses

Spec == Init /\ [][Next]_vars

(***************************************************************************)
(* The tasks of the event loop run; a connection attempt and a send end    *)
(* one way or the other; MaxFailures is the assumption that the network    *)
(* settles.  All of this presumes an event loop that the listener of the   *)
(* Pub/Sub manager has not blocked (ListenEnds of module PubSubManager).   *)
(***************************************************************************)
Fairness ==
  /\ WF_vars(Resumptions)
  /\ WF_vars(ConnectSucceeds \/ ConnectFails)
  /\ WF_vars(ResubscribeNext)
  /\ WF_vars(ListenerEnds)
  /\ WF_vars(Wake)

FairSpec == Spec /\ Fairness

-----------------------------------------------------------------------------
(***************************************************************************)
(* Properties                                                              *)
(***************************************************************************)

(***************************************************************************)
(* Until a send suspends, the client's set and what Bybit streams agree    *)
(* whenever the connection is up, in the middle of a resubscription too:   *)
(* subscribe may skip a topic that is in the set.                          *)
(***************************************************************************)
TrackedIsLive == (suspensions = 0 /\ CanSend) => live = subscribed

(***************************************************************************)
(* The topics the client has in hand: subscribed, or about to be.          *)
(***************************************************************************)
Tracked ==
  subscribed \cup rest \cup
    UNION {s.topics : s \in {x \in sending : x.op = "subscribe"}}

(***************************************************************************)
(* Losing and making connections never loses a topic: only unsubscribe     *)
(* (which leaves the connection alone) and stop() do.                      *)
(***************************************************************************)
ReconnectKeepsTopics ==
  [][\/ Tracked \subseteq Tracked'
     \/ UNCHANGED <<loop, connected, open, rest>>
     \/ loop' = "stopped"]_vars

(***************************************************************************)
(* Once the network settles, every topic the client has in hand is         *)
(* streamed, unless it is unsubscribed, the client is stopped, or a send   *)
(* has suspended.                                                          *)
(***************************************************************************)
TrackedBecomesLive ==
  \A t \in Topic :
    t \in Tracked ~>
      (t \in live \/ t \notin Tracked \/ loop = "stopped" \/ suspensions > 0)

(***************************************************************************)
(* The inductive invariant: where the connect loop is says what is known   *)
(* of the connection.                                                      *)
(***************************************************************************)
ConnectionKnown ==
  /\ ~open => live = {}
  /\ loop \in {"connecting", "sleeping"} => ~open /\ ~connected
  /\ loop = "stopped" => ~connected
  /\ loop # "resubscribing" => rest = {}

SendsKnown ==
  /\ suspensions = 0 => sending = {}
  /\ \A s \in sending : s.op = "unsubscribe" => s.caller # ConnectLoop

ClientInv ==
  /\ TypeOK
  /\ ConnectionKnown
  /\ SendsKnown
  /\ TrackedIsLive

=============================================================================
