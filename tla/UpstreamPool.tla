---------------------------- MODULE UpstreamPool ----------------------------
(***************************************************************************)
(* The upstream pool, app/upstream/pool.py, with the two components it     *)
(* drives: the reference counts in Redis and the Bybit client.             *)
(*                                                                         *)
(* A task is one client's use of one stream, as handler.py drives it:      *)
(* increment, then ensure_subscribed; decrement, then ensure_unsubscribed. *)
(* _make_topic maps a "stream_type:symbol" key to a topic one to one, so a *)
(* key stands for its topic too.  The pool has the one category "linear".  *)
(***************************************************************************)
EXTENDS Integers, FiniteSets

CONSTANTS
  Task,          \* one client's use of a stream
  Key,           \* "stream_type:symbol", and the Bybit topic made from it
  ConnectLoop,   \* see BybitClient
  BATCH,         \* see BybitClient
  MaxFailures,   \* see BybitClient
  MaxSuspensions, \* see BybitClient
  MaxFaults      \* see SubscriptionManager

ASSUME TaskAssumption == IsFiniteSet(Task)
ASSUME KeyAssumption == IsFiniteSet(Key)
ASSUME ConnectLoopAssumption == ConnectLoop \notin Task
ASSUME BatchAssumption == BATCH \in Nat \ {0}
ASSUME BoundsAssumption == MaxFailures \in Nat /\ MaxSuspensions \in Nat
ASSUME FaultsAssumption == MaxFaults \in Nat

VARIABLES
  upstream,  \* self._upstream_subscribed["linear"]
  inFlight,  \* self._in_flight["linear"]
  task       \* task[s]: where the handler of s is, and for which key

VARIABLES fields, count, marked, deleting, process, refs, overlapped, lost, faults,
          crashes
VARIABLES subscribed, pending, connected, loop, rest, sending, open, live,
          failures, suspensions

S == INSTANCE SubscriptionManager WITH Holder <- Task
B == INSTANCE BybitClient WITH Topic <- Key, Caller <- Task

poolVars == <<upstream, inFlight>>
countVars ==
  <<fields, count, marked, deleting, process, refs, overlapped, lost, faults,
    crashes>>
clientVars ==
  <<subscribed, pending, connected, loop, rest, sending, open, live, failures,
    suspensions>>
vars == <<poolVars, task, countVars, clientVars>>

(***************************************************************************)
(* "idle": not subscribed; "ensure": counted, ensure_subscribed next;      *)
(* "subscribing": in client.subscribe; "mark", "add": the rest of          *)
(* ensure_subscribed; "on": subscribed; "deleting": decrement holds its    *)
(* lock; "count", "drop": ensure_unsubscribed up to the count, and with a  *)
(* count of zero; "unsubscribing": in client.unsubscribe; "unmark": its    *)
(* last command.                                                           *)
(***************************************************************************)
Place ==
  {"idle", "ensure", "subscribing", "mark", "add", "on",
   "deleting", "count", "drop", "unsubscribing", "unmark"}

TypeOK ==
  /\ upstream \subseteq Key
  /\ inFlight \subseteq Key
  /\ task \in [Task -> [pc : Place, key : Key]]

Init ==
  /\ S!Init
  /\ B!Init
  /\ upstream = {}
  /\ inFlight = {}
  /\ task \in [Task -> [pc : {"idle"}, key : Key]]

At(s, pc) == task[s].pc = pc

Goto(s, pc) == task' = [task EXCEPT ![s].pc = pc]

-----------------------------------------------------------------------------
(***************************************************************************)
(* A client subscribes                                                     *)
(***************************************************************************)
Count(s, k) ==
  /\ At(s, "idle")
  /\ S!Increment(s, k) \/ S!IncrementFault(s, k)
  /\ task' = [task EXCEPT ![s] = [pc |-> "ensure", key |-> k]]
  /\ UNCHANGED <<poolVars, clientVars>>

(***************************************************************************)
(* ensure_subscribed: return when the topic is subscribed or in flight,    *)
(* else claim it and run client.subscribe until that suspends or returns.  *)
(***************************************************************************)
EnsureSubscribedKnown(s) ==
  /\ At(s, "ensure")
  /\ task[s].key \in upstream \cup inFlight
  /\ Goto(s, "on")
  /\ UNCHANGED <<poolVars, countVars, clientVars>>

Claim(s) ==
  /\ At(s, "ensure")
  /\ inFlight' = inFlight \cup {task[s].key}
  /\ \/ B!SubscribeReturns(task[s].key) /\ Goto(s, "mark")
     \/ B!SubscribeSuspends(task[s].key, s) /\ Goto(s, "subscribing")
  /\ UNCHANGED <<upstream, countVars>>

(***************************************************************************)
(* Mutant: a topic in flight is claimed again.                             *)
(***************************************************************************)
ClaimTwice(s) == task[s].key \notin upstream /\ Claim(s)

EnsureSubscribed(s) == task[s].key \notin upstream \cup inFlight /\ Claim(s)

ClientSubscribed(s, send) ==
  /\ At(s, "subscribing")
  /\ send.caller = s
  /\ \E raised \in BOOLEAN : B!SendEnds(send, raised)
  /\ Goto(s, "mark")
  /\ UNCHANGED <<poolVars, countVars>>

MarkSubscribed(s) ==
  /\ At(s, "mark")
  /\ S!MarkUpstreamSubscribed(task[s].key)
  /\ Goto(s, "add")
  /\ UNCHANGED <<poolVars, clientVars>>

(***************************************************************************)
(* Mutant: the topic stays in flight.                                      *)
(***************************************************************************)
AddStillInFlight(s) ==
  /\ At(s, "add")
  /\ upstream' = upstream \cup {task[s].key}
  /\ Goto(s, "on")
  /\ UNCHANGED <<inFlight, countVars, clientVars>>

(***************************************************************************)
(* Mutant: the set is updated with the topic as if it were a collection.   *)
(***************************************************************************)
AddWrongElement(s) ==
  /\ At(s, "add")
  /\ inFlight' = inFlight \ {task[s].key}
  /\ upstream' = upstream \cup {{task[s].key}}
  /\ Goto(s, "on")
  /\ UNCHANGED <<countVars, clientVars>>

AddUpstream(s) ==
  /\ At(s, "add")
  /\ inFlight' = inFlight \ {task[s].key}
  /\ upstream' = upstream \cup {task[s].key}
  /\ Goto(s, "on")
  /\ UNCHANGED <<countVars, clientVars>>

-----------------------------------------------------------------------------
(***************************************************************************)
(* A client unsubscribes, or leaves                                        *)
(***************************************************************************)
Discount(s) ==
  /\ At(s, "on")
  /\ S!Decrement(s, task[s].key) \/ S!DecrementFault(s, task[s].key)
  /\ Goto(s, IF deleting' = {} THEN "count" ELSE "deleting")
  /\ UNCHANGED <<poolVars, clientVars>>

Delete(d) ==
  /\ S!DecrementHdel(d)
  /\ UNCHANGED <<poolVars, task, clientVars>>

DeleteEnds(d) ==
  /\ S!DecrementSrem(d) \/ S!DeletionFault(d)
  /\ Goto(d.holder, "count")
  /\ UNCHANGED <<poolVars, clientVars>>

(***************************************************************************)
(* ensure_unsubscribed reads the count, and goes on with what it read.     *)
(***************************************************************************)
ReadCount(s) ==
  /\ At(s, "count")
  /\ \E n \in {0, count[task[s].key]} :
       /\ S!GetCount(task[s].key, n)
       /\ Goto(s, IF n > 0 THEN "idle" ELSE "drop")
  /\ UNCHANGED <<poolVars, clientVars>>

EnsureUnsubscribedUnknown(s) ==
  /\ At(s, "drop")
  /\ task[s].key \notin upstream
  /\ Goto(s, "idle")
  /\ UNCHANGED <<poolVars, countVars, clientVars>>

(***************************************************************************)
(* Mutant: the pool unsubscribes at Bybit without forgetting the topic.    *)
(***************************************************************************)
DropKeepsTopic(s) ==
  /\ At(s, "drop")
  /\ task[s].key \in upstream
  /\ \/ B!UnsubscribeReturns(task[s].key) /\ Goto(s, "unmark")
     \/ B!UnsubscribeSuspends(task[s].key, s) /\ Goto(s, "unsubscribing")
  /\ UNCHANGED <<poolVars, countVars>>

(***************************************************************************)
(* Under the lock the topic is forgotten, whatever the count is by now;    *)
(* client.unsubscribe runs until it suspends or returns.                   *)
(***************************************************************************)
EnsureUnsubscribed(s) ==
  /\ At(s, "drop")
  /\ task[s].key \in upstream
  /\ upstream' = upstream \ {task[s].key}
  /\ \/ B!UnsubscribeReturns(task[s].key) /\ Goto(s, "unmark")
     \/ B!UnsubscribeSuspends(task[s].key, s) /\ Goto(s, "unsubscribing")
  /\ UNCHANGED <<inFlight, countVars>>

ClientUnsubscribed(s, send) ==
  /\ At(s, "unsubscribing")
  /\ send.caller = s
  /\ \E raised \in BOOLEAN : B!SendEnds(send, raised)
  /\ Goto(s, "unmark")
  /\ UNCHANGED <<poolVars, countVars>>

MarkUnsubscribed(s) ==
  /\ At(s, "unmark")
  /\ S!MarkUpstreamUnsubscribed(task[s].key)
  /\ Goto(s, "idle")
  /\ UNCHANGED <<poolVars, clientVars>>

-----------------------------------------------------------------------------
(***************************************************************************)
(* The connection, the startup and the death of the process                *)
(***************************************************************************)
ConnectionStep ==
  /\ \/ B!Connection
     \/ \E send \in sending, raised \in BOOLEAN :
          send.caller = ConnectLoop /\ B!SendEnds(send, raised)
  /\ UNCHANGED <<poolVars, task, countVars>>

Startup == S!CleanupStale /\ UNCHANGED <<poolVars, task, clientVars>>

Restart ==
  /\ S!Crash
  /\ upstream' = {} /\ inFlight' = {}
  /\ task' = [s \in Task |-> [pc |-> "idle", key |-> task[s].key]]
  /\ subscribed' = {} /\ pending' = {} /\ live' = {}
  /\ connected' = FALSE /\ loop' = "connecting" /\ rest' = {}
  /\ sending' = {} /\ open' = FALSE
  /\ UNCHANGED <<failures, suspensions>>

Progress(s) ==
  \/ EnsureSubscribedKnown(s) \/ EnsureSubscribed(s)
  \/ \E send \in sending : ClientSubscribed(s, send) \/ ClientUnsubscribed(s, send)
  \/ MarkSubscribed(s) \/ AddUpstream(s)
  \/ \E d \in deleting : d.holder = s /\ (Delete(d) \/ DeleteEnds(d))
  \/ ReadCount(s)
  \/ EnsureUnsubscribedUnknown(s) \/ EnsureUnsubscribed(s)
  \/ MarkUnsubscribed(s)

Next ==
  \/ \E s \in Task, k \in Key : Count(s, k)
  \/ \E s \in Task : Discount(s)
  \/ \E s \in Task : Progress(s)
  \/ ConnectionStep
  \/ Startup
  \/ Restart

Spec == Init /\ [][Next]_vars

(***************************************************************************)
(* A handler that has started an operation goes on with it: every Redis    *)
(* command and every send ends one way or the other.  This presumes that   *)
(* the listener of the Pub/Sub manager has not blocked the event loop      *)
(* (ListenEnds of module PubSubManager), for which it must have no channel *)
(* left; a handler that subscribes here has registered its callback there. *)
(***************************************************************************)
FairSpec == Spec /\ \A s \in Task : WF_vars(Progress(s))

-----------------------------------------------------------------------------
(***************************************************************************)
(* Properties                                                              *)
(***************************************************************************)
Claims(s, k) == task[s].key = k /\ task[s].pc \in {"subscribing", "mark", "add"}

Leaving(s, k) ==
  task[s].key = k /\ task[s].pc \in {"deleting", "count", "drop"}

Quiescent == \A s \in Task : task[s].pc \in {"idle", "on"}

(***************************************************************************)
(* A topic in flight is being subscribed by exactly one handler, and is    *)
(* not subscribed yet: Bybit never gets two subscriptions for it at once.  *)
(***************************************************************************)
OneSubscriber ==
  \A k \in Key :
    /\ k \in inFlight => k \notin upstream /\ \E s \in Task : Claims(s, k)
    /\ \A s, r \in Task : Claims(s, k) /\ Claims(r, k) => s = r

(***************************************************************************)
(* Without a fault no upstream subscription outlives its demand: for every *)
(* topic the pool holds there is a client, or a handler that is on its way *)
(* to dropping it, or a client that died with an earlier process and whose *)
(* count nobody takes back.                                                *)
(***************************************************************************)
NoLeak ==
  faults = 0 =>
    \A k \in upstream \cup inFlight :
      refs[k] # {} \/ lost[k] > 0 \/ \E s \in Task : Leaving(s, k)

(***************************************************************************)
(* From the pool's set to Bybit's: until a send suspends, Bybit streams    *)
(* every topic the pool holds, but for those a resubscription has still to *)
(* send; while there is no connection, the client has the topic in hand,   *)
(* so that a reconnect restores it.                                        *)
(***************************************************************************)
UpstreamIsStreamed ==
  suspensions = 0 =>
    upstream \cup inFlight \subseteq
      (IF B!CanSend THEN live \cup rest ELSE B!Tracked)

(***************************************************************************)
(* A topic does not stay in flight: a client that returned early because   *)
(* another handler was subscribing does not wait for it in vain.           *)
(***************************************************************************)
InFlightEnds == \A k \in Key : k \in inFlight ~> k \notin inFlight

(***************************************************************************)
(* "Ensure we're subscribed to a symbol on Bybit": once every handler has  *)
(* returned, the pool holds the topic of every client, even if no count    *)
(* was lost.                                                               *)
(***************************************************************************)
DemandIsServed ==
  (faults = 0 /\ Quiescent) =>
    \A k \in Key \ overlapped : refs[k] # {} => k \in upstream

(***************************************************************************)
(* The inductive invariant: a handler is where the counts and the sets     *)
(* say it is.                                                              *)
(***************************************************************************)
DeletersInPlace ==
  \A d \in deleting : At(d.holder, "deleting") /\ task[d.holder].key = d.key

HoldersInPlace ==
  \A s \in Task :
    task[s].pc \in {"ensure", "subscribing", "mark", "add", "on"}
      => s \in refs[task[s].key]

ClaimsInFlight == \A s \in Task, k \in Key : Claims(s, k) => k \in inFlight

PoolInv ==
  /\ TypeOK
  /\ DeletersInPlace
  /\ HoldersInPlace
  /\ ClaimsInFlight
  /\ OneSubscriber
  /\ NoLeak

=============================================================================
