-------------------------- MODULE BybitClientProofs --------------------------
(***************************************************************************)
(* What holds of the Bybit client for every set of topics and callers,     *)
(* every batch size and any number of lost connections.                    *)
(***************************************************************************)
EXTENDS BybitClient, TLAPS

(***************************************************************************)
(* The client starts with two empty sets and no connection.                *)
(***************************************************************************)
LEMMA InitClient == Init => ClientInv
<1> SUFFICES ASSUME Init PROVE ClientInv
  OBVIOUS
<1> USE DEF Init
<1>1. TypeOK
  <2>1. failures \in 0..MaxFailures /\ suspensions \in 0..MaxSuspensions
    BY FailuresAssumption, SuspensionsAssumption
  <2>2. connected \in BOOLEAN /\ open \in BOOLEAN
    OBVIOUS
  <2> QED BY <2>1, <2>2 DEF TypeOK
<1>2. ConnectionKnown /\ SendsKnown /\ TrackedIsLive
  BY DEF ConnectionKnown, SendsKnown, TrackedIsLive, CanSend
<1> QED BY <1>1, <1>2 DEF ClientInv

(***************************************************************************)
(* A resubscription keeps the invariant: if nothing was live on the        *)
(* connection before the batches already in subs, the batch goes into the  *)
(* set and onto the wire together.                                         *)
(***************************************************************************)
LEMMA ResendStep ==
  ASSUME ClientInv, NEW ts \in SUBSET Topic, NEW subs \in SUBSET Topic,
         NEW pend \in SUBSET Topic, NEW up \in BOOLEAN,
         Resend(ts, subs, pend, up),
         open' = up, connected' \in BOOLEAN, failures' = failures,
         up \/ live = {},
         (suspensions = 0 /\ up /\ connected') => live = subs
  PROVE  ClientInv'
<1>1. PICK batch \in Batches(ts) :
        /\ rest' = ts \ batch
        /\ live' = IF up THEN live \cup batch ELSE live
        /\ \/ /\ subscribed' = subs \cup batch
              /\ pending' = IF up THEN pend ELSE pend \cup batch
              /\ loop' = IF rest' = {} THEN "listening" ELSE "resubscribing"
              /\ UNCHANGED sendVars
           \/ /\ up
              /\ Suspend("subscribe", batch, ConnectLoop)
              /\ subscribed' = subs
              /\ pending' = pend
              /\ loop' = "resubscribing"
  BY DEF Resend
<1> DEFINE s == [op |-> "subscribe", topics |-> batch, caller |-> ConnectLoop]
<1>2. batch \subseteq ts /\ s \in Send /\ s.op = "subscribe"
  BY DEF Send, Batches
<1>3. \/ UNCHANGED <<sending, suspensions>> /\ subscribed' = subs \cup batch
      \/ /\ suspensions' = suspensions + 1 /\ suspensions < MaxSuspensions
         /\ sending' = sending \cup {s} /\ subscribed' = subs
  BY <1>1 DEF Suspend, sendVars
<1> HIDE DEF s
<1>4. sending' \subseteq Send /\ suspensions' \in 0..MaxSuspensions
  BY <1>2, <1>3, SuspensionsAssumption DEF ClientInv, TypeOK
<1>5. TypeOK'
  BY <1>1, <1>2, <1>4 DEF ClientInv, TypeOK
<1>6. ConnectionKnown'
  BY <1>1 DEF ClientInv, ConnectionKnown
<1>7. SendsKnown'
  BY <1>2, <1>3 DEF ClientInv, TypeOK, SendsKnown
<1>8. TrackedIsLive'
  BY <1>1, <1>3 DEF ClientInv, TypeOK, TrackedIsLive, CanSend
<1> QED BY <1>5, <1>6, <1>7, <1>8 DEF ClientInv

(***************************************************************************)
(* The connect loop keeps the invariant.                                   *)
(***************************************************************************)
LEMMA ConnectionStep ==
  ASSUME ClientInv, Connection
  PROVE  ClientInv'
<1>1. CASE ConnectSucceeds
  <2>1. live = {} /\ rest = {}
    BY <1>1 DEF ConnectSucceeds, ClientInv, ConnectionKnown, TypeOK
  <2>2. CASE subscribed = {}
    BY <1>1, <2>1, <2>2 DEF ConnectSucceeds, ClientInv, TypeOK, ConnectionKnown,
       SendsKnown, TrackedIsLive, CanSend, topicVars, sendVars
  <2>3. CASE subscribed # {}
    <3>1. Resend(subscribed \cup pending, {}, {}, TRUE)
          /\ open' = TRUE /\ connected' = TRUE /\ failures' = failures
      BY <1>1, <2>3 DEF ConnectSucceeds
    <3>2. subscribed \cup pending \in SUBSET Topic
      BY DEF ClientInv, TypeOK
    <3> QED BY <2>1, <3>1, <3>2, ResendStep
  <2> QED BY <2>2, <2>3
<1>2. CASE ResubscribeNext
  <2>1. Resend(rest, subscribed, pending, open)
        /\ open' = open /\ connected' = connected /\ failures' = failures
    BY <1>2 DEF ResubscribeNext
  <2>2. /\ rest \in SUBSET Topic /\ subscribed \in SUBSET Topic
        /\ pending \in SUBSET Topic /\ open \in BOOLEAN /\ connected \in BOOLEAN
        /\ open \/ live = {}
        /\ (suspensions = 0 /\ open /\ connected) => live = subscribed
    BY DEF ClientInv, TypeOK, ConnectionKnown, TrackedIsLive, CanSend
  <2> QED BY <2>1, <2>2, ResendStep
<1>3. CASE ConnectFails \/ Drop
  <2>1. Failure
    BY <1>3 DEF ConnectFails, Drop
  <2>2. failures' \in 0..MaxFailures
    BY <2>1, FailuresAssumption DEF Failure, ClientInv, TypeOK
  <2> USE DEF ConnectFails, Drop, topicVars, loopVars, sendVars, ClientInv
  <2>3. TypeOK'
    BY <1>3, <2>2 DEF TypeOK
  <2>4. ConnectionKnown'
    BY <1>3 DEF ConnectionKnown
  <2>5. SendsKnown' /\ TrackedIsLive'
    BY <1>3 DEF ConnectionKnown, SendsKnown, TrackedIsLive, CanSend
  <2> QED BY <2>3, <2>4, <2>5
<1>4. CASE ListenerEnds \/ Wake
  <2> USE DEF ListenerEnds, Wake, topicVars, sendVars, ClientInv
  <2>1. TypeOK'
    <3>1. connected' \in BOOLEAN
      BY <1>4 DEF TypeOK
    <3> QED BY <1>4, <3>1 DEF TypeOK
  <2>2. ConnectionKnown'
    BY <1>4 DEF ConnectionKnown
  <2>3. SendsKnown' /\ TrackedIsLive'
    BY <1>4 DEF ConnectionKnown, SendsKnown, TrackedIsLive, CanSend
  <2> QED BY <2>1, <2>2, <2>3
<1> QED BY <1>1, <1>2, <1>3, <1>4 DEF Connection

(***************************************************************************)
(* subscribe and unsubscribe, up to where they return or suspend, keep the *)
(* invariant.                                                              *)
(***************************************************************************)
LEMMA CallStep ==
  ASSUME ClientInv, NEW t \in Topic, SubscribeReturns(t) \/ UnsubscribeReturns(t)
  PROVE  ClientInv'
BY DEF SubscribeReturns, UnsubscribeReturns, loopVars, sendVars, ClientInv, TypeOK,
   ConnectionKnown, SendsKnown, TrackedIsLive, CanSend

(***************************************************************************)
(* A subscribe or unsubscribe call that suspends in ws.send keeps the      *)
(* inductive invariant.                                                    *)
(***************************************************************************)
LEMMA SuspendStep ==
  ASSUME ClientInv, NEW t \in Topic, NEW c \in Caller,
         SubscribeSuspends(t, c) \/ UnsubscribeSuspends(t, c)
  PROVE  ClientInv'
<1> USE DEF SubscribeSuspends, UnsubscribeSuspends, loopVars, sendVars
<1>1. PICK op \in {"subscribe", "unsubscribe"} : Suspend(op, {t}, c)
  OBVIOUS
<1> DEFINE s == [op |-> op, topics |-> {t}, caller |-> c]
<1>2. s \in Send /\ s.caller = c /\ c # ConnectLoop
  BY ConnectLoopAssumption DEF Send
<1>3. /\ suspensions < MaxSuspensions /\ suspensions' = suspensions + 1
      /\ sending' = sending \cup {s}
  BY <1>1 DEF Suspend
<1> HIDE DEF s
<1>4. TypeOK'
  BY <1>2, <1>3, SuspensionsAssumption DEF ClientInv, TypeOK
<1>5. ConnectionKnown'
  BY DEF ClientInv, ConnectionKnown, CanSend
<1>6. SendsKnown' /\ TrackedIsLive'
  BY <1>2, <1>3 DEF ClientInv, TypeOK, SendsKnown, TrackedIsLive
<1> QED BY <1>4, <1>5, <1>6 DEF ClientInv

(***************************************************************************)
(* The end of a suspended send keeps the invariant.                        *)
(***************************************************************************)
LEMMA SendEndsStep ==
  ASSUME ClientInv, NEW s \in sending, NEW raised \in BOOLEAN, SendEnds(s, raised)
  PROVE  ClientInv'
<1>1. s.topics \in SUBSET Topic
  BY DEF ClientInv, TypeOK, Send
<1>2. suspensions # 0
  BY DEF ClientInv, SendsKnown
<1>3. TypeOK'
  BY <1>1 DEF SendEnds, ClientInv, TypeOK
<1>4. ConnectionKnown'
  BY <1>2 DEF SendEnds, ClientInv, ConnectionKnown
<1>5. SendsKnown' /\ TrackedIsLive'
  BY <1>2 DEF SendEnds, ClientInv, SendsKnown, TrackedIsLive
<1> QED BY <1>3, <1>4, <1>5 DEF ClientInv

(***************************************************************************)
(* stop() keeps the invariant.                                             *)
(***************************************************************************)
LEMMA StopStep ==
  ASSUME ClientInv, Stop \/ StopCloses
  PROVE  ClientInv'
<1> USE DEF Stop, StopCloses, topicVars, loopVars, sendVars, ClientInv
<1>1. TypeOK'
  BY DEF TypeOK
<1>2. ConnectionKnown'
  BY DEF ConnectionKnown
<1>3. SendsKnown' /\ TrackedIsLive'
  BY DEF ConnectionKnown, SendsKnown, TrackedIsLive, CanSend
<1> QED BY <1>1, <1>2, <1>3

-----------------------------------------------------------------------------
(***************************************************************************)
(* ClientInv is inductive.                                                 *)
(***************************************************************************)
LEMMA NextClient == ClientInv /\ [Next]_vars => ClientInv'
<1> SUFFICES ASSUME ClientInv, [Next]_vars PROVE ClientInv'
  OBVIOUS
<1>1. CASE Calls
  BY <1>1, CallStep, SuspendStep DEF Calls
<1>2. CASE Resumptions
  BY <1>2, SendEndsStep DEF Resumptions
<1>3. CASE Connection
  BY <1>3, ConnectionStep
<1>4. CASE Stop \/ StopCloses
  BY <1>4, StopStep
<1>5. CASE UNCHANGED vars
  BY <1>5 DEF vars, topicVars, loopVars, sendVars, ClientInv, TypeOK, ConnectionKnown,
     SendsKnown, TrackedIsLive, CanSend
<1> QED BY <1>1, <1>2, <1>3, <1>4, <1>5 DEF Next

(***************************************************************************)
(* Where the connect loop of bybit_client.py is says what is known of its  *)
(* connection and of the sends on it.                                      *)
(***************************************************************************)
THEOREM ClientInvariant == Spec => []ClientInv
<1>1. Init => ClientInv
  BY InitClient
<1>2. ClientInv /\ [Next]_vars => ClientInv'
  BY NextClient
<1> QED BY <1>1, <1>2, PTL DEF Spec

(***************************************************************************)
(* Type correctness of the client's state.                                 *)
(***************************************************************************)
THEOREM TypeCorrect == Spec => []TypeOK
<1>1. ClientInv => TypeOK
  BY DEF ClientInv
<1> QED BY <1>1, ClientInvariant, PTL

(***************************************************************************)
(* Without back-pressure subscribe skips a topic only if Bybit streams it. *)
(***************************************************************************)
THEOREM SubscribedIsStreamed == Spec => []TrackedIsLive
<1>1. ClientInv => TrackedIsLive
  BY DEF ClientInv
<1> QED BY <1>1, ClientInvariant, PTL

-----------------------------------------------------------------------------
(***************************************************************************)
(* The topics the client has in hand, one by one.                          *)
(***************************************************************************)
LEMMA TrackedTopics ==
  ASSUME NEW t
  PROVE  t \in Tracked <=>
           \/ t \in subscribed \/ t \in rest
           \/ \E s \in sending : s.op = "subscribe" /\ t \in s.topics
BY DEF Tracked

(***************************************************************************)
(* What it means for a topic to be tracked in the next state, with Tracked *)
(* unfolded.                                                               *)
(***************************************************************************)
LEMMA TrackedTopicsNext ==
  ASSUME NEW t
  PROVE  t \in Tracked' <=>
           \/ t \in subscribed' \/ t \in rest'
           \/ \E s \in sending' : s.op = "subscribe" /\ t \in s.topics
BY DEF Tracked

(***************************************************************************)
(* Every topic of a resubscription stays in hand: it is in the batch that  *)
(* is sent, or in the rest.                                                *)
(***************************************************************************)
LEMMA ResendKeeps ==
  ASSUME ClientInv, NEW ts \in SUBSET Topic, NEW subs \in SUBSET Topic,
         NEW pend, NEW up \in BOOLEAN, Resend(ts, subs, pend, up),
         NEW t \in ts \cup subs
  PROVE  t \in Tracked'
<1>1. PICK batch \in Batches(ts) :
        /\ rest' = ts \ batch
        /\ \/ subscribed' = subs \cup batch
           \/ Suspend("subscribe", batch, ConnectLoop) /\ subscribed' = subs
  BY DEF Resend
<1> DEFINE s == [op |-> "subscribe", topics |-> batch, caller |-> ConnectLoop]
<1>2. s.op = "subscribe" /\ s.topics = batch
  OBVIOUS
<1>3. subscribed' = subs \cup batch \/ (s \in sending' /\ subscribed' = subs)
  BY <1>1 DEF Suspend
<1> HIDE DEF s
<1> QED BY <1>1, <1>2, <1>3, TrackedTopicsNext

(***************************************************************************)
(* Sends that were suspended before a batch is sent still are.             *)
(***************************************************************************)
LEMMA ResendKeepsSends ==
  ASSUME NEW ts, NEW subs, NEW pend, NEW up, Resend(ts, subs, pend, up)
  PROVE  sending \subseteq sending'
BY DEF Resend, Suspend, sendVars

(***************************************************************************)
(* Losing and making connections never loses a topic of bybit_client.py:   *)
(* only unsubscribe and stop() do, whatever sends are suspended meanwhile. *)
(***************************************************************************)
THEOREM TopicsSurviveReconnects == Spec => ReconnectKeepsTopics
<1> DEFINE Keeps == \/ Tracked \subseteq Tracked'
                    \/ UNCHANGED <<loop, connected, open, rest>>
                    \/ loop' = "stopped"
<1>1. ASSUME ClientInv, Next PROVE Keeps
  <2>1. CASE Calls
    BY <2>1 DEF Calls, SubscribeReturns, SubscribeSuspends, UnsubscribeReturns,
       UnsubscribeSuspends, loopVars, sendVars
  <2>2. CASE Resumptions
    <3>1. PICK s \in sending, raised \in BOOLEAN : SendEnds(s, raised)
      BY <2>2 DEF Resumptions
    <3>2. CASE s.op = "unsubscribe"
      BY <1>1, <3>1, <3>2 DEF SendEnds, ClientInv, SendsKnown
    <3>3. CASE s.op = "subscribe"
      <4>1. ASSUME NEW t \in Tracked PROVE t \in Tracked'
        <5>1. \/ t \in subscribed \/ t \in rest \/ t \in s.topics
              \/ \E r \in sending \ {s} : r.op = "subscribe" /\ t \in r.topics
          BY <4>1, TrackedTopics
        <5>2. /\ subscribed' = subscribed \cup s.topics /\ rest' = rest
              /\ sending' = sending \ {s}
          BY <3>1, <3>3 DEF SendEnds
        <5> QED BY <5>1, <5>2, TrackedTopicsNext
      <4> QED BY <4>1
    <3>4. s.op \in {"subscribe", "unsubscribe"}
      BY <1>1 DEF ClientInv, TypeOK, Send
    <3> QED BY <3>2, <3>3, <3>4
  <2>3. CASE Connection
    <3>1. CASE ConnectSucceeds /\ subscribed # {}
      <4>1. /\ Resend(subscribed \cup pending, {}, {}, TRUE) /\ rest = {}
            /\ subscribed \cup pending \in SUBSET Topic
        BY <1>1, <3>1 DEF ConnectSucceeds, ClientInv, TypeOK, ConnectionKnown
      <4>2. sending \subseteq sending'
        BY <4>1, ResendKeepsSends
      <4>3. ASSUME NEW t \in Tracked PROVE t \in Tracked'
        <5>1. CASE t \in subscribed
          BY <1>1, <4>1, <5>1, ResendKeeps
        <5>2. CASE t \notin subscribed
          BY <4>1, <4>2, <4>3, <5>2, TrackedTopics, TrackedTopicsNext
        <5> QED BY <5>1, <5>2
      <4> QED BY <4>3
    <3>2. CASE ResubscribeNext
      <4>1. /\ Resend(rest, subscribed, pending, open)
            /\ rest \in SUBSET Topic /\ subscribed \in SUBSET Topic
            /\ open \in BOOLEAN
        BY <1>1, <3>2 DEF ResubscribeNext, ClientInv, TypeOK
      <4>2. sending \subseteq sending'
        BY <4>1, ResendKeepsSends
      <4>3. ASSUME NEW t \in Tracked PROVE t \in Tracked'
        <5>1. CASE t \in rest \cup subscribed
          BY <1>1, <4>1, <5>1, ResendKeeps
        <5>2. CASE t \notin rest \cup subscribed
          BY <4>2, <4>3, <5>2, TrackedTopics, TrackedTopicsNext
        <5> QED BY <5>1, <5>2
      <4> QED BY <4>3
    <3>3. CASE \/ ConnectSucceeds /\ subscribed = {}
               \/ ConnectFails \/ Drop \/ ListenerEnds \/ Wake
      <4>1. UNCHANGED <<subscribed, rest, sending>>
        BY <3>3 DEF ConnectSucceeds, ConnectFails, Drop, ListenerEnds, Wake,
           topicVars, loopVars, sendVars
      <4> QED BY <4>1, TrackedTopics, TrackedTopicsNext
    <3> QED BY <2>3, <3>1, <3>2, <3>3 DEF Connection
  <2>4. CASE Stop \/ StopCloses
    BY <2>4 DEF Stop, StopCloses, loopVars, sendVars
  <2> QED BY <1>1, <2>1, <2>2, <2>3, <2>4 DEF Next
<1>2. ClientInv /\ [Next]_vars => [Keeps]_vars
  BY <1>1
<1> QED BY <1>2, ClientInvariant, PTL DEF Spec, ReconnectKeepsTopics

=============================================================================
