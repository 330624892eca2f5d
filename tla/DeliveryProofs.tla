--------------------------- MODULE DeliveryProofs ---------------------------
(***************************************************************************)
(* Proofs about module Delivery, for any clients, channels and bounds.     *)
(***************************************************************************)
EXTENDS Delivery, SequenceTheorems, TLAPS

-----------------------------------------------------------------------------

(***************************************************************************)
(* What becomes of the message that publish makes.                         *)
(***************************************************************************)
PublishesAs(ch, m) ==
  /\ m.id = published + 1 /\ m.channel = ch
  /\ IF listener = "listening" /\ callbacks[ch] # {}
     THEN /\ queue' = Append(queue, m)
          /\ owed' = [c \in Client |->
                        IF c \in callbacks[ch] THEN owed[c] \cup {m} ELSE owed[c]]
     ELSE UNCHANGED <<queue, owed>>

(***************************************************************************)
(* The message that publish makes is a message.                            *)
(***************************************************************************)
LEMMA PublishedMessage ==
  ASSUME TypeOK, NEW ch \in Channel, Publish(ch)
  PROVE  \E m \in Message : PublishesAs(ch, m)
<1> DEFINE m == [id |-> published + 1, channel |-> ch]
<1>1. m.id = published + 1 /\ m.channel = ch
  OBVIOUS
<1>2. m \in Message
  BY BoundsAssumption DEF TypeOK, Publish, Message
<1>3. IF listener = "listening" /\ callbacks[ch] # {}
      THEN /\ queue' = Append(queue, m)
           /\ owed' = [c \in Client |->
                         IF c \in callbacks[ch] THEN owed[c] \cup {m} ELSE owed[c]]
      ELSE UNCHANGED <<queue, owed>>
  BY DEF Publish
<1> HIDE DEF m
<1>4. QED
  BY <1>1, <1>2, <1>3 DEF PublishesAs

(***************************************************************************)
(* The variables have their types.  The sends of a fan-out are the one     *)
(* part that is built anew by several steps.                               *)
(***************************************************************************)
LEMMA SendsAreTyped ==
  ASSUME TypeOK, Next
  PROVE  sends' \subseteq Send
<1> USE InterestAssumption, BoundsAssumption DEF TypeOK
<1>1. CASE HandleMessage
  <2>1. Head(queue) \in Message
    BY <1>1 DEF HandleMessage
  <2>2. ASSUME NEW c \in Client, NEW m \in Message
        PROVE  NewSend(c, m) \in Send
    BY DEF NewSend, Send
  <2>3. callbacks[Head(queue).channel] \subseteq Client
    BY <2>1 DEF Message
  <2>4. \A c \in callbacks[Head(queue).channel] : NewSend(c, Head(queue)) \in Send
    BY <2>1, <2>2, <2>3
  <2>5. QED
    BY <1>1, <2>4 DEF HandleMessage
<1>2. ASSUME NEW s \in sends, StartSend(s)
      PROVE  sends' \subseteq Send
  <2>1. [s EXCEPT !.stage = "waiting"] \in Send
    BY DEF Send
  <2>2. sends' \subseteq sends \cup {[s EXCEPT !.stage = "waiting"]}
    BY <1>2 DEF StartSend
  <2>3. QED
    BY <2>1, <2>2
<1>3. ASSUME NEW s \in sends, SendEnds(s) \/ TimesOut(s)
      PROVE  sends' \subseteq Send
  BY <1>3 DEF SendEnds, TimesOut
<1>4. CASE Tick
  <2>1. ASSUME NEW s \in Waiting
        PROVE  [s EXCEPT !.age = @ + 1] \in Send
    <3>1. s \in Send /\ s.age < FANOUT_CALLBACK_TIMEOUT
      BY <1>4, <2>1 DEF Tick, Waiting
    <3>2. s.age + 1 \in 0..FANOUT_CALLBACK_TIMEOUT
      BY <3>1 DEF Send
    <3>3. QED
      BY <3>1, <3>2 DEF Send
  <2>2. QED
    BY <1>4, <2>1 DEF Tick
<1>5. CASE Environment \/ ListenerResumes
  BY <1>5 DEF Environment, ListenerResumes, Publish, PublishFails, Subscribe, Unsubscribe,
     UnsubscribeClient, Leaves, Stall, Unstall, Disconnect, Sockets, ListenerRedisError,
     fanoutVars
<1>6. QED
  BY <1>1, <1>2, <1>3, <1>4, <1>5 DEF Next, Fanout

(***************************************************************************)
(* A queue with one more message is a queue of messages.                   *)
(***************************************************************************)
LEMMA AppendIsTyped ==
  ASSUME NEW q \in Seq(Message), NEW m \in Message
  PROVE  Append(q, m) \in Seq(Message)
OBVIOUS

(***************************************************************************)
(* The same of the queue without its first message.                        *)
(***************************************************************************)
LEMMA TailIsTyped ==
  ASSUME NEW q \in Seq(Message), q # <<>>
  PROVE  Tail(q) \in Seq(Message)
OBVIOUS

(***************************************************************************)
(* The messages of the listener's connection stay messages.                *)
(***************************************************************************)
LEMMA QueueIsTyped ==
  ASSUME TypeOK, Next
  PROVE  queue' \in Seq(Message) /\ published' \in 0..MaxMessages
<1>0. queue \in Seq(Message)
  BY DEF TypeOK
<1> USE InterestAssumption, BoundsAssumption DEF TypeOK
<1>1. ASSUME NEW ch \in Channel, Publish(ch)
      PROVE  queue' \in Seq(Message) /\ published' \in 0..MaxMessages
  <2>1. \E m \in Message : PublishesAs(ch, m)
    BY <1>1, PublishedMessage
  <2>2. published' \in 0..MaxMessages
    BY <1>1 DEF Publish
  <2>3. PICK m \in Message : PublishesAs(ch, m)
    BY <2>1
  <2>4. queue' \in Seq(Message)
    BY <2>3, <1>0, AppendIsTyped DEF PublishesAs
  <2>5. QED
    BY <2>2, <2>4
<1>2. CASE PublishFails \/ HandleMessage \/ ListenerRedisError
  <2>1. published' \in 0..MaxMessages
    BY <1>2 DEF PublishFails, HandleMessage, ListenerRedisError
  <2>2. queue' = queue \/ queue' = <<>> \/ (queue # <<>> /\ queue' = Tail(queue))
    BY <1>2 DEF PublishFails, HandleMessage, ListenerRedisError
  <2>4. queue' \in Seq(Message)
    <3>1. <<>> \in Seq(Message)
      OBVIOUS
    <3>2. queue # <<>> => Tail(queue) \in Seq(Message)
      BY <1>0, TailIsTyped
    <3> QED
      BY <1>0, <2>2, <3>1, <3>2
  <2>5. QED
    BY <2>1, <2>4
<1>3. ASSUME NEW c \in Client, NEW ch \in Channel,
             Subscribe(c, ch) \/ Unsubscribe(c, ch) \/ UnsubscribeClient(c)
      PROVE  UNCHANGED <<queue, published>>
  BY <1>3 DEF Subscribe, Unsubscribe, UnsubscribeClient, Leaves, messageVars
<1>4. ASSUME NEW c \in Client, Stall(c) \/ Unstall(c) \/ Disconnect(c)
      PROVE  UNCHANGED <<queue, published>>
  BY <1>4 DEF Stall, Unstall, Disconnect, Sockets, messageVars
<1>5. ASSUME NEW s \in sends, StartSend(s) \/ SendEnds(s) \/ TimesOut(s)
      PROVE  UNCHANGED <<queue, published>>
  BY <1>5 DEF StartSend, SendEnds, TimesOut, messageVars
<1>6. CASE Tick \/ ListenerResumes
  BY <1>6 DEF Tick, ListenerResumes, messageVars
<1>7. ASSUME NEW c \in Client, UnsubscribeClient(c)
      PROVE  UNCHANGED <<queue, published>>
  BY <1>7 DEF UnsubscribeClient, Leaves, messageVars
<1>8. QED
  BY <1>1, <1>2, <1>3, <1>4, <1>5, <1>6, <1>7 DEF Next, Environment, Fanout

(***************************************************************************)
(* So do the counters and the registry.                                    *)
(***************************************************************************)
LEMMA RegistryIsTyped ==
  ASSUME TypeOK, Next
  PROVE  /\ callbacks' \in [Channel -> SUBSET Client]
         /\ listener' \in {"listening", "sleeping"} /\ errors' \in 0..MaxErrors
         /\ elapsed' \in Nat
         /\ open' \subseteq Client /\ stalled' \subseteq Client
<1> USE InterestAssumption, BoundsAssumption DEF TypeOK
<1>1. CASE Environment
  <2>1. callbacks' \in [Channel -> SUBSET Client]
    <3>1. ASSUME NEW c \in Client, NEW ch \in Channel, Subscribe(c, ch)
          PROVE  callbacks' \in [Channel -> SUBSET Client]
      BY <3>1 DEF Subscribe
    <3>2. ASSUME NEW c \in Client, NEW ch \in Channel, Unsubscribe(c, ch)
          PROVE  callbacks' \in [Channel -> SUBSET Client]
      BY <3>2 DEF Unsubscribe
    <3>3. ASSUME NEW c \in Client, UnsubscribeClient(c)
          PROVE  callbacks' \in [Channel -> SUBSET Client]
      BY <3>3 DEF UnsubscribeClient
    <3>4. QED
      BY <1>1, <3>1, <3>2, <3>3 DEF Environment, Publish, PublishFails, Stall, Unstall,
         Disconnect, Sockets, ListenerRedisError, serverVars
  <2>2. listener' \in {"listening", "sleeping"} /\ errors' \in 0..MaxErrors
    <3>1. CASE ListenerRedisError
      BY <3>1 DEF ListenerRedisError
    <3>2. CASE ~ListenerRedisError
      BY <1>1, <3>2 DEF Environment, Publish, PublishFails, Subscribe, Unsubscribe,
         UnsubscribeClient, Leaves, Stall, Unstall, Disconnect, Sockets, serverVars
    <3>3. QED
      BY <3>1, <3>2
  <2>3. elapsed' = elapsed
    BY <1>1 DEF Environment, Publish, PublishFails, Subscribe, Unsubscribe,
       UnsubscribeClient, Leaves, Stall, Unstall, Disconnect, Sockets, ListenerRedisError,
       fanoutVars
  <2>4. open' \subseteq Client /\ stalled' \subseteq Client
    BY <1>1 DEF Environment, Publish, PublishFails, Subscribe, Unsubscribe,
       UnsubscribeClient, Leaves, Stall, Unstall, Disconnect, Sockets, ListenerRedisError,
       socketVars
  <2>5. QED
    BY <2>1, <2>2, <2>3, <2>4
<1>2. CASE Fanout
  BY <1>2 DEF Fanout, HandleMessage, StartSend, SendEnds, TimesOut, Tick, ListenerResumes,
     serverVars, fanoutVars, socketVars
<1>3. QED
  BY <1>1, <1>2 DEF Next

(***************************************************************************)
(* And what is kept per client.                                            *)
(***************************************************************************)
LEMMA ClientsAreTyped ==
  ASSUME TypeOK, Next
  PROVE  /\ sendErrors' \in [Client -> 0..3]
         /\ received' \in [Client -> Seq(1..MaxMessages)]
         /\ wanted' \in [Client -> SUBSET Channel]
         /\ owed' \in [Client -> SUBSET Message]
         /\ late' \in [Client -> [Channel -> Nat]]
<1> USE InterestAssumption, BoundsAssumption DEF TypeOK
<1>1. ASSUME NEW ch \in Channel, Publish(ch)
      PROVE  owed' \in [Client -> SUBSET Message]
  <2>1. \E m \in Message : PublishesAs(ch, m)
    BY <1>1, PublishedMessage
  <2>2. PICK m \in Message : PublishesAs(ch, m)
    BY <2>1
  <2>3. CASE owed' = owed
    BY <2>3
  <2>4. CASE owed' = [c \in Client |->
                       IF c \in callbacks[ch] THEN owed[c] \cup {m} ELSE owed[c]]
    BY <2>4
  <2>5. QED
    BY <2>2, <2>3, <2>4 DEF PublishesAs
<1>2. ASSUME NEW c \in Client, NEW ch \in Channel, Subscribe(c, ch)
      PROVE  /\ wanted' \in [Client -> SUBSET Channel]
             /\ late' \in [Client -> [Channel -> Nat]]
  BY <1>2 DEF Subscribe
<1>3. ASSUME NEW c \in Client, NEW channels \in SUBSET Channel, Leaves(c, channels)
      PROVE  /\ wanted' \in [Client -> SUBSET Channel]
             /\ owed' \in [Client -> SUBSET Message]
  BY <1>3 DEF Leaves
<1>4. ASSUME NEW c \in Client, Succeeds(c) \/ Raises(c)
      PROVE  sendErrors' \in [Client -> 0..3]
  <2>1. CASE Succeeds(c)
    BY <2>1 DEF Succeeds
  <2>2. CASE Raises(c)
    <3>1. (IF sendErrors[c] < 3 THEN sendErrors[c] + 1 ELSE sendErrors[c]) \in 0..3
      OBVIOUS
    <3>2. QED
      BY <2>2, <3>1 DEF Raises
  <2>3. QED
    BY <1>4, <2>1, <2>2
<1>5. ASSUME NEW s \in sends, Write(s)
      PROVE  /\ received' \in [Client -> Seq(1..MaxMessages)]
             /\ wanted' \in [Client -> SUBSET Channel]
             /\ owed' \in [Client -> SUBSET Message]
             /\ late' \in [Client -> [Channel -> Nat]]
  <2>1. s.client \in Client /\ s.message \in Message
    BY DEF Send
  <2>2. s.message.id \in 1..MaxMessages /\ s.message.channel \in Channel
    BY <2>1 DEF Message
  <2>3. received' \in [Client -> Seq(1..MaxMessages)]
    BY <1>5, <2>1, <2>2 DEF Write
  <2>4. wanted' = wanted /\ owed' \in [Client -> SUBSET Message]
    BY <1>5, <2>1, <2>2 DEF Write
  <2>5. late' \in [Client -> [Channel -> Nat]]
    <3>1. late[s.client][s.message.channel] + 1 \in Nat
      BY <2>1, <2>2
    <3>2. [late[s.client] EXCEPT ![s.message.channel] = @ + 1] \in [Channel -> Nat]
      BY <2>1, <2>2, <3>1
    <3>3. late' = late \/ late' = [late EXCEPT ![s.client][s.message.channel] = @ + 1]
      BY <1>5 DEF Write
    <3>4. QED
      BY <2>1, <3>2, <3>3
  <2>6. QED
    BY <2>3, <2>4, <2>5
<1>6. ASSUME NEW s \in sends, StartSend(s)
      PROVE  /\ sendErrors' \in [Client -> 0..3]
             /\ Write(s) \/ UNCHANGED <<received, wanted, owed, late>>
  <2>1. s.client \in Client
    BY DEF Send
  <2>2. QED
    BY <1>4, <1>6, <2>1 DEF StartSend, ghostVars
<1>7. ASSUME NEW s \in sends, SendEnds(s) \/ TimesOut(s)
      PROVE  /\ sendErrors' \in [Client -> 0..3]
             /\ UNCHANGED <<received, wanted, owed, late>>
  <2>1. s.client \in Client
    BY DEF Send
  <2>2. QED
    BY <1>4, <1>7, <2>1 DEF SendEnds, TimesOut, ghostVars
<1>8. CASE Environment
  <2>1. UNCHANGED <<sendErrors, received>>
    BY <1>8 DEF Environment, Publish, PublishFails, Subscribe, Unsubscribe,
       UnsubscribeClient, Leaves, Stall, Unstall, Disconnect, Sockets, ListenerRedisError
  <2>2. wanted' \in [Client -> SUBSET Channel]
    BY <1>2, <1>3, <1>8 DEF Environment, Publish, PublishFails, Unsubscribe,
       UnsubscribeClient, Stall, Unstall, Disconnect, Sockets, ListenerRedisError, ghostVars
  <2>3. owed' \in [Client -> SUBSET Message]
    BY <1>1, <1>3, <1>8 DEF Environment, PublishFails, Subscribe, Unsubscribe,
       UnsubscribeClient, Stall, Unstall, Disconnect, Sockets, ListenerRedisError, ghostVars
  <2>4. late' \in [Client -> [Channel -> Nat]]
    BY <1>2, <1>8 DEF Environment, Publish, PublishFails, Unsubscribe, Leaves,
       UnsubscribeClient, Stall, Unstall, Disconnect, Sockets, ListenerRedisError, ghostVars
  <2>5. QED
    BY <2>1, <2>2, <2>3, <2>4
<1>9. CASE HandleMessage \/ Tick \/ ListenerResumes
  BY <1>9 DEF HandleMessage, Tick, ListenerResumes, ghostVars
<1>10. QED
  BY <1>5, <1>6, <1>7, <1>8, <1>9 DEF Next, Fanout

(***************************************************************************)
(* The type invariant holds.                                               *)
(***************************************************************************)
THEOREM TypeCorrect == Spec => []TypeOK
<1>1. Init => TypeOK
  BY BoundsAssumption DEF Init, TypeOK
<1>2. TypeOK /\ [Next]_vars => TypeOK'
  <2>1. ASSUME TypeOK, Next
        PROVE  TypeOK'
    BY <2>1, SendsAreTyped, QueueIsTyped, RegistryIsTyped, ClientsAreTyped DEF TypeOK
  <2>2. ASSUME TypeOK, UNCHANGED vars
        PROVE  TypeOK'
    BY <2>2 DEF TypeOK, vars, serverVars, messageVars, fanoutVars, socketVars, ghostVars
  <2>3. QED
    BY <2>1, <2>2
<1>3. QED
  BY <1>1, <1>2, PTL DEF Spec

-----------------------------------------------------------------------------

(***************************************************************************)
(* No connection opens again, and a failed send is counted when the        *)
(* connection is closed.                                                   *)
(***************************************************************************)
LEMMA ErrorsMeanClosedStep ==
  ASSUME TypeOK, ErrorsMeanClosed, [Next]_vars
  PROVE  ErrorsMeanClosed'
<1>1. sendErrors \in [Client -> 0..3] /\ sends \subseteq Send
  BY DEF TypeOK
<1>2. ASSUME NEW s \in sends, UNCHANGED open,
             \/ UNCHANGED sendErrors
             \/ Succeeds(s.client)
             \/ s.client \notin open /\ Raises(s.client)
      PROVE  ErrorsMeanClosed'
  <2>1. s.client \in Client
    BY <1>1 DEF Send
  <2>2. CASE Succeeds(s.client)
    BY <1>1, <1>2, <2>1, <2>2 DEF ErrorsMeanClosed, Succeeds
  <2>3. CASE s.client \notin open /\ Raises(s.client)
    BY <1>1, <1>2, <2>1, <2>3 DEF ErrorsMeanClosed, Raises
  <2>4. QED
    BY <1>2, <2>2, <2>3 DEF ErrorsMeanClosed
<1>3. ASSUME NEW s \in sends, StartSend(s) \/ SendEnds(s) \/ TimesOut(s)
      PROVE  ErrorsMeanClosed'
  <2>1. UNCHANGED open
    BY <1>3 DEF StartSend, SendEnds, TimesOut, socketVars
  <2>2. \/ UNCHANGED sendErrors
        \/ Succeeds(s.client)
        \/ s.client \notin open /\ Raises(s.client)
    BY <1>3 DEF StartSend, SendEnds, TimesOut
  <2>3. QED
    BY <1>2, <2>1, <2>2
<1>4. ASSUME UNCHANGED sendErrors, open' \subseteq open
      PROVE  ErrorsMeanClosed'
  BY <1>4 DEF ErrorsMeanClosed
<1>5. CASE Environment
  <2>1. UNCHANGED sendErrors
    BY <1>5 DEF Environment, Publish, PublishFails, Subscribe, Unsubscribe,
       UnsubscribeClient, Leaves, Stall, Unstall, Disconnect, Sockets, ListenerRedisError
  <2>2. open' \subseteq open
    BY <1>5 DEF Environment, Publish, PublishFails, Subscribe, Unsubscribe,
       UnsubscribeClient, Leaves, Stall, Unstall, Disconnect, Sockets, ListenerRedisError,
       socketVars
  <2>3. QED
    BY <1>4, <2>1, <2>2
<1>6. CASE HandleMessage \/ Tick \/ ListenerResumes \/ UNCHANGED vars
  BY <1>4, <1>6 DEF HandleMessage, Tick, ListenerResumes, vars, socketVars
<1>7. QED
  BY <1>3, <1>5, <1>6 DEF Next, Fanout

(***************************************************************************)
(* The counter of failed sends is above zero for closed connections only:  *)
(* a time-out is never counted.                                            *)
(***************************************************************************)
THEOREM TimeoutsAreNotCounted == Spec => []ErrorsMeanClosed
<1>1. Init => ErrorsMeanClosed
  BY DEF Init, ErrorsMeanClosed
<1>2. TypeOK /\ ErrorsMeanClosed /\ [Next]_vars => ErrorsMeanClosed'
  BY ErrorsMeanClosedStep
<1>3. QED
  BY <1>1, <1>2, TypeCorrect, PTL DEF Spec

-----------------------------------------------------------------------------

(***************************************************************************)
(* The sends of a fan-out are as old as the fan-out, and one per client.   *)
(***************************************************************************)
SendsOfOneAge == \A s \in sends : s.age = elapsed

OneSendEach == \A s, t \in sends : s.client = t.client => s = t

FanoutInv == SendsOfOneAge /\ OneSendEach /\ FanoutIsBounded

(***************************************************************************)
(* No step breaks this: the clock stops at the deadline of the sends, and  *)
(* the next fan-out starts when this one has no sends left.                *)
(***************************************************************************)
LEMMA FanoutStep ==
  ASSUME TypeOK, FanoutInv, [Next]_vars
  PROVE  FanoutInv'
<1>1. sends \subseteq Send /\ elapsed \in Nat /\ FANOUT_CALLBACK_TIMEOUT \in Nat
  BY BoundsAssumption DEF TypeOK
<1>2. CASE HandleMessage
  <2>1. elapsed' = 0
    BY <1>2 DEF HandleMessage
  <2>2. \A s \in sends' : s = NewSend(s.client, Head(queue))
    BY <1>2 DEF HandleMessage, FanoutEnded, NewSend
  <2>3. SendsOfOneAge'
    BY <2>1, <2>2 DEF SendsOfOneAge, NewSend
  <2>4. OneSendEach'
    BY <2>2 DEF OneSendEach
  <2>5. QED
    BY <1>1, <2>1, <2>3, <2>4 DEF FanoutInv, FanoutIsBounded
<1>3. ASSUME NEW s \in sends, StartSend(s) \/ SendEnds(s) \/ TimesOut(s)
      PROVE  FanoutInv'
  <2> DEFINE w == [s EXCEPT !.stage = "waiting"]
  <2>1. w.age = s.age /\ w.client = s.client
    BY <1>1 DEF Send
  <2>2. UNCHANGED elapsed
    BY <1>3 DEF StartSend, SendEnds, TimesOut
  <2>3. sends' \subseteq (sends \ {s}) \cup {w}
    BY <1>3 DEF StartSend, SendEnds, TimesOut
  <2> HIDE DEF w
  <2>4. SendsOfOneAge'
    BY <2>1, <2>2, <2>3 DEF FanoutInv, SendsOfOneAge
  <2>5. OneSendEach'
    BY <2>1, <2>3 DEF FanoutInv, OneSendEach
  <2>6. QED
    BY <2>2, <2>4, <2>5 DEF FanoutInv, FanoutIsBounded
<1>4. CASE Tick
  <2> DEFINE older(s) == [s EXCEPT !.age = @ + 1]
  <2>1. \A s \in sends : s \in Waiting
    BY <1>1, <1>4 DEF Tick, CanStart, Waiting, Send
  <2>2. sends' = {older(s) : s \in sends}
    BY <1>4, <2>1 DEF Tick
  <2>3. \A s \in sends : older(s).age = s.age + 1 /\ older(s).client = s.client
    BY <1>1 DEF Send
  <2>4. elapsed' = elapsed + 1 /\ elapsed < FANOUT_CALLBACK_TIMEOUT
    BY <1>4, <2>1 DEF Tick, Waiting, FanoutInv, SendsOfOneAge
  <2> HIDE DEF older
  <2>5. SendsOfOneAge'
    BY <2>2, <2>3, <2>4 DEF FanoutInv, SendsOfOneAge
  <2>6. OneSendEach'
    BY <2>2, <2>3 DEF FanoutInv, OneSendEach
  <2>7. QED
    BY <1>1, <2>4, <2>5, <2>6 DEF FanoutInv, FanoutIsBounded
<1>5. CASE Environment \/ ListenerResumes \/ UNCHANGED vars
  <2>1. UNCHANGED <<sends, elapsed>>
    BY <1>5 DEF Environment, ListenerResumes, Publish, PublishFails, Subscribe, Unsubscribe,
       UnsubscribeClient, Leaves, Stall, Unstall, Disconnect, Sockets, ListenerRedisError,
       fanoutVars, vars
  <2>2. QED
    BY <2>1 DEF FanoutInv, SendsOfOneAge, OneSendEach, FanoutIsBounded
<1>6. QED
  BY <1>2, <1>3, <1>4, <1>5 DEF Next, Fanout

(***************************************************************************)
(* It holds in every state.                                                *)
(***************************************************************************)
LEMMA FanoutInvariant == Spec => []FanoutInv
<1>1. Init => FanoutInv
  BY BoundsAssumption DEF Init, FanoutInv, SendsOfOneAge, OneSendEach, FanoutIsBounded
<1>2. TypeOK /\ FanoutInv /\ [Next]_vars => FanoutInv'
  BY FanoutStep
<1>3. QED
  BY <1>1, <1>2, TypeCorrect, PTL DEF Spec

(***************************************************************************)
(* However many clients stall, the listener waits no longer than one       *)
(* time-out for a fan-out.                                                 *)
(***************************************************************************)
THEOREM StalledClientsDelayByOneTimeout == Spec => []FanoutIsBounded
<1>1. FanoutInv => FanoutIsBounded
  BY DEF FanoutInv
<1>2. QED
  BY <1>1, FanoutInvariant, PTL

-----------------------------------------------------------------------------

(***************************************************************************)
(* A client is subscribed to the channels that have a callback of it, and  *)
(* is owed messages of these only.                                         *)
(***************************************************************************)
CallbacksAreWanted ==
  \A c \in Client, ch \in Channel : ch \in wanted[c] <=> c \in callbacks[ch]

OwedIsWanted == \A c \in Client : \A m \in owed[c] : m.channel \in wanted[c]

RegistryInv == CallbacksAreWanted /\ OwedIsWanted

(***************************************************************************)
(* Registering and unregistering change both sides at once, and a message  *)
(* is owed to the clients registered when it is published.                 *)
(***************************************************************************)
LEMMA RegistryStep ==
  ASSUME TypeOK, RegistryInv, [Next]_vars
  PROVE  RegistryInv'
<1>0. /\ callbacks \in [Channel -> SUBSET Client]
      /\ wanted \in [Client -> SUBSET Channel]
      /\ owed \in [Client -> SUBSET Message]
      /\ sends \subseteq Send
  BY DEF TypeOK
<1>1. ASSUME NEW ch \in Channel, Publish(ch)
      PROVE  RegistryInv'
  <2>1. PICK m \in Message : PublishesAs(ch, m)
    BY <1>1, PublishedMessage
  <2>2. UNCHANGED <<callbacks, wanted>>
    BY <1>1 DEF Publish, serverVars
  <2>3. CASE owed' = owed
    BY <2>2, <2>3 DEF RegistryInv, CallbacksAreWanted, OwedIsWanted
  <2>4. CASE owed' = [c \in Client |->
                       IF c \in callbacks[ch] THEN owed[c] \cup {m} ELSE owed[c]]
    BY <1>0, <2>1, <2>2, <2>4
    DEF RegistryInv, CallbacksAreWanted, OwedIsWanted, PublishesAs
  <2>5. QED
    BY <2>1, <2>3, <2>4 DEF PublishesAs
<1>2. ASSUME NEW c \in Client, NEW ch \in Channel, Subscribe(c, ch)
      PROVE  RegistryInv'
  BY <1>0, <1>2 DEF Subscribe, RegistryInv, CallbacksAreWanted, OwedIsWanted
<1>3. ASSUME NEW c \in Client, NEW channels \in SUBSET Channel, Leaves(c, channels),
             \A ch \in Channel : callbacks'[ch] =
               IF ch \in channels THEN callbacks[ch] \ {c} ELSE callbacks[ch]
      PROVE  RegistryInv'
  <2>1. \A d \in Client : wanted'[d] = IF d = c THEN wanted[c] \ channels ELSE wanted[d]
    BY <1>0, <1>3 DEF Leaves
  <2>2. ASSUME NEW d \in Client, NEW ch \in Channel
        PROVE  ch \in wanted'[d] <=> d \in callbacks'[ch]
    <3>1. ch \in wanted[d] <=> d \in callbacks[ch]
      BY DEF RegistryInv, CallbacksAreWanted
    <3>2. d \in callbacks'[ch] <=> d \in callbacks[ch] /\ ~(ch \in channels /\ d = c)
      BY <1>3
    <3>3. ch \in wanted'[d] <=> ch \in wanted[d] /\ ~(ch \in channels /\ d = c)
      BY <2>1
    <3>4. QED
      BY <3>1, <3>2, <3>3
  <2>3. \A d \in Client : owed'[d] =
          IF d = c THEN {m \in owed[c] : m.channel \notin channels} ELSE owed[d]
    BY <1>0, <1>3 DEF Leaves
  <2>4. OwedIsWanted'
    BY <2>1, <2>3 DEF RegistryInv, OwedIsWanted
  <2>5. QED
    BY <2>2, <2>4 DEF RegistryInv, CallbacksAreWanted
<1>4. ASSUME NEW c \in Client, NEW ch \in Channel, Unsubscribe(c, ch)
      PROVE  RegistryInv'
  <2>1. \A k \in Channel : callbacks'[k] =
          IF k \in {ch} THEN callbacks[k] \ {c} ELSE callbacks[k]
    BY <1>0, <1>4 DEF Unsubscribe
  <2>2. Leaves(c, {ch})
    BY <1>4 DEF Unsubscribe
  <2>3. QED
    BY <1>3, <2>1, <2>2
<1>5. ASSUME NEW c \in Client, UnsubscribeClient(c)
      PROVE  RegistryInv'
  <2>1. \A k \in Channel : callbacks'[k] =
          IF k \in Channel THEN callbacks[k] \ {c} ELSE callbacks[k]
    BY <1>5 DEF UnsubscribeClient
  <2>2. Leaves(c, Channel)
    BY <1>5 DEF UnsubscribeClient
  <2>3. QED
    BY <1>3, <2>1, <2>2
<1>6. ASSUME NEW s \in sends, StartSend(s)
      PROVE  RegistryInv'
  <2>1. UNCHANGED <<callbacks, wanted>>
    BY <1>6 DEF StartSend, Write, serverVars, ghostVars
  <2>2. owed' = owed \/ owed' = [owed EXCEPT ![s.client] = @ \ {s.message}]
    BY <1>6 DEF StartSend, Write, ghostVars
  <2>3. \A c \in Client : owed'[c] \subseteq owed[c]
    BY <1>0, <2>2
  <2>4. QED
    BY <2>1, <2>3 DEF RegistryInv, CallbacksAreWanted, OwedIsWanted
<1>7. ASSUME UNCHANGED <<callbacks, wanted, owed>>
      PROVE  RegistryInv'
  BY <1>7 DEF RegistryInv, CallbacksAreWanted, OwedIsWanted
<1>8. CASE ListenerRedisError
  BY <1>8 DEF ListenerRedisError, RegistryInv, CallbacksAreWanted, OwedIsWanted
<1>9. ASSUME NEW s \in sends, SendEnds(s) \/ TimesOut(s)
      PROVE  RegistryInv'
  BY <1>7, <1>9 DEF SendEnds, TimesOut, serverVars, ghostVars
<1>10. CASE HandleMessage \/ Tick \/ ListenerResumes \/ PublishFails \/ UNCHANGED vars
  BY <1>7, <1>10 DEF HandleMessage, Tick, ListenerResumes, PublishFails, vars,
     serverVars, ghostVars
<1>11. ASSUME NEW c \in Client, Stall(c) \/ Unstall(c) \/ Disconnect(c)
       PROVE  RegistryInv'
  BY <1>7, <1>11 DEF Stall, Unstall, Disconnect, Sockets, serverVars, ghostVars
<1>12. QED
  BY <1>1, <1>2, <1>4, <1>5, <1>6, <1>8, <1>9, <1>10, <1>11
  DEF Next, Environment, Fanout

-----------------------------------------------------------------------------

(***************************************************************************)
(* No message of a channel has come to a client that is subscribed to it   *)
(* since it left, nor to one for which the last fan-out of the channel     *)
(* still holds a send.                                                     *)
(***************************************************************************)
NotLateYet ==
  \A c \in Client, ch \in Channel : ch \in wanted[c] => late[c][ch] = 0

NotLateBefore ==
  \A s \in sends :
    s.stage = "created" /\ s.message.channel \notin wanted[s.client]
      => late[s.client][s.message.channel] = 0

LateInv == NotLateYet /\ NotLateBefore /\ AtMostOneLate

(***************************************************************************)
(* A fan-out starts with clients that are subscribed, and has one send for *)
(* each: after it, or once it is cut short, the client is not called.      *)
(***************************************************************************)
LEMMA LateStep ==
  ASSUME TypeOK, RegistryInv, FanoutInv, LateInv, [Next]_vars
  PROVE  LateInv'
<1>0. /\ late \in [Client -> [Channel -> Nat]]
      /\ wanted \in [Client -> SUBSET Channel]
      /\ sends \subseteq Send
  BY DEF TypeOK
<1>1. ASSUME NEW c \in Client, NEW ch \in Channel, Subscribe(c, ch)
      PROVE  LateInv'
  <2>1. \A d \in Client, k \in Channel :
          /\ late'[d][k] = (IF d = c /\ k = ch THEN 0 ELSE late[d][k])
          /\ (k \in wanted'[d] <=> (k \in wanted[d] \/ (d = c /\ k = ch)))
    <3>1. late' = [late EXCEPT ![c][ch] = 0]
      BY <1>1 DEF Subscribe
    <3>2. wanted' = [wanted EXCEPT ![c] = @ \cup {ch}]
      BY <1>1 DEF Subscribe
    <3>3. QED
      BY <1>0, <3>1, <3>2
  <2>2. sends' = sends
    BY <1>1 DEF Subscribe, fanoutVars
  <2>3. \A s \in sends : s.client \in Client /\ s.message.channel \in Channel
    BY <1>0 DEF Send, Message
  <2>4. QED
    BY <2>1, <2>2, <2>3 DEF LateInv, NotLateYet, NotLateBefore, AtMostOneLate
<1>2. ASSUME NEW c \in Client, NEW channels \in SUBSET Channel, Leaves(c, channels)
      PROVE  LateInv'
  <2>1. \A d \in Client : wanted'[d] \subseteq wanted[d]
    BY <1>0, <1>2 DEF Leaves
  <2>2. sends' = sends /\ late' = late
    BY <1>2 DEF Leaves, fanoutVars
  <2>3. \A s \in sends : s.client \in Client /\ s.message.channel \in Channel
    BY <1>0 DEF Send, Message
  <2>4. QED
    BY <2>1, <2>2, <2>3 DEF LateInv, NotLateYet, NotLateBefore, AtMostOneLate
<1>3. CASE HandleMessage
  <2>1. UNCHANGED <<wanted, late>>
    BY <1>3 DEF HandleMessage, ghostVars
  <2>2. ASSUME NEW s \in sends'
        PROVE  s.message.channel \in wanted[s.client]
    <3>1. s.message = Head(queue) /\ s.client \in callbacks[Head(queue).channel]
      BY <1>3, <2>2 DEF HandleMessage, FanoutEnded, NewSend
    <3>2. Head(queue) \in Message
      BY <1>3 DEF HandleMessage, TypeOK
    <3>3. Head(queue).channel \in Channel
      BY <3>2 DEF Message
    <3>4. s.client \in Client
      BY <3>1, <3>3 DEF TypeOK
    <3>5. QED
      BY <3>1, <3>3, <3>4 DEF RegistryInv, CallbacksAreWanted
  <2>3. QED
    BY <2>1, <2>2 DEF LateInv, NotLateYet, NotLateBefore, AtMostOneLate
<1>4. ASSUME NEW s \in sends, StartSend(s)
      PROVE  LateInv'
  <2> DEFINE c == s.client
             ch == s.message.channel
  <2>1. c \in Client /\ ch \in Channel /\ s.stage = "created"
    BY <1>0, <1>4 DEF Send, Message, StartSend, CanStart
  <2>2. wanted' = wanted
    BY <1>4 DEF StartSend, Write, ghostVars
  <2>3. \A t \in sends' : t.stage = "created" => t \in sends /\ t.client # c
    <3>1. [s EXCEPT !.stage = "waiting"].stage = "waiting"
      BY <1>0 DEF Send
    <3>2. sends' \subseteq (sends \ {s}) \cup {[s EXCEPT !.stage = "waiting"]}
      BY <1>4 DEF StartSend
    <3>3. QED
      BY <3>1, <3>2 DEF FanoutInv, OneSendEach
  <2>4. \/ late' = late
        \/ ch \notin wanted[c] /\ late' = [late EXCEPT ![c][ch] = @ + 1]
    BY <1>4 DEF StartSend, Write, ghostVars
  <2> HIDE DEF c, ch
  <2>5. CASE late' = late
    BY <2>2, <2>3, <2>5 DEF LateInv, NotLateYet, NotLateBefore, AtMostOneLate
  <2>6. CASE ch \notin wanted[c] /\ late' = [late EXCEPT ![c][ch] = @ + 1]
    <3>1. late[c][ch] = 0
      BY <2>1, <2>6 DEF LateInv, NotLateBefore, c, ch
    <3>2. \A d \in Client, k \in Channel :
            late'[d][k] = IF d = c /\ k = ch THEN 1 ELSE late[d][k]
      BY <1>0, <2>1, <2>6, <3>1
    <3>3. NotLateYet'
      BY <2>2, <2>6, <3>2 DEF LateInv, NotLateYet
    <3>4. \A t \in sends : t.client \in Client /\ t.message.channel \in Channel
      BY <1>0 DEF Send, Message
    <3>5. NotLateBefore'
      BY <2>2, <2>3, <3>2, <3>4 DEF LateInv, NotLateBefore
    <3>6. AtMostOneLate'
      BY <1>0, <3>2 DEF LateInv, AtMostOneLate
    <3>7. QED
      BY <3>3, <3>5, <3>6 DEF LateInv
  <2>7. QED
    BY <2>4, <2>5, <2>6
<1>5. ASSUME NEW s \in sends, SendEnds(s) \/ TimesOut(s)
      PROVE  LateInv'
  <2>1. UNCHANGED <<wanted, late>> /\ sends' \subseteq sends
    BY <1>5 DEF SendEnds, TimesOut, ghostVars
  <2>2. QED
    BY <2>1 DEF LateInv, NotLateYet, NotLateBefore, AtMostOneLate
<1>6. CASE Tick
  <2>1. UNCHANGED <<wanted, late>>
    BY <1>6 DEF Tick, ghostVars
  <2>2. \A s \in sends : s.stage = "waiting"
    BY <1>0, <1>6 DEF Tick, CanStart, Send
  <2>3. \A s \in sends : [s EXCEPT !.age = @ + 1].stage = "waiting"
    BY <1>0, <2>2 DEF Send
  <2>4. \A s \in sends' : s.stage = "waiting"
    BY <1>6, <2>2, <2>3 DEF Tick
  <2>5. QED
    BY <2>1, <2>4 DEF LateInv, NotLateYet, NotLateBefore, AtMostOneLate
<1>7. ASSUME UNCHANGED <<sends, wanted, late>>
      PROVE  LateInv'
  BY <1>7 DEF LateInv, NotLateYet, NotLateBefore, AtMostOneLate
<1>8. ASSUME NEW ch \in Channel, Publish(ch)
      PROVE  LateInv'
  BY <1>7, <1>8 DEF Publish, fanoutVars
<1>9. CASE PublishFails \/ ListenerRedisError \/ ListenerResumes \/ UNCHANGED vars
  BY <1>7, <1>9 DEF PublishFails, ListenerRedisError, ListenerResumes, vars, fanoutVars,
     ghostVars
<1>10. ASSUME NEW c \in Client, Stall(c) \/ Unstall(c) \/ Disconnect(c)
       PROVE  LateInv'
  BY <1>7, <1>10 DEF Stall, Unstall, Disconnect, Sockets, fanoutVars, ghostVars
<1>11. QED
  BY <1>1, <1>2, <1>3, <1>4, <1>5, <1>6, <1>8, <1>9, <1>10
  DEF Next, Environment, Fanout, Unsubscribe, UnsubscribeClient

(***************************************************************************)
(* All parts together are inductive.                                       *)
(***************************************************************************)
LEMMA LateInvariant == Spec => [](RegistryInv /\ LateInv)
<1>1. Init => RegistryInv /\ LateInv
  BY DEF Init, RegistryInv, CallbacksAreWanted, OwedIsWanted, LateInv, NotLateYet,
     NotLateBefore, AtMostOneLate
<1>2. TypeOK /\ FanoutInv /\ (RegistryInv /\ LateInv) /\ [Next]_vars
        => (RegistryInv /\ LateInv)'
  BY RegistryStep, LateStep
<1>3. QED
  BY <1>1, <1>2, TypeCorrect, FanoutInvariant, PTL DEF Spec

(***************************************************************************)
(* A client that has left a channel gets at most the one message whose     *)
(* fan-out took its callback before.                                       *)
(***************************************************************************)
THEOREM OneMessageAfterLeaving == Spec => []AtMostOneLate
<1>1. RegistryInv /\ LateInv => AtMostOneLate
  BY DEF LateInv
<1>2. QED
  BY <1>1, LateInvariant, PTL

-----------------------------------------------------------------------------

(***************************************************************************)
(* What is on the listener's connection after a message has been put there *)
(* and after one has been taken.                                           *)
(***************************************************************************)
LEMMA AppendQueues ==
  ASSUME NEW q \in Seq(Message), NEW m \in Message
  PROVE  /\ m \in {Append(q, m)[i] : i \in DOMAIN Append(q, m)}
         /\ {q[i] : i \in DOMAIN q} \subseteq
              {Append(q, m)[i] : i \in DOMAIN Append(q, m)}
<1>1. /\ DOMAIN Append(q, m) = 1..Len(q) + 1
      /\ Append(q, m)[Len(q) + 1] = m
      /\ \A i \in 1..Len(q) : Append(q, m)[i] = q[i]
  BY AppendProperties
<1>2. DOMAIN q = 1..Len(q) /\ Len(q) \in Nat
  OBVIOUS
<1>3. QED
  BY <1>1, <1>2

(***************************************************************************)
(* The same for the message that is taken off.                             *)
(***************************************************************************)
LEMMA HeadLeavesQueue ==
  ASSUME NEW q \in Seq(Message), q # <<>>
  PROVE  {q[i] : i \in DOMAIN q} \subseteq
           {Head(q)} \cup {Tail(q)[i] : i \in DOMAIN Tail(q)}
<1>1. /\ DOMAIN Tail(q) = 1..Len(q) - 1 /\ DOMAIN q = 1..Len(q) /\ Len(q) \in Nat
      /\ \A i \in 1..Len(q) - 1 : Tail(q)[i] = q[i + 1]
      /\ Head(q) = q[1]
  OBVIOUS
<1>2. ASSUME NEW i \in 1..Len(q), i # 1
      PROVE  q[i] \in {Tail(q)[j] : j \in DOMAIN Tail(q)}
  <2>1. i - 1 \in 1..Len(q) - 1 /\ (i - 1) + 1 = i
    BY <1>1, <1>2
  <2>2. Tail(q)[i - 1] = q[i]
    BY <1>1, <2>1
  <2>3. QED
    BY <1>1, <2>1, <2>2
<1>3. QED
  BY <1>1, <1>2

(***************************************************************************)
(* What is owed waits on Redis' connection, then in a send, then it is     *)
(* written; no other step takes it from where it waits.                    *)
(***************************************************************************)
LEMMA NothingIsDroppedStep ==
  ASSUME TypeOK, RegistryInv, NothingIsDropped, [Next]_vars
  PROVE  NothingIsDropped'
<1>0. /\ callbacks \in [Channel -> SUBSET Client]
      /\ owed \in [Client -> SUBSET Message]
      /\ queue \in Seq(Message)
      /\ sends \subseteq Send
      /\ open \subseteq Client
  BY DEF TypeOK
<1>1. ASSUME NEW ch \in Channel, Publish(ch)
      PROVE  NothingIsDropped'
  <2>1. PICK m \in Message : PublishesAs(ch, m)
    BY <1>1, PublishedMessage
  <2>2. UNCHANGED <<open, sends>>
    BY <1>1 DEF Publish, socketVars, fanoutVars
  <2>3. \A c \in Client : Created(c)' = Created(c)
    BY <2>2 DEF Created
  <2>4. CASE UNCHANGED <<queue, owed>>
    BY <1>0, <2>2, <2>3, <2>4 DEF NothingIsDropped, Queued
  <2>5. CASE /\ queue' = Append(queue, m)
             /\ owed' = [c \in Client |->
                          IF c \in callbacks[ch] THEN owed[c] \cup {m} ELSE owed[c]]
    <3>1. m \in Queued' /\ Queued \subseteq Queued'
      <4>1. queue' = Append(queue, m)
        BY <2>5
      <4>2. /\ m \in {Append(queue, m)[i] : i \in DOMAIN Append(queue, m)}
            /\ {queue[i] : i \in DOMAIN queue} \subseteq
                 {Append(queue, m)[i] : i \in DOMAIN Append(queue, m)}
        BY <1>0, AppendQueues
      <4>3. QED
        BY <4>1, <4>2, Zenon DEF Queued
    <3>2. \A c \in Client : owed'[c] \subseteq owed[c] \cup {m}
      BY <2>5
    <3>3. QED
      BY <1>0, <2>2, <2>3, <3>1, <3>2 DEF NothingIsDropped
  <2>6. QED
    BY <2>1, <2>4, <2>5 DEF PublishesAs
<1>2. ASSUME UNCHANGED <<queue, sends>>, open' \subseteq open,
             \A c \in Client : owed'[c] \subseteq owed[c]
      PROVE  NothingIsDropped'
  BY <1>0, <1>2 DEF NothingIsDropped, Queued, Created
<1>3. ASSUME NEW c \in Client, NEW channels, Leaves(c, channels)
      PROVE  NothingIsDropped'
  <2>1. \A d \in Client : owed'[d] \subseteq owed[d]
    BY <1>0, <1>3 DEF Leaves
  <2>2. QED
    BY <1>2, <1>3, <2>1 DEF Leaves, messageVars, fanoutVars, socketVars
<1>4. ASSUME NEW c \in Client, NEW ch \in Channel, Subscribe(c, ch)
      PROVE  NothingIsDropped'
  BY <1>2, <1>4 DEF Subscribe, messageVars, fanoutVars, socketVars
<1>5. CASE HandleMessage
  <2>1. UNCHANGED <<open, owed>>
    BY <1>5 DEF HandleMessage, socketVars, ghostVars
  <2>2. Queued \subseteq {Head(queue)} \cup Queued'
    BY <1>0, <1>5, HeadLeavesQueue DEF HandleMessage, Queued
  <2>3. ASSUME NEW c \in Client, c \in callbacks[Head(queue).channel]
        PROVE  Head(queue) \in Created(c)'
    <3>1. NewSend(c, Head(queue)) \in sends'
      BY <1>5, <2>3 DEF HandleMessage
    <3>2. /\ NewSend(c, Head(queue)).client = c
          /\ NewSend(c, Head(queue)).stage = "created"
          /\ NewSend(c, Head(queue)).message = Head(queue)
      BY DEF NewSend
    <3>3. QED
      BY <3>1, <3>2 DEF Created
  <2>4. \A c \in Client : Created(c) = {}
    BY <1>5 DEF HandleMessage, FanoutEnded, Created
  <2>5. ASSUME NEW c \in open, NEW m \in owed[c]
        PROVE  m \in Queued' \cup Created(c)'
    <3>1. m \in Queued
      BY <1>0, <2>4, <2>5 DEF NothingIsDropped
    <3>2. m.channel \in Channel /\ c \in Client
      BY <1>0, <2>5 DEF Message
    <3>3. c \in callbacks[m.channel]
      BY <2>5, <3>2 DEF RegistryInv, OwedIsWanted, CallbacksAreWanted
    <3>4. QED
      BY <2>2, <2>3, <3>1, <3>2, <3>3
  <2>6. QED
    BY <2>1, <2>5 DEF NothingIsDropped
<1>6. ASSUME NEW s \in sends, StartSend(s)
      PROVE  NothingIsDropped'
  <2>1. UNCHANGED <<queue, open>>
    BY <1>6 DEF StartSend, messageVars, socketVars
  <2>2. sends \ {s} \subseteq sends'
    BY <1>6 DEF StartSend
  <2>3. s.client \in Client
    BY <1>0 DEF Send
  <2>4. \A c \in Client : /\ owed'[c] \subseteq owed[c]
                          /\ c = s.client /\ c \in open => s.message \notin owed'[c]
    <3>1. CASE s.client \in open
      <4>1. owed' = [owed EXCEPT ![s.client] = @ \ {s.message}]
        BY <1>6, <3>1 DEF StartSend, Write
      <4>2. QED
        BY <1>0, <2>3, <4>1
    <3>2. CASE s.client \notin open
      BY <1>6, <3>2 DEF StartSend, ghostVars
    <3>3. QED
      BY <3>1, <3>2
  <2>5. ASSUME NEW c \in open, NEW m \in owed'[c]
        PROVE  m \in Queued' \cup Created(c)'
    <3>1. m \in Queued \cup Created(c)
      BY <1>0, <2>4, <2>5 DEF NothingIsDropped
    <3>2. Queued' = Queued
      BY <2>1 DEF Queued
    <3>3. CASE m \in Created(c)
      <4>1. PICK t \in sends : t.client = c /\ t.stage = "created" /\ t.message = m
        BY <3>3 DEF Created
      <4>2. t # s
        BY <1>0, <2>4, <2>5, <4>1
      <4>3. QED
        BY <2>2, <4>1, <4>2 DEF Created
    <3>4. QED
      BY <3>1, <3>2, <3>3
  <2>6. QED
    BY <2>1, <2>5 DEF NothingIsDropped
<1>7. ASSUME NEW s \in sends, SendEnds(s) \/ TimesOut(s)
      PROVE  NothingIsDropped'
  <2>1. UNCHANGED <<queue, open, owed>> /\ sends' = sends \ {s} /\ s.stage = "waiting"
    BY <1>7 DEF SendEnds, TimesOut, messageVars, socketVars, ghostVars
  <2>2. \A c \in Client : Created(c)' = Created(c)
    BY <2>1 DEF Created
  <2>3. QED
    BY <1>0, <2>1, <2>2 DEF NothingIsDropped, Queued
<1>8. CASE Tick
  <2>1. UNCHANGED <<queue, open, owed>>
    BY <1>8 DEF Tick, messageVars, socketVars, ghostVars
  <2>2. \A c \in Client : Created(c) = {}
    BY <1>8 DEF Tick, CanStart, Created
  <2>3. QED
    BY <1>0, <2>1, <2>2 DEF NothingIsDropped, Queued
<1>9. CASE ListenerRedisError
  <2>1. \A c \in Client : owed'[c] = {}
    BY <1>9 DEF ListenerRedisError
  <2>2. UNCHANGED open
    BY <1>9 DEF ListenerRedisError, socketVars
  <2>3. QED
    BY <1>0, <2>1, <2>2 DEF NothingIsDropped
<1>10. CASE PublishFails \/ ListenerResumes \/ UNCHANGED vars
  BY <1>2, <1>10 DEF PublishFails, ListenerResumes, vars, messageVars, fanoutVars,
     socketVars, ghostVars
<1>11. ASSUME NEW c \in Client, Stall(c) \/ Unstall(c) \/ Disconnect(c)
       PROVE  NothingIsDropped'
  BY <1>2, <1>11 DEF Stall, Unstall, Disconnect, Sockets, messageVars, fanoutVars, ghostVars
<1>12. QED
  BY <1>1, <1>3, <1>4, <1>5, <1>6, <1>7, <1>8, <1>9, <1>10, <1>11
  DEF Next, Environment, Fanout, Unsubscribe, UnsubscribeClient

(***************************************************************************)
(* What a connected client is owed is on its way to it.                    *)
(***************************************************************************)
THEOREM OwedIsOnItsWay == Spec => []NothingIsDropped
<1>1. Init => NothingIsDropped
  BY DEF Init, NothingIsDropped
<1>2. /\ TypeOK /\ (RegistryInv /\ LateInv) /\ NothingIsDropped /\ [Next]_vars
      => NothingIsDropped'
  BY NothingIsDroppedStep
<1>3. QED
  BY <1>1, <1>2, TypeCorrect, LateInvariant, PTL DEF Spec

-----------------------------------------------------------------------------

(***************************************************************************)
(* Ids grow along the way of a message: written ones are below those in a  *)
(* send that has not started, and these below those still to be handled.   *)
(***************************************************************************)
QueueInOrder ==
  /\ \A i, j \in DOMAIN queue : i < j => queue[i].id < queue[j].id
  /\ \A i \in DOMAIN queue : queue[i].id <= published

SendsBeforeQueue ==
  \A s \in sends :
    /\ s.message.id <= published
    /\ \A i \in DOMAIN queue : s.message.id < queue[i].id

WrittenBefore(c, id) == \A n \in DOMAIN received[c] : received[c][n] < id

WrittenFirst ==
  \A c \in Client :
    /\ \A n \in DOMAIN received[c] : received[c][n] <= published
    /\ \A i \in DOMAIN queue : WrittenBefore(c, queue[i].id)
    /\ \A s \in sends :
         s.client = c /\ s.stage = "created" => WrittenBefore(c, s.message.id)

OrderInv == QueueInOrder /\ SendsBeforeQueue /\ WrittenFirst /\ InOrder

(***************************************************************************)
(* The ids a publish, a new fan-out and a write deal with, as numbers.     *)
(***************************************************************************)
LEMMA IdsAreNumbers ==
  ASSUME TypeOK
  PROVE  /\ published \in Nat
         /\ \A i \in DOMAIN queue : queue[i] \in Message /\ queue[i].id \in Nat
         /\ \A s \in sends : s.client \in Client /\ s.message.id \in Nat
         /\ \A c \in Client : \A n \in DOMAIN received[c] : received[c][n] \in Nat
<1>1. BoundsAssumption => \A m \in Message : m.id \in Nat
  BY DEF Message
<1>2. published \in Nat
  BY BoundsAssumption DEF TypeOK
<1>3. \A i \in DOMAIN queue : queue[i] \in Message
  BY DEF TypeOK
<1>4. \A s \in sends : s.client \in Client /\ s.message \in Message
  BY DEF TypeOK, Send
<1>5. \A c \in Client : \A n \in DOMAIN received[c] : received[c][n] \in Nat
  BY BoundsAssumption DEF TypeOK
<1>6. QED
  BY <1>1, <1>2, <1>3, <1>4, <1>5, BoundsAssumption

(***************************************************************************)
(* A message is published with an id above all others, a fan-out takes the *)
(* first of the queue when the one before it is over, and a write takes    *)
(* the one send of its client.                                             *)
(***************************************************************************)
LEMMA OrderStep ==
  ASSUME TypeOK, FanoutInv, OrderInv, [Next]_vars
  PROVE  OrderInv'
<1>0. /\ queue \in Seq(Message)
      /\ sends \subseteq Send
      /\ received \in [Client -> Seq(1..MaxMessages)]
  BY DEF TypeOK
<1>1. ASSUME NEW ch \in Channel, Publish(ch)
      PROVE  OrderInv'
  <2>1. PICK m \in Message : PublishesAs(ch, m)
    BY <1>1, PublishedMessage
  <2>2. published' = published + 1 /\ m.id = published + 1
    BY <1>1, <2>1 DEF Publish, PublishesAs
  <2>3. UNCHANGED <<sends, received>>
    BY <1>1 DEF Publish, fanoutVars
  <2>4. \A i \in DOMAIN queue' : \/ i \in DOMAIN queue /\ queue'[i] = queue[i]
                                 \/ queue'[i] = m /\ \A j \in DOMAIN queue' : j <= i
    <3>1. CASE queue' = queue
      BY <3>1
    <3>2. CASE queue' = Append(queue, m)
      BY <1>0, <3>2, AppendProperties
    <3>3. QED
      BY <2>1, <3>1, <3>2 DEF PublishesAs
  <2>5. DOMAIN queue' \subseteq Nat
    BY <2>1, <1>0 DEF PublishesAs
  <2>6. QueueInOrder'
    BY <2>2, <2>4, <2>5, IdsAreNumbers DEF OrderInv, QueueInOrder
  <2>7. SendsBeforeQueue'
    BY <2>2, <2>3, <2>4, IdsAreNumbers DEF OrderInv, SendsBeforeQueue
  <2>8. WrittenFirst'
    BY <2>2, <2>3, <2>4, IdsAreNumbers DEF OrderInv, WrittenFirst, WrittenBefore
  <2>9. InOrder'
    BY <2>3 DEF OrderInv, InOrder
  <2>10. QED
    BY <2>6, <2>7, <2>8, <2>9 DEF OrderInv
<1>2. CASE PublishFails
  <2>1. published' = published + 1 /\ UNCHANGED <<queue, sends, received>>
    BY <1>2 DEF PublishFails, fanoutVars
  <2>2. QED
    BY <2>1, IdsAreNumbers
    DEF OrderInv, QueueInOrder, SendsBeforeQueue, WrittenFirst, WrittenBefore, InOrder
<1>3. CASE HandleMessage
  <2>1. UNCHANGED <<published, received>>
    BY <1>3 DEF HandleMessage
  <2>2. /\ DOMAIN queue' \subseteq Nat
        /\ \A i \in DOMAIN queue' : i + 1 \in DOMAIN queue /\ queue'[i] = queue[i + 1]
        /\ 1 \in DOMAIN queue /\ Head(queue) = queue[1]
        /\ \A i \in DOMAIN queue' : 1 < i + 1
    BY <1>0, <1>3 DEF HandleMessage
  <2>3. \A s \in sends' : s.message = queue[1]
    BY <1>3, <2>2 DEF HandleMessage, FanoutEnded, NewSend
  <2>4. QueueInOrder'
    BY <2>1, <2>2 DEF OrderInv, QueueInOrder
  <2>5. SendsBeforeQueue'
    BY <2>1, <2>2, <2>3 DEF OrderInv, QueueInOrder, SendsBeforeQueue
  <2>6. WrittenFirst'
    BY <2>1, <2>2, <2>3 DEF OrderInv, WrittenFirst, WrittenBefore
  <2>7. InOrder'
    BY <2>1 DEF OrderInv, InOrder
  <2>8. QED
    BY <2>4, <2>5, <2>6, <2>7 DEF OrderInv
<1>4. ASSUME NEW s \in sends, StartSend(s)
      PROVE  OrderInv'
  <2> DEFINE w == [s EXCEPT !.stage = "waiting"]
  <2>1. /\ s.client \in Client /\ s.stage = "created"
        /\ s.message \in Message /\ s.message.id \in 1..MaxMessages
    BY <1>0, <1>4 DEF StartSend, CanStart, Send, Message
  <2>2. w.message = s.message /\ w.stage = "waiting"
    BY <1>0 DEF Send
  <2>3. sends' \subseteq (sends \ {s}) \cup {w}
    BY <1>4 DEF StartSend
  <2> HIDE DEF w
  <2>4. UNCHANGED <<queue, published>>
    BY <1>4 DEF StartSend, messageVars
  <2>5. \A t \in sends' : t.stage = "created" => t \in sends /\ t.client # s.client
    BY <2>2, <2>3 DEF FanoutInv, OneSendEach
  <2>6. QueueInOrder' /\ SendsBeforeQueue'
    BY <2>2, <2>3, <2>4 DEF OrderInv, QueueInOrder, SendsBeforeQueue
  <2>7. CASE received' = received
    <3>1. WrittenFirst'
      BY <2>4, <2>5, <2>7 DEF OrderInv, WrittenFirst, WrittenBefore
    <3>2. QED
      BY <2>6, <2>7, <3>1 DEF OrderInv, InOrder
  <2>8. CASE received' = [received EXCEPT ![s.client] = Append(@, s.message.id)]
    <3>1. \A c \in Client : c # s.client => received'[c] = received[c]
      BY <1>0, <2>8
    <3>2. /\ received'[s.client] = Append(received[s.client], s.message.id)
          /\ received[s.client] \in Seq(1..MaxMessages)
      BY <1>0, <2>1, <2>8
    <3>3. /\ DOMAIN received'[s.client] \subseteq Nat
          /\ \A n \in DOMAIN received'[s.client] :
               \/ n \in DOMAIN received[s.client]
                  /\ received'[s.client][n] = received[s.client][n]
               \/ /\ received'[s.client][n] = s.message.id
                  /\ \A k \in DOMAIN received'[s.client] : k <= n
      BY <2>1, <3>2, AppendProperties
    <3>4. /\ s.message.id <= published
          /\ \A i \in DOMAIN queue : s.message.id < queue[i].id
          /\ WrittenBefore(s.client, s.message.id)
      BY <2>1 DEF OrderInv, SendsBeforeQueue, WrittenFirst
    <3>5. ASSUME NEW c \in Client
          PROVE  /\ \A n \in DOMAIN received'[c] : received'[c][n] <= published
                 /\ \A i \in DOMAIN queue : WrittenBefore(c, queue[i].id)'
      <4>1. CASE c = s.client
        BY <2>4, <3>3, <3>4, <4>1 DEF OrderInv, WrittenFirst, WrittenBefore
      <4>2. CASE c # s.client
        BY <2>4, <3>1, <4>2 DEF OrderInv, WrittenFirst, WrittenBefore
      <4>3. QED
        BY <4>1, <4>2
    <3>6. ASSUME NEW c \in Client, NEW t \in sends', t.client = c, t.stage = "created"
          PROVE  WrittenBefore(c, t.message.id)'
      <4>1. t \in sends /\ c # s.client
        BY <2>5, <3>6
      <4>2. QED
        BY <3>1, <3>6, <4>1 DEF OrderInv, WrittenFirst, WrittenBefore
    <3>7. WrittenFirst'
      BY <2>4, <3>5, <3>6 DEF WrittenFirst, WrittenBefore
    <3>8. ASSUME NEW c \in Client, NEW i \in DOMAIN received'[c],
                 NEW j \in DOMAIN received'[c], i < j
          PROVE  received'[c][i] < received'[c][j]
      <4>1. CASE c = s.client
        BY <3>3, <3>4, <3>8, <4>1 DEF OrderInv, InOrder, WrittenBefore
      <4>2. CASE c # s.client
        BY <3>1, <3>8, <4>2 DEF OrderInv, InOrder
      <4>3. QED
        BY <4>1, <4>2
    <3>9. QED
      BY <2>6, <3>7, <3>8 DEF OrderInv, InOrder
  <2>9. QED
    BY <1>4, <2>7, <2>8 DEF StartSend, Write
<1>5. ASSUME UNCHANGED <<queue, published, received>>, sends' \subseteq sends
      PROVE  OrderInv'
  BY <1>5
  DEF OrderInv, QueueInOrder, SendsBeforeQueue, WrittenFirst, WrittenBefore, InOrder
<1>6. ASSUME NEW s \in sends, SendEnds(s) \/ TimesOut(s)
      PROVE  OrderInv'
  BY <1>5, <1>6 DEF SendEnds, TimesOut, messageVars
<1>7. CASE Tick
  <2>1. UNCHANGED <<queue, published, received>>
    BY <1>7 DEF Tick, messageVars
  <2>2. \A s \in sends : /\ s.stage = "waiting"
                         /\ [s EXCEPT !.age = @ + 1].stage = "waiting"
                         /\ [s EXCEPT !.age = @ + 1].message = s.message
    BY <1>0, <1>7 DEF Tick, CanStart, Send
  <2>3. \A s \in sends' : s.stage = "waiting" /\ \E t \in sends : s.message = t.message
    BY <1>7, <2>2 DEF Tick
  <2>4. QED
    BY <2>1, <2>3
    DEF OrderInv, QueueInOrder, SendsBeforeQueue, WrittenFirst, WrittenBefore, InOrder
<1>8. CASE ListenerRedisError
  <2>1. queue' = <<>> /\ UNCHANGED <<sends, published, received>>
    BY <1>8 DEF ListenerRedisError, fanoutVars
  <2>2. DOMAIN queue' = {}
    BY <2>1
  <2>3. QED
    BY <2>1, <2>2
    DEF OrderInv, QueueInOrder, SendsBeforeQueue, WrittenFirst, WrittenBefore, InOrder
<1>9. ASSUME NEW c \in Client, NEW ch \in Channel, Subscribe(c, ch)
      PROVE  OrderInv'
  BY <1>5, <1>9 DEF Subscribe, messageVars, fanoutVars
<1>10. ASSUME NEW c \in Client, NEW channels, Leaves(c, channels)
      PROVE  OrderInv'
  BY <1>5, <1>10 DEF Leaves, messageVars, fanoutVars
<1>11. CASE ListenerResumes \/ UNCHANGED vars
  BY <1>5, <1>11 DEF ListenerResumes, vars, messageVars, fanoutVars
<1>12. ASSUME NEW c \in Client, Stall(c) \/ Unstall(c) \/ Disconnect(c)
       PROVE  OrderInv'
  BY <1>5, <1>12 DEF Stall, Unstall, Disconnect, Sockets, messageVars, fanoutVars
<1>13. QED
  BY <1>1, <1>2, <1>3, <1>4, <1>6, <1>7, <1>8, <1>9, <1>10, <1>11, <1>12
  DEF Next, Environment, Fanout, Unsubscribe, UnsubscribeClient

(***************************************************************************)
(* A client gets its messages in the order they were published, none       *)
(* twice.                                                                  *)
(***************************************************************************)
THEOREM MessagesArriveInOrder == Spec => []InOrder
<1>1. Init => OrderInv
  BY DEF Init, OrderInv, QueueInOrder, SendsBeforeQueue, WrittenFirst, WrittenBefore,
     InOrder
<1>2. TypeOK /\ FanoutInv /\ OrderInv /\ [Next]_vars => OrderInv'
  BY OrderStep
<1>3. OrderInv => InOrder
  BY DEF OrderInv
<1>4. QED
  BY <1>1, <1>2, <1>3, TypeCorrect, FanoutInvariant, PTL DEF Spec

=============================================================================
