------------------------- MODULE PubSubManagerProofs -------------------------
(***************************************************************************)
(* What holds of PubSubManager for every set of clients and channels and   *)
(* every retry limit.  RegistryInv is inductive; the invariants the runs   *)
(* check follow from it once the lock is free.  With it, every step of the *)
(* manager is a step of Feeds, and what Feeds promises holds of the        *)
(* manager.                                                                *)
(***************************************************************************)
EXTENDS PubSubManager, TLAPS

(***************************************************************************)
(* A manager that has just started satisfies the inductive invariant.      *)
(***************************************************************************)
LEMMA InitRegistry == Init => RegistryInv
<1> SUFFICES ASSUME Init PROVE RegistryInv
  OBVIOUS
<1> USE RetriesAssumption DEF Init
<1>1. TypeOK
  BY DEF TypeOK, ListenerState
<1>2. RetriesLeft
  BY DEF RetriesLeft
<1>3. LockExclusive /\ CallbacksRegistered /\ CallsInStep
  BY DEF LockExclusive, CallbacksRegistered, CallsInStep
<1>4. FeedAccounted /\ OrphanAccounted /\ IdleAccounted
  BY DEF FeedAccounted, OrphanAccounted, IdleAccounted
<1> QED BY <1>1, <1>2, <1>3, <1>4 DEF RegistryInv

(***************************************************************************)
(* The call that resumes is the only one there is.                         *)
(***************************************************************************)
LEMMA OnlyCall ==
  ASSUME RegistryInv, NEW call \in held
  PROVE  /\ held = {call}
         /\ call \in Call
BY DEF RegistryInv, LockExclusive, TypeOK

-----------------------------------------------------------------------------
(***************************************************************************)
(* One lemma for each action that touches the registry                     *)
(***************************************************************************)
LEMMA SubscribeStep ==
  ASSUME RegistryInv, NEW c \in Client, NEW ch \in Channel, Subscribe(c, ch)
  PROVE  RegistryInv'
<1> USE RetriesAssumption DEF RegistryInv, Subscribe, Suspend, Unlocked,
        listenerVars, lifeVars, historyVars
<1> DEFINE call == [op |-> "subscribe", client |-> c, ch |-> ch, rest |-> {}]
<1>1. CASE ch \notin channels /\ pubsubOpen
  <2>1. /\ held' = {call} /\ call \in Call
        /\ channels' = channels \cup {ch}
        /\ UNCHANGED <<callbacks, redisChannels, listener, retries, running,
                       pubsubOpen, failedSubscribe, failedUnsubscribe>>
    BY <1>1 DEF Call
  <2>2. Opening(ch)'
    BY <2>1 DEF Opening
  <2>3. TypeOK' /\ LockExclusive' /\ CallbacksRegistered' /\ RetriesLeft'
    BY <2>1 DEF TypeOK, LockExclusive, CallbacksRegistered, RetriesLeft
  <2>4. CallsInStep'
    BY <2>1 DEF CallsInStep
  <2>5. FeedAccounted'
    BY <2>1, <2>2 DEF FeedAccounted, Opening
  <2>6. OrphanAccounted'
    BY <2>1 DEF OrphanAccounted, Closing
  <2>7. IdleAccounted'
    BY <2>1, <2>2 DEF IdleAccounted, Opening, Emptied
  <2> QED BY <2>3, <2>4, <2>5, <2>6, <2>7
<1>2. CASE ~(ch \notin channels /\ pubsubOpen)
  <2>1. /\ held = {} /\ held' = {}
        /\ channels' = channels \cup {ch}
        /\ callbacks' = [callbacks EXCEPT ![ch] = @ \cup {c}]
        /\ UNCHANGED <<redisChannels, listener, retries, running, pubsubOpen,
                       failedSubscribe, failedUnsubscribe>>
    BY <1>2
  <2>2. TypeOK' /\ LockExclusive' /\ CallsInStep' /\ RetriesLeft'
    BY <2>1 DEF TypeOK, LockExclusive, CallsInStep, RetriesLeft
  <2>3. CallbacksRegistered'
    BY <2>1 DEF CallbacksRegistered, TypeOK
  <2>4. FeedAccounted'
    BY <1>2, <2>1 DEF FeedAccounted, Opening
  <2>5. OrphanAccounted'
    BY <2>1 DEF OrphanAccounted, Closing
  <2>6. IdleAccounted'
    BY <2>1 DEF IdleAccounted, Opening, Emptied, TypeOK
  <2> QED BY <2>2, <2>3, <2>4, <2>5, <2>6
<1> QED BY <1>1, <1>2

(***************************************************************************)
(* The SUBSCRIBE that went through pays what the suspended call owed to    *)
(* its channel.                                                            *)
(***************************************************************************)
LEMMA SubscribeDoneStep ==
  ASSUME RegistryInv, NEW call \in held, SubscribeDone(call)
  PROVE  RegistryInv'
<1> USE RetriesAssumption DEF RegistryInv, SubscribeDone, lifeVars
<1>1. held = {call} /\ held' = {} /\ call \in Call
  BY OnlyCall
<1>2. call.ch \in channels
  BY DEF CallsInStep
<1>3. TypeOK'
  BY <1>1 DEF TypeOK, ListenerState, Call
<1>4. LockExclusive' /\ CallsInStep' /\ RetriesLeft'
  BY <1>1 DEF LockExclusive, CallsInStep, RetriesLeft
<1>5. CallbacksRegistered'
  BY <1>1, <1>2 DEF CallbacksRegistered, TypeOK, Call
<1>6. FeedAccounted'
  BY <1>1 DEF FeedAccounted, Opening
<1>7. OrphanAccounted'
  BY <1>1, <1>2 DEF OrphanAccounted, Closing
<1>8. IdleAccounted'
  BY <1>1 DEF IdleAccounted, Opening, Emptied, CallsInStep, TypeOK, Call
<1> QED BY <1>3, <1>4, <1>5, <1>6, <1>7, <1>8

(***************************************************************************)
(* A SUBSCRIBE that raised leaves a known channel without a feed, which    *)
(* failedSubscribe records.                                                *)
(***************************************************************************)
LEMMA SubscribeRaisesStep ==
  ASSUME RegistryInv, NEW call \in held, SubscribeRaises(call)
  PROVE  RegistryInv'
<1> USE DEF RegistryInv, SubscribeRaises, listenerVars, lifeVars
<1>1. held = {call} /\ held' = {} /\ call \in Call
  BY OnlyCall
<1>2. TypeOK'
  BY <1>1 DEF TypeOK, Call, ListenerState
<1>3. LockExclusive' /\ CallbacksRegistered' /\ CallsInStep' /\ RetriesLeft'
  BY <1>1 DEF LockExclusive, CallbacksRegistered, CallsInStep, RetriesLeft
<1>4. FeedAccounted' /\ OrphanAccounted'
  BY <1>1 DEF FeedAccounted, OrphanAccounted, Opening, Closing
<1>5. IdleAccounted'
  BY <1>1 DEF IdleAccounted, Opening, Emptied, CallsInStep
<1> QED BY <1>2, <1>3, <1>4, <1>5

(***************************************************************************)
(* unsubscribe up to its first suspension keeps the inductive invariant:   *)
(* the last callback takes the key with it.                                *)
(***************************************************************************)
LEMMA UnsubscribeStep ==
  ASSUME RegistryInv, NEW c \in Client, NEW ch \in Channel, Unsubscribe(c, ch)
  PROVE  RegistryInv'
<1> USE RetriesAssumption DEF RegistryInv, Unsubscribe, Suspend, Unlocked,
        listenerVars, lifeVars, historyVars
<1> DEFINE last == ch \in channels /\ callbacks[ch] \subseteq {c}
           call == [op |-> "unsubscribe", client |-> c, ch |-> ch, rest |-> {}]
<1>1. /\ held = {}
      /\ callbacks' = [callbacks EXCEPT ![ch] = @ \ {c}]
      /\ channels' = IF last THEN channels \ {ch} ELSE channels
      /\ held' = IF last /\ pubsubOpen THEN {call} ELSE {}
      /\ UNCHANGED <<redisChannels, listener, retries, running, pubsubOpen,
                     failedSubscribe, failedUnsubscribe>>
  OBVIOUS
<1>2. call \in Call
  BY DEF Call
<1>3. TypeOK' /\ LockExclusive' /\ RetriesLeft'
  BY <1>1, <1>2 DEF TypeOK, LockExclusive, RetriesLeft
<1>4. CallbacksRegistered'
  BY <1>1 DEF CallbacksRegistered, TypeOK
<1>5. CallsInStep'
  BY <1>1 DEF CallsInStep
<1>6. FeedAccounted'
  BY <1>1 DEF FeedAccounted, Opening
<1>7. OrphanAccounted'
  <2>1. last /\ pubsubOpen => Closing(ch)'
    BY <1>1 DEF Closing
  <2>2. ~pubsubOpen => redisChannels = {}
    BY DEF OrphanAccounted
  <2> QED BY <1>1, <2>1, <2>2 DEF OrphanAccounted, Closing
<1>8. IdleAccounted'
  BY <1>1 DEF IdleAccounted, Opening, Emptied, TypeOK
<1> QED BY <1>3, <1>4, <1>5, <1>6, <1>7, <1>8

(***************************************************************************)
(* The UNSUBSCRIBE that went through ends the feed of a channel that is no *)
(* longer known.                                                           *)
(***************************************************************************)
LEMMA UnsubscribeDoneStep ==
  ASSUME RegistryInv, NEW call \in held, UnsubscribeDone(call)
  PROVE  RegistryInv'
<1> USE DEF RegistryInv, UnsubscribeDone, listenerVars, lifeVars
<1>1. held = {call} /\ held' = {} /\ call \in Call
  BY OnlyCall
<1>2. TypeOK'
  BY <1>1 DEF TypeOK, Call
<1>3. LockExclusive' /\ CallbacksRegistered' /\ CallsInStep' /\ RetriesLeft'
  BY <1>1 DEF LockExclusive, CallbacksRegistered, CallsInStep, RetriesLeft
<1>4. FeedAccounted'
  BY <1>1 DEF FeedAccounted, Opening, CallsInStep
<1>5. OrphanAccounted'
  BY <1>1 DEF OrphanAccounted, Closing
<1>6. IdleAccounted'
  BY <1>1 DEF IdleAccounted, Opening, Emptied, CallsInStep
<1> QED BY <1>2, <1>3, <1>4, <1>5, <1>6

(***************************************************************************)
(* unsubscribe_client up to its first suspension: the channels it has      *)
(* emptied but not deleted are in the call's rest.                         *)
(***************************************************************************)
LEMMA UnsubscribeClientStep ==
  ASSUME RegistryInv, NEW c \in Client, UnsubscribeClient(c)
  PROVE  RegistryInv'
<1> USE DEF RegistryInv, UnsubscribeClient, Suspend, Unlocked, listenerVars,
        lifeVars, historyVars
<1> DEFINE emptied == {ch \in channels : callbacks[ch] = {c}}
<1>1. /\ held = {}
      /\ callbacks' = [ch \in Channel |-> callbacks[ch] \ {c}]
      /\ UNCHANGED <<redisChannels, listener, retries, running, pubsubOpen,
                     failedSubscribe, failedUnsubscribe>>
  OBVIOUS
<1>2. \A ch \in channels : ch \notin emptied => callbacks'[ch] # {} \/ callbacks[ch] = {}
  BY <1>1 DEF TypeOK
<1>3. CASE (emptied = {} \/ ~pubsubOpen) /\ channels' = channels \ emptied /\ held' = {}
  <2>1. TypeOK' /\ LockExclusive' /\ CallsInStep' /\ RetriesLeft'
    BY <1>1, <1>3 DEF TypeOK, LockExclusive, CallsInStep, RetriesLeft
  <2>2. CallbacksRegistered'
    BY <1>1, <1>3 DEF CallbacksRegistered, TypeOK
  <2>3. FeedAccounted'
    BY <1>1, <1>3 DEF FeedAccounted, Opening
  <2>4. OrphanAccounted'
    BY <1>1, <1>3 DEF OrphanAccounted, Closing
  <2>5. IdleAccounted'
    BY <1>1, <1>2, <1>3 DEF IdleAccounted, Opening, Emptied
  <2> QED BY <2>1, <2>2, <2>3, <2>4, <2>5
<1>4. ASSUME pubsubOpen, NEW ch \in emptied, channels' = channels \ {ch},
             held' = held \cup {[op |-> "leave", client |-> c, ch |-> ch,
                                 rest |-> emptied \ {ch}]}
      PROVE  RegistryInv'
  <2> DEFINE call == [op |-> "leave", client |-> c, ch |-> ch,
                      rest |-> emptied \ {ch}]
  <2>1. held' = {call} /\ call \in Call
    BY <1>1, <1>4 DEF Call, TypeOK
  <2>2. \A r \in emptied \ {ch} : Emptied(r)'
    BY <2>1 DEF Emptied
  <2>3. Closing(ch)'
    BY <2>1 DEF Closing
  <2>4. TypeOK' /\ LockExclusive' /\ RetriesLeft'
    BY <1>1, <1>4, <2>1 DEF TypeOK, LockExclusive, RetriesLeft
  <2>5. CallbacksRegistered'
    BY <1>1, <1>4 DEF CallbacksRegistered, TypeOK
  <2>6. CallsInStep'
    BY <1>1, <1>4, <2>1 DEF CallsInStep, TypeOK
  <2>7. FeedAccounted'
    BY <1>1, <1>4 DEF FeedAccounted, Opening
  <2>8. OrphanAccounted'
    BY <1>1, <1>4, <2>3 DEF OrphanAccounted, Closing
  <2>9. IdleAccounted'
    BY <1>1, <1>2, <1>4, <2>2 DEF IdleAccounted, Opening, Emptied
  <2> QED BY <2>4, <2>5, <2>6, <2>7, <2>8, <2>9
<1> QED BY <1>1, <1>3, <1>4

(***************************************************************************)
(* Each further UNSUBSCRIBE of unsubscribe_client deletes one of the       *)
(* channels left in rest.                                                  *)
(***************************************************************************)
LEMMA UnsubscribeClientNextStep ==
  ASSUME RegistryInv, NEW call \in held, UnsubscribeClientNext(call)
  PROVE  RegistryInv'
<1> USE DEF RegistryInv, UnsubscribeClientNext, listenerVars, lifeVars
<1>1. held = {call} /\ call \in Call
  BY OnlyCall
<1>2. /\ call.op = "leave"
      /\ redisChannels' = redisChannels \ {call.ch}
      /\ failedUnsubscribe' = failedUnsubscribe \ {call.ch}
      /\ UNCHANGED <<callbacks, listener, retries, running, pubsubOpen,
                     failedSubscribe>>
  OBVIOUS
<1>3. call.ch \notin channels /\ \A ch \in call.rest : callbacks[ch] = {}
  BY <1>2 DEF CallsInStep
<1>4. CASE call.rest = {} /\ held' = held \ {call} /\ UNCHANGED channels
  <2>1. held' = {}
    BY <1>1, <1>4
  <2>2. TypeOK'
    BY <1>2, <1>4, <2>1 DEF TypeOK
  <2>3. LockExclusive' /\ CallbacksRegistered' /\ CallsInStep' /\ RetriesLeft'
    BY <1>2, <1>4, <2>1
    DEF LockExclusive, CallbacksRegistered, CallsInStep, RetriesLeft
  <2>4. FeedAccounted'
    BY <1>1, <1>2, <1>3, <1>4 DEF FeedAccounted, Opening
  <2>5. OrphanAccounted'
    BY <1>1, <1>2, <1>4, <2>1 DEF OrphanAccounted, Closing
  <2>6. IdleAccounted'
    BY <1>1, <1>2, <1>3, <1>4, <2>1 DEF IdleAccounted, Opening, Emptied
  <2> QED BY <2>2, <2>3, <2>4, <2>5, <2>6
<1>5. ASSUME NEW ch \in call.rest \cap channels, channels' = channels \ {ch},
             held' = (held \ {call}) \cup
                       {[op |-> "leave", client |-> call.client, ch |-> ch,
                         rest |-> call.rest \ {ch}]}
      PROVE  RegistryInv'
  <2> DEFINE next == [op |-> "leave", client |-> call.client, ch |-> ch,
                      rest |-> call.rest \ {ch}]
  <2>1. /\ held' = {next} /\ next \in Call /\ next.op = "leave"
        /\ next.ch = ch /\ next.rest = call.rest \ {ch}
    BY <1>1, <1>2, <1>5 DEF Call, TypeOK
  <2> HIDE DEF next
  <2>2. \A r \in call.rest \ {ch} : Emptied(r)'
    BY <2>1 DEF Emptied
  <2>3. Closing(ch)'
    BY <2>1 DEF Closing
  <2>4. TypeOK'
    BY <1>2, <1>5, <2>1 DEF TypeOK
  <2>5. LockExclusive' /\ CallbacksRegistered' /\ RetriesLeft'
    BY <1>2, <1>3, <1>5, <2>1
    DEF LockExclusive, CallbacksRegistered, RetriesLeft, TypeOK
  <2>6. CallsInStep'
    BY <1>2, <1>3, <1>5, <2>1 DEF CallsInStep
  <2>7. FeedAccounted'
    <3>1. ASSUME pubsubOpen, NEW d \in channels'
          PROVE  d \in redisChannels' \/ d \in failedSubscribe
      <4>1. d \in channels /\ d # call.ch
        BY <1>3, <1>5
      <4>2. ~Opening(d)
        BY <1>1, <1>2 DEF Opening
      <4> QED BY <1>2, <3>1, <4>1, <4>2 DEF FeedAccounted
    <3> QED BY <1>2, <3>1 DEF FeedAccounted
  <2>8. OrphanAccounted'
    <3>1. ASSUME NEW d \in redisChannels'
          PROVE  d \in channels' \/ d \in failedUnsubscribe' \/ d = ch
      <4>1. d \in redisChannels /\ d # call.ch
        BY <1>2
      <4>2. ~Closing(d)
        BY <1>1, <4>1 DEF Closing
      <4> QED BY <1>2, <1>5, <4>1, <4>2 DEF OrphanAccounted
    <3>2. ~pubsubOpen' => redisChannels' = {}
      BY <1>2 DEF OrphanAccounted
    <3> QED BY <2>3, <3>1, <3>2 DEF OrphanAccounted
  <2>9. IdleAccounted'
    BY <1>1, <1>2, <1>3, <1>5, <2>2 DEF IdleAccounted, Opening, Emptied
  <2> QED BY <2>4, <2>5, <2>6, <2>7, <2>8, <2>9
<1> QED BY <1>4, <1>5

(***************************************************************************)
(* An UNSUBSCRIBE that raised leaves a feed, or emptied channels, that     *)
(* failedUnsubscribe records.                                              *)
(***************************************************************************)
LEMMA UnsubscribeRaisesStep ==
  ASSUME RegistryInv, NEW call \in held, UnsubscribeRaises(call)
  PROVE  RegistryInv'
<1> USE DEF RegistryInv, UnsubscribeRaises, listenerVars, lifeVars
<1>1. held = {call} /\ held' = {} /\ call \in Call
  BY OnlyCall
<1>2. TypeOK'
  BY <1>1 DEF TypeOK, Call
<1>3. LockExclusive' /\ CallbacksRegistered' /\ CallsInStep' /\ RetriesLeft'
  BY <1>1 DEF LockExclusive, CallbacksRegistered, CallsInStep, RetriesLeft
<1>4. FeedAccounted'
  BY <1>1 DEF FeedAccounted, Opening
<1>5. OrphanAccounted'
  BY <1>1 DEF OrphanAccounted, Closing
<1>6. IdleAccounted'
  BY <1>1 DEF IdleAccounted, Opening, Emptied
<1> QED BY <1>2, <1>3, <1>4, <1>5, <1>6

-----------------------------------------------------------------------------
(***************************************************************************)
(* The listener and stop() never touch a call that holds the lock.         *)
(***************************************************************************)
LEMMA ListenerStep ==
  ASSUME RegistryInv, Listener
  PROVE  RegistryInv'
<1> USE DEF RegistryInv, registryVars, lifeVars, historyVars
<1>1. /\ UNCHANGED <<channels, callbacks, redisChannels, held, running,
                     pubsubOpen, failedSubscribe, failedUnsubscribe>>
      /\ listener \in {"listening", "paused"}
      /\ \/ retries' = retries /\ listener' \in {"listening", "paused", "spinning"}
         \/ /\ retries' = retries + 1
            /\ listener' = IF retries' >= LISTENER_MAX_RETRIES
                           THEN "degraded" ELSE "paused"
  BY DEF Listener, ListenEnds, ListenerRedisError, ListenerError, ListenerResumes
<1>2. retries \in Nat /\ retries < LISTENER_MAX_RETRIES
  BY <1>1, RetriesAssumption DEF RetriesLeft, TypeOK
<1>3. retries' \in 0..LISTENER_MAX_RETRIES /\ RetriesLeft'
  BY <1>1, <1>2, RetriesAssumption DEF RetriesLeft
<1>4. listener' \in ListenerState
  BY <1>1 DEF ListenerState
<1>5. TypeOK'
  BY <1>1, <1>3, <1>4 DEF TypeOK
<1>6. LockExclusive' /\ CallbacksRegistered' /\ CallsInStep'
  BY <1>1 DEF LockExclusive, CallbacksRegistered, CallsInStep
<1>7. FeedAccounted' /\ OrphanAccounted' /\ IdleAccounted'
  BY <1>1 DEF FeedAccounted, OrphanAccounted, IdleAccounted, Opening, Closing,
              Emptied
<1> QED BY <1>3, <1>5, <1>6, <1>7

(***************************************************************************)
(* stop() clears the dict and the connection together, whoever holds the   *)
(* lock.                                                                   *)
(***************************************************************************)
LEMMA StopStep ==
  ASSUME RegistryInv, Stop \/ StopClosed
  PROVE  RegistryInv'
<1> USE DEF RegistryInv, registryVars, listenerVars, historyVars
<1>1. CASE Stop
  <2>1. TypeOK'
    BY <1>1 DEF Stop, TypeOK, ListenerState
  <2>2. LockExclusive' /\ CallbacksRegistered' /\ CallsInStep' /\ RetriesLeft'
    BY <1>1
    DEF Stop, LockExclusive, CallbacksRegistered, CallsInStep, RetriesLeft
  <2>3. FeedAccounted' /\ OrphanAccounted' /\ IdleAccounted'
    BY <1>1 DEF Stop, FeedAccounted, OrphanAccounted, IdleAccounted, Opening,
                Closing, Emptied
  <2> QED BY <2>1, <2>2, <2>3
<1>2. CASE StopClosed
  <2>1. TypeOK' /\ LockExclusive' /\ CallbacksRegistered' /\ RetriesLeft'
    BY <1>2
    DEF StopClosed, TypeOK, LockExclusive, CallbacksRegistered, RetriesLeft
  <2>2. CallsInStep'
    BY <1>2 DEF StopClosed, CallsInStep, TypeOK, Call
  <2>3. FeedAccounted' /\ OrphanAccounted' /\ IdleAccounted'
    BY <1>2 DEF StopClosed, FeedAccounted, OrphanAccounted, IdleAccounted
  <2> QED BY <2>1, <2>2, <2>3
<1> QED BY <1>1, <1>2

-----------------------------------------------------------------------------
(***************************************************************************)
(* RegistryInv is inductive.                                               *)
(***************************************************************************)
LEMMA NextRegistry == RegistryInv /\ [Next]_vars => RegistryInv'
<1> SUFFICES ASSUME RegistryInv, [Next]_vars PROVE RegistryInv'
  OBVIOUS
<1>1. CASE Operation
  BY <1>1, SubscribeStep, UnsubscribeStep, UnsubscribeClientStep DEF Operation
<1>2. CASE Resumption
  BY <1>2, SubscribeDoneStep, SubscribeRaisesStep, UnsubscribeDoneStep,
     UnsubscribeClientNextStep, UnsubscribeRaisesStep DEF Resumption
<1>3. CASE Listener
  BY <1>3, ListenerStep
<1>4. CASE Stop \/ StopClosed
  BY <1>4, StopStep
<1>5. CASE UNCHANGED vars
  BY <1>5 DEF RegistryInv, vars, registryVars, listenerVars, lifeVars,
     historyVars, TypeOK, LockExclusive, CallbacksRegistered, CallsInStep,
     RetriesLeft, FeedAccounted, OrphanAccounted, IdleAccounted, Opening,
     Closing, Emptied
<1> QED BY <1>1, <1>2, <1>3, <1>4, <1>5 DEF Next, Spin

(***************************************************************************)
(* In every state of pubsub.py, the holder of the lock accounts for every  *)
(* difference between the dict, the callbacks and the Redis connection.    *)
(***************************************************************************)
THEOREM RegistryInvariant == Spec => []RegistryInv
<1>1. Init => RegistryInv
  BY InitRegistry
<1>2. RegistryInv /\ [Next]_vars => RegistryInv'
  BY NextRegistry
<1> QED BY <1>1, <1>2, PTL DEF Spec

(***************************************************************************)
(* Type correctness of the manager's state.                                *)
(***************************************************************************)
THEOREM TypeCorrect == Spec => []TypeOK
<1>1. RegistryInv => TypeOK
  BY DEF RegistryInv
<1> QED BY <1>1, RegistryInvariant, PTL

(***************************************************************************)
(* Whenever subscribe may join a known channel without a SUBSCRIBE, Redis  *)
(* feeds the channel or its last SUBSCRIBE raised.                         *)
(***************************************************************************)
THEOREM KnownChannelsAreFed == Spec => []FedUnlessFailed
<1>1. RegistryInv => FedUnlessFailed
  BY DEF RegistryInv, FeedAccounted, FedUnlessFailed, Unlocked, Opening
<1> QED BY <1>1, RegistryInvariant, PTL

(***************************************************************************)
(* Redis sends nothing for a forgotten channel unless an UNSUBSCRIBE       *)
(* raised.                                                                 *)
(***************************************************************************)
THEOREM ForgottenChannelsAreSilent == Spec => []NoOrphanFeed
<1>1. RegistryInv => NoOrphanFeed
  BY DEF RegistryInv, OrphanAccounted, NoOrphanFeed, Unlocked, Closing
<1> QED BY <1>1, RegistryInvariant, PTL

(***************************************************************************)
(* Once the last client of a channel has left, the dict forgets the        *)
(* channel unless an error cut the call short.                             *)
(***************************************************************************)
THEOREM IdleChannelsAreForgotten == Spec => []NoIdleChannel
<1>1. RegistryInv => NoIdleChannel
  BY DEF RegistryInv, IdleAccounted, NoIdleChannel, Unlocked, Opening, Emptied
<1> QED BY <1>1, RegistryInvariant, PTL

-----------------------------------------------------------------------------
(***************************************************************************)
(* The manager implements Feeds                                            *)
(***************************************************************************)

(***************************************************************************)
(* While a SUBSCRIBE is sent the channel has no client: only the first     *)
(* client of a channel waits for Redis.                                    *)
(***************************************************************************)
OpeningIsEmpty ==
  \A call \in held : call.op = "subscribe" => callbacks[call.ch] = {}

(***************************************************************************)
(* A step keeps OpeningIsEmpty: nobody joins while the lock is held.       *)
(***************************************************************************)
LEMMA NextOpening ==
  ASSUME RegistryInv, OpeningIsEmpty, [Next]_vars
  PROVE  OpeningIsEmpty'
<1> USE DEF OpeningIsEmpty, registryVars, listenerVars, lifeVars, historyVars
<1>1. CASE Operation
  <2>1. PICK c \in Client : \/ \E ch \in Channel : Subscribe(c, ch) \/ Unsubscribe(c, ch)
                           \/ UnsubscribeClient(c)
    BY <1>1 DEF Operation
  <2>2. ASSUME NEW ch \in Channel, Subscribe(c, ch)
        PROVE  OpeningIsEmpty'
    BY <2>2 DEF Subscribe, Suspend, Unlocked, RegistryInv, CallbacksRegistered, TypeOK
  <2>3. ASSUME NEW ch \in Channel, Unsubscribe(c, ch)
        PROVE  OpeningIsEmpty'
    BY <2>3 DEF Unsubscribe, Suspend, Unlocked
  <2>4. CASE UnsubscribeClient(c)
    BY <2>4 DEF UnsubscribeClient, Suspend, Unlocked
  <2> QED BY <2>1, <2>2, <2>3, <2>4
<1>2. CASE Resumption
  <2>1. PICK call \in held : \/ SubscribeDone(call) \/ SubscribeRaises(call)
                           \/ UnsubscribeDone(call)
                           \/ UnsubscribeClientNext(call)
                           \/ UnsubscribeRaises(call)
    BY <1>2 DEF Resumption
  <2>2. held = {call}
    BY OnlyCall
  <2>3. CASE UnsubscribeClientNext(call)
    BY <2>2, <2>3 DEF UnsubscribeClientNext
  <2>4. CASE ~UnsubscribeClientNext(call)
    <3>1. held' = {}
      BY <2>1, <2>2, <2>4 DEF SubscribeDone, SubscribeRaises, UnsubscribeDone,
         UnsubscribeRaises
    <3> QED BY <3>1
  <2> QED BY <2>3, <2>4
<1>3. CASE Listener
  BY <1>3 DEF Listener, ListenEnds, ListenerRedisError, ListenerError, ListenerResumes
<1>4. CASE Stop
  BY <1>4 DEF Stop
<1>5. CASE StopClosed
  <2>1. \A call \in held : call.ch \in Channel
    BY DEF RegistryInv, TypeOK, Call
  <2> QED BY <1>5, <2>1 DEF StopClosed
<1>6. CASE UNCHANGED vars
  BY <1>6 DEF vars
<1> QED BY <1>1, <1>2, <1>3, <1>4, <1>5, <1>6 DEF Next, Spin

(***************************************************************************)
(* A call that begins is a join or a quit of Feeds, or waits for Redis and *)
(* cannot be seen yet.                                                     *)
(***************************************************************************)
LEMMA OperationImplements ==
  ASSUME RegistryInv, Operation
  PROVE  [F!Next]_F!vars
<1> USE DEF F!vars, listenerVars, lifeVars, historyVars
<1>1. PICK c \in Client : \/ \E ch \in Channel : Subscribe(c, ch) \/ Unsubscribe(c, ch)
                         \/ UnsubscribeClient(c)
  BY DEF Operation
<1>2. ASSUME NEW ch \in Channel, Subscribe(c, ch)
      PROVE  [F!Next]_F!vars
  <2>1. CASE ch \notin channels /\ pubsubOpen
    BY <1>2, <2>1 DEF Subscribe
  <2>2. CASE ~(ch \notin channels /\ pubsubOpen)
    <3>1. pubsubOpen => ch \in redisChannels \cup failedSubscribe
      BY <1>2, <2>2 DEF Subscribe, Unlocked, RegistryInv, FeedAccounted, Opening
    <3>2. F!Join(c, ch)
      BY <1>2, <2>2, <3>1 DEF Subscribe, F!Join
    <3> QED BY <3>2 DEF F!Next
  <2> QED BY <2>1, <2>2
<1>3. ASSUME NEW ch \in Channel, Unsubscribe(c, ch)
      PROVE  [F!Next]_F!vars
  <2>1. F!Quit(c, ch)
    BY <1>3 DEF Unsubscribe, F!Quit
  <2> QED BY <2>1 DEF F!Next
<1>4. CASE UnsubscribeClient(c)
  <2>1. F!QuitAll(c)
    BY <1>4 DEF UnsubscribeClient, F!QuitAll
  <2> QED BY <2>1 DEF F!Next
<1> QED BY <1>1, <1>2, <1>3, <1>4

(***************************************************************************)
(* A call that goes on does, for the one channel it has asked Redis about, *)
(* what Feeds does in one step; no other call has come in between.         *)
(***************************************************************************)
LEMMA ResumptionImplements ==
  ASSUME RegistryInv, OpeningIsEmpty, Resumption
  PROVE  [F!Next]_F!vars
<1> USE DEF F!vars, listenerVars, lifeVars
<1>1. PICK call \in held : \/ SubscribeDone(call) \/ SubscribeRaises(call)
                         \/ UnsubscribeDone(call)
                         \/ UnsubscribeClientNext(call)
                         \/ UnsubscribeRaises(call)
  BY DEF Resumption
<1>2. call.client \in Client /\ call.ch \in Channel
  BY OnlyCall DEF Call
<1>3. CASE SubscribeDone(call)
  <2>1. callbacks[call.ch] = {}
    BY <1>3 DEF SubscribeDone, OpeningIsEmpty
  <2>2. F!JoinFirst(call.client, call.ch)
    BY <1>3, <2>1 DEF SubscribeDone, F!JoinFirst
  <2> QED BY <1>2, <2>2 DEF F!Next
<1>4. CASE SubscribeRaises(call)
  <2>1. F!JoinRaises(call.ch)
    BY <1>4 DEF SubscribeRaises, OpeningIsEmpty, F!JoinRaises
  <2> QED BY <1>2, <2>1 DEF F!Next
<1>5. CASE UnsubscribeDone(call) \/ UnsubscribeClientNext(call)
  <2>1. callbacks[call.ch] = {}
    BY <1>2, <1>5 DEF RegistryInv, CallsInStep, CallbacksRegistered,
       UnsubscribeDone, UnsubscribeClientNext
  <2>2. F!Drop(call.ch)
    BY <1>5, <2>1 DEF UnsubscribeDone, UnsubscribeClientNext, F!Drop
  <2> QED BY <1>2, <2>2 DEF F!Next
<1>6. CASE UnsubscribeRaises(call)
  BY <1>6 DEF UnsubscribeRaises
<1> QED BY <1>1, <1>3, <1>4, <1>5, <1>6

(***************************************************************************)
(* Every step of the manager is a step of Feeds or cannot be seen there.   *)
(***************************************************************************)
LEMMA NextImplements ==
  ASSUME RegistryInv, OpeningIsEmpty, [Next]_vars
  PROVE  [F!Next]_F!vars
<1>1. CASE Operation
  BY <1>1, OperationImplements
<1>2. CASE Resumption
  BY <1>2, ResumptionImplements
<1>3. CASE Listener
  BY <1>3 DEF Listener, ListenEnds, ListenerRedisError, ListenerError,
     ListenerResumes, F!vars, registryVars, lifeVars, historyVars
<1>4. CASE Stop
  BY <1>4 DEF Stop, F!vars, registryVars, historyVars
<1>5. CASE StopClosed
  <2>1. F!Close
    BY <1>5 DEF StopClosed, historyVars, F!Close
  <2> QED BY <2>1 DEF F!Next
<1>6. CASE UNCHANGED vars
  BY <1>6 DEF vars, registryVars, listenerVars, lifeVars, historyVars, F!vars
<1> QED BY <1>1, <1>2, <1>3, <1>4, <1>5, <1>6 DEF Next, Spin

(***************************************************************************)
(* The lock, the suspended calls and the listener cannot be told from      *)
(* outside: to the handlers the manager is Feeds.                          *)
(***************************************************************************)
THEOREM FeedsAreImplemented == Spec => ImplementsFeeds
<1>1. Init => F!Init /\ OpeningIsEmpty
  BY DEF Init, F!Init, OpeningIsEmpty
<1>2. RegistryInv /\ OpeningIsEmpty /\ [Next]_vars => OpeningIsEmpty' /\ [F!Next]_F!vars
  BY NextOpening, NextImplements
<1> QED BY <1>1, <1>2, RegistryInvariant, PTL DEF Spec, ImplementsFeeds, F!Spec

(***************************************************************************)
(* What Feeds promises: a channel with a client is fed unless its          *)
(* SUBSCRIBE raised.                                                       *)
(***************************************************************************)
LEMMA FeedsAreHeard == F!Spec => []F!Heard
<1> USE DEF F!Heard
<1>1. F!Init => F!Heard
  BY DEF F!Init
<1>2. ASSUME F!Heard, [F!Next]_F!vars
      PROVE  F!Heard'
  <2>1. CASE UNCHANGED F!vars
    BY <1>2, <2>1 DEF F!vars
  <2>2. ASSUME NEW c \in Client, NEW ch \in Channel, F!Join(c, ch)
        PROVE  F!Heard'
    BY <1>2, <2>2 DEF F!Join
  <2>3. ASSUME NEW c \in Client, NEW ch \in Channel, F!JoinFirst(c, ch)
        PROVE  F!Heard'
    BY <1>2, <2>3 DEF F!JoinFirst
  <2>4. ASSUME NEW c \in Client, NEW ch \in Channel, F!Quit(c, ch)
        PROVE  F!Heard'
    BY <1>2, <2>4 DEF F!Quit
  <2>5. ASSUME NEW c \in Client, F!QuitAll(c)
        PROVE  F!Heard'
    BY <1>2, <2>5 DEF F!QuitAll
  <2>6. ASSUME NEW ch \in Channel, F!JoinRaises(ch) \/ F!Drop(ch)
        PROVE  F!Heard'
    BY <1>2, <2>6 DEF F!JoinRaises, F!Drop
  <2>7. CASE F!Close
    BY <2>7 DEF F!Close
  <2> QED BY <1>2, <2>1, <2>2, <2>3, <2>4, <2>5, <2>6, <2>7 DEF F!Next
<1> QED BY <1>1, <1>2, PTL DEF F!Spec

(***************************************************************************)
(* So it holds of the manager, whatever calls are under way: a client that *)
(* has joined hears the channel, unless the SUBSCRIBE raised.              *)
(***************************************************************************)
THEOREM ClientsAreHeard == Spec => []F!Heard
BY FeedsAreImplemented, FeedsAreHeard, PTL DEF ImplementsFeeds

(***************************************************************************)
(* Only Drop and Close end a feed, and they leave no client on the         *)
(* channel.                                                                *)
(***************************************************************************)
LEMMA FeedsAreKept == F!Spec => F!FeedKept
<1> DEFINE A == \A ch \in Channel :
                  ch \in redisChannels /\ callbacks[ch] \cap callbacks'[ch] # {}
                    => ch \in redisChannels'
<1>1. ASSUME F!Next
      PROVE  A
  BY <1>1 DEF F!Next, F!Join, F!JoinFirst, F!JoinRaises, F!Quit, F!QuitAll, F!Drop, F!Close
<1>2. [F!Next]_F!vars => [A]_F!vars
  BY <1>1
<1> QED BY <1>2, PTL DEF F!Spec, F!FeedKept

(***************************************************************************)
(* No step of the manager, of whatever call, takes Redis's feed from a     *)
(* channel some client keeps.                                              *)
(***************************************************************************)
THEOREM FeedIsKept == Spec => F!FeedKept
BY FeedsAreImplemented, FeedsAreKept, PTL DEF ImplementsFeeds

=============================================================================
