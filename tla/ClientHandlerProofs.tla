------------------------- MODULE ClientHandlerProofs -------------------------
(***************************************************************************)
(* Proofs about ClientHandler, for any clients, streams, channels, limits  *)
(* and number of errors, whether accept() suspends or not.                 *)
(***************************************************************************)
EXTENDS ClientHandler, FiniteSetTheorems, TLAPS

(***************************************************************************)
(* What HandlerInv says of one client.                                     *)
(***************************************************************************)
ClientOK(c) ==
  /\ handler[c].at \notin {"new", "accepting", "gone"} => c \in clients
  /\ IF handler[c].at \in Away \cup {"leaving"}
     THEN keys[c] = {} ELSE tracked[c] = keys[c]
  /\ Cardinality(Wanted(c)) <= MAX_SUBSCRIPTIONS_PER_CLIENT
  /\ handler[c].at \in Adding => handler[c].stream \in Stream \ keys[c]
  /\ handler[c].at \in {"unregistering", "releasing"}
       => handler[c].stream \in keys[c]
  /\ At(c, "cleaning") => handler[c].todo \subseteq keys[c]
  /\ \A ch \in Channel : c \in callbacks[ch] => handler[c].at \notin Away

(***************************************************************************)
(* A step of the handler of c leaves the other clients what they have.     *)
(***************************************************************************)
Local(c) ==
  \A d \in Client \ {c} :
    /\ handler'[d] = handler[d]
    /\ keys'[d] = keys[d]
    /\ tracked'[d] = tracked[d]
    /\ d \in clients => d \in clients'
    /\ \A ch \in Channel : d \in callbacks'[ch] => d \in callbacks[ch]

(***************************************************************************)
(* The invariant is the sum of what it says of each client.                *)
(***************************************************************************)
LEMMA ByClient == HandlerInv <=> TypeOK /\ \A c \in Client : ClientOK(c)
  BY DEF HandlerInv, ClientOK, ServedIsRegistered, KeysTracked, WithinLimit,
         StreamInHand, AwayIsSilent

(***************************************************************************)
(* The same of the next state.                                             *)
(***************************************************************************)
LEMMA ByClientNext == HandlerInv' <=> TypeOK' /\ \A c \in Client : ClientOK(c)'
  BY DEF HandlerInv, ClientOK, ServedIsRegistered, KeysTracked, WithinLimit,
         StreamInHand, AwayIsSilent

(***************************************************************************)
(* So a local step keeps the invariant if it keeps it for its own client.  *)
(***************************************************************************)
LEMMA OneClient ==
  ASSUME HandlerInv, TypeOK', NEW c \in Client, Local(c), ClientOK(c)'
  PROVE  HandlerInv'
<1> SUFFICES ASSUME NEW d \in Client \ {c} PROVE ClientOK(d)'
  BY ByClientNext
<1>1. ClientOK(d)
  BY ByClient
<1>2. Wanted(d)' = Wanted(d)
  BY DEF Local, Wanted
<1> QED BY <1>1, <1>2 DEF Local, ClientOK, At

(***************************************************************************)
(* A client that wants less stays within the limit.                        *)
(***************************************************************************)
LEMMA WantsLess ==
  ASSUME NEW S \in SUBSET Stream, NEW T \in SUBSET S,
         Cardinality(S) <= MAX_SUBSCRIPTIONS_PER_CLIENT
  PROVE  Cardinality(T) <= MAX_SUBSCRIPTIONS_PER_CLIENT
<1>1. IsFiniteSet(S)
  BY ClientAssumption, FS_Subset
<1>2. IsFiniteSet(T) /\ Cardinality(T) <= Cardinality(S)
  BY <1>1, FS_Subset
<1> QED BY <1>1, <1>2, FS_CardinalityType, LimitsAssumption

-----------------------------------------------------------------------------
(***************************************************************************)
(* No client, no channel, no callback: the invariant holds at the start.   *)
(***************************************************************************)
LEMMA InitHandlers == Init => HandlerInv
<1> SUFFICES ASSUME Init PROVE HandlerInv
  OBVIOUS
<1>1. TypeOK
  BY ErrorsAssumption DEF Init, TypeOK, Place
<1>2. ASSUME NEW c \in Client PROVE ClientOK(c)
  <2>1. handler[c] = [at |-> "new", stream |-> NoStream, todo |-> {}] /\ keys[c] = {}
    BY DEF Init
  <2>2. Wanted(c) = {}
    BY <2>1 DEF Wanted, Adding
  <2>3. Cardinality(Wanted(c)) <= MAX_SUBSCRIPTIONS_PER_CLIENT
    BY <2>2, FS_EmptySet, LimitsAssumption
  <2>4. \A ch \in Channel : c \notin callbacks[ch]
    BY DEF Init
  <2> QED BY <2>1, <2>3, <2>4 DEF ClientOK, Away, Adding, At
<1> QED BY <1>1, <1>2, ByClient

(***************************************************************************)
(* Every step keeps the types; a count never goes below zero because       *)
(* decrement removes it first.                                             *)
(***************************************************************************)
LEMMA TypeStep == HandlerInv /\ [Next]_vars => TypeOK'
<1> SUFFICES ASSUME TypeOK, StreamInHand, Next PROVE TypeOK'
  BY DEF HandlerInv, TypeOK, vars, managerVars, idleVars, pubsubVars
<1> USE ErrorsAssumption, ChannelAssumption
    DEF TypeOK, Place, managerVars, idleVars, pubsubVars
<1>1. ASSUME NEW c \in Client, Progress(c) PROVE TypeOK'
  <2>1. CASE Accepted(c)
    BY <2>1 DEF Accepted, Registered, Goto
  <2>2. ASSUME NEW st \in Stream, SubscribeNext(c, st) PROVE TypeOK'
    <3>1. handler' \in [Client -> [at : Place, stream : Stream \cup {NoStream},
                                   todo : SUBSET Stream]]
      <4>1. CASE Loop(c, "subscribing", handler[c].todo \ {st})
        BY <4>1 DEF Loop
      <4>2. CASE Take(c, "registering", st)
        BY <4>2 DEF Take
      <4> QED BY <2>2, <4>1, <4>2 DEF SubscribeNext
    <3>2. count' \in [Channel -> Nat]
      BY <2>2 DEF SubscribeNext
    <3> QED BY <2>2, <3>1, <3>2 DEF SubscribeNext
  <2>3. ASSUME NEW st \in Stream, UnsubscribeNext(c, st) PROVE TypeOK'
    <3>1. handler' \in [Client -> [at : Place, stream : Stream \cup {NoStream},
                                   todo : SUBSET Stream]]
      <4>1. CASE Loop(c, "unsubscribing", handler[c].todo \ {st})
        BY <4>1 DEF Loop
      <4>2. CASE Take(c, "unregistering", st)
        BY <4>2 DEF Take
      <4> QED BY <2>3, <4>1, <4>2 DEF UnsubscribeNext
    <3>2. count' \in [Channel -> Nat]
      BY <2>3 DEF UnsubscribeNext, Decrement
    <3> QED BY <2>3, <3>1, <3>2 DEF UnsubscribeNext
  <2>4. ASSUME NEW st \in Stream, CleanupNext(c, st) PROVE TypeOK'
    <3>1. count' \in [Channel -> Nat]
      BY <2>4 DEF CleanupNext, Decrement
    <3> QED BY <2>4, <3>1 DEF CleanupNext, Loop
  <2>5. CASE Register(c)
    BY <2>5 DEF Register, Continue
  <2>6. CASE RegisterRaises(c)
    BY <2>6 DEF RegisterRaises, Raise, Goto
  <2>7. CASE Subscribed(c)
    <3>1. handler[c].stream \in Stream
      BY <2>7 DEF Subscribed, At, StreamInHand, Adding
    <3>2. tracked' \in [Client -> SUBSET Stream] /\ idle' \subseteq Client
      BY <2>7, <3>1 DEF Subscribed, AddSubscription
    <3>3. keys' \in [Client -> SUBSET Stream]
      BY <2>7, <3>1 DEF Subscribed
    <3> QED BY <2>7, <3>2, <3>3 DEF Subscribed, Loop
  <2>8. CASE Unregister(c)
    <3>1. callbacks' \in [Channel -> SUBSET Client]
      BY <2>8 DEF Unregister
    <3>2. handler' \in [Client -> [at : Place, stream : Stream \cup {NoStream},
                                   todo : SUBSET Stream]]
      BY <2>8 DEF Unregister, Continue
    <3>3. UNCHANGED <<managerVars, keys, socket, idleVars, count, pubsubVars>>
      BY <2>8 DEF Unregister
    <3> QED BY <3>1, <3>2, <3>3
  <2>9. CASE UnregisterRaises(c)
    <3>1. callbacks' \in [Channel -> SUBSET Client]
      BY <2>9 DEF UnregisterRaises
    <3>2. handler' \in [Client -> [at : Place, stream : Stream \cup {NoStream},
                                   todo : SUBSET Stream]]
      BY <2>9 DEF UnregisterRaises, Goto
    <3>3. errors' \in 0..MaxErrors /\ UNCHANGED listener
      BY <2>9 DEF UnregisterRaises, Raise
    <3>4. UNCHANGED <<managerVars, keys, socket, idleVars, count>>
      BY <2>9 DEF UnregisterRaises
    <3> QED BY <3>1, <3>2, <3>3, <3>4
  <2>10. CASE Unsubscribed(c)
    BY <2>10 DEF Unsubscribed, RemoveSubscription, Loop
  <2>11. CASE Respond(c)
    BY <2>11 DEF Respond, Goto
  <2>12. CASE Cleanup(c)
    BY <2>12 DEF Cleanup, Loop
  <2>13. CASE CleanupClears(c)
    BY <2>13 DEF CleanupClears, Goto
  <2>14. CASE Leave(c)
    BY <2>14 DEF Leave, Forget, Goto
  <2>15. CASE LeaveRaises(c)
    BY <2>15 DEF LeaveRaises, Raise, Forget, Goto
  <2>16. CASE Disconnect(c)
    BY <2>16 DEF Disconnect, Goto
  <2> QED BY <1>1, <2>1, <2>2, <2>3, <2>4, <2>5, <2>6, <2>7, <2>8, <2>9, <2>10,
             <2>11, <2>12, <2>13, <2>14, <2>15, <2>16 DEF Progress
<1>2. ASSUME NEW c \in Client, Environment(c) PROVE TypeOK'
  <2>1. CASE Connect(c)
    <3>1. handler' \in [Client -> [at : Place, stream : Stream \cup {NoStream},
                                   todo : SUBSET Stream]]
      BY <2>1 DEF Connect, Registered, Goto
    <3>2. CASE Registered(c)
      BY <3>1, <3>2 DEF Registered
    <3> QED BY <2>1, <3>1, <3>2 DEF Connect
  <2>2. CASE Return(c)
    BY <2>2 DEF Return, Goto
  <2>3. CASE Close(c)
    BY <2>3 DEF Close
  <2>4. CASE BecomeIdle(c)
    BY <2>4 DEF BecomeIdle
  <2>5. ASSUME NEW place \in {"subscribing", "unsubscribing"},
               NEW args \in SUBSET Stream, Receive(c, place, args)
        PROVE  TypeOK'
    BY <2>5 DEF Receive, Loop
  <2> QED BY <1>2, <2>1, <2>2, <2>3, <2>4, <2>5 DEF Environment
<1>3. ASSUME FindIdle PROVE TypeOK'
  BY <1>3 DEF FindIdle
<1>4. ASSUME NEW c \in Client, CloseIdle(c) PROVE TypeOK'
  BY <1>4 DEF CloseIdle
<1>5. CASE ListenEnds
  BY <1>5 DEF ListenEnds
<1>6. CASE Spin
  BY <1>6 DEF Spin, vars
<1> QED BY <1>1, <1>2, <1>3, <1>4, <1>5, <1>6 DEF Next, TaskRuns

-----------------------------------------------------------------------------
(***************************************************************************)
(* What a move of one handler does to the others: nothing.                 *)
(***************************************************************************)
LEMMA Moved ==
  ASSUME TypeOK, NEW c \in Client, NEW r, handler' = [handler EXCEPT ![c] = r]
  PROVE  /\ handler'[c] = r
         /\ \A d \in Client \ {c} : handler'[d] = handler[d]
  BY DEF TypeOK

(***************************************************************************)
(* What is wanted where: nothing but the streams held outside a subscribe  *)
(* request.                                                                *)
(***************************************************************************)
LEMMA WantedNext ==
  ASSUME NEW c \in Client
  PROVE  /\ Wanted(c)' = keys'[c] \cup
              {st \in Stream :
                 \/ /\ handler'[c].at \in {"subscribing"} \cup Adding
                    /\ st \in handler'[c].todo
                 \/ handler'[c].at \in Adding /\ st = handler'[c].stream}
  BY DEF Wanted, Adding

(***************************************************************************)
(* A connection is made: the new client has no streams, in the manager and *)
(* in its handler, and no callback.                                        *)
(***************************************************************************)
LEMMA RegisteredStep ==
  ASSUME HandlerInv, TypeOK', NEW c \in Client, Registered(c),
         handler[c].at \in {"new", "accepting"}
  PROVE  HandlerInv'
<1>1. handler'[c] = [at |-> "receiving", stream |-> NoStream, todo |-> {}]
  BY Moved DEF HandlerInv, Registered, Goto
<1>2. keys[c] = {} /\ keys' = keys /\ callbacks' = callbacks
  BY DEF HandlerInv, KeysTracked, Away, Registered
<1>3. Local(c)
  BY Moved DEF HandlerInv, TypeOK, Local, Registered, Goto
<1>4. tracked'[c] = {} /\ c \in clients'
  BY DEF HandlerInv, TypeOK, Registered
<1>5. Wanted(c)' = {}
  BY <1>1, <1>2, WantedNext DEF Adding
<1>6. Cardinality(Wanted(c)') <= MAX_SUBSCRIPTIONS_PER_CLIENT
  BY <1>5, FS_EmptySet, LimitsAssumption
<1>7. ClientOK(c)'
  BY <1>1, <1>2, <1>4, <1>6 DEF ClientOK, Away, Adding, At
<1> QED BY <1>3, <1>7, OneClient

(***************************************************************************)
(* A request begins.  A subscribe request that passes the limit check      *)
(* leaves room for every stream it names.                                  *)
(***************************************************************************)
LEMMA ReceiveStep ==
  ASSUME HandlerInv, TypeOK', NEW c \in Client,
         NEW place \in {"subscribing", "unsubscribing"},
         NEW args \in SUBSET Stream, Receive(c, place, args)
  PROVE  HandlerInv'
<1>1. /\ handler[c].at = "receiving"
      /\ UNCHANGED <<clients, tracked, keys, callbacks>>
  BY DEF Receive, At, managerVars
<1>2. CASE UNCHANGED handler
  BY <1>1, <1>2 DEF HandlerInv, ServedIsRegistered, KeysTracked, WithinLimit,
       Wanted, StreamInHand, AwayIsSilent, At
<1>3. CASE /\ Loop(c, place, args)
           /\ place = "subscribing" =>
                ~(Cardinality(keys[c]) + Cardinality(args) > MAX_SUBSCRIPTIONS_PER_CLIENT)
  <2>1. handler'[c] = [at |-> place, stream |-> NoStream, todo |-> args]
    BY <1>3, Moved DEF HandlerInv, Loop
  <2>2. Local(c)
    BY <1>1, <1>3, Moved DEF HandlerInv, Loop, Local
  <2>3. ClientOK(c)
    BY ByClient
  <2>4. keys[c] \subseteq Stream /\ IsFiniteSet(keys[c]) /\ IsFiniteSet(args)
    BY ClientAssumption, FS_Subset DEF HandlerInv, TypeOK
  <2>5. Cardinality(Wanted(c)') <= MAX_SUBSCRIPTIONS_PER_CLIENT
    <3>1. CASE place = "unsubscribing"
      <4>1. Wanted(c)' = keys[c] /\ Wanted(c) = keys[c]
        BY <1>1, <2>1, <3>1, WantedNext DEF Wanted, Adding
      <4> QED BY <2>3, <4>1 DEF ClientOK
    <3>2. CASE place = "subscribing"
      <4>1. Wanted(c)' = keys[c] \cup args
        BY <1>1, <2>1, <3>2, WantedNext DEF Adding
      <4>2. Cardinality(keys[c] \cup args)
              = Cardinality(keys[c]) + Cardinality(args) - Cardinality(keys[c] \cap args)
        BY <2>4, FS_Union
      <4>3. /\ Cardinality(keys[c]) \in Nat
            /\ Cardinality(args) \in Nat
            /\ Cardinality(keys[c] \cap args) \in Nat
        BY <2>4, FS_CardinalityType, FS_Subset
      <4> QED BY <1>3, <3>2, <4>1, <4>2, <4>3, LimitsAssumption
    <3> QED BY <3>1, <3>2
  <2>6. ClientOK(c)'
    BY <1>1, <2>1, <2>3, <2>5 DEF ClientOK, Away, Adding, At
  <2> QED BY <2>2, <2>6, OneClient
<1> QED BY <1>2, <1>3 DEF Receive

(***************************************************************************)
(* A subscribe request, stream by stream: a stream that is not held moves  *)
(* from todo to the handler's hand and then to both sets, for which the    *)
(* manager has room because the handler checked the whole request.         *)
(***************************************************************************)
LEMMA SubscribeStep ==
  ASSUME HandlerInv, TypeOK', NEW c \in Client,
         \/ \E st \in Stream : SubscribeNext(c, st)
         \/ Register(c) \/ RegisterRaises(c) \/ Subscribed(c)
  PROVE  HandlerInv'
<1>0. TypeOK /\ ClientOK(c) /\ Wanted(c) \in SUBSET Stream
  BY ByClient DEF HandlerInv, TypeOK, Wanted
<1>1. ASSUME NEW st \in Stream, SubscribeNext(c, st) PROVE HandlerInv'
  <2>1. /\ handler[c].at = "subscribing" /\ st \in handler[c].todo
        /\ UNCHANGED <<clients, tracked, keys, callbacks>>
    BY <1>1 DEF SubscribeNext, At, managerVars
  <2>2. CASE Loop(c, "subscribing", handler[c].todo \ {st})
    <3>1. handler'[c] = [at |-> "subscribing", stream |-> NoStream,
                         todo |-> handler[c].todo \ {st}]
      BY <1>0, <2>2, Moved DEF Loop
    <3>2. Wanted(c)' \subseteq Wanted(c)
      BY <2>1, <3>1, WantedNext DEF Wanted, Adding
    <3>3. ClientOK(c)'
      BY <1>0, <2>1, <3>1, <3>2, WantsLess DEF ClientOK, Away, Adding, At
    <3>4. Local(c)
      BY <1>0, <2>1, <2>2, Moved DEF Loop, Local
    <3> QED BY <3>3, <3>4, OneClient
  <2>3. CASE Take(c, "registering", st) /\ st \notin keys[c]
    <3>1. handler'[c] = [at |-> "registering", stream |-> st,
                         todo |-> handler[c].todo \ {st}]
      BY <1>0, <2>3 DEF Take, TypeOK
    <3>2. Wanted(c)' \subseteq Wanted(c)
      BY <2>1, <3>1, WantedNext DEF Wanted, Adding
    <3>3. ClientOK(c)'
      BY <1>0, <2>1, <2>3, <3>1, <3>2, WantsLess DEF ClientOK, Away, Adding, At
    <3>4. Local(c)
      BY <1>0, <2>1, <2>3 DEF Take, Local, TypeOK
    <3> QED BY <3>3, <3>4, OneClient
  <2> QED BY <1>1, <2>2, <2>3 DEF SubscribeNext
<1>2. CASE Register(c)
  <2>1. /\ handler[c].at = "registering"
        /\ UNCHANGED <<clients, tracked, keys>>
        /\ callbacks' = [callbacks EXCEPT ![Here(c)] = @ \cup {c}]
    BY <1>2 DEF Register, At, managerVars
  <2>2. handler'[c] = [at |-> "ensuring", stream |-> handler[c].stream,
                       todo |-> handler[c].todo]
    BY <1>0, <1>2 DEF Register, Continue, TypeOK
  <2>3. Wanted(c)' \subseteq Wanted(c)
    BY <2>1, <2>2, WantedNext DEF Wanted, Adding
  <2>4. ClientOK(c)'
    BY <1>0, <2>1, <2>2, <2>3, WantsLess DEF ClientOK, Away, Adding, At
  <2>5. \A d \in Client \ {c}, ch \in Channel :
          d \in callbacks'[ch] => d \in callbacks[ch]
    BY <1>0, <2>1 DEF TypeOK
  <2>6. Local(c)
    BY <1>0, <1>2, <2>1, <2>5 DEF Register, Continue, Local, TypeOK
  <2> QED BY <2>4, <2>6, OneClient
<1>3. CASE RegisterRaises(c)
  <2>1. /\ handler[c].at = "registering"
        /\ UNCHANGED <<clients, tracked, keys, callbacks>>
    BY <1>3 DEF RegisterRaises, At, managerVars
  <2>2. handler'[c] = [at |-> "receiving", stream |-> NoStream, todo |-> {}]
    BY <1>0, <1>3, Moved DEF RegisterRaises, Goto
  <2>3. Wanted(c)' \subseteq Wanted(c)
    BY <2>1, <2>2, WantedNext DEF Wanted, Adding
  <2>4. ClientOK(c)'
    BY <1>0, <2>1, <2>2, <2>3, WantsLess DEF ClientOK, Away, Adding, At
  <2>5. Local(c)
    BY <1>0, <1>3, <2>1, Moved DEF RegisterRaises, Goto, Local
  <2> QED BY <2>4, <2>5, OneClient
<1>4. CASE Subscribed(c)
  <2> DEFINE st == handler[c].stream
  <2>1. /\ handler[c].at = "ensuring" /\ st \in Stream \ keys[c]
        /\ c \in clients /\ tracked[c] = keys[c]
    BY <1>0, <1>4 DEF Subscribed, At, ClientOK, Adding, Away
  <2>2. /\ handler'[c] = [at |-> "subscribing", stream |-> NoStream,
                          todo |-> handler[c].todo]
        /\ keys'[c] = keys[c] \cup {st}
        /\ UNCHANGED <<clients, callbacks>>
    BY <1>0, <1>4, Moved DEF Subscribed, Loop, TypeOK
  <2>3. Cardinality(tracked[c]) < MAX_SUBSCRIPTIONS_PER_CLIENT
    <3>1. keys[c] \cup {st} \in SUBSET Wanted(c)
      BY <2>1 DEF Wanted, Adding
    <3>2. Cardinality(keys[c] \cup {st}) <= MAX_SUBSCRIPTIONS_PER_CLIENT
      BY <1>0, <3>1, WantsLess DEF ClientOK
    <3>3. IsFiniteSet(keys[c])
      BY <1>0, ClientAssumption, FS_Subset DEF TypeOK
    <3>4. Cardinality(keys[c] \cup {st}) = Cardinality(keys[c]) + 1
      BY <2>1, <3>3, FS_AddElement
    <3>5. Cardinality(keys[c]) \in Nat
      BY <3>3, FS_CardinalityType
    <3> QED BY <2>1, <3>2, <3>4, <3>5, LimitsAssumption
  <2>4. tracked' = [tracked EXCEPT ![c] = @ \cup {st}]
    BY <1>4, <2>1, <2>3 DEF Subscribed, AddSubscription
  <2>5. tracked'[c] = keys'[c]
    BY <1>0, <2>1, <2>2, <2>4 DEF TypeOK
  <2>6. Wanted(c)' \subseteq Wanted(c)
    BY <2>1, <2>2, WantedNext DEF Wanted, Adding
  <2>7. ClientOK(c)'
    BY <1>0, <2>1, <2>2, <2>5, <2>6, WantsLess DEF ClientOK, Away, Adding, At
  <2>8. Local(c)
    BY <1>0, <1>4, <2>4, Moved DEF Subscribed, Loop, Local, TypeOK
  <2> QED BY <2>7, <2>8, OneClient
<1> QED BY <1>1, <1>2, <1>3, <1>4

(***************************************************************************)
(* An unsubscribe request, stream by stream: the stream in hand is still   *)
(* in both sets until the pool has returned, and leaves both in one step.  *)
(***************************************************************************)
LEMMA UnsubscribeStep ==
  ASSUME HandlerInv, TypeOK', NEW c \in Client,
         \/ \E st \in Stream : UnsubscribeNext(c, st)
         \/ Unregister(c) \/ UnregisterRaises(c) \/ Unsubscribed(c)
  PROVE  HandlerInv'
<1>0. TypeOK /\ ClientOK(c) /\ Wanted(c) \in SUBSET Stream
  BY ByClient DEF HandlerInv, TypeOK, Wanted
<1>1. ASSUME NEW st \in Stream, UnsubscribeNext(c, st) PROVE HandlerInv'
  <2>1. /\ handler[c].at = "unsubscribing" /\ st \in handler[c].todo
        /\ UNCHANGED <<clients, tracked, keys, callbacks>>
    BY <1>1 DEF UnsubscribeNext, At, managerVars
  <2>2. CASE Loop(c, "unsubscribing", handler[c].todo \ {st})
    <3>1. handler'[c] = [at |-> "unsubscribing", stream |-> NoStream,
                         todo |-> handler[c].todo \ {st}]
      BY <1>0, <2>2, Moved DEF Loop
    <3>2. Wanted(c)' \subseteq Wanted(c)
      BY <2>1, <3>1, WantedNext DEF Wanted, Adding
    <3>3. ClientOK(c)'
      BY <1>0, <2>1, <3>1, <3>2, WantsLess DEF ClientOK, Away, Adding, At
    <3>4. Local(c)
      BY <1>0, <2>1, <2>2, Moved DEF Loop, Local
    <3> QED BY <3>3, <3>4, OneClient
  <2>3. CASE Take(c, "unregistering", st) /\ st \in keys[c]
    <3>1. handler'[c] = [at |-> "unregistering", stream |-> st,
                         todo |-> handler[c].todo \ {st}]
      BY <1>0, <2>3 DEF Take, TypeOK
    <3>2. Wanted(c)' \subseteq Wanted(c)
      BY <2>1, <3>1, WantedNext DEF Wanted, Adding
    <3>3. ClientOK(c)'
      BY <1>0, <2>1, <2>3, <3>1, <3>2, WantsLess DEF ClientOK, Away, Adding, At
    <3>4. Local(c)
      BY <1>0, <2>1, <2>3 DEF Take, Local, TypeOK
    <3> QED BY <3>3, <3>4, OneClient
  <2> QED BY <1>1, <2>2, <2>3 DEF UnsubscribeNext
<1>2. CASE Unregister(c)
  <2>1. /\ handler[c].at = "unregistering"
        /\ UNCHANGED <<clients, tracked, keys>>
        /\ callbacks' = [callbacks EXCEPT ![Here(c)] = @ \ {c}]
    BY <1>2 DEF Unregister, At, managerVars
  <2>2. handler'[c] = [at |-> "releasing", stream |-> handler[c].stream,
                       todo |-> handler[c].todo]
    BY <1>0, <1>2 DEF Unregister, Continue, TypeOK
  <2>3. Wanted(c)' \subseteq Wanted(c)
    BY <2>1, <2>2, WantedNext DEF Wanted, Adding
  <2>4. ClientOK(c)'
    BY <1>0, <2>1, <2>2, <2>3, WantsLess DEF ClientOK, Away, Adding, At
  <2>5. \A d \in Client, ch \in Channel :
          d \in callbacks'[ch] => d \in callbacks[ch]
    BY <1>0, <2>1 DEF TypeOK
  <2>6. Local(c)
    BY <1>0, <1>2, <2>1, <2>5 DEF Unregister, Continue, Local, TypeOK
  <2> QED BY <2>4, <2>6, OneClient
<1>3. CASE UnregisterRaises(c)
  <2>1. /\ handler[c].at = "unregistering"
        /\ UNCHANGED <<clients, tracked, keys>>
        /\ callbacks' = [callbacks EXCEPT ![Here(c)] = {}]
    BY <1>3 DEF UnregisterRaises, At, managerVars
  <2>2. handler'[c] = [at |-> "receiving", stream |-> NoStream, todo |-> {}]
    BY <1>0, <1>3, Moved DEF UnregisterRaises, Goto
  <2>3. Wanted(c)' \subseteq Wanted(c)
    BY <2>1, <2>2, WantedNext DEF Wanted, Adding
  <2>4. ClientOK(c)'
    BY <1>0, <2>1, <2>2, <2>3, WantsLess DEF ClientOK, Away, Adding, At
  <2>5. \A d \in Client, ch \in Channel :
          d \in callbacks'[ch] => d \in callbacks[ch]
    BY <1>0, <2>1 DEF TypeOK
  <2>6. Local(c)
    BY <1>0, <1>3, <2>1, <2>5, Moved DEF UnregisterRaises, Goto, Local
  <2> QED BY <2>4, <2>6, OneClient
<1>4. CASE Unsubscribed(c)
  <2> DEFINE st == handler[c].stream
  <2>1. /\ handler[c].at = "releasing" /\ st \in keys[c]
        /\ c \in clients /\ tracked[c] = keys[c]
    BY <1>0, <1>4 DEF Unsubscribed, At, ClientOK, Away
  <2>2. /\ handler'[c] = [at |-> "unsubscribing", stream |-> NoStream,
                          todo |-> handler[c].todo]
        /\ keys'[c] = keys[c] \ {st}
        /\ UNCHANGED <<clients, callbacks>>
    BY <1>0, <1>4, Moved DEF Unsubscribed, Loop, TypeOK
  <2>3. tracked' = [tracked EXCEPT ![c] = @ \ {st}]
    BY <1>4, <2>1 DEF Unsubscribed, RemoveSubscription
  <2>4. tracked'[c] = keys'[c]
    BY <1>0, <2>1, <2>2, <2>3 DEF TypeOK
  <2>5. Wanted(c)' \subseteq Wanted(c)
    BY <2>1, <2>2, WantedNext DEF Wanted, Adding
  <2>6. ClientOK(c)'
    BY <1>0, <2>1, <2>2, <2>4, <2>5, WantsLess DEF ClientOK, Away, Adding, At
  <2>7. Local(c)
    BY <1>0, <1>4, <2>3, Moved DEF Unsubscribed, Loop, Local, TypeOK
  <2> QED BY <2>6, <2>7, OneClient
<1> QED BY <1>1, <1>2, <1>3, <1>4

(***************************************************************************)
(* The response ends a request; the first step of the cleanup takes what   *)
(* the handler holds, the loop leaves it alone, the last one clears it.    *)
(***************************************************************************)
LEMMA CleanupStep ==
  ASSUME HandlerInv, TypeOK', NEW c \in Client,
         \/ Respond(c) \/ Cleanup(c) \/ CleanupClears(c)
         \/ \E st \in Stream : CleanupNext(c, st)
  PROVE  HandlerInv'
<1>0. TypeOK /\ ClientOK(c) /\ Wanted(c) \in SUBSET Stream
  BY ByClient DEF HandlerInv, TypeOK, Wanted
<1>1. CASE Respond(c)
  <2>1. /\ handler[c].at \in {"subscribing", "unsubscribing"}
        /\ UNCHANGED <<clients, tracked, keys, callbacks>>
    BY <1>1 DEF Respond, At, managerVars
  <2>2. handler'[c] = [at |-> "receiving", stream |-> NoStream, todo |-> {}]
    BY <1>0, <1>1, Moved DEF Respond, Goto
  <2>3. Wanted(c)' \subseteq Wanted(c)
    BY <2>1, <2>2, WantedNext DEF Wanted, Adding
  <2>4. ClientOK(c)'
    BY <1>0, <2>1, <2>2, <2>3, WantsLess DEF ClientOK, Away, Adding, At
  <2>5. Local(c)
    BY <1>0, <1>1, <2>1, Moved DEF Respond, Goto, Local
  <2> QED BY <2>4, <2>5, OneClient
<1>2. CASE Cleanup(c)
  <2>1. /\ handler[c].at = "receiving"
        /\ UNCHANGED <<clients, tracked, keys, callbacks>>
    BY <1>2 DEF Cleanup, At, managerVars
  <2>2. handler'[c] = [at |-> "cleaning", stream |-> NoStream, todo |-> keys[c]]
    BY <1>0, <1>2, Moved DEF Cleanup, Loop
  <2>3. Wanted(c)' \subseteq Wanted(c)
    BY <2>1, <2>2, WantedNext DEF Wanted, Adding
  <2>4. ClientOK(c)'
    BY <1>0, <2>1, <2>2, <2>3, WantsLess DEF ClientOK, Away, Adding, At
  <2>5. Local(c)
    BY <1>0, <1>2, <2>1, Moved DEF Cleanup, Loop, Local
  <2> QED BY <2>4, <2>5, OneClient
<1>3. CASE CleanupClears(c)
  <2>1. /\ handler[c].at = "cleaning"
        /\ UNCHANGED <<clients, tracked, callbacks>>
    BY <1>3 DEF CleanupClears, At, managerVars
  <2>2. /\ handler'[c] = [at |-> "leaving", stream |-> NoStream, todo |-> {}]
        /\ keys'[c] = {}
    BY <1>0, <1>3, Moved DEF CleanupClears, Goto, TypeOK
  <2>3. Wanted(c)' \subseteq Wanted(c)
    BY <2>1, <2>2, WantedNext DEF Wanted, Adding
  <2>4. ClientOK(c)'
    BY <1>0, <2>1, <2>2, <2>3, WantsLess DEF ClientOK, Away, Adding, At
  <2>5. Local(c)
    BY <1>0, <1>3, <2>1, Moved DEF CleanupClears, Goto, Local, TypeOK
  <2> QED BY <2>4, <2>5, OneClient
<1>4. ASSUME NEW st \in Stream, CleanupNext(c, st) PROVE HandlerInv'
  <2>1. /\ handler[c].at = "cleaning"
        /\ UNCHANGED <<clients, tracked, keys, callbacks>>
    BY <1>4 DEF CleanupNext, At, managerVars
  <2>2. handler'[c] = [at |-> "cleaning", stream |-> NoStream,
                       todo |-> handler[c].todo \ {st}]
    BY <1>0, <1>4, Moved DEF CleanupNext, Loop
  <2>3. Wanted(c)' \subseteq Wanted(c)
    BY <2>1, <2>2, WantedNext DEF Wanted, Adding
  <2>4. ClientOK(c)'
    BY <1>0, <2>1, <2>2, <2>3, WantsLess DEF ClientOK, Away, Adding, At
  <2>5. Local(c)
    BY <1>0, <1>4, <2>1, Moved DEF CleanupNext, Loop, Local
  <2> QED BY <2>4, <2>5, OneClient
<1> QED BY <1>1, <1>2, <1>3, <1>4

(***************************************************************************)
(* The end of a handler: Pub/Sub forgets it, whether or not it raises,     *)
(* before the manager does, and its id is free only after both.            *)
(***************************************************************************)
LEMMA EndStep ==
  ASSUME HandlerInv, TypeOK', NEW c \in Client,
         Leave(c) \/ LeaveRaises(c) \/ Disconnect(c) \/ Return(c)
  PROVE  HandlerInv'
<1>0. TypeOK /\ ClientOK(c) /\ Wanted(c) \in SUBSET Stream
  BY ByClient DEF HandlerInv, TypeOK, Wanted
<1>1. CASE Leave(c) \/ LeaveRaises(c)
  <2>1. /\ handler[c].at = "leaving"
        /\ UNCHANGED <<clients, tracked, keys>>
        /\ callbacks' = [ch \in Channel |-> callbacks[ch] \ {c}]
    BY <1>1 DEF Leave, LeaveRaises, Forget, At, managerVars
  <2>2. PICK place \in {"disconnecting", "gone"} :
          handler' = [handler EXCEPT ![c] =
                        [at |-> place, stream |-> NoStream, todo |-> {}]]
    BY <1>1 DEF Leave, LeaveRaises, Goto
  <2>3. handler'[c] = [at |-> place, stream |-> NoStream, todo |-> {}]
    BY <1>0, <2>2, Moved
  <2>4. Wanted(c)' \subseteq Wanted(c)
    BY <2>1, <2>3, WantedNext DEF Wanted, Adding
  <2>5. \A ch \in Channel : c \notin callbacks'[ch]
    BY <2>1
  <2>6. handler[c].at \notin {"new", "accepting", "gone"} /\ keys[c] = {}
    BY <1>0, <2>1 DEF ClientOK, Away
  <2>7. ClientOK(c)'
    BY <1>0, <2>1, <2>3, <2>4, <2>5, <2>6, WantsLess DEF ClientOK, Away, Adding, At
  <2>8. Local(c)
    BY <1>0, <2>1, <2>2, Moved DEF Local
  <2> QED BY <2>7, <2>8, OneClient
<1>2. CASE Disconnect(c)
  <2>1. /\ handler[c].at = "disconnecting"
        /\ clients' = clients \ {c}
        /\ UNCHANGED <<tracked, keys, callbacks>>
    BY <1>2 DEF Disconnect, At
  <2>2. handler'[c] = [at |-> "gone", stream |-> NoStream, todo |-> {}]
    BY <1>0, <1>2, Moved DEF Disconnect, Goto
  <2>3. Wanted(c)' \subseteq Wanted(c)
    BY <2>1, <2>2, WantedNext DEF Wanted, Adding
  <2>4. ClientOK(c)'
    BY <1>0, <2>1, <2>2, <2>3, WantsLess DEF ClientOK, Away, Adding, At
  <2>5. Local(c)
    BY <1>0, <1>2, <2>1, Moved DEF Disconnect, Goto, Local
  <2> QED BY <2>4, <2>5, OneClient
<1>3. CASE Return(c)
  <2>1. /\ handler[c].at = "gone"
        /\ UNCHANGED <<clients, tracked, keys, callbacks>>
    BY <1>3 DEF Return, At, managerVars
  <2>2. handler'[c] = [at |-> "new", stream |-> NoStream, todo |-> {}]
    BY <1>0, <1>3, Moved DEF Return, Goto
  <2>3. Wanted(c)' \subseteq Wanted(c)
    BY <2>1, <2>2, WantedNext DEF Wanted, Adding
  <2>4. ClientOK(c)'
    BY <1>0, <2>1, <2>2, <2>3, WantsLess DEF ClientOK, Away, Adding, At
  <2>5. Local(c)
    BY <1>0, <1>3, <2>1, Moved DEF Return, Goto, Local
  <2> QED BY <2>4, <2>5, OneClient
<1> QED BY <1>1, <1>2, <1>3

(***************************************************************************)
(* Closing a connection, growing idle and the sweep touch nothing the      *)
(* invariant speaks of.                                                    *)
(***************************************************************************)
LEMMA QuietStep ==
  ASSUME HandlerInv, TypeOK', UNCHANGED <<clients, tracked, keys, handler, callbacks>>
  PROVE  HandlerInv'
  BY DEF HandlerInv, ServedIsRegistered, KeysTracked, WithinLimit, Wanted,
         StreamInHand, AwayIsSilent, At

(***************************************************************************)
(* The invariant is inductive.                                             *)
(***************************************************************************)
LEMMA HandlersNext == HandlerInv /\ [Next]_vars => HandlerInv'
<1> SUFFICES ASSUME HandlerInv, [Next]_vars PROVE HandlerInv'
  OBVIOUS
<1>0. TypeOK'
  BY TypeStep
<1>1. CASE UNCHANGED vars
  BY <1>0, <1>1, QuietStep DEF vars, managerVars
<1>2. ASSUME NEW c \in Client, Progress(c) PROVE HandlerInv'
  <2>1. CASE Accepted(c)
    BY <1>0, <2>1, RegisteredStep DEF Accepted, At
  <2>2. CASE \/ \E st \in Stream : SubscribeNext(c, st)
             \/ Register(c) \/ RegisterRaises(c) \/ Subscribed(c)
    BY <1>0, <2>2, SubscribeStep
  <2>3. CASE \/ \E st \in Stream : UnsubscribeNext(c, st)
             \/ Unregister(c) \/ UnregisterRaises(c) \/ Unsubscribed(c)
    BY <1>0, <2>3, UnsubscribeStep
  <2>4. CASE \/ Respond(c) \/ Cleanup(c) \/ CleanupClears(c)
             \/ \E st \in Stream : CleanupNext(c, st)
    BY <1>0, <2>4, CleanupStep
  <2>5. CASE Leave(c) \/ LeaveRaises(c) \/ Disconnect(c)
    BY <1>0, <2>5, EndStep
  <2> QED BY <1>2, <2>1, <2>2, <2>3, <2>4, <2>5 DEF Progress
<1>3. ASSUME NEW c \in Client, Environment(c) PROVE HandlerInv'
  <2>1. CASE Connect(c)
    <3>1. CASE Registered(c)
      BY <1>0, <2>1, <3>1, RegisteredStep DEF Connect, At
    <3>2. CASE /\ Goto(c, "accepting")
               /\ UNCHANGED <<managerVars, keys, callbacks>>
      <4>0. TypeOK /\ ClientOK(c) /\ Wanted(c) \in SUBSET Stream
        BY ByClient DEF HandlerInv, TypeOK, Wanted
      <4>1. /\ handler[c].at = "new"
            /\ UNCHANGED <<clients, tracked, keys, callbacks>>
        BY <2>1, <3>2 DEF Connect, At, managerVars
      <4>2. handler'[c] = [at |-> "accepting", stream |-> NoStream, todo |-> {}]
        BY <4>0, <3>2, Moved DEF Goto
      <4>3. Wanted(c)' \subseteq Wanted(c)
        BY <4>1, <4>2, WantedNext DEF Wanted, Adding
      <4>4. ClientOK(c)'
        BY <4>0, <4>1, <4>2, <4>3, WantsLess DEF ClientOK, Away, Adding, At
      <4>5. Local(c)
        BY <4>0, <3>2, <4>1, Moved DEF Goto, Local
      <4> QED BY <1>0, <4>4, <4>5, OneClient
    <3> QED BY <2>1, <3>1, <3>2 DEF Connect
  <2>2. CASE Return(c)
    BY <1>0, <2>2, EndStep
  <2>3. CASE Close(c) \/ BecomeIdle(c)
    BY <1>0, <2>3, QuietStep DEF Close, BecomeIdle, managerVars
  <2>4. ASSUME NEW place \in {"subscribing", "unsubscribing"},
               NEW args \in SUBSET Stream, Receive(c, place, args)
        PROVE  HandlerInv'
    BY <1>0, <2>4, ReceiveStep
  <2> QED BY <1>3, <2>1, <2>2, <2>3, <2>4 DEF Environment
<1>4. ASSUME FindIdle \/ (\E c \in Client : CloseIdle(c)) \/ ListenEnds
      PROVE  HandlerInv'
  BY <1>0, <1>4, QuietStep DEF FindIdle, CloseIdle, ListenEnds, managerVars
<1> QED BY <1>1, <1>2, <1>3, <1>4 DEF Next, TaskRuns, Spin

-----------------------------------------------------------------------------
(***************************************************************************)
(* The inductive invariant holds in every behaviour.                       *)
(***************************************************************************)
THEOREM HandlerInvariant == Spec => []HandlerInv
  BY InitHandlers, HandlersNext, PTL DEF Spec

(***************************************************************************)
(* The state keeps its types; in particular no count is negative.          *)
(***************************************************************************)
THEOREM TypeCorrect == Spec => []TypeOK
<1>1. HandlerInv => TypeOK
  BY DEF HandlerInv
<1> QED BY <1>1, HandlerInvariant, PTL

(***************************************************************************)
(* Pub/Sub never calls a handler that has ended, even when it raised.      *)
(***************************************************************************)
THEOREM GoneHandlersAreSilent == Spec => []GoneIsSilent
<1>1. HandlerInv => GoneIsSilent
  BY DEF HandlerInv, AwayIsSilent, Away, GoneIsSilent
<1> QED BY <1>1, HandlerInvariant, PTL

(***************************************************************************)
(* Between two requests the manager and the handler agree on the streams   *)
(* of a client, which are within its limit.                                *)
(***************************************************************************)
THEOREM ManagerAndHandlerAgree == Spec => []ManagerAgrees
<1>1. ASSUME HandlerInv PROVE ManagerAgrees
  <2> SUFFICES ASSUME NEW c \in Client, At(c, "receiving")
               PROVE  /\ tracked[c] = keys[c]
                      /\ Cardinality(keys[c]) <= MAX_SUBSCRIPTIONS_PER_CLIENT
    BY DEF ManagerAgrees
  <2>1. ClientOK(c)
    BY <1>1, ByClient
  <2>2. Wanted(c) = keys[c]
    BY DEF Wanted, Adding, At
  <2> QED BY <2>1, <2>2 DEF ClientOK, Away, At
<1> QED BY <1>1, HandlerInvariant, PTL

-----------------------------------------------------------------------------
(***************************************************************************)
(* A count is off by no more than the number of calls that raised.         *)
(***************************************************************************)
Drift(ch) == count[ch] - Cardinality(Uses(ch)) \in -errors..errors

(***************************************************************************)
(* The uses of a channel are finitely many.                                *)
(***************************************************************************)
LEMMA UsesAreFinite ==
  ASSUME NEW ch, NEW U \in SUBSET (Client \X Stream)
  PROVE  IsFiniteSet(U) /\ Cardinality(U) \in Nat
<1>1. IsFiniteSet(Client \X Stream)
  BY ClientAssumption, FS_Product
<1> QED BY <1>1, FS_Subset, FS_CardinalityType

(***************************************************************************)
(* A step that changes neither the counts nor the uses keeps the drift.    *)
(***************************************************************************)
LEMMA SameUses ==
  ASSUME TypeOK, TypeOK', CountsMatchHandlers, UNCHANGED count, errors' >= errors,
         \A c \in Client, st \in Stream : Counted(c, st)' <=> Counted(c, st)
  PROVE  CountsMatchHandlers'
<1> SUFFICES ASSUME NEW ch \in Channel PROVE Drift(ch)'
  BY DEF CountsMatchHandlers, Drift
<1>1. Uses(ch)' = Uses(ch)
  BY DEF Uses
<1>2. Cardinality(Uses(ch)) \in Nat
  BY UsesAreFinite DEF Uses
<1>3. /\ count[ch] \in Nat /\ errors \in Nat /\ errors' \in Nat
      /\ count[ch] - Cardinality(Uses(ch)) \in -errors..errors
  BY ErrorsAssumption DEF TypeOK, CountsMatchHandlers
<1>4. count'[ch] - Cardinality(Uses(ch)') \in -errors'..errors'
  BY <1>1, <1>2, <1>3
<1> QED BY <1>4 DEF Drift

(***************************************************************************)
(* A step that changes one use changes the uses of its channel by one, and *)
(* those of no other channel.                                              *)
(***************************************************************************)
LEMMA OneUse ==
  ASSUME TypeOK, NEW c \in Client, NEW st \in Stream, NEW ch \in Channel,
         \A d \in Client, s \in Stream :
           d # c \/ s # st => (Counted(d, s)' <=> Counted(d, s))
  PROVE  /\ ch # ChannelOf[st] => Uses(ch)' = Uses(ch)
         /\ ch = ChannelOf[st] /\ ~Counted(c, st) /\ Counted(c, st)'
              => Cardinality(Uses(ch)') = Cardinality(Uses(ch)) + 1
         /\ ch = ChannelOf[st] /\ Counted(c, st) /\ ~Counted(c, st)'
              => /\ Cardinality(Uses(ch)') = Cardinality(Uses(ch)) - 1
                 /\ Cardinality(Uses(ch)) > 0
<1> DEFINE u == <<c, st>>
<1>1. u \in Client \X Stream /\ u[1] = c /\ u[2] = st
  OBVIOUS
<1>2. \A v \in Client \X Stream : v # u => (v \in Uses(ch)' <=> v \in Uses(ch))
  <2>1. ASSUME NEW v \in Client \X Stream, v # u
        PROVE  Counted(v[1], v[2])' <=> Counted(v[1], v[2])
    <3>1. v[1] \in Client /\ v[2] \in Stream /\ (v[1] # c \/ v[2] # st)
      BY <2>1
    <3> QED BY <3>1
  <2> QED BY <2>1 DEF Uses
<1>3. /\ Uses(ch) \subseteq Client \X Stream /\ Uses(ch)' \subseteq Client \X Stream
      /\ u \in Uses(ch) <=> ChannelOf[st] = ch /\ Counted(c, st)
      /\ u \in Uses(ch)' <=> ChannelOf[st] = ch /\ Counted(c, st)'
  BY <1>1 DEF Uses
<1>4. IsFiniteSet(Uses(ch)) /\ Cardinality(Uses(ch)) \in Nat
  BY <1>3, UsesAreFinite
<1> HIDE DEF u
<1>5. ASSUME ch # ChannelOf[st] PROVE Uses(ch)' = Uses(ch)
  BY <1>2, <1>3, <1>5
<1>6. ASSUME ch = ChannelOf[st], ~Counted(c, st), Counted(c, st)'
      PROVE  Cardinality(Uses(ch)') = Cardinality(Uses(ch)) + 1
  <2>1. Uses(ch)' = Uses(ch) \cup {u} /\ u \notin Uses(ch)
    BY <1>2, <1>3, <1>6
  <2> QED BY <1>4, <2>1, FS_AddElement
<1>7. ASSUME ch = ChannelOf[st], Counted(c, st), ~Counted(c, st)'
      PROVE  /\ Cardinality(Uses(ch)') = Cardinality(Uses(ch)) - 1
             /\ Cardinality(Uses(ch)) > 0
  <2>1. Uses(ch)' = Uses(ch) \ {u} /\ u \in Uses(ch)
    BY <1>2, <1>3, <1>7
  <2>2. Cardinality(Uses(ch)) # 0
    BY <1>4, <2>1, FS_EmptySet
  <2>3. Cardinality(Uses(ch)') = Cardinality(Uses(ch)) - 1
    BY <1>4, <2>1, FS_RemoveElement
  <2> QED BY <1>4, <2>2, <2>3
<1> QED BY <1>5, <1>6, <1>7

(***************************************************************************)
(* Only its own handler changes whether a use of a client is counted.      *)
(***************************************************************************)
LEMMA OthersCounted ==
  ASSUME NEW d \in Client, NEW st \in Stream,
         handler'[d] = handler[d], keys'[d] = keys[d]
  PROVE  Counted(d, st)' <=> Counted(d, st)
BY DEF Counted, At

(***************************************************************************)
(* The handler of c moves, between places at which nothing is in the air,  *)
(* and keeps its streams: no use changes.                                  *)
(***************************************************************************)
Settled ==
  {"new", "accepting", "receiving", "subscribing", "unsubscribing", "leaving",
   "disconnecting", "gone"}

(***************************************************************************)
(* Nor does it when the handler moves between two settled places.          *)
(***************************************************************************)
LEMMA SettledStep ==
  ASSUME TypeOK, TypeOK', CountsMatchHandlers, NEW c \in Client, NEW r,
         handler' = [handler EXCEPT ![c] = r], handler[c].at \in Settled,
         r.at \in Settled, UNCHANGED <<keys, count>>, errors' >= errors
  PROVE  CountsMatchHandlers'
<1>1. handler'[c] = r /\ \A d \in Client \ {c} : handler'[d] = handler[d]
  BY Moved
<1>2. \A st \in Stream : Counted(c, st)' <=> Counted(c, st)
  BY <1>1 DEF Counted, At, Settled
<1>3. \A d \in Client, st \in Stream : Counted(d, st)' <=> Counted(d, st)
  BY <1>1, <1>2, OthersCounted
<1> QED BY <1>3, SameUses

(***************************************************************************)
(* A stream is counted, and its use begins.                                *)
(***************************************************************************)
LEMMA SubscribeNextDrift ==
  ASSUME HandlerInv, TypeOK', CountsMatchHandlers, NEW c \in Client,
         NEW st \in Stream, SubscribeNext(c, st)
  PROVE  CountsMatchHandlers'
<1>0. /\ TypeOK /\ errors' = errors /\ errors' >= errors /\ keys' = keys
      /\ handler[c].at = "subscribing"
  BY ErrorsAssumption DEF HandlerInv, TypeOK, SubscribeNext, pubsubVars, At
<1>1. CASE Loop(c, "subscribing", handler[c].todo \ {st}) /\ UNCHANGED count
  BY <1>0, <1>1, SettledStep DEF Loop, Settled
<1>2. CASE /\ st \notin keys[c]
           /\ count' = [count EXCEPT ![ChannelOf[st]] = @ + 1]
           /\ Take(c, "registering", st)
  <2>1. /\ handler'[c] = [at |-> "registering", stream |-> st,
                          todo |-> handler[c].todo \ {st}]
        /\ \A d \in Client \ {c} : handler'[d] = handler[d]
    BY <1>0, <1>2 DEF Take, TypeOK
  <2>2. ~Counted(c, st) /\ Counted(c, st)'
    BY <1>0, <1>2, <2>1 DEF Counted, At
  <2>3. \A s \in Stream : s # st => (Counted(c, s)' <=> Counted(c, s))
    BY <1>0, <2>1 DEF Counted, At
  <2>4. \A d \in Client, s \in Stream :
          d # c \/ s # st => (Counted(d, s)' <=> Counted(d, s))
    BY <1>0, <2>1, <2>3, OthersCounted
  <2> SUFFICES ASSUME NEW ch \in Channel PROVE Drift(ch)'
    BY DEF CountsMatchHandlers, Drift
  <2>5. /\ count \in [Channel -> Nat] /\ errors \in Nat
        /\ Cardinality(Uses(ch)) \in Nat
        /\ count[ch] - Cardinality(Uses(ch)) \in -errors..errors
    BY <1>0, UsesAreFinite, ErrorsAssumption DEF TypeOK, CountsMatchHandlers, Uses
  <2>6. count'[ch] = IF ch = ChannelOf[st] THEN count[ch] + 1 ELSE count[ch]
    BY <1>2, <2>5
  <2>7. Cardinality(Uses(ch)')
          = IF ch = ChannelOf[st] THEN Cardinality(Uses(ch)) + 1
                                  ELSE Cardinality(Uses(ch))
    BY <1>0, <2>2, <2>4, OneUse
  <2>8. count'[ch] - Cardinality(Uses(ch)') \in -errors..errors
    BY <2>5, <2>6, <2>7
  <2> QED BY <1>0, <2>8 DEF Drift
<1> QED BY <1>1, <1>2 DEF SubscribeNext

(***************************************************************************)
(* A use ends and its count is taken back, as far as it is there.          *)
(***************************************************************************)
LEMMA DiscountDrift ==
  ASSUME TypeOK, CountsMatchHandlers, NEW c \in Client, NEW st \in Stream,
         Decrement(ChannelOf[st]), errors' = errors,
         Counted(c, st), ~Counted(c, st)',
         \A d \in Client, s \in Stream :
           d # c \/ s # st => (Counted(d, s)' <=> Counted(d, s))
  PROVE  CountsMatchHandlers'
<1> SUFFICES ASSUME NEW ch \in Channel PROVE Drift(ch)'
  BY DEF CountsMatchHandlers, Drift
<1>1. /\ count \in [Channel -> Nat] /\ errors \in Nat
      /\ Cardinality(Uses(ch)) \in Nat
      /\ count[ch] - Cardinality(Uses(ch)) \in -errors..errors
  BY UsesAreFinite, ErrorsAssumption DEF TypeOK, CountsMatchHandlers, Uses
<1>2. count'[ch] = IF ch # ChannelOf[st] THEN count[ch]
                   ELSE IF count[ch] > 1 THEN count[ch] - 1 ELSE 0
  BY <1>1 DEF Decrement
<1>3. CASE ch = ChannelOf[st]
  <2>1. /\ Cardinality(Uses(ch)') = Cardinality(Uses(ch)) - 1
        /\ Cardinality(Uses(ch)) > 0
    BY <1>3, OneUse
  <2>2. count'[ch] - Cardinality(Uses(ch)') \in -errors..errors
    BY <1>1, <1>2, <1>3, <2>1
  <2> QED BY <2>2 DEF Drift
<1>4. CASE ch # ChannelOf[st]
  <2>1. Uses(ch)' = Uses(ch)
    BY <1>4, OneUse
  <2>2. count'[ch] - Cardinality(Uses(ch)') \in -errors..errors
    BY <1>1, <1>2, <1>4, <2>1
  <2> QED BY <2>2 DEF Drift
<1> QED BY <1>3, <1>4

(***************************************************************************)
(* A call to Pub/Sub raises: a use begins or ends without its count, and   *)
(* there is one more error to account for it.                              *)
(***************************************************************************)
LEMMA RaisedDrift ==
  ASSUME TypeOK, CountsMatchHandlers, NEW c \in Client, NEW st \in Stream,
         UNCHANGED count, errors' = errors + 1,
         Counted(c, st)' <=> ~Counted(c, st),
         \A d \in Client, s \in Stream :
           d # c \/ s # st => (Counted(d, s)' <=> Counted(d, s))
  PROVE  CountsMatchHandlers'
<1> SUFFICES ASSUME NEW ch \in Channel PROVE Drift(ch)'
  BY DEF CountsMatchHandlers, Drift
<1>1. /\ count[ch] \in Nat /\ errors \in Nat
      /\ Cardinality(Uses(ch)) \in Nat
      /\ count[ch] - Cardinality(Uses(ch)) \in -errors..errors
  BY UsesAreFinite, ErrorsAssumption DEF TypeOK, CountsMatchHandlers, Uses
<1>2. \/ Cardinality(Uses(ch)') = Cardinality(Uses(ch))
      \/ Cardinality(Uses(ch)') = Cardinality(Uses(ch)) + 1
      \/ Cardinality(Uses(ch)') = Cardinality(Uses(ch)) - 1
  BY OneUse
<1>3. count'[ch] - Cardinality(Uses(ch)') \in -errors'..errors'
  BY <1>1, <1>2
<1> QED BY <1>3 DEF Drift

(***************************************************************************)
(* Every step keeps the drift within the errors.                           *)
(***************************************************************************)
LEMMA DriftNext ==
  ASSUME HandlerInv, CountsMatchHandlers, [Next]_vars
  PROVE  CountsMatchHandlers'
<1> USE DEF pubsubVars
<1>0. TypeOK /\ TypeOK' /\ \A c \in Client : ClientOK(c)
  BY TypeStep, ByClient DEF HandlerInv
<1>1. ASSUME UNCHANGED <<handler, keys, count, errors>> PROVE CountsMatchHandlers'
  <2>1. errors' >= errors
    BY <1>0, <1>1, ErrorsAssumption DEF TypeOK
  <2>2. \A d \in Client, st \in Stream : Counted(d, st)' <=> Counted(d, st)
    BY <1>1, OthersCounted
  <2> QED BY <1>0, <1>1, <2>1, <2>2, SameUses
<1>2. ASSUME NEW c \in Client, NEW r, handler' = [handler EXCEPT ![c] = r],
             handler[c].at \in Settled, r.at \in Settled,
             UNCHANGED <<keys, count>>, errors' = errors \/ errors' = errors + 1
      PROVE  CountsMatchHandlers'
  <2>1. errors' >= errors
    BY <1>0, <1>2, ErrorsAssumption DEF TypeOK
  <2> QED BY <1>0, <1>2, <2>1, SettledStep
<1>3. ASSUME NEW c \in Client, NEW r, handler' = [handler EXCEPT ![c] = r],
             UNCHANGED <<count, errors>>,
             \A d \in Client \ {c} : keys'[d] = keys[d],
             \A st \in Stream : Counted(c, st)' <=> Counted(c, st)
      PROVE  CountsMatchHandlers'
  <2>1. \A d \in Client \ {c} : handler'[d] = handler[d]
    BY <1>0, <1>3, Moved
  <2>2. \A d \in Client, st \in Stream : Counted(d, st)' <=> Counted(d, st)
    BY <1>3, <2>1, OthersCounted
  <2>3. errors' >= errors
    BY <1>0, <1>3, ErrorsAssumption DEF TypeOK
  <2> QED BY <1>0, <1>3, <2>2, <2>3, SameUses
<1>4. ASSUME NEW c \in Client, Progress(c) PROVE CountsMatchHandlers'
  <2>1. CASE Accepted(c) \/ Respond(c) \/ Leave(c) \/ LeaveRaises(c) \/ Disconnect(c)
    BY <1>2, <2>1 DEF Accepted, Registered, Respond, Leave, LeaveRaises, Disconnect,
       Raise, Goto, At, Settled
  <2>2. ASSUME NEW st \in Stream, SubscribeNext(c, st) PROVE CountsMatchHandlers'
    BY <1>0, <2>2, SubscribeNextDrift
  <2>3. ASSUME NEW st \in Stream, UnsubscribeNext(c, st) PROVE CountsMatchHandlers'
    <3>0. errors' = errors /\ keys' = keys /\ handler[c].at = "unsubscribing"
      BY <2>3 DEF UnsubscribeNext, At
    <3>1. CASE Loop(c, "unsubscribing", handler[c].todo \ {st}) /\ UNCHANGED count
      BY <1>2, <3>0, <3>1 DEF Loop, Settled
    <3>2. CASE /\ st \in keys[c] /\ Decrement(ChannelOf[st])
               /\ Take(c, "unregistering", st)
      <4>1. /\ handler'[c] = [at |-> "unregistering", stream |-> st,
                              todo |-> handler[c].todo \ {st}]
            /\ \A d \in Client \ {c} : handler'[d] = handler[d]
        BY <1>0, <3>2 DEF Take, TypeOK
      <4>2. Counted(c, st) /\ ~Counted(c, st)'
        BY <3>0, <3>2, <4>1 DEF Counted, At
      <4>3. \A s \in Stream : s # st => (Counted(c, s)' <=> Counted(c, s))
        BY <3>0, <4>1 DEF Counted, At
      <4>4. \A d \in Client, s \in Stream :
              d # c \/ s # st => (Counted(d, s)' <=> Counted(d, s))
        BY <3>0, <4>1, <4>3, OthersCounted
      <4> QED BY <1>0, <3>0, <3>2, <4>2, <4>4, DiscountDrift
    <3> QED BY <2>3, <3>1, <3>2 DEF UnsubscribeNext
  <2>4. ASSUME NEW st \in Stream, CleanupNext(c, st) PROVE CountsMatchHandlers'
    <3>1. /\ handler[c].at = "cleaning" /\ st \in handler[c].todo
          /\ Decrement(ChannelOf[st]) /\ keys' = keys /\ errors' = errors
      BY <2>4 DEF CleanupNext, At
    <3>2. /\ handler'[c] = [at |-> "cleaning", stream |-> NoStream,
                            todo |-> handler[c].todo \ {st}]
          /\ \A d \in Client \ {c} : handler'[d] = handler[d]
      BY <1>0, <2>4, Moved DEF CleanupNext, Loop
    <3>3. handler[c].todo \subseteq keys[c]
      BY <1>0, <3>1 DEF ClientOK, At
    <3>4. Counted(c, st) /\ ~Counted(c, st)'
      BY <3>1, <3>2, <3>3 DEF Counted, At
    <3>5. \A s \in Stream : s # st => (Counted(c, s)' <=> Counted(c, s))
      BY <3>1, <3>2 DEF Counted, At
    <3>6. \A d \in Client, s \in Stream :
            d # c \/ s # st => (Counted(d, s)' <=> Counted(d, s))
      BY <3>1, <3>2, <3>5, OthersCounted
    <3> QED BY <1>0, <3>1, <3>4, <3>6, DiscountDrift
  <2>5. CASE Register(c) \/ Unregister(c)
    <3>1. PICK place \in {"ensuring", "releasing"} :
            /\ handler[c].at = IF place = "ensuring" THEN "registering"
                                                     ELSE "unregistering"
            /\ handler' = [handler EXCEPT ![c] = [at |-> place,
                             stream |-> handler[c].stream, todo |-> handler[c].todo]]
      BY <1>0, <2>5 DEF Register, Unregister, Continue, At, TypeOK
    <3>2. /\ handler'[c] = [at |-> place, stream |-> handler[c].stream,
                            todo |-> handler[c].todo]
          /\ UNCHANGED <<keys, count, errors>>
      BY <1>0, <2>5, <3>1, Moved DEF Register, Unregister
    <3>3. \A st \in Stream : Counted(c, st)' <=> Counted(c, st)
      BY <3>1, <3>2 DEF Counted, At
    <3> QED BY <1>3, <3>1, <3>2, <3>3
  <2>6. CASE RegisterRaises(c) \/ UnregisterRaises(c)
    <3>0. handler[c].stream \in Stream
      BY <1>0, <2>6 DEF RegisterRaises, UnregisterRaises, At, ClientOK, Adding, TypeOK
    <3> PICK st \in Stream : st = handler[c].stream
      BY <3>0
    <3>1. /\ UNCHANGED <<keys, count>> /\ errors' = errors + 1
          /\ \/ handler[c].at = "registering" /\ st \notin keys[c]
             \/ handler[c].at = "unregistering" /\ st \in keys[c]
      BY <1>0, <2>6 DEF RegisterRaises, UnregisterRaises, Raise, At, ClientOK, Adding
    <3>2. /\ handler'[c] = [at |-> "receiving", stream |-> NoStream, todo |-> {}]
          /\ \A d \in Client \ {c} : handler'[d] = handler[d]
      BY <1>0, <2>6, Moved DEF RegisterRaises, UnregisterRaises, Goto
    <3>3. Counted(c, st)' <=> ~Counted(c, st)
      BY <3>1, <3>2 DEF Counted, At
    <3>4. \A s \in Stream : s # st => (Counted(c, s)' <=> Counted(c, s))
      BY <3>1, <3>2 DEF Counted, At
    <3>5. \A d \in Client, s \in Stream :
            d # c \/ s # st => (Counted(d, s)' <=> Counted(d, s))
      BY <3>1, <3>2, <3>4, OthersCounted
    <3> QED BY <1>0, <3>1, <3>3, <3>5, RaisedDrift
  <2>7. CASE Subscribed(c) \/ Unsubscribed(c)
    <3> DEFINE st == handler[c].stream
    <3>1. PICK place \in {"subscribing", "unsubscribing"} :
            Loop(c, place, handler[c].todo)
      BY <2>7 DEF Subscribed, Unsubscribed
    <3>2. /\ UNCHANGED <<count, errors>>
          /\ \A d \in Client \ {c} : keys'[d] = keys[d]
          /\ \/ handler[c].at = "ensuring" /\ keys'[c] = keys[c] \cup {st}
             \/ handler[c].at = "releasing" /\ keys'[c] = keys[c] \ {st}
      BY <1>0, <2>7 DEF Subscribed, Unsubscribed, At, TypeOK
    <3>3. /\ handler'[c] = [at |-> place, stream |-> NoStream, todo |-> handler[c].todo]
          /\ \A d \in Client \ {c} : handler'[d] = handler[d]
      BY <1>0, <3>1, Moved DEF Loop
    <3>4. \A s \in Stream : Counted(c, s)' <=> Counted(c, s)
      BY <3>2, <3>3 DEF Counted, At
    <3> QED BY <1>3, <3>1, <3>2, <3>4 DEF Loop
  <2>8. CASE Cleanup(c)
    <3>1. handler'[c] = [at |-> "cleaning", stream |-> NoStream, todo |-> keys[c]]
      BY <1>0, <2>8, Moved DEF Cleanup, Loop
    <3>2. \A s \in Stream : Counted(c, s)' <=> Counted(c, s)
      BY <2>8, <3>1 DEF Cleanup, Counted, At
    <3> QED BY <1>3, <2>8, <3>2 DEF Cleanup, Loop
  <2>9. CASE CleanupClears(c)
    <3>1. /\ handler'[c] = [at |-> "leaving", stream |-> NoStream, todo |-> {}]
          /\ keys'[c] = {} /\ \A d \in Client \ {c} : keys'[d] = keys[d]
          /\ handler[c].at = "cleaning" /\ handler[c].todo = {}
      BY <1>0, <2>9, Moved DEF CleanupClears, Goto, At, TypeOK
    <3>2. \A s \in Stream : Counted(c, s)' <=> Counted(c, s)
      BY <3>1 DEF Counted, At
    <3> QED BY <1>3, <2>9, <3>1, <3>2 DEF CleanupClears, Goto
  <2> QED BY <1>4, <2>1, <2>2, <2>3, <2>4, <2>5, <2>6, <2>7, <2>8, <2>9 DEF Progress
<1>5. ASSUME NEW c \in Client, Environment(c) PROVE CountsMatchHandlers'
  <2>1. CASE Connect(c) \/ Return(c)
    BY <1>2, <2>1 DEF Connect, Registered, Return, Goto, At, Settled
  <2>2. CASE Close(c) \/ BecomeIdle(c)
    BY <1>1, <2>2 DEF Close, BecomeIdle
  <2>3. ASSUME NEW place \in {"subscribing", "unsubscribing"},
               NEW args \in SUBSET Stream, Receive(c, place, args)
        PROVE  CountsMatchHandlers'
    BY <1>1, <1>2, <2>3 DEF Receive, Loop, At, Settled
  <2> QED BY <1>5, <2>1, <2>2, <2>3 DEF Environment
<1>6. ASSUME FindIdle \/ (\E c \in Client : CloseIdle(c)) \/ ListenEnds \/ UNCHANGED vars
      PROVE  CountsMatchHandlers'
  BY <1>1, <1>6 DEF FindIdle, CloseIdle, ListenEnds, vars
<1> QED BY <1>4, <1>5, <1>6 DEF Next, TaskRuns, Spin

(***************************************************************************)
(* Whatever requests, disconnects and idle closes overlap, a count is off  *)
(* by at most one for each call to Pub/Sub that raised.                    *)
(***************************************************************************)
THEOREM CountsDriftByErrorsOnly == Spec => []CountsMatchHandlers
<1>1. Init => CountsMatchHandlers
  <2> SUFFICES ASSUME Init, NEW ch \in Channel PROVE Drift(ch)
    BY DEF CountsMatchHandlers, Drift
  <2>1. Uses(ch) = {}
    BY DEF Init, Uses, Counted, At
  <2>2. count[ch] = 0 /\ errors = 0 /\ Cardinality(Uses(ch)) = 0
    BY <2>1, FS_EmptySet DEF Init
  <2> QED BY <2>2 DEF Drift
<1>2. HandlerInv /\ CountsMatchHandlers /\ [Next]_vars => CountsMatchHandlers'
  BY DriftNext
<1> QED BY <1>1, <1>2, HandlerInvariant, PTL DEF Spec

-----------------------------------------------------------------------------
(***************************************************************************)
(* No two streams share a channel: the case that StreamIsFed needs.        *)
(***************************************************************************)
Injective == \A s, t \in Stream : ChannelOf[s] = ChannelOf[t] => s = t

(***************************************************************************)
(* While nothing raised, Pub/Sub calls a client for every stream it has,   *)
(* but for the one it is giving up, and for the one it is about to get.    *)
(***************************************************************************)
FedClient(c) ==
  /\ \A st \in keys[c] :
       \/ c \in callbacks[ChannelOf[st]]
       \/ (handler[c].at = "releasing" /\ handler[c].stream = st)
  /\ handler[c].at = "ensuring" => c \in callbacks[Here(c)]

Fed == errors = 0 => \A c \in Client : FedClient(c)

(***************************************************************************)
(* Pub/Sub still calls the other clients, whatever the handler of c does.  *)
(***************************************************************************)
LEMMA OthersFed ==
  ASSUME TypeOK, Fed, errors = 0, NEW c \in Client, FedClient(c)',
         \A d \in Client \ {c} :
           /\ handler'[d] = handler[d] /\ keys'[d] = keys[d]
           /\ \A ch \in Channel : d \in callbacks[ch] => d \in callbacks'[ch],
         \A d \in Client : handler[d].at = "ensuring" => handler[d].stream \in Stream
  PROVE  Fed'
<1> SUFFICES ASSUME NEW d \in Client \ {c} PROVE FedClient(d)'
  BY DEF Fed
<1>1. FedClient(d)
  BY DEF Fed
<1>2. \A st \in Stream : ChannelOf[st] \in Channel
  BY ChannelAssumption
<1>3. keys[d] \subseteq Stream
  BY DEF TypeOK
<1> QED BY <1>1, <1>2, <1>3 DEF FedClient, Here

(***************************************************************************)
(* A client that moves without losing a callback, to a place where nothing *)
(* is in the air, is fed as it was.                                        *)
(***************************************************************************)
LEMMA FedMove ==
  ASSUME TypeOK, NEW c \in Client, FedClient(c), NEW r,
         handler' = [handler EXCEPT ![c] = r], UNCHANGED <<keys, callbacks>>,
         handler[c].at # "releasing", r.at # "ensuring"
  PROVE  FedClient(c)'
<1>1. handler'[c].at # "ensuring"
  BY Moved
<1>2. \A st \in keys[c] : c \in callbacks[ChannelOf[st]]
  BY DEF FedClient
<1>3. keys' = keys /\ callbacks' = callbacks
  OBVIOUS
<1> QED BY <1>1, <1>2, <1>3 DEF FedClient

(***************************************************************************)
(* Every step keeps the clients fed.                                       *)
(***************************************************************************)
LEMMA FedNext ==
  ASSUME Injective, HandlerInv, Fed, [Next]_vars
  PROVE  Fed'
<1> USE DEF pubsubVars
<1>0. /\ TypeOK /\ TypeOK' /\ (\A c \in Client : ClientOK(c))
      /\ \A d \in Client : handler[d].at = "ensuring" => handler[d].stream \in Stream
  BY TypeStep, ByClient DEF HandlerInv, ClientOK, Adding
<1>1. ASSUME UNCHANGED <<handler, keys, callbacks, errors>> PROVE Fed'
  BY <1>1 DEF Fed, FedClient, Here
<1>2. ASSUME NEW c \in Client, NEW r, handler' = [handler EXCEPT ![c] = r],
             UNCHANGED <<keys, callbacks, errors>>,
             handler[c].at # "releasing", r.at # "ensuring"
      PROVE  Fed'
  <2>1. ASSUME errors = 0 PROVE Fed'
    <3>1. FedClient(c)'
      BY <1>0, <1>2, <2>1, FedMove DEF Fed
    <3> QED BY <1>0, <1>2, <2>1, <3>1, OthersFed, Moved
  <2> QED BY <1>2, <2>1 DEF Fed
<1>3. ASSUME Raise PROVE Fed'
  BY <1>0, <1>3, ErrorsAssumption DEF Raise, Fed, TypeOK
<1>4. ASSUME NEW c \in Client, errors' = errors,
             \A d \in Client \ {c} :
               /\ handler'[d] = handler[d] /\ keys'[d] = keys[d]
               /\ \A ch \in Channel : d \in callbacks[ch] => d \in callbacks'[ch],
             errors = 0 => FedClient(c)'
      PROVE  Fed'
  <2>1. CASE errors = 0
    BY <1>0, <1>4, <2>1, OthersFed
  <2> QED BY <1>4, <2>1 DEF Fed
<1>5. ASSUME NEW c \in Client, Progress(c) PROVE Fed'
  <2>0. /\ keys[c] \subseteq Stream /\ callbacks \in [Channel -> SUBSET Client]
        /\ \A st \in Stream : ChannelOf[st] \in Channel
    BY <1>0, ChannelAssumption DEF TypeOK
  <2>1. CASE Accepted(c) \/ Respond(c) \/ Cleanup(c) \/ Disconnect(c)
    BY <1>2, <2>1 DEF Accepted, Registered, Respond, Cleanup, Disconnect, Goto,
       Loop, At
  <2>2. ASSUME NEW st \in Stream,
               SubscribeNext(c, st) \/ UnsubscribeNext(c, st) \/ CleanupNext(c, st)
        PROVE  Fed'
    <3>1. PICK r : /\ handler' = [handler EXCEPT ![c] = r]
                   /\ r.at # "ensuring"
      <4>1. ASSUME NEW place \in {"subscribing", "unsubscribing", "cleaning"},
                   Loop(c, place, handler[c].todo \ {st})
            PROVE  \E r : handler' = [handler EXCEPT ![c] = r] /\ r.at # "ensuring"
        <5> DEFINE r == [at |-> place, stream |-> NoStream,
                         todo |-> handler[c].todo \ {st}]
        <5>1. handler' = [handler EXCEPT ![c] = r] /\ r.at # "ensuring"
          BY <4>1 DEF Loop
        <5> QED BY <5>1
      <4>2. ASSUME NEW place \in {"registering", "unregistering"}, Take(c, place, st)
            PROVE  \E r : handler' = [handler EXCEPT ![c] = r] /\ r.at # "ensuring"
        <5> DEFINE r == [at |-> place, stream |-> st, todo |-> handler[c].todo \ {st}]
        <5>1. handler' = [handler EXCEPT ![c] = r] /\ r.at # "ensuring"
          BY <1>0, <4>2 DEF Take, TypeOK
        <5> QED BY <5>1
      <4> QED BY <2>2, <4>1, <4>2 DEF SubscribeNext, UnsubscribeNext, CleanupNext
    <3> QED BY <1>2, <2>2, <3>1 DEF SubscribeNext, UnsubscribeNext, CleanupNext, At
  <2>3. CASE Register(c)
    <3>1. /\ handler'[c].at = "ensuring" /\ handler'[c].stream = handler[c].stream
          /\ \A d \in Client \ {c} : handler'[d] = handler[d]
          /\ handler[c].at = "registering"
      BY <1>0, <2>3 DEF Register, Continue, TypeOK, At
    <3>2. /\ callbacks' = [callbacks EXCEPT ![Here(c)] = @ \cup {c}]
          /\ UNCHANGED <<keys, errors>>
      BY <2>3 DEF Register
    <3>3. handler[c].stream \in Stream
      BY <1>0, <3>1 DEF ClientOK, Adding
    <3>4. c \in callbacks'[ChannelOf[handler[c].stream]]
      BY <2>0, <3>2, <3>3 DEF Here
    <3>5. \A d \in Client, ch \in Channel : d \in callbacks[ch] => d \in callbacks'[ch]
      BY <2>0, <3>2
    <3>6. errors = 0 => FedClient(c)'
      BY <2>0, <3>1, <3>2, <3>4, <3>5 DEF Fed, FedClient, Here
    <3> QED BY <1>4, <3>1, <3>2, <3>5, <3>6
  <2>4. CASE RegisterRaises(c) \/ UnregisterRaises(c) \/ LeaveRaises(c)
    BY <1>3, <2>4 DEF RegisterRaises, UnregisterRaises, LeaveRaises
  <2>5. CASE Subscribed(c)
    <3>1. /\ handler'[c].at = "subscribing"
          /\ \A d \in Client \ {c} : handler'[d] = handler[d]
          /\ keys'[c] = keys[c] \cup {handler[c].stream}
          /\ \A d \in Client \ {c} : keys'[d] = keys[d]
          /\ handler[c].at = "ensuring" /\ UNCHANGED <<callbacks, errors>>
      BY <1>0, <2>5, Moved DEF Subscribed, Loop, TypeOK, At
    <3>2. ASSUME errors = 0 PROVE FedClient(c)'
      <4>1. \A st \in keys'[c] : c \in callbacks[ChannelOf[st]]
        BY <3>1, <3>2 DEF Fed, FedClient, Here
      <4>2. handler'[c].at # "ensuring" /\ callbacks' = callbacks
        BY <3>1
      <4> QED BY <4>1, <4>2 DEF FedClient
    <3> QED BY <1>4, <3>1, <3>2
  <2>6. CASE Unregister(c)
    <3>1. /\ handler'[c].at = "releasing" /\ handler'[c].stream = handler[c].stream
          /\ \A d \in Client \ {c} : handler'[d] = handler[d]
          /\ handler[c].at = "unregistering"
      BY <1>0, <2>6 DEF Unregister, Continue, TypeOK, At
    <3>2. /\ callbacks' = [callbacks EXCEPT ![Here(c)] = @ \ {c}]
          /\ UNCHANGED <<keys, errors>>
      BY <2>6 DEF Unregister
    <3>3. handler[c].stream \in keys[c]
      BY <1>0, <3>1 DEF ClientOK
    <3>4. \A d \in Client \ {c}, ch \in Channel :
            d \in callbacks[ch] => d \in callbacks'[ch]
      BY <2>0, <3>2
    <3>5. \A st \in keys[c] : st # handler[c].stream =>
            (c \in callbacks[ChannelOf[st]] => c \in callbacks'[ChannelOf[st]])
      BY <2>0, <3>2, <3>3 DEF Injective, Here
    <3>6. errors = 0 => FedClient(c)'
      BY <3>1, <3>2, <3>5 DEF Fed, FedClient
    <3> QED BY <1>4, <3>1, <3>2, <3>4, <3>6
  <2>7. CASE Unsubscribed(c)
    <3>1. /\ handler'[c].at = "unsubscribing"
          /\ \A d \in Client \ {c} : handler'[d] = handler[d]
          /\ keys'[c] = keys[c] \ {handler[c].stream}
          /\ \A d \in Client \ {c} : keys'[d] = keys[d]
          /\ UNCHANGED <<callbacks, errors>>
      BY <1>0, <2>7, Moved DEF Unsubscribed, Loop, TypeOK
    <3>2. errors = 0 => FedClient(c)'
      BY <3>1 DEF Fed, FedClient
    <3> QED BY <1>4, <3>1, <3>2
  <2>8. CASE CleanupClears(c) \/ Leave(c)
    <3>0. errors' = errors
      BY <2>8 DEF CleanupClears, Leave
    <3>1. /\ handler'[c].at \in {"leaving", "disconnecting"}
          /\ \A d \in Client \ {c} : handler'[d] = handler[d]
      <4>1. PICK place \in {"leaving", "disconnecting"} : Goto(c, place)
        BY <2>8 DEF CleanupClears, Leave
      <4>2. /\ handler'[c] = [at |-> place, stream |-> NoStream, todo |-> {}]
            /\ \A d \in Client \ {c} : handler'[d] = handler[d]
        BY <1>0, <4>1, Moved DEF Goto
      <4> QED BY <4>1, <4>2
    <3>2. keys'[c] = {} /\ \A d \in Client \ {c} : keys'[d] = keys[d]
      BY <1>0, <2>8 DEF CleanupClears, Leave, TypeOK, ClientOK, At, Away
    <3>3. \A d \in Client \ {c}, ch \in Channel :
            d \in callbacks[ch] => d \in callbacks'[ch]
      BY <2>8 DEF CleanupClears, Leave, Forget
    <3>4. FedClient(c)'
      BY <3>1, <3>2 DEF FedClient
    <3> QED BY <1>4, <3>0, <3>1, <3>2, <3>3, <3>4
  <2> QED BY <1>5, <2>1, <2>2, <2>3, <2>4, <2>5, <2>6, <2>7, <2>8 DEF Progress
<1>6. ASSUME NEW c \in Client, Environment(c) PROVE Fed'
  <2>1. CASE Connect(c) \/ Return(c)
    BY <1>2, <2>1 DEF Connect, Registered, Return, Goto, At
  <2>2. CASE Close(c) \/ BecomeIdle(c)
    BY <1>1, <2>2 DEF Close, BecomeIdle
  <2>3. ASSUME NEW place \in {"subscribing", "unsubscribing"},
               NEW args \in SUBSET Stream, Receive(c, place, args)
        PROVE  Fed'
    BY <1>1, <1>2, <2>3 DEF Receive, Loop, At
  <2> QED BY <1>6, <2>1, <2>2, <2>3 DEF Environment
<1>7. ASSUME FindIdle \/ (\E c \in Client : CloseIdle(c)) \/ ListenEnds \/ UNCHANGED vars
      PROVE  Fed'
  BY <1>1, <1>7 DEF FindIdle, CloseIdle, ListenEnds, vars
<1> QED BY <1>5, <1>6, <1>7 DEF Next, TaskRuns, Spin

(***************************************************************************)
(* Where no two streams share a channel, a client is called for every      *)
(* stream it was told it has, as long as Pub/Sub has not raised.           *)
(***************************************************************************)
THEOREM StreamsAreFed == ASSUME Injective PROVE Spec => []StreamIsFed
<1>1. Init => Fed
  BY DEF Init, Fed, FedClient
<1>2. HandlerInv /\ Fed /\ [Next]_vars => Fed'
  BY FedNext
<1>3. Fed => StreamIsFed
  BY DEF Fed, FedClient, StreamIsFed, At
<1> QED BY <1>1, <1>2, <1>3, HandlerInvariant, PTL DEF Spec

=============================================================================
