------------------------------ MODULE Requests ------------------------------
(***************************************************************************)
(* One client's stream of requests, from receive_text to the counts and    *)
(* the channels, and Bybit's tickers on their way back to the client:      *)
(* check_receive_rate of app/websocket/manager.py, handle,                 *)
(* _handle_message, _handle_subscribe, _handle_unsubscribe and _cleanup of *)
(* app/websocket/handler.py, over the names of module Streams and the      *)
(* messages of module Transformer.                                         *)
(*                                                                         *)
(* A request is worked through one argument at a time, as the code does,   *)
(* with other things happening in between.  What can happen between the    *)
(* calls that one argument takes is in module ClientHandler, which knows   *)
(* streams as model values.  This module is about the values: what is read *)
(* out of an argument, a key or a topic, and when a request is turned      *)
(* away.  It follows one client through one connection after another.      *)
(***************************************************************************)
EXTENDS Transformer

CONSTANTS
  ArgLists,                      \* the lists of arguments of the client's requests
  OtherCounts,                   \* the counts that other clients hold
  Feed,                          \* the ticker Bybit sends
  Fields,                        \* the fields of it that change
  Values,                        \* their values
  MAX_SUBSCRIPTIONS_PER_CLIENT,  \* see config.py
  MAX_MESSAGE_RATE_PER_CLIENT,   \* see config.py
  SECOND,                        \* the ticks of the clock in one second
  Horizon,                       \* bound on the clock
  MaxConnections                 \* bound on the connections of the client

ASSUME LimitsAssumption ==
  MAX_SUBSCRIPTIONS_PER_CLIENT \in Nat /\ MAX_MESSAGE_RATE_PER_CLIENT \in Nat
ASSUME ClockAssumption == SECOND \in Nat \ {0} /\ Horizon \in Nat
ASSUME ConnectionsAssumption == MaxConnections \in Nat

(***************************************************************************)
(* The streams the client may ask for, and their channels.                 *)
(***************************************************************************)
Args == UNION {Range(args) : args \in ArgLists}
Words == UNION {Range(arg) : arg \in Args}

Named == {ParseStreamArg(arg) : arg \in Args} \ {Rejected}

Channels == {MakeChannel(s) : s \in Named}

(***************************************************************************)
(* A request without arguments is answered with an error at once: it is an *)
(* OtherMessage.                                                           *)
(***************************************************************************)
ASSUME ArgListsAssumption ==
  /\ ArgLists \subseteq Seq(Args) \ {<<>>}
  /\ Args \subseteq Seq(Words)
ASSUME OtherCountsAssumption == OtherCounts \in [Channels -> Nat]
ASSUME FeedAssumption ==
  Feed \in Named /\ Feed.type = "ticker" /\ ~Contains(Feed.symbol, ".")
ASSUME ValuesAssumption == Values \subseteq Int

VARIABLES
  now,          \* the clock, in ticks
  connections,  \* connections the client has opened; the last one is open or closed
  open,         \* the client is connected
  windowStart,  \* _receive_window_start
  receiveCount, \* _receive_count
  accepted,     \* when each message of this connection that was let through came
  held,         \* held[k]: the stream whose argument put k in _subscribed_keys
  granted,      \* streams reported as subscribed and not unsubscribed since
  left,         \* channels the client gave up since it last registered on them
  registered,   \* channels of which Pub/Sub calls this client
  counts,       \* the counts in Redis
  strayed,      \* keys given back under another name than they were counted under
  ticker,       \* the fields of Feed at Bybit
  sent,         \* the fields that Bybit's last message carried
  view,         \* what the client knows of Feed: every update laid over the last
  op,           \* what the handler is busy with
  todo,         \* the arguments of the request that are still to be gone through
  returning     \* the keys that _cleanup has still to give back

rateVars == <<windowStart, receiveCount, accepted>>
streamVars == <<held, granted, left, registered, counts, strayed>>
tickerVars == <<ticker, sent>>
workVars == <<op, todo, returning>>
vars == <<now, connections, open, rateVars, streamVars, tickerVars, view, workVars>>

Keys == DOMAIN held
Nowhere == [k \in {} |-> 0]   \* nothing is held, nothing is known

Init ==
  /\ now = 0 /\ connections = 0 /\ open = FALSE
  /\ windowStart = 0 /\ receiveCount = 0 /\ accepted = <<>>
  /\ held = Nowhere /\ granted = {} /\ left = {} /\ registered = {}
  /\ counts = OtherCounts /\ strayed = 0
  /\ ticker \in [Fields -> Values] /\ sent = {}
  /\ view = Nowhere
  /\ op = "none" /\ todo = <<>> /\ returning = {}

Tick ==
  /\ now < Horizon
  /\ now' = now + 1
  /\ UNCHANGED <<connections, open, rateVars, streamVars, tickerVars, view, workVars>>

(***************************************************************************)
(* The window of a connection starts when ClientState is made.             *)
(***************************************************************************)
Connect ==
  /\ ~open /\ op = "none" /\ connections < MaxConnections
  /\ open' = TRUE /\ connections' = connections + 1
  /\ windowStart' = now /\ receiveCount' = 0 /\ accepted' = <<>>
  /\ UNCHANGED <<now, streamVars, tickerVars, view, workVars>>

(***************************************************************************)
(* check_receive_rate.  accepted is not in the code: it remembers when     *)
(* each message of the connection came that was let through.               *)
(***************************************************************************)
Received(window, count) ==
  LET allowed == count <= MAX_MESSAGE_RATE_PER_CLIENT
  IN  /\ windowStart' = window
      /\ receiveCount' = count
      /\ accepted' = (IF allowed THEN Append(accepted, now) ELSE accepted)

Expired == now - windowStart >= SECOND

(***************************************************************************)
(* Mutant: the count starts anew and the window does not.                  *)
(***************************************************************************)
CheckReceiveRateOfFirstWindow ==
  IF Expired THEN Received(windowStart, 1) ELSE Received(windowStart, receiveCount + 1)

CheckReceiveRate ==
  IF Expired THEN Received(now, 1) ELSE Received(windowStart, receiveCount + 1)

(***************************************************************************)
(* A key that is put into the set, and one that is taken out.              *)
(***************************************************************************)
Added(key, s, f) == [k \in DOMAIN f \cup {key} |-> IF k = key THEN s ELSE f[k]]
Gone(key, f) == [k \in DOMAIN f \ {key} |-> f[k]]

(***************************************************************************)
(* One argument of a subscribe request.  A key that is in the set already  *)
(* is reported as subscribed and that is all.                              *)
(***************************************************************************)
SubscribeOne(s) ==
  LET key == MakeStreamKey(s)
      channel == MakeChannel(s)
  IN  /\ granted' = granted \cup {s}
      /\ IF key \in Keys
         THEN UNCHANGED <<held, left, registered, counts, strayed, view>>
         ELSE /\ held' = Added(key, s, held)
              /\ left' = left \ {channel}
              /\ registered' = registered \cup {channel}
              /\ counts' = [counts EXCEPT ![channel] = @ + 1]
              /\ UNCHANGED <<strayed, view>>

(***************************************************************************)
(* Mutant: the count goes below zero.                                      *)
(***************************************************************************)
DecrementedNegative(count) == count - 1

(***************************************************************************)
(* decrement: the count goes down and not below zero.                      *)
(***************************************************************************)
Decremented(count) == IF count > 1 THEN count - 1 ELSE 0

(***************************************************************************)
(* A key given back as stream s.  It strays when it was counted under      *)
(* another channel, for the ":" in the symbol of one of the two.           *)
(***************************************************************************)
Has(text, word) == Contains(text, word)

Strays(s, t) ==
  MakeChannel(s) # MakeChannel(t) /\ (Has(s.symbol, ":") \/ Has(t.symbol, ":"))

GiveBack(key, s) ==
  /\ counts' = [counts EXCEPT ![MakeChannel(s)] = Decremented(@)]
  /\ strayed' = (IF Strays(s, held[key]) THEN strayed + 1 ELSE strayed)

(***************************************************************************)
(* One argument of an unsubscribe request.  A client that is taken out of  *)
(* the channel of Feed hears of it no more.                                *)
(***************************************************************************)
UnsubscribeOne(s) ==
  LET key == MakeStreamKey(s)
      channel == MakeChannel(s)
  IN  IF key \notin Keys
      THEN UNCHANGED <<streamVars, view>>
      ELSE /\ GiveBack(key, s)
           /\ held' = Gone(key, held)
           /\ granted' = granted \ {s}
           /\ left' = left \cup {channel}
           /\ registered' = registered \ {channel}
           /\ view' = (IF channel = MakeChannel(Feed) THEN Nowhere ELSE view)

(***************************************************************************)
(* _handle_subscribe and _handle_unsubscribe go through the arguments one  *)
(* by one; an argument that is rejected is passed over.                    *)
(***************************************************************************)
HandleArg(request, arg) ==
  LET s == ParseStreamArg(arg)
  IN  IF s = Rejected
      THEN UNCHANGED <<streamVars, view>>
      ELSE \/ request = "subscribe" /\ SubscribeOne(s)
           \/ request = "unsubscribe" /\ UnsubscribeOne(s)

HandleFirst(request, args) ==
  /\ HandleArg(request, Head(args))
  /\ todo' = Tail(args)
  /\ op' = (IF Tail(args) = <<>> THEN "none" ELSE request)
  /\ UNCHANGED returning

NextArg ==
  /\ todo # <<>>
  /\ HandleFirst(op, todo)
  /\ UNCHANGED <<now, connections, open, rateVars, tickerVars>>

(***************************************************************************)
(* The limit counts arguments, also those that add nothing.                *)
(***************************************************************************)
HandleSubscribe(args) ==
  IF Cardinality(Keys) + Len(args) > MAX_SUBSCRIPTIONS_PER_CLIENT
  THEN UNCHANGED <<streamVars, view, workVars>>
  ELSE HandleFirst("subscribe", args)

HandleUnsubscribe(args) == HandleFirst("unsubscribe", args)

(***************************************************************************)
(* One message of the client, up to the first await.  Too many in a        *)
(* window: an error is all the client gets.  A message that is no request  *)
(* (a ping, an unknown operation, no JSON, no arguments) counts for the    *)
(* rate too.  The bound: one message too many per window, for more of them *)
(* change nothing.                                                         *)
(***************************************************************************)
Receive(handling) ==
  /\ open /\ op = "none"
  /\ Expired \/ receiveCount <= MAX_MESSAGE_RATE_PER_CLIENT
  /\ CheckReceiveRate
  /\ IF receiveCount' <= MAX_MESSAGE_RATE_PER_CLIENT
     THEN handling
     ELSE UNCHANGED <<streamVars, view, workVars>>
  /\ UNCHANGED <<now, connections, open, tickerVars>>

Subscribe(args) == Receive(HandleSubscribe(args))
Unsubscribe(args) == Receive(HandleUnsubscribe(args))
OtherMessage == Receive(UNCHANGED <<streamVars, view, workVars>>)

(***************************************************************************)
(* The connection is gone, which handle learns in receive_text.  _cleanup  *)
(* gives back the keys one by one, in any order, then clears the set, and  *)
(* unsubscribe_client takes the client out of every channel.               *)
(***************************************************************************)
Leave ==
  /\ open /\ op = "none"
  /\ open' = FALSE
  /\ op' = "cleanup" /\ returning' = Keys
  /\ view' = Nowhere
  /\ UNCHANGED <<now, connections, rateVars, streamVars, tickerVars, todo>>

CleanupKey(key) ==
  /\ GiveBack(key, FromKey(key))
  /\ returning' = returning \ {key}
  /\ UNCHANGED <<now, connections, open, rateVars, held, granted, left, registered,
                 tickerVars, view, op, todo>>

CleanupEnds ==
  /\ op = "cleanup" /\ returning = {}
  /\ op' = "none"
  /\ held' = Nowhere /\ granted' = {} /\ left' = {} /\ registered' = {}
  /\ UNCHANGED <<now, connections, open, rateVars, counts, strayed, tickerVars, view,
                 todo, returning>>

(***************************************************************************)
(* Bybit sends the fields of Feed that have changed; the transformed       *)
(* message goes to every client of its channel, and the client lays it     *)
(* over what it knows.  Delivery is module Delivery's: nothing is lost     *)
(* here.  The bound: only while the client is connected, for what comes in *)
(* between concerns nobody here.                                           *)
(***************************************************************************)
Over(update, known) ==
  [f \in DOMAIN update \cup DOMAIN known |->
     IF f \in DOMAIN update THEN update[f] ELSE known[f]]

Message(topic, type, data) == [topic |-> topic, type |-> type, data |-> data]

BybitSends(values) ==
  LET changed == {f \in Fields : values[f] # ticker[f]}
      message == Message(MakeTopic(Feed), "delta", [f \in changed |-> values[f]])
      heard == {p \in Publications(message) : p.channel \in registered}
  IN  /\ open
      /\ ticker' = values
      /\ sent' = changed
      /\ \/ heard = {} /\ UNCHANGED view
         \/ \E p \in heard : view' = Over(p.data, view)
      /\ UNCHANGED <<now, connections, open, rateVars, streamVars, workVars>>

Next ==
  \/ Tick
  \/ Connect
  \/ \E args \in ArgLists : Subscribe(args) \/ Unsubscribe(args)
  \/ OtherMessage
  \/ NextArg
  \/ Leave
  \/ \E key \in returning : CleanupKey(key)
  \/ CleanupEnds
  \/ \E values \in [Fields -> Values] \ {ticker} : BybitSends(values)

Spec == Init /\ [][Next]_vars

-----------------------------------------------------------------------------

Value == Int \cup {Absent}

(***************************************************************************)
(* The type invariant.                                                     *)
(***************************************************************************)
TypeOK ==
  /\ now \in Nat /\ connections \in Nat /\ open \in BOOLEAN
  /\ windowStart \in Nat /\ receiveCount \in Nat /\ accepted \in Seq(Nat)
  /\ Keys \subseteq {MakeStreamKey(s) : s \in Named}
  /\ held \in [Keys -> Named]
  /\ granted \subseteq Named
  /\ left \subseteq Channels /\ registered \subseteq Channels
  /\ counts \in [Channels -> Nat] /\ strayed \in Nat
  /\ ticker \in [Fields -> Values] /\ sent \subseteq Fields
  /\ view \in [DOMAIN view -> Value] /\ DOMAIN view \subseteq DOMAIN TickerSource
  /\ op \in {"none", "subscribe", "unsubscribe", "cleanup"}
  /\ todo \in Seq(Args) /\ (todo # <<>> <=> op \in {"subscribe", "unsubscribe"})
  /\ returning \subseteq Keys /\ (op = "cleanup" => ~open)

(***************************************************************************)
(* "Messages per second" (config.py) holds per window, and windows follow  *)
(* each other closely: over any second at most twice the limit gets        *)
(* through.  Of the messages let through, one comes at least a second      *)
(* before the one that is twice the limit further on.                      *)
(***************************************************************************)
AtMostTwiceTheRate ==
  \A i, j \in DOMAIN accepted :
    j = i + 2 * MAX_MESSAGE_RATE_PER_CLIENT => accepted[j] - accepted[i] >= SECOND

(***************************************************************************)
(* A stream the client was told it has is registered on its channel, or    *)
(* the client has given that channel up itself, with the key of another    *)
(* interval.  The exception: a key whose symbol holds a ":" (only the      *)
(* legacy form allows one) may be the key of a stream with an interval.    *)
(***************************************************************************)
GrantedIsFed ==
  \A s \in granted :
    \/ MakeChannel(s) \in registered \cup left
    \/ \E t \in Named :
         Has(t.symbol, ":") /\ MakeStreamKey(t) = MakeStreamKey(s)

(***************************************************************************)
(* The counts are those of the other clients and of the keys held and not  *)
(* given back yet, off by no more than the keys that strayed.  _cleanup    *)
(* cuts a key at every ":", so a key strays when the legacy form put one   *)
(* into its symbol.                                                        *)
(***************************************************************************)
Unreturned == IF op = "cleanup" THEN returning ELSE Keys
Counted(channel) == {k \in Unreturned : MakeChannel(held[k]) = channel}

CountsFollowKeys ==
  \A channel \in DOMAIN counts :
    counts[channel] - OtherCounts[channel] - Cardinality(Counted(channel))
      \in -strayed..strayed

(***************************************************************************)
(* What Bybit sends on the topic of a stream the client holds is published *)
(* on the channel the client is registered on, for every type of stream,   *)
(* unless the symbol holds a ".": then it goes to another channel.         *)
(***************************************************************************)
Sample(s) == Message(MakeTopic(s), "snapshot", IF s.type = "ticker" THEN Nowhere ELSE <<0>>)

RoutedBack ==
  \A k \in Keys :
    LET s == held[k]
    IN  {p.channel : p \in Publications(Sample(s))} = {MakeChannel(s)}
          <=> ~Has(s.symbol, ".")

(***************************************************************************)
(* A client that lays update over update knows a field as Bybit has it,    *)
(* formatted, however many updates did not carry it, for every field that  *)
(* transform_bybit_ticker removes when Bybit did not send it.              *)
(*                                                                         *)
(* Of the fields in AlwaysPresent this is said only where Bybit's last     *)
(* message carried them.  It is false of them otherwise: where the delta   *)
(* has none, transformer.py:71 puts the price "0" into the update (lines   *)
(* 67 and 81-88 do the like), which overwrites the price the client knew,  *)
(* although "only changed fields" are "included per message"               *)
(* (gist-updated.md:201).                                                  *)
(***************************************************************************)
ViewIsCurrent ==
  \A f \in DOMAIN view :
    LET source == TickerSource[f]
    IN  f \notin AlwaysPresent \/ source \in sent
          => view[f] = Formatted(f, ticker[source])

=============================================================================
