---------------------------- MODULE Transformer ----------------------------
(***************************************************************************)
(* What becomes of a message from Bybit: app/upstream/transformer.py, and  *)
(* _on_upstream_message of app/upstream/pool.py, which picks the channel   *)
(* to publish it on.                                                       *)
(*                                                                         *)
(* A message has a topic (a text of module Streams), a type and data.  A   *)
(* field that is absent or null is not in the DOMAIN of its record.        *)
(* Values are numbers: prices and sizes in any unit, percentages in        *)
(* hundred-thousandths of the decimal Bybit sends.  What a transformer     *)
(* returns is a set: {} for None, a message that is not relayed.           *)
(***************************************************************************)
EXTENDS Streams

CONSTANT Absent   \* the "0", the "0.00" or the null of a field that did not come

(***************************************************************************)
(* The fields of a relayed ticker, each with the field of Bybit's ticker   *)
(* it is made of.                                                          *)
(***************************************************************************)
TickerSource ==
  [price |-> "lastPrice", markPrice |-> "markPrice", indexPrice |-> "indexPrice",
   high24h |-> "highPrice24h", low24h |-> "lowPrice24h",
   prevPrice24h |-> "prevPrice24h", volume24h |-> "volume24h",
   turnover24h |-> "turnover24h", change24hPercent |-> "price24hPcnt",
   tickDirection |-> "tickDirection",
   bidPrice |-> "bid1Price", bidSize |-> "bid1Size",
   askPrice |-> "ask1Price", askSize |-> "ask1Size",
   openInterest |-> "openInterest", openInterestValue |-> "openInterestValue",
   fundingRate |-> "fundingRate", nextFundingTime |-> "nextFundingTime"]

(***************************************************************************)
(* These are in every relayed ticker.  The others are removed when Bybit   *)
(* did not send them; bid and ask are records that are kept although what  *)
(* is in them may be null.                                                 *)
(***************************************************************************)
AlwaysPresent ==
  {"price", "change24hPercent", "bidPrice", "bidSize", "askPrice", "askSize"}

(***************************************************************************)
(* Hundredths of a percent, rounded.                                       *)
(***************************************************************************)
FormatPercent(v) == (v + 5) \div 10

Formatted(field, v) == IF field = "change24hPercent" THEN FormatPercent(v) ELSE v

(***************************************************************************)
(* Mutant: what Bybit did not send is passed on as null, and overwrites.   *)
(***************************************************************************)
TickerDataKeepsNull(data) ==
  LET sent(field) == TickerSource[field] \in DOMAIN data
  IN  [f \in DOMAIN TickerSource |->
         IF sent(f) THEN Formatted(f, data[TickerSource[f]]) ELSE Absent]

TickerData(data) ==
  LET sent(field) == TickerSource[field] \in DOMAIN data
      kept == {f \in DOMAIN TickerSource : sent(f) \/ f \in AlwaysPresent}
  IN  [f \in kept |-> IF sent(f) THEN Formatted(f, data[TickerSource[f]]) ELSE Absent]

(***************************************************************************)
(* topic.replace(word + ".", ""): the prefix goes, and so does every later *)
(* occurrence of it.                                                       *)
(***************************************************************************)
SymbolOf(topic, word) ==
  LET found == {i \in 1..(Len(topic) - 1) : topic[i] = word /\ topic[i + 1] = "."}
      kept == {i \in 1..Len(topic) : i \notin found /\ i - 1 \notin found}
  IN  [n \in 1..Cardinality(kept) |-> topic[Nth(kept, n - 1)]]

TransformTicker(message) ==
 {[stream |-> <<"mudrex", ".", "futures", ".", "ticker", ".">>
                \o SymbolOf(message.topic, "tickers"),
   type   |-> IF message.type = "snapshot" THEN "snapshot" ELSE "update",
   data   |-> TickerData(message.data)]}

TransformKline(message) ==
  LET parts == Split(message.topic, ".")
  IN  IF Len(parts) < 3 \/ message.data = <<>>
      THEN {}
      ELSE {[stream |-> <<"mudrex", ".", "futures", ".", "kline", ".">>
                         \o parts[2] \o <<".">> \o parts[3],
            type   |-> "update",
            data   |-> Head(message.data)]}

TransformTrade(message) ==
 {[stream |-> <<"mudrex", ".", "futures", ".", "trade", ".">>
                \o SymbolOf(message.topic, "publicTrade"),
   type   |-> "update",
   data   |-> message.data]}

(***************************************************************************)
(* A pong and the answer to a subscription are not relayed.                *)
(***************************************************************************)
TransformMessage(message) ==
  CASE message.type \in {"pong", "answer"} -> {}
    [] StartsWith(message.topic, <<"tickers", ".">>) -> TransformTicker(message)
    [] StartsWith(message.topic, <<"kline", ".">>) -> TransformKline(message)
    [] StartsWith(message.topic, <<"publicTrade", ".">>) -> TransformTrade(message)
    [] OTHER -> {}

(***************************************************************************)
(* Mutant: the symbol is the fourth part of the stream.                    *)
(***************************************************************************)
ChannelOfFourth(stream) ==
  LET parts == Split(stream, ".")
  IN  MakeChannel(Parsed(parts[3][1], parts[4], <<>>))

(***************************************************************************)
(* What the pool publishes: the type of the channel is the third part of   *)
(* the stream and its symbol the last one, whatever the parts between.     *)
(***************************************************************************)
ChannelOf(stream) ==
  LET parts == Split(stream, ".")
  IN  MakeChannel(Parsed(parts[3][1], Last(parts), <<>>))

Publications(message) ==
  {[channel |-> ChannelOf(t.stream), data |-> t.data] : t \in TransformMessage(message)}

=============================================================================
