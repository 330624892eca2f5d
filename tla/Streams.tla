------------------------------ MODULE Streams ------------------------------
(***************************************************************************)
(* How a stream is named on its way from a client to Bybit and back: the   *)
(* argument of a request (app/websocket/models.py), the key in the         *)
(* handler's set, the Redis channel (app/redis/pubsub.py), Bybit's topic   *)
(* (app/upstream/pool.py), and what _cleanup reads back out of a key       *)
(* (app/websocket/handler.py).                                             *)
(*                                                                         *)
(* A text is a sequence of words.  ":", "." , "*" and " " are words of     *)
(* their own, because the code cuts or rejects a text at them; any other   *)
(* run of characters is one word.                                          *)
(***************************************************************************)
EXTENDS Integers, Sequences, FiniteSets, SequencesExt

StreamType == {"ticker", "kline", "trade"}

(***************************************************************************)
(* How many of a set of positions come before p, and the position that n   *)
(* of them come before.                                                    *)
(***************************************************************************)
Rank(positions, p) == Cardinality({q \in positions : q < p})

Nth(positions, n) == CHOOSE p \in positions : Rank(positions, p) = n

(***************************************************************************)
(* str.split: the parts between the separators; one more than there are    *)
(* separators, and some may be empty.                                      *)
(***************************************************************************)
Cuts(text, separator) ==
  {0, Len(text) + 1} \cup {i \in 1..Len(text) : text[i] = separator}

Part(text, cuts, n) == SubSeq(text, Nth(cuts, n - 1) + 1, Nth(cuts, n) - 1)

Split(text, separator) ==
  LET cuts == Cuts(text, separator)
  IN  [n \in 1..(Cardinality(cuts) - 1) |-> Part(text, cuts, n)]

StartsWith(text, prefix) == IsPrefix(prefix, text)

(***************************************************************************)
(* A parsed argument.  An interval that is absent and one that is empty    *)
(* make the same key: both are <<>>.  Rejected stands for the ValueError.  *)
(***************************************************************************)
Parsed(type, symbol, interval) ==
  [type |-> type, symbol |-> symbol, interval |-> interval]

Rejected == Parsed("rejected", <<>>, <<>>)

ValidSymbol(symbol) ==
  /\ ~Contains(symbol, "*")
  /\ \E i \in DOMAIN symbol : symbol[i] # " "

Legacy == <<"tickers", ".">>

ParseStreamArg(arg) ==
  LET parts == Split(arg, ":")
      symbol == Last(parts)
      dotted == SubSeq(arg, Len(Legacy) + 1, Len(arg))
  IN  IF StartsWith(arg, Legacy) /\ dotted # <<>>
      THEN IF ValidSymbol(dotted) THEN Parsed("ticker", dotted, <<>>) ELSE Rejected
      ELSE IF /\ Len(parts) \in {2, 3}
              /\ \E type \in StreamType : parts[1] = <<type>>
              /\ ValidSymbol(symbol)
           THEN Parsed(parts[1][1], symbol, IF Len(parts) = 3 THEN parts[2] ELSE <<>>)
           ELSE Rejected

(***************************************************************************)
(* Mutant: the key has no type.                                            *)
(***************************************************************************)
MakeStreamKeyNoType(s) ==
  IF s.interval = <<>> THEN s.symbol ELSE s.interval \o <<":">> \o s.symbol

MakeStreamKey(s) ==
  IF s.interval = <<>>
  THEN <<s.type, ":">> \o s.symbol
  ELSE <<s.type, ":">> \o s.interval \o <<":">> \o s.symbol

(***************************************************************************)
(* The pair that the counts, Pub/Sub and the pool know a stream by; the    *)
(* interval is no part of it.  A channel is named "mudrex:stream:" and     *)
(* then this.                                                              *)
(***************************************************************************)
MakeChannel(s) == <<s.type, ":">> \o s.symbol

(***************************************************************************)
(* Mutant: the part after the type is taken for the symbol.                *)
(***************************************************************************)
FromKeyMiddle(key) ==
  LET parts == Split(key, ":") IN Parsed(parts[1][1], parts[2], <<>>)

(***************************************************************************)
(* _cleanup takes the stream back from its key.                            *)
(***************************************************************************)
FromKey(key) ==
  LET parts == Split(key, ":") IN Parsed(parts[1][1], Last(parts), <<>>)

(***************************************************************************)
(* The topic Bybit knows the stream by.  Every kline is the 1-minute one.  *)
(***************************************************************************)
MakeTopic(s) ==
  CASE s.type = "ticker" -> <<"tickers", ".">> \o s.symbol
    [] s.type = "trade"  -> <<"publicTrade", ".">> \o s.symbol
    [] s.type = "kline"  -> <<"kline", ".", "1", ".">> \o s.symbol

=============================================================================
