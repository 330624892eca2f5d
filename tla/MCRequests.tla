----------------------------- MODULE MCRequests -----------------------------
(***************************************************************************)
(* The instance of Requests that TLC checks.                               *)
(***************************************************************************)
EXTENDS Requests

Plain == <<"ticker", ":", "B">>
Legacied == <<"tickers", ".", "B">>
WithInterval == <<"ticker", ":", "5m", ":", "B">>
Kline == <<"kline", ":", "5m", ":", "B">>
Compound == <<"tickers", ".", "5m", ":", "B">>
Trade == <<"trade", ":", "B">>
Dotted == <<"ticker", ":", "A", ".", "B">>
Wildcard == <<"ticker", ":", "*">>

MCArgLists ==
  {<<Plain>>, <<WithInterval>>, <<Compound>>, <<Dotted>>,
   <<Wildcard, Trade>>, <<Legacied, Kline>>}

MCFeed == ParseStreamArg(Plain)

(***************************************************************************)
(* Somebody else is on the ticker of B.                                    *)
(***************************************************************************)
MCOtherCounts ==
  LET channels == {MakeChannel(s) : s \in Named}
  IN  [ch \in channels |-> IF ch = MakeChannel(MCFeed) THEN 1 ELSE 0]

(***************************************************************************)
(* One field that is in every update and one that is removed when absent.  *)
(***************************************************************************)
MCFields == {"price24hPcnt", "markPrice"}

=============================================================================
