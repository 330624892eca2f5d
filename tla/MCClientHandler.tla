--------------------------- MODULE MCClientHandler ---------------------------
(***************************************************************************)
(* The instances of ClientHandler that TLC checks.                         *)
(***************************************************************************)
EXTENDS ClientHandler, TLC

CONSTANTS ticker1, ticker2, ticker3, kline1m, kline5m

(***************************************************************************)
(* Each stream has a channel of its own.                                   *)
(***************************************************************************)
Separate == [st \in Stream |-> st]

(***************************************************************************)
(* The klines of one symbol share a channel, whatever their interval.      *)
(***************************************************************************)
Shared == [st \in Stream |-> IF st = kline5m THEN kline1m ELSE st]

Symmetry == Permutations(Client)

=============================================================================
