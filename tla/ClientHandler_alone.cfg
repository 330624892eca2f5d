SPECIFICATION FairSpec
CONSTANTS
  Client = {c1}
  ticker1 = ticker1
  ticker2 = ticker2
  ticker3 = ticker3
  kline1m = kline1m
  kline5m = kline5m
  NoStream = NoStream
  Stream = {ticker1, ticker2, ticker3}
  Channel = {ticker1, ticker2, ticker3}
  ChannelOf <- Separate
  MAX_CLIENTS_TOTAL = 1
  MAX_SUBSCRIPTIONS_PER_CLIENT = 2
  AcceptSuspends = TRUE
  MaxErrors = 1
INVARIANTS
  ManagerAgrees
  HandlerInv
PROPERTIES
  ClosedIsTornDown
