SPECIFICATION Spec
CONSTANTS
  Client = {c1, c2}
  ticker1 = ticker1
  ticker2 = ticker2
  ticker3 = ticker3
  kline1m = kline1m
  kline5m = kline5m
  NoStream = NoStream
  Stream = {ticker1, ticker2}
  Channel = {ticker1, ticker2}
  ChannelOf <- Separate
  MAX_CLIENTS_TOTAL = 2
  MAX_SUBSCRIPTIONS_PER_CLIENT = 2
  AcceptSuspends = FALSE
  MaxErrors = 1
SYMMETRY Symmetry
INVARIANTS
  CountsMatchHandlers
  GoneIsSilent
  StreamIsFed
