SPECIFICATION Spec
CONSTANTS
  Client = {c1}
  ticker1 = ticker1
  ticker2 = ticker2
  ticker3 = ticker3
  kline1m = kline1m
  kline5m = kline5m
  NoStream = NoStream
  Stream = {kline1m, kline5m}
  Channel = {kline1m}
  ChannelOf <- Shared
  MAX_CLIENTS_TOTAL = 1
  MAX_SUBSCRIPTIONS_PER_CLIENT = 2
  AcceptSuspends = FALSE
  MaxErrors = 0
INVARIANTS
  StreamIsFed
