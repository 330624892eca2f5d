SPECIFICATION Spec
CONSTANTS
  Client = {c1, c2}
  Channel = {ch1, ch2}
  LISTENER_MAX_RETRIES = 2
SYMMETRY Symmetry
INVARIANTS
  FedUnlessFailed
  NoOrphanFeed
  NoIdleChannel
  RegistryInv
PROPERTY ImplementsFeeds
