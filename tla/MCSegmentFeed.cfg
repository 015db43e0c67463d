\* Four items over three streams, with queues of two and a connection that
\* holds one item; the backoff reaches its limit with the third wait.
SPECIFICATION Spec
CONSTANTS
  MaxItems = 4
  MaxCalls = 3
  Capacity = 2
  WireCapacity = 1
  InitialBackoff = 1
  MaxBackoff = 4
INVARIANTS
  LossesAreLags
  StorageBacksOff
PROPERTIES
  ImplementsFeed
\* Items and calls are bounded.
CHECK_DEADLOCK FALSE
