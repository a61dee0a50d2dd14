SPECIFICATION Spec
CONSTANTS
  sub = sub
  bank = bank
  halt = halt
  pause = pause
  cancel = cancel
  down = down
  up = up
  odd = odd
  other = other
  Subscriptions = {sub}
  Downtimes = {bank}
  Envelopes <- MCEnvelopes
  CreatedAt <- MCCreatedAt
  Consumed <- MCConsumed
  Parseable <- MCParseable
  Lifecycle <- MCLifecycle
  Notice <- MCNotice
  Outage <- MCOutage
  Streams <- MCStreams
  Tolerance = 0
  Retention = 1
  Redelivery = 1
  PollDelay = 1
  MaxReplays = 1
  MaxTime = 3
INVARIANTS
  OneEventPerDelivery
  EndedForGood
  NoPhantomOutage
PROPERTY NoHindsight
CHECK_DEADLOCK FALSE
