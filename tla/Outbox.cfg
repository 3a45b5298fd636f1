SPECIFICATION FairSpec
CONSTANTS
  Entry = {e1, e2}
  Replica = {w1, w2}
  BatchSize = 2
  MaxConcurrency = 1
  MaxAttempts = 2
  BaseBackoff = 1
  MaxBackoff = 1
  Backoff <- MCBackoff
  SendTimeout = 1
  DeliverTimeout = 2
  DrainTimeout = 3
  Lease = 3
  MaxOverdue = 0
  MaxFaults = 2
INVARIANTS TypeOK ClaimsAreExclusive TaskHoldsClaim
PROPERTIES ImplementsOutbox EveryEntrySettled
