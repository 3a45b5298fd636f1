SPECIFICATION Spec
CONSTANTS
  Entry = {e1, e2}
  Replica = {w1}
  BatchSize = 1
  MaxConcurrency = 1
  MaxAttempts = 2
  BaseBackoff = 1
  MaxBackoff = 1
  Backoff <- MCBackoff
  SendTimeout = 2
  DeliverTimeout = 3
  DrainTimeout = 4
  Lease = 4
  MaxOverdue = 1
  MaxFaults = 1
INVARIANT DrainOutlastsPolls
