\* One review or post at a time beside the deletion and one watcher.
SPECIFICATION DeletionFairSpec
CONSTANTS
  Watchers = {w1}
  NoWatcher = NoWatcher
  Providers = {p1}
  Channels = {c1}
  Handlers = {h1}
  JoinRequests = {q1}
  StartLedgerBlock = 0
  PageLimit = 6
  MaxLedger = 2
  MaxOldest = 0
  MaxPerLedger = 2
  MaxCrashes = 1
  MaxFailures = 0
INVARIANTS DeletionTypeOK ApprovedRowsStay NoLeftovers
PROPERTIES DeletionEnds
CHECK_DEADLOCK FALSE
