\* One watcher; crashes, failures and a moving retention window.
SPECIFICATION FairSpec
CONSTANTS
  Watchers = {w1}
  NoWatcher = NoWatcher
  Providers = {p1}
  Channels = {c1}
  StartLedgerBlock = 0
  PageLimit = 6
  MaxLedger = 3
  MaxOldest = 3
  MaxPerLedger = 2
  MaxCrashes = 1
  MaxFailures = 1
INVARIANTS NoRetainedEventSkipped RowsMatchCursor
PROPERTIES ImplementsMirror EventuallyMirrored
CHECK_DEADLOCK FALSE
