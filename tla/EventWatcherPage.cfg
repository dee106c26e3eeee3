\* More events to catch up on than one getEvents page holds.
SPECIFICATION Spec
CONSTANTS
  Watchers = {w1}
  NoWatcher = NoWatcher
  Providers = {p1}
  Channels = {}
  StartLedgerBlock = 0
  PageLimit = 1
  MaxLedger = 3
  MaxOldest = 1
  MaxPerLedger = 1
  MaxCrashes = 0
  MaxFailures = 0
INVARIANTS NoRetainedEventSkipped
CHECK_DEADLOCK FALSE
