\* Channel endpoints, one watcher, a crash and failures.
SPECIFICATION LifecycleFairSpec
CONSTANTS
  Watchers = {w1}
  NoWatcher = NoWatcher
  Providers = {}
  Channels = {c1}
  Requests = {r1, r2}
  StartLedgerBlock = 0
  PageLimit = 6
  MaxLedger = 3
  MaxOldest = 3
  MaxPerLedger = 1
  MaxCrashes = 1
  MaxFailures = 1
INVARIANTS LifecycleTypeOK DisabledIsConfirmed KnownChannelsMirror
PROPERTIES MarkerClearedByEvent EventClearsMarker
CHECK_DEADLOCK FALSE
