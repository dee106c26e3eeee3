\* Two overlapping sync ticks start a watcher each for the same council;
\* crashes, failed transactions, lock waits and deadlocks between the two.
SPECIFICATION Spec
CONSTANTS
  Watchers = {w1, w2}
  NoWatcher = NoWatcher
  Providers = {p1}
  Channels = {c1}
  StartLedgerBlock = 0
  PageLimit = 6
  MaxLedger = 3
  MaxOldest = 3
  MaxPerLedger = 2
  MaxCrashes = 1
  MaxFailures = 0
SYMMETRY WatcherSymmetry
INVARIANTS CoverageInvariant
CHECK_DEADLOCK FALSE
