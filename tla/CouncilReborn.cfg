\* A council is deleted and created again under its id.
SPECIFICATION DeletionSpec
CONSTANTS
  Watchers = {w1}
  NoWatcher = NoWatcher
  Providers = {p1}
  Channels = {}
  Handlers = {h1}
  JoinRequests = {q1}
  StartLedgerBlock = 0
  PageLimit = 6
  MaxLedger = 2
  MaxOldest = 0
  MaxPerLedger = 1
  MaxCrashes = 0
  MaxFailures = 0
INVARIANTS CursorHasMembers
CHECK_DEADLOCK FALSE
