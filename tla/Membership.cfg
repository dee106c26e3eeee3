\* Two HTTP requests beside one watcher, two events in one poll, a crash.
SPECIFICATION MembershipFairSpec
CONSTANTS
  Watchers = {w1}
  NoWatcher = NoWatcher
  Providers = {p1}
  Channels = {}
  Handlers = {h1, h2}
  JoinRequests = {q1, q2}
  StartLedgerBlock = 0
  PageLimit = 6
  MaxLedger = 2
  MaxOldest = 1
  MaxPerLedger = 2
  MaxCrashes = 1
  MaxFailures = 0
INVARIANTS ApprovedHasRow MembersFollowChain
PROPERTIES DecisionIsFinal OnlyChainReadmits ReviewsEnd
CHECK_DEADLOCK FALSE
