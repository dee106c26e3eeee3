---------------------------- MODULE EventWatcher ----------------------------
(***************************************************************************)
(* The event watcher of one council: the ledger and its RPC server (the    *)
(* environment), the sync ticks that start watchers, a watcher's polls,    *)
(* the transaction in which a poll's events are applied and the Postgres   *)
(* cursor advanced, and the crash or restart of the process.               *)
(*                                                                         *)
(* Every await is a step of its own: another tick, another watcher or a    *)
(* crash may come between any two.  Ledger 0 stands for null.              *)
(***************************************************************************)
EXTENDS ChannelAuthEvents, FiniteSets

CONSTANTS
  Watchers,          \* EventWatcher objects that may exist at one time
  NoWatcher,         \* activeWatchers has no entry for the council
  StartLedgerBlock,  \* BOOT_SYNC_START_LEDGER_BLOCK, 0 when unset
  PageLimit,         \* events in one getEvents answer
  MaxLedger,         \* bound: last ledger that closes
  MaxOldest,         \* bound: how far the retention window moves
  MaxPerLedger,      \* bound: contract events in one ledger
  MaxCrashes,        \* bound: process exits
  MaxFailures        \* bound: failed starts and failed transactions

ASSUME BoundsAssumption ==
  /\ StartLedgerBlock \in Nat
  /\ PageLimit \in Nat \ {0}
  /\ MaxLedger \in Nat /\ MaxOldest \in Nat /\ MaxPerLedger \in Nat
  /\ MaxCrashes \in Nat /\ MaxFailures \in Nat
ASSUME NoWatcherAssumption == NoWatcher \notin Watchers

VARIABLES
  \* The network.
  chain,         \* the contract's events, in order of emission
  latest,        \* last closed ledger
  oldest,        \* oldest ledger the RPC server retains
  \* Postgres.
  registered,    \* the council has a council_metadata row
  cursor,        \* watcher_cursor.lastLedger, 0 when there is no row
  providers,     \* council_providers
  channels,      \* council_channels
  \* The process.
  serving,       \* startEventWatcher's first sync is over
  active,        \* activeWatchers.get(councilId)
  phase,         \* where each watcher is
  pos,           \* its lastLedger
  \* The poll in hand: answer of getEvents and open transaction.
  next,          \* nextLedger
  todo,          \* indices of the fetched events still to apply
  done,          \* indices of those the transaction has applied
  stagedP,       \* its uncommitted provider statuses
  stagedC,       \* its uncommitted channel statuses
  \* History and bounds.
  applied,       \* indices of the events some committed transaction applied
  crashes, failures

network  == <<chain, latest, oldest>>
tables   == <<providers, channels>>
postgres == <<registered, cursor, tables>>
poll     == <<next, todo, done, stagedP, stagedC>>
process  == <<serving, active, phase, pos, poll>>
counters == <<crashes, failures>>
vars     == <<network, postgres, process, applied, counters>>

NoWrite == "unwritten"
NoProviderWrites == [p \in Providers |-> NoWrite]
NoChannelWrites  == [c \in Channels |-> NoWrite]

Phases == {"absent", "restoring", "booting", "idle", "committing"}

-----------------------------------------------------------------------------
Init ==
  /\ chain = <<>> /\ latest = 1 /\ oldest = 1
  /\ registered \in BOOLEAN
  /\ cursor = 0
  /\ providers = [p \in Providers |-> "none"]
  /\ channels \in [Channels -> {NoChannelRow, NewChannelRow}]
  /\ serving = FALSE /\ active = NoWatcher
  /\ phase = [w \in Watchers |-> "absent"]
  /\ pos = [w \in Watchers |-> 0]
  /\ next = [w \in Watchers |-> 0]
  /\ todo = [w \in Watchers |-> {}]
  /\ done = [w \in Watchers |-> {}]
  /\ stagedP = [w \in Watchers |-> NoProviderWrites]
  /\ stagedC = [w \in Watchers |-> NoChannelWrites]
  /\ applied = {}
  /\ crashes = 0 /\ failures = 0

-----------------------------------------------------------------------------
(* The network.                                                            *)

\* A ledger closes, with the events the contract emitted in it.  The contract
\* is initialized once, when it is deployed.
CloseLedger ==
  /\ latest < MaxLedger
  /\ latest' = latest + 1
  /\ \E n \in 0..MaxPerLedger : \E events \in [1..n -> ContractEvent] :
        /\ \A i \in 1..n : events[i].type = "contract_initialized" => chain = <<>> /\ i = 1
        /\ chain' = chain \o [i \in 1..n |-> Emitted(events[i], latest + 1)]
  /\ UNCHANGED <<oldest, postgres, process, applied, counters>>

\* The RPC server forgets its oldest ledger.
AdvanceRetention ==
  /\ oldest < latest
  /\ oldest < MaxOldest
  /\ oldest' = oldest + 1
  /\ UNCHANGED <<chain, latest, postgres, process, applied, counters>>

\* Indices of the events that getEvents({startLedger: from}) matches, and of
\* those in its answer: the server returns at most one page.
Matching(from) == {i \in DOMAIN chain : chain[i].ledger >= from}
Page(from) ==
  {i \in Matching(from) :
      Cardinality({j \in Matching(from) : j < i}) < PageLimit}

-----------------------------------------------------------------------------
(* Councils and sync ticks.                                                *)

\* The admin's first PUT /council/metadata inserts the council.  The HTTP
\* server only listens once startEventWatcher() has returned.
RegisterCouncil ==
  /\ serving
  /\ ~registered
  /\ registered' = TRUE
  /\ UNCHANGED <<network, cursor, tables, process, applied, counters>>

\* The startup sync found no council to watch; ticks begin.
StartupSyncEnds ==
  /\ ~serving
  /\ ~registered
  /\ serving' = TRUE
  /\ UNCHANGED <<network, postgres, active, phase, pos, poll, applied, counters>>

\* A tick sees the council without a watcher and calls start() on a new one.
\* The map entry is only set when start() returns, so ticks that overlap may
\* each get here; the startup sync, which is awaited, runs alone.
EnsureWatcher(w) ==
  /\ registered
  /\ active = NoWatcher
  /\ phase[w] = "absent"
  /\ serving \/ \A v \in Watchers : phase[v] = "absent"
  /\ phase' = [phase EXCEPT ![w] = "restoring"]
  /\ UNCHANGED <<network, postgres, serving, active, pos, poll, applied, counters>>

\* start() has its position: the first poll begins and the tick, which runs
\* on in the same turn, enters the watcher in the map.
Started(w, ledger) ==
  /\ pos' = [pos EXCEPT ![w] = ledger]
  /\ phase' = [phase EXCEPT ![w] = "idle"]
  /\ active' = w
  /\ serving' = TRUE

\* restoreCursor() answers: resume there, or ask for a boot ledger.
RestoreCursor(w) ==
  /\ phase[w] = "restoring"
  /\ \/ /\ cursor # 0
        /\ Started(w, cursor)
     \/ /\ cursor = 0
        /\ phase' = [phase EXCEPT ![w] = "booting"]
        /\ UNCHANGED <<serving, active, pos>>
  /\ UNCHANGED <<network, postgres, poll, applied, counters>>

\* Mutant: fall back to the latest ledger.
BootAtLatest == latest

BootStartLedger == IF StartLedgerBlock # 0 THEN StartLedgerBlock ELSE oldest

ResolveBootStartLedger(w) ==
  /\ phase[w] = "booting"
  /\ Started(w, BootStartLedger)
  /\ UNCHANGED <<network, postgres, poll, applied, counters>>

\* Mutant: the map entry is set ahead of start() and stays when that fails.
ListedBeforeStart(w) ==
  /\ phase[w] \in {"restoring", "booting"}
  /\ failures < MaxFailures
  /\ failures' = failures + 1
  /\ phase' = [phase EXCEPT ![w] = "absent"]
  /\ active' = w /\ serving' = TRUE
  /\ UNCHANGED <<network, postgres, pos, poll, applied, crashes>>

\* restoreCursor() or getHealth() rejects: the tick logs and gives up, and
\* the watcher object is dropped.
StartFails(w) ==
  /\ phase[w] \in {"restoring", "booting"}
  /\ failures < MaxFailures
  /\ failures' = failures + 1
  /\ phase' = [phase EXCEPT ![w] = "absent"]
  /\ serving' = TRUE
  /\ UNCHANGED <<network, postgres, active, pos, poll, applied, crashes>>

-----------------------------------------------------------------------------
(* A poll.  A getEvents call outside the retained ledgers is an error that *)
(* poll() catches and that changes nothing, like every failed fetch.       *)

Served(w) == pos[w] \in oldest..latest

\* Mutant: one ledger too far.
OneTooFar == latest + 2

NextLedger == latest + 1

\* getEvents answers; the commit transaction begins.
Fetch(w) ==
  /\ phase[w] = "idle"
  /\ Served(w)
  /\ todo' = [todo EXCEPT ![w] = Page(pos[w])]
  /\ next' = [next EXCEPT ![w] = NextLedger]
  /\ phase' = [phase EXCEPT ![w] = "committing"]
  /\ UNCHANGED <<network, postgres, serving, active, pos, done, stagedP, stagedC,
                 applied, counters>>

\* What the transaction of w reads: its own writes, else committed rows.
ProviderSeen(w, p) ==
  IF stagedP[w][p] # NoWrite THEN stagedP[w][p] ELSE providers[p]

\* Mutant: a removed provider is never re-activated.
NeverReactivates(w, e) ==
  CASE e.type = "provider_added" /\ ProviderSeen(w, e.subject) = "none" -> "ACTIVE"
    [] e.type = "provider_removed" /\ ProviderSeen(w, e.subject) # "none" -> "REMOVED"
    [] OTHER -> NoWrite

\* The status event e leaves provider e.subject with; NoWrite when applyEvent
\* writes nothing (already ACTIVE, or nothing to remove).
ProviderWrite(w, e) ==
  CASE e.type = "provider_added" /\ ProviderSeen(w, e.subject) # "ACTIVE" -> "ACTIVE"
    [] e.type = "provider_removed" /\ ProviderSeen(w, e.subject) # "none" -> "REMOVED"
    [] OTHER -> NoWrite

\* Mutant: an event is only a confirmation when it was asked for.
OnlyWhenPending(e) ==
  IF channels[e.subject].pending = "null" THEN NoWrite
  ELSE IF e.enabled THEN "enabled" ELSE "disabled"

\* The same for a channel: an event for an unknown channel is ignored.
ChannelWrite(e) ==
  IF channels[e.subject].status = "none" THEN NoWrite
  ELSE IF e.enabled THEN "enabled" ELSE "disabled"

\* A row that another open transaction has written is locked.
ProviderUnlocked(w, p) == \A v \in Watchers \ {w} : stagedP[v][p] = NoWrite
ChannelUnlocked(w, c)  == \A v \in Watchers \ {w} : stagedC[v][c] = NoWrite

IsNext(w, i) == i \in todo[w] /\ \A j \in todo[w] : i <= j

ApplyProviderEvent(w, e) ==
  /\ e.type \in {"provider_added", "provider_removed"}
  /\ \/ /\ ProviderWrite(w, e) = NoWrite
        /\ UNCHANGED stagedP
     \/ /\ ProviderWrite(w, e) # NoWrite
        /\ ProviderUnlocked(w, e.subject)
        /\ stagedP' = [stagedP EXCEPT ![w][e.subject] = ProviderWrite(w, e)]
  /\ UNCHANGED stagedC

ApplyChannelEvent(w, e) ==
  /\ e.type = "channel_state_changed"
  /\ \/ /\ ChannelWrite(e) = NoWrite
        /\ UNCHANGED stagedC
     \/ /\ ChannelWrite(e) # NoWrite
        /\ ChannelUnlocked(w, e.subject)
        /\ stagedC' = [stagedC EXCEPT ![w][e.subject] = ChannelWrite(e)]
  /\ UNCHANGED stagedP

ApplyOtherEvent(e) ==
  /\ e.type = "contract_initialized"
  /\ UNCHANGED <<stagedP, stagedC>>

\* applyEvent on the next event, inside the transaction.
ApplyEvent(w) ==
  /\ phase[w] = "committing"
  /\ \E i \in todo[w] :
        /\ IsNext(w, i)
        /\ \/ ApplyProviderEvent(w, chain[i])
           \/ ApplyChannelEvent(w, chain[i])
           \/ ApplyOtherEvent(chain[i])
        /\ todo' = [todo EXCEPT ![w] = @ \ {i}]
        /\ done' = [done EXCEPT ![w] = @ \cup {i}]
  /\ UNCHANGED <<network, postgres, serving, active, phase, pos, next,
                 applied, counters>>

\* The poll is over: the transaction's writes and its answer are gone.
PollEnds(w) ==
  /\ phase' = [phase EXCEPT ![w] = "idle"]
  /\ next' = [next EXCEPT ![w] = 0]
  /\ todo' = [todo EXCEPT ![w] = {}]
  /\ done' = [done EXCEPT ![w] = {}]
  /\ stagedP' = [stagedP EXCEPT ![w] = NoProviderWrites]
  /\ stagedC' = [stagedC EXCEPT ![w] = NoChannelWrites]

\* Mutant: the cursor is not part of the transaction.
CursorLeftBehind(w) == cursor

CursorAfter(w) == next[w]

\* Mutants: a commit keeps the marker; it clears the marker of every channel.
KeepsMarker(w, c) ==
  IF stagedC[w][c] = NoWrite THEN channels[c]
  ELSE [channels[c] EXCEPT !.status = stagedC[w][c]]
ClearsEveryMarker(w, c) ==
  [status |-> IF stagedC[w][c] = NoWrite THEN channels[c].status ELSE stagedC[w][c],
   pending |-> "null"]

\* The row a commit leaves: setStatusByContractId also clears pendingAction.
ChannelCommitted(w, c) ==
  IF stagedC[w][c] = NoWrite THEN channels[c]
  ELSE [status |-> stagedC[w][c], pending |-> "null"]

\* Every event applied: upsert the cursor and commit.
Commits(w) ==
  /\ phase[w] = "committing"
  /\ todo[w] = {}
  /\ providers' = [p \in Providers |-> ProviderSeen(w, p)]
  /\ channels' = [c \in Channels |-> ChannelCommitted(w, c)]
  /\ cursor' = CursorAfter(w)
  /\ applied' = applied \cup done[w]
  /\ PollEnds(w)
  /\ UNCHANGED <<network, registered, serving, active, crashes>>

\* The commit resolves, and only then does the position in memory advance.
CommitPoll(w) ==
  /\ Commits(w)
  /\ pos' = [pos EXCEPT ![w] = next[w]]
  /\ UNCHANGED failures

\* The transaction commits but the connection fails before the answer: poll()
\* catches an error, and the range just committed will be applied again.
CommitUnacknowledged(w) ==
  /\ failures < MaxFailures
  /\ Commits(w)
  /\ failures' = failures + 1
  /\ UNCHANGED pos

\* The transaction fails: both the writes and the cursor roll back, and the
\* same range is fetched by the next poll.
Rollback(w) ==
  /\ phase[w] = "committing"
  /\ failures < MaxFailures
  /\ failures' = failures + 1
  /\ PollEnds(w)
  /\ UNCHANGED <<network, postgres, serving, active, pos, applied, crashes>>

\* w's next event needs a row that v holds.
WaitsFor(w, v) ==
  /\ v # w
  /\ phase[w] = "committing"
  /\ \E i \in todo[w] :
        /\ IsNext(w, i)
        /\ LET e == chain[i] IN
           \/ /\ e.type \in {"provider_added", "provider_removed"}
              /\ ProviderWrite(w, e) # NoWrite
              /\ stagedP[v][e.subject] # NoWrite
           \/ /\ e.type = "channel_state_changed"
              /\ ChannelWrite(e) # NoWrite
              /\ stagedC[v][e.subject] # NoWrite

\* Postgres breaks a deadlock of two transactions by aborting one.
DeadlockAbort(w) ==
  /\ \E v \in Watchers : WaitsFor(w, v) /\ WaitsFor(v, w)
  /\ PollEnds(w)
  /\ UNCHANGED <<network, postgres, serving, active, pos, applied, counters>>

-----------------------------------------------------------------------------
\* The process dies, or shuts down: stopEventWatcher() is followed by exit.
\* Open transactions roll back and everything in memory is lost.
Crash ==
  /\ crashes < MaxCrashes
  /\ crashes' = crashes + 1
  /\ serving' = FALSE /\ active' = NoWatcher
  /\ phase' = [w \in Watchers |-> "absent"]
  /\ pos' = [w \in Watchers |-> 0]
  /\ next' = [w \in Watchers |-> 0]
  /\ todo' = [w \in Watchers |-> {}]
  /\ done' = [w \in Watchers |-> {}]
  /\ stagedP' = [w \in Watchers |-> NoProviderWrites]
  /\ stagedC' = [w \in Watchers |-> NoChannelWrites]
  /\ UNCHANGED <<network, postgres, applied, failures>>

WatcherStep(w) ==
  \/ EnsureWatcher(w) \/ RestoreCursor(w) \/ ResolveBootStartLedger(w)
  \/ StartFails(w)
  \/ Fetch(w) \/ ApplyEvent(w) \/ CommitPoll(w) \/ CommitUnacknowledged(w)
  \/ Rollback(w) \/ DeadlockAbort(w)

Environment == CloseLedger \/ AdvanceRetention \/ RegisterCouncil \/ Crash

Next ==
  \/ Environment
  \/ StartupSyncEnds
  \/ \E w \in Watchers : WatcherStep(w)

Spec == Init /\ [][Next]_vars

\* The 5 s interval brings a tick, a tick's awaits are answered, the 30 s
\* timer brings the next poll, and a transaction's statements run.  Postgres
\* queues the waiters of a row lock, so one is not passed over for ever:
\* strong fairness of ApplyEvent.
WatcherFairness(w) ==
  /\ WF_vars(EnsureWatcher(w))
  /\ WF_vars(RestoreCursor(w))
  /\ WF_vars(ResolveBootStartLedger(w))
  /\ WF_vars(Fetch(w))
  /\ SF_vars(ApplyEvent(w))
  /\ WF_vars(CommitPoll(w))
  /\ WF_vars(DeadlockAbort(w))

FairSpec ==
  Spec /\ WF_vars(StartupSyncEnds) /\ \A w \in Watchers : WatcherFairness(w)
-----------------------------------------------------------------------------
(* Properties.                                                             *)

Staged(status) == status \cup {NoWrite}

\* Every variable has its type, and an open transaction belongs to a poll.
TypeOK ==
  /\ chain \in Seq(LedgerEvent) /\ latest \in Nat /\ oldest \in Nat
  /\ registered \in BOOLEAN /\ cursor \in Nat
  /\ providers \in [Providers -> ProviderRow]
  /\ channels \in [Channels -> ChannelRow]
  /\ serving \in BOOLEAN /\ active \in Watchers \cup {NoWatcher}
  /\ phase \in [Watchers -> Phases]
  /\ pos \in [Watchers -> Nat] /\ next \in [Watchers -> Nat]
  /\ todo \in [Watchers -> SUBSET DOMAIN chain]
  /\ done \in [Watchers -> SUBSET DOMAIN chain]
  /\ stagedP \in [Watchers -> [Providers -> Staged(ProviderStatus)]]
  /\ stagedC \in [Watchers -> [Channels -> Staged(ChannelStatus)]]
  /\ applied \subseteq DOMAIN chain
  /\ crashes \in Nat /\ failures \in Nat

\* First ledger the watcher answers for: the oldest one still retained, or
\* the configured boot ledger when that is later.
FirstLedger == IF StartLedgerBlock > oldest THEN StartLedgerBlock ELSE oldest

Covered(upTo) ==
  \A i \in DOMAIN chain : chain[i].ledger \in FirstLedger..(upTo - 1) => i \in applied

\* No event inside the retention window is ever skipped: everything below the
\* durable cursor that the RPC server still retains has been applied by a
\* committed transaction, whatever crashed, failed or overlapped
\* (resolveBootStartLedger; makeCommit; poll).
NoRetainedEventSkipped == Covered(cursor)

\* Why it holds.  Ledgers are in order; a position is either one the chain has
\* reached or the configured boot ledger; and an open transaction is about to
\* apply, or has applied, all that lies between its position and the cursor it
\* will write.
LedgersInOrder ==
  /\ oldest \in 1..latest
  /\ cursor <= latest + 1
  /\ \A i \in DOMAIN chain : chain[i].ledger <= latest

PositionCovered(w) ==
  phase[w] \in {"idle", "committing"} =>
    /\ Covered(pos[w])
    /\ pos[w] <= latest + 1 \/ pos[w] <= StartLedgerBlock

PollComplete(w) ==
  phase[w] = "committing" =>
    /\ next[w] <= latest + 1
    /\ \A i \in DOMAIN chain :
          chain[i].ledger \in pos[w]..(next[w] - 1) => i \in todo[w] \cup done[w]

CoverageInvariant ==
  /\ LedgersInOrder
  /\ NoRetainedEventSkipped
  /\ \A w \in Watchers : PositionCovered(w) /\ PollComplete(w)

\* No watcher that may poll is about to get an answer that its page cuts short.
WholePages ==
  \A w \in Watchers : phase[w] = "idle" => Page(pos[w]) = Matching(pos[w])

\* The committed rows and the cursor never diverge: the rows are what the
\* applied events call for, taken in ledger order, and nothing at or above
\* the cursor has been applied (CommitPoll's comment; watcher_cursor).
RowsMatchCursor ==
  /\ \A i \in applied : chain[i].ledger < cursor
  /\ \A p \in Providers : providers[p] = ProviderAfter(chain, applied, p)
  /\ \A c \in Channels :
        channels[c].status \in {"none", ChannelAfter(chain, applied, c)}

\* No two watchers of the council overlap: the sync ticks' check of the map
\* was not passed a second time before the first start() returned.
NoOverlap ==
  \A v, w \in Watchers : phase[v] # "absent" /\ phase[w] # "absent" => v = w

\* Why RowsMatchCursor holds then.  Only a poll has a transaction, and it takes
\* its events in order; every event applied before that its range holds is in
\* its page again, and the other ones are older than all of the page.
OrderOfHistory ==
  /\ latest >= 1 /\ oldest \in 1..latest /\ cursor <= latest + 1
  /\ \A i, j \in DOMAIN chain : i < j => chain[i].ledger <= chain[j].ledger
  /\ \A i \in DOMAIN chain : chain[i].ledger <= latest
  /\ \A i \in applied : chain[i].ledger < cursor

QuietUnlessPolling(w) ==
  phase[w] # "committing" =>
    /\ todo[w] = {} /\ done[w] = {}
    /\ stagedP[w] = NoProviderWrites /\ stagedC[w] = NoChannelWrites

PositionInOrder(w) ==
  /\ phase[w] = "booting" => cursor = 0
  /\ phase[w] \in {"idle", "committing"} =>
       /\ cursor # 0 => pos[w] <= cursor
       /\ \A i \in applied : chain[i].ledger >= pos[w] => i \in Page(pos[w])

PollInOrder(w) ==
  phase[w] = "committing" =>
    /\ pos[w] \in 1..(next[w] - 1) /\ next[w] \in cursor..(latest + 1)
    /\ \A i \in todo[w] \cup done[w] : i \in Page(pos[w]) /\ chain[i].ledger < next[w]
    /\ \A i \in done[w], j \in todo[w] : i < j
    /\ \A i \in applied \ (todo[w] \cup done[w]) : \A j \in todo[w] \cup done[w] : i < j

WatcherInOrder(w) == QuietUnlessPolling(w) /\ PositionInOrder(w) /\ PollInOrder(w)

OrderInvariant == OrderOfHistory /\ \A w \in Watchers : WatcherInOrder(w)

\* What a transaction has written is the last word of the events it applied;
\* where it wrote nothing, these called for no change.  `since' is the length
\* of the history when the row came to exist other than by an event.
ProviderStaged(w, p, since) ==
  IF stagedP[w][p] # NoWrite
  THEN /\ ProviderEvents(chain, done[w], p) # {}
       /\ stagedP[w][p] = LastWord(chain, done[w], p)
       /\ providers[p] # "none" \/ Adds(chain, done[w], p) # {}
  ELSE IF providers[p] = "none"
  THEN Adds(chain, done[w], p) = {}
  ELSE (\E i \in ProviderEvents(chain, done[w], p) : i > since) =>
         providers[p] = "ACTIVE" /\ LastWord(chain, done[w], p) = "ACTIVE"

ChannelStaged(w, c, since) ==
  IF stagedC[w][c] # NoWrite
  THEN /\ channels[c].status # "none"
       /\ ChannelEvents(chain, done[w], c) # {}
       /\ stagedC[w][c] = ChannelAfter(chain, done[w], c)
  ELSE /\ channels[c].status # "none" =>
             \A i \in ChannelEvents(chain, done[w], c) : i <= since
       /\ channels[c].status = "disabled" => ChannelEvents(chain, done[w], c) = {}

\* A row the contract has spoken of since it exists has the status the applied
\* events give it.
ProviderFollows(p, since) ==
  /\ providers[p] # "none"
  /\ \E i \in ProviderEvents(chain, applied, p) : i > since
  => providers[p] = LastWord(chain, applied, p)

ChannelFollows(c, since) ==
  /\ /\ channels[c].status # "none"
     /\ \E i \in ChannelEvents(chain, applied, c) : i > since
     => channels[c].status = ChannelAfter(chain, applied, c)
  /\ channels[c].status = "disabled" => ChannelAfter(chain, applied, c) = "disabled"

ProviderInvariant(p, since) ==
  ProviderFollows(p, since) /\ \A w \in Watchers : ProviderStaged(w, p, since)

ChannelInvariant(c, since) ==
  ChannelFollows(c, since) /\ \A w \in Watchers : ChannelStaged(w, c, since)

\* With no endpoints beside the watcher every row is the work of events.
RowsInvariant ==
  /\ OrderInvariant
  /\ \A p \in Providers :
        /\ ProviderInvariant(p, 0)
        /\ providers[p] = "none" <=> Adds(chain, applied, p) = {}
  /\ \A c \in Channels : ChannelInvariant(c, 0)

\* What the refinement needs besides: no gap is left below the cursor.
NoGapBelowCursor ==
  \A w \in Watchers : phase[w] \in {"idle", "committing"} /\ cursor # 0 =>
    \A i \in DOMAIN chain : chain[i].ledger \in pos[w]..(cursor - 1) => i \in applied

\* The promise: the council tables are a mirror that moves in atomic steps.
Mirror == INSTANCE ChannelMirror WITH
            providerStatus <- providers,
            channelStatus <- [c \in Channels |-> channels[c].status]

\* A single watcher implements the mirror: what its polls, failures, lost
\* acknowledgements and restarts do to the tables and the cursor is one atomic
\* forward step, or nothing (makeCommit; poll).
ImplementsMirror == Mirror!Spec

\* The rows say what the retained part of the chain says.
Mirrored ==
  /\ Covered(latest + 1)
  /\ \A p \in Providers : providers[p] = ProviderAfter(chain, applied, p)
  /\ \A c \in Channels :
        channels[c].status \in {"none", ChannelAfter(chain, applied, c)}

\* A watcher whose position has left the retention window: every poll fails.
Stalled == \E w \in Watchers : phase[w] = "idle" /\ pos[w] < oldest

\* Once the contract falls silent and the faults are over, a registered
\* council's rows come to mirror the chain and stay so, unless its watcher
\* fell out of the retention window (scheduleNext; syncWatchersFromDb).
EventuallyMirrored == <>[](registered => Mirrored \/ Stalled)
=============================================================================
