------------------------ MODULE EventWatcher_proofs ------------------------
(***************************************************************************)
(* What holds of the event watcher for every number of watchers, ledgers,  *)
(* events, crashes and failures.                                           *)
(***************************************************************************)
EXTENDS EventWatcher, SequenceTheorems, TLAPS

-----------------------------------------------------------------------------
(* Types.                                                                  *)

LEMMA EmittedType ==
  ASSUME NEW e \in ContractEvent, NEW n \in Nat
  PROVE  Emitted(e, n) \in LedgerEvent
  BY DEF ContractEvent, Emitted, LedgerEvent

\* A closing ledger only extends the history.
LEMMA CloseLedgerExtends ==
  ASSUME TypeOK, CloseLedger
  PROVE  /\ chain' \in Seq(LedgerEvent)
         /\ Len(chain') >= Len(chain)
         /\ DOMAIN chain \subseteq DOMAIN chain'
         /\ \A i \in DOMAIN chain : chain'[i] = chain[i]
         /\ \A i \in DOMAIN chain' \ DOMAIN chain : chain'[i].ledger = latest + 1
  <1>0. PICK n \in 0..MaxPerLedger : \E events \in [1..n -> ContractEvent] :
           chain' = chain \o [i \in 1..n |-> Emitted(events[i], latest + 1)]
    BY DEF CloseLedger
  <1>1. PICK events \in [1..n -> ContractEvent] :
           chain' = chain \o [i \in 1..n |-> Emitted(events[i], latest + 1)]
    BY <1>0
  <1> DEFINE new == [i \in 1..n |-> Emitted(events[i], latest + 1)]
  <1>2. n \in Nat /\ latest + 1 \in Nat /\ chain \in Seq(LedgerEvent)
    BY BoundsAssumption DEF TypeOK
  <1>3. new \in Seq(LedgerEvent) /\ Len(new) = n
    <2>1. \A i \in 1..n : Emitted(events[i], latest + 1) \in LedgerEvent
      BY <1>1, <1>2, EmittedType
    <2> QED
      BY <1>2, <2>1
  <1>4. \A i \in 1..n : new[i].ledger = latest + 1
    BY DEF Emitted
  <1> HIDE DEF new
  <1>5. chain' = chain \o new
    BY <1>1 DEF new
  <1>6. /\ chain' \in Seq(LedgerEvent)
        /\ Len(chain') = Len(chain) + n
        /\ \A i \in 1..Len(chain') :
              chain'[i] = IF i <= Len(chain) THEN chain[i] ELSE new[i - Len(chain)]
    <2>1. /\ chain \o new \in Seq(LedgerEvent)
          /\ Len(chain \o new) = Len(chain) + Len(new)
          /\ \A i \in 1..(Len(chain) + Len(new)) :
                (chain \o new)[i] = IF i <= Len(chain) THEN chain[i] ELSE new[i - Len(chain)]
      BY <1>2, <1>3, ConcatProperties
    <2> QED
      BY <1>3, <1>5, <2>1
  <1>7. DOMAIN chain = 1..Len(chain) /\ DOMAIN chain' = 1..Len(chain') /\ Len(chain) \in Nat
    BY <1>2, <1>6
  <1>8. \A i \in DOMAIN chain : chain'[i] = chain[i]
    BY <1>6, <1>7
  <1>9. ASSUME NEW i \in DOMAIN chain' \ DOMAIN chain
        PROVE  chain'[i].ledger = latest + 1
    <2>1. chain'[i] = new[i - Len(chain)]
      BY <1>6, <1>7
    <2>2. i - Len(chain) \in 1..n
      BY <1>2, <1>6, <1>7
    <2> QED
      BY <1>4, <2>1, <2>2
  <1> QED
    BY <1>2, <1>6, <1>7, <1>8, <1>9

LEMMA RowTypes ==
  /\ NoProviderWrites \in [Providers -> Staged(ProviderStatus)]
  /\ NoChannelWrites \in [Channels -> Staged(ChannelStatus)]
  /\ NoChannelRow \in ChannelRow /\ NewChannelRow \in ChannelRow
  BY DEF NoProviderWrites, NoChannelWrites, Staged, NoChannelRow, NewChannelRow,
         ChannelRow, ChannelStatus, PendingAction

LEMMA TypeInit == Init => TypeOK
  <1> SUFFICES ASSUME Init PROVE TypeOK
    OBVIOUS
  <1>1. chain \in Seq(LedgerEvent)
    BY DEF Init
  <1>2. DOMAIN chain = {}
    BY DEF Init
  <1>3. providers \in [Providers -> ProviderRow]
    BY DEF Init, ProviderRow
  <1>4. channels \in [Channels -> ChannelRow]
    BY RowTypes DEF Init
  <1>5. /\ stagedP \in [Watchers -> [Providers -> Staged(ProviderStatus)]]
        /\ stagedC \in [Watchers -> [Channels -> Staged(ChannelStatus)]]
    BY RowTypes DEF Init
  <1> QED
    BY <1>1, <1>2, <1>3, <1>4, <1>5 DEF Init, TypeOK, Phases

\* A poll that ends leaves the variables of the poll well typed.
LEMMA PollEndsType ==
  ASSUME TypeOK, NEW w \in Watchers, PollEnds(w), UNCHANGED chain
  PROVE  /\ phase' \in [Watchers -> Phases]
         /\ next' \in [Watchers -> Nat]
         /\ todo' \in [Watchers -> SUBSET DOMAIN chain']
         /\ done' \in [Watchers -> SUBSET DOMAIN chain']
         /\ stagedP' \in [Watchers -> [Providers -> Staged(ProviderStatus)]]
         /\ stagedC' \in [Watchers -> [Channels -> Staged(ChannelStatus)]]
  BY RowTypes DEF TypeOK, PollEnds, Phases

\* What a transaction writes is a status.
LEMMA WriteTypes ==
  ASSUME TypeOK, NEW w \in Watchers
  PROVE  /\ \A p \in Providers : ProviderSeen(w, p) \in ProviderRow
         /\ \A i \in DOMAIN chain : chain[i] \in LedgerEvent
         /\ \A e : ProviderWrite(w, e) \in Staged(ProviderStatus)
         /\ \A e : ChannelWrite(e) \in Staged(ChannelStatus)
  BY DEF TypeOK, ProviderSeen, ProviderWrite, ChannelWrite, Staged, ProviderRow,
         ProviderStatus, ChannelStatus, NoWrite

LEMMA ApplyEventType ==
  ASSUME TypeOK, NEW w \in Watchers, ApplyEvent(w)
  PROVE  TypeOK'
  <1>1. PICK i \in todo[w] :
           /\ \/ ApplyProviderEvent(w, chain[i])
              \/ ApplyChannelEvent(w, chain[i])
              \/ ApplyOtherEvent(chain[i])
           /\ todo' = [todo EXCEPT ![w] = @ \ {i}]
           /\ done' = [done EXCEPT ![w] = @ \cup {i}]
    BY DEF ApplyEvent
  <1>2. i \in DOMAIN chain /\ chain[i] \in LedgerEvent
    BY WriteTypes DEF TypeOK
  <1>3. /\ todo' \in [Watchers -> SUBSET DOMAIN chain]
        /\ done' \in [Watchers -> SUBSET DOMAIN chain]
    BY <1>1, <1>2 DEF TypeOK
  <1>4. /\ stagedP' \in [Watchers -> [Providers -> Staged(ProviderStatus)]]
        /\ stagedC' \in [Watchers -> [Channels -> Staged(ChannelStatus)]]
    <2>1. CASE ApplyProviderEvent(w, chain[i])
      <3>1. stagedP' \in [Watchers -> [Providers -> Staged(ProviderStatus)]]
        <4> DEFINE p == chain[i].subject  v == ProviderWrite(w, chain[i])
        <4>1. v \in Staged(ProviderStatus)
          BY WriteTypes
        <4>2. stagedP \in [Watchers -> [Providers -> Staged(ProviderStatus)]]
          BY DEF TypeOK
        <4>3. stagedP' = stagedP \/ stagedP' = [stagedP EXCEPT ![w][p] = v]
          BY <2>1 DEF ApplyProviderEvent
        <4> HIDE DEF p, v
        <4> QED
          BY <4>1, <4>2, <4>3
      <3> QED
        BY <2>1, <3>1 DEF ApplyProviderEvent, TypeOK
    <2>2. CASE ApplyChannelEvent(w, chain[i])
      <3>1. stagedC' \in [Watchers -> [Channels -> Staged(ChannelStatus)]]
        <4> DEFINE c == chain[i].subject  v == ChannelWrite(chain[i])
        <4>1. v \in Staged(ChannelStatus)
          BY WriteTypes
        <4>2. stagedC \in [Watchers -> [Channels -> Staged(ChannelStatus)]]
          BY DEF TypeOK
        <4>3. stagedC' = stagedC \/ stagedC' = [stagedC EXCEPT ![w][c] = v]
          BY <2>2 DEF ApplyChannelEvent
        <4> HIDE DEF c, v
        <4> QED
          BY <4>1, <4>2, <4>3
      <3> QED
        BY <2>2, <3>1 DEF ApplyChannelEvent, TypeOK
    <2>3. CASE ApplyOtherEvent(chain[i])
      BY <2>3 DEF ApplyOtherEvent, TypeOK
    <2> QED
      BY <1>1, <2>1, <2>2, <2>3
  <1> QED
    BY <1>3, <1>4 DEF ApplyEvent, TypeOK, network, postgres, tables, counters

LEMMA CommitsType ==
  ASSUME TypeOK, NEW w \in Watchers, Commits(w),
         pos' \in [Watchers -> Nat], failures' \in Nat
  PROVE  TypeOK'
  <1>1. providers' \in [Providers -> ProviderRow]
    BY WriteTypes DEF Commits
  <1>2. channels' \in [Channels -> ChannelRow]
    <2>1. ASSUME NEW c \in Channels PROVE channels'[c] \in ChannelRow
      <3>1. CASE stagedC[w][c] = NoWrite
        BY <3>1 DEF Commits, ChannelCommitted, TypeOK
      <3>2. CASE stagedC[w][c] # NoWrite
        <4>1. stagedC[w][c] \in ChannelStatus
          BY <3>2 DEF TypeOK, Staged
        <4> QED
          BY <3>2, <4>1 DEF Commits, ChannelCommitted, ChannelRow, PendingAction
      <3> QED
        BY <3>1, <3>2
    <2> QED
      BY <2>1 DEF Commits
  <1>3. cursor' \in Nat
    BY DEF Commits, CursorAfter, TypeOK
  <1>4. applied' \subseteq DOMAIN chain
    BY DEF Commits, TypeOK
  <1>5. chain' = chain
    BY DEF Commits, network
  <1>6. PollEnds(w)
    BY DEF Commits
  <1> QED
    BY <1>1, <1>2, <1>3, <1>4, <1>5, <1>6, PollEndsType
       DEF Commits, TypeOK, network

LEMMA TypeNext == TypeOK /\ [Next]_vars => TypeOK'
  <1> SUFFICES ASSUME TypeOK, [Next]_vars PROVE TypeOK'
    OBVIOUS
  <1>1. CASE CloseLedger
    <2>1. /\ chain' \in Seq(LedgerEvent)
          /\ DOMAIN chain \subseteq DOMAIN chain'
      BY <1>1, CloseLedgerExtends
    <2>2. latest' \in Nat
      BY <1>1 DEF CloseLedger, TypeOK
    <2> QED
      BY <1>1, <2>1, <2>2
         DEF CloseLedger, TypeOK, postgres, tables, process, poll, counters
  <1>2. CASE AdvanceRetention
    BY <1>2 DEF AdvanceRetention, TypeOK, postgres, tables, process, poll, counters
  <1>3. CASE RegisterCouncil
    BY <1>3 DEF RegisterCouncil, TypeOK, network, tables, process, poll, counters
  <1>4. CASE Crash
    <2>1. /\ stagedP' \in [Watchers -> [Providers -> Staged(ProviderStatus)]]
          /\ stagedC' \in [Watchers -> [Channels -> Staged(ChannelStatus)]]
      BY <1>4, RowTypes DEF Crash
    <2>2. /\ phase' \in [Watchers -> Phases]
          /\ pos' \in [Watchers -> Nat] /\ next' \in [Watchers -> Nat]
          /\ todo' \in [Watchers -> SUBSET DOMAIN chain]
          /\ done' \in [Watchers -> SUBSET DOMAIN chain]
      BY <1>4 DEF Crash, Phases
    <2>3. /\ UNCHANGED <<chain, latest, oldest, registered, cursor, providers, channels,
                        applied, failures>>
          /\ crashes' = crashes + 1 /\ serving' = FALSE /\ active' = NoWatcher
      BY <1>4 DEF Crash, network, postgres, tables
    <2>4. /\ chain' \in Seq(LedgerEvent) /\ latest' \in Nat /\ oldest' \in Nat
          /\ registered' \in BOOLEAN /\ cursor' \in Nat
          /\ providers' \in [Providers -> ProviderRow]
          /\ channels' \in [Channels -> ChannelRow]
          /\ applied' \subseteq DOMAIN chain
      BY <2>3 DEF TypeOK
    <2>5. /\ serving' \in BOOLEAN
          /\ active' \in Watchers \cup {NoWatcher}
          /\ crashes' \in Nat /\ failures' \in Nat
      <3>1. serving' \in BOOLEAN
        BY <2>3
      <3>2. active' \in Watchers \cup {NoWatcher}
        BY <2>3
      <3>3. crashes' \in Nat /\ failures' \in Nat
        BY <2>3 DEF TypeOK
      <3> QED
        BY <3>1, <3>2, <3>3
    <2>6. chain' = chain
      BY <2>3
    <2> QED
      BY <2>1, <2>2, <2>4, <2>5, <2>6 DEF TypeOK
  <1>5. CASE StartupSyncEnds
    BY <1>5 DEF StartupSyncEnds, TypeOK, network, postgres, tables, poll, counters
  <1>6. ASSUME NEW w \in Watchers, WatcherStep(w)
        PROVE  TypeOK'
    <2>1. CASE EnsureWatcher(w)
      BY <2>1 DEF EnsureWatcher, TypeOK, Phases, network, postgres, tables, poll, counters
    <2>2. CASE RestoreCursor(w)
      BY <2>2 DEF RestoreCursor, Started, TypeOK, Phases, network, postgres, tables,
                  poll, counters
    <2>3. CASE ResolveBootStartLedger(w)
      BY <2>3, BoundsAssumption
         DEF ResolveBootStartLedger, BootStartLedger, Started, TypeOK, Phases, network,
             postgres, tables, poll, counters
    <2>4. CASE StartFails(w)
      BY <2>4 DEF StartFails, TypeOK, Phases, network, postgres, tables, poll
    <2>5. CASE Fetch(w)
      BY <2>5 DEF Fetch, NextLedger, Page, Matching, TypeOK, Phases, network, postgres, tables, counters
    <2>6. CASE ApplyEvent(w)
      BY <2>6, ApplyEventType
    <2>7. CASE CommitPoll(w)
      <3>1. pos' \in [Watchers -> Nat] /\ failures' \in Nat /\ Commits(w)
        BY <2>7 DEF CommitPoll, TypeOK
      <3> QED
        BY <3>1, CommitsType
    <2>8. CASE CommitUnacknowledged(w)
      <3>1. pos' \in [Watchers -> Nat] /\ failures' \in Nat /\ Commits(w)
        BY <2>8 DEF CommitUnacknowledged, TypeOK
      <3> QED
        BY <3>1, CommitsType
    <2>9. CASE Rollback(w)
      <3>1. PollEnds(w) /\ chain' = chain
        BY <2>9 DEF Rollback, network
      <3> QED
        BY <2>9, <3>1, PollEndsType DEF Rollback, TypeOK, network, postgres, tables
    <2>10. CASE DeadlockAbort(w)
      <3>1. PollEnds(w) /\ chain' = chain
        BY <2>10 DEF DeadlockAbort, network
      <3> QED
        BY <2>10, <3>1, PollEndsType DEF DeadlockAbort, TypeOK, network, postgres, tables,
                                         counters
    <2> QED
      BY <1>6, <2>1, <2>2, <2>3, <2>4, <2>5, <2>6, <2>7, <2>8, <2>9, <2>10
         DEF WatcherStep
  <1>7. CASE UNCHANGED vars
    BY <1>7 DEF TypeOK, vars, network, postgres, tables, process, poll, counters
  <1> QED
    BY <1>1, <1>2, <1>3, <1>4, <1>5, <1>6, <1>7 DEF Next, Environment

\* The state always has its type.
THEOREM TypeCorrect == Spec => []TypeOK
  BY TypeInit, TypeNext, PTL DEF Spec

-----------------------------------------------------------------------------
(* No retained event is skipped.                                           *)

LEMMA CoverageInit == Init => CoverageInvariant
  <1> SUFFICES ASSUME Init PROVE CoverageInvariant
    OBVIOUS
  <1>1. DOMAIN chain = {}
    BY DEF Init
  <1>2. LedgersInOrder
    BY <1>1 DEF Init, LedgersInOrder
  <1>3. NoRetainedEventSkipped
    BY <1>1 DEF NoRetainedEventSkipped, Covered
  <1>4. \A w \in Watchers : phase[w] = "absent"
    BY DEF Init
  <1> QED
    BY <1>2, <1>3, <1>4 DEF CoverageInvariant, PositionCovered, PollComplete

\* As the window only moves forward, what is covered stays covered ...
LEMMA CoveredMonotone ==
  ASSUME TypeOK, UNCHANGED chain, applied \subseteq applied',
         oldest' \in Nat, oldest <= oldest',
         NEW n \in Nat, Covered(n)
  PROVE  Covered(n)'
  <1> SUFFICES ASSUME NEW i \in DOMAIN chain, chain[i].ledger \in FirstLedger'..(n - 1)
               PROVE  i \in applied'
    BY DEF Covered
  <1>1. /\ StartLedgerBlock \in Nat /\ oldest \in Nat
        /\ FirstLedger \in Nat /\ FirstLedger' \in Nat /\ FirstLedger <= FirstLedger'
    BY BoundsAssumption DEF FirstLedger, TypeOK
  <1>2. chain[i].ledger \in FirstLedger..(n - 1)
    BY <1>1
  <1> QED
    BY <1>2 DEF Covered

\* ... also when ledgers close: their events lie above every position.
LEMMA CoveredExtends ==
  ASSUME TypeOK, CloseLedger, NEW n \in Nat, Covered(n),
         n <= latest + 1 \/ n <= StartLedgerBlock
  PROVE  Covered(n)'
  <1> SUFFICES ASSUME NEW i \in DOMAIN chain', chain'[i].ledger \in FirstLedger'..(n - 1)
               PROVE  i \in applied'
    BY DEF Covered
  <1>1. /\ applied' = applied /\ oldest' = oldest /\ FirstLedger' = FirstLedger
        /\ latest \in Nat /\ oldest \in Nat /\ StartLedgerBlock \in Nat
    BY BoundsAssumption DEF CloseLedger, FirstLedger, TypeOK
  <1>2. CASE i \in DOMAIN chain
    BY <1>1, <1>2, CloseLedgerExtends DEF Covered
  <1>3. CASE i \notin DOMAIN chain
    <2>1. chain'[i].ledger = latest + 1
      BY <1>3, CloseLedgerExtends
    <2> QED
      BY <1>1, <2>1 DEF FirstLedger
  <1> QED
    BY <1>2, <1>3

\* A committed poll covers what lies below its next ledger.
LEMMA CommitCovers ==
  ASSUME TypeOK, NEW w \in Watchers, Commits(w), PositionCovered(w), PollComplete(w),
         NEW n, n = next[w]
  PROVE  /\ Covered(n)'
         /\ n \in Nat /\ n <= latest + 1
         /\ UNCHANGED <<chain, latest, oldest>> /\ applied \subseteq applied'
  <1>1. /\ UNCHANGED <<chain, latest, oldest>> /\ applied' = applied \cup done[w]
        /\ phase[w] = "committing" /\ todo[w] = {}
    BY DEF Commits, network
  <1>2. /\ n \in Nat /\ pos[w] \in Nat
        /\ \A i \in DOMAIN chain : chain[i].ledger \in Nat
        /\ FirstLedger \in Nat /\ FirstLedger' = FirstLedger
    BY <1>1, WriteTypes, BoundsAssumption DEF TypeOK, LedgerEvent, FirstLedger
  <1>3. Covered(pos[w]) /\ n <= latest + 1
    BY <1>1 DEF PositionCovered, PollComplete
  <1>4. ASSUME NEW i \in DOMAIN chain, chain[i].ledger \in FirstLedger..(n - 1)
        PROVE  i \in applied'
    <2>1. CASE chain[i].ledger < pos[w]
      <3>1. chain[i].ledger \in FirstLedger..(pos[w] - 1)
        BY <1>2, <1>4, <2>1
      <3> QED
        BY <1>1, <1>3, <3>1 DEF Covered
    <2>2. CASE chain[i].ledger >= pos[w]
      <3>1. chain[i].ledger \in pos[w]..(next[w] - 1)
        BY <1>2, <1>4, <2>2
      <3> QED
        BY <1>1, <3>1 DEF PollComplete
    <2> QED
      BY <1>2, <2>1, <2>2
  <1>5. Covered(n)'
    BY <1>1, <1>2, <1>4 DEF Covered
  <1> QED
    BY <1>1, <1>2, <1>3, <1>5

\* A step that leaves the history, the window and a watcher's poll alone
\* leaves its two parts of the invariant alone.
LEMMA WatcherUndisturbed ==
  ASSUME TypeOK, UNCHANGED <<chain, latest>>, applied \subseteq applied',
         oldest' \in Nat, oldest <= oldest',
         NEW v \in Watchers, phase'[v] = phase[v], pos'[v] = pos[v], next'[v] = next[v],
         todo'[v] \cup done'[v] = todo[v] \cup done[v],
         PositionCovered(v), PollComplete(v)
  PROVE  PositionCovered(v)' /\ PollComplete(v)'
  <1>1. PICK n \in Nat : n = pos[v]
    BY DEF TypeOK
  <1>2. PositionCovered(v)'
    <2>1. CASE phase[v] \in {"idle", "committing"}
      <3>1. Covered(n) /\ (n <= latest + 1 \/ n <= StartLedgerBlock)
        BY <1>1, <2>1 DEF PositionCovered
      <3>2. Covered(n)'
        BY <3>1, CoveredMonotone
      <3>3. pos'[v] = n
        BY <1>1
      <3> QED
        BY <3>1, <3>2, <3>3 DEF PositionCovered, Covered
    <2>2. CASE phase[v] \notin {"idle", "committing"}
      BY <2>2 DEF PositionCovered
    <2> QED
      BY <2>1, <2>2
  <1>3. PollComplete(v)'
    BY DEF PollComplete
  <1> QED
    BY <1>2, <1>3

\* A step that leaves network, tables and history alone and keeps every watcher
\* but w as it is preserves the invariant when it does so for w.
LEMMA OneWatcherMoves ==
  ASSUME TypeOK, CoverageInvariant, NEW w \in Watchers,
         UNCHANGED <<chain, latest, oldest, cursor, applied>>,
         \A v \in Watchers \ {w} :
            /\ phase'[v] = phase[v] /\ pos'[v] = pos[v] /\ next'[v] = next[v]
            /\ todo'[v] \cup done'[v] = todo[v] \cup done[v],
         PositionCovered(w)', PollComplete(w)'
  PROVE  CoverageInvariant'
  <1>1. LedgersInOrder'
    BY DEF CoverageInvariant, LedgersInOrder
  <1>2. NoRetainedEventSkipped'
    BY DEF CoverageInvariant, NoRetainedEventSkipped, Covered, FirstLedger
  <1>3. ASSUME NEW v \in Watchers PROVE PositionCovered(v)' /\ PollComplete(v)'
    <2>1. CASE v = w
      BY <2>1
    <2>2. CASE v # w
      <3>1. /\ phase'[v] = phase[v] /\ pos'[v] = pos[v] /\ next'[v] = next[v]
            /\ todo'[v] \cup done'[v] = todo[v] \cup done[v]
        BY <2>2
      <3>2. PositionCovered(v) /\ PollComplete(v) /\ oldest' \in Nat /\ oldest <= oldest'
        BY DEF CoverageInvariant, TypeOK
      <3> QED
        BY <3>1, <3>2, WatcherUndisturbed
    <2> QED
      BY <2>1, <2>2
  <1> QED
    BY <1>1, <1>2, <1>3 DEF CoverageInvariant

LEMMA CoverageCloseLedger ==
  ASSUME TypeOK, CoverageInvariant, CloseLedger
  PROVE  CoverageInvariant'
  <1>1. /\ latest' = latest + 1 /\ latest \in Nat /\ oldest \in Nat /\ cursor \in Nat
        /\ UNCHANGED <<oldest, cursor, applied, phase, pos, next, todo, done>>
    BY DEF CloseLedger, TypeOK, postgres, process, poll
  <1>2. LedgersInOrder'
    <2>1. ASSUME NEW i \in DOMAIN chain' PROVE chain'[i].ledger <= latest + 1
      <3>1. CASE i \in DOMAIN chain
        <4>1. chain'[i] = chain[i]
          BY <3>1, CloseLedgerExtends
        <4>2. chain[i].ledger <= latest
          BY <3>1 DEF CoverageInvariant, LedgersInOrder
        <4>3. chain[i] \in LedgerEvent
          BY <3>1 DEF TypeOK
        <4>4. chain[i].ledger \in Nat
          BY <4>3 DEF LedgerEvent
        <4> QED
          BY <1>1, <4>1, <4>2, <4>4
      <3>2. CASE i \notin DOMAIN chain
        BY <1>1, <3>2, CloseLedgerExtends
      <3> QED
        BY <3>1, <3>2
    <2> QED
      BY <1>1, <2>1 DEF CoverageInvariant, LedgersInOrder
  <1>3. NoRetainedEventSkipped'
    <2>1. PICK n \in Nat : n = cursor
      BY <1>1
    <2>2. Covered(n) /\ n <= latest + 1
      BY <2>1 DEF CoverageInvariant, NoRetainedEventSkipped, LedgersInOrder
    <2>3. Covered(n)'
      BY <2>2, CoveredExtends
    <2> QED
      BY <1>1, <2>1, <2>3 DEF NoRetainedEventSkipped, Covered
  <1>4. ASSUME NEW v \in Watchers PROVE PositionCovered(v)'
    <2>1. CASE phase[v] \in {"idle", "committing"}
      <3>1. PICK n \in Nat : n = pos[v]
        BY DEF TypeOK
      <3>2. Covered(n) /\ (n <= latest + 1 \/ n <= StartLedgerBlock)
        BY <2>1, <3>1 DEF CoverageInvariant, PositionCovered
      <3>3. Covered(n)'
        BY <3>2, CoveredExtends
      <3>4. n <= latest' + 1 \/ n <= StartLedgerBlock
        BY <1>1, <3>2
      <3> QED
        BY <1>1, <3>1, <3>3, <3>4 DEF PositionCovered, Covered
    <2>2. CASE phase[v] \notin {"idle", "committing"}
      BY <1>1, <2>2 DEF PositionCovered
    <2> QED
      BY <2>1, <2>2
  <1>5. ASSUME NEW v \in Watchers PROVE PollComplete(v)'
    <2>1. SUFFICES ASSUME phase[v] = "committing"
                   PROVE  /\ next[v] <= latest' + 1
                          /\ \A i \in DOMAIN chain' :
                               chain'[i].ledger \in pos[v]..(next[v] - 1)
                                 => i \in todo[v] \cup done[v]
      BY <1>1 DEF PollComplete
    <2>2. /\ next[v] <= latest + 1 /\ next[v] \in Nat
          /\ \A i \in DOMAIN chain :
               chain[i].ledger \in pos[v]..(next[v] - 1) => i \in todo[v] \cup done[v]
      BY <2>1 DEF CoverageInvariant, PollComplete, TypeOK
    <2>3. ASSUME NEW i \in DOMAIN chain', chain'[i].ledger \in pos[v]..(next[v] - 1)
          PROVE  i \in DOMAIN chain
      BY <1>1, <2>2, <2>3, CloseLedgerExtends DEF TypeOK
    <2> QED
      BY <1>1, <2>2, <2>3, CloseLedgerExtends
  <1> QED
    BY <1>2, <1>3, <1>4, <1>5 DEF CoverageInvariant

\* Commits moves the cursor, and the position of w when it is acknowledged.
LEMMA CoverageCommits ==
  ASSUME TypeOK, CoverageInvariant, NEW w \in Watchers, Commits(w),
         pos' \in {pos, [pos EXCEPT ![w] = next[w]]}
  PROVE  CoverageInvariant'
  <1>1. PICK n : n = next[w]
    OBVIOUS
  <1>2. PositionCovered(w) /\ PollComplete(w)
    BY DEF CoverageInvariant
  <1>3. /\ Covered(n)' /\ n \in Nat /\ n <= latest + 1
        /\ UNCHANGED <<chain, latest, oldest>> /\ applied \subseteq applied'
    BY <1>1, <1>2, CommitCovers
  <1>4. /\ cursor' = n /\ PollEnds(w) /\ phase[w] = "committing"
        /\ oldest' \in Nat /\ oldest <= oldest' /\ latest \in Nat
    BY <1>1, <1>3 DEF Commits, CursorAfter, TypeOK
  <1>5. LedgersInOrder'
    BY <1>3, <1>4 DEF CoverageInvariant, LedgersInOrder
  <1>6. NoRetainedEventSkipped'
    BY <1>3, <1>4 DEF NoRetainedEventSkipped, Covered
  <1>7. ASSUME NEW v \in Watchers \ {w} PROVE PositionCovered(v)' /\ PollComplete(v)'
    <2>1. /\ phase'[v] = phase[v] /\ pos'[v] = pos[v] /\ next'[v] = next[v]
          /\ todo'[v] = todo[v] /\ done'[v] = done[v]
      BY <1>4 DEF PollEnds, TypeOK
    <2>2. PositionCovered(v) /\ PollComplete(v)
      BY DEF CoverageInvariant
    <2> QED
      BY <1>3, <1>4, <2>1, <2>2, WatcherUndisturbed
  <1>8. PositionCovered(w)'
    <2>1. PICK m \in Nat : m = pos[w]
      BY DEF TypeOK
    <2>2. Covered(m) /\ (m <= latest + 1 \/ m <= StartLedgerBlock)
      BY <1>2, <1>4, <2>1 DEF PositionCovered
    <2>3. Covered(m)'
      BY <1>3, <1>4, <2>2, CoveredMonotone
    <2>4. pos'[w] \in {m, n}
      BY <1>1, <2>1 DEF TypeOK
    <2> QED
      BY <1>3, <2>2, <2>3, <2>4 DEF PositionCovered, Covered
  <1>9. PollComplete(w)'
    BY <1>4 DEF PollEnds, PollComplete, TypeOK
  <1> QED
    BY <1>5, <1>6, <1>7, <1>8, <1>9 DEF CoverageInvariant

LEMMA CoverageNext ==
  TypeOK /\ CoverageInvariant /\ WholePages /\ [Next]_vars => CoverageInvariant'
  <1> SUFFICES ASSUME TypeOK, CoverageInvariant, WholePages, [Next]_vars
               PROVE  CoverageInvariant'
    OBVIOUS
  <1>1. CASE CloseLedger
    BY <1>1, CoverageCloseLedger
  <1>2. CASE AdvanceRetention
    <2>1. /\ UNCHANGED <<chain, latest, cursor, applied, phase, pos, next, todo, done>>
          /\ oldest' \in 1..latest /\ oldest <= oldest' /\ oldest' \in Nat
      BY <1>2 DEF AdvanceRetention, postgres, process, poll, TypeOK, CoverageInvariant,
                  LedgersInOrder
    <2>2. LedgersInOrder'
      BY <2>1 DEF CoverageInvariant, LedgersInOrder
    <2>3. NoRetainedEventSkipped'
      <3>1. PICK n \in Nat : n = cursor
        BY DEF TypeOK
      <3>2. Covered(n)'
        BY <2>1, <3>1, CoveredMonotone DEF CoverageInvariant, NoRetainedEventSkipped
      <3> QED
        BY <2>1, <3>1, <3>2 DEF NoRetainedEventSkipped, Covered
    <2>4. ASSUME NEW v \in Watchers PROVE PositionCovered(v)' /\ PollComplete(v)'
      BY <2>1, WatcherUndisturbed DEF CoverageInvariant
    <2> QED
      BY <2>2, <2>3, <2>4 DEF CoverageInvariant
  <1>3. CASE RegisterCouncil \/ StartupSyncEnds \/ UNCHANGED vars
    <2>1. UNCHANGED <<chain, latest, oldest, cursor, applied, phase, pos, next, todo, done>>
      BY <1>3 DEF RegisterCouncil, StartupSyncEnds, vars, network, postgres, process, poll
    <2> QED
      BY <2>1 DEF CoverageInvariant, LedgersInOrder, NoRetainedEventSkipped, Covered,
                  FirstLedger, PositionCovered, PollComplete
  <1>4. CASE Crash
    <2>1. /\ UNCHANGED <<chain, latest, oldest, cursor, applied>>
          /\ \A v \in Watchers : phase'[v] = "absent"
      BY <1>4 DEF Crash, network, postgres
    <2> QED
      BY <2>1 DEF CoverageInvariant, LedgersInOrder, NoRetainedEventSkipped, Covered,
                  FirstLedger, PositionCovered, PollComplete
  <1>5. ASSUME NEW w \in Watchers, WatcherStep(w)
        PROVE  CoverageInvariant'
    <2> DEFINE Still == UNCHANGED <<chain, latest, oldest, cursor, applied>>
               OthersStill ==
                 \A v \in Watchers \ {w} :
                    /\ phase'[v] = phase[v] /\ pos'[v] = pos[v] /\ next'[v] = next[v]
                    /\ todo'[v] \cup done'[v] = todo[v] \cup done[v]
    <2>0. PositionCovered(w) /\ PollComplete(w)
      BY DEF CoverageInvariant
    <2>1. CASE EnsureWatcher(w) \/ StartFails(w)
      <3>1. Still /\ OthersStill
        BY <2>1 DEF EnsureWatcher, StartFails, network, postgres, poll, TypeOK
      <3>2. phase'[w] \in {"restoring", "absent"}
        BY <2>1 DEF EnsureWatcher, StartFails, TypeOK
      <3> QED
        BY <3>1, <3>2, OneWatcherMoves DEF PositionCovered, PollComplete
    <2>2. CASE RestoreCursor(w)
      <3>1. Still /\ OthersStill
        BY <2>2 DEF RestoreCursor, Started, network, postgres, poll, TypeOK
      <3>2. CASE cursor = 0
        <4>1. phase'[w] = "booting"
          BY <2>2, <3>2 DEF RestoreCursor, TypeOK
        <4> QED
          BY <3>1, <4>1, OneWatcherMoves DEF PositionCovered, PollComplete
      <3>3. CASE cursor # 0
        <4>1. phase'[w] = "idle" /\ pos'[w] = cursor
          BY <2>2, <3>3 DEF RestoreCursor, Started, TypeOK
        <4>2. Covered(cursor)' /\ cursor <= latest + 1
          BY <3>1 DEF CoverageInvariant, NoRetainedEventSkipped, LedgersInOrder, Covered,
                      FirstLedger
        <4>3. PositionCovered(w)' /\ PollComplete(w)'
          BY <3>1, <4>1, <4>2 DEF PositionCovered, PollComplete, Covered
        <4> QED
          BY <3>1, <4>3, OneWatcherMoves
      <3> QED
        BY <3>2, <3>3
    <2>3. CASE ResolveBootStartLedger(w)
      <3>1. Still /\ OthersStill
        BY <2>3 DEF ResolveBootStartLedger, Started, network, postgres, poll, TypeOK
      <3>2. phase'[w] = "idle" /\ pos'[w] = BootStartLedger
        BY <2>3 DEF ResolveBootStartLedger, Started, TypeOK
      <3>3. PICK n : n = BootStartLedger
        OBVIOUS
      <3>4. /\ n \in Nat /\ oldest \in Nat /\ latest \in Nat /\ oldest <= latest
            /\ StartLedgerBlock \in Nat
            /\ FirstLedger \in Nat /\ n <= FirstLedger /\ FirstLedger' = FirstLedger
            /\ n <= latest + 1 \/ n <= StartLedgerBlock
        BY <3>1, <3>3, BoundsAssumption
           DEF BootStartLedger, FirstLedger, TypeOK, CoverageInvariant, LedgersInOrder
      <3>5. FirstLedger..(n - 1) = {}
        BY <3>4
      <3>6. Covered(n)'
        BY <3>4, <3>5 DEF Covered
      <3>7. PositionCovered(w)' /\ PollComplete(w)'
        BY <3>1, <3>2, <3>3, <3>4, <3>6 DEF PositionCovered, PollComplete, Covered
      <3> QED
        BY <3>1, <3>7, OneWatcherMoves
    <2>4. CASE Fetch(w)
      <3>1. Still /\ OthersStill
        BY <2>4 DEF Fetch, network, postgres, TypeOK
      <3>2. /\ phase[w] = "idle" /\ phase'[w] = "committing" /\ pos'[w] = pos[w]
            /\ todo'[w] = Matching(pos[w]) /\ next'[w] = latest + 1
        BY <2>4 DEF Fetch, NextLedger, TypeOK, WholePages
      <3>3. PositionCovered(w)'
        BY <2>0, <3>1, <3>2 DEF PositionCovered, Covered, FirstLedger
      <3>4. PollComplete(w)'
        <4>1. ASSUME NEW i \in DOMAIN chain, chain[i].ledger \in pos[w]..(latest + 1 - 1)
              PROVE  i \in todo'[w]
          BY <3>2, <4>1 DEF Matching, TypeOK
        <4> QED
          BY <3>1, <3>2, <4>1 DEF PollComplete, TypeOK
      <3> QED
        BY <3>1, <3>3, <3>4, OneWatcherMoves
    <2>5. CASE ApplyEvent(w)
      <3>1. Still /\ UNCHANGED <<phase, pos, next>>
        BY <2>5 DEF ApplyEvent, network, postgres
      <3>2. \A v \in Watchers : todo'[v] \cup done'[v] = todo[v] \cup done[v]
        BY <2>5 DEF ApplyEvent, TypeOK
      <3>3. PositionCovered(w)' /\ PollComplete(w)'
        <4>1. /\ UNCHANGED <<chain, latest>> /\ applied \subseteq applied'
              /\ oldest' \in Nat /\ oldest <= oldest'
          BY <3>1 DEF TypeOK
        <4>2. /\ phase'[w] = phase[w] /\ pos'[w] = pos[w] /\ next'[w] = next[w]
              /\ todo'[w] \cup done'[w] = todo[w] \cup done[w]
          BY <3>1, <3>2
        <4> QED
          BY <2>0, <4>1, <4>2, WatcherUndisturbed
      <3>4. OthersStill
        BY <3>1, <3>2
      <3> QED
        BY <3>1, <3>3, <3>4, OneWatcherMoves
    <2>6. CASE CommitPoll(w) \/ CommitUnacknowledged(w)
      BY <2>6, CoverageCommits DEF CommitPoll, CommitUnacknowledged
    <2>7. CASE Rollback(w) \/ DeadlockAbort(w)
      <3>1. PollEnds(w) /\ Still /\ UNCHANGED pos
        BY <2>7 DEF Rollback, DeadlockAbort, network, postgres
      <3>2. OthersStill /\ phase'[w] = "idle"
        BY <3>1 DEF PollEnds, TypeOK
      <3>3. phase[w] = "committing"
        BY <2>7 DEF Rollback, DeadlockAbort, WaitsFor
      <3>4. PollComplete(w)'
        BY <3>2 DEF PollComplete
      <3>5. /\ Covered(pos[w])
            /\ pos[w] <= latest + 1 \/ pos[w] <= StartLedgerBlock
        BY <2>0, <3>3 DEF PositionCovered
      <3>6. PositionCovered(w)'
        BY <3>1, <3>5 DEF PositionCovered, Covered, FirstLedger
      <3> QED
        BY <3>1, <3>2, <3>4, <3>6, OneWatcherMoves
    <2> QED
      BY <1>5, <2>1, <2>2, <2>3, <2>4, <2>5, <2>6, <2>7 DEF WatcherStep
  <1> QED
    BY <1>1, <1>2, <1>3, <1>4, <1>5 DEF Next, Environment

\* As long as no poll's answer is cut short, no event inside the retention
\* window is ever skipped: for any number of overlapping watchers, any history,
\* any crashes, failed transactions and lost acknowledgements.
THEOREM NoEventSkipped == Spec /\ []WholePages => []NoRetainedEventSkipped
  <1>1. CoverageInvariant => NoRetainedEventSkipped
    BY DEF CoverageInvariant
  <1> QED
    BY <1>1, CoverageInit, CoverageNext, TypeCorrect, PTL DEF Spec

-----------------------------------------------------------------------------
(* What a set of events says of a row.                                     *)

Before(X, Y) == \A i \in X, j \in Y : i < j
HasNewest(A, B) == \E i \in A : \A j \in B : j < i

\* Of two sets of indices, the one with the newest has a member beyond all of
\* the other; older members change nothing of that.
LEMMA OlderIndicesSayNothing ==
  ASSUME NEW A \in SUBSET Nat, NEW B \in SUBSET Nat,
         NEW C \in SUBSET Nat, NEW D \in SUBSET Nat,
         Before(A \cup B, C \cup D), C \cup D # {}
  PROVE  HasNewest(A \cup C, B \cup D) <=> HasNewest(C, D)
  <1>0. \A i \in A \cup B, j \in C \cup D : i < j
    BY DEF Before
  <1>1. ASSUME NEW i \in A \cup C, \A j \in B \cup D : j < i
        PROVE  \E k \in C : \A j \in D : j < k
    <2>1. CASE i \in C
      BY <1>1, <2>1
    <2>2. CASE i \notin C
      <3>1. \A j \in D : i < j /\ j < i
        BY <1>0, <1>1, <2>2
      <3>2. D = {}
        <4>1. ASSUME NEW j \in D PROVE FALSE
          <5>1. i \in Nat /\ j \in Nat /\ i < j /\ j < i
            BY <3>1
          <5> QED
            BY <5>1
        <4> QED
          BY <4>1
      <3> QED
        BY <3>2
    <2> QED
      BY <2>1, <2>2
  <1>2. ASSUME NEW i \in C, \A j \in D : j < i
        PROVE  \E k \in A \cup C : \A j \in B \cup D : j < k
    <2>1. \A j \in B : j < i
      BY <1>0
    <2> QED
      BY <1>2, <2>1
  <1> QED
    BY <1>1, <1>2 DEF HasNewest

\* Later events silence earlier ones.
LEMMA LaterWordDecides ==
  ASSUME NEW log, NEW S \in SUBSET Nat, NEW T \in SUBSET Nat, NEW p,
         \A i \in S \ T, j \in T : i < j,
         ProviderEvents(log, T, p) # {}
  PROVE  LastWord(log, S \cup T, p) = LastWord(log, T, p)
  <1> DEFINE A == Adds(log, S \ T, p)  B == Removals(log, S \ T, p)
             C == Adds(log, T, p)  D == Removals(log, T, p)
  <1>1. Adds(log, S \cup T, p) = A \cup C /\ Removals(log, S \cup T, p) = B \cup D
    BY DEF Adds, Removals
  <1>2. /\ A \subseteq S \ T /\ B \subseteq S \ T /\ C \subseteq T /\ D \subseteq T
        /\ C \cup D # {}
    BY DEF Adds, Removals, ProviderEvents
  <1>6. C \cup D # {}
    BY DEF Adds, Removals, ProviderEvents
  <1> HIDE DEF A, B, C, D
  <1>3. Before(A \cup B, C \cup D)
    BY <1>2 DEF Before
  <1>4. A \in SUBSET Nat /\ B \in SUBSET Nat /\ C \in SUBSET Nat /\ D \in SUBSET Nat
    BY <1>2
  <1>5. HasNewest(A \cup C, B \cup D) <=> HasNewest(C, D)
    BY <1>3, <1>4, <1>6, OlderIndicesSayNothing
  <1> QED
    BY <1>1, <1>5 DEF LastWord, HasNewest, C, D

\* A set without events of a row adds nothing.
LEMMA SilentSet ==
  ASSUME NEW log, NEW S, NEW T, NEW p, ProviderEvents(log, T, p) = {}
  PROVE  /\ Adds(log, S \cup T, p) = Adds(log, S, p)
         /\ ProviderEvents(log, S \cup T, p) = ProviderEvents(log, S, p)
         /\ LastWord(log, S \cup T, p) = LastWord(log, S, p)
  <1>1. Adds(log, T, p) = {} /\ Removals(log, T, p) = {}
    BY DEF ProviderEvents
  <1>2. Adds(log, S \cup T, p) = Adds(log, S, p) /\ Removals(log, S \cup T, p) = Removals(log, S, p)
    BY <1>1 DEF Adds, Removals
  <1> QED
    BY <1>2 DEF ProviderEvents, LastWord

\* The newest event decides; an event of another row says nothing.
LEMMA NewestIsAddition ==
  ASSUME NEW log, NEW S \in SUBSET Nat, NEW i \in Nat, NEW p, Before(S, {i}),
         log[i].type = "provider_added", log[i].subject = p
  PROVE  /\ LastWord(log, S \cup {i}, p) = "ACTIVE"
         /\ Adds(log, S \cup {i}, p) # {} /\ ProviderEvents(log, S \cup {i}, p) # {}
  <1>1. \A j \in S : j < i
    BY DEF Before
  <1>2. i \in Adds(log, S \cup {i}, p) /\ Removals(log, S \cup {i}, p) \subseteq S
    BY DEF Adds, Removals
  <1> QED
    BY <1>1, <1>2 DEF LastWord, ProviderEvents

LEMMA NewestIsRemoval ==
  ASSUME NEW log, NEW S \in SUBSET Nat, NEW i \in Nat, NEW p, Before(S, {i}),
         log[i].type = "provider_removed", log[i].subject = p
  PROVE  /\ LastWord(log, S \cup {i}, p) = "REMOVED"
         /\ Adds(log, S \cup {i}, p) = Adds(log, S, p)
         /\ ProviderEvents(log, S \cup {i}, p) # {}
  <1>1. \A j \in S : ~(i < j)
    BY DEF Before
  <1>2. /\ i \in Removals(log, S \cup {i}, p)
        /\ Adds(log, S \cup {i}, p) = Adds(log, S, p) /\ Adds(log, S, p) \subseteq S
    BY DEF Adds, Removals
  <1> QED
    BY <1>1, <1>2 DEF LastWord, ProviderEvents

LEMMA NewestIsOther ==
  ASSUME NEW log, NEW S, NEW i, NEW p,
         log[i].type \notin {"provider_added", "provider_removed"} \/ log[i].subject # p
  PROVE  /\ Adds(log, S \cup {i}, p) = Adds(log, S, p)
         /\ ProviderEvents(log, S \cup {i}, p) = ProviderEvents(log, S, p)
         /\ LastWord(log, S \cup {i}, p) = LastWord(log, S, p)
  <1>1. ProviderEvents(log, {i}, p) = {}
    BY DEF ProviderEvents, Adds, Removals
  <1> QED
    BY <1>1, SilentSet

\* Two histories that agree on S say the same of it.
LEMMA SameEventsSameWord ==
  ASSUME NEW log, NEW longer, NEW S, NEW p, \A i \in S : longer[i] = log[i]
  PROVE  /\ Adds(longer, S, p) = Adds(log, S, p)
         /\ ProviderEvents(longer, S, p) = ProviderEvents(log, S, p)
         /\ LastWord(longer, S, p) = LastWord(log, S, p)
  <1>1. Adds(longer, S, p) = Adds(log, S, p) /\ Removals(longer, S, p) = Removals(log, S, p)
    BY DEF Adds, Removals
  <1> QED
    BY <1>1 DEF ProviderEvents, LastWord

\* The same four facts of a channel.
LEMMA LaterStateDecides ==
  ASSUME NEW log, NEW S \in SUBSET Nat, NEW T \in SUBSET Nat, NEW c,
         \A i \in S \ T, j \in T : i < j,
         ChannelEvents(log, T, c) # {}
  PROVE  ChannelAfter(log, S \cup T, c) = ChannelAfter(log, T, c)
  <1> DEFINE A == StateChanges(log, S \ T, c, FALSE)  B == StateChanges(log, S \ T, c, TRUE)
             C == StateChanges(log, T, c, FALSE)  D == StateChanges(log, T, c, TRUE)
  <1>1. /\ StateChanges(log, S \cup T, c, FALSE) = A \cup C
        /\ StateChanges(log, S \cup T, c, TRUE) = B \cup D
    BY DEF StateChanges
  <1>2. /\ A \subseteq S \ T /\ B \subseteq S \ T /\ C \subseteq T /\ D \subseteq T
        /\ C \cup D # {}
    BY DEF StateChanges, ChannelEvents
  <1>6. C \cup D # {}
    BY DEF StateChanges, ChannelEvents
  <1> HIDE DEF A, B, C, D
  <1>3. Before(A \cup B, C \cup D)
    BY <1>2 DEF Before
  <1>4. A \in SUBSET Nat /\ B \in SUBSET Nat /\ C \in SUBSET Nat /\ D \in SUBSET Nat
    BY <1>2
  <1>5. HasNewest(A \cup C, B \cup D) <=> HasNewest(C, D)
    BY <1>3, <1>4, <1>6, OlderIndicesSayNothing
  <1> QED
    BY <1>1, <1>5 DEF ChannelAfter, HasNewest, C, D

LEMMA SilentChannelSet ==
  ASSUME NEW log, NEW S, NEW T, NEW c, ChannelEvents(log, T, c) = {}
  PROVE  /\ ChannelEvents(log, S \cup T, c) = ChannelEvents(log, S, c)
         /\ ChannelAfter(log, S \cup T, c) = ChannelAfter(log, S, c)
  <1>1. StateChanges(log, T, c, TRUE) = {} /\ StateChanges(log, T, c, FALSE) = {}
    BY DEF ChannelEvents
  <1>2. /\ StateChanges(log, S \cup T, c, TRUE) = StateChanges(log, S, c, TRUE)
        /\ StateChanges(log, S \cup T, c, FALSE) = StateChanges(log, S, c, FALSE)
    BY <1>1 DEF StateChanges
  <1> QED
    BY <1>2 DEF ChannelEvents, ChannelAfter

LEMMA NewestStateDecides ==
  ASSUME NEW log, NEW S \in SUBSET Nat, NEW i \in Nat, NEW c, Before(S, {i}),
         log[i].type = "channel_state_changed", log[i].subject = c,
         log[i].enabled \in BOOLEAN
  PROVE  /\ ChannelAfter(log, S \cup {i}, c) = IF log[i].enabled THEN "enabled" ELSE "disabled"
         /\ ChannelEvents(log, S \cup {i}, c) # {}
  <1>1. \A j \in S : j < i /\ ~(i < j)
    BY DEF Before
  <1>2. CASE log[i].enabled = TRUE
    <2>1. /\ i \in StateChanges(log, S \cup {i}, c, TRUE)
          /\ StateChanges(log, S \cup {i}, c, FALSE) \subseteq S
      BY <1>2 DEF StateChanges
    <2> QED
      BY <1>1, <1>2, <2>1 DEF ChannelAfter, ChannelEvents
  <1>3. CASE log[i].enabled = FALSE
    <2>1. /\ i \in StateChanges(log, S \cup {i}, c, FALSE)
          /\ StateChanges(log, S \cup {i}, c, TRUE) \subseteq S
      BY <1>3 DEF StateChanges
    <2> QED
      BY <1>1, <1>3, <2>1 DEF ChannelAfter, ChannelEvents
  <1> QED
    BY <1>2, <1>3

LEMMA NewestStateElsewhere ==
  ASSUME NEW log, NEW S, NEW i, NEW c,
         log[i].type # "channel_state_changed" \/ log[i].subject # c
  PROVE  /\ ChannelEvents(log, S \cup {i}, c) = ChannelEvents(log, S, c)
         /\ ChannelAfter(log, S \cup {i}, c) = ChannelAfter(log, S, c)
  <1>1. ChannelEvents(log, {i}, c) = {}
    BY DEF ChannelEvents, StateChanges
  <1> QED
    BY <1>1, SilentChannelSet

LEMMA SameEventsSameState ==
  ASSUME NEW log, NEW longer, NEW S, NEW c, \A i \in S : longer[i] = log[i]
  PROVE  /\ ChannelEvents(longer, S, c) = ChannelEvents(log, S, c)
         /\ ChannelAfter(longer, S, c) = ChannelAfter(log, S, c)
  <1>1. /\ StateChanges(longer, S, c, TRUE) = StateChanges(log, S, c, TRUE)
        /\ StateChanges(longer, S, c, FALSE) = StateChanges(log, S, c, FALSE)
    BY DEF StateChanges
  <1> QED
    BY <1>1 DEF ChannelEvents, ChannelAfter

-----------------------------------------------------------------------------
(* The order in which a watcher that overlaps no other takes the events.   *)

LEMMA EventTypes ==
  ASSUME TypeOK
  PROVE  /\ DOMAIN chain = 1..Len(chain) /\ Len(chain) \in Nat
         /\ DOMAIN chain \subseteq Nat \ {0}
         /\ \A i \in DOMAIN chain : chain[i] \in LedgerEvent /\ chain[i].ledger \in Nat
  <1>1. /\ DOMAIN chain = 1..Len(chain) /\ Len(chain) \in Nat
        /\ \A i \in DOMAIN chain : chain[i] \in LedgerEvent
    BY DEF TypeOK
  <1>2. \A e \in LedgerEvent : e.ledger \in Nat
    BY DEF LedgerEvent
  <1> QED
    BY <1>1, <1>2

\* A page only grows with the history.
LEMMA PageGrows ==
  ASSUME TypeOK, CloseLedger, NEW n \in Nat
  PROVE  \A i \in Page(n) : i \in Page(n)'
  <1> SUFFICES ASSUME NEW i \in Page(n) PROVE i \in Page(n)'
    OBVIOUS
  <1>1. /\ chain' \in Seq(LedgerEvent) /\ Len(chain') >= Len(chain)
        /\ DOMAIN chain \subseteq DOMAIN chain'
        /\ \A k \in DOMAIN chain : chain'[k] = chain[k]
    BY CloseLedgerExtends
  <1>2. i \in DOMAIN chain /\ i \in Matching(n)
    BY DEF Page, Matching
  <1>3. i \in Matching(n)'
    BY <1>1, <1>2 DEF Matching
  <1>4. {j \in Matching(n) : j < i}' = {j \in Matching(n) : j < i}
    <2>1. DOMAIN chain = 1..Len(chain) /\ DOMAIN chain' = 1..Len(chain') /\ Len(chain) \in Nat
      BY <1>1 DEF TypeOK
    <2>2. \A j \in DOMAIN chain' : j < i => j \in DOMAIN chain
      BY <1>2, <2>1
    <2> QED
      BY <1>1, <1>2, <2>2 DEF Matching
  <1> QED
    BY <1>3, <1>4 DEF Page

LEMMA OrderInit == Init => OrderInvariant
  <1> SUFFICES ASSUME Init PROVE OrderInvariant
    OBVIOUS
  <1>1. DOMAIN chain = {} /\ applied = {} /\ latest = 1 /\ oldest = 1 /\ cursor = 0
    BY DEF Init
  <1>2. OrderOfHistory
    BY <1>1 DEF OrderOfHistory
  <1>3. ASSUME NEW w \in Watchers PROVE WatcherInOrder(w)
    BY DEF Init, WatcherInOrder, QuietUnlessPolling, PositionInOrder, PollInOrder
  <1> QED
    BY <1>2, <1>3 DEF OrderInvariant

\* A watcher that a step leaves alone stays in order if the step leaves
\* history and cursor alone too, or the watcher does not run.
LEMMA StaysInOrder ==
  ASSUME TypeOK, NEW v \in Watchers, WatcherInOrder(v), UNCHANGED <<chain, latest>>,
         phase'[v] = phase[v], pos'[v] = pos[v], next'[v] = next[v],
         todo'[v] = todo[v], done'[v] = done[v],
         stagedP'[v] = stagedP[v], stagedC'[v] = stagedC[v],
         UNCHANGED <<cursor, applied>> \/ phase[v] = "absent"
  PROVE  WatcherInOrder(v)'
  <1>1. QuietUnlessPolling(v)'
    BY DEF WatcherInOrder, QuietUnlessPolling
  <1>2. CASE phase[v] = "absent"
    BY <1>1, <1>2 DEF WatcherInOrder, PositionInOrder, PollInOrder
  <1>3. CASE UNCHANGED <<cursor, applied>>
    <2>1. Page(pos[v])' = Page(pos[v])
      BY DEF Page, Matching
    <2>2. PositionInOrder(v)'
      BY <1>3, <2>1 DEF WatcherInOrder, PositionInOrder
    <2>3. PollInOrder(v)'
      BY <1>3, <2>1 DEF WatcherInOrder, PollInOrder
    <2> QED
      BY <1>1, <2>2, <2>3 DEF WatcherInOrder
  <1> QED
    BY <1>2, <1>3

LEMMA OrderCloseLedger ==
  ASSUME TypeOK, OrderInvariant, CloseLedger
  PROVE  OrderInvariant'
  <1>1. /\ latest' = latest + 1 /\ latest \in Nat /\ oldest \in Nat /\ cursor \in Nat
        /\ UNCHANGED <<oldest, cursor, applied, phase, pos, next, todo, done, stagedP, stagedC>>
    BY DEF CloseLedger, TypeOK, postgres, process, poll
  <1>2. /\ chain' \in Seq(LedgerEvent) /\ chain \in Seq(LedgerEvent)
        /\ DOMAIN chain \subseteq DOMAIN chain'
        /\ \A i \in DOMAIN chain : chain'[i] = chain[i]
        /\ \A i \in DOMAIN chain' \ DOMAIN chain : chain'[i].ledger = latest + 1
    BY CloseLedgerExtends DEF TypeOK
  <1>3. \A i \in DOMAIN chain : chain[i].ledger \in Nat
    BY EventTypes
  <1>4. OrderOfHistory
    BY DEF OrderInvariant
  <1>5. OrderOfHistory'
    <2>1. \A i \in DOMAIN chain : chain'[i].ledger = chain[i].ledger /\ chain[i].ledger <= latest
      BY <1>2, <1>4 DEF OrderOfHistory
    <2>2. \A i \in DOMAIN chain' : chain'[i].ledger <= latest'
      BY <1>1, <1>2, <1>3, <2>1
    <2>3. ASSUME NEW i \in DOMAIN chain', NEW j \in DOMAIN chain', i < j
          PROVE  chain'[i].ledger <= chain'[j].ledger
      <3>1. CASE j \in DOMAIN chain
        <4>1. i \in DOMAIN chain
          BY <1>2, <2>3, <3>1
        <4> QED
          BY <1>2, <1>4, <2>3, <3>1, <4>1 DEF OrderOfHistory
      <3>2. CASE j \notin DOMAIN chain
        <4>1. chain'[j].ledger = latest + 1
          BY <1>2, <3>2
        <4> QED
          BY <1>1, <2>2, <4>1
      <3> QED
        BY <3>1, <3>2
    <2>4. \A i \in applied : chain'[i].ledger < cursor
      BY <1>2, <1>4 DEF OrderOfHistory, TypeOK
    <2> QED
      BY <1>1, <1>4, <2>2, <2>3, <2>4 DEF OrderOfHistory
  <1>6. ASSUME NEW v \in Watchers PROVE WatcherInOrder(v)'
    <2>0. WatcherInOrder(v) /\ pos[v] \in Nat /\ next[v] \in Nat
          /\ todo[v] \subseteq DOMAIN chain /\ done[v] \subseteq DOMAIN chain
          /\ applied \subseteq DOMAIN chain
      BY DEF OrderInvariant, TypeOK
    <2>1. QuietUnlessPolling(v)'
      BY <1>1, <2>0 DEF WatcherInOrder, QuietUnlessPolling
    <2>2. \A i \in Page(pos[v]) : i \in Page(pos[v])'
      <3>1. PICK n \in Nat : n = pos[v]
        BY <2>0
      <3>2. \A i \in Page(n) : i \in Page(n)'
        BY PageGrows
      <3> QED
        BY <1>1, <3>1, <3>2 DEF Page, Matching
    <2>3. PositionInOrder(v)'
      BY <1>1, <1>2, <2>0, <2>2 DEF WatcherInOrder, PositionInOrder
    <2>4. PollInOrder(v)'
      BY <1>1, <1>2, <2>0, <2>2 DEF WatcherInOrder, PollInOrder
    <2> QED
      BY <2>1, <2>3, <2>4 DEF WatcherInOrder
  <1> QED
    BY <1>5, <1>6 DEF OrderInvariant

\* The commit of w moves the cursor, and the position of w when acknowledged.
LEMMA OrderCommits ==
  ASSUME TypeOK, OrderInvariant, NoOverlap, NEW w \in Watchers, Commits(w),
         pos' \in {pos, [pos EXCEPT ![w] = next[w]]}
  PROVE  OrderInvariant'
  <1>1. /\ phase[w] = "committing" /\ todo[w] = {} /\ PollEnds(w)
        /\ cursor' = next[w] /\ applied' = applied \cup done[w]
        /\ UNCHANGED <<chain, latest, oldest>>
    BY DEF Commits, CursorAfter, network
  <1>2. /\ OrderOfHistory
        /\ pos[w] \in 1..(next[w] - 1) /\ next[w] \in cursor..(latest + 1)
        /\ \A i \in done[w] : i \in Page(pos[w]) /\ chain[i].ledger < next[w]
        /\ \A i \in applied : chain[i].ledger >= pos[w] => i \in Page(pos[w])
    BY <1>1 DEF OrderInvariant, WatcherInOrder, PollInOrder, PositionInOrder
  <1>3. /\ cursor \in Nat /\ next[w] \in Nat /\ pos[w] \in Nat /\ latest \in Nat
        /\ applied \subseteq DOMAIN chain /\ done[w] \subseteq DOMAIN chain
        /\ \A i \in DOMAIN chain : chain[i].ledger \in Nat
    BY EventTypes DEF TypeOK
  <1>4. \A i \in applied' : chain[i].ledger < next[w]
    <2>1. ASSUME NEW i \in applied PROVE chain[i].ledger < next[w]
      <3>1. chain[i].ledger < cursor /\ cursor <= next[w] /\ chain[i].ledger \in Nat
        BY <1>2, <1>3 DEF OrderOfHistory
      <3> QED
        BY <1>3, <3>1
    <2> QED
      BY <1>1, <1>2, <2>1
  <1>5. OrderOfHistory'
    BY <1>1, <1>2, <1>3, <1>4 DEF OrderOfHistory
  <1>6. WatcherInOrder(w)'
    <2>1. /\ phase'[w] = "idle" /\ todo'[w] = {} /\ done'[w] = {}
          /\ stagedP'[w] = NoProviderWrites /\ stagedC'[w] = NoChannelWrites
      BY <1>1 DEF PollEnds, TypeOK
    <2>2. QuietUnlessPolling(w)' /\ PollInOrder(w)'
      BY <2>1 DEF QuietUnlessPolling, PollInOrder
    <2>3. PositionInOrder(w)'
      <3>1. CASE pos'[w] = next[w]
        <4>1. \A i \in applied' : ~(chain'[i].ledger >= pos'[w])
          BY <1>1, <1>3, <1>4, <3>1
        <4> QED
          BY <1>1, <1>3, <2>1, <3>1, <4>1 DEF PositionInOrder
      <3>2. CASE pos'[w] = pos[w]
        <4>1. Page(pos[w])' = Page(pos[w])
          BY <1>1, <3>2 DEF Page, Matching
        <4>2. \A i \in applied' : chain'[i].ledger >= pos'[w] => i \in Page(pos[w])'
          BY <1>1, <1>2, <3>2, <4>1
        <4> QED
          BY <1>1, <1>2, <1>3, <2>1, <3>2, <4>2 DEF PositionInOrder
      <3> QED
        BY <3>1, <3>2 DEF TypeOK
    <2> QED
      BY <2>2, <2>3 DEF WatcherInOrder
  <1>7. ASSUME NEW v \in Watchers, v # w PROVE WatcherInOrder(v)'
    <2>1. phase[v] = "absent"
      BY <1>1, <1>7 DEF NoOverlap
    <2>2. /\ phase'[v] = phase[v] /\ pos'[v] = pos[v] /\ next'[v] = next[v]
          /\ todo'[v] = todo[v] /\ done'[v] = done[v]
          /\ stagedP'[v] = stagedP[v] /\ stagedC'[v] = stagedC[v]
      BY <1>1, <1>7 DEF PollEnds, TypeOK
    <2>3. WatcherInOrder(v)
      BY DEF OrderInvariant
    <2> QED
      BY <1>1, <2>1, <2>2, <2>3, StaysInOrder
  <1> QED
    BY <1>5, <1>6, <1>7 DEF OrderInvariant

\* A step of w that leaves history and cursor alone and w in order.
LEMMA OrderOneMoves ==
  ASSUME TypeOK, OrderInvariant, NEW w \in Watchers,
         UNCHANGED <<chain, latest, oldest, cursor, applied>>,
         \A v \in Watchers \ {w} :
            /\ phase'[v] = phase[v] /\ pos'[v] = pos[v] /\ next'[v] = next[v]
            /\ todo'[v] = todo[v] /\ done'[v] = done[v]
            /\ stagedP'[v] = stagedP[v] /\ stagedC'[v] = stagedC[v],
         WatcherInOrder(w)'
  PROVE  OrderInvariant'
  <1>1. OrderOfHistory'
    BY DEF OrderInvariant, OrderOfHistory
  <1>2. ASSUME NEW v \in Watchers, v # w PROVE WatcherInOrder(v)'
    <2>1. WatcherInOrder(v)
      BY DEF OrderInvariant
    <2>2. /\ phase'[v] = phase[v] /\ pos'[v] = pos[v] /\ next'[v] = next[v]
          /\ todo'[v] = todo[v] /\ done'[v] = done[v]
          /\ stagedP'[v] = stagedP[v] /\ stagedC'[v] = stagedC[v]
      BY <1>2
    <2> QED
      BY <2>1, <2>2, StaysInOrder
  <1> QED
    BY <1>1, <1>2 DEF OrderInvariant

LEMMA OrderWatcherStep ==
  ASSUME TypeOK, OrderInvariant, NoOverlap, NEW w \in Watchers, WatcherStep(w)
  PROVE  OrderInvariant'
  <1> DEFINE Still == UNCHANGED <<chain, latest, oldest, cursor, applied>>
             OthersStill ==
               \A v \in Watchers \ {w} :
                  /\ phase'[v] = phase[v] /\ pos'[v] = pos[v] /\ next'[v] = next[v]
                  /\ todo'[v] = todo[v] /\ done'[v] = done[v]
                  /\ stagedP'[v] = stagedP[v] /\ stagedC'[v] = stagedC[v]
  <1>0. /\ OrderOfHistory /\ QuietUnlessPolling(w) /\ PositionInOrder(w) /\ PollInOrder(w)
        /\ cursor \in Nat /\ latest \in Nat /\ oldest \in Nat /\ pos[w] \in Nat
        /\ applied \subseteq DOMAIN chain
        /\ \A i \in DOMAIN chain : chain[i].ledger \in Nat
    BY EventTypes DEF OrderInvariant, WatcherInOrder, TypeOK
  <1>1. CASE EnsureWatcher(w) \/ StartFails(w)
    <2>1. Still /\ OthersStill
      BY <1>1 DEF EnsureWatcher, StartFails, network, postgres, poll, TypeOK
    <2>2. /\ phase[w] # "committing" /\ phase'[w] \in {"restoring", "absent"}
          /\ UNCHANGED <<todo, done, stagedP, stagedC>>
      BY <1>1 DEF EnsureWatcher, StartFails, poll, TypeOK
    <2>3. WatcherInOrder(w)'
      BY <1>0, <2>2 DEF WatcherInOrder, QuietUnlessPolling, PositionInOrder, PollInOrder
    <2> QED
      BY <2>1, <2>3, OrderOneMoves
  <1>2. CASE RestoreCursor(w)
    <2>1. Still /\ OthersStill
      BY <1>2 DEF RestoreCursor, Started, network, postgres, poll, TypeOK
    <2>2. phase[w] = "restoring" /\ UNCHANGED <<todo, done, stagedP, stagedC>>
      BY <1>2 DEF RestoreCursor, poll
    <2>3. \/ cursor # 0 /\ phase'[w] = "idle" /\ pos'[w] = cursor
          \/ cursor = 0 /\ phase'[w] = "booting"
      BY <1>2 DEF RestoreCursor, Started, TypeOK
    <2>4. QuietUnlessPolling(w)' /\ PollInOrder(w)'
      BY <1>0, <2>2, <2>3 DEF QuietUnlessPolling, PollInOrder
    <2>5. PositionInOrder(w)'
      <3>1. \A i \in applied : ~(chain[i].ledger >= cursor)
        BY <1>0 DEF OrderOfHistory
      <3> QED
        BY <1>0, <2>1, <2>3, <3>1 DEF PositionInOrder
    <2>6. WatcherInOrder(w)'
      BY <2>4, <2>5 DEF WatcherInOrder
    <2> QED
      BY <2>1, <2>6, OrderOneMoves
  <1>3. CASE ResolveBootStartLedger(w)
    <2>1. Still /\ OthersStill
      BY <1>3 DEF ResolveBootStartLedger, Started, network, postgres, poll, TypeOK
    <2>2. /\ phase[w] = "booting" /\ phase'[w] = "idle"
          /\ UNCHANGED <<todo, done, stagedP, stagedC>>
      BY <1>3 DEF ResolveBootStartLedger, Started, poll, TypeOK
    <2>3. cursor = 0
      BY <1>0, <2>2 DEF PositionInOrder
    <2>4. applied = {}
      BY <1>0, <2>3 DEF OrderOfHistory
    <2>5. WatcherInOrder(w)'
      BY <1>0, <2>1, <2>2, <2>3, <2>4
         DEF WatcherInOrder, QuietUnlessPolling, PositionInOrder, PollInOrder
    <2> QED
      BY <2>1, <2>5, OrderOneMoves
  <1>4. CASE Fetch(w)
    <2>1. Still /\ OthersStill
      BY <1>4 DEF Fetch, network, postgres, TypeOK
    <2>2. /\ phase[w] = "idle" /\ phase'[w] = "committing" /\ pos'[w] = pos[w]
          /\ todo'[w] = Page(pos[w]) /\ next'[w] = latest + 1 /\ done' = done
          /\ pos[w] \in oldest..latest
      BY <1>4 DEF Fetch, Served, NextLedger, TypeOK
    <2>3. done[w] = {}
      BY <1>0, <2>2 DEF QuietUnlessPolling
    <2>4. Page(pos[w])' = Page(pos[w])
      BY <2>1, <2>2 DEF Page, Matching
    <2>5. PositionInOrder(w)' /\ QuietUnlessPolling(w)'
      BY <1>0, <2>1, <2>2, <2>4 DEF PositionInOrder, QuietUnlessPolling
    <2>6. Page(pos[w]) \subseteq DOMAIN chain /\ \A j \in Page(pos[w]) : chain[j].ledger >= pos[w]
      BY DEF Page, Matching
    <2>7. ASSUME NEW i \in applied \ Page(pos[w]), NEW j \in Page(pos[w])
          PROVE  i < j
      <3>1. i \in DOMAIN chain /\ j \in DOMAIN chain
        BY <1>0, <2>6
      <3>2. ~(chain[i].ledger >= pos[w]) /\ chain[j].ledger >= pos[w]
        BY <1>0, <2>2, <2>6 DEF PositionInOrder
      <3>3. chain[i].ledger \in Nat /\ chain[j].ledger \in Nat
        BY <1>0, <3>1
      <3>4. ~(chain[j].ledger <= chain[i].ledger)
        BY <1>0, <3>2, <3>3
      <3>5. ~(j < i) /\ j # i
        BY <1>0, <3>1, <3>3, <3>4 DEF OrderOfHistory
      <3>6. i \in Nat /\ j \in Nat
        BY <3>1, EventTypes
      <3> QED
        BY <3>5, <3>6
    <2>8. PollInOrder(w)'
      <3>1. todo'[w] \cup done'[w] = Page(pos[w])
        BY <2>2, <2>3
      <3>2. pos'[w] \in 1..(next'[w] - 1) /\ next'[w] \in cursor'..(latest' + 1)
        BY <1>0, <2>1, <2>2 DEF OrderOfHistory
      <3>3. \A j \in Page(pos[w]) : chain'[j].ledger < next'[w]
        BY <1>0, <2>1, <2>2, <2>6 DEF OrderOfHistory
      <3>4. \A i \in applied' \ Page(pos[w]) : \A j \in Page(pos[w]) : i < j
        BY <2>1, <2>7
      <3>5. done'[w] = {}
        BY <2>2, <2>3
      <3> QED
        BY <2>2, <2>4, <3>1, <3>2, <3>3, <3>4, <3>5 DEF PollInOrder
    <2>9. WatcherInOrder(w)'
      BY <2>5, <2>8 DEF WatcherInOrder
    <2> QED
      BY <2>1, <2>9, OrderOneMoves
  <1>5. CASE ApplyEvent(w)
    <2>1. Still /\ OthersStill /\ UNCHANGED <<phase, pos, next>>
      <3>1. Still /\ UNCHANGED <<phase, pos, next>>
        BY <1>5 DEF ApplyEvent, network, postgres
      <3>2. \A v \in Watchers \ {w} : todo'[v] = todo[v] /\ done'[v] = done[v]
        BY <1>5 DEF ApplyEvent, TypeOK
      <3>3. \A v \in Watchers \ {w} : stagedP'[v] = stagedP[v] /\ stagedC'[v] = stagedC[v]
        BY <1>5 DEF ApplyEvent, ApplyProviderEvent, ApplyChannelEvent, ApplyOtherEvent, TypeOK
      <3> QED
        BY <3>1, <3>2, <3>3
    <2>2. PICK i \in todo[w] : /\ \A j \in todo[w] : i <= j
                               /\ todo'[w] = todo[w] \ {i} /\ done'[w] = done[w] \cup {i}
      BY <1>5 DEF ApplyEvent, IsNext, TypeOK
    <2>3. phase[w] = "committing"
      BY <1>5 DEF ApplyEvent
    <2>4. todo'[w] \cup done'[w] = todo[w] \cup done[w]
      BY <2>2
    <2>5. Page(pos[w])' = Page(pos[w])
      BY <2>1 DEF Page, Matching
    <2>6. ASSUME NEW k \in done'[w], NEW j \in todo'[w] PROVE k < j
      <3>1. CASE k = i
        <4>1. i <= j /\ i # j /\ i \in Nat /\ j \in Nat
          BY <2>2, EventTypes DEF TypeOK
        <4> QED
          BY <3>1, <4>1
      <3>2. CASE k # i
        BY <1>0, <2>2, <2>3, <3>2 DEF PollInOrder
      <3> QED
        BY <3>1, <3>2
    <2>7. PollInOrder(w)'
      BY <1>0, <2>1, <2>3, <2>4, <2>5, <2>6 DEF PollInOrder
    <2>8. PositionInOrder(w)' /\ QuietUnlessPolling(w)'
      BY <1>0, <2>1, <2>3, <2>5 DEF PositionInOrder, QuietUnlessPolling
    <2>9. WatcherInOrder(w)'
      BY <2>7, <2>8 DEF WatcherInOrder
    <2> QED
      BY <2>1, <2>9, OrderOneMoves
  <1>6. CASE CommitPoll(w) \/ CommitUnacknowledged(w)
    BY <1>6, OrderCommits DEF CommitPoll, CommitUnacknowledged
  <1>7. CASE Rollback(w) \/ DeadlockAbort(w)
    <2>1. PollEnds(w) /\ Still /\ UNCHANGED pos /\ phase[w] = "committing"
      BY <1>7 DEF Rollback, DeadlockAbort, WaitsFor, network, postgres
    <2>2. /\ phase'[w] = "idle" /\ todo'[w] = {} /\ done'[w] = {}
          /\ stagedP'[w] = NoProviderWrites /\ stagedC'[w] = NoChannelWrites
      BY <2>1 DEF PollEnds, TypeOK
    <2>3. OthersStill
      BY <2>1 DEF PollEnds, TypeOK
    <2>4. Page(pos[w])' = Page(pos[w])
      BY <2>1 DEF Page, Matching
    <2>5. WatcherInOrder(w)'
      BY <1>0, <2>1, <2>2, <2>4
         DEF WatcherInOrder, QuietUnlessPolling, PositionInOrder, PollInOrder
    <2> QED
      BY <2>1, <2>3, <2>5, OrderOneMoves
  <1> QED
    BY <1>1, <1>2, <1>3, <1>4, <1>5, <1>6, <1>7 DEF WatcherStep

LEMMA OrderNext ==
  TypeOK /\ OrderInvariant /\ NoOverlap /\ [Next]_vars => OrderInvariant'
  <1> SUFFICES ASSUME TypeOK, OrderInvariant, NoOverlap, [Next]_vars
               PROVE  OrderInvariant'
    OBVIOUS
  <1>1. CASE CloseLedger
    BY <1>1, OrderCloseLedger
  <1>2. CASE AdvanceRetention \/ RegisterCouncil \/ StartupSyncEnds \/ UNCHANGED vars
    <2>1. /\ UNCHANGED <<chain, latest, cursor, applied, phase, pos, next, todo, done,
                        stagedP, stagedC>>
          /\ oldest' = oldest \/ (oldest' = oldest + 1 /\ oldest < latest)
      BY <1>2 DEF AdvanceRetention, RegisterCouncil, StartupSyncEnds, vars, network, postgres,
                  process, poll
    <2>2. OrderOfHistory'
      BY <2>1 DEF OrderInvariant, OrderOfHistory, TypeOK
    <2>3. ASSUME NEW v \in Watchers PROVE WatcherInOrder(v)'
      BY <2>1, StaysInOrder DEF OrderInvariant
    <2> QED
      BY <2>2, <2>3 DEF OrderInvariant
  <1>3. CASE Crash
    <2>1. UNCHANGED <<chain, latest, oldest, cursor, applied>>
      BY <1>3 DEF Crash, network, postgres
    <2>2. OrderOfHistory'
      BY <2>1 DEF OrderInvariant, OrderOfHistory
    <2>3. ASSUME NEW v \in Watchers PROVE WatcherInOrder(v)'
      BY <1>3 DEF Crash, WatcherInOrder, QuietUnlessPolling, PositionInOrder, PollInOrder
    <2> QED
      BY <2>2, <2>3 DEF OrderInvariant
  <1>4. ASSUME NEW w \in Watchers, WatcherStep(w) PROVE OrderInvariant'
    BY <1>4, OrderWatcherStep
  <1> QED
    BY <1>1, <1>2, <1>3, <1>4 DEF Next, Environment

\* A step of someone else leaves the order alone.
LEMMA OrderUntouched ==
  ASSUME OrderInvariant,
         UNCHANGED <<chain, latest, oldest, cursor, applied, phase, pos, next, todo, done,
                     stagedP, stagedC>>
  PROVE  OrderInvariant'
  <1>1. OrderOfHistory'
    BY DEF OrderInvariant, OrderOfHistory
  <1>2. ASSUME NEW w \in Watchers PROVE WatcherInOrder(w)'
    <2>1. Page(pos[w])' = Page(pos[w])
      BY DEF Page, Matching
    <2> QED
      BY <2>1 DEF OrderInvariant, WatcherInOrder, QuietUnlessPolling, PositionInOrder, PollInOrder
  <1> QED
    BY <1>1, <1>2 DEF OrderInvariant

-----------------------------------------------------------------------------
(* The rows and what an open transaction has written to them.  `since' is  *)
(* any number: the endpoints' modules put the row's own beginning there.   *)

\* A step that leaves rows, history of commits and transactions alone.
LEMMA ProviderUndisturbed ==
  ASSUME TypeOK, NEW p \in Providers, NEW since \in Nat, ProviderInvariant(p, since),
         \A i \in DOMAIN chain : chain'[i] = chain[i],
         UNCHANGED <<providers, applied, done, stagedP>>
  PROVE  ProviderInvariant(p, since)'
  <1>0. \A i \in applied : chain'[i] = chain[i]
    BY DEF TypeOK
  <1>1. /\ Adds(chain', applied, p) = Adds(chain, applied, p)
        /\ ProviderEvents(chain', applied, p) = ProviderEvents(chain, applied, p)
        /\ LastWord(chain', applied, p) = LastWord(chain, applied, p)
    BY <1>0, SameEventsSameWord
  <1>2. ProviderFollows(p, since)'
    BY <1>1 DEF ProviderInvariant, ProviderFollows
  <1>3. ASSUME NEW w \in Watchers PROVE ProviderStaged(w, p, since)'
    <2>1. \A i \in done[w] : chain'[i] = chain[i]
      BY DEF TypeOK
    <2>2. /\ Adds(chain', done[w], p) = Adds(chain, done[w], p)
          /\ ProviderEvents(chain', done[w], p) = ProviderEvents(chain, done[w], p)
          /\ LastWord(chain', done[w], p) = LastWord(chain, done[w], p)
      BY <2>1, SameEventsSameWord
    <2> QED
      BY <2>2 DEF ProviderInvariant, ProviderStaged
  <1> QED
    BY <1>2, <1>3 DEF ProviderInvariant

LEMMA ProviderApplyEvent ==
  ASSUME TypeOK, OrderInvariant, NEW w \in Watchers, ApplyEvent(w),
         NEW p \in Providers, NEW since \in Nat, ProviderStaged(w, p, since)
  PROVE  ProviderStaged(w, p, since)'
  <1>1. PICK i \in todo[w] :
           /\ \/ ApplyProviderEvent(w, chain[i])
              \/ ApplyChannelEvent(w, chain[i])
              \/ ApplyOtherEvent(chain[i])
           /\ done'[w] = done[w] \cup {i}
    BY DEF ApplyEvent, TypeOK
  <1>2. /\ UNCHANGED <<chain, providers>> /\ phase[w] = "committing"
    BY DEF ApplyEvent, network, postgres, tables
  <1>3. /\ i \in Nat /\ done[w] \in SUBSET Nat /\ \A j \in done[w] : j < i
    BY <1>2, EventTypes DEF TypeOK, OrderInvariant, WatcherInOrder, PollInOrder
  <1> DEFINE e == chain[i]  S == done[w]
             Added == e.type = "provider_added" /\ e.subject = p
             Removed == e.type = "provider_removed" /\ e.subject = p
  <1>4. /\ Added => /\ LastWord(chain, S \cup {i}, p) = "ACTIVE"
                    /\ Adds(chain, S \cup {i}, p) # {}
                    /\ ProviderEvents(chain, S \cup {i}, p) # {}
        /\ Removed => /\ LastWord(chain, S \cup {i}, p) = "REMOVED"
                      /\ Adds(chain, S \cup {i}, p) = Adds(chain, S, p)
                      /\ ProviderEvents(chain, S \cup {i}, p) # {}
        /\ ~Added /\ ~Removed =>
              /\ Adds(chain, S \cup {i}, p) = Adds(chain, S, p)
              /\ ProviderEvents(chain, S \cup {i}, p) = ProviderEvents(chain, S, p)
              /\ LastWord(chain, S \cup {i}, p) = LastWord(chain, S, p)
    <2> HIDE DEF S
    <2>1. S \in SUBSET Nat /\ i \in Nat /\ Before(S, {i})
      BY <1>3 DEF S, Before
    <2>2. CASE Added
      BY <2>1, <2>2, NewestIsAddition
    <2>3. CASE Removed
      BY <2>1, <2>3, NewestIsRemoval
    <2>4. CASE ~Added /\ ~Removed
      BY <2>4, NewestIsOther
    <2> QED
      BY <2>2, <2>3, <2>4
  <1>6. /\ stagedP[w][p] \in {"ACTIVE", "REMOVED", NoWrite}
        /\ providers[p] \in {"ACTIVE", "REMOVED", "none"}
        /\ stagedP \in [Watchers -> [Providers -> Staged(ProviderStatus)]]
    BY DEF TypeOK, Staged, ProviderStatus, ProviderRow
  <1>7. stagedP'[w][p] =
          IF Added /\ ProviderSeen(w, p) # "ACTIVE" THEN "ACTIVE"
          ELSE IF Removed /\ ProviderSeen(w, p) # "none" THEN "REMOVED"
          ELSE stagedP[w][p]
    <2>1. CASE ApplyProviderEvent(w, e)
      <3>1. CASE ProviderWrite(w, e) = NoWrite
        <4>1. stagedP' = stagedP
          BY <2>1, <3>1 DEF ApplyProviderEvent
        <4> QED
          BY <3>1, <4>1 DEF ProviderWrite, NoWrite
      <3>2. CASE ProviderWrite(w, e) # NoWrite
        <4>1. stagedP' = [stagedP EXCEPT ![w][e.subject] = ProviderWrite(w, e)]
          BY <2>1, <3>2 DEF ApplyProviderEvent
        <4>2. stagedP'[w][p] = IF p = e.subject THEN ProviderWrite(w, e) ELSE stagedP[w][p]
          BY <1>6, <4>1
        <4> QED
          BY <3>2, <4>2 DEF ProviderWrite, NoWrite
      <3> QED
        BY <3>1, <3>2
    <2>2. CASE ApplyChannelEvent(w, e) \/ ApplyOtherEvent(e)
      BY <2>2 DEF ApplyChannelEvent, ApplyOtherEvent
    <2> QED
      BY <1>1, <2>1, <2>2
  <1>8. done'[w] = S \cup {i}
    BY <1>1
  <1>9. ~(Added /\ Removed)
    OBVIOUS
  <1> HIDE DEF e, S, Added, Removed
  <1>11. CASE Added
    BY <1>2, <1>4, <1>6, <1>7, <1>8, <1>11 DEF ProviderStaged, ProviderSeen, NoWrite
  <1>12. CASE Removed
    BY <1>2, <1>4, <1>6, <1>7, <1>8, <1>9, <1>12 DEF ProviderStaged, ProviderSeen, NoWrite, S
  <1>13. CASE ~Added /\ ~Removed
    BY <1>2, <1>4, <1>7, <1>8, <1>13 DEF ProviderStaged, S
  <1> QED
    BY <1>11, <1>12, <1>13

\* The events a commit applies are its own and older ones: those applied
\* before that are not among them are older than all of them.
LEMMA CommitAppends ==
  ASSUME TypeOK, OrderInvariant, NoOverlap, NEW w \in Watchers, Commits(w)
  PROVE  /\ \A i \in applied \ done[w], j \in done[w] : i < j
         /\ applied \in SUBSET Nat /\ done[w] \in SUBSET Nat
         /\ UNCHANGED chain /\ applied' = applied \cup done[w]
         /\ \A v \in Watchers :
              /\ v # w => done[v] = {} /\ stagedP[v] = NoProviderWrites
                                       /\ stagedC[v] = NoChannelWrites
              /\ done'[v] = {} /\ stagedP'[v] = NoProviderWrites
                               /\ stagedC'[v] = NoChannelWrites
  <1>1. /\ phase[w] = "committing" /\ todo[w] = {} /\ PollEnds(w)
        /\ UNCHANGED chain /\ applied' = applied \cup done[w]
    BY DEF Commits, network
  <1>2. todo[w] \cup done[w] = done[w]
    BY <1>1
  <1>3. \A i \in applied \ done[w] : \A j \in done[w] : i < j
    BY <1>1, <1>2 DEF OrderInvariant, WatcherInOrder, PollInOrder
  <1>4. applied \in SUBSET Nat /\ done[w] \in SUBSET Nat
    BY EventTypes DEF TypeOK
  <1>5. ASSUME NEW v \in Watchers, v # w
        PROVE  done[v] = {} /\ stagedP[v] = NoProviderWrites /\ stagedC[v] = NoChannelWrites
    <2>1. phase[v] = "absent"
      BY <1>1, <1>5 DEF NoOverlap
    <2> QED
      BY <2>1 DEF OrderInvariant, WatcherInOrder, QuietUnlessPolling
  <1>6. ASSUME NEW v \in Watchers
        PROVE  done'[v] = {} /\ stagedP'[v] = NoProviderWrites /\ stagedC'[v] = NoChannelWrites
    <2>1. CASE v = w
      BY <1>1, <2>1 DEF PollEnds, TypeOK
    <2>2. CASE v # w
      BY <1>1, <1>5, <2>2 DEF PollEnds, TypeOK
    <2> QED
      BY <2>1, <2>2
  <1> QED
    BY <1>1, <1>3, <1>4, <1>5, <1>6

LEMMA ProviderCommits ==
  ASSUME TypeOK, OrderInvariant, NoOverlap, NEW w \in Watchers, Commits(w),
         NEW p \in Providers, NEW since \in Nat, ProviderInvariant(p, since)
  PROVE  ProviderInvariant(p, since)'
  <1> DEFINE S == applied  T == done[w]
  <1>1. /\ \A i \in S \ T, j \in T : i < j
        /\ S \in SUBSET Nat /\ T \in SUBSET Nat
        /\ chain' = chain /\ applied' = S \cup T
        /\ providers'[p] = ProviderSeen(w, p)
    BY CommitAppends DEF Commits
  <1>2. ProviderStaged(w, p, since) /\ ProviderFollows(p, since)
    BY DEF ProviderInvariant
  <1>3. ProviderEvents(chain, T, p) # {} =>
          LastWord(chain, S \cup T, p) = LastWord(chain, T, p)
    BY <1>1, LaterWordDecides
  <1>4. ProviderEvents(chain, T, p) = {} =>
          /\ ProviderEvents(chain, S \cup T, p) = ProviderEvents(chain, S, p)
          /\ LastWord(chain, S \cup T, p) = LastWord(chain, S, p)
    BY SilentSet
  <1>5. /\ ProviderEvents(chain, S \cup T, p) \subseteq S \cup T
        /\ ProviderEvents(chain, T, p) \subseteq T
        /\ \A i \in T : i \in ProviderEvents(chain, S \cup T, p) =>
                          i \in ProviderEvents(chain, T, p)
    BY DEF ProviderEvents, Adds, Removals
  <1> HIDE DEF S, T
  <1>6. ASSUME providers'[p] # "none", NEW i \in ProviderEvents(chain, S \cup T, p), i > since
        PROVE  providers'[p] = LastWord(chain, S \cup T, p)
    <2>1. CASE stagedP[w][p] # NoWrite
      BY <1>1, <1>2, <1>3, <2>1 DEF ProviderStaged, ProviderSeen, T
    <2>2. CASE stagedP[w][p] = NoWrite
      <3>1. providers'[p] = providers[p]
        BY <1>1, <2>2 DEF ProviderSeen
      <3>2. CASE \E k \in ProviderEvents(chain, T, p) : k > since
        BY <1>2, <1>3, <1>6, <2>2, <3>1, <3>2 DEF ProviderStaged, T
      <3>3. CASE \A k \in ProviderEvents(chain, T, p) : ~(k > since)
        <4>1. i \in S \ T
          BY <1>5, <1>6, <3>3
        <4>2. ASSUME NEW k \in ProviderEvents(chain, T, p) PROVE FALSE
          <5>1. i < k /\ ~(k > since) /\ i > since /\ i \in Nat /\ k \in Nat
            BY <1>1, <1>5, <1>6, <3>3, <4>1
          <5> QED
            BY <5>1
        <4>3. ProviderEvents(chain, T, p) = {}
          BY <4>2
        <4> QED
          BY <1>2, <1>4, <1>6, <3>1, <4>3 DEF ProviderFollows, S
      <3> QED
        BY <3>2, <3>3
    <2> QED
      BY <2>1, <2>2
  <1>7. ProviderFollows(p, since)'
    BY <1>1, <1>6 DEF ProviderFollows
  <1>8. ASSUME NEW v \in Watchers PROVE ProviderStaged(v, p, since)'
    <2>1. done'[v] = {} /\ stagedP'[v] = NoProviderWrites
      BY CommitAppends
    <2> QED
      BY <2>1 DEF ProviderStaged, NoProviderWrites, ProviderEvents, Adds, Removals
  <1> QED
    BY <1>7, <1>8 DEF ProviderInvariant

LEMMA ProviderWatcherStep ==
  ASSUME TypeOK, OrderInvariant, NoOverlap, NEW w \in Watchers, WatcherStep(w),
         NEW p \in Providers, NEW since \in Nat, ProviderInvariant(p, since)
  PROVE  ProviderInvariant(p, since)'
  <1>1. CASE \/ EnsureWatcher(w) \/ RestoreCursor(w) \/ ResolveBootStartLedger(w)
             \/ StartFails(w) \/ Fetch(w)
    <2>1. UNCHANGED <<chain, providers, applied, done, stagedP>>
      BY <1>1 DEF EnsureWatcher, RestoreCursor, ResolveBootStartLedger, Started, StartFails,
                  Fetch, network, postgres, tables, poll
    <2> QED
      BY <2>1, ProviderUndisturbed
  <1>2. CASE ApplyEvent(w)
    <2>1. UNCHANGED <<chain, providers, applied>>
      BY <1>2 DEF ApplyEvent, network, postgres, tables
    <2>2. ProviderFollows(p, since)'
      BY <2>1 DEF ProviderInvariant, ProviderFollows
    <2>3. ASSUME NEW v \in Watchers PROVE ProviderStaged(v, p, since)'
      <3>1. CASE v = w
        BY <1>2, <3>1, ProviderApplyEvent DEF ProviderInvariant
      <3>2. CASE v # w
        <4>1. done'[v] = done[v]
          BY <1>2, <3>2 DEF ApplyEvent, TypeOK
        <4>2. stagedP'[v] = stagedP[v]
          BY <1>2, <3>2 DEF ApplyEvent, ApplyProviderEvent, ApplyChannelEvent,
                            ApplyOtherEvent, TypeOK
        <4> QED
          BY <2>1, <4>1, <4>2 DEF ProviderInvariant, ProviderStaged
      <3> QED
        BY <3>1, <3>2
    <2> QED
      BY <2>2, <2>3 DEF ProviderInvariant
  <1>3. CASE CommitPoll(w) \/ CommitUnacknowledged(w)
    BY <1>3, ProviderCommits DEF CommitPoll, CommitUnacknowledged
  <1>4. CASE Rollback(w) \/ DeadlockAbort(w)
    <2>1. UNCHANGED <<chain, providers, applied>> /\ PollEnds(w)
      BY <1>4 DEF Rollback, DeadlockAbort, network, postgres, tables
    <2>2. ProviderFollows(p, since)'
      BY <2>1 DEF ProviderInvariant, ProviderFollows
    <2>3. ASSUME NEW v \in Watchers PROVE ProviderStaged(v, p, since)'
      <3>1. CASE v = w
        <4>1. done'[v] = {} /\ stagedP'[v] = NoProviderWrites
          BY <2>1, <3>1 DEF PollEnds, TypeOK
        <4> QED
          BY <4>1 DEF ProviderStaged, NoProviderWrites, ProviderEvents, Adds, Removals
      <3>2. CASE v # w
        <4>1. done'[v] = done[v] /\ stagedP'[v] = stagedP[v]
          BY <2>1, <3>2 DEF PollEnds, TypeOK
        <4> QED
          BY <2>1, <4>1 DEF ProviderInvariant, ProviderStaged
      <3> QED
        BY <3>1, <3>2
    <2> QED
      BY <2>2, <2>3 DEF ProviderInvariant
  <1> QED
    BY <1>1, <1>2, <1>3, <1>4 DEF WatcherStep

LEMMA ProviderNext ==
  ASSUME TypeOK, OrderInvariant, NoOverlap, [Next]_vars,
         NEW p \in Providers, NEW since \in Nat, ProviderInvariant(p, since)
  PROVE  ProviderInvariant(p, since)'
  <1>1. CASE CloseLedger
    <2>1. /\ UNCHANGED <<providers, applied, done, stagedP>>
          /\ \A i \in DOMAIN chain : chain'[i] = chain[i]
      BY <1>1, CloseLedgerExtends DEF CloseLedger, postgres, tables, process, poll
    <2> QED
      BY <2>1, ProviderUndisturbed
  <1>2. CASE AdvanceRetention \/ RegisterCouncil \/ StartupSyncEnds \/ UNCHANGED vars
    <2>1. UNCHANGED <<chain, providers, applied, done, stagedP>>
      BY <1>2 DEF AdvanceRetention, RegisterCouncil, StartupSyncEnds, vars, network, postgres,
                  tables, process, poll
    <2> QED
      BY <2>1, ProviderUndisturbed
  <1>3. CASE Crash
    <2>1. UNCHANGED <<chain, providers, applied>>
      BY <1>3 DEF Crash, network, postgres, tables
    <2>2. ProviderFollows(p, since)'
      BY <2>1 DEF ProviderInvariant, ProviderFollows
    <2>3. ASSUME NEW v \in Watchers PROVE ProviderStaged(v, p, since)'
      <3>1. done'[v] = {} /\ stagedP'[v] = NoProviderWrites
        BY <1>3 DEF Crash
      <3> QED
        BY <3>1 DEF ProviderStaged, NoProviderWrites, ProviderEvents, Adds, Removals
    <2> QED
      BY <2>2, <2>3 DEF ProviderInvariant
  <1>4. ASSUME NEW w \in Watchers, WatcherStep(w) PROVE ProviderInvariant(p, since)'
    BY <1>4, ProviderWatcherStep
  <1> QED
    BY <1>1, <1>2, <1>3, <1>4 DEF Next, Environment

\* The channels' rows likewise.
LEMMA ChannelUndisturbed ==
  ASSUME TypeOK, NEW c \in Channels, NEW since \in Nat, ChannelInvariant(c, since),
         \A i \in DOMAIN chain : chain'[i] = chain[i],
         UNCHANGED <<channels, applied, done, stagedC>>
  PROVE  ChannelInvariant(c, since)'
  <1>0. \A i \in applied : chain'[i] = chain[i]
    BY DEF TypeOK
  <1>1. /\ ChannelEvents(chain', applied, c) = ChannelEvents(chain, applied, c)
        /\ ChannelAfter(chain', applied, c) = ChannelAfter(chain, applied, c)
    BY <1>0, SameEventsSameState
  <1>2. ChannelFollows(c, since)'
    BY <1>1 DEF ChannelInvariant, ChannelFollows
  <1>3. ASSUME NEW w \in Watchers PROVE ChannelStaged(w, c, since)'
    <2>1. \A i \in done[w] : chain'[i] = chain[i]
      BY DEF TypeOK
    <2>2. /\ ChannelEvents(chain', done[w], c) = ChannelEvents(chain, done[w], c)
          /\ ChannelAfter(chain', done[w], c) = ChannelAfter(chain, done[w], c)
      BY <2>1, SameEventsSameState
    <2> QED
      BY <2>2 DEF ChannelInvariant, ChannelStaged
  <1> QED
    BY <1>2, <1>3 DEF ChannelInvariant

LEMMA ChannelApplyEvent ==
  ASSUME TypeOK, OrderInvariant, NEW w \in Watchers, ApplyEvent(w),
         NEW c \in Channels, NEW since \in Nat, ChannelStaged(w, c, since)
  PROVE  ChannelStaged(w, c, since)'
  <1>1. PICK i \in todo[w] :
           /\ \/ ApplyProviderEvent(w, chain[i])
              \/ ApplyChannelEvent(w, chain[i])
              \/ ApplyOtherEvent(chain[i])
           /\ done'[w] = done[w] \cup {i}
    BY DEF ApplyEvent, TypeOK
  <1>2. UNCHANGED <<chain, channels>> /\ phase[w] = "committing"
    BY DEF ApplyEvent, network, postgres, tables
  <1>3. /\ i \in Nat /\ done[w] \in SUBSET Nat /\ \A j \in done[w] : j < i
        /\ chain[i] \in LedgerEvent
    BY <1>2, EventTypes DEF TypeOK, OrderInvariant, WatcherInOrder, PollInOrder
  <1> DEFINE e == chain[i]  S == done[w]
             Spoken == e.type = "channel_state_changed" /\ e.subject = c
  <1>4. Spoken => e.enabled \in BOOLEAN
    BY <1>3 DEF LedgerEvent
  <1>5. /\ Spoken =>
             /\ ChannelAfter(chain, S \cup {i}, c) = IF e.enabled THEN "enabled" ELSE "disabled"
             /\ ChannelEvents(chain, S \cup {i}, c) # {}
        /\ ~Spoken =>
             /\ ChannelAfter(chain, S \cup {i}, c) = ChannelAfter(chain, S, c)
             /\ ChannelEvents(chain, S \cup {i}, c) = ChannelEvents(chain, S, c)
    <2> HIDE DEF S
    <2>1. S \in SUBSET Nat /\ i \in Nat /\ Before(S, {i})
      BY <1>3 DEF S, Before
    <2>2. CASE Spoken
      BY <1>4, <2>1, <2>2, NewestStateDecides
    <2>3. CASE ~Spoken
      BY <2>3, NewestStateElsewhere
    <2> QED
      BY <2>2, <2>3
  <1>6. /\ stagedC \in [Watchers -> [Channels -> Staged(ChannelStatus)]]
        /\ stagedC[w][c] \in {"enabled", "disabled", NoWrite}
    BY DEF TypeOK, Staged, ChannelStatus
  <1>7. stagedC'[w][c] =
          IF Spoken /\ channels[c].status # "none"
          THEN IF e.enabled THEN "enabled" ELSE "disabled"
          ELSE stagedC[w][c]
    <2>1. CASE ApplyChannelEvent(w, e)
      <3>1. CASE ChannelWrite(e) = NoWrite
        <4>1. stagedC' = stagedC
          BY <2>1, <3>1 DEF ApplyChannelEvent
        <4> QED
          BY <3>1, <4>1 DEF ChannelWrite, NoWrite
      <3>2. CASE ChannelWrite(e) # NoWrite
        <4>1. stagedC' = [stagedC EXCEPT ![w][e.subject] = ChannelWrite(e)]
          BY <2>1, <3>2 DEF ApplyChannelEvent
        <4>2. stagedC'[w][c] = IF c = e.subject THEN ChannelWrite(e) ELSE stagedC[w][c]
          BY <1>6, <4>1
        <4>3. e.type = "channel_state_changed"
          BY <2>1 DEF ApplyChannelEvent
        <4> QED
          BY <3>2, <4>2, <4>3 DEF ChannelWrite, NoWrite
      <3> QED
        BY <3>1, <3>2
    <2>2. CASE ApplyProviderEvent(w, e) \/ ApplyOtherEvent(e)
      BY <2>2 DEF ApplyProviderEvent, ApplyOtherEvent
    <2> QED
      BY <1>1, <2>1, <2>2
  <1>8. done'[w] = S \cup {i}
    BY <1>1
  <1> HIDE DEF e, S, Spoken
  <1>10. CASE Spoken /\ channels[c].status # "none"
    BY <1>2, <1>5, <1>7, <1>8, <1>10 DEF ChannelStaged, NoWrite
  <1>11. CASE Spoken /\ channels[c].status = "none"
    BY <1>2, <1>7, <1>8, <1>11 DEF ChannelStaged
  <1>12. CASE ~Spoken
    BY <1>2, <1>5, <1>7, <1>8, <1>12 DEF ChannelStaged, S
  <1> QED
    BY <1>10, <1>11, <1>12

LEMMA ChannelCommits ==
  ASSUME TypeOK, OrderInvariant, NoOverlap, NEW w \in Watchers, Commits(w),
         NEW c \in Channels, NEW since \in Nat, ChannelInvariant(c, since)
  PROVE  ChannelInvariant(c, since)'
  <1> DEFINE S == applied  T == done[w]
  <1>1. /\ \A i \in S \ T, j \in T : i < j
        /\ S \in SUBSET Nat /\ T \in SUBSET Nat
        /\ chain' = chain /\ applied' = S \cup T
        /\ channels'[c] = ChannelCommitted(w, c)
    BY CommitAppends DEF Commits
  <1>2. ChannelStaged(w, c, since) /\ ChannelFollows(c, since)
    BY DEF ChannelInvariant
  <1>3. ChannelEvents(chain, T, c) # {} =>
          ChannelAfter(chain, S \cup T, c) = ChannelAfter(chain, T, c)
    BY <1>1, LaterStateDecides
  <1>4. ChannelEvents(chain, T, c) = {} =>
          /\ ChannelEvents(chain, S \cup T, c) = ChannelEvents(chain, S, c)
          /\ ChannelAfter(chain, S \cup T, c) = ChannelAfter(chain, S, c)
    BY SilentChannelSet
  <1>5. /\ ChannelEvents(chain, S \cup T, c) \subseteq S \cup T
        /\ ChannelEvents(chain, T, c) \subseteq T
        /\ \A i \in T : i \in ChannelEvents(chain, S \cup T, c) =>
                          i \in ChannelEvents(chain, T, c)
    BY DEF ChannelEvents, StateChanges
  <1> HIDE DEF S, T
  <1>6. /\ stagedC[w][c] # NoWrite =>
             channels'[c].status = stagedC[w][c] /\ stagedC[w][c] = ChannelAfter(chain, S \cup T, c)
        /\ stagedC[w][c] = NoWrite => channels'[c].status = channels[c].status
    BY <1>1, <1>2, <1>3 DEF ChannelStaged, ChannelCommitted, T
  <1>7. ASSUME channels'[c].status # "none",
               NEW i \in ChannelEvents(chain, S \cup T, c), i > since
        PROVE  channels'[c].status = ChannelAfter(chain, S \cup T, c)
    <2>1. CASE stagedC[w][c] # NoWrite
      BY <1>6, <2>1
    <2>2. CASE stagedC[w][c] = NoWrite
      <3>1. \A k \in ChannelEvents(chain, T, c) : k <= since
        BY <1>2, <1>6, <1>7, <2>2 DEF ChannelStaged, T
      <3>2. i \in S \ T
        <4>1. ASSUME i \in T PROVE FALSE
          <5>1. i <= since /\ i > since /\ i \in Nat
            BY <1>1, <1>5, <1>7, <3>1, <4>1
          <5> QED
            BY <5>1
        <4> QED
          BY <1>5, <4>1
      <3>3. ASSUME NEW k \in ChannelEvents(chain, T, c) PROVE FALSE
        <4>1. i < k /\ k <= since /\ i > since /\ i \in Nat /\ k \in Nat
          BY <1>1, <1>5, <1>7, <3>1, <3>2
        <4> QED
          BY <4>1
      <3>4. ChannelEvents(chain, T, c) = {}
        BY <3>3
      <3> QED
        BY <1>2, <1>4, <1>6, <1>7, <2>2, <3>4 DEF ChannelFollows, S
    <2> QED
      BY <2>1, <2>2
  <1>8. channels'[c].status = "disabled" => ChannelAfter(chain, S \cup T, c) = "disabled"
    BY <1>2, <1>4, <1>6 DEF ChannelStaged, ChannelFollows, S, T
  <1>9. ChannelFollows(c, since)'
    BY <1>1, <1>7, <1>8 DEF ChannelFollows
  <1>10. ASSUME NEW v \in Watchers PROVE ChannelStaged(v, c, since)'
    <2>1. done'[v] = {} /\ stagedC'[v] = NoChannelWrites
      BY CommitAppends
    <2> QED
      BY <2>1 DEF ChannelStaged, NoChannelWrites, ChannelEvents, StateChanges
  <1> QED
    BY <1>9, <1>10 DEF ChannelInvariant

LEMMA ChannelWatcherStep ==
  ASSUME TypeOK, OrderInvariant, NoOverlap, NEW w \in Watchers, WatcherStep(w),
         NEW c \in Channels, NEW since \in Nat, ChannelInvariant(c, since)
  PROVE  ChannelInvariant(c, since)'
  <1>1. CASE \/ EnsureWatcher(w) \/ RestoreCursor(w) \/ ResolveBootStartLedger(w)
             \/ StartFails(w) \/ Fetch(w)
    <2>1. UNCHANGED <<chain, channels, applied, done, stagedC>>
      BY <1>1 DEF EnsureWatcher, RestoreCursor, ResolveBootStartLedger, Started, StartFails,
                  Fetch, network, postgres, tables, poll
    <2> QED
      BY <2>1, ChannelUndisturbed
  <1>2. CASE ApplyEvent(w)
    <2>1. UNCHANGED <<chain, channels, applied>>
      BY <1>2 DEF ApplyEvent, network, postgres, tables
    <2>2. ChannelFollows(c, since)'
      BY <2>1 DEF ChannelInvariant, ChannelFollows
    <2>3. ASSUME NEW v \in Watchers PROVE ChannelStaged(v, c, since)'
      <3>1. CASE v = w
        BY <1>2, <3>1, ChannelApplyEvent DEF ChannelInvariant
      <3>2. CASE v # w
        <4>1. done'[v] = done[v]
          BY <1>2, <3>2 DEF ApplyEvent, TypeOK
        <4>2. stagedC'[v] = stagedC[v]
          BY <1>2, <3>2 DEF ApplyEvent, ApplyProviderEvent, ApplyChannelEvent,
                            ApplyOtherEvent, TypeOK
        <4> QED
          BY <2>1, <4>1, <4>2 DEF ChannelInvariant, ChannelStaged
      <3> QED
        BY <3>1, <3>2
    <2> QED
      BY <2>2, <2>3 DEF ChannelInvariant
  <1>3. CASE CommitPoll(w) \/ CommitUnacknowledged(w)
    BY <1>3, ChannelCommits DEF CommitPoll, CommitUnacknowledged
  <1>4. CASE Rollback(w) \/ DeadlockAbort(w)
    <2>1. UNCHANGED <<chain, channels, applied>> /\ PollEnds(w)
      BY <1>4 DEF Rollback, DeadlockAbort, network, postgres, tables
    <2>2. ChannelFollows(c, since)'
      BY <2>1 DEF ChannelInvariant, ChannelFollows
    <2>3. ASSUME NEW v \in Watchers PROVE ChannelStaged(v, c, since)'
      <3>1. CASE v = w
        <4>1. done'[v] = {} /\ stagedC'[v] = NoChannelWrites
          BY <2>1, <3>1 DEF PollEnds, TypeOK
        <4> QED
          BY <4>1 DEF ChannelStaged, NoChannelWrites, ChannelEvents, StateChanges
      <3>2. CASE v # w
        <4>1. done'[v] = done[v] /\ stagedC'[v] = stagedC[v]
          BY <2>1, <3>2 DEF PollEnds, TypeOK
        <4> QED
          BY <2>1, <4>1 DEF ChannelInvariant, ChannelStaged
      <3> QED
        BY <3>1, <3>2
    <2> QED
      BY <2>2, <2>3 DEF ChannelInvariant
  <1> QED
    BY <1>1, <1>2, <1>3, <1>4 DEF WatcherStep

LEMMA ChannelNext ==
  ASSUME TypeOK, OrderInvariant, NoOverlap, [Next]_vars,
         NEW c \in Channels, NEW since \in Nat, ChannelInvariant(c, since)
  PROVE  ChannelInvariant(c, since)'
  <1>1. CASE CloseLedger
    <2>1. /\ UNCHANGED <<channels, applied, done, stagedC>>
          /\ \A i \in DOMAIN chain : chain'[i] = chain[i]
      BY <1>1, CloseLedgerExtends DEF CloseLedger, postgres, tables, process, poll
    <2> QED
      BY <2>1, ChannelUndisturbed
  <1>2. CASE AdvanceRetention \/ RegisterCouncil \/ StartupSyncEnds \/ UNCHANGED vars
    <2>1. UNCHANGED <<chain, channels, applied, done, stagedC>>
      BY <1>2 DEF AdvanceRetention, RegisterCouncil, StartupSyncEnds, vars, network, postgres,
                  tables, process, poll
    <2> QED
      BY <2>1, ChannelUndisturbed
  <1>3. CASE Crash
    <2>1. UNCHANGED <<chain, channels, applied>>
      BY <1>3 DEF Crash, network, postgres, tables
    <2>2. ChannelFollows(c, since)'
      BY <2>1 DEF ChannelInvariant, ChannelFollows
    <2>3. ASSUME NEW v \in Watchers PROVE ChannelStaged(v, c, since)'
      <3>1. done'[v] = {} /\ stagedC'[v] = NoChannelWrites
        BY <1>3 DEF Crash
      <3> QED
        BY <3>1 DEF ChannelStaged, NoChannelWrites, ChannelEvents, StateChanges
    <2> QED
      BY <2>2, <2>3 DEF ChannelInvariant
  <1>4. ASSUME NEW w \in Watchers, WatcherStep(w) PROVE ChannelInvariant(c, since)'
    BY <1>4, ChannelWatcherStep
  <1> QED
    BY <1>1, <1>2, <1>3, <1>4 DEF Next, Environment

-----------------------------------------------------------------------------
(* With no endpoints beside the watcher, every row is the work of events.  *)

\* What a step does to the durable part: nothing, but perhaps a longer
\* history, or the commit of one watcher.
LEMMA CommitOrQuiet ==
  ASSUME TypeOK, [Next]_vars
  PROVE  \/ /\ UNCHANGED <<cursor, applied, providers, channels>>
            /\ CloseLedger \/ UNCHANGED <<chain, latest>>
         \/ \E w \in Watchers : Commits(w) /\ (pos' \in {pos, [pos EXCEPT ![w] = next[w]]})
  <1>1. CASE Environment \/ StartupSyncEnds \/ UNCHANGED vars
    BY <1>1 DEF Environment, CloseLedger, AdvanceRetention, RegisterCouncil, StartupSyncEnds,
                Crash, vars, network, postgres, tables
  <1>2. ASSUME NEW w \in Watchers,
               \/ EnsureWatcher(w) \/ RestoreCursor(w) \/ ResolveBootStartLedger(w)
               \/ StartFails(w) \/ Fetch(w) \/ ApplyEvent(w)
               \/ Rollback(w) \/ DeadlockAbort(w)
        PROVE  UNCHANGED <<cursor, applied, providers, channels, chain, latest>>
    BY <1>2 DEF EnsureWatcher, RestoreCursor, ResolveBootStartLedger, Started, StartFails,
                Fetch, ApplyEvent, Rollback, DeadlockAbort, network, postgres, tables
  <1>3. ASSUME NEW w \in Watchers, CommitPoll(w) \/ CommitUnacknowledged(w)
        PROVE  Commits(w) /\ (pos' \in {pos, [pos EXCEPT ![w] = next[w]]})
    BY <1>3 DEF CommitPoll, CommitUnacknowledged
  <1> QED
    BY <1>1, <1>2, <1>3 DEF Next, WatcherStep

RowIffAdded(p) == providers[p] = "none" <=> Adds(chain, applied, p) = {}

LEMMA RowExistsNext ==
  ASSUME TypeOK, OrderInvariant, NoOverlap, [Next]_vars,
         NEW p \in Providers, ProviderInvariant(p, 0), RowIffAdded(p)
  PROVE  RowIffAdded(p)'
  <1>1. CASE /\ UNCHANGED <<cursor, applied, providers, channels>>
             /\ CloseLedger \/ UNCHANGED <<chain, latest>>
    <2>1. \A i \in DOMAIN chain : chain'[i] = chain[i]
      BY <1>1, CloseLedgerExtends
    <2>2. \A i \in applied : chain'[i] = chain[i]
      BY <2>1 DEF TypeOK
    <2>3. Adds(chain', applied, p) = Adds(chain, applied, p)
      BY <2>2, SameEventsSameWord
    <2> QED
      BY <1>1, <2>3 DEF RowIffAdded
  <1>2. ASSUME NEW w \in Watchers, Commits(w) PROVE RowIffAdded(p)'
    <2>1. /\ chain' = chain /\ applied' = applied \cup done[w]
          /\ providers'[p] = ProviderSeen(w, p)
      BY <1>2 DEF Commits, network
    <2>2. Adds(chain, applied \cup done[w], p) = Adds(chain, applied, p) \cup Adds(chain, done[w], p)
      BY DEF Adds
    <2>3. ProviderStaged(w, p, 0)
      BY DEF ProviderInvariant
    <2>4. stagedP[w][p] # "none"
      BY DEF TypeOK, Staged, ProviderStatus, NoWrite
    <2> QED
      BY <2>1, <2>2, <2>3, <2>4 DEF RowIffAdded, ProviderStaged, ProviderSeen
  <1> QED
    BY <1>1, <1>2, CommitOrQuiet

LEMMA RowsInit == Init => RowsInvariant
  <1> SUFFICES ASSUME Init PROVE RowsInvariant
    OBVIOUS
  <1>1. /\ applied = {} /\ done = [w \in Watchers |-> {}]
        /\ stagedP = [w \in Watchers |-> NoProviderWrites]
        /\ stagedC = [w \in Watchers |-> NoChannelWrites]
        /\ providers = [p \in Providers |-> "none"]
        /\ channels \in [Channels -> {NoChannelRow, NewChannelRow}]
    BY DEF Init
  <1>2. ASSUME NEW p \in Providers
        PROVE  ProviderInvariant(p, 0) /\ (providers[p] = "none" <=> Adds(chain, applied, p) = {})
    BY <1>1 DEF ProviderInvariant, ProviderFollows, ProviderStaged, ProviderEvents, Adds,
                Removals, NoProviderWrites
  <1>3. ASSUME NEW c \in Channels PROVE ChannelInvariant(c, 0)
    <2>1. channels[c].status # "disabled"
      BY <1>1 DEF NoChannelRow, NewChannelRow
    <2>2. ChannelEvents(chain, {}, c) = {}
      BY DEF ChannelEvents, StateChanges
    <2>3. ChannelFollows(c, 0)
      BY <1>1, <2>1, <2>2 DEF ChannelFollows
    <2>4. ASSUME NEW w \in Watchers PROVE ChannelStaged(w, c, 0)
      BY <1>1, <2>1, <2>2 DEF ChannelStaged, NoChannelWrites
    <2> QED
      BY <2>3, <2>4 DEF ChannelInvariant
  <1> QED
    BY <1>2, <1>3, OrderInit DEF RowsInvariant

LEMMA RowsNext ==
  TypeOK /\ RowsInvariant /\ NoOverlap /\ [Next]_vars => RowsInvariant'
  <1> SUFFICES ASSUME TypeOK, RowsInvariant, NoOverlap, [Next]_vars
               PROVE  RowsInvariant'
    OBVIOUS
  <1>1. OrderInvariant
    BY DEF RowsInvariant
  <1>2. OrderInvariant'
    BY <1>1, OrderNext
  <1>3. ASSUME NEW p \in Providers PROVE ProviderInvariant(p, 0)' /\ RowIffAdded(p)'
    <2>1. ProviderInvariant(p, 0) /\ RowIffAdded(p) /\ 0 \in Nat
      BY DEF RowsInvariant, RowIffAdded
    <2>2. ProviderInvariant(p, 0)'
      BY <1>1, <2>1, ProviderNext
    <2> QED
      BY <1>1, <2>1, <2>2, RowExistsNext
  <1>4. ASSUME NEW c \in Channels PROVE ChannelInvariant(c, 0)'
    <2>1. ChannelInvariant(c, 0) /\ 0 \in Nat
      BY DEF RowsInvariant
    <2> QED
      BY <1>1, <2>1, ChannelNext
  <1> QED
    BY <1>2, <1>3, <1>4 DEF RowsInvariant, RowIffAdded

\* An index is positive, so an event of a row is one since its beginning.
LEMMA RowsInvariantMatches ==
  ASSUME TypeOK, RowsInvariant PROVE RowsMatchCursor
  <1>0. \A i \in applied : i \in Nat /\ i > 0
    BY EventTypes DEF TypeOK
  <1>1. \A i \in applied : chain[i].ledger < cursor
    BY DEF RowsInvariant, OrderInvariant, OrderOfHistory
  <1>2. ASSUME NEW p \in Providers PROVE providers[p] = ProviderAfter(chain, applied, p)
    <2>1. CASE Adds(chain, applied, p) = {}
      BY <2>1 DEF RowsInvariant, ProviderAfter
    <2>2. CASE Adds(chain, applied, p) # {}
      <3>1. PICK i \in ProviderEvents(chain, applied, p) : i > 0
        BY <1>0, <2>2 DEF ProviderEvents, Adds
      <3>2. providers[p] # "none" /\ ProviderFollows(p, 0)
        BY <2>2 DEF RowsInvariant, ProviderInvariant
      <3> QED
        BY <2>2, <3>1, <3>2 DEF ProviderFollows, ProviderAfter
    <2> QED
      BY <2>1, <2>2
  <1>3. ASSUME NEW c \in Channels
        PROVE  channels[c].status \in {"none", ChannelAfter(chain, applied, c)}
    <2>1. ChannelFollows(c, 0) /\ channels[c].status \in {"none", "enabled", "disabled"}
      <3>1. channels[c] \in ChannelRow
        BY DEF TypeOK
      <3> QED
        BY <3>1 DEF RowsInvariant, ChannelInvariant, ChannelRow, ChannelStatus
    <2>2. CASE ChannelEvents(chain, applied, c) = {}
      <3>1. ChannelAfter(chain, applied, c) = "enabled"
        BY <2>2 DEF ChannelAfter, ChannelEvents
      <3> QED
        BY <2>1, <3>1 DEF ChannelFollows
    <2>3. CASE ChannelEvents(chain, applied, c) # {}
      <3>1. PICK i \in ChannelEvents(chain, applied, c) : i > 0
        BY <1>0, <2>3 DEF ChannelEvents, StateChanges
      <3> QED
        BY <2>1, <3>1 DEF ChannelFollows
    <2> QED
      BY <2>2, <2>3
  <1> QED
    BY <1>1, <1>2, <1>3 DEF RowsMatchCursor

\* As long as no two watchers of the council overlap, the committed rows are
\* exactly what the applied events call for, in ledger order, and the cursor
\* lies beyond all of them: for any history, page size, crashes, failed
\* transactions and lost acknowledgements, also where a page cuts an answer
\* short.
THEOREM RowsAndCursorAgree == Spec /\ []NoOverlap => []RowsMatchCursor
  <1>1. TypeOK /\ RowsInvariant => RowsMatchCursor
    BY RowsInvariantMatches
  <1> QED
    BY <1>1, RowsInit, RowsNext, TypeCorrect, PTL DEF Spec

\* Likewise the coverage invariant that a run checks: the watchers' positions
\* and polls never lose sight of a retained event.
THEOREM CoverageHolds == Spec /\ []WholePages => []CoverageInvariant
  BY CoverageInit, CoverageNext, TypeCorrect, PTL DEF Spec

-----------------------------------------------------------------------------
(* The mirror.                                                             *)

\* What a step that commits nothing can do to the position of a watcher.
LEMMA PositionMoves ==
  ASSUME TypeOK, OrderInvariant, [Next]_vars,
         UNCHANGED <<cursor, applied, providers, channels>>,
         NEW w \in Watchers, phase'[w] \in {"idle", "committing"}, cursor # 0
  PROVE  \/ phase[w] \in {"idle", "committing"} /\ pos'[w] = pos[w]
         \/ pos'[w] = cursor
  <1>1. CASE CloseLedger \/ AdvanceRetention \/ RegisterCouncil \/ StartupSyncEnds
             \/ UNCHANGED vars
    BY <1>1 DEF CloseLedger, AdvanceRetention, RegisterCouncil, StartupSyncEnds, vars, process
  <1>2. CASE Crash
    BY <1>2 DEF Crash
  <1>3. ASSUME NEW v \in Watchers, WatcherStep(v)
        PROVE  \/ phase[w] \in {"idle", "committing"} /\ pos'[w] = pos[w]
               \/ pos'[w] = cursor
    <2>0. phase \in [Watchers -> Phases] /\ pos \in [Watchers -> Nat] /\ next \in [Watchers -> Nat]
      BY DEF TypeOK
    <2>1. CASE EnsureWatcher(v) \/ StartFails(v) \/ Fetch(v) \/ ApplyEvent(v) \/ Rollback(v)
               \/ DeadlockAbort(v)
      BY <2>0, <2>1 DEF EnsureWatcher, StartFails, Fetch, ApplyEvent, Rollback, DeadlockAbort,
                        WaitsFor, PollEnds, poll
    <2>2. CASE RestoreCursor(v)
      BY <2>0, <2>2 DEF RestoreCursor, Started
    <2>3. CASE ResolveBootStartLedger(v)
      <3>1. phase[v] = "booting" /\ cursor = 0
        BY <2>3 DEF ResolveBootStartLedger, OrderInvariant, WatcherInOrder, PositionInOrder
      <3> QED
        BY <3>1
    <2>4. CASE CommitPoll(v) \/ CommitUnacknowledged(v)
      <3>1. /\ pos' \in {pos, [pos EXCEPT ![v] = next[v]]} /\ cursor' = next[v]
            /\ phase[v] = "committing" /\ phase' = [phase EXCEPT ![v] = "idle"]
        BY <2>4 DEF CommitPoll, CommitUnacknowledged, Commits, CursorAfter, PollEnds
      <3> QED
        BY <2>0, <3>1
    <2> QED
      BY <1>3, <2>1, <2>2, <2>3, <2>4 DEF WatcherStep
  <1> QED
    BY <1>1, <1>2, <1>3 DEF Next, Environment

LEMMA NoGapNext ==
  TypeOK /\ CoverageInvariant /\ OrderInvariant /\ NoGapBelowCursor /\ NoOverlap /\ [Next]_vars
    => NoGapBelowCursor'
  <1> SUFFICES ASSUME TypeOK, CoverageInvariant, OrderInvariant, NoGapBelowCursor, NoOverlap,
                      [Next]_vars
               PROVE  NoGapBelowCursor'
    OBVIOUS
  <1>0. /\ cursor \in Nat /\ latest \in Nat /\ cursor <= latest + 1
        /\ \A w \in Watchers : pos[w] \in Nat /\ next[w] \in Nat
        /\ \A i \in DOMAIN chain : chain[i].ledger \in Nat
    BY EventTypes DEF TypeOK, OrderInvariant, OrderOfHistory
  <1>1. CASE /\ UNCHANGED <<cursor, applied, providers, channels>>
             /\ CloseLedger \/ UNCHANGED <<chain, latest>>
    <2> SUFFICES ASSUME NEW w \in Watchers, phase'[w] \in {"idle", "committing"}, cursor # 0,
                        NEW i \in DOMAIN chain', chain'[i].ledger \in pos'[w]..(cursor - 1)
                 PROVE  i \in applied
      BY <1>1 DEF NoGapBelowCursor
    <2>1. i \in DOMAIN chain /\ chain'[i] = chain[i]
      <3>1. CASE CloseLedger
        <4>1. /\ \A k \in DOMAIN chain : chain'[k] = chain[k]
              /\ \A k \in DOMAIN chain' \ DOMAIN chain : chain'[k].ledger = latest + 1
          BY <3>1, CloseLedgerExtends
        <4> QED
          BY <1>0, <4>1
      <3> QED
        BY <1>1, <3>1
    <2>2. \/ phase[w] \in {"idle", "committing"} /\ pos'[w] = pos[w]
          \/ pos'[w] = cursor
      BY <1>1, PositionMoves
    <2> QED
      BY <1>0, <2>1, <2>2 DEF NoGapBelowCursor
  <1>2. ASSUME NEW w \in Watchers, Commits(w), pos' \in {pos, [pos EXCEPT ![w] = next[w]]}
        PROVE  NoGapBelowCursor'
    <2>1. /\ phase[w] = "committing" /\ todo[w] = {} /\ cursor' = next[w]
          /\ applied' = applied \cup done[w] /\ chain' = chain
          /\ \A v \in Watchers : phase'[v] = IF v = w THEN "idle" ELSE phase[v]
          /\ pos'[w] \in {pos[w], next[w]}
      BY <1>2 DEF Commits, CursorAfter, PollEnds, network, TypeOK
    <2>2. \A i \in DOMAIN chain : chain[i].ledger \in pos[w]..(next[w] - 1) => i \in done[w]
      BY <2>1 DEF CoverageInvariant, PollComplete
    <2>3. ASSUME NEW v \in Watchers, phase'[v] \in {"idle", "committing"},
                 NEW i \in DOMAIN chain, chain[i].ledger \in pos'[v]..(next[w] - 1)
          PROVE  i \in done[w]
      <3>1. v = w
        BY <2>1, <2>3 DEF NoOverlap
      <3> QED
        BY <1>0, <2>1, <2>2, <2>3, <3>1
    <2> QED
      BY <2>1, <2>3 DEF NoGapBelowCursor
  <1> QED
    BY <1>1, <1>2, CommitOrQuiet

\* The mirror and the watcher read the history alike.
LEMMA MirrorWords ==
  ASSUME NEW log, NEW S
  PROVE  /\ \A p : Mirror!ProviderAfter(log, S, p) = ProviderAfter(log, S, p)
         /\ \A c : Mirror!ChannelAfter(log, S, c) = ChannelAfter(log, S, c)
  BY DEF ProviderAfter, LastWord, Adds, Removals, ChannelAfter, StateChanges,
         Mirror!ProviderAfter, Mirror!LastWord, Mirror!Adds, Mirror!Removals,
         Mirror!ChannelAfter, Mirror!StateChanges

\* A commit is one forward step of the mirror.
LEMMA CommitIsSync ==
  ASSUME TypeOK, CoverageInvariant, RowsInvariant, NoGapBelowCursor, NoOverlap,
         NEW w \in Watchers, Commits(w), TypeOK', RowsInvariant'
  PROVE  Mirror!Next
  <1>1. /\ phase[w] = "committing" /\ todo[w] = {} /\ cursor' = next[w]
        /\ applied' = applied \cup done[w] /\ UNCHANGED <<chain, latest>>
    BY DEF Commits, CursorAfter, network
  <1>2. /\ OrderOfHistory /\ PositionInOrder(w)
        /\ pos[w] \in 1..(next[w] - 1) /\ next[w] \in cursor..(latest + 1)
        /\ \A i \in done[w] : i \in Page(pos[w]) /\ chain[i].ledger < next[w]
    BY <1>1 DEF RowsInvariant, OrderInvariant, WatcherInOrder, PollInOrder
  <1>3. /\ cursor \in Nat /\ latest \in Nat /\ pos[w] \in Nat /\ next[w] \in Nat
        /\ done[w] \subseteq DOMAIN chain /\ applied \subseteq DOMAIN chain
        /\ \A i \in DOMAIN chain : chain[i].ledger \in Nat
    BY EventTypes DEF TypeOK
  <1>4. \A i \in DOMAIN chain : i \in done[w] <=> chain[i].ledger \in pos[w]..(next[w] - 1)
    <2>1. \A i \in DOMAIN chain : chain[i].ledger \in pos[w]..(next[w] - 1) => i \in done[w]
      BY <1>1 DEF CoverageInvariant, PollComplete
    <2>2. \A i \in done[w] : chain[i].ledger >= pos[w] /\ chain[i].ledger < next[w]
      BY <1>2 DEF Page, Matching
    <2> QED
      BY <1>3, <2>1, <2>2
  <1>5. RowsMatchCursor'
    BY RowsInvariantMatches, PTL
  <1>6. providers' = [p \in Providers |-> Mirror!ProviderAfter(chain, applied', p)]
    <2>1. ASSUME NEW p \in Providers
          PROVE  providers'[p] = Mirror!ProviderAfter(chain, applied', p)
      <3>1. Mirror!ProviderAfter(chain, applied', p) = ProviderAfter(chain, applied', p)
        BY MirrorWords
      <3> QED
        BY <1>1, <1>5, <3>1 DEF RowsMatchCursor
    <2> QED
      BY <2>1 DEF TypeOK
  <1>7. [c \in Channels |-> channels'[c].status] =
           [c \in Channels |-> IF [d \in Channels |-> channels[d].status][c] = "none"
                               THEN "none" ELSE Mirror!ChannelAfter(chain, applied', c)]
    <2>1. ASSUME NEW c \in Channels
          PROVE  channels'[c].status = IF channels[c].status = "none" THEN "none"
                                       ELSE Mirror!ChannelAfter(chain, applied', c)
      <3>1. Mirror!ChannelAfter(chain, applied', c) = ChannelAfter(chain, applied', c)
        BY MirrorWords
      <3>2. channels'[c].status \in {"none", ChannelAfter(chain, applied', c)}
        BY <1>1, <1>5 DEF RowsMatchCursor
      <3>3. channels'[c].status = "none" <=> channels[c].status = "none"
        <4>1. channels'[c] = ChannelCommitted(w, c) /\ channels[c] \in ChannelRow
              /\ stagedC[w][c] \in Staged(ChannelStatus) /\ ChannelStaged(w, c, 0)
          BY DEF Commits, TypeOK, RowsInvariant, ChannelInvariant
        <4> QED
          BY <4>1 DEF ChannelCommitted, ChannelStaged, ChannelRow, ChannelStatus, Staged, NoWrite
      <3> QED
        BY <3>1, <3>2, <3>3
    <2> QED
      BY <2>1
  <1>8. next[w] >= cursor
    BY <1>2, <1>3
  <1>9. CASE cursor # 0
    <2>1. \A i \in DOMAIN chain : chain[i].ledger \in pos[w]..(cursor - 1) => i \in applied
      BY <1>1, <1>9 DEF NoGapBelowCursor
    <2>2. applied' = applied \cup {i \in DOMAIN chain : chain[i].ledger \in cursor..(next[w] - 1)}
      BY <1>1, <1>2, <1>3, <1>4, <1>9, <2>1 DEF PositionInOrder
    <2>3. Mirror!Sync(cursor, next[w])
      BY <1>1, <1>6, <1>7, <1>8, <2>2, Zenon DEF Mirror!Sync
    <2> QED
      BY <1>2, <1>3, <1>9, <2>3 DEF Mirror!Next, Mirror!Sync
  <1>10. CASE cursor = 0
    <2>1. applied = {}
      BY <1>2, <1>3, <1>10 DEF OrderOfHistory
    <2>2. applied' = applied \cup {i \in DOMAIN chain : chain[i].ledger \in pos[w]..(next[w] - 1)}
      BY <1>1, <1>3, <1>4, <2>1
    <2>3. Mirror!Sync(pos[w], next[w])
      BY <1>1, <1>6, <1>7, <1>8, <2>2, Zenon DEF Mirror!Sync
    <2> QED
      BY <1>2, <1>3, <1>10, <2>3 DEF Mirror!Next, Mirror!Sync
  <1> QED
    BY <1>9, <1>10

LEMMA MirrorStep ==
  ASSUME TypeOK, CoverageInvariant, RowsInvariant, NoGapBelowCursor, NoOverlap,
         [Next]_vars, TypeOK', RowsInvariant'
  PROVE  [Mirror!Next]_(Mirror!vars)
  <1>1. CASE UNCHANGED <<cursor, applied, providers, channels>> /\ CloseLedger
    <2>1. /\ latest' = latest + 1 /\ latest \in Nat
          /\ DOMAIN chain = 1..Len(chain) /\ DOMAIN chain' = 1..Len(chain')
          /\ Len(chain') >= Len(chain)
          /\ \A i \in DOMAIN chain : chain'[i] = chain[i]
          /\ \A i \in DOMAIN chain' \ DOMAIN chain : chain'[i].ledger = latest + 1
      <3>1. latest' = latest + 1 /\ chain \in Seq(LedgerEvent) /\ latest \in Nat
        BY <1>1 DEF CloseLedger, TypeOK
      <3>2. /\ chain' \in Seq(LedgerEvent) /\ Len(chain') >= Len(chain)
            /\ \A i \in DOMAIN chain : chain'[i] = chain[i]
            /\ \A i \in DOMAIN chain' \ DOMAIN chain : chain'[i].ledger = latest + 1
        BY <1>1, CloseLedgerExtends
      <3> QED
        BY <3>1, <3>2
    <2>2. latest' > latest
      BY <2>1
    <2>3. \A i \in DOMAIN chain' \ DOMAIN chain : chain'[i].ledger \in (latest + 1)..latest'
      BY <2>1
    <2>4. [c \in Channels |-> channels[c].status]' = [c \in Channels |-> channels[c].status]
      BY <1>1
    <2>5. Mirror!Extend
      BY <1>1, <2>1, <2>2, <2>3, <2>4, Zenon DEF Mirror!Extend
    <2> QED
      BY <2>5 DEF Mirror!Next
  <1>2. CASE UNCHANGED <<cursor, applied, providers, channels, chain, latest>>
    BY <1>2 DEF Mirror!vars
  <1>3. ASSUME NEW w \in Watchers, Commits(w) PROVE Mirror!Next
    BY <1>3, CommitIsSync
  <1> QED
    BY <1>1, <1>2, <1>3, CommitOrQuiet

\* As long as no two watchers overlap and no answer is cut short, the watcher
\* implements the mirror: whatever its polls, failed starts, failed and
\* unacknowledged transactions and restarts do to the tables and the cursor is
\* one atomic forward step that leaves no gap, or nothing (makeCommit; poll).
THEOREM MirrorImplemented == Spec /\ []WholePages /\ []NoOverlap => ImplementsMirror
  <1>1. Init => Mirror!Init
    BY DEF Init, Mirror!Init, NoChannelRow, NewChannelRow
  <1>2. Init => NoGapBelowCursor
    BY DEF Init, NoGapBelowCursor
  <1>3. RowsInvariant => OrderInvariant
    BY DEF RowsInvariant
  <1>4. TypeOK /\ CoverageInvariant /\ RowsInvariant /\ NoGapBelowCursor /\ NoOverlap
          /\ [Next]_vars /\ TypeOK' /\ RowsInvariant' => [Mirror!Next]_(Mirror!vars)
    BY MirrorStep
  <1> QED
    BY <1>1, <1>2, <1>3, <1>4, TypeCorrect, CoverageHolds, RowsInit, RowsNext, NoGapNext, PTL
       DEF Spec, ImplementsMirror, Mirror!Spec

=============================================================================
