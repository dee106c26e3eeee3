---------------------- MODULE ChannelLifecycle_proofs ----------------------
(***************************************************************************)
(* Theorems about the channel endpoints beside the watcher, for any        *)
(* constants.                                                              *)
(***************************************************************************)
EXTENDS ChannelLifecycle, EventWatcher_proofs

\* The events about a channel are those the transaction's reading speaks of.
LEMMA SpokenOf ==
  ASSUME TypeOK, NEW c \in Channels, NEW S \in SUBSET DOMAIN chain
  PROVE  S \cap About(c) = ChannelEvents(chain, S, c)
  <1>1. ASSUME NEW i \in DOMAIN chain, chain[i].type = "channel_state_changed"
        PROVE  chain[i].enabled \in BOOLEAN
    <2>1. chain[i] \in LedgerEvent
      BY EventTypes
    <2> QED
      BY <1>1, <2>1 DEF LedgerEvent
  <1> QED
    BY <1>1 DEF About, ChannelEvents, StateChanges

\* A request on its way has a channel.
LEMMA RequestHasChannel ==
  ASSUME LifecycleTypeOK, NEW r \in Requests, req[r].at # "resting"
  PROVE  req[r].channel \in Channels /\ req[r].at \in RequestPhase
  <1>1. req[r] \in [at : RequestPhase, channel : Channels] \cup {Resting}
    BY DEF LifecycleTypeOK
  <1>2. Resting.at = "resting"
    BY DEF Resting
  <1> QED
    BY <1>1, <1>2

\* Either the watcher moves, or a handler does.
LEMMA WhoMoves ==
  ASSUME [LifecycleNext]_lifecycleVars
  PROVE  \/ /\ [Next]_vars /\ UNCHANGED knownAt
            /\ req' = req \/ req' = [r \in Requests |-> Resting]
         \/ Handlers
  BY DEF LifecycleNext, lifecycleVars, Next, Environment

\* What a handler leaves alone, and what it does to a row: it inserts a fresh
\* one where there was none, or sets the marker of one.
LEMMA HandlersOnRows ==
  ASSUME LifecycleInvariant, Handlers
  PROVE  /\ UNCHANGED <<chain, latest, oldest, registered, cursor, providers, serving, active,
                        phase, pos, next, todo, done, stagedP, stagedC, applied, crashes,
                        failures>>
         /\ channels' \in [Channels -> ChannelRow] /\ knownAt' \in [Channels -> Nat]
         /\ \A c \in Channels :
              \/ channels'[c] = channels[c] /\ knownAt'[c] = knownAt[c]
              \/ ~Known(c) /\ channels'[c] = NewChannelRow /\ knownAt'[c] = Len(chain)
              \/ /\ Known(c) /\ knownAt'[c] = knownAt[c]
                 /\ channels'[c].status = channels[c].status
                 /\ channels'[c].pending \in {"enable", "disable"}
  <1>0. /\ channels \in [Channels -> ChannelRow] /\ knownAt \in [Channels -> Nat]
        /\ Len(chain) \in Nat
        /\ req \in [Requests -> [at : RequestPhase, channel : Channels] \cup {Resting}]
    BY DEF LifecycleInvariant, LifecycleTypeOK, TypeOK
  <1>1. UNCHANGED <<chain, latest, oldest, registered, cursor, providers, serving, active, phase,
                    pos, next, todo, done, stagedP, stagedC, applied, crashes, failures>>
    BY DEF Handlers, AddChannel, RemoveChannel, EnableChannel, InsertChannel, SetPendingAction,
           RequestFails, HandlerStep, HandlerEnds, network, process, poll, counters
  <1>2. CASE UNCHANGED <<channels, knownAt>>
    BY <1>0, <1>1, <1>2
  <1>3. ASSUME NEW c \in Channels, ~Known(c),
               channels' = [channels EXCEPT ![c] = NewChannelRow],
               knownAt' = [knownAt EXCEPT ![c] = Len(chain)]
        PROVE  /\ channels' \in [Channels -> ChannelRow] /\ knownAt' \in [Channels -> Nat]
               /\ \A d \in Channels :
                    \/ channels'[d] = channels[d] /\ knownAt'[d] = knownAt[d]
                    \/ ~Known(d) /\ channels'[d] = NewChannelRow /\ knownAt'[d] = Len(chain)
    BY <1>0, <1>3, RowTypes
  <1>4. ASSUME NEW c \in Channels, NEW at, Known(c), UNCHANGED knownAt,
               channels' = [channels EXCEPT ![c] = Marked(@, at)]
        PROVE  /\ channels' \in [Channels -> ChannelRow]
               /\ \A d \in Channels :
                    \/ channels'[d] = channels[d]
                    \/ /\ Known(d) /\ channels'[d].status = channels[d].status
                       /\ channels'[d].pending \in {"enable", "disable"}
    <2>1. /\ Marked(channels[c], at) \in ChannelRow
          /\ Marked(channels[c], at).status = channels[c].status
          /\ Marked(channels[c], at).pending \in {"enable", "disable"}
      <3>1. channels[c] \in ChannelRow
        BY <1>0
      <3> QED
        BY <3>1 DEF Marked, ChannelRow, PendingAction
    <2> QED
      BY <1>0, <1>4, <2>1
  <1>5. ASSUME NEW r \in Requests, InsertChannel(r)
        PROVE  UNCHANGED <<channels, knownAt>> \/
               \E c \in Channels : /\ ~Known(c)
                                   /\ channels' = [channels EXCEPT ![c] = NewChannelRow]
                                   /\ knownAt' = [knownAt EXCEPT ![c] = Len(chain)]
    <2>1. req[r].channel \in Channels
      BY <1>5, RequestHasChannel DEF InsertChannel, LifecycleInvariant
    <2> QED
      BY <1>5, <2>1 DEF InsertChannel, Known
  <1>6. ASSUME NEW r \in Requests, SetPendingAction(r)
        PROVE  \E c \in Channels, at \in RequestPhase :
                  /\ Known(c) /\ UNCHANGED knownAt
                  /\ channels' = [channels EXCEPT ![c] = Marked(@, at)]
    <2>1. req[r].channel \in Channels /\ req[r].at \in RequestPhase /\ Known(req[r].channel)
      BY <1>6, RequestHasChannel DEF SetPendingAction, LifecycleInvariant, LifecycleTypeOK
    <2> QED
      BY <1>6, <2>1 DEF SetPendingAction
  <1>7. \/ UNCHANGED <<channels, knownAt>>
        \/ \E r \in Requests : InsertChannel(r) \/ SetPendingAction(r)
    BY DEF Handlers, AddChannel, RemoveChannel, EnableChannel, RequestFails
  <1> QED
    BY <1>0, <1>1, <1>2, <1>3, <1>4, <1>5, <1>6, <1>7

-----------------------------------------------------------------------------
(* Types and markers.                                                      *)

LEMMA LifecycleStarts == LifecycleInit => LifecycleInvariant
  <1> SUFFICES ASSUME LifecycleInit PROVE LifecycleInvariant
    OBVIOUS
  <1>1. TypeOK
    BY TypeInit DEF LifecycleInit
  <1>2. LifecycleTypeOK
    BY <1>1 DEF LifecycleInit, LifecycleTypeOK, Resting
  <1>3. StatedByEvent
    BY DEF LifecycleInit, Init, StatedByEvent, NoChannelWrites
  <1>4. UnknownIsBlank
    BY DEF LifecycleInit, UnknownIsBlank
  <1> QED
    BY <1>2, <1>3, <1>4 DEF LifecycleInvariant

\* What the watcher does to a channel: nothing, or a commit of a status that
\* its transaction has written, for an event that it has applied.
LEMMA WatcherOnChannels ==
  ASSUME TypeOK, StatedByEvent, [Next]_vars, NEW c \in Channels
  PROVE  \/ channels'[c] = channels[c]
         \/ /\ Known(c)' /\ channels'[c].pending = "null"
            /\ \E w \in Watchers : done[w] \cap About(c) # {} /\ done[w] \subseteq applied'
  <1>1. ASSUME NEW w \in Watchers, Commits(w)
        PROVE  \/ channels'[c] = channels[c]
               \/ /\ Known(c)' /\ channels'[c].pending = "null"
                  /\ done[w] \cap About(c) # {} /\ done[w] \subseteq applied'
    <2>1. channels'[c] = ChannelCommitted(w, c) /\ applied' = applied \cup done[w]
      BY <1>1 DEF Commits
    <2>2. stagedC[w][c] \in {"enabled", "disabled", NoWrite}
      BY DEF TypeOK, Staged, ChannelStatus
    <2> QED
      BY <2>1, <2>2 DEF ChannelCommitted, StatedByEvent, Known, NoWrite
  <1> QED
    BY <1>1, CommitOrQuiet

\* Nor does any step of it write a status that no event calls for.
LEMMA WatcherStates == TypeOK /\ StatedByEvent /\ [Next]_vars => StatedByEvent'
  <1> SUFFICES ASSUME TypeOK, StatedByEvent, [Next]_vars,
                      NEW w \in Watchers, NEW c \in Channels, stagedC'[w][c] # NoWrite
               PROVE  (done[w] \cap About(c))' # {}
    BY DEF StatedByEvent
  <1>0. /\ stagedC \in [Watchers -> [Channels -> Staged(ChannelStatus)]]
        /\ done \in [Watchers -> SUBSET DOMAIN chain]
    BY DEF TypeOK
  <1>1. CASE CloseLedger
    <2>1. UNCHANGED <<stagedC, done>>
      BY <1>1 DEF CloseLedger, process, poll
    <2>2. PICK i \in done[w] : i \in About(c)
      BY <2>1 DEF StatedByEvent
    <2> QED
      BY <1>1, <2>1, <2>2, CloseLedgerExtends DEF About
  <1>2. CASE AdvanceRetention \/ RegisterCouncil \/ StartupSyncEnds \/ UNCHANGED vars
    BY <1>2 DEF AdvanceRetention, RegisterCouncil, StartupSyncEnds, vars, network, process, poll,
                StatedByEvent, About
  <1>3. CASE Crash
    BY <1>3 DEF Crash, NoChannelWrites
  <1>4. ASSUME NEW v \in Watchers, WatcherStep(v) PROVE (done[w] \cap About(c))' # {}
    <2>0. UNCHANGED chain
      BY <1>4 DEF WatcherStep, EnsureWatcher, RestoreCursor, ResolveBootStartLedger, Started,
                  StartFails, Fetch, ApplyEvent, CommitPoll, CommitUnacknowledged, Commits,
                  Rollback, DeadlockAbort, network
    <2>1. CASE UNCHANGED <<done, stagedC>>
      BY <2>0, <2>1 DEF StatedByEvent, About
    <2>2. CASE PollEnds(v)
      BY <1>0, <2>0, <2>2 DEF PollEnds, NoChannelWrites, StatedByEvent, About
    <2>3. CASE ApplyEvent(v)
      <3>1. PICK i \in todo[v] :
               /\ \/ ApplyProviderEvent(v, chain[i])
                  \/ ApplyChannelEvent(v, chain[i])
                  \/ ApplyOtherEvent(chain[i])
               /\ done' = [done EXCEPT ![v] = @ \cup {i}]
        BY <2>3 DEF ApplyEvent
      <3>2. i \in DOMAIN chain
        BY <3>1 DEF TypeOK
      <3>3. CASE stagedC' = stagedC
        BY <1>0, <2>0, <3>1, <3>3 DEF StatedByEvent, About
      <3>4. CASE /\ chain[i].type = "channel_state_changed"
                 /\ stagedC' = [stagedC EXCEPT ![v][chain[i].subject] = ChannelWrite(chain[i])]
        <4>1. CASE v = w /\ chain[i].subject = c
          <5>1. i \in About(c) /\ i \in done'[w]
            BY <1>0, <3>1, <3>2, <3>4, <4>1 DEF About
          <5> QED
            BY <2>0, <5>1 DEF About
        <4>2. CASE ~(v = w /\ chain[i].subject = c)
          <5>1. stagedC'[w][c] = stagedC[w][c] /\ done[w] \subseteq done'[w]
            BY <1>0, <3>1, <3>4, <4>2
          <5> QED
            BY <2>0, <5>1 DEF StatedByEvent, About
        <4> QED
          BY <4>1, <4>2
      <3> QED
        BY <3>1, <3>3, <3>4 DEF ApplyProviderEvent, ApplyChannelEvent, ApplyOtherEvent
    <2> QED
      BY <1>4, <2>1, <2>2, <2>3
         DEF WatcherStep, EnsureWatcher, RestoreCursor, ResolveBootStartLedger, StartFails, Fetch,
             CommitPoll, CommitUnacknowledged, Commits, Rollback, DeadlockAbort, poll
  <1> QED
    BY <1>1, <1>2, <1>3, <1>4 DEF Next, Environment

\* The handlers keep the types, and a request begins with a known channel.
LEMMA HandlersType ==
  ASSUME LifecycleInvariant, Handlers
  PROVE  LifecycleTypeOK'
  <1>0. LifecycleTypeOK
    BY DEF LifecycleInvariant
  <1>1. TypeOK'
    BY <1>0, HandlersOnRows DEF LifecycleTypeOK, TypeOK
  <1>2. knownAt' \in [Channels -> Nat]
    BY HandlersOnRows
  <1>3. \A c \in Channels : Known(c) => channels'[c].status # "none"
    BY HandlersOnRows DEF Known
  <1>4. PICK r \in Requests :
           \/ \E c \in Channels : AddChannel(r, c) \/ RemoveChannel(r, c) \/ EnableChannel(r, c)
           \/ InsertChannel(r) \/ SetPendingAction(r) \/ RequestFails(r)
    BY DEF Handlers
  <1>5. ASSUME NEW new \in [at : RequestPhase, channel : Channels] \cup {Resting},
               req' = [req EXCEPT ![r] = new],
               new.at \in {"disabling", "enabling"} => new.channel \in Channels /\ Known(new.channel)
        PROVE  LifecycleTypeOK'
    <2>1. req' \in [Requests -> [at : RequestPhase, channel : Channels] \cup {Resting}]
      BY <1>0, <1>5 DEF LifecycleTypeOK
    <2>2. ASSUME NEW s \in Requests, req'[s].at \in {"disabling", "enabling"}
          PROVE  channels'[req'[s].channel].status # "none"
      <3>1. CASE s = r
        BY <1>0, <1>3, <1>5, <2>2, <3>1 DEF LifecycleTypeOK
      <3>2. CASE s # r
        <4>1. req'[s] = req[s]
          BY <1>0, <1>5, <3>2 DEF LifecycleTypeOK
        <4>2. req[s].channel \in Channels /\ Known(req[s].channel)
          BY <1>0, <2>2, <4>1, RequestHasChannel DEF LifecycleTypeOK
        <4> QED
          BY <1>3, <4>1, <4>2
      <3> QED
        BY <3>1, <3>2
    <2> QED
      BY <1>1, <1>2, <2>1, <2>2 DEF LifecycleTypeOK, Known
  <1>6. CASE InsertChannel(r) \/ SetPendingAction(r) \/ RequestFails(r)
    <2>1. req' = [req EXCEPT ![r] = Resting]
      BY <1>6 DEF InsertChannel, SetPendingAction, RequestFails, HandlerEnds
    <2>2. Resting.at = "resting"
      BY DEF Resting
    <2> QED
      BY <1>5, <2>1, <2>2
  <1>7. ASSUME NEW c \in Channels, AddChannel(r, c) \/ RemoveChannel(r, c) \/ EnableChannel(r, c)
        PROVE  LifecycleTypeOK'
    <2>1. PICK at \in RequestPhase :
             /\ req' = [req EXCEPT ![r] = [at |-> at, channel |-> c]]
             /\ at \in {"disabling", "enabling"} => Known(c)
      BY <1>7 DEF AddChannel, RemoveChannel, EnableChannel, HandlerStep, RequestPhase, Known
    <2> QED
      BY <1>5, <2>1
  <1> QED
    BY <1>4, <1>6, <1>7

LEMMA LifecycleKeeps ==
  LifecycleInvariant /\ [LifecycleNext]_lifecycleVars => LifecycleInvariant'
  <1> SUFFICES ASSUME LifecycleInvariant, [LifecycleNext]_lifecycleVars
               PROVE  LifecycleInvariant'
    OBVIOUS
  <1>0. LifecycleTypeOK /\ TypeOK /\ StatedByEvent /\ UnknownIsBlank
    BY DEF LifecycleInvariant, LifecycleTypeOK
  <1>1. CASE Handlers
    <2>1. LifecycleTypeOK'
      BY <1>1, HandlersType
    <2>2. StatedByEvent'
      BY <1>0, <1>1, HandlersOnRows DEF StatedByEvent, About
    <2>3. UnknownIsBlank'
      BY <1>0, <1>1, HandlersOnRows DEF UnknownIsBlank, Known, NewChannelRow
    <2> QED
      BY <2>1, <2>2, <2>3 DEF LifecycleInvariant
  <1>2. CASE /\ [Next]_vars /\ UNCHANGED knownAt
             /\ req' = req \/ req' = [r \in Requests |-> Resting]
    <2>1. TypeOK' /\ StatedByEvent'
      BY <1>0, <1>2, TypeNext, WatcherStates
    <2>2. \A c \in Channels : channels'[c] = channels[c] \/ Known(c)'
      BY <1>0, <1>2, WatcherOnChannels
    <2>3. UnknownIsBlank'
      BY <1>0, <2>2 DEF UnknownIsBlank, Known
    <2>4. LifecycleTypeOK'
      <3>1. \A c \in Channels : Known(c) => Known(c)'
        BY <2>2 DEF Known
      <3>2. CASE req' = req
        <4>1. \A r \in Requests : req[r].at \in {"disabling", "enabling"} =>
                 req[r].channel \in Channels /\ Known(req[r].channel)
          BY <1>0, RequestHasChannel DEF LifecycleTypeOK
        <4> QED
          BY <1>0, <1>2, <2>1, <3>1, <3>2, <4>1 DEF LifecycleTypeOK
      <3>3. CASE req' = [r \in Requests |-> Resting]
        <4>1. Resting.at = "resting"
          BY DEF Resting
        <4> QED
          BY <1>0, <1>2, <2>1, <3>3, <4>1 DEF LifecycleTypeOK
      <3> QED
        BY <1>2, <3>2, <3>3
    <2> QED
      BY <2>1, <2>3, <2>4 DEF LifecycleInvariant
  <1> QED
    BY <1>1, <1>2, WhoMoves

\* For any channels, requests and watchers: the types hold, and a request that
\* sets a marker has a channel that is still in the table.
THEOREM LifecycleTypes == LifecycleSpec => []LifecycleTypeOK
  <1>1. LifecycleInvariant => LifecycleTypeOK
    BY DEF LifecycleInvariant
  <1> QED
    BY <1>1, LifecycleStarts, LifecycleKeeps, PTL DEF LifecycleSpec

\* A marker only disappears in a commit that applied an event of its channel,
\* also when watchers overlap (setPendingAction; setStatusByContractId).
THEOREM MarkersClearedByEvents == LifecycleSpec => MarkerClearedByEvent
  <1> DEFINE Cleared(c) ==
        channels[c].pending # "null" /\ channels'[c].pending = "null"
          => \E w \in Watchers :
                done[w] \cap About(c) # {} /\ done[w] \subseteq applied'
  <1>1. LifecycleInvariant /\ [LifecycleNext]_lifecycleVars
          => [\A c \in Channels : Cleared(c)]_lifecycleVars
    <2> SUFFICES ASSUME LifecycleInvariant, [LifecycleNext]_lifecycleVars, NEW c \in Channels
                 PROVE  Cleared(c)
      OBVIOUS
    <2>1. CASE Handlers
      BY <2>1, HandlersOnRows DEF LifecycleInvariant, UnknownIsBlank, NoChannelRow
    <2>2. CASE [Next]_vars
      BY <2>2, WatcherOnChannels DEF LifecycleInvariant, LifecycleTypeOK
    <2> QED
      BY <2>1, <2>2, WhoMoves
  <1> QED
    BY <1>1, LifecycleStarts, LifecycleKeeps, PTL DEF LifecycleSpec, MarkerClearedByEvent

-----------------------------------------------------------------------------
(* Rows and the chain.                                                     *)

LEMMA ConfirmInit == LifecycleInit => ConfirmInvariant
  <1> SUFFICES ASSUME LifecycleInit PROVE ConfirmInvariant
    OBVIOUS
  <1>1. OrderInvariant /\ \A c \in Channels : ChannelInvariant(c, 0)
    BY RowsInit DEF LifecycleInit, RowsInvariant
  <1>2. \A c \in Channels : knownAt[c] = 0
    BY DEF LifecycleInit
  <1> QED
    BY <1>1, <1>2 DEF ConfirmInvariant

\* A channel inserted now has heard nothing of the contract yet; a marker is
\* not part of what the contract says.
LEMMA HandlersKeepConfirm ==
  ASSUME LifecycleInvariant, ConfirmInvariant, Handlers, NEW c \in Channels
  PROVE  ChannelInvariant(c, knownAt[c])'
  <1>0. ChannelInvariant(c, knownAt[c]) /\ UNCHANGED <<chain, applied, done, stagedC>>
    BY HandlersOnRows DEF ConfirmInvariant
  <1>1. CASE channels'[c].status = channels[c].status /\ knownAt'[c] = knownAt[c]
    BY <1>0, <1>1 DEF ChannelInvariant, ChannelFollows, ChannelStaged
  <1>2. CASE ~Known(c) /\ channels'[c] = NewChannelRow /\ knownAt'[c] = Len(chain)
    <2>0. TypeOK /\ channels'[c].status = "enabled"
      BY <1>2 DEF LifecycleInvariant, LifecycleTypeOK, NewChannelRow
    <2>1. \A i \in DOMAIN chain : i <= Len(chain) /\ ~(i > Len(chain))
      BY <2>0, EventTypes
    <2>2. \A i \in ChannelEvents(chain, applied, c) : ~(i > Len(chain))
      BY <2>0, <2>1 DEF ChannelEvents, StateChanges, TypeOK
    <2>3. ChannelFollows(c, knownAt[c])'
      BY <1>0, <1>2, <2>0, <2>2 DEF ChannelFollows
    <2>4. ASSUME NEW w \in Watchers PROVE ChannelStaged(w, c, knownAt[c])'
      <3>1. \A i \in ChannelEvents(chain, done[w], c) : i <= Len(chain)
        BY <2>0, <2>1 DEF ChannelEvents, StateChanges, TypeOK
      <3>2. stagedC[w][c] = NoWrite
        BY <1>0, <1>2 DEF ChannelInvariant, ChannelStaged, Known
      <3> QED
        BY <1>0, <1>2, <2>0, <3>1, <3>2 DEF ChannelStaged
    <2> QED
      BY <2>3, <2>4 DEF ChannelInvariant
  <1> QED
    BY <1>1, <1>2, HandlersOnRows

LEMMA ConfirmNext ==
  LifecycleInvariant /\ ConfirmInvariant /\ NoOverlap /\ [LifecycleNext]_lifecycleVars
    => ConfirmInvariant'
  <1> SUFFICES ASSUME LifecycleInvariant, ConfirmInvariant, NoOverlap,
                      [LifecycleNext]_lifecycleVars
               PROVE  ConfirmInvariant'
    OBVIOUS
  <1>0. TypeOK /\ knownAt \in [Channels -> Nat] /\ OrderInvariant
    BY DEF LifecycleInvariant, LifecycleTypeOK, ConfirmInvariant
  <1>1. CASE Handlers
    <2>1. OrderInvariant'
      BY <1>0, <1>1, HandlersOnRows, OrderUntouched
    <2> QED
      BY <1>1, <2>1, HandlersKeepConfirm DEF ConfirmInvariant
  <1>2. CASE [Next]_vars /\ UNCHANGED knownAt
    <2>1. OrderInvariant'
      BY <1>0, <1>2, OrderNext
    <2>2. ASSUME NEW c \in Channels PROVE ChannelInvariant(c, knownAt[c])'
      <3>1. PICK since \in Nat : since = knownAt[c]
        BY <1>0
      <3>2. ChannelInvariant(c, since)
        BY <3>1 DEF ConfirmInvariant
      <3>3. ChannelInvariant(c, since)'
        BY <1>0, <1>2, <3>2, ChannelNext
      <3> QED
        BY <1>2, <3>1, <3>3 DEF ChannelInvariant, ChannelFollows, ChannelStaged
    <2> QED
      BY <2>1, <2>2 DEF ConfirmInvariant
  <1> QED
    BY <1>1, <1>2, WhoMoves

\* As long as no two watchers overlap, no channel is withdraw-only unless the
\* chain made it so, whatever the endpoints inserted and marked meanwhile.
THEOREM DisabledOnlyByChain == LifecycleSpec /\ []NoOverlap => []DisabledIsConfirmed
  <1>1. ConfirmInvariant => DisabledIsConfirmed
    BY DEF ConfirmInvariant, ChannelInvariant, ChannelFollows, DisabledIsConfirmed
  <1> QED
    BY <1>1, LifecycleStarts, LifecycleKeeps, ConfirmInit, ConfirmNext, PTL DEF LifecycleSpec

\* Likewise a channel that was in the table when the contract last spoke of it
\* has the status that the applied events call for, whenever its insert fell:
\* before, during or after the watcher's transaction.
THEOREM KnownChannelsFollow == LifecycleSpec /\ []NoOverlap => []KnownChannelsMirror
  <1>1. LifecycleInvariant /\ ConfirmInvariant => KnownChannelsMirror
    <2> SUFFICES ASSUME LifecycleInvariant, ConfirmInvariant, NEW c \in Channels, Known(c),
                        \E i \in applied \cap About(c) : i > knownAt[c]
                 PROVE  channels[c].status = ChannelAfter(chain, applied, c)
      BY DEF KnownChannelsMirror
    <2>1. ChannelFollows(c, knownAt[c])
      BY DEF ConfirmInvariant, ChannelInvariant
    <2>2. TypeOK /\ applied \in SUBSET DOMAIN chain
      BY DEF LifecycleInvariant, LifecycleTypeOK, TypeOK
    <2>3. applied \cap About(c) = ChannelEvents(chain, applied, c)
      BY <2>2, SpokenOf
    <2> QED
      BY <2>1, <2>3 DEF ChannelFollows, Known
  <1> QED
    BY <1>1, LifecycleStarts, LifecycleKeeps, ConfirmInit, ConfirmNext, PTL DEF LifecycleSpec

=============================================================================
