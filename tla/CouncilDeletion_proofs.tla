----------------------- MODULE CouncilDeletion_proofs -----------------------
(***************************************************************************)
(* Theorems about the deletion of a council beside its reviews and its     *)
(* watchers, for any constants.                                            *)
(***************************************************************************)
EXTENDS CouncilDeletion, Membership_proofs

RequestRecord == [status : {"PENDING"} \cup Reviewed, key : Providers]

LEMMA RecordsExist ==
  ASSUME NEW r \in RequestRecord
  PROVE  r # NoRequest
  BY NothingDecided DEF RequestRecord, Reviewed

\* The statements follow each other in the code's order.
LEMMA StatementOrder ==
  /\ TableOrder[1] = "join requests"
  /\ FollowingTable("join requests") = "providers"
  /\ FollowingTable("providers") = "channels"
  /\ FollowingTable("channels") = "council"
<1> DEFINE Place(table) == CHOOSE i \in DOMAIN TableOrder : TableOrder[i] = table
           After(i) == IF i = Len(TableOrder) THEN "council" ELSE TableOrder[i + 1]
<1>1. /\ DOMAIN TableOrder = {1, 2, 3} /\ Len(TableOrder) = 3
      /\ TableOrder[1] = "join requests" /\ TableOrder[2] = "providers"
      /\ TableOrder[3] = "channels"
  BY DEF TableOrder
<1>2. /\ Place("join requests") = 1 /\ Place("providers") = 2 /\ Place("channels") = 3
  BY <1>1
<1>3. \A table : FollowingTable(table) = After(Place(table))
  BY DEF FollowingTable
<1>4. After(1) = "providers" /\ After(2) = "channels" /\ After(3) = "council"
  <2>1. 1 + 1 = 2 /\ 2 + 1 = 3 /\ 1 # 3 /\ 2 # 3
    OBVIOUS
  <2> QED
    BY <1>1, <2>1, Zenon
<1> HIDE DEF Place, After
<1> QED
  BY <1>1, <1>2, <1>3, <1>4

LEMMA RowsOfTables ==
  /\ RowsOf("join requests") = {q \in JoinRequests : requests[q] # NoRequest}
  /\ RowsOf("providers") = {p \in Providers : providers[p] # "none"}
  /\ RowsOf("channels") = {c \in Channels : channels[c].status # "none"}
  BY DEF RowsOf

\* A deletion is open exactly when a statement is in hand.
LEMMA OpenDeletion ==
  ASSUME DeletionInvariant
  PROVE  /\ Deleting <=> deletion.table # "none"
         /\ ~Deleting => deletion.rows = {} /\ gone = {}
         /\ ~registered => ~Deleting
<1>1. deletion \in [table : Tables \cup {"none", "council"}, rows : SUBSET Rows]
  BY DEF DeletionInvariant, DeletionTypeOK
<1>2. StatementsInOrder
  BY DEF DeletionInvariant
<1>3. NoDeletion.table = "none" /\ NoDeletion.rows = {}
  BY DEF NoDeletion
<1>4. deletion.table = "none" => deletion = NoDeletion
  BY <1>1, <1>2 DEF StatementsInOrder, NoDeletion
<1> QED
  BY <1>2, <1>3, <1>4 DEF Deleting, StatementsInOrder

-----------------------------------------------------------------------------
(* Steps that do not concern the deletion.                                 *)

\* The network, a watcher, or a watcher's lock: rows only appear, and a new
\* provider is owed to an event that is committed with it.
LEMMA OthersMove ==
  ASSUME DeletionInvariant, TypeOK', StagedForRow',
         UNCHANGED <<registered, requests, handler, rowSince, deletion, gone, late>>,
         \A i \in DOMAIN chain : i \in DOMAIN chain' /\ chain'[i] = chain[i],
         recent \subseteq recent', recent' \subseteq DOMAIN chain',
         \A p \in Providers : providers[p] # "none" => providers'[p] # "none",
         \A p \in Providers :
            providers[p] = "none" /\ providers'[p] # "none" => Adds(chain', recent', p) # {},
         blocked' \subseteq Watchers,
         \A w \in blocked' : phase'[w] = "committing" /\ todo'[w] # {}
  PROVE  DeletionInvariant'
<1>0. recent \subseteq DOMAIN chain
  BY DEF DeletionInvariant, DeletionTypeOK
<1>1. DeletionTypeOK'
  BY DEF DeletionInvariant, DeletionTypeOK
<1>2. StatementsInOrder' /\ LockedIsKept' /\ TakenOrLate' /\ ReviewsAreLate'
  BY DEF DeletionInvariant, StatementsInOrder, LockedIsKept, TakenOrLate, ReviewsAreLate,
         Deleting
<1>3. ApprovedRowsStay'
  <2> SUFFICES ASSUME NEW q \in JoinRequests \ late, requests[q].status = "APPROVED"
               PROVE  providers'[requests[q].key] # "none"
    BY DEF ApprovedRowsStay
  <2>1. requests[q] \in RequestRecord
    BY NothingDecided DEF DeletionInvariant, DeletionTypeOK, RequestRecord
  <2>2. requests[q].key \in Providers
    BY <2>1 DEF RequestRecord
  <2> QED
    BY <2>2 DEF DeletionInvariant, ApprovedRowsStay
<1>4. NewRowsExcused'
  <2>1. ASSUME NEW p \in Providers, Adds(chain, recent, p) # {}
        PROVE  Adds(chain', recent', p) # {}
    BY <1>0, <2>1 DEF Adds
  <2>2. ASSUME NEW p \in Providers, Excused(p) \/ Adds(chain', recent', p) # {}
        PROVE  Excused(p)'
    BY <2>1, <2>2 DEF Excused
  <2>3. ASSUME deletion.table \in {"providers", "channels", "council"} \/ ~registered,
               NEW p \in Providers, providers'[p] # "none"
        PROVE  p \in gone \cup deletion.rows \/ Excused(p)'
    <3>1. CASE providers[p] # "none"
      BY <2>2, <2>3, <3>1 DEF DeletionInvariant, NewRowsExcused
    <3>2. CASE providers[p] = "none"
      BY <2>2, <2>3, <3>2
    <3> QED
      BY <3>1, <3>2
  <2> QED
    BY <2>3 DEF NewRowsExcused
<1> QED
  BY <1>1, <1>2, <1>3, <1>4 DEF DeletionInvariant

\* The end of a deletion that does not commit, in a crash or without.
LEMMA RollsBackKeeps ==
  ASSUME DeletionInvariant, RollsBack, TypeOK', StagedForRow',
         UNCHANGED <<chain, registered, providers, requests, rowSince, late>>,
         handler' = handler \/ handler' = [h \in Handlers |-> Resting]
  PROVE  DeletionInvariant'
<1>1. /\ deletion' = NoDeletion /\ gone' = {} /\ blocked' = {} /\ recent' = recent
      /\ NoDeletion.table = "none" /\ NoDeletion.rows = {} /\ Resting.at = "resting"
      /\ NoDeletion \in [table : Tables \cup {"none", "council"}, rows : SUBSET Rows]
  BY DEF RollsBack, NoDeletion, Resting
<1>2. handler' \in [Handlers -> HandlerState]
      /\ \A h \in Handlers : handler'[h].at # "resting" => handler'[h] = handler[h]
  BY <1>1 DEF DeletionInvariant, DeletionTypeOK, HandlerState
<1>3. DeletionTypeOK'
  BY <1>1, <1>2 DEF DeletionInvariant, DeletionTypeOK
<1>4. StatementsInOrder' /\ LockedIsKept' /\ TakenOrLate'
  BY <1>1 DEF StatementsInOrder, LockedIsKept, TakenOrLate, Deleting
<1>5. ApprovedRowsStay'
  BY DEF DeletionInvariant, ApprovedRowsStay
<1>6. ReviewsAreLate'
  BY <1>2 DEF DeletionInvariant, ReviewsAreLate
<1>7. NewRowsExcused'
  <2>1. ASSUME ~registered PROVE gone = {} /\ deletion.rows = {}
    BY <2>1, OpenDeletion
  <2> QED
    BY <1>1, <2>1 DEF DeletionInvariant, NewRowsExcused, Excused
<1> QED
  BY <1>3, <1>4, <1>5, <1>6, <1>7 DEF DeletionInvariant

-----------------------------------------------------------------------------
(* The watchers and the network.                                           *)

\* A step that leaves the rows and the transactions alone, but perhaps for a
\* longer history and a watcher that begins to wait.
LEMMA QuietKeeps ==
  ASSUME DeletionInvariant, TypeOK',
         UNCHANGED <<registered, providers, stagedP, done, requests, handler, rowSince,
                     deletion, gone, recent, late>>,
         \A i \in DOMAIN chain : i \in DOMAIN chain' /\ chain'[i] = chain[i],
         blocked' \subseteq Watchers,
         \A w \in blocked' : phase'[w] = "committing" /\ todo'[w] # {}
  PROVE  DeletionInvariant'
<1>1. TypeOK /\ StagedForRow /\ recent \subseteq DOMAIN chain
  BY DEF DeletionInvariant, DeletionTypeOK
<1>2. \A w \in Watchers : done[w] \subseteq DOMAIN chain
  BY <1>1 DEF TypeOK
<1>3. ASSUME NEW w \in Watchers, NEW p \in Providers, Adds(chain, done[w], p) # {}
      PROVE  Adds(chain', done[w], p) # {}
  BY <1>2, <1>3 DEF Adds
<1>4. StagedForRow'
  BY <1>1, <1>3 DEF StagedForRow
<1>5. recent \subseteq DOMAIN chain'
  BY <1>1
<1> QED
  BY <1>4, <1>5, OthersMove

\* A watcher's step is the commit of its transaction, the next event of it, the
\* transaction's end, or nothing to the tables and the transaction.
LEMMA WatcherStepKinds ==
  ASSUME NEW w \in Watchers, WatcherStep(w)
  PROVE  /\ UNCHANGED <<chain, registered>>
         /\ \/ Commits(w)
            \/ ApplyEvent(w) /\ UNCHANGED providers
            \/ PollEnds(w) /\ UNCHANGED providers
            \/ UNCHANGED <<providers, stagedP, done>>
  BY DEF WatcherStep, EnsureWatcher, RestoreCursor, ResolveBootStartLedger, Started, StartFails,
         Fetch, ApplyEvent, CommitPoll, CommitUnacknowledged, Commits, Rollback, DeadlockAbort,
         network, postgres, tables, poll

\* The other watchers stay where they are.
LEMMA OthersStay ==
  ASSUME TypeOK, NEW w \in Watchers, WatcherStep(w) \/ PollEnds(w), NEW v \in Watchers, v # w
  PROVE  /\ phase'[v] = phase[v] /\ todo'[v] = todo[v]
         /\ WatcherStep(w) => done'[v] = done[v] /\ stagedP'[v] = stagedP[v]
         /\ PollEnds(w) => done'[v] = done[v] /\ stagedP'[v] = stagedP[v]
<1>1. CASE PollEnds(w)
  BY <1>1 DEF PollEnds, TypeOK
<1>2. CASE \/ EnsureWatcher(w) \/ RestoreCursor(w) \/ ResolveBootStartLedger(w)
           \/ StartFails(w) \/ Fetch(w) \/ ApplyEvent(w)
  <2>1. done'[v] = done[v]
    BY <1>2 DEF EnsureWatcher, RestoreCursor, ResolveBootStartLedger, Started, StartFails,
                Fetch, ApplyEvent, TypeOK, poll
  <2>2. stagedP'[v] = stagedP[v]
    BY <1>2 DEF EnsureWatcher, RestoreCursor, ResolveBootStartLedger, Started, StartFails,
                Fetch, ApplyEvent, ApplyProviderEvent, ApplyChannelEvent, ApplyOtherEvent,
                TypeOK, poll
  <2>3. phase'[v] = phase[v] /\ todo'[v] = todo[v]
    BY <1>2 DEF EnsureWatcher, RestoreCursor, ResolveBootStartLedger, Started, StartFails,
                Fetch, ApplyEvent, TypeOK, poll
  <2> QED
    BY <2>1, <2>2, <2>3
<1> QED
  BY <1>1, <1>2 DEF WatcherStep, CommitPoll, CommitUnacknowledged, Commits, Rollback,
                    DeadlockAbort

\* The next event writes for an addition, or updates a row, which is not deleted
\* when the watcher does not have to wait.
LEMMA AppliedForRow ==
  ASSUME TypeOK, StagedForRow, NEW w \in Watchers, ~MeetsDeleted(w), ApplyEvent(w),
         UNCHANGED <<chain, providers, gone>>, NEW p \in Providers, stagedP'[w][p] # NoWrite
  PROVE  Adds(chain, done'[w], p) # {} \/ (providers[p] # "none" /\ p \notin gone)
<1>1. PICK i \in todo[w] :
         /\ IsNext(w, i)
         /\ \/ ApplyProviderEvent(w, chain[i])
            \/ ApplyChannelEvent(w, chain[i])
            \/ ApplyOtherEvent(chain[i])
         /\ done' = [done EXCEPT ![w] = @ \cup {i}]
  BY DEF ApplyEvent
<1>2. done'[w] = done[w] \cup {i}
  BY <1>1 DEF TypeOK
<1>3. Adds(chain, done[w], p) # {} => Adds(chain, done'[w], p) # {}
  BY <1>2 DEF Adds
<1>4. CASE stagedP[w][p] # NoWrite
  BY <1>3, <1>4 DEF StagedForRow
<1>5. CASE stagedP[w][p] = NoWrite
  <2>1. /\ chain[i].type \in {"provider_added", "provider_removed"}
        /\ ProviderWrite(w, chain[i]) # NoWrite
        /\ stagedP' = [stagedP EXCEPT ![w][chain[i].subject] = ProviderWrite(w, chain[i])]
    BY <1>1, <1>5 DEF ApplyProviderEvent, ApplyChannelEvent, ApplyOtherEvent
  <2>2. p = chain[i].subject
    BY <1>5, <2>1 DEF TypeOK
  <2>3. p \notin gone
    BY <1>1, <2>1, <2>2 DEF MeetsDeleted, ApplyEvent
  <2>4. CASE chain[i].type = "provider_added"
    BY <1>2, <2>2, <2>4 DEF Adds
  <2>5. CASE chain[i].type = "provider_removed"
    <3>1. ProviderSeen(w, p) # "none"
      BY <2>1, <2>2, <2>5 DEF ProviderWrite
    <3> QED
      BY <1>5, <2>3, <3>1 DEF ProviderSeen
  <2> QED
    BY <2>1, <2>4, <2>5
<1> QED
  BY <1>4, <1>5

\* The end of a transaction, or a commit, leaves the other transactions theirs.
LEMMA StagedAfterEnd ==
  ASSUME TypeOK, StagedForRow, NEW w \in Watchers, PollEnds(w), UNCHANGED <<chain, gone>>,
         \A p \in Providers : providers[p] # "none" => providers'[p] # "none"
  PROVE  StagedForRow'
<1> SUFFICES ASSUME NEW v \in Watchers, NEW p \in Providers, stagedP'[v][p] # NoWrite
             PROVE  \/ Adds(chain, done'[v], p) # {}
                    \/ providers'[p] # "none" /\ p \notin gone
  BY DEF StagedForRow
<1>1. v # w
  BY DEF PollEnds, NoProviderWrites, TypeOK
<1>2. done'[v] = done[v] /\ stagedP'[v] = stagedP[v]
  BY <1>1, OthersStay
<1> QED
  BY <1>2 DEF StagedForRow

\* What a commit makes of the rows: none goes, and a new one is an addition's.
LEMMA CommitOnRows ==
  ASSUME TypeOK, StagedForRow, NEW w \in Watchers, Commits(w), NEW p \in Providers
  PROVE  /\ providers[p] # "none" => providers'[p] # "none"
         /\ providers[p] = "none" /\ providers'[p] # "none" => Adds(chain, done[w], p) # {}
<1>1. providers'[p] = ProviderSeen(w, p)
  BY DEF Commits
<1>2. stagedP[w][p] # "none"
  BY DEF TypeOK, Staged, ProviderStatus, NoWrite
<1> QED
  BY <1>1, <1>2 DEF ProviderSeen, StagedForRow

LEMMA StagedAfterStep ==
  ASSUME TypeOK, StagedForRow, NEW w \in Watchers, WatcherStep(w), ~MeetsDeleted(w),
         UNCHANGED gone
  PROVE  StagedForRow'
<1>0. chain' = chain
  BY WatcherStepKinds
<1>1. CASE Commits(w)
  <2>1. PollEnds(w)
    BY <1>1 DEF Commits
  <2> QED
    BY <1>0, <1>1, <2>1, CommitOnRows, StagedAfterEnd
<1>2. CASE ApplyEvent(w) /\ UNCHANGED providers
  <2> SUFFICES ASSUME NEW v \in Watchers, NEW p \in Providers, stagedP'[v][p] # NoWrite
               PROVE  Adds(chain, done'[v], p) # {} \/ (providers[p] # "none" /\ p \notin gone)
    BY <1>0, <1>2 DEF StagedForRow
  <2>1. CASE v = w
    BY <1>0, <1>2, <2>1, AppliedForRow
  <2>2. CASE v # w
    <3>1. done'[v] = done[v] /\ stagedP'[v] = stagedP[v]
      BY <2>2, OthersStay
    <3> QED
      BY <3>1 DEF StagedForRow
  <2> QED
    BY <2>1, <2>2
<1>3. CASE PollEnds(w) /\ UNCHANGED providers
  BY <1>0, <1>3, StagedAfterEnd
<1>4. CASE UNCHANGED <<providers, stagedP, done>>
  BY <1>0, <1>4 DEF StagedForRow
<1> QED
  BY <1>1, <1>2, <1>3, <1>4, WatcherStepKinds

LEMMA WatcherKeeps ==
  ASSUME DeletionInvariant, NEW w \in Watchers, WatcherBeside(w)
  PROVE  DeletionInvariant'
<1>0. TypeOK /\ StagedForRow /\ recent \subseteq DOMAIN chain
  BY DEF DeletionInvariant, DeletionTypeOK
<1>1. WatcherStep(w)
  BY DEF WatcherBeside, WatcherStep
<1>2. TypeOK'
  BY <1>0, <1>1, TypeNext DEF Next
<1>3. UNCHANGED <<chain, registered, requests, handler, rowSince, deletion, gone, late>>
  BY <1>1, WatcherStepKinds DEF WatcherBeside
<1>4. StagedForRow'
  <2>1. CASE ~MeetsDeleted(w)
    BY <1>0, <1>1, <1>3, <2>1, StagedAfterStep
  <2>2. CASE Rollback(w)
    BY <1>0, <1>3, <2>2, StagedAfterEnd DEF Rollback, postgres, tables
  <2> QED
    BY <2>1, <2>2 DEF WatcherBeside
<1>5. /\ blocked' \subseteq Watchers
      /\ \A v \in blocked' : phase'[v] = "committing" /\ todo'[v] # {}
  <2>1. blocked' = blocked \ {w}
    BY DEF WatcherBeside
  <2> QED
    BY <1>0, <1>1, <2>1, OthersStay DEF DeletionInvariant, DeletionTypeOK
<1>6. CASE Commits(w)
  <2>1. recent' = recent \cup done[w]
    BY <1>6 DEF WatcherBeside
  <2>2. done[w] \subseteq DOMAIN chain
    BY <1>0 DEF TypeOK
  <2>3. recent \subseteq recent' /\ recent' \subseteq DOMAIN chain'
    BY <1>0, <1>3, <2>1, <2>2
  <2>4. ASSUME NEW p \in Providers, Adds(chain, done[w], p) # {}
        PROVE  Adds(chain', recent', p) # {}
    BY <1>3, <2>1, <2>4 DEF Adds
  <2>5. \A p \in Providers : providers[p] # "none" => providers'[p] # "none"
    BY <1>0, <1>6, CommitOnRows
  <2>6. \A p \in Providers :
           providers[p] = "none" /\ providers'[p] # "none" => Adds(chain', recent', p) # {}
    BY <1>0, <1>6, <2>4, CommitOnRows
  <2> QED
    BY <1>2, <1>3, <1>4, <1>5, <2>3, <2>5, <2>6, OthersMove
<1>7. CASE ~Commits(w)
  <2>1. recent' = recent /\ providers' = providers
    BY <1>1, <1>7, WatcherStepKinds DEF WatcherBeside
  <2> QED
    BY <1>0, <1>2, <1>3, <1>4, <1>5, <2>1, OthersMove
<1> QED
  BY <1>6, <1>7

\* Postgres breaks a deadlock in favour of the watcher or of the deletion.
LEMMA DeadlockKeeps ==
  ASSUME DeletionInvariant, NEW w \in Watchers, DeadlockWithWatcher(w)
  PROVE  DeletionInvariant'
<1>0. TypeOK /\ StagedForRow /\ recent \subseteq DOMAIN chain
  BY DEF DeletionInvariant, DeletionTypeOK
<1>1. CASE RollsBack /\ UNCHANGED <<membershipVars, late>>
  <2>1. TypeOK'
    BY <1>0, <1>1, TypeNext DEF membershipVars
  <2>2. UNCHANGED <<chain, registered, providers, requests, handler, rowSince, late, stagedP, done>>
    BY <1>1 DEF membershipVars, vars, network, postgres, tables, process, poll
  <2>3. gone' = {}
    BY <1>1 DEF RollsBack
  <2>4. StagedForRow'
    BY <1>0, <2>2, <2>3 DEF StagedForRow
  <2> QED
    BY <1>1, <2>1, <2>2, <2>4, RollsBackKeeps
<1>2. CASE /\ PollEnds(w)
           /\ blocked' = blocked \ {w}
           /\ UNCHANGED <<network, postgres, serving, active, pos, applied, counters,
                          requests, handler, rowSince, deletion, gone, recent, late>>
  <2>1. UNCHANGED <<chain, registered, providers, requests, handler, rowSince, deletion, gone,
                    recent, late>>
    BY <1>2 DEF network, postgres, tables
  <2>2. TypeOK'
    BY <1>0, <1>2, PollEndsType DEF TypeOK, network, postgres, tables, counters
  <2>3. StagedForRow'
    BY <1>0, <1>2, <2>1, StagedAfterEnd
  <2>4. \A v \in blocked' : phase'[v] = "committing" /\ todo'[v] # {}
    BY <1>0, <1>2, OthersStay DEF DeletionInvariant, DeletionTypeOK
  <2>5. blocked' \subseteq Watchers
    BY <1>2 DEF DeletionInvariant, DeletionTypeOK
  <2> QED
    BY <1>0, <2>1, <2>2, <2>3, <2>4, <2>5, OthersMove
<1> QED
  BY <1>1, <1>2 DEF DeadlockWithWatcher

-----------------------------------------------------------------------------
(* The handlers.                                                           *)

LEMMA RequestKinds ==
  ASSUME DeletionTypeOK, NEW q \in JoinRequests
  PROVE  requests[q] # NoRequest => requests[q] \in RequestRecord /\ requests[q].key \in Providers
  BY DEF DeletionTypeOK, RequestRecord

\* A handler leaves what is the watchers' alone.
LEMMA HandlersElsewhere ==
  ASSUME NEW h \in Handlers, HandlerStep(h)
  PROVE  UNCHANGED <<chain, latest, oldest, registered, cursor, channels, serving, active, phase,
                     pos, next, todo, done, stagedP, stagedC, applied, crashes, failures>>
  BY DEF HandlerStep, PostJoinRequest, CreateJoinRequest, BeginReview, LockRequest, Approve,
         Reject, RequestFails, WatcherUntouched, network, process, poll, counters

\* Where a handler is after its step: at rest or posting, at the review it has
\* begun, or at the one it was at, which it now holds.
LEMMA HandlerMoves ==
  ASSUME handler \in [Handlers -> HandlerState], NEW h \in Handlers, HandlerStep(h)
  PROVE  /\ handler' \in [Handlers -> HandlerState]
         /\ \A g \in Handlers \ {h} : handler'[g] = handler[g]
         /\ \/ handler'[h].at \in {"resting", "posting"}
            \/ /\ handler'[h].at = "reviewing" /\ registered
               /\ requests[handler'[h].id] # NoRequest /\ requests' = requests
            \/ /\ handler'[h].at = "locked" /\ handler[h].at = "reviewing"
               /\ handler'[h].id = handler[h].id /\ requests' = requests
               /\ requests[handler[h].id].status = "PENDING"
<1>0. Resting.at = "resting" /\ Resting \in HandlerState
  BY DEF Resting, HandlerState
<1>1. ASSUME NEW s \in HandlerState, Moves(h, s)
      PROVE  /\ handler' \in [Handlers -> HandlerState] /\ handler'[h] = s
             /\ \A g \in Handlers \ {h} : handler'[g] = handler[g]
  BY <1>1 DEF Moves
<1>2. ASSUME NEW p \in Providers, PostJoinRequest(h, p)
      PROVE  handler'[h].at = "posting" /\ Moves(h, [at |-> "posting", key |-> p])
             /\ [at |-> "posting", key |-> p] \in HandlerState
  <2>1. [at |-> "posting", key |-> p] \in HandlerState
    BY DEF HandlerState
  <2> QED
    BY <1>1, <1>2, <2>1 DEF PostJoinRequest
<1>3. ASSUME NEW q \in JoinRequests, NEW verdict \in Reviewed, BeginReview(h, q, verdict)
      PROVE  /\ handler' \in [Handlers -> HandlerState]
             /\ \A g \in Handlers \ {h} : handler'[g] = handler[g]
             /\ handler'[h].at = "reviewing" /\ registered
             /\ requests[handler'[h].id] # NoRequest /\ requests' = requests
  <2>1. [at |-> "reviewing", id |-> q, verdict |-> verdict] \in HandlerState
    BY DEF HandlerState
  <2>2. handler'[h] = [at |-> "reviewing", id |-> q, verdict |-> verdict]
    BY <1>1, <1>3, <2>1 DEF BeginReview
  <2> QED
    BY <1>1, <1>3, <2>1, <2>2 DEF BeginReview
<1>4. CASE Ends(h)
  BY <1>0, <1>1, <1>4 DEF Ends
<1>5. CASE /\ LockRequest(h) /\ ~Ends(h)
  <2>1. [handler[h] EXCEPT !.at = "locked"] \in HandlerState
        /\ [handler[h] EXCEPT !.at = "locked"].at = "locked"
        /\ [handler[h] EXCEPT !.at = "locked"].id = handler[h].id
    BY <1>5, HandlersByPhase DEF LockRequest, HandlerState
  <2>2. handler'[h] = [handler[h] EXCEPT !.at = "locked"]
    BY <1>1, <1>5, <2>1 DEF LockRequest
  <2> QED
    BY <1>1, <1>5, <2>1, <2>2 DEF LockRequest
<1> QED
  BY <1>1, <1>2, <1>3, <1>4, <1>5 DEF HandlerStep, CreateJoinRequest, Approve, Reject, RequestFails,
                                      LockRequest

\* What a handler writes: a new request, the verdict on the one that it holds,
\* whose key stays, or nothing.
LEMMA HandlerWrites ==
  ASSUME DeletionTypeOK, NEW h \in Handlers, HandlerStep(h)
  PROVE  \/ UNCHANGED <<requests, providers, rowSince>>
         \/ \E q \in JoinRequests, r \in RequestRecord :
              /\ requests' = [requests EXCEPT ![q] = r]
              /\ \/ /\ requests[q] = NoRequest /\ r.status = "PENDING"
                    /\ UNCHANGED <<providers, rowSince>>
                 \/ /\ handler[h].at = "locked" /\ handler[h].id = q
                    /\ requests[q] # NoRequest /\ r.key = requests[q].key
                    /\ \/ r.status = "REJECTED" /\ UNCHANGED <<providers, rowSince>>
                       \/ /\ providers' = [providers EXCEPT ![r.key] = ProviderApproved(r.key)]
                          /\ \/ rowSince' = rowSince
                             \/ rowSince' = [rowSince EXCEPT ![r.key] = Len(chain)]
<1>0. handler[h] \in HandlerState
  BY DEF DeletionTypeOK
<1>1. CASE CreateJoinRequest(h)
  <2>1. PICK q \in JoinRequests :
           /\ requests[q] = NoRequest
           /\ requests' = [requests EXCEPT ![q] = Row(handler[h].key, "PENDING")]
    BY <1>1 DEF CreateJoinRequest
  <2>2. Row(handler[h].key, "PENDING") \in RequestRecord
    BY <1>0, <1>1, HandlersByPhase DEF CreateJoinRequest, Row, RequestRecord
  <2>3. Row(handler[h].key, "PENDING").status = "PENDING"
    BY DEF Row
  <2>4. UNCHANGED <<providers, rowSince>>
    BY <1>1 DEF CreateJoinRequest
  <2> QED
    BY <2>1, <2>2, <2>3, <2>4
<1>2. ASSUME handler[h].at = "locked"
      PROVE  /\ handler[h].id \in JoinRequests /\ requests[handler[h].id] # NoRequest
             /\ requests[handler[h].id] \in RequestRecord
             /\ requests[handler[h].id].key \in Providers
  BY <1>0, <1>2, HandlersByPhase, RequestKinds DEF DeletionTypeOK
<1>3. CASE Approve(h)
  <2> DEFINE q == handler[h].id
             r == Row(requests[q].key, "APPROVED")
  <2>1. handler[h].at = "locked"
    BY <1>3 DEF Approve
  <2>2. r \in RequestRecord /\ r.key = requests[q].key
    BY <1>2, <2>1 DEF Row, RequestRecord, Reviewed
  <2>3. /\ requests' = [requests EXCEPT ![q] = r]
        /\ providers' = [providers EXCEPT ![r.key] = ProviderApproved(r.key)]
        /\ rowSince' = rowSince \/ rowSince' = [rowSince EXCEPT ![r.key] = Len(chain)]
    BY <1>3, <2>2 DEF Approve
  <2> HIDE DEF r
  <2> QED
    BY <1>2, <2>1, <2>2, <2>3
<1>4. CASE Reject(h)
  <2> DEFINE q == handler[h].id
             r == [requests[q] EXCEPT !.status = "REJECTED"]
  <2>1. handler[h].at = "locked"
    BY <1>4 DEF Reject
  <2>2. r \in RequestRecord /\ r.key = requests[q].key /\ r.status = "REJECTED"
    BY <1>2, <2>1 DEF RequestRecord, Reviewed
  <2>3. requests' = [requests EXCEPT ![q] = r] /\ UNCHANGED <<providers, rowSince>>
    BY <1>4 DEF Reject
  <2> HIDE DEF r
  <2> QED
    BY <1>2, <2>1, <2>2, <2>3
<1> QED
  BY <1>1, <1>3, <1>4 DEF HandlerStep, PostJoinRequest, BeginReview, LockRequest, RequestFails

\* No request goes or changes its key, and no row goes; a new row is of the
\* request that the handler holds; who becomes approved has a row.
LEMMA HandlerEffect ==
  ASSUME DeletionTypeOK, NEW h \in Handlers, HandlerStep(h)
  PROVE  /\ requests' \in [JoinRequests -> RequestRecord \cup {NoRequest}]
         /\ providers' \in [Providers -> ProviderRow] /\ rowSince' \in [Providers -> Nat]
         /\ \A q \in JoinRequests :
              requests[q] # NoRequest =>
                requests'[q] # NoRequest /\ requests'[q].key = requests[q].key
         /\ \A p \in Providers :
              /\ providers[p] # "none" => providers'[p] # "none"
              /\ providers[p] = "none" /\ providers'[p] # "none" =>
                   /\ handler[h].at = "locked" /\ handler[h].id \in JoinRequests
                   /\ requests[handler[h].id] # NoRequest /\ requests[handler[h].id].key = p
         /\ \A q \in JoinRequests :
              requests'[q].status = "APPROVED" =>
                \/ requests'[q] = requests[q]
                \/ providers'[requests'[q].key] # "none"
<1>0. /\ requests \in [JoinRequests -> RequestRecord \cup {NoRequest}]
      /\ providers \in [Providers -> ProviderRow] /\ rowSince \in [Providers -> Nat]
      /\ Len(chain) \in Nat
  BY DEF DeletionTypeOK, RequestRecord, TypeOK
<1>1. CASE UNCHANGED <<requests, providers, rowSince>>
  BY <1>0, <1>1
<1>2. ASSUME NEW q \in JoinRequests, NEW r \in RequestRecord,
             requests' = [requests EXCEPT ![q] = r], requests[q] = NoRequest,
             r.status = "PENDING", UNCHANGED <<providers, rowSince>>
      PROVE  /\ requests' \in [JoinRequests -> RequestRecord \cup {NoRequest}]
             /\ \A x \in JoinRequests : requests[x] # NoRequest => requests'[x] = requests[x]
             /\ \A x \in JoinRequests :
                  requests'[x].status = "APPROVED" => requests'[x] = requests[x]
  BY <1>0, <1>2
<1>3. ASSUME NEW q \in JoinRequests, NEW r \in RequestRecord,
             requests' = [requests EXCEPT ![q] = r], handler[h].at = "locked", handler[h].id = q,
             requests[q] # NoRequest, r.key = requests[q].key
      PROVE  /\ requests' \in [JoinRequests -> RequestRecord \cup {NoRequest}]
             /\ requests'[q] = r /\ r # NoRequest
             /\ \A x \in JoinRequests : x # q => requests'[x] = requests[x]
             /\ \A x \in JoinRequests : requests[x] # NoRequest =>
                  requests'[x] # NoRequest /\ requests'[x].key = requests[x].key
  BY <1>0, <1>3, RecordsExist
<1>4. ASSUME NEW p \in Providers,
             providers' = [providers EXCEPT ![p] = ProviderApproved(p)]
      PROVE  /\ providers' \in [Providers -> ProviderRow]
             /\ \A x \in Providers : providers[x] # "none" => providers'[x] # "none"
             /\ \A x \in Providers : x # p => providers'[x] = providers[x]
             /\ providers'[p] # "none"
  BY <1>0, <1>4 DEF ProviderApproved, ProviderRow, ProviderStatus
<1>5. ASSUME NEW q \in JoinRequests, NEW r \in RequestRecord,
             requests' = [requests EXCEPT ![q] = r], handler[h].at = "locked", handler[h].id = q,
             requests[q] # NoRequest, r.key = requests[q].key,
             r.status = "REJECTED", UNCHANGED <<providers, rowSince>>
      PROVE  \A x \in JoinRequests : requests'[x].status = "APPROVED" => requests'[x] = requests[x]
  BY <1>3, <1>5
<1>6. ASSUME NEW q \in JoinRequests, NEW r \in RequestRecord,
             requests' = [requests EXCEPT ![q] = r], handler[h].at = "locked", handler[h].id = q,
             requests[q] # NoRequest, r.key = requests[q].key,
             providers' = [providers EXCEPT ![r.key] = ProviderApproved(r.key)],
             rowSince' = rowSince \/ rowSince' = [rowSince EXCEPT ![r.key] = Len(chain)]
      PROVE  /\ rowSince' \in [Providers -> Nat] /\ providers' \in [Providers -> ProviderRow]
             /\ \A x \in Providers : providers[x] # "none" => providers'[x] # "none"
             /\ \A x \in Providers :
                  providers[x] = "none" /\ providers'[x] # "none" => requests[q].key = x
             /\ \A x \in JoinRequests :
                  requests'[x] = requests[x] \/ providers'[requests'[x].key] # "none"
  <2>1. r.key \in Providers
    BY DEF RequestRecord
  <2>2. rowSince' \in [Providers -> Nat]
    BY <1>0, <1>6, <2>1
  <2> QED
    BY <1>3, <1>4, <1>6, <2>1, <2>2
<1>7. CASE \E q \in JoinRequests, r \in RequestRecord :
              /\ requests' = [requests EXCEPT ![q] = r]
              /\ requests[q] = NoRequest /\ r.status = "PENDING"
              /\ UNCHANGED <<providers, rowSince>>
  BY <1>0, <1>2, <1>7
<1>8. CASE \E q \in JoinRequests, r \in RequestRecord :
              /\ requests' = [requests EXCEPT ![q] = r]
              /\ handler[h].at = "locked" /\ handler[h].id = q
              /\ requests[q] # NoRequest /\ r.key = requests[q].key
              /\ r.status = "REJECTED" /\ UNCHANGED <<providers, rowSince>>
  BY <1>0, <1>3, <1>5, <1>8
<1>9. CASE \E q \in JoinRequests, r \in RequestRecord :
              /\ requests' = [requests EXCEPT ![q] = r]
              /\ handler[h].at = "locked" /\ handler[h].id = q
              /\ requests[q] # NoRequest /\ r.key = requests[q].key
              /\ providers' = [providers EXCEPT ![r.key] = ProviderApproved(r.key)]
              /\ rowSince' = rowSince \/ rowSince' = [rowSince EXCEPT ![r.key] = Len(chain)]
  BY <1>0, <1>3, <1>6, <1>9
<1> QED
  BY <1>1, <1>7, <1>8, <1>9, HandlerWrites

\* A provider whose row an approval makes, during a deletion that has already
\* taken the provider rows or after it, is a late request's.
LEMMA LateApproval ==
  ASSUME DeletionInvariant,
         deletion.table \in {"providers", "channels", "council"} \/ ~registered,
         NEW h \in Handlers, handler[h].at = "locked", handler[h].id \in JoinRequests,
         requests[handler[h].id] # NoRequest
  PROVE  handler[h].id \in late \ gone
<1> DEFINE q == handler[h].id
<1>1. q \notin gone
  BY DEF DeletionInvariant, LockedIsKept
<1>2. CASE ~registered
  BY <1>1, <1>2 DEF DeletionInvariant, ReviewsAreLate
<1>3. CASE deletion.table \in {"providers", "channels", "council"}
  <2>1. Deleting
    BY <1>3, OpenDeletion
  <2>2. deletion.rows \cap JoinRequests = {}
    BY <1>3, RowsAssumption DEF DeletionInvariant, StatementsInOrder
  <2> QED
    BY <1>1, <2>1, <2>2 DEF DeletionInvariant, TakenOrLate
<1> QED
  BY <1>2, <1>3

LEMMA HandlerKeeps ==
  ASSUME DeletionInvariant, NEW h \in Handlers, HandlerBeside(h)
  PROVE  DeletionInvariant'
<1>0. /\ DeletionTypeOK /\ TypeOK /\ HandlerStep(h)
      /\ handler \in [Handlers -> HandlerState]
      /\ UNCHANGED <<deletion, gone, blocked, recent>>
      /\ Resting.at = "resting"
  BY DEF DeletionInvariant, DeletionTypeOK, HandlerBeside, Resting
<1>1. UNCHANGED <<chain, registered, phase, todo, done, stagedP>>
  BY <1>0, HandlersElsewhere
<1>2. TypeOK'
  BY <1>0, HandlersElsewhere, HandlerEffect DEF TypeOK
<1>3. /\ late \subseteq late' /\ late' \subseteq JoinRequests
      /\ Deleting =>
           \A q \in JoinRequests : requests[q] = NoRequest /\ requests'[q] # NoRequest => q \in late'
  BY <1>0 DEF HandlerBeside, Inserted, DeletionTypeOK
<1>4. ASSUME NEW g \in Handlers, handler'[g].at = "locked"
      PROVE  /\ handler'[g].id \in JoinRequests /\ requests'[handler'[g].id] # NoRequest
             /\ handler'[g].id \notin gone
  <2>1. handler'[g].id \in JoinRequests
    BY <1>0, <1>4, HandlerMoves, HandlersByPhase
  <2>2. CASE handler'[g] = handler[g]
    BY <1>0, <1>4, <2>1, <2>2, HandlerEffect DEF DeletionTypeOK, DeletionInvariant, LockedIsKept
  <2>3. CASE /\ g = h /\ handler[g].at = "reviewing" /\ handler'[g].id = handler[g].id
             /\ requests' = requests /\ requests[handler[g].id].status = "PENDING"
    BY <2>1, <2>3, NothingDecided DEF HandlerBeside
  <2> QED
    BY <1>0, <1>4, <2>2, <2>3, HandlerMoves
<1>5. DeletionTypeOK'
  <2>1. /\ requests' \in [JoinRequests -> RequestRecord \cup {NoRequest}]
        /\ handler' \in [Handlers -> HandlerState] /\ rowSince' \in [Providers -> Nat]
    BY <1>0, HandlerMoves, HandlerEffect
  <2>2. \A g \in Handlers : handler'[g].at = "locked" => requests'[handler'[g].id] # NoRequest
    BY <1>4
  <2> QED
    BY <1>0, <1>1, <1>2, <1>3, <2>1, <2>2 DEF DeletionTypeOK, RequestRecord
<1>6. StatementsInOrder'
  BY <1>0, <1>1 DEF DeletionInvariant, StatementsInOrder, Deleting
<1>7. LockedIsKept'
  BY <1>0, <1>4 DEF LockedIsKept
<1>8. TakenOrLate'
  BY <1>0, <1>3 DEF DeletionInvariant, TakenOrLate, Deleting
<1>9. ApprovedRowsStay'
  <2> SUFFICES ASSUME NEW q \in JoinRequests \ late', requests'[q].status = "APPROVED"
               PROVE  providers'[requests'[q].key] # "none"
    BY DEF ApprovedRowsStay
  <2>1. CASE requests'[q] = requests[q]
    <3>1. requests[q].key \in Providers
      BY <1>0, <2>1, RequestKinds, NothingDecided
    <3>2. q \in JoinRequests \ late /\ requests[q].status = "APPROVED"
      BY <1>3, <2>1
    <3> QED
      BY <1>0, <2>1, <3>1, <3>2, HandlerEffect DEF DeletionInvariant, ApprovedRowsStay
  <2> QED
    BY <1>0, <2>1, HandlerEffect
<1>10. StagedForRow'
  BY <1>0, <1>1, HandlerEffect DEF DeletionInvariant, StagedForRow
<1>11. NewRowsExcused'
  <2> SUFFICES ASSUME deletion.table \in {"providers", "channels", "council"} \/ ~registered,
                      NEW p \in Providers, providers'[p] # "none",
                      p \notin gone \cup deletion.rows
               PROVE  Excused(p)'
    BY <1>0, <1>1 DEF NewRowsExcused
  <2>1. CASE Adds(chain, recent, p) # {}
    BY <1>0, <1>1, <2>1 DEF Excused
  <2>2. ASSUME NEW q \in late \ gone, requests[q] # NoRequest, requests[q].key = p
        PROVE  Excused(p)'
    <3>1. q \in JoinRequests
      BY <1>0 DEF DeletionTypeOK
    <3>2. requests'[q] # NoRequest /\ requests'[q].key = p
      BY <1>0, <2>2, <3>1, HandlerEffect
    <3> QED
      BY <1>0, <1>3, <3>2 DEF Excused
  <2>3. CASE providers[p] # "none"
    BY <2>1, <2>2, <2>3 DEF DeletionInvariant, NewRowsExcused, Excused
  <2>4. CASE providers[p] = "none"
    <3>1. /\ handler[h].at = "locked" /\ handler[h].id \in JoinRequests
          /\ requests[handler[h].id] # NoRequest /\ requests[handler[h].id].key = p
      BY <1>0, <2>4, HandlerEffect
    <3> QED
      BY <2>2, <3>1, LateApproval
  <2> QED
    BY <2>3, <2>4
<1>12. ReviewsAreLate'
  <2> SUFFICES ASSUME ~registered, NEW g \in Handlers,
                      handler'[g].at \in {"reviewing", "locked"},
                      requests'[handler'[g].id] # NoRequest
               PROVE  handler'[g].id \in late
    BY <1>1, <1>3 DEF ReviewsAreLate
  <2>1. handler'[g].id \in JoinRequests
    BY <1>0, HandlerMoves, HandlersByPhase
  <2>2. CASE handler'[g] = handler[g]
    <3>1. requests[handler[g].id] # NoRequest
      BY <1>0, <2>1, <2>2 DEF HandlerBeside, Inserted, DeletionTypeOK
    <3> QED
      BY <2>2, <3>1 DEF DeletionInvariant, ReviewsAreLate
  <2>3. CASE /\ g = h /\ handler[g].at = "reviewing" /\ handler'[g].id = handler[g].id
             /\ requests' = requests
    BY <2>3 DEF DeletionInvariant, ReviewsAreLate
  <2> QED
    BY <1>0, <2>2, <2>3, HandlerMoves
<1> QED
  BY <1>5, <1>6, <1>7, <1>8, <1>9, <1>10, <1>11, <1>12 DEF DeletionInvariant

-----------------------------------------------------------------------------
(* The deletion's own steps.                                               *)

\* A step of the deletion's transaction that leaves everyone else where they
\* are keeps what does not speak of it.
LEMMA TransactionOnly ==
  ASSUME DeletionInvariant, UNCHANGED <<membershipVars, blocked, late>>,
         deletion' \in [table : Tables \cup {"none", "council"}, rows : SUBSET Rows],
         gone' \subseteq Rows, gone' \cap deletion'.rows = {},
         recent' \subseteq recent,
         StatementsInOrder', LockedIsKept', TakenOrLate', StagedForRow', NewRowsExcused'
  PROVE  DeletionInvariant'
<1>1. TypeOK'
  BY TypeNext DEF DeletionInvariant, DeletionTypeOK, membershipVars
<1>2. UNCHANGED <<chain, phase, todo, done, stagedP, registered, providers, requests, handler,
                  rowSince>>
  BY DEF membershipVars, vars, network, postgres, tables, process, poll
<1>3. DeletionTypeOK'
  BY <1>1, <1>2 DEF DeletionInvariant, DeletionTypeOK
<1>4. ApprovedRowsStay' /\ ReviewsAreLate'
  BY <1>2 DEF DeletionInvariant, ApprovedRowsStay, ReviewsAreLate
<1> QED
  BY <1>3, <1>4 DEF DeletionInvariant

LEMMA BeginKeeps ==
  ASSUME DeletionInvariant, BeginDelete
  PROVE  DeletionInvariant'
<1>0. NoDeletion.table = "none"
  BY DEF NoDeletion
<1>1. /\ deletion' = [table |-> "join requests", rows |-> {q \in JoinRequests : requests[q] # NoRequest}]
      /\ recent' = recent /\ gone = {} /\ gone' = {}
      /\ UNCHANGED <<membershipVars, blocked, late>>
  BY StatementOrder, RowsOfTables, OpenDeletion DEF BeginDelete, Takes
<1>2. UNCHANGED <<chain, done, stagedP, registered, providers, requests, handler>>
  BY <1>1 DEF membershipVars, vars, network, postgres, tables, process, poll
<1>3. registered
  BY DEF BeginDelete
<1>4. deletion' \in [table : Tables \cup {"none", "council"}, rows : SUBSET Rows]
  BY <1>1 DEF Tables, Rows
<1>5. StatementsInOrder' /\ LockedIsKept' /\ TakenOrLate' /\ StagedForRow' /\ NewRowsExcused'
  BY <1>1, <1>2, <1>3 DEF DeletionInvariant, StatementsInOrder, LockedIsKept, TakenOrLate,
                          StagedForRow, NewRowsExcused
<1> QED
  BY <1>1, <1>4, <1>5, TransactionOnly

\* The next statement begins: its rows are those of its table, which no earlier
\* statement has taken.
LEMMA NextTableKeeps ==
  ASSUME DeletionInvariant, NextTable
  PROVE  DeletionInvariant'
<1>0. /\ NoDeletion.table = "none" /\ DeletionTypeOK /\ StatementsInOrder /\ LockedIsKept
      /\ TakenOrLate /\ StagedForRow /\ NewRowsExcused
  BY DEF NoDeletion, DeletionInvariant
<1>1. /\ deletion.rows = {} /\ Deleting /\ registered
      /\ UNCHANGED <<membershipVars, gone, blocked, late>>
  BY <1>0 DEF NextTable, Tables, Deleting, StatementsInOrder
<1>2. UNCHANGED <<chain, done, stagedP, registered, providers, requests, handler>>
  BY <1>1 DEF membershipVars, vars, network, postgres, tables, process, poll
<1>3. LockedIsKept' /\ StagedForRow'
  BY <1>0, <1>1, <1>2 DEF LockedIsKept, StagedForRow
<1>4. TakenOrLate'
  BY <1>0, <1>1, <1>2 DEF TakenOrLate
<1>5. CASE deletion.table = "join requests"
  <2>1. /\ deletion' = [table |-> "providers", rows |-> {p \in Providers : providers[p] # "none"}]
        /\ recent' = {}
    BY <1>5, StatementOrder, RowsOfTables DEF NextTable, Takes
  <2>2. gone \subseteq JoinRequests
    BY <1>0, <1>5 DEF StatementsInOrder
  <2>3. /\ deletion' \in [table : Tables \cup {"none", "council"}, rows : SUBSET Rows]
        /\ gone' \subseteq Rows /\ gone' \cap deletion'.rows = {}
    BY <1>1, <2>1, <2>2, RowsAssumption DEF Tables, Rows
  <2>4. StatementsInOrder'
    BY <1>1, <1>2, <2>1, <2>2 DEF StatementsInOrder
  <2>5. NewRowsExcused'
    BY <1>2, <2>1 DEF NewRowsExcused
  <2> QED
    BY <1>1, <1>3, <1>4, <2>1, <2>3, <2>4, <2>5, TransactionOnly
<1>6. CASE deletion.table \in {"providers", "channels"}
  <2>1. /\ recent' = recent
        /\ \/ /\ deletion.table = "providers"
              /\ deletion' = [table |-> "channels",
                              rows |-> {c \in Channels : channels[c].status # "none"}]
           \/ /\ deletion.table = "channels"
              /\ deletion' = [table |-> "council", rows |-> {}]
    BY <1>6, StatementOrder, RowsOfTables DEF NextTable, Takes
  <2>2. /\ deletion' \in [table : Tables \cup {"none", "council"}, rows : SUBSET Rows]
        /\ deletion'.table \in {"channels", "council"} /\ deletion'.rows \subseteq Channels
        /\ deletion'.table = "council" => deletion'.rows = {}
    <3>1. PICK table \in {"channels", "council"}, rows \in SUBSET Channels :
             /\ deletion' = [table |-> table, rows |-> rows]
             /\ table = "council" => rows = {}
      <4>1. {c \in Channels : channels[c].status # "none"} \in SUBSET Channels
        OBVIOUS
      <4> QED
        BY <2>1, <4>1, Zenon
    <3> QED
      BY <3>1 DEF Tables, Rows
  <2>3. gone' \subseteq Rows /\ gone' \cap deletion'.rows = {}
    <3>1. gone' \subseteq Rows
      BY <1>0, <1>1 DEF DeletionTypeOK
    <3>2. CASE deletion.table = "providers"
      <4>1. gone \subseteq JoinRequests \cup Providers
        BY <1>0, <3>2 DEF StatementsInOrder
      <4> QED
        BY <1>1, <2>2, <3>1, <4>1, RowsAssumption
    <3>3. CASE deletion.table = "channels"
      BY <2>1, <3>1, <3>3
    <3> QED
      BY <1>6, <3>2, <3>3
  <2>4. StatementsInOrder'
    BY <1>1, <1>2, <2>2 DEF StatementsInOrder
  <2>5. NewRowsExcused'
    BY <1>0, <1>1, <1>2, <1>6, <2>1 DEF NewRowsExcused, Excused
  <2> QED
    BY <1>1, <1>3, <1>4, <2>1, <2>2, <2>3, <2>4, <2>5, TransactionOnly
<1> QED
  BY <1>5, <1>6 DEF NextTable, Tables

\* A row goes that no other transaction has locked.
LEMMA DeleteRowKeeps ==
  ASSUME DeletionInvariant, NEW x \in Rows, DeleteRow(x)
  PROVE  DeletionInvariant'
<1>0. /\ NoDeletion.table = "none" /\ DeletionTypeOK /\ StatementsInOrder /\ LockedIsKept
      /\ TakenOrLate /\ StagedForRow /\ NewRowsExcused
      /\ deletion \in [table : Tables \cup {"none", "council"}, rows : SUBSET Rows]
  BY DEF NoDeletion, DeletionInvariant, DeletionTypeOK
<1>1. /\ deletion'.table = deletion.table /\ deletion'.rows = deletion.rows \ {x}
      /\ deletion' \in [table : Tables \cup {"none", "council"}, rows : SUBSET Rows]
      /\ x \in deletion.rows /\ gone' = gone \cup {x} /\ RowUnlocked(x)
      /\ UNCHANGED <<membershipVars, blocked, recent, late>>
  BY <1>0 DEF DeleteRow
<1>2. UNCHANGED <<chain, done, stagedP, registered, providers, requests, handler>>
  BY <1>1 DEF membershipVars, vars, network, postgres, tables, process, poll
<1>3. deletion.table \in Tables /\ Deleting /\ registered
  BY <1>0, <1>1 DEF StatementsInOrder, Deleting
<1>4. gone' \subseteq Rows /\ gone' \cap deletion'.rows = {}
  BY <1>0, <1>1 DEF DeletionTypeOK
<1>5. StatementsInOrder'
  BY <1>0, <1>1, <1>2, <1>3 DEF StatementsInOrder, Tables
<1>6. LockedIsKept'
  BY <1>0, <1>1, <1>2 DEF LockedIsKept, RowUnlocked
<1>7. TakenOrLate'
  BY <1>0, <1>1, <1>2, <1>3 DEF TakenOrLate
<1>8. StagedForRow'
  BY <1>0, <1>1, <1>2 DEF StagedForRow, RowUnlocked
<1>9. NewRowsExcused'
  <2>1. ASSUME deletion.table \in {"providers", "channels"}
        PROVE  x \notin JoinRequests
    BY <1>0, <1>1, <2>1, RowsAssumption DEF StatementsInOrder
  <2>2. ASSUME deletion.table \in {"providers", "channels"}, NEW p \in Providers, Excused(p)
        PROVE  Excused(p)'
    BY <1>0, <1>1, <1>2, <2>1, <2>2 DEF Excused, DeletionTypeOK
  <2> QED
    BY <1>0, <1>1, <1>2, <1>3, <2>2 DEF NewRowsExcused, Tables
<1> QED
  BY <1>1, <1>4, <1>5, <1>6, <1>7, <1>8, <1>9, TransactionOnly

\* The commit: what the deletion took is gone, and with it the council; what it
\* missed is late, or an event's.
LEMMA CommitKeeps ==
  ASSUME DeletionInvariant, CommitDelete
  PROVE  DeletionInvariant'
<1>0. /\ NoDeletion.table = "none" /\ NoDeletion.rows = {}
      /\ NoDeletion \in [table : Tables \cup {"none", "council"}, rows : SUBSET Rows]
      /\ DeletionTypeOK /\ TypeOK /\ LockedIsKept /\ TakenOrLate /\ StagedForRow
      /\ NewRowsExcused
      /\ requests \in [JoinRequests -> RequestRecord \cup {NoRequest}]
  BY DEF NoDeletion, DeletionInvariant, DeletionTypeOK, RequestRecord
<1>1. /\ Deleting /\ deletion.table = "council" /\ deletion.rows = {}
  BY <1>0 DEF CommitDelete, Deleting, DeletionInvariant, StatementsInOrder
<1>2. /\ deletion' = NoDeletion /\ gone' = {} /\ blocked' = {} /\ recent' = recent
      /\ late' = late \ gone /\ registered' = FALSE
      /\ UNCHANGED <<chain, latest, oldest, cursor, serving, active, phase, pos, next, stagedP,
                     stagedC, applied, crashes, failures, handler>>
  BY DEF CommitDelete, network, counters
<1>3. \A q \in JoinRequests : requests'[q] = IF q \in gone THEN NoRequest ELSE requests[q]
  BY DEF CommitDelete
<1>4. \A p \in Providers : providers'[p] = IF p \in gone THEN "none" ELSE providers[p]
  BY DEF CommitDelete
<1>5. \A w \in Watchers : done[w] \subseteq done'[w]
  BY DEF CommitDelete
<1>6. \A q \in JoinRequests : requests[q] # NoRequest => q \in late \cup gone
  BY <1>0, <1>1 DEF TakenOrLate
<1>7. TypeOK'
  <2>1. providers' \in [Providers -> ProviderRow] /\ channels' \in [Channels -> ChannelRow]
    BY <1>0, RowTypes DEF CommitDelete, TypeOK, ProviderRow
  <2>2. \A w \in Watchers : Lost(w) \subseteq todo[w]
    BY DEF Lost
  <2>3. /\ todo' \in [Watchers -> SUBSET DOMAIN chain]
        /\ done' \in [Watchers -> SUBSET DOMAIN chain]
    BY <1>0, <2>2 DEF CommitDelete, TypeOK
  <2> QED
    BY <1>0, <1>2, <2>1, <2>3 DEF TypeOK
<1>8. DeletionTypeOK'
  <2>1. /\ requests' \in [JoinRequests -> RequestRecord \cup {NoRequest}]
        /\ rowSince' \in [Providers -> Nat]
    BY <1>0 DEF CommitDelete, DeletionTypeOK
  <2>2. \A h \in Handlers : handler[h].at = "locked" => requests'[handler[h].id] # NoRequest
    <3> SUFFICES ASSUME NEW h \in Handlers, handler[h].at = "locked"
                 PROVE  requests'[handler[h].id] # NoRequest
      OBVIOUS
    <3>1. handler[h].id \in JoinRequests
      BY <1>0, HandlersByPhase DEF DeletionTypeOK
    <3> QED
      BY <1>0, <1>3, <3>1 DEF LockedIsKept, DeletionTypeOK
  <2> QED
    BY <1>0, <1>2, <1>7, <2>1, <2>2 DEF DeletionTypeOK, RequestRecord
<1>9. StatementsInOrder' /\ LockedIsKept' /\ TakenOrLate'
  BY <1>0, <1>2 DEF StatementsInOrder, LockedIsKept, TakenOrLate, Deleting
<1>10. ApprovedRowsStay'
  BY <1>2, <1>3, <1>6, NothingDecided DEF ApprovedRowsStay
<1>11. StagedForRow'
  <2> SUFFICES ASSUME NEW w \in Watchers, NEW p \in Providers, stagedP[w][p] # NoWrite
               PROVE  Adds(chain, done'[w], p) # {} \/ providers'[p] # "none"
    BY <1>2 DEF StagedForRow
  <2>1. CASE Adds(chain, done[w], p) # {}
    BY <1>5, <2>1 DEF Adds
  <2>2. CASE providers[p] # "none" /\ p \notin gone
    BY <1>4, <2>2
  <2> QED
    BY <1>0, <2>1, <2>2 DEF StagedForRow
<1>12. NewRowsExcused'
  <2> SUFFICES ASSUME NEW p \in Providers, providers'[p] # "none"
               PROVE  Excused(p)'
    BY DEF NewRowsExcused
  <2>1. p \notin gone /\ providers[p] # "none"
    BY <1>4
  <2>2. Excused(p)
    BY <1>0, <1>1, <2>1 DEF NewRowsExcused
  <2>3. ASSUME NEW q \in late \ gone, requests[q] # NoRequest, requests[q].key = p
        PROVE  q \in (late \ gone) \ {} /\ requests'[q] # NoRequest /\ requests'[q].key = p
    BY <1>0, <1>3, <2>3 DEF DeletionTypeOK
  <2> QED
    BY <1>2, <2>2, <2>3 DEF Excused
<1>13. ReviewsAreLate'
  <2> SUFFICES ASSUME NEW h \in Handlers, handler[h].at \in {"reviewing", "locked"},
                      requests'[handler[h].id] # NoRequest
               PROVE  handler[h].id \in late \ gone
    BY <1>2 DEF ReviewsAreLate
  <2>1. handler[h].id \in JoinRequests
    BY <1>0, HandlersByPhase DEF DeletionTypeOK
  <2> QED
    BY <1>3, <1>6, <2>1
<1> QED
  BY <1>8, <1>9, <1>10, <1>11, <1>12, <1>13 DEF DeletionInvariant

\* A statement fails, or the process dies.
LEMMA FailureKeeps ==
  ASSUME DeletionInvariant, AbortDelete \/ CrashBeside
  PROVE  DeletionInvariant'
<1>0. TypeOK /\ StagedForRow
  BY DEF DeletionInvariant, DeletionTypeOK
<1>1. RollsBack /\ gone' = {}
  BY DEF AbortDelete, CrashBeside, RollsBack
<1>2. CASE AbortDelete
  <2>1. UNCHANGED <<chain, registered, providers, stagedP, done, requests, handler, rowSince, late>>
    BY <1>2 DEF AbortDelete, membershipVars, vars, network, postgres, tables, process, poll
  <2>2. TypeOK'
    BY <1>0, <1>2, TypeNext DEF AbortDelete, membershipVars
  <2>3. StagedForRow'
    BY <1>0, <1>1, <2>1 DEF StagedForRow
  <2> QED
    BY <1>1, <2>1, <2>2, <2>3, RollsBackKeeps
<1>3. CASE CrashBeside
  <2>1. /\ UNCHANGED <<chain, registered, providers, requests, rowSince, late>>
        /\ handler' = [h \in Handlers |-> Resting]
    BY <1>3 DEF CrashBeside, Crash, network, postgres, tables
  <2>2. TypeOK'
    BY <1>0, <1>3, TypeNext DEF CrashBeside, Next, Environment
  <2>3. StagedForRow'
    BY <1>3 DEF CrashBeside, Crash, StagedForRow, NoProviderWrites
  <2> QED
    BY <1>1, <2>1, <2>2, <2>3, RollsBackKeeps
<1> QED
  BY <1>2, <1>3

\* The council is created again: what its tables still hold is not asked after.
LEMMA RegisterKeeps ==
  ASSUME DeletionInvariant, RegisterCouncil, recent' = {},
         UNCHANGED <<requests, handler, rowSince, deletion, gone, blocked, late>>
  PROVE  DeletionInvariant'
<1>1. /\ ~Deleting /\ deletion.table = "none" /\ registered'
      /\ UNCHANGED <<chain, providers, stagedP, done, phase, todo>>
  BY OpenDeletion DEF RegisterCouncil, network, tables, process, poll
<1>2. TypeOK'
  BY TypeNext DEF DeletionInvariant, DeletionTypeOK, Next, Environment
<1>3. DeletionTypeOK'
  BY <1>1, <1>2 DEF DeletionInvariant, DeletionTypeOK
<1>4. /\ StatementsInOrder' /\ LockedIsKept' /\ TakenOrLate' /\ ApprovedRowsStay'
      /\ StagedForRow' /\ NewRowsExcused' /\ ReviewsAreLate'
  BY <1>1 DEF DeletionInvariant, StatementsInOrder, LockedIsKept, TakenOrLate, ApprovedRowsStay,
              StagedForRow, NewRowsExcused, ReviewsAreLate, Deleting
<1> QED
  BY <1>3, <1>4 DEF DeletionInvariant

LEMMA BlockKeeps ==
  ASSUME DeletionInvariant, NEW w \in Watchers, BlockOnDeleted(w)
  PROVE  DeletionInvariant'
<1>1. UNCHANGED <<chain, registered, providers, stagedP, done, phase, todo, requests, handler,
                  rowSince, deletion, gone, recent, late>>
  BY DEF BlockOnDeleted, membershipVars, vars, network, postgres, tables, process, poll
<1>2. TypeOK'
  BY TypeNext DEF DeletionInvariant, DeletionTypeOK, BlockOnDeleted, membershipVars
<1>3. phase[w] = "committing" /\ todo[w] # {} /\ blocked' = blocked \cup {w}
  BY DEF BlockOnDeleted, MeetsDeleted
<1>4. /\ blocked' \subseteq Watchers
      /\ \A v \in blocked' : phase'[v] = "committing" /\ todo'[v] # {}
  BY <1>1, <1>3 DEF DeletionInvariant, DeletionTypeOK
<1> QED
  BY <1>1, <1>2, <1>4, QuietKeeps

LEMMA NetworkKeeps ==
  ASSUME DeletionInvariant, CloseLedger \/ AdvanceRetention \/ StartupSyncEnds,
         UNCHANGED <<requests, handler, rowSince, deletion, gone, blocked, recent, late>>
  PROVE  DeletionInvariant'
<1>1. UNCHANGED <<registered, providers, stagedP, done, phase, todo>>
  BY DEF CloseLedger, AdvanceRetention, StartupSyncEnds, postgres, tables, process, poll
<1>2. TypeOK /\ TypeOK'
  BY TypeNext DEF DeletionInvariant, DeletionTypeOK, Next, Environment
<1>3. \A i \in DOMAIN chain : i \in DOMAIN chain' /\ chain'[i] = chain[i]
  BY <1>2, CloseLedgerExtends DEF AdvanceRetention, StartupSyncEnds, network
<1>4. /\ blocked' \subseteq Watchers
      /\ \A v \in blocked' : phase'[v] = "committing" /\ todo'[v] # {}
  BY <1>1 DEF DeletionInvariant, DeletionTypeOK
<1> QED
  BY <1>1, <1>2, <1>3, <1>4, QuietKeeps

-----------------------------------------------------------------------------
(* The invariant and what follows.                                         *)

LEMMA DeletionStarts == DeletionInit => DeletionInvariant
<1> SUFFICES ASSUME DeletionInit PROVE DeletionInvariant
  OBVIOUS
<1>0. NoDeletion.table = "none" /\ NoDeletion.rows = {} /\ Resting.at = "resting"
      /\ NoDeletion \in [table : Tables \cup {"none", "council"}, rows : SUBSET Rows]
  BY DEF NoDeletion, Resting
<1>1. ReviewInvariant
  BY ReviewInit DEF DeletionInit
<1>2. DeletionTypeOK
  BY <1>0, <1>1 DEF DeletionInit, MembershipInit, DeletionTypeOK, ReviewInvariant, MembershipTypeOK
<1>3. /\ deletion = NoDeletion /\ gone = {} /\ ~Deleting
      /\ \A p \in Providers : providers[p] = "none"
      /\ \A q \in JoinRequests : requests[q] = NoRequest
      /\ \A h \in Handlers : handler[h].at = "resting"
      /\ \A w \in Watchers, p \in Providers : stagedP[w][p] = NoWrite
  BY <1>0 DEF DeletionInit, MembershipInit, Init, NoProviderWrites, Deleting
<1>4. /\ StatementsInOrder /\ LockedIsKept /\ TakenOrLate /\ ApprovedRowsStay
      /\ StagedForRow /\ NewRowsExcused /\ ReviewsAreLate
  BY <1>0, <1>3, NothingDecided DEF StatementsInOrder, LockedIsKept, TakenOrLate,
     ApprovedRowsStay, StagedForRow, NewRowsExcused, ReviewsAreLate
<1> QED
  BY <1>2, <1>4 DEF DeletionInvariant

LEMMA DeletionKeeps ==
  DeletionInvariant /\ [DeletionNext]_deletionVars => DeletionInvariant'
<1> SUFFICES ASSUME DeletionInvariant, [DeletionNext]_deletionVars
             PROVE  DeletionInvariant'
  OBVIOUS
<1>1. CASE /\ CloseLedger \/ AdvanceRetention \/ StartupSyncEnds
           /\ UNCHANGED <<requests, handler, rowSince, deletion, gone, blocked, recent, late>>
  BY <1>1, NetworkKeeps
<1>2. CASE /\ RegisterCouncil
           /\ recent' = {}
           /\ UNCHANGED <<requests, handler, rowSince, deletion, gone, blocked, late>>
  BY <1>2, RegisterKeeps
<1>3. CASE \E w \in Watchers : WatcherBeside(w) \/ BlockOnDeleted(w) \/ DeadlockWithWatcher(w)
  BY <1>3, WatcherKeeps, BlockKeeps, DeadlockKeeps
<1>4. CASE \E h \in Handlers : HandlerBeside(h)
  BY <1>4, HandlerKeeps
<1>5. CASE BeginDelete \/ NextTable \/ CommitDelete \/ AbortDelete \/ CrashBeside
  BY <1>5, BeginKeeps, NextTableKeeps, CommitKeeps, FailureKeeps
<1>6. CASE \E x \in Rows : DeleteRow(x)
  BY <1>6, DeleteRowKeeps
<1>7. CASE UNCHANGED deletionVars
  <2>1. UNCHANGED <<chain, registered, providers, stagedP, done, phase, todo, requests, handler,
                    rowSince, deletion, gone, blocked, recent, late>>
    BY <1>7 DEF deletionVars, membershipVars, vars, network, postgres, tables, process, poll
  <2>2. TypeOK'
    BY <1>7, TypeNext DEF DeletionInvariant, DeletionTypeOK, deletionVars, membershipVars
  <2>3. /\ blocked' \subseteq Watchers
        /\ \A v \in blocked' : phase'[v] = "committing" /\ todo'[v] # {}
    BY <2>1 DEF DeletionInvariant, DeletionTypeOK
  <2> QED
    BY <2>1, <2>2, <2>3, QuietKeeps
<1> QED
  BY <1>1, <1>2, <1>3, <1>4, <1>5, <1>6, <1>7 DEF DeletionNext

\* The types hold, and a review's request is not deleted under it: a DELETE
\* waits for the row that SELECT ... FOR UPDATE has locked.
THEOREM DeletionTypes == DeletionSpec => []DeletionTypeOK
<1>1. DeletionInvariant => DeletionTypeOK
  BY DEF DeletionInvariant
<1> QED
  BY <1>1, DeletionStarts, DeletionKeeps, PTL DEF DeletionSpec

\* A deletion never leaves an approved request behind whose provider row it
\* took, whichever reviews, watchers, deadlocks and failures it met
\* (deleteCouncil's order of statements).
THEOREM ApprovedRowsSurvive == DeletionSpec => []ApprovedRowsStay
<1>1. DeletionInvariant => ApprovedRowsStay
  BY DEF DeletionInvariant
<1> QED
  BY <1>1, DeletionStarts, DeletionKeeps, PTL DEF DeletionSpec

\* A deleted council keeps no member but those of its late requests and of the
\* events that its watcher applied after the deletion took the rows.
THEOREM NothingLeftOver == DeletionSpec => []NoLeftovers
<1>1. DeletionInvariant => NoLeftovers
  <2> SUFFICES ASSUME DeletionInvariant, NEW p \in Providers, ~registered,
                      providers[p] # "none", \A q \in late : requests[q].key # p
               PROVE  Adds(chain, recent, p) # {}
    BY DEF NoLeftovers
  <2>1. gone = {} /\ deletion.rows = {}
    BY OpenDeletion
  <2> QED
    BY <2>1 DEF DeletionInvariant, NewRowsExcused, Excused
<1> QED
  BY <1>1, DeletionStarts, DeletionKeeps, PTL DEF DeletionSpec
=============================================================================
