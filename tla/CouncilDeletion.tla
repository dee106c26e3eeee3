-------------------------- MODULE CouncilDeletion --------------------------
(***************************************************************************)
(* The owner deletes the council, and may create it again under the same   *)
(* id, while its join requests are reviewed and its watcher runs.          *)
(*                                                                         *)
(* deleteCouncil is one transaction of one DELETE per table.  A DELETE     *)
(* takes the rows that are committed when it begins, waits for those that  *)
(* another transaction has locked, and misses what is committed later; the *)
(* rows it has deleted are locked, and visible to the others, until it     *)
(* commits.  The tables of this module are the join requests, the          *)
(* providers and the channels, in the code's order; the watcher's cursor   *)
(* is in none of the statements, and nobody tells the watcher.             *)
(***************************************************************************)
EXTENDS Membership

\* A row goes by its key here, so keys of different tables must differ: they
\* are UUIDs, account ids and contract ids.
ASSUME RowsAssumption ==
  /\ JoinRequests \cap Providers = {} /\ JoinRequests \cap Channels = {}
  /\ Providers \cap Channels = {}

VARIABLES
  deletion,       \* where the transaction is: its table, the rows still to go
  gone,           \* the rows it has deleted
  blocked,        \* watchers whose UPDATE waits for a row it has deleted
  \* History.
  recent,         \* events committed since the deletion took the provider rows
  late            \* requests inserted while a deletion was open

deletionVars == <<membershipVars, deletion, gone, blocked, recent, late>>

NoDeletion == [table |-> "none", rows |-> {}]
Tables == {"join requests", "providers", "channels"}
Rows == JoinRequests \cup Providers \cup Channels

DeletionInit ==
  /\ MembershipInit
  /\ deletion = NoDeletion /\ gone = {} /\ blocked = {}
  /\ recent = {} /\ late = {}

Deleting == deletion # NoDeletion

-----------------------------------------------------------------------------
(* The deletion.                                                           *)

\* The committed rows of a table.
RowsOf(table) ==
  CASE table = "join requests" -> {q \in JoinRequests : requests[q] # NoRequest}
    [] table = "providers"     -> {p \in Providers : providers[p] # "none"}
    [] table = "channels"      -> {c \in Channels : channels[c].status # "none"}

\* Mutants: the members go before the join requests; those are forgotten.
MembersFirst == <<"providers", "join requests", "channels">>
RequestsForgotten == <<"providers", "channels">>

\* The order of the statements.
TableOrder == <<"join requests", "providers", "channels">>

FollowingTable(table) ==
  LET i == CHOOSE i \in DOMAIN TableOrder : TableOrder[i] = table IN
  IF i = Len(TableOrder) THEN "council" ELSE TableOrder[i + 1]

\* Mutant: whatever the others have locked.
AnyLock(x) == TRUE

\* No other transaction has the row locked: a review its request, a watcher
\* the rows it has updated.
RowUnlocked(x) ==
  /\ \A h \in Handlers : handler[h].at = "locked" => handler[h].id # x
  /\ x \in Providers => \A w \in Watchers : stagedP[w][x] = NoWrite
  /\ x \in Channels => \A w \in Watchers : stagedC[w][x] = NoWrite

Takes(table) ==
  /\ deletion' = [table |-> table, rows |-> RowsOf(table)]
  /\ recent' = IF table = "providers" THEN {} ELSE recent

\* DELETE council: the caller owns it.  The first statement begins.
BeginDelete ==
  /\ serving /\ registered
  /\ ~Deleting
  /\ Takes(TableOrder[1])
  /\ UNCHANGED <<membershipVars, gone, blocked, late>>

DeleteRow(x) ==
  /\ x \in deletion.rows
  /\ RowUnlocked(x)
  /\ deletion' = [deletion EXCEPT !.rows = @ \ {x}]
  /\ gone' = gone \cup {x}
  /\ UNCHANGED <<membershipVars, blocked, recent, late>>

\* A statement is over and the next one begins.
NextTable ==
  /\ deletion.table \in Tables /\ deletion.rows = {}
  /\ IF FollowingTable(deletion.table) = "council"
     THEN /\ deletion' = [table |-> "council", rows |-> {}]
          /\ UNCHANGED recent
     ELSE Takes(FollowingTable(deletion.table))
  /\ UNCHANGED <<membershipVars, gone, blocked, late>>

\* The event that a waiting watcher is at.  Its UPDATE, let go by the commit,
\* finds no row and changes nothing: applyEvent does not look at that.
Lost(w) == IF w \in blocked THEN {i \in todo[w] : IsNext(w, i)} ELSE {}

\* The council's own row, and the commit.
CommitDelete ==
  /\ deletion.table = "council"
  /\ registered' = FALSE
  /\ requests' = [q \in JoinRequests |-> IF q \in gone THEN NoRequest ELSE requests[q]]
  /\ providers' = [p \in Providers |-> IF p \in gone THEN "none" ELSE providers[p]]
  /\ channels' = [c \in Channels |-> IF c \in gone THEN NoChannelRow ELSE channels[c]]
  /\ todo' = [w \in Watchers |-> todo[w] \ Lost(w)]
  /\ done' = [w \in Watchers |-> done[w] \cup Lost(w)]
  /\ rowSince' = [p \in Providers |-> IF p \in gone THEN 0 ELSE rowSince[p]]
  /\ late' = late \ gone
  /\ deletion' = NoDeletion /\ gone' = {} /\ blocked' = {}
  /\ UNCHANGED <<network, cursor, serving, active, phase, pos, next, stagedP, stagedC,
                 applied, counters, handler, recent>>

\* The deletion rolls back; whoever waited for it goes on as if it had not been.
RollsBack == deletion' = NoDeletion /\ gone' = {} /\ blocked' = {} /\ UNCHANGED recent

\* A statement fails.
AbortDelete ==
  /\ Deleting
  /\ RollsBack
  /\ UNCHANGED <<membershipVars, late>>

\* Mutant: they wait for each other for ever.
NeverBroken(w) == w \in blocked /\ FALSE /\ UNCHANGED deletionVars

\* The deletion waits for a row that w has written and w for one that the
\* deletion has deleted: Postgres aborts one of the two.
DeadlockWithWatcher(w) ==
  /\ w \in blocked
  /\ \/ \E p \in Providers \cap deletion.rows : stagedP[w][p] # NoWrite
     \/ \E c \in Channels \cap deletion.rows : stagedC[w][c] # NoWrite
  /\ \/ /\ RollsBack
        /\ UNCHANGED <<membershipVars, late>>
     \/ /\ PollEnds(w)
        /\ blocked' = blocked \ {w}
        /\ UNCHANGED <<network, postgres, serving, active, pos, applied, counters,
                       requests, handler, rowSince, deletion, gone, recent, late>>

-----------------------------------------------------------------------------
(* The others, beside it.                                                  *)

\* The next event of w writes a row that the deletion has deleted: it waits.
MeetsDeleted(w) ==
  /\ phase[w] = "committing"
  /\ \E i \in todo[w] :
        /\ IsNext(w, i)
        /\ chain[i].subject \in gone
        /\ \/ /\ chain[i].type \in {"provider_added", "provider_removed"}
              /\ ProviderWrite(w, chain[i]) # NoWrite
           \/ /\ chain[i].type = "channel_state_changed"
              /\ ChannelWrite(chain[i]) # NoWrite

BlockOnDeleted(w) ==
  /\ w \notin blocked
  /\ MeetsDeleted(w)
  /\ blocked' = blocked \cup {w}
  /\ UNCHANGED <<membershipVars, deletion, gone, recent, late>>

\* A step of a watcher that is not waiting; one whose connection fails while
\* it waits rolls back.
WatcherBeside(w) ==
  /\ \/ w \notin blocked /\ ~MeetsDeleted(w) /\ WatcherStep(w)
     \/ w \in blocked /\ Rollback(w)
  /\ blocked' = blocked \ {w}
  /\ recent' = IF Commits(w) THEN recent \cup done[w] ELSE recent
  /\ UNCHANGED <<requests, handler, rowSince, deletion, gone, late>>

Inserted == {q \in JoinRequests : requests[q] = NoRequest /\ requests'[q] # NoRequest}

\* A handler's SELECT ... FOR UPDATE waits for a row that the deletion has
\* deleted; what is read without a lock is read as it was.  The id of a new
\* join request is nobody's.
HandlerBeside(h) ==
  /\ HandlerStep(h)
  /\ handler[h].at = "reviewing" => handler[h].id \notin gone
  /\ \A g \in Handlers : handler[g].at = "reviewing" => handler[g].id \notin Inserted
  /\ late' = IF Deleting THEN late \cup Inserted ELSE late
  /\ UNCHANGED <<deletion, gone, blocked, recent>>

CrashBeside ==
  /\ Crash
  /\ handler' = [h \in Handlers |-> Resting]
  /\ RollsBack
  /\ UNCHANGED <<requests, rowSince, late>>

DeletionNext ==
  \/ /\ CloseLedger \/ AdvanceRetention \/ StartupSyncEnds
     /\ UNCHANGED <<requests, handler, rowSince, deletion, gone, blocked, recent, late>>
  \/ /\ RegisterCouncil
     /\ recent' = {}
     /\ UNCHANGED <<requests, handler, rowSince, deletion, gone, blocked, late>>
  \/ \E w \in Watchers : WatcherBeside(w) \/ BlockOnDeleted(w)
                           \/ DeadlockWithWatcher(w)
  \/ \E h \in Handlers : HandlerBeside(h)
  \/ BeginDelete \/ NextTable \/ CommitDelete \/ AbortDelete
  \/ \E x \in Rows : DeleteRow(x)
  \/ CrashBeside

DeletionSpec == DeletionInit /\ [][DeletionNext]_deletionVars

\* Statements are answered, open transactions end, waiters are queued, and
\* Postgres finds its deadlocks.
DeletionFairSpec ==
  /\ DeletionSpec
  /\ WF_deletionVars(NextTable \/ CommitDelete)
  /\ SF_deletionVars(\E x \in Rows : DeleteRow(x))
  /\ \A w \in Watchers :
       WF_deletionVars(\/ WatcherBeside(w) /\ (ApplyEvent(w) \/ CommitPoll(w))
                       \/ BlockOnDeleted(w) \/ DeadlockWithWatcher(w))
  /\ \A h \in Handlers : SF_deletionVars(HandlerBeside(h) /\ (Approve(h) \/ Reject(h)))

-----------------------------------------------------------------------------
(* Properties.                                                             *)

\* Every variable has its type; only a watcher with an event in hand waits, and
\* a review's request is not deleted under it.
DeletionTypeOK ==
  /\ TypeOK
  /\ requests \in [JoinRequests ->
       [status : {"PENDING"} \cup Reviewed, key : Providers] \cup {NoRequest}]
  /\ handler \in [Handlers -> HandlerState]
  /\ rowSince \in [Providers -> Nat]
  /\ deletion \in [table : Tables \cup {"none", "council"}, rows : SUBSET Rows]
  /\ gone \subseteq Rows /\ gone \cap deletion.rows = {}
  /\ blocked \subseteq Watchers
  /\ \A w \in blocked : phase[w] = "committing" /\ todo[w] # {}
  /\ \A h \in Handlers : handler[h].at = "locked" => requests[handler[h].id] # NoRequest
  /\ recent \subseteq DOMAIN chain /\ late \subseteq JoinRequests

\* Whoever was approved has a provider row or was deleted with the council:
\* a deletion never leaves an approved request behind whose row it took,
\* whichever review it met (deleteCouncil's order of statements; FOR UPDATE).
\* Requests inserted while a deletion is open escape it and are excepted.
ApprovedRowsStay ==
  \A q \in JoinRequests \ late :
     requests[q].status = "APPROVED" => providers[requests[q].key] # "none"

\* A deleted council keeps no member, except one that its watcher, which runs
\* on, added from an event it applied, or applied again, after the deletion
\* took the rows.
NoLeftovers ==
  \A p \in Providers :
     /\ ~registered /\ providers[p] # "none"
     /\ \A q \in late : requests[q].key # p
     => Adds(chain, recent, p) # {}

\* Why these hold.  A statement only has rows of its table in hand, and a
\* deletion is of a council that exists.
StatementsInOrder ==
  /\ deletion.table = "none" => deletion.rows = {} /\ gone = {}
  /\ deletion.table = "join requests" => deletion.rows \cup gone \subseteq JoinRequests
  /\ deletion.table = "providers" =>
       deletion.rows \subseteq Providers /\ gone \subseteq JoinRequests \cup Providers
  /\ deletion.table = "channels" => deletion.rows \subseteq Channels
  /\ deletion.table = "council" => deletion.rows = {}
  /\ Deleting => registered

\* What a review has locked is not deleted; a request that escapes an open
\* deletion was inserted after it began.
LockedIsKept == \A h \in Handlers : handler[h].at = "locked" => handler[h].id \notin gone

TakenOrLate ==
  Deleting => \A q \in JoinRequests :
                 requests[q] # NoRequest => q \in late \cup gone \cup deletion.rows

\* What a watcher has written is an addition that it has read, or the update of
\* a row, which is then not deleted.
StagedForRow ==
  \A w \in Watchers, p \in Providers :
     stagedP[w][p] # NoWrite =>
       Adds(chain, done[w], p) # {} \/ (providers[p] # "none" /\ p \notin gone)

\* A provider's row that an open deletion does not take, or that a deleted
\* council has, is owed to a late request or to an event committed since.
Excused(p) ==
  \/ \E q \in late \ gone : requests[q] # NoRequest /\ requests[q].key = p
  \/ Adds(chain, recent, p) # {}

NewRowsExcused ==
  deletion.table \in {"providers", "channels", "council"} \/ ~registered =>
    \A p \in Providers :
       providers[p] # "none" => p \in gone \cup deletion.rows \/ Excused(p)

\* Of a deleted council, the reviews still at work are of late requests.
ReviewsAreLate ==
  ~registered => \A h \in Handlers :
     handler[h].at \in {"reviewing", "locked"} /\ requests[handler[h].id] # NoRequest
       => handler[h].id \in late

DeletionInvariant ==
  /\ DeletionTypeOK /\ StatementsInOrder /\ LockedIsKept /\ TakenOrLate /\ ApprovedRowsStay
  /\ StagedForRow /\ NewRowsExcused /\ ReviewsAreLate

\* A deletion that has begun comes to its end, although it waits for reviews
\* and for the watcher's transaction, which may wait for it.
DeletionEnds == Deleting ~> ~Deleting

\* "The Postgres state and the cursor can never diverge" (CommitPoll's comment):
\* a council that exists has a row of every provider that an event below its
\* cursor added.
CursorHasMembers ==
  registered =>
    \A i \in DOMAIN chain :
       chain[i].type = "provider_added" /\ chain[i].ledger < cursor
         => providers[chain[i].subject] # "none"
=============================================================================
