------------------------- MODULE Membership_proofs -------------------------
(***************************************************************************)
(* Theorems about join requests and their reviews, for any constants.      *)
(***************************************************************************)
EXTENDS Membership, EventWatcher_proofs

\* A provider's row, once there, never goes; and when it turns active, a
\* transaction of a watcher committed that has applied an addition.
LEMMA WatcherOnRows ==
  ASSUME TypeOK, ActivatedByEvent, Next, NEW p \in Providers
  PROVE  /\ providers[p] # "none" => providers'[p] # "none"
         /\ providers[p] # "ACTIVE" /\ providers'[p] = "ACTIVE"
              => \E w \in Watchers : /\ Adds(chain, done[w], p) # {}
                                     /\ done[w] \subseteq applied'
<1>1. CASE providers' = providers
  BY <1>1
<1>2. ASSUME NEW w \in Watchers, Commits(w)
      PROVE  /\ providers[p] # "none" => providers'[p] # "none"
             /\ providers[p] # "ACTIVE" /\ providers'[p] = "ACTIVE"
                  => /\ Adds(chain, done[w], p) # {}
                     /\ done[w] \subseteq applied'
  <2>1. providers'[p] = ProviderSeen(w, p)
    BY <1>2 DEF Commits
  <2>2. stagedP[w][p] \in {"ACTIVE", "REMOVED", "unwritten"}
    BY DEF TypeOK, Staged, ProviderStatus, NoWrite
  <2>3. applied' = applied \cup done[w]
    BY <1>2 DEF Commits
  <2>4. stagedP[w][p] = "ACTIVE" => Adds(chain, done[w], p) # {}
    BY DEF ActivatedByEvent
  <2> QED
    BY <2>1, <2>2, <2>3, <2>4 DEF ProviderSeen, NoWrite
<1>3. providers' = providers \/ \E w \in Watchers : Commits(w)
  BY DEF Next, Environment, CloseLedger, AdvanceRetention, RegisterCouncil, Crash,
         StartupSyncEnds, WatcherStep, EnsureWatcher, RestoreCursor, ResolveBootStartLedger,
         Started, StartFails, Fetch, ApplyEvent, CommitPoll, CommitUnacknowledged, Rollback,
         DeadlockAbort, postgres, tables
<1> QED
  BY <1>1, <1>2, <1>3

\* No step of the watcher or the network stages an addition without its event.
LEMMA WatcherActivates == TypeOK /\ ActivatedByEvent /\ Next => ActivatedByEvent'
<1> SUFFICES ASSUME TypeOK, ActivatedByEvent, Next,
                    NEW w \in Watchers, NEW p \in Providers, stagedP'[w][p] = "ACTIVE"
             PROVE  Adds(chain, done[w], p)' # {}
  BY DEF ActivatedByEvent
<1>1. CASE CloseLedger
  <2>1. UNCHANGED <<stagedP, done>>
    BY <1>1 DEF CloseLedger, process, poll
  <2>2. PICK i \in done[w] : chain[i].type = "provider_added" /\ chain[i].subject = p
    BY <2>1 DEF ActivatedByEvent, Adds
  <2>3. i \in DOMAIN chain
    BY DEF TypeOK
  <2> QED
    BY <1>1, <2>1, <2>2, <2>3, CloseLedgerExtends DEF Adds
<1>2. CASE Crash
  BY <1>2 DEF Crash, NoProviderWrites, NoWrite
<1>3. ASSUME NEW v \in Watchers, PollEnds(v), UNCHANGED chain
      PROVE  Adds(chain, done[w], p)' # {}
  <2>1. CASE w = v
    BY <1>3, <2>1 DEF PollEnds, NoProviderWrites, NoWrite, TypeOK
  <2>2. CASE w # v
    BY <1>3, <2>2 DEF PollEnds, ActivatedByEvent, TypeOK, Adds
  <2> QED
    BY <2>1, <2>2
<1>4. ASSUME NEW v \in Watchers, ApplyEvent(v)
      PROVE  Adds(chain, done[w], p)' # {}
  <2>1. PICK i \in todo[v] :
           /\ \/ ApplyProviderEvent(v, chain[i])
              \/ ApplyChannelEvent(v, chain[i])
              \/ ApplyOtherEvent(chain[i])
           /\ done' = [done EXCEPT ![v] = @ \cup {i}]
    BY <1>4 DEF ApplyEvent
  <2>2. chain' = chain
    BY <1>4 DEF ApplyEvent, network
  <2>3. done[w] \subseteq done'[w]
    BY <2>1 DEF TypeOK
  <2>4. CASE stagedP'[w][p] = stagedP[w][p]
    BY <2>2, <2>3, <2>4 DEF ActivatedByEvent, Adds
  <2>5. CASE stagedP'[w][p] # stagedP[w][p]
    <3>1. /\ ApplyProviderEvent(v, chain[i])
          /\ stagedP' = [stagedP EXCEPT ![v][chain[i].subject] = ProviderWrite(v, chain[i])]
      BY <2>1, <2>5 DEF ApplyProviderEvent, ApplyChannelEvent, ApplyOtherEvent
    <3>2. w = v /\ p = chain[i].subject /\ ProviderWrite(v, chain[i]) = "ACTIVE"
      BY <2>5, <3>1 DEF TypeOK
    <3>3. chain[i].type = "provider_added"
      BY <3>1, <3>2 DEF ProviderWrite, NoWrite, ApplyProviderEvent
    <3>4. i \in done'[w]
      BY <2>1, <3>2 DEF TypeOK
    <3> QED
      BY <2>2, <3>2, <3>3, <3>4 DEF Adds
  <2> QED
    BY <2>4, <2>5
<1>5. CASE UNCHANGED <<chain, stagedP, done>>
  BY <1>5 DEF ActivatedByEvent, Adds
<1>6. \/ CloseLedger \/ Crash \/ UNCHANGED <<chain, stagedP, done>>
      \/ \E v \in Watchers : ApplyEvent(v) \/ (PollEnds(v) /\ UNCHANGED chain)
  BY DEF Next, Environment, AdvanceRetention, RegisterCouncil, StartupSyncEnds, WatcherStep,
         EnsureWatcher, RestoreCursor, ResolveBootStartLedger, Started, StartFails, Fetch,
         CommitPoll, CommitUnacknowledged, Commits, Rollback, DeadlockAbort, network, process,
         poll
<1> QED
  BY <1>1, <1>2, <1>3, <1>4, <1>5, <1>6

-----------------------------------------------------------------------------
(* The handlers.                                                           *)

\* The phase of a request says what it carries.
LEMMA HandlersByPhase ==
  ASSUME NEW s \in HandlerState
  PROVE  /\ s.at = "posting" => s.key \in Providers
         /\ s.at \in {"reviewing", "locked"} =>
              /\ s.id \in JoinRequests /\ s.verdict \in Reviewed
              /\ s \in [at : {"reviewing", "locked"}, id : JoinRequests, verdict : Reviewed]
         /\ s.at = "resting" <=> s = Resting
  BY DEF HandlerState, Resting

\* A stored request is never the absence of one.
LEMMA RequestsExist ==
  ASSUME NEW p, NEW status \in {"PENDING"} \cup Reviewed
  PROVE  Row(p, status) # NoRequest /\ Row(p, status).status = status
  BY DEF Row, NoRequest, Reviewed

LEMMA NothingDecided == NoRequest.status = "none"
  BY DEF NoRequest

\* An insert takes an unused id, a review only touches the pending request it
\* holds; a decided request is what it was.
LEMMA DecidedStays ==
  ASSUME ReviewInvariant, NEW h \in Handlers, HandlerStep(h), NEW q \in JoinRequests
  PROVE  /\ requests[q].status \in Reviewed => requests'[q] = requests[q]
         /\ requests[q] # NoRequest => requests'[q] # NoRequest
         /\ requests[q] # NoRequest => requests'[q].key = requests[q].key
         /\ requests'[q] # requests[q] =>
              \/ requests[q] = NoRequest
              \/ handler[h].at = "locked" /\ handler[h].id = q
<1> USE DEF ReviewInvariant, MembershipTypeOK
<1>1. CASE CreateJoinRequest(h)
  BY <1>1, NothingDecided DEF CreateJoinRequest, Reviewed
<1>2. CASE Approve(h)
  <2>1. handler[h].id \in JoinRequests /\ requests[handler[h].id].status = "PENDING"
    BY <1>2, HandlersByPhase DEF Approve, LockedIsPending
  <2>2. requests[handler[h].id] # NoRequest
    BY <2>1, NothingDecided
  <2>3. requests' = [requests EXCEPT ![handler[h].id] = Row(requests[handler[h].id].key, "APPROVED")]
    BY <1>2 DEF Approve
  <2>4. /\ Row(requests[handler[h].id].key, "APPROVED") # NoRequest
        /\ Row(requests[handler[h].id].key, "APPROVED").key = requests[handler[h].id].key
    BY RequestsExist DEF Row, Reviewed
  <2> QED
    BY <1>2, <2>1, <2>2, <2>3, <2>4 DEF Approve, Reviewed
<1>3. CASE Reject(h)
  <2>1. handler[h].id \in JoinRequests /\ requests[handler[h].id].status = "PENDING"
    BY <1>3, HandlersByPhase DEF Reject, LockedIsPending
  <2>2. requests[handler[h].id] \in [status : {"PENDING"} \cup Reviewed, key : Providers]
    BY <2>1, NothingDecided
  <2>3. requests' = [requests EXCEPT ![handler[h].id].status = "REJECTED"]
    BY <1>3 DEF Reject
  <2>4. /\ requests'[handler[h].id].status = "REJECTED"
        /\ requests'[handler[h].id].key = requests[handler[h].id].key
        /\ \A r \in JoinRequests : r # handler[h].id => requests'[r] = requests[r]
    BY <2>1, <2>2, <2>3
  <2> QED
    BY <1>3, <2>1, <2>4, NothingDecided DEF Reject, Reviewed
<1>4. CASE ~CreateJoinRequest(h) /\ ~Approve(h) /\ ~Reject(h)
  BY <1>4 DEF HandlerStep, PostJoinRequest, BeginReview, LockRequest, RequestFails
<1> QED
  BY <1>1, <1>2, <1>3, <1>4

\* An approval creates a missing row as ACTIVE and leaves any other alone;
\* no other handler touches one.
LEMMA HandlersOnRows ==
  ASSUME ReviewInvariant, NEW h \in Handlers, HandlerStep(h), NEW p \in Providers
  PROVE  \/ providers'[p] = providers[p]
         \/ providers[p] = "none" /\ providers'[p] = "ACTIVE"
<1>1. CASE Approve(h)
  BY <1>1 DEF Approve, ProviderApproved, ReviewInvariant, MembershipTypeOK, TypeOK
<1>2. CASE ~Approve(h)
  BY <1>2 DEF HandlerStep, PostJoinRequest, CreateJoinRequest, BeginReview, LockRequest,
              Reject, RequestFails
<1> QED
  BY <1>1, <1>2

\* The types survive a step of a handler.
LEMMA HandlersType ==
  ASSUME ReviewInvariant, NEW h \in Handlers, HandlerStep(h)
  PROVE  MembershipTypeOK'
<1> USE DEF ReviewInvariant, MembershipTypeOK
<1>1. TypeOK'
  <2>1. UNCHANGED <<chain, latest, oldest, registered, cursor, channels, serving, active, phase,
                    pos, next, todo, done, stagedP, stagedC, applied, crashes, failures>>
    BY DEF HandlerStep, PostJoinRequest, CreateJoinRequest, BeginReview, LockRequest, Approve,
           Reject, RequestFails, WatcherUntouched, network, process, poll, counters
  <2>2. providers' \in [Providers -> ProviderRow]
    <3>1. CASE Approve(h)
      BY <3>1, HandlersOnRows DEF Approve, TypeOK, ProviderRow, ProviderStatus
    <3>2. CASE ~Approve(h)
      BY <3>2 DEF HandlerStep, PostJoinRequest, CreateJoinRequest, BeginReview, LockRequest,
                  Reject, RequestFails, TypeOK
    <3> QED
      BY <3>1, <3>2
  <2> QED
    BY <2>1, <2>2 DEF TypeOK
<1>2. handler' \in [Handlers -> HandlerState]
  <2>1. \A s \in HandlerState : [handler EXCEPT ![h] = s] \in [Handlers -> HandlerState]
    OBVIOUS
  <2>2. PICK s : handler' = [handler EXCEPT ![h] = s] /\ s \in HandlerState
    <3>1. CASE LockRequest(h)
      <4>1. [handler[h] EXCEPT !.at = "locked"] \in HandlerState
        BY <3>1, HandlersByPhase DEF LockRequest, HandlerState
      <4> QED
        BY <3>1, <4>1 DEF LockRequest, Moves, Ends, HandlerState
    <3>2. CASE ~LockRequest(h)
      BY <3>2 DEF HandlerStep, PostJoinRequest, CreateJoinRequest, BeginReview, Approve, Reject,
                  RequestFails, Moves, Ends, HandlerState
    <3> QED
      BY <3>1, <3>2
  <2> QED
    BY <2>1, <2>2
<1>3. requests' \in [JoinRequests ->
        [status : {"PENDING"} \cup Reviewed, key : Providers] \cup {NoRequest}]
  <2>1. CASE CreateJoinRequest(h)
    <3>1. Row(handler[h].key, "PENDING") \in [status : {"PENDING"} \cup Reviewed, key : Providers]
      BY <2>1, HandlersByPhase DEF CreateJoinRequest, Row
    <3> QED
      BY <2>1, <3>1 DEF CreateJoinRequest
  <2>2. CASE Approve(h) \/ Reject(h)
    <3>1. handler[h].id \in JoinRequests /\ requests[handler[h].id].status = "PENDING"
      BY <2>2, HandlersByPhase DEF Approve, Reject, LockedIsPending
    <3>2. requests[handler[h].id] \in [status : {"PENDING"} \cup Reviewed, key : Providers]
      BY <3>1, NothingDecided
    <3>3. Row(requests[handler[h].id].key, "APPROVED")
            \in [status : {"PENDING"} \cup Reviewed, key : Providers]
      BY <3>2 DEF Row, Reviewed
    <3> QED
      BY <2>2, <3>1, <3>2, <3>3 DEF Approve, Reject, Reviewed
  <2>3. CASE ~CreateJoinRequest(h) /\ ~Approve(h) /\ ~Reject(h)
    BY <2>3 DEF HandlerStep, PostJoinRequest, BeginReview, LockRequest, RequestFails
  <2> QED
    BY <2>1, <2>2, <2>3
<1>4. rowSince' \in [Providers -> Nat]
  <2>1. Len(chain) \in Nat
    BY DEF TypeOK
  <2>2. rowSince' = rowSince \/ \E p : rowSince' = [rowSince EXCEPT ![p] = Len(chain)]
    BY DEF HandlerStep, PostJoinRequest, CreateJoinRequest, BeginReview, LockRequest, Approve,
           Reject, RequestFails
  <2> QED
    BY <2>1, <2>2
<1>5. ASSUME NEW g \in Handlers, handler'[g].at \in {"reviewing", "locked"}
      PROVE  requests'[handler'[g].id] # NoRequest
  <2>1. handler'[g].id \in JoinRequests
    BY <1>2, <1>5, HandlersByPhase
  <2>2. requests[handler'[g].id] # NoRequest
    <3>1. CASE handler'[g] = handler[g]
      BY <1>5, <3>1
    <3>2. CASE handler'[g] # handler[g]
      <4>1. g = h
        BY <3>2 DEF HandlerStep, PostJoinRequest, CreateJoinRequest, BeginReview, LockRequest,
                    Approve, Reject, RequestFails, Moves, Ends
      <4>2. CASE LockRequest(h)
        <5>1. /\ handler[h].at = "reviewing"
              /\ handler' = [handler EXCEPT ![h] = [handler[h] EXCEPT !.at = "locked"]]
          BY <1>5, <4>1, <4>2 DEF LockRequest, Moves, Ends, Resting
        <5>2. handler'[h].id = handler[h].id
          BY <5>1, HandlersByPhase
        <5> QED
          BY <4>1, <5>1, <5>2
      <4>3. CASE ~LockRequest(h)
        BY <1>5, <4>1, <4>3 DEF HandlerStep, PostJoinRequest, CreateJoinRequest, BeginReview,
                    Approve, Reject, RequestFails, Moves, Ends, Resting
      <4> QED
        BY <4>2, <4>3
    <3> QED
      BY <3>1, <3>2
  <2> QED
    BY <2>1, <2>2, DecidedStays
<1> QED
  BY <1>1, <1>2, <1>3, <1>4, <1>5

\* A handler that holds a request after a step of h held it before, or is h
\* and has just found it pending and free.
LEMMA HoldersAfter ==
  ASSUME ReviewInvariant, NEW h \in Handlers, HandlerStep(h),
         NEW g \in Handlers, handler'[g].at = "locked"
  PROVE  \/ /\ g # h /\ handler'[g] = handler[g]
         \/ /\ g = h /\ requests' = requests
            /\ handler'[g].id = handler[g].id
            /\ requests[handler[g].id].status = "PENDING"
            /\ RequestUnlocked(g)
<1> USE DEF ReviewInvariant, MembershipTypeOK
<1>1. CASE LockRequest(h)
  <2>1. CASE g = h
    <3>1. handler' = [handler EXCEPT ![h] = [handler[h] EXCEPT !.at = "locked"]]
      BY <1>1, <2>1 DEF LockRequest, Moves, Ends, Resting
    <3>2. requests[handler[h].id].status = "PENDING"
      BY <1>1, <2>1 DEF LockRequest, Moves, Ends, Resting
    <3>3. handler[h].at = "reviewing"
      BY <1>1 DEF LockRequest
    <3>4. handler'[h].id = handler[h].id
      BY <3>1, <3>3, HandlersByPhase
    <3> QED
      BY <1>1, <2>1, <3>2, <3>4 DEF LockRequest
  <2>2. CASE g # h
    BY <1>1, <2>2 DEF LockRequest, Moves, Ends
  <2> QED
    BY <2>1, <2>2
<1>2. CASE ~LockRequest(h)
  BY <1>2 DEF HandlerStep, PostJoinRequest, CreateJoinRequest, BeginReview, Approve, Reject,
              RequestFails, Moves, Ends, Resting
<1> QED
  BY <1>1, <1>2

LEMMA HandlersKeepInvariant ==
  ASSUME ReviewInvariant, NEW h \in Handlers, HandlerStep(h)
  PROVE  ReviewInvariant'
<1> USE DEF ReviewInvariant, MembershipTypeOK
<1>1. MembershipTypeOK'
  BY HandlersType
<1>2. OneHolder'
  <2> SUFFICES ASSUME NEW g \in Handlers, NEW k \in Handlers,
                      handler'[g].at = "locked", handler'[k].at = "locked",
                      handler'[g].id = handler'[k].id
               PROVE  g = k
    BY DEF OneHolder
  <2>1. CASE g # h /\ k # h
    BY <2>1, HoldersAfter DEF OneHolder
  <2>2. CASE g = h \/ k = h
    BY <2>2, HoldersAfter DEF RequestUnlocked
  <2> QED
    BY <2>1, <2>2
<1>3. LockedIsPending'
  <2> SUFFICES ASSUME NEW g \in Handlers, handler'[g].at = "locked"
               PROVE  requests'[handler'[g].id].status = "PENDING"
    BY DEF LockedIsPending
  <2>1. CASE g = h
    BY <2>1, HoldersAfter
  <2>2. CASE g # h
    <3>1. handler'[g] = handler[g] /\ handler[g].at = "locked"
      BY <2>2, HoldersAfter
    <3>2. handler[g].id \in JoinRequests /\ requests[handler[g].id].status = "PENDING"
      BY <3>1, HandlersByPhase DEF LockedIsPending
    <3>3. requests[handler[g].id] # NoRequest
      BY <3>2, NothingDecided
    <3>4. ~(handler[h].at = "locked" /\ handler[h].id = handler[g].id)
      BY <2>2, <3>1 DEF OneHolder
    <3> QED
      BY <3>1, <3>2, <3>3, <3>4, DecidedStays
  <2> QED
    BY <2>1, <2>2
<1>4. ApprovedHasRow'
  <2> SUFFICES ASSUME NEW q \in JoinRequests, requests'[q].status = "APPROVED"
               PROVE  providers'[requests'[q].key] # "none"
    BY DEF ApprovedHasRow
  <2>1. CASE requests'[q] = requests[q]
    <3>1. requests[q].status = "APPROVED"
      BY <2>1
    <3>2. requests[q].key \in Providers
      BY <3>1, NothingDecided
    <3> QED
      BY <2>1, <3>1, <3>2, HandlersOnRows DEF ApprovedHasRow
  <2>2. CASE requests'[q] # requests[q]
    <3>1. CASE Approve(h)
      <4>1. handler[h].id \in JoinRequests
        BY <3>1, HandlersByPhase DEF Approve
      <4>2. q = handler[h].id /\ requests'[q].key = requests[q].key
        BY <2>2, <3>1, <4>1 DEF Approve, Row
      <4>3. requests[q].status = "PENDING"
        BY <3>1, <4>2 DEF Approve, LockedIsPending
      <4>4. requests[q].key \in Providers
        BY <4>3, NothingDecided
      <4> QED
        BY <3>1, <4>2, <4>4 DEF Approve, ProviderApproved, TypeOK
    <3>2. CASE CreateJoinRequest(h)
      BY <2>2, <3>2 DEF CreateJoinRequest, Row
    <3>3. CASE Reject(h)
      <4>1. handler[h].id \in JoinRequests /\ requests[handler[h].id].status = "PENDING"
        BY <3>3, HandlersByPhase DEF Reject, LockedIsPending
      <4>2. requests[handler[h].id] \in [status : {"PENDING"} \cup Reviewed, key : Providers]
        BY <4>1, NothingDecided
      <4>3. requests' = [requests EXCEPT ![handler[h].id].status = "REJECTED"]
        BY <3>3 DEF Reject
      <4>4. requests'[handler[h].id].status = "REJECTED" /\ q = handler[h].id
        BY <2>2, <4>1, <4>2, <4>3
      <4> QED
        BY <4>4
    <3>4. CASE ~CreateJoinRequest(h) /\ ~Approve(h) /\ ~Reject(h)
      BY <2>2, <3>4 DEF HandlerStep, PostJoinRequest, BeginReview, LockRequest, RequestFails
    <3> QED
      BY <3>1, <3>2, <3>3, <3>4
  <2> QED
    BY <2>1, <2>2
<1>5. ActivatedByEvent'
  <2>1. UNCHANGED <<chain, stagedP, done>>
    BY DEF HandlerStep, PostJoinRequest, CreateJoinRequest, BeginReview, LockRequest, Approve,
           Reject, RequestFails, WatcherUntouched, network, process, poll
  <2> QED
    BY <2>1 DEF ActivatedByEvent, Adds
<1> QED
  BY <1>1, <1>2, <1>3, <1>4, <1>5

-----------------------------------------------------------------------------
(* The invariant and what follows.                                         *)

LEMMA ReviewInit == MembershipInit => ReviewInvariant
<1> SUFFICES ASSUME MembershipInit
             PROVE  ReviewInvariant
  OBVIOUS
<1>1. TypeOK
  BY TypeInit DEF MembershipInit
<1>2. MembershipTypeOK
  BY <1>1 DEF MembershipInit, MembershipTypeOK, HandlerState, Resting
<1>3. LockedIsPending /\ OneHolder
  BY DEF MembershipInit, LockedIsPending, OneHolder, Resting
<1>4. ApprovedHasRow
  BY NothingDecided DEF MembershipInit, ApprovedHasRow
<1>5. ActivatedByEvent
  BY DEF MembershipInit, Init, ActivatedByEvent, NoProviderWrites, NoWrite
<1> QED
  BY <1>2, <1>3, <1>4, <1>5 DEF ReviewInvariant

\* A step that is not a handler's is a step of the watcher's specification; it
\* leaves the requests alone, and the handlers unless the process dies.
LEMMA WatcherKeepsInvariant ==
  ASSUME ReviewInvariant, Next, UNCHANGED <<requests, rowSince>>,
         handler' = handler \/ handler' = [h \in Handlers |-> Resting]
  PROVE  ReviewInvariant'
<1> USE DEF ReviewInvariant, MembershipTypeOK
<1>1. TypeOK' /\ ActivatedByEvent'
  BY TypeNext, WatcherActivates
<1>2. ApprovedHasRow'
  <2> SUFFICES ASSUME NEW q \in JoinRequests, requests[q].status = "APPROVED"
               PROVE  providers'[requests[q].key] # "none"
    BY DEF ApprovedHasRow
  <2>1. requests[q].key \in Providers
    BY NothingDecided
  <2> QED
    BY <2>1, WatcherOnRows DEF ApprovedHasRow
<1>3. CASE handler' = handler
  BY <1>1, <1>2, <1>3 DEF LockedIsPending, OneHolder
<1>4. CASE handler' = [h \in Handlers |-> Resting]
  <2>1. \A h \in Handlers : handler'[h].at = "resting"
    BY <1>4 DEF Resting
  <2>2. handler' \in [Handlers -> HandlerState]
    BY <1>4 DEF HandlerState
  <2> QED
    BY <1>1, <1>2, <2>1, <2>2 DEF LockedIsPending, OneHolder
<1> QED
  BY <1>3, <1>4

\* Either the watcher moves, or a handler does.
LEMMA WhoMoves ==
  ASSUME MembershipNext
  PROVE  \/ /\ Next /\ UNCHANGED <<requests, rowSince>>
            /\ handler' = handler \/ handler' = [h \in Handlers |-> Resting]
         \/ \E h \in Handlers : HandlerStep(h)
  BY DEF MembershipNext, Next, Environment

LEMMA ReviewNext == ReviewInvariant /\ [MembershipNext]_membershipVars => ReviewInvariant'
<1> SUFFICES ASSUME ReviewInvariant, [MembershipNext]_membershipVars
             PROVE  ReviewInvariant'
  OBVIOUS
<1>1. CASE MembershipNext
  BY <1>1, WhoMoves, WatcherKeepsInvariant, HandlersKeepInvariant
<1>2. CASE UNCHANGED membershipVars
  <2>1. TypeOK'
    BY <1>2, TypeNext DEF membershipVars, ReviewInvariant, MembershipTypeOK
  <2>2. UNCHANGED <<chain, done, stagedP, providers, requests, handler, rowSince>>
    BY <1>2 DEF membershipVars, vars, network, postgres, tables, process, poll
  <2> QED
    BY <2>1, <2>2 DEF ReviewInvariant, MembershipTypeOK, LockedIsPending, ApprovedHasRow,
                      OneHolder, ActivatedByEvent, Adds
<1> QED
  BY <1>1, <1>2

\* For any number of handlers, requests, providers and watchers: a review that
\* holds its request decides on a pending one (SELECT ... FOR UPDATE).
THEOREM LockedStaysPending == MembershipSpec => []LockedIsPending
<1>1. ReviewInvariant => LockedIsPending
  BY DEF ReviewInvariant
<1> QED
  BY <1>1, ReviewInit, ReviewNext, PTL DEF MembershipSpec

\* Whoever was approved has a provider row, whatever the watchers and other
\* reviews did (handleApproveJoinRequest's transaction).
THEOREM ApprovedKeepsRow == MembershipSpec => []ApprovedHasRow
<1>1. ReviewInvariant => ApprovedHasRow
  BY DEF ReviewInvariant
<1> QED
  BY <1>1, ReviewInit, ReviewNext, PTL DEF MembershipSpec

\* A decision is final.
THEOREM DecisionStaysFinal == MembershipSpec => DecisionIsFinal
<1> DEFINE Final(q) == requests[q].status \in Reviewed => requests'[q] = requests[q]
<1>1. ReviewInvariant /\ [MembershipNext]_membershipVars
        => [\A q \in JoinRequests : Final(q)]_membershipVars
  <2> SUFFICES ASSUME ReviewInvariant, MembershipNext, NEW q \in JoinRequests
               PROVE  Final(q)
    OBVIOUS
  <2>1. CASE UNCHANGED requests
    BY <2>1
  <2>2. ASSUME NEW h \in Handlers, HandlerStep(h)
        PROVE  Final(q)
    BY <2>2, DecidedStays
  <2> QED
    BY <2>1, <2>2, WhoMoves
<1> QED
  BY <1>1, ReviewInit, ReviewNext, PTL DEF MembershipSpec, DecisionIsFinal

\* Only the chain re-admits a removed provider, never an approval.
THEOREM OnlyTheChainReadmits == MembershipSpec => OnlyChainReadmits
<1> DEFINE ByChain(p) ==
      providers[p] = "REMOVED" /\ providers'[p] = "ACTIVE"
        => \E w \in Watchers : /\ Adds(chain, done[w], p) # {}
                               /\ done[w] \subseteq applied'
<1>1. ReviewInvariant /\ [MembershipNext]_membershipVars
        => [\A p \in Providers : ByChain(p)]_membershipVars
  <2> SUFFICES ASSUME ReviewInvariant, MembershipNext, NEW p \in Providers
               PROVE  ByChain(p)
    OBVIOUS
  <2>1. CASE Next
    BY <2>1, WatcherOnRows DEF ReviewInvariant, MembershipTypeOK
  <2>2. ASSUME NEW h \in Handlers, HandlerStep(h)
        PROVE  ByChain(p)
    BY <2>2, HandlersOnRows
  <2> QED
    BY <2>1, <2>2, WhoMoves
<1> QED
  BY <1>1, ReviewInit, ReviewNext, PTL DEF MembershipSpec, OnlyChainReadmits

-----------------------------------------------------------------------------
(* Members and the chain.                                                  *)

LEMMA FollowInit == MembershipInit => FollowInvariant
<1> SUFFICES ASSUME MembershipInit PROVE FollowInvariant
  OBVIOUS
<1>1. OrderInvariant /\ \A p \in Providers : ProviderInvariant(p, 0)
  BY RowsInit DEF MembershipInit, RowsInvariant
<1>2. \A p \in Providers : rowSince[p] = 0
  BY DEF MembershipInit
<1> QED
  BY <1>1, <1>2 DEF FollowInvariant

\* The watcher keeps each row's part of the invariant as it does its own.
LEMMA WatcherKeepsFollow ==
  ASSUME TypeOK, rowSince \in [Providers -> Nat], FollowInvariant, NoOverlap, [Next]_vars,
         UNCHANGED rowSince
  PROVE  FollowInvariant'
<1>1. OrderInvariant'
  BY OrderNext DEF FollowInvariant
<1>2. ASSUME NEW p \in Providers PROVE ProviderInvariant(p, rowSince[p])'
  <2>1. PICK since \in Nat : since = rowSince[p]
    OBVIOUS
  <2>2. ProviderInvariant(p, since) /\ OrderInvariant
    BY <2>1 DEF FollowInvariant
  <2>3. ProviderInvariant(p, since)'
    BY <2>2, ProviderNext
  <2> QED
    BY <2>1, <2>3 DEF ProviderInvariant, ProviderFollows, ProviderStaged
<1> QED
  BY <1>1, <1>2 DEF FollowInvariant

\* A row that an approval makes has heard nothing of the contract yet: every
\* event of the history is older, those of an open transaction included.
LEMMA ApprovalKeepsFollow ==
  ASSUME ReviewInvariant, FollowInvariant, NEW h \in Handlers, Approve(h), NEW p \in Providers,
         UNCHANGED <<chain, applied, done, stagedP>>
  PROVE  ProviderInvariant(p, rowSince[p])'
<1>0. ProviderInvariant(p, rowSince[p])
  BY DEF FollowInvariant
<1>1. CASE providers'[p] = providers[p] /\ rowSince'[p] = rowSince[p]
  BY <1>0, <1>1 DEF ProviderInvariant, ProviderFollows, ProviderStaged
<1>2. CASE /\ providers[p] = "none" /\ providers'[p] = "ACTIVE" /\ rowSince'[p] = Len(chain)
           /\ \A w \in Watchers : stagedP[w][p] = NoWrite
  <2>1. \A i \in DOMAIN chain : ~(i > Len(chain))
    BY EventTypes DEF ReviewInvariant, MembershipTypeOK
  <2>2. \A i \in ProviderEvents(chain, applied, p) : ~(i > Len(chain))
    BY <2>1 DEF ProviderEvents, Adds, Removals, ReviewInvariant, MembershipTypeOK, TypeOK
  <2>3. ASSUME NEW w \in Watchers
        PROVE  \A i \in ProviderEvents(chain, done[w], p) : ~(i > Len(chain))
    BY <2>1 DEF ProviderEvents, Adds, Removals, ReviewInvariant, MembershipTypeOK, TypeOK
  <2>4. ProviderFollows(p, rowSince[p])'
    BY <1>2, <2>2 DEF ProviderFollows
  <2>5. ASSUME NEW w \in Watchers PROVE ProviderStaged(w, p, rowSince[p])'
    BY <1>2, <2>3 DEF ProviderStaged
  <2> QED
    BY <2>4, <2>5 DEF ProviderInvariant
<1>3. \/ providers'[p] = providers[p] /\ rowSince'[p] = rowSince[p]
      \/ /\ providers[p] = "none" /\ providers'[p] = "ACTIVE" /\ rowSince'[p] = Len(chain)
         /\ \A w \in Watchers : stagedP[w][p] = NoWrite
  BY DEF Approve, ProviderApproved, ReviewInvariant, MembershipTypeOK, TypeOK
<1> QED
  BY <1>1, <1>2, <1>3

LEMMA FollowNext ==
  ReviewInvariant /\ FollowInvariant /\ NoOverlap /\ [MembershipNext]_membershipVars
    => FollowInvariant'
<1> SUFFICES ASSUME ReviewInvariant, FollowInvariant, NoOverlap, [MembershipNext]_membershipVars
             PROVE  FollowInvariant'
  OBVIOUS
<1>0. TypeOK /\ rowSince \in [Providers -> Nat]
  BY DEF ReviewInvariant, MembershipTypeOK
<1>1. CASE [Next]_vars /\ UNCHANGED rowSince
  BY <1>0, <1>1, WatcherKeepsFollow
<1>2. ASSUME NEW h \in Handlers, HandlerStep(h) PROVE FollowInvariant'
  <2>1. UNCHANGED <<chain, latest, oldest, cursor, applied, phase, pos, next, todo, done,
                    stagedP, stagedC>>
    BY <1>2 DEF HandlerStep, PostJoinRequest, CreateJoinRequest, BeginReview, LockRequest, Approve,
                Reject, RequestFails, WatcherUntouched, network, process, poll
  <2>2. OrderInvariant'
    BY <2>1, OrderUntouched DEF FollowInvariant
  <2>3. ASSUME NEW p \in Providers PROVE ProviderInvariant(p, rowSince[p])'
    <3>1. CASE Approve(h)
      BY <2>1, <3>1, ApprovalKeepsFollow
    <3>2. CASE UNCHANGED <<providers, rowSince>>
      <4>1. ProviderInvariant(p, rowSince[p])
        BY DEF FollowInvariant
      <4> QED
        BY <2>1, <3>2, <4>1 DEF ProviderInvariant, ProviderFollows, ProviderStaged
    <3>3. Approve(h) \/ UNCHANGED <<providers, rowSince>>
      BY <1>2 DEF HandlerStep, PostJoinRequest, CreateJoinRequest, BeginReview, LockRequest,
                  Reject, RequestFails
    <3> QED
      BY <3>1, <3>2, <3>3
  <2> QED
    BY <2>2, <2>3 DEF FollowInvariant
<1>3. \/ [Next]_vars /\ UNCHANGED rowSince
      \/ \E h \in Handlers : HandlerStep(h)
  BY WhoMoves DEF membershipVars
<1> QED
  BY <1>1, <1>2, <1>3

\* As long as no two watchers overlap, a member whose row existed when the
\* contract last spoke of it has the status the contract gave it, whenever an
\* approval made the row: before, during or after the watcher's transaction.
THEOREM MembersFollowTheChain == MembershipSpec /\ []NoOverlap => []MembersFollowChain
<1>1. FollowInvariant => MembersFollowChain
  <2> SUFFICES ASSUME FollowInvariant, NEW p \in Providers, ProviderFollows(p, rowSince[p])
               PROVE  /\ providers[p] # "none"
                      /\ \E i \in ProviderEvents(chain, applied, p) : i > rowSince[p]
                      => providers[p] = LastWord(chain, applied, p)
    BY DEF FollowInvariant, ProviderInvariant, MembersFollowChain
  <2> QED
    BY DEF ProviderFollows
<1> QED
  BY <1>1, ReviewInit, ReviewNext, FollowInit, FollowNext, PTL DEF MembershipSpec
=============================================================================
