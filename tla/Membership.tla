----------------------------- MODULE Membership -----------------------------
(***************************************************************************)
(* How a provider becomes a member of a council.  It posts a join request, *)
(* the owner approves or rejects it, and the watcher applies what the      *)
(* contract says of it.  An approval and the watcher both create the       *)
(* provider's row; only the watcher removes or re-activates it.            *)
(*                                                                         *)
(* A handler's reads, its SELECT ... FOR UPDATE and its commit are steps   *)
(* of their own.  A handler's SELECT and INSERT of the provider are one    *)
(* step with the commit: an insert waits for an uncommitted row of the     *)
(* same key, and losing to one that commits is a RequestFails.             *)
(***************************************************************************)
EXTENDS EventWatcher

CONSTANTS
  Handlers,            \* HTTP requests in progress at one time
  JoinRequests         \* ids of join requests

VARIABLES
  requests,            \* provider_join_requests
  handler,             \* where each HTTP request is
  rowSince             \* history: Len(chain) when an approval made the row

membershipVars == <<vars, requests, handler, rowSince>>

NoRequest == [status |-> "none", key |-> "no key"]
Reviewed  == {"APPROVED", "REJECTED"}
Row(p, status) == [status |-> status, key |-> p]

Resting == [at |-> "resting"]
HandlerState ==
  {Resting}
    \cup [at : {"posting"}, key : Providers]
    \cup [at : {"reviewing", "locked"}, id : JoinRequests, verdict : Reviewed]

MembershipInit ==
  /\ Init
  /\ requests = [q \in JoinRequests |-> NoRequest]
  /\ handler = [h \in Handlers |-> Resting]
  /\ rowSince = [p \in Providers |-> 0]

\* Handlers touch nothing of the watcher but the providers' rows.
WatcherUntouched ==
  UNCHANGED <<network, registered, cursor, channels, process, applied, counters>>

Moves(h, state) == handler' = [handler EXCEPT ![h] = state]
Ends(h) == Moves(h, Resting)

Pending(p) == {q \in JoinRequests : requests[q] = Row(p, "PENDING")}

-----------------------------------------------------------------------------
\* findPendingByPublicKey finds one: the post is refused (409).
HasPending(p) == Pending(p) # {}

\* POST join-request: the payload is valid and no request is pending.  The
\* council need not exist.
PostJoinRequest(h, p) ==
  /\ serving
  /\ handler[h] = Resting
  /\ ~HasPending(p)
  /\ Moves(h, [at |-> "posting", key |-> p])
  /\ WatcherUntouched
  /\ UNCHANGED <<providers, requests, rowSince>>

\* The insert, under a fresh id.
CreateJoinRequest(h) ==
  /\ handler[h].at = "posting"
  /\ \E q \in JoinRequests :
        /\ requests[q] = NoRequest
        /\ requests' = [requests EXCEPT ![q] = Row(handler[h].key, "PENDING")]
  /\ Ends(h)
  /\ WatcherUntouched
  /\ UNCHANGED <<providers, rowSince>>

\* POST .../approve and .../reject: the request exists and its council is the
\* caller's.  Its status is not looked at yet.
BeginReview(h, q, verdict) ==
  /\ serving /\ registered
  /\ handler[h] = Resting
  /\ requests[q] # NoRequest
  /\ Moves(h, [at |-> "reviewing", id |-> q, verdict |-> verdict])
  /\ WatcherUntouched
  /\ UNCHANGED <<providers, requests, rowSince>>

\* Mutants: a SELECT that takes no lock; a lock that two first reads share and
\* neither can then have for itself.
NoLock(h) == TRUE
SharedLock(h) ==
  \A g \in Handlers \ {h} :
     handler[g].at \in {"reviewing", "locked"} => handler[g].id # handler[h].id

RequestUnlocked(h) ==
  \A g \in Handlers \ {h} : handler[g].at = "locked" => handler[g].id # handler[h].id

\* SELECT ... FOR UPDATE.  A request that is not pending ends the transaction:
\* 200 when it already has the verdict asked for, 409 otherwise.
LockRequest(h) ==
  /\ handler[h].at = "reviewing"
  /\ RequestUnlocked(h)
  /\ \/ /\ requests[handler[h].id].status = "PENDING"
        /\ Moves(h, [handler[h] EXCEPT !.at = "locked"])
     \/ /\ requests[handler[h].id].status # "PENDING"
        /\ Ends(h)
  /\ WatcherUntouched
  /\ UNCHANGED <<providers, requests, rowSince>>

\* Mutants: an approval leaves the row to the watcher; it re-activates one.
LeftToWatcher(p) == providers[p]
Reactivated(p) == "ACTIVE"

\* "Create provider record if not exists": an existing row stays as it is.
ProviderApproved(p) == IF providers[p] = "none" THEN "ACTIVE" ELSE providers[p]

\* The rest of an approval's transaction.  The insert waits for an open
\* transaction of a watcher that inserts the same key.
Approve(h) ==
  /\ handler[h].at = "locked" /\ handler[h].verdict = "APPROVED"
  /\ LET q == handler[h].id
         p == requests[q].key IN
     /\ providers[p] = "none" => \A w \in Watchers : stagedP[w][p] = NoWrite
     /\ requests' = [requests EXCEPT ![q] = Row(p, "APPROVED")]
     /\ providers' = [providers EXCEPT ![p] = ProviderApproved(p)]
     /\ rowSince' =
          IF providers[p] = "none" THEN [rowSince EXCEPT ![p] = Len(chain)] ELSE rowSince
  /\ Ends(h)
  /\ WatcherUntouched

Reject(h) ==
  /\ handler[h].at = "locked" /\ handler[h].verdict = "REJECTED"
  /\ requests' = [requests EXCEPT ![handler[h].id].status = "REJECTED"]
  /\ Ends(h)
  /\ WatcherUntouched
  /\ UNCHANGED <<providers, rowSince>>

\* A statement fails, or an insert loses to a concurrent one: the transaction
\* rolls back and the client gets an error.
RequestFails(h) ==
  /\ handler[h] # Resting
  /\ Ends(h)
  /\ WatcherUntouched
  /\ UNCHANGED <<providers, requests, rowSince>>

HandlerStep(h) ==
  \/ \E p \in Providers : PostJoinRequest(h, p)
  \/ CreateJoinRequest(h)
  \/ \E q \in JoinRequests, verdict \in Reviewed : BeginReview(h, q, verdict)
  \/ LockRequest(h) \/ Approve(h) \/ Reject(h) \/ RequestFails(h)

\* Steps of the network and the watcher leave the requests alone; a crash of
\* the process drops the handlers and their transactions.
MembershipNext ==
  \/ /\ \/ CloseLedger \/ AdvanceRetention \/ RegisterCouncil \/ StartupSyncEnds
        \/ \E w \in Watchers : WatcherStep(w)
     /\ UNCHANGED <<requests, handler, rowSince>>
  \/ /\ Crash
     /\ handler' = [h \in Handlers |-> Resting]
     /\ UNCHANGED <<requests, rowSince>>
  \/ \E h \in Handlers : HandlerStep(h)

MembershipSpec == MembershipInit /\ [][MembershipNext]_membershipVars

\* Statements of a handler are answered, and the waiters of a lock are queued.
MembershipFairSpec ==
  /\ MembershipSpec
  /\ \A w \in Watchers :
       /\ WF_membershipVars(ApplyEvent(w) /\ UNCHANGED <<requests, handler, rowSince>>)
       /\ WF_membershipVars(CommitPoll(w) /\ UNCHANGED <<requests, handler, rowSince>>)
  /\ \A h \in Handlers :
       /\ WF_membershipVars(CreateJoinRequest(h))
       /\ SF_membershipVars(LockRequest(h))
       /\ SF_membershipVars(Approve(h))
       /\ WF_membershipVars(Reject(h))

-----------------------------------------------------------------------------
(* Properties.                                                             *)

\* The watcher's types hold; whoever is at work on a request, it exists.
MembershipTypeOK ==
  /\ TypeOK
  /\ requests \in [JoinRequests ->
       [status : {"PENDING"} \cup Reviewed, key : Providers] \cup {NoRequest}]
  /\ handler \in [Handlers -> HandlerState]
  /\ rowSince \in [Providers -> Nat]
  /\ \A h \in Handlers :
        handler[h].at \in {"reviewing", "locked"} => requests[handler[h].id] # NoRequest

\* A decision is final: two reviews of a request that race, or one repeated
\* after a lost answer, never turn an approval into a rejection or back
\* (handleApproveJoinRequest, handleRejectJoinRequest: FOR UPDATE).
DecisionIsFinal ==
  [][\A q \in JoinRequests :
        requests[q].status \in Reviewed => requests'[q] = requests[q]]_membershipVars

\* While a review holds its request, the request stays pending: what it read
\* is what it decides on.
LockedIsPending ==
  \A h \in Handlers :
     handler[h].at = "locked" => requests[handler[h].id].status = "PENDING"

\* Whoever was approved has a provider row, whatever the watcher and the other
\* requests of the same key did, and whichever transaction failed.
ApprovedHasRow ==
  \A q \in JoinRequests :
     requests[q].status = "APPROVED" => providers[requests[q].key] # "none"

\* Only the chain re-admits: a removed provider becomes active again in a
\* commit of the watcher that applies an addition, never by an approval.
OnlyChainReadmits ==
  [][\A p \in Providers :
        providers[p] = "REMOVED" /\ providers'[p] = "ACTIVE"
          => \E w \in Watchers : /\ Adds(chain, done[w], p) # {}
                                 /\ done[w] \subseteq applied']_membershipVars

\* A member whose row existed when the contract last spoke of it has the
\* status the contract gave it, also when an approval created the row while
\* the watcher had a transaction open.
MembersFollowChain ==
  \A p \in Providers :
     /\ providers[p] # "none"
     /\ \E i \in ProviderEvents(chain, applied, p) : i > rowSince[p]
     => providers[p] = LastWord(chain, applied, p)

\* A review that has begun comes to its end, although it waits for other
\* reviews and for the watcher's transaction.
ReviewsEnd ==
  \A h \in Handlers : handler[h].at = "reviewing" ~> handler[h].at = "resting"

\* Two reviews do not hold one request, and a status that a transaction of the
\* watcher is about to write was called for by an event that it has applied.
OneHolder ==
  \A g, h \in Handlers :
     handler[g].at = "locked" /\ handler[h].at = "locked" /\ handler[g].id = handler[h].id
       => g = h

ActivatedByEvent ==
  \A w \in Watchers, p \in Providers :
     stagedP[w][p] = "ACTIVE" => Adds(chain, done[w], p) # {}

\* The inductive strengthening of the safety properties above.
ReviewInvariant ==
  MembershipTypeOK /\ LockedIsPending /\ ApprovedHasRow /\ OneHolder /\ ActivatedByEvent

\* That of MembersFollowChain, which needs the order in which the watcher takes
\* the events and what its open transaction has made of them.
FollowInvariant ==
  OrderInvariant /\ \A p \in Providers : ProviderInvariant(p, rowSince[p])
=============================================================================
