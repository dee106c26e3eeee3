-------------------------- MODULE ChannelLifecycle --------------------------
(***************************************************************************)
(* The channel endpoints of a council beside its event watcher.  The       *)
(* endpoints insert a channel and record what the council asked for; only  *)
(* the watcher may say what became of it.  Each handler reads a row,       *)
(* awaits the ownership check, and then writes: the watcher may commit in  *)
(* between.                                                                *)
(***************************************************************************)
EXTENDS EventWatcher

CONSTANT Requests      \* HTTP requests in progress at one time

VARIABLES
  req,                 \* where each request is, and its channel
  knownAt              \* history: Len(chain) when the channel was inserted

lifecycleVars == <<vars, req, knownAt>>

Resting == [at |-> "resting", channel |-> "no channel"]
RequestPhase == {"adding", "disabling", "enabling"}

LifecycleInit ==
  /\ Init
  /\ channels = [c \in Channels |-> NoChannelRow]
  /\ req = [r \in Requests |-> Resting]
  /\ knownAt = [c \in Channels |-> 0]

\* The handlers of r touch nothing of the watcher.
HandlerStep(r, at, c) ==
  /\ req' = [req EXCEPT ![r] = [at |-> at, channel |-> c]]
  /\ UNCHANGED <<network, registered, cursor, providers, process, applied, counters>>

HandlerEnds(r) ==
  /\ req' = [req EXCEPT ![r] = Resting]
  /\ UNCHANGED <<network, registered, cursor, providers, process, applied, counters>>

\* Ownership needs the council's row, and a request a server that listens.
CanBegin(r) == serving /\ registered /\ req[r] = Resting

\* POST channel: the duplicate check.  A duplicate is refused (409).
AddChannel(r, c) ==
  /\ CanBegin(r)
  /\ channels[c].status = "none"
  /\ HandlerStep(r, "adding", c)
  /\ UNCHANGED <<channels, knownAt>>

\* The insert; the unique index turns a concurrent duplicate into an error.
InsertChannel(r) ==
  /\ req[r].at = "adding"
  /\ LET c == req[r].channel IN
     \/ /\ channels[c].status = "none"
        /\ channels' = [channels EXCEPT ![c] = NewChannelRow]
        /\ knownAt' = [knownAt EXCEPT ![c] = Len(chain)]
     \/ /\ channels[c].status # "none"
        /\ UNCHANGED <<channels, knownAt>>
  /\ HandlerEnds(r)

\* DELETE channel: any existing channel, whatever its status.
RemoveChannel(r, c) ==
  /\ CanBegin(r)
  /\ channels[c].status # "none"
  /\ HandlerStep(r, "disabling", c)
  /\ UNCHANGED <<channels, knownAt>>

\* POST enable: only a channel that reads as disabled.
EnableChannel(r, c) ==
  /\ CanBegin(r)
  /\ channels[c].status = "disabled"
  /\ HandlerStep(r, "enabling", c)
  /\ UNCHANGED <<channels, knownAt>>

\* Mutants: the action goes to the wrong column; the endpoint flips the status
\* ahead of the chain.
WrongColumn(row, at) ==
  [row EXCEPT !.status = IF at = "disabling" THEN "disable" ELSE "enable"]
WrittenAhead(row, at) ==
  IF at = "disabling" THEN [status |-> "disabled", pending |-> "disable"]
  ELSE [status |-> "enabled", pending |-> "enable"]

Marked(row, at) ==
  [row EXCEPT !.pending = IF at = "disabling" THEN "disable" ELSE "enable"]

\* setPendingAction on the row read before; it waits for the row's lock.
SetPendingAction(r) ==
  /\ req[r].at \in {"disabling", "enabling"}
  /\ LET c == req[r].channel IN
     /\ \A w \in Watchers : stagedC[w][c] = NoWrite
     /\ channels' = [channels EXCEPT ![c] = Marked(@, req[r].at)]
  /\ HandlerEnds(r)
  /\ UNCHANGED knownAt

\* The caller is not the owner, or a statement fails.
RequestFails(r) ==
  /\ req[r] # Resting
  /\ HandlerEnds(r)
  /\ UNCHANGED <<channels, knownAt>>

Handlers ==
  \E r \in Requests :
     \/ \E c \in Channels :
           AddChannel(r, c) \/ RemoveChannel(r, c) \/ EnableChannel(r, c)
     \/ InsertChannel(r)
     \/ SetPendingAction(r)
     \/ RequestFails(r)

\* A crash of the process drops its requests.
LifecycleNext ==
  \/ /\ \/ CloseLedger \/ AdvanceRetention \/ RegisterCouncil \/ StartupSyncEnds
        \/ \E w \in Watchers : WatcherStep(w)
     /\ UNCHANGED <<req, knownAt>>
  \/ Crash /\ req' = [r \in Requests |-> Resting] /\ UNCHANGED knownAt
  \/ Handlers

LifecycleSpec == LifecycleInit /\ [][LifecycleNext]_lifecycleVars

\* The watcher runs on; nobody is obliged to send a request.
LifecycleFairSpec ==
  /\ LifecycleSpec
  /\ WF_lifecycleVars(StartupSyncEnds /\ UNCHANGED <<req, knownAt>>)
  /\ \A w \in Watchers :
       /\ WF_lifecycleVars(EnsureWatcher(w) /\ UNCHANGED <<req, knownAt>>)
       /\ WF_lifecycleVars(RestoreCursor(w) /\ UNCHANGED <<req, knownAt>>)
       /\ WF_lifecycleVars(ResolveBootStartLedger(w) /\ UNCHANGED <<req, knownAt>>)
       /\ WF_lifecycleVars(Fetch(w) /\ UNCHANGED <<req, knownAt>>)
       /\ WF_lifecycleVars(ApplyEvent(w) /\ UNCHANGED <<req, knownAt>>)
       /\ WF_lifecycleVars(CommitPoll(w) /\ UNCHANGED <<req, knownAt>>)

-----------------------------------------------------------------------------
(* Properties.                                                             *)

Known(c) == channels[c].status # "none"

\* The watcher's types hold, and a request that is on its way has a channel.
LifecycleTypeOK ==
  /\ TypeOK
  /\ req \in [Requests -> [at : RequestPhase, channel : Channels] \cup {Resting}]
  /\ knownAt \in [Channels -> Nat]
  /\ \A r \in Requests : req[r].at \in {"disabling", "enabling"} => Known(req[r].channel)

About(c) == {i \in DOMAIN chain : /\ chain[i].type = "channel_state_changed"
                                  /\ chain[i].subject = c}

\* No channel is withdraw-only unless the chain made it so: a "disabled" row
\* is what the applied events say, whatever the endpoints did meanwhile
\* (handleRemoveChannel records intent only; setStatusByContractId).
DisabledIsConfirmed ==
  \A c \in Channels :
     channels[c].status = "disabled" => ChannelAfter(chain, applied, c) = "disabled"

\* A channel that was in the table when the contract last spoke of it has
\* the status the applied events call for, also when its insert and markers
\* raced with an open transaction of the watcher.
KnownChannelsMirror ==
  \A c \in Channels :
     /\ Known(c)
     /\ \E i \in applied \cap About(c) : i > knownAt[c]
     => channels[c].status = ChannelAfter(chain, applied, c)

\* A marker disappears only in a commit that applied an event of its channel.
MarkerClearedByEvent ==
  [][\A c \in Channels :
        channels[c].pending # "null" /\ channels'[c].pending = "null"
          => \E w \in Watchers :
                done[w] \cap About(c) # {} /\ done[w] \subseteq applied']_lifecycleVars

\* Event i is about c, c was known before it, and no poll has committed it.
Awaited(i, c) == i \in About(c) \ applied /\ i > knownAt[c]

\* The window passed event i before a poll committed it.
Missed(i) == i \in DOMAIN chain \ applied /\ chain[i].ledger < oldest

\* Every event that is still to be committed for a marked channel clears the
\* marker, unless the retention window passes the event before a poll reads it,
\* or passes the watcher's position: then every poll fails (CommitPoll;
\* setStatusByContractId, which clears the marker with the status).
EventClearsMarker ==
  \A i \in 1..MaxLedger * MaxPerLedger, c \in Channels :
     channels[c].pending # "null" /\ Awaited(i, c)
       ~> channels[c].pending = "null" \/ Stalled \/ Missed(i)

\* A transaction of the watcher writes the status of a channel only for an
\* event that it has applied; a channel without a row has no marker.
StatedByEvent ==
  \A w \in Watchers, c \in Channels :
     stagedC[w][c] # NoWrite => done[w] \cap About(c) # {}

UnknownIsBlank == \A c \in Channels : Known(c) \/ channels[c] = NoChannelRow

\* The inductive strengthening of the types and of MarkerClearedByEvent.
LifecycleInvariant == LifecycleTypeOK /\ StatedByEvent /\ UnknownIsBlank

\* That of DisabledIsConfirmed and KnownChannelsMirror.
ConfirmInvariant ==
  OrderInvariant /\ \A c \in Channels : ChannelInvariant(c, knownAt[c])
=============================================================================
