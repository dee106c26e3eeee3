------------------------- MODULE ChannelAuthEvents -------------------------
(***************************************************************************)
(* The events of one council's Channel Auth contract, and the rows of the  *)
(* council tables that a given set of them calls for.                      *)
(*                                                                         *)
(* A council's id IS its contract id, and each council has a watcher and   *)
(* rows of its own, so the modules that follow speak of one council.       *)
(***************************************************************************)
EXTENDS Integers, Sequences

CONSTANTS Providers,  \* addresses of privacy providers
          Channels    \* contract ids of privacy channels

\* What the contract may emit (ChannelAuthEventType).  `subject' is the
\* event's address: the provider, or the channel of channel_state_changed;
\* `enabled' is the data value of channel_state_changed and TRUE elsewhere.
ContractEvent ==
  [type : {"provider_added", "provider_removed", "contract_initialized"},
   subject : Providers, enabled : {TRUE}]
    \cup
  [type : {"channel_state_changed"}, subject : Channels, enabled : BOOLEAN]

\* The ledger sequence is attached when the event's ledger closes.
Emitted(event, seq) ==
  [type |-> event.type, subject |-> event.subject, enabled |-> event.enabled,
   ledger |-> seq]

LedgerEvent ==
  [type : {"provider_added", "provider_removed", "contract_initialized"},
   subject : Providers, enabled : {TRUE}, ledger : Nat]
    \cup
  [type : {"channel_state_changed"}, subject : Channels, enabled : BOOLEAN,
   ledger : Nat]

-----------------------------------------------------------------------------
(* Rows.  "none" is the absence of a row.                                  *)

ProviderStatus == {"ACTIVE", "REMOVED"}
ProviderRow    == ProviderStatus \cup {"none"}

ChannelStatus  == {"enabled", "disabled"}
PendingAction  == {"enable", "disable", "null"}
ChannelRow     == [status : ChannelStatus \cup {"none"}, pending : PendingAction]

NoChannelRow   == [status |-> "none", pending |-> "null"]
\* The column defaults a freshly inserted channel gets.
NewChannelRow  == [status |-> "enabled", pending |-> "null"]

-----------------------------------------------------------------------------
(* What a set S of indices of the event history `log' says of a row, when  *)
(* the events are taken in the order of the history.                       *)

Adds(log, S, p) ==
  {i \in S : log[i].type = "provider_added" /\ log[i].subject = p}

Removals(log, S, p) ==
  {i \in S : log[i].type = "provider_removed" /\ log[i].subject = p}

StateChanges(log, S, c, enabled) ==
  {i \in S : /\ log[i].type = "channel_state_changed"
             /\ log[i].subject = c
             /\ log[i].enabled = enabled}

\* The events that speak of a provider, and of a channel.
ProviderEvents(log, S, p) == Adds(log, S, p) \cup Removals(log, S, p)

ChannelEvents(log, S, c) ==
  StateChanges(log, S, c, TRUE) \cup StateChanges(log, S, c, FALSE)

\* The newest of them decides.
LastWord(log, S, p) ==
  IF \E i \in Adds(log, S, p) : \A j \in Removals(log, S, p) : j < i
  THEN "ACTIVE" ELSE "REMOVED"

\* A provider never added has no row; otherwise the last word decides.
ProviderAfter(log, S, p) ==
  IF Adds(log, S, p) = {} THEN "none" ELSE LastWord(log, S, p)

\* A channel no event speaks of has the default status.
ChannelAfter(log, S, c) ==
  IF \E i \in StateChanges(log, S, c, FALSE) :
        \A j \in StateChanges(log, S, c, TRUE) : j < i
  THEN "disabled" ELSE "enabled"
=============================================================================
