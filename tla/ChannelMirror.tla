--------------------------- MODULE ChannelMirror ---------------------------
(***************************************************************************)
(* What the event watcher promises, without watchers, polls, transactions  *)
(* or crashes: the council tables are a mirror of the contract's history   *)
(* that moves forward in atomic steps.  A step takes over every event from *)
(* the cursor up to some closed ledger and moves the cursor there.         *)
(***************************************************************************)
EXTENDS ChannelAuthEvents

VARIABLES chain, latest,   \* the contract's history
          cursor,          \* first ledger not mirrored, 0 before the first step
          applied,         \* the events mirrored
          providerStatus, channelStatus

vars == <<chain, latest, cursor, applied, providerStatus, channelStatus>>

Init ==
  /\ chain = <<>> /\ latest \in Nat \ {0}
  /\ cursor = 0 /\ applied = {}
  /\ providerStatus = [p \in Providers |-> "none"]
  /\ channelStatus \in [Channels -> {"none", "enabled"}]

\* The history grows, always past the last closed ledger.
Extend ==
  /\ latest' > latest
  /\ Len(chain') >= Len(chain)
  /\ \A i \in DOMAIN chain : chain'[i] = chain[i]
  /\ \A i \in DOMAIN chain' \ DOMAIN chain : chain'[i].ledger \in (latest + 1)..latest'
  /\ UNCHANGED <<cursor, applied, providerStatus, channelStatus>>

\* The mirror takes over the events of ledgers from..upTo-1.
Sync(from, upTo) ==
  /\ upTo >= cursor
  /\ cursor' = upTo
  /\ applied' = applied \cup {i \in DOMAIN chain : chain[i].ledger \in from..(upTo - 1)}
  /\ providerStatus' = [p \in Providers |-> ProviderAfter(chain, applied', p)]
  /\ channelStatus' = [c \in Channels |->
                         IF channelStatus[c] = "none" THEN "none"
                         ELSE ChannelAfter(chain, applied', c)]
  /\ UNCHANGED <<chain, latest>>

\* The first step chooses where the mirror begins; no later one leaves a gap.
Next ==
  \/ Extend
  \/ \E upTo \in 1..(latest + 1) :
        \/ cursor # 0 /\ Sync(cursor, upTo)
        \/ cursor = 0 /\ \E from \in 1..latest : Sync(from, upTo)

Spec == Init /\ [][Next]_vars
=============================================================================
