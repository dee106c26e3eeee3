--------------------------- MODULE EscrowRelease ---------------------------
(***************************************************************************)
(* The escrows of one recipient, who is not a custodial user yet.          *)
(* Providers deposit into escrow; once the recipient is registered for a   *)
(* channel, a release takes a list of what is held and marks the escrows   *)
(* of that channel one by one, each in a statement of its own, and answers *)
(* with the totals.  Escrows of other recipients never meet these.         *)
(***************************************************************************)
EXTENDS Integers, FiniteSets, FiniteSetsExt

CONSTANTS
  Councils, Channels,
  Handlers,            \* HTTP requests in progress at one time
  Amounts,             \* amounts a provider may name
  Fee,                 \* DEFAULT_ESCROW_FEE
  MaxEscrows           \* bound: escrows ever created

ASSUME AmountsAssumption ==
  Amounts \subseteq Nat /\ Fee \in Nat \ {0} /\ MaxEscrows \in Nat

VARIABLES
  escrows,             \* council_escrows, by order of creation
  created,             \* escrows created so far
  members,             \* councils in which the provider has a row
  registered,          \* channel -> council whose custodial user it is
  handler,             \* where each HTTP request is
  paid,                \* history: answers that counted an escrow as released
  answer,              \* history: the last answer of a release
  calm                 \* history: no two releases have overlapped

vars == <<escrows, created, members, registered, handler, paid, answer, calm>>

Ids     == 1..MaxEscrows
NoRow   == [absent |-> TRUE]
NobodyYet == "nobody"
Status  == {"HELD", "RELEASED"}
Escrow  ==
  [council : Councils, channel : Channels, amount : Nat, status : Status, fee : Nat]

Resting == [at |-> "resting"]
Submission ==
  [at : {"submitting"}, council : Councils, channel : Channels, amount : Nat]
\* A release holds the rows it found (held, amounts), those it has still to
\* look at (todo), those it has marked, and its totals.
Release ==
  [at : {"checking", "releasing"}, channel : Channels, held : SUBSET Ids,
   todo : SUBSET Ids, amounts : [Ids -> Nat], marked : SUBSET Ids,
   released : Nat, fees : Nat]

Init ==
  /\ escrows = [e \in Ids |-> NoRow]
  /\ created = 0
  /\ members = {}
  /\ registered = [ch \in Channels |-> NobodyYet]
  /\ handler = [h \in Handlers |-> Resting]
  /\ paid = [e \in Ids |-> 0]
  /\ answer = NoRow
  /\ calm = TRUE

Moves(h, state) == handler' = [handler EXCEPT ![h] = state]
Ends(h) == Moves(h, Resting)

-----------------------------------------------------------------------------
(* The other parts of the system.                                          *)

\* The provider gets a row in the council: by approval or by the watcher.
ProviderJoins(c) ==
  /\ members' = members \cup {c}
  /\ UNCHANGED <<escrows, created, registered, handler, paid, answer>>

\* A provider registers the recipient for a channel.
RegisterRecipient(c, ch) ==
  /\ c \in members
  /\ registered[ch] = NobodyYet
  /\ registered' = [registered EXCEPT ![ch] = c]
  /\ UNCHANGED <<escrows, created, members, handler, paid, answer>>

\* deleteCouncil takes the council's escrows, users and providers along.
DeleteCouncil(c) ==
  /\ escrows' = [e \in Ids |->
       IF escrows[e] # NoRow /\ escrows[e].council = c THEN NoRow ELSE escrows[e]]
  /\ registered' = [ch \in Channels |->
       IF registered[ch] = c THEN NobodyYet ELSE registered[ch]]
  /\ members' = members \ {c}
  /\ UNCHANGED <<created, handler, paid, answer>>

-----------------------------------------------------------------------------
(* POST /council/escrow.                                                   *)

\* The amount is positive and the provider has a row, whatever its status.
PostEscrow(h, c, ch, amount) ==
  /\ handler[h] = Resting
  /\ amount > 0
  /\ c \in members
  /\ Moves(h, [at |-> "submitting", council |-> c, channel |-> ch, amount |-> amount])
  /\ UNCHANGED <<escrows, created, members, registered, paid, answer>>

CreateEscrow(h) ==
  /\ handler[h].at = "submitting"
  /\ created < MaxEscrows
  /\ created' = created + 1
  /\ LET s == handler[h] IN
     escrows' = [escrows EXCEPT ![created + 1] =
       [council |-> s.council, channel |-> s.channel, amount |-> s.amount,
        status |-> "HELD", fee |-> 0]]
  /\ Ends(h)
  /\ UNCHANGED <<members, registered, paid, answer>>

-----------------------------------------------------------------------------
(* POST /council/escrow/:address/release.                                  *)

\* Mutant: released escrows are found again.
EveryEscrow == {e \in Ids : escrows[e] # NoRow}

\* findHeldForRecipient: over all councils and all channels.
Held == {e \in Ids : escrows[e] # NoRow /\ escrows[e].status = "HELD"}

\* Mutant: only the oldest.
OldestOnly(ch) ==
  {e \in Held : escrows[e].channel = ch /\ \A f \in Held : escrows[f].channel = ch => e <= f}

\* Those the loop does not skip.
OfChannel(ch) == {e \in Held : escrows[e].channel = ch}

\* The rows found are what the loop works on from here.  None: the answer is
\* zero and nothing changes.
FindHeld(h, ch) ==
  /\ handler[h] = Resting
  /\ Held # {}
  /\ Moves(h,
       [at |-> "checking", channel |-> ch, held |-> Held,
        todo |-> OfChannel(ch),
        amounts |-> [e \in Ids |-> IF e \in Held THEN escrows[e].amount ELSE 0],
        marked |-> {}, released |-> 0, fees |-> 0])
  /\ UNCHANGED <<escrows, created, members, registered, paid, answer>>

\* The recipient must be a user of the channel by now; no code suspends one.
CheckRecipient(h) ==
  /\ handler[h].at = "checking"
  /\ registered[handler[h].channel] # NobodyYet
  /\ Moves(h, [handler[h] EXCEPT !.at = "releasing"])
  /\ UNCHANGED <<escrows, created, members, registered, paid, answer>>

\* Mutants: a small escrow goes below zero; the fee comes on top.
Unclamped(amount) == amount - Fee
FeeOnTop(amount) == amount

ReleaseAmount(amount) == IF amount > Fee THEN amount - Fee ELSE 0

\* Mutant: the status goes unrecorded.
NoStatus(e) == [escrows[e] EXCEPT !.fee = Fee]

MarkedRow(e) == [escrows[e] EXCEPT !.status = "RELEASED", !.fee = Fee]

\* One turn of the loop: an UPDATE by id, whatever the row says by now; none
\* when the row is gone.
MarkReleased(h) ==
  /\ handler[h].at = "releasing"
  /\ LET r == handler[h] IN \E e \in r.todo :
     /\ \A f \in r.todo : e <= f
     /\ escrows' = IF escrows[e] = NoRow THEN escrows
                   ELSE [escrows EXCEPT ![e] = MarkedRow(e)]
     /\ Moves(h, [r EXCEPT !.todo = @ \ {e}, !.marked = @ \cup {e},
                           !.released = @ + ReleaseAmount(r.amounts[e]),
                           !.fees = @ + Fee])
  /\ UNCHANGED <<created, members, registered, paid, answer>>

AnswerRelease(h) ==
  /\ handler[h].at = "releasing"
  /\ handler[h].todo = {}
  /\ LET r == handler[h] IN
     /\ answer' = [marked |-> r.marked, amounts |-> r.amounts,
                   released |-> r.released, fees |-> r.fees]
     /\ paid' = [e \in Ids |-> IF e \in r.marked THEN paid[e] + 1 ELSE paid[e]]
  /\ Ends(h)
  /\ UNCHANGED <<escrows, created, members, registered>>

\* A check refuses, a statement fails, or the process dies: what the loop has
\* marked stays marked, and nobody gets the totals.
RequestFails(h) ==
  /\ handler[h] # Resting
  /\ Ends(h)
  /\ UNCHANGED <<escrows, created, members, registered, paid, answer>>

HandlerStep(h) ==
  \/ \E c \in Councils, ch \in Channels, amount \in Amounts : PostEscrow(h, c, ch, amount)
  \/ CreateEscrow(h)
  \/ \E ch \in Channels : FindHeld(h, ch)
  \/ CheckRecipient(h) \/ MarkReleased(h) \/ AnswerRelease(h)
  \/ RequestFails(h)

InRelease(h) == handler[h].at \in {"checking", "releasing"}
OneRelease == \A g, h \in Handlers : InRelease(g) /\ InRelease(h) => g = h

Next ==
  /\ \/ \E c \in Councils : ProviderJoins(c) \/ DeleteCouncil(c)
     \/ \E c \in Councils, ch \in Channels : RegisterRecipient(c, ch)
     \/ \E h \in Handlers : HandlerStep(h)
  /\ calm' = (calm /\ OneRelease')

Spec == Init /\ [][Next]_vars

-----------------------------------------------------------------------------
(* Properties.                                                             *)

\* Rows, requests and totals have their types.
EscrowTypeOK ==
  /\ escrows \in [Ids -> Escrow \cup {NoRow}]
  /\ created \in 0..MaxEscrows
  /\ members \subseteq Councils
  /\ registered \in [Channels -> Councils \cup {NobodyYet}]
  /\ handler \in [Handlers -> {Resting} \cup Submission \cup Release]
  /\ paid \in [Ids -> Nat]
  /\ answer \in {NoRow} \cup
        [marked : SUBSET Ids, amounts : [Ids -> Nat], released : Nat, fees : Nat]
  /\ calm \in BOOLEAN

\* An escrow that is released was charged, and one that is held was not.
FeeIffReleased ==
  \A e \in Ids : escrows[e] # NoRow =>
     (escrows[e].status = "RELEASED" <=> escrows[e].fee = Fee)

\* A release answers for nothing that is still held: whatever it counts is
\* marked, or went with its council (releaseEscrowsForRecipient).
NothingPaidIsHeld ==
  \A e \in Ids : paid[e] > 0 => escrows[e] = NoRow \/ escrows[e].status = "RELEASED"

\* An answered release leaves behind nothing of what it found in its channel.
ReleaseIsComplete ==
  [][\A h \in Handlers :
        handler[h].at = "releasing" /\ answer' # answer /\ handler'[h] = Resting
          => \A e \in handler[h].held :
                \/ escrows'[e] = NoRow
                \/ escrows'[e].channel # handler[h].channel
                \/ escrows'[e].status = "RELEASED"]_vars

\* The money of an escrow is given out once, over all answers, retries after
\* a failure included, unless two releases overlapped.
PaidOnceAlone == calm => \A e \in Ids : paid[e] <= 1

\* Why the properties above hold.  A release works on rows that exist or went
\* with their council; whatever it found in its channel it has marked or will
\* mark; and as long as no two releases met, nothing it works on is paid.
ReleaseKnows(h) ==
  /\ handler[h].held \subseteq 1..created
  /\ handler[h].todo \cup handler[h].marked \subseteq handler[h].held
  /\ \A e \in handler[h].held :
        \/ escrows[e] = NoRow \/ escrows[e].channel # handler[h].channel
        \/ e \in handler[h].todo \cup handler[h].marked
  /\ \A e \in handler[h].marked : escrows[e] = NoRow \/ escrows[e].status = "RELEASED"
  /\ calm => \A e \in handler[h].todo \cup handler[h].marked : paid[e] = 0

EscrowInvariant ==
  /\ EscrowTypeOK /\ NothingPaidIsHeld /\ PaidOnceAlone
  /\ \A e \in Ids : escrows[e] # NoRow \/ paid[e] > 0 => e <= created
  /\ calm => OneRelease
  /\ \A h \in Handlers : InRelease(h) => ReleaseKnows(h)

SumOf(amounts, marked) == MapThenSumSet(LAMBDA e : amounts[e], marked)

Balances(r) ==
  (\A e \in r.marked : r.amounts[e] >= Fee) =>
    r.released + r.fees = SumOf(r.amounts, r.marked)

\* The answer accounts for every stroop of the escrows it marked, if none of
\* them holds less than the fee.
TotalsBalance == answer # NoRow => Balances(answer)

\* Why: the totals follow the loop, which looks at no row twice.
TotalsInvariant ==
  /\ TotalsBalance
  /\ \A h \in Handlers : InRelease(h) =>
        handler[h].todo \cap handler[h].marked = {} /\ Balances(handler[h])
=============================================================================
