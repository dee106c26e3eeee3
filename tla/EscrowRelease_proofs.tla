------------------------ MODULE EscrowRelease_proofs ------------------------
(***************************************************************************)
(* Theorems about escrows, for any number of requests, escrows, amounts    *)
(* and any fee.                                                            *)
(***************************************************************************)
EXTENDS EscrowRelease, FiniteSetTheorems, TLAPS

States  == {Resting} \cup Submission \cup Release
Answers == [marked : SUBSET Ids, amounts : [Ids -> Nat], released : Nat, fees : Nat]

\* The phase of a request says what it carries.
LEMMA StatesByPhase ==
  ASSUME NEW s \in States
  PROVE  /\ s.at = "submitting" => s \in Submission
         /\ s.at \in {"checking", "releasing"} => s \in Release
         /\ s.at = "resting" <=> s = Resting
  BY DEF States, Resting, Submission, Release

\* What a release carries.
LEMMA ReleaseFields ==
  ASSUME NEW r \in Release
  PROVE  /\ r.channel \in Channels /\ r.held \subseteq Ids /\ r.todo \subseteq Ids
         /\ r.marked \subseteq Ids /\ r.amounts \in [Ids -> Nat]
         /\ r.released \in Nat /\ r.fees \in Nat
  BY DEF Release

\* Marking changes a row's status and fee, and nothing else of it.
LEMMA MarkedRowFields ==
  ASSUME NEW e \in Ids, escrows[e] \in Escrow
  PROVE  /\ MarkedRow(e) \in Escrow
         /\ MarkedRow(e).channel = escrows[e].channel
         /\ MarkedRow(e).status = "RELEASED"
         /\ MarkedRow(e).fee = Fee
  BY AmountsAssumption DEF MarkedRow, Escrow, Status

-----------------------------------------------------------------------------
(* Types.                                                                  *)

LEMMA EscrowTypeInit == Init => EscrowTypeOK
  BY AmountsAssumption DEF Init, EscrowTypeOK

TypesAfter ==
  /\ escrows' \in [Ids -> Escrow \cup {NoRow}]
  /\ created' \in 0..MaxEscrows
  /\ members' \subseteq Councils
  /\ registered' \in [Channels -> Councils \cup {NobodyYet}]
  /\ handler' \in [Handlers -> States]
  /\ paid' \in [Ids -> Nat]
  /\ answer' \in {NoRow} \cup Answers

\* A step of one request keeps the types.
LEMMA HandlerStepTypes ==
  ASSUME EscrowTypeOK, NEW h \in Handlers, HandlerStep(h)
  PROVE  TypesAfter
<1> USE DEF EscrowTypeOK, Moves, Ends, States, TypesAfter, Answers
<1>1. ASSUME NEW c \in Councils, NEW ch \in Channels, NEW amount \in Amounts,
             PostEscrow(h, c, ch, amount)
      PROVE  TypesAfter
  <2>1. [at |-> "submitting", council |-> c, channel |-> ch, amount |-> amount] \in Submission
    BY AmountsAssumption DEF Submission
  <2> QED
    BY <1>1, <2>1 DEF PostEscrow
<1>2. CASE CreateEscrow(h)
  <2>1. handler[h] \in Submission
    BY <1>2, StatesByPhase DEF CreateEscrow
  <2>2. [council |-> handler[h].council, channel |-> handler[h].channel,
         amount |-> handler[h].amount, status |-> "HELD", fee |-> 0] \in Escrow
    BY <2>1 DEF Submission, Escrow, Status
  <2>3. created + 1 \in Ids /\ created + 1 \in 0..MaxEscrows
    BY <1>2, AmountsAssumption DEF CreateEscrow, Ids
  <2> QED
    BY <1>2, <2>2, <2>3 DEF CreateEscrow
<1>3. ASSUME NEW ch \in Channels, FindHeld(h, ch)
      PROVE  TypesAfter
  <2> DEFINE amounts == [e \in Ids |-> IF e \in Held THEN escrows[e].amount ELSE 0]
  <2>1. Held \subseteq Ids /\ OfChannel(ch) \subseteq Ids
    BY DEF Held, OfChannel
  <2>2. amounts \in [Ids -> Nat]
    BY DEF Held, Escrow
  <2>3. [at |-> "checking", channel |-> ch, held |-> Held, todo |-> OfChannel(ch),
         amounts |-> amounts, marked |-> {}, released |-> 0, fees |-> 0] \in Release
    <3> HIDE DEF amounts
    <3> QED
      BY <2>1, <2>2 DEF Release
  <2> QED
    BY <1>3, <2>3 DEF FindHeld
<1>4. CASE CheckRecipient(h)
  <2>1. handler[h] \in Release
    BY <1>4, StatesByPhase DEF CheckRecipient
  <2>2. [handler[h] EXCEPT !.at = "releasing"] \in Release
    BY <2>1 DEF Release
  <2> QED
    BY <1>4, <2>2 DEF CheckRecipient
<1>5. CASE MarkReleased(h)
  <2>1. handler[h] \in Release
    BY <1>5, StatesByPhase DEF MarkReleased
  <2>2. PICK e \in handler[h].todo :
          /\ escrows' = IF escrows[e] = NoRow THEN escrows
                        ELSE [escrows EXCEPT ![e] = MarkedRow(e)]
          /\ Moves(h, [handler[h] EXCEPT
                         !.todo = @ \ {e}, !.marked = @ \cup {e},
                         !.released = @ + ReleaseAmount(handler[h].amounts[e]),
                         !.fees = @ + Fee])
    BY <1>5 DEF MarkReleased
  <2>3. e \in Ids /\ handler[h].amounts[e] \in Nat
    BY <2>1, ReleaseFields
  <2>4. ReleaseAmount(handler[h].amounts[e]) \in Nat
    BY <2>3, AmountsAssumption DEF ReleaseAmount
  <2>5. handler'[h] \in Release
    <3>1. handler[h].released + ReleaseAmount(handler[h].amounts[e]) \in Nat
      BY <2>1, <2>4, ReleaseFields
    <3>2. handler[h].fees + Fee \in Nat
      BY <2>1, ReleaseFields, AmountsAssumption
    <3> QED
      BY <2>1, <2>2, <2>3, <3>1, <3>2 DEF Release
  <2>6. escrows' \in [Ids -> Escrow \cup {NoRow}]
    BY <2>2, <2>3, MarkedRowFields
  <2> QED
    BY <1>5, <2>2, <2>5, <2>6 DEF MarkReleased
<1>6. CASE AnswerRelease(h)
  <2>1. handler[h] \in Release
    BY <1>6, StatesByPhase DEF AnswerRelease
  <2>2. answer' \in Answers
    BY <1>6, <2>1, ReleaseFields DEF AnswerRelease
  <2> QED
    BY <1>6, <2>2 DEF AnswerRelease
<1>7. CASE RequestFails(h)
  BY <1>7 DEF RequestFails
<1> QED
  BY <1>1, <1>2, <1>3, <1>4, <1>5, <1>6, <1>7 DEF HandlerStep

LEMMA EscrowTypeNext == EscrowTypeOK /\ [Next]_vars => EscrowTypeOK'
<1> SUFFICES ASSUME EscrowTypeOK, [Next]_vars
             PROVE  EscrowTypeOK'
  OBVIOUS
<1>1. CASE UNCHANGED vars
  BY <1>1 DEF EscrowTypeOK, vars
<1>2. CASE Next
  <2>1. calm' \in BOOLEAN
    BY <1>2 DEF Next
  <2>2. ASSUME NEW c \in Councils, ProviderJoins(c)
        PROVE  TypesAfter
    BY <2>2 DEF EscrowTypeOK, TypesAfter, ProviderJoins, States, Answers
  <2>3. ASSUME NEW c \in Councils, DeleteCouncil(c)
        PROVE  TypesAfter
    BY <2>3 DEF EscrowTypeOK, TypesAfter, DeleteCouncil, States, Answers
  <2>4. ASSUME NEW c \in Councils, NEW ch \in Channels, RegisterRecipient(c, ch)
        PROVE  TypesAfter
    BY <2>4 DEF EscrowTypeOK, TypesAfter, RegisterRecipient, States, Answers
  <2>5. TypesAfter
    BY <1>2, <2>2, <2>3, <2>4, HandlerStepTypes DEF Next
  <2> QED
    BY <2>1, <2>5 DEF EscrowTypeOK, TypesAfter, States, Answers
<1> QED
  BY <1>1, <1>2

\* Rows, requests and totals of escrow.service.ts have their types; no total
\* is ever negative.
THEOREM EscrowTypeCorrect == Spec => []EscrowTypeOK
  BY EscrowTypeInit, EscrowTypeNext, PTL DEF Spec

-----------------------------------------------------------------------------
(* Rows.                                                                   *)

\* A row that was created keeps its channel and is marked at most; once gone
\* it stays gone.
RowMoves(e) ==
  \/ escrows'[e] = escrows[e]
  \/ escrows'[e] = NoRow
  \/ /\ escrows[e] # NoRow
     /\ escrows'[e].channel = escrows[e].channel
     /\ escrows'[e].status = "RELEASED"

LEMMA RowsMove ==
  ASSUME EscrowTypeOK, Next
  PROVE  /\ created \in Nat /\ created' \in Nat /\ created <= created'
         /\ \A e \in Ids : e <= created \/ e > created' => RowMoves(e)
<1>0. created \in Nat
  BY AmountsAssumption DEF EscrowTypeOK
<1>1. ASSUME NEW c \in Councils, DeleteCouncil(c)
      PROVE  created' = created /\ \A e \in Ids : RowMoves(e)
  BY <1>1 DEF DeleteCouncil, RowMoves
<1>2. ASSUME NEW h \in Handlers, CreateEscrow(h)
      PROVE  /\ created' = created + 1
             /\ \A e \in Ids : e <= created \/ e > created' => escrows'[e] = escrows[e]
  BY <1>0, <1>2 DEF CreateEscrow, EscrowTypeOK, Ids
<1>3. ASSUME NEW h \in Handlers, MarkReleased(h)
      PROVE  created' = created /\ \A e \in Ids : RowMoves(e)
  <2>1. PICK e \in handler[h].todo :
          escrows' = IF escrows[e] = NoRow THEN escrows
                     ELSE [escrows EXCEPT ![e] = MarkedRow(e)]
    BY <1>3 DEF MarkReleased
  <2>2. handler[h] \in Release
    BY <1>3, StatesByPhase DEF MarkReleased, EscrowTypeOK, States
  <2>3. e \in Ids
    BY <2>2, ReleaseFields
  <2>4. CASE escrows[e] = NoRow
    BY <1>3, <2>1, <2>4 DEF MarkReleased, RowMoves
  <2>5. CASE escrows[e] # NoRow
    <3>1. escrows[e] \in Escrow
      BY <2>3, <2>5 DEF EscrowTypeOK
    <3>2. /\ escrows'[e] = MarkedRow(e)
          /\ \A f \in Ids \ {e} : escrows'[f] = escrows[f]
      BY <2>1, <2>3, <2>5 DEF EscrowTypeOK
    <3> QED
      BY <1>3, <2>3, <2>5, <3>1, <3>2, MarkedRowFields DEF MarkReleased, RowMoves
  <2> QED
    BY <2>4, <2>5
<1>4. \/ UNCHANGED <<escrows, created>>
      \/ \E c \in Councils : DeleteCouncil(c)
      \/ \E h \in Handlers : CreateEscrow(h) \/ MarkReleased(h)
  BY DEF Next, HandlerStep, ProviderJoins, RegisterRecipient, PostEscrow, FindHeld,
         CheckRecipient, AnswerRelease, RequestFails
<1>5. CASE UNCHANGED <<escrows, created>>
  BY <1>0, <1>5 DEF RowMoves
<1> QED
  BY <1>0, <1>1, <1>2, <1>3, <1>4, <1>5 DEF RowMoves

\* Every row ever created has the fee exactly when it is released.
LEMMA FeeNext ==
  ASSUME EscrowTypeOK, FeeIffReleased, [Next]_vars
  PROVE  FeeIffReleased'
<1> SUFFICES ASSUME NEW e \in Ids, escrows'[e] # NoRow, escrows'[e] # escrows[e]
             PROVE  escrows'[e].status = "RELEASED" <=> escrows'[e].fee = Fee
  BY DEF FeeIffReleased
<1>1. \/ \E h \in Handlers : CreateEscrow(h) \/ MarkReleased(h)
      \/ \E c \in Councils : DeleteCouncil(c)
  BY DEF Next, vars, HandlerStep, ProviderJoins, RegisterRecipient, PostEscrow, FindHeld,
         CheckRecipient, AnswerRelease, RequestFails
<1>2. ASSUME NEW h \in Handlers, CreateEscrow(h)
      PROVE  escrows'[e].status = "HELD" /\ escrows'[e].fee = 0
  BY <1>2 DEF CreateEscrow, EscrowTypeOK
<1>3. ASSUME NEW h \in Handlers, MarkReleased(h)
      PROVE  escrows'[e].status = "RELEASED" /\ escrows'[e].fee = Fee
  <2>1. escrows[e] \in Escrow /\ escrows'[e] = MarkedRow(e)
    BY <1>3 DEF MarkReleased, EscrowTypeOK
  <2> QED
    BY <2>1, MarkedRowFields
<1>4. ASSUME NEW c \in Councils, DeleteCouncil(c)
      PROVE  FALSE
  BY <1>4 DEF DeleteCouncil
<1> QED
  BY <1>1, <1>2, <1>3, <1>4, AmountsAssumption

\* Whatever overlaps, fails or is deleted, an escrow that is released was
\* charged and one that is held was not (releaseEscrowsForRecipient).
THEOREM ReleasedIsCharged == Spec => []FeeIffReleased
<1>1. Init => FeeIffReleased
  BY DEF Init, FeeIffReleased
<1>2. EscrowTypeOK /\ FeeIffReleased /\ [Next]_vars => FeeIffReleased'
  BY FeeNext
<1> QED
  BY <1>1, <1>2, EscrowTypeInit, EscrowTypeNext, PTL DEF Spec

-----------------------------------------------------------------------------
(* Releases.                                                               *)

\* A release that does not move still knows what it knew.
LEMMA OthersKnow ==
  ASSUME EscrowInvariant, Next, NEW g \in Handlers, InRelease(g), handler'[g] = handler[g],
         calm' => \A e \in handler[g].todo \cup handler[g].marked : paid'[e] = paid[e]
  PROVE  ReleaseKnows(g)'
<1>1. ReleaseKnows(g) /\ EscrowTypeOK /\ (calm' => calm)
  BY DEF EscrowInvariant, Next
<1>2. handler[g] \in Release
  BY <1>1, StatesByPhase DEF EscrowTypeOK, InRelease, States
<1>3. handler[g].held \subseteq Ids
  BY <1>2, ReleaseFields
<1>4. \A e \in handler[g].held : RowMoves(e)
  BY <1>1, <1>3, RowsMove DEF ReleaseKnows
<1>5. handler[g].held \subseteq 1..created'
  BY <1>1, RowsMove DEF ReleaseKnows
<1>6. \A e \in handler[g].held :
        \/ escrows'[e] = NoRow \/ escrows'[e].channel # handler[g].channel
        \/ e \in handler[g].todo \cup handler[g].marked
  BY <1>1, <1>4 DEF ReleaseKnows, RowMoves
<1>7. \A e \in handler[g].marked : escrows'[e] = NoRow \/ escrows'[e].status = "RELEASED"
  BY <1>1, <1>4 DEF ReleaseKnows, RowMoves
<1> QED
  BY <1>1, <1>5, <1>6, <1>7 DEF ReleaseKnows

\* Nothing is paid by a step other than an answer, and rows that are paid stay
\* out of HELD.
LEMMA UnpaidStep ==
  ASSUME EscrowInvariant, Next, UNCHANGED paid
  PROVE  /\ NothingPaidIsHeld' /\ PaidOnceAlone'
         /\ \A e \in Ids : escrows'[e] # NoRow \/ paid'[e] > 0 => e <= created'
<1>1. EscrowTypeOK /\ (calm' => calm)
  BY DEF EscrowInvariant, Next
<1>2. ASSUME NEW e \in Ids, paid[e] > 0
      PROVE  RowMoves(e) /\ e <= created'
  BY <1>1, <1>2, RowsMove DEF EscrowInvariant, Ids
<1>3. ASSUME NEW e \in Ids, escrows'[e] # NoRow
      PROVE  e <= created'
  <2>1. e > created' => RowMoves(e) /\ e > created
    BY <1>1, RowsMove DEF Ids
  <2>2. e > created => escrows[e] = NoRow
    BY <1>1, RowsMove DEF EscrowInvariant, Ids
  <2> QED
    BY <1>1, <1>3, <2>1, <2>2, RowsMove DEF RowMoves, Ids
<1> QED
  BY <1>1, <1>2, <1>3 DEF EscrowInvariant, NothingPaidIsHeld, PaidOnceAlone, RowMoves

\* The parts of the invariant that every step keeps, given what its own
\* request then knows.
KnownAfter(h) == InRelease(h)' => ReleaseKnows(h)'

LEMMA MoveKnows ==
  ASSUME EscrowInvariant, EscrowTypeOK', Next, NEW h \in Handlers, UNCHANGED paid,
         \A g \in Handlers \ {h} : handler'[g] = handler[g], KnownAfter(h)
  PROVE  EscrowInvariant'
<1>1. calm' => OneRelease'
  BY DEF Next
<1>2. \A g \in Handlers \ {h} : InRelease(g)' => ReleaseKnows(g)'
  BY OthersKnow DEF InRelease, EscrowInvariant
<1> QED
  BY <1>1, <1>2, UnpaidStep DEF EscrowInvariant, KnownAfter

\* The loop: what was to be looked at is marked, what was marked stays so.
LEMMA MarkKnows ==
  ASSUME EscrowInvariant, Next, NEW h \in Handlers, MarkReleased(h)
  PROVE  KnownAfter(h)
<1>0. EscrowTypeOK /\ ReleaseKnows(h) /\ (calm' => calm)
  BY DEF EscrowInvariant, MarkReleased, InRelease, Next
<1>1. handler[h] \in Release
  BY <1>0, StatesByPhase DEF MarkReleased, EscrowTypeOK, States
<1>2. PICK e \in handler[h].todo :
        /\ escrows' = IF escrows[e] = NoRow THEN escrows
                      ELSE [escrows EXCEPT ![e] = MarkedRow(e)]
        /\ Moves(h, [handler[h] EXCEPT
                       !.todo = @ \ {e}, !.marked = @ \cup {e},
                       !.released = @ + ReleaseAmount(handler[h].amounts[e]),
                       !.fees = @ + Fee])
  BY DEF MarkReleased
<1>3. /\ handler'[h].channel = handler[h].channel
      /\ handler'[h].held = handler[h].held
      /\ handler'[h].todo = handler[h].todo \ {e}
      /\ handler'[h].marked = handler[h].marked \cup {e}
  BY <1>0, <1>1, <1>2 DEF Moves, EscrowTypeOK, Release
<1>4. e \in Ids /\ handler[h].held \subseteq Ids
  BY <1>1, ReleaseFields
<1>5. \A f \in handler[h].held : RowMoves(f)
  BY <1>0, <1>4, RowsMove DEF ReleaseKnows
<1>6. escrows'[e] = NoRow \/ escrows'[e].status = "RELEASED"
  <2>1. CASE escrows[e] = NoRow
    BY <1>2, <2>1
  <2>2. CASE escrows[e] # NoRow
    <3>1. escrows[e] \in Escrow
      BY <1>0, <1>4, <2>2 DEF EscrowTypeOK
    <3>2. escrows'[e] = MarkedRow(e)
      BY <1>0, <1>2, <1>4, <2>2 DEF EscrowTypeOK
    <3> QED
      BY <1>4, <3>1, <3>2, MarkedRowFields
  <2> QED
    BY <2>1, <2>2
<1>7. \A f \in handler[h].marked : escrows'[f] = NoRow \/ escrows'[f].status = "RELEASED"
  BY <1>0, <1>5 DEF ReleaseKnows, RowMoves
<1>8. \A f \in handler[h].held :
        \/ escrows'[f] = NoRow \/ escrows'[f].channel # handler[h].channel
        \/ f \in handler[h].todo \cup handler[h].marked
  BY <1>0, <1>5 DEF ReleaseKnows, RowMoves
<1>9. created' = created /\ paid' = paid
  BY DEF MarkReleased
<1> QED
  BY <1>0, <1>3, <1>6, <1>7, <1>8, <1>9 DEF ReleaseKnows, KnownAfter

\* The rows a release finds are held, so nobody has counted them.
LEMMA FindKnows ==
  ASSUME EscrowInvariant, Next, NEW h \in Handlers, NEW ch \in Channels, FindHeld(h, ch)
  PROVE  KnownAfter(h)
<1>0. EscrowTypeOK /\ NothingPaidIsHeld /\ (calm' => calm)
  BY DEF EscrowInvariant, Next
<1>1. /\ handler'[h].channel = ch
      /\ handler'[h].held = Held
      /\ handler'[h].todo = OfChannel(ch)
      /\ handler'[h].marked = {}
  BY <1>0 DEF FindHeld, Moves, EscrowTypeOK
<1>2. created' = created /\ paid' = paid /\ escrows' = escrows
  BY DEF FindHeld
<1>3. \A e \in Held : paid[e] = 0
  BY <1>0 DEF Held, NothingPaidIsHeld, EscrowTypeOK
<1>4. Held \subseteq 1..created
  BY DEF EscrowInvariant, Held, Ids
<1> QED
  BY <1>1, <1>2, <1>3, <1>4 DEF ReleaseKnows, KnownAfter, OfChannel

\* An answer: what it counts is marked, and if releases never met it is the
\* first to count it.
LEMMA AnswerKnows ==
  ASSUME EscrowInvariant, EscrowTypeOK', Next, NEW h \in Handlers, AnswerRelease(h)
  PROVE  EscrowInvariant'
<1>0. /\ EscrowTypeOK /\ NothingPaidIsHeld /\ PaidOnceAlone /\ ReleaseKnows(h)
      /\ (calm' => calm) /\ (calm => OneRelease) /\ (calm' => OneRelease') /\ InRelease(h)
  BY DEF EscrowInvariant, AnswerRelease, InRelease, Next
<1>1. handler[h] \in Release
  BY <1>0, StatesByPhase DEF AnswerRelease, EscrowTypeOK, States
<1>2. /\ paid' = [e \in Ids |-> IF e \in handler[h].marked THEN paid[e] + 1 ELSE paid[e]]
      /\ handler' = [handler EXCEPT ![h] = Resting]
      /\ escrows' = escrows /\ created' = created
  BY DEF AnswerRelease, Ends, Moves
<1>3. \A e \in Ids : e \notin handler[h].marked => paid'[e] = paid[e]
  BY <1>2
<1>4. ASSUME NEW e \in handler[h].marked
      PROVE  /\ escrows[e] = NoRow \/ escrows[e].status = "RELEASED"
             /\ e <= created
             /\ calm => paid'[e] = 1
  <2>1. e \in Ids
    BY <1>1, ReleaseFields
  <2> QED
    BY <1>0, <1>2, <2>1 DEF ReleaseKnows
<1>5. NothingPaidIsHeld' /\ PaidOnceAlone'
  BY <1>0, <1>2, <1>3, <1>4 DEF NothingPaidIsHeld, PaidOnceAlone
<1>6. \A e \in Ids : escrows'[e] # NoRow \/ paid'[e] > 0 => e <= created'
  BY <1>2, <1>3, <1>4 DEF EscrowInvariant
<1>7. ASSUME NEW g \in Handlers, InRelease(g)'
      PROVE  ReleaseKnows(g)'
  <2>1. g # h
    BY <1>0, <1>2, <1>7 DEF InRelease, Resting, EscrowTypeOK
  <2>2. handler'[g] = handler[g]
    BY <1>0, <1>2, <2>1 DEF EscrowTypeOK
  <2>3. InRelease(g)
    BY <1>7, <2>2 DEF InRelease
  <2>4. ~calm'
    BY <1>0, <2>1, <2>3 DEF OneRelease
  <2> QED
    BY <2>2, <2>3, <2>4, OthersKnow
<1> QED
  BY <1>0, <1>5, <1>6, <1>7 DEF EscrowInvariant

LEMMA EscrowInit == Init => EscrowInvariant
  BY EscrowTypeInit
     DEF Init, EscrowInvariant, NothingPaidIsHeld, PaidOnceAlone, OneRelease, InRelease, Resting

LEMMA EscrowNext == EscrowInvariant /\ [Next]_vars => EscrowInvariant'
<1> SUFFICES ASSUME EscrowInvariant, [Next]_vars
             PROVE  EscrowInvariant'
  OBVIOUS
<1>0. EscrowTypeOK /\ EscrowTypeOK'
  BY EscrowTypeNext DEF EscrowInvariant
<1>1. CASE UNCHANGED vars
  BY <1>0, <1>1 DEF EscrowInvariant, vars, NothingPaidIsHeld, PaidOnceAlone, OneRelease,
                    InRelease, ReleaseKnows
<1>2. ASSUME Next, UNCHANGED <<handler, paid>>
      PROVE  EscrowInvariant'
  <2>1. \A g \in Handlers : InRelease(g)' => ReleaseKnows(g)'
    BY <1>2, OthersKnow DEF InRelease
  <2> QED
    BY <1>0, <1>2, <2>1, UnpaidStep DEF EscrowInvariant, Next
<1>3. ASSUME Next, NEW h \in Handlers, HandlerStep(h)
      PROVE  EscrowInvariant'
  <2>1. CASE AnswerRelease(h)
    BY <1>0, <1>3, <2>1, AnswerKnows
  <2>2. CASE ~AnswerRelease(h)
    <3>1. paid' = paid /\ \A g \in Handlers \ {h} : handler'[g] = handler[g]
      BY <1>0, <1>3, <2>2 DEF HandlerStep, PostEscrow, CreateEscrow, FindHeld, CheckRecipient,
           MarkReleased, RequestFails, Moves, Ends, EscrowTypeOK
    <3>2. ASSUME NEW ch \in Channels, FindHeld(h, ch)
          PROVE  KnownAfter(h)
      BY <1>3, <3>2, FindKnows
    <3>3. ASSUME MarkReleased(h)
          PROVE  KnownAfter(h)
      BY <1>3, <3>3, MarkKnows
    <3>4. ASSUME CheckRecipient(h)
          PROVE  KnownAfter(h)
      <4>1. handler[h] \in Release
        BY <1>0, <3>4, StatesByPhase DEF CheckRecipient, EscrowTypeOK, States
      <4>2. /\ handler'[h].channel = handler[h].channel
            /\ handler'[h].held = handler[h].held
            /\ handler'[h].todo = handler[h].todo
            /\ handler'[h].marked = handler[h].marked
        BY <1>0, <3>4, <4>1 DEF CheckRecipient, Moves, EscrowTypeOK, Release
      <4>3. ReleaseKnows(h) /\ (calm' => calm)
        BY <1>3, <3>4 DEF EscrowInvariant, InRelease, CheckRecipient, Next
      <4>4. UNCHANGED <<escrows, created, paid>>
        BY <3>4 DEF CheckRecipient
      <4> QED
        BY <4>2, <4>3, <4>4 DEF ReleaseKnows, KnownAfter
    <3>5. ASSUME \/ \E c \in Councils, ch \in Channels, amount \in Amounts :
                       PostEscrow(h, c, ch, amount)
                 \/ CreateEscrow(h) \/ RequestFails(h)
          PROVE  KnownAfter(h)
      BY <1>0, <3>5 DEF PostEscrow, CreateEscrow, RequestFails, Moves, Ends, Resting,
                        EscrowTypeOK, KnownAfter, InRelease
    <3>6. KnownAfter(h)
      BY <1>3, <2>2, <3>2, <3>3, <3>4, <3>5 DEF HandlerStep
    <3> QED
      BY <1>0, <1>3, <3>1, <3>6, MoveKnows
  <2> QED
    BY <2>1, <2>2
<1>4. CASE Next
  <2>1. (\E h \in Handlers : HandlerStep(h)) \/ UNCHANGED <<handler, paid>>
    BY <1>4 DEF Next, ProviderJoins, DeleteCouncil, RegisterRecipient
  <2> QED
    BY <1>2, <1>3, <1>4, <2>1
<1> QED
  BY <1>1, <1>4

\* Whatever an answer counted is released, or went with its council
\* (releaseEscrowsForRecipient), also when releases overlap or fail half way.
THEOREM PaidIsNotHeld == Spec => []NothingPaidIsHeld
<1>1. EscrowInvariant => NothingPaidIsHeld
  BY DEF EscrowInvariant
<1> QED
  BY <1>1, EscrowInit, EscrowNext, PTL DEF Spec

\* If no two releases ever overlap, no escrow is counted by two answers,
\* however many releases follow one another or fail (findHeldForRecipient).
THEOREM PaidAtMostOnce == Spec => []PaidOnceAlone
<1>1. EscrowInvariant => PaidOnceAlone
  BY DEF EscrowInvariant
<1> QED
  BY <1>1, EscrowInit, EscrowNext, PTL DEF Spec

\* A release that answers leaves nothing held of what it found in its channel
\* (the loop of releaseEscrowsForRecipient).
THEOREM ReleasesAreComplete == Spec => ReleaseIsComplete
<1>1. EscrowInvariant /\ [Next]_vars =>
        [\A h \in Handlers :
            handler[h].at = "releasing" /\ answer' # answer /\ handler'[h] = Resting
              => \A e \in handler[h].held :
                    \/ escrows'[e] = NoRow
                    \/ escrows'[e].channel # handler[h].channel
                    \/ escrows'[e].status = "RELEASED"]_vars
  <2> SUFFICES ASSUME EscrowInvariant, Next, NEW h \in Handlers,
                      handler[h].at = "releasing", answer' # answer, handler'[h] = Resting,
                      NEW e \in handler[h].held
               PROVE  \/ escrows'[e] = NoRow
                      \/ escrows'[e].channel # handler[h].channel
                      \/ escrows'[e].status = "RELEASED"
    OBVIOUS
  <2>1. PICK g \in Handlers : AnswerRelease(g)
    BY DEF Next, HandlerStep, ProviderJoins, DeleteCouncil, RegisterRecipient, PostEscrow,
           CreateEscrow, FindHeld, CheckRecipient, MarkReleased, RequestFails
  <2>2. g = h
    BY <2>1 DEF AnswerRelease, Ends, Moves, Resting, EscrowInvariant, EscrowTypeOK
  <2>3. handler[h].todo = {} /\ escrows' = escrows
    BY <2>1, <2>2 DEF AnswerRelease
  <2>4. ReleaseKnows(h)
    BY DEF EscrowInvariant, InRelease
  <2> QED
    BY <2>3, <2>4 DEF ReleaseKnows
<1> QED
  BY <1>1, EscrowInit, EscrowNext, PTL DEF Spec, ReleaseIsComplete

-----------------------------------------------------------------------------
(* Sums.  Induction over the subsets of a finite set comes from a minimal  *)
(* counterexample; a sum of amounts is then the number of its stroops.     *)

\* A family of sets that grows element by element has every subset of S.
LEMMA SubsetInduction ==
  ASSUME NEW S, IsFiniteSet(S), NEW Good \in SUBSET SUBSET S, {} \in Good,
         \A T \in SUBSET S : (\A x \in T : T \ {x} \in Good) => T \in Good
  PROVE  \A T \in SUBSET S : T \in Good
<1> SUFFICES ASSUME (SUBSET S) \ Good # {}
             PROVE  FALSE
  OBVIOUS
<1>1. IsWellFoundedOn(StrictSubsetOrdering(S), SUBSET S)
  <2>1. IsWellFoundedOn(StrictSubsetOrdering(S), FiniteSubsetsOf(S))
    BY FS_StrictSubsetOrderingWellFounded, Zenon
  <2>2. FiniteSubsetsOf(S) = SUBSET S
    BY FS_FiniteSubsetsOfFinite, Zenon
  <2> QED
    BY <2>1, <2>2, Zenon
<1>2. PICK T \in (SUBSET S) \ Good : \A U \in (SUBSET S) \ Good :
         <<U, T>> \notin StrictSubsetOrdering(S)
  <2> DEFINE Bad == (SUBSET S) \ Good
  <2>1. Bad \subseteq SUBSET S /\ Bad # {}
    OBVIOUS
  <2> HIDE DEF Bad
  <2>2. \E T \in Bad : \A U \in Bad : ~(<<U, T>> \in StrictSubsetOrdering(S))
    BY <1>1, <2>1, WFMin
  <2> QED
    BY <2>2 DEF Bad
<1>3. PICK x \in T : T \ {x} \notin Good
  BY <1>2
<1>4. <<T \ {x}, T>> \in StrictSubsetOrdering(S)
  BY <1>2, <1>3 DEF StrictSubsetOrdering
<1> QED
  BY <1>2, <1>3, <1>4

\* The amounts of a set of escrows, stroop by stroop.
StroopsOf(a, x) == {x} \X (1..a[x])
Stroops(a, S) == {u \in S \X Nat : u[2] \in 1..a[u[1]]}

\* The stroops of one escrow are apart from those of the others.
LEMMA StroopsOfOne ==
  ASSUME NEW S, NEW a \in [S -> Nat], NEW T \in SUBSET S, NEW x \in T
  PROVE  /\ Stroops(a, T) = Stroops(a, T \ {x}) \cup StroopsOf(a, x)
         /\ Stroops(a, T \ {x}) \cap StroopsOf(a, x) = {}
         /\ IsFiniteSet(StroopsOf(a, x)) /\ Cardinality(StroopsOf(a, x)) = a[x]
<1>1. a[x] \in Nat /\ x \in S
  OBVIOUS
<1>2. ASSUME NEW u
      PROVE  u \in Stroops(a, T) <=> u \in Stroops(a, T \ {x}) \cup StroopsOf(a, x)
  BY <1>1 DEF Stroops, StroopsOf
<1>3. Stroops(a, T \ {x}) \cap StroopsOf(a, x) = {}
  BY DEF Stroops, StroopsOf
<1>4. IsFiniteSet({x}) /\ Cardinality({x}) = 1
  BY FS_Singleton
<1>5. IsFiniteSet(1..a[x]) /\ Cardinality(1..a[x]) = a[x]
  BY <1>1, FS_Interval
<1>6. IsFiniteSet(StroopsOf(a, x)) /\ Cardinality(StroopsOf(a, x)) = 1 * a[x]
  <2> DEFINE One == {x}
             Amount == 1..a[x]
  <2>1. /\ IsFiniteSet(One) /\ Cardinality(One) = 1
        /\ IsFiniteSet(Amount) /\ Cardinality(Amount) = a[x]
    BY <1>4, <1>5
  <2>2. StroopsOf(a, x) = One \X Amount
    BY DEF StroopsOf
  <2> HIDE DEF One, Amount
  <2>3. /\ IsFiniteSet(One \X Amount)
        /\ Cardinality(One \X Amount) = Cardinality(One) * Cardinality(Amount)
    BY <2>1, FS_Product
  <2> QED
    BY <2>1, <2>2, <2>3
<1>7. Stroops(a, T) = Stroops(a, T \ {x}) \cup StroopsOf(a, x)
  BY <1>2
<1>8. 1 * a[x] = a[x]
  BY <1>1
<1> QED
  BY <1>3, <1>6, <1>7, <1>8, Zenon

\* Finitely many escrows hold finitely many stroops.
LEMMA StroopsAreFinite ==
  ASSUME NEW S, IsFiniteSet(S), NEW a \in [S -> Nat], NEW T \in SUBSET S
  PROVE  IsFiniteSet(Stroops(a, T)) /\ Cardinality(Stroops(a, T)) \in Nat
<1> DEFINE Good == {U \in SUBSET S : IsFiniteSet(Stroops(a, U))}
<1>1. {} \in Good
  <2>1. Stroops(a, {}) = {}
    BY DEF Stroops
  <2> QED
    BY <2>1, FS_EmptySet
<1>2. ASSUME NEW U \in SUBSET S, \A x \in U : U \ {x} \in Good
      PROVE  U \in Good
  <2> SUFFICES ASSUME NEW x \in U
               PROVE  U \in Good
    BY <1>1
  <2>1. IsFiniteSet(Stroops(a, U \ {x}))
    BY <1>2
  <2>2. Stroops(a, U) = Stroops(a, U \ {x}) \cup StroopsOf(a, x) /\ IsFiniteSet(StroopsOf(a, x))
    BY StroopsOfOne
  <2>3. IsFiniteSet(Stroops(a, U \ {x}) \cup StroopsOf(a, x))
    BY <2>1, <2>2, FS_Union
  <2> QED
    BY <2>2, <2>3
<1>3. Good \in SUBSET SUBSET S
  OBVIOUS
<1> HIDE DEF Good
<1>4. T \in Good
  BY <1>1, <1>2, <1>3, SubsetInduction
<1> QED
  BY <1>4, FS_CardinalityType DEF Good

\* Two sets that do not meet are counted one after the other.
LEMMA DisjointCount ==
  ASSUME NEW R, NEW O, IsFiniteSet(R), IsFiniteSet(O), R \cap O = {}
  PROVE  Cardinality(R \cup O) = Cardinality(O) + Cardinality(R)
<1>1. Cardinality(R \cap O) = 0
  BY FS_EmptySet
<1>2. Cardinality(R) \in Nat /\ Cardinality(O) \in Nat
  BY FS_CardinalityType
<1>3. Cardinality(R \cup O) = Cardinality(R) + Cardinality(O) - Cardinality(R \cap O)
  BY FS_Union
<1> QED
  BY <1>1, <1>2, <1>3

\* Without one escrow there are its stroops fewer.
LEMMA StroopsWithout ==
  ASSUME NEW S, IsFiniteSet(S), NEW a \in [S -> Nat], NEW T \in SUBSET S, NEW x \in T
  PROVE  Cardinality(Stroops(a, T)) = a[x] + Cardinality(Stroops(a, T \ {x}))
<1>1. IsFiniteSet(Stroops(a, T \ {x}))
  BY StroopsAreFinite
<1>2. /\ Stroops(a, T) = Stroops(a, T \ {x}) \cup StroopsOf(a, x)
      /\ Stroops(a, T \ {x}) \cap StroopsOf(a, x) = {}
      /\ IsFiniteSet(StroopsOf(a, x)) /\ Cardinality(StroopsOf(a, x)) = a[x]
  BY StroopsOfOne
<1>3. Cardinality(Stroops(a, T \ {x}) \cup StroopsOf(a, x))
        = Cardinality(StroopsOf(a, x)) + Cardinality(Stroops(a, T \ {x}))
  BY <1>1, <1>2, DisjointCount
<1> QED
  BY <1>2, <1>3, Zenon

\* Whatever order MapThenSumSet picks, it counts the stroops.
LEMMA SumIsCardinality ==
  ASSUME NEW S, IsFiniteSet(S), NEW a \in [S -> Nat], NEW W \in SUBSET S
  PROVE  MapThenSumSet(LAMBDA e : a[e], W) = Cardinality(Stroops(a, W))
<1> DEFINE Pick(T) == CHOOSE x \in T : TRUE
           Turn(sum, T) == IF T = {} THEN 0 ELSE a[Pick(T)] + sum[T \ {Pick(T)}]
           Fixed(sum) == sum = [T \in SUBSET W |-> Turn(sum, T)]
           Sum == CHOOSE sum : Fixed(sum)
           Count == [T \in SUBSET W |-> Cardinality(Stroops(a, T))]
<1>1. MapThenSumSet(LAMBDA e : a[e], W) = Sum[W]
  BY Zenon DEF MapThenSumSet, MapThenFoldSet
<1>2. ASSUME NEW T \in SUBSET W, T # {}
      PROVE  Pick(T) \in T
  BY <1>2
<1> HIDE DEF Pick
<1>3. ASSUME NEW T \in SUBSET W
      PROVE  Cardinality(Stroops(a, T)) = Turn(Count, T)
  <2>1. CASE T = {}
    <3>1. Stroops(a, T) = {}
      BY <2>1 DEF Stroops
    <3> QED
      BY <2>1, <3>1, FS_EmptySet
  <2>2. CASE T # {}
    <3> DEFINE x == Pick(T)
               U == T \ {x}
    <3>1. x \in T
      BY <1>2, <2>2
    <3> HIDE DEF x
    <3>2. U \in SUBSET W
      OBVIOUS
    <3>3. /\ IsFiniteSet(Stroops(a, U)) /\ Cardinality(Stroops(a, U)) \in Nat
          /\ Count[U] = Cardinality(Stroops(a, U))
      BY <3>2, StroopsAreFinite
    <3>4. Cardinality(Stroops(a, T)) = a[x] + Cardinality(Stroops(a, U))
      BY <3>1, StroopsWithout
    <3> QED
      BY <2>2, <3>3, <3>4 DEF x
  <2> QED
    BY <2>1, <2>2
<1>4. Fixed(Count)
  BY <1>3
<1>5. Fixed(Sum)
  <2> HIDE DEF Fixed
  <2> QED
    BY <1>4
<1> HIDE DEF Sum, Count
<1> DEFINE Good == {T \in SUBSET W : Sum[T] = Count[T]}
<1>6. {} \in Good
  BY <1>4, <1>5
<1>7. ASSUME NEW T \in SUBSET W, \A x \in T : T \ {x} \in Good
      PROVE  T \in Good
  <2>1. T = {} \/ Sum[T \ {Pick(T)}] = Count[T \ {Pick(T)}]
    BY <1>2, <1>7
  <2>2. Turn(Sum, T) = Turn(Count, T)
    BY <2>1
  <2> HIDE DEF Turn
  <2> QED
    BY <1>4, <1>5, <2>2
<1>8. Good \in SUBSET SUBSET W /\ W \in SUBSET W /\ IsFiniteSet(W)
  BY FS_Subset
<1>9. W \in Good
  <2> HIDE DEF Good
  <2> QED
    BY <1>6, <1>7, <1>8, SubsetInduction
<1>10. Sum[W] = Cardinality(Stroops(a, W))
  BY <1>9 DEF Count
<1> QED
  BY <1>1, <1>10

\* One escrow more brings its amount.
LEMMA SumOfMore ==
  ASSUME NEW S, IsFiniteSet(S), NEW a \in [S -> Nat], NEW T \in SUBSET S, NEW x \in S, x \notin T
  PROVE  Cardinality(Stroops(a, T \cup {x})) = Cardinality(Stroops(a, T)) + a[x]
<1>1. (T \cup {x}) \ {x} = T
  OBVIOUS
<1>2. Cardinality(Stroops(a, T)) \in Nat /\ a[x] \in Nat
  BY StroopsAreFinite
<1>3. T \cup {x} \in SUBSET S /\ x \in T \cup {x}
  OBVIOUS
<1>4. Cardinality(Stroops(a, T \cup {x})) = a[x] + Cardinality(Stroops(a, (T \cup {x}) \ {x}))
  BY <1>3, StroopsWithout
<1>5. Cardinality(Stroops(a, T \cup {x})) = a[x] + Cardinality(Stroops(a, T))
  BY <1>1, <1>4, Zenon
<1> DEFINE c == Cardinality(Stroops(a, T))
           v == a[x]
<1> HIDE DEF c, v
<1>6. v + c = c + v
  BY <1>2 DEF c, v
<1> QED
  BY <1>5, <1>6, Zenon DEF c, v


\* The same of the escrows a release marked.
LEMMA SumOfMarked ==
  ASSUME NEW a \in [Ids -> Nat], NEW es \in SUBSET Ids
  PROVE  SumOf(a, es) \in Nat /\ SumOf(a, es) = Cardinality(Stroops(a, es))
<1>1. IsFiniteSet(Ids)
  BY AmountsAssumption, FS_Interval DEF Ids
<1>2. MapThenSumSet(LAMBDA e : a[e], es) = Cardinality(Stroops(a, es))
  BY <1>1, SumIsCardinality
<1>3. Cardinality(Stroops(a, es)) \in Nat
  BY <1>1, StroopsAreFinite
<1>4. SumOf(a, es) = Cardinality(Stroops(a, es))
  BY <1>2, Zenon DEF SumOf
<1> QED
  BY <1>3, <1>4

LEMMA SumOfNone ==
  ASSUME NEW a \in [Ids -> Nat]
  PROVE  SumOf(a, {}) = 0
<1>1. Stroops(a, {}) = {}
  BY DEF Stroops
<1>2. Cardinality({}) = 0
  BY FS_EmptySet
<1> QED
  BY <1>1, <1>2, SumOfMarked

LEMMA SumOfOneMore ==
  ASSUME NEW a \in [Ids -> Nat], NEW es \in SUBSET Ids, NEW e \in Ids, e \notin es
  PROVE  SumOf(a, es \cup {e}) = SumOf(a, es) + a[e]
<1>1. IsFiniteSet(Ids)
  BY AmountsAssumption, FS_Interval DEF Ids
<1>2. Cardinality(Stroops(a, es \cup {e})) = Cardinality(Stroops(a, es)) + a[e]
  BY <1>1, SumOfMore
<1>3. es \cup {e} \in SUBSET Ids
  OBVIOUS
<1>4. /\ SumOf(a, es) = Cardinality(Stroops(a, es))
      /\ SumOf(a, es \cup {e}) = Cardinality(Stroops(a, es \cup {e}))
  BY <1>3, SumOfMarked
<1> QED
  BY <1>2, <1>4, Zenon

-----------------------------------------------------------------------------
(* Totals.                                                                 *)

\* What a release counts for an escrow of at least the fee is its amount.
LEMMA CountedInFull ==
  ASSUME NEW amount \in Nat, amount >= Fee
  PROVE  ReleaseAmount(amount) \in Nat /\ ReleaseAmount(amount) + Fee = amount
  BY AmountsAssumption DEF ReleaseAmount

\* The loop adds the row it marks to the totals, once.
LEMMA MarkBalances ==
  ASSUME NEW r \in Release, NEW e \in r.todo, r.todo \cap r.marked = {}, Balances(r),
         NEW s \in Release, s.amounts = r.amounts, s.marked = r.marked \cup {e},
         s.released = r.released + ReleaseAmount(r.amounts[e]), s.fees = r.fees + Fee
  PROVE  Balances(s)
<1> SUFFICES ASSUME \A f \in s.marked : s.amounts[f] >= Fee
             PROVE  s.released + s.fees = SumOf(s.amounts, s.marked)
  BY DEF Balances
<1>1. /\ r.amounts \in [Ids -> Nat] /\ r.marked \in SUBSET Ids /\ e \in Ids
      /\ e \notin r.marked /\ r.released \in Nat /\ r.fees \in Nat
  BY ReleaseFields
<1>2. r.released + r.fees = SumOf(r.amounts, r.marked)
  BY DEF Balances
<1>3. /\ r.amounts[e] \in Nat /\ ReleaseAmount(r.amounts[e]) \in Nat
      /\ ReleaseAmount(r.amounts[e]) + Fee = r.amounts[e]
  BY <1>1, CountedInFull
<1>4. SumOf(s.amounts, s.marked) = SumOf(r.amounts, r.marked) + r.amounts[e]
  BY <1>1, SumOfOneMore
<1>5. Fee \in Nat
  BY AmountsAssumption
<1>6. s.released + s.fees = (r.released + r.fees) + r.amounts[e]
  BY <1>1, <1>3, <1>5
<1> QED
  BY <1>2, <1>4, <1>6, Zenon

TotalsAfter(h) ==
  InRelease(h)' => handler'[h].todo \cap handler'[h].marked = {} /\ Balances(handler'[h])

LEMMA HandlerTotals ==
  ASSUME EscrowTypeOK, EscrowTypeOK', TotalsInvariant, NEW h \in Handlers, HandlerStep(h)
  PROVE  TotalsAfter(h) /\ TotalsBalance'
<1>0. /\ handler \in [Handlers -> States] /\ handler'[h] \in States
      /\ paid \in [Ids -> Nat]
  BY DEF EscrowTypeOK, States
<1>1. InRelease(h) => /\ handler[h].todo \cap handler[h].marked = {} /\ Balances(handler[h])
                      /\ handler[h] \in Release
  BY <1>0, StatesByPhase DEF TotalsInvariant, InRelease
<1>2. answer' = answer => TotalsBalance'
  BY DEF TotalsInvariant, TotalsBalance, Balances
<1>3. CASE \/ \E c \in Councils, ch \in Channels, amount \in Amounts :
                PostEscrow(h, c, ch, amount)
           \/ CreateEscrow(h) \/ RequestFails(h)
  BY <1>0, <1>2, <1>3 DEF PostEscrow, CreateEscrow, RequestFails, Moves, Ends, Resting,
                          TotalsAfter, InRelease
<1>4. ASSUME NEW ch \in Channels, FindHeld(h, ch)
      PROVE  TotalsAfter(h) /\ TotalsBalance'
  <2>1. answer' = answer
    BY <1>4 DEF FindHeld
  <2>2. /\ handler'[h].at = "checking" /\ handler'[h].marked = {}
        /\ handler'[h].released = 0 /\ handler'[h].fees = 0
    BY <1>0, <1>4 DEF FindHeld, Moves
  <2>3. handler'[h].amounts \in [Ids -> Nat]
    BY <1>0, <2>2, StatesByPhase, ReleaseFields
  <2>4. SumOf(handler'[h].amounts, handler'[h].marked) = 0
    BY <2>2, <2>3, SumOfNone
  <2> QED
    BY <1>2, <2>1, <2>2, <2>4 DEF TotalsAfter, Balances
<1>5. CASE CheckRecipient(h)
  <2>1. answer' = answer /\ InRelease(h)
    BY <1>5 DEF CheckRecipient, InRelease
  <2>2. /\ handler'[h].todo = handler[h].todo /\ handler'[h].marked = handler[h].marked
        /\ handler'[h].amounts = handler[h].amounts
        /\ handler'[h].released = handler[h].released /\ handler'[h].fees = handler[h].fees
    BY <1>0, <1>1, <1>5, <2>1 DEF CheckRecipient, Moves, Release
  <2> QED
    BY <1>1, <1>2, <2>1, <2>2 DEF TotalsAfter, Balances
<1>6. CASE MarkReleased(h)
  <2>1. answer' = answer /\ InRelease(h) /\ handler[h].at = "releasing"
    BY <1>6 DEF MarkReleased, InRelease
  <2>2. PICK e \in handler[h].todo :
          Moves(h, [handler[h] EXCEPT
            !.todo = @ \ {e}, !.marked = @ \cup {e},
            !.released = @ + ReleaseAmount(handler[h].amounts[e]), !.fees = @ + Fee])
    BY <1>6 DEF MarkReleased
  <2>3. /\ handler'[h].todo = handler[h].todo \ {e}
        /\ handler'[h].marked = handler[h].marked \cup {e}
        /\ handler'[h].amounts = handler[h].amounts
        /\ handler'[h].released = handler[h].released + ReleaseAmount(handler[h].amounts[e])
        /\ handler'[h].fees = handler[h].fees + Fee
        /\ handler'[h].at = "releasing"
    BY <1>0, <1>1, <2>1, <2>2 DEF Moves, Release
  <2>4. handler'[h] \in Release
    BY <1>0, <2>3, StatesByPhase
  <2>5. Balances(handler'[h])
    <3> DEFINE r == handler[h]
               s == handler'[h]
    <3>1. /\ r \in Release /\ e \in r.todo /\ r.todo \cap r.marked = {} /\ Balances(r)
          /\ s \in Release /\ s.amounts = r.amounts /\ s.marked = r.marked \cup {e}
          /\ s.released = r.released + ReleaseAmount(r.amounts[e]) /\ s.fees = r.fees + Fee
      BY <1>1, <2>1, <2>3, <2>4
    <3> HIDE DEF r, s
    <3>2. Balances(s)
      BY <3>1, MarkBalances
    <3> QED
      BY <3>2 DEF s
  <2> QED
    BY <1>1, <1>2, <2>1, <2>3, <2>5 DEF TotalsAfter
<1>7. CASE AnswerRelease(h)
  <2>1. /\ InRelease(h) /\ handler'[h] = Resting
        /\ answer'.marked = handler[h].marked /\ answer'.amounts = handler[h].amounts
        /\ answer'.released = handler[h].released /\ answer'.fees = handler[h].fees
    BY <1>0, <1>7 DEF AnswerRelease, InRelease, Ends, Moves
  <2> QED
    BY <1>1, <2>1 DEF TotalsAfter, InRelease, Resting, TotalsBalance, Balances
<1> QED
  BY <1>3, <1>4, <1>5, <1>6, <1>7 DEF HandlerStep

LEMMA TotalsInit == Init => TotalsInvariant
  BY DEF Init, TotalsInvariant, TotalsBalance, InRelease, Resting

LEMMA TotalsNext ==
  EscrowTypeOK /\ EscrowTypeOK' /\ TotalsInvariant /\ [Next]_vars => TotalsInvariant'
<1> SUFFICES ASSUME EscrowTypeOK, EscrowTypeOK', TotalsInvariant, [Next]_vars
             PROVE  TotalsInvariant'
  OBVIOUS
<1>1. CASE UNCHANGED <<handler, answer>>
  BY <1>1 DEF TotalsInvariant, TotalsBalance, Balances, InRelease
<1>2. ASSUME NEW h \in Handlers, HandlerStep(h)
      PROVE  TotalsInvariant'
  <2>1. TotalsAfter(h) /\ TotalsBalance'
    BY <1>2, HandlerTotals
  <2>2. \A g \in Handlers \ {h} : handler'[g] = handler[g]
    BY <1>2 DEF HandlerStep, PostEscrow, CreateEscrow, FindHeld, CheckRecipient,
         MarkReleased, AnswerRelease, RequestFails, Moves, Ends, EscrowTypeOK
  <2>3. \A g \in Handlers \ {h} : TotalsAfter(g)
    BY <2>2 DEF TotalsInvariant, TotalsAfter, InRelease, Balances
  <2> QED
    BY <2>1, <2>3 DEF TotalsInvariant, TotalsAfter, InRelease, Balances
<1>3. UNCHANGED <<handler, answer>> \/ \E h \in Handlers : HandlerStep(h)
  BY DEF vars, Next, ProviderJoins, DeleteCouncil, RegisterRecipient
<1> QED
  BY <1>1, <1>2, <1>3

\* The totals of an answered release add up, stroop by stroop, to the amounts
\* of the escrows it marked, over any number of escrows and of concurrent
\* releases, if none of them holds less than the fee (the running totals of
\* releaseEscrowsForRecipient).
THEOREM TotalsAddUp == Spec => []TotalsBalance
<1>1. TotalsInvariant => TotalsBalance
  BY DEF TotalsInvariant
<1> QED
  BY <1>1, EscrowTypeCorrect, TotalsInit, TotalsNext, PTL DEF Spec
=============================================================================
