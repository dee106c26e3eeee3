------------------------ MODULE CouncilRecords_proofs ------------------------
(***************************************************************************)
(* Theorems about the records of a council, for any number of concurrent   *)
(* requests, countries, providers, wallets and deletions.                  *)
(***************************************************************************)
EXTENDS CouncilRecords, TLAPS

(* What a request has read is current unless another overlapped it.        *)

\* h's reads of the tables still hold.
ReadIsCurrent(h) ==
  LET x == handler[h].on IN
  /\ handler[h].at \in {"looking", "looking deleted", "inserting"} => registered
  /\ handler[h].at = "looking deleted" => ~Listed(x)
  /\ handler[h].at = "inserting" => jurisdictions[x] = NoRow
  /\ handler[h].at = "restoring" => /\ jurisdictions[x].id = handler[h].id
                                    /\ jurisdictions[x].label = handler[h].old
  /\ handler[h].at \in {"owning", "editing", "rereading"} => providers[x].id = handler[h].id
  /\ handler[h].at = "owning" => \A f \in Fields : providers[x].profile[f] = handler[h].read[f]
  /\ handler[h].at = "editing" =>
       \A f \in Fields \ handler[h].asked : providers[x].profile[f] = handler[h].edited[f]
  /\ handler[h].at = "enlisting" => waitlist[x] = Empty
  /\ handler[h].at = "failed" => handler[h].why \in {"malformed body", "database"}

\* h's reads for a summary still hold.
SummaryIsCurrent(h) ==
  handler[h].at = "summing up" =>
    /\ "council" \notin handler[h].left /\ ~handler[h].council => ~registered
    /\ "jurisdictions" \notin handler[h].left /\ ~registered => handler[h].listed \subseteq strays

ReadsInv == \A h \in Handlers \ overlapped : ReadIsCurrent(h) /\ SummaryIsCurrent(h)

\* Rows of a council that does not exist are strays, and so are those that an
\* open deletion has no statement left for.
StraysInv ==
  /\ ~registered => \A c \in Countries : jurisdictions[c] # NoRow => c \in strays
  /\ deleting = "jurisdictions" =>
       \A c \in Countries : jurisdictions[c] # NoRow => c \in strays \cup doomed.jurisdictions

\* Whoever was not found active, and was never unknown since, is pending.
StatusInv ==
  \A h \in Handlers \ (overlapped \cup absent) :
     /\ handler[h].at = "reading requests" => handler[h].on \in pending
     /\ handler[h].at # "NOT_FOUND"

RecordsInv == RecordsTypeOK /\ ReadsInv /\ StraysInv /\ StatusInv

-----------------------------------------------------------------------------
(* Types.                                                                  *)

\* The phase of a request says what it carries.
LEMMA StatesByPhase ==
  ASSUME NEW s \in HandlerState
  PROVE  /\ s.at \in {"looking", "looking deleted"} => s \in Adding
         /\ s.at = "inserting" => s \in Inserting
         /\ s.at = "restoring" => s \in Restoring
         /\ s.at = "looking to remove" => s \in Seeking
         /\ s.at = "removing" => s \in Removing
         /\ s.at = "owning" => s \in Owning
         /\ s.at = "editing" => s \in Editing
         /\ s.at = "rereading" => s \in Rereading
         /\ s.at \in StatusReads => s \in Asking
         /\ s.at \in {"updating", "enlisting"} => s \in Joining
         /\ s.at = "summing up" => s \in SummingUp
         /\ s.at = "failed" => s \in Failing
         /\ s.at = "resting" <=> s = Resting
<1>1. /\ \A t \in Adding : t.at \in {"looking", "looking deleted"}
      /\ \A t \in Inserting : t.at = "inserting"
      /\ \A t \in Restoring : t.at = "restoring"
      /\ \A t \in Seeking : t.at = "looking to remove"
      /\ \A t \in Removing : t.at = "removing"
      /\ \A t \in Owning : t.at = "owning"
      /\ \A t \in Editing : t.at = "editing"
      /\ \A t \in Rereading : t.at = "rereading"
  BY DEF Adding, Inserting, Restoring, Seeking, Removing, Owning, Editing, Rereading
<1>2. /\ \A t \in Asking : t.at \in StatusReads
      /\ \A t \in Joining : t.at \in {"updating", "enlisting"}
      /\ \A t \in SummingUp : t.at = "summing up"
      /\ \A t \in Failing : t.at = "failed"
  BY DEF Asking, Joining, SummingUp, Failing, StatusReads
<1>3. Resting.at = "resting"
  BY DEF Resting
<1>4. \/ s = Resting \/ s \in Adding \/ s \in Inserting \/ s \in Restoring \/ s \in Seeking
      \/ s \in Removing \/ s \in Owning \/ s \in Editing \/ s \in Rereading \/ s \in Asking
      \/ s \in Joining \/ s \in SummingUp \/ s \in Failing
  BY DEF HandlerState
<1> QED
  BY <1>1, <1>2, <1>3, <1>4 DEF StatusReads

\* The open deletion, and the tables and the council, have their types.
DeletionOK ==
  /\ deleting \in {"no", "requests", "providers", "jurisdictions"}
  /\ doomed \in [requests : SUBSET Providers, providers : SUBSET Providers,
                 jurisdictions : SUBSET Countries]
  /\ deleting # "no" => era <= MaxDeletions

TablesOK ==
  /\ registered \in BOOLEAN /\ era \in Id
  /\ DeletionOK
  /\ jurisdictions \in [Countries -> Jurisdiction \cup {NoRow}]
  /\ providers \in [Providers -> Provider \cup {NoRow}]
  /\ pending \subseteq Providers
  /\ waitlist \in [Wallets -> Text]
  /\ strays \subseteq Countries
  /\ \A c \in Countries : jurisdictions[c].id <= era
  /\ \A p \in Providers : providers[p].id <= era

RequestsOK ==
  /\ handler \in [Handlers -> HandlerState]
  /\ overlapped \subseteq Handlers /\ absent \subseteq Handlers

LEMMA TypeParts == RecordsTypeOK <=> TablesOK /\ RequestsOK
  BY DEF RecordsTypeOK, TablesOK, RequestsOK, DeletionOK

LEMMA RecordsTypeInit == Init => RecordsTypeOK
<1> SUFFICES ASSUME Init
             PROVE  RecordsTypeOK
  OBVIOUS
<1>1. Resting \in HandlerState /\ 1 \in Id /\ Empty \in Text
  BY RecordsAssumption DEF HandlerState, Id, Text
<1>2. /\ \A c \in Countries : jurisdictions[c].id <= era
      /\ \A p \in Providers : providers[p].id <= era
  BY DEF Init, NoRow
<1>3. NoneDoomed \in [requests : SUBSET Providers, providers : SUBSET Providers,
                       jurisdictions : SUBSET Countries]
  BY DEF NoneDoomed
<1> QED
  BY <1>1, <1>2, <1>3 DEF Init, RecordsTypeOK

\* A row that has the id of an earlier one is a row.
LEMMA RowsHaveIds ==
  /\ \A row \in Jurisdiction \cup {NoRow} : row.id \in Id => row \in Jurisdiction
  /\ \A row \in Provider \cup {NoRow} : row.id \in Id => row \in Provider
  /\ Id \subseteq Nat
  BY RecordsAssumption DEF Jurisdiction, Provider, NoRow, Id

\* A request that goes on to a state of its type.
LEMMA MovesType ==
  ASSUME RequestsOK, NEW h \in Handlers, NEW s \in HandlerState, Moves(h, s)
  PROVE  /\ handler' \in [Handlers -> HandlerState]
         /\ absent' \subseteq Handlers
         /\ handler'[h] = s
         /\ \A g \in Handlers : g # h => handler'[g] = handler[g]
  BY DEF RequestsOK, Moves, Remembers

\* Where a request can go from its phase.
LEMMA PhaseTypes ==
  ASSUME RecordsTypeOK, NEW h \in Handlers
  PROVE  /\ Resting \in HandlerState
         /\ \A why \in Causes : Failure(why) \in HandlerState
         /\ handler[h].at = "looking"
               => [handler[h] EXCEPT !.at = "looking deleted"] \in HandlerState
         /\ handler[h].at = "reading provider"
               => [handler[h] EXCEPT !.at = "reading requests"] \in HandlerState
         /\ handler[h].at = "reading requests"
               => [handler[h] EXCEPT !.at = "NOT_FOUND"] \in HandlerState
<1> DEFINE s == handler[h]
<1>1. s \in HandlerState
  BY DEF RecordsTypeOK
<1> HIDE DEF s
<1>2. Resting \in HandlerState /\ \A why \in Causes : Failure(why) \in HandlerState
  BY DEF HandlerState, Failing, Failure
<1>3. ASSUME s.at = "looking"
      PROVE  [s EXCEPT !.at = "looking deleted"] \in HandlerState
  <2>1. s \in Adding
    BY <1>1, <1>3, StatesByPhase
  <2>2. [s EXCEPT !.at = "looking deleted"] \in Adding
    BY <2>1 DEF Adding
  <2> QED
    BY <2>2 DEF HandlerState
<1>4. ASSUME s.at \in {"reading provider", "reading requests"}
      PROVE  /\ [s EXCEPT !.at = "reading requests"] \in HandlerState
             /\ [s EXCEPT !.at = "NOT_FOUND"] \in HandlerState
  BY <1>1, <1>4, StatesByPhase DEF HandlerState, Asking, StatusReads
<1> QED
  BY <1>2, <1>3, <1>4 DEF s

\* A step of a request keeps the types of tables and requests.
StepOK == TablesOK' /\ RequestsOK'

\* One that writes no table, and ends, goes on or fails.
LEMMA NoWriteOK ==
  ASSUME RecordsTypeOK, NEW h \in Handlers, NEW s \in HandlerState, Moves(h, s), ReadOnly,
         overlapped' \subseteq Handlers
  PROVE  StepOK
<1>1. RequestsOK'
  BY MovesType, TypeParts DEF RequestsOK
<1>2. TablesOK'
  BY TypeParts DEF TablesOK, DeletionOK, ReadOnly, council, tables
<1> QED
  BY <1>1, <1>2 DEF StepOK

\* One that writes a table.
LEMMA WriteOK ==
  ASSUME RecordsTypeOK, NEW h \in Handlers, NEW s \in HandlerState, NEW x,
         WritesOn(h, x, s), TablesOK'
  PROVE  StepOK
<1>1. overlapped' \subseteq Handlers
  BY TypeParts DEF WritesOn, RequestsOK
<1> QED
  BY <1>1, MovesType, TypeParts DEF WritesOn, RequestsOK, StepOK

LEMMA BeginOK ==
  ASSUME RecordsTypeOK, NEW h \in Handlers, Begin(h)
  PROVE  StepOK
<1>1. ASSUME NEW s \in HandlerState, Begins(h, s)
      PROVE  StepOK
  BY <1>1, NoWriteOK DEF Begins, ReadOnly, RecordsTypeOK
<1>2. ASSUME NEW c \in Countries, AddJurisdiction(h, c)
      PROVE  StepOK
  <2>1. /\ [at |-> "looking", on |-> c] \in HandlerState
        /\ Failure("malformed body") \in HandlerState
    BY PhaseTypes DEF HandlerState, Adding, Causes
  <2> QED
    BY <1>1, <1>2, <2>1 DEF AddJurisdiction
<1>3. ASSUME NEW c \in Countries, RemoveJurisdiction(h, c)
      PROVE  StepOK
  <2>1. [at |-> "looking to remove", on |-> c] \in HandlerState
    BY DEF HandlerState, Seeking
  <2> QED
    BY <1>1, <1>3, <2>1 DEF RemoveJurisdiction
<1>4. ASSUME NEW p \in Providers, EditProvider(h, p)
      PROVE  StepOK
  <2>1. providers[p] \in Provider
    BY <1>4 DEF EditProvider, RecordsTypeOK
  <2>2. [at |-> "owning", on |-> p, id |-> providers[p].id,
         read |-> providers[p].profile] \in Owning
    BY <2>1 DEF Owning, Provider
  <2> QED
    BY <1>1, <1>4, <2>2 DEF EditProvider, HandlerState
<1>5. ASSUME NEW p \in Providers, AskStatus(h, p)
      PROVE  StepOK
  <2>1. [at |-> "reading provider", on |-> p] \in HandlerState
    BY DEF HandlerState, Asking
  <2> QED
    BY <1>1, <1>5, <2>1 DEF AskStatus
<1>6. ASSUME NEW w \in Wallets, NEW email \in Texts, JoinWaitlist(h, w, email)
      PROVE  StepOK
  <2>1. [at |-> IF waitlist[w] = Empty THEN "enlisting" ELSE "updating",
         on |-> w, email |-> email] \in HandlerState
    BY DEF HandlerState, Joining
  <2> QED
    BY <1>1, <1>6, <2>1 DEF JoinWaitlist
<1>7. CASE SumUp(h)
  <2>1. [at |-> "summing up", on |-> "council", council |-> FALSE,
         left |-> {"council", "jurisdictions"}, listed |-> {}] \in HandlerState
    BY DEF HandlerState, SummingUp
  <2> QED
    BY <1>1, <1>7, <2>1 DEF SumUp
<1>8. CASE ListCouncils(h)
  <2>1. [at |-> "summing up", on |-> "council", council |-> TRUE,
         left |-> {"jurisdictions"}, listed |-> {}] \in HandlerState
    BY DEF HandlerState, SummingUp
  <2> QED
    BY <1>1, <1>8, <2>1 DEF ListCouncils
<1> QED
  BY <1>2, <1>3, <1>4, <1>5, <1>6, <1>7, <1>8 DEF Begin

\* Ends and failures that write nothing.
LEMMA EndsOK ==
  ASSUME RecordsTypeOK, NEW h \in Handlers, ReadOnly, Ends(h)
  PROVE  StepOK
<1>1. Resting \in HandlerState /\ overlapped' \subseteq Handlers
  BY PhaseTypes DEF Ends, RecordsTypeOK
<1> QED
  BY <1>1, NoWriteOK DEF Ends

LEMMA FailsOK ==
  ASSUME RecordsTypeOK, NEW h \in Handlers, ReadOnly, NEW why \in Causes, Fails(h, why)
  PROVE  StepOK
<1>1. Failure(why) \in HandlerState
  BY PhaseTypes
<1>2. overlapped' \subseteq Handlers
  BY DEF Fails, RecordsTypeOK
<1> QED
  BY <1>1, <1>2, NoWriteOK DEF Fails

LEMMA GoesOnOK ==
  ASSUME RecordsTypeOK, NEW h \in Handlers, ReadOnly, NEW s \in HandlerState,
         Moves(h, s), UNCHANGED overlapped
  PROVE  StepOK
<1>1. overlapped' \subseteq Handlers
  BY DEF RecordsTypeOK
<1> QED
  BY <1>1, NoWriteOK

\* The steps that only read.
Reads(h) ==
  \/ LookListed(h) \/ LookDeleted(h) \/ LookToRemove(h) \/ OwnProvider(h) \/ Reread(h)
  \/ ReadProvider(h) \/ ReadPending(h) \/ ReadCouncil(h) \/ ReadJurisdictions(h)
  \/ Answered(h) \/ RequestFails(h)

LEMMA ReadsOK ==
  ASSUME RecordsTypeOK, NEW h \in Handlers, Reads(h)
  PROVE  StepOK
<1>0. handler[h] \in HandlerState
  BY DEF RecordsTypeOK
<1>1. CASE Answered(h) \/ RequestFails(h)
  BY <1>1, EndsOK, FailsOK DEF Answered, RequestFails, Causes
<1>2. CASE LookListed(h)
  BY <1>2, EndsOK, GoesOnOK, PhaseTypes DEF LookListed, At
<1>3. CASE LookDeleted(h)
  <2> DEFINE c == handler[h].on
             insert(label) == [at |-> "inserting", on |-> c, label |-> label]
             restore(label) == [at |-> "restoring", on |-> c, label |-> label,
                                id |-> jurisdictions[c].id, old |-> jurisdictions[c].label]
  <2>1. c \in Countries
    BY <1>0, <1>3, StatesByPhase DEF LookDeleted, Adding
  <2>2. ASSUME NEW label \in Text
        PROVE  insert(label) \in HandlerState
    BY <2>1 DEF HandlerState, Inserting
  <2>3. ASSUME NEW label \in Text, SoftDeleted(c)
        PROVE  restore(label) \in HandlerState
    <3>1. jurisdictions[c] \in Jurisdiction
      BY <2>1, <2>3 DEF SoftDeleted, RecordsTypeOK
    <3>2. jurisdictions[c].id \in Id /\ jurisdictions[c].label \in Text
      BY <3>1 DEF Jurisdiction
    <3>3. restore(label) \in Restoring
      BY <2>1, <3>2 DEF Restoring
    <3> QED
      BY <3>3 DEF HandlerState
  <2>4. \/ Fails(h, "malformed body") /\ ReadOnly
        \/ \E label \in Text :
              /\ Moves(h, insert(label)) \/ (SoftDeleted(c) /\ Moves(h, restore(label)))
              /\ UNCHANGED overlapped /\ ReadOnly
    BY <1>3 DEF LookDeleted
  <2> HIDE DEF insert, restore
  <2>5. CASE Fails(h, "malformed body") /\ ReadOnly
    BY <2>5, FailsOK DEF Causes
  <2>6. ASSUME NEW label \in Text, UNCHANGED overlapped, ReadOnly,
               Moves(h, insert(label)) \/ (SoftDeleted(c) /\ Moves(h, restore(label)))
        PROVE  StepOK
    BY <2>2, <2>3, <2>6, GoesOnOK
  <2> QED
    BY <2>4, <2>5, <2>6
<1>4. CASE LookToRemove(h)
  <2> DEFINE c == handler[h].on
             s == [at |-> "removing", on |-> c, id |-> jurisdictions[c].id]
  <2>1. handler[h] \in Seeking
    BY <1>0, <1>4, StatesByPhase DEF LookToRemove
  <2>2. c \in Countries
    BY <2>1 DEF Seeking
  <2>3. ASSUME Listed(c)
        PROVE  s \in HandlerState
    <3>1. jurisdictions[c] \in Jurisdiction
      BY <2>2, <2>3 DEF Listed, RecordsTypeOK
    <3>2. jurisdictions[c].id \in Id
      BY <3>1 DEF Jurisdiction
    <3> QED
      BY <2>2, <3>2 DEF HandlerState, Removing
  <2>4. CASE Listed(c)
    BY <1>4, <2>3, <2>4, GoesOnOK DEF LookToRemove
  <2>5. CASE ~Listed(c)
    BY <1>4, <2>5, EndsOK DEF LookToRemove
  <2> QED
    BY <2>4, <2>5
<1>5. CASE OwnProvider(h)
  <2>1. handler[h] \in Owning
    BY <1>0, <1>5, StatesByPhase DEF OwnProvider
  <2>2. handler[h].on \in Providers /\ handler[h].id \in Id /\ handler[h].read \in Profile
    BY <2>1 DEF Owning
  <2>3. ASSUME NEW body \in Profile
        PROVE  [at |-> "editing", on |-> handler[h].on, id |-> handler[h].id,
                edited |-> Edited(body, handler[h].read),
                asked |-> {f \in Fields : body[f] # Empty}] \in HandlerState
    <3>1. Edited(body, handler[h].read) \in Profile
      BY <2>2 DEF Edited, OrElse, Profile
    <3> DEFINE asked == {f \in Fields : body[f] # Empty}
    <3>2. asked \in SUBSET Fields
      OBVIOUS
    <3> HIDE DEF asked
    <3>3. [at |-> "editing", on |-> handler[h].on, id |-> handler[h].id,
           edited |-> Edited(body, handler[h].read), asked |-> asked] \in Editing
      BY <2>2, <3>1, <3>2 DEF Editing
    <3> QED
      BY <3>3 DEF HandlerState, asked
  <2>4. CASE Ends(h) \/ Fails(h, "malformed body")
    BY <1>5, <2>4, EndsOK, FailsOK DEF OwnProvider, Causes
  <2>5. CASE \E s \in HandlerState : Moves(h, s) /\ UNCHANGED overlapped
    BY <1>5, <2>5, GoesOnOK DEF OwnProvider
  <2> QED
    BY <1>5, <2>3, <2>4, <2>5 DEF OwnProvider
<1>6. CASE Reread(h)
  BY <1>6, EndsOK, FailsOK DEF Reread, Causes
<1>7. CASE ReadProvider(h)
  BY <1>7, EndsOK, GoesOnOK, PhaseTypes DEF ReadProvider, At
<1>8. CASE ReadPending(h)
  BY <1>8, EndsOK, GoesOnOK, PhaseTypes DEF ReadPending, At
<1>9. CASE ReadCouncil(h)
  <2>1. handler[h] \in SummingUp
    BY <1>0, <1>9, StatesByPhase DEF ReadCouncil
  <2>2. [handler[h] EXCEPT !.left = @ \ {"council"}, !.council = registered] \in SummingUp
    BY <2>1 DEF SummingUp, RecordsTypeOK
  <2>3. [handler[h] EXCEPT !.left = @ \ {"council"}, !.council = registered] \in HandlerState
    BY <2>2 DEF HandlerState
  <2> QED
    BY <1>9, <2>3, GoesOnOK DEF ReadCouncil
<1>10. CASE ReadJurisdictions(h)
  <2> DEFINE listed == {c \in Countries : Listed(c)}
             s == [handler[h] EXCEPT !.left = @ \ {"jurisdictions"}, !.listed = listed]
  <2>1. handler[h] \in SummingUp
    BY <1>0, <1>10, StatesByPhase DEF ReadJurisdictions
  <2>2. listed \subseteq Countries
    OBVIOUS
  <2> HIDE DEF listed
  <2>3. s \in SummingUp
    BY <2>1, <2>2 DEF SummingUp
  <2>4. s \in HandlerState
    BY <2>3 DEF HandlerState
  <2> QED
    BY <1>10, <2>4, GoesOnOK DEF ReadJurisdictions, listed
<1> QED
  BY <1>1, <1>2, <1>3, <1>4, <1>5, <1>6, <1>7, <1>8, <1>9, <1>10 DEF Reads

\* The steps that may write a table.
Writes(h) ==
  \/ RestoreJurisdiction(h) \/ InsertJurisdiction(h) \/ SoftDelete(h)
  \/ UpdateProvider(h) \/ UpdateEmail(h) \/ Enlist(h)

\* A row of a country is replaced by one of the same council or an earlier one.
LEMMA JurisdictionWritten ==
  ASSUME RecordsTypeOK, NEW c \in Countries, NEW row \in Jurisdiction, row.id <= era,
         jurisdictions' = [jurisdictions EXCEPT ![c] = row],
         UNCHANGED <<council, providers, pending, waitlist>>,
         strays' \subseteq Countries
  PROVE  TablesOK'
  BY DEF RecordsTypeOK, TablesOK, DeletionOK, council

LEMMA WritesOK ==
  ASSUME RecordsTypeOK, NEW h \in Handlers, Writes(h)
  PROVE  StepOK
<1> DEFINE x == handler[h].on
<1>0. /\ handler[h] \in HandlerState
      /\ jurisdictions \in [Countries -> Jurisdiction \cup {NoRow}]
      /\ providers \in [Providers -> Provider \cup {NoRow}]
      /\ strays \subseteq Countries /\ era \in Id
  BY DEF RecordsTypeOK
<1>a. Resting \in HandlerState
  BY PhaseTypes
<1>1. CASE RestoreJurisdiction(h)
  <2>1. handler[h] \in Restoring
    BY <1>0, <1>1, StatesByPhase DEF RestoreJurisdiction
  <2>2. /\ x \in Countries /\ handler[h].id \in Id
        /\ OrElse(handler[h].label, handler[h].old) \in Text
    BY <2>1 DEF Restoring, OrElse
  <2> DEFINE row == [jurisdictions[x] EXCEPT
                       !.deleted = FALSE,
                       !.label = OrElse(handler[h].label, handler[h].old)]
  <2>3. CASE jurisdictions[x].id = handler[h].id
    <3>1. jurisdictions[x] \in Jurisdiction
      BY <1>0, <2>2, <2>3, RowsHaveIds
    <3>2. row \in Jurisdiction /\ row.id = jurisdictions[x].id
      BY <2>2, <3>1 DEF Jurisdiction
    <3>3. row.id <= era
      BY <2>2, <3>2 DEF RecordsTypeOK
    <3>4. jurisdictions' = [jurisdictions EXCEPT ![x] = row]
      BY <1>1, <2>3 DEF RestoreJurisdiction
    <3>5. UNCHANGED <<council, providers, pending, waitlist>> /\ strays' \subseteq Countries
      BY <1>0, <1>1 DEF RestoreJurisdiction
    <3> HIDE DEF row, x
    <3>6. TablesOK'
      BY <2>2, <3>2, <3>3, <3>4, <3>5, JurisdictionWritten
    <3> QED
      BY <1>1, <1>a, <2>3, <3>6, WriteOK DEF RestoreJurisdiction, x
  <2>4. CASE jurisdictions[x].id # handler[h].id
    BY <1>1, <2>4, FailsOK DEF RestoreJurisdiction, ReadOnly, tables, Causes
  <2> QED
    BY <2>3, <2>4
<1>2. CASE InsertJurisdiction(h)
  <2>1. handler[h] \in Inserting
    BY <1>0, <1>2, StatesByPhase DEF InsertJurisdiction
  <2>2. x \in Countries /\ handler[h].label \in Text
    BY <2>1 DEF Inserting
  <2> DEFINE row == [id |-> era, label |-> handler[h].label, deleted |-> FALSE]
  <2>3. CASE jurisdictions[x] = NoRow
    <3>1. row \in Jurisdiction /\ row.id <= era
      BY <1>0, <2>2, RowsHaveIds DEF Jurisdiction
    <3>2. jurisdictions' = [jurisdictions EXCEPT ![x] = row]
      BY <1>2, <2>3 DEF InsertJurisdiction, NoRow
    <3>3. UNCHANGED <<council, providers, pending, waitlist>> /\ strays' \subseteq Countries
      BY <1>0, <1>2, <2>2 DEF InsertJurisdiction
    <3> HIDE DEF row, x
    <3>4. TablesOK'
      BY <2>2, <3>1, <3>2, <3>3, JurisdictionWritten
    <3> QED
      BY <1>2, <1>a, <2>3, <3>4, WriteOK DEF InsertJurisdiction, x
  <2>4. CASE jurisdictions[x] # NoRow
    BY <1>2, <2>4, FailsOK DEF InsertJurisdiction, ReadOnly, tables, Causes
  <2> QED
    BY <2>3, <2>4
<1>3. CASE SoftDelete(h)
  <2>1. handler[h] \in Removing
    BY <1>0, <1>3, StatesByPhase DEF SoftDelete
  <2>2. x \in Countries /\ handler[h].id \in Id
    BY <2>1 DEF Removing
  <2> DEFINE row == [jurisdictions[x] EXCEPT !.deleted = TRUE]
  <2>3. CASE jurisdictions[x].id = handler[h].id
    <3>1. jurisdictions[x] \in Jurisdiction
      BY <1>0, <2>2, <2>3, RowsHaveIds
    <3>2. row \in Jurisdiction /\ row.id = jurisdictions[x].id
      BY <3>1 DEF Jurisdiction
    <3>3. row.id <= era
      BY <2>2, <3>2 DEF RecordsTypeOK
    <3>4. jurisdictions' = [jurisdictions EXCEPT ![x] = row]
      BY <1>3, <2>3 DEF SoftDelete
    <3>5. UNCHANGED <<council, providers, pending, waitlist>> /\ strays' \subseteq Countries
      BY <1>0, <1>3 DEF SoftDelete
    <3> HIDE DEF row, x
    <3>6. TablesOK'
      BY <2>2, <3>2, <3>3, <3>4, <3>5, JurisdictionWritten
    <3> QED
      BY <1>3, <1>a, <2>3, <3>6, WriteOK DEF SoftDelete, x
  <2>4. CASE jurisdictions[x].id # handler[h].id
    BY <1>3, <2>4, EndsOK DEF SoftDelete, ReadOnly, tables
  <2> QED
    BY <2>3, <2>4
<1>4. CASE UpdateProvider(h)
  <2>1. handler[h] \in Editing
    BY <1>0, <1>4, StatesByPhase DEF UpdateProvider
  <2>2. x \in Providers /\ handler[h].id \in Id /\ handler[h].edited \in Profile
    BY <2>1 DEF Editing
  <2>3. [at |-> "rereading", on |-> x, id |-> handler[h].id] \in HandlerState
    BY <2>2 DEF HandlerState, Rereading
  <2> DEFINE row == [providers[x] EXCEPT !.profile = handler[h].edited]
  <2>4. CASE providers[x].id = handler[h].id
    <3>1. providers[x] \in Provider
      BY <1>0, <2>2, <2>4, RowsHaveIds
    <3>2. row \in Provider /\ row.id = providers[x].id
      BY <2>2, <3>1 DEF Provider
    <3>3. providers' = [providers EXCEPT ![x] = row]
      BY <1>4, <2>4 DEF UpdateProvider
    <3>4. UNCHANGED <<council, jurisdictions, pending, waitlist, strays>>
      BY <1>4 DEF UpdateProvider
    <3> HIDE DEF row, x
    <3>5. TablesOK'
      BY <2>2, <3>2, <3>3, <3>4 DEF TablesOK, DeletionOK, RecordsTypeOK, council
    <3> QED
      BY <1>4, <2>3, <2>4, <3>5, WriteOK DEF UpdateProvider, x
  <2>5. CASE providers[x].id # handler[h].id
    BY <1>4, <2>3, <2>5, GoesOnOK DEF UpdateProvider, ReadOnly, tables
  <2> QED
    BY <2>4, <2>5
<1>5. CASE UpdateEmail(h)
  <2>1. handler[h] \in Joining
    BY <1>0, <1>5, StatesByPhase DEF UpdateEmail
  <2>2. x \in Wallets /\ handler[h].email \in Text
    BY <2>1 DEF Joining, Text
  <2>3. TablesOK'
    BY <1>5, <2>2 DEF UpdateEmail, TablesOK, DeletionOK, RecordsTypeOK, council
  <2> QED
    BY <1>5, <1>a, <2>3, WriteOK DEF UpdateEmail
<1>6. CASE Enlist(h)
  <2>1. handler[h] \in Joining
    BY <1>0, <1>6, StatesByPhase DEF Enlist
  <2>2. x \in Wallets /\ handler[h].email \in Text
    BY <2>1 DEF Joining, Text
  <2>3. CASE waitlist[x] = Empty
    <3>1. TablesOK'
      BY <1>6, <2>2, <2>3 DEF Enlist, TablesOK, DeletionOK, RecordsTypeOK, council
    <3> QED
      BY <1>6, <1>a, <2>3, <3>1, WriteOK DEF Enlist
  <2>4. CASE waitlist[x] # Empty
    BY <1>6, <2>4, FailsOK DEF Enlist, ReadOnly, tables, Causes
  <2> QED
    BY <2>3, <2>4
<1> QED
  BY <1>1, <1>2, <1>3, <1>4, <1>5, <1>6 DEF Writes

\* The statements of a deletion that does not commit yet, and its rollback.
Doomings == DeleteRequests \/ DeleteProviders \/ DeleteJurisdictions \/ AbortDelete

LEMMA DoomingsOK ==
  ASSUME RecordsTypeOK, Doomings
  PROVE  StepOK
<1>1. {p \in Providers : providers[p] # NoRow} \in SUBSET Providers
      /\ JurisdictionsDeleted \in SUBSET Countries /\ pending \in SUBSET Providers
  BY DEF JurisdictionsDeleted, RecordsTypeOK
<1>2. DeletionOK'
  BY <1>1 DEF Doomings, DeleteRequests, DeleteProviders, DeleteJurisdictions, AbortDelete,
              Deletes, NoneDoomed, DeletionOK, RecordsTypeOK
<1>3. UNCHANGED <<registered, era, tables, handler, overlapped, absent, strays>>
  BY DEF Doomings, DeleteRequests, DeleteProviders, DeleteJurisdictions, AbortDelete, Deletes
<1> QED
  BY <1>2, <1>3 DEF StepOK, TablesOK, RequestsOK, RecordsTypeOK, tables

\* The commits of the deletion and of the other modules.
Commits ==
  \/ RegisterCouncil \/ CommitDelete
  \/ \E p \in Providers : PostJoinRequest(p) \/ Review(p) \/ WatcherCommits(p)

LEMMA CommitsOK ==
  ASSUME RecordsTypeOK, Commits
  PROVE  StepOK
<1>1. ASSUME NEW others \in SUBSET Handlers, CommitsOf(others)
      PROVE  RequestsOK'
  BY <1>1 DEF CommitsOf, Remembers, RecordsTypeOK, RequestsOK
<1>2. Active \subseteq Handlers
  BY DEF Active
<1>3. RequestsOK'
  BY <1>1, <1>2 DEF Commits, RegisterCouncil, CommitDelete, PostJoinRequest, Review,
                    WatcherCommits
<1>4. NewProvider \in Provider /\ NewProvider.id = era /\ era <= era
  <2>1. [f \in Fields |-> Empty] \in Profile
    BY DEF Profile, Text
  <2> QED
    BY <2>1, RowsHaveIds DEF NewProvider, Provider, RecordsTypeOK
<1>5. ASSUME RegisterCouncil
      PROVE  TablesOK'
  BY <1>5 DEF RegisterCouncil, TablesOK, DeletionOK, RecordsTypeOK, tables
<1>6. ASSUME CommitDelete
      PROVE  TablesOK'
  <2>1. era + 1 \in Id
    BY <1>6, RecordsAssumption DEF CommitDelete, Id, RecordsTypeOK
  <2>2. NoRow.id = 0 /\ 0 <= era + 1 /\ \A n \in Nat : n <= era => n <= era + 1
    BY <2>1, RecordsAssumption DEF NoRow, Id, RecordsTypeOK
  <2>3. DeletionOK'
    BY <1>6 DEF CommitDelete, DeletionOK, NoneDoomed
  <2>4. /\ \A row \in Jurisdiction : row.id \in Nat
        /\ \A row \in Provider : row.id \in Nat
    BY RowsHaveIds DEF Jurisdiction, Provider
  <2>5. /\ jurisdictions' \in [Countries -> Jurisdiction \cup {NoRow}]
        /\ \A c \in Countries : jurisdictions'[c].id <= era'
    BY <1>6, <2>2, <2>4 DEF CommitDelete, RecordsTypeOK
  <2>6. /\ providers' \in [Providers -> Provider \cup {NoRow}]
        /\ \A p \in Providers : providers'[p].id <= era'
    BY <1>6, <2>2, <2>4 DEF CommitDelete, RecordsTypeOK
  <2>7. /\ registered' \in BOOLEAN /\ era' \in Id /\ pending' \subseteq Providers
        /\ waitlist' \in [Wallets -> Text] /\ strays' \subseteq Countries
    BY <1>6, <2>1 DEF CommitDelete, RecordsTypeOK
  <2> QED
    BY <2>3, <2>5, <2>6, <2>7 DEF TablesOK
<1>7. ASSUME NEW p \in Providers, PostJoinRequest(p)
      PROVE  TablesOK'
  BY <1>7 DEF PostJoinRequest, TablesOK, DeletionOK, RecordsTypeOK, council
<1>8. ASSUME NEW p \in Providers, NEW row \in Provider, row.id <= era,
             providers' = [providers EXCEPT ![p] = row] \/ providers' = providers,
             pending' \subseteq pending,
             UNCHANGED <<council, jurisdictions, waitlist, strays>>
      PROVE  TablesOK'
  BY <1>8 DEF TablesOK, DeletionOK, RecordsTypeOK, council
<1>9. ASSUME NEW p \in Providers, Review(p)
      PROVE  TablesOK'
  <2>1. \/ providers' = providers
        \/ providers' = [providers EXCEPT ![p] = NewProvider]
        \/ providers' = [providers EXCEPT ![p] = providers[p]]
    BY <1>9 DEF Review
  <2>2. providers' = providers \/ providers' = [providers EXCEPT ![p] = NewProvider]
    BY <2>1 DEF RecordsTypeOK
  <2> QED
    BY <1>4, <1>8, <1>9, <2>2 DEF Review
<1>10. ASSUME NEW p \in Providers, WatcherCommits(p)
      PROVE  TablesOK'
  <2>1. CASE providers[p] = NoRow /\ providers' = [providers EXCEPT ![p] = NewProvider]
    BY <1>4, <1>8, <1>10, <2>1 DEF WatcherCommits
  <2>2. ASSUME providers[p] # NoRow, NEW status \in {"ACTIVE", "REMOVED"},
               providers' = [providers EXCEPT ![p].status = status]
        PROVE  TablesOK'
    <3> DEFINE row == [providers[p] EXCEPT !.status = status]
    <3>1. providers[p] \in Provider /\ providers[p].id <= era
      BY <2>2 DEF RecordsTypeOK
    <3>2. row \in Provider /\ row.id = providers[p].id
      BY <3>1 DEF Provider
    <3>3. providers' = [providers EXCEPT ![p] = row]
      BY <2>2
    <3> HIDE DEF row
    <3> QED
      BY <1>8, <1>10, <3>1, <3>2, <3>3 DEF WatcherCommits
  <2> QED
    BY <1>10, <2>1, <2>2 DEF WatcherCommits
<1> QED
  BY <1>3, <1>5, <1>6, <1>7, <1>9, <1>10 DEF Commits, StepOK

\* Every step is of one of these kinds.
LEMMA StepKinds ==
  ASSUME Next
  PROVE  \/ \E h \in Handlers : Begin(h) \/ Reads(h) \/ Writes(h)
         \/ Commits
         \/ Doomings
  BY DEF Next, Continue, Reads, Writes, Commits, Doomings

LEMMA RecordsTypeNext == RecordsTypeOK /\ [Next]_vars => RecordsTypeOK'
<1> SUFFICES ASSUME RecordsTypeOK, [Next]_vars
             PROVE  RecordsTypeOK'
  OBVIOUS
<1>1. CASE Next
  <2>1. StepOK
    BY <1>1, StepKinds, BeginOK, ReadsOK, WritesOK, CommitsOK, DoomingsOK
  <2> QED
    BY <2>1, TypeParts DEF StepOK, RecordsTypeOK, TablesOK, DeletionOK, RequestsOK
<1>2. CASE UNCHANGED vars
  BY <1>2 DEF RecordsTypeOK, vars, council, tables
<1> QED
  BY <1>1, <1>2

\* The rows keep their types, whatever requests overlap: no restored label, no
\* edited field is anything but a text, and no row has an id from the future
\* (handleAddJurisdiction; handleUpdateProvider).
THEOREM RecordsTypeCorrect == Spec => []RecordsTypeOK
  BY RecordsTypeInit, RecordsTypeNext, PTL DEF Spec

-----------------------------------------------------------------------------
(* Reads stay current unless they are overlapped.                          *)

\* What a request on x may have read is not written.
Untouched(x) ==
  /\ x \in Countries => jurisdictions'[x] = jurisdictions[x]
  /\ x \in Wallets => waitlist'[x] = waitlist[x]
  /\ x \in Providers /\ providers[x] # NoRow =>
       /\ providers'[x].id = providers[x].id
       /\ providers'[x].profile = providers[x].profile

LEMMA CurrentKept ==
  ASSUME RecordsTypeOK, NEW g \in Handlers, handler'[g] = handler[g], ReadIsCurrent(g),
         registered => registered',
         handler[g].at \in StatusReads \/ Untouched(handler[g].on)
  PROVE  ReadIsCurrent(g)'
<1> DEFINE s == handler[g]
           x == s.on
<1>0. s \in HandlerState /\ \A p \in Providers : providers[p] \in Provider \cup {NoRow}
  BY DEF RecordsTypeOK
<1>1. CASE s.at \in StatusReads
  BY <1>1 DEF ReadIsCurrent, StatusReads
<1>2. CASE s.at \in {"looking", "looking deleted", "inserting", "restoring"} /\ Untouched(x)
  <2>1. x \in Countries
    BY <1>0, <1>2, StatesByPhase DEF Adding, Inserting, Restoring
  <2> QED
    BY <1>2, <2>1 DEF ReadIsCurrent, Untouched, Listed
<1>3. CASE s.at \in {"owning", "editing", "rereading"} /\ Untouched(x)
  <2>1. s \in Owning \cup Editing \cup Rereading
    BY <1>0, <1>3, StatesByPhase
  <2>2. x \in Providers /\ s.id \in Id
    BY <2>1 DEF Owning, Editing, Rereading
  <2>3. providers[x].id = s.id
    BY <1>3 DEF ReadIsCurrent
  <2>4. providers[x] # NoRow
    BY <2>2, <2>3 DEF NoRow, Id
  <2>5. providers'[x].id = providers[x].id /\ providers'[x].profile = providers[x].profile
    BY <1>3, <2>2, <2>4 DEF Untouched
  <2>6. CASE s.at = "owning"
    BY <2>3, <2>5, <2>6 DEF ReadIsCurrent
  <2>7. CASE s.at = "editing"
    BY <2>3, <2>5, <2>7 DEF ReadIsCurrent
  <2>8. CASE s.at = "rereading"
    BY <2>3, <2>5, <2>8 DEF ReadIsCurrent
  <2> QED
    BY <1>3, <2>6, <2>7, <2>8
<1>4. CASE s.at = "enlisting" /\ Untouched(x)
  <2>1. x \in Wallets
    BY <1>0, <1>4, StatesByPhase DEF Joining
  <2> QED
    BY <1>4, <2>1 DEF ReadIsCurrent, Untouched
<1>5. CASE s.at \notin {"looking", "looking deleted", "inserting", "restoring", "owning",
                       "editing", "rereading", "enlisting"}
  BY <1>5 DEF ReadIsCurrent
<1> QED
  BY <1>1, <1>2, <1>3, <1>4, <1>5

LEMMA SummaryKept ==
  ASSUME NEW g \in Handlers, handler'[g] = handler[g], SummaryIsCurrent(g),
         registered' = registered, strays \subseteq strays'
  PROVE  SummaryIsCurrent(g)'
  BY DEF SummaryIsCurrent

\* A request that writes leaves alone what the requests it does not overlap read.
LEMMA WritesSpare ==
  ASSUME RecordsTypeOK, NEW h \in Handlers, Writes(h), NEW g \in Handlers \ {h},
         g \notin overlapped'
  PROVE  /\ handler'[g] = handler[g] /\ g \notin overlapped
         /\ handler[g].at \in StatusReads \/ Untouched(handler[g].on)
         /\ registered' = registered /\ pending' = pending /\ strays \subseteq strays'
<1>0. /\ jurisdictions \in [Countries -> Jurisdiction \cup {NoRow}]
      /\ providers \in [Providers -> Provider \cup {NoRow}]
      /\ waitlist \in [Wallets -> Text]
      /\ handler \in [Handlers -> HandlerState]
  BY DEF RecordsTypeOK
<1>1. registered' = registered /\ pending' = pending /\ strays \subseteq strays'
  BY DEF Writes, RestoreJurisdiction, InsertJurisdiction, SoftDelete, UpdateProvider,
         UpdateEmail, Enlist, council
<1>2. ASSUME NEW state, Moves(h, state)
      PROVE  handler'[g] = handler[g]
  BY <1>0, <1>2 DEF Moves
<1>3. ASSUME Ends(h) \/ \E why : Fails(h, why), UNCHANGED <<jurisdictions, providers, waitlist>>
      PROVE  handler'[g] = handler[g] /\ g \notin overlapped /\ Untouched(handler[g].on)
  BY <1>2, <1>3 DEF Ends, Fails, Untouched
<1>4. ASSUME NEW state, WritesOn(h, handler[h].on, state)
      PROVE  /\ handler'[g] = handler[g] /\ g \notin overlapped
             /\ handler[g].at \in StatusReads \/ handler[g].on # handler[h].on
  BY <1>2, <1>4 DEF WritesOn
<1>5. CASE RestoreJurisdiction(h)
  BY <1>0, <1>1, <1>3, <1>4, <1>5 DEF RestoreJurisdiction, Untouched
<1>6. CASE InsertJurisdiction(h)
  BY <1>0, <1>1, <1>3, <1>4, <1>6 DEF InsertJurisdiction, Untouched
<1>7. CASE SoftDelete(h)
  BY <1>0, <1>1, <1>3, <1>4, <1>7 DEF SoftDelete, Untouched
<1>8. CASE UpdateProvider(h)
  <2>1. CASE providers[handler[h].on].id = handler[h].id
    BY <1>0, <1>1, <1>4, <1>8, <2>1 DEF UpdateProvider, Untouched
  <2>2. CASE providers[handler[h].on].id # handler[h].id
    BY <1>0, <1>1, <1>2, <1>8, <2>2 DEF UpdateProvider, Untouched
  <2> QED
    BY <2>1, <2>2
<1>9. CASE UpdateEmail(h)
  BY <1>0, <1>1, <1>4, <1>9 DEF UpdateEmail, Untouched
<1>10. CASE Enlist(h)
  BY <1>0, <1>1, <1>3, <1>4, <1>10 DEF Enlist, Untouched
<1> QED
  BY <1>5, <1>6, <1>7, <1>8, <1>9, <1>10 DEF Writes

\* So do those that only read.
LEMMA NothingWritten ==
  ASSUME NEW h \in Handlers, Begin(h) \/ Reads(h)
  PROVE  UNCHANGED <<council, tables, strays>>
  BY DEF Begin, Begins, AddJurisdiction, RemoveJurisdiction, EditProvider, AskStatus,
         JoinWaitlist, SumUp, ListCouncils, Reads, LookListed, LookDeleted, LookToRemove,
         OwnProvider, Reread, ReadProvider, ReadPending, ReadCouncil, ReadJurisdictions,
         Answered, RequestFails, ReadOnly

LEMMA ReadsSpare ==
  ASSUME RecordsTypeOK, NEW h \in Handlers, Begin(h) \/ Reads(h), NEW g \in Handlers \ {h}
  PROVE  /\ handler'[g] = handler[g] /\ (g \notin overlapped' => g \notin overlapped)
         /\ Untouched(handler[g].on)
         /\ UNCHANGED <<registered, pending, strays>>
<1>1. handler \in [Handlers -> HandlerState]
  BY DEF RecordsTypeOK
<1>2. UNCHANGED <<council, tables, strays>>
  BY NothingWritten
<1>3. \E state : Moves(h, state) /\ (UNCHANGED overlapped \/ overlapped' = overlapped \ {h})
  <2>1. CASE Begin(h)
    <3>1. \E state : Begins(h, state)
      BY <2>1 DEF Begin, AddJurisdiction, RemoveJurisdiction, EditProvider, AskStatus,
                  JoinWaitlist, SumUp, ListCouncils
    <3> QED
      BY <3>1 DEF Begins
  <2>2. CASE Reads(h)
    BY <2>2 DEF Reads, LookListed, LookDeleted, LookToRemove, OwnProvider, Reread, ReadProvider,
                ReadPending, ReadCouncil, ReadJurisdictions, Answered, RequestFails, At, Ends,
                Fails
  <2> QED
    BY <2>1, <2>2
<1>4. handler'[g] = handler[g] /\ (g \notin overlapped' => g \notin overlapped)
  BY <1>1, <1>3 DEF Moves
<1> QED
  BY <1>2, <1>4 DEF Untouched, council, tables

Current(h) == ReadIsCurrent(h) /\ SummaryIsCurrent(h)

\* What the status of a request needs.
StatusOK(h) ==
  /\ handler[h].at = "reading requests" => handler[h].on \in pending
  /\ handler[h].at # "NOT_FOUND"

\* An answered request has read nothing.
LEMMA RestingIsCurrent ==
  ASSUME RecordsTypeOK, NEW h \in Handlers, Moves(h, Resting)
  PROVE  Current(h)'
<1>1. handler'[h] = Resting
  BY PhaseTypes, MovesType, TypeParts
<1> QED
  BY <1>1 DEF Current, ReadIsCurrent, SummaryIsCurrent, Resting

LEMMA BeginCurrent ==
  ASSUME RecordsTypeOK, NEW h \in Handlers, Begin(h)
  PROVE  Current(h)' /\ StatusOK(h)'
<1>0. ASSUME NEW s, Begins(h, s)
      PROVE  handler'[h] = s /\ UNCHANGED <<council, tables, strays>>
  BY <1>0 DEF Begins, Moves, RecordsTypeOK
<1> USE DEF Current, ReadIsCurrent, SummaryIsCurrent, StatusOK
<1>1. ASSUME NEW c \in Countries, AddJurisdiction(h, c)
      PROVE  Current(h)' /\ StatusOK(h)'
  <2> DEFINE s == [at |-> "looking", on |-> c]
             t == Failure("malformed body")
  <2>1. registered /\ (Begins(h, s) \/ Begins(h, t))
    BY <1>1 DEF AddJurisdiction
  <2>2. s.at = "looking" /\ t.at = "failed" /\ t.why = "malformed body"
    BY DEF Failure
  <2> HIDE DEF s, t
  <2>3. (handler'[h] = s \/ handler'[h] = t) /\ registered'
    BY <1>0, <2>1 DEF council
  <2> QED
    BY <2>2, <2>3
<1>2. ASSUME NEW c \in Countries, RemoveJurisdiction(h, c)
      PROVE  Current(h)' /\ StatusOK(h)'
  <2> DEFINE s == [at |-> "looking to remove", on |-> c]
  <2>1. Begins(h, s)
    BY <1>2 DEF RemoveJurisdiction
  <2>2. s.at = "looking to remove"
    OBVIOUS
  <2> HIDE DEF s
  <2>3. handler'[h] = s
    BY <1>0, <2>1
  <2> QED
    BY <2>2, <2>3
<1>3. ASSUME NEW p \in Providers, EditProvider(h, p)
      PROVE  Current(h)' /\ StatusOK(h)'
  <2> DEFINE read == providers[p].profile
             s == [at |-> "owning", on |-> p, id |-> providers[p].id, read |-> read]
  <2>1. Begins(h, s)
    BY <1>3 DEF EditProvider
  <2>2. /\ s.at = "owning" /\ s.on = p /\ s.id = providers[p].id
        /\ s.read = providers[p].profile
    OBVIOUS
  <2> HIDE DEF s
  <2>3. handler'[h] = s /\ providers' = providers
    BY <1>0, <2>1 DEF tables
  <2> QED
    BY <2>2, <2>3
<1>4. ASSUME NEW p \in Providers, AskStatus(h, p)
      PROVE  Current(h)' /\ StatusOK(h)'
  <2> DEFINE s == [at |-> "reading provider", on |-> p]
  <2>1. Begins(h, s)
    BY <1>4 DEF AskStatus
  <2>2. s.at = "reading provider"
    OBVIOUS
  <2> HIDE DEF s
  <2>3. handler'[h] = s
    BY <1>0, <2>1
  <2> QED
    BY <2>2, <2>3
<1>5. ASSUME NEW w \in Wallets, NEW email \in Texts, JoinWaitlist(h, w, email)
      PROVE  Current(h)' /\ StatusOK(h)'
  <2> DEFINE s == [at |-> IF waitlist[w] = Empty THEN "enlisting" ELSE "updating",
                   on |-> w, email |-> email]
  <2>1. Begins(h, s)
    BY <1>5 DEF JoinWaitlist
  <2>2. /\ s.on = w /\ s.at \in {"enlisting", "updating"}
        /\ s.at = "enlisting" => waitlist[w] = Empty
    OBVIOUS
  <2> HIDE DEF s
  <2>3. handler'[h] = s /\ waitlist' = waitlist
    BY <1>0, <2>1 DEF tables
  <2> QED
    BY <2>2, <2>3
<1>6. ASSUME SumUp(h)
      PROVE  Current(h)' /\ StatusOK(h)'
  <2> DEFINE s == [at |-> "summing up", on |-> "council", council |-> FALSE,
                   left |-> {"council", "jurisdictions"}, listed |-> {}]
  <2>1. Begins(h, s)
    BY <1>6 DEF SumUp
  <2>2. s.at = "summing up" /\ {"council", "jurisdictions"} \subseteq s.left
    OBVIOUS
  <2> HIDE DEF s
  <2> QED
    BY <1>0, <2>1, <2>2
<1>7. ASSUME ListCouncils(h)
      PROVE  Current(h)' /\ StatusOK(h)'
  <2> DEFINE s == [at |-> "summing up", on |-> "council", council |-> TRUE,
                   left |-> {"jurisdictions"}, listed |-> {}]
  <2>1. Begins(h, s)
    BY <1>7 DEF ListCouncils
  <2>2. s.at = "summing up" /\ s.council /\ "jurisdictions" \in s.left
    OBVIOUS
  <2> HIDE DEF s
  <2> QED
    BY <1>0, <2>1, <2>2
<1> QED
  BY <1>1, <1>2, <1>3, <1>4, <1>5, <1>6, <1>7 DEF Begin

\* What is read is current when it is read.
LEMMA ReadsCurrent ==
  ASSUME RecordsInv, NEW h \in Handlers, Reads(h), h \notin overlapped'
  PROVE  Current(h)'
<1> USE DEF RecordsInv
<1>0. handler \in [Handlers -> HandlerState] /\ handler[h] \in HandlerState
  BY DEF RecordsTypeOK
<1>1. ASSUME Ends(h)
      PROVE  Current(h)'
  BY <1>1, RestingIsCurrent DEF Ends
<1>2. ASSUME NEW s, Moves(h, s), UNCHANGED overlapped
      PROVE  handler'[h] = s /\ Current(h)
  BY <1>0, <1>2 DEF Moves, ReadsInv, Current
<1>13. ASSUME NEW why \in {"malformed body", "database"}, Fails(h, why)
       PROVE  Current(h)'
  <2> DEFINE s == Failure(why)
  <2>1. s.at = "failed" /\ s.why = why
    BY DEF Failure
  <2>2. handler'[h] = s
    BY <1>2, <1>13 DEF Fails
  <2> HIDE DEF s
  <2> QED
    BY <2>1, <2>2 DEF Current, ReadIsCurrent, SummaryIsCurrent
<1>3. CASE LookListed(h)
  <2>1. CASE Listed(handler[h].on)
    BY <1>1, <1>3, <2>1 DEF LookListed
  <2>2. CASE ~Listed(handler[h].on)
    <3>1. handler'[h] = [handler[h] EXCEPT !.at = "looking deleted"] /\ Current(h)
      BY <1>2, <1>3, <2>2 DEF LookListed, At
    <3>2. handler'[h].at = "looking deleted" /\ handler'[h].on = handler[h].on
      BY <1>0, <1>3, <3>1, StatesByPhase DEF Adding, LookListed
    <3>3. registered /\ UNCHANGED <<registered, jurisdictions>>
      BY <1>3, <3>1 DEF LookListed, ReadOnly, council, tables, Current, ReadIsCurrent
    <3> QED
      BY <2>2, <3>2, <3>3 DEF Current, ReadIsCurrent, SummaryIsCurrent, Listed
  <2> QED
    BY <2>1, <2>2
<1>4. CASE LookDeleted(h)
  <2> DEFINE c == handler[h].on
  <2>0. handler[h] \in Adding
    BY <1>0, <1>4, StatesByPhase DEF LookDeleted
  <2>1. UNCHANGED <<registered, jurisdictions>> /\ overlapped' = overlapped
    BY <1>4 DEF LookDeleted, ReadOnly, council, tables, Fails
  <2>2. CASE SoftDeleted(c) /\ ~Fails(h, "malformed body")
    <3>1. PICK label \in Text : Moves(h, [at |-> "restoring", on |-> c, label |-> label,
                                  id |-> jurisdictions[c].id, old |-> jurisdictions[c].label])
      BY <1>4, <2>2 DEF LookDeleted
    <3>2. handler'[h] = [at |-> "restoring", on |-> c, label |-> label,
                         id |-> jurisdictions[c].id, old |-> jurisdictions[c].label]
      BY <1>2, <2>1, <3>1
    <3> QED
      BY <2>1, <3>2 DEF Current, ReadIsCurrent, SummaryIsCurrent
  <2>3. CASE ~SoftDeleted(c) /\ ~Fails(h, "malformed body")
    <3>1. PICK label \in Text : Moves(h, [at |-> "inserting", on |-> c, label |-> label])
      BY <1>4, <2>3 DEF LookDeleted
    <3>2. handler'[h] = [at |-> "inserting", on |-> c, label |-> label] /\ Current(h)
      BY <1>2, <2>1, <3>1
    <3>3. registered /\ jurisdictions[c] = NoRow
      BY <1>4, <2>3, <3>2 DEF LookDeleted, Current, ReadIsCurrent, SoftDeleted, Listed
    <3>4. /\ handler'[h].at = "inserting" /\ handler'[h].on = c
          /\ registered' /\ jurisdictions'[c] = NoRow
      BY <2>1, <3>2, <3>3
    <3> QED
      BY <3>4 DEF Current, ReadIsCurrent, SummaryIsCurrent
  <2>4. CASE Fails(h, "malformed body")
    BY <1>13, <2>4
  <2> QED
    BY <2>2, <2>3, <2>4
<1>5. CASE LookToRemove(h)
  <2>1. CASE Listed(handler[h].on)
    <3>1. handler'[h] = [at |-> "removing", on |-> handler[h].on,
                         id |-> jurisdictions[handler[h].on].id]
      BY <1>2, <1>5, <2>1 DEF LookToRemove
    <3> QED
      BY <3>1 DEF Current, ReadIsCurrent, SummaryIsCurrent
  <2>2. CASE ~Listed(handler[h].on)
    BY <1>1, <1>5, <2>2 DEF LookToRemove
  <2> QED
    BY <2>1, <2>2
<1>6. CASE OwnProvider(h)
  <2>1. ASSUME NEW body \in Profile, overlapped' = overlapped,
               Moves(h, [at |-> "editing", on |-> handler[h].on, id |-> handler[h].id,
                         edited |-> Edited(body, handler[h].read),
                         asked |-> {f \in Fields : body[f] # Empty}])
        PROVE  Current(h)'
    <3> DEFINE x == handler[h].on
               asked == {f \in Fields : body[f] # Empty}
               edited == Edited(body, handler[h].read)
    <3>1. handler'[h] = [at |-> "editing", on |-> x, id |-> handler[h].id,
                         edited |-> edited, asked |-> asked] /\ Current(h)
      BY <1>2, <2>1
    <3>2. /\ handler[h].at = "owning" /\ providers' = providers
          /\ providers[x].id = handler[h].id
          /\ \A f \in Fields : providers[x].profile[f] = handler[h].read[f]
      BY <1>6, <3>1 DEF OwnProvider, ReadOnly, tables, Current, ReadIsCurrent
    <3>3. \A f \in Fields \ asked : edited[f] = handler[h].read[f]
      BY DEF Edited, OrElse
    <3> HIDE DEF asked, edited, x
    <3>4. /\ handler'[h].at = "editing" /\ handler'[h].on = x /\ handler'[h].id = handler[h].id
          /\ handler'[h].edited = edited /\ handler'[h].asked = asked
      BY <3>1
    <3> QED
      BY <3>2, <3>3, <3>4 DEF Current, ReadIsCurrent, SummaryIsCurrent
  <2>2. CASE Ends(h) \/ Fails(h, "malformed body")
    BY <1>1, <1>13, <2>2
  <2> QED
    BY <1>6, <2>1, <2>2 DEF OwnProvider
<1>7. CASE Reread(h)
  <2>1. CASE providers[handler[h].on].id = handler[h].id
    BY <1>1, <1>7, <2>1 DEF Reread
  <2>2. CASE providers[handler[h].on].id # handler[h].id
    <3>1. overlapped' = overlapped
      BY <1>7, <2>2 DEF Reread, Fails
    <3>2. ReadIsCurrent(h)
      BY <3>1 DEF ReadsInv
    <3> QED
      BY <1>7, <2>2, <3>2 DEF Reread, ReadIsCurrent
  <2> QED
    BY <2>1, <2>2
<1>8. CASE ReadProvider(h)
  <2>1. CASE IsActive(handler[h].on)
    BY <1>1, <1>8, <2>1 DEF ReadProvider
  <2>2. CASE ~IsActive(handler[h].on)
    <3>1. handler[h] \in Asking
      BY <1>0, <1>8, StatesByPhase DEF ReadProvider, StatusReads
    <3>2. handler'[h] = [handler[h] EXCEPT !.at = "reading requests"]
      BY <1>2, <1>8, <2>2 DEF ReadProvider, At
    <3>3. handler'[h].at = "reading requests"
      BY <3>1, <3>2 DEF Asking
    <3> QED
      BY <3>3 DEF Current, ReadIsCurrent, SummaryIsCurrent
  <2> QED
    BY <2>1, <2>2
<1>9. CASE ReadPending(h)
  <2>1. CASE IsPending(handler[h].on)
    BY <1>1, <1>9, <2>1 DEF ReadPending
  <2>2. CASE ~IsPending(handler[h].on)
    <3>1. handler[h] \in Asking
      BY <1>0, <1>9, StatesByPhase DEF ReadPending, StatusReads
    <3>2. handler'[h] = [handler[h] EXCEPT !.at = "NOT_FOUND"]
      BY <1>2, <1>9, <2>2 DEF ReadPending, At
    <3>3. handler'[h].at = "NOT_FOUND"
      BY <3>1, <3>2 DEF Asking
    <3> QED
      BY <3>3 DEF Current, ReadIsCurrent, SummaryIsCurrent
  <2> QED
    BY <2>1, <2>2
<1>10. CASE ReadCouncil(h)
  <2>1. handler[h] \in SummingUp
    BY <1>0, <1>10, StatesByPhase DEF ReadCouncil
  <2>2. /\ handler'[h] = [handler[h] EXCEPT !.left = @ \ {"council"}, !.council = registered]
        /\ Current(h)
    BY <1>2, <1>10 DEF ReadCouncil
  <2>3. /\ handler'[h].at = "summing up" /\ handler'[h].council = registered
        /\ handler'[h].left = handler[h].left \ {"council"}
        /\ handler'[h].listed = handler[h].listed
    BY <2>1, <2>2 DEF SummingUp
  <2>4. UNCHANGED <<registered, strays>> /\ handler[h].at = "summing up"
    BY <1>10 DEF ReadCouncil, ReadOnly, council
  <2> QED
    BY <2>2, <2>3, <2>4 DEF Current, ReadIsCurrent, SummaryIsCurrent
<1>11. CASE ReadJurisdictions(h)
  <2> DEFINE listed == {c \in Countries : Listed(c)}
  <2>1. handler[h] \in SummingUp
    BY <1>0, <1>11, StatesByPhase DEF ReadJurisdictions
  <2>2. /\ handler'[h] = [handler[h] EXCEPT !.left = @ \ {"jurisdictions"}, !.listed = listed]
        /\ Current(h)
    BY <1>2, <1>11 DEF ReadJurisdictions
  <2>3. ~registered => listed \subseteq strays
    BY DEF StraysInv, Listed
  <2> HIDE DEF listed
  <2>4. /\ handler'[h].at = "summing up" /\ handler'[h].council = handler[h].council
        /\ handler'[h].left = handler[h].left \ {"jurisdictions"}
        /\ handler'[h].listed = listed
    BY <2>1, <2>2 DEF SummingUp
  <2>5. UNCHANGED <<registered, strays>> /\ handler[h].at = "summing up"
    BY <1>11 DEF ReadJurisdictions, ReadOnly, council
  <2> QED
    BY <2>2, <2>3, <2>4, <2>5 DEF Current, ReadIsCurrent, SummaryIsCurrent
<1>12. CASE Answered(h) \/ RequestFails(h)
  BY <1>1, <1>12, <1>13 DEF Answered, RequestFails
<1> QED
  BY <1>3, <1>4, <1>5, <1>6, <1>7, <1>8, <1>9, <1>10, <1>11, <1>12 DEF Reads

\* A request that writes ends, or goes on with what it had read.  It fails only
\* when what it had read was not current.
LEMMA WritesCurrent ==
  ASSUME RecordsInv, NEW h \in Handlers, Writes(h), h \notin overlapped'
  PROVE  Current(h)'
<1> DEFINE x == handler[h].on
<1>0. /\ RecordsTypeOK /\ handler[h] \in HandlerState
      /\ providers \in [Providers -> Provider \cup {NoRow}]
  BY DEF RecordsInv, RecordsTypeOK
<1>1. ASSUME Moves(h, Resting)
      PROVE  Current(h)'
  BY <1>0, <1>1, RestingIsCurrent
<1>2. ASSUME UNCHANGED overlapped
      PROVE  ReadIsCurrent(h)
  BY <1>2 DEF RecordsInv, ReadsInv
<1>3. CASE RestoreJurisdiction(h)
  <2>1. CASE jurisdictions[x].id = handler[h].id
    BY <1>1, <1>3, <2>1 DEF RestoreJurisdiction, WritesOn
  <2>2. CASE jurisdictions[x].id # handler[h].id
    <3>1. ReadIsCurrent(h)
      BY <1>2, <1>3, <2>2 DEF RestoreJurisdiction, Fails
    <3> QED
      BY <1>3, <2>2, <3>1 DEF RestoreJurisdiction, ReadIsCurrent
  <2> QED
    BY <2>1, <2>2
<1>4. CASE InsertJurisdiction(h)
  <2>1. CASE jurisdictions[x] = NoRow
    BY <1>1, <1>4, <2>1 DEF InsertJurisdiction, WritesOn
  <2>2. CASE jurisdictions[x] # NoRow
    <3>1. ReadIsCurrent(h)
      BY <1>2, <1>4, <2>2 DEF InsertJurisdiction, Fails
    <3> QED
      BY <1>4, <2>2, <3>1 DEF InsertJurisdiction, ReadIsCurrent
  <2> QED
    BY <2>1, <2>2
<1>5. CASE SoftDelete(h)
  BY <1>1, <1>5 DEF SoftDelete, WritesOn, Ends
<1>6. CASE UpdateProvider(h)
  <2>1. CASE providers[x].id = handler[h].id
    <3>1. handler[h] \in Editing /\ x \in Providers /\ handler[h].id \in Id
      BY <1>0, <1>6, StatesByPhase DEF UpdateProvider, Editing
    <3>2. handler'[h] = [at |-> "rereading", on |-> x, id |-> handler[h].id]
      BY <1>0, <1>6, <2>1 DEF UpdateProvider, WritesOn, Moves, RecordsTypeOK
    <3>3. /\ handler'[h].at = "rereading" /\ handler'[h].on = x
          /\ handler'[h].id = handler[h].id
      BY <3>2
    <3>4. providers'[x] = [providers[x] EXCEPT !.profile = handler[h].edited]
      BY <1>0, <1>6, <2>1, <3>1 DEF UpdateProvider
    <3>5. providers[x] \in Provider
      BY <1>0, <2>1, <3>1, RowsHaveIds
    <3>6. providers'[x].id = handler[h].id
      BY <2>1, <3>4, <3>5 DEF Provider
    <3> HIDE DEF x
    <3> QED
      BY <3>3, <3>6 DEF Current, ReadIsCurrent, SummaryIsCurrent
  <2>2. CASE providers[x].id # handler[h].id
    <3>1. ReadIsCurrent(h)
      BY <1>2, <1>6, <2>2 DEF UpdateProvider
    <3> QED
      BY <1>6, <2>2, <3>1 DEF UpdateProvider, ReadIsCurrent
  <2> QED
    BY <2>1, <2>2
<1>7. CASE UpdateEmail(h)
  BY <1>1, <1>7 DEF UpdateEmail, WritesOn
<1>8. CASE Enlist(h)
  <2>1. CASE waitlist[x] = Empty
    BY <1>1, <1>8, <2>1 DEF Enlist, WritesOn
  <2>2. CASE waitlist[x] # Empty
    <3>1. ReadIsCurrent(h)
      BY <1>2, <1>8, <2>2 DEF Enlist, Fails
    <3> QED
      BY <1>8, <2>2, <3>1 DEF Enlist, ReadIsCurrent
  <2> QED
    BY <2>1, <2>2
<1> QED
  BY <1>3, <1>4, <1>5, <1>6, <1>7, <1>8 DEF Writes

\* The other modules' commits mark the requests whose reads they overtake.
LEMMA CommitsCurrent ==
  ASSUME RecordsInv, Commits, NEW g \in Handlers, g \notin overlapped'
  PROVE  Current(g)'
<1> DEFINE x == handler[g].on
<1>0. /\ RecordsTypeOK /\ handler[g] \in HandlerState
      /\ providers \in [Providers -> Provider \cup {NoRow}]
  BY DEF RecordsInv, RecordsTypeOK
<1>1. ASSUME NEW others, CommitsOf(others)
      PROVE  /\ handler'[g] = handler[g] /\ g \notin others
             /\ Current(g)
  BY <1>1 DEF CommitsOf, RecordsInv, ReadsInv, Current
<1>2. ASSUME NEW others, CommitsOf(others), registered' = registered, strays' = strays,
             handler[g].at \in StatusReads \/ Untouched(x)
      PROVE  Current(g)'
  <2>1. handler'[g] = handler[g] /\ ReadIsCurrent(g) /\ SummaryIsCurrent(g)
    BY <1>1, <1>2 DEF Current
  <2>2. ReadIsCurrent(g)'
    BY <1>0, <1>2, <2>1, CurrentKept
  <2>3. SummaryIsCurrent(g)'
    BY <1>2, <2>1, SummaryKept
  <2> QED
    BY <2>2, <2>3 DEF Current
<1>3. CASE RegisterCouncil
  <2>1. /\ handler'[g] = handler[g] /\ Current(g)
        /\ ~(g \in Active /\ x = "council")
    BY <1>1, <1>3 DEF RegisterCouncil
  <2>2. registered' /\ Untouched(x)
    BY <1>3 DEF RegisterCouncil, tables, Untouched
  <2>3. ReadIsCurrent(g)'
    BY <1>0, <2>1, <2>2, CurrentKept DEF Current
  <2>4. handler[g].at # "summing up"
    <3>1. ASSUME handler[g].at = "summing up"
          PROVE  FALSE
      <4>1. x = "council"
        BY <1>0, <3>1, StatesByPhase DEF SummingUp
      <4>2. handler[g] # Resting
        BY <1>0, <3>1, StatesByPhase
      <4> QED
        BY <2>1, <4>1, <4>2 DEF Active
    <3> QED
      BY <3>1
  <2> QED
    BY <2>1, <2>3, <2>4 DEF Current, SummaryIsCurrent
<1>4. CASE CommitDelete
  <2>1. /\ handler'[g] = handler[g] /\ Current(g)
        /\ g \notin Active \/ x \in Wallets
    BY <1>1, <1>4 DEF CommitDelete
  <2>2. waitlist' = waitlist
    BY <1>4 DEF CommitDelete
  <2>3. handler[g].at \in {"resting", "updating", "enlisting", "failed"}
    <3>1. CASE g \notin Active
      BY <3>1 DEF Active, Resting
    <3>2. CASE x \in Wallets
      <4>1. \A t \in Adding \cup Inserting \cup Restoring \cup Seeking \cup Removing :
               t.on \in Countries
        BY DEF Adding, Inserting, Restoring, Seeking, Removing
      <4>2. /\ \A t \in Owning \cup Editing \cup Rereading \cup Asking : t.on \in Providers
            /\ \A t \in SummingUp : t.on = "council"
        BY DEF Owning, Editing, Rereading, Asking, SummingUp
      <4>3. x \notin Countries \cup Providers /\ x # "council"
        BY <3>2, KeysAssumption
      <4>4. handler[g] \in Joining \cup Failing \cup {Resting}
        BY <1>0, <4>1, <4>2, <4>3 DEF HandlerState
      <4> QED
        BY <4>4 DEF Joining, Failing, Resting
    <3> QED
      BY <2>1, <3>1, <3>2
  <2> QED
    BY <2>1, <2>2, <2>3 DEF Current, ReadIsCurrent, SummaryIsCurrent
<1>5. ASSUME NEW p \in Providers, PostJoinRequest(p)
      PROVE  Current(g)'
  <2>1. Untouched(x)
    BY <1>5 DEF PostJoinRequest, Untouched
  <2> QED
    BY <1>2, <1>5, <2>1 DEF PostJoinRequest, council
<1>6. ASSUME NEW p \in Providers, Review(p)
      PROVE  Current(g)'
  <2>1. \A q \in Providers : providers[q] # NoRow => providers'[q] = providers[q]
    BY <1>0, <1>6 DEF Review
  <2>2. Untouched(x)
    BY <1>6, <2>1 DEF Review, Untouched
  <2> QED
    BY <1>2, <1>6, <2>2 DEF Review, council
<1>7. ASSUME NEW p \in Providers, WatcherCommits(p)
      PROVE  Current(g)'
  <2>1. ASSUME NEW q \in Providers, providers[q] # NoRow
        PROVE  /\ providers'[q].id = providers[q].id
               /\ providers'[q].profile = providers[q].profile
    <3>1. CASE providers' = [providers EXCEPT ![p] = NewProvider] /\ providers[p] = NoRow
      BY <1>0, <2>1, <3>1
    <3>2. ASSUME NEW status, providers' = [providers EXCEPT ![p].status = status]
          PROVE  /\ providers'[q].id = providers[q].id
                 /\ providers'[q].profile = providers[q].profile
      <4>1. providers[q] \in Provider
        BY <1>0, <2>1
      <4>2. \/ providers'[q] = providers[q]
            \/ providers'[q] = [providers[q] EXCEPT !.status = status]
        BY <1>0, <3>2
      <4> QED
        BY <4>1, <4>2 DEF Provider
    <3> QED
      BY <1>7, <3>1, <3>2 DEF WatcherCommits
  <2>2. Untouched(x)
    BY <1>7, <2>1 DEF WatcherCommits, Untouched
  <2> QED
    BY <1>2, <1>7, <2>2 DEF WatcherCommits, council
<1> QED
  BY <1>3, <1>4, <1>5, <1>6, <1>7 DEF Commits

\* A deletion that has not committed disturbs nobody.
LEMMA DoomingsSpare ==
  ASSUME Doomings
  PROVE  UNCHANGED <<registered, era, tables, handler, overlapped, absent, strays>>
  BY DEF Doomings, DeleteRequests, DeleteProviders, DeleteJurisdictions, AbortDelete, Deletes

LEMMA ReadsInvStep ==
  ASSUME RecordsInv, Next
  PROVE  ReadsInv'
<1>0. RecordsTypeOK
  BY DEF RecordsInv
<1>1. SUFFICES ASSUME NEW g \in Handlers, g \notin overlapped'
               PROVE  Current(g)'
  BY <1>1 DEF ReadsInv, Current
<1>2. ASSUME NEW h \in Handlers, Begin(h) \/ Reads(h) \/ Writes(h), h # g
      PROVE  Current(g)'
  <2>1. /\ handler'[g] = handler[g] /\ g \notin overlapped
        /\ handler[g].at \in StatusReads \/ Untouched(handler[g].on)
        /\ registered' = registered /\ strays \subseteq strays'
    BY <1>0, <1>1, <1>2, ReadsSpare, WritesSpare
  <2>2. ReadIsCurrent(g) /\ SummaryIsCurrent(g)
    BY <2>1 DEF RecordsInv, ReadsInv
  <2>3. ReadIsCurrent(g)'
    BY <1>0, <2>1, <2>2, CurrentKept
  <2>4. SummaryIsCurrent(g)'
    BY <2>1, <2>2, SummaryKept
  <2> QED
    BY <2>3, <2>4 DEF Current
<1>3. ASSUME Begin(g) \/ Reads(g) \/ Writes(g)
      PROVE  Current(g)'
  BY <1>0, <1>1, <1>3, BeginCurrent, ReadsCurrent, WritesCurrent
<1>4. CASE Commits
  BY <1>1, <1>4, CommitsCurrent
<1>5. CASE Doomings
  <2>1. UNCHANGED <<registered, tables, handler, overlapped, strays>>
    BY <1>5, DoomingsSpare
  <2>2. ReadIsCurrent(g) /\ SummaryIsCurrent(g)
    BY <1>1, <2>1 DEF RecordsInv, ReadsInv
  <2>3. Untouched(handler[g].on)
    BY <2>1 DEF Untouched, tables
  <2>4. ReadIsCurrent(g)'
    BY <1>0, <2>1, <2>2, <2>3, CurrentKept
  <2>5. SummaryIsCurrent(g)'
    BY <2>1, <2>2, SummaryKept
  <2> QED
    BY <2>4, <2>5 DEF Current
<1> QED
  BY <1>2, <1>3, <1>4, <1>5, StepKinds

-----------------------------------------------------------------------------
(* Strays, and the status of a key.                                        *)

LEMMA StraysInvStep ==
  ASSUME RecordsInv, Next
  PROVE  StraysInv'
<1>0. /\ RecordsTypeOK /\ StraysInv /\ NoRow.id = 0
      /\ jurisdictions \in [Countries -> Jurisdiction \cup {NoRow}]
  BY DEF RecordsInv, RecordsTypeOK, NoRow
<1>1. ASSUME UNCHANGED <<registered, deleting, doomed, jurisdictions, strays>>
      PROVE  StraysInv'
  BY <1>0, <1>1 DEF StraysInv
<1>2. ASSUME NEW h \in Handlers, Begin(h) \/ Reads(h)
      PROVE  StraysInv'
  BY <1>1, <1>2, NothingWritten DEF council, tables
<1>3. ASSUME NEW h \in Handlers, Writes(h)
      PROVE  StraysInv'
  <2> DEFINE x == handler[h].on
  <2>0. handler[h] \in HandlerState
    BY <1>0 DEF RecordsTypeOK
  <2>1. ASSUME UNCHANGED <<registered, deleting, doomed>>, strays \subseteq strays',
               \A c \in Countries \ {x} : jurisdictions'[c] = jurisdictions[c],
               ~registered /\ jurisdictions'[x] # NoRow => x \in strays',
               deleting = "jurisdictions" /\ jurisdictions'[x] # NoRow
                 => x \in strays' \cup doomed.jurisdictions
        PROVE  StraysInv'
    BY <1>0, <2>1 DEF StraysInv
  <2>2. CASE RestoreJurisdiction(h)
    <3>1. handler[h] \in Restoring
      BY <2>0, <2>2, StatesByPhase DEF RestoreJurisdiction
    <3>2. x \in Countries /\ handler[h].id # 0
      BY <3>1 DEF Restoring, Id
    <3>3. jurisdictions[x].id = handler[h].id => jurisdictions[x] # NoRow
      BY <1>0, <3>2
    <3>4. UNCHANGED <<registered, deleting, doomed, strays>>
      BY <2>2 DEF RestoreJurisdiction, council
    <3>5. jurisdictions[x] # NoRow =>
            /\ ~registered => x \in strays
            /\ deleting = "jurisdictions" => x \in strays \cup doomed.jurisdictions
      BY <1>0, <3>2 DEF StraysInv
    <3> QED
      BY <1>0, <1>1, <2>1, <2>2, <3>2, <3>3, <3>4, <3>5 DEF RestoreJurisdiction
  <2>3. CASE InsertJurisdiction(h)
    <3>1. handler[h] \in Inserting
      BY <2>0, <2>3, StatesByPhase DEF InsertJurisdiction
    <3>2. x \in Countries
      BY <3>1 DEF Inserting
    <3>3. h \in overlapped \/ registered
      BY <2>3 DEF RecordsInv, ReadsInv, ReadIsCurrent, InsertJurisdiction
    <3>4. UNCHANGED <<registered, deleting, doomed>>
      BY <2>3 DEF InsertJurisdiction, council
    <3> QED
      BY <1>0, <1>1, <2>1, <2>3, <3>2, <3>3, <3>4 DEF InsertJurisdiction
  <2>4. CASE SoftDelete(h)
    <3>1. handler[h] \in Removing
      BY <2>0, <2>4, StatesByPhase DEF SoftDelete
    <3>2. x \in Countries /\ handler[h].id # 0
      BY <3>1 DEF Removing, Id
    <3>3. jurisdictions[x].id = handler[h].id => jurisdictions[x] # NoRow
      BY <1>0, <3>2
    <3>4. UNCHANGED <<registered, deleting, doomed, strays>>
      BY <2>4 DEF SoftDelete, council
    <3>5. jurisdictions[x] # NoRow =>
            /\ ~registered => x \in strays
            /\ deleting = "jurisdictions" => x \in strays \cup doomed.jurisdictions
      BY <1>0, <3>2 DEF StraysInv
    <3> QED
      BY <1>0, <1>1, <2>1, <2>4, <3>2, <3>3, <3>4, <3>5 DEF SoftDelete
  <2>5. CASE UpdateProvider(h) \/ UpdateEmail(h) \/ Enlist(h)
    BY <1>1, <2>5 DEF UpdateProvider, UpdateEmail, Enlist, council
  <2> QED
    BY <1>3, <2>2, <2>3, <2>4, <2>5 DEF Writes
<1>4. CASE Commits
  <2>1. CASE RegisterCouncil
    BY <1>0, <2>1 DEF RegisterCouncil, StraysInv, tables
  <2>2. CASE CommitDelete
    BY <1>0, <2>2 DEF CommitDelete, StraysInv
  <2>3. CASE \E p \in Providers : PostJoinRequest(p) \/ Review(p) \/ WatcherCommits(p)
    BY <1>1, <2>3 DEF PostJoinRequest, Review, WatcherCommits, council
  <2> QED
    BY <1>4, <2>1, <2>2, <2>3 DEF Commits
<1>5. CASE Doomings
  <2>1. UNCHANGED <<registered, jurisdictions, strays>>
    BY <1>5, DoomingsSpare DEF tables
  <2>2. CASE DeleteJurisdictions
    BY <1>0, <2>1, <2>2
    DEF DeleteJurisdictions, Deletes, JurisdictionsDeleted, StraysInv, RecordsTypeOK
  <2>3. CASE DeleteRequests \/ DeleteProviders \/ AbortDelete
    BY <1>0, <2>1, <2>3 DEF DeleteRequests, DeleteProviders, AbortDelete, Deletes, StraysInv
  <2> QED
    BY <1>5, <2>2, <2>3 DEF Doomings
<1> QED
  BY <1>2, <1>3, <1>4, <1>5, StepKinds

\* A request at rest while another, or a commit, steps.
LEMMA StatusKept ==
  ASSUME RecordsInv, NEW g \in Handlers, handler'[g] = handler[g],
         g \notin overlapped, g \notin absent', NEW unknown, Remembers(unknown),
         handler[g].at \in StatusReads /\ handler[g].on \in pending
           => handler[g].on \in pending'
  PROVE  StatusOK(g)'
<1>1. handler[g].at \in StatusReads => g \notin absent
  BY DEF Remembers
<1>2. handler[g].at \in StatusReads => StatusOK(g)
  BY <1>1 DEF RecordsInv, StatusInv, StatusOK
<1> QED
  BY <1>2 DEF StatusOK, StatusReads

\* A step of the request itself.
LEMMA OwnStatus ==
  ASSUME RecordsInv, NEW h \in Handlers, Begin(h) \/ Reads(h) \/ Writes(h),
         h \notin overlapped', h \notin absent'
  PROVE  StatusOK(h)'
<1>0. /\ RecordsTypeOK /\ RequestsOK
      /\ handler \in [Handlers -> HandlerState] /\ handler[h] \in HandlerState
  BY TypeParts DEF RecordsInv, RecordsTypeOK
<1>1. ASSUME NEW s, Moves(h, s)
      PROVE  /\ handler'[h] = s
             /\ s.at \notin {"reading requests", "NOT_FOUND"} => StatusOK(h)'
  BY <1>0, <1>1 DEF Moves, StatusOK
<1>2. ASSUME Moves(h, Resting)
      PROVE  StatusOK(h)'
  <2>1. Resting.at = "resting"
    BY DEF Resting
  <2> QED
    BY <1>1, <1>2, <2>1
<1>3. ASSUME NEW why, Fails(h, why)
      PROVE  StatusOK(h)'
  <2> DEFINE s == Failure(why)
  <2>1. Moves(h, s)
    BY <1>3 DEF Fails
  <2>2. s.at = "failed"
    BY DEF Failure
  <2> HIDE DEF s
  <2> QED
    BY <1>1, <2>1, <2>2
<1>4. ASSUME NEW at, At(h, at), handler[h].at # "resting",
             at \notin {"reading requests", "NOT_FOUND"}
      PROVE  StatusOK(h)'
  <2>1. [handler[h] EXCEPT !.at = at].at = at
    BY <1>0, <1>4 DEF HandlerState, Adding, Inserting, Restoring, Seeking, Removing, Owning,
       Editing, Rereading, Asking, Joining, SummingUp, Failing, Resting
  <2> QED
    BY <1>1, <1>4, <2>1 DEF At
<1>5. CASE Begin(h)
  BY <1>0, <1>5, BeginCurrent
<1>6. CASE ReadProvider(h)
  <2>1. CASE IsActive(handler[h].on)
    BY <1>2, <1>6, <2>1 DEF ReadProvider, Ends
  <2>2. CASE ~IsActive(handler[h].on)
    <3>1. handler[h] \in Asking /\ handler[h].on \in Providers
      BY <1>0, <1>6, StatesByPhase DEF ReadProvider, StatusReads, Asking
    <3>2. handler'[h] = [handler[h] EXCEPT !.at = "reading requests"] /\ Remembers(Unknown)
      BY <1>1, <1>6, <2>2 DEF ReadProvider, At, Moves
    <3>3. handler'[h].at = "reading requests" /\ handler'[h].on = handler[h].on
      BY <3>1, <3>2 DEF Asking
    <3>4. handler[h].on \notin Unknown
      BY <3>2, <3>3 DEF Remembers, StatusReads
    <3>5. handler[h].on \in pending /\ pending' = pending
      BY <1>6, <2>2, <3>1, <3>4 DEF Unknown, ReadProvider, ReadOnly, tables
    <3> QED
      BY <3>3, <3>5 DEF StatusOK
  <2> QED
    BY <2>1, <2>2
<1>7. CASE ReadPending(h)
  <2>1. CASE IsPending(handler[h].on)
    BY <1>2, <1>7, <2>1 DEF ReadPending, Ends
  <2>2. CASE ~IsPending(handler[h].on)
    <3>1. handler[h] \in Asking
      BY <1>0, <1>7, StatesByPhase DEF ReadPending, StatusReads
    <3>2. /\ handler'[h] = [handler[h] EXCEPT !.at = "NOT_FOUND"] /\ Remembers(Unknown)
          /\ overlapped' = overlapped
      BY <1>1, <1>7, <2>2 DEF ReadPending, At, Moves
    <3>3. handler'[h].at = "NOT_FOUND"
      BY <3>1, <3>2 DEF Asking
    <3>4. h \notin absent /\ h \notin overlapped
      BY <3>2, <3>3 DEF Remembers, StatusReads
    <3> QED
      BY <1>7, <2>2, <3>4 DEF RecordsInv, StatusInv, ReadPending, IsPending
  <2> QED
    BY <2>1, <2>2
<1>8. CASE LookListed(h) \/ LookDeleted(h) \/ LookToRemove(h) \/ OwnProvider(h) \/ Reread(h)
  <2>1. CASE LookDeleted(h)
    <3>1. ASSUME NEW label, NEW id, NEW old,
                 \/ Moves(h, [at |-> "inserting", on |-> handler[h].on, label |-> label])
                 \/ Moves(h, [at |-> "restoring", on |-> handler[h].on, label |-> label,
                              id |-> id, old |-> old])
          PROVE  StatusOK(h)'
      <4> DEFINE s == [at |-> "inserting", on |-> handler[h].on, label |-> label]
                 t == [at |-> "restoring", on |-> handler[h].on, label |-> label,
                       id |-> id, old |-> old]
      <4>1. (Moves(h, s) \/ Moves(h, t)) /\ s.at = "inserting" /\ t.at = "restoring"
        BY <3>1
      <4> HIDE DEF s, t
      <4> QED
        BY <1>1, <4>1
    <3> QED
      BY <1>3, <2>1, <3>1 DEF LookDeleted
  <2>2. CASE LookToRemove(h)
    <3> DEFINE c == handler[h].on
               s == [at |-> "removing", on |-> c, id |-> jurisdictions[c].id]
    <3>1. Moves(h, s) \/ Ends(h)
      BY <2>2 DEF LookToRemove
    <3>2. s.at = "removing"
      OBVIOUS
    <3> HIDE DEF s
    <3> QED
      BY <1>1, <1>2, <3>1, <3>2 DEF Ends
  <2>3. CASE LookListed(h)
    BY <1>2, <1>4, <2>3 DEF LookListed, Ends
  <2>4. CASE OwnProvider(h)
    <3>1. ASSUME NEW body, NEW edited, NEW asked,
                 Moves(h, [at |-> "editing", on |-> handler[h].on, id |-> handler[h].id,
                           edited |-> edited, asked |-> asked])
          PROVE  StatusOK(h)'
      <4> DEFINE s == [at |-> "editing", on |-> handler[h].on, id |-> handler[h].id,
                       edited |-> edited, asked |-> asked]
      <4>1. Moves(h, s) /\ s.at = "editing"
        BY <3>1
      <4> HIDE DEF s
      <4> QED
        BY <1>1, <4>1
    <3> QED
      BY <1>2, <1>3, <2>4, <3>1 DEF OwnProvider, Ends
  <2>5. CASE Reread(h)
    BY <1>2, <1>3, <2>5 DEF Reread, Ends
  <2> QED
    BY <1>8, <2>1, <2>2, <2>3, <2>4, <2>5
<1>9. CASE ReadCouncil(h) \/ ReadJurisdictions(h)
  <2>1. handler[h] \in SummingUp
    BY <1>0, <1>9, StatesByPhase DEF ReadCouncil, ReadJurisdictions
  <2>2. \/ handler'[h] = [handler[h] EXCEPT !.left = @ \ {"council"}, !.council = registered]
        \/ handler'[h] = [handler[h] EXCEPT !.left = @ \ {"jurisdictions"},
                                            !.listed = {c \in Countries : Listed(c)}]
    BY <1>1, <1>9 DEF ReadCouncil, ReadJurisdictions
  <2>3. handler'[h].at = "summing up"
    BY <2>1, <2>2 DEF SummingUp
  <2> QED
    BY <2>3 DEF StatusOK
<1>10. CASE Answered(h) \/ RequestFails(h)
  BY <1>2, <1>3, <1>10 DEF Answered, RequestFails, Ends
<1>11. CASE Writes(h)
  <2>1. CASE UpdateProvider(h)
    <3>1. handler'[h] = [at |-> "rereading", on |-> handler[h].on, id |-> handler[h].id]
      BY <1>1, <2>1 DEF UpdateProvider, WritesOn
    <3> QED
      BY <3>1 DEF StatusOK
  <2>2. CASE ~UpdateProvider(h)
    BY <1>2, <1>3, <1>11, <2>2
    DEF Writes, RestoreJurisdiction, InsertJurisdiction, SoftDelete, UpdateEmail, Enlist,
        WritesOn, Ends
  <2> QED
    BY <2>1, <2>2
<1> QED
  BY <1>5, <1>6, <1>7, <1>8, <1>9, <1>10, <1>11 DEF Reads

\* A commit.
LEMMA CommitStatus ==
  ASSUME RecordsInv, Commits, NEW g \in Handlers, g \notin overlapped', g \notin absent'
  PROVE  StatusOK(g)'
<1> DEFINE x == handler[g].on
<1>0. handler[g] \in HandlerState
  BY DEF RecordsInv, RecordsTypeOK
<1>1. ASSUME NEW others, CommitsOf(others),
             g \notin others => (handler[g].at \in StatusReads /\ x \in pending => x \in pending')
      PROVE  StatusOK(g)'
  <2>1. /\ handler'[g] = handler[g] /\ g \notin overlapped /\ g \notin others
        /\ Remembers(Unknown')
    BY <1>1 DEF CommitsOf
  <2> QED
    BY <1>1, <2>1, StatusKept
<1>2. handler[g].at \in StatusReads => g \in Active /\ x \in Providers
  <2>1. Resting.at \notin StatusReads
    BY DEF Resting, StatusReads
  <2> QED
    BY <1>0, <2>1, StatesByPhase DEF Active, Asking
<1>3. CASE RegisterCouncil
  BY <1>1, <1>3 DEF RegisterCouncil, tables
<1>4. CASE CommitDelete
  <2>1. handler[g].at \in StatusReads => x \notin Wallets
    BY <1>2, KeysAssumption
  <2> QED
    BY <1>1, <1>2, <1>4, <2>1 DEF CommitDelete
<1>5. ASSUME NEW p \in Providers, PostJoinRequest(p)
      PROVE  StatusOK(g)'
  BY <1>1, <1>5 DEF PostJoinRequest
<1>6. ASSUME NEW p \in Providers, Review(p)
      PROVE  StatusOK(g)'
  BY <1>1, <1>2, <1>6 DEF Review
<1>7. ASSUME NEW p \in Providers, WatcherCommits(p)
      PROVE  StatusOK(g)'
  BY <1>1, <1>7 DEF WatcherCommits
<1> QED
  BY <1>3, <1>4, <1>5, <1>6, <1>7 DEF Commits

LEMMA StatusInvStep ==
  ASSUME RecordsInv, Next
  PROVE  StatusInv'
<1>0. RecordsTypeOK
  BY DEF RecordsInv
<1>1. SUFFICES ASSUME NEW g \in Handlers, g \notin overlapped', g \notin absent'
               PROVE  StatusOK(g)'
  BY <1>1 DEF StatusInv, StatusOK
<1>2. ASSUME NEW h \in Handlers, Begin(h) \/ Reads(h) \/ Writes(h), h # g
      PROVE  StatusOK(g)'
  <2>1. handler'[g] = handler[g] /\ g \notin overlapped /\ pending' = pending
    BY <1>0, <1>1, <1>2, ReadsSpare, WritesSpare
  <2>2. \E unknown : Remembers(unknown)
    BY <1>2 DEF Begin, Begins, AddJurisdiction, RemoveJurisdiction, EditProvider, AskStatus,
         JoinWaitlist, SumUp, ListCouncils, Reads, LookListed, LookDeleted, LookToRemove,
         OwnProvider, Reread, ReadProvider, ReadPending, ReadCouncil, ReadJurisdictions,
         Answered, RequestFails, Writes, RestoreJurisdiction, InsertJurisdiction, SoftDelete,
         UpdateProvider, UpdateEmail, Enlist, At, Ends, Fails, WritesOn, Moves
  <2> QED
    BY <1>1, <2>1, <2>2, StatusKept
<1>3. ASSUME Begin(g) \/ Reads(g) \/ Writes(g)
      PROVE  StatusOK(g)'
  BY <1>1, <1>3, OwnStatus
<1>4. CASE Commits
  BY <1>1, <1>4, CommitStatus
<1>5. CASE Doomings
  BY <1>1, <1>5, DoomingsSpare DEF RecordsInv, StatusInv, StatusOK, tables
<1> QED
  BY <1>2, <1>3, <1>4, <1>5, StepKinds

-----------------------------------------------------------------------------
(* The invariant, and what follows from it.                                *)

LEMMA RecordsInvInit == Init => RecordsInv
<1> SUFFICES ASSUME Init
             PROVE  RecordsInv
  OBVIOUS
<1>1. /\ \A h \in Handlers : handler[h] = Resting
      /\ \A c \in Countries : jurisdictions[c] = NoRow
  BY DEF Init
<1>2. Resting.at = "resting"
  BY DEF Resting
<1>3. ReadsInv /\ StraysInv /\ StatusInv
  BY <1>1, <1>2 DEF ReadsInv, ReadIsCurrent, SummaryIsCurrent, StraysInv, StatusInv
<1> QED
  BY <1>3, RecordsTypeInit DEF RecordsInv

LEMMA RecordsInvNext == RecordsInv /\ [Next]_vars => RecordsInv'
<1> SUFFICES ASSUME RecordsInv, [Next]_vars
             PROVE  RecordsInv'
  OBVIOUS
<1>1. RecordsTypeOK'
  BY RecordsTypeNext DEF RecordsInv
<1>2. CASE Next
  BY <1>1, <1>2, ReadsInvStep, StraysInvStep, StatusInvStep DEF RecordsInv
<1>3. CASE UNCHANGED vars
  <2>1. UNCHANGED <<registered, deleting, doomed, jurisdictions, providers, pending,
                    waitlist, handler, overlapped, absent, strays>>
    BY <1>3 DEF vars, council, tables
  <2>2. ReadsInv /\ StraysInv /\ StatusInv
    BY DEF RecordsInv
  <2>3. StraysInv' /\ StatusInv'
    BY <2>1, <2>2 DEF StraysInv, StatusInv
  <2>4. ASSUME NEW h \in Handlers \ overlapped
        PROVE  ReadIsCurrent(h)' /\ SummaryIsCurrent(h)'
    BY <2>1, <2>2 DEF ReadsInv, ReadIsCurrent, SummaryIsCurrent, Listed
  <2> QED
    BY <1>1, <2>1, <2>3, <2>4 DEF RecordsInv, ReadsInv
<1> QED
  BY <1>2, <1>3

LEMMA RecordsInvariant == Spec => []RecordsInv
  BY RecordsInvInit, RecordsInvNext, PTL DEF Spec

\* An insert that the unique index refuses, a restore whose row is gone and an
\* edit that cannot be read again happen only to a request that another one,
\* or the deletion, overlapped: a malformed body and a failing database explain
\* every other internal error (handleAddJurisdiction; handleUpdateProvider; the
\* waitlist's upsert).
THEOREM NoErrorAlone == Spec => []ErrorsNeedOverlap
<1>1. RecordsInv => ErrorsNeedOverlap
  BY DEF RecordsInv, ReadsInv, ReadIsCurrent, ErrorsNeedOverlap
<1> QED
  BY <1>1, RecordsInvariant, PTL

\* A summary is never half of a council, but for the rows that its deletion came
\* too early to find, in whatever order its selects are answered and wherever
\* the statements of the deletion fall (returnCouncilSummary;
\* handleListAllCouncils; deleteCouncil).
THEOREM SummariesAreWhole == Spec => []WholeSummary
<1>1. RecordsInv => WholeSummary
  BY DEF RecordsInv, ReadsInv, SummaryIsCurrent, WholeSummary
<1> QED
  BY <1>1, RecordsInvariant, PTL

\* NOT_FOUND has a reason: the key was unknown, or a review or the deletion of
\* the council overtook the read (handleGetMembershipStatus).
THEOREM NotFoundIsDue == Spec => []NotFoundMeansAbsent
<1>1. RecordsInv => NotFoundMeansAbsent
  BY DEF RecordsInv, StatusInv, NotFoundMeansAbsent
<1> QED
  BY <1>1, RecordsInvariant, PTL

\* A request that writes, writes what it was asked to.
LEMMA AskedOnly ==
  ASSUME RecordsInv, NEW h \in Handlers, Writes(h)
  PROVE  LET x == handler[h].on IN
         /\ handler[h].at = "editing" =>
              /\ providers[x].id # handler[h].id => providers' = providers
              /\ h \notin overlapped =>
                   \A f \in Fields \ handler[h].asked :
                      providers'[x].profile[f] = providers[x].profile[f]
         /\ handler[h].at = "removing" =>
              (jurisdictions[x].id # handler[h].id => jurisdictions' = jurisdictions)
         /\ handler[h].at = "restoring" =>
              /\ jurisdictions[x].id # handler[h].id => jurisdictions' = jurisdictions
              /\ h \notin overlapped /\ handler[h].label = Empty =>
                   jurisdictions'[x].label = jurisdictions[x].label
<1> DEFINE x == handler[h].on
<1>0. /\ handler[h] \in HandlerState
      /\ jurisdictions \in [Countries -> Jurisdiction \cup {NoRow}]
      /\ providers \in [Providers -> Provider \cup {NoRow}]
  BY DEF RecordsInv, RecordsTypeOK
<1>1. ASSUME h \notin overlapped
      PROVE  ReadIsCurrent(h)
  BY <1>1 DEF RecordsInv, ReadsInv
<1>2. CASE RestoreJurisdiction(h)
  <2>1. handler[h] \in Restoring /\ handler[h].at = "restoring"
    BY <1>0, <1>2, StatesByPhase DEF RestoreJurisdiction
  <2>2. x \in Countries /\ handler[h].id \in Id
    BY <2>1 DEF Restoring
  <2>3. jurisdictions[x].id # handler[h].id => jurisdictions' = jurisdictions
    BY <1>2 DEF RestoreJurisdiction
  <2>4. ASSUME h \notin overlapped, handler[h].label = Empty
        PROVE  jurisdictions'[x].label = jurisdictions[x].label
    <3>1. jurisdictions[x].id = handler[h].id /\ jurisdictions[x].label = handler[h].old
      BY <1>1, <2>1, <2>4 DEF ReadIsCurrent
    <3>2. jurisdictions[x] \in Jurisdiction
      BY <1>0, <2>2, <3>1, RowsHaveIds
    <3>3. jurisdictions'[x] = [jurisdictions[x] EXCEPT !.deleted = FALSE,
                                                      !.label = handler[h].old]
      BY <1>0, <1>2, <2>2, <2>4, <3>1 DEF RestoreJurisdiction, OrElse
    <3> QED
      BY <3>1, <3>2, <3>3 DEF Jurisdiction
  <2> QED
    BY <2>1, <2>3, <2>4
<1>3. CASE SoftDelete(h)
  BY <1>3 DEF SoftDelete
<1>4. CASE UpdateProvider(h)
  <2>1. handler[h] \in Editing /\ handler[h].at = "editing"
    BY <1>0, <1>4, StatesByPhase DEF UpdateProvider
  <2>2. x \in Providers /\ handler[h].id \in Id /\ handler[h].edited \in Profile
    BY <2>1 DEF Editing
  <2>3. providers[x].id # handler[h].id => providers' = providers
    BY <1>4 DEF UpdateProvider
  <2>4. ASSUME h \notin overlapped, NEW f \in Fields \ handler[h].asked
        PROVE  providers'[x].profile[f] = providers[x].profile[f]
    <3>1. /\ providers[x].id = handler[h].id
          /\ providers[x].profile[f] = handler[h].edited[f]
      BY <1>1, <2>1, <2>4 DEF ReadIsCurrent
    <3>2. providers[x] \in Provider
      BY <1>0, <2>2, <3>1, RowsHaveIds
    <3>3. providers'[x] = [providers[x] EXCEPT !.profile = handler[h].edited]
      BY <1>0, <1>4, <2>2, <3>1 DEF UpdateProvider
    <3> QED
      BY <2>2, <3>1, <3>2, <3>3 DEF Provider
  <2> QED
    BY <2>1, <2>3, <2>4
<1>5. CASE InsertJurisdiction(h) \/ UpdateEmail(h) \/ Enlist(h)
  BY <1>5 DEF InsertJurisdiction, UpdateEmail, Enlist
<1> QED
  BY <1>2, <1>3, <1>4, <1>5 DEF Writes

\* No write by id reaches a row of another council's time, and no edit that
\* is alone loses what it was not asked to change (BaseRepository.update and
\* delete; handleUpdateProvider; handleAddJurisdiction).
THEOREM WritesAreAsked == Spec => OnlyWhatWasAsked
<1> DEFINE Asked ==
      \A h \in Handlers :
        LET x == handler[h].on IN
        handler'[h] # handler[h] =>
          /\ handler[h].at = "editing" =>
               /\ providers[x].id # handler[h].id => providers' = providers
               /\ h \notin overlapped =>
                    \A f \in Fields \ handler[h].asked :
                      providers'[x].profile[f] = providers[x].profile[f]
          /\ handler[h].at = "removing" =>
               (jurisdictions[x].id # handler[h].id => jurisdictions' = jurisdictions)
          /\ handler[h].at = "restoring" =>
               /\ jurisdictions[x].id # handler[h].id => jurisdictions' = jurisdictions
               /\ h \notin overlapped /\ handler[h].label = Empty =>
                    jurisdictions'[x].label = jurisdictions[x].label
<1>1. RecordsInv /\ [Next]_vars => [Asked]_vars
  <2>1. SUFFICES ASSUME RecordsInv, Next, NEW h \in Handlers, handler'[h] # handler[h]
                 PROVE  Begin(h) \/ Reads(h) \/ Writes(h)
    <3>1. ASSUME NEW h \in Handlers, Begin(h) \/ Reads(h)
          PROVE  UNCHANGED <<jurisdictions, providers>>
      BY <3>1, NothingWritten DEF tables
    <3> QED
      BY <2>1, <3>1, AskedOnly
  <2>2. ASSUME NEW g \in Handlers \ {h}, Begin(g) \/ Reads(g) \/ Writes(g)
        PROVE  FALSE
    <3>1. \E state : Moves(g, state)
      BY <2>2 DEF Begin, Begins, AddJurisdiction, RemoveJurisdiction, EditProvider, AskStatus,
         JoinWaitlist, SumUp, ListCouncils, Reads, LookListed, LookDeleted, LookToRemove,
         OwnProvider, Reread, ReadProvider, ReadPending, ReadCouncil, ReadJurisdictions,
         Answered, RequestFails, Writes, RestoreJurisdiction, InsertJurisdiction, SoftDelete,
         UpdateProvider, UpdateEmail, Enlist, At, Ends, Fails, WritesOn
    <3> QED
      BY <2>1, <3>1 DEF Moves, RecordsInv, RecordsTypeOK
  <2>3. ~Commits /\ ~Doomings
    BY <2>1, DoomingsSpare
    DEF Commits, RegisterCouncil, CommitDelete, PostJoinRequest, Review, WatcherCommits, CommitsOf
  <2> QED
    BY <2>1, <2>2, <2>3, StepKinds
<1> QED
  BY <1>1, RecordsInvariant, PTL DEF Spec, OnlyWhatWasAsked
=============================================================================
