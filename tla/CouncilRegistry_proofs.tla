----------------------- MODULE CouncilRegistry_proofs -----------------------
(***************************************************************************)
(* Theorems about councils and their users, for any constants.             *)
(***************************************************************************)
EXTENDS CouncilRegistry, TLAPS

States == {Resting} \cup Put \cup Delete \cup Request \cup Derived \cup Derivation

\* A row is not the absence of one.
LEMMA RowsExist ==
  /\ \A x \in Council : x # NoRow
  /\ \A x \in User : x # NoRow
<1>1. \A x \in Council : DOMAIN x = {"owner", "root"}
  BY DEF Council
<1>2. \A x \in User : DOMAIN x = {"council", "provider", "root"}
  BY DEF User
<1>3. DOMAIN NoRow = {"absent"}
  BY DEF NoRow
<1> QED
  BY <1>1, <1>2, <1>3

\* The phase of a request says what it carries.
LEMMA StatesByPhase ==
  ASSUME NEW s \in States
  PROVE  /\ s.at \in {"creating", "updating"} => s \in Put
         /\ s.at = "deleting" => s \in Delete
         /\ s.at \in {"register", "keys", "spend"} => s \in Request
         /\ s.at = "inserting" => s \in Derived
         /\ s.at = "deriving" => s \in Derivation
         /\ s.at = "resting" <=> s = Resting
  BY DEF States, Resting, Put, Delete, Request, Derived, Derivation

LEMMA RegistryTypeInit == Init => RegistryTypeOK
  BY RootsAssumption DEF Init, RegistryTypeOK

TypesAfter ==
  /\ councils' \in [Councils -> Council \cup {NoRow}]
  /\ users' \in [Users -> User \cup {NoRow}]
  /\ members' \in [Councils -> [Providers -> {"none", "ACTIVE", "REMOVED"}]]
  /\ handler' \in [Handlers -> States]
  /\ roots' \in 0..MaxRoots
  /\ served' \in [row : User, council : Councils, root : 1..MaxRoots] \cup {NoRow}

\* A step of one request keeps the types: PUT and DELETE of a council.
LEMMA CouncilStepsType ==
  ASSUME RegistryTypeOK, NEW h \in Handlers,
         \/ \E c \in Councils, a \in Admins :
               \/ PutNewCouncil(h, c, a) \/ PutExistingCouncil(h, c, a)
               \/ DeleteMetadata(h, c, a)
         \/ Upsert(h) \/ DeleteCouncil(h)
  PROVE  TypesAfter
<1> USE DEF RegistryTypeOK, Moves, Ends, States, TypesAfter
<1>1. ASSUME NEW c \in Councils, NEW a \in Admins, PutNewCouncil(h, c, a)
      PROVE  TypesAfter
  <2>1. [at |-> "creating", council |-> c, row |-> [owner |-> a, root |-> roots + 1]] \in Put
    BY <1>1, RootsAssumption DEF PutNewCouncil, Put, Council
  <2> QED
    BY <1>1, <2>1, RootsAssumption DEF PutNewCouncil
<1>2. ASSUME NEW c \in Councils, NEW a \in Admins, PutExistingCouncil(h, c, a)
      PROVE  TypesAfter
  <2>1. councils[c] \in Council
    BY <1>2 DEF PutExistingCouncil, Owns
  <2>2. [at |-> "updating", council |-> c, row |-> CarriedRow(c, a)] \in Put
    BY <2>1 DEF CarriedRow, Put, Council
  <2> QED
    BY <1>2, <2>2 DEF PutExistingCouncil
<1>3. ASSUME NEW c \in Councils, NEW a \in Admins, DeleteMetadata(h, c, a)
      PROVE  TypesAfter
  <2>1. [at |-> "deleting", council |-> c] \in Delete
    BY DEF Delete
  <2> QED
    BY <1>3, <2>1 DEF DeleteMetadata
<1>4. CASE Upsert(h)
  <2>1. handler[h] \in Put
    BY <1>4, StatesByPhase DEF Upsert
  <2>2. handler[h].council \in Councils /\ handler[h].row \in Council
    BY <2>1 DEF Put
  <2> QED
    BY <1>4, <2>2 DEF Upsert
<1>5. CASE DeleteCouncil(h)
  <2>1. handler[h] \in Delete
    BY <1>5, StatesByPhase DEF DeleteCouncil
  <2>2. handler[h].council \in Councils
    BY <2>1 DEF Delete
  <2>3. users' \in [Users -> User \cup {NoRow}]
    BY <1>5 DEF DeleteCouncil, UsersWithout
  <2>4. [p \in Providers |-> "none"] \in [Providers -> {"none", "ACTIVE", "REMOVED"}]
    OBVIOUS
  <2> QED
    BY <1>5, <2>2, <2>3, <2>4 DEF DeleteCouncil
<1> QED
  BY <1>1, <1>2, <1>3, <1>4, <1>5

\* A step of one request keeps the types: the sign endpoints, and failures.
LEMMA SignStepsType ==
  ASSUME RegistryTypeOK, NEW h \in Handlers,
         \/ \E kind \in {"register", "keys", "spend"}, c \in Councils, p \in Providers, u \in Users :
               SignRequest(h, kind, c, p, u)
         \/ RegisterUser(h) \/ InsertUser(h) \/ CheckUser(h) \/ DeriveKey(h)
         \/ RequestFails(h)
  PROVE  TypesAfter
<1> USE DEF RegistryTypeOK, Moves, Ends, States, TypesAfter
<1>1. ASSUME NEW kind \in {"register", "keys", "spend"}, NEW c \in Councils,
             NEW p \in Providers, NEW u \in Users, SignRequest(h, kind, c, p, u)
      PROVE  TypesAfter
  <2>1. [at |-> kind, council |-> c, provider |-> p, user |-> u] \in Request
    BY DEF Request
  <2> QED
    BY <1>1, <2>1 DEF SignRequest
<1>2. CASE RegisterUser(h)
  <2>1. handler[h] \in Request
    BY <1>2, StatesByPhase DEF RegisterUser
  <2>2. /\ handler[h].council \in Councils /\ handler[h].provider \in Providers
        /\ handler[h].user \in Users
    BY <2>1 DEF Request
  <2>3. CASE councils[handler[h].council] # NoRow
    <3>1. councils[handler[h].council] \in Council
      BY <2>2, <2>3
    <3>2. councils[handler[h].council].root \in 1..MaxRoots
      BY <3>1 DEF Council
    <3>3. [at |-> "inserting", council |-> handler[h].council, provider |-> handler[h].provider,
           user |-> handler[h].user, root |-> councils[handler[h].council].root] \in Derived
      BY <2>2, <3>2 DEF Derived
    <3> QED
      BY <1>2, <3>3 DEF RegisterUser
  <2>4. CASE councils[handler[h].council] = NoRow
    BY <1>2, <2>4 DEF RegisterUser
  <2> QED
    BY <2>3, <2>4
<1>3. CASE InsertUser(h)
  <2>1. handler[h] \in Derived
    BY <1>3, StatesByPhase DEF InsertUser
  <2>2. [council |-> handler[h].council, provider |-> handler[h].provider,
         root |-> handler[h].root] \in User
    BY <2>1 DEF Derived, User
  <2> QED
    BY <1>3, <2>2 DEF InsertUser
<1>4. CASE CheckUser(h)
  <2>1. handler[h] \in Request
    BY <1>4, StatesByPhase DEF CheckUser
  <2>2. /\ handler[h].council \in Councils /\ handler[h].provider \in Providers
        /\ handler[h].user \in Users
    BY <2>1 DEF Request
  <2>3. users[handler[h].user] \in User
    BY <1>4, <2>2 DEF CheckUser
  <2>4. [at |-> "deriving", council |-> handler[h].council, provider |-> handler[h].provider,
         user |-> handler[h].user, row |-> users[handler[h].user]] \in Derivation
    BY <2>2, <2>3 DEF Derivation
  <2> QED
    BY <1>4, <2>4 DEF CheckUser
<1>5. CASE DeriveKey(h)
  <2>1. handler[h] \in Derivation
    BY <1>5, StatesByPhase DEF DeriveKey
  <2>2. handler[h].council \in Councils /\ handler[h].row \in User
    BY <2>1 DEF Derivation
  <2>3. councils[handler[h].council] \in Council
    BY <1>5, <2>2 DEF DeriveKey
  <2>4. councils[handler[h].council].root \in 1..MaxRoots
    BY <2>3 DEF Council
  <2>5. served' \in [row : User, council : Councils, root : 1..MaxRoots]
    BY <1>5, <2>2, <2>4 DEF DeriveKey
  <2> QED
    BY <1>5, <2>5 DEF DeriveKey
<1>6. CASE RequestFails(h)
  BY <1>6 DEF RequestFails
<1> QED
  BY <1>1, <1>2, <1>3, <1>4, <1>5, <1>6

LEMMA RegistryTypeNext == RegistryTypeOK /\ [Next]_vars => RegistryTypeOK'
<1> SUFFICES ASSUME RegistryTypeOK, [Next]_vars
             PROVE  RegistryTypeOK'
  OBVIOUS
<1>1. TypesAfter /\ calm' \in BOOLEAN => RegistryTypeOK'
  BY DEF TypesAfter, RegistryTypeOK, States
<1>2. CASE Next
  <2>1. calm' \in BOOLEAN
    BY <1>2 DEF Next
  <2>2. ASSUME NEW h \in Handlers, HandlerStep(h)
        PROVE  TypesAfter
    BY <2>2, CouncilStepsType, SignStepsType DEF HandlerStep
  <2>3. ASSUME NEW c \in Councils, NEW p \in Providers, MemberChanges(c, p)
        PROVE  TypesAfter
    BY <2>3 DEF MemberChanges, RegistryTypeOK, TypesAfter, States
  <2> QED
    BY <1>1, <1>2, <2>1, <2>2, <2>3 DEF Next
<1>3. CASE UNCHANGED vars
  BY <1>3 DEF vars, RegistryTypeOK
<1> QED
  BY <1>2, <1>3

\* Type correctness: every row and every request has its type in every
\* reachable state, whatever the constants.
THEOREM RegistryTypeCorrect == Spec => []RegistryTypeOK
<1> QED
  BY RegistryTypeInit, RegistryTypeNext, PTL DEF Spec

-----------------------------------------------------------------------------
(* While no creation or deletion of a council has been overlapped.         *)

\* A council's row only appears at the end of its creation, goes at the end of
\* its deletion, and otherwise stays.
LEMMA CouncilRowMoves ==
  ASSUME RootsInvariant, calm, NEW h \in Handlers, HandlerStep(h), NEW c \in Councils
  PROVE  \/ councils'[c] = councils[c]
         \/ /\ handler[h].at = "creating" /\ handler[h].council = c
            /\ councils[c] = NoRow
         \/ /\ handler[h].at = "deleting" /\ handler[h].council = c
            /\ councils'[c] = NoRow /\ users' = UsersWithout(c)
<1> USE DEF RootsInvariant, RegistryTypeOK
<1>1. CASE Upsert(h)
  <2>1. handler[h].at \in {"creating", "updating"} /\ UpToDate(h)
    BY <1>1 DEF Upsert
  <2>2. handler[h] \in Put
    BY <2>1, StatesByPhase DEF States
  <2>3. handler[h].council \in Councils
    BY <2>2 DEF Put
  <2>4. CASE handler[h].council = c
    BY <1>1, <2>1, <2>3, <2>4 DEF Upsert, UpToDate
  <2>5. CASE handler[h].council # c
    BY <1>1, <2>5 DEF Upsert
  <2> QED
    BY <2>4, <2>5
<1>2. CASE DeleteCouncil(h)
  <2>1. handler[h].at = "deleting"
    BY <1>2 DEF DeleteCouncil
  <2>2. CASE handler[h].council = c
    BY <1>2, <2>1, <2>2 DEF DeleteCouncil
  <2>3. CASE handler[h].council # c
    BY <1>2, <2>3 DEF DeleteCouncil
  <2> QED
    BY <2>2, <2>3
<1>3. CASE ~Upsert(h) /\ ~DeleteCouncil(h)
  <2>1. councils' = councils
    BY <1>3 DEF HandlerStep, PutNewCouncil, PutExistingCouncil, DeleteMetadata, SignRequest,
                RegisterUser, InsertUser, CheckUser, DeriveKey, RequestFails
  <2> QED
    BY <2>1
<1> QED
  BY <1>1, <1>2, <1>3

\* A step of one request moves no other.
LEMMA OthersRest ==
  ASSUME RegistryTypeOK, NEW h \in Handlers, HandlerStep(h), NEW g \in Handlers, g # h
  PROVE  handler'[g] = handler[g]
<1> USE DEF RegistryTypeOK, Moves, Ends
<1>1. CASE RegisterUser(h)
  BY <1>1 DEF RegisterUser
<1>2. CASE ~RegisterUser(h)
  BY <1>2 DEF HandlerStep, PutNewCouncil, PutExistingCouncil, DeleteMetadata, SignRequest,
              Upsert, DeleteCouncil, InsertUser, CheckUser, DeriveKey, RequestFails
<1> QED
  BY <1>1, <1>2

\* What the others have in hand stays up to date: whoever changes a council's
\* row is alone with it.
LEMMA OthersUpToDate ==
  ASSUME RootsInvariant, calm, NEW h \in Handlers, HandlerStep(h),
         NEW g \in Handlers, g # h
  PROVE  UpToDate(g)'
<1> USE DEF RootsInvariant, RegistryTypeOK
<1>1. handler'[g] = handler[g]
  BY OthersRest
<1>2. UpToDate(g)
  OBVIOUS
<1>3. CASE handler[g].at \in {"creating", "updating", "inserting", "deriving"}
  <2>1. handler[g] \in Put \cup Derived \cup Derivation
    BY <1>3, StatesByPhase DEF States
  <2>2. handler[g].council \in Councils
    BY <2>1 DEF Put, Derived, Derivation
  <2>3. handler[g] # Resting
    BY <1>3 DEF Resting
  <2>4. Busy(g, handler[g].council)
    BY <2>3 DEF Busy
  <2>5. ~(handler[h].at \in {"creating", "deleting"} /\ handler[h].council = handler[g].council)
    BY <2>4 DEF Alone
  <2>6. councils'[handler[g].council] = councils[handler[g].council]
    BY <2>2, <2>5, CouncilRowMoves
  <2> QED
    BY <1>1, <1>2, <2>6 DEF UpToDate
<1>4. CASE handler[g].at \notin {"creating", "updating", "inserting", "deriving"}
  BY <1>1, <1>4 DEF UpToDate
<1> QED
  BY <1>3, <1>4

\* And what the request itself goes on with was read in this very step.
LEMMA OwnUpToDate ==
  ASSUME RootsInvariant, calm, NEW h \in Handlers, HandlerStep(h)
  PROVE  UpToDate(h)'
<1> USE DEF RootsInvariant, RegistryTypeOK, Moves, Ends
<1>1. handler'[h].at = "resting" => UpToDate(h)'
  BY DEF UpToDate
<1>2. ASSUME NEW c \in Councils, NEW a \in Admins,
             PutNewCouncil(h, c, a) \/ PutExistingCouncil(h, c, a) \/ DeleteMetadata(h, c, a)
      PROVE  UpToDate(h)'
  <2>1. CASE PutNewCouncil(h, c, a)
    BY <2>1 DEF PutNewCouncil, UpToDate
  <2>2. CASE PutExistingCouncil(h, c, a)
    <3>1. councils[c] \in Council /\ councils[c].owner = a
      BY <2>2 DEF PutExistingCouncil, Owns
    <3>2. CarriedRow(c, a) = councils[c]
      BY <3>1 DEF CarriedRow, Council
    <3>3. councils[c] # NoRow
      BY <2>2 DEF PutExistingCouncil, Owns
    <3> QED
      BY <2>2, <3>2, <3>3 DEF PutExistingCouncil, UpToDate
  <2>3. CASE DeleteMetadata(h, c, a)
    BY <2>3 DEF DeleteMetadata, UpToDate
  <2> QED
    BY <1>2, <2>1, <2>2, <2>3
<1>3. ASSUME NEW kind \in {"register", "keys", "spend"}, NEW c \in Councils,
             NEW p \in Providers, NEW u \in Users, SignRequest(h, kind, c, p, u)
      PROVE  UpToDate(h)'
  BY <1>3 DEF SignRequest, UpToDate
<1>4. CASE RegisterUser(h)
  BY <1>1, <1>4 DEF RegisterUser, UpToDate, Resting
<1>5. CASE CheckUser(h)
  <2>1. handler[h] \in Request
    BY <1>5, StatesByPhase DEF CheckUser, States
  <2>2. handler[h].user \in Users /\ handler[h].council \in Councils
    BY <2>1 DEF Request
  <2>3. users[handler[h].user] # NoRow
    BY <1>5 DEF CheckUser
  <2>4. users[handler[h].user].council = handler[h].council
          => /\ councils[handler[h].council] # NoRow
             /\ councils[handler[h].council].root = users[handler[h].user].root
    BY <2>2, <2>3 DEF KeysRecoverable
  <2> QED
    BY <1>5, <2>4 DEF CheckUser, UpToDate
<1>6. CASE Upsert(h) \/ DeleteCouncil(h) \/ InsertUser(h) \/ DeriveKey(h) \/ RequestFails(h)
  BY <1>1, <1>6 DEF Upsert, DeleteCouncil, InsertUser, DeriveKey, RequestFails, Resting
<1> QED
  BY <1>2, <1>3, <1>4, <1>5, <1>6 DEF HandlerStep

\* Every user's key still derives from its council's root.
LEMMA KeysStayRecoverable ==
  ASSUME RootsInvariant, calm, NEW h \in Handlers, HandlerStep(h)
  PROVE  KeysRecoverable'
<1> USE DEF RootsInvariant, RegistryTypeOK, Moves, Ends
<1> SUFFICES ASSUME NEW u \in Users, users'[u] # NoRow
             PROVE  /\ councils'[users'[u].council] # NoRow
                    /\ users'[u].root = councils'[users'[u].council].root
  BY DEF KeysRecoverable
<1>1. CASE users'[u] = users[u]
  <2>1. users[u] \in User
    BY <1>1
  <2>2. users[u].council \in Councils
    BY <2>1 DEF User
  <2>3. /\ councils[users[u].council] # NoRow
        /\ users[u].root = councils[users[u].council].root
    BY <1>1 DEF KeysRecoverable
  <2>4. CASE councils'[users[u].council] = councils[users[u].council]
    BY <1>1, <2>3, <2>4
  <2>5. CASE users' = UsersWithout(users[u].council)
    BY <1>1, <2>5 DEF UsersWithout
  <2> QED
    BY <2>2, <2>3, <2>4, <2>5, CouncilRowMoves
<1>2. CASE users'[u] # users[u]
  <2>1. InsertUser(h)
    BY <1>2 DEF HandlerStep, PutNewCouncil, PutExistingCouncil, DeleteMetadata, SignRequest,
                Upsert, DeleteCouncil, UsersWithout, RegisterUser, CheckUser, DeriveKey,
                RequestFails
  <2>2. handler[h] \in Derived
    BY <2>1, StatesByPhase DEF InsertUser, States
  <2>3. u = handler[h].user /\ handler[h].user \in Users
    BY <1>2, <2>1, <2>2 DEF InsertUser, Derived
  <2>4. users'[u].council = handler[h].council /\ users'[u].root = handler[h].root
    BY <2>1, <2>3 DEF InsertUser
  <2>5. councils' = councils
    BY <2>1 DEF InsertUser
  <2> QED
    BY <2>1, <2>4, <2>5 DEF InsertUser, UpToDate
<1> QED
  BY <1>1, <1>2

\* And every key that is served is the one the user's row publishes.
LEMMA ServedStays ==
  ASSUME RootsInvariant, calm, NEW h \in Handlers, HandlerStep(h)
  PROVE  ServedAsRegistered'
<1> USE DEF RootsInvariant, RegistryTypeOK
<1>1. CASE DeriveKey(h)
  BY <1>1 DEF DeriveKey, UpToDate, ServedAsRegistered
<1>2. CASE ~DeriveKey(h)
  <2>1. served' = served
    BY <1>2 DEF HandlerStep, PutNewCouncil, PutExistingCouncil, DeleteMetadata, SignRequest,
                Upsert, DeleteCouncil, RegisterUser, InsertUser, CheckUser, RequestFails
  <2> QED
    BY <2>1 DEF ServedAsRegistered
<1> QED
  BY <1>1, <1>2

LEMMA RootsInit == Init => RootsInvariant
<1> SUFFICES ASSUME Init
             PROVE  RootsInvariant
  OBVIOUS
<1>1. KeysRecoverable /\ ServedAsRegistered
  BY DEF Init, KeysRecoverable, ServedAsRegistered
<1>2. Alone /\ \A h \in Handlers : UpToDate(h)
  BY DEF Init, Alone, UpToDate, Resting
<1> QED
  BY <1>1, <1>2, RegistryTypeInit DEF RootsInvariant

LEMMA RootsNext == RootsInvariant /\ [Next]_vars => RootsInvariant'
<1> SUFFICES ASSUME RootsInvariant, [Next]_vars
             PROVE  RootsInvariant'
  OBVIOUS
<1>1. RegistryTypeOK'
  BY RegistryTypeNext DEF RootsInvariant
<1>2. CASE Next
  <2>1. CASE ~calm'
    BY <1>1, <2>1 DEF RootsInvariant, KeysRecoverable, ServedAsRegistered
  <2>2. CASE calm'
    <3>1. calm /\ Alone'
      BY <1>2, <2>2, Zenon DEF Next
    <3>2. ASSUME NEW h \in Handlers, HandlerStep(h)
          PROVE  RootsInvariant'
      <4>1. ASSUME NEW g \in Handlers
            PROVE  UpToDate(g)'
        BY <3>1, <3>2, <4>1, OthersUpToDate, OwnUpToDate
      <4>2. KeysRecoverable' /\ ServedAsRegistered'
        BY <3>1, <3>2, KeysStayRecoverable, ServedStays
      <4> QED
        BY <1>1, <3>1, <4>1, <4>2 DEF RootsInvariant
    <3>3. ASSUME NEW c \in Councils, NEW p \in Providers, MemberChanges(c, p)
          PROVE  RootsInvariant'
      <4>1. UNCHANGED <<councils, users, handler, roots, served>>
        BY <3>3 DEF MemberChanges
      <4>2. \A h \in Handlers : UpToDate(h)'
        BY <3>1, <4>1 DEF UpToDate, RootsInvariant
      <4>3. KeysRecoverable' /\ ServedAsRegistered'
        BY <3>1, <4>1 DEF RootsInvariant, KeysRecoverable, ServedAsRegistered
      <4> QED
        BY <1>1, <3>1, <4>2, <4>3 DEF RootsInvariant
    <3> QED
      BY <1>2, <3>2, <3>3 DEF Next
  <2> QED
    BY <2>1, <2>2
<1>3. CASE UNCHANGED vars
  BY <1>1, <1>3 DEF vars, RootsInvariant, KeysRecoverable, ServedAsRegistered, Alone, Busy, UpToDate
<1> QED
  BY <1>2, <1>3

\* For any number of councils, users and requests: as long as no creation or
\* deletion of a council is overlapped, every stored key derives from the
\* present root of its council (handlePutMetadata, deleteCouncil).
THEOREM KeysAreRecoverable == Spec => []KeysRecoverable
<1>1. RootsInvariant => KeysRecoverable
  BY DEF RootsInvariant
<1> QED
  BY <1>1, RootsInit, RootsNext, PTL DEF Spec

\* Under the same condition every key served is the one its row publishes.
THEOREM KeysServedAsRegistered == Spec => []ServedAsRegistered
<1>1. RootsInvariant => ServedAsRegistered
  BY DEF RootsInvariant
<1> QED
  BY <1>1, RootsInit, RootsNext, PTL DEF Spec

\* Under the same condition a council keeps its owner and its root for as long
\* as it exists.
THEOREM CouncilsKeepOwnerAndRoot == Spec => CouncilsStayTheirs
<1>1. RootsInvariant /\ [Next]_vars => [calm => \A c \in Councils : Stable(c)]_vars
  <2> SUFFICES ASSUME RootsInvariant, Next, calm, NEW c \in Councils
               PROVE  Stable(c)
    OBVIOUS
  <2>1. ASSUME NEW h \in Handlers, HandlerStep(h)
        PROVE  Stable(c)
    BY <2>1, CouncilRowMoves DEF Stable
  <2>2. ASSUME NEW d \in Councils, NEW p \in Providers, MemberChanges(d, p)
        PROVE  Stable(c)
    BY <2>2 DEF MemberChanges, Stable
  <2> QED
    BY <2>1, <2>2 DEF Next
<1> QED
  BY <1>1, RootsInit, RootsNext, PTL DEF Spec, CouncilsStayTheirs

\* Whatever overlaps, a user's row stays with its council, provider and key
\* until its council is deleted (registerCustodialUser; the unique index).
THEOREM UserRowsStayPut == Spec => UsersStayPut
<1> DEFINE Stays(u) ==
      users[u] # NoRow =>
        \/ users'[u] = users[u]
        \/ users'[u] = NoRow /\ councils'[users[u].council] = NoRow
<1>1. RegistryTypeOK /\ [Next]_vars => [\A u \in Users : Stays(u)]_vars
  <2> SUFFICES ASSUME RegistryTypeOK, Next, NEW u \in Users
               PROVE  Stays(u)
    OBVIOUS
  <2>1. CASE users' = users
    BY <2>1
  <2>2. ASSUME NEW h \in Handlers, InsertUser(h)
        PROVE  Stays(u)
    <3>1. CASE u = handler[h].user
      BY <2>2, <3>1 DEF InsertUser, IsFree
    <3>2. CASE u # handler[h].user
      BY <2>2, <3>2 DEF InsertUser, RegistryTypeOK
    <3> QED
      BY <3>1, <3>2
  <2>3. ASSUME NEW h \in Handlers, DeleteCouncil(h)
        PROVE  Stays(u)
    <3>1. CASE users[u] # NoRow /\ users[u].council = handler[h].council
      <4>1. users[u] \in User
        BY <3>1 DEF RegistryTypeOK
      <4>2. users[u].council \in Councils
        BY <4>1 DEF User
      <4> QED
        BY <2>3, <3>1, <4>2 DEF DeleteCouncil, UsersWithout, RegistryTypeOK
    <3>2. CASE ~(users[u] # NoRow /\ users[u].council = handler[h].council)
      BY <2>3, <3>2 DEF DeleteCouncil, UsersWithout
    <3> QED
      BY <3>1, <3>2
  <2>4. users' = users \/ \E h \in Handlers : InsertUser(h) \/ DeleteCouncil(h)
    BY DEF Next, MemberChanges, HandlerStep, PutNewCouncil, PutExistingCouncil, DeleteMetadata,
           SignRequest, Upsert, RegisterUser, CheckUser, DeriveKey, RequestFails
  <2> QED
    BY <2>1, <2>2, <2>3, <2>4
<1> QED
  BY <1>1, RegistryTypeInit, RegistryTypeNext, PTL DEF Spec, UsersStayPut
=============================================================================
