--------------------------- MODULE CouncilRegistry ---------------------------
(***************************************************************************)
(* Councils, their derivation roots and their custodial users.  The owner  *)
(* puts and deletes a council's metadata; providers that are members       *)
(* register users, whose keys derive from the council's root, and ask for  *)
(* their keys and signatures.                                              *)
(*                                                                         *)
(* Each handler reads, awaits, and writes what it computed from the read.  *)
(* A root stands for its 32 random bytes, and a key for the root it        *)
(* derives from: the rest of a derivation (network, channel, user, index)  *)
(* is the same in every step of one user.  One channel: a user row is      *)
(* unique per external id and channel.  A crash is every request failing.  *)
(***************************************************************************)
EXTENDS Integers

CONSTANTS
  Councils, Admins, Providers, Users,
  Handlers,            \* HTTP requests in progress at one time
  MaxRoots             \* bound: roots ever generated

ASSUME RootsAssumption == MaxRoots \in Nat

VARIABLES
  councils,            \* council_metadata
  users,               \* custodial_users, by external id
  members,             \* council_providers
  handler,             \* where each HTTP request is
  roots,               \* roots generated so far
  served,              \* history: the last key derived, beside the row read
  calm                 \* history: no creation or deletion has been overlapped

vars == <<councils, users, members, handler, roots, served, calm>>

NoRow   == [absent |-> TRUE]
Council == [owner : Admins, root : 1..MaxRoots]
User    == [council : Councils, provider : Providers, root : 1..MaxRoots]

Resting == [at |-> "resting"]
Put     == [at : {"creating", "updating"}, council : Councils, row : Council]
Delete  == [at : {"deleting"}, council : Councils]
Request ==
  [at : {"register", "keys", "spend"}, council : Councils, provider : Providers,
   user : Users]
Derived ==
  [at : {"inserting"}, council : Councils, provider : Providers, user : Users,
   root : 1..MaxRoots]
Derivation ==
  [at : {"deriving"}, council : Councils, provider : Providers, user : Users,
   row : User]

Init ==
  /\ councils = [c \in Councils |-> NoRow]
  /\ users = [u \in Users |-> NoRow]
  /\ members = [c \in Councils |-> [p \in Providers |-> "none"]]
  /\ handler = [h \in Handlers |-> Resting]
  /\ roots = 0
  /\ served = NoRow
  /\ calm = TRUE

Moves(h, state) == handler' = [handler EXCEPT ![h] = state]
Ends(h) == Moves(h, Resting)

-----------------------------------------------------------------------------
(* PUT and DELETE /council/metadata.                                       *)

\* No row was read: a root is generated and, after an await, encrypted.
PutNewCouncil(h, c, a) ==
  /\ handler[h] = Resting
  /\ councils[c] = NoRow
  /\ roots < MaxRoots
  /\ roots' = roots + 1
  /\ Moves(h, [at |-> "creating", council |-> c, row |-> [owner |-> a, root |-> roots + 1]])
  /\ UNCHANGED <<councils, users, members, served>>

\* Mutant: an update writes the latest root generated.
FreshRoot(c, a) == [owner |-> a, root |-> IF roots = 0 THEN 1 ELSE roots]

\* The row the upsert of an update writes: the root is carried through.
CarriedRow(c, a) == [owner |-> a, root |-> councils[c].root]

\* Mutant: the owner is not compared.
NotChecked(c, a) == councils[c] # NoRow

Owns(c, a) == councils[c] # NoRow /\ councils[c].owner = a

\* A row was read: only its owner may go on (404 otherwise).
PutExistingCouncil(h, c, a) ==
  /\ handler[h] = Resting
  /\ Owns(c, a)
  /\ Moves(h, [at |-> "updating", council |-> c, row |-> CarriedRow(c, a)])
  /\ UNCHANGED <<councils, users, members, roots, served>>

\* INSERT ... ON CONFLICT DO UPDATE: sets every column it was given.
Upsert(h) ==
  /\ handler[h].at \in {"creating", "updating"}
  /\ councils' = [councils EXCEPT ![handler[h].council] = handler[h].row]
  /\ Ends(h)
  /\ UNCHANGED <<users, members, roots, served>>

DeleteMetadata(h, c, a) ==
  /\ handler[h] = Resting
  /\ Owns(c, a)
  /\ Moves(h, [at |-> "deleting", council |-> c])
  /\ UNCHANGED <<councils, users, members, roots, served>>

\* Mutants: the users are left behind; they stay without a council.
UsersKept(c) == users
UsersDetached(c) ==
  [u \in Users |->
     IF users[u] # NoRow /\ users[u].council = c
     THEN [council |-> NoRow, provider |-> users[u].provider, root |-> users[u].root]
     ELSE users[u]]

UsersWithout(c) ==
  [u \in Users |-> IF users[u] # NoRow /\ users[u].council = c THEN NoRow ELSE users[u]]

\* deleteCouncil: one transaction over every table that names the council.
DeleteCouncil(h) ==
  /\ handler[h].at = "deleting"
  /\ LET c == handler[h].council IN
     /\ users' = UsersWithout(c)
     /\ members' = [members EXCEPT ![c] = [p \in Providers |-> "none"]]
     /\ councils' = [councils EXCEPT ![c] = NoRow]
  /\ Ends(h)
  /\ UNCHANGED <<roots, served>>

-----------------------------------------------------------------------------
(* POST /council/sign/register, /keys and /spend.                          *)

\* The watcher or an approval writes a provider's row.
MemberChanges(c, p) ==
  /\ \E status \in {"ACTIVE", "REMOVED"} : members' = [members EXCEPT ![c][p] = status]
  /\ UNCHANGED <<councils, users, handler, roots, served>>

\* validateProviderSession.
IsActive(c, p) == members[c][p] = "ACTIVE"

SignRequest(h, kind, c, p, u) ==
  /\ handler[h] = Resting
  /\ IsActive(c, p)
  /\ Moves(h, [at |-> kind, council |-> c, provider |-> p, user |-> u])
  /\ UNCHANGED <<councils, users, members, roots, served>>

\* Registered already, under whatever council: the row's id and key are the
\* answer.  Otherwise the key is derived from the root of the council.
RegisterUser(h) ==
  /\ handler[h].at = "register"
  /\ LET r == handler[h] IN
     \/ /\ users[r.user] # NoRow
        /\ Ends(h)
     \/ /\ users[r.user] = NoRow
        /\ councils[r.council] # NoRow
        /\ Moves(h, [at |-> "inserting", council |-> r.council, provider |-> r.provider,
                     user |-> r.user, root |-> councils[r.council].root])
  /\ UNCHANGED <<councils, users, members, roots, served>>

\* Mutant: without the unique index a second insert wins.
Overwrites(u) == TRUE

\* The unique index on (external id, channel).
IsFree(u) == users[u] = NoRow

\* The insert; a duplicate fails, which is RequestFails.
InsertUser(h) ==
  /\ handler[h].at = "inserting"
  /\ LET r == handler[h] IN
     /\ IsFree(r.user)
     /\ users' = [users EXCEPT ![r.user] =
          [council |-> r.council, provider |-> r.provider, root |-> r.root]]
  /\ Ends(h)
  /\ UNCHANGED <<councils, members, roots, served>>

\* Only the provider that registered the user may have its spends signed; any
\* member may have its public keys.
MayUse(h) ==
  handler[h].at = "spend" => users[handler[h].user].provider = handler[h].provider

\* The user is registered (no code suspends one).
CheckUser(h) ==
  /\ handler[h].at \in {"keys", "spend"}
  /\ LET r == handler[h] IN
     /\ users[r.user] # NoRow
     /\ MayUse(h)
     /\ Moves(h, [at |-> "deriving", council |-> r.council, provider |-> r.provider,
                  user |-> r.user, row |-> users[r.user]])
  /\ UNCHANGED <<councils, users, members, roots, served>>

\* The key is derived from the root of the council named in the request.
DeriveKey(h) ==
  /\ handler[h].at = "deriving"
  /\ LET r == handler[h] IN
     /\ councils[r.council] # NoRow
     /\ served' =
          [row |-> r.row, council |-> r.council, root |-> councils[r.council].root]
  /\ Ends(h)
  /\ UNCHANGED <<councils, users, members, roots>>

\* Every other outcome: a check refuses, a statement fails, the process dies.
RequestFails(h) ==
  /\ handler[h] # Resting
  /\ Ends(h)
  /\ UNCHANGED <<councils, users, members, roots, served>>

HandlerStep(h) ==
  \/ \E c \in Councils, a \in Admins :
        PutNewCouncil(h, c, a) \/ PutExistingCouncil(h, c, a) \/ DeleteMetadata(h, c, a)
  \/ \E kind \in {"register", "keys", "spend"}, c \in Councils, p \in Providers, u \in Users :
        SignRequest(h, kind, c, p, u)
  \/ Upsert(h) \/ DeleteCouncil(h)
  \/ RegisterUser(h) \/ InsertUser(h) \/ CheckUser(h) \/ DeriveKey(h)
  \/ RequestFails(h)

Busy(h, c) == handler[h] # Resting /\ handler[h].council = c

\* Creating or deleting a council overlaps with no other request for it.
Alone ==
  \A h \in Handlers :
     handler[h].at \in {"creating", "deleting"} =>
       \A g \in Handlers \ {h} : ~Busy(g, handler[h].council)

Next ==
  /\ \/ \E h \in Handlers : HandlerStep(h)
     \/ \E c \in Councils, p \in Providers : MemberChanges(c, p)
  /\ calm' = (calm /\ Alone')

Spec == Init /\ [][Next]_vars

-----------------------------------------------------------------------------
(* Properties.                                                             *)

\* Rows and requests have their types.
RegistryTypeOK ==
  /\ councils \in [Councils -> Council \cup {NoRow}]
  /\ users \in [Users -> User \cup {NoRow}]
  /\ members \in [Councils -> [Providers -> {"none", "ACTIVE", "REMOVED"}]]
  /\ handler \in [Handlers ->
       {Resting} \cup Put \cup Delete \cup Request \cup Derived \cup Derivation]
  /\ roots \in 0..MaxRoots
  /\ served \in [row : User, council : Councils, root : 1..MaxRoots] \cup {NoRow}
  /\ calm \in BOOLEAN

\* Every stored key derives from the present root of the user's council, so
\* the council can still spend what was paid to it: no sequence of updates,
\* deletions, re-creations, racing registrations and failures loses a root
\* that a row depends on, unless a creation or deletion was overlapped
\* (handlePutMetadata carries the root; deleteCouncil takes the users along).
KeysRecoverable ==
  calm =>
    \A u \in Users :
       users[u] # NoRow =>
         /\ councils[users[u].council] # NoRow
         /\ users[u].root = councils[users[u].council].root

\* A step that leaves an existing council leaves it its owner and root.
Stable(c) == councils[c] # NoRow => councils'[c] \in {councils[c], NoRow}

\* A council keeps its owner and its root for as long as it exists, unless a
\* creation or deletion was overlapped.
CouncilsStayTheirs == [][calm => \A c \in Councils : Stable(c)]_vars

\* The same whatever overlaps: "first creation only ... Never overwrite an
\* existing root" (metadata.ts:170-176).
RootNeverOverwritten == [][\A c \in Councils : Stable(c)]_vars

\* A user's row never changes hands: it stays with its council, provider and
\* key until its council is deleted, although registrations race.
UsersStayPut ==
  [][\A u \in Users :
        users[u] # NoRow =>
          \/ users'[u] = users[u]
          \/ users'[u] = NoRow /\ councils'[users[u].council] = NoRow]_vars

\* A key that was served or signed with is the one the user's row publishes,
\* if the request named the user's council and no creation or deletion was
\* overlapped: between the read of the row and the read of the root nothing
\* changes either (signWithDerivedKey; getUserPublicKeys).
ServedAsRegistered ==
  calm /\ served # NoRow /\ served.council = served.row.council
    => served.root = served.row.root

\* What a request has in hand still agrees with its council's row.
UpToDate(h) ==
  LET r == handler[h] IN
  /\ r.at = "creating" => councils[r.council] = NoRow
  /\ r.at = "updating" => councils[r.council] # NoRow /\ councils[r.council] = r.row
  /\ r.at = "inserting" =>
       councils[r.council] # NoRow /\ councils[r.council].root = r.root
  /\ r.at = "deriving" /\ r.row.council = r.council =>
       councils[r.council] # NoRow /\ councils[r.council].root = r.row.root

\* The inductive strengthening of KeysRecoverable and ServedAsRegistered.
RootsInvariant ==
  /\ RegistryTypeOK
  /\ KeysRecoverable
  /\ ServedAsRegistered
  /\ calm => Alone /\ \A h \in Handlers : UpToDate(h)
=============================================================================
