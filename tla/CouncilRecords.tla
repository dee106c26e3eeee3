--------------------------- MODULE CouncilRecords ---------------------------
(***************************************************************************)
(* What HTTP clients read and edit of one council: its jurisdictions, its  *)
(* providers' records and membership status, its public summary, and the   *)
(* waitlist of the platform.  None of these handlers opens a transaction:  *)
(* each select, insert and update is a step of its own, and the code acts  *)
(* on what it has read.                                                    *)
(*                                                                         *)
(* The deletion of the council is a transaction: each of its statements is *)
(* a step, and what it has deleted stays readable, and locked, until it    *)
(* commits.  The reviews and the watcher's polls are transactions of the   *)
(* module Membership.  Here each is its commit.                            *)
(***************************************************************************)
EXTENDS Naturals, FiniteSets

CONSTANTS
  Countries, Providers, Wallets,   \* the keys of three tables
  Fields,                          \* of a provider's row: its label and its contact
  Texts,                           \* labels, contacts and email addresses
  Handlers,                        \* HTTP requests in progress at one time
  MaxDeletions                     \* bound: how often the council is deleted

ASSUME RecordsAssumption == MaxDeletions \in Nat
ASSUME KeysAssumption == Wallets \cap (Countries \cup Providers \cup {"council"}) = {}

VARIABLES
  registered,      \* the council has its row
  era,             \* one more than how often it was deleted
  deleting,        \* the last statement of the open deletion, or "no"
  doomed,          \* the rows it has deleted, by table
  jurisdictions,   \* council_jurisdictions, by country: the unique index
  providers,       \* council_providers, by public key: the unique index
  pending,         \* keys with a pending join request
  waitlist,        \* waitlist_requests with a wallet: its email
  handler,         \* where each HTTP request is, what it is on, what it has read
  \* History.
  overlapped,      \* requests beside which another wrote what they had read
  absent,          \* status requests whose key was at some moment unknown
  strays           \* countries whose row a deletion came too early to find

council == <<registered, era, deleting, doomed>>
tables  == <<jurisdictions, providers, pending, waitlist>>
vars    == <<council, tables, handler, overlapped, absent, strays>>

Empty == "null"
Text  == Texts \cup {Empty}

\* The id of a row: a key gets one row at most between two deletions, and a
\* row of before a deletion has another id than any after it.
Id == 1..MaxDeletions + 1

NoRow == [id |-> 0]
Jurisdiction == [id : Id, label : Text, deleted : BOOLEAN]
Profile == [Fields -> Text]
Provider == [id : Id, status : {"ACTIVE", "REMOVED"}, profile : Profile]

\* Why a request fails.
Causes == {"malformed body", "database", "index conflict", "row gone"}

NoneDoomed == [requests |-> {}, providers |-> {}, jurisdictions |-> {}]

Resting == [at |-> "resting", on |-> "nothing"]
\* What a request is doing, on which key, and what it has in hand.
Adding    == [at : {"looking", "looking deleted"}, on : Countries]
Inserting == [at : {"inserting"}, on : Countries, label : Text]
Restoring == [at : {"restoring"}, on : Countries, label : Text, id : Id, old : Text]
Seeking   == [at : {"looking to remove"}, on : Countries]
Removing  == [at : {"removing"}, on : Countries, id : Id]
Owning    == [at : {"owning"}, on : Providers, id : Id, read : Profile]
Editing   == [at : {"editing"}, on : Providers, id : Id, edited : Profile, asked : SUBSET Fields]
Rereading == [at : {"rereading"}, on : Providers, id : Id]
Asking    == [at : {"reading provider", "reading requests", "NOT_FOUND"}, on : Providers]
Joining   == [at : {"updating", "enlisting"}, on : Wallets, email : Texts]
SummingUp == [at : {"summing up"}, on : {"council"}, council : BOOLEAN,
              left : SUBSET {"council", "jurisdictions"}, listed : SUBSET Countries]
Failing   == [at : {"failed"}, on : {"nothing"}, why : Causes]
HandlerState ==
  {Resting} \cup Adding \cup Inserting \cup Restoring \cup Seeking \cup Removing
    \cup Owning \cup Editing \cup Rereading \cup Asking \cup Joining \cup SummingUp \cup Failing

Init ==
  /\ registered = FALSE /\ era = 1
  /\ deleting = "no" /\ doomed = NoneDoomed
  /\ jurisdictions = [c \in Countries |-> NoRow]
  /\ providers = [p \in Providers |-> NoRow]
  /\ pending = {}
  /\ waitlist = [w \in Wallets |-> Empty]
  /\ handler = [h \in Handlers |-> Resting]
  /\ overlapped = {} /\ absent = {} /\ strays = {}

-----------------------------------------------------------------------------
\* A status request remembers whether its key was unknown at some moment.
StatusReads == {"reading provider", "reading requests", "NOT_FOUND"}
Remembers(unknown) ==
  absent' = {h \in Handlers :
               /\ handler'[h].at \in StatusReads
               /\ \/ h \in absent
                  \/ handler'[h].at # "NOT_FOUND" /\ handler'[h].on \in unknown}

IsActive(p) == providers[p] # NoRow /\ providers[p].status = "ACTIVE"
Unknown     == {p \in Providers : ~IsActive(p) /\ p \notin pending}

Moves(h, state) == handler' = [handler EXCEPT ![h] = state] /\ Remembers(Unknown)
At(h, at) == Moves(h, [handler[h] EXCEPT !.at = at])

\* h is answered.
Ends(h) == Moves(h, Resting) /\ overlapped' = overlapped \ {h}

\* h is answered with an internal error.
Failure(why) == [at |-> "failed", on |-> "nothing", why |-> why]
Fails(h, why) == Moves(h, Failure(why)) /\ UNCHANGED overlapped

\* What h writes on x; it ends or goes on as `state'.
WritesOn(h, x, state) ==
  /\ Moves(h, state)
  /\ overlapped' = (IF state = Resting THEN overlapped \ {h} ELSE overlapped)
                     \cup {g \in Handlers \ {h} :
                             handler[g].on = x /\ handler[g].at \notin StatusReads}

Begins(h, state) ==
  /\ handler[h] = Resting
  /\ Moves(h, state)
  /\ UNCHANGED <<council, tables, overlapped, strays>>

ReadOnly == UNCHANGED <<council, tables, strays>>

-----------------------------------------------------------------------------
(* Jurisdictions.                                                          *)

Listed(c) == jurisdictions[c] # NoRow /\ ~jurisdictions[c].deleted

\* POST jurisdictions: the caller owns the council, and the body has a code of a
\* country, or it is null and has no members to read.
AddJurisdiction(h, c) ==
  /\ registered
  /\ \/ Begins(h, [at |-> "looking", on |-> c])
     \/ Begins(h, Failure("malformed body"))

\* findByCountryCode: a country that is listed is refused (409).
LookListed(h) ==
  /\ handler[h].at = "looking"
  /\ \/ Listed(handler[h].on) /\ Ends(h)
     \/ ~Listed(handler[h].on) /\ At(h, "looking deleted") /\ UNCHANGED overlapped
  /\ ReadOnly

\* Mutant: a soft-deleted row is not looked for.
NotLookedFor(c) == FALSE

\* findDeletedByCountryCode.
SoftDeleted(c) == jurisdictions[c] # NoRow /\ jurisdictions[c].deleted

\* Only now the label is read from the body, for the one branch or the other.  It
\* may be missing or null, and another value than a string cannot be trimmed.
LookDeleted(h) ==
  /\ handler[h].at = "looking deleted"
  /\ LET c == handler[h].on IN
     \/ Fails(h, "malformed body")
     \/ /\ SoftDeleted(c)
        /\ \E label \in Text :
              Moves(h, [at |-> "restoring", on |-> c, label |-> label,
                        id |-> jurisdictions[c].id, old |-> jurisdictions[c].label])
        /\ UNCHANGED overlapped
     \/ /\ ~SoftDeleted(c)
        /\ \E label \in Text : Moves(h, [at |-> "inserting", on |-> c, label |-> label])
        /\ UNCHANGED overlapped
  /\ ReadOnly

\* Mutant: what is missing becomes a word.
Stringified(text, old) == IF text = Empty THEN "undefined" ELSE text

\* text?.trim() ?? old.
OrElse(text, old) == IF text = Empty THEN old ELSE text

\* The update by id, which waits for a deletion that has the row.  When it finds
\* no row, there is no jurisdiction to answer with: the handler throws.
RestoreJurisdiction(h) ==
  /\ handler[h].at = "restoring"
  /\ LET c == handler[h].on IN
     \/ /\ jurisdictions[c].id = handler[h].id /\ c \notin doomed.jurisdictions
        /\ jurisdictions' = [jurisdictions EXCEPT ![c] =
              [@ EXCEPT !.deleted = FALSE,
                        !.label = OrElse(handler[h].label, handler[h].old)]]
        /\ WritesOn(h, c, Resting)
     \/ /\ jurisdictions[c].id # handler[h].id
        /\ Fails(h, "row gone")
        /\ UNCHANGED jurisdictions
  /\ UNCHANGED <<council, providers, pending, waitlist, strays>>

\* The insert, which the unique index may refuse, when no deletion is about to
\* free the key.  No foreign key asks for a council.
InsertJurisdiction(h) ==
  /\ handler[h].at = "inserting"
  /\ LET c == handler[h].on IN
     \/ /\ jurisdictions[c] = NoRow
        /\ jurisdictions' = [jurisdictions EXCEPT ![c] =
              [id |-> era, label |-> handler[h].label, deleted |-> FALSE]]
        /\ strays' = IF h \in overlapped \/ deleting = "jurisdictions"
                     THEN strays \cup {c} ELSE strays
        /\ WritesOn(h, c, Resting)
     \/ /\ jurisdictions[c] # NoRow /\ c \notin doomed.jurisdictions
        /\ Fails(h, "index conflict")
        /\ UNCHANGED <<jurisdictions, strays>>
  /\ UNCHANGED <<council, providers, pending, waitlist>>

\* DELETE jurisdictions/:code.
RemoveJurisdiction(h, c) ==
  /\ registered
  /\ Begins(h, [at |-> "looking to remove", on |-> c])

LookToRemove(h) ==
  /\ handler[h].at = "looking to remove"
  /\ LET c == handler[h].on IN
     IF Listed(c)
     THEN /\ Moves(h, [at |-> "removing", on |-> c, id |-> jurisdictions[c].id])
          /\ UNCHANGED overlapped
     ELSE Ends(h)
  /\ ReadOnly

\* The soft delete, by id; nobody looks whether it found a row.
SoftDelete(h) ==
  /\ handler[h].at = "removing"
  /\ LET c == handler[h].on IN
     IF jurisdictions[c].id = handler[h].id
     THEN /\ c \notin doomed.jurisdictions
          /\ jurisdictions' = [jurisdictions EXCEPT ![c].deleted = TRUE]
          /\ WritesOn(h, c, Resting)
     ELSE Ends(h) /\ UNCHANGED jurisdictions
  /\ UNCHANGED <<council, providers, pending, waitlist, strays>>

-----------------------------------------------------------------------------
(* A provider's record.                                                    *)

\* PUT providers/:id: findById.
EditProvider(h, p) ==
  /\ providers[p] # NoRow
  /\ Begins(h, [at |-> "owning", on |-> p, id |-> providers[p].id,
                read |-> providers[p].profile])

\* Mutant: a field that is not in the body is set to null.
WithoutFallback(body, read) == body

\* Every field is set, from the body or else from the row that was read.
Edited(body, read) == [f \in Fields |-> OrElse(body[f], read[f])]

\* The body is parsed only now: a label and a contact, either of them missing or
\* null at will.  A null body, or a field that cannot be trimmed, fails.
OwnProvider(h) ==
  /\ handler[h].at = "owning"
  /\ \/ ~registered /\ Ends(h)
     \/ /\ registered
        /\ \E body \in Profile :
              Moves(h, [at |-> "editing", on |-> handler[h].on, id |-> handler[h].id,
                        edited |-> Edited(body, handler[h].read),
                        asked |-> {f \in Fields : body[f] # Empty}])
        /\ UNCHANGED overlapped
     \/ registered /\ Fails(h, "malformed body")
  /\ ReadOnly

UpdateProvider(h) ==
  /\ handler[h].at = "editing"
  /\ LET p == handler[h].on
         rereading == [at |-> "rereading", on |-> p, id |-> handler[h].id] IN
     IF providers[p].id = handler[h].id
     THEN /\ p \notin doomed.providers
          /\ providers' = [providers EXCEPT ![p].profile = handler[h].edited]
          /\ WritesOn(h, p, rereading)
     ELSE Moves(h, rereading) /\ UNCHANGED <<providers, overlapped>>
  /\ UNCHANGED <<council, jurisdictions, pending, waitlist, strays>>

\* The answer is formatted from a second findById.
Reread(h) ==
  /\ handler[h].at = "rereading"
  /\ IF providers[handler[h].on].id = handler[h].id THEN Ends(h) ELSE Fails(h, "row gone")
  /\ ReadOnly

-----------------------------------------------------------------------------
(* The membership status of a provider.                                    *)

\* GET public/provider/membership-status.
AskStatus(h, p) == Begins(h, [at |-> "reading provider", on |-> p])

\* findByPublicKey: an active row is answered "ACTIVE" (200).
ReadProvider(h) ==
  /\ handler[h].at = "reading provider"
  /\ IF IsActive(handler[h].on) THEN Ends(h)
     ELSE At(h, "reading requests") /\ UNCHANGED overlapped
  /\ ReadOnly

\* Mutant: whoever is not active is not found.
NeverPending(p) == FALSE

IsPending(p) == p \in pending

\* findPendingByPublicKey: "PENDING" (202) or "NOT_FOUND" (404).
ReadPending(h) ==
  /\ handler[h].at = "reading requests"
  /\ IF IsPending(handler[h].on) THEN Ends(h)
     ELSE At(h, "NOT_FOUND") /\ UNCHANGED overlapped
  /\ ReadOnly

-----------------------------------------------------------------------------
(* The public summary of the council.                                      *)

\* Its selects are sent together and answered in any order.  Those of the
\* channels and the providers are left out: the watcher goes on adding rows
\* to these tables when the council is gone.
SumUp(h) ==
  Begins(h, [at |-> "summing up", on |-> "council", council |-> FALSE,
             left |-> {"council", "jurisdictions"}, listed |-> {}])

\* The list of all councils selects the councils first, and then the rest of
\* each one that it found.
ListCouncils(h) ==
  /\ registered
  /\ Begins(h, [at |-> "summing up", on |-> "council", council |-> TRUE,
                left |-> {"jurisdictions"}, listed |-> {}])

ReadCouncil(h) ==
  /\ handler[h].at = "summing up" /\ "council" \in handler[h].left
  /\ Moves(h, [handler[h] EXCEPT !.left = @ \ {"council"}, !.council = registered])
  /\ UNCHANGED overlapped
  /\ ReadOnly

ReadJurisdictions(h) ==
  /\ handler[h].at = "summing up" /\ "jurisdictions" \in handler[h].left
  /\ Moves(h, [handler[h] EXCEPT !.left = @ \ {"jurisdictions"},
                                 !.listed = {c \in Countries : Listed(c)}])
  /\ UNCHANGED overlapped
  /\ ReadOnly

-----------------------------------------------------------------------------
(* The waitlist.  A post without a wallet always inserts, under no key.    *)

\* POST waitlist: upsert() looks for the wallet's row.
JoinWaitlist(h, w, email) ==
  Begins(h, [at |-> IF waitlist[w] = Empty THEN "enlisting" ELSE "updating",
             on |-> w, email |-> email])

\* Rows are never deleted: the update finds the row that was read.
UpdateEmail(h) ==
  /\ handler[h].at = "updating"
  /\ waitlist' = [waitlist EXCEPT ![handler[h].on] = handler[h].email]
  /\ WritesOn(h, handler[h].on, Resting)
  /\ UNCHANGED <<council, jurisdictions, providers, pending, strays>>

\* The insert, which the unique index may refuse.
Enlist(h) ==
  /\ handler[h].at = "enlisting"
  /\ LET w == handler[h].on IN
     \/ /\ waitlist[w] = Empty
        /\ waitlist' = [waitlist EXCEPT ![w] = handler[h].email]
        /\ WritesOn(h, w, Resting)
     \/ /\ waitlist[w] # Empty
        /\ Fails(h, "index conflict")
        /\ UNCHANGED waitlist
  /\ UNCHANGED <<council, jurisdictions, providers, pending, strays>>

-----------------------------------------------------------------------------
\* The answer is sent.
Answered(h) ==
  /\ \/ handler[h].at \in {"failed", "NOT_FOUND"}
     \/ handler[h].at = "summing up" /\ handler[h].left = {}
  /\ Ends(h)
  /\ ReadOnly

\* The next statement fails, or the process dies, and then the answer is lost.
RequestFails(h) ==
  /\ handler[h].at \notin {"resting", "failed", "NOT_FOUND"}
  /\ Fails(h, "database")
  /\ ReadOnly

-----------------------------------------------------------------------------
(* The deletion, and the commits of the other modules.                     *)

CommitsOf(others) ==
  /\ overlapped' = overlapped \cup others
  /\ UNCHANGED handler
  /\ Remembers(Unknown')

Active == {h \in Handlers : handler[h] # Resting}

RegisterCouncil ==
  /\ ~registered
  /\ registered' = TRUE
  /\ UNCHANGED <<era, deleting, doomed, tables, strays>>
  /\ CommitsOf({h \in Active : handler[h].on = "council"})

\* A statement of deleteCouncil, in its transaction.  The users and the escrows
\* go before the join requests, the channels and the council's own row last.
Deletes(table, rows) ==
  /\ deleting' = table /\ doomed' = rows
  /\ UNCHANGED <<registered, era, tables, handler, overlapped, absent, strays>>

DeleteRequests ==
  /\ deleting = "no" /\ registered /\ era <= MaxDeletions
  /\ Deletes("requests", [doomed EXCEPT !.requests = pending])

DeleteProviders ==
  /\ deleting = "requests"
  /\ Deletes("providers", [doomed EXCEPT !.providers = {p \in Providers : providers[p] # NoRow}])

\* Mutant: the jurisdictions are forgotten.
JurisdictionsKept == {}

JurisdictionsDeleted == {c \in Countries : jurisdictions[c] # NoRow}

DeleteJurisdictions ==
  /\ deleting = "providers"
  /\ Deletes("jurisdictions", [doomed EXCEPT !.jurisdictions = JurisdictionsDeleted])

\* The commit takes the rows that the statements found, and no row since.
CommitDelete ==
  /\ deleting = "jurisdictions"
  /\ registered' = FALSE /\ era' = era + 1
  /\ deleting' = "no" /\ doomed' = NoneDoomed
  /\ jurisdictions' = [c \in Countries |->
                         IF c \in doomed.jurisdictions THEN NoRow ELSE jurisdictions[c]]
  /\ providers' = [p \in Providers |-> IF p \in doomed.providers THEN NoRow ELSE providers[p]]
  /\ pending' = pending \ doomed.requests
  /\ strays' = strays \ doomed.jurisdictions
  /\ UNCHANGED waitlist
  /\ CommitsOf({h \in Active : handler[h].on \notin Wallets})

\* A statement fails, or the process dies: the transaction is rolled back.
AbortDelete ==
  /\ deleting # "no"
  /\ Deletes("no", NoneDoomed)

\* Whoever posts, reviews or adds a row sees the rows that an open deletion has.
PostJoinRequest(p) ==
  /\ p \notin pending
  /\ pending' = pending \cup {p}
  /\ UNCHANGED <<council, jurisdictions, providers, waitlist, strays>>
  /\ CommitsOf({})

NewProvider == [id |-> era, status |-> "ACTIVE", profile |-> [f \in Fields |-> Empty]]

\* A review, which waits for a deletion that has its request: an approval creates
\* the row that is missing.  The reviewer was found to own the council before.
Review(p) ==
  /\ p \in pending \ doomed.requests
  /\ pending' = pending \ {p}
  /\ \/ UNCHANGED providers
     \/ providers' = [providers EXCEPT ![p] = IF @ = NoRow THEN NewProvider ELSE @]
  /\ UNCHANGED <<council, jurisdictions, waitlist, strays>>
  /\ CommitsOf({h \in Active : handler[h].on = p /\ handler[h].at \in StatusReads})

\* A poll of the watcher that adds or removes p: its update waits for a deletion
\* that has the row.  The watcher runs on when the council is gone.
WatcherCommits(p) ==
  /\ \/ providers[p] = NoRow /\ providers' = [providers EXCEPT ![p] = NewProvider]
     \/ /\ providers[p] # NoRow /\ p \notin doomed.providers
        /\ \E status \in {"ACTIVE", "REMOVED"} :
              providers' = [providers EXCEPT ![p].status = status]
  /\ UNCHANGED <<council, jurisdictions, pending, waitlist, strays>>
  /\ CommitsOf({})

-----------------------------------------------------------------------------
Begin(h) ==
  \/ \E c \in Countries : AddJurisdiction(h, c) \/ RemoveJurisdiction(h, c)
  \/ \E p \in Providers : EditProvider(h, p) \/ AskStatus(h, p)
  \/ \E w \in Wallets, email \in Texts : JoinWaitlist(h, w, email)
  \/ SumUp(h) \/ ListCouncils(h)

Continue(h) ==
  \/ LookListed(h) \/ LookDeleted(h) \/ RestoreJurisdiction(h) \/ InsertJurisdiction(h)
  \/ LookToRemove(h) \/ SoftDelete(h)
  \/ OwnProvider(h) \/ UpdateProvider(h) \/ Reread(h)
  \/ ReadProvider(h) \/ ReadPending(h)
  \/ ReadCouncil(h) \/ ReadJurisdictions(h)
  \/ UpdateEmail(h) \/ Enlist(h)
  \/ Answered(h) \/ RequestFails(h)

Next ==
  \/ \E h \in Handlers : Begin(h) \/ Continue(h)
  \/ RegisterCouncil
  \/ DeleteRequests \/ DeleteProviders \/ DeleteJurisdictions \/ CommitDelete \/ AbortDelete
  \/ \E p \in Providers : PostJoinRequest(p) \/ Review(p) \/ WatcherCommits(p)

Spec == Init /\ [][Next]_vars

-----------------------------------------------------------------------------
(* Properties.                                                             *)

\* Every variable has its type, every row an id that was already given, and an
\* open deletion is one that the bound admits.
RecordsTypeOK ==
  /\ registered \in BOOLEAN /\ era \in Id
  /\ deleting \in {"no", "requests", "providers", "jurisdictions"}
  /\ doomed \in [requests : SUBSET Providers, providers : SUBSET Providers,
                 jurisdictions : SUBSET Countries]
  /\ deleting # "no" => era <= MaxDeletions
  /\ jurisdictions \in [Countries -> Jurisdiction \cup {NoRow}]
  /\ providers \in [Providers -> Provider \cup {NoRow}]
  /\ pending \subseteq Providers
  /\ waitlist \in [Wallets -> Text]
  /\ handler \in [Handlers -> HandlerState]
  /\ overlapped \subseteq Handlers /\ absent \subseteq Handlers
  /\ strays \subseteq Countries
  /\ \A c \in Countries : jurisdictions[c].id <= era
  /\ \A p \in Providers : providers[p].id <= era

\* A conflict of the unique index, or a row that is gone when it is written or
\* read again, meets a request only when another one wrote the same key, or the
\* council was deleted, while its own was under way.  So a client that is alone
\* gets an internal error for a malformed body or a failing database, and for
\* nothing else (handleAddJurisdiction; handleUpdateProvider; upsert of the
\* waitlist; errorMiddleware).
ErrorsNeedOverlap ==
  \A h \in Handlers :
     handler[h].at = "failed" /\ handler[h].why \notin {"malformed body", "database"}
       => h \in overlapped

\* A write changes only what it was asked to.  One that the council's deletion
\* has overtaken changes no row of the council created again; an edit that
\* nobody overlapped keeps each field that its body leaves out, and a restored
\* jurisdiction its label (update by id; `label?.trim() ?? provider.label').
OnlyWhatWasAsked ==
  [][\A h \in Handlers :
        LET x == handler[h].on IN
        handler'[h] # handler[h] =>
          /\ handler[h].at = "editing" =>
               /\ providers[x].id # handler[h].id => providers' = providers
               /\ h \notin overlapped =>
                    \A f \in Fields \ handler[h].asked :
                       providers'[x].profile[f] = providers[x].profile[f]
          /\ handler[h].at = "removing" =>
               (jurisdictions[x].id # handler[h].id => jurisdictions' = jurisdictions)
          /\ handler[h].at = "restoring" =>
               /\ jurisdictions[x].id # handler[h].id => jurisdictions' = jurisdictions
               /\ h \notin overlapped /\ handler[h].label = Empty =>
                    jurisdictions'[x].label = jurisdictions[x].label]_vars

\* The summary of a council that does not exist lists nothing, unless the
\* council was created or deleted while the summary was read, or the row was
\* inserted too late for the deletion to find it: between its statement on the
\* jurisdictions and its commit, or by an addition that began before the
\* deletion and ended after it (deleteCouncil; no foreign key).
WholeSummary ==
  \A h \in Handlers \ overlapped :
     /\ handler[h].at = "summing up" /\ handler[h].left = {}
     /\ ~handler[h].council
     => handler[h].listed \subseteq strays

\* A status request answers NOT_FOUND only for a key that was, at some moment
\* of the request, neither an active member nor waiting for a decision, unless
\* a review of it, or the council's deletion, was committed between its two
\* reads ("404 for both rejected and non-existent providers", public/routes.ts).
NotFoundMeansAbsent ==
  \A h \in Handlers : handler[h].at = "NOT_FOUND" => h \in absent \cup overlapped
=============================================================================
