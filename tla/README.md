# Formal model of the council platform

TLA+ specifications of the council platform (a Deno server with Postgres that keeps the
registry of privacy councils on Stellar), checked with TLC on small instances and, where
it matters most, proved with TLAPS for all instances. Paths below are relative to `src/src/`.

- [Inventory](#inventory)
- [Plan](#plan)
- [How the modules correspond to the code](#how-the-modules-correspond-to-the-code)
- [Runs, bounds and what they show](#runs-bounds-and-what-they-show)
- [Fairness](#fairness)
- [What is proved](#what-is-proved)
- [Where code and documentation disagree](#where-code-and-documentation-disagree)
- [What is only model-checked, and what is not modelled](#what-is-only-model-checked-and-what-is-not-modelled)

## Inventory

One process. `main.ts` awaits `startEventWatcher` and then serves HTTP; SIGINT and SIGTERM
exit at once. All durable state is in Postgres; in memory there are only the map of active
watchers with their positions and the map of pending sign-in challenges. Concurrency is
that of one JavaScript thread: a handler runs without interruption up to its next `await`,
and any other handler, tick or poll may run there. Statements outside a transaction commit
one by one.

| Part | State | Operations | Talks to |
|---|---|---|---|
| Event watcher (`core/service/event-watcher/`) | `watcher_cursor`; `activeWatchers`, per watcher `lastLedger`, `isRunning` | sync tick every 5 s (`syncWatchersFromDb`, `ensureWatcher`), `start`, `poll` every 30 s, `makeCommit`/`applyEvent`, stop on exit | RPC server (`getHealth`, `getEvents`); writes `council_providers`, `council_channels`, `watcher_cursor` in one transaction; reads `council_metadata` |
| Channels (`http/v1/council/channels.ts`) | `council_channels` (`status`, `pendingAction`, cached totals), `known_assets` | add, remove (intent), enable (intent), get, list | shares rows with the watcher, which alone confirms a status |
| Join requests and membership (`http/v1/public/join-request.ts`, `http/v1/council/join-requests.ts`) | `provider_join_requests`, `council_providers` | post, approve, reject, list | approval and watcher both insert a provider's row |
| Council registry (`http/v1/council/metadata.ts`) | `council_metadata` (owner, encrypted derivation root) | put (create or update), delete (with everything of the council), get, list | custody derives keys from the root; the tick starts a watcher per row |
| Custody and signing (`http/v1/council/sign.ts`, `core/service/custody/`) | `custodial_users` | register, public keys, sign | reads `council_providers` to admit the caller, `council_metadata` for the root |
| Escrow (`http/v1/council/escrow.ts`, `core/service/escrow/`) | `council_escrows` | deposit, summary, release, recipient keys | reads `custodial_users`, `council_providers` |
| Wallet sign-in (`core/service/auth/`, `http/v1/admin/auth/`, `http/middleware/auth/`) | challenges in memory (at most 1000, 5 minutes), the secret, `wallet_users` | challenge, verify, admit a token | every authenticated endpoint trusts its token |
| Jurisdictions (`http/v1/council/jurisdictions.ts`) | `council_jurisdictions` (soft-deleted) | add (insert or restore), remove, list | the public summary lists them; the deletion of a council takes them |
| Provider records (`http/v1/council/providers.ts`) | label and contact of `council_providers` | edit, get, list | rows of the watcher and of approvals |
| Waitlist (`http/v1/waitlist/`) | `waitlist_requests` | upsert | |
| Public read endpoints (`http/v1/public/routes.ts`) | none | membership status, summary, list of councils, providers, channels, assets | several selects each, side by side or one after the other |
| RPC proxy, health, council client, signed payloads, middleware, logging, tracing, configuration | none that decisions depend on | | |

What is hard here, part by part (each item is a hazard with its line in `PROJECT.json`):

- **Event watcher.** Overlapping ticks start two watchers for one council; a crash between
  commit and position, a lost acknowledgement, a rolled back or deadlocked transaction; the
  retention window of the RPC server moves on; an answer of `getEvents` is only a page.
  *Correct* means: no event that the server still retains is skipped; rows and cursor agree;
  in the end the tables mirror the contract.
- **Channels.** Endpoints read, await and write while the watcher confirms. *Correct*: a
  channel is withdraw-only exactly when the chain says so; a marker is set by an endpoint and
  cleared by its confirmation.
- **Membership.** Two reviews of one request; an approval against the watcher. *Correct*: a
  decision is final; whoever was approved has a row; only the chain re-admits and the
  contract has the last word; reviews do not wait for ever.
- **Registry and custody.** Creation, update and deletion of a council race with
  registrations. *Correct*: a root, once a key depends on it, is never lost; a council and a
  user never change hands; a key that is served is the one that was registered.
- **Escrow.** A release is a loop of single updates. *Correct*: what is paid is no longer held,
  nothing is paid twice, the totals add up, also after a failure half way.
- **Deletion of a council.** One DELETE per table in one transaction, beside reviews that lock
  rows and a watcher that goes on. *Correct*: nobody approved is left without a row, no member
  without a council, and the deletion ends.
- **Sign-in.** A challenge is looked up before and removed after an await; the map has a limit;
  sweeping is lazy; a restart forgets challenges and perhaps the secret. *Correct*: a token is
  its wallet's, a challenge serves once, no live challenge is lost and no session comes back.
- **Records.** Select, then write by id, without a transaction. *Correct*: answers and writes
  follow from what was so while the request ran; errors have a cause.

## Plan

Order of work, most important first. Steps 1 to 9 are done; the last is what may come next.

1. `ChannelAuthEvents`, `EventWatcher`, the abstract `ChannelMirror`, and `EventWatcher_proofs`.
2. `ChannelLifecycle`, which composes the channel endpoints with `EventWatcher`.
3. `Membership`, which composes join requests with `EventWatcher`, and `Membership_proofs`.
4. `CouncilRegistry` with custody, and `CouncilRegistry_proofs`.
5. `EscrowRelease`, and `EscrowRelease_proofs`.
6. `CouncilAuth`: challenges, their limit and expiry, overlapping verifications, restarts; and
   `CouncilAuth_proofs`.
7. `CouncilDeletion`, which composes the deletion and re-creation of a council with `Membership`
   and its watcher, statement by statement.
8. `CouncilRecords`: jurisdictions, provider records, waitlist and public reads beside a
   deletion; and `CouncilRecords_proofs`.
9. Proofs: the tables of a single watcher and its refinement of `ChannelMirror`
   (`EventWatcher_proofs`), `ChannelLifecycle_proofs`, `CouncilDeletion_proofs`, the rows of members,
   and the totals of a release. Every safety property of a passing run is now a theorem.
10. What overlapping watchers still guarantee of the rows, beyond that no event is skipped.

All modules that are proved about take their parameters as CONSTANTS with named assumptions
and use no RECURSIVE operator.

## How the modules correspond to the code

`PROJECT.json` maps every definition to its lines. In short:

**ChannelAuthEvents** has the events of `event-watcher.types.ts`, the rows, and what a set of
events calls for (`ProviderAfter`, `ChannelAfter`). A council's id is its contract id and
every council has its own watcher, cursor and rows, so one council is modelled.

**EventWatcher** has the network (`CloseLedger`, `AdvanceRetention`), the ticks
(`EnsureWatcher`), `start` in its awaits (`RestoreCursor`, `ResolveBootStartLedger`,
`StartFails`), a poll in its awaits (`Fetch`, one `ApplyEvent` per event, `CommitPoll`), and
what may go wrong (`CommitUnacknowledged`, `Rollback`, `DeadlockAbort`, `Crash`). `active` is
`activeWatchers.get(councilId)`, `pos` is `lastLedger`. Uncommitted writes are in `stagedP` and
`stagedC`: another transaction that wants the same row waits, as for a Postgres row lock. The
SELECT and the write of one event are one step: the row they meet is either committed or
locked, and a lost race on the unique index aborts the transaction, which is `Rollback`.
A failed fetch changes nothing and is not a step. Topics the code does not know are not events.

**ChannelMirror** is the abstract promise: tables and cursor move forward together in atomic
steps over the contract's history. A single watcher is shown to implement it, by TLC and by
proof, under the mapping `Mirror` in EventWatcher; two overlapping ones do not.

**ChannelLifecycle** extends EventWatcher with the requests of `channels.ts`. Each
handler is its read (`AddChannel`, `RemoveChannel`, `EnableChannel`), then its write
(`InsertChannel`, `SetPendingAction`) on whatever the row is by then; `RequestFails` is every
error answer.

**Membership** extends EventWatcher with `join-request.ts` and `join-requests.ts`. `LockRequest`
is SELECT ... FOR UPDATE with the early returns; `Approve` is the rest of the transaction
(update, select and insert of the provider, commit) and waits for a watcher that holds the same
key; `Reject` likewise. The council of a request is the modelled one.

**CouncilRegistry** has `metadata.ts`, `sign.ts` and `custody.service.ts`. A root is a number for
its 32 random bytes; a key is the root it was derived from, because all other inputs of the
derivation are fixed per user. `PutNewCouncil`/`PutExistingCouncil` end at the await before
the upsert; `Upsert` writes what they computed. `DeleteCouncil` is the one transaction of
`deleteCouncil`. Signing and serving keys are `CheckUser` then `DeriveKey`, two reads apart.

**EscrowRelease** has the escrows of one recipient. `FindHeld` is the select, `CheckRecipient`
the user lookup, `MarkReleased` one turn of the loop, `AnswerRelease` the answer. Providers,
registration and deletion of the council are environment actions with their whole effect on this
state.

**CouncilDeletion** extends Membership with the transaction of `deleteCouncil`. `BeginDelete` and
`NextTable` start a statement on the rows committed by then, `DeleteRow` takes one row when nobody
else has it locked, `CommitDelete` and `AbortDelete` end it. A watcher whose UPDATE meets a deleted row
waits (`BlockOnDeleted`) and then finds nothing; `DeadlockWithWatcher` is Postgres aborting one of two
that wait for each other. The council's row and its re-creation are `registered` and
`RegisterCouncil` of EventWatcher; the cursor is in no statement, as in the code. `recent` has the
events committed since the statement on the provider rows began, those included that are applied
again after a lost acknowledgement: their rows the deletion does not take. The ids of requests,
providers and channels are apart (`RowsAssumption`), as rows of different tables are. Jurisdictions under
the statements of a deletion are in CouncilRecords; escrows and custody are in the modules of those parts, where
the deletion is one step.

**CouncilAuth** has `council-auth.ts`, its two endpoints and the admission of a token. `CreateChallenge`
is one turn without an await: sweep, refuse or add. A verification is `BeginVerify` up to the first
await, `ConsumeChallenge` or `RejectSignature` after the hashes, `GenerateToken` after the token is
signed, `AnswerToken` with the user's row. `secret` numbers the secrets: a restart without a configured one
makes another. Session ids are hashes of nonces and stand for them.

**CouncilRecords** has `jurisdictions.ts`, the edit of `providers.ts`, the waitlist, and the three public
reads that use more than one select. A handler is one step per statement and keeps in `handler` what it
has read. A key has at most one row between two deletions, so that the id of a row is the number of the
council's life it was inserted in (`era`). The deletion is a transaction of its statements (`DeleteRequests`,
`DeleteProviders`, `DeleteJurisdictions`, `CommitDelete`, `AbortDelete`): what a statement has found is `doomed`, still
read by others, and locked for their writes, and what is inserted behind it stays. One deletion runs at a time.
Approvals and the watcher's polls are their commits here. The bodies that make a handler throw are there: null, and
a field that is not a string (`AddJurisdiction`, `LookDeleted`, `OwnProvider`, at the line where it throws); so is a
statement that fails (`RequestFails`), which stands for a process that dies, too. A failed request keeps its cause.
A body is chosen when its fields are first used, with any of them missing (`Fields` are a provider's label and
contact).

The variables `applied`, `knownAt`, `rowSince`, `served`, `paid`, `answer`, `calm`, `recent`, `late`,
`signings`, `overlapped`, `refused`, `absent` and `strays` are history: no action's guard reads them.
`calm` says that no two requests of the kind its module names have overlapped so far; `overlapped` names
the requests (in CouncilAuth, the challenges) that did overlap. Properties that assume their absence say
what serial use guarantees, and what the code leaves to chance otherwise is listed below.

## Runs, bounds and what they show

| Run | Question | States |
|---|---|---|
| `watcher` | One watcher with crashes, failures, lost acknowledgements, retention: nothing retained is skipped, rows match the cursor, it implements the mirror, it catches up | 0.8 M |
| `watcher_overlap` | Two watchers of one council: still nothing skipped; the inductive invariant holds | 4.8 M |
| `watcher_page` * | A page limit: events skipped | |
| `channels` | Endpoints beside the watcher: statuses come from the chain, markers go with their event, and do go unless the window passes the event or the watcher | 0.3 M |
| `membership` | Reviews, posts and the watcher: final decisions, rows, the contract's last word, reviews end | 0.2 M |
| `registry` | Two overlapping requests over two councils, owners and providers: roots, owners, users, served keys | 2.5 M |
| `registry_root` * | Two first puts: the root is replaced | |
| `escrow` | Releases, deposits, failures, deletion: complete, paid is not held, nothing counted twice but by an overlap, totals balance | 0.1 M |
| `sign_in` | Two verifications beside new challenges, a full map, expiry and a restart: tokens are their wallet's, one per challenge, live challenges and sessions last | 3.6 M |
| `deletion` | The deletion beside a review or post and the watcher, with locks, a deadlock, a crash and a re-creation: no approval without its row, no leftovers, it ends | 0.6 M |
| `council_reborn` * | A council created again under its id: the old cursor hides its members | |
| `directory` | Two requests on jurisdictions, provider records, status, summary and waitlist beside the statements of a deletion, reviews and the watcher: answers, errors and writes have their cause | 4.5 M |

\* expected to be violated; see [below](#where-code-and-documentation-disagree).

Bounds, and why they are enough:

- `MaxLedger` 2 to 4, `MaxPerLedger` 1 or 2: an add, a remove and a re-add of one provider, in one
  poll or over several, with a ledger closing during a poll. Providers do not interact, nor do
  channels, except through the transaction that applies them: one of each suffices to
  have an event of another row in the same transaction.
- `MaxOldest` 3 in `watcher`, `watcher_overlap` and `channels`: the window passes a position between boot and poll,
  and a stored cursor during a crash. Events begin at ledger 2, so that 3 is the first window that loses one. It is 1
  in `membership` and 0 in `deletion`, where nothing is lost, to keep them small: their properties speak of events
  that were applied, and their theorems have no bound.
- `MaxCrashes` and `MaxFailures` 1: one fault in every state; a second one finds a state
  that a first one can leave behind, because a fault keeps nothing but the committed tables.
- Two `Watchers`: two ticks overlap; the proof covers any number.
- Two `Handlers` or `Requests`: every hazard of a handler is one other handler between two of its
  awaits. Two councils compete for one user; two join requests have one key.
- `MaxRoots` 2: a root and its replacement. `Amounts` 0, 1 and 3 with `Fee` 2: refused, below
  the fee, above it. `MaxEscrows` 2: in one channel or in two.
- `PageLimit` 6 is at least the number of events the bounds allow, except in `watcher_page`, where it is 1.
- `sign_in`: `MaxPending` 2 with three nonces and two wallets fills the map and refuses; times to live of 1 under
  `MaxClock` 3 let a challenge expire, be swept and its successor's session end; `MaxCrashes` 1 is a restart at
  any await.
- `deletion`: one handler, one join request, one key and one channel beside one watcher: each pair of lock
  holders meets, and the event of the channel follows the one of the provider in one transaction.
- `directory`: two handlers on one country, provider and wallet, two fields of a provider and one text, against
  null: requests on different keys share nothing but the deletion, and an edit with one field keeps the other. `MaxDeletions` 1 gives two lives of the council, before
  and after. The theorems remove all of these bounds.

Symmetry is used over watchers, handlers, councils, owners, providers, channels, wallets, fields and nonces in runs
without liveness properties only; no constant of those sets is singled out by a specification.

`CHECK_DEADLOCK FALSE` is set where the module contains the watcher: the bounded chain ends,
all events are applied, and a poll without news from an idle position beyond the last
ledger is not a step. It is also set in `sign_in`, whose clock and nonces end, and in `directory`, which has
no waiting to be stuck in. In the other runs deadlock is checked.

## Fairness

`FairSpec` of EventWatcher: the tick's timer, the answers of Postgres and the RPC server, and the
poll's timer come in the end (weak fairness of `EnsureWatcher`, `RestoreCursor`,
`ResolveBootStartLedger`, `Fetch`, `CommitPoll`, `DeadlockAbort`, `StartupSyncEnds`): both timers
are re-armed whatever the last turn did (`setInterval`; `scheduleNext` after a `poll` that catches
everything). `ApplyEvent` is strongly fair because Postgres queues the waiters of a
row lock. Nothing is assumed of the network, of faults or of callers; faults are finite by
their bounds. `EventuallyMirrored` excuses a watcher whose position has left the retention window: its
polls fail for ever and the code never chooses a new position. `EventClearsMarker` excuses the same watcher, and an
event that the window passed before any poll read it (`Missed`): in both cases the marker stays until some later
event of the channel, or for ever.

`LifecycleFairSpec` assumes the same of the watcher's steps, and `MembershipFairSpec` of those of an open
poll only (`ApplyEvent`, `CommitPoll`); with one watcher nobody competes for its rows, so weak
fairness of `ApplyEvent` is enough there and no deadlock needs breaking. Membership also assumes that a
handler whose statement can run runs it (strongly for the steps that wait for a lock). No fairness makes anybody send a request.

`DeletionFairSpec`: a statement that can go on does (`NextTable`, `CommitDelete`); `DeleteRow` is strongly fair,
because Postgres queues it behind the lock it waits for, and so is the end of a review that waits;
the watcher's open transaction goes on, and Postgres finds a deadlock (`DeadlockWithWatcher`). Crashes and aborts
end a deletion too. `DeletionEnds` needs no fairness of who posts, reviews or deletes.

With two watchers and rows of several kinds, fairness does not give liveness: two transactions can
deadlock, abort and meet again for ever. Only one watcher's liveness is checked.

## What is proved

All by TLAPS, for every value of the constants under the named assumptions of the modules
(`BoundsAssumption`, `NoWatcherAssumption`, `RowsAssumption`, `RootsAssumption`, `AmountsAssumption`,
`AuthAssumption`, `NoncesAssumption`, `RecordsAssumption`, `KeysAssumption`).

**EventWatcher_proofs.** `TypeCorrect`, and `NoEventSkipped`:
`Spec /\ []WholePages => []NoRetainedEventSkipped`, for any number of overlapping watchers, any history
and any faults. `WholePages` (no watcher that may poll is about to get an answer that its page cuts; it says nothing
of watchers that are absent or in the middle of a poll) is needed: `watcher_page` shows
the code without it. The invariant is `CoverageInvariant`. `NoRetainedEventSkipped` speaks of the cursor
alone and is not inductive: a commit moves the cursor to a ledger chosen when the poll
began. The strengthening says that a position is itself covered, and that an open
transaction is about to apply, or has applied, everything between its position and the cursor it will
write. Closing a ledger only adds events at or above every such cursor; a retention step only
drops obligations. `CoverageHolds` states the invariant itself.

`RowsAndCursorAgree` and `MirrorImplemented` have the hypothesis `[]NoOverlap`, that there is at most one
watcher of the council at a time, and the latter also `[]WholePages`. Both are needed. When the slower
of two watchers commits last, its rows are older than the cursor, and a skipped page leaves rows that
no prefix of the history explains. They constrain only who runs and what an answer holds: crashes,
rollbacks, lost acknowledgements and any history are covered. Three invariants are stacked.
`OrderInvariant`: what a transaction has applied comes before what it will apply, what others applied comes
before both or is applied again in full, and only an open transaction has uncommitted writes.
`ProviderInvariant` and `ChannelInvariant`: a committed row is the last word of the applied events about it, and an
uncommitted write that of the events the transaction has applied, where a row may also have come to exist
otherwise (an approval, an endpoint) at a known length of the history. `RowsInvariant` adds that nobody else
writes. The agreement of rows and cursor is not inductive without the uncommitted writes, because a
commit moves them. For the refinement `NoGapBelowCursor` is added: only then is the commit of a poll one step of the
mirror from its old cursor to its new one.

**Membership_proofs.** `LockedStaysPending`, `ApprovedKeepsRow`, `DecisionStaysFinal` and
`OnlyTheChainReadmits`, from `ReviewInvariant`: types, at most one holder of a request, a held request
is pending, an approved key has a row, and an uncommitted activation comes from an addition the
transaction has applied. Steps of the watcher are taken over from EventWatcher's type proof; the
rest is by handler. `MembersFollowTheChain` (with `[]NoOverlap`) is `ProviderInvariant` again, from
`FollowInvariant`, with the length of the history at which an approval inserted the row: events from
before it do not speak of that row.

**ChannelLifecycle_proofs.** `LifecycleTypes` and `MarkersClearedByEvents` hold for any number of watchers, from
`LifecycleInvariant`: a status is written for an event that the transaction has applied (`StatedByEvent`), and
a channel without a row has no marker, so that an insertion clears none (`UnknownIsBlank`). `DisabledOnlyByChain`
and `KnownChannelsFollow` (with `[]NoOverlap`) are from `ConfirmInvariant`, which is `ChannelInvariant` with `knownAt`: the
endpoints write rows beside the watcher, but a status only when they insert.

**CouncilDeletion_proofs.** `DeletionTypes`, `ApprovedRowsSurvive` and `NothingLeftOver`, for any number of
watchers, reviews and re-creations, and with locks, deadlocks and crashes, from `DeletionInvariant`. What must be
known while the deletion is open: its statements come in their order and hold rows of their own table
(`StatementsInOrder`); a review that holds a lock keeps its row (`LockedIsKept`); a request the first statement
did not take was inserted late (`TakenOrLate`); a watcher's uncommitted write is an addition it has read or an
update of a row that is there (`StagedForRow`). `NewRowsExcused` is the heart: a provider's row that the
deletion does not take is owed to a late request or to a recent event. A review can bring one only if it is
of a late request (`ReviewsAreLate`), since others have lost theirs or hold a lock the deletion waits for.

**CouncilRegistry_proofs.** `RegistryTypeCorrect`; `UserRowsStayPut` from types alone; and
`KeysAreRecoverable`, `KeysServedAsRegistered` and `CouncilsKeepOwnerAndRoot` from `RootsInvariant`. What
a handler read must still be true when it writes (`UpToDate`): that holds because a council's row
only changes at the end of its creation or its deletion (an update writes back the root and owner it
read), and `calm` says that those are alone with the council (`Alone`).

**EscrowRelease_proofs.** `EscrowTypeCorrect` and `ReleasedIsCharged` (which needs a positive fee, as
`DEFAULT_ESCROW_FEE` is) from types; `PaidIsNotHeld`, `PaidAtMostOnce` and `ReleasesAreComplete` from
`EscrowInvariant`. That nothing paid is held is not inductive: one must know that what a running
release has marked is released or gone, that what it found in its channel is marked or still to
do, and, while releases are alone, that nothing it works on was counted before (`ReleaseKnows`). Rows
help: one that was created keeps its channel, is marked at most, and once gone stays gone (`RowMoves`).
`TotalsAddUp` is from `TotalsInvariant`: the running totals account for what is marked, and what is still
to do is not marked. It needs that a sum over a set grows by the amount of a new member, whatever order
`MapThenSumSet` picks. The prover has no induction scheme for this, so the lemmas read a sum as a count of
stroops (`SumIsCardinality`) and take induction from a minimal counterexample, in the finite and hence
well-founded order of subsets (`SubsetInduction`).

**CouncilAuth_proofs.** `AuthTypeCorrect`, with the limit of the map; `TokensAreSound` from `AskedInv` (whatever is in
the map, in a verification or in a token is of the wallet its nonce was created for, and no token's secret
is from the future); `ChallengesAreUsedOnce` from `OnceInv`. That a challenge signs one token is not
inductive: one must know that, unless its verifications overlapped, at most one of them carries it, and that a
challenge that was signed, or is being issued, has left the map for good. `FreshChallengesStay`, `RefusalsAreDue` and
`SessionsEnd` are steps from these invariants.

**CouncilRecords_proofs.** `RecordsTypeCorrect` from types, and `NoErrorAlone`, `SummariesAreWhole`, `NotFoundIsDue` and
`WritesAreAsked` from `RecordsInv`. It says that what a request that nobody overlapped has read is still so
(`ReadIsCurrent`, `SummaryIsCurrent`), that the jurisdictions of a council that does not exist, and those that an open
deletion has no statement left for, are `strays` (`StraysInv`), and that a key once found inactive, and never
unknown since, waits for its decision (`StatusInv`). Every step either leaves alone what a request has read (`Untouched`) or marks the request as overlapped; the step lemmas are by kind: a
request begins, reads, writes, a deletion goes on, or it or another module commits.

## Where code and documentation disagree

- `watcher_page`: `getEvents` has no paging, but the cursor moves past the page.
- `registry_root`: two first puts each make a root and the second replaces the first.
- `council_reborn`: `deleteCouncil` leaves the watcher's cursor; a council created again under its id resumes
  above the events that added its members.

Also seen, without a run of their own; the properties named except them, or say when they arise:

- `ensureWatcher` checks the map before an await and sets it after (`index.ts:66`): two ticks start two
  watchers, and the later commit of the slower one can leave a row older than the cursor (`RowsMatchCursor` is
  of one watcher).
- The enable endpoint may set a marker again after its confirmation (`channels.ts:299`); it stays until the
  channel's next event. A channel inserted after the contract disabled it stays "enabled": its event was ignored.
- The duplicate check and the insert of a join request are apart (`join-request.ts:156`): two pending requests of
  one key arise. An approval never re-activates a removed provider, which the code leaves to the chain.
- Overlapping releases each return the amount of one escrow (`escrow.service.ts:231`, `PaidOnceAlone`); the
  count a release returns includes the held escrows of other channels (`escrow.service.ts:250`).
- A user registered while its council is deleted keeps a row without a council; keys are derived from
  the council named in the request, which need not be the user's.
- Two verifications of one challenge that overlap each sign a token (`council-auth.ts:128`, `OneTokenPerChallenge`).
- A join request, or a jurisdiction, inserted while the council is deleted, after the statement on its table or
  after the commit, survives it (`NoLeftovers`, `WholeSummary`): no foreign key refuses it. The summary lists such a
  jurisdiction without its council.
- A null body, or a label or contact that is not a string, is not refused as invalid: the handler throws a TypeError
  that is answered 500 (`jurisdictions.ts:56`, `:85`, `:92`; `providers.ts:118`, `:121`, `:122`; the cause "malformed body" of
  `ErrorsNeedOverlap`).
- An edit of a provider writes back the field it was not asked to change, as it read it: an overlapping edit
  of that field is lost (`providers.ts:120`, `OnlyWhatWasAsked`).
- The membership status reads the provider first and the pending requests second: an approval, or a deletion, in between is
  answered 404 (`public/routes.ts:264`, `NotFoundMeansAbsent`). Reading them in the other order would not.
- Two additions of a country, or two posts of a wallet to the waitlist, that overlap: one is answered 500 by
  the unique index (`ErrorsNeedOverlap`).
- The server does not listen until the startup sync, RPC calls included, is over.

## What is only model-checked, and what is not modelled

Liveness under fairness (`EventuallyMirrored`, `EventClearsMarker`, `ReviewsEnd`, `DeletionEnds`) is out of the
prover's reach and is left to TLC, on small instances. Every other property of a passing run is also a theorem.
The violations are TLC's alone.

Not modelled, and why:

- Signed payloads (`core/crypto/signed-payload.ts`): a pure check of a signature and a time window, without state.
  A request that reaches a model action was valid.
- The RPC proxy, health and the council client: pass-through, a probe, and a library that nothing in the
  server calls. None keeps state.
- HTTP shell, errors, logging, tracing, configuration: no decision reads them. The error middleware is in
  every module as a request that fails and changes nothing more.
- Endpoints that answer one select as stored (lists of requests, providers, channels, known assets; a single
  council) and the cached totals of a channel, which no decision reads.
- Waitlist posts without a wallet, which always insert, and the notification that nobody awaits.

Cryptography, XDR decoding and the validation of request bodies are abstracted. The on-chain part of an escrow
release is a TODO in the code. The isolation level is Postgres's default, read committed, and every statement is
atomic.
