---------------------------- MODULE CouncilAuth ----------------------------
(***************************************************************************)
(* How a wallet signs in.  It asks for a challenge, which stays in the     *)
(* memory of the process; it sends the signed challenge back; the          *)
(* challenge is consumed, a token is signed, the wallet gets its user row  *)
(* and the token is answered.  Authenticated endpoints admit the token.    *)
(*                                                                         *)
(* A verification looks its challenge up, awaits the hashes of the         *)
(* signature formats, consumes the challenge, awaits the signature of the  *)
(* token and then Postgres: other requests run at each await.  A nonce     *)
(* stands for its 32 random bytes and for the session id hashed from it.   *)
(***************************************************************************)
EXTENDS Integers, FiniteSets

CONSTANTS
  Wallets,        \* public keys
  Nobody,         \* a nonce that nobody was given yet
  Nonces,         \* bound: the challenges ever created
  Requests,       \* verifications in progress at one time
  MaxPending,     \* MAX_PENDING_CHALLENGES
  ChallengeTtl,   \* challengeTtlMs
  SessionTtl,     \* SESSION_TTL
  MaxClock,       \* bound: the last time
  MaxCrashes      \* bound: process exits

ASSUME AuthAssumption ==
  /\ MaxPending \in Nat \ {0}
  /\ ChallengeTtl \in Nat /\ SessionTtl \in Nat
  /\ MaxClock \in Nat /\ MaxCrashes \in Nat
ASSUME NoncesAssumption == Nobody \notin Wallets /\ IsFiniteSet(Nonces)

VARIABLES
  clock,          \* Date.now()
  configured,     \* SERVICE_AUTH_SECRET is set in the environment
  \* The process.
  pending,        \* pendingChallenges
  request,        \* where each verification is
  secret,         \* which secret signs: its number counts the random ones
  \* Postgres and the clients.
  users,          \* wallet_users
  tokens,         \* tokens that were answered
  \* History and bounds.
  asked,          \* which wallet each nonce was created for
  signings,       \* how many tokens were signed for each nonce
  overlapped,     \* nonces that two verifications had in hand at one time
  refused,        \* the challenge asked for last was refused
  crashes

memory  == <<pending, request, secret>>
durable == <<configured, users, tokens>>
history == <<asked, signings, overlapped, refused, crashes>>
vars    == <<clock, memory, durable, history>>

NoChallenge == [wallet |-> Nobody, createdAt |-> 0]
Challenge   == [wallet : Wallets, createdAt : Nat]
Token == [sub : Wallets, session : Nonces, exp : Nat, secret : Nat]

Resting == [at |-> "resting"]
RequestState ==
  {Resting}
    \cup [at : {"hashing"}, nonce : Nonces, wallet : Wallets, valid : BOOLEAN]
    \cup [at : {"issuing"}, nonce : Nonces, wallet : Wallets]
    \cup [at : {"saving"}, token : Token]

Init ==
  /\ clock = 0
  /\ configured \in BOOLEAN
  /\ pending = [n \in Nonces |-> NoChallenge]
  /\ request = [r \in Requests |-> Resting]
  /\ secret = 0
  /\ users = {} /\ tokens = {}
  /\ asked = [n \in Nonces |-> Nobody]
  /\ signings = [n \in Nonces |-> 0]
  /\ overlapped = {} /\ refused = FALSE /\ crashes = 0

Tick ==
  /\ clock < MaxClock
  /\ clock' = clock + 1
  /\ UNCHANGED <<memory, durable, history>>

-----------------------------------------------------------------------------
(* Challenges.                                                             *)

Held(map) == {n \in Nonces : map[n] # NoChallenge}

Expired(n) == clock - pending[n].createdAt > ChallengeTtl

Fresh == {n \in Held(pending) : ~Expired(n)}

\* Mutant: nobody sweeps.
Unswept == pending

\* cleanupExpiredChallenges
Swept == [n \in Nonces |-> IF n \in Fresh THEN pending[n] ELSE NoChallenge]

\* Mutant: the limit is looked at too late.
OneTooMany(map) == Cardinality(Held(map)) > MaxPending

Full(map) == Cardinality(Held(map)) >= MaxPending

\* POST challenge, one turn: sweep, then refuse (429) or add a fresh nonce.
CreateChallenge(w) ==
  /\ \/ /\ Full(Swept)
        /\ pending' = Swept
        /\ refused' = TRUE
        /\ UNCHANGED asked
     \/ /\ ~Full(Swept)
        /\ \E n \in Nonces :
              /\ asked[n] = Nobody
              /\ asked' = [asked EXCEPT ![n] = w]
              /\ pending' = [Swept EXCEPT ![n] = [wallet |-> w, createdAt |-> clock]]
        /\ refused' = FALSE
  /\ UNCHANGED <<clock, request, secret, durable, signings, overlapped, crashes>>

-----------------------------------------------------------------------------
(* Verifications.  The first turn ends without a trace, and is no step,    *)
(* when the challenge is unknown or another wallet's.                      *)

Moves(r, state) == request' = [request EXCEPT ![r] = state]
Ends(r) == Moves(r, Resting)

Withdrawn(n) == [pending EXCEPT ![n] = NoChallenge]

\* An expired challenge is dropped, whoever sends it.
DropExpired(n) ==
  /\ n \in Held(pending) /\ Expired(n)
  /\ pending' = Withdrawn(n)
  /\ UNCHANGED <<clock, request, secret, durable, history>>

InHand(n) == {r \in Requests : request[r].at = "hashing" /\ request[r].nonce = n}

\* Mutant: any wallet may answer.
Anyones(n, w) == n \in Held(pending) /\ ~Expired(n)

\* The challenge is known, not expired, and the wallet's own.
Matches(n, w) == n \in Held(pending) /\ ~Expired(n) /\ pending[n].wallet = w

\* Mutant: a challenge leaves the map with the lookup.
TakenAtLookup(n) == Withdrawn(n)

AfterLookup(n) == pending

\* Up to the first await.  `valid': w signed the nonce in one of the formats.
BeginVerify(r, n, w, valid) ==
  /\ request[r] = Resting
  /\ Matches(n, w)
  /\ Moves(r, [at |-> "hashing", nonce |-> n, wallet |-> w, valid |-> valid])
  /\ pending' = AfterLookup(n)
  /\ overlapped' = IF InHand(n) = {} THEN overlapped ELSE overlapped \cup {n}
  /\ UNCHANGED <<clock, secret, durable, asked, signings, refused, crashes>>

\* Mutant: the challenge stays when it was used.
NotConsumed(n) == pending

Consumed(n) == Withdrawn(n)

\* One of the formats verifies: the challenge is used up, if it is still there.
ConsumeChallenge(r) ==
  /\ request[r].at = "hashing" /\ request[r].valid
  /\ pending' = Consumed(request[r].nonce)
  /\ Moves(r, [at |-> "issuing", nonce |-> request[r].nonce, wallet |-> request[r].wallet])
  /\ UNCHANGED <<clock, secret, durable, history>>

RejectSignature(r) ==
  /\ request[r].at = "hashing" /\ ~request[r].valid
  /\ Ends(r)
  /\ UNCHANGED <<clock, pending, secret, durable, history>>

SignedToken(n, w) == [sub |-> w, session |-> n, exp |-> clock + SessionTtl, secret |-> secret]

GenerateToken(r) ==
  /\ request[r].at = "issuing"
  /\ LET n == request[r].nonce IN
     /\ Moves(r, [at |-> "saving", token |-> SignedToken(n, request[r].wallet)])
     /\ signings' = [signings EXCEPT ![n] = @ + 1]
  /\ UNCHANGED <<clock, pending, secret, durable, asked, overlapped, refused, crashes>>

\* findOrCreate: a concurrent insert of the wallet is not an error, and no row
\* is ever deleted, so that the insert alone decides.
FoundOrCreated(w) == users \cup {w}

AnswerToken(r) ==
  /\ request[r].at = "saving"
  /\ users' = FoundOrCreated(request[r].token.sub)
  /\ tokens' = tokens \cup {request[r].token}
  /\ Ends(r)
  /\ UNCHANGED <<clock, configured, pending, secret, history>>

\* A statement or the signing of the token fails: the challenge is used up and
\* the client is left with an error.
VerifyFails(r) ==
  /\ request[r].at \in {"issuing", "saving"}
  /\ Ends(r)
  /\ UNCHANGED <<clock, pending, secret, durable, history>>

-----------------------------------------------------------------------------
\* Mutant: every process makes a secret of its own.
AlwaysRandom == secret + 1

SecretAfterRestart == IF configured THEN secret ELSE secret + 1

\* The process dies and is started again.
Crash ==
  /\ crashes < MaxCrashes
  /\ crashes' = crashes + 1
  /\ pending' = [n \in Nonces |-> NoChallenge]
  /\ request' = [r \in Requests |-> Resting]
  /\ secret' = SecretAfterRestart
  /\ UNCHANGED <<clock, durable, asked, signings, overlapped, refused>>

\* jwtMiddleware: the signature is this process's and the time has not passed.
Admitted(t) == t.secret = secret /\ clock <= t.exp

VerifyStep(r) ==
  \/ \E n \in Nonces, w \in Wallets, valid \in BOOLEAN : BeginVerify(r, n, w, valid)
  \/ ConsumeChallenge(r) \/ RejectSignature(r)
  \/ GenerateToken(r) \/ AnswerToken(r) \/ VerifyFails(r)

Next ==
  \/ Tick
  \/ \E w \in Wallets : CreateChallenge(w)
  \/ \E n \in Nonces : DropExpired(n)
  \/ \E r \in Requests : VerifyStep(r)
  \/ Crash

Spec == Init /\ [][Next]_vars

-----------------------------------------------------------------------------
(* Properties.                                                             *)

\* Every variable has its type, and the map of challenges keeps its limit.
AuthTypeOK ==
  /\ clock \in Nat /\ configured \in BOOLEAN
  /\ pending \in [Nonces -> Challenge \cup {NoChallenge}]
  /\ request \in [Requests -> RequestState]
  /\ secret \in Nat
  /\ users \subseteq Wallets /\ tokens \subseteq Token
  /\ asked \in [Nonces -> Wallets \cup {Nobody}]
  /\ signings \in [Nonces -> Nat]
  /\ overlapped \subseteq Nonces
  /\ refused \in BOOLEAN /\ crashes \in Nat
  /\ Cardinality(Held(pending)) <= MaxPending

\* A token that was answered is of the wallet its challenge was created for,
\* and that wallet has a user row, whatever other wallets, verifications and
\* restarts came in between (verifyCouncilChallenge; findOrCreate).
TokenIsSound ==
  \A t \in tokens : asked[t.session] = t.sub /\ t.sub \in users

\* "Consume the nonce (one-time use)" (council-auth.ts:127), as far as the
\* code keeps it: verifications of a challenge that do not overlap sign one
\* token between them.
OneTokenPerChallenge ==
  \A n \in Nonces \ overlapped : signings[n] <= 1

\* A challenge that has not expired leaves the map when its own wallet's
\* signature was verified, or with the process: not by a lookup, a bad
\* signature, or a sweep (council-auth.ts:74-75).
FreshStays ==
  [][\A n \in Fresh : pending'[n] = NoChallenge =>
        \/ crashes' # crashes
        \/ \E r \in InHand(n) : /\ request[r].valid /\ request[r].wallet = asked[n]
                                 /\ request'[r].at = "issuing"]_vars

\* A wallet is only turned away while challenges that have not expired fill
\* the map: the next creation makes room for itself once they have, although
\* nothing else sweeps (createCouncilChallenge).
RefusedOnlyWhenFull ==
  [][refused' => refused \/ Cardinality(Fresh) >= MaxPending]_vars

\* A session ends when its time is over, or with the process when no secret is
\* configured, and never comes back ("a random secret would invalidate all
\* JWTs on restart", service-auth-secret.ts).
SessionsEndOnce ==
  [][\A t \in tokens :
        /\ Admitted(t)' => Admitted(t)
        /\ Admitted(t) /\ ~Admitted(t)' =>
              clock' > t.exp \/ (~configured /\ crashes' # crashes)]_vars
=============================================================================
