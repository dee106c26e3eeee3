------------------------- MODULE CouncilAuth_proofs -------------------------
(***************************************************************************)
(* Theorems about wallet sign-in, for any number of wallets, challenges,   *)
(* concurrent verifications and restarts, and any limit and lifetimes.     *)
(***************************************************************************)
EXTENDS CouncilAuth, FiniteSetTheorems, TLAPS

HashingState == [at : {"hashing"}, nonce : Nonces, wallet : Wallets, valid : BOOLEAN]
IssuingState == [at : {"issuing"}, nonce : Nonces, wallet : Wallets]
SavingState  == [at : {"saving"}, token : Token]

\* The phase of a verification says what it carries.
LEMMA StatesByPhase ==
  ASSUME NEW s \in RequestState
  PROVE  /\ s.at = "hashing" => s \in HashingState
         /\ s.at = "issuing" => s \in IssuingState
         /\ s.at = "saving" => s \in SavingState
         /\ s.at \in {"resting", "hashing", "issuing", "saving"}
         /\ s.at = "resting" <=> s = Resting
  BY DEF RequestState, Resting, HashingState, IssuingState, SavingState

\* A challenge that is held belongs to a wallet.
LEMMA HeldIsChallenge ==
  ASSUME NEW map \in [Nonces -> Challenge \cup {NoChallenge}], NEW n \in Nonces
  PROVE  /\ n \in Held(map) <=> map[n] # NoChallenge
         /\ n \in Held(map) <=> map[n].wallet \in Wallets
         /\ n \in Held(map) => map[n] \in Challenge
  BY NoncesAssumption DEF Held, Challenge, NoChallenge

\* Sweeping keeps what has not expired, as it is, and nothing else.
LEMMA SweptKeepsFresh ==
  ASSUME pending \in [Nonces -> Challenge \cup {NoChallenge}]
  PROVE  /\ Swept \in [Nonces -> Challenge \cup {NoChallenge}]
         /\ Held(Swept) = Fresh
         /\ Fresh \subseteq Held(pending)
         /\ \A n \in Fresh : Swept[n] = pending[n]
  BY DEF Swept, Held, Fresh

-----------------------------------------------------------------------------
(* Types.                                                                  *)

\* All of the type invariant but the limit of the map.
AuthShape ==
  /\ clock \in Nat /\ configured \in BOOLEAN
  /\ pending \in [Nonces -> Challenge \cup {NoChallenge}]
  /\ request \in [Requests -> RequestState]
  /\ secret \in Nat
  /\ users \subseteq Wallets /\ tokens \subseteq Token
  /\ asked \in [Nonces -> Wallets \cup {Nobody}]
  /\ signings \in [Nonces -> Nat]
  /\ overlapped \subseteq Nonces
  /\ refused \in BOOLEAN /\ crashes \in Nat

LEMMA ShapeOfType == AuthTypeOK => AuthShape
  BY DEF AuthTypeOK, AuthShape

LEMMA AuthTypeInit == Init => AuthTypeOK
<1> SUFFICES ASSUME Init
             PROVE  AuthTypeOK
  OBVIOUS
<1>1. Held(pending) = {}
  BY DEF Init, Held
<1>2. Cardinality(Held(pending)) <= MaxPending
  BY <1>1, FS_EmptySet, AuthAssumption
<1>3. Resting \in RequestState
  BY DEF RequestState
<1> QED
  BY <1>2, <1>3 DEF Init, AuthTypeOK

LEMMA VerifyStepShape ==
  ASSUME AuthShape, NEW r \in Requests, VerifyStep(r)
  PROVE  AuthShape'
<1> USE DEF AuthShape, Moves, Ends, durable, history
<1>0. Resting \in RequestState
  BY DEF RequestState
<1>a. \A n \in Nonces : Withdrawn(n) \in [Nonces -> Challenge \cup {NoChallenge}]
  BY DEF Withdrawn
<1>1. ASSUME NEW n \in Nonces, NEW w \in Wallets, NEW valid \in BOOLEAN,
             BeginVerify(r, n, w, valid)
      PROVE  AuthShape'
  <2>1. [at |-> "hashing", nonce |-> n, wallet |-> w, valid |-> valid] \in RequestState
    BY DEF RequestState
  <2> QED
    BY <1>1, <2>1 DEF BeginVerify, AfterLookup
<1>2. CASE ConsumeChallenge(r)
  <2>1. request[r] \in HashingState
    BY <1>2, StatesByPhase DEF ConsumeChallenge
  <2>2. request[r].nonce \in Nonces /\ request[r].wallet \in Wallets
    BY <2>1 DEF HashingState
  <2>3. [at |-> "issuing", nonce |-> request[r].nonce, wallet |-> request[r].wallet]
          \in RequestState
    BY <2>2 DEF RequestState
  <2> QED
    BY <1>2, <1>a, <2>2, <2>3 DEF ConsumeChallenge, Consumed
<1>3. CASE RejectSignature(r)
  BY <1>0, <1>3 DEF RejectSignature
<1>4. CASE GenerateToken(r)
  <2>1. request[r] \in IssuingState
    BY <1>4, StatesByPhase DEF GenerateToken
  <2>2. request[r].nonce \in Nonces /\ request[r].wallet \in Wallets
    BY <2>1 DEF IssuingState
  <2>3. SignedToken(request[r].nonce, request[r].wallet) \in Token
    BY <2>2, AuthAssumption DEF SignedToken, Token
  <2>4. [at |-> "saving", token |-> SignedToken(request[r].nonce, request[r].wallet)]
          \in RequestState
    BY <2>3 DEF RequestState
  <2> QED
    BY <1>4, <2>2, <2>4 DEF GenerateToken
<1>5. CASE AnswerToken(r)
  <2>1. request[r] \in SavingState
    BY <1>5, StatesByPhase DEF AnswerToken
  <2>2. request[r].token \in Token /\ request[r].token.sub \in Wallets
    BY <2>1 DEF SavingState, Token
  <2> QED
    BY <1>0, <1>5, <2>2 DEF AnswerToken, FoundOrCreated
<1>6. CASE VerifyFails(r)
  BY <1>0, <1>6 DEF VerifyFails
<1> QED
  BY <1>1, <1>2, <1>3, <1>4, <1>5, <1>6 DEF VerifyStep

LEMMA AuthShapeNext == AuthShape /\ Next => AuthShape'
<1> SUFFICES ASSUME AuthShape, Next
             PROVE  AuthShape'
  OBVIOUS
<1>1. CASE Tick
  BY <1>1 DEF AuthShape, Tick, memory, durable, history
<1>2. ASSUME NEW w \in Wallets, CreateChallenge(w)
      PROVE  AuthShape'
  <2>1. Swept \in [Nonces -> Challenge \cup {NoChallenge}]
    BY SweptKeepsFresh DEF AuthShape
  <2>2. [wallet |-> w, createdAt |-> clock] \in Challenge
    BY DEF AuthShape, Challenge
  <2> HIDE DEF Swept
  <2> QED
    BY <1>2, <2>1, <2>2 DEF AuthShape, CreateChallenge, durable
<1>3. ASSUME NEW n \in Nonces, DropExpired(n)
      PROVE  AuthShape'
  BY <1>3 DEF AuthShape, DropExpired, Withdrawn, durable, history
<1>4. ASSUME NEW r \in Requests, VerifyStep(r)
      PROVE  AuthShape'
  BY <1>4, VerifyStepShape
<1>5. CASE Crash
  <2>1. Resting \in RequestState
    BY DEF RequestState
  <2>2. SecretAfterRestart \in Nat
    BY DEF AuthShape, SecretAfterRestart
  <2> QED
    BY <1>5, <2>1, <2>2 DEF AuthShape, Crash, durable
<1> QED
  BY <1>1, <1>2, <1>3, <1>4, <1>5 DEF Next

\* What is held after a step was held before, but for one challenge that a
\* creation added below the limit.
LEMMA LimitKept == AuthTypeOK /\ Next => Cardinality(Held(pending'))  <= MaxPending
<1> SUFFICES ASSUME AuthTypeOK, Next
             PROVE  Cardinality(Held(pending')) <= MaxPending
  OBVIOUS
<1>1. IsFiniteSet(Held(pending)) /\ Cardinality(Held(pending)) \in Nat
  BY NoncesAssumption, FS_Subset, FS_CardinalityType DEF Held
<1>2. ASSUME Held(pending') \subseteq Held(pending)
      PROVE  Cardinality(Held(pending')) <= MaxPending
  <2>1. /\ Cardinality(Held(pending')) <= Cardinality(Held(pending))
        /\ IsFiniteSet(Held(pending'))
    BY <1>1, <1>2, FS_Subset
  <2>2. Cardinality(Held(pending')) \in Nat
    BY <2>1, FS_CardinalityType
  <2>3. Cardinality(Held(pending)) <= MaxPending
    BY DEF AuthTypeOK
  <2> QED
    BY <1>1, <2>1, <2>2, <2>3, AuthAssumption
<1>3. ASSUME NEW n, Withdrawn(n) = pending'
      PROVE  Held(pending') \subseteq Held(pending)
  BY <1>3 DEF Held, Withdrawn, AuthTypeOK
<1>4. ASSUME NEW w \in Wallets, CreateChallenge(w)
      PROVE  Cardinality(Held(pending')) <= MaxPending
  <2>1. Held(Swept) = Fresh /\ Fresh \subseteq Held(pending)
        /\ Swept \in [Nonces -> Challenge \cup {NoChallenge}]
    BY SweptKeepsFresh DEF AuthTypeOK
  <2>2. CASE pending' = Swept
    BY <1>2, <2>1, <2>2
  <2>3. CASE /\ ~Full(Swept)
             /\ \E n \in Nonces :
                  pending' = [Swept EXCEPT ![n] = [wallet |-> w, createdAt |-> clock]]
    <3>1. PICK n \in Nonces :
            pending' = [Swept EXCEPT ![n] = [wallet |-> w, createdAt |-> clock]]
      BY <2>3
    <3>2. Held(pending') \subseteq Held(Swept) \cup {n}
      BY <2>1, <3>1 DEF Held
    <3>3. IsFiniteSet(Held(Swept)) /\ Cardinality(Held(Swept)) \in Nat
      BY <1>1, <2>1, FS_Subset, FS_CardinalityType
    <3>4. Cardinality(Held(Swept)) + 1 <= MaxPending
      BY <2>3, <3>3, AuthAssumption DEF Full
    <3>5. /\ IsFiniteSet(Held(Swept) \cup {n})
          /\ Cardinality(Held(Swept) \cup {n}) <= Cardinality(Held(Swept)) + 1
          /\ Cardinality(Held(Swept) \cup {n}) \in Nat
      <4> DEFINE S == Held(Swept)
      <4>1. /\ IsFiniteSet(S \cup {n})
            /\ Cardinality(S \cup {n}) = IF n \in S THEN Cardinality(S)
                                                   ELSE Cardinality(S) + 1
        BY <3>3, FS_AddElement
      <4> HIDE DEF S
      <4>2. Cardinality(S) \in Nat
        BY <3>3 DEF S
      <4>3. Cardinality(S \cup {n}) \in Nat /\ Cardinality(S \cup {n}) <= Cardinality(S) + 1
        BY <4>1, <4>2
      <4> QED
        BY <4>1, <4>3 DEF S
    <3>6. /\ Cardinality(Held(pending')) <= Cardinality(Held(Swept) \cup {n})
          /\ IsFiniteSet(Held(pending'))
      BY <3>2, <3>5, FS_Subset
    <3>7. Cardinality(Held(pending')) \in Nat
      BY <3>6, FS_CardinalityType
    <3> QED
      BY <3>3, <3>4, <3>5, <3>6, <3>7, AuthAssumption
  <2> QED
    BY <1>4, <2>2, <2>3 DEF CreateChallenge
<1>5. ASSUME NEW r \in Requests, VerifyStep(r)
      PROVE  Held(pending') \subseteq Held(pending)
  <2>1. pending' = pending \/ \E n : Withdrawn(n) = pending'
    BY <1>5 DEF VerifyStep, BeginVerify, ConsumeChallenge, RejectSignature, GenerateToken,
                AnswerToken, VerifyFails, AfterLookup, Consumed
  <2> QED
    BY <1>3, <2>1
<1>6. CASE Tick
  BY <1>2, <1>6 DEF Tick, memory
<1>7. ASSUME NEW n \in Nonces, DropExpired(n)
      PROVE  Held(pending') \subseteq Held(pending)
  BY <1>3, <1>7 DEF DropExpired
<1>8. CASE Crash
  BY <1>2, <1>8 DEF Crash, Held
<1> QED
  BY <1>2, <1>4, <1>5, <1>6, <1>7, <1>8 DEF Next

LEMMA AuthTypeNext == AuthTypeOK /\ [Next]_vars => AuthTypeOK'
<1> SUFFICES ASSUME AuthTypeOK, [Next]_vars
             PROVE  AuthTypeOK'
  OBVIOUS
<1>1. CASE Next
  <2>1. AuthShape'
    BY <1>1, ShapeOfType, AuthShapeNext
  <2>2. Cardinality(Held(pending')) <= MaxPending
    BY <1>1, LimitKept
  <2> QED
    BY <2>1, <2>2 DEF AuthShape, AuthTypeOK, Held
<1>2. CASE UNCHANGED vars
  BY <1>2 DEF AuthTypeOK, vars, memory, durable, history, Held
<1> QED
  BY <1>1, <1>2

\* The state of challenges, verifications, tokens and users keeps its types,
\* and the map of challenges its limit, whatever requests overlap, whenever
\* the process restarts (createCouncilChallenge; verifyCouncilChallenge).
THEOREM AuthTypeCorrect == Spec => []AuthTypeOK
  BY AuthTypeInit, AuthTypeNext, PTL DEF Spec

-----------------------------------------------------------------------------
(* Whose tokens they are.                                                  *)

\* What a verification carries is of the wallet that asked for it; no secret is
\* newer than the process's.
Sound(s, owner, newest) ==
  /\ s.at \in {"hashing", "issuing"} => owner[s.nonce] = s.wallet
  /\ s.at = "saving" =>
       owner[s.token.session] = s.token.sub /\ s.token.secret <= newest

AskedInv ==
  /\ \A n \in Held(pending) : asked[n] = pending[n].wallet
  /\ \A r \in Requests : Sound(request[r], asked, secret)
  /\ \A t \in tokens : asked[t.session] = t.sub /\ t.sub \in users /\ t.secret <= secret

\* A nonce keeps the wallet it was created for.
LEMMA AskedStays ==
  ASSUME AuthTypeOK, [Next]_vars, NEW n \in Nonces, asked[n] \in Wallets
  PROVE  asked'[n] = asked[n]
<1>1. ASSUME NEW w \in Wallets, CreateChallenge(w)
      PROVE  asked'[n] = asked[n]
  BY <1>1, NoncesAssumption DEF CreateChallenge, AuthTypeOK
<1>2. CASE asked' = asked
  BY <1>2
<1>3. (\E w \in Wallets : CreateChallenge(w)) \/ asked' = asked
  BY DEF Next, vars, Tick, DropExpired, VerifyStep, BeginVerify, ConsumeChallenge,
         RejectSignature, GenerateToken, AnswerToken, VerifyFails, Crash, history
<1> QED
  BY <1>1, <1>2, <1>3

\* Secrets are only ever replaced by newer ones.
LEMMA SecretsAge ==
  ASSUME AuthTypeOK, [Next]_vars
  PROVE  /\ secret' \in Nat /\ secret <= secret'
         /\ secret' # secret => ~configured /\ crashes' = crashes + 1
<1>1. secret' = secret \/ Crash
  BY DEF Next, vars, Tick, CreateChallenge, DropExpired, VerifyStep, BeginVerify,
         ConsumeChallenge, RejectSignature, GenerateToken, AnswerToken, VerifyFails, memory
<1>2. secret \in Nat
  BY DEF AuthTypeOK
<1> QED
  BY <1>1, <1>2 DEF Crash, SecretAfterRestart

\* What was sound stays so.
LEMMA SoundStays ==
  ASSUME AuthTypeOK, [Next]_vars, NEW s \in Requests, Sound(request[s], asked, secret)
  PROVE  Sound(request[s], asked', secret')
<1> DEFINE q == request[s]
<1>0. q \in RequestState /\ Sound(q, asked, secret)
  BY DEF AuthTypeOK
<1> HIDE DEF q
<1>1. ASSUME q.at \in {"hashing", "issuing"}
      PROVE  asked'[q.nonce] = q.wallet
  <2>1. q.nonce \in Nonces /\ q.wallet \in Wallets
    BY <1>0, <1>1, StatesByPhase DEF HashingState, IssuingState
  <2> QED
    BY <1>0, <1>1, <2>1, AskedStays DEF Sound
<1>2. ASSUME q.at = "saving"
      PROVE  asked'[q.token.session] = q.token.sub /\ q.token.secret <= secret'
  <2>1. /\ q.token.session \in Nonces /\ q.token.sub \in Wallets
        /\ q.token.secret \in Nat /\ secret \in Nat
    BY <1>0, <1>2, StatesByPhase DEF SavingState, Token, AuthTypeOK
  <2>2. asked'[q.token.session] = asked[q.token.session]
    BY <1>0, <1>2, <2>1, AskedStays DEF Sound
  <2>3. q.token.secret <= secret
    BY <1>0, <1>2 DEF Sound
  <2> QED
    BY <1>0, <1>2, <2>1, <2>2, <2>3, SecretsAge DEF Sound
<1> QED
  BY <1>1, <1>2 DEF Sound, q

\* Each step of a verification leaves it sound, and answers a sound token.
LEMMA VerifyStepSound ==
  ASSUME AuthTypeOK, AskedInv, NEW r \in Requests, VerifyStep(r)
  PROVE  /\ \A s \in Requests : Sound(request'[s], asked', secret')
         /\ \A t \in tokens' \ tokens :
              asked'[t.session] = t.sub /\ t.sub \in users' /\ t.secret <= secret'
<1>0. Next
  BY DEF Next
<1>1. request \in [Requests -> RequestState]
  BY DEF AuthTypeOK
<1>2. ASSUME NEW s \in Requests, s # r
      PROVE  Sound(request'[s], asked', secret')
  <2>1. request'[s] = request[s]
    BY <1>1, <1>2 DEF VerifyStep, BeginVerify, ConsumeChallenge, RejectSignature,
                      GenerateToken, AnswerToken, VerifyFails, Moves, Ends
  <2>2. Sound(request[s], asked', secret')
    BY <1>0, <1>1, SoundStays DEF AskedInv
  <2> QED
    BY <2>1, <2>2 DEF Sound
<1>3. secret' = secret /\ asked' = asked
  BY DEF VerifyStep, BeginVerify, ConsumeChallenge, RejectSignature, GenerateToken,
         AnswerToken, VerifyFails, history
<1>4. /\ Sound(request'[r], asked', secret')
      /\ \A t \in tokens' \ tokens :
           asked'[t.session] = t.sub /\ t.sub \in users' /\ t.secret <= secret'
  <2>0. Sound(request[r], asked, secret)
    BY DEF AskedInv
  <2>1. ASSUME NEW n \in Nonces, NEW w \in Wallets, NEW valid \in BOOLEAN,
               BeginVerify(r, n, w, valid)
        PROVE  <1>4!1 /\ tokens' = tokens
    BY <1>1, <1>3, <2>1 DEF BeginVerify, Matches, AskedInv, Moves, Sound, durable
  <2>2. ASSUME ConsumeChallenge(r)
        PROVE  <1>4!1 /\ tokens' = tokens
    BY <1>1, <1>3, <2>0, <2>2 DEF ConsumeChallenge, Moves, Sound, durable
  <2>3. ASSUME RejectSignature(r) \/ VerifyFails(r)
        PROVE  <1>4!1 /\ tokens' = tokens
    BY <1>1, <2>3 DEF RejectSignature, VerifyFails, Moves, Ends, Resting, Sound, durable
  <2>4. ASSUME GenerateToken(r)
        PROVE  <1>4!1 /\ tokens' = tokens
    BY <1>1, <1>3, <2>0, <2>4 DEF GenerateToken, Moves, Sound, SignedToken, durable, AuthTypeOK
  <2>5. CASE AnswerToken(r)
    <3>1. Sound(request'[r], asked', secret')
      BY <1>1, <2>5 DEF AnswerToken, Moves, Ends, Resting, Sound
    <3>2. tokens' = tokens \cup {request[r].token} /\ request[r].token.sub \in users'
      BY <2>5 DEF AnswerToken, FoundOrCreated
    <3>3. /\ asked[request[r].token.session] = request[r].token.sub
          /\ request[r].token.secret <= secret
      BY <2>0, <2>5 DEF AnswerToken, Sound
    <3> QED
      BY <1>3, <3>1, <3>2, <3>3
  <2> QED
    BY <2>1, <2>2, <2>3, <2>4, <2>5 DEF VerifyStep
<1> QED
  BY <1>2, <1>4

LEMMA AskedInvNext == AuthTypeOK /\ AskedInv /\ [Next]_vars => AskedInv'
<1> SUFFICES ASSUME AuthTypeOK, AskedInv, [Next]_vars
             PROVE  AskedInv'
  OBVIOUS
<1>1. ASSUME NEW n \in Held(pending)'
      PROVE  asked'[n] = pending'[n].wallet
  <2>1. n \in Nonces /\ pending' \in [Nonces -> Challenge \cup {NoChallenge}]
    BY AuthTypeNext DEF Held, AuthTypeOK
  <2>2. CASE n \in Held(pending) /\ pending'[n] = pending[n]
    <3>1. asked[n] = pending[n].wallet /\ asked[n] \in Wallets
      BY <2>1, <2>2, HeldIsChallenge DEF AskedInv, AuthTypeOK
    <3> QED
      BY <2>1, <2>2, <3>1, AskedStays
  <2>3. CASE \E w \in Wallets : asked'[n] = w /\ pending'[n] = [wallet |-> w, createdAt |-> clock]
    BY <2>3
  <2>4. <2>2!1 \/ <2>3!1
    <3>1. ASSUME NEW w \in Wallets, CreateChallenge(w)
          PROVE  <2>2!1 \/ <2>3!1
      <4>1. Held(Swept) = Fresh /\ Fresh \subseteq Held(pending)
            /\ Swept \in [Nonces -> Challenge \cup {NoChallenge}]
            /\ \A m \in Fresh : Swept[m] = pending[m]
        BY SweptKeepsFresh DEF AuthTypeOK
      <4>2. CASE pending' = Swept
        BY <4>1, <4>2 DEF Held
      <4>3. ASSUME NEW m \in Nonces,
                   asked' = [asked EXCEPT ![m] = w],
                   pending' = [Swept EXCEPT ![m] = [wallet |-> w, createdAt |-> clock]]
            PROVE  <2>2!1 \/ <2>3!1
        <5>1. CASE n = m
          BY <2>1, <4>1, <4>3, <5>1 DEF AuthTypeOK
        <5>2. CASE n # m
          <6>1. pending'[n] = Swept[n]
            BY <2>1, <4>1, <4>3, <5>2
          <6>2. n \in Fresh
            BY <4>1, <6>1 DEF Held
          <6> QED
            BY <4>1, <6>1, <6>2
        <5> QED
          BY <5>1, <5>2
      <4> QED
        BY <3>1, <4>2, <4>3 DEF CreateChallenge
    <3>2. ASSUME NEW m, pending' = Withdrawn(m)
          PROVE  <2>2!1
      BY <2>1, <3>2 DEF Withdrawn, Held, AuthTypeOK
    <3>3. CASE pending' = pending
      BY <2>1, <3>3 DEF Held
    <3>4. CASE Crash
      BY <2>1, <3>4 DEF Crash, Held
    <3>5. \/ \E w \in Wallets : CreateChallenge(w)
          \/ \E m : pending' = Withdrawn(m)
          \/ pending' = pending
          \/ Crash
      BY DEF Next, vars, memory, Tick, DropExpired, VerifyStep, BeginVerify, ConsumeChallenge,
             RejectSignature, GenerateToken, AnswerToken, VerifyFails, AfterLookup, Consumed
    <3> QED
      BY <3>1, <3>2, <3>3, <3>4, <3>5
  <2> QED
    BY <2>2, <2>3, <2>4
<1>2. /\ users \subseteq users'
      /\ \A s \in Requests : Sound(request'[s], asked', secret')
      /\ \A t \in tokens' \ tokens :
           asked'[t.session] = t.sub /\ t.sub \in users' /\ t.secret <= secret'
  <2>1. ASSUME NEW r \in Requests, VerifyStep(r)
        PROVE  <1>2
    <3>1. users \subseteq users'
      BY <2>1 DEF VerifyStep, BeginVerify, ConsumeChallenge, RejectSignature, GenerateToken,
                  AnswerToken, VerifyFails, durable, FoundOrCreated
    <3> QED
      BY <2>1, <3>1, VerifyStepSound
  <2>2. CASE tokens' = tokens /\ users' = users /\ request' = request
    <3>1. ASSUME NEW s \in Requests
          PROVE  Sound(request'[s], asked', secret')
      <4>1. Sound(request[s], asked', secret')
        BY SoundStays DEF AskedInv, AuthTypeOK
      <4> QED
        BY <2>2, <4>1 DEF Sound
    <3> QED
      BY <2>2, <3>1
  <2>3. CASE Crash
    BY <2>3 DEF Crash, durable, Resting, Sound
  <2>4. \/ \E r \in Requests : VerifyStep(r)
        \/ tokens' = tokens /\ users' = users /\ request' = request
        \/ Crash
    BY DEF Next, vars, memory, durable, Tick, CreateChallenge, DropExpired
  <2> QED
    BY <2>1, <2>2, <2>3, <2>4
<1>3. ASSUME NEW t \in tokens'
      PROVE  asked'[t.session] = t.sub /\ t.sub \in users' /\ t.secret <= secret'
  <2>1. CASE t \in tokens /\ users \subseteq users'
    <3>1. t \in Token /\ secret \in Nat
      BY <2>1 DEF AuthTypeOK
    <3>2. t.session \in Nonces /\ t.sub \in Wallets /\ t.secret \in Nat
      BY <3>1 DEF Token
    <3>3. asked[t.session] = t.sub /\ t.sub \in users /\ t.secret <= secret
      BY <2>1 DEF AskedInv
    <3> QED
      BY <2>1, <3>1, <3>2, <3>3, AskedStays, SecretsAge
  <2> QED
    BY <1>2, <2>1
<1> QED
  BY <1>1, <1>2, <1>3 DEF AskedInv

LEMMA AskedInvInit == Init => AskedInv
  BY DEF Init, AskedInv, Held, Resting, Sound

LEMMA AlwaysAsked == Spec => [](AuthTypeOK /\ AskedInv)
  BY AuthTypeInit, AuthTypeNext, AskedInvInit, AskedInvNext, PTL DEF Spec

\* Every token that is answered is of the wallet its challenge was created for,
\* for any interleaving of verifications (verifyCouncilChallenge).
THEOREM TokensAreSound == Spec => []TokenIsSound
<1>1. AskedInv => TokenIsSound
  BY DEF AskedInv, TokenIsSound
<1> QED
  BY <1>1, AlwaysAsked, PTL

-----------------------------------------------------------------------------
(* One token for a challenge.                                              *)

Carries(r, n) == request[r].at \in {"hashing", "issuing"} /\ request[r].nonce = n

\* A challenge that two verifications never had in hand together has at most one
\* at work; while it is held, or one is at work, nothing was signed for it.
Once(n) ==
  /\ asked[n] = Nobody => signings[n] = 0
  /\ n \notin overlapped =>
       /\ signings[n] <= 1
       /\ n \in Held(pending) => signings[n] = 0
       /\ \A r \in Requests : Carries(r, n) =>
            /\ signings[n] = 0
            /\ \A s \in Requests : Carries(s, n) => s = r
            /\ n \in Held(pending) => request[r].at = "hashing"

\* A creation holds only a nonce that nobody had.
LEMMA CreateKeepsOnce ==
  ASSUME AuthTypeOK, AskedInv, NEW w \in Wallets, CreateChallenge(w),
         NEW n \in Nonces, Once(n)
  PROVE  Once(n)'
<1>1. UNCHANGED <<request, signings, overlapped>>
  BY DEF CreateChallenge
<1>2. Held(Swept) = Fresh /\ Fresh \subseteq Held(pending)
  BY SweptKeepsFresh DEF AuthTypeOK
<1>3. CASE n \in Held(pending') => n \in Held(pending)
  <2>1. asked'[n] = Nobody => asked[n] = Nobody
    BY NoncesAssumption DEF CreateChallenge, AuthTypeOK
  <2> QED
    BY <1>1, <1>3, <2>1 DEF Once, Carries, Held
<1>4. CASE n \in Held(pending') /\ n \notin Held(pending)
  <2>1. asked[n] = Nobody /\ asked'[n] = w
    BY <1>2, <1>4, SweptKeepsFresh DEF CreateChallenge, Held, AuthTypeOK
  <2>2. ASSUME NEW r \in Requests
        PROVE  ~Carries(r, n)
    <3>1. request[r] \in RequestState
      BY DEF AuthTypeOK
    <3>2. Carries(r, n) => request[r].wallet \in Wallets /\ asked[n] = request[r].wallet
      BY <3>1, StatesByPhase DEF Carries, AskedInv, Sound, HashingState, IssuingState
    <3> QED
      BY <2>1, <3>2, NoncesAssumption
  <2> QED
    BY <1>1, <2>1, <2>2, NoncesAssumption DEF Once, Carries
<1> QED
  BY <1>3, <1>4

\* A step of a verification keeps it.
LEMMA VerifyKeepsOnce ==
  ASSUME AuthTypeOK, AskedInv, NEW r \in Requests, VerifyStep(r),
         NEW n \in Nonces, Once(n)
  PROVE  Once(n)'
<1>1. /\ request \in [Requests -> RequestState] /\ request[r] \in RequestState
      /\ signings \in [Nonces -> Nat]
  BY DEF AuthTypeOK
<1>2. asked' = asked
  BY DEF VerifyStep, BeginVerify, ConsumeChallenge, RejectSignature, GenerateToken,
         AnswerToken, VerifyFails, history
<1>3. \A s \in Requests : s # r => request'[s] = request[s]
  BY <1>1 DEF VerifyStep, BeginVerify, ConsumeChallenge, RejectSignature,
              GenerateToken, AnswerToken, VerifyFails, Moves, Ends
<1>4. ASSUME NEW m \in Nonces, NEW w \in Wallets, NEW valid \in BOOLEAN,
             BeginVerify(r, m, w, valid)
      PROVE  Once(n)'
  <2>1. /\ request'[r] = [at |-> "hashing", nonce |-> m, wallet |-> w, valid |-> valid]
        /\ pending' = pending /\ signings' = signings
        /\ m \in Held(pending) /\ request[r].at = "resting"
    BY <1>1, <1>4 DEF BeginVerify, Moves, AfterLookup, Matches, Resting
  <2>2. CASE m # n
    <3>1. n \in overlapped' <=> n \in overlapped
      BY <1>4, <2>2 DEF BeginVerify
    <3>2. \A s \in Requests : Carries(s, n)' => s # r /\ Carries(s, n)
      BY <1>3, <2>1, <2>2 DEF Carries
    <3> QED
      BY <1>2, <1>3, <2>1, <3>1, <3>2 DEF Once, Carries
  <2>3. CASE m = n /\ n \notin overlapped'
    <3>1. n \notin overlapped /\ InHand(n) = {}
      BY <1>4, <2>3 DEF BeginVerify
    <3>2. \A s \in Requests : ~Carries(s, n)
      BY <2>1, <2>3, <3>1 DEF Once, Carries, InHand
    <3>3. \A s \in Requests : Carries(s, n)' => s = r
      BY <1>3, <3>2 DEF Carries
    <3> QED
      BY <1>2, <2>1, <2>3, <3>1, <3>3 DEF Once, Carries
  <2>4. CASE n \in overlapped'
    BY <1>2, <2>1, <2>4 DEF Once
  <2> QED
    BY <2>2, <2>3, <2>4
<1>5. CASE ConsumeChallenge(r)
  <2>1. /\ request[r].at = "hashing" /\ request'[r].at = "issuing"
        /\ request'[r].nonce = request[r].nonce
        /\ signings' = signings /\ overlapped' = overlapped
        /\ pending' = Withdrawn(request[r].nonce)
    BY <1>1, <1>5 DEF ConsumeChallenge, Moves, Consumed, history
  <2>2. \A s \in Requests : Carries(s, n)' <=> Carries(s, n)
    BY <1>3, <2>1 DEF Carries
  <2>3. n \in Held(pending') => n \in Held(pending) /\ request[r].nonce # n
    BY <2>1 DEF Withdrawn, Held, AuthTypeOK
  <2>4. \A s \in Requests : Carries(s, n) /\ request[r].nonce # n => s # r
    BY DEF Carries
  <2> QED
    BY <1>2, <1>3, <2>1, <2>2, <2>3, <2>4 DEF Once, Held
<1>6. ASSUME RejectSignature(r) \/ AnswerToken(r) \/ VerifyFails(r)
      PROVE  Once(n)'
  <2>1. /\ request'[r] = Resting
        /\ signings' = signings /\ overlapped' = overlapped /\ pending' = pending
    BY <1>1, <1>6 DEF RejectSignature, AnswerToken, VerifyFails, Moves, Ends, history
  <2>2. \A s \in Requests : Carries(s, n)' => s # r /\ Carries(s, n)
    BY <1>3, <2>1 DEF Carries, Resting
  <2> QED
    BY <1>2, <1>3, <2>1, <2>2 DEF Once
<1>7. CASE GenerateToken(r)
  <2> DEFINE m == request[r].nonce
  <2>1. /\ request[r].at = "issuing" /\ m \in Nonces /\ request[r].wallet \in Wallets
        /\ asked[m] = request[r].wallet
    BY <1>1, <1>7, StatesByPhase DEF GenerateToken, IssuingState, AskedInv, Sound
  <2>2. /\ request'[r].at = "saving" /\ overlapped' = overlapped /\ pending' = pending
        /\ signings' = [signings EXCEPT ![m] = @ + 1]
    BY <1>1, <1>7 DEF GenerateToken, Moves
  <2>3. \A s \in Requests : Carries(s, n)' => s # r /\ Carries(s, n)
    BY <1>3, <2>2 DEF Carries
  <2>4. CASE m # n
    BY <1>1, <1>2, <1>3, <2>2, <2>3, <2>4 DEF Once
  <2>5. CASE m = n
    <3>1. Carries(r, n) /\ asked'[n] # Nobody
      BY <1>2, <2>1, <2>5, NoncesAssumption DEF Carries
    <3>2. n \notin overlapped => signings'[n] = 1 /\ n \notin Held(pending)
      BY <1>1, <2>1, <2>2, <2>5, <3>1 DEF Once
    <3>3. n \notin overlapped => \A s \in Requests : ~Carries(s, n)'
      BY <2>3, <3>1 DEF Once
    <3> QED
      BY <2>2, <3>1, <3>2, <3>3 DEF Once, Held
  <2> QED
    BY <2>4, <2>5
<1> QED
  BY <1>4, <1>5, <1>6, <1>7 DEF VerifyStep

OnceInv == \A n \in Nonces : Once(n)

LEMMA OnceNext == AuthTypeOK /\ AskedInv /\ OnceInv /\ [Next]_vars => OnceInv'
<1> SUFFICES ASSUME AuthTypeOK, AskedInv, [Next]_vars, NEW n \in Nonces, Once(n)
             PROVE  Once(n)'
  BY DEF OnceInv
<1>1. CASE /\ UNCHANGED <<request, asked, signings, overlapped>>
           /\ pending' = pending \/ \E m : pending' = Withdrawn(m)
  <2>1. n \in Held(pending') => n \in Held(pending)
    BY <1>1 DEF Withdrawn, Held, AuthTypeOK
  <2> QED
    BY <1>1, <2>1 DEF Once, Carries, Held
<1>2. ASSUME NEW w \in Wallets, CreateChallenge(w)
      PROVE  Once(n)'
  BY <1>2, CreateKeepsOnce
<1>3. ASSUME NEW r \in Requests, VerifyStep(r)
      PROVE  Once(n)'
  BY <1>3, VerifyKeepsOnce
<1>4. CASE Crash
  <2>1. n \notin Held(pending')
    BY <1>4 DEF Crash, Held
  <2>2. \A r \in Requests : ~Carries(r, n)'
    BY <1>4 DEF Crash, Carries, Resting
  <2>3. UNCHANGED <<asked, signings, overlapped>>
    BY <1>4 DEF Crash
  <2> QED
    BY <2>1, <2>2, <2>3 DEF Once, Held
<1> QED
  BY <1>1, <1>2, <1>3, <1>4 DEF Next, vars, memory, history, Tick, DropExpired

LEMMA OnceInit == Init => OnceInv
  BY NoncesAssumption DEF Init, OnceInv, Once, Carries, Held, Resting

\* Verifications of a challenge that do not overlap sign at most one token
\* between them, however often it is sent, whatever expires or fails
\* ("one-time use", verifyCouncilChallenge).
THEOREM ChallengesAreUsedOnce == Spec => []OneTokenPerChallenge
<1>1. OnceInv => OneTokenPerChallenge
  BY DEF OnceInv, Once, OneTokenPerChallenge
<1> QED
  BY <1>1, AlwaysAsked, OnceInit, OnceNext, PTL DEF Spec

-----------------------------------------------------------------------------
(* Steps.                                                                  *)

\* A challenge that has not expired is only taken by its own wallet's verified
\* signature, or lost with the process.
THEOREM FreshChallengesStay == Spec => FreshStays
<1> DEFINE Stays == \A n \in Fresh : pending'[n] = NoChallenge =>
              \/ crashes' # crashes
              \/ \E r \in InHand(n) : /\ request[r].valid /\ request[r].wallet = asked[n]
                                       /\ request'[r].at = "issuing"
<1>1. AuthTypeOK /\ AskedInv /\ [Next]_vars => [Stays]_vars
  <2> SUFFICES ASSUME AuthTypeOK, AskedInv, Next, NEW n \in Fresh, pending'[n] = NoChallenge
               PROVE  \/ crashes' # crashes
                      \/ \E r \in InHand(n) : /\ request[r].valid
                                               /\ request[r].wallet = asked[n]
                                               /\ request'[r].at = "issuing"
    OBVIOUS
  <2>1. n \in Nonces /\ pending[n] # NoChallenge /\ ~Expired(n)
    BY DEF Fresh, Held
  <2>2. ASSUME NEW w \in Wallets, CreateChallenge(w)
        PROVE  FALSE
    <3>1. Swept \in [Nonces -> Challenge \cup {NoChallenge}] /\ Swept[n] = pending[n]
      BY SweptKeepsFresh DEF AuthTypeOK
    <3> HIDE DEF Swept
    <3> QED
      BY <2>1, <2>2, <3>1, NoncesAssumption DEF CreateChallenge, NoChallenge
  <2>3. ASSUME NEW m \in Nonces, DropExpired(m)
        PROVE  FALSE
    BY <2>1, <2>3 DEF DropExpired, Withdrawn, AuthTypeOK
  <2>4. ASSUME NEW r \in Requests, VerifyStep(r)
        PROVE  \E q \in InHand(n) : /\ request[q].valid /\ request[q].wallet = asked[n]
                                    /\ request'[q].at = "issuing"
    <3>1. CASE ConsumeChallenge(r)
      <4>1. request[r].nonce = n
        BY <2>1, <3>1 DEF ConsumeChallenge, Consumed, Withdrawn, AuthTypeOK
      <4>2. r \in InHand(n) /\ request[r].valid /\ request'[r].at = "issuing"
        BY <3>1, <4>1 DEF ConsumeChallenge, InHand, Moves, AuthTypeOK
      <4>3. request[r].wallet = asked[n]
        BY <3>1, <4>1 DEF ConsumeChallenge, AskedInv, Sound
      <4> QED
        BY <4>2, <4>3
    <3>2. CASE pending' = pending
      BY <2>1, <3>2
    <3> QED
      BY <2>4, <3>1, <3>2 DEF VerifyStep, BeginVerify, RejectSignature, GenerateToken,
                              AnswerToken, VerifyFails, AfterLookup
  <2>5. CASE Crash
    BY <2>5 DEF Crash, AuthTypeOK
  <2>6. CASE Tick
    BY <2>1, <2>6 DEF Tick, memory
  <2> QED
    BY <2>2, <2>3, <2>4, <2>5, <2>6 DEF Next
<1> QED
  BY <1>1, AlwaysAsked, PTL DEF Spec, FreshStays

\* A wallet is refused a challenge only while live ones fill the map.
THEOREM RefusalsAreDue == Spec => RefusedOnlyWhenFull
<1> DEFINE Due == refused' => refused \/ Cardinality(Fresh) >= MaxPending
<1>1. AuthTypeOK /\ [Next]_vars => [Due]_vars
  <2> SUFFICES ASSUME AuthTypeOK, Next, refused'
               PROVE  refused \/ Cardinality(Fresh) >= MaxPending
    OBVIOUS
  <2>1. CASE refused' = refused
    BY <2>1
  <2>2. ASSUME NEW w \in Wallets, CreateChallenge(w)
        PROVE  Cardinality(Fresh) >= MaxPending
    <3>1. Full(Swept)
      BY <2>2 DEF CreateChallenge
    <3>2. Held(Swept) = Fresh
      BY SweptKeepsFresh DEF AuthTypeOK
    <3> QED
      BY <3>1, <3>2 DEF Full
  <2> QED
    BY <2>1, <2>2 DEF Next, Tick, DropExpired, VerifyStep, BeginVerify, ConsumeChallenge,
                      RejectSignature, GenerateToken, AnswerToken, VerifyFails, Crash, history
<1> QED
  BY <1>1, AuthTypeCorrect, PTL DEF Spec, RefusedOnlyWhenFull

\* A session ends by time, or by a restart without a configured secret, and
\* does not come back.
THEOREM SessionsEnd == Spec => SessionsEndOnce
<1> DEFINE Ending == \A t \in tokens :
              /\ Admitted(t)' => Admitted(t)
              /\ Admitted(t) /\ ~Admitted(t)' =>
                    clock' > t.exp \/ (~configured /\ crashes' # crashes)
<1>1. AuthTypeOK /\ AskedInv /\ [Next]_vars => [Ending]_vars
  <2> SUFFICES ASSUME AuthTypeOK, AskedInv, Next, NEW t \in tokens
               PROVE  /\ Admitted(t)' => Admitted(t)
                      /\ Admitted(t) /\ ~Admitted(t)' =>
                            clock' > t.exp \/ (~configured /\ crashes' # crashes)
    OBVIOUS
  <2>1. /\ t.secret \in Nat /\ t.exp \in Nat /\ t.secret <= secret
        /\ secret \in Nat /\ crashes \in Nat /\ clock \in Nat
    BY DEF AuthTypeOK, AskedInv, Token
  <2>2. clock' = clock \/ clock' = clock + 1
    BY DEF Next, Tick, CreateChallenge, DropExpired, VerifyStep, BeginVerify,
           ConsumeChallenge, RejectSignature, GenerateToken, AnswerToken, VerifyFails, Crash
  <2> QED
    BY <2>1, <2>2, SecretsAge DEF Admitted
<1> QED
  BY <1>1, AlwaysAsked, PTL DEF Spec, SessionsEndOnce
=============================================================================
