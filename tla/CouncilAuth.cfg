\* Two wallets, two verifications at a time, a limit that is reached, a crash.
\* The clock and the nonces are bounded, so that the runs of the model end.
SPECIFICATION Spec
CONSTANTS
  Wallets = {a, b}
  Nobody = Nobody
  Nonces = {n1, n2, n3}
  Requests = {r1, r2}
  MaxPending = 2
  ChallengeTtl = 1
  SessionTtl = 1
  MaxClock = 3
  MaxCrashes = 1
SYMMETRY AuthSymmetry
INVARIANTS AuthTypeOK TokenIsSound OneTokenPerChallenge
PROPERTIES FreshStays RefusedOnlyWhenFull SessionsEndOnce
CHECK_DEADLOCK FALSE
