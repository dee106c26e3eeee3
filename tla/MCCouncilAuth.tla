--------------------------- MODULE MCCouncilAuth ---------------------------
(* Wallet sign-in with small constants.                                    *)
EXTENDS CouncilAuth, TLC

AuthSymmetry ==
  Permutations(Wallets) \cup Permutations(Nonces) \cup Permutations(Requests)
=============================================================================
