------------------------- MODULE MCCouncilRegistry -------------------------
(* Councils, users and their handlers with small constants.                *)
EXTENDS CouncilRegistry, TLC

RegistrySymmetry ==
  Permutations(Handlers) \cup Permutations(Admins) \cup Permutations(Providers)
    \cup Permutations(Councils)
=============================================================================
