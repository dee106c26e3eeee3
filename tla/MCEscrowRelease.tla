-------------------------- MODULE MCEscrowRelease --------------------------
(* Escrows of one recipient with small constants.                          *)
EXTENDS EscrowRelease, TLC

EscrowSymmetry == Permutations(Handlers) \cup Permutations(Channels) \cup Permutations(Councils)
=============================================================================
