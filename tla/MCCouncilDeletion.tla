------------------------- MODULE MCCouncilDeletion -------------------------
(* Deletion of a council beside its reviews and its watcher, small constants. *)
EXTENDS CouncilDeletion, TLC

DeletionSymmetry == Permutations(Handlers) \cup Permutations(JoinRequests)
=============================================================================
