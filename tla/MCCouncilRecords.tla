-------------------------- MODULE MCCouncilRecords --------------------------
(* Two HTTP requests on the records of one council, small constants.       *)
EXTENDS CouncilRecords, TLC

RecordsSymmetry == Permutations(Handlers) \cup Permutations(Fields)
=============================================================================
