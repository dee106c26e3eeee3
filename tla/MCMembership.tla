---------------------------- MODULE MCMembership ----------------------------
(* Join requests, reviews and the watcher with small constants.            *)
EXTENDS Membership, TLC

HandlerSymmetry == Permutations(Handlers) \cup Permutations(JoinRequests)
=============================================================================
