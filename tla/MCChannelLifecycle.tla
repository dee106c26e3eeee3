------------------------- MODULE MCChannelLifecycle -------------------------
(* The channel endpoints and the watcher with small constants.             *)
EXTENDS ChannelLifecycle, TLC

RequestSymmetry == Permutations(Requests)
=============================================================================
