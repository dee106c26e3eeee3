--------------------------- MODULE MCEventWatcher ---------------------------
(* The event watcher with small constants.                                 *)
EXTENDS EventWatcher, TLC

WatcherSymmetry == Permutations(Watchers)
=============================================================================
