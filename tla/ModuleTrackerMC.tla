--------------------------- MODULE ModuleTrackerMC --------------------------
(* ModuleTracker for TLC: names and topics are interchangeable.              *)
EXTENDS ModuleTracker, TLC

Symmetry == Permutations(Names) \cup Permutations(Topics)

=============================================================================
