------------------------------ MODULE NetViewMC -----------------------------
(* NetView for TLC.  No definition tells one module from another.            *)
EXTENDS NetView, TLC

Symmetry == Permutations(Modules)

=============================================================================
