------------------------- MODULE MCSessionLifecycle -------------------------
(* SessionLifecycle on a small instance: model values for the processes.     *)
EXTENDS SessionLifecycle, TLC

CONSTANTS d1, d2, app, quit, tool

Symmetry == Permutations(Daemons)

=============================================================================
