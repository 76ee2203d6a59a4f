------------------------ MODULE MCPrepareTransaction ------------------------
(* PrepareTransaction on a small instance.                                   *)
EXTENDS PrepareTransaction

CONSTANTS p1, p2, w1, w2, overlay

=============================================================================
