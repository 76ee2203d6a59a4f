--------------------------- MODULE MCTeachOverlay ---------------------------
(* TeachOverlay on a small instance: model values for clients, threads and    *)
(* displays.                                                                  *)
EXTENDS TeachOverlay

CONSTANTS c1, c2, t1, t2, left, right

=============================================================================
