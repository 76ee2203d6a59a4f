---------------------------- MODULE MCWindowOrder ----------------------------
(* WindowOrder on a small instance: a window and a surface of an allowed app, *)
(* windows of two other apps, one on another display, and an overlay.        *)
EXTENDS WindowOrder

CONSTANTS p1, app, osd, other, afar, overlay

=============================================================================
