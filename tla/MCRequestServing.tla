-------------------------- MODULE MCRequestServing --------------------------
(* RequestServing on a small instance: model values for the callers.          *)
EXTENDS RequestServing

CONSTANTS c1, c2

=============================================================================
