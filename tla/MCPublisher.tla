---------------------------- MODULE MCPublisher ----------------------------
(* TLC instances of Publisher: model values for the calls.                 *)
EXTENDS Publisher

CONSTANTS c1, c2, c3

ThreeCalls == {c1, c2, c3}
=============================================================================
