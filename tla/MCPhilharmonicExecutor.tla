----------------------- MODULE MCPhilharmonicExecutor -----------------------
(* TLC instances of PhilharmonicExecutor: model values for the calls.      *)
EXTENDS PhilharmonicExecutor

CONSTANTS c1, c2

TwoCalls == {c1, c2}
=============================================================================
