--------------------------- MODULE MCCodeService ---------------------------
(* TLC instances of CodeService: model values for processors, for a task   *)
(* and for the two messages the publisher may send of it.                  *)
EXTENDS CodeService, TLC

CONSTANTS p1, p2, t1, a1, a2, bad

TwoProcessors == {p1, p2}
TwoCopies == {a1, a2}
CopiesAndBad == {a1, a2, bad}
OneTask == [m \in TwoCopies |-> t1]
Symmetry == Permutations(TwoProcessors) \cup Permutations(TwoCopies)
=============================================================================
