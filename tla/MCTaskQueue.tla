---------------------------- MODULE MCTaskQueue ----------------------------
(* TLC instances of TaskQueue: model values for processors and messages.   *)
EXTENDS TaskQueue, TLC

CONSTANTS p1, p2, m1, m2, m3

MCProcessors == {p1, p2}
MCMessages == {m1, m2, m3}
TwoMessages == {m1, m2}
OneProcessor == {p1}

\* Processors are interchangeable; so are the two tasks.
ProcessorSymmetry == Permutations(MCProcessors)
Symmetry == ProcessorSymmetry \cup Permutations({m1, m2})
=============================================================================
