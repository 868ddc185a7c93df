----------------------------- MODULE MCPrograms -----------------------------
(* TLC instances of Programs: model values for processors and jobs.        *)
EXTENDS Programs

CONSTANTS w1, j1, j2

OneProcessor == {w1}

TwoJobs == {j1, j2}
=============================================================================
