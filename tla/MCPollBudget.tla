---------------------------- MODULE MCPollBudget ----------------------------
(* TLC instances of PollBudget: settings at and around their limits, and    *)
(* answers that are immediate, slow after, or slow before being processed.  *)
EXTENDS PollBudget

MCTaskTimeouts == {0, 2500, 3000}
MCPollIntervals == {0, 1000, 20000}
MCPollTimeouts == {0, 2600, 3000, 12000}
MCLateness == {0, 500}
MCEnds == {0, 2000, 5000, 9000, 18000, 60000}
MCAnswers == {[processed |-> 0, arrived |-> 0],
              [processed |-> 0, arrived |-> 10000],
              [processed |-> 10000, arrived |-> 10000]}
=============================================================================
