--------------------------- MODULE TaskLifecycle ---------------------------
(***************************************************************************)
(* What the service promises about a task row (domain/task.go, the tasks   *)
(* table): it appears once as in_progress without a result, may become     *)
(* ready with a result, and then stays ready with one, although a repeated *)
(* execution may still replace the result.  CodeService implements it.     *)
(***************************************************************************)
EXTENDS Naturals

CONSTANT Tasks

VARIABLES
    status,   \* none before the row exists, then in_progress or ready
    result    \* number of the execution whose result is stored, 0 for NULL

TypeOK ==
    /\ status \in [Tasks -> {"none", "in_progress", "ready"}]
    /\ result \in [Tasks -> Nat]

Init ==
    /\ status = [t \in Tasks |-> "none"]
    /\ result = [t \in Tasks |-> 0]

Create(t) ==
    /\ status[t] = "none"
    /\ status' = [status EXCEPT ![t] = "in_progress"]
    /\ UNCHANGED result

Finish(t) ==
    /\ status[t] # "none"
    /\ status' = [status EXCEPT ![t] = "ready"]
    /\ result'[t] # 0
    /\ result' = [result EXCEPT ![t] = result'[t]]

Next == \E t \in Tasks : Create(t) \/ Finish(t)

Spec == Init /\ [][Next]_<<status, result>>

\* The status and the result of a row agree, whatever the client asks first.
ReadyHasResult == \A t \in Tasks : status[t] = "ready" <=> result[t] # 0
=============================================================================
