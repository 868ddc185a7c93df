------------------------ MODULE PhilharmonicExecutor ------------------------
(***************************************************************************)
(* Executing one task on the Philharmonic orchestrator                     *)
(* (internal/service/philharmonic.go, labelled by metrics.go).             *)
(*                                                                         *)
(* A redelivered message makes the processors call Execute again for the   *)
(* same task, after an earlier call failed, died with its processor, or    *)
(* while it still runs.  All calls use the orchestrator name               *)
(* "run-" + task id, and the manager is asked by name, so one task and its *)
(* calls are the whole story: records of other names never match.          *)
(*                                                                         *)
(* Each call submits at most once, so the container it started is named    *)
(* after the call.  The manager is external: a record is in Records while  *)
(* the manager lists it; a stop ends a running container, and a stop of a  *)
(* stopping or ended one removes the record (philharmonic.go:92,290); a    *)
(* POST of a name that exists may be refused or accepted (line 223 expects *)
(* both).  A request that got no answer was processed, or is late: the     *)
(* manager processes it any time afterwards, or never.                     *)
(***************************************************************************)
EXTENDS Naturals, FiniteSets

CONSTANTS
    Calls,    \* calls of Execute for the task
    NoRun     \* "the call has seen no record"

ASSUME NoRunAssumption == NoRun \notin Calls

VARIABLES
    \* the manager
    run,        \* the container each call submitted
    cause,      \* what ended it: its own exit, the kill timeout, or a stop
    late,       \* unanswered requests the manager may still process
    \* the calls
    step,       \* where each call is
    ret,        \* what it is about to return, or has returned
    entry,      \* the record awaitTerminal returned
    failed,     \* entry was in state Failed
    output,     \* the record whose logs were read
    ctxDone,    \* awaitTerminal finds the caller's context done
    expired,    \* awaitTerminal finds its deadline passed
    \* bookkeeping, read by no action
    crowded,    \* another record of the name existed when the call's was created
    disturbed,  \* another call's request changed the manager during the call
    faulty      \* the call's POST or DELETE got no answer

manager == <<run, cause, late>>
await == <<ctxDone, expired>>
local == <<entry, failed, output, await>>
ghosts == <<crowded, disturbed, faulty>>
vars == <<manager, step, ret, local, ghosts>>

Active == {"submit", "poll", "sleep", "logs", "stop"}
Terminal == {"completed", "failed"}

TypeOK ==
    /\ run \in [Calls -> {"absent", "live", "stopping", "removed"} \cup Terminal]
    /\ cause \in [Calls -> {"none", "exit", "kill", "stop"}]
    /\ late \subseteq {"POST", "DELETE"} \X Calls
    /\ step \in [Calls -> Active \cup {"idle", "returned"}]
    /\ ret \in [Calls -> {"none", "ok", "error", "timeout", "crash"}]
    /\ entry \in [Calls -> Calls \cup {NoRun}]
    /\ output \in [Calls -> Calls \cup {NoRun}]
    /\ {failed, ctxDone, expired, crowded, disturbed, faulty} \subseteq [Calls -> BOOLEAN]
    /\ \A c \in Calls : ret[c] = "ok" => {entry[c], output[c]} \subseteq Calls

\* The records the manager lists under the task's name.
Records == {r \in Calls : run[r] \notin {"absent", "removed"}}

Init ==
    /\ run = [c \in Calls |-> "absent"]
    /\ cause = [c \in Calls |-> "none"]
    /\ late = {}
    /\ step = [c \in Calls |-> "idle"]
    /\ ret = [c \in Calls |-> "none"]
    /\ entry = [c \in Calls |-> NoRun]
    /\ output = [c \in Calls |-> NoRun]
    /\ failed = [c \in Calls |-> FALSE]
    /\ ctxDone = [c \in Calls |-> FALSE]
    /\ expired = [c \in Calls |-> FALSE]
    /\ crowded = [c \in Calls |-> FALSE]
    /\ disturbed = [c \in Calls |-> FALSE]
    /\ faulty = [c \in Calls |-> FALSE]

Set(f, c, v) == f' = [f EXCEPT ![c] = v]

----------------------------------------------------------------------------
(* The manager.                                                            *)

\* A request of c changes the manager under every other call in progress.
Disturb(c) ==
    disturbed' = [x \in Calls |->
                    disturbed[x] \/ (x # c /\ step[x] \in Active)]

\* A POST creates the container of c.
Create(c) ==
    /\ Set(run, c, "live")
    /\ Set(crowded, c, Records # {})
    /\ Disturb(c)
    /\ UNCHANGED cause

\* A DELETE addresses one of the records of the name, if there is any.
Delete(c) ==
    IF Records = {}
    THEN UNCHANGED <<run, cause, disturbed>>
    ELSE /\ \E r \in Records :
               IF run[r] = "live"
               THEN Set(run, r, "stopping") /\ Set(cause, r, "stop")
               ELSE Set(run, r, "removed") /\ UNCHANGED cause
         /\ Disturb(c)

\* A container ends by itself, is killed by the orchestrator's Timeout, or has
\* been stopped.
RunEnds(r) ==
    /\ \/ /\ run[r] = "live"
          /\ \/ \E s \in Terminal : Set(run, r, s) /\ Set(cause, r, "exit")
             \/ Set(run, r, "failed") /\ Set(cause, r, "kill")
       \/ run[r] = "stopping" /\ Set(run, r, "failed") /\ UNCHANGED cause
    /\ UNCHANGED <<late, step, ret, local, ghosts>>

LateRequest(c) ==
    /\ \/ /\ <<"POST", c>> \in late
          /\ late' = late \ {<<"POST", c>>}
          /\ Create(c)
       \/ /\ <<"DELETE", c>> \in late
          /\ late' = late \ {<<"DELETE", c>>}
          /\ Delete(c)
          /\ UNCHANGED crowded
    /\ UNCHANGED <<step, ret, local, faulty>>

\* The caller got no answer to a request it sent.
Unanswered(kind, c) ==
    /\ late' = late \cup {<<kind, c>>}
    /\ Set(faulty, c, TRUE)
    /\ UNCHANGED <<run, cause, crowded, disturbed>>

----------------------------------------------------------------------------
(* Execute.                                                                *)

Goto(c, from, to) == step[c] = from /\ Set(step, c, to)

\* The call starts, or returns at once for an unsupported translator.
Execute(c) ==
    /\ \/ Goto(c, "idle", "submit") /\ UNCHANGED ret
       \/ Goto(c, "idle", "returned") /\ Set(ret, c, "error")
    /\ UNCHANGED <<manager, local, ghosts>>

\* POST /tasks is answered with 201.
SubmitAccepted(c) ==
    /\ Goto(c, "submit", "poll")
    /\ Create(c)
    /\ UNCHANGED <<late, ret, local, faulty>>

\* It is answered otherwise.  Execute returns without a stop.
SubmitRefused(c) ==
    /\ Goto(c, "submit", "returned")
    /\ Set(ret, c, "error")
    /\ UNCHANGED <<manager, local, ghosts>>

SubmitFails(c) ==
    /\ Goto(c, "submit", "returned")
    /\ Set(ret, c, "error")
    /\ Unanswered("POST", c)
    /\ UNCHANGED local

\* awaitTerminal returns: nothing looks at its context and deadline any more.
LeaveAwait(c) == Set(ctxDone, c, FALSE) /\ Set(expired, c, FALSE)

\* Mutated form of AwaitEnds: it returns without stopAndLog.
AwaitEndsNoStop(c, from, why) ==
    /\ Goto(c, from, "returned")
    /\ Set(ret, c, why)
    /\ LeaveAwait(c)
    /\ UNCHANGED <<manager, entry, failed, output, crowded, disturbed>>

\* awaitTerminal or logs returned an error; Execute goes on to stopAndLog.
AwaitEnds(c, from, why) ==
    /\ Goto(c, from, "stop")
    /\ Set(ret, c, why)
    /\ LeaveAwait(c)
    /\ UNCHANGED <<manager, entry, failed, output, crowded, disturbed>>

\* Mutated form of PollTerminal: the last match wins.
PollTerminalAny(c) ==
    /\ Goto(c, "poll", "logs")
    /\ \E r \in Records :
          run[r] \in Terminal /\ Set(entry, c, r) /\ Set(failed, c, run[r] = "failed")
    /\ LeaveAwait(c)
    /\ UNCHANGED <<manager, ret, output, ghosts>>

\* GET /tasks lists one record of the name and it is terminal.
PollTerminal(c) ==
    /\ Goto(c, "poll", "logs")
    /\ \E r \in Records :
          /\ Records = {r}
          /\ run[r] \in Terminal
          /\ Set(entry, c, r)
          /\ Set(failed, c, run[r] = "failed")
    /\ LeaveAwait(c)
    /\ UNCHANGED <<manager, ret, output, ghosts>>

\* It lists several.
PollAmbiguous(c) ==
    /\ Cardinality(Records) > 1
    /\ AwaitEnds(c, "poll", "error")
    /\ UNCHANGED faulty

Unfinished == Cardinality(Records) <= 1 /\ \A r \in Records : run[r] \notin Terminal

\* Mutated form of PollUnfinished: the poll budget is not consulted.
PollUnfinishedForever(c) ==
    /\ Unfinished
    /\ \/ ctxDone[c] /\ AwaitEnds(c, "poll", "error")
       \/ /\ ~ctxDone[c]
          /\ Goto(c, "poll", "sleep")
          /\ UNCHANGED <<manager, ret, local, crowded, disturbed>>
    /\ UNCHANGED faulty

\* It lists none or an unfinished one: the context, then the deadline decide
\* whether to wait for the next poll.
PollUnfinished(c) ==
    /\ Unfinished
    /\ \/ ctxDone[c] /\ AwaitEnds(c, "poll", "error")
       \/ ~ctxDone[c] /\ expired[c] /\ AwaitEnds(c, "poll", "timeout")
       \/ /\ ~ctxDone[c] /\ ~expired[c]
          /\ Goto(c, "poll", "sleep")
          /\ UNCHANGED <<manager, ret, local, crowded, disturbed>>
    /\ UNCHANGED faulty

\* GET /tasks fails in transport, with an unexpected status or an unreadable
\* list: once is enough to give up.
PollFails(c) ==
    /\ AwaitEnds(c, "poll", "error")
    /\ UNCHANGED faulty

\* Mutated form of LogsFail: the error of logs is not looked at.
LogsFailUnread(c) ==
    /\ AwaitEnds(c, "logs", "ok")
    /\ UNCHANGED faulty

\* So does the request for the logs, also with 404 for a record that is gone.
LogsFail(c) ==
    /\ AwaitEnds(c, "logs", "error")
    /\ UNCHANGED faulty

\* The select between two polls.
Wake(c) ==
    /\ \/ /\ Goto(c, "sleep", "poll")
          /\ UNCHANGED <<manager, ret, local, crowded, disturbed>>
       \/ ctxDone[c] /\ AwaitEnds(c, "sleep", "error")
    /\ UNCHANGED faulty

\* GET /tasks/logs/<name> reads the logs of a record of the name.
LogsRead(c) ==
    /\ Goto(c, "logs", "stop")
    /\ \E r \in Records : Set(output, c, r)
    /\ Set(ret, c, "ok")
    /\ UNCHANGED <<manager, entry, failed, await, ghosts>>

\* stopAndLog: DELETE /tasks/<name> on a context of its own; 204 and 404 are
\* fine, and any failure is only logged.
StopAnswered(c) ==
    /\ Goto(c, "stop", "returned")
    /\ Delete(c)
    /\ UNCHANGED <<late, ret, local, crowded, faulty>>

StopFails(c) ==
    /\ Goto(c, "stop", "returned")
    /\ Unanswered("DELETE", c)
    /\ UNCHANGED <<ret, local>>

\* The processor dies; the request it was sending may be late.
Crash(c) ==
    /\ step[c] \in Active
    /\ Set(step, c, "returned")
    /\ Set(ret, c, "crash")
    /\ \/ UNCHANGED <<manager, ghosts>>
       \/ step[c] = "submit" /\ Unanswered("POST", c)
       \/ step[c] = "stop" /\ Unanswered("DELETE", c)
    /\ LeaveAwait(c)
    /\ UNCHANGED <<entry, failed, output>>

\* The processor is signalled.  Outside awaitTerminal this shows only as a
\* request that fails.
CtxDone(c) ==
    /\ step[c] \in {"poll", "sleep"}
    /\ ~ctxDone[c]
    /\ Set(ctxDone, c, TRUE)
    /\ UNCHANGED <<manager, step, ret, entry, failed, output, expired, ghosts>>

Expire(c) ==
    /\ step[c] \in {"poll", "sleep"}
    /\ ~expired[c]
    /\ Set(expired, c, TRUE)
    /\ UNCHANGED <<manager, step, ret, entry, failed, output, ctxDone, ghosts>>

CallStep(c) ==
    \/ SubmitAccepted(c) \/ SubmitRefused(c) \/ SubmitFails(c)
    \/ PollTerminal(c) \/ PollAmbiguous(c) \/ PollUnfinished(c)
    \/ PollFails(c)
    \/ Wake(c)
    \/ LogsRead(c) \/ LogsFail(c)
    \/ StopAnswered(c) \/ StopFails(c)

Next ==
    \E c \in Calls :
        \/ Execute(c)
        \/ CallStep(c)
        \/ Crash(c) \/ CtxDone(c) \/ Expire(c)
        \/ RunEnds(c) \/ LateRequest(c)

Spec == Init /\ [][Next]_vars

(***************************************************************************)
(* Fairness.  A call keeps executing: every request is answered or gives   *)
(* up (the client's timeout, the 5 s of stop), the sleep ends, and time    *)
(* passes the deadline.  Nothing is assumed of the manager.                *)
(***************************************************************************)
FairSpec == Spec /\ \A c \in Calls : WF_vars(CallStep(c)) /\ WF_vars(Expire(c))

----------------------------------------------------------------------------
(* Properties.                                                             *)

\* A result that Execute returns, with no other call's request processed
\* meanwhile, is that of the container this very call started: verdict and
\* logs are of the same run, and it was not ended by anybody's cleanup, also
\* when records of earlier attempts are still in the manager.
ResultIsOwn ==
    \A c \in Calls :
        step[c] = "returned" /\ ret[c] = "ok" /\ ~disturbed[c]
        => entry[c] = c /\ output[c] = c /\ cause[c] \in {"exit", "kill"}

\* When its POST and DELETE were answered and nobody interfered, a call leaves
\* nothing running behind, even if polling or reading the logs failed, and
\* after a success not even a record.
CleansUp ==
    \A c \in Calls :
        /\ step[c] = "returned" /\ ret[c] # "crash"
        /\ ~(crowded[c] \/ disturbed[c] \/ faulty[c])
        => run[c] \in IF ret[c] = "ok" THEN {"removed"}
                      ELSE {"absent", "stopping", "failed", "removed"}

\* A call that started returns, whatever the orchestrator does.
ExecuteReturns == \A c \in Calls : step[c] = "submit" ~> step[c] = "returned"

\* What philharmonic.go:73 says of the name: "unique per orchestrator".
\* A call that starts when no other is in progress then submits a name that
\* the manager does not hold.
NameIsUnique ==
    \A c \in Calls :
        step[c] = "submit" /\ (\A x \in Calls \ {c} : step[x] \notin Active)
        => Records = {}

\* The status metrics.go counts a finished call under.
Label(c) ==
    CASE ret[c] = "timeout" -> "timeout"
      [] ret[c] = "error" -> "error"
      [] ret[c] = "ok" /\ failed[c] -> "failure"
      [] ret[c] = "ok" /\ ~failed[c] -> "success"
      [] OTHER -> "none"

\* What metrics.go:17 says of the label "timeout": the task was killed by the
\* execution timeout, so a task killed by it gets no other label.
KilledIsTimeout ==
    \A c \in Calls :
        step[c] = "returned" /\ ret[c] = "ok" /\ cause[entry[c]] = "kill"
        => Label(c) = "timeout"

=============================================================================
