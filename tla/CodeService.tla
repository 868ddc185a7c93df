---------------------------- MODULE CodeService ----------------------------
(***************************************************************************)
(* The way of a task through the whole service: TaskService.Submit saves   *)
(* the row and publishes the message, a processor's handle executes the    *)
(* message and stores the result, and the client polls Status and Result.  *)
(*                                                                         *)
(* The queue and the consumers are those of TaskQueue; this module says    *)
(* what its publisher and its handlers do.  An execution is one step here  *)
(* that succeeds or fails (PhilharmonicExecutor has its inside).  The      *)
(* database is external: a statement commits or not, and its caller may    *)
(* get an error in either case.                                            *)
(*                                                                         *)
(* Publish writes a second time when its first write fails, which may have *)
(* got through (Publisher has its session and its mutex), so the queue may *)
(* hold two messages of one task: each message of TaskQueue is a copy here.*)
(***************************************************************************)
EXTENDS TaskQueue

CONSTANTS
    Ids,      \* task ids, one submission each
    TaskOf    \* the task a well-formed message carries

ASSUME TaskOfAssumption == TaskOf \in [Tasks -> Ids]

VARIABLES
    row,      \* the task's row: its status, or none
    result,   \* number of the execution whose result is stored, 0 for NULL
    request,  \* how far POST /task is
    phase,    \* how far the handler in a processor is
    attempt,  \* number of the execution a processor is in
    runs,     \* executions begun of each task
    seen      \* what the client last learned of its task

handlerVars == <<phase, attempt, runs>>
serviceVars == <<row, result, request, handlerVars, seen>>
allVars == <<vars, serviceVars>>

ServiceTypeOK ==
    /\ row \in [Ids -> {"none", "in_progress", "ready"}]
    /\ result \in [Ids -> Nat]
    /\ request \in [Ids -> {"none", "saving", "publishing", "retrying", "accepted", "failed"}]
    /\ phase \in [Processors -> {"none", "executing", "saving", "saved", "failed"}]
    /\ attempt \in [Processors -> Nat]
    /\ runs \in [Ids -> Nat]
    /\ seen \in [Ids -> {"nothing", "in_progress", "ready", "result"}]
    /\ \A p \in Processors : phase[p] # "none" <=> pc[p] = "handling"

ServiceInit ==
    /\ Init
    /\ row = [t \in Ids |-> "none"]
    /\ result = [t \in Ids |-> 0]
    /\ request = [t \in Ids |-> "none"]
    /\ phase = [p \in Processors |-> "none"]
    /\ attempt = [p \in Processors |-> 0]
    /\ runs = [t \in Ids |-> 0]
    /\ seen = [t \in Ids |-> "nothing"]

\* The messages of a task that reached the queue, and the task in a handler.
Sent(t) == {m \in Accepted \cap Tasks : TaskOf[m] = t}
Handled(p) == TaskOf[current[p].msg]
SentTwice(t) == \E m, n \in Sent(t) : m # n

----------------------------------------------------------------------------
(* TaskService.                                                            *)

Request(t, from, to) ==
    request[t] = from /\ request' = [request EXCEPT ![t] = to]

\* A valid submission; the id is fresh.
Submit(t) ==
    /\ Request(t, "none", "saving")
    /\ UNCHANGED <<vars, row, result, handlerVars, seen>>

InsertRow(t) == row' = [row EXCEPT ![t] = "in_progress"]

\* A write gets through: a persistent message with the id is in the queue.
Write(t) == \E m \in Tasks : TaskOf[m] = t /\ Publish(m)

\* Mutated form of SaveTask: the message is published before the row is saved.
PublishFirst(t) ==
    /\ request[t] = "saving"
    /\ \/ Sent(t) = {} /\ Write(t) /\ UNCHANGED <<row, request>>
       \/ Sent(t) # {} /\ InsertRow(t) /\ Request(t, "saving", "publishing") /\ UNCHANGED vars
    /\ UNCHANGED <<result, handlerVars, seen>>

\* INSERT succeeds, or fails for the caller, committed or not.
SaveTask(t) ==
    /\ \/ Request(t, "saving", "publishing") /\ InsertRow(t)
       \/ Request(t, "saving", "failed") /\ (InsertRow(t) \/ UNCHANGED row)
    /\ UNCHANGED <<vars, result, handlerVars, seen>>

\* The first write fails, having got through or not, and Publish redials.
Republish(t) ==
    /\ Request(t, "publishing", "retrying")
    /\ Write(t) \/ UNCHANGED vars
    /\ UNCHANGED <<row, result, handlerVars, seen>>

\* Publish returns nil: the message is in the queue, or was lost with the
\* session, since the channel does not confirm.
PublishSucceeds(t) ==
    /\ \E at \in {"publishing", "retrying"} : Request(t, at, "accepted")
    /\ Write(t) \/ UNCHANGED vars
    /\ UNCHANGED <<row, result, handlerVars, seen>>

\* Publish fails, or the server dies with the request: the row stays behind.
\* A write that failed may still have reached the broker.
PublishFails(t) ==
    /\ \E at \in {"saving", "publishing", "retrying"} : Request(t, at, "failed")
    /\ \/ request[t] # "saving" /\ Write(t)
       \/ UNCHANGED vars
    /\ UNCHANGED <<row, result, handlerVars, seen>>

\* The client asks for the status, or the result, of the task it was given.
Poll(t) ==
    /\ request[t] = "accepted"
    /\ \E answer \in {row[t], IF result[t] = 0 THEN seen[t] ELSE "result"} :
          seen' = [seen EXCEPT ![t] = answer]
    /\ UNCHANGED <<vars, row, result, request, handlerVars>>

----------------------------------------------------------------------------
(* The handler of cmd/processor.                                           *)

Phase(p, from, to) == phase[p] = from /\ phase' = [phase EXCEPT ![p] = to]

\* A processor begins an execution of the task of its delivery.
Begin(p, d) ==
    /\ StartHandler(p, d)
    /\ Phase(p, "none", "executing")
    /\ runs' = [runs EXCEPT ![TaskOf[d.msg]] = @ + 1]
    /\ attempt' = [attempt EXCEPT ![p] = runs'[TaskOf[d.msg]]]

\* Mutated form of BeginTask: the handler first marks its row in_progress,
\* with the UpdateTaskStatus that nothing calls.
BeginTaskMarking(p, d) ==
    /\ Begin(p, d)
    /\ row' = [row EXCEPT ![TaskOf[d.msg]] = "in_progress"]
    /\ UNCHANGED <<result, request, seen>>

BeginTask(p, d) == Begin(p, d) /\ UNCHANGED <<row, result, request, seen>>

\* Execute returns a result (also of a failed run), or an error.
Execute(p) ==
    /\ \E to \in {"saving", "failed"} : Phase(p, "executing", to)
    /\ UNCHANGED <<vars, row, result, request, attempt, runs, seen>>

\* UPDATE tasks SET status = 'ready', result = ... WHERE id = ...
WriteResult(p) ==
    LET t == Handled(p) IN
    /\ row[t] # "none"
    /\ row' = [row EXCEPT ![t] = "ready"]
    /\ result' = [result EXCEPT ![t] = attempt[p]]

\* Mutated form of SaveTaskResult: its errors are not returned.
SaveTaskResultIgnored(p) ==
    /\ Phase(p, "saving", "saved")
    /\ WriteResult(p) \/ UNCHANGED <<row, result>>
    /\ UNCHANGED <<vars, request, attempt, runs, seen>>

\* It succeeds, or fails for the caller, committed or not; a missing row is an
\* error.
SaveTaskResult(p) ==
    /\ \/ Phase(p, "saving", "saved") /\ WriteResult(p)
       \/ Phase(p, "saving", "failed") /\ (WriteResult(p) \/ UNCHANGED <<row, result>>)
    /\ UNCHANGED <<vars, request, attempt, runs, seen>>

\* Mutated form of EndTask: a failure is acknowledged like a success.
EndTaskAcks(p) ==
    /\ \E from \in {"saved", "failed"} : Phase(p, from, "none")
    /\ HandlerSucceeds(p)
    /\ UNCHANGED <<row, result, request, attempt, runs, seen>>

\* Mutated form of EndTask: the result is stored after the handler returned.
EndTaskEarly(p) ==
    /\ \/ phase[p] = "saving" /\ UNCHANGED phase /\ HandlerSucceeds(p)
       \/ Phase(p, "failed", "none") /\ HandlerFails(p)
    /\ UNCHANGED <<row, result, request, attempt, runs, seen>>

\* Mutated form of EndTask: a success is requeued.
EndTaskRequeues(p) ==
    /\ Phase(p, "saved", "none")
    /\ HandleReturns(p)
    /\ Nack(p, current[p].msg, TRUE)
    /\ UNCHANGED <<row, result, request, attempt, runs, seen, succeeded, failed>>

\* The handler returns to handle, which settles the delivery.
EndTask(p) ==
    /\ \/ Phase(p, "saved", "none") /\ HandlerSucceeds(p)
       \/ Phase(p, "failed", "none") /\ HandlerFails(p)
    /\ UNCHANGED <<row, result, request, attempt, runs, seen>>

\* The processor dies, possibly after the result was stored.
Die(p) ==
    /\ Crash(p)
    /\ phase' = [phase EXCEPT ![p] = "none"]
    /\ UNCHANGED <<row, result, request, attempt, runs, seen>>

\* Steps of TaskQueue that concern neither rows nor handlers.
Consume(p) ==
    /\ \/ LoopTop(p) \/ Connect(p) \/ WaitReconnect(p) \/ SessionEnds(p)
       \/ \E d \in buffer[p] : DropMalformed(p, d)
    /\ UNCHANGED serviceVars

Disturb(p) ==
    /\ \/ ConnectFails(p) \/ SessionLost(p) \/ Cancel(p) \/ Restart(p)
       \/ \E m \in Messages : Deliver(p, m)
    /\ UNCHANGED serviceVars

\* A malformed message comes from elsewhere.
PublishMalformed(m) == m \in Malformed /\ Publish(m) /\ UNCHANGED serviceVars

Serve(t) == SaveTask(t) \/ Republish(t) \/ PublishSucceeds(t) \/ PublishFails(t)

Process(p) ==
    \/ Consume(p)
    \/ \E d \in buffer[p] : BeginTask(p, d)
    \/ Execute(p) \/ SaveTaskResult(p) \/ EndTask(p)

ServiceNext ==
    \/ \E t \in Ids : Submit(t) \/ Serve(t) \/ Poll(t)
    \/ \E m \in Messages : PublishMalformed(m)
    \/ \E p \in Processors : Process(p) \/ Die(p) \/ Disturb(p)

ServiceSpec == ServiceInit /\ [][ServiceNext]_allVars

(***************************************************************************)
(* Fairness: as in TaskQueue, and a request the server holds is carried    *)
(* on.  A client need not poll, and no step is assumed to succeed.         *)
(***************************************************************************)
ServiceFairSpec ==
    /\ ServiceSpec
    /\ \A t \in Ids : WF_allVars(Serve(t))
    /\ \A p \in Processors : WF_allVars(Process(p))
    /\ \A p \in Processors, m \in Messages :
          WF_allVars(Deliver(p, m) /\ UNCHANGED serviceVars)

----------------------------------------------------------------------------
(* Properties.                                                             *)

\* The service keeps the life cycle of every row, whatever is redelivered, sent
\* twice or executed twice: no row goes back, none is ready without result.
Lifecycle == INSTANCE TaskLifecycle WITH Tasks <- Ids, status <- row
LifecycleSpec == Lifecycle!Spec

\* A message never overtakes its row, so no processor meets a missing row and
\* drops the task for it.
RowBeforeMessage == \A m \in Tasks \cap Accepted : row[TaskOf[m]] # "none"

\* A message is acknowledged only after the result of its task is in the
\* database, so a row that stays in_progress for good has no message that was
\* acknowledged: each was dropped, or none reached the queue.
AckedIsReady == \A m \in Tasks \cap acked : row[TaskOf[m]] = "ready"

\* Two processors execute one task at the same time only when the session of
\* one of them broke, or the publisher's retry sent the task twice.
TogetherForAReason ==
    \A p, q \in Processors :
        p # q /\ pc[p] = "handling" /\ pc[q] = "handling" /\ Handled(p) = Handled(q)
        => \/ session[p] = "lost" \/ session[q] = "lost"
           \/ SentTwice(Handled(p))

\* Without a fault, and unless the task was sent twice or its handler reported
\* a failure (to store the result, though it was stored), a result is written
\* once: a client that read it sees no other later.
WrittenOnce ==
    [][\A t \in Ids :
          faults = 0 /\ result[t] # 0 /\ ~SentTwice(t) /\ Sent(t) \cap failed = {}
          => result'[t] = result[t]]_allVars

\* What the client is told never goes back.
SeenAdvances ==
    [][\A t \in Ids :
          /\ seen[t] = "ready" => seen'[t] \in {"ready", "result"}
          /\ seen[t] = "result" => seen'[t] \in {"ready", "result"}]_allVars

\* An accepted submission eventually has its result, unless all its messages
\* were dropped, none reached the queue, or every processor has halted.
EventuallyReady ==
    \A t \in Ids :
        request[t] = "accepted" ~> \/ row[t] = "ready"
                                   \/ Sent(t) \subseteq dropped
                                   \/ \A p \in Processors : pc[p] \in Halted
=============================================================================
