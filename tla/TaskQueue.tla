----------------------------- MODULE TaskQueue -----------------------------
(***************************************************************************)
(* The durable RabbitMQ queue of task messages and the processors that     *)
(* drain it (internal/repository/queue/consumer.go and queue.go).          *)
(*                                                                         *)
(* One processor runs Consumer.Consume: an endless loop of broker sessions *)
(* (consumeOnce), each of which dials, limits its prefetch, and hands the  *)
(* deliveries one at a time to handle, which runs the task handler and     *)
(* then acknowledges, requeues or drops the message.  What the handler     *)
(* does with a task is outside this module: here it succeeds or fails.     *)
(*                                                                         *)
(* The broker and the client library are external.  They are modelled by   *)
(* what the code relies on: an unsettled message whose session ends goes   *)
(* back to the queue with the redelivered flag set, a settlement sent on a *)
(* session that has ended has no effect, and deliveries that were buffered *)
(* by the client may still be consumed after the session was lost.         *)
(***************************************************************************)
EXTENDS Naturals, FiniteSets

CONSTANTS
    Processors,   \* processor processes sharing the queue
    Messages,     \* task messages
    Malformed,    \* messages that do not decode, or decode without a task id
    Prefetch,     \* TASK_QUEUE_PREFETCH, positive after validation
    NoDelivery,   \* "no message is being handled"
    MaxFaults     \* bound on failed dials, lost sessions, crashes and signals

Delivery == [msg : Messages, redelivered : BOOLEAN]

ASSUME MalformedAssumption == Malformed \subseteq Messages
ASSUME PrefetchAssumption == Prefetch \in Nat \ {0}
ASSUME MaxFaultsAssumption == MaxFaults \in Nat
ASSUME NoDeliveryAssumption == NoDelivery \notin Delivery

VARIABLES
    \* the broker
    ready,        \* messages waiting in the queue
    unacked,      \* messages delivered to a processor's session, unsettled
    acked,        \* messages acknowledged, gone from the queue
    dropped,      \* messages rejected without requeue, gone from the queue
    redelivered,  \* messages whose next delivery carries the redelivered flag
    \* the processors
    pc,           \* where Consume is
    session,      \* the broker session: none, open, or lost unnoticed
    buffer,       \* deliveries the client holds, not yet handed to handle
    current,      \* the delivery inside handle
    cancelled,    \* the signal context is done
    \* bookkeeping, read by no action
    attempts,     \* how often the handler was started for a message
    succeeded,    \* messages for which the handler returned nil
    failed,       \* messages for which the handler returned an error
    faults        \* faults so far

brokerVars == <<ready, unacked, acked, dropped, redelivered>>
history == <<attempts, succeeded, failed>>
consumerVars == <<pc, session, buffer, current, cancelled>>
vars == <<brokerVars, consumerVars, history, faults>>

Running == {"top", "dialing", "consuming", "handling", "waiting"}
Halted == {"stopped", "dead"}
Tasks == Messages \ Malformed

TypeOK ==
    /\ ready \subseteq Messages
    /\ unacked \in [Processors -> SUBSET Messages]
    /\ acked \subseteq Messages
    /\ dropped \subseteq Messages
    /\ redelivered \subseteq Messages
    /\ pc \in [Processors -> Running \cup Halted]
    /\ session \in [Processors -> {"none", "open", "lost"}]
    /\ buffer \in [Processors -> SUBSET Delivery]
    /\ current \in [Processors -> [msg : Tasks, redelivered : BOOLEAN] \cup {NoDelivery}]
    /\ cancelled \in [Processors -> BOOLEAN]
    /\ attempts \in [Messages -> Nat]
    /\ succeeded \subseteq Tasks
    /\ failed \subseteq Tasks
    /\ faults \in Nat

\* The messages the queue has ever accepted.
Accepted == ready \cup acked \cup dropped \cup UNION {unacked[p] : p \in Processors}

\* The deliveries a processor holds: the one in handle and those behind it.
Held(p) == buffer[p] \cup ({current[p]} \ {NoDelivery})

Init ==
    /\ ready = {}
    /\ unacked = [p \in Processors |-> {}]
    /\ acked = {}
    /\ dropped = {}
    /\ redelivered = {}
    /\ pc = [p \in Processors |-> "top"]
    /\ session = [p \in Processors |-> "none"]
    /\ buffer = [p \in Processors |-> {}]
    /\ current = [p \in Processors |-> NoDelivery]
    /\ cancelled = [p \in Processors |-> FALSE]
    /\ attempts = [m \in Messages |-> 0]
    /\ succeeded = {}
    /\ failed = {}
    /\ faults = 0

----------------------------------------------------------------------------
(* The broker.                                                             *)

\* A publisher's message reaches the queue (the queue is durable and the
\* message persistent, so it stays there).
Publish(m) ==
    /\ m \notin Accepted
    /\ ready' = ready \cup {m}
    /\ UNCHANGED <<unacked, acked, dropped, redelivered, consumerVars, history, faults>>

\* What the broker sends: the message, and whether it was delivered before.
Tagged(m) == [msg |-> m, redelivered |-> m \in redelivered]

\* The broker pushes a message to a session that has room for it under the
\* session's Qos; the client library buffers the delivery.
Deliver(p, m) ==
    /\ session[p] = "open"
    /\ m \in ready
    /\ Cardinality(unacked[p]) < Prefetch
    /\ ready' = ready \ {m}
    /\ unacked' = [unacked EXCEPT ![p] = @ \cup {m}]
    /\ buffer' = [buffer EXCEPT ![p] = @ \cup {Tagged(m)}]
    /\ UNCHANGED <<acked, dropped, redelivered, pc, session, current, cancelled,
                   history, faults>>

\* Settling on a lost session is an error that ack and nack only log.
Ack(p, m) ==
    IF session[p] = "open"
    THEN /\ acked' = acked \cup {m}
         /\ unacked' = [unacked EXCEPT ![p] = @ \ {m}]
         /\ UNCHANGED <<ready, dropped, redelivered>>
    ELSE UNCHANGED brokerVars

Nack(p, m, requeue) ==
    IF session[p] = "open"
    THEN /\ unacked' = [unacked EXCEPT ![p] = @ \ {m}]
         /\ ready' = IF requeue THEN ready \cup {m} ELSE ready
         /\ redelivered' = IF requeue THEN redelivered \cup {m} ELSE redelivered
         /\ dropped' = IF requeue THEN dropped ELSE dropped \cup {m}
         /\ UNCHANGED acked
    ELSE UNCHANGED brokerVars

\* Whatever ends the session of p, the broker requeues what p had not settled
\* (nothing when the session was not open: see UnackedIsHeld).
Requeue(p) ==
    /\ ready' = ready \cup unacked[p]
    /\ redelivered' = redelivered \cup unacked[p]
    /\ unacked' = [unacked EXCEPT ![p] = {}]
    /\ UNCHANGED <<acked, dropped>>

Fault == faults < MaxFaults /\ faults' = faults + 1

\* The session breaks (network, broker restart).  The processor finds out
\* when it next reads the deliveries channel, not before.
SessionLost(p) ==
    /\ session[p] = "open"
    /\ Fault
    /\ Requeue(p)
    /\ session' = [session EXCEPT ![p] = "lost"]
    /\ UNCHANGED <<pc, buffer, current, cancelled, history>>

----------------------------------------------------------------------------
(* The loop of Consume.                                                    *)

Goto(p, from, to) == pc[p] = from /\ pc' = [pc EXCEPT ![p] = to]

\* Mutated form of LoopTop: the loop does not look at the context.
LoopForever(p) ==
    /\ Goto(p, "top", "dialing")
    /\ UNCHANGED <<brokerVars, session, buffer, current, cancelled, history, faults>>

LoopTop(p) ==
    /\ Goto(p, "top", IF cancelled[p] THEN "stopped" ELSE "dialing")
    /\ UNCHANGED <<brokerVars, session, buffer, current, cancelled, history, faults>>

\* Dial, channel, declare, Qos and consume all succeed.  Dialling does not
\* look at the context, so it may succeed after a signal too.
Connect(p) ==
    /\ Goto(p, "dialing", "consuming")
    /\ session' = [session EXCEPT ![p] = "open"]
    /\ UNCHANGED <<brokerVars, buffer, current, cancelled, history, faults>>

\* One of them fails; what was opened is closed.  Once the context is done
\* the library may refuse to consume, which is no fault.
ConnectFails(p) ==
    /\ Goto(p, "dialing", "waiting")
    /\ \/ cancelled[p] /\ UNCHANGED faults
       \/ Fault
    /\ UNCHANGED <<brokerVars, session, buffer, current, cancelled, history>>

\* The timer fires, or the context is done; when both are ready, select takes
\* either.
WaitReconnect(p) ==
    /\ \/ Goto(p, "waiting", "top")
       \/ cancelled[p] /\ Goto(p, "waiting", "stopped")
    /\ UNCHANGED <<brokerVars, session, buffer, current, cancelled, history, faults>>

----------------------------------------------------------------------------
(* One broker session: the select of consumeOnce, and handle.              *)

\* Mutated form of CloseSession: the queue was declared autoDelete, so it goes
\* with its last consumer.
CloseSessionAutoDelete(p) ==
    /\ session' = [session EXCEPT ![p] = "none"]
    /\ buffer' = [buffer EXCEPT ![p] = {}]
    /\ unacked' = [unacked EXCEPT ![p] = {}]
    /\ ready' = IF \E q \in Processors \ {p} : session[q] = "open" THEN ready ELSE {}
    /\ UNCHANGED <<acked, dropped, redelivered>>

\* The deferred close: the session is over, and what it had buffered is gone.
CloseSession(p) ==
    /\ session' = [session EXCEPT ![p] = "none"]
    /\ buffer' = [buffer EXCEPT ![p] = {}]
    /\ Requeue(p)

\* Mutated form of SessionEnds: the handler runs beside the loop, so the
\* session is closed under it.
SessionEndsUnderHandler(p) ==
    /\ \/ pc[p] = "consuming" /\ session[p] = "lost"
       \/ pc[p] \in {"consuming", "handling"} /\ cancelled[p]
    /\ pc' = [pc EXCEPT ![p] = IF @ = "handling" THEN @ ELSE "waiting"]
    /\ CloseSession(p)
    /\ UNCHANGED <<current, cancelled, history, faults>>

\* Mutated form of SessionEnds: consumeOnce returns without its deferred close.
SessionAbandoned(p) ==
    /\ Goto(p, "consuming", "waiting")
    /\ cancelled[p] \/ session[p] = "lost"
    /\ buffer' = [buffer EXCEPT ![p] = {}]
    /\ UNCHANGED <<brokerVars, session, current, cancelled, history, faults>>

\* The select of consumeOnce saw the context done, or the deliveries channel
\* closed because the session was lost.
SessionEnds(p) ==
    /\ Goto(p, "consuming", "waiting")
    /\ cancelled[p] \/ session[p] = "lost"
    /\ CloseSession(p)
    /\ UNCHANGED <<current, cancelled, history, faults>>

\* The select received a delivery.  It may do so when the context is done or
\* the session lost as well: select picks among the ready cases.
Receive(p, d) ==
    /\ pc[p] = "consuming"
    /\ d \in buffer[p]
    /\ buffer' = [buffer EXCEPT ![p] = @ \ {d}]

\* Mutated form of DropMalformed: handle returns without the nack.
SkipMalformed(p, d) ==
    /\ Receive(p, d)
    /\ d.msg \in Malformed
    /\ UNCHANGED <<brokerVars, pc, session, current, cancelled, history, faults>>

\* handle rejects a message that does not decode or has no task id.
DropMalformed(p, d) ==
    /\ Receive(p, d)
    /\ d.msg \in Malformed
    /\ Nack(p, d.msg, FALSE)
    /\ UNCHANGED <<pc, session, current, cancelled, history, faults>>

\* Mutated form of StartHandler: the message is handed on without its checks.
StartHandlerUnchecked(p, d) ==
    /\ Receive(p, d)
    /\ pc' = [pc EXCEPT ![p] = "handling"]
    /\ current' = [current EXCEPT ![p] = d]
    /\ attempts' = [attempts EXCEPT ![d.msg] = @ + 1]
    /\ UNCHANGED <<brokerVars, session, cancelled, succeeded, failed, faults>>

\* handle calls the handler on the task of the delivery.
StartHandler(p, d) ==
    /\ Receive(p, d)
    /\ d.msg \notin Malformed
    /\ pc' = [pc EXCEPT ![p] = "handling"]
    /\ current' = [current EXCEPT ![p] = d]
    /\ attempts' = [attempts EXCEPT ![d.msg] = @ + 1]
    /\ UNCHANGED <<brokerVars, session, cancelled, succeeded, failed, faults>>

\* handle is done with its delivery.
HandleReturns(p) ==
    /\ Goto(p, "handling", "consuming")
    /\ current' = [current EXCEPT ![p] = NoDelivery]
    /\ UNCHANGED <<session, buffer, cancelled, attempts, faults>>

\* The handler returned nil.
HandlerSucceeds(p) ==
    /\ HandleReturns(p)
    /\ Ack(p, current[p].msg)
    /\ succeeded' = succeeded \cup {current[p].msg}
    /\ UNCHANGED failed

\* Mutated form of HandlerFails: every failure requeues.
HandlerFailsRequeues(p) ==
    /\ HandleReturns(p)
    /\ Nack(p, current[p].msg, TRUE)
    /\ failed' = failed \cup {current[p].msg}
    /\ UNCHANGED succeeded

\* Mutated form of HandlerFails: no return after the requeueing nack, so the
\* delivery is acknowledged as well.
HandlerFailsFallsThrough(p) ==
    /\ HandleReturns(p)
    /\ ready' = ready \cup {current[p].msg}
    /\ acked' = acked \cup {current[p].msg}
    /\ unacked' = [unacked EXCEPT ![p] = @ \ {current[p].msg}]
    /\ failed' = failed \cup {current[p].msg}
    /\ UNCHANGED <<dropped, redelivered, succeeded>>

\* Mutated form of HandlerFails: a repeated failure is acknowledged.
HandlerFailsAcks(p) ==
    /\ HandleReturns(p)
    /\ IF current[p].redelivered
       THEN Ack(p, current[p].msg)
       ELSE Nack(p, current[p].msg, TRUE)
    /\ failed' = failed \cup {current[p].msg}
    /\ UNCHANGED succeeded

\* The handler returned an error: a delivery that carries the redelivered
\* flag is dropped, any other is requeued.
HandlerFails(p) ==
    /\ HandleReturns(p)
    /\ Nack(p, current[p].msg, ~current[p].redelivered)
    /\ failed' = failed \cup {current[p].msg}
    /\ UNCHANGED succeeded

----------------------------------------------------------------------------
(* The process around the loop.                                            *)

\* SIGINT or SIGTERM (signal.NotifyContext).
Cancel(p) ==
    /\ pc[p] \in Running
    /\ ~cancelled[p]
    /\ Fault
    /\ cancelled' = [cancelled EXCEPT ![p] = TRUE]
    /\ UNCHANGED <<brokerVars, pc, session, buffer, current, history>>

\* The process dies anywhere, also between the handler and the settlement.
Crash(p) ==
    /\ pc[p] \in Running
    /\ Fault
    /\ pc' = [pc EXCEPT ![p] = "dead"]
    /\ current' = [current EXCEPT ![p] = NoDelivery]
    /\ CloseSession(p)
    /\ UNCHANGED <<cancelled, history>>

\* The deployment starts the processor again (restart: unless-stopped).
Restart(p) ==
    /\ pc[p] \in Halted
    /\ pc' = [pc EXCEPT ![p] = "top"]
    /\ cancelled' = [cancelled EXCEPT ![p] = FALSE]
    /\ UNCHANGED <<brokerVars, session, buffer, current, history, faults>>

\* What the processor does by itself.
Step(p) ==
    \/ LoopTop(p)
    \/ Connect(p)
    \/ WaitReconnect(p)
    \/ SessionEnds(p)
    \/ \E d \in buffer[p] : DropMalformed(p, d) \/ StartHandler(p, d)
    \/ HandlerSucceeds(p)
    \/ HandlerFails(p)

\* What happens to it.
Environment(p) ==
    \/ ConnectFails(p)
    \/ SessionLost(p)
    \/ Cancel(p)
    \/ Crash(p)
    \/ Restart(p)

Next ==
    \/ \E m \in Messages : Publish(m)
    \/ \E p \in Processors, m \in Messages : Deliver(p, m)
    \/ \E p \in Processors : Step(p) \/ Environment(p)

Spec == Init /\ [][Next]_vars

(***************************************************************************)
(* Fairness.  A running processor keeps executing: every handler call      *)
(* returns (each request of Execute has a timeout and its polling a        *)
(* deadline), timers fire, and a dial that is not failed by a fault        *)
(* succeeds.  The broker keeps pushing a message to a session with room.   *)
(* Nothing is assumed of faults, of publishers or of Restart, nor that a   *)
(* handler ever succeeds, nor that select prefers the context.             *)
(***************************************************************************)
Fairness ==
    /\ \A p \in Processors : WF_vars(Step(p))
    /\ \A p \in Processors, m \in Messages : WF_vars(Deliver(p, m))

FairSpec == Spec /\ Fairness

----------------------------------------------------------------------------
(* Properties.                                                             *)

\* A message is in one place: waiting, with one processor, acknowledged or
\* dropped.  Whatever order sessions end, nacks and requeues come in, the
\* settlement in handle never leaves a message in two of them.
OnePlace ==
    /\ ready \cap (acked \cup dropped) = {}
    /\ acked \cap dropped = {}
    /\ \A p \in Processors : unacked[p] \cap (ready \cup acked \cup dropped) = {}
    /\ \A p, q \in Processors : p # q => unacked[p] \cap unacked[q] = {}

\* While a session is open the messages it owes the broker are exactly those
\* the processor still holds, and no session means nothing is owed: no path
\* through handle or consumeOnce forgets to settle or to close, which would
\* leave a message invisible to every processor.
UnackedIsHeld ==
    \A p \in Processors :
        unacked[p] = IF session[p] = "open" THEN {d.msg : d \in Held(p)} ELSE {}

\* Two processors execute the same task at the same time only when the
\* session of one of them broke: shutdowns, requeues and drops alone never
\* run a task twice at once.
ConcurrentOnlyAfterLoss ==
    \A p, q \in Processors :
        /\ p # q
        /\ pc[p] = "handling" /\ pc[q] = "handling"
        /\ current[p].msg = current[q].msg
        => "lost" \in {session[p], session[q]}

\* A message leaves the queue by acknowledgement only after a handler
\* returned nil for it, and a task is dropped only after a handler failed on
\* it and only when the broker had delivered it before.
SettledForAReason ==
    /\ acked \subseteq succeeded
    /\ dropped \ Malformed \subseteq failed \cap redelivered

\* A task that always fails is tried at most twice, and once more for every
\* fault: the redelivered flag ends the requeueing.
AttemptsBounded == \A m \in Messages : attempts[m] <= 2 + faults

\* A message that was accepted stays accounted for, and once it is settled it
\* is settled for good: no later step of a slow or restarted processor brings
\* it back or changes its fate.
SettledStays ==
    /\ Accepted \subseteq Accepted'
    /\ acked \subseteq acked'
    /\ dropped \subseteq dropped'

SettledForGood == [][SettledStays]_vars

\* What has become of a message, and which processors own the one they handle:
\* those whose session the broker still serves.
StateOf(m) ==
    CASE m \in acked -> "done"
      [] m \in dropped -> "dropped"
      [] m \in Accepted \ (acked \cup dropped) -> "open"
      [] OTHER -> "unsent"
Owners == {p \in Processors : pc[p] = "handling" /\ session[p] = "open"}

\* The queue and its consumers keep the promise of WorkQueue: whatever is
\* redelivered, requeued, buffered or lost, a task has one owner at a time whose
\* settlement counts and is final, and without faults two tries before a drop.
Queue == INSTANCE WorkQueue WITH
    Workers <- Processors,
    state <- [m \in Messages |-> StateOf(m)],
    work <- [p \in Processors |-> {d.msg : d \in {current[p]} \ {NoDelivery}}],
    owner <- Owners,
    tries <- attempts
QueueSpec == Queue!Spec

\* Every accepted message is eventually acknowledged or dropped, unless all
\* processors have halted.
EventuallySettled ==
    \A m \in Messages :
        m \in Accepted ~> \/ m \in acked \cup dropped
                         \/ \A p \in Processors : pc[p] \in Halted

\* A signalled processor stops, whatever it was doing.
ShutdownCompletes ==
    \A p \in Processors : cancelled[p] ~> pc[p] \in Halted

\* What port.go:52 and consumer.go:86 say of a dropped task: it failed twice.
DroppedAfterSecondFailure ==
    \A m \in dropped \ Malformed : attempts[m] >= 2

============================================================================
