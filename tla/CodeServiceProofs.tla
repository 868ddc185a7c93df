-------------------------- MODULE CodeServiceProofs --------------------------
(***************************************************************************)
(* Theorems about CodeService: its safety properties and the life cycle it *)
(* keeps, for any processors, messages, tasks, prefetch and faults.        *)
(***************************************************************************)
EXTENDS CodeService, TaskQueueProofs

\* How far a request is says whether its row exists.
RequestKnown ==
    \A t \in Ids :
        /\ request[t] \in {"none", "saving"} => row[t] = "none"
        /\ request[t] \in {"publishing", "retrying", "accepted"} => row[t] # "none"

\* A handler is in an execution that was counted, and has stored its result
\* before it reports success.
HandlerKnown ==
    \A p \in Processors :
        /\ phase[p] # "none" => attempt[p] # 0
        /\ phase[p] = "saved" => row[Handled(p)] = "ready"

\* A result that is stored or was seen is that of a ready row.
ReadyKnown ==
    \A t \in Ids :
        result[t] # 0 \/ seen[t] \in {"ready", "result"} => row[t] = "ready"

\* Without faults no session breaks and nobody is asked to stop.
QuietKnown == faults = 0 => \A p \in Processors : session[p] # "lost" /\ ~cancelled[p]

\* Without faults, a stored result that no handler has reported as a failure is
\* that of a message which is acknowledged or still with its writer.
WithWriter(m) ==
    \/ m \in acked
    \/ \E p \in Processors : phase[p] \in {"saved", "failed"} /\ current[p].msg = m
WriterKnown ==
    faults = 0 =>
    \A t \in Ids : result[t] # 0 /\ Sent(t) \cap failed = {} =>
                   \E m \in Sent(t) : WithWriter(m)

\* The inductive invariant: that of the queue, and the service's.
ServiceInv ==
    /\ IInv
    /\ ServiceTypeOK
    /\ RequestKnown
    /\ RowBeforeMessage
    /\ HandlerKnown
    /\ ReadyKnown
    /\ AckedIsReady
    /\ QuietKnown
    /\ WriterKnown

----------------------------------------------------------------------------
(* The queue under the service.                                            *)

\* Each step of the service is one of the queue, or leaves the queue alone.
LEMMA QueueStep == [ServiceNext]_allVars => [Next]_vars
  <1> SUFFICES ASSUME [ServiceNext]_allVars PROVE [Next]_vars
    OBVIOUS
  <1>1. ASSUME NEW t \in Ids, Submit(t) \/ SaveTask(t) \/ Poll(t) PROVE vars' = vars
    BY <1>1, Zenon DEF Submit, SaveTask, Poll, vars
  <1>2. ASSUME NEW t \in Ids, Write(t) PROVE Next
    BY <1>2 DEF Write, Next, Tasks
  <1>3. ASSUME NEW t \in Ids, Republish(t) \/ PublishSucceeds(t) \/ PublishFails(t)
        PROVE [Next]_vars
    BY <1>3, <1>2, Zenon DEF Republish, PublishSucceeds, PublishFails
  <1>4. ASSUME NEW m \in Messages, PublishMalformed(m) PROVE Next
    BY <1>4, Zenon DEF PublishMalformed, Next
  <1>5. ASSUME NEW p \in Processors, Consume(p) \/ Disturb(p) PROVE Next
    BY <1>5, Zenon DEF Consume, Disturb, Next, Step, Environment
  <1>6. ASSUME NEW p \in Processors, NEW d \in buffer[p], BeginTask(p, d) PROVE Next
    BY <1>6, Zenon DEF BeginTask, Begin, Next, Step
  <1>7. ASSUME NEW p \in Processors, Execute(p) \/ SaveTaskResult(p) PROVE vars' = vars
    BY <1>7, Zenon DEF Execute, SaveTaskResult, vars
  <1>8. ASSUME NEW p \in Processors, EndTask(p) \/ Die(p) PROVE Next
    BY <1>8, Zenon DEF EndTask, Die, Next, Step, Environment
  <1>9. ASSUME UNCHANGED allVars PROVE vars' = vars
    BY <1>9 DEF allVars
  <1> QED
    BY <1>1, <1>3, <1>4, <1>5, <1>6, <1>7, <1>8, <1>9, Zenon
       DEF ServiceNext, Serve, Process

\* A step of the queue that begins, ends or settles no execution.
Still ==
    /\ \A q \in Processors : pc'[q] = "handling" <=> pc[q] = "handling"
    /\ current' = current
    /\ acked' = acked
    /\ failed' = failed
    /\ faults' = 0 => faults = 0

\* No task appears in the queue.
NothingNew == Tasks \cap Accepted' \subseteq Accepted

\* A step of the service that concerns neither requests, rows nor handlers.
Background == Still /\ NothingNew /\ UNCHANGED serviceVars

\* The executions of the processors other than p go on.
OthersGoOn(p) ==
    \A q \in Processors \ {p} :
        /\ pc'[q] = "handling" <=> pc[q] = "handling"
        /\ current'[q] = current[q]

\* What the service leaves alone, the queue does.
LEMMA StillWhenUnchanged == UNCHANGED vars => Still /\ NothingNew
  BY DEF vars, brokerVars, consumerVars, history, Still, NothingNew, Accepted

\* Publishing begins and ends no execution, and adds one message.
LEMMA StillWhenPublished ==
    ASSUME NEW m, Publish(m)
    PROVE  Still /\ Accepted' = Accepted \cup {m}
  BY DEF Publish, consumerVars, history, Still, Accepted

\* A malformed message is no task.
LEMMA MalformedIsBackground ==
    ASSUME NEW m, PublishMalformed(m)
    PROVE  Background
  <1>1. Still /\ Accepted' = Accepted \cup {m}
    BY StillWhenPublished DEF PublishMalformed
  <1> QED
    BY <1>1 DEF PublishMalformed, Background, NothingNew, Tasks

\* A processor that receives, drops or loses nothing but its session leaves all
\* executions alone, and what it owed goes back to the queue.
LEMMA ConsumeIsBackground ==
    ASSUME IInv, NEW p \in Processors, Consume(p)
    PROVE  Background
  <1> USE DEF Goto, Receive, consumerVars, Still, NothingNew, Accepted, Background
  <1>0. pc \in [Processors -> Running \cup Halted] /\ unacked \in [Processors -> SUBSET Messages]
    BY DEF IInv, TypeOK
  <1>1. CASE LoopTop(p)
    BY <1>0, <1>1 DEF LoopTop, brokerVars, history, Consume
  <1>2. CASE Connect(p)
    BY <1>0, <1>2 DEF Connect, brokerVars, history, Consume
  <1>3. CASE WaitReconnect(p)
    BY <1>0, <1>3 DEF WaitReconnect, brokerVars, history, Consume
  <1>4. CASE SessionEnds(p)
    BY <1>0, <1>4 DEF SessionEnds, CloseSession, Requeue, history, Consume
  <1>5. ASSUME NEW d \in buffer[p], DropMalformed(p, d) PROVE Background
    <2>1. session[p] = "open" => d.msg \in unacked[p]
      BY <1>5 DEF IInv, UnackedIsHeld, Held
    <2> QED
      BY <1>0, <1>5, <2>1 DEF DropMalformed, Nack, brokerVars, history, Tasks, Consume
  <1> QED
    BY <1>1, <1>2, <1>3, <1>4, <1>5 DEF Consume

\* So does what happens to a processor, unless it dies.
LEMMA DisturbIsBackground ==
    ASSUME IInv, NEW p \in Processors, Disturb(p)
    PROVE  Background
  <1> USE DEF Goto, consumerVars, Still, NothingNew, Accepted, Background
  <1>0. /\ pc \in [Processors -> Running \cup Halted]
        /\ unacked \in [Processors -> SUBSET Messages]
        /\ faults \in Nat
    BY DEF IInv, TypeOK
  <1>1. CASE ConnectFails(p)
    BY <1>0, <1>1 DEF ConnectFails, Fault, brokerVars, history, Disturb
  <1>2. CASE SessionLost(p)
    BY <1>0, <1>2 DEF SessionLost, Requeue, Fault, history, Disturb
  <1>3. CASE Cancel(p)
    BY <1>0, <1>3 DEF Cancel, Fault, brokerVars, history, Disturb
  <1>4. CASE Restart(p)
    BY <1>0, <1>4 DEF Restart, Halted, brokerVars, history, Disturb
  <1>5. ASSUME NEW m \in Messages, Deliver(p, m) PROVE Background
    BY <1>0, <1>5 DEF Deliver, history, Disturb
  <1> QED
    BY <1>1, <1>2, <1>3, <1>4, <1>5 DEF Disturb

\* StartHandler begins one execution, of a task the processor had received.
LEMMA StartHandlerMove ==
    ASSUME IInv, NEW p \in Processors, NEW d \in buffer[p], StartHandler(p, d)
    PROVE  /\ OthersGoOn(p)
           /\ pc'[p] = "handling"
           /\ current'[p] = d
           /\ d.msg \in Tasks
           /\ NothingNew
           /\ UNCHANGED <<acked, failed, faults>>
  <1> USE DEF StartHandler, Receive, OthersGoOn
  <1>1. /\ pc \in [Processors -> Running \cup Halted]
        /\ current \in [Processors -> [msg : Tasks, redelivered : BOOLEAN] \cup {NoDelivery}]
    BY DEF IInv, TypeOK
  <1>2. d.msg \in Tasks
    BY DeliveryFields DEF IInv, TypeOK, Tasks
  <1>3. NothingNew
    BY DEF NothingNew, Accepted, brokerVars
  <1> QED
    BY <1>1, <1>2, <1>3 DEF brokerVars

\* The delivery in a handler whose session is open is owed to the broker.
LEMMA CurrentIsOwed ==
    ASSUME IInv, NEW p \in Processors, pc[p] = "handling"
    PROVE  /\ current[p].msg \in Tasks
           /\ session[p] # "lost" => current[p].msg \in unacked[p]
  <1>1. current[p] # NoDelivery /\ session[p] # "none"
    BY DEF IInv, PhaseInv
  <1>2. current[p].msg \in Tasks
    BY <1>1 DEF IInv, TypeOK
  <1>3. session[p] # "lost" => session[p] = "open"
    BY <1>1 DEF IInv, TypeOK
  <1>4. session[p] = "open" => current[p].msg \in unacked[p]
    BY <1>1 DEF IInv, UnackedIsHeld, Held
  <1> QED
    BY <1>2, <1>3, <1>4

\* A handler's return ends its execution; a success acknowledges nothing but
\* its own message, and does so while its session lasts.
LEMMA HandlerSucceedsMove ==
    ASSUME IInv, NEW p \in Processors, HandlerSucceeds(p)
    PROVE  /\ OthersGoOn(p)
           /\ pc[p] = "handling"
           /\ pc'[p] # "handling"
           /\ acked' \subseteq acked \cup {current[p].msg}
           /\ session[p] # "lost" => current[p].msg \in acked'
           /\ NothingNew
           /\ UNCHANGED <<failed, faults>>
  <1> USE DEF HandlerSucceeds, HandleReturns, Goto, OthersGoOn
  <1>1. /\ pc \in [Processors -> Running \cup Halted]
        /\ current \in [Processors -> [msg : Tasks, redelivered : BOOLEAN] \cup {NoDelivery}]
        /\ unacked \in [Processors -> SUBSET Messages]
    BY DEF IInv, TypeOK
  <1>2. session[p] = "open" => current[p].msg \in unacked[p]
    BY CurrentIsOwed
  <1>3. session[p] # "lost" => session[p] = "open"
    BY DEF IInv, TypeOK, PhaseInv
  <1>4. NothingNew
    BY <1>1, <1>2 DEF NothingNew, Accepted, Ack, brokerVars
  <1>5. acked' \subseteq acked \cup {current[p].msg}
    BY DEF Ack, brokerVars
  <1>6. session[p] = "open" => current[p].msg \in acked'
    BY DEF Ack, brokerVars
  <1> QED
    BY <1>1, <1>3, <1>4, <1>5, <1>6

\* A failure acknowledges nothing.
LEMMA HandlerFailsMove ==
    ASSUME IInv, NEW p \in Processors, HandlerFails(p)
    PROVE  /\ OthersGoOn(p)
           /\ pc[p] = "handling"
           /\ pc'[p] # "handling"
           /\ failed' = failed \cup {current[p].msg}
           /\ NothingNew
           /\ UNCHANGED <<acked, faults>>
  <1> USE DEF HandlerFails, HandleReturns, Goto, OthersGoOn
  <1>1. /\ pc \in [Processors -> Running \cup Halted]
        /\ current \in [Processors -> [msg : Tasks, redelivered : BOOLEAN] \cup {NoDelivery}]
        /\ unacked \in [Processors -> SUBSET Messages]
    BY DEF IInv, TypeOK
  <1>2. session[p] = "open" => current[p].msg \in unacked[p]
    BY CurrentIsOwed
  <1>4. NothingNew
    BY <1>1, <1>2 DEF NothingNew, Accepted, Nack, brokerVars
  <1>5. acked' = acked
    BY DEF Nack, brokerVars
  <1> QED
    BY <1>1, <1>4, <1>5

\* A crash ends the execution of its processor, and is a fault.
LEMMA CrashMove ==
    ASSUME IInv, NEW p \in Processors, Crash(p)
    PROVE  /\ OthersGoOn(p)
           /\ pc'[p] # "handling"
           /\ NothingNew
           /\ UNCHANGED <<acked, failed>>
           /\ faults' # 0
  <1> USE DEF Crash, CloseSession, Requeue, OthersGoOn
  <1>1. /\ pc \in [Processors -> Running \cup Halted]
        /\ current \in [Processors -> [msg : Tasks, redelivered : BOOLEAN] \cup {NoDelivery}]
        /\ unacked \in [Processors -> SUBSET Messages]
        /\ faults \in Nat
    BY DEF IInv, TypeOK
  <1>2. NothingNew
    BY <1>1 DEF NothingNew, Accepted
  <1>3. faults' # 0
    BY <1>1 DEF Fault
  <1> QED
    BY <1>1, <1>2, <1>3 DEF history

\* Without faults sessions last and nobody is told to stop.
LEMMA QuietStep ==
    ASSUME TypeOK, QuietKnown, [Next]_vars
    PROVE  QuietKnown'
  <1> USE DEF Goto, Receive, HandleReturns, consumerVars, TypeOK, QuietKnown
  <1> SUFFICES ASSUME faults' = 0, NEW q \in Processors
               PROVE  session'[q] # "lost" /\ ~cancelled'[q]
    OBVIOUS
  <1>1. faults = 0 => session[q] # "lost" /\ ~cancelled[q]
    OBVIOUS
  <1>2. CASE \E p \in Processors : SessionLost(p) \/ Cancel(p) \/ Crash(p)
    BY <1>2 DEF SessionLost, Cancel, Crash, Fault
  <1>3. CASE \E m \in Messages : Publish(m) \/ \E p \in Processors : Deliver(p, m)
    BY <1>1, <1>3 DEF Publish, Deliver
  <1>4. ASSUME NEW p \in Processors, LoopTop(p) \/ WaitReconnect(p)
        PROVE  session'[q] # "lost" /\ ~cancelled'[q]
    BY <1>1, <1>4 DEF LoopTop, WaitReconnect
  <1>5. ASSUME NEW p \in Processors, Connect(p)
        PROVE  session'[q] # "lost" /\ ~cancelled'[q]
    BY <1>1, <1>5 DEF Connect
  <1>6. ASSUME NEW p \in Processors, SessionEnds(p)
        PROVE  session'[q] # "lost" /\ ~cancelled'[q]
    BY <1>1, <1>6 DEF SessionEnds, CloseSession
  <1>7. ASSUME NEW p \in Processors, NEW d \in buffer[p], DropMalformed(p, d) \/ StartHandler(p, d)
        PROVE  session'[q] # "lost" /\ ~cancelled'[q]
    BY <1>1, <1>7 DEF DropMalformed, StartHandler
  <1>8. ASSUME NEW p \in Processors, HandlerSucceeds(p) \/ HandlerFails(p)
        PROVE  session'[q] # "lost" /\ ~cancelled'[q]
    BY <1>1, <1>8 DEF HandlerSucceeds, HandlerFails
  <1>9. ASSUME NEW p \in Processors, ConnectFails(p)
        PROVE  session'[q] # "lost" /\ ~cancelled'[q]
    BY <1>1, <1>9 DEF ConnectFails, Fault
  <1>10. ASSUME NEW p \in Processors, Restart(p)
        PROVE  session'[q] # "lost" /\ ~cancelled'[q]
    BY <1>1, <1>10 DEF Restart
  <1>11. CASE UNCHANGED vars
    BY <1>1, <1>11 DEF vars
  <1> QED
    BY <1>2, <1>3, <1>4, <1>5, <1>6, <1>7, <1>8, <1>9, <1>10, <1>11
       DEF Next, Step, Environment

----------------------------------------------------------------------------
(* The service's own state.                                                *)

\* What the server does changes no handler, and puts no task in the queue but
\* one whose row exists.
LEMMA ServeMove ==
    ASSUME NEW t \in Ids, Submit(t) \/ Serve(t) \/ Poll(t), RequestKnown
    PROVE  /\ Still
           /\ \A m \in Tasks \cap Accepted' : m \in Accepted \/ row[TaskOf[m]] # "none"
           /\ UNCHANGED <<result, handlerVars>>
  <1>1. UNCHANGED <<result, handlerVars>>
    BY Zenon DEF Serve, Submit, SaveTask, Republish, PublishSucceeds, PublishFails, Poll
  <1>2. CASE UNCHANGED vars
    BY <1>1, <1>2, StillWhenUnchanged DEF NothingNew
  <1>3. CASE Write(t) /\ request[t] \in {"publishing", "retrying"}
    <2>1. PICK m \in Tasks : TaskOf[m] = t /\ Publish(m)
      BY <1>3 DEF Write
    <2>2. row[TaskOf[m]] # "none"
      BY <1>3, <2>1 DEF RequestKnown
    <2> QED
      BY <1>1, <2>1, <2>2, StillWhenPublished
  <1>4. UNCHANGED vars \/ (Write(t) /\ request[t] \in {"publishing", "retrying"})
    BY DEF Serve, Submit, SaveTask, Republish, PublishSucceeds, PublishFails, Poll, Request
  <1> QED
    BY <1>2, <1>3, <1>4

\* Every step of the service keeps the types of its state.
LEMMA ServiceTypeStep ==
    ASSUME IInv, ServiceTypeOK, RequestKnown, [ServiceNext]_allVars
    PROVE  ServiceTypeOK'
  <1> USE DEF Request, Phase, InsertRow
  <1>0. /\ row \in [Ids -> {"none", "in_progress", "ready"}]
        /\ result \in [Ids -> Nat]
        /\ request \in [Ids -> {"none", "saving", "publishing", "retrying", "accepted", "failed"}]
        /\ phase \in [Processors -> {"none", "executing", "saving", "saved", "failed"}]
        /\ attempt \in [Processors -> Nat]
        /\ runs \in [Ids -> Nat]
        /\ seen \in [Ids -> {"nothing", "in_progress", "ready", "result"}]
        /\ \A p \in Processors : phase[p] # "none" <=> pc[p] = "handling"
    BY DEF ServiceTypeOK
  <1>1. ASSUME Background PROVE ServiceTypeOK'
    BY <1>0, <1>1 DEF Background, Still, serviceVars, handlerVars, ServiceTypeOK
  <1>2. ASSUME NEW t \in Ids, Submit(t) \/ Serve(t) \/ Poll(t) PROVE ServiceTypeOK'
    <2>1. Still /\ UNCHANGED <<result, handlerVars>>
      BY <1>2, ServeMove
    <2>2. row' \in [Ids -> {"none", "in_progress", "ready"}]
      BY <1>0, <1>2 DEF Serve, Submit, SaveTask, Republish, PublishSucceeds, PublishFails, Poll
    <2>3. request' \in [Ids -> {"none", "saving", "publishing", "retrying", "accepted", "failed"}]
      BY <1>0, <1>2 DEF Serve, Submit, SaveTask, Republish, PublishSucceeds, PublishFails, Poll
    <2>4. seen' \in [Ids -> {"nothing", "in_progress", "ready", "result"}]
      <3>1. request[t] = "accepted" => row[t] \in {"in_progress", "ready"}
        BY <1>0 DEF RequestKnown
      <3> QED
        BY <1>0, <1>2, <3>1 DEF Serve, Submit, SaveTask, Republish, PublishSucceeds, PublishFails, Poll
    <2> QED
      BY <1>0, <2>1, <2>2, <2>3, <2>4 DEF Still, handlerVars, ServiceTypeOK
  <1>3. ASSUME NEW p \in Processors, NEW d \in buffer[p], BeginTask(p, d) PROVE ServiceTypeOK'
    <2>1. StartHandler(p, d)
      BY <1>3 DEF BeginTask, Begin
    <2>2. OthersGoOn(p) /\ pc'[p] = "handling" /\ d.msg \in Tasks
      BY <2>1, StartHandlerMove
    <2>3. TaskOf[d.msg] \in Ids
      BY <2>2, TaskOfAssumption
    <2>4. phase' = [phase EXCEPT ![p] = "executing"] /\ UNCHANGED <<row, result, request, seen>>
      BY <1>3 DEF BeginTask, Begin
    <2>5. runs' \in [Ids -> Nat]
      BY <1>0, <1>3, <2>3 DEF BeginTask, Begin
    <2>6. attempt' \in [Processors -> Nat]
      BY <1>0, <1>3, <2>3, <2>5 DEF BeginTask, Begin
    <2>7. \A q \in Processors : phase'[q] # "none" <=> pc'[q] = "handling"
      BY <1>0, <2>2, <2>4 DEF OthersGoOn
    <2> QED
      BY <1>0, <2>4, <2>5, <2>6, <2>7 DEF ServiceTypeOK
  <1>4. ASSUME NEW p \in Processors, Execute(p) PROVE ServiceTypeOK'
    BY <1>0, <1>4, StillWhenUnchanged DEF Execute, Still, ServiceTypeOK
  <1>5. ASSUME NEW p \in Processors, SaveTaskResult(p) PROVE ServiceTypeOK'
    <2>1. Still /\ UNCHANGED <<request, attempt, runs, seen>>
      BY <1>5, StillWhenUnchanged DEF SaveTaskResult
    <2>2. phase' \in [Processors -> {"none", "executing", "saving", "saved", "failed"}]
      BY <1>0, <1>5 DEF SaveTaskResult
    <2>3. \A q \in Processors : phase'[q] # "none" <=> phase[q] # "none"
      BY <1>0, <1>5 DEF SaveTaskResult
    <2>4. row' \in [Ids -> {"none", "in_progress", "ready"}] /\ result' \in [Ids -> Nat]
      BY <1>0, <1>5 DEF SaveTaskResult, WriteResult
    <2> QED
      BY <1>0, <2>1, <2>2, <2>3, <2>4 DEF Still, ServiceTypeOK
  <1>6. ASSUME NEW p \in Processors, EndTask(p) \/ Die(p) PROVE ServiceTypeOK'
    <2>1. OthersGoOn(p) /\ pc'[p] # "handling"
      BY <1>6, HandlerSucceedsMove, HandlerFailsMove, CrashMove DEF EndTask, Die
    <2>2. phase' = [phase EXCEPT ![p] = "none"]
      BY <1>6 DEF EndTask, Die
    <2>3. UNCHANGED <<row, result, request, attempt, runs, seen>>
      BY <1>6 DEF EndTask, Die
    <2> QED
      BY <1>0, <2>1, <2>2, <2>3 DEF OthersGoOn, ServiceTypeOK
  <1>7. CASE UNCHANGED allVars
    BY <1>1, <1>7, StillWhenUnchanged DEF allVars, Background
  <1> QED
    BY <1>1, <1>2, <1>3, <1>4, <1>5, <1>6, <1>7, ConsumeIsBackground, DisturbIsBackground,
       MalformedIsBackground, Zenon DEF ServiceNext, Process

\* Only the insert and the update of the result change a row.
LEMMA RowSteps ==
    ASSUME ServiceTypeOK, [ServiceNext]_allVars
    PROVE  \/ UNCHANGED <<row, result>>
           \/ \E t \in Ids : SaveTask(t) /\ InsertRow(t)
           \/ \E p \in Processors : SaveTaskResult(p) /\ WriteResult(p)
  <1>1. ASSUME NEW t \in Ids, Submit(t) \/ Serve(t) \/ Poll(t)
        PROVE UNCHANGED <<row, result>> \/ (SaveTask(t) /\ InsertRow(t))
    BY <1>1, Zenon DEF Serve, Submit, SaveTask, Republish, PublishSucceeds, PublishFails, Poll
  <1>2. ASSUME NEW p \in Processors, Consume(p) \/ Disturb(p) \/ Execute(p) \/ EndTask(p) \/ Die(p)
        PROVE UNCHANGED <<row, result>>
    BY <1>2, Zenon DEF Consume, Disturb, Execute, EndTask, Die, serviceVars
  <1>3. ASSUME NEW p \in Processors, NEW d \in buffer[p], BeginTask(p, d)
        PROVE UNCHANGED <<row, result>>
    BY <1>3, Zenon DEF BeginTask
  <1>4. ASSUME NEW p \in Processors, SaveTaskResult(p)
        PROVE UNCHANGED <<row, result>> \/ WriteResult(p)
    BY <1>4, Zenon DEF SaveTaskResult
  <1>5. ASSUME NEW m \in Messages, PublishMalformed(m) PROVE UNCHANGED <<row, result>>
    BY <1>5, Zenon DEF PublishMalformed, serviceVars
  <1>6. CASE UNCHANGED allVars
    BY <1>6, Zenon DEF allVars, serviceVars
  <1> QED
    BY <1>1, <1>2, <1>3, <1>4, <1>5, <1>6, Zenon DEF ServiceNext, Process

\* A row that exists stays, and one that is ready stays ready.
LEMMA RowsAdvance ==
    ASSUME ServiceTypeOK, RequestKnown, [ServiceNext]_allVars, NEW t \in Ids
    PROVE  /\ row[t] # "none" => row'[t] # "none"
           /\ row[t] = "ready" => row'[t] = "ready"
  <1>0. row \in [Ids -> {"none", "in_progress", "ready"}]
    BY DEF ServiceTypeOK
  <1>1. ASSUME NEW u \in Ids, SaveTask(u), InsertRow(u)
        PROVE  row[u] = "none" /\ row' = [row EXCEPT ![u] = "in_progress"]
    BY <1>1 DEF SaveTask, Request, InsertRow, RequestKnown
  <1>2. ASSUME NEW p \in Processors, WriteResult(p)
        PROVE  row' = [row EXCEPT ![Handled(p)] = "ready"]
    BY <1>2 DEF WriteResult
  <1> QED
    BY <1>0, <1>1, <1>2, RowSteps

\* Every step keeps requests in line with their rows.
LEMMA RequestStep ==
    ASSUME IInv, ServiceTypeOK, RequestKnown, RowBeforeMessage, [ServiceNext]_allVars
    PROVE  RequestKnown'
  <1> SUFFICES ASSUME NEW t \in Ids
               PROVE  /\ request'[t] \in {"none", "saving"} => row'[t] = "none"
                      /\ request'[t] \in {"publishing", "retrying", "accepted"} => row'[t] # "none"
    BY DEF RequestKnown
  <1>0. /\ row \in [Ids -> {"none", "in_progress", "ready"}]
        /\ request \in [Ids -> {"none", "saving", "publishing", "retrying", "accepted", "failed"}]
    BY DEF ServiceTypeOK
  <1>1. CASE UNCHANGED <<row, request>>
    BY <1>1 DEF RequestKnown
  <1>2. ASSUME NEW u \in Ids, Submit(u) \/ SaveTask(u) \/ Republish(u) \/ PublishSucceeds(u) \/ PublishFails(u)
        PROVE  /\ request' = [request EXCEPT ![u] = request'[u]]
               /\ row' = [row EXCEPT ![u] = row'[u]]
    BY <1>0, <1>2 DEF Submit, SaveTask, Republish, PublishSucceeds, PublishFails, Request, InsertRow
  <1>3. ASSUME NEW u \in Ids, Submit(u)
        PROVE  request'[u] = "saving" /\ row'[u] = "none"
    BY <1>0, <1>3 DEF Submit, Request, RequestKnown
  <1>4. ASSUME NEW u \in Ids, SaveTask(u)
        PROVE  request'[u] = "failed" \/ (request'[u] = "publishing" /\ row'[u] = "in_progress")
    BY <1>0, <1>4 DEF SaveTask, Request, InsertRow
  <1>5. ASSUME NEW u \in Ids, Republish(u) \/ PublishSucceeds(u)
        PROVE  request'[u] \in {"retrying", "accepted"} /\ row'[u] # "none"
    BY <1>0, <1>5 DEF Republish, PublishSucceeds, Request, RequestKnown
  <1>6. ASSUME NEW u \in Ids, PublishFails(u)
        PROVE  request'[u] = "failed"
    BY <1>0, <1>6 DEF PublishFails, Request
  <1>7. ASSUME NEW u \in Ids, Submit(u) \/ SaveTask(u) \/ Republish(u) \/ PublishSucceeds(u) \/ PublishFails(u)
        PROVE  /\ request'[t] \in {"none", "saving"} => row'[t] = "none"
               /\ request'[t] \in {"publishing", "retrying", "accepted"} => row'[t] # "none"
    <2>1. CASE t # u
      BY <1>0, <1>2, <1>7, <2>1 DEF RequestKnown
    <2>2. CASE t = u
      BY <1>3, <1>4, <1>5, <1>6, <1>7, <2>2
    <2> QED
      BY <2>1, <2>2
  <1>8. ASSUME NEW p \in Processors, SaveTaskResult(p), WriteResult(p)
        PROVE  /\ request'[t] \in {"none", "saving"} => row'[t] = "none"
               /\ request'[t] \in {"publishing", "retrying", "accepted"} => row'[t] # "none"
    BY <1>0, <1>8 DEF SaveTaskResult, WriteResult, RequestKnown
  <1>9. \/ UNCHANGED request
        \/ \E u \in Ids : Submit(u) \/ SaveTask(u) \/ Republish(u) \/ PublishSucceeds(u) \/ PublishFails(u)
    <2>1. ASSUME NEW p \in Processors, Process(p) \/ Die(p) \/ Disturb(p) PROVE UNCHANGED request
      BY <2>1, Zenon DEF Process, Consume, Disturb, BeginTask, Execute, SaveTaskResult, EndTask, Die,
         serviceVars
    <2>2. ASSUME NEW m \in Messages, PublishMalformed(m) PROVE UNCHANGED request
      BY <2>2, Zenon DEF PublishMalformed, serviceVars
    <2>3. ASSUME NEW u \in Ids, Poll(u) PROVE UNCHANGED request
      BY <2>3, Zenon DEF Poll
    <2>4. CASE UNCHANGED allVars
      BY <2>4, Zenon DEF allVars, serviceVars
    <2> QED
      BY <2>1, <2>2, <2>3, <2>4, Zenon DEF ServiceNext, Serve
  <1>10. CASE UNCHANGED request
    BY <1>1, <1>7, <1>8, <1>10, RowSteps
  <1> QED
    BY <1>7, <1>9, <1>10

\* Every step of the service either concerns no handler, or is one of p's.
LEMMA HandlerSteps ==
    ASSUME IInv, RequestKnown, [ServiceNext]_allVars
    PROVE  \/ Still /\ UNCHANGED handlerVars
           \/ \E p \in Processors : \/ \E d \in buffer[p] : BeginTask(p, d)
                                    \/ Execute(p) \/ SaveTaskResult(p) \/ EndTask(p) \/ Die(p)
  <1>1. Background => Still /\ UNCHANGED handlerVars
    BY DEF Background, serviceVars
  <1>2. ASSUME NEW p \in Processors, Consume(p) \/ Disturb(p) PROVE Background
    BY <1>2, ConsumeIsBackground, DisturbIsBackground
  <1>3. ASSUME NEW m \in Messages, PublishMalformed(m) PROVE Background
    BY <1>3, MalformedIsBackground
  <1>4. ASSUME NEW t \in Ids, Submit(t) \/ Serve(t) \/ Poll(t) PROVE Still /\ UNCHANGED handlerVars
    BY <1>4, ServeMove
  <1>5. CASE UNCHANGED allVars
    BY <1>5, StillWhenUnchanged DEF allVars, serviceVars
  <1> QED
    BY <1>1, <1>2, <1>3, <1>4, <1>5, Zenon DEF ServiceNext, Process

\* A task in the queue has a row, then as now.
LEMMA RowBeforeMessageStep ==
    ASSUME IInv, ServiceTypeOK, RequestKnown, RowBeforeMessage, [ServiceNext]_allVars
    PROVE  RowBeforeMessage'
  <1>1. \A m \in Tasks \cap Accepted' : m \in Accepted \/ row[TaskOf[m]] # "none"
    <2>1. NothingNew => \A m \in Tasks \cap Accepted' : m \in Accepted \/ row[TaskOf[m]] # "none"
      BY DEF NothingNew
    <2>2. ASSUME NEW p \in Processors, Consume(p) \/ Disturb(p) PROVE NothingNew
      BY <2>2, ConsumeIsBackground, DisturbIsBackground DEF Background
    <2>3. ASSUME NEW p \in Processors, NEW d \in buffer[p], BeginTask(p, d) PROVE NothingNew
      BY <2>3, StartHandlerMove DEF BeginTask, Begin
    <2>4. ASSUME NEW p \in Processors, Execute(p) \/ SaveTaskResult(p) PROVE NothingNew
      BY <2>4, StillWhenUnchanged DEF Execute, SaveTaskResult
    <2>5. ASSUME NEW p \in Processors, EndTask(p) \/ Die(p) PROVE NothingNew
      BY <2>5, HandlerSucceedsMove, HandlerFailsMove, CrashMove DEF EndTask, Die
    <2>6. ASSUME NEW m \in Messages, PublishMalformed(m) PROVE NothingNew
      BY <2>6, MalformedIsBackground DEF Background
    <2>7. CASE UNCHANGED allVars
      BY <2>1, <2>7, StillWhenUnchanged DEF allVars
    <2> QED
      BY <2>1, <2>2, <2>3, <2>4, <2>5, <2>6, <2>7, ServeMove, Zenon DEF ServiceNext, Process
  <1>2. \A m \in Tasks : TaskOf[m] \in Ids
    BY TaskOfAssumption
  <1>3. \A t \in Ids : row[t] # "none" => row'[t] # "none"
    BY RowsAdvance
  <1> QED
    BY <1>1, <1>2, <1>3 DEF RowBeforeMessage

\* Every step keeps what is known of handlers.
LEMMA HandlerStep ==
    ASSUME IInv, ServiceTypeOK, RequestKnown, HandlerKnown, [ServiceNext]_allVars
    PROVE  HandlerKnown'
  <1> SUFFICES ASSUME NEW q \in Processors
               PROVE  /\ phase'[q] # "none" => attempt'[q] # 0
                      /\ phase'[q] = "saved" => row'[Handled(q)'] = "ready"
    BY DEF HandlerKnown
  <1>0. /\ phase \in [Processors -> {"none", "executing", "saving", "saved", "failed"}]
        /\ attempt \in [Processors -> Nat]
        /\ runs \in [Ids -> Nat]
        /\ row \in [Ids -> {"none", "in_progress", "ready"}]
        /\ \A p \in Processors : phase[p] # "none" <=> pc[p] = "handling"
    BY DEF ServiceTypeOK
  <1>1. /\ phase[q] # "none" => attempt[q] # 0
        /\ phase[q] = "saved" => row[Handled(q)] = "ready"
    BY DEF HandlerKnown
  <1>2. phase[q] # "none" => Handled(q) \in Ids
    BY <1>0, CurrentIsOwed, TaskOfAssumption DEF Handled
  <1>3. phase[q] = "saved" => row'[Handled(q)] = "ready"
    BY <1>1, <1>2, RowsAdvance
  \* A handler that goes on with its delivery and its phase.
  <1>4. ASSUME phase'[q] = phase[q], attempt'[q] = attempt[q], phase[q] # "none" => current'[q] = current[q]
        PROVE  /\ phase'[q] # "none" => attempt'[q] # 0
               /\ phase'[q] = "saved" => row'[Handled(q)'] = "ready"
    BY <1>1, <1>3, <1>4 DEF Handled
  <1>5. CASE Still /\ UNCHANGED handlerVars
    BY <1>4, <1>5 DEF Still, handlerVars
  <1>6. ASSUME NEW p \in Processors, NEW d \in buffer[p], BeginTask(p, d)
        PROVE  /\ phase'[q] # "none" => attempt'[q] # 0
               /\ phase'[q] = "saved" => row'[Handled(q)'] = "ready"
    <2>1. StartHandler(p, d)
      BY <1>6 DEF BeginTask, Begin
    <2>2. OthersGoOn(p) /\ d.msg \in Tasks
      BY <2>1, StartHandlerMove
    <2>3. TaskOf[d.msg] \in Ids
      BY <2>2, TaskOfAssumption
    <2>4. /\ phase' = [phase EXCEPT ![p] = "executing"]
          /\ attempt' = [attempt EXCEPT ![p] = runs'[TaskOf[d.msg]]]
          /\ runs' = [runs EXCEPT ![TaskOf[d.msg]] = @ + 1]
      BY <1>6 DEF BeginTask, Begin, Phase
    <2>5. CASE q # p
      BY <1>0, <1>4, <2>2, <2>4, <2>5 DEF OthersGoOn
    <2>6. CASE q = p
      <3>1. phase'[q] = "executing" /\ attempt'[q] = runs[TaskOf[d.msg]] + 1
        BY <1>0, <2>3, <2>4, <2>6
      <3> QED
        BY <1>0, <2>3, <3>1
    <2> QED
      BY <2>5, <2>6
  <1>7. ASSUME NEW p \in Processors, Execute(p)
        PROVE  /\ phase'[q] # "none" => attempt'[q] # 0
               /\ phase'[q] = "saved" => row'[Handled(q)'] = "ready"
    <2>1. UNCHANGED <<current, attempt>>
      BY <1>7 DEF Execute, vars, consumerVars
    <2>2. CASE q # p
      BY <1>0, <1>4, <1>7, <2>1, <2>2 DEF Execute, Phase
    <2>3. CASE q = p
      BY <1>0, <1>1, <1>7, <2>1, <2>3 DEF Execute, Phase
    <2> QED
      BY <2>2, <2>3
  <1>8. ASSUME NEW p \in Processors, SaveTaskResult(p)
        PROVE  /\ phase'[q] # "none" => attempt'[q] # 0
               /\ phase'[q] = "saved" => row'[Handled(q)'] = "ready"
    <2>1. UNCHANGED <<current, attempt>>
      BY <1>8 DEF SaveTaskResult, vars, consumerVars
    <2>2. CASE q # p
      BY <1>0, <1>4, <1>8, <2>1, <2>2 DEF SaveTaskResult, Phase
    <2>3. CASE q = p
      <3>1. phase[q] # "none"
        BY <1>8, <2>3 DEF SaveTaskResult, Phase
      <3>2. phase'[q] = "saved" => row' = [row EXCEPT ![Handled(q)] = "ready"]
        BY <1>0, <1>8, <2>3 DEF SaveTaskResult, Phase, WriteResult
      <3>3. Handled(q)' = Handled(q)
        BY <2>1 DEF Handled
      <3> QED
        BY <1>0, <1>1, <1>2, <2>1, <3>1, <3>2, <3>3
    <2> QED
      BY <2>2, <2>3
  <1>9. ASSUME NEW p \in Processors, EndTask(p) \/ Die(p)
        PROVE  /\ phase'[q] # "none" => attempt'[q] # 0
               /\ phase'[q] = "saved" => row'[Handled(q)'] = "ready"
    <2>1. OthersGoOn(p)
      BY <1>9, HandlerSucceedsMove, HandlerFailsMove, CrashMove DEF EndTask, Die
    <2>2. phase' = [phase EXCEPT ![p] = "none"] /\ UNCHANGED attempt
      BY <1>9 DEF EndTask, Die, Phase
    <2>3. CASE q # p
      BY <1>0, <1>4, <2>1, <2>2, <2>3 DEF OthersGoOn
    <2>4. CASE q = p
      BY <1>0, <2>2, <2>4
    <2> QED
      BY <2>3, <2>4
  <1> QED
    BY <1>5, <1>6, <1>7, <1>8, <1>9, HandlerSteps, Zenon

\* Only a poll changes what the client knows.
LEMMA SeenSteps ==
    ASSUME [ServiceNext]_allVars
    PROVE  UNCHANGED seen \/ \E t \in Ids : Poll(t)
  <1>1. ASSUME NEW t \in Ids, Submit(t) \/ Serve(t) PROVE UNCHANGED seen
    BY <1>1, Zenon DEF Serve, Submit, SaveTask, Republish, PublishSucceeds, PublishFails
  <1>2. ASSUME NEW p \in Processors, Process(p) \/ Die(p) \/ Disturb(p) PROVE UNCHANGED seen
    BY <1>2, Zenon DEF Process, Consume, Disturb, BeginTask, Execute, SaveTaskResult, EndTask, Die,
       serviceVars
  <1>3. ASSUME NEW m \in Messages, PublishMalformed(m) PROVE UNCHANGED seen
    BY <1>3, Zenon DEF PublishMalformed, serviceVars
  <1>4. CASE UNCHANGED allVars
    BY <1>4 DEF allVars, serviceVars
  <1> QED
    BY <1>1, <1>2, <1>3, <1>4, Zenon DEF ServiceNext

\* Stored and seen results stay those of ready rows.
LEMMA ReadyStep ==
    ASSUME ServiceTypeOK, RequestKnown, ReadyKnown, [ServiceNext]_allVars
    PROVE  ReadyKnown'
  <1> SUFFICES ASSUME NEW t \in Ids, result'[t] # 0 \/ seen'[t] \in {"ready", "result"}
               PROVE  row'[t] = "ready"
    BY DEF ReadyKnown
  <1>0. /\ row \in [Ids -> {"none", "in_progress", "ready"}]
        /\ result \in [Ids -> Nat]
        /\ seen \in [Ids -> {"nothing", "in_progress", "ready", "result"}]
    BY DEF ServiceTypeOK
  <1>1. result[t] # 0 \/ seen[t] \in {"ready", "result"} => row'[t] = "ready"
    BY RowsAdvance DEF ReadyKnown
  <1>2. row[t] = "ready" => row'[t] = "ready"
    BY RowsAdvance
  <1>3. CASE result'[t] # 0 /\ result[t] = 0
    <2>1. PICK p \in Processors : WriteResult(p)
      BY <1>3, RowSteps DEF SaveTask
    <2>2. /\ row' = [row EXCEPT ![Handled(p)] = "ready"]
          /\ result' = [result EXCEPT ![Handled(p)] = attempt[p]]
      BY <2>1 DEF WriteResult
    <2> QED
      BY <1>0, <1>3, <2>2
  <1>4. CASE seen'[t] # seen[t]
    <2>1. PICK u \in Ids : Poll(u)
      BY <1>4, SeenSteps
    <2>2. seen'[t] \in {row[t], IF result[t] = 0 THEN seen[t] ELSE "result"}
      BY <1>0, <1>4, <2>1 DEF Poll
    <2> QED
      BY <1>0, <1>1, <1>2, <1>3, <2>2
  <1> QED
    BY <1>1, <1>3, <1>4

\* A message is acknowledged by a handler that has stored the result.
LEMMA AckedStep ==
    ASSUME IInv, ServiceTypeOK, RequestKnown, HandlerKnown, AckedIsReady, [ServiceNext]_allVars
    PROVE  AckedIsReady'
  <1> SUFFICES ASSUME NEW m \in Tasks, m \in acked'
               PROVE  row'[TaskOf[m]] = "ready"
    BY DEF AckedIsReady
  <1>1. TaskOf[m] \in Ids
    BY TaskOfAssumption
  <1>2. row[TaskOf[m]] = "ready" => row'[TaskOf[m]] = "ready"
    BY <1>1, RowsAdvance
  <1>3. CASE m \in acked
    BY <1>2, <1>3 DEF AckedIsReady
  <1>4. ASSUME NEW p \in Processors, EndTask(p), m \notin acked PROVE row[TaskOf[m]] = "ready"
    <2>1. phase[p] = "saved" /\ HandlerSucceeds(p)
      BY <1>4, HandlerFailsMove DEF EndTask, Phase
    <2>2. m = current[p].msg
      BY <1>4, <2>1, HandlerSucceedsMove
    <2> QED
      BY <2>1, <2>2 DEF HandlerKnown, Handled
  <1>5. ASSUME NEW p \in Processors, NEW d \in buffer[p], BeginTask(p, d) PROVE acked' = acked
    BY <1>5, StartHandlerMove DEF BeginTask, Begin
  <1>6. ASSUME NEW p \in Processors, Execute(p) \/ SaveTaskResult(p) PROVE acked' = acked
    BY <1>6, StillWhenUnchanged DEF Execute, SaveTaskResult, Still
  <1>7. ASSUME NEW p \in Processors, Die(p) PROVE acked' = acked
    BY <1>7, CrashMove DEF Die
  <1> QED
    BY <1>2, <1>3, <1>4, <1>5, <1>6, <1>7, HandlerSteps DEF Still

\* While its session lasts, the delivery in a handler is one of the messages
\* its task has in the queue, and no other processor has it.
LEMMA HandledIsSent ==
    ASSUME IInv, NEW p \in Processors, pc[p] = "handling", session[p] # "lost"
    PROVE  /\ current[p].msg \in Sent(Handled(p))
           /\ current[p].msg \notin acked
           /\ Handled(p) \in Ids
           /\ \A q \in Processors \ {p} :
                 pc[q] = "handling" /\ session[q] # "lost" => current[q].msg # current[p].msg
  <1>1. current[p].msg \in Tasks /\ current[p].msg \in unacked[p]
    BY CurrentIsOwed
  <1>2. \A q \in Processors :
           pc[q] = "handling" /\ session[q] # "lost" => current[q].msg \in unacked[q]
    BY CurrentIsOwed
  <1>3. current[p].msg \in Accepted
    BY <1>1 DEF Accepted
  <1>4. current[p].msg \notin acked /\ \A q \in Processors \ {p} : current[p].msg \notin unacked[q]
    BY <1>1 DEF IInv, OnePlace
  <1>5. Handled(p) \in Ids
    BY <1>1, TaskOfAssumption DEF Handled
  <1> QED
    BY <1>1, <1>2, <1>3, <1>4, <1>5 DEF Sent, Handled

\* Who wrote a result keeps its message, or has acknowledged it.
LEMMA WriterStep ==
    ASSUME ServiceInv, [ServiceNext]_allVars
    PROVE  WriterKnown'
  <1> SUFFICES ASSUME faults' = 0, NEW t \in Ids, result'[t] # 0, Sent(t)' \cap failed' = {}
               PROVE  \E m \in Sent(t)' : WithWriter(m)'
    BY DEF WriterKnown
  <1>0. /\ phase \in [Processors -> {"none", "executing", "saving", "saved", "failed"}]
        /\ \A p \in Processors : phase[p] # "none" <=> pc[p] = "handling"
        /\ result \in [Ids -> Nat]
        /\ faults = 0 => \A p \in Processors : session[p] # "lost"
    BY DEF ServiceInv, ServiceTypeOK, QuietKnown
  <1>1. IInv
    BY DEF ServiceInv
  <1>2. Accepted \subseteq Accepted' /\ acked \subseteq acked'
    BY QueueStep, SettledForGoodStep DEF ServiceInv, IInv, SettledStays
  <1>3. Sent(t) \subseteq Sent(t)'
    BY <1>2 DEF Sent
  \* The result was there before.
  <1>4. ASSUME faults = 0, failed \subseteq failed', result[t] # 0
        PROVE  \/ \E m \in Sent(t)' : WithWriter(m)'
               \/ \E m \in Sent(t), p \in Processors :
                     phase[p] \in {"saved", "failed"} /\ current[p].msg = m
    <2>1. Sent(t) \cap failed = {}
      BY <1>3, <1>4
    <2>2. PICK m \in Sent(t) : WithWriter(m)
      BY <1>4, <2>1 DEF ServiceInv, WriterKnown
    <2>3. CASE m \in acked
      <3>1. m \in acked' /\ m \in Sent(t)'
        BY <1>2, <1>3, <2>3
      <3> QED
        BY <3>1 DEF WithWriter
    <2> QED
      BY <2>2, <2>3 DEF WithWriter
  \* Its writer is still in its handler.
  <1>5. ASSUME NEW m \in Sent(t), NEW p \in Processors, phase'[p] \in {"saved", "failed"},
               current'[p].msg = m
        PROVE  \E n \in Sent(t)' : WithWriter(n)'
    BY <1>3, <1>5 DEF WithWriter
  <1>6. CASE Still /\ UNCHANGED <<handlerVars, result>>
    BY <1>4, <1>5, <1>6 DEF Still, handlerVars
  <1>7. ASSUME NEW p \in Processors, NEW d \in buffer[p], BeginTask(p, d)
        PROVE  \E m \in Sent(t)' : WithWriter(m)'
    <2>1. OthersGoOn(p) /\ UNCHANGED <<failed, faults>>
      BY <1>1, <1>7, StartHandlerMove DEF BeginTask, Begin
    <2>2. /\ phase[p] = "none"
          /\ phase' = [phase EXCEPT ![p] = "executing"]
          /\ UNCHANGED result
      BY <1>7 DEF BeginTask, Begin, Phase
    <2>3. \A q \in Processors : phase[q] \in {"saved", "failed"} =>
             phase'[q] = phase[q] /\ current'[q] = current[q]
      BY <1>0, <2>1, <2>2 DEF OthersGoOn
    <2> QED
      BY <1>4, <1>5, <2>1, <2>2, <2>3
  <1>8. ASSUME NEW p \in Processors, Execute(p)
        PROVE  \E m \in Sent(t)' : WithWriter(m)'
    <2>1. UNCHANGED <<failed, faults, current, result>>
      BY <1>8 DEF Execute, vars, consumerVars, history
    <2>2. \A q \in Processors : phase[q] \in {"saved", "failed"} => phase'[q] = phase[q]
      BY <1>0, <1>8 DEF Execute, Phase
    <2> QED
      BY <1>4, <1>5, <2>1, <2>2
  <1>9. ASSUME NEW p \in Processors, SaveTaskResult(p)
        PROVE  \E m \in Sent(t)' : WithWriter(m)'
    <2>1. UNCHANGED <<failed, faults, current>>
      BY <1>9 DEF SaveTaskResult, vars, consumerVars, history
    <2>2. \A q \in Processors : phase[q] \in {"saved", "failed"} => phase'[q] = phase[q]
      BY <1>0, <1>9 DEF SaveTaskResult, Phase
    <2>3. CASE result[t] # 0
      BY <1>4, <1>5, <2>1, <2>2, <2>3
    <2>4. CASE result[t] = 0
      <3>1. WriteResult(p)
        BY <1>9, <2>4 DEF SaveTaskResult
      <3>2. Handled(p) = t
        BY <1>0, <2>4, <3>1 DEF WriteResult
      <3>3. phase[p] = "saving" /\ phase'[p] \in {"saved", "failed"}
        BY <1>0, <1>9 DEF SaveTaskResult, Phase
      <3>4. pc[p] = "handling" /\ session[p] # "lost"
        BY <1>0, <2>1, <3>3
      <3>5. current[p].msg \in Sent(t)
        BY <1>1, <3>2, <3>4, HandledIsSent
      <3> QED
        BY <1>5, <2>1, <3>3, <3>5
    <2> QED
      BY <1>0, <2>3, <2>4
  <1>10. ASSUME NEW p \in Processors, EndTask(p)
         PROVE  \E m \in Sent(t)' : WithWriter(m)'
    <2>1. /\ OthersGoOn(p)
          /\ failed \subseteq failed'
          /\ faults' = faults
          /\ pc[p] = "handling"
      BY <1>1, <1>10, HandlerSucceedsMove, HandlerFailsMove DEF EndTask
    <2>2. /\ phase' = [phase EXCEPT ![p] = "none"]
          /\ UNCHANGED result
      BY <1>10 DEF EndTask, Phase
    <2>3. \A q \in Processors \ {p} : phase[q] \in {"saved", "failed"} =>
             phase'[q] = phase[q] /\ current'[q] = current[q]
      BY <1>0, <2>1, <2>2 DEF OthersGoOn
    <2>4. ASSUME current[p].msg \in Sent(t)
          PROVE  \E m \in Sent(t)' : WithWriter(m)'
      <3>1. session[p] # "lost"
        BY <1>0, <2>1
      <3>2. CASE HandlerSucceeds(p)
        <4>1. current[p].msg \in acked'
          BY <1>1, <3>1, <3>2, HandlerSucceedsMove
        <4> QED
          BY <1>3, <2>4, <4>1 DEF WithWriter
      <3>3. CASE HandlerFails(p)
        <4>1. current[p].msg \in failed'
          BY <1>1, <3>3, HandlerFailsMove
        <4> QED
          BY <1>3, <2>4, <4>1
      <3> QED
        BY <1>10, <3>2, <3>3 DEF EndTask
    <2> QED
      BY <1>4, <1>5, <2>1, <2>2, <2>3, <2>4
  <1>11. ASSUME NEW p \in Processors, Die(p) PROVE FALSE
    BY <1>1, <1>11, CrashMove DEF Die
  <1>12. CASE Still /\ UNCHANGED handlerVars
    <2>1. CASE UNCHANGED result
      BY <1>6, <1>12, <2>1
    <2>2. CASE \E u \in Ids : SaveTask(u) /\ InsertRow(u)
      BY <1>6, <1>12, <2>2 DEF SaveTask
    <2> QED
      BY <1>9, <2>1, <2>2, RowSteps DEF ServiceInv
  <1> QED
    BY <1>1, <1>7, <1>8, <1>9, <1>10, <1>11, <1>12, HandlerSteps, Zenon DEF ServiceInv

----------------------------------------------------------------------------

\* The service starts without requests, rows and executions.
LEMMA ServiceInitHolds == ServiceInit => ServiceInv
  <1> SUFFICES ASSUME ServiceInit PROVE ServiceInv
    OBVIOUS
  <1>1. Init /\ IInv
    BY InitHolds DEF ServiceInit
  <1>2. Accepted = {} /\ acked = {} /\ faults = 0
    BY <1>1 DEF Init, Accepted
  <1>3. ServiceTypeOK
    BY <1>1 DEF ServiceInit, Init, ServiceTypeOK
  <1>4. RequestKnown /\ HandlerKnown /\ ReadyKnown
    BY DEF ServiceInit, RequestKnown, HandlerKnown, ReadyKnown
  <1>5. RowBeforeMessage /\ AckedIsReady
    BY <1>2 DEF RowBeforeMessage, AckedIsReady
  <1>6. QuietKnown
    BY <1>1 DEF Init, QuietKnown
  <1>7. WriterKnown
    BY DEF ServiceInit, WriterKnown
  <1> QED
    BY <1>1, <1>3, <1>4, <1>5, <1>6, <1>7 DEF ServiceInv

\* The parts of the service's invariant are inductive together.
LEMMA ServiceStepHolds == ServiceInv /\ [ServiceNext]_allVars => ServiceInv'
  <1> SUFFICES ASSUME ServiceInv, [ServiceNext]_allVars PROVE ServiceInv'
    OBVIOUS
  <1>1. /\ IInv /\ ServiceTypeOK /\ RequestKnown /\ RowBeforeMessage /\ HandlerKnown
        /\ ReadyKnown /\ AckedIsReady /\ QuietKnown /\ TypeOK
    BY DEF ServiceInv, IInv
  <1>2. IInv'
    BY <1>1, QueueStep, StepHolds
  <1>3. ServiceTypeOK' /\ RequestKnown' /\ RowBeforeMessage'
    BY <1>1, ServiceTypeStep, RequestStep, RowBeforeMessageStep
  <1>4. HandlerKnown' /\ ReadyKnown' /\ AckedIsReady'
    BY <1>1, HandlerStep, ReadyStep, AckedStep
  <1>5. QuietKnown'
    BY <1>1, QueueStep, QuietStep
  <1>6. WriterKnown'
    BY WriterStep
  <1> QED
    BY <1>2, <1>3, <1>4, <1>5, <1>6 DEF ServiceInv

\* The invariant of queue, rows, requests and handlers holds throughout.
THEOREM ServiceInvariance == ServiceSpec => []ServiceInv
  BY ServiceInitHolds, ServiceStepHolds, PTL DEF ServiceSpec

\* Type correctness, and a processor has a phase exactly while it handles.
THEOREM ServiceTypeCorrect == ServiceSpec => []ServiceTypeOK
  BY ServiceInvariance, PTL DEF ServiceInv

\* No message overtakes its row.
THEOREM RowBeforeMessageHolds == ServiceSpec => []RowBeforeMessage
  BY ServiceInvariance, PTL DEF ServiceInv

\* No message is acknowledged before the result of its task is stored.
THEOREM AckedIsReadyHolds == ServiceSpec => []AckedIsReady
  BY ServiceInvariance, PTL DEF ServiceInv

\* A task is executed twice at a time only after a lost session or a retry.
THEOREM TogetherForAReasonHolds == ServiceSpec => []TogetherForAReason
  <1>1. ServiceInv => TogetherForAReason
    <2> SUFFICES ASSUME ServiceInv, NEW p \in Processors, NEW q \in Processors, p # q,
                        pc[p] = "handling", pc[q] = "handling", Handled(p) = Handled(q),
                        session[p] # "lost", session[q] # "lost"
                 PROVE  SentTwice(Handled(p))
      BY DEF TogetherForAReason
    <2>1. IInv
      BY DEF ServiceInv
    <2>2. current[p].msg \in Sent(Handled(p)) /\ current[q].msg \in Sent(Handled(p))
      BY <2>1, HandledIsSent
    <2>3. current[p].msg # current[q].msg
      BY <2>1, HandledIsSent
    <2> QED
      BY <2>2, <2>3 DEF SentTwice
  <1> QED
    BY <1>1, ServiceInvariance, PTL

\* Without fault, duplicate or reported failure a result is written once.
THEOREM WrittenOnceHolds == ServiceSpec => WrittenOnce
  <1> DEFINE Kept == \A t \in Ids :
                        faults = 0 /\ result[t] # 0 /\ ~SentTwice(t) /\ Sent(t) \cap failed = {}
                        => result'[t] = result[t]
  <1>1. ServiceInv /\ [ServiceNext]_allVars => Kept
    <2> SUFFICES ASSUME ServiceInv, [ServiceNext]_allVars, NEW t \in Ids,
                        faults = 0, result[t] # 0, ~SentTwice(t), Sent(t) \cap failed = {},
                        result'[t] # result[t]
                 PROVE  FALSE
      OBVIOUS
    <2>0. /\ IInv
          /\ result \in [Ids -> Nat]
          /\ \A p \in Processors : phase[p] # "none" <=> pc[p] = "handling"
          /\ \A p \in Processors : session[p] # "lost"
      BY DEF ServiceInv, ServiceTypeOK, QuietKnown
    <2>1. PICK p \in Processors : SaveTaskResult(p) /\ WriteResult(p)
      BY RowSteps DEF ServiceInv, SaveTask
    <2>2. Handled(p) = t
      BY <2>0, <2>1 DEF WriteResult
    <2>3. phase[p] = "saving" /\ pc[p] = "handling"
      BY <2>0, <2>1 DEF SaveTaskResult, Phase
    <2>4. current[p].msg \in Sent(t) /\ current[p].msg \notin acked
      BY <2>0, <2>2, <2>3, HandledIsSent
    <2>5. PICK m \in Sent(t) : WithWriter(m)
      BY DEF ServiceInv, WriterKnown
    <2>6. m = current[p].msg
      BY <2>4, <2>5 DEF SentTwice
    <2>7. PICK q \in Processors : phase[q] \in {"saved", "failed"} /\ current[q].msg = m
      BY <2>4, <2>5, <2>6 DEF WithWriter
    <2>8. q # p /\ pc[q] = "handling"
      BY <2>0, <2>3, <2>7
    <2> QED
      BY <2>0, <2>3, <2>6, <2>7, <2>8, HandledIsSent
  <1>2. ServiceInv /\ [ServiceNext]_allVars => [Kept]_allVars
    BY <1>1
  <1> QED
    BY <1>2, ServiceInvariance, PTL DEF ServiceSpec, WrittenOnce

\* What a client is told of its task never goes back.
THEOREM SeenAdvancesHolds == ServiceSpec => SeenAdvances
  <1> DEFINE Forward == \A t \in Ids :
                           /\ seen[t] = "ready" => seen'[t] \in {"ready", "result"}
                           /\ seen[t] = "result" => seen'[t] \in {"ready", "result"}
  <1>1. ServiceInv /\ [ServiceNext]_allVars => [Forward]_allVars
    <2> SUFFICES ASSUME ServiceInv, [ServiceNext]_allVars, NEW t \in Ids,
                        seen[t] \in {"ready", "result"}
                 PROVE  seen'[t] \in {"ready", "result"}
      OBVIOUS
    <2>1. row[t] = "ready" /\ seen \in [Ids -> {"nothing", "in_progress", "ready", "result"}]
      BY DEF ServiceInv, ReadyKnown, ServiceTypeOK
    <2>2. CASE UNCHANGED seen
      BY <2>2
    <2>3. ASSUME NEW u \in Ids, Poll(u) PROVE seen'[t] \in {"ready", "result"}
      BY <2>1, <2>3 DEF Poll
    <2> QED
      BY <2>2, <2>3, SeenSteps
  <1> QED
    BY <1>1, ServiceInvariance, PTL DEF ServiceSpec, SeenAdvances

\* The rows of the service have the life cycle of TaskLifecycle.
THEOREM LifecycleHolds == ServiceSpec => LifecycleSpec
  <1>1. ServiceInit => Lifecycle!Init
    BY DEF ServiceInit, Lifecycle!Init
  <1>2. ServiceInv /\ [ServiceNext]_allVars => [Lifecycle!Next]_<<row, result>>
    <2> SUFFICES ASSUME ServiceInv, [ServiceNext]_allVars
                 PROVE  UNCHANGED <<row, result>> \/ Lifecycle!Next
      OBVIOUS
    <2>1. ASSUME NEW t \in Ids, SaveTask(t), InsertRow(t) PROVE Lifecycle!Next
      <3>1. row[t] = "none" /\ UNCHANGED result
        BY <2>1 DEF SaveTask, Request, ServiceInv, RequestKnown
      <3> QED
        BY <2>1, <3>1 DEF InsertRow, Lifecycle!Next, Lifecycle!Create
    <2>2. ASSUME NEW p \in Processors, SaveTaskResult(p), WriteResult(p) PROVE Lifecycle!Next
      <3>1. phase[p] # "none" /\ pc[p] = "handling"
        BY <2>2 DEF SaveTaskResult, Phase, ServiceInv, ServiceTypeOK
      <3>2. Handled(p) \in Ids
        BY <3>1, CurrentIsOwed, TaskOfAssumption DEF ServiceInv, Handled
      <3>3. attempt[p] # 0 /\ result \in [Ids -> Nat]
        BY <3>1 DEF ServiceInv, HandlerKnown, ServiceTypeOK
      <3>4. Lifecycle!Finish(Handled(p))
        BY <2>2, <3>2, <3>3 DEF WriteResult, Lifecycle!Finish
      <3> QED
        BY <3>2, <3>4 DEF Lifecycle!Next
    <2> QED
      BY <2>1, <2>2, RowSteps DEF ServiceInv
  <1> QED
    BY <1>1, <1>2, ServiceInvariance, PTL DEF ServiceSpec, LifecycleSpec, Lifecycle!Spec

=============================================================================
