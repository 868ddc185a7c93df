-------------------------- MODULE TaskQueueProofs --------------------------
(***************************************************************************)
(* Theorems about TaskQueue: its safety invariants for every number of     *)
(* processors and messages, every prefetch and every bound on faults.      *)
(***************************************************************************)
EXTENDS TaskQueue, TLAPS

\* Where a processor is in Consume decides what it holds: outside
\* consumeOnce's loop there is no session and no delivery, and inside handle
\* there is exactly one current delivery.
PhaseInv ==
    \A p \in Processors :
        /\ pc[p] = "handling" <=> current[p] # NoDelivery
        /\ pc[p] \in {"consuming", "handling"} <=> session[p] # "none"
        /\ session[p] = "none" => buffer[p] = {}

\* A processor holds at most one delivery of a message.
HeldOnce ==
    \A p \in Processors :
        /\ \A d, e \in buffer[p] : d.msg = e.msg => d = e
        /\ current[p] # NoDelivery => \A d \in buffer[p] : d.msg # current[p].msg

\* A delivery that carries the flag is one of a message the broker flagged.
FlagsKnown == \A p \in Processors : \A d \in Held(p) : d.redelivered => d.msg \in redelivered

\* The inductive invariant.
IInv ==
    /\ TypeOK
    /\ PhaseInv
    /\ OnePlace
    /\ UnackedIsHeld
    /\ HeldOnce
    /\ FlagsKnown
    /\ SettledForAReason

----------------------------------------------------------------------------

\* A delivery is none of the model's null values.
LEMMA DeliveryFields ==
    ASSUME NEW d \in Delivery
    PROVE  d.msg \in Messages /\ d.redelivered \in BOOLEAN /\ d # NoDelivery
  BY NoDeliveryAssumption DEF Delivery

\* What the broker sends is a delivery of the message with its flag.
LEMMA TaggedType ==
    ASSUME NEW m \in Messages
    PROVE  Tagged(m) \in Delivery /\ Tagged(m).msg = m
                  /\ (Tagged(m).redelivered <=> m \in redelivered)
  <1>1. (m \in redelivered) \in BOOLEAN
    OBVIOUS
  <1>2. Tagged(m) \in Delivery
    BY <1>1, Zenon DEF Tagged, Delivery
  <1>3. Tagged(m).redelivered = (m \in redelivered)
    BY Zenon DEF Tagged
  <1>4. Tagged(m).msg = m
    BY DEF Tagged
  <1> QED
    BY <1>2, <1>3, <1>4

\* Every step keeps the types: a task reaches handle's handler only decoded.
LEMMA TypeStep ==
    TypeOK /\ PhaseInv /\ [Next]_vars
    => TypeOK'
  <1> SUFFICES ASSUME TypeOK, PhaseInv, [Next]_vars PROVE TypeOK'
    OBVIOUS
  <1> USE DEF Goto, Receive, HandleReturns, consumerVars, TypeOK, Running, Halted
  <1>1. ASSUME NEW m \in Messages, Publish(m) PROVE TypeOK'
    BY <1>1 DEF Publish, history
  <1>2. ASSUME NEW p \in Processors, NEW m \in Messages, Deliver(p, m) PROVE TypeOK'
    BY <1>2, TaggedType DEF Deliver, history
  <1>3. ASSUME NEW p \in Processors, LoopTop(p) PROVE TypeOK'
    BY <1>3 DEF LoopTop, brokerVars, history
  <1>4. ASSUME NEW p \in Processors, Connect(p) PROVE TypeOK'
    BY <1>4 DEF Connect, brokerVars, history
  <1>5. ASSUME NEW p \in Processors, WaitReconnect(p) PROVE TypeOK'
    BY <1>5 DEF WaitReconnect, brokerVars, history
  <1>6. ASSUME NEW p \in Processors, SessionEnds(p) PROVE TypeOK'
    BY <1>6 DEF SessionEnds, CloseSession, Requeue, brokerVars, history
  <1>7. ASSUME NEW p \in Processors, NEW d \in buffer[p], DropMalformed(p, d)
      PROVE TypeOK'
    BY <1>7, DeliveryFields DEF DropMalformed, Nack, brokerVars, history
  <1>8. ASSUME NEW p \in Processors, NEW d \in buffer[p], StartHandler(p, d)
      PROVE TypeOK'
    BY <1>8, DeliveryFields DEF StartHandler, brokerVars, Delivery, Tasks
  <1>9. ASSUME NEW p \in Processors, HandlerSucceeds(p) PROVE TypeOK'
    <2>1. current[p].msg \in Tasks
      BY <1>9 DEF HandlerSucceeds, PhaseInv
    <2> QED
      BY <1>9, <2>1 DEF HandlerSucceeds, Ack, Tasks, brokerVars, history
  <1>10. ASSUME NEW p \in Processors, HandlerFails(p) PROVE TypeOK'
    <2>1. current[p].msg \in Tasks
      BY <1>10 DEF HandlerFails, PhaseInv
    <2> QED
      BY <1>10, <2>1 DEF HandlerFails, Nack, Tasks, brokerVars, history
  <1>11. ASSUME NEW p \in Processors, ConnectFails(p) PROVE TypeOK'
    BY <1>11 DEF ConnectFails, Fault, brokerVars, history
  <1>12. ASSUME NEW p \in Processors, SessionLost(p) PROVE TypeOK'
    BY <1>12 DEF SessionLost, Requeue, Fault, history
  <1>13. ASSUME NEW p \in Processors, Cancel(p) PROVE TypeOK'
    BY <1>13 DEF Cancel, Fault, brokerVars, history
  <1>14. ASSUME NEW p \in Processors, Crash(p) PROVE TypeOK'
    BY <1>14 DEF Crash, CloseSession, Requeue, Fault, brokerVars, history
  <1>15. ASSUME NEW p \in Processors, Restart(p) PROVE TypeOK'
    BY <1>15 DEF Restart, brokerVars, history
  <1>16. CASE UNCHANGED vars
    BY <1>16 DEF vars, brokerVars, history
  <1> QED
    BY <1>1, <1>2, <1>3, <1>4, <1>5, <1>6, <1>7, <1>8, <1>9, <1>10, <1>11, <1>12,
       <1>13, <1>14, <1>15, <1>16
       DEF Next, Step, Environment

\* Every step keeps session, buffer and current delivery in line with pc.
LEMMA PhaseStep ==
    TypeOK /\ PhaseInv /\ [Next]_vars
    => PhaseInv'
  <1> SUFFICES ASSUME TypeOK, PhaseInv, [Next]_vars PROVE PhaseInv'
    OBVIOUS
  <1> USE DEF Goto, Receive, HandleReturns, consumerVars, TypeOK, PhaseInv, Running, Halted
  <1>1. ASSUME NEW m \in Messages, Publish(m) PROVE PhaseInv'
    BY <1>1 DEF Publish
  <1>2. ASSUME NEW p \in Processors, NEW m \in Messages, Deliver(p, m) PROVE PhaseInv'
    BY <1>2 DEF Deliver
  <1>3. ASSUME NEW p \in Processors, LoopTop(p) PROVE PhaseInv'
    BY <1>3 DEF LoopTop
  <1>4. ASSUME NEW p \in Processors, Connect(p) PROVE PhaseInv'
    BY <1>4 DEF Connect
  <1>5. ASSUME NEW p \in Processors, WaitReconnect(p) PROVE PhaseInv'
    BY <1>5 DEF WaitReconnect
  <1>6. ASSUME NEW p \in Processors, SessionEnds(p) PROVE PhaseInv'
    BY <1>6 DEF SessionEnds, CloseSession
  <1>7. ASSUME NEW p \in Processors, NEW d \in buffer[p], DropMalformed(p, d)
      PROVE PhaseInv'
    BY <1>7 DEF DropMalformed
  <1>8. ASSUME NEW p \in Processors, NEW d \in buffer[p], StartHandler(p, d)
      PROVE PhaseInv'
    BY <1>8, DeliveryFields DEF StartHandler
  <1>9. ASSUME NEW p \in Processors, HandlerSucceeds(p) PROVE PhaseInv'
    BY <1>9 DEF HandlerSucceeds
  <1>10. ASSUME NEW p \in Processors, HandlerFails(p) PROVE PhaseInv'
    BY <1>10 DEF HandlerFails
  <1>11. ASSUME NEW p \in Processors, ConnectFails(p) PROVE PhaseInv'
    BY <1>11 DEF ConnectFails
  <1>12. ASSUME NEW p \in Processors, SessionLost(p) PROVE PhaseInv'
    BY <1>12 DEF SessionLost
  <1>13. ASSUME NEW p \in Processors, Cancel(p) PROVE PhaseInv'
    BY <1>13 DEF Cancel
  <1>14. ASSUME NEW p \in Processors, Crash(p) PROVE PhaseInv'
    BY <1>14 DEF Crash, CloseSession
  <1>15. ASSUME NEW p \in Processors, Restart(p) PROVE PhaseInv'
    BY <1>15 DEF Restart
  <1>16. CASE UNCHANGED vars
    BY <1>16 DEF vars
  <1> QED
    BY <1>1, <1>2, <1>3, <1>4, <1>5, <1>6, <1>7, <1>8, <1>9, <1>10, <1>11, <1>12,
       <1>13, <1>14, <1>15, <1>16
       DEF Next, Step, Environment

\* Every step keeps a message in one place.
LEMMA OnePlaceStep ==
    TypeOK /\ PhaseInv /\ OnePlace /\ UnackedIsHeld /\ [Next]_vars
    => OnePlace'
  <1> SUFFICES ASSUME TypeOK, PhaseInv, OnePlace, UnackedIsHeld, [Next]_vars
      PROVE OnePlace'
    OBVIOUS
  <1> USE DEF Goto, Receive, HandleReturns, consumerVars, TypeOK, OnePlace
  <1>1. ASSUME NEW m \in Messages, Publish(m) PROVE OnePlace'
    BY <1>1 DEF Publish, Accepted
  <1>2. ASSUME NEW p \in Processors, NEW m \in Messages, Deliver(p, m) PROVE OnePlace'
    BY <1>2 DEF Deliver
  <1>3. ASSUME NEW p \in Processors, LoopTop(p) PROVE OnePlace'
    BY <1>3 DEF LoopTop, brokerVars
  <1>4. ASSUME NEW p \in Processors, Connect(p) PROVE OnePlace'
    BY <1>4 DEF Connect, brokerVars
  <1>5. ASSUME NEW p \in Processors, WaitReconnect(p) PROVE OnePlace'
    BY <1>5 DEF WaitReconnect, brokerVars
  <1>6. ASSUME NEW p \in Processors, SessionEnds(p) PROVE OnePlace'
    BY <1>6 DEF SessionEnds, CloseSession, Requeue, brokerVars
  <1>7. ASSUME NEW p \in Processors, NEW d \in buffer[p], DropMalformed(p, d)
      PROVE OnePlace'
    <2>1. session[p] = "open" => d.msg \in unacked[p]
      BY <1>7 DEF UnackedIsHeld, Held
    <2> QED
      BY <1>7, <2>1 DEF DropMalformed, Nack, brokerVars
  <1>8. ASSUME NEW p \in Processors, NEW d \in buffer[p], StartHandler(p, d)
      PROVE OnePlace'
    BY <1>8 DEF StartHandler, brokerVars
  <1>9. ASSUME NEW p \in Processors, HandlerSucceeds(p) PROVE OnePlace'
    <2>1. session[p] = "open" => current[p].msg \in unacked[p]
      BY <1>9 DEF HandlerSucceeds, PhaseInv, UnackedIsHeld, Held
    <2> QED
      BY <1>9, <2>1 DEF HandlerSucceeds, Ack, brokerVars
  <1>10. ASSUME NEW p \in Processors, HandlerFails(p) PROVE OnePlace'
    <2>1. session[p] = "open" => current[p].msg \in unacked[p]
      BY <1>10 DEF HandlerFails, PhaseInv, UnackedIsHeld, Held
    <2> QED
      BY <1>10, <2>1 DEF HandlerFails, Nack, brokerVars
  <1>11. ASSUME NEW p \in Processors, ConnectFails(p) PROVE OnePlace'
    BY <1>11 DEF ConnectFails, brokerVars
  <1>12. ASSUME NEW p \in Processors, SessionLost(p) PROVE OnePlace'
    BY <1>12 DEF SessionLost, Requeue
  <1>13. ASSUME NEW p \in Processors, Cancel(p) PROVE OnePlace'
    BY <1>13 DEF Cancel, brokerVars
  <1>14. ASSUME NEW p \in Processors, Crash(p) PROVE OnePlace'
    BY <1>14 DEF Crash, CloseSession, Requeue, brokerVars
  <1>15. ASSUME NEW p \in Processors, Restart(p) PROVE OnePlace'
    BY <1>15 DEF Restart, brokerVars
  <1>16. CASE UNCHANGED vars
    BY <1>16 DEF vars, brokerVars, history
  <1> QED
    BY <1>1, <1>2, <1>3, <1>4, <1>5, <1>6, <1>7, <1>8, <1>9, <1>10, <1>11, <1>12,
       <1>13, <1>14, <1>15, <1>16
       DEF Next, Step, Environment

\* Every step keeps the broker's and the processor's view of an open session equal.
LEMMA UnackedIsHeldStep ==
    TypeOK /\ PhaseInv /\ OnePlace /\ UnackedIsHeld /\ HeldOnce /\ [Next]_vars
    => UnackedIsHeld'
  <1> SUFFICES ASSUME TypeOK, PhaseInv, OnePlace, UnackedIsHeld, HeldOnce, [Next]_vars
      PROVE UnackedIsHeld'
    OBVIOUS
  <1> USE DEF Goto, Receive, HandleReturns, consumerVars, TypeOK, UnackedIsHeld
  <1>1. ASSUME NEW m \in Messages, Publish(m) PROVE UnackedIsHeld'
    BY <1>1 DEF Publish, Held
  <1>2. ASSUME NEW p \in Processors, NEW m \in Messages, Deliver(p, m)
      PROVE UnackedIsHeld'
    <2>1. Held(p)' = Held(p) \cup {Tagged(m)}
      BY <1>2, DeliveryFields, TaggedType DEF Deliver, PhaseInv, Held
    <2>2. \A q \in Processors \ {p} : Held(q)' = Held(q) /\ unacked'[q] = unacked[q]
      BY <1>2 DEF Deliver, Held, brokerVars
    <2>3. unacked'[p] = IF session[p] = "open" THEN {x.msg : x \in Held(p)'} ELSE {}
      BY <1>2, <2>1, TaggedType DEF Deliver
    <2> QED
      BY <1>2, <2>2, <2>3 DEF Deliver
  <1>3. ASSUME NEW p \in Processors, LoopTop(p) PROVE UnackedIsHeld'
    BY <1>3 DEF LoopTop, brokerVars, PhaseInv, Held
  <1>4. ASSUME NEW p \in Processors, Connect(p) PROVE UnackedIsHeld'
    BY <1>4 DEF Connect, brokerVars, PhaseInv, Held
  <1>5. ASSUME NEW p \in Processors, WaitReconnect(p) PROVE UnackedIsHeld'
    BY <1>5 DEF WaitReconnect, brokerVars, PhaseInv, Held
  <1>6. ASSUME NEW p \in Processors, SessionEnds(p) PROVE UnackedIsHeld'
    BY <1>6 DEF SessionEnds, CloseSession, Requeue, brokerVars, PhaseInv, Held
  <1>7. ASSUME NEW p \in Processors, NEW d \in buffer[p], DropMalformed(p, d)
      PROVE UnackedIsHeld'
    <2>1. Held(p)' = Held(p) \ {d}
      BY <1>7 DEF DropMalformed, PhaseInv, HeldOnce, Held
    <2>2. \A q \in Processors \ {p} : Held(q)' = Held(q) /\ unacked'[q] = unacked[q]
      BY <1>7 DEF DropMalformed, Held, Nack, brokerVars
    <2> session' = session
      BY <1>7 DEF DropMalformed
    <2>3. CASE session[p] = "open"
      <3>1. unacked'[p] = unacked[p] \ {d.msg}
        BY <1>7, <2>3 DEF DropMalformed, Nack
      <3>2. d \in Held(p) /\ \A x \in Held(p) : x.msg = d.msg => x = d
        BY <1>7 DEF DropMalformed, PhaseInv, HeldOnce, Held
      <3>3. unacked[p] = {x.msg : x \in Held(p)}
        BY <2>3
      <3>4. unacked'[p] = {x.msg : x \in Held(p)'}
        BY <2>1, <3>1, <3>2, <3>3
      <3> QED
        BY <2>2, <2>3, <3>4
    <2>4. CASE session[p] # "open"
      BY <1>7, <2>2, <2>4 DEF DropMalformed, Nack, brokerVars
    <2> QED
      BY <2>3, <2>4
  <1>8. ASSUME NEW p \in Processors, NEW d \in buffer[p], StartHandler(p, d)
      PROVE UnackedIsHeld'
    <2>1. Held(p)' = Held(p)
      BY <1>8, DeliveryFields, TaggedType DEF StartHandler, PhaseInv, Held
    <2>2. \A q \in Processors \ {p} : Held(q)' = Held(q) /\ unacked'[q] = unacked[q]
      BY <1>8 DEF StartHandler, Held, brokerVars
    <2>3. unacked'[p] = IF session[p] = "open" THEN {x.msg : x \in Held(p)'} ELSE {}
      BY <1>8, <2>1 DEF StartHandler, brokerVars
    <2> QED
      BY <1>8, <2>2, <2>3 DEF StartHandler
  <1>9. ASSUME NEW p \in Processors, HandlerSucceeds(p) PROVE UnackedIsHeld'
    <2>1. Held(p)' = Held(p) \ {current[p]}
      BY <1>9 DEF HandlerSucceeds, PhaseInv, HeldOnce, Held
    <2>2. \A q \in Processors \ {p} : Held(q)' = Held(q) /\ unacked'[q] = unacked[q]
      BY <1>9 DEF HandlerSucceeds, Held, Ack, brokerVars
    <2> session' = session
      BY <1>9 DEF HandlerSucceeds
    <2>3. CASE session[p] = "open"
      <3>1. unacked'[p] = unacked[p] \ {current[p].msg}
        BY <1>9, <2>3 DEF HandlerSucceeds, Ack
      <3>2. current[p] \in Held(p) /\ \A x \in Held(p) : x.msg = current[p].msg => x = current[p]
        BY <1>9 DEF HandlerSucceeds, PhaseInv, HeldOnce, Held
      <3>3. unacked[p] = {x.msg : x \in Held(p)}
        BY <2>3
      <3>4. unacked'[p] = {x.msg : x \in Held(p)'}
        BY <2>1, <3>1, <3>2, <3>3
      <3> QED
        BY <2>2, <2>3, <3>4
    <2>4. CASE session[p] # "open"
      BY <1>9, <2>2, <2>4 DEF HandlerSucceeds, Ack, brokerVars
    <2> QED
      BY <2>3, <2>4
  <1>10. ASSUME NEW p \in Processors, HandlerFails(p) PROVE UnackedIsHeld'
    <2>1. Held(p)' = Held(p) \ {current[p]}
      BY <1>10 DEF HandlerFails, PhaseInv, HeldOnce, Held
    <2>2. \A q \in Processors \ {p} : Held(q)' = Held(q) /\ unacked'[q] = unacked[q]
      BY <1>10 DEF HandlerFails, Held, Nack, brokerVars
    <2> session' = session
      BY <1>10 DEF HandlerFails
    <2>3. CASE session[p] = "open"
      <3>1. unacked'[p] = unacked[p] \ {current[p].msg}
        BY <1>10, <2>3 DEF HandlerFails, Nack
      <3>2. current[p] \in Held(p) /\ \A x \in Held(p) : x.msg = current[p].msg => x = current[p]
        BY <1>10 DEF HandlerFails, PhaseInv, HeldOnce, Held
      <3>3. unacked[p] = {x.msg : x \in Held(p)}
        BY <2>3
      <3>4. unacked'[p] = {x.msg : x \in Held(p)'}
        BY <2>1, <3>1, <3>2, <3>3
      <3> QED
        BY <2>2, <2>3, <3>4
    <2>4. CASE session[p] # "open"
      BY <1>10, <2>2, <2>4 DEF HandlerFails, Nack, brokerVars
    <2> QED
      BY <2>3, <2>4
  <1>11. ASSUME NEW p \in Processors, ConnectFails(p) PROVE UnackedIsHeld'
    BY <1>11 DEF ConnectFails, brokerVars, PhaseInv, Held
  <1>12. ASSUME NEW p \in Processors, SessionLost(p) PROVE UnackedIsHeld'
    BY <1>12 DEF SessionLost, Requeue, Held
  <1>13. ASSUME NEW p \in Processors, Cancel(p) PROVE UnackedIsHeld'
    BY <1>13 DEF Cancel, brokerVars, PhaseInv, Held
  <1>14. ASSUME NEW p \in Processors, Crash(p) PROVE UnackedIsHeld'
    <2>1. \A q \in Processors \ {p} : Held(q)' = Held(q) /\ unacked'[q] = unacked[q] /\ session'[q] = session[q]
      BY <1>14 DEF Crash, CloseSession, Held, Requeue, brokerVars
    <2>2. session'[p] = "none" /\ unacked'[p] = {}
      BY <1>14 DEF Crash, CloseSession, Requeue, brokerVars
    <2> QED
      BY <2>1, <2>2
  <1>15. ASSUME NEW p \in Processors, Restart(p) PROVE UnackedIsHeld'
    BY <1>15 DEF Restart, brokerVars, PhaseInv, Held
  <1>16. CASE UNCHANGED vars
    BY <1>16 DEF vars, brokerVars, Held
  <1> QED
    BY <1>1, <1>2, <1>3, <1>4, <1>5, <1>6, <1>7, <1>8, <1>9, <1>10, <1>11, <1>12,
       <1>13, <1>14, <1>15, <1>16
       DEF Next, Step, Environment

\* The broker never hands a processor a message it already holds.
LEMMA HeldOnceStep ==
    TypeOK /\ PhaseInv /\ OnePlace /\ UnackedIsHeld /\ HeldOnce /\ [Next]_vars
    => HeldOnce'
  <1> SUFFICES ASSUME TypeOK, PhaseInv, OnePlace, UnackedIsHeld, HeldOnce, [Next]_vars
      PROVE HeldOnce'
    OBVIOUS
  <1> USE DEF Goto, Receive, HandleReturns, consumerVars, TypeOK, PhaseInv, HeldOnce
  <1>1. ASSUME NEW m \in Messages, Publish(m) PROVE HeldOnce'
    BY <1>1 DEF Publish
  <1>2. ASSUME NEW p \in Processors, NEW m \in Messages, Deliver(p, m) PROVE HeldOnce'
    <2>1. \A d \in Held(p) : d.msg # m
      BY <1>2 DEF Deliver, OnePlace, UnackedIsHeld
    <2> QED
      BY <1>2, <2>1, TaggedType DEF Deliver, Held
  <1>3. ASSUME NEW p \in Processors, LoopTop(p) PROVE HeldOnce'
    BY <1>3 DEF LoopTop
  <1>4. ASSUME NEW p \in Processors, Connect(p) PROVE HeldOnce'
    BY <1>4 DEF Connect
  <1>5. ASSUME NEW p \in Processors, WaitReconnect(p) PROVE HeldOnce'
    BY <1>5 DEF WaitReconnect
  <1>6. ASSUME NEW p \in Processors, SessionEnds(p) PROVE HeldOnce'
    BY <1>6 DEF SessionEnds, CloseSession
  <1>7. ASSUME NEW p \in Processors, NEW d \in buffer[p], DropMalformed(p, d)
      PROVE HeldOnce'
    BY <1>7 DEF DropMalformed
  <1>8. ASSUME NEW p \in Processors, NEW d \in buffer[p], StartHandler(p, d)
      PROVE HeldOnce'
    BY <1>8, DeliveryFields DEF StartHandler
  <1>9. ASSUME NEW p \in Processors, HandlerSucceeds(p) PROVE HeldOnce'
    BY <1>9 DEF HandlerSucceeds
  <1>10. ASSUME NEW p \in Processors, HandlerFails(p) PROVE HeldOnce'
    BY <1>10 DEF HandlerFails
  <1>11. ASSUME NEW p \in Processors, ConnectFails(p) PROVE HeldOnce'
    BY <1>11 DEF ConnectFails
  <1>12. ASSUME NEW p \in Processors, SessionLost(p) PROVE HeldOnce'
    BY <1>12 DEF SessionLost
  <1>13. ASSUME NEW p \in Processors, Cancel(p) PROVE HeldOnce'
    BY <1>13 DEF Cancel
  <1>14. ASSUME NEW p \in Processors, Crash(p) PROVE HeldOnce'
    BY <1>14 DEF Crash, CloseSession
  <1>15. ASSUME NEW p \in Processors, Restart(p) PROVE HeldOnce'
    BY <1>15 DEF Restart
  <1>16. CASE UNCHANGED vars
    BY <1>16 DEF vars
  <1> QED
    BY <1>1, <1>2, <1>3, <1>4, <1>5, <1>6, <1>7, <1>8, <1>9, <1>10, <1>11, <1>12,
       <1>13, <1>14, <1>15, <1>16
       DEF Next, Step, Environment

\* Flags of deliveries stay true, since the broker never unflags a message.
LEMMA FlagsKnownStep ==
    TypeOK /\ PhaseInv /\ FlagsKnown /\ [Next]_vars
    => FlagsKnown'
  <1> SUFFICES ASSUME TypeOK, PhaseInv, FlagsKnown, [Next]_vars PROVE FlagsKnown'
    OBVIOUS
  <1> USE DEF Goto, Receive, HandleReturns, consumerVars, TypeOK, PhaseInv, FlagsKnown, Held
  <1>1. ASSUME NEW m \in Messages, Publish(m) PROVE FlagsKnown'
    BY <1>1 DEF Publish, brokerVars
  <1>2. ASSUME NEW p \in Processors, NEW m \in Messages, Deliver(p, m) PROVE FlagsKnown'
    BY <1>2, TaggedType, DeliveryFields DEF Deliver
  <1>3. ASSUME NEW p \in Processors, LoopTop(p) PROVE FlagsKnown'
    BY <1>3 DEF LoopTop, brokerVars
  <1>4. ASSUME NEW p \in Processors, Connect(p) PROVE FlagsKnown'
    BY <1>4 DEF Connect, brokerVars
  <1>5. ASSUME NEW p \in Processors, WaitReconnect(p) PROVE FlagsKnown'
    BY <1>5 DEF WaitReconnect, brokerVars
  <1>6. ASSUME NEW p \in Processors, SessionEnds(p) PROVE FlagsKnown'
    BY <1>6 DEF SessionEnds, CloseSession, Requeue, brokerVars
  <1>7. ASSUME NEW p \in Processors, NEW d \in buffer[p], DropMalformed(p, d)
      PROVE FlagsKnown'
    BY <1>7, DeliveryFields DEF DropMalformed, Nack, brokerVars
  <1>8. ASSUME NEW p \in Processors, NEW d \in buffer[p], StartHandler(p, d)
      PROVE FlagsKnown'
    BY <1>8, DeliveryFields DEF StartHandler, brokerVars
  <1>9. ASSUME NEW p \in Processors, HandlerSucceeds(p) PROVE FlagsKnown'
    BY <1>9 DEF HandlerSucceeds, Ack, brokerVars
  <1>10. ASSUME NEW p \in Processors, HandlerFails(p) PROVE FlagsKnown'
    BY <1>10 DEF HandlerFails, Nack, brokerVars
  <1>11. ASSUME NEW p \in Processors, ConnectFails(p) PROVE FlagsKnown'
    BY <1>11 DEF ConnectFails, brokerVars
  <1>12. ASSUME NEW p \in Processors, SessionLost(p) PROVE FlagsKnown'
    BY <1>12 DEF SessionLost, Requeue
  <1>13. ASSUME NEW p \in Processors, Cancel(p) PROVE FlagsKnown'
    BY <1>13 DEF Cancel, brokerVars
  <1>14. ASSUME NEW p \in Processors, Crash(p) PROVE FlagsKnown'
    BY <1>14 DEF Crash, CloseSession, Requeue, brokerVars
  <1>15. ASSUME NEW p \in Processors, Restart(p) PROVE FlagsKnown'
    BY <1>15 DEF Restart, brokerVars
  <1>16. CASE UNCHANGED vars
    BY <1>16 DEF vars, brokerVars, history
  <1> QED
    BY <1>1, <1>2, <1>3, <1>4, <1>5, <1>6, <1>7, <1>8, <1>9, <1>10, <1>11, <1>12,
       <1>13, <1>14, <1>15, <1>16
       DEF Next, Step, Environment

\* Acknowledgements and drops keep having a reason.
LEMMA SettledStep ==
    TypeOK /\ PhaseInv /\ FlagsKnown /\ SettledForAReason /\ [Next]_vars
    => SettledForAReason'
  <1> SUFFICES ASSUME TypeOK, PhaseInv, FlagsKnown, SettledForAReason, [Next]_vars
      PROVE SettledForAReason'
    OBVIOUS
  <1> USE DEF Goto, Receive, HandleReturns, consumerVars, TypeOK, SettledForAReason
  <1>1. ASSUME NEW m \in Messages, Publish(m) PROVE SettledForAReason'
    BY <1>1 DEF Publish, brokerVars, history
  <1>2. ASSUME NEW p \in Processors, NEW m \in Messages, Deliver(p, m)
      PROVE SettledForAReason'
    BY <1>2 DEF Deliver, history
  <1>3. ASSUME NEW p \in Processors, LoopTop(p) PROVE SettledForAReason'
    BY <1>3 DEF LoopTop, brokerVars, history
  <1>4. ASSUME NEW p \in Processors, Connect(p) PROVE SettledForAReason'
    BY <1>4 DEF Connect, brokerVars, history
  <1>5. ASSUME NEW p \in Processors, WaitReconnect(p) PROVE SettledForAReason'
    BY <1>5 DEF WaitReconnect, brokerVars, history
  <1>6. ASSUME NEW p \in Processors, SessionEnds(p) PROVE SettledForAReason'
    BY <1>6 DEF SessionEnds, CloseSession, Requeue, brokerVars, history
  <1>7. ASSUME NEW p \in Processors, NEW d \in buffer[p], DropMalformed(p, d)
      PROVE SettledForAReason'
    BY <1>7 DEF DropMalformed, Nack, brokerVars, history
  <1>8. ASSUME NEW p \in Processors, NEW d \in buffer[p], StartHandler(p, d)
      PROVE SettledForAReason'
    BY <1>8 DEF StartHandler, brokerVars, history
  <1>9. ASSUME NEW p \in Processors, HandlerSucceeds(p) PROVE SettledForAReason'
    BY <1>9 DEF HandlerSucceeds, Ack, brokerVars
  <1>10. ASSUME NEW p \in Processors, HandlerFails(p) PROVE SettledForAReason'
    BY <1>10 DEF HandlerFails, Nack, brokerVars, PhaseInv, FlagsKnown, Held
  <1>11. ASSUME NEW p \in Processors, ConnectFails(p) PROVE SettledForAReason'
    BY <1>11 DEF ConnectFails, brokerVars, history
  <1>12. ASSUME NEW p \in Processors, SessionLost(p) PROVE SettledForAReason'
    BY <1>12 DEF SessionLost, Requeue, history
  <1>13. ASSUME NEW p \in Processors, Cancel(p) PROVE SettledForAReason'
    BY <1>13 DEF Cancel, brokerVars, history
  <1>14. ASSUME NEW p \in Processors, Crash(p) PROVE SettledForAReason'
    BY <1>14 DEF Crash, CloseSession, Requeue, brokerVars, history
  <1>15. ASSUME NEW p \in Processors, Restart(p) PROVE SettledForAReason'
    BY <1>15 DEF Restart, brokerVars, history
  <1>16. CASE UNCHANGED vars
    BY <1>16 DEF vars, brokerVars, history
  <1> QED
    BY <1>1, <1>2, <1>3, <1>4, <1>5, <1>6, <1>7, <1>8, <1>9, <1>10, <1>11, <1>12,
       <1>13, <1>14, <1>15, <1>16
       DEF Next, Step, Environment

\* No step unsettles or forgets a message.
LEMMA SettledForGoodStep ==
    TypeOK /\ [Next]_vars
    => SettledStays
  <1> SUFFICES ASSUME TypeOK, [Next]_vars PROVE SettledStays
    OBVIOUS
  <1> USE DEF Goto, Receive, HandleReturns, consumerVars, TypeOK, SettledStays, Accepted
  <1>1. ASSUME NEW m \in Messages, Publish(m) PROVE SettledStays
    BY <1>1 DEF Publish
  <1>2. ASSUME NEW p \in Processors, NEW m \in Messages, Deliver(p, m)
      PROVE SettledStays
    BY <1>2 DEF Deliver
  <1>3. ASSUME NEW p \in Processors, LoopTop(p) PROVE SettledStays
    BY <1>3 DEF LoopTop, brokerVars
  <1>4. ASSUME NEW p \in Processors, Connect(p) PROVE SettledStays
    BY <1>4 DEF Connect, brokerVars
  <1>5. ASSUME NEW p \in Processors, WaitReconnect(p) PROVE SettledStays
    BY <1>5 DEF WaitReconnect, brokerVars
  <1>6. ASSUME NEW p \in Processors, SessionEnds(p) PROVE SettledStays
    BY <1>6 DEF SessionEnds, CloseSession, Requeue, brokerVars
  <1>7. ASSUME NEW p \in Processors, NEW d \in buffer[p], DropMalformed(p, d)
      PROVE SettledStays
    BY <1>7 DEF DropMalformed, Nack, brokerVars
  <1>8. ASSUME NEW p \in Processors, NEW d \in buffer[p], StartHandler(p, d)
      PROVE SettledStays
    BY <1>8 DEF StartHandler, brokerVars
  <1>9. ASSUME NEW p \in Processors, HandlerSucceeds(p) PROVE SettledStays
    BY <1>9 DEF HandlerSucceeds, Ack, brokerVars
  <1>10. ASSUME NEW p \in Processors, HandlerFails(p) PROVE SettledStays
    BY <1>10 DEF HandlerFails, Nack, brokerVars
  <1>11. ASSUME NEW p \in Processors, ConnectFails(p) PROVE SettledStays
    BY <1>11 DEF ConnectFails, brokerVars
  <1>12. ASSUME NEW p \in Processors, SessionLost(p) PROVE SettledStays
    BY <1>12 DEF SessionLost, Requeue
  <1>13. ASSUME NEW p \in Processors, Cancel(p) PROVE SettledStays
    BY <1>13 DEF Cancel, brokerVars
  <1>14. ASSUME NEW p \in Processors, Crash(p) PROVE SettledStays
    BY <1>14 DEF Crash, CloseSession, Requeue, brokerVars
  <1>15. ASSUME NEW p \in Processors, Restart(p) PROVE SettledStays
    BY <1>15 DEF Restart, brokerVars
  <1>16. CASE UNCHANGED vars
    BY <1>16 DEF vars, brokerVars
  <1> QED
    BY <1>1, <1>2, <1>3, <1>4, <1>5, <1>6, <1>7, <1>8, <1>9, <1>10, <1>11, <1>12,
       <1>13, <1>14, <1>15, <1>16
       DEF Next, Step, Environment

----------------------------------------------------------------------------

\* The processes start with nothing held and nothing owed.
LEMMA InitHolds == Init => IInv
  BY DEF Init, IInv, TypeOK, Running, PhaseInv, OnePlace, UnackedIsHeld, HeldOnce,
         FlagsKnown, Held, SettledForAReason

\* The parts of the invariant are inductive together.
LEMMA StepHolds == IInv /\ [Next]_vars => IInv'
  BY TypeStep, PhaseStep, OnePlaceStep, UnackedIsHeldStep, HeldOnceStep,
     FlagsKnownStep, SettledStep DEF IInv

\* The inductive invariant holds in every reachable state.
THEOREM Invariance == Spec => []IInv
  BY InitHolds, StepHolds, PTL DEF Spec

\* Type correctness of the queue and of its processors.
THEOREM TypeCorrect == Spec => []TypeOK
  BY Invariance, PTL DEF IInv

\* handle and the broker's requeueing never leave a message in two places.
THEOREM OnePlaceHolds == Spec => []OnePlace
  BY Invariance, PTL DEF IInv

\* handle and consumeOnce never forget a delivery: an open session owes the
\* broker exactly the messages its processor holds.
THEOREM UnackedIsHeldHolds == Spec => []UnackedIsHeld
  BY Invariance, PTL DEF IInv

\* An acknowledged task was executed, a dropped one failed when redelivered.
THEOREM SettledForAReasonHolds == Spec => []SettledForAReason
  BY Invariance, PTL DEF IInv

\* Two processors execute one task together only if a session broke.
THEOREM ConcurrentOnlyAfterLossHolds == Spec => []ConcurrentOnlyAfterLoss
  <1>1. IInv => ConcurrentOnlyAfterLoss
    <2> SUFFICES ASSUME IInv, NEW p \in Processors, NEW q \in Processors, p # q,
                        pc[p] = "handling", pc[q] = "handling",
                        current[p].msg = current[q].msg,
                        session[p] # "lost", session[q] # "lost"
                 PROVE  FALSE
      BY DEF ConcurrentOnlyAfterLoss
    <2>1. session[p] = "open" /\ session[q] = "open"
      BY DEF IInv, TypeOK, PhaseInv
    <2>2. current[p] \in Held(p) /\ current[q] \in Held(q)
      BY DEF IInv, PhaseInv, Held
    <2>3. current[p].msg \in unacked[p] /\ current[q].msg \in unacked[q]
      BY <2>1, <2>2 DEF IInv, UnackedIsHeld
    <2> QED
      BY <2>3 DEF IInv, OnePlace
  <1> QED
    BY <1>1, Invariance, PTL

\* A settled message is settled for good, and no message is ever forgotten.
THEOREM SettledForGoodHolds == Spec => SettledForGood
  <1>1. TypeOK /\ [Next]_vars => [SettledStays]_vars
    BY SettledForGoodStep
  <1> QED
    BY <1>1, TypeCorrect, PTL DEF Spec, SettledForGood

============================================================================
