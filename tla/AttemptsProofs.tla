--------------------------- MODULE AttemptsProofs ---------------------------
(***************************************************************************)
(* How often a task is tried (consumer.go:77-99): AttemptsBounded, for     *)
(* every number of processors, messages and faults; and, with it, that the *)
(* queue and its processors implement WorkQueue.                           *)
(*                                                                         *)
(* The argument is a count.  A message can be tried twice when it is new   *)
(* and once when it carries the flag; a processor whose session broke may  *)
(* try each message it still has buffered once more.  Only a fault can     *)
(* raise the sum of the tries made and the tries to come.                  *)
(***************************************************************************)
EXTENDS TaskQueueProofs, FiniteSetTheorems

\* The processors that may still try m although the broker took it back.
Stale(m) == {p \in Processors : session[p] = "lost" /\ \E d \in buffer[p] : d.msg = m}

\* The place of m lets the handler be started for it k more times.
Left(m, k) ==
    \/ k = 0
    \/ m \notin Accepted
    \/ m \in ready /\ (m \in redelivered => k <= 1)
    \/ \E p \in Processors :
          /\ session[p] = "open"
          /\ \/ \E d \in buffer[p] : d.msg = m /\ (d.redelivered => k <= 1)
             \/ /\ current[p] # NoDelivery
                /\ current[p].msg = m
                /\ ~current[p].redelivered
                /\ k <= 1

\* Then the bound has room for the tries made, the stale ones and k more.
Room(m, k) == attempts[m] + Cardinality(Stale(m)) + k <= 2 + faults

\* The inductive invariant.
Counted ==
    \A m \in Messages :
        /\ IsFiniteSet(Stale(m))
        /\ \A k \in 0 .. 2 : Left(m, k) => Room(m, k)

----------------------------------------------------------------------------

\* The number of stale processors is a number.
LEMMA StaleCount ==
    ASSUME Counted, NEW m \in Messages
    PROVE  Cardinality(Stale(m)) \in Nat
  BY FS_CardinalityType DEF Counted

\* A step that tries nothing and makes nothing stale keeps the room, and a
\* fault makes room for one more.
LEMMA RoomKept ==
    ASSUME TypeOK, TypeOK', Counted, NEW m \in Messages,
           attempts'[m] = attempts[m], faults' >= faults,
           Stale(m)' \subseteq Stale(m),
           \A k \in 0 .. 2 : Left(m, k)' => Left(m, k) \/ (k <= 1 /\ faults' >= faults + 1)
    PROVE  IsFiniteSet(Stale(m)') /\ \A k \in 0 .. 2 : Left(m, k)' => Room(m, k)'
  <1>1. IsFiniteSet(Stale(m))
    BY DEF Counted
  <1>2. IsFiniteSet(Stale(m)') /\ Cardinality(Stale(m)') <= Cardinality(Stale(m))
    BY <1>1, FS_Subset
  <1>3. Cardinality(Stale(m)) \in Nat /\ Cardinality(Stale(m)') \in Nat
    BY <1>1, <1>2, FS_CardinalityType
  <1>4. attempts[m] \in Nat /\ attempts'[m] \in Nat /\ faults \in Nat /\ faults' \in Nat
    BY DEF TypeOK
  <1>5. ASSUME NEW k \in 0 .. 2, Left(m, k)' PROVE Room(m, k)'
    <2>1. CASE Left(m, k)
      <3>1. Room(m, k)
        BY <2>1 DEF Counted
      <3> QED
        BY <3>1, <1>2, <1>3, <1>4 DEF Room
    <2>2. CASE k <= 1 /\ faults' >= faults + 1
      <3>1. Room(m, 0)
        BY DEF Counted, Left
      <3> QED
        BY <3>1, <2>2, <1>2, <1>3, <1>4 DEF Room
    <2> QED
      BY <1>5, <2>1, <2>2
  <1> QED
    BY <1>2, <1>5

\* A step that starts no handler, with the two facts to show about it.
LEMMA QuietStep ==
    ASSUME TypeOK, TypeOK', Counted, attempts' = attempts, faults' >= faults,
           \A m \in Messages : Stale(m)' \subseteq Stale(m),
           \A m \in Messages, k \in 0 .. 2 :
              Left(m, k)' => Left(m, k) \/ (k <= 1 /\ faults' >= faults + 1)
    PROVE  Counted'
  <1> SUFFICES ASSUME NEW m \in Messages
               PROVE  IsFiniteSet(Stale(m)') /\ \A k \in 0 .. 2 : Left(m, k)' => Room(m, k)'
    BY DEF Counted
  <1>1. attempts'[m] = attempts[m] /\ Stale(m)' \subseteq Stale(m)
    OBVIOUS
  <1>2. \A k \in 0 .. 2 : Left(m, k)' => Left(m, k) \/ (k <= 1 /\ faults' >= faults + 1)
    OBVIOUS
  <1> QED
    BY <1>1, <1>2, RoomKept

\* A lost session makes its buffer stale, which is the fault's doing.
LEMMA SessionLostCounted ==
    ASSUME IInv, IInv', Counted, NEW p \in Processors, SessionLost(p)
    PROVE  Counted'
  <1> USE DEF IInv
  <1> SUFFICES ASSUME NEW m \in Messages
               PROVE  IsFiniteSet(Stale(m)') /\ \A k \in 0 .. 2 : Left(m, k)' => Room(m, k)'
    BY DEF Counted
  <1> DEFINE Behind == \E d \in buffer[p] : d.msg = m
  <1>0. /\ session[p] = "open"
        /\ session' = [session EXCEPT ![p] = "lost"]
        /\ buffer' = buffer /\ current' = current /\ attempts' = attempts
        /\ faults' = faults + 1
        /\ ready' = ready \cup unacked[p]
        /\ redelivered' = redelivered \cup unacked[p]
    BY DEF SessionLost, Requeue, Fault, history
  <1>1. IsFiniteSet(Stale(m))
    BY DEF Counted
  <1>2. Stale(m)' \subseteq Stale(m) \cup {p}
    BY <1>0 DEF Stale, TypeOK
  <1>3. ~Behind => Stale(m)' \subseteq Stale(m)
    BY <1>0 DEF Stale, TypeOK
  <1>4. /\ IsFiniteSet(Stale(m) \cup {p})
        /\ Cardinality(Stale(m) \cup {p}) <= Cardinality(Stale(m)) + 1
    <2>1. Cardinality(Stale(m)) \in Nat
      BY <1>1, FS_CardinalityType
    <2>2. /\ IsFiniteSet(Stale(m) \cup {p})
          /\ Cardinality(Stale(m) \cup {p}) =
               IF p \in Stale(m) THEN Cardinality(Stale(m)) ELSE Cardinality(Stale(m)) + 1
      BY <1>1, FS_AddElement
    <2> QED
      BY <2>1, <2>2
  <1>5. IsFiniteSet(Stale(m)') /\ Cardinality(Stale(m)') <= Cardinality(Stale(m) \cup {p})
    BY <1>2, <1>4, FS_Subset
  <1>6. ~Behind => Cardinality(Stale(m)') <= Cardinality(Stale(m))
    BY <1>1, <1>3, FS_Subset
  <1>7. /\ Cardinality(Stale(m)) \in Nat /\ Cardinality(Stale(m)') \in Nat
        /\ Cardinality(Stale(m) \cup {p}) \in Nat
    BY <1>1, <1>4, <1>5, FS_CardinalityType
  <1>8. attempts[m] \in Nat /\ faults \in Nat /\ attempts'[m] = attempts[m]
    BY <1>0 DEF TypeOK
  <1>9. Accepted \subseteq Accepted'
    BY SettledForGoodStep DEF SettledStays, Next, Environment
  <1>10. ASSUME NEW k \in 0 .. 2, Left(m, k)' PROVE Room(m, k)'
    <2>1. Left(m, k) \/ (k <= 1 /\ ~Behind)
      <3>1. CASE m \in unacked[p]
        <4>1. m \in ready' /\ m \in redelivered' /\ m \in Accepted'
          BY <3>1, <1>0 DEF Accepted
        <4>2. k <= 1 \/ \E q \in Processors :
                 session'[q] = "open" /\ \E d \in Held(q)' : d.msg = m
          BY <4>1, <1>10 DEF Left, Held
        <4>3. k <= 1
          BY <4>1, <4>2 DEF UnackedIsHeld, OnePlace
        <4>4. Behind => Left(m, k)
          BY <4>3, <1>0 DEF Left
        <4> QED
          BY <4>3, <4>4
      <3>2. CASE m \notin unacked[p]
        BY <3>2, <1>0, <1>9, <1>10 DEF Left, TypeOK
      <3> QED
        BY <3>1, <3>2
    <2>2. CASE Left(m, k)
      <3>1. Room(m, k)
        BY <2>2 DEF Counted
      <3> QED
        BY <3>1, <1>0, <1>4, <1>5, <1>7, <1>8 DEF Room
    <2>3. CASE k <= 1 /\ ~Behind
      <3>1. Room(m, 0)
        BY DEF Counted, Left
      <3> QED
        BY <3>1, <2>3, <1>0, <1>6, <1>7, <1>8 DEF Room
    <2> QED
      BY <2>1, <2>2, <2>3
  <1> QED
    BY <1>5, <1>10

\* Starting the handler uses one of the tries there was room for.
LEMMA StartHandlerCounted ==
    ASSUME IInv, IInv', Counted, NEW p \in Processors, NEW d \in buffer[p], StartHandler(p, d)
    PROVE  Counted'
  <1> USE DEF IInv
  <1> SUFFICES ASSUME NEW m \in Messages
               PROVE  IsFiniteSet(Stale(m)') /\ \A k \in 0 .. 2 : Left(m, k)' => Room(m, k)'
    BY DEF Counted
  <1>0. /\ buffer' = [buffer EXCEPT ![p] = @ \ {d}]
        /\ current' = [current EXCEPT ![p] = d]
        /\ attempts' = [attempts EXCEPT ![d.msg] = @ + 1]
        /\ session' = session /\ faults' = faults
        /\ ready' = ready /\ redelivered' = redelivered /\ Accepted' = Accepted
        /\ unacked' = unacked
    BY DEF StartHandler, Receive, brokerVars, Accepted
  <1>1. d \in Delivery /\ d.msg \in Messages
    BY DeliveryFields DEF TypeOK
  <1>2. /\ attempts[m] \in Nat /\ faults \in Nat
        /\ attempts'[m] = IF m = d.msg THEN attempts[m] + 1 ELSE attempts[m]
    BY <1>0, <1>1 DEF TypeOK
  <1>3. IsFiniteSet(Stale(m))
    BY DEF Counted
  <1>4. CASE m # d.msg
    <2>1. Stale(m)' \subseteq Stale(m)
      BY <1>0 DEF Stale, TypeOK
    <2>2. \A k \in 0 .. 2 : Left(m, k)' => Left(m, k)
      BY <1>0, <1>4 DEF Left, TypeOK
    <2> QED
      BY <2>1, <2>2, <1>0, <1>2, <1>4, RoomKept
  <1>5. CASE m = d.msg /\ session[p] = "open"
    <2>1. Stale(m)' = Stale(m)
      BY <1>0, <1>5 DEF Stale, TypeOK
    <2>2. m \in unacked[p]
      BY <1>5 DEF UnackedIsHeld, Held
    <2>3. m \notin ready /\ m \in Accepted
      BY <2>2 DEF OnePlace, Accepted
    <2>4. ASSUME NEW q \in Processors, session[q] = "open", q # p, NEW x \in Held(q)
          PROVE  x.msg # m
      <3>1. m \notin unacked[q]
        BY <2>2, <2>4 DEF OnePlace
      <3>2. unacked[q] = {y.msg : y \in Held(q)}
        BY <2>4 DEF UnackedIsHeld
      <3> QED
        BY <2>4, <3>1, <3>2
    <2>5. \A x \in buffer'[p] : x.msg # m
      BY <1>0, <1>5 DEF HeldOnce, TypeOK
    <2>6. ASSUME NEW k \in 0 .. 2, Left(m, k)' PROVE k <= 1 /\ (k = 1 => ~d.redelivered)
      <3>1. k = 0 \/ \E q \in Processors :
               /\ session[q] = "open"
               /\ \/ \E x \in buffer'[q] : x.msg = m
                  \/ /\ current'[q] # NoDelivery
                     /\ current'[q].msg = m
                     /\ ~current'[q].redelivered
                     /\ k <= 1
        BY <2>3, <2>6, <1>0 DEF Left
      <3>2. \A q \in Processors : session[q] = "open" /\ q # p =>
               /\ \A x \in buffer'[q] : x.msg # m
               /\ current'[q] # NoDelivery => current'[q].msg # m
        BY <2>4, <1>0 DEF Held, TypeOK
      <3>3. current'[p] = d
        BY <1>0 DEF TypeOK
      <3> QED
        BY <3>1, <3>2, <3>3, <2>5
    <2>7. ASSUME NEW k \in 0 .. 2, Left(m, k)' PROVE Room(m, k)'
      <3>1. k + 1 \in 0 .. 2 /\ Left(m, k + 1)
        BY <2>6, <2>7, <1>5 DEF Left
      <3>2. Room(m, k + 1)
        BY <3>1 DEF Counted
      <3> QED
        BY <3>2, <2>1, <1>0, <1>2, <1>5, StaleCount DEF Room
    <2> QED
      BY <2>1, <2>7, <1>3
  <1>6. CASE m = d.msg /\ session[p] # "open"
    <2>1. session[p] = "lost"
      BY <1>6 DEF StartHandler, Receive, PhaseInv, TypeOK
    <2>2. p \in Stale(m) /\ Stale(m)' \subseteq Stale(m) \ {p}
      BY <2>1, <1>0, <1>6 DEF Stale, HeldOnce, TypeOK
    <2>3. /\ IsFiniteSet(Stale(m) \ {p})
          /\ Cardinality(Stale(m) \ {p}) = Cardinality(Stale(m)) - 1
      BY <2>2, <1>3, FS_RemoveElement
    <2>4. IsFiniteSet(Stale(m)') /\ Cardinality(Stale(m)') <= Cardinality(Stale(m) \ {p})
      BY <2>2, <2>3, FS_Subset
    <2>5. Cardinality(Stale(m)') \in Nat /\ Cardinality(Stale(m)) \in Nat
      BY <2>4, <1>3, FS_CardinalityType
    <2>6. ASSUME NEW k \in 0 .. 2, Left(m, k)' PROVE Room(m, k)'
      <3>1. Left(m, k)
        BY <2>1, <2>6, <1>0 DEF Left, TypeOK
      <3>2. Room(m, k)
        BY <3>1 DEF Counted
      <3> QED
        BY <3>2, <2>3, <2>4, <2>5, <1>0, <1>2, <1>6 DEF Room
    <2> QED
      BY <2>4, <2>6
  <1> QED
    BY <1>4, <1>5, <1>6

\* Every step keeps the count.
LEMMA CountedStep ==
    IInv /\ Counted /\ [Next]_vars
    => Counted'
  <1> SUFFICES ASSUME IInv, Counted, [Next]_vars PROVE Counted'
    OBVIOUS
  <1>t. IInv'
    BY StepHolds
  <1>a. Accepted \subseteq Accepted'
    BY SettledForGoodStep DEF IInv, SettledStays, vars, brokerVars, Accepted
  <1>f. faults \in Nat /\ faults >= faults
    BY DEF IInv, TypeOK
  <1>u. TypeOK /\ TypeOK'
    BY <1>t DEF IInv
  <1>l. /\ PhaseInv /\ UnackedIsHeld
    BY DEF IInv
  <1> DEFINE Shrinks == \A m \in Messages : Stale(m)' \subseteq Stale(m)
             Fewer   == \A m \in Messages, k \in 0 .. 2 :
                           Left(m, k)' => Left(m, k) \/ (k <= 1 /\ faults' >= faults + 1)
  <1>q. attempts' = attempts /\ faults' >= faults /\ Shrinks /\ Fewer => Counted'
    BY <1>u, QuietStep
  <1> HIDE DEF Shrinks, Fewer
  <1>1. ASSUME NEW m \in Messages, Publish(m) PROVE Counted'
    <2>1. Shrinks
      BY <1>1 DEF Shrinks, Publish, consumerVars, Stale
    <2>2. Fewer
      BY <1>1, <1>a DEF Fewer, Publish, consumerVars, Left
    <2> QED
      BY <2>1, <2>2, <1>1, <1>f, <1>q DEF Publish, history
  <1>2. ASSUME NEW p \in Processors, NEW m \in Messages, Deliver(p, m) PROVE Counted'
    <2>1. Shrinks
      BY <1>2, <1>u DEF Shrinks, Deliver, Stale, TypeOK
    <2>2. Fewer
      <3> SUFFICES ASSUME NEW n \in Messages, NEW k \in 0 .. 2, Left(n, k)' PROVE Left(n, k)
        BY DEF Fewer
      <3>1. /\ ready' \subseteq ready /\ redelivered' = redelivered
            /\ session' = session /\ current' = current
        BY <1>2 DEF Deliver
      <3>2. \A q \in Processors : \A d \in buffer'[q] : d \in buffer[q] \/ d = Tagged(m)
        BY <1>2, <1>u DEF Deliver, TypeOK
      <3>3. m \in ready /\ Tagged(m).msg = m /\ (Tagged(m).redelivered <=> m \in redelivered)
        BY <1>2, TaggedType DEF Deliver
      <3> QED
        BY <3>1, <3>2, <3>3, <1>a DEF Left
    <2> QED
      BY <2>1, <2>2, <1>2, <1>f, <1>q DEF Deliver, history
  <1>3. ASSUME NEW p \in Processors, LoopTop(p) PROVE Counted'
    <2>1. Shrinks
      BY <1>3 DEF Shrinks, LoopTop, Stale
    <2>2. Fewer
      BY <1>3, <1>a DEF Fewer, LoopTop, brokerVars, Left
    <2> QED
      BY <2>1, <2>2, <1>3, <1>f, <1>q DEF LoopTop, history
  <1>4. ASSUME NEW p \in Processors, Connect(p) PROVE Counted'
    <2>0. buffer[p] = {} /\ current[p] = NoDelivery
      BY <1>4, <1>l DEF Connect, Goto, PhaseInv, IInv, TypeOK
    <2>1. Shrinks
      BY <1>4, <1>u DEF Shrinks, Connect, Stale, TypeOK
    <2>2. Fewer
      BY <2>0, <1>4, <1>a, <1>u DEF Fewer, Connect, brokerVars, Left, TypeOK
    <2> QED
      BY <2>1, <2>2, <1>4, <1>f, <1>q DEF Connect, history
  <1>5. ASSUME NEW p \in Processors, WaitReconnect(p) PROVE Counted'
    <2>1. Shrinks
      BY <1>5 DEF Shrinks, WaitReconnect, Stale
    <2>2. Fewer
      BY <1>5, <1>a DEF Fewer, WaitReconnect, brokerVars, Left
    <2> QED
      BY <2>1, <2>2, <1>5, <1>f, <1>q DEF WaitReconnect, history
  <1>6. ASSUME NEW p \in Processors, SessionEnds(p) PROVE Counted'
    <2>1. Shrinks
      BY <1>6, <1>u DEF Shrinks, SessionEnds, CloseSession, Stale, TypeOK
    <2>2. Fewer
      <3> SUFFICES ASSUME NEW m \in Messages, NEW k \in 0 .. 2, Left(m, k)' PROVE Left(m, k)
        BY DEF Fewer
      <3>1. /\ ready' = ready \cup unacked[p] /\ redelivered' = redelivered \cup unacked[p]
            /\ session' = [session EXCEPT ![p] = "none"]
            /\ buffer' = [buffer EXCEPT ![p] = {}] /\ current' = current
        BY <1>6 DEF SessionEnds, CloseSession, Requeue
      <3>2. current[p] = NoDelivery
        BY <1>6, <1>l DEF SessionEnds, Goto, PhaseInv
      <3>3. m \in unacked[p] => session[p] = "open" /\ \E d \in buffer[p] : d.msg = m
        <4>1. Held(p) = buffer[p]
          BY <3>2 DEF Held
        <4>2. unacked[p] = IF session[p] = "open" THEN {d.msg : d \in buffer[p]} ELSE {}
          BY <4>1, <1>l DEF UnackedIsHeld
        <4> QED
          BY <4>2
      <3>4. \A q \in Processors : session'[q] = "open" =>
               session[q] = "open" /\ buffer'[q] = buffer[q] /\ current'[q] = current[q]
        BY <3>1, <1>u DEF TypeOK
      <3> QED
        BY <3>1, <3>3, <3>4, <1>a DEF Left
    <2> QED
      BY <2>1, <2>2, <1>6, <1>f, <1>q DEF SessionEnds, history
  <1>7. ASSUME NEW p \in Processors, NEW d \in buffer[p], DropMalformed(p, d) PROVE Counted'
    <2>1. Shrinks
      BY <1>7, <1>u DEF Shrinks, DropMalformed, Receive, Stale, TypeOK
    <2>2. Fewer
      <3>1. /\ ready' = ready /\ redelivered' = redelivered
            /\ session' = session /\ current' = current
        BY <1>7 DEF DropMalformed, Nack, brokerVars
      <3>2. \A q \in Processors : buffer'[q] \subseteq buffer[q]
        BY <1>7, <1>u DEF DropMalformed, Receive, TypeOK
      <3> QED
        BY <3>1, <3>2, <1>a DEF Fewer, Left
    <2> QED
      BY <2>1, <2>2, <1>7, <1>f, <1>q DEF DropMalformed, history
  <1>8. ASSUME NEW p \in Processors, NEW d \in buffer[p], StartHandler(p, d) PROVE Counted'
    BY <1>8, <1>t, StartHandlerCounted
  <1>9. ASSUME NEW p \in Processors, HandlerSucceeds(p) PROVE Counted'
    <2>1. Shrinks
      BY <1>9 DEF Shrinks, HandlerSucceeds, HandleReturns, Stale
    <2>2. Fewer
      <3>1. /\ ready' = ready /\ redelivered' = redelivered
            /\ session' = session /\ buffer' = buffer
        BY <1>9 DEF HandlerSucceeds, HandleReturns, Ack, brokerVars
      <3>2. \A q \in Processors : current'[q] # NoDelivery => current'[q] = current[q]
        BY <1>9, <1>u DEF HandlerSucceeds, HandleReturns, TypeOK
      <3> QED
        BY <3>1, <3>2, <1>a DEF Fewer, Left
    <2> QED
      BY <2>1, <2>2, <1>9, <1>f, <1>q DEF HandlerSucceeds, HandleReturns
  <1>10. ASSUME NEW p \in Processors, HandlerFails(p) PROVE Counted'
    <2>1. Shrinks
      BY <1>10 DEF Shrinks, HandlerFails, HandleReturns, Stale
    <2>2. Fewer
      <3> SUFFICES ASSUME NEW m \in Messages, NEW k \in 0 .. 2, Left(m, k)' PROVE Left(m, k)
        BY DEF Fewer
      <3>1. session' = session /\ buffer' = buffer
        BY <1>10 DEF HandlerFails, HandleReturns
      <3>2. \A q \in Processors : current'[q] # NoDelivery => current'[q] = current[q]
        BY <1>10, <1>u DEF HandlerFails, HandleReturns, TypeOK
      <3>3. current[p] # NoDelivery
        BY <1>10, <1>l DEF HandlerFails, HandleReturns, Goto, PhaseInv
      <3>4. CASE ready' = ready /\ redelivered' = redelivered
        BY <3>1, <3>2, <3>4, <1>a DEF Left
      <3>5. CASE /\ session[p] = "open" /\ ~current[p].redelivered
                 /\ ready' = ready \cup {current[p].msg}
                 /\ redelivered' = redelivered \cup {current[p].msg}
        BY <3>1, <3>2, <3>3, <3>5, <1>a DEF Left
      <3> QED
        BY <3>4, <3>5, <1>10 DEF HandlerFails, Nack, brokerVars
    <2> QED
      BY <2>1, <2>2, <1>10, <1>f, <1>q DEF HandlerFails, HandleReturns
  <1>11. ASSUME NEW p \in Processors, ConnectFails(p) PROVE Counted'
    <2>1. Shrinks
      BY <1>11 DEF Shrinks, ConnectFails, Stale
    <2>2. Fewer
      BY <1>11, <1>a DEF Fewer, ConnectFails, brokerVars, Left
    <2>3. faults' >= faults
      BY <1>11, <1>f DEF ConnectFails, Fault
    <2> QED
      BY <2>1, <2>2, <2>3, <1>11, <1>q DEF ConnectFails, history
  <1>12. ASSUME NEW p \in Processors, SessionLost(p) PROVE Counted'
    BY <1>12, <1>t, SessionLostCounted
  <1>13. ASSUME NEW p \in Processors, Cancel(p) PROVE Counted'
    <2>1. Shrinks
      BY <1>13 DEF Shrinks, Cancel, Stale
    <2>2. Fewer
      BY <1>13, <1>a DEF Fewer, Cancel, brokerVars, Left
    <2> QED
      BY <2>1, <2>2, <1>13, <1>f, <1>q DEF Cancel, Fault, history
  <1>14. ASSUME NEW p \in Processors, Crash(p) PROVE Counted'
    <2>1. Shrinks
      BY <1>14, <1>u DEF Shrinks, Crash, CloseSession, Stale, TypeOK
    <2>2. Fewer
      <3> SUFFICES ASSUME NEW m \in Messages, NEW k \in 0 .. 2, Left(m, k)'
                   PROVE  Left(m, k) \/ k <= 1
        BY <1>14, <1>f DEF Fewer, Crash, Fault
      <3>1. /\ ready' = ready \cup unacked[p] /\ redelivered' = redelivered \cup unacked[p]
            /\ session' = [session EXCEPT ![p] = "none"]
            /\ buffer' = [buffer EXCEPT ![p] = {}]
            /\ current' = [current EXCEPT ![p] = NoDelivery]
        BY <1>14 DEF Crash, CloseSession, Requeue
      <3>2. \A q \in Processors : session'[q] = "open" =>
               session[q] = "open" /\ buffer'[q] = buffer[q] /\ current'[q] = current[q]
        BY <3>1, <1>u DEF TypeOK
      <3> QED
        BY <3>1, <3>2, <1>a DEF Left
    <2>3. attempts' = attempts /\ faults' >= faults
      BY <1>14, <1>f DEF Crash, Fault, history
    <2> QED
      BY <2>1, <2>2, <2>3, <1>q
  <1>15. ASSUME NEW p \in Processors, Restart(p) PROVE Counted'
    <2>1. Shrinks
      BY <1>15 DEF Shrinks, Restart, Stale
    <2>2. Fewer
      BY <1>15, <1>a DEF Fewer, Restart, brokerVars, Left
    <2> QED
      BY <2>1, <2>2, <1>15, <1>f, <1>q DEF Restart, history
  <1>16. CASE UNCHANGED vars
    <2>1. Shrinks
      BY <1>16 DEF Shrinks, vars, consumerVars, Stale
    <2>2. Fewer
      BY <1>16, <1>a DEF Fewer, vars, brokerVars, consumerVars, Left
    <2> QED
      BY <2>1, <2>2, <1>16, <1>f, <1>q DEF vars, history
  <1> QED
    BY <1>1, <1>2, <1>3, <1>4, <1>5, <1>6, <1>7, <1>8, <1>9, <1>10, <1>11, <1>12,
       <1>13, <1>14, <1>15, <1>16
       DEF Next, Step, Environment

\* At the start nothing was tried and nothing is stale.
LEMMA CountedInit == Init => Counted
  <1> SUFFICES ASSUME Init, NEW m \in Messages
               PROVE  /\ IsFiniteSet(Stale(m))
                      /\ \A k \in 0 .. 2 : Left(m, k) => Room(m, k)
    BY DEF Counted
  <1>1. Stale(m) = {}
    BY DEF Init, Stale
  <1>2. attempts[m] = 0 /\ faults = 0
    BY DEF Init
  <1> QED
    BY <1>1, <1>2, FS_EmptySet DEF Room

\* A task that always fails is tried at most twice, and once more per fault.
THEOREM AttemptsBoundedHolds == Spec => []AttemptsBounded
  <1>1. TypeOK /\ Counted => AttemptsBounded
    <2> SUFFICES ASSUME TypeOK, Counted, NEW m \in Messages
                 PROVE  attempts[m] <= 2 + faults
      BY DEF AttemptsBounded
    <2>1. Room(m, 0)
      BY DEF Counted, Left
    <2>2. attempts[m] \in Nat /\ faults \in Nat
      BY DEF TypeOK
    <2> QED
      BY <2>1, <2>2, StaleCount DEF Room
  <1>2. Spec => []Counted
    BY CountedInit, CountedStep, Invariance, PTL DEF Spec
  <1> QED
    BY <1>1, <1>2, TypeCorrect, PTL

----------------------------------------------------------------------------
(* The queue and its consumers implement WorkQueue.                        *)

\* The variables of WorkQueue, as the module's refinement mapping has them.
States == [m \in Messages |-> StateOf(m)]
Works == [p \in Processors |-> {d.msg : d \in {current[p]} \ {NoDelivery}}]

\* What a processor holds was accepted, also when its session is lost.
HeldIsAccepted == \A p \in Processors : \A d \in Held(p) : d.msg \in Accepted

\* Before the first fault no session breaks and nobody is signalled, and a flag
\* is there because the handler failed before.
Calm ==
    faults = 0 =>
        /\ \A p \in Processors : session[p] # "lost" /\ ~cancelled[p]
        /\ \A m \in redelivered : attempts[m] >= 1
        /\ \A p \in Processors :
              current[p] # NoDelivery =>
                 attempts[current[p].msg] >= IF current[p].redelivered THEN 2 ELSE 1

\* The inductive invariant of the refinement.
QueueInv == IInv /\ Counted /\ HeldIsAccepted /\ Calm

\* Only Publish adds to the accepted messages, and what becomes of a message
\* is decided by acked and dropped.
LEMMA AcceptedKept ==
    ASSUME QueueInv, [Next]_vars, \A m \in Messages : ~Publish(m)
    PROVE  Accepted' = Accepted
  <1> USE DEF Goto, Receive, HandleReturns, consumerVars, Accepted
  <1>t. TypeOK /\ PhaseInv /\ UnackedIsHeld
    BY DEF QueueInv, IInv
  <1>h. \A p \in Processors : pc[p] = "handling" /\ session[p] = "open" => current[p].msg \in unacked[p]
    BY <1>t DEF PhaseInv, UnackedIsHeld, Held
  <1>b. \A p \in Processors : session[p] = "open" => \A d \in buffer[p] : d.msg \in unacked[p]
    BY <1>t DEF UnackedIsHeld, Held
  <1>2. ASSUME NEW p \in Processors, NEW m \in Messages, Deliver(p, m) PROVE Accepted' = Accepted
    BY <1>2, <1>t DEF Deliver, TypeOK
  <1>6. ASSUME NEW p \in Processors, Requeue(p) PROVE Accepted' = Accepted
    BY <1>6, <1>t DEF Requeue, TypeOK
  <1>7. ASSUME NEW p \in Processors, NEW d \in buffer[p], DropMalformed(p, d)
        PROVE  Accepted' = Accepted
    BY <1>7, <1>t, <1>b DEF DropMalformed, Nack, brokerVars, TypeOK
  <1>9. ASSUME NEW p \in Processors, HandlerSucceeds(p) PROVE Accepted' = Accepted
    BY <1>9, <1>t, <1>h DEF HandlerSucceeds, Ack, brokerVars, TypeOK
  <1>10. ASSUME NEW p \in Processors, HandlerFails(p) PROVE Accepted' = Accepted
    BY <1>10, <1>t, <1>h DEF HandlerFails, Nack, brokerVars, TypeOK
  <1>11. CASE UNCHANGED brokerVars
    BY <1>11 DEF brokerVars
  <1> QED
    BY <1>2, <1>6, <1>7, <1>9, <1>10, <1>11
       DEF Next, Step, Environment, LoopTop, Connect, WaitReconnect, SessionEnds, CloseSession,
           StartHandler, ConnectFails, SessionLost, Cancel, Crash, Restart, vars

\* What a processor holds stays accepted.
LEMMA HeldIsAcceptedStep ==
    QueueInv /\ [Next]_vars => HeldIsAccepted'
  <1> SUFFICES ASSUME QueueInv, [Next]_vars PROVE HeldIsAccepted'
    OBVIOUS
  <1>a. Accepted \subseteq Accepted'
    BY SettledForGoodStep DEF QueueInv, IInv, SettledStays, vars, brokerVars, Accepted
  <1>t. TypeOK /\ HeldIsAccepted
    BY DEF QueueInv, IInv
  <1>1. ASSUME \A p \in Processors : Held(p)' \subseteq Held(p) PROVE HeldIsAccepted'
    BY <1>1, <1>a, <1>t DEF HeldIsAccepted
  <1>2. ASSUME NEW p \in Processors, NEW m \in Messages, Deliver(p, m) PROVE HeldIsAccepted'
    <2>1. \A q \in Processors : Held(q)' \subseteq Held(q) \cup {Tagged(m)}
      BY <1>2, <1>t DEF Deliver, Held, TypeOK
    <2>2. Tagged(m).msg \in Accepted
      BY <1>2, TaggedType DEF Deliver, Accepted
    <2> QED
      BY <2>1, <2>2, <1>a, <1>t DEF HeldIsAccepted
  <1>3. CASE buffer' = buffer /\ current' = current
    BY <1>1, <1>3 DEF Held
  <1>4. ASSUME NEW p \in Processors, NEW d \in buffer[p], DropMalformed(p, d) \/ StartHandler(p, d)
        PROVE  HeldIsAccepted'
    <2>1. /\ buffer' = [buffer EXCEPT ![p] = @ \ {d}]
          /\ current' = current \/ current' = [current EXCEPT ![p] = d]
      BY <1>4 DEF DropMalformed, StartHandler, Receive
    <2>2. \A q \in Processors :
             buffer'[q] \subseteq buffer[q] /\ current'[q] \in {current[q]} \cup buffer[q]
      BY <2>1, <1>t DEF TypeOK
    <2>3. ASSUME NEW q \in Processors PROVE Held(q)' \subseteq Held(q)
      BY <2>2 DEF Held
    <2> QED
      BY <1>1, <2>3
  <1>5. ASSUME NEW p \in Processors, HandleReturns(p) PROVE HeldIsAccepted'
    BY <1>1, <1>5, <1>t DEF HandleReturns, Held, TypeOK
  <1>6. ASSUME NEW p \in Processors, CloseSession(p),
               current' = current \/ current' = [current EXCEPT ![p] = NoDelivery]
        PROVE  HeldIsAccepted'
    BY <1>1, <1>6, <1>t DEF CloseSession, Held, TypeOK
  <1> QED
    BY <1>2, <1>3, <1>4, <1>5, <1>6
       DEF Next, Step, Environment, Publish, LoopTop, Connect, WaitReconnect, SessionEnds,
           HandlerSucceeds, HandlerFails, ConnectFails, SessionLost, Cancel, Crash, Restart,
           vars, consumerVars

\* A flag stays one the handler earned until a fault happens.
LEMMA CalmStep ==
    QueueInv /\ [Next]_vars => Calm'
  <1> SUFFICES ASSUME QueueInv, [Next]_vars, faults' = 0 PROVE Calm'
    BY DEF Calm
  <1> USE DEF Goto, Receive, HandleReturns, consumerVars
  <1>t. TypeOK /\ PhaseInv /\ FlagsKnown /\ faults \in Nat
    BY DEF QueueInv, IInv, TypeOK
  <1>f. ~Fault /\ faults = 0
    <2>1. ~Fault
      BY <1>t DEF Fault
    <2> QED
      BY <2>1 DEF Next, Step, Environment, Publish, Deliver, LoopTop, Connect, WaitReconnect,
         SessionEnds, DropMalformed, StartHandler, HandlerSucceeds, HandlerFails, ConnectFails,
         SessionLost, Cancel, Crash, Restart, vars
  <1>c. /\ \A p \in Processors : session[p] # "lost" /\ ~cancelled[p]
        /\ \A m \in redelivered : attempts[m] >= 1
        /\ \A p \in Processors :
              current[p] # NoDelivery =>
                 attempts[current[p].msg] >= IF current[p].redelivered THEN 2 ELSE 1
    BY <1>f DEF QueueInv, Calm
  <1> DEFINE Quiet == \A p \in Processors :
                         session'[p] \in {session[p], "open", "none"} /\ (cancelled'[p] => cancelled[p])
  <1>1. ASSUME Quiet, redelivered' = redelivered, attempts' = attempts,
               \A p \in Processors : current'[p] = current[p] \/ current'[p] = NoDelivery
        PROVE  Calm'
    BY <1>1, <1>c DEF Calm
  <1>2. ASSUME NEW p \in Processors, NEW d \in buffer[p], StartHandler(p, d) PROVE Calm'
    <2>1. d \in Delivery /\ d.msg \in Messages /\ attempts \in [Messages -> Nat] /\ redelivered \subseteq Messages
      BY <1>t, DeliveryFields DEF TypeOK
    <2>2. /\ attempts' = [attempts EXCEPT ![d.msg] = @ + 1] /\ redelivered' = redelivered
          /\ current' = [current EXCEPT ![p] = d] /\ session' = session /\ cancelled' = cancelled
      BY <1>2 DEF StartHandler, brokerVars
    <2>3. \A m \in Messages : attempts'[m] >= attempts[m]
      BY <2>1, <2>2
    <2>4. attempts'[d.msg] >= IF d.redelivered THEN 2 ELSE 1
      <3>1. d.redelivered => attempts[d.msg] >= 1
        BY <1>t, <1>c DEF FlagsKnown, Held
      <3> QED
        BY <3>1, <2>1, <2>2
    <2>5. \A m \in redelivered : attempts'[m] >= 1
      BY <1>c, <2>1, <2>2, <2>3
    <2>6. ASSUME NEW q \in Processors, current'[q] # NoDelivery
          PROVE  attempts'[current'[q].msg] >= IF current'[q].redelivered THEN 2 ELSE 1
      <3>1. CASE q = p
        BY <3>1, <2>2, <2>4, <1>t DEF TypeOK
      <3>2. CASE q # p
        <4>1. current'[q] = current[q] /\ current[q].msg \in Messages
          BY <3>2, <2>2, <2>6, <1>t DEF TypeOK, Tasks
        <4> QED
          BY <4>1, <2>1, <2>2, <2>6, <1>c
      <3> QED
        BY <3>1, <3>2
    <2> QED
      BY <2>2, <2>5, <2>6, <1>c DEF Calm
  <1>3. ASSUME NEW p \in Processors, HandlerFails(p) PROVE Calm'
    <2>1. /\ attempts' = attempts /\ session' = session /\ cancelled' = cancelled
          /\ redelivered' \subseteq redelivered \cup {current[p].msg}
          /\ \A q \in Processors : current'[q] = current[q] \/ current'[q] = NoDelivery
      BY <1>3, <1>t DEF HandlerFails, Nack, brokerVars, TypeOK
    <2>2. attempts[current[p].msg] >= 1
      <3>1. current[p] # NoDelivery /\ attempts[current[p].msg] \in Nat
        BY <1>3, <1>t DEF HandlerFails, PhaseInv, TypeOK, Tasks
      <3> QED
        BY <3>1, <1>c
    <2>3. \A m \in redelivered' : attempts'[m] >= 1
      BY <2>1, <2>2, <1>c
    <2>4. \A q \in Processors : current'[q] # NoDelivery =>
             attempts'[current'[q].msg] >= IF current'[q].redelivered THEN 2 ELSE 1
      BY <2>1, <1>c
    <2> QED
      BY <2>1, <2>3, <2>4, <1>c DEF Calm
  <1>4. ASSUME NEW m \in Messages, Publish(m) PROVE Calm'
    BY <1>1, <1>4 DEF Publish, history
  <1>5. ASSUME NEW p \in Processors, NEW m \in Messages, Deliver(p, m) PROVE Calm'
    BY <1>1, <1>5 DEF Deliver, history
  <1>6. ASSUME NEW p \in Processors, LoopTop(p) \/ Connect(p) \/ WaitReconnect(p) PROVE Calm'
    BY <1>1, <1>6, <1>t DEF LoopTop, Connect, WaitReconnect, brokerVars, history, TypeOK
  <1>7. ASSUME NEW p \in Processors, NEW d \in buffer[p], DropMalformed(p, d) PROVE Calm'
    BY <1>1, <1>7 DEF DropMalformed, Nack, brokerVars, history
  <1>8. ASSUME NEW p \in Processors, HandlerSucceeds(p) PROVE Calm'
    BY <1>1, <1>8, <1>t DEF HandlerSucceeds, Ack, brokerVars, TypeOK
  <1>9. ASSUME NEW p \in Processors, Restart(p) PROVE Calm'
    BY <1>1, <1>9, <1>t DEF Restart, brokerVars, history, TypeOK
  <1>10. CASE UNCHANGED vars
    BY <1>1, <1>10 DEF vars, brokerVars, history
  <1>11. ASSUME NEW p \in Processors
         PROVE  ~SessionEnds(p) /\ ~ConnectFails(p) /\ ~SessionLost(p) /\ ~Cancel(p) /\ ~Crash(p)
    BY <1>f, <1>c DEF SessionEnds, ConnectFails, SessionLost, Cancel, Crash
  <1> QED
    BY <1>2, <1>3, <1>4, <1>5, <1>6, <1>7, <1>8, <1>9, <1>10, <1>11 DEF Next, Step, Environment

\* The parts of the invariant are inductive together.
LEMMA QueueInvStep == QueueInv /\ [Next]_vars => QueueInv'
  BY StepHolds, CountedStep, HeldIsAcceptedStep, CalmStep DEF QueueInv

\* At the start nothing is held, flagged or signalled.
LEMMA QueueInvInit == Init => QueueInv
  <1>1. Init => HeldIsAccepted /\ Calm
    BY DEF Init, HeldIsAccepted, Calm, Held
  <1> QED
    BY <1>1, InitHolds, CountedInit DEF QueueInv

\* The invariant holds in every reachable state.
THEOREM QueueInvariance == Spec => []QueueInv
  BY QueueInvInit, QueueInvStep, PTL DEF Spec

\* What a message's place says of its state.
LEMMA StateIs ==
    ASSUME OnePlace, NEW m \in Messages
    PROVE  /\ m \in acked <=> StateOf(m) = "done"
           /\ m \in dropped <=> StateOf(m) = "dropped"
           /\ m \in Accepted \ (acked \cup dropped) <=> StateOf(m) = "open"
           /\ m \notin Accepted <=> StateOf(m) = "unsent"
  BY DEF StateOf, OnePlace, Accepted

\* What a processor works on is its current delivery's message.
LEMMA WorkIs ==
    ASSUME NEW p \in Processors
    PROVE  Works[p] = IF current[p] = NoDelivery THEN {} ELSE {current[p].msg}
  BY DEF Works

\* States change only with the places.
LEMMA StatesKept ==
    ASSUME acked' = acked, dropped' = dropped, Accepted' = Accepted
    PROVE  States' = States
  BY DEF States, StateOf

\* One message's state changes when its places do.
LEMMA StateMoves ==
    ASSUME OnePlace, OnePlace', NEW m \in Messages, NEW a, NEW b,
           StateOf(m) = a, StateOf(m)' = b,
           acked' \ {m} = acked \ {m}, dropped' \ {m} = dropped \ {m},
           Accepted' \ {m} = Accepted \ {m}
    PROVE  Queue!Move(m, a, b)
  <1>1. ASSUME NEW n \in Messages \ {m} PROVE StateOf(n)' = StateOf(n)
    BY DEF StateOf
  <1>2. States[m] = a /\ States' = [States EXCEPT ![m] = b]
    BY <1>1 DEF States
  <1> QED
    BY <1>2 DEF Queue!Move, States

\* A delivery in hand is the only one of its message that an owner has.
LEMMA OwnedOnce ==
    ASSUME QueueInv, NEW p \in Processors, session[p] = "open", NEW d \in Held(p)
    PROVE  /\ d.msg \in Messages /\ d.msg \in Accepted \ (acked \cup dropped)
           /\ \A q \in Owners \ {p} : current[q].msg # d.msg
  <1> USE DEF QueueInv, IInv
  <1>1. d.msg \in unacked[p]
    BY DEF UnackedIsHeld
  <1>2. ASSUME NEW q \in Owners \ {p} PROVE current[q].msg # d.msg
    <2>1. current[q] \in Held(q)
      BY DEF Owners, PhaseInv, Held
    <2>2. current[q].msg \in unacked[q]
      BY <2>1 DEF Owners, UnackedIsHeld
    <2> QED
      BY <1>1, <2>2 DEF OnePlace, Owners
  <1> QED
    BY <1>1, <1>2 DEF OnePlace, Accepted, TypeOK

\* Publish is Accept.
LEMMA PublishAccepts ==
    ASSUME QueueInv, QueueInv', NEW m \in Messages, Publish(m)
    PROVE  Queue!Accept(m)
  <1>1. m \notin Accepted /\ Accepted' = Accepted \cup {m} /\ acked' = acked /\ dropped' = dropped
    BY DEF Publish, Accepted
  <1>2. OnePlace /\ OnePlace'
    BY DEF QueueInv, IInv
  <1>3. StateOf(m) = "unsent" /\ StateOf(m)' = "open"
    <2>1. StateOf(m) = "unsent"
      BY <1>1, <1>2, StateIs
    <2>2. m \notin acked' \cup dropped' /\ m \in Accepted'
      BY <1>1 DEF Accepted
    <2>3. StateOf(m)' = "open"
      BY <2>2 DEF StateOf
    <2> QED
      BY <2>1, <2>3
  <1>4. Queue!Move(m, "unsent", "open")
    BY <1>1, <1>2, <1>3, StateMoves
  <1>5. Works' = Works /\ Owners' = Owners /\ attempts' = attempts /\ faults' = faults
    BY DEF Publish, consumerVars, history, Works, Owners
  <1> QED
    BY <1>4, <1>5 DEF Queue!Accept, Works

\* DropMalformed is Reject, or without effect when the session is lost.
LEMMA DropMalformedRejects ==
    ASSUME QueueInv, QueueInv', Accepted' = Accepted,
           NEW p \in Processors, NEW d \in buffer[p], DropMalformed(p, d)
    PROVE  Queue!Reject(d.msg) \/ (States' = States /\ UNCHANGED <<Works, Owners, attempts, faults>>)
  <1>1. Works' = Works /\ Owners' = Owners /\ attempts' = attempts /\ faults' = faults
    BY DEF DropMalformed, history, Works, Owners
  <1>2. CASE session[p] # "open"
    <2>1. acked' = acked /\ dropped' = dropped
      BY <1>2 DEF DropMalformed, Nack, brokerVars
    <2> QED
      BY <2>1, <1>1, StatesKept
  <1>3. CASE session[p] = "open"
    <2>1. acked' = acked /\ dropped' = dropped \cup {d.msg} /\ d.msg \in Malformed
      BY <1>3 DEF DropMalformed, Nack
    <2>2. d.msg \in Messages /\ d.msg \in Accepted \ (acked \cup dropped)
      BY <1>3, OwnedOnce DEF Held
    <2>3. OnePlace /\ OnePlace'
      BY DEF QueueInv, IInv
    <2>4. StateOf(d.msg) = "open" /\ StateOf(d.msg)' = "dropped"
      <3>1. StateOf(d.msg) = "open"
        BY <2>2, <2>3, StateIs
      <3>2. StateOf(d.msg)' = "dropped"
        BY <2>1, <2>2 DEF StateOf
      <3> QED
        BY <3>1, <3>2
    <2>5. Queue!Move(d.msg, "open", "dropped")
      BY <2>1, <2>2, <2>3, <2>4, StateMoves
    <2> QED
      BY <2>1, <2>5, <1>1 DEF Queue!Reject, Works
  <1> QED
    BY <1>2, <1>3

\* StartHandler is Try: as the owner on an open session, and on a lost one
\* after a fault and without being the owner.
LEMMA StartHandlerTries ==
    ASSUME QueueInv, QueueInv', AttemptsBounded', Accepted' = Accepted,
           NEW p \in Processors, NEW d \in buffer[p], StartHandler(p, d)
    PROVE  d.msg \in Messages /\ Queue!Try(p, d.msg)
  <1>1. /\ pc[p] = "consuming" /\ pc' = [pc EXCEPT ![p] = "handling"]
        /\ current' = [current EXCEPT ![p] = d] /\ session' = session /\ faults' = faults
        /\ attempts' = [attempts EXCEPT ![d.msg] = @ + 1] /\ d.msg \notin Malformed
        /\ acked' = acked /\ dropped' = dropped
    BY DEF StartHandler, Receive, brokerVars
  <1>2. TypeOK /\ PhaseInv
    BY DEF QueueInv, IInv
  <1>3. d \in Delivery /\ d.msg \in Messages /\ d # NoDelivery
    BY <1>2, DeliveryFields DEF TypeOK
  <1>4. States' = States
    BY <1>1, StatesKept
  <1>5. current[p] = NoDelivery /\ session[p] # "none" /\ p \notin Owners
    BY <1>1, <1>2 DEF PhaseInv, Owners
  <1>6. Works[p] = {} /\ Works' = [Works EXCEPT ![p] = {d.msg}]
    <2>1. Works[p] = {}
      BY <1>5, WorkIs
    <2>2. ASSUME NEW q \in Processors PROVE Works'[q] = IF q = p THEN {d.msg} ELSE Works[q]
      BY <1>1, <1>2, <1>3 DEF Works, TypeOK
    <2> QED
      BY <2>1, <2>2 DEF Works
  <1>7. attempts[d.msg] < 2 + faults
    <2>1. attempts'[d.msg] <= 2 + faults'
      BY <1>3 DEF AttemptsBounded
    <2> QED
      BY <2>1, <1>1, <1>2, <1>3 DEF TypeOK
  <1>8. \/ /\ States[d.msg] = "open"
           /\ \A v \in Owners : d.msg \notin Works[v]
           /\ Owners' = Owners \cup {p}
        \/ States[d.msg] # "unsent" /\ faults > 0 /\ Owners' = Owners
    <2>1. CASE session[p] = "open"
      <3>1. /\ d.msg \in Accepted \ (acked \cup dropped)
            /\ \A q \in Owners \ {p} : current[q].msg # d.msg
        BY <2>1, OwnedOnce DEF Held
      <3>2. States[d.msg] = "open"
        BY <3>1, <1>3, StateIs DEF States, QueueInv, IInv
      <3>3. ASSUME NEW v \in Owners PROVE d.msg \notin Works[v]
        BY <3>1, <1>5, WorkIs DEF Owners
      <3>4. Owners' = Owners \cup {p}
        BY <2>1, <1>1, <1>2 DEF Owners, TypeOK
      <3> QED
        BY <3>2, <3>3, <3>4
    <2>2. CASE session[p] = "lost"
      <3>1. faults > 0
        BY <2>2, <1>2 DEF QueueInv, Calm, TypeOK
      <3>2. d.msg \in Accepted
        BY DEF QueueInv, HeldIsAccepted, Held
      <3>3. States[d.msg] # "unsent"
        BY <3>2, <1>3, StateIs DEF States, QueueInv, IInv
      <3>4. Owners' = Owners
        BY <2>2, <1>1, <1>2 DEF Owners, TypeOK
      <3> QED
        BY <3>1, <3>3, <3>4
    <2> QED
      BY <2>1, <2>2, <1>2, <1>5 DEF TypeOK
  <1> QED
    BY <1>1, <1>3, <1>4, <1>6, <1>7, <1>8 DEF Queue!Try, Works, States

\* HandleReturns is Leave.
LEMMA HandleReturnsLeaves ==
    ASSUME QueueInv, NEW p \in Processors, HandleReturns(p)
    PROVE  /\ current[p] \in Held(p)
           /\ p \in Owners <=> session[p] = "open"
           /\ \E m \in Messages : m = current[p].msg /\ Queue!Leave(p, m)
  <1>1. /\ pc[p] = "handling" /\ pc' = [pc EXCEPT ![p] = "consuming"]
        /\ current' = [current EXCEPT ![p] = NoDelivery]
        /\ session' = session /\ attempts' = attempts /\ faults' = faults
    BY DEF HandleReturns, Goto
  <1>2. TypeOK /\ PhaseInv
    BY DEF QueueInv, IInv
  <1>3. current[p] # NoDelivery /\ current[p].msg \in Messages
    BY <1>1, <1>2 DEF PhaseInv, TypeOK, Tasks
  <1>4. Works[p] = {current[p].msg} /\ Works' = [Works EXCEPT ![p] = {}]
    <2>1. Works[p] = {current[p].msg}
      BY <1>3, WorkIs
    <2>2. ASSUME NEW q \in Processors PROVE Works'[q] = IF q = p THEN {} ELSE Works[q]
      BY <1>1, <1>2 DEF Works, TypeOK
    <2> QED
      BY <2>1, <2>2 DEF Works
  <1>5. Owners' = Owners \ {p} /\ (p \in Owners <=> session[p] = "open")
    BY <1>1, <1>2 DEF Owners, TypeOK
  <1> QED
    BY <1>1, <1>3, <1>4, <1>5 DEF Queue!Leave, Works, Held

\* HandlerSucceeds is Succeed.
LEMMA HandlerSucceedsSucceeds ==
    ASSUME QueueInv, QueueInv', Accepted' = Accepted, NEW p \in Processors, HandlerSucceeds(p)
    PROVE  \E m \in Messages : Queue!Succeed(p, m)
  <1>0. PICK m \in Messages : m = current[p].msg /\ Queue!Leave(p, m)
    BY HandleReturnsLeaves DEF HandlerSucceeds
  <1>1. current[p] \in Held(p) /\ (p \in Owners <=> session[p] = "open")
    BY HandleReturnsLeaves DEF HandlerSucceeds
  <1>2. CASE session[p] # "open"
    <2>1. acked' = acked /\ dropped' = dropped
      BY <1>2 DEF HandlerSucceeds, Ack, brokerVars
    <2>2. States' = States
      BY <2>1, StatesKept
    <2> QED
      BY <2>2, <1>0, <1>1, <1>2 DEF Queue!Succeed, States
  <1>3. CASE session[p] = "open"
    <2>1. acked' = acked \cup {m} /\ dropped' = dropped
      BY <1>0, <1>3 DEF HandlerSucceeds, Ack
    <2>2. m \in Accepted \ (acked \cup dropped)
      BY <1>0, <1>1, <1>3, OwnedOnce
    <2>3. OnePlace /\ OnePlace'
      BY DEF QueueInv, IInv
    <2>4. StateOf(m) = "open" /\ StateOf(m)' = "done"
      <3>1. StateOf(m) = "open"
        BY <1>1, <2>2, <2>3, StateIs
      <3>2. m \in acked' /\ m \notin dropped'
        BY <2>1, <2>2
      <3> QED
        BY <3>1, <3>2 DEF StateOf
    <2>5. Queue!Move(m, "open", "done")
      BY <2>1, <2>2, <2>3, <2>4, <1>1, StateMoves
    <2> QED
      BY <2>5, <1>0, <1>1, <1>3 DEF Queue!Succeed
  <1> QED
    BY <1>0, <1>2, <1>3

\* HandlerFails is Fail: a drop before the first fault follows a second try.
LEMMA HandlerFailsFails ==
    ASSUME QueueInv, QueueInv', Accepted' = Accepted, NEW p \in Processors, HandlerFails(p)
    PROVE  \E m \in Messages : Queue!Fail(p, m)
  <1>0. PICK m \in Messages : m = current[p].msg /\ Queue!Leave(p, m)
    BY HandleReturnsLeaves DEF HandlerFails
  <1>1. current[p] \in Held(p) /\ (p \in Owners <=> session[p] = "open")
    BY HandleReturnsLeaves DEF HandlerFails
  <1>2. CASE session[p] # "open" \/ ~current[p].redelivered
    <2>1. acked' = acked /\ dropped' = dropped
      BY <1>2 DEF HandlerFails, Nack, brokerVars
    <2>2. States' = States
      BY <2>1, StatesKept
    <2> QED
      BY <2>2, <1>0, <1>1 DEF Queue!Fail, States
  <1>3. CASE session[p] = "open" /\ current[p].redelivered
    <2>1. acked' = acked /\ dropped' = dropped \cup {m}
      BY <1>0, <1>3 DEF HandlerFails, Nack
    <2>2. m \in Accepted \ (acked \cup dropped)
      BY <1>0, <1>1, <1>3, OwnedOnce
    <2>3. OnePlace /\ OnePlace'
      BY DEF QueueInv, IInv
    <2>4. StateOf(m) = "open" /\ StateOf(m)' = "dropped"
      <3>1. StateOf(m) = "open"
        BY <1>1, <2>2, <2>3, StateIs
      <3>2. m \in dropped' /\ m \notin acked'
        BY <2>1, <2>2
      <3> QED
        BY <3>1, <3>2 DEF StateOf
    <2>5. Queue!Move(m, "open", "dropped")
      BY <2>1, <2>2, <2>3, <2>4, <1>1, StateMoves
    <2>6. attempts[m] >= 2 \/ faults > 0
      <3>1. current[p] # NoDelivery /\ faults \in Nat
        BY DEF HandlerFails, HandleReturns, Goto, QueueInv, IInv, PhaseInv, TypeOK
      <3> QED
        BY <3>1, <1>0, <1>3 DEF QueueInv, Calm
    <2> QED
      BY <2>5, <2>6, <1>0, <1>1, <1>3 DEF Queue!Fail
  <1> QED
    BY <1>0, <1>2, <1>3

\* Lost sessions, signals, crashes and failed dials are Fault, and a dial that
\* is refused after a signal changes nothing.
LEMMA FaultsAreFaults ==
    ASSUME QueueInv, Accepted' = Accepted, NEW p \in Processors,
           ConnectFails(p) \/ SessionLost(p) \/ Cancel(p) \/ Crash(p)
    PROVE  \/ Queue!Fault(p)
           \/ UNCHANGED <<States, Works, Owners, attempts, faults>>
  <1>1. acked' = acked /\ dropped' = dropped /\ attempts' = attempts
    BY DEF ConnectFails, SessionLost, Cancel, Crash, CloseSession, Requeue, brokerVars, history
  <1>2. States' = States
    BY <1>1, StatesKept
  <1>t. TypeOK /\ PhaseInv
    BY DEF QueueInv, IInv
  <1>3. CASE ConnectFails(p)
    <2>1. Works' = Works /\ (faults' = faults + 1 \/ faults' = faults)
      BY <1>3 DEF ConnectFails, Works, Fault
    <2>2. Owners' = Owners
      BY <1>3, <1>t DEF ConnectFails, Goto, Owners, TypeOK
    <2> QED
      BY <2>1, <2>2, <1>1, <1>2 DEF Queue!Fault, Works, States
  <1>4. CASE SessionLost(p)
    <2>1. Works' = Works /\ faults' = faults + 1
      BY <1>4 DEF SessionLost, Works, Fault
    <2>2. Owners' = Owners \ {p}
      BY <1>4, <1>t DEF SessionLost, Owners, TypeOK
    <2> QED
      BY <2>1, <2>2, <1>1, <1>2 DEF Queue!Fault, Works, States
  <1>5. CASE Cancel(p)
    <2>1. Works' = Works /\ Owners' = Owners /\ faults' = faults + 1
      BY <1>5 DEF Cancel, Works, Owners, Fault
    <2> QED
      BY <2>1, <1>1, <1>2 DEF Queue!Fault, Works, States
  <1>6. CASE Crash(p)
    <2>1. /\ current' = [current EXCEPT ![p] = NoDelivery] /\ faults' = faults + 1
          /\ pc' = [pc EXCEPT ![p] = "dead"] /\ session' = [session EXCEPT ![p] = "none"]
      BY <1>6 DEF Crash, CloseSession, Fault
    <2>2. Works' = [Works EXCEPT ![p] = {}]
      <3>1. ASSUME NEW q \in Processors PROVE Works'[q] = IF q = p THEN {} ELSE Works[q]
        BY <2>1, <1>t DEF Works, TypeOK
      <3> QED
        BY <3>1 DEF Works
    <2>3. Owners' = Owners \ {p}
      BY <2>1, <1>t DEF Owners, TypeOK
    <2> QED
      BY <2>1, <2>2, <2>3, <1>1, <1>2 DEF Queue!Fault, Works, States
  <1> QED
    BY <1>3, <1>4, <1>5, <1>6

\* The other steps of broker and processors are invisible.
LEMMA HiddenSteps ==
    ASSUME QueueInv, Accepted' = Accepted, NEW p \in Processors,
           \/ \E m \in Messages : Deliver(p, m)
           \/ LoopTop(p) \/ Connect(p) \/ WaitReconnect(p) \/ SessionEnds(p) \/ Restart(p)
    PROVE  UNCHANGED <<States, Works, Owners, attempts, faults>>
  <1>1. acked' = acked /\ dropped' = dropped /\ attempts' = attempts /\ faults' = faults
    BY DEF Deliver, LoopTop, Connect, WaitReconnect, SessionEnds, Restart, CloseSession, Requeue,
           brokerVars, history
  <1>2. current' = current
    BY DEF Deliver, LoopTop, Connect, WaitReconnect, SessionEnds, Restart, CloseSession
  <1>t. TypeOK
    BY DEF QueueInv, IInv
  <1>3. Owners' = Owners
    <2>1. CASE pc' = pc /\ session' = session
      BY <2>1 DEF Owners
    <2>2. ASSUME NEW s \in Running \cup Halted, NEW b \in {"none", "open", "lost"},
                 pc[p] # "handling", s # "handling", pc' = [pc EXCEPT ![p] = s],
                 session' = [session EXCEPT ![p] = b]
          PROVE  Owners' = Owners
      BY <2>2, <1>t DEF Owners, TypeOK
    <2>3. session = [session EXCEPT ![p] = session[p]] /\ session[p] \in {"none", "open", "lost"}
      BY <1>t DEF TypeOK
    <2> QED
      BY <2>1, <2>2, <2>3
         DEF Deliver, LoopTop, Connect, WaitReconnect, SessionEnds, Restart, CloseSession, Goto,
             Running, Halted
  <1> QED
    BY <1>1, <1>2, <1>3, StatesKept DEF Works

\* The queue and its consumers keep the promise of WorkQueue.
THEOREM ImplementsWorkQueue == Spec => QueueSpec
  <1>1. Init => Queue!Init
    <2> SUFFICES ASSUME Init PROVE Queue!Init
      OBVIOUS
    <2>1. ASSUME NEW m \in Messages PROVE StateOf(m) = "unsent"
      BY DEF Init, StateOf, Accepted
    <2>2. ASSUME NEW p \in Processors PROVE Works[p] = {} /\ p \notin Owners
      BY WorkIs DEF Init, Owners
    <2>3. Owners = {}
      BY <2>2 DEF Owners
    <2> QED
      BY <2>1, <2>2, <2>3 DEF Init, Queue!Init, Works
  <1>2. QueueInv /\ AttemptsBounded' /\ [Next]_vars
        => Queue!Next \/ UNCHANGED <<States, Works, Owners, attempts, faults>>
    <2> SUFFICES ASSUME QueueInv, AttemptsBounded', [Next]_vars
                 PROVE  Queue!Next \/ UNCHANGED <<States, Works, Owners, attempts, faults>>
      OBVIOUS
    <2>i. QueueInv'
      BY QueueInvStep
    <2>1. ASSUME NEW m \in Messages, Publish(m) PROVE Queue!Next
      BY <2>1, <2>i, PublishAccepts DEF Queue!Next
    <2>2. CASE \A m \in Messages : ~Publish(m)
      <3>1. Accepted' = Accepted
        BY <2>2, AcceptedKept
      <3>2. ASSUME NEW p \in Processors, NEW d \in buffer[p], DropMalformed(p, d)
            PROVE  Queue!Next \/ UNCHANGED <<States, Works, Owners, attempts, faults>>
        <4>1. d.msg \in Messages
          BY DeliveryFields DEF QueueInv, IInv, TypeOK
        <4> QED
          BY <4>1, <3>1, <3>2, <2>i, DropMalformedRejects DEF Queue!Next
      <3>3. ASSUME NEW p \in Processors, NEW d \in buffer[p], StartHandler(p, d) PROVE Queue!Next
        BY <3>1, <3>3, <2>i, StartHandlerTries DEF Queue!Next
      <3>4. ASSUME NEW p \in Processors, HandlerSucceeds(p) PROVE Queue!Next
        BY <3>1, <3>4, <2>i, HandlerSucceedsSucceeds DEF Queue!Next
      <3>5. ASSUME NEW p \in Processors, HandlerFails(p) PROVE Queue!Next
        BY <3>1, <3>5, <2>i, HandlerFailsFails DEF Queue!Next
      <3>6. CASE UNCHANGED vars
        BY <3>6 DEF vars, brokerVars, consumerVars, history, States, StateOf, Accepted, Works, Owners
      <3> QED
        BY <2>2, <3>1, <3>2, <3>3, <3>4, <3>5, <3>6, FaultsAreFaults, HiddenSteps
           DEF Next, Step, Environment, Queue!Next
    <2> QED
      BY <2>1, <2>2
  <1>3. QueueInv /\ AttemptsBounded' /\ [Next]_vars
        => [Queue!Next]_<<[m \in Messages |-> StateOf(m)],
                          [p \in Processors |-> {d.msg : d \in {current[p]} \ {NoDelivery}}],
                          Owners, attempts, faults>>
    BY <1>2 DEF States, Works
  <1> QED
    BY <1>1, <1>3, QueueInvariance, AttemptsBoundedHolds, PTL DEF Spec, QueueSpec, Queue!Spec

=============================================================================
