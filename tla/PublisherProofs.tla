-------------------------- MODULE PublisherProofs --------------------------
(***************************************************************************)
(* Theorems about Publisher: its invariants for any number of calls and    *)
(* faults.                                                                 *)
(***************************************************************************)
EXTENDS Publisher, TLAPS

\* What a call has sent, by how far it is: nothing before its first write, one
\* message at most before the second, and a fault explains any message sent by
\* a write that failed.
SentSoFar ==
    \A c \in Calls :
        /\ step[c] \in {"idle", "lock", "dial", "write"} => sent[c] = 0
        /\ step[c] \in {"redial", "rewrite"} => sent[c] <= 1 /\ (sent[c] = 1 => c \in hit)
        /\ SentOnceUnlessHit

\* A retry starts without a session, and one that finds its new session broken
\* had the fault itself: it held the mutex from the reset on.
RetryIsFresh ==
    \A c \in Calls :
        /\ step[c] = "redial" => session = "none"
        /\ step[c] = "rewrite" => session = "good" \/ (session = "broken" /\ c \in hit)

\* The inductive invariant.
IInv == TypeOK /\ SentSoFar /\ RetryIsFresh /\ FailsOnlyWhenHit

----------------------------------------------------------------------------

\* A fault is counted within its bound and hits whoever holds the mutex.
LEMMA FaultHits ==
    ASSUME TypeOK, Fault
    PROVE  /\ faults' \in 0 .. MaxFaults
           /\ hit' \subseteq Calls
           /\ hit \subseteq hit'
           /\ \A c \in Calls : mu = c => c \in hit'
  BY MaxFaultsAssumption, NoCallAssumption DEF TypeOK, Fault

\* A write that fails sends at most one message, and only with a fault.
LEMMA WriteBreaksSends ==
    ASSUME TypeOK, NEW c \in Calls, mu = c, WriteBreaks(c)
    PROVE  /\ faults' \in 0 .. MaxFaults
           /\ hit' \subseteq Calls
           /\ hit \subseteq hit'
           /\ \/ sent' = sent /\ (session = "broken" \/ c \in hit')
              \/ sent' = [sent EXCEPT ![c] = @ + 1] /\ c \in hit'
  <1>1. CASE session = "broken"
    BY <1>1 DEF WriteBreaks, TypeOK
  <1>2. CASE session # "broken"
    <2>1. Fault /\ (UNCHANGED sent \/ sent' = [sent EXCEPT ![c] = @ + 1])
      BY <1>2 DEF WriteBreaks
    <2> QED
      BY <2>1, FaultHits
  <1> QED
    BY <1>1, <1>2

\* The publisher starts without a session and without calls.
LEMMA InitHolds == Init => IInv
  BY MaxFaultsAssumption, NoCallAssumption
     DEF Init, IInv, TypeOK, SentSoFar, SentOnceUnlessHit, RetryIsFresh, FailsOnlyWhenHit

\* Every step keeps the invariant.
LEMMA StepHolds == IInv /\ [Next]_vars => IInv'
  <1> SUFFICES ASSUME IInv, [Next]_vars PROVE IInv'
    OBVIOUS
  <1> USE NoCallAssumption
      DEF IInv, TypeOK, SentSoFar, SentOnceUnlessHit, RetryIsFresh, FailsOnlyWhenHit,
          Goto, Return, Reset
  <1>1. CASE Break
    BY <1>1, FaultHits DEF Break
  <1>2. CASE Close
    BY <1>2 DEF Close
  <1>3. ASSUME NEW c \in Calls, Start(c) PROVE IInv'
    BY <1>3 DEF Start
  <1>4. ASSUME NEW c \in Calls, Lock(c) PROVE IInv'
    BY <1>4 DEF Lock
  <1>5. ASSUME NEW c \in Calls, EnsureReady(c, "dial", "write") PROVE IInv'
    BY <1>5, FaultHits DEF EnsureReady, Dial
  <1>6. ASSUME NEW c \in Calls, EnsureReady(c, "redial", "rewrite") PROVE IInv'
    BY <1>6, FaultHits DEF EnsureReady, Dial
  <1>7. ASSUME NEW c \in Calls, WriteSucceeds(c, "write") PROVE IInv'
    BY <1>7 DEF WriteSucceeds
  <1>8. ASSUME NEW c \in Calls, WriteSucceeds(c, "rewrite") PROVE IInv'
    BY <1>8 DEF WriteSucceeds
  <1>9. ASSUME NEW c \in Calls, WriteFails(c) PROVE IInv'
    <2>1. mu = c /\ WriteBreaks(c)
      BY <1>9 DEF WriteFails
    <2> QED
      BY <1>9, <2>1, WriteBreaksSends DEF WriteFails
  <1>10. ASSUME NEW c \in Calls, RewriteFails(c) PROVE IInv'
    <2>1. mu = c /\ WriteBreaks(c)
      BY <1>10 DEF RewriteFails
    <2> QED
      BY <1>10, <2>1, WriteBreaksSends DEF RewriteFails
  <1>11. CASE UNCHANGED vars
    BY <1>11 DEF vars
  <1> QED
    BY <1>1, <1>2, <1>3, <1>4, <1>5, <1>6, <1>7, <1>8, <1>9, <1>10, <1>11
       DEF Next, CallStep

\* The inductive invariant holds in every reachable state.
THEOREM Invariance == Spec => []IInv
  BY InitHolds, StepHolds, PTL DEF Spec

\* Type correctness, with the mutex held by exactly the call that dials or
\* writes.
THEOREM TypeCorrect == Spec => []TypeOK
  BY Invariance, PTL DEF IInv

\* Publish fails only for a fault that happened during the call.
THEOREM FailsOnlyWhenHitHolds == Spec => []FailsOnlyWhenHit
  BY Invariance, PTL DEF IInv

\* Publish sends a message at most twice, and twice only for such a fault.
THEOREM SentOnceUnlessHitHolds == Spec => []SentOnceUnlessHit
  <1>1. IInv => SentOnceUnlessHit
    BY DEF IInv, SentSoFar, SentOnceUnlessHit
  <1> QED
    BY <1>1, Invariance, PTL

----------------------------------------------------------------------------
(* The calls of Publish are the requests of CodeService.                   *)

\* What CodeService sees: the queue, the rows and the requests.
Queued == UNION {SentBy(c) : c \in Calls}
Rows == [c \in Calls |-> IF step[c] \in {"idle", "lock"} THEN "none" ELSE "in_progress"]
RequestsSeen == [c \in Calls |-> RequestOf(c)]

\* RequestOf as a function of the place and of what was returned.
RequestAt(at, returned) ==
    CASE at = "idle" -> "none"
      [] at = "lock" -> "saving"
      [] at \in {"dial", "write"} -> "publishing"
      [] at \in {"redial", "rewrite"} -> "retrying"
      [] at = "returned" -> IF returned = "ok" THEN "accepted" ELSE "failed"
RowAt(at) == IF at \in {"idle", "lock"} THEN "none" ELSE "in_progress"

\* The places of a call, one by one.
LEMMA Places ==
    /\ \A r : RequestAt("idle", r) = "none" /\ RequestAt("lock", r) = "saving"
    /\ \A r : RequestAt("dial", r) = "publishing" /\ RequestAt("write", r) = "publishing"
    /\ \A r : RequestAt("redial", r) = "retrying" /\ RequestAt("rewrite", r) = "retrying"
    /\ RequestAt("returned", "ok") = "accepted" /\ RequestAt("returned", "error") = "failed"
    /\ RowAt("idle") = "none" /\ RowAt("lock") = "none"
    /\ \A at : at \notin {"idle", "lock"} => RowAt(at) = "in_progress"
  BY DEF RequestAt, RowAt

\* A step of a call moves its request, and its row, and no other.
LEMMA CallMoves ==
    ASSUME TypeOK, NEW c \in Calls, NEW at, NEW returned,
           step' = [step EXCEPT ![c] = at], ret' = [ret EXCEPT ![c] = returned]
    PROVE  /\ RequestsSeen[c] = RequestAt(step[c], ret[c])
           /\ RequestsSeen' = [RequestsSeen EXCEPT ![c] = RequestAt(at, returned)]
           /\ Rows' = [Rows EXCEPT ![c] = RowAt(at)]
  <1>1. \A q \in Calls : RequestOf(q) = RequestAt(step[q], ret[q])
    BY DEF RequestOf, RequestAt
  <1>2. ASSUME NEW q \in Calls
        PROVE  RequestOf(q)' = IF q = c THEN RequestAt(at, returned) ELSE RequestOf(q)
    <2>1. step'[q] = (IF q = c THEN at ELSE step[q]) /\ ret'[q] = (IF q = c THEN returned ELSE ret[q])
      BY DEF TypeOK
    <2>2. RequestOf(q)' = RequestAt(step'[q], ret'[q])
      BY DEF RequestOf, RequestAt
    <2>3. CASE q = c
      BY <2>1, <2>2, <2>3
    <2>4. CASE q # c
      BY <2>1, <2>2, <2>4, <1>1
    <2> QED
      BY <2>3, <2>4
  <1>3. ASSUME NEW q \in Calls
        PROVE  Rows'[q] = IF q = c THEN RowAt(at) ELSE Rows[q]
    BY DEF TypeOK, Rows, RowAt
  <1> QED
    BY <1>1, <1>2, <1>3 DEF RequestsSeen, Rows

\* The same for a step that returns nothing.
LEMMA CallGoesOn ==
    ASSUME TypeOK, NEW c \in Calls, NEW at, at # "returned",
           step' = [step EXCEPT ![c] = at], ret' = ret
    PROVE  /\ RequestsSeen[c] = RequestAt(step[c], ret[c])
           /\ RequestsSeen' = [RequestsSeen EXCEPT ![c] = RequestAt(at, ret[c])]
           /\ Rows' = [Rows EXCEPT ![c] = RowAt(at)]
  <1>1. ret' = [ret EXCEPT ![c] = ret[c]]
    BY DEF TypeOK
  <1> QED
    BY <1>1, CallMoves

\* Without a message nothing changes in the queue of CodeService, which has no
\* processors.
LEMMA QueueKept ==
    ASSUME sent' = sent
    PROVE  UNCHANGED Service!vars
  <1>1. Queued' = Queued
    BY DEF Queued, SentBy
  <1> QED
    BY <1>1 DEF Service!vars, Service!brokerVars, Service!consumerVars, Service!history, Queued

\* A copy sent is a message of the call's task that is new in the queue.
LEMMA CopySent ==
    ASSUME TypeOK, NEW c \in Calls, sent[c] <= 1, sent' = [sent EXCEPT ![c] = @ + 1]
    PROVE  Service!Write(c)
  <1>1. PICK n \in {1, 2} : n = sent[c] + 1
    BY DEF TypeOK
  <1>2. <<c, n>> \in Calls \X {1, 2}
    OBVIOUS
  <1>3. <<c, n>> \notin Queued
    BY <1>1 DEF Queued, SentBy, TypeOK
  <1>4. Queued' = Queued \cup {<<c, n>>}
    <2>1. ASSUME NEW q \in Calls
          PROVE  SentBy(q)' = IF q = c THEN SentBy(q) \cup {<<c, n>>} ELSE SentBy(q)
      <3>1. CASE q = c
        <4>1. sent[c] \in Nat /\ sent'[c] = sent[c] + 1
          BY DEF TypeOK
        <4>2. 1 .. sent'[c] = (1 .. sent[c]) \cup {n}
          BY <1>1, <4>1
        <4> QED
          BY <3>1, <4>2 DEF SentBy
      <3>2. CASE q # c
        <4>1. sent'[q] = sent[q]
          BY <3>2 DEF TypeOK
        <4> QED
          BY <3>2, <4>1 DEF SentBy
      <3> QED
        BY <3>1, <3>2
    <2> QED
      BY <2>1 DEF Queued
  <1>5. Service!Publish(<<c, n>>)
    BY <1>3, <1>4 DEF Service!Publish, Service!Accepted, Service!consumerVars, Service!history, Queued
  <1> QED
    BY <1>2, <1>5 DEF Service!Write, Service!Tasks

\* A write that fails leaves the queue alone or has sent its copy.
LEMMA WriteBreaksWrites ==
    ASSUME TypeOK, NEW c \in Calls, sent[c] <= 1, WriteBreaks(c)
    PROVE  Service!Write(c) \/ UNCHANGED Service!vars
  BY CopySent, QueueKept DEF WriteBreaks

\* Start is Submit.
LEMMA StartSubmits ==
    ASSUME IInv, NEW c \in Calls, Start(c)
    PROVE  Service!Submit(c)
  <1>1. /\ step[c] = "idle" /\ step' = [step EXCEPT ![c] = "lock"]
        /\ ret' = ret /\ sent' = sent
    BY DEF Start, Goto
  <1>2. /\ RequestsSeen[c] = "none" /\ RequestsSeen' = [RequestsSeen EXCEPT ![c] = "saving"]
    <2>1. RequestsSeen' = [RequestsSeen EXCEPT ![c] = RequestAt("lock", ret[c])]
          /\ RequestsSeen[c] = RequestAt("idle", ret[c])
      BY <1>1, CallGoesOn DEF IInv
    <2> QED
      BY <2>1, Places
  <1>3. Rows' = Rows
    BY <1>1 DEF IInv, TypeOK, Rows
  <1> QED
    BY <1>1, <1>2, <1>3, QueueKept
       DEF Service!Submit, Service!Request, Service!handlerVars, RequestsSeen, Rows

\* Lock is SaveTask: the row is there before the first write.
LEMMA LockSaves ==
    ASSUME IInv, NEW c \in Calls, Lock(c)
    PROVE  Service!SaveTask(c)
  <1>1. /\ step[c] = "lock" /\ step' = [step EXCEPT ![c] = "dial"]
        /\ ret' = ret /\ sent' = sent
    BY DEF Lock, Goto
  <1>2. /\ RequestsSeen[c] = "saving" /\ RequestsSeen' = [RequestsSeen EXCEPT ![c] = "publishing"]
        /\ Rows' = [Rows EXCEPT ![c] = "in_progress"]
    <2>1. /\ RequestsSeen[c] = RequestAt("lock", ret[c])
          /\ RequestsSeen' = [RequestsSeen EXCEPT ![c] = RequestAt("dial", ret[c])]
          /\ Rows' = [Rows EXCEPT ![c] = RowAt("dial")]
      BY <1>1, CallGoesOn DEF IInv
    <2> QED
      BY <2>1, Places
  <1> QED
    BY <1>1, <1>2, QueueKept
       DEF Service!SaveTask, Service!Request, Service!InsertRow, Service!handlerVars,
           RequestsSeen, Rows

\* A call that dials returns an error, which is PublishFails, or is not seen.
LEMMA DialIsHidden ==
    ASSUME IInv, NEW c \in Calls,
           EnsureReady(c, "dial", "write") \/ EnsureReady(c, "redial", "rewrite")
    PROVE  Service!PublishFails(c) \/ UNCHANGED Service!allVars
  <1>1. /\ step[c] \in {"dial", "redial"} /\ sent' = sent
        /\ \/ /\ ret' = ret
              /\ step' = [step EXCEPT ![c] = IF step[c] = "dial" THEN "write" ELSE "rewrite"]
           \/ /\ ret' = [ret EXCEPT ![c] = "error"]
              /\ step' = [step EXCEPT ![c] = "returned"]
    BY DEF EnsureReady, Dial, Goto, Return
  <1>2. Rows' = Rows
    BY <1>1 DEF IInv, TypeOK, Rows
  <1>3. UNCHANGED Service!vars
    BY <1>1, QueueKept
  <1>4. /\ RequestsSeen[c] = RequestAt(step[c], ret[c])
        /\ RequestsSeen[c] \in {"publishing", "retrying"}
    BY <1>1, Places DEF RequestsSeen, RequestOf, RequestAt
  <1>5. CASE /\ ret' = ret
             /\ step' = [step EXCEPT ![c] = IF step[c] = "dial" THEN "write" ELSE "rewrite"]
    <2>1. RequestsSeen' = [RequestsSeen EXCEPT ![c] = RequestsSeen[c]]
      <3>1. CASE step[c] = "dial"
        <4>1. RequestsSeen' = [RequestsSeen EXCEPT ![c] = RequestAt("write", ret[c])]
          BY <1>5, <3>1, CallGoesOn DEF IInv
        <4>2. RequestAt("write", ret[c]) = "publishing"
          BY Places
        <4>3. RequestsSeen[c] = "publishing"
          BY <3>1 DEF RequestsSeen, RequestOf
        <4> QED
          BY <4>1, <4>2, <4>3
      <3>2. CASE step[c] = "redial"
        <4>1. RequestsSeen' = [RequestsSeen EXCEPT ![c] = RequestAt("rewrite", ret[c])]
          BY <1>5, <3>2, CallGoesOn DEF IInv
        <4>2. RequestAt("rewrite", ret[c]) = "retrying"
          BY Places
        <4>3. RequestsSeen[c] = "retrying"
          BY <3>2 DEF RequestsSeen, RequestOf
        <4> QED
          BY <4>1, <4>2, <4>3
      <3> QED
        BY <1>1, <3>1, <3>2
    <2>2. RequestsSeen' = RequestsSeen
      BY <2>1 DEF RequestsSeen
    <2> QED
      BY <1>2, <1>3, <2>2
         DEF Service!allVars, Service!serviceVars, Service!handlerVars, RequestsSeen, Rows
  <1>6. CASE ret' = [ret EXCEPT ![c] = "error"] /\ step' = [step EXCEPT ![c] = "returned"]
    <2>1. RequestsSeen' = [RequestsSeen EXCEPT ![c] = "failed"]
      <3>1. RequestsSeen' = [RequestsSeen EXCEPT ![c] = RequestAt("returned", "error")]
        BY <1>6, CallMoves DEF IInv
      <3> QED
        BY <3>1, Places
    <2> QED
      BY <1>2, <1>3, <1>4, <2>1
         DEF Service!PublishFails, Service!Request, Service!handlerVars, RequestsSeen, Rows
  <1> QED
    BY <1>1, <1>5, <1>6

\* A write that returns nil is PublishSucceeds, with its message or without.
LEMMA WriteSucceedsPublishes ==
    ASSUME IInv, NEW c \in Calls, WriteSucceeds(c, "write") \/ WriteSucceeds(c, "rewrite")
    PROVE  Service!PublishSucceeds(c)
  <1>1. /\ step[c] \in {"write", "rewrite"} /\ step' = [step EXCEPT ![c] = "returned"]
        /\ ret' = [ret EXCEPT ![c] = "ok"]
        /\ sent' = sent \/ sent' = [sent EXCEPT ![c] = @ + 1]
    BY DEF WriteSucceeds, Goto, Return
  <1>2. /\ RequestsSeen[c] \in {"publishing", "retrying"}
        /\ RequestsSeen' = [RequestsSeen EXCEPT ![c] = "accepted"]
    <2>1. RequestsSeen' = [RequestsSeen EXCEPT ![c] = RequestAt("returned", "ok")]
      BY <1>1, CallMoves DEF IInv
    <2>2. RequestsSeen[c] \in {"publishing", "retrying"}
      BY <1>1 DEF RequestsSeen, RequestOf
    <2> QED
      BY <2>1, <2>2, Places
  <1>3. Rows' = Rows
    BY <1>1 DEF IInv, TypeOK, Rows
  <1>4. Service!Write(c) \/ UNCHANGED Service!vars
    <2>1. sent[c] <= 1
      BY <1>1 DEF IInv, SentSoFar
    <2> QED
      BY <1>1, <2>1, CopySent, QueueKept DEF IInv
  <1> QED
    BY <1>2, <1>3, <1>4
       DEF Service!PublishSucceeds, Service!Request, Service!handlerVars, RequestsSeen, Rows

\* The first write that fails is Republish, with its message or without.
LEMMA WriteFailsRepublishes ==
    ASSUME IInv, NEW c \in Calls, WriteFails(c)
    PROVE  Service!Republish(c)
  <1>1. /\ step[c] = "write" /\ step' = [step EXCEPT ![c] = "redial"]
        /\ ret' = ret /\ WriteBreaks(c)
    BY DEF WriteFails, Goto
  <1>2. RequestsSeen[c] = "publishing" /\ RequestsSeen' = [RequestsSeen EXCEPT ![c] = "retrying"]
    <2>1. /\ RequestsSeen[c] = RequestAt("write", ret[c])
          /\ RequestsSeen' = [RequestsSeen EXCEPT ![c] = RequestAt("redial", ret[c])]
      BY <1>1, CallGoesOn DEF IInv
    <2> QED
      BY <2>1, Places
  <1>3. Rows' = Rows
    BY <1>1 DEF IInv, TypeOK, Rows
  <1>4. Service!Write(c) \/ UNCHANGED Service!vars
    <2>1. sent[c] <= 1
      BY <1>1 DEF IInv, SentSoFar
    <2> QED
      BY <1>1, <2>1, WriteBreaksWrites DEF IInv
  <1> QED
    BY <1>2, <1>3, <1>4
       DEF Service!Republish, Service!Request, Service!handlerVars, RequestsSeen, Rows

\* The second is PublishFails: the request fails, its row stays behind, and its
\* message may be in the queue, once or twice.
LEMMA RewriteFailsFails ==
    ASSUME IInv, NEW c \in Calls, RewriteFails(c)
    PROVE  Service!PublishFails(c)
  <1>1. /\ step[c] = "rewrite" /\ step' = [step EXCEPT ![c] = "returned"]
        /\ ret' = [ret EXCEPT ![c] = "error"] /\ WriteBreaks(c)
    BY DEF RewriteFails, Goto, Return
  <1>2. RequestsSeen[c] = "retrying" /\ RequestsSeen' = [RequestsSeen EXCEPT ![c] = "failed"]
    <2>1. RequestsSeen' = [RequestsSeen EXCEPT ![c] = RequestAt("returned", "error")]
      BY <1>1, CallMoves DEF IInv
    <2>2. RequestsSeen[c] = "retrying"
      BY <1>1 DEF RequestsSeen, RequestOf
    <2> QED
      BY <2>1, <2>2, Places
  <1>3. Rows' = Rows
    BY <1>1 DEF IInv, TypeOK, Rows
  <1>4. Service!Write(c) \/ UNCHANGED Service!vars
    <2>1. sent[c] <= 1
      BY <1>1 DEF IInv, SentSoFar
    <2> QED
      BY <1>1, <2>1, WriteBreaksWrites DEF IInv
  <1> QED
    BY <1>2, <1>3, <1>4
       DEF Service!PublishFails, Service!Request, Service!handlerVars, RequestsSeen, Rows

\* The broker and Close do nothing that a request sees.
LEMMA SessionIsHidden ==
    ASSUME step' = step, ret' = ret, sent' = sent
    PROVE  UNCHANGED Service!allVars
  <1>1. UNCHANGED Service!vars
    BY QueueKept
  <1>2. Rows' = Rows /\ RequestsSeen' = RequestsSeen
    BY DEF Rows, RequestsSeen, RequestOf
  <1> QED
    BY <1>1, <1>2
       DEF Service!allVars, Service!serviceVars, Service!handlerVars, RequestsSeen, Rows

\* Every call of Publish is a request of CodeService, with its messages.
THEOREM PublishesForServiceHolds == Spec => PublishesForService
  <1>1. Init => Service!ServiceInit
    <2> SUFFICES ASSUME Init PROVE Service!ServiceInit
      OBVIOUS
    <2>1. Queued = {}
      BY DEF Init, Queued, SentBy
    <2>2. ASSUME NEW c \in Calls PROVE RequestOf(c) = "none" /\ Rows[c] = "none"
      BY DEF Init, RequestOf, Rows
    <2>3. Service!Init
      BY <2>1 DEF Service!Init, Queued
    <2> QED
      BY <2>2, <2>3 DEF Service!ServiceInit, Rows
  <1>2. IInv /\ [Next]_vars => [Service!ServiceNext]_Service!allVars
    <2> SUFFICES ASSUME IInv, [Next]_vars
                 PROVE  Service!ServiceNext \/ UNCHANGED Service!allVars
      OBVIOUS
    <2>1. CASE Break \/ Close \/ UNCHANGED vars
      BY <2>1, SessionIsHidden DEF Break, Close, vars
    <2>2. ASSUME NEW c \in Calls, Start(c) PROVE Service!ServiceNext
      BY <2>2, StartSubmits DEF Service!ServiceNext
    <2>3. ASSUME NEW c \in Calls, Lock(c) PROVE Service!ServiceNext
      BY <2>3, LockSaves DEF Service!ServiceNext, Service!Serve
    <2>4. ASSUME NEW c \in Calls,
                 EnsureReady(c, "dial", "write") \/ EnsureReady(c, "redial", "rewrite")
          PROVE  Service!ServiceNext \/ UNCHANGED Service!allVars
      BY <2>4, DialIsHidden DEF Service!ServiceNext, Service!Serve
    <2>5. ASSUME NEW c \in Calls, WriteSucceeds(c, "write") \/ WriteSucceeds(c, "rewrite")
          PROVE  Service!ServiceNext
      BY <2>5, WriteSucceedsPublishes DEF Service!ServiceNext, Service!Serve
    <2>6. ASSUME NEW c \in Calls, WriteFails(c) PROVE Service!ServiceNext
      BY <2>6, WriteFailsRepublishes DEF Service!ServiceNext, Service!Serve
    <2>7. ASSUME NEW c \in Calls, RewriteFails(c) PROVE Service!ServiceNext
      BY <2>7, RewriteFailsFails DEF Service!ServiceNext, Service!Serve
    <2> QED
      BY <2>1, <2>2, <2>3, <2>4, <2>5, <2>6, <2>7 DEF Next, CallStep
  <1> QED
    BY <1>1, <1>2, Invariance, PTL DEF Spec, PublishesForService, Service!ServiceSpec

============================================================================
