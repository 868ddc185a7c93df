----------------------------- MODULE Publisher -----------------------------
(***************************************************************************)
(* The server's publisher (internal/repository/queue/publisher.go): calls  *)
(* of Publish from concurrent requests share one cached broker session     *)
(* under a mutex, redial when there is none, and retry once on a new       *)
(* session when the cached one turns out stale.                            *)
(*                                                                         *)
(* The broker is external.  A session that breaks is noticed late: until   *)
(* then a write to it may still return nil although the message is lost,   *)
(* since the channel is not in confirm mode.                               *)
(***************************************************************************)
EXTENDS Naturals, FiniteSets

CONSTANTS
    Calls,      \* calls of Publish, one message each
    NoCall,     \* the mutex is free
    MaxFaults   \* bound on broken sessions and failed dials

ASSUME NoCallAssumption == NoCall \notin Calls
ASSUME MaxFaultsAssumption == MaxFaults \in Nat

VARIABLES
    session,   \* p.conn and p.ch: none, good, or broken
    mu,        \* the call that holds the mutex
    step,      \* where each call is
    ret,       \* what it returned
    sent,      \* how many copies of its message reached the queue
    faults,    \* faults so far
    hit        \* calls that a fault happened to while they held the mutex

vars == <<session, mu, step, ret, sent, faults, hit>>

TypeOK ==
    /\ session \in {"none", "good", "broken"}
    /\ mu \in Calls \cup {NoCall}
    /\ step \in [Calls -> {"idle", "lock", "dial", "write", "redial", "rewrite", "returned"}]
    /\ ret \in [Calls -> {"none", "ok", "error"}]
    /\ sent \in [Calls -> Nat]
    /\ faults \in 0 .. MaxFaults
    /\ hit \subseteq Calls
    /\ \A c \in Calls : step[c] \in {"dial", "write", "redial", "rewrite"} <=> mu = c

Init ==
    /\ session = "none"
    /\ mu = NoCall
    /\ step = [c \in Calls |-> "idle"]
    /\ ret = [c \in Calls |-> "none"]
    /\ sent = [c \in Calls |-> 0]
    /\ faults = 0
    /\ hit = {}

Goto(c, from, to) == step[c] = from /\ step' = [step EXCEPT ![c] = to]

\* A fault while some call holds the mutex is that call's.
Fault ==
    /\ faults < MaxFaults
    /\ faults' = faults + 1
    /\ hit' = hit \cup ({mu} \ {NoCall})

\* The broker restarts, or the connection breaks.
Break ==
    /\ session = "good"
    /\ session' = "broken"
    /\ Fault
    /\ UNCHANGED <<mu, step, ret, sent>>

\* Mutated form of Return: the mutex is not released.
ReturnLocked(c, result) ==
    /\ ret' = [ret EXCEPT ![c] = result]
    /\ UNCHANGED mu

\* defer p.mu.Unlock()
Return(c, result) ==
    /\ ret' = [ret EXCEPT ![c] = result]
    /\ mu' = NoCall

Start(c) ==
    /\ Goto(c, "idle", "lock")
    /\ UNCHANGED <<session, mu, ret, sent, faults, hit>>

\* Mutated form of Lock: the calls do not exclude each other.
LockShared(c) ==
    /\ mu' = c
    /\ Goto(c, "lock", "dial")
    /\ UNCHANGED <<session, ret, sent, faults, hit>>

Lock(c) ==
    /\ mu = NoCall
    /\ mu' = c
    /\ Goto(c, "lock", "dial")
    /\ UNCHANGED <<session, ret, sent, faults, hit>>

\* connect dials a session, or fails.
Dial(c, from, to) ==
    \/ /\ Goto(c, from, to)
       /\ session' = "good"
       /\ UNCHANGED <<mu, ret, sent, faults, hit>>
    \/ /\ Fault
       /\ Goto(c, from, "returned")
       /\ Return(c, "error")
       /\ UNCHANGED <<session, sent>>

\* ensureReady: a cached session is taken as it is, otherwise one is dialled.
EnsureReady(c, from, to) ==
    \/ /\ session # "none"
       /\ Goto(c, from, to)
       /\ UNCHANGED <<session, mu, ret, sent, faults, hit>>
    \/ session = "none" /\ Dial(c, from, to)

\* reset drops the session, whatever closing its channel and connection says.
Reset == session' = "none"

\* A write reaches the queue on a good session.
WriteSucceeds(c, from) ==
    /\ Goto(c, from, "returned")
    /\ Return(c, "ok")
    /\ \/ session = "good" /\ sent' = [sent EXCEPT ![c] = @ + 1]
       \/ session = "broken" /\ UNCHANGED sent
    /\ UNCHANGED <<session, faults, hit>>

\* A write fails: on a broken session, or because the session breaks under it,
\* when the message may or may not have got through.
WriteBreaks(c) ==
    \/ session = "broken" /\ UNCHANGED <<sent, faults, hit>>
    \/ session = "good" /\ Fault /\ (UNCHANGED sent \/ sent' = [sent EXCEPT ![c] = @ + 1])

\* Mutated form of WriteFails: no reset before the retry.
WriteFailsNoReset(c) ==
    /\ Goto(c, "write", "redial")
    /\ WriteBreaks(c)
    /\ session' = "broken"
    /\ UNCHANGED <<mu, ret>>

\* The first write fails: the session is reset, and Publish goes on to redial.
WriteFails(c) ==
    /\ Goto(c, "write", "redial")
    /\ WriteBreaks(c)
    /\ Reset
    /\ UNCHANGED <<mu, ret>>

\* Mutated form of RewriteFails: it keeps retrying.
RewriteFailsRetries(c) ==
    /\ Goto(c, "rewrite", "redial")
    /\ WriteBreaks(c)
    /\ Reset
    /\ UNCHANGED <<mu, ret>>

\* The second write fails: reset again, and no further retry.
RewriteFails(c) ==
    /\ Goto(c, "rewrite", "returned")
    /\ WriteBreaks(c)
    /\ Reset
    /\ Return(c, "error")

\* Close, at the end of the server's main, when no call is in progress.
Close ==
    /\ mu = NoCall
    /\ \A c \in Calls : step[c] \in {"idle", "returned"}
    /\ session # "none"
    /\ Reset
    /\ UNCHANGED <<mu, step, ret, sent, faults, hit>>

CallStep(c) ==
    \/ Lock(c)
    \/ EnsureReady(c, "dial", "write") \/ EnsureReady(c, "redial", "rewrite")
    \/ WriteSucceeds(c, "write") \/ WriteSucceeds(c, "rewrite")
    \/ WriteFails(c) \/ RewriteFails(c)

Next == Break \/ Close \/ \E c \in Calls : Start(c) \/ CallStep(c)

Spec == Init /\ [][Next]_vars

(***************************************************************************)
(* Fairness.  The holder of the mutex goes on (dials and writes return).   *)
(* sync.Mutex starves no waiter, so a call that could lock infinitely      *)
(* often does.                                                             *)
(***************************************************************************)
FairSpec == Spec /\ \A c \in Calls : WF_vars(CallStep(c)) /\ SF_vars(Lock(c))

----------------------------------------------------------------------------
(* Properties.                                                             *)

\* A session that went stale between two calls costs no request: Publish
\* returns an error only if something failed during the call itself.
FailsOnlyWhenHit == \A c \in Calls : ret[c] = "error" => c \in hit

\* A message reaches the queue twice only when a write that failed had got
\* through, which takes a fault during the call; never three times.
SentOnceUnlessHit ==
    \A c \in Calls : sent[c] <= 2 /\ (sent[c] = 2 => c \in hit)

\* How a call looks to the request that made it, and the messages it sent.
RequestOf(c) ==
    CASE step[c] = "idle" -> "none"
      [] step[c] = "lock" -> "saving"
      [] step[c] \in {"dial", "write"} -> "publishing"
      [] step[c] \in {"redial", "rewrite"} -> "retrying"
      [] step[c] = "returned" -> IF ret[c] = "ok" THEN "accepted" ELSE "failed"
SentBy(c) == {<<c, i>> : i \in 1 .. sent[c]}

\* What CodeService says of publishing is what the publisher does: each call is
\* a request of a service without processors (whose row is saved, say, while the
\* call waits for the mutex), and the messages of the calls are all that is in
\* the queue.
Service == INSTANCE CodeService WITH
    Processors <- {}, Messages <- Calls \X {1, 2}, Malformed <- {}, Prefetch <- 1,
    NoDelivery <- NoCall, MaxFaults <- 0,
    Ids <- Calls, TaskOf <- [m \in Calls \X {1, 2} |-> m[1]],
    ready <- UNION {SentBy(c) : c \in Calls},
    unacked <- [p \in {} |-> {}], acked <- {}, dropped <- {}, redelivered <- {},
    pc <- [p \in {} |-> "top"], session <- [p \in {} |-> "none"],
    buffer <- [p \in {} |-> {}], current <- [p \in {} |-> NoCall],
    cancelled <- [p \in {} |-> FALSE],
    attempts <- [m \in Calls \X {1, 2} |-> 0], succeeded <- {}, failed <- {}, faults <- 0,
    row <- [c \in Calls |-> IF step[c] \in {"idle", "lock"} THEN "none" ELSE "in_progress"],
    result <- [c \in Calls |-> 0],
    request <- [c \in Calls |-> RequestOf(c)],
    phase <- [p \in {} |-> "none"], attempt <- [p \in {} |-> 0],
    runs <- [c \in Calls |-> 0], seen <- [c \in Calls |-> "nothing"]
PublishesForService == Service!ServiceSpec

\* Every call returns, however many share the session.
PublishReturns == \A c \in Calls : step[c] = "lock" ~> step[c] = "returned"
=============================================================================
