------------------------------ MODULE WorkQueue ------------------------------
(***************************************************************************)
(* What the queue and its consumers promise about a message (the contract  *)
(* of TaskConsumer in internal/port/port.go, kept by consumer.go).  A      *)
(* message that was accepted is tried by one worker at a time until it is  *)
(* done or dropped, and then settled for good; without faults it is tried  *)
(* at most twice and dropped only after the second try.                    *)
(*                                                                         *)
(* A fault may take a worker's message away from it.  The worker may go on *)
(* with it, or even begin one more try of what it still holds, but what it *)
(* finds no longer counts.  TaskQueue implements this.                     *)
(***************************************************************************)
EXTENDS Naturals

CONSTANTS Workers, Messages, Malformed

VARIABLES
    state,    \* each message is unsent, open, done or dropped
    work,     \* the message each worker tries: a set of at most one
    owner,    \* workers whose verdict on their message counts
    tries,    \* tries begun of each message
    faults    \* faults so far

Init ==
    /\ state = [m \in Messages |-> "unsent"]
    /\ work = [w \in Workers |-> {}]
    /\ owner = {}
    /\ tries = [m \in Messages |-> 0]
    /\ faults = 0

Move(m, from, to) == state[m] = from /\ state' = [state EXCEPT ![m] = to]

Accept(m) == Move(m, "unsent", "open") /\ UNCHANGED <<work, owner, tries, faults>>

\* A message that cannot be tried is dropped at once.
Reject(m) ==
    /\ m \in Malformed
    /\ Move(m, "open", "dropped")
    /\ UNCHANGED <<work, owner, tries, faults>>

\* A worker tries a message as its only owner, or after a fault one that it
\* has lost, which others may own or have settled.
Try(w, m) ==
    /\ work[w] = {} /\ m \notin Malformed
    /\ tries[m] < 2 + faults
    /\ \/ /\ state[m] = "open"
          /\ \A v \in owner : m \notin work[v]
          /\ owner' = owner \cup {w}
       \/ state[m] # "unsent" /\ faults > 0 /\ UNCHANGED owner
    /\ work' = [work EXCEPT ![w] = {m}]
    /\ tries' = [tries EXCEPT ![m] = @ + 1]
    /\ UNCHANGED <<state, faults>>

\* A worker is done with its message.
Leave(w, m) ==
    /\ work[w] = {m}
    /\ work' = [work EXCEPT ![w] = {}]
    /\ owner' = owner \ {w}
    /\ UNCHANGED <<tries, faults>>

\* The try succeeded.
Succeed(w, m) ==
    /\ Leave(w, m)
    /\ IF w \in owner THEN Move(m, "open", "done") ELSE UNCHANGED state

\* The try failed: the message stays open for another, or is dropped.
Fail(w, m) ==
    /\ Leave(w, m)
    /\ \/ UNCHANGED state
       \/ w \in owner /\ (tries[m] >= 2 \/ faults > 0) /\ Move(m, "open", "dropped")

\* A fault takes a worker's message away, and may stop the worker.
Fault(w) ==
    /\ faults' = faults + 1
    /\ owner' \in {owner, owner \ {w}}
    /\ \/ UNCHANGED work
       \/ work' = [work EXCEPT ![w] = {}] /\ w \notin owner'
    /\ UNCHANGED <<state, tries>>

Next ==
    \/ \E m \in Messages : Accept(m) \/ Reject(m)
    \/ \E w \in Workers : Fault(w) \/ \E m \in Messages : Try(w, m) \/ Succeed(w, m) \/ Fail(w, m)

Spec == Init /\ [][Next]_<<state, work, owner, tries, faults>>
=============================================================================
