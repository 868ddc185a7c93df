---------------------------- MODULE ExecutorProofs ----------------------------
(***************************************************************************)
(* Theorems about PhilharmonicExecutor: whose result a call returns, and   *)
(* what it leaves behind, for any number of calls for one task.            *)
(***************************************************************************)
EXTENDS PhilharmonicExecutor, TLAPS

\* A late request is one of a call that is over and got no answer; a POST that
\* is late has created nothing yet.
LateOf(c) ==
    /\ <<"POST", c>> \in late => /\ step[c] = "returned" /\ faulty[c]
                                 /\ run[c] = "absent" /\ ret[c] # "ok"
    /\ <<"DELETE", c>> \in late => step[c] = "returned" /\ faulty[c]

\* Where a call is decides what it knows.
StepOf(c) ==
    /\ step[c] \in {"idle", "submit"} => run[c] = "absent"
    /\ step[c] \in {"idle", "submit", "poll", "sleep", "logs"} => ret[c] = "none"
    /\ step[c] = "logs" => entry[c] \in Calls
    /\ ret[c] = "ok" => {entry[c], output[c]} \subseteq Calls

\* As long as no other call interferes, the container of a call is there until
\* its own cleanup and ends by itself or by the kill timeout.
OwnOf(c) ==
    ~disturbed[c] =>
    /\ step[c] \in {"poll", "sleep", "logs"} \/ (step[c] = "stop" /\ ret[c] # "ok")
       => /\ run[c] \in {"live"} \cup Terminal
          /\ run[c] \in Terminal => cause[c] \in {"exit", "kill"}
    /\ step[c] = "logs" => /\ entry[c] = c
                           /\ run[c] \in Terminal
                           /\ Records = {c}
    /\ ret[c] = "ok" => /\ entry[c] = c /\ output[c] = c
                        /\ cause[c] \in {"exit", "kill"}
                        /\ run[c] \in {"removed"} \cup Terminal

\* If there was no other record either, the call's is the only one until then.
AloneOf(c) ==
    ~disturbed[c] /\ ~crowded[c] =>
    /\ step[c] \in {"poll", "sleep", "logs", "stop"} => Records = {c}
    /\ step[c] = "returned" /\ ret[c] # "crash" /\ ~faulty[c]
       => run[c] \in IF ret[c] = "ok" THEN {"removed"}
                     ELSE {"absent", "stopping", "failed", "removed"}

CallOf(c) == LateOf(c) /\ StepOf(c) /\ OwnOf(c) /\ AloneOf(c)

\* The inductive invariant.
IInv == TypeOK /\ \A c \in Calls : CallOf(c)

----------------------------------------------------------------------------
(* What each kind of step does, call by call.                              *)

\* The domains of the variables.
Functions ==
    /\ run \in [Calls -> {"absent", "live", "stopping", "removed"} \cup Terminal]
    /\ cause \in [Calls -> {"none", "exit", "kill", "stop"}]
    /\ step \in [Calls -> Active \cup {"idle", "returned"}]
    /\ ret \in [Calls -> {"none", "ok", "error", "timeout", "crash"}]
    /\ entry \in [Calls -> Calls \cup {NoRun}]
    /\ output \in [Calls -> Calls \cup {NoRun}]
    /\ crowded \in [Calls -> BOOLEAN]
    /\ disturbed \in [Calls -> BOOLEAN]
    /\ faulty \in [Calls -> BOOLEAN]

\* They follow from type correctness.
LEMMA TypedFunctions == TypeOK => Functions
  BY DEF TypeOK, Functions

\* The state of one call is kept.
LocalKept(x) ==
    step'[x] = step[x] /\ ret'[x] = ret[x] /\ entry'[x] = entry[x] /\ output'[x] = output[x]

\* The state of one container is kept, and what is late of its call.
RemoteKept(x) ==
    /\ run'[x] = run[x] /\ cause'[x] = cause[x]
    /\ <<"POST", x>> \in late' => <<"POST", x>> \in late
    /\ <<"DELETE", x>> \in late' => <<"DELETE", x>> \in late
GhostKept(x) == crowded'[x] = crowded[x] /\ faulty'[x] = faulty[x]

\* A step of c that asks nothing of the manager that would change it.
LocalMove(c) ==
    /\ \A x \in Calls \ {c} : LocalKept(x)
    /\ UNCHANGED <<manager, ghosts>>

\* A POST of c is processed.
CreateMove(c) ==
    /\ \A x \in Calls \ {c} : LocalKept(x) /\ RemoteKept(x) /\ GhostKept(x)
    /\ \A x \in Calls \ {c} : ~disturbed'[x] => ~disturbed[x] /\ step[x] \notin Active
    /\ run'[c] = "live"
    /\ crowded'[c] \/ Records' = {c}
    /\ disturbed'[c] = disturbed[c]
    /\ faulty'[c] = faulty[c]
    /\ <<"DELETE", c>> \in late' => <<"DELETE", c>> \in late

\* What a DELETE does to a container.
Deleted(x) ==
    \/ run'[x] = run[x]
    \/ x \in Records /\ run[x] = "live" /\ run'[x] = "stopping"
    \/ x \in Records /\ run[x] # "live" /\ run'[x] = "removed"

\* A DELETE of c is processed.
DeleteMove(c) ==
    /\ \A x \in Calls \ {c} : LocalKept(x)
    /\ \A x \in Calls : GhostKept(x)
    /\ \A x \in Calls : Deleted(x) /\ (cause'[x] = cause[x] \/ run[x] = "live")
    /\ \A x \in Calls \ {c} :
          ~disturbed'[x] => ~disturbed[x] /\ (step[x] \notin Active \/ UNCHANGED <<run, cause>>)
    /\ disturbed'[c] = disturbed[c]
    /\ Records = {c} => run'[c] # run[c]
    /\ late' \subseteq late

\* A request of c gets no answer, and c is over.
UnansweredMove(kind, c) ==
    /\ \A x \in Calls \ {c} : LocalKept(x) /\ GhostKept(x)
    /\ UNCHANGED <<run, cause, crowded, disturbed, entry, output>>
    /\ late' = late \cup {<<kind, c>>}
    /\ faulty'[c]
    /\ step'[c] = "returned"
    /\ ret'[c] \in {ret[c], "error", "crash"}

\* A container ends.
EndMove(r) ==
    /\ UNCHANGED <<late, step, ret, local, ghosts>>
    /\ \A x \in Calls \ {r} : run'[x] = run[x] /\ cause'[x] = cause[x]
    /\ \/ run[r] = "live" /\ run'[r] \in Terminal /\ cause'[r] \in {"exit", "kill"}
       \/ run[r] = "stopping" /\ run'[r] = "failed"
    /\ Records' = Records

\* Steps of Execute that only concern their call.
LEMMA LocalMoves ==
    ASSUME Functions, NEW c \in Calls,
           \/ Execute(c) \/ SubmitRefused(c)
           \/ PollTerminal(c) \/ PollAmbiguous(c) \/ PollUnfinished(c) \/ PollFails(c)
           \/ Wake(c) \/ LogsRead(c) \/ LogsFail(c) \/ CtxDone(c) \/ Expire(c)
    PROVE  LocalMove(c)
  <1> USE DEF Functions, Set, Goto, LocalMove, LocalKept, local, manager, ghosts, AwaitEnds, await
  <1>1. CASE Execute(c) \/ SubmitRefused(c)
    BY <1>1 DEF Execute, SubmitRefused
  <1>2. CASE PollTerminal(c)
    BY <1>2 DEF PollTerminal
  <1>3. CASE PollAmbiguous(c) \/ PollFails(c) \/ LogsFail(c)
    BY <1>3 DEF PollAmbiguous, PollFails, LogsFail
  <1>4. CASE PollUnfinished(c)
    BY <1>4 DEF PollUnfinished
  <1>5. CASE Wake(c)
    BY <1>5 DEF Wake
  <1>6. CASE LogsRead(c)
    BY <1>6 DEF LogsRead
  <1>7. CASE CtxDone(c) \/ Expire(c)
    BY <1>7 DEF CtxDone, Expire
  <1> QED
    BY <1>1, <1>2, <1>3, <1>4, <1>5, <1>6, <1>7

\* A POST creates the container of its call, under every call in progress.
LEMMA Creates ==
    ASSUME Functions, NEW c \in Calls, Create(c)
    PROVE  /\ \A x \in Calls \ {c} : run'[x] = run[x] /\ cause'[x] = cause[x] /\ crowded'[x] = crowded[x]
           /\ \A x \in Calls \ {c} : ~disturbed'[x] => ~disturbed[x] /\ step[x] \notin Active
           /\ run'[c] = "live"
           /\ crowded'[c] \/ Records' = {c}
           /\ disturbed'[c] = disturbed[c]
  <1>1. /\ \A x \in Calls \ {c} : run'[x] = run[x] /\ cause'[x] = cause[x] /\ crowded'[x] = crowded[x]
        /\ run'[c] = "live"
        /\ crowded'[c] = (Records # {})
    BY DEF Functions, Create, Set
  <1>2. \A x \in Calls : disturbed'[x] = (disturbed[x] \/ (x # c /\ step[x] \in Active))
    BY DEF Create, Disturb
  <1>3. Records = {} => Records' = {c}
    BY <1>1 DEF Records
  <1>4. disturbed'[c] = disturbed[c]
    BY <1>2 DEF Functions
  <1>5. \A x \in Calls \ {c} : ~disturbed'[x] => ~disturbed[x] /\ step[x] \notin Active
    BY <1>2
  <1> QED
    BY <1>1, <1>3, <1>4, <1>5

\* A DELETE stops or removes one container, under every call in progress.
LEMMA Deletes ==
    ASSUME Functions, NEW c \in Calls, Delete(c)
    PROVE  /\ \A x \in Calls : Deleted(x) /\ (cause'[x] = cause[x] \/ run[x] = "live")
           /\ \A x \in Calls \ {c} :
                 ~disturbed'[x] => ~disturbed[x] /\ (step[x] \notin Active \/ UNCHANGED <<run, cause>>)
           /\ disturbed'[c] = disturbed[c]
           /\ Records = {c} => run'[c] # run[c]
  <1>1. CASE Records = {}
    BY <1>1 DEF Delete, Deleted
  <1>2. CASE Records # {}
    <2>1. PICK r \in Records : IF run[r] = "live"
                               THEN Set(run, r, "stopping") /\ Set(cause, r, "stop")
                               ELSE Set(run, r, "removed") /\ UNCHANGED cause
      BY <1>2 DEF Delete
    <2>2. r \in Calls /\ run[r] # "removed"
      BY <2>1 DEF Records
    <2>3. \A x \in Calls : disturbed'[x] = (disturbed[x] \/ (x # c /\ step[x] \in Active))
      BY <1>2 DEF Delete, Disturb
    <2>4. \A x \in Calls \ {r} : run'[x] = run[x] /\ cause'[x] = cause[x]
      BY <2>1, <2>2 DEF Functions, Set
    <2>5. run[r] = "live" => run'[r] = "stopping"
      BY <2>1, <2>2 DEF Functions, Set
    <2>6. run[r] # "live" => run'[r] = "removed" /\ cause'[r] = cause[r]
      BY <2>1, <2>2 DEF Functions, Set
    <2>7. \A x \in Calls : Deleted(x) /\ (cause'[x] = cause[x] \/ run[x] = "live")
      BY <2>1, <2>4, <2>5, <2>6 DEF Deleted
    <2>8. disturbed'[c] = disturbed[c]
      BY <2>3 DEF Functions
    <2>9. Records = {c} => run'[c] # run[c]
      BY <2>1, <2>2, <2>5, <2>6
    <2> QED
      BY <2>3, <2>7, <2>8, <2>9
  <1> QED
    BY <1>1, <1>2

\* The POST of a call is answered with 201, or processed late.
LEMMA CreateMoves ==
    ASSUME Functions, NEW c \in Calls,
           \/ SubmitAccepted(c)
           \/ <<"POST", c>> \in late /\ LateRequest(c) /\ Create(c) /\ late' = late \ {<<"POST", c>>}
    PROVE  CreateMove(c)
  <1>1. Create(c) /\ UNCHANGED faulty
    BY DEF SubmitAccepted, LateRequest
  <1>2. \A x \in Calls \ {c} : LocalKept(x)
    BY DEF Functions, SubmitAccepted, LateRequest, Goto, Set, LocalKept, local
  <1>3. late' \subseteq late
    BY DEF SubmitAccepted
  <1> QED
    BY <1>1, <1>2, <1>3, Creates DEF CreateMove, RemoteKept, GhostKept

\* The DELETE of a call is answered, or processed late.
LEMMA DeleteMoves ==
    ASSUME Functions, NEW c \in Calls,
           \/ StopAnswered(c)
           \/ LateRequest(c) /\ Delete(c) /\ UNCHANGED crowded /\ late' = late \ {<<"DELETE", c>>}
    PROVE  DeleteMove(c)
  <1>1. Delete(c) /\ UNCHANGED <<faulty, crowded>>
    BY DEF StopAnswered, LateRequest
  <1>2. \A x \in Calls \ {c} : LocalKept(x)
    BY DEF Functions, StopAnswered, LateRequest, Goto, Set, LocalKept, local
  <1>3. late' \subseteq late
    BY DEF StopAnswered
  <1> QED
    BY <1>1, <1>2, <1>3, Deletes DEF DeleteMove, GhostKept

\* A container that ends stays in the manager's list.
LEMMA EndMoves ==
    ASSUME Functions, NEW r \in Calls, RunEnds(r)
    PROVE  EndMove(r)
  <1>1. UNCHANGED <<late, step, ret, local, ghosts>>
    BY DEF RunEnds
  <1>2. \A x \in Calls \ {r} : run'[x] = run[x] /\ cause'[x] = cause[x]
    BY DEF Functions, RunEnds, Set
  <1>3. \/ run[r] = "live" /\ run'[r] \in Terminal /\ cause'[r] \in {"exit", "kill"}
        \/ run[r] = "stopping" /\ run'[r] = "failed"
    BY DEF Functions, RunEnds, Set, Terminal
  <1>4. Records' = Records
    BY <1>2, <1>3 DEF Records, Terminal
  <1> QED
    BY <1>1, <1>2, <1>3, <1>4 DEF EndMove

\* A request without an answer ends its call, by an error or with its processor.
LEMMA UnansweredMoves ==
    ASSUME Functions, NEW c \in Calls,
           \/ SubmitFails(c) \/ StopFails(c)
           \/ Crash(c) /\ ~UNCHANGED <<manager, ghosts>>
    PROVE  \/ UnansweredMove("POST", c) /\ step[c] = "submit" /\ ret'[c] \in {"error", "crash"}
           \/ UnansweredMove("DELETE", c) /\ step[c] = "stop" /\ ret'[c] \in {ret[c], "crash"}
  <1> USE DEF Functions, Set, Goto, LocalKept, GhostKept, local, await, Unanswered, UnansweredMove
  <1>1. CASE SubmitFails(c)
    BY <1>1 DEF SubmitFails
  <1>2. CASE StopFails(c)
    BY <1>2 DEF StopFails
  <1>3. CASE Crash(c) /\ step[c] = "submit" /\ Unanswered("POST", c)
    BY <1>3 DEF Crash
  <1>4. CASE Crash(c) /\ step[c] = "stop" /\ Unanswered("DELETE", c)
    BY <1>4 DEF Crash
  <1> QED
    BY <1>1, <1>2, <1>3, <1>4 DEF Crash

\* A crash between requests only concerns its call.
LEMMA CrashMoves ==
    ASSUME Functions, NEW c \in Calls, Crash(c), UNCHANGED <<manager, ghosts>>
    PROVE  LocalMove(c)
  BY DEF Functions, Set, LocalMove, LocalKept, Crash

----------------------------------------------------------------------------
(* What is known of a call is kept by every step.                          *)

\* A call knows no less after a step of another call of Execute.
LEMMA LocalOthers ==
    ASSUME NEW c \in Calls, LocalMove(c), NEW q \in Calls \ {c}, CallOf(q)
    PROVE  CallOf(q)'
  <1>1. LocalKept(q) /\ UNCHANGED <<run, cause, late, crowded, disturbed, faulty>>
    BY DEF LocalMove, manager, ghosts
  <1>2. Records' = Records
    BY <1>1 DEF Records
  <1>3. LateOf(q)'
    BY <1>1 DEF CallOf, LateOf, LocalKept
  <1>4. StepOf(q)'
    BY <1>1 DEF CallOf, StepOf, LocalKept
  <1>5. OwnOf(q)'
    BY <1>1, <1>2 DEF CallOf, OwnOf, LocalKept
  <1>6. AloneOf(q)'
    BY <1>1, <1>2 DEF CallOf, AloneOf, LocalKept
  <1> QED
    BY <1>3, <1>4, <1>5, <1>6 DEF CallOf

\* What is known of a call is kept by its own step too.
LEMMA LocalOwn ==
    ASSUME Functions, NEW c \in Calls, LocalMove(c), CallOf(c),
           \/ Execute(c) \/ SubmitRefused(c)
           \/ PollTerminal(c) \/ PollAmbiguous(c) \/ PollUnfinished(c) \/ PollFails(c)
           \/ Wake(c) \/ LogsRead(c) \/ LogsFail(c) \/ CtxDone(c) \/ Expire(c) \/ Crash(c)
    PROVE  CallOf(c)'
  <1>0. UNCHANGED <<run, cause, late, crowded, disturbed, faulty>>
    BY DEF LocalMove, manager, ghosts
  <1>1. Records' = Records
    BY <1>0 DEF Records
  <1>2. step[c] # "returned"
    BY DEF Execute, SubmitRefused, PollTerminal, PollAmbiguous, PollUnfinished, PollFails, Wake,
           LogsRead, LogsFail, CtxDone, Expire, Crash, AwaitEnds, Goto, Active
  <1>3. LateOf(c)'
    BY <1>0, <1>2 DEF CallOf, LateOf
  <1> USE DEF Functions, Set, Goto
  <1>4. CASE Execute(c) \/ SubmitRefused(c)
    <2>1. step[c] \in {"idle", "submit"} /\ step'[c] \in {"submit", "returned"}
      BY <1>4 DEF Execute, SubmitRefused
    <2>2. \/ ret'[c] = "error" /\ step'[c] = "returned"
          \/ ret'[c] = ret[c] /\ step'[c] = "submit"
      BY <1>4 DEF Execute, SubmitRefused
    <2>3. run'[c] = "absent" /\ ret[c] = "none"
      BY <1>0, <2>1 DEF CallOf, StepOf
    <2>4. StepOf(c)'
      BY <2>1, <2>2, <2>3 DEF StepOf
    <2>5. OwnOf(c)'
      BY <2>1, <2>2, <2>3 DEF OwnOf
    <2>6. AloneOf(c)'
      BY <2>1, <2>2, <2>3 DEF AloneOf
    <2> QED
      BY <1>3, <2>4, <2>5, <2>6 DEF CallOf
  <1>5. CASE PollTerminal(c)
    <2>1. step[c] = "poll" /\ step'[c] = "logs" /\ ret'[c] = ret[c]
      BY <1>5 DEF PollTerminal
    <2>2. entry'[c] \in Calls /\ Records = {entry'[c]} /\ run[entry'[c]] \in Terminal
      BY <1>5 DEF PollTerminal, Records
    <2>3. ret[c] = "none"
      BY <2>1 DEF CallOf, StepOf
    <2>4. ~disturbed[c] => run[c] \in {"live"} \cup Terminal /\ (run[c] \in Terminal => cause[c] \in {"exit", "kill"})
      BY <2>1 DEF CallOf, OwnOf
    <2>5. ~disturbed[c] => entry'[c] = c
      BY <2>2, <2>4 DEF Records, Terminal
    <2>6. StepOf(c)'
      BY <2>1, <2>2, <2>3 DEF StepOf
    <2>7. OwnOf(c)'
      BY <1>0, <1>1, <2>1, <2>2, <2>3, <2>4, <2>5 DEF OwnOf
    <2>8. AloneOf(c)'
      BY <1>0, <1>1, <2>1 DEF CallOf, AloneOf
    <2> QED
      BY <1>3, <2>6, <2>7, <2>8 DEF CallOf
  <1>6. ASSUME step[c] \in {"poll", "sleep", "logs"}, step'[c] = "stop", ret'[c] \in {"error", "timeout"}
        PROVE  CallOf(c)'
    <2>1. StepOf(c)'
      BY <1>6 DEF StepOf
    <2>2. OwnOf(c)'
      BY <1>0, <1>6 DEF CallOf, OwnOf
    <2>3. AloneOf(c)'
      BY <1>0, <1>1, <1>6 DEF CallOf, AloneOf
    <2> QED
      BY <1>3, <2>1, <2>2, <2>3 DEF CallOf
  <1>7. ASSUME step[c] \in {"poll", "sleep"}, step'[c] \in {"poll", "sleep"},
               ret'[c] = ret[c]
        PROVE  CallOf(c)'
    <2>0. ret[c] = "none"
      BY <1>7 DEF CallOf, StepOf
    <2>1. StepOf(c)'
      BY <1>7, <2>0 DEF StepOf
    <2>2. OwnOf(c)'
      BY <1>0, <1>7, <2>0 DEF CallOf, OwnOf
    <2>3. AloneOf(c)'
      BY <1>0, <1>1, <1>7 DEF CallOf, AloneOf
    <2> QED
      BY <1>3, <2>1, <2>2, <2>3 DEF CallOf
  <1>8. CASE PollAmbiguous(c) \/ PollFails(c) \/ LogsFail(c)
    BY <1>6, <1>8 DEF PollAmbiguous, PollFails, LogsFail, AwaitEnds
  <1>9. CASE PollUnfinished(c)
    BY <1>6, <1>7, <1>9 DEF PollUnfinished, AwaitEnds
  <1>10. CASE Wake(c)
    BY <1>6, <1>7, <1>10 DEF Wake, AwaitEnds
  <1>11. CASE CtxDone(c) \/ Expire(c)
    BY <1>7, <1>11 DEF CtxDone, Expire
  <1>12. CASE LogsRead(c)
    <2>1. step[c] = "logs" /\ step'[c] = "stop" /\ ret'[c] = "ok" /\ entry'[c] = entry[c]
      BY <1>12 DEF LogsRead
    <2>2. output'[c] \in Records
      BY <1>12 DEF LogsRead, Records
    <2>3. StepOf(c)'
      BY <2>1, <2>2 DEF CallOf, StepOf, Records
    <2>4. OwnOf(c)'
      <3>1. CASE disturbed[c]
        BY <1>0, <3>1 DEF OwnOf
      <3>2. CASE ~disturbed[c]
        <4>1. entry[c] = c /\ run[c] \in Terminal /\ Records = {c} /\ cause[c] \in {"exit", "kill"}
          BY <2>1, <3>2 DEF CallOf, OwnOf
        <4> QED
          BY <1>0, <2>1, <2>2, <4>1 DEF OwnOf
      <3> QED
        BY <3>1, <3>2
    <2>5. AloneOf(c)'
      BY <1>0, <1>1, <2>1 DEF CallOf, AloneOf
    <2> QED
      BY <1>3, <2>3, <2>4, <2>5 DEF CallOf
  <1>13. CASE Crash(c)
    <2>1. step'[c] = "returned" /\ ret'[c] = "crash"
      BY <1>13 DEF Crash
    <2>2. StepOf(c)' /\ OwnOf(c)' /\ AloneOf(c)'
      BY <2>1 DEF StepOf, OwnOf, AloneOf
    <2> QED
      BY <1>3, <2>2 DEF CallOf
  <1> QED
    BY <1>4, <1>5, <1>8, <1>9, <1>10, <1>11, <1>12, <1>13

\* A container is created for c.
LEMMA CreateKeeps ==
    ASSUME Functions, NEW c \in Calls, CreateMove(c),
           \/ SubmitAccepted(c)
           \/ /\ <<"POST", c>> \in late /\ LateRequest(c)
              /\ late' = late \ {<<"POST", c>>},
           NEW q \in Calls, CallOf(q)
    PROVE  CallOf(q)'
  <1>1. CASE q # c
    <2>1. /\ LocalKept(q) /\ RemoteKept(q) /\ GhostKept(q)
          /\ ~disturbed'[q] => ~disturbed[q] /\ step[q] \notin Active
      BY <1>1 DEF CreateMove
    <2>2. LateOf(q)'
      BY <2>1 DEF CallOf, LateOf, LocalKept, RemoteKept, GhostKept
    <2>3. StepOf(q)'
      BY <2>1 DEF CallOf, StepOf, LocalKept, RemoteKept
    <2>4. OwnOf(q)'
      BY <2>1 DEF CallOf, OwnOf, LocalKept, RemoteKept, Active
    <2>5. AloneOf(q)'
      BY <2>1 DEF CallOf, AloneOf, LocalKept, RemoteKept, GhostKept, Active
    <2> QED
      BY <2>2, <2>3, <2>4, <2>5 DEF CallOf
  <1>2. CASE q = c /\ SubmitAccepted(c)
    <2>1. step[q] = "submit" /\ step'[q] = "poll" /\ ret'[q] = ret[q] /\ late' = late
      BY <1>2 DEF SubmitAccepted, Goto, Set, Functions
    <2>2. run'[q] = "live" /\ (crowded'[q] \/ Records' = {q}) /\ ret[q] = "none"
      BY <1>2, <2>1 DEF CreateMove, CallOf, StepOf
    <2>3. LateOf(q)'
      BY <2>1 DEF CallOf, LateOf
    <2>4. StepOf(q)'
      BY <2>1, <2>2 DEF StepOf
    <2>5. OwnOf(q)'
      BY <2>1, <2>2 DEF OwnOf, Terminal
    <2>6. AloneOf(q)'
      BY <2>1, <2>2 DEF AloneOf
    <2> QED
      BY <2>3, <2>4, <2>5, <2>6 DEF CallOf
  <1>3. CASE q = c /\ LateRequest(c) /\ <<"POST", c>> \in late /\ late' = late \ {<<"POST", c>>}
    <2>1. step[q] = "returned" /\ faulty[q] /\ ret[q] # "ok"
      BY <1>3 DEF CallOf, LateOf
    <2>2. /\ step'[q] = step[q] /\ ret'[q] = ret[q] /\ entry'[q] = entry[q] /\ output'[q] = output[q]
          /\ faulty'[q] = faulty[q]
      BY <1>3 DEF LateRequest, local
    <2>3. LateOf(q)'
      BY <1>3, <2>1, <2>2 DEF LateOf
    <2>4. StepOf(q)' /\ OwnOf(q)' /\ AloneOf(q)'
      BY <2>1, <2>2 DEF StepOf, OwnOf, AloneOf
    <2> QED
      BY <2>3, <2>4 DEF CallOf
  <1> QED
    BY <1>1, <1>2, <1>3

\* A DELETE of c is processed.
LEMMA DeleteKeeps ==
    ASSUME Functions, NEW c \in Calls, DeleteMove(c),
           \/ StopAnswered(c)
           \/ <<"DELETE", c>> \in late /\ UNCHANGED <<step, ret, local>>,
           NEW q \in Calls, CallOf(q)
    PROVE  CallOf(q)'
  <1>1. /\ Deleted(q) /\ (cause'[q] = cause[q] \/ run[q] = "live")
        /\ GhostKept(q)
        /\ late' \subseteq late
        /\ run[q] \in {"absent", "live", "stopping", "removed"} \cup Terminal
    BY DEF DeleteMove, Functions
  <1>2. run[q] = "absent" => run'[q] = "absent"
    BY <1>1 DEF Deleted, Records
  <1>3. /\ run[q] \in {"removed"} \cup Terminal => run'[q] \in {"removed"} \cup Terminal
        /\ run[q] = "removed" => run'[q] = "removed"
    BY <1>1 DEF Deleted, Terminal, Records
  <1>4. run[q] \in {"absent", "stopping", "failed", "removed"}
        => run'[q] \in {"absent", "stopping", "failed", "removed"}
    BY <1>1 DEF Deleted
  \* A result that was returned keeps its run and its cause.
  <1>5. ASSUME ret'[q] = ret[q], entry'[q] = entry[q], output'[q] = output[q], ~disturbed[q], ret[q] = "ok"
        PROVE  /\ entry'[q] = q /\ output'[q] = q
               /\ cause'[q] \in {"exit", "kill"}
               /\ run'[q] \in {"removed"} \cup Terminal
    <2>1. /\ entry[q] = q /\ output[q] = q
          /\ cause[q] \in {"exit", "kill"}
          /\ run[q] \in {"removed"} \cup Terminal
      BY <1>5 DEF CallOf, OwnOf
    <2> QED
      BY <1>1, <1>3, <1>5, <2>1 DEF Terminal
  <1>6. CASE q # c
    <2>1. LocalKept(q)
      BY <1>6 DEF DeleteMove
    <2>2. ~disturbed'[q] => ~disturbed[q] /\ (step[q] \notin Active \/ UNCHANGED <<run, cause>>)
      BY <1>6 DEF DeleteMove
    <2>3. LateOf(q)'
      BY <1>1, <1>2, <2>1 DEF CallOf, LateOf, LocalKept, GhostKept
    <2>4. StepOf(q)'
      BY <1>2, <2>1 DEF CallOf, StepOf, LocalKept
    <2>5. CASE UNCHANGED <<run, cause>>
      <3>1. Records' = Records
        BY <2>5 DEF Records
      <3>2. OwnOf(q)'
        BY <2>1, <2>2, <2>5, <3>1 DEF CallOf, OwnOf, LocalKept
      <3>3. AloneOf(q)'
        BY <1>1, <2>1, <2>2, <2>5, <3>1 DEF CallOf, AloneOf, LocalKept, GhostKept
      <3> QED
        BY <2>3, <2>4, <3>2, <3>3 DEF CallOf
    <2>6. CASE step[q] \notin Active
      <3>1. OwnOf(q)'
        BY <1>5, <2>1, <2>2, <2>6 DEF OwnOf, LocalKept, Active
      <3>2. AloneOf(q)'
        BY <1>1, <1>3, <1>4, <2>1, <2>2, <2>6 DEF CallOf, AloneOf, LocalKept, GhostKept, Active
      <3> QED
        BY <2>3, <2>4, <3>1, <3>2 DEF CallOf
    <2>7. CASE disturbed'[q]
      BY <2>3, <2>4, <2>7 DEF CallOf, OwnOf, AloneOf
    <2> QED
      BY <2>2, <2>5, <2>6, <2>7
  <1>7. CASE q = c /\ <<"DELETE", c>> \in late /\ UNCHANGED <<step, ret, local>>
    <2>1. step[q] = "returned" /\ faulty[q] /\ LocalKept(q) /\ disturbed'[q] = disturbed[q]
      BY <1>7 DEF CallOf, LateOf, LocalKept, local, DeleteMove
    <2>2. LateOf(q)'
      BY <1>1, <1>2, <2>1 DEF CallOf, LateOf, LocalKept, GhostKept
    <2>3. StepOf(q)'
      BY <1>2, <2>1 DEF CallOf, StepOf, LocalKept
    <2>4. OwnOf(q)'
      BY <1>5, <2>1 DEF OwnOf, LocalKept
    <2>5. AloneOf(q)'
      BY <1>1, <2>1 DEF AloneOf, LocalKept, GhostKept
    <2> QED
      BY <2>2, <2>3, <2>4, <2>5 DEF CallOf
  <1>8. CASE q = c /\ StopAnswered(c)
    <2>1. /\ step[q] = "stop" /\ step'[q] = "returned"
          /\ ret'[q] = ret[q] /\ entry'[q] = entry[q] /\ output'[q] = output[q]
          /\ disturbed'[q] = disturbed[q]
      BY <1>8 DEF StopAnswered, Goto, Set, Functions, local, DeleteMove
    <2>2. LateOf(q)'
      BY <1>1, <2>1 DEF CallOf, LateOf
    <2>3. StepOf(q)'
      BY <2>1 DEF CallOf, StepOf
    <2>4. OwnOf(q)'
      BY <1>5, <2>1 DEF OwnOf
    <2>5. ASSUME ~disturbed[q], ~crowded[q]
          PROVE  run'[q] \in IF ret[q] = "ok" THEN {"removed"}
                             ELSE {"absent", "stopping", "failed", "removed"}
      <3>1. Records = {q} /\ run'[q] # run[q]
        BY <1>8, <2>1, <2>5 DEF CallOf, AloneOf, DeleteMove
      <3>2. run'[q] \in {"stopping", "removed"}
        BY <1>1, <3>1 DEF Deleted
      <3>3. ret[q] = "ok" => run[q] \in {"removed"} \cup Terminal
        BY <2>5 DEF CallOf, OwnOf
      <3>4. ret[q] = "ok" => run'[q] = "removed"
        BY <1>1, <3>1, <3>3 DEF Deleted, Terminal
      <3> QED
        BY <3>2, <3>4
    <2>6. AloneOf(q)'
      BY <1>1, <2>1, <2>5 DEF AloneOf, GhostKept
    <2> QED
      BY <2>2, <2>3, <2>4, <2>6 DEF CallOf
  <1> QED
    BY <1>6, <1>7, <1>8

\* A request of c stays unanswered.
LEMMA UnansweredKeeps ==
    ASSUME Functions, NEW c \in Calls,
           \/ UnansweredMove("POST", c) /\ step[c] = "submit" /\ ret'[c] \in {"error", "crash"}
           \/ UnansweredMove("DELETE", c) /\ step[c] = "stop" /\ ret'[c] \in {ret[c], "crash"},
           NEW q \in Calls, CallOf(q)
    PROVE  CallOf(q)'
  <1>0. UNCHANGED <<run, cause, crowded, disturbed, entry, output>>
    BY DEF UnansweredMove
  <1>1. Records' = Records
    BY <1>0 DEF Records
  <1>2. CASE q # c
    <2>1. LocalKept(q) /\ GhostKept(q)
      BY <1>2 DEF UnansweredMove
    <2>2. /\ <<"POST", q>> \in late' => <<"POST", q>> \in late
          /\ <<"DELETE", q>> \in late' => <<"DELETE", q>> \in late
      BY <1>2 DEF UnansweredMove
    <2>3. LateOf(q)'
      BY <1>0, <2>1, <2>2 DEF CallOf, LateOf, LocalKept, GhostKept
    <2>4. StepOf(q)'
      BY <1>0, <2>1 DEF CallOf, StepOf, LocalKept
    <2>5. OwnOf(q)'
      BY <1>0, <1>1, <2>1 DEF CallOf, OwnOf, LocalKept
    <2>6. AloneOf(q)'
      BY <1>0, <1>1, <2>1 DEF CallOf, AloneOf, LocalKept, GhostKept
    <2> QED
      BY <2>3, <2>4, <2>5, <2>6 DEF CallOf
  <1>3. CASE q = c
    <2>1. step'[q] = "returned" /\ faulty'[q]
      BY <1>3 DEF UnansweredMove
    <2>2. <<"POST", q>> \in late' => run'[q] = "absent" /\ ret'[q] # "ok"
      <3>1. CASE step[c] = "submit" /\ ret'[c] \in {"error", "crash"}
        BY <1>0, <1>3, <3>1 DEF CallOf, StepOf
      <3>2. CASE UnansweredMove("DELETE", c) /\ step[c] = "stop"
        BY <1>3, <3>2 DEF UnansweredMove, CallOf, LateOf
      <3> QED
        BY <3>1, <3>2
    <2>3. LateOf(q)'
      BY <2>1, <2>2 DEF LateOf
    <2>4. ret'[q] = "ok" => ret[q] = "ok"
      BY <1>3
    <2>5. StepOf(q)'
      BY <1>0, <2>1, <2>4 DEF CallOf, StepOf
    <2>6. OwnOf(q)'
      BY <1>0, <2>1, <2>4 DEF CallOf, OwnOf
    <2>7. AloneOf(q)'
      BY <2>1 DEF AloneOf
    <2> QED
      BY <2>3, <2>5, <2>6, <2>7 DEF CallOf
  <1> QED
    BY <1>2, <1>3

\* A container ends.
LEMMA EndKeeps ==
    ASSUME Functions, NEW r \in Calls, EndMove(r), NEW q \in Calls, CallOf(q)
    PROVE  CallOf(q)'
  <1>0. UNCHANGED <<late, step, ret, entry, output, crowded, disturbed, faulty>> /\ Records' = Records
    BY DEF EndMove, local, ghosts
  <1>1. \/ run'[q] = run[q] /\ cause'[q] = cause[q]
        \/ run[q] = "live" /\ run'[q] \in Terminal /\ cause'[q] \in {"exit", "kill"}
        \/ run[q] = "stopping" /\ run'[q] = "failed"
    BY DEF EndMove
  <1>2. LateOf(q)'
    BY <1>0, <1>1 DEF CallOf, LateOf
  <1>3. StepOf(q)'
    BY <1>0, <1>1 DEF CallOf, StepOf
  <1>4. OwnOf(q)'
    BY <1>0, <1>1 DEF CallOf, OwnOf, Terminal
  <1>5. AloneOf(q)'
    BY <1>0, <1>1 DEF CallOf, AloneOf
  <1> QED
    BY <1>2, <1>3, <1>4, <1>5 DEF CallOf

\* Nothing known of a call is lost by any step.
LEMMA CallStepHolds ==
    ASSUME TypeOK, \A x \in Calls : CallOf(x), [Next]_vars, NEW q \in Calls
    PROVE  CallOf(q)'
  <1>0. Functions /\ CallOf(q)
    BY TypedFunctions
  <1>1. ASSUME NEW c \in Calls,
               \/ Execute(c) \/ SubmitRefused(c)
               \/ PollTerminal(c) \/ PollAmbiguous(c) \/ PollUnfinished(c) \/ PollFails(c)
               \/ Wake(c) \/ LogsRead(c) \/ LogsFail(c) \/ CtxDone(c) \/ Expire(c)
               \/ (Crash(c) /\ UNCHANGED <<manager, ghosts>>)
        PROVE  CallOf(q)'
    <2>1. LocalMove(c)
      BY <1>0, <1>1, LocalMoves, CrashMoves
    <2>2. CASE q # c
      BY <1>0, <2>1, <2>2, LocalOthers
    <2>3. CASE q = c
      BY <1>0, <1>1, <2>1, <2>3, LocalOwn
    <2> QED
      BY <2>2, <2>3
  <1>2. ASSUME NEW c \in Calls,
               \/ SubmitFails(c) \/ StopFails(c)
               \/ (Crash(c) /\ ~UNCHANGED <<manager, ghosts>>)
        PROVE  CallOf(q)'
    BY <1>0, <1>2, UnansweredMoves, UnansweredKeeps
  <1>3. ASSUME NEW c \in Calls, SubmitAccepted(c) PROVE CallOf(q)'
    BY <1>0, <1>3, CreateMoves, CreateKeeps
  <1>4. ASSUME NEW c \in Calls, StopAnswered(c) PROVE CallOf(q)'
    BY <1>0, <1>4, DeleteMoves, DeleteKeeps
  <1>5. ASSUME NEW c \in Calls, LateRequest(c) PROVE CallOf(q)'
    <2>1. UNCHANGED <<step, ret, local>>
      BY <1>5 DEF LateRequest
    <2>2. CASE <<"POST", c>> \in late /\ Create(c) /\ late' = late \ {<<"POST", c>>}
      BY <1>0, <1>5, <2>2, CreateMoves, CreateKeeps
    <2>3. CASE <<"DELETE", c>> \in late /\ Delete(c) /\ UNCHANGED crowded /\ late' = late \ {<<"DELETE", c>>}
      BY <1>0, <1>5, <2>1, <2>3, DeleteMoves, DeleteKeeps
    <2> QED
      BY <1>5, <2>2, <2>3 DEF LateRequest
  <1>6. ASSUME NEW r \in Calls, RunEnds(r) PROVE CallOf(q)'
    BY <1>0, <1>6, EndMoves, EndKeeps
  <1>7. CASE UNCHANGED vars
    <2>1. UNCHANGED <<run, cause, late, step, ret, entry, output, crowded, disturbed, faulty>>
      BY <1>7 DEF vars, manager, local, ghosts
    <2>2. Records' = Records
      BY <2>1 DEF Records
    <2>3. LateOf(q)' /\ StepOf(q)'
      BY <1>0, <2>1 DEF CallOf, LateOf, StepOf
    <2>4. OwnOf(q)' /\ AloneOf(q)'
      BY <1>0, <2>1, <2>2 DEF CallOf, OwnOf, AloneOf
    <2> QED
      BY <2>3, <2>4 DEF CallOf
  <1> QED
    BY <1>1, <1>2, <1>3, <1>4, <1>5, <1>6, <1>7, Zenon DEF Next, CallStep

\* Every step keeps the types.
LEMMA TypeStep ==
    ASSUME TypeOK, \A x \in Calls : StepOf(x) /\ StepOf(x)', [Next]_vars
    PROVE  TypeOK'
  <1> USE DEF Set, Goto, local, manager, ghosts, await, Active, Terminal
  <1>0. \A c \in Calls : ret'[c] = "ok" => {entry'[c], output'[c]} \subseteq Calls
    BY DEF StepOf
  <1>1. /\ Functions
        /\ late \subseteq {"POST", "DELETE"} \X Calls 
        /\ failed \in [Calls -> BOOLEAN] /\ ctxDone \in [Calls -> BOOLEAN] /\ expired \in [Calls -> BOOLEAN]
    BY TypedFunctions DEF TypeOK
  <1> DEFINE RemoteTyped == /\ run' \in [Calls -> {"absent", "live", "stopping", "removed"} \cup Terminal]
                            /\ cause' \in [Calls -> {"none", "exit", "kill", "stop"}]
                            /\ late' \subseteq {"POST", "DELETE"} \X Calls
                            /\ crowded' \in [Calls -> BOOLEAN]
                            /\ disturbed' \in [Calls -> BOOLEAN]
                            /\ faulty' \in [Calls -> BOOLEAN]
             LocalTyped == /\ step' \in [Calls -> Active \cup {"idle", "returned"}]
                           /\ ret' \in [Calls -> {"none", "ok", "error", "timeout", "crash"}]
                           /\ entry' \in [Calls -> Calls \cup {NoRun}]
                           /\ output' \in [Calls -> Calls \cup {NoRun}]
                           /\ failed' \in [Calls -> BOOLEAN]
                           /\ ctxDone' \in [Calls -> BOOLEAN]
                           /\ expired' \in [Calls -> BOOLEAN]
  <1>2. RemoteTyped /\ LocalTyped => TypeOK'
    BY <1>0 DEF TypeOK
  <1>3. UNCHANGED <<manager, ghosts>> => RemoteTyped
    BY <1>1 DEF Functions
  <1>4. UNCHANGED <<step, ret, local>> => LocalTyped
    BY <1>1 DEF Functions
  <1>5. ASSUME NEW c \in Calls, \E from \in {"poll", "sleep", "logs"}, why \in {"error", "timeout"} :
                                   AwaitEnds(c, from, why), UNCHANGED faulty
        PROVE  RemoteTyped /\ LocalTyped
    BY <1>1, <1>5 DEF Functions, AwaitEnds, LeaveAwait
  <1>6. ASSUME NEW c \in Calls, \/ Execute(c) \/ SubmitRefused(c) \/ CtxDone(c) \/ Expire(c)
                                \/ LogsRead(c)
        PROVE  RemoteTyped /\ LocalTyped
    <2>1. CASE Execute(c) \/ SubmitRefused(c)
      BY <1>1, <2>1 DEF Functions, Execute, SubmitRefused
    <2>2. CASE CtxDone(c) \/ Expire(c)
      BY <1>1, <2>2 DEF Functions, CtxDone, Expire
    <2>3. CASE LogsRead(c)
      BY <1>1, <2>3 DEF Functions, LogsRead, Records
    <2> QED
      BY <1>6, <2>1, <2>2, <2>3
  <1>7. ASSUME NEW c \in Calls, PollTerminal(c) PROVE RemoteTyped /\ LocalTyped
    <2>1. RemoteTyped
      BY <1>3, <1>7 DEF PollTerminal
    <2>2. PICK r \in Records : Set(entry, c, r) /\ Set(failed, c, run[r] = "failed")
      BY <1>7 DEF PollTerminal
    <2>3. r \in Calls /\ (run[r] = "failed") \in BOOLEAN
      BY DEF Records
    <2>4. entry' \in [Calls -> Calls \cup {NoRun}] /\ failed' \in [Calls -> BOOLEAN]
      BY <1>1, <2>2, <2>3 DEF Functions
    <2>5. LocalTyped
      BY <1>1, <1>7, <2>4 DEF Functions, PollTerminal, LeaveAwait
    <2> QED
      BY <2>1, <2>5
  <1>8. ASSUME NEW c \in Calls, PollUnfinished(c) \/ Wake(c) PROVE RemoteTyped /\ LocalTyped
    <2>1. CASE \E from \in {"poll", "sleep", "logs"}, why \in {"error", "timeout"} : AwaitEnds(c, from, why)
      BY <1>5, <1>8, <2>1 DEF PollUnfinished, Wake
    <2>2. CASE /\ step' \in {[step EXCEPT ![c] = "poll"], [step EXCEPT ![c] = "sleep"]}
               /\ UNCHANGED <<manager, ret, local, crowded, disturbed, faulty>>
      BY <1>1, <2>2 DEF Functions
    <2> QED
      BY <1>8, <2>1, <2>2 DEF PollUnfinished, Wake
  <1>9. ASSUME NEW c \in Calls, PollAmbiguous(c) \/ PollFails(c) \/ LogsFail(c)
        PROVE  RemoteTyped /\ LocalTyped
    BY <1>5, <1>9 DEF PollAmbiguous, PollFails, LogsFail
  <1>10. ASSUME NEW c \in Calls, Create(c), late' \subseteq late, UNCHANGED faulty PROVE RemoteTyped
    <2>1. disturbed' \in [Calls -> BOOLEAN]
      BY <1>10 DEF Create, Disturb
    <2>2. crowded' \in [Calls -> BOOLEAN]
      BY <1>1, <1>10 DEF Create, Functions
    <2> QED
      BY <1>1, <1>10, <2>1, <2>2 DEF Create, Functions
  <1>11. ASSUME NEW c \in Calls, Delete(c), late' \subseteq late, UNCHANGED <<faulty, crowded>>
         PROVE  RemoteTyped
    <2>1. disturbed' \in [Calls -> BOOLEAN]
      <3>1. disturbed' = disturbed \/ Disturb(c)
        BY <1>11 DEF Delete
      <3>2. Disturb(c) => disturbed' \in [Calls -> BOOLEAN]
        BY DEF Disturb
      <3> QED
        BY <1>1, <3>1, <3>2 DEF Functions
    <2>2. run' \in [Calls -> {"absent", "live", "stopping", "removed"} \cup Terminal]
      BY <1>1, <1>11 DEF Delete, Functions
    <2>3. cause' \in [Calls -> {"none", "exit", "kill", "stop"}]
      BY <1>1, <1>11 DEF Delete, Functions
    <2> QED
      BY <1>1, <1>11, <2>1, <2>2, <2>3 DEF Functions
  <1>12. ASSUME NEW c \in Calls, NEW kind \in {"POST", "DELETE"}, Unanswered(kind, c) PROVE RemoteTyped
    BY <1>1, <1>12 DEF Unanswered, Functions
  <1>13. ASSUME NEW c \in Calls, SubmitAccepted(c) \/ StopAnswered(c) PROVE RemoteTyped /\ LocalTyped
    <2>1. RemoteTyped
      BY <1>10, <1>11, <1>13 DEF SubmitAccepted, StopAnswered
    <2>2. LocalTyped
      BY <1>1, <1>13 DEF SubmitAccepted, StopAnswered, Functions
    <2> QED
      BY <2>1, <2>2
  <1>14. ASSUME NEW c \in Calls, SubmitFails(c) \/ StopFails(c) \/ Crash(c) PROVE RemoteTyped /\ LocalTyped
    <2>1. RemoteTyped
      BY <1>3, <1>12, <1>14 DEF SubmitFails, StopFails, Crash
    <2>2. CASE SubmitFails(c) \/ StopFails(c)
      <3>1. LocalTyped
        BY <1>1, <2>2 DEF SubmitFails, StopFails, Functions
      <3> QED
        BY <2>1, <3>1
    <2>3. CASE Crash(c)
      <3>1. LocalTyped
        BY <1>1, <2>3 DEF Crash, LeaveAwait, Functions
      <3> QED
        BY <2>1, <3>1
    <2> QED
      BY <1>14, <2>2, <2>3
  <1>15. ASSUME NEW c \in Calls, LateRequest(c) PROVE RemoteTyped /\ LocalTyped
    BY <1>4, <1>10, <1>11, <1>15 DEF LateRequest
  <1>16. ASSUME NEW r \in Calls, RunEnds(r) PROVE RemoteTyped /\ LocalTyped
    <2>1. LocalTyped
      BY <1>4, <1>16 DEF RunEnds
    <2>2. RemoteTyped
      BY <1>1, <1>16 DEF RunEnds, Functions
    <2> QED
      BY <2>1, <2>2
  <1>17. CASE UNCHANGED vars
    <2>1. UNCHANGED <<manager, ghosts>> /\ UNCHANGED <<step, ret, local>>
      BY <1>17 DEF vars
    <2>2. RemoteTyped
      BY <1>1, <2>1 DEF Functions
    <2>3. LocalTyped
      BY <1>1, <2>1 DEF Functions
    <2> QED
      BY <1>2, <2>2, <2>3
  <1> HIDE DEF RemoteTyped, LocalTyped
  <1> QED
    BY <1>2, <1>3, <1>4, <1>6, <1>7, <1>8, <1>9, <1>13, <1>14, <1>15, <1>16, <1>17, Zenon
       DEF Next, CallStep

----------------------------------------------------------------------------

\* Before any call there is nothing to know.
LEMMA InitHolds == Init => IInv
  <1> SUFFICES ASSUME Init PROVE IInv
    OBVIOUS
  <1>1. TypeOK
    BY DEF Init, TypeOK, Active
  <1>2. \A c \in Calls : LateOf(c) /\ StepOf(c)
    BY DEF Init, LateOf, StepOf
  <1>3. \A c \in Calls : OwnOf(c) /\ AloneOf(c)
    BY DEF Init, OwnOf, AloneOf
  <1> QED
    BY <1>1, <1>2, <1>3 DEF IInv, CallOf

\* Types and what is known of the calls are inductive together.
LEMMA StepHolds == IInv /\ [Next]_vars => IInv'
  <1> SUFFICES ASSUME IInv, [Next]_vars PROVE IInv'
    OBVIOUS
  <1>1. TypeOK /\ \A c \in Calls : CallOf(c)
    BY DEF IInv
  <1>2. \A c \in Calls : CallOf(c)'
    BY <1>1, CallStepHolds
  <1>3. \A c \in Calls : StepOf(c) /\ StepOf(c)'
    BY <1>1, <1>2 DEF CallOf
  <1>4. TypeOK'
    BY <1>1, <1>3, TypeStep
  <1> QED
    BY <1>2, <1>4 DEF IInv

\* The calls and the manager's records fit together in every reachable state.
THEOREM Invariance == Spec => []IInv
  BY InitHolds, StepHolds, PTL DEF Spec

\* Type correctness: a call that returns a result has a verdict and logs.
THEOREM TypeCorrect == Spec => []TypeOK
  BY Invariance, PTL DEF IInv

\* An undisturbed call returns the result of its own container.
THEOREM ResultIsOwnHolds == Spec => []ResultIsOwn
  <1>1. IInv => ResultIsOwn
    BY DEF IInv, CallOf, OwnOf, ResultIsOwn
  <1> QED
    BY <1>1, Invariance, PTL

\* An undisturbed call whose requests were answered leaves nothing running.
THEOREM CleansUpHolds == Spec => []CleansUp
  <1>1. IInv => CleansUp
    <2> SUFFICES ASSUME IInv, NEW c \in Calls, step[c] = "returned", ret[c] # "crash",
                        ~(crowded[c] \/ disturbed[c] \/ faulty[c])
                 PROVE  run[c] \in IF ret[c] = "ok" THEN {"removed"}
                                   ELSE {"absent", "stopping", "failed", "removed"}
      BY Zenon DEF CleansUp
    <2> QED
      BY DEF IInv, CallOf, AloneOf
  <1> QED
    BY <1>1, Invariance, PTL

=============================================================================
