------------------------------ MODULE Programs ------------------------------
(***************************************************************************)
(* The two programs as processes: cmd/server/main.go and                   *)
(* cmd/processor/main.go with the HTTP servers they start                  *)
(* (internal/controller/server.go and metrics.go), the migration, the      *)
(* clients they open and close, and the signal that stops them.            *)
(*                                                                         *)
(* A job is what a running program works on: a request at the server, a    *)
(* delivery in handle at a processor.  What jobs do is in CodeService and  *)
(* Accounts; here they only begin, end, or are cut off by an exit.         *)
(*                                                                         *)
(* log.Fatalf ends a program at once, in whichever goroutine it is called: *)
(* no deferred close runs, and no job finishes.                            *)
(***************************************************************************)
EXTENDS Naturals

CONSTANTS
    Server,       \* the program that migrates and answers requests
    Processors,   \* the programs that drain the queue
    Jobs,         \* slots for jobs
    MaxFaults     \* bound on crashes, failing listeners and failing start-ups

ASSUME ServerAssumption == Server \notin Processors
ASSUME MaxFaultsAssumption == MaxFaults \in Nat

Programs == {Server} \cup Processors

\* Every program exposes metrics; only the server has an API.
Endpoints == {"api", "metrics"}

Off == [e \in Endpoints |-> "off"]

\* The clients a program opens and closes, by the order it opens them in.
Opened == [db |-> 1, sessions |-> 2, publisher |-> 3]

Clients(p) == IF p = Server THEN DOMAIN Opened ELSE {"db"}

VARIABLES
    schema,      \* the tables exist
    phase,       \* where main is
    signalled,   \* ctx is cancelled; for a program that is down: stopped on purpose
    open,        \* clients with a deferred close
    http,        \* the HTTP servers of each program
    jobs,        \* jobs in progress
    faults       \* faults so far

vars == <<schema, phase, signalled, open, http, jobs, faults>>

StartingUp == {"migrate", "connect", "sessions", "wait", "prewarm"}

TypeOK ==
    /\ schema \in BOOLEAN
    /\ phase \in [Programs -> StartingUp \cup {"serving", "closing", "down"}]
    /\ signalled \in [Programs -> BOOLEAN]
    /\ open \in [Programs -> SUBSET DOMAIN Opened]
    /\ http \in [Programs -> [Endpoints ->
          {"off", "starting", "listening", "unbound", "broken", "draining", "closed"}]]
    /\ jobs \in [Programs -> SUBSET Jobs]
    /\ faults \in 0 .. MaxFaults
    /\ \A p \in Programs : phase[p] \in StartingUp \cup {"down"} =>
          /\ jobs[p] = {}
          /\ \A e \in Endpoints : http[p][e] = "off"

Init ==
    /\ schema = FALSE
    /\ phase = [p \in Programs |-> "down"]
    /\ signalled = [p \in Programs |-> FALSE]
    /\ open = [p \in Programs |-> {}]
    /\ http = [p \in Programs |-> Off]
    /\ jobs = [p \in Programs |-> {}]
    /\ faults = 0

Fault ==
    /\ faults < MaxFaults
    /\ faults' = faults + 1

\* Something fails, by a fault or for a cause of its own.
FaultOr(cause) == Fault \/ (cause /\ UNCHANGED faults)

Goto(p, from, to) == phase[p] = from /\ phase' = [phase EXCEPT ![p] = to]

\* The process ends: everything in it is gone.
Stop(p) ==
    /\ phase' = [phase EXCEPT ![p] = "down"]
    /\ open' = [open EXCEPT ![p] = {}]
    /\ http' = [http EXCEPT ![p] = Off]
    /\ jobs' = [jobs EXCEPT ![p] = {}]
    /\ UNCHANGED signalled

----------------------------------------------------------------------------
(* The outside: signals, crashes, and docker's restart: unless-stopped.    *)

Signal(p) ==
    /\ phase[p] # "down"
    /\ signalled' = [signalled EXCEPT ![p] = TRUE]
    /\ UNCHANGED <<schema, phase, open, http, jobs, faults>>

Crash(p) ==
    /\ phase[p] # "down"
    /\ Fault
    /\ Stop(p)
    /\ UNCHANGED schema

\* main up to its first step: settings, then a fresh context.
Begin(p) ==
    /\ Goto(p, "down", IF p = Server THEN "migrate" ELSE "connect")
    /\ signalled' = [signalled EXCEPT ![p] = FALSE]
    /\ UNCHANGED <<schema, open, http, jobs, faults>>

Restart(p) == ~signalled[p] /\ Begin(p)

Launch(p) == signalled[p] /\ Begin(p)

----------------------------------------------------------------------------
(* Start-up.  Every step may fail, and a cancelled context makes it fail.  *)

Migrate ==
    /\ Goto(Server, "migrate", "connect")
    /\ schema' = TRUE
    /\ UNCHANGED <<signalled, open, http, jobs, faults>>

\* A migration that reports an error may have been committed.
MigrateFails ==
    /\ phase[Server] = "migrate"
    /\ FaultOr(signalled[Server])
    /\ schema' \in {schema, TRUE}
    /\ Stop(Server)

\* Mutated form of Connect: the metrics goroutine starts with the first client.
ConnectMetricsFirst(p) ==
    /\ Goto(p, "connect", IF p = Server THEN "sessions" ELSE "wait")
    /\ open' = [open EXCEPT ![p] = {"db"}]
    /\ http' = [http EXCEPT ![p]["metrics"] = "starting"]
    /\ UNCHANGED <<schema, signalled, jobs, faults>>

\* postgres.New
Connect(p) ==
    /\ Goto(p, "connect", IF p = Server THEN "sessions" ELSE "wait")
    /\ open' = [open EXCEPT ![p] = {"db"}]
    /\ UNCHANGED <<schema, signalled, http, jobs, faults>>

\* postgres.New, redis.New: a ping fails.
PingFails(p) ==
    /\ phase[p] \in {"connect", "sessions"}
    /\ FaultOr(signalled[p])
    /\ Stop(p)
    /\ UNCHANGED schema

\* The program starts to work; the metrics server has a goroutine of its own.
Serve(p, from) ==
    /\ Goto(p, from, "serving")
    /\ open' = [open EXCEPT ![p] = Clients(p)]
    /\ http' = [http EXCEPT ![p] =
                    [e \in Endpoints |-> IF e = "api" /\ p # Server THEN "off" ELSE "starting"]]
    /\ UNCHANGED <<schema, signalled, jobs, faults>>

\* redis.New, the publisher, and the server's two HTTP servers
OpenSessions == Serve(Server, "sessions")

\* Mutated form of WaitReady: when the deadline passes it goes on.
WaitReadyGivesUp(p) ==
    /\ Goto(p, "wait", "prewarm")
    /\ UNCHANGED <<schema, signalled, open, http, jobs, faults>>

\* WaitReady finds the tables, whatever the deadline.
WaitReady(p) ==
    /\ schema
    /\ Goto(p, "wait", "prewarm")
    /\ UNCHANGED <<schema, signalled, open, http, jobs, faults>>

\* The minute is over: the tables are missing, or every query failed.
WaitFails(p) ==
    /\ phase[p] = "wait"
    /\ FaultOr(~schema \/ signalled[p])
    /\ Stop(p)
    /\ UNCHANGED schema

\* A pre-warm that fails is only logged.
PreWarm(p) == Serve(p, "prewarm")

StartStep(p) ==
    \/ p = Server /\ (Migrate \/ MigrateFails \/ OpenSessions)
    \/ Connect(p) \/ PingFails(p)
    \/ p \in Processors /\ (WaitReady(p) \/ WaitFails(p) \/ PreWarm(p))

----------------------------------------------------------------------------
(* The HTTP servers: Api.Start and MetricsServer.Start are alike.          *)

Listen(p, e) ==
    /\ http[p][e] = "starting"
    /\ http' = [http EXCEPT ![p][e] = "listening"]
    /\ UNCHANGED <<schema, phase, signalled, open, jobs, faults>>

\* The address is taken, or accepting fails later for good.
ListenFails(p, e) ==
    /\ http[p][e] \in {"starting", "listening"}
    /\ Fault
    /\ http' = [http EXCEPT ![p][e] = IF @ = "starting" THEN "unbound" ELSE "broken"]
    /\ UNCHANGED <<schema, phase, signalled, open, jobs>>

\* Mutated form of StartFails: the error is logged, and the program goes on.
StartFailsLogged(p, e) ==
    /\ http[p][e] \in {"unbound", "broken"}
    /\ http' = [http EXCEPT ![p][e] = "closed"]
    /\ UNCHANGED <<schema, phase, signalled, open, jobs, faults>>

\* select takes the listener's error: Start returns it, log.Fatalf
StartFails(p, e) ==
    /\ http[p][e] \in {"unbound", "broken"}
    /\ Stop(p)
    /\ UNCHANGED <<schema, faults>>

\* Start returns nil.  After the API's, main runs the deferred closes; the
\* goroutine of the metrics just ends.
Returned(p, e) ==
    /\ http' = [http EXCEPT ![p][e] = "closed"]
    /\ phase' = [phase EXCEPT ![p] = IF e = "api" THEN "closing" ELSE @]

\* select takes the context, even if the listener failed.  Shutdown returns at
\* once when there never was a connection.
Shutdown(p, e) ==
    /\ signalled[p]
    /\ \/ /\ http[p][e] \in {"listening", "broken"}
          /\ http' = [http EXCEPT ![p][e] = "draining"]
          /\ UNCHANGED phase
       \/ /\ http[p][e] \in {"starting", "unbound"}
          /\ Returned(p, e)
    /\ UNCHANGED <<schema, signalled, open, jobs, faults>>

\* Mutated form of ShutdownReturns: Close instead of Shutdown, which does not
\* wait for requests in progress.
ShutdownReturnsAtOnce(p, e) ==
    /\ http[p][e] = "draining"
    /\ Returned(p, e)
    /\ UNCHANGED <<schema, signalled, open, jobs, faults>>

\* No connection is active any more.
ShutdownReturns(p, e) ==
    /\ http[p][e] = "draining"
    /\ e = "api" => jobs[p] = {}
    /\ Returned(p, e)
    /\ UNCHANGED <<schema, signalled, open, jobs, faults>>

\* Mutated form of ShutdownTimesOut: Shutdown with a context without timeout.
ShutdownTimesOutNever(p, e) == FALSE /\ UNCHANGED vars

\* The timeout passes with a connection still there: log.Fatalf
ShutdownTimesOut(p, e) ==
    /\ http[p][e] = "draining"
    /\ Stop(p)
    /\ UNCHANGED <<schema, faults>>

HttpStep(p, e) ==
    \/ Listen(p, e) \/ StartFails(p, e)
    \/ Shutdown(p, e) \/ ShutdownReturns(p, e) \/ ShutdownTimesOut(p, e)

----------------------------------------------------------------------------
(* Work, and the end of main.                                              *)

\* A request arrives, perhaps on a connection accepted before the listener
\* failed or closed.
Request(j) ==
    /\ http[Server]["api"] \in {"listening", "broken", "draining"}
    /\ j \notin jobs[Server]
    /\ jobs' = [jobs EXCEPT ![Server] = @ \cup {j}]
    /\ UNCHANGED <<schema, phase, signalled, open, http, faults>>

\* Consume handles one delivery at a time; the select may still prefer a
\* delivery to the context.
Receive(p, j) ==
    /\ phase[p] = "serving"
    /\ jobs[p] = {}
    /\ jobs' = [jobs EXCEPT ![p] = {j}]
    /\ UNCHANGED <<schema, phase, signalled, open, http, faults>>

JobEnds(p, j) ==
    /\ j \in jobs[p]
    /\ jobs' = [jobs EXCEPT ![p] = @ \ {j}]
    /\ UNCHANGED <<schema, phase, signalled, open, http, faults>>

\* Mutated form of ConsumeReturns: deliveries are handled in the background.
ConsumeReturnsEarly(p) ==
    /\ signalled[p]
    /\ Goto(p, "serving", "closing")
    /\ UNCHANGED <<schema, signalled, open, http, jobs, faults>>

\* Consume returns nil, only for a cancelled context.
ConsumeReturns(p) ==
    /\ signalled[p]
    /\ jobs[p] = {}
    /\ Goto(p, "serving", "closing")
    /\ UNCHANGED <<schema, signalled, open, http, jobs, faults>>

\* The deferred closes run, the newest client first.
Close(p, c) ==
    /\ phase[p] = "closing"
    /\ c \in open[p]
    /\ \A d \in open[p] : Opened[d] <= Opened[c]
    /\ open' = [open EXCEPT ![p] = @ \ {c}]
    /\ UNCHANGED <<schema, phase, signalled, http, jobs, faults>>

\* main returns, and does not wait for the goroutine of the metrics.
Exit(p) ==
    /\ phase[p] = "closing"
    /\ open[p] = {}
    /\ Stop(p)
    /\ UNCHANGED <<schema, faults>>

CloseStep(p) == (\E c \in DOMAIN Opened : Close(p, c)) \/ Exit(p)

Next ==
    \/ \E p \in Programs :
          \/ Signal(p) \/ Crash(p) \/ Restart(p) \/ Launch(p)
          \/ StartStep(p) \/ CloseStep(p)
          \/ \E e \in Endpoints : HttpStep(p, e) \/ ListenFails(p, e)
          \/ \E j \in Jobs : JobEnds(p, j)
    \/ \E j \in Jobs : Request(j)
    \/ \E p \in Processors : ConsumeReturns(p) \/ \E j \in Jobs : Receive(p, j)

Spec == Init /\ [][Next]_vars

(***************************************************************************)
(* Fairness.  Running goroutines go on, timers fire, docker restarts what  *)
(* nobody stopped, and a processor's handler returns (ExecuteReturns; its  *)
(* context is cancelled by the signal).  Requests may take for ever.  The  *)
(* select of Consume is random, and a session buffers few deliveries:      *)
(* strong fairness of ConsumeReturns.                                      *)
(***************************************************************************)
FairSpec ==
    /\ Spec
    /\ \A p \in Programs :
          /\ WF_vars(Restart(p)) /\ WF_vars(StartStep(p)) /\ WF_vars(CloseStep(p))
          /\ \A e \in Endpoints : WF_vars(HttpStep(p, e))
    /\ \A p \in Processors :
          /\ SF_vars(ConsumeReturns(p))
          /\ WF_vars(\E j \in Jobs : JobEnds(p, j))

----------------------------------------------------------------------------
(* Properties.                                                             *)

\* Nothing is served before the schema is there: the server migrates first,
\* and the processors, which do not migrate, wait for it.
ServedOnSchema == \A p \in Programs : jobs[p] # {} => schema

\* Every job has all clients of its program until it ends: start-up opens them
\* before, and the deferred closes run after the last job, also when requests
\* still arrive while the API drains.
ServedWithClients == \A p \in Programs : jobs[p] # {} => open[p] = Clients(p)

\* A job is cut off only by a fault (a crash, or a listener that failed) or by
\* the timeout of a drain, hence never before a signal; and the metrics drain,
\* whose timeout is shorter, can cut off jobs of a healthy API or consumer.
CutForAReason ==
    [][\A p \in Programs : jobs[p] # {} /\ phase[p] # "down" /\ phase'[p] = "down" =>
          \/ faults' > faults
          \/ \E e \in Endpoints : \/ http[p][e] \in {"unbound", "broken"}
                                  \/ http[p][e] = "draining" /\ signalled[p]]_vars

\* A signal stops the program, whatever it is doing.
SignalStops == \A p \in Programs : signalled[p] ~> phase[p] = "down"

\* All of the program's HTTP servers listen, and it works.
Up(p) ==
    /\ phase[p] = "serving"
    /\ http[p]["metrics"] = "listening"
    /\ p = Server => http[p]["api"] = "listening"

\* However the programs start, fail and restart, and whether or not sandboxes
\* can be pre-warmed, each gets to work, unless it is stopped, or the server is
\* before it has migrated.
EventuallyUp ==
    \A p \in Programs :
        ~Up(p) ~> Up(p) \/ signalled[p] \/ (signalled[Server] /\ ~schema)
=============================================================================
