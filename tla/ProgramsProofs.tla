--------------------------- MODULE ProgramsProofs ---------------------------
(***************************************************************************)
(* Theorems about Programs: for any number of processors, jobs and faults, *)
(* jobs run only on a migrated schema and with open clients, and are cut   *)
(* off only for a reason.                                                  *)
(***************************************************************************)
EXTENDS Programs, TLAPS

\* How far main has come tells whether the schema is there.
Migrated ==
    /\ phase[Server] \notin {"down", "migrate"} => schema
    /\ \A p \in Processors : phase[p] \in {"prewarm", "serving", "closing"} => schema

\* The API belongs to the server, and runs while main waits in Api.Start.
ApiRuns ==
    /\ \A p \in Processors : http[p]["api"] = "off"
    /\ http[Server]["api"] \notin {"off", "closed"} => phase[Server] = "serving"

\* Jobs run while main waits for their end: requests only once the API has
\* listened, and until its drain has ended.
Working ==
    /\ \A p \in Programs : jobs[p] # {} => phase[p] = "serving"
    /\ jobs[Server] # {} => http[Server]["api"] \in {"listening", "broken", "draining"}

\* main serves with all of its clients.
Equipped == \A p \in Programs : phase[p] = "serving" => open[p] = Clients(p)

\* Only a signal begins a drain.
DrainsOnSignal ==
    \A p \in Programs, e \in Endpoints : http[p][e] = "draining" => signalled[p]

IInv ==
    /\ TypeOK
    /\ Migrated
    /\ ApiRuns
    /\ Working
    /\ Equipped
    /\ DrainsOnSignal

----------------------------------------------------------------------------

\* No HTTP server runs in a program that is down.
LEMMA OffIsOff ==
    /\ Off \in [Endpoints -> {"off", "starting", "listening", "unbound", "broken",
                              "draining", "closed"}]
    /\ \A e \in Endpoints : Off[e] = "off"
  BY DEF Off

\* The programs are down at first.
LEMMA InitHolds == Init => IInv
  <1> SUFFICES ASSUME Init PROVE IInv
    OBVIOUS
  <1> USE DEF Init
  <1>1. \A p \in Programs, e \in Endpoints : http[p][e] = "off"
    BY OffIsOff
  <1>2. TypeOK
    <2>1. http \in [Programs -> [Endpoints -> {"off", "starting", "listening", "unbound",
                                               "broken", "draining", "closed"}]]
      BY OffIsOff
    <2>2. faults \in 0 .. MaxFaults
      BY MaxFaultsAssumption
    <2>3. \A p \in Programs : jobs[p] = {}
      OBVIOUS
    <2> QED
      BY <1>1, <2>1, <2>2, <2>3 DEF TypeOK
  <1>3. Server \in Programs /\ Processors \subseteq Programs /\ "api" \in Endpoints
    BY DEF Programs, Endpoints
  <1> QED
    BY <1>1, <1>2, <1>3 DEF IInv, Migrated, ApiRuns, Working, Equipped, DrainsOnSignal

\* A program that ends has nothing left to keep, and leaves the others alone.
LEMMA StopKeeps ==
  ASSUME IInv, NEW p \in Programs, Stop(p), schema' \in {schema, TRUE},
         faults' \in 0 .. MaxFaults
  PROVE  IInv'
  <1> USE DEF IInv
  <1>1. \A q \in Programs :
           /\ q = p => /\ phase'[q] = "down" /\ jobs'[q] = {} /\ open'[q] = {}
                       /\ \A e \in Endpoints : http'[q][e] = "off"
           /\ q # p => /\ phase'[q] = phase[q] /\ jobs'[q] = jobs[q] /\ open'[q] = open[q]
                       /\ http'[q] = http[q]
    BY OffIsOff DEF TypeOK, Stop
  <1>2. signalled' = signalled /\ (schema => schema')
    BY DEF Stop, TypeOK
  <1>3. TypeOK'
    <2>1. /\ schema' \in BOOLEAN /\ signalled' \in [Programs -> BOOLEAN]
          /\ faults' \in 0 .. MaxFaults
          /\ phase' \in [Programs -> StartingUp \cup {"serving", "closing", "down"}]
          /\ open' \in [Programs -> SUBSET DOMAIN Opened]
          /\ jobs' \in [Programs -> SUBSET Jobs]
      BY DEF Stop, TypeOK
    <2>2. http' \in [Programs -> [Endpoints -> {"off", "starting", "listening", "unbound",
                                                "broken", "draining", "closed"}]]
      BY OffIsOff DEF Stop, TypeOK
    <2>3. \A q \in Programs : phase'[q] \in StartingUp \cup {"down"} =>
             jobs'[q] = {} /\ \A e \in Endpoints : http'[q][e] = "off"
      BY <1>1 DEF TypeOK
    <2> QED
      BY <2>1, <2>2, <2>3 DEF TypeOK
  <1>4. Server \in Programs /\ Processors \subseteq Programs /\ "api" \in Endpoints
    BY DEF Programs, Endpoints
  <1> QED
    BY <1>1, <1>2, <1>3, <1>4 DEF Migrated, ApiRuns, Working, Equipped, DrainsOnSignal

\* A signal only cancels the context.
LEMMA SignalStep == ASSUME IInv, NEW p \in Programs, Signal(p) PROVE IInv'
  BY ServerAssumption
  DEF Signal, IInv, TypeOK, Migrated, ApiRuns, Working, Equipped, DrainsOnSignal,
      Programs, Endpoints, Off, StartingUp, Opened, Clients

\* A fresh process has a fresh context.
LEMMA BeginStep == ASSUME IInv, NEW p \in Programs, Begin(p) PROVE IInv'
  BY ServerAssumption
  DEF Begin, Goto, IInv, TypeOK, Migrated, ApiRuns, Working, Equipped, DrainsOnSignal,
      Programs, Endpoints, Off, StartingUp, Opened, Clients

\* Start-up of the server: the schema, then the clients, then the API.
LEMMA ServeStep ==
  ASSUME IInv, NEW p \in Programs, NEW from \in {"sessions", "prewarm"}, Serve(p, from),
         p = Server <=> from = "sessions"
  PROVE  IInv'
  BY ServerAssumption
  DEF Serve, Goto, IInv, TypeOK, Migrated, ApiRuns, Working, Equipped, DrainsOnSignal,
      Programs, Endpoints, Off, StartingUp, Opened, Clients

\* A failing start-up ends the program; nothing else changes but the schema.
LEMMA FailSteps ==
  ASSUME IInv,
         \/ MigrateFails
         \/ \E p \in Programs : PingFails(p) \/ WaitFails(p) \/ Crash(p)
  PROVE  IInv'
  <1>1. Server \in Programs
    BY DEF Programs
  <1>2. schema' \in {schema, TRUE} /\ \E p \in Programs : Stop(p)
    BY <1>1 DEF MigrateFails, PingFails, WaitFails, Crash
  <1>3. Fault \/ UNCHANGED faults
    BY DEF MigrateFails, PingFails, WaitFails, Crash, FaultOr
  <1>4. faults' \in 0 .. MaxFaults
    BY <1>3, MaxFaultsAssumption DEF Fault, IInv, TypeOK
  <1> QED
    BY <1>2, <1>4, StopKeeps

\* Start-up, one step after the other.
LEMMA StartStepKeeps == ASSUME IInv, NEW p \in Programs, StartStep(p) PROVE IInv'
  <1>1. CASE p = Server /\ Migrate
    BY <1>1, ServerAssumption
    DEF Migrate, Goto, IInv, TypeOK, Migrated, ApiRuns, Working, Equipped, DrainsOnSignal,
      Programs, Endpoints, Off, StartingUp, Opened, Clients
  <1>2. CASE Connect(p)
    <2>1. open' \in [Programs -> SUBSET DOMAIN Opened]
      BY <1>2 DEF Connect, IInv, TypeOK, Opened
    <2>2. /\ phase[p] = "connect"
          /\ phase' = [phase EXCEPT ![p] = IF p = Server THEN "sessions" ELSE "wait"]
          /\ UNCHANGED <<schema, signalled, http, jobs, faults>>
      BY <1>2 DEF Connect, Goto
    <2>3. \A q \in Programs : q # p => phase'[q] = phase[q] /\ open'[q] = open[q]
      BY <1>2, <2>2 DEF Connect, IInv, TypeOK
    <2>4. phase'[p] = IF p = Server THEN "sessions" ELSE "wait"
      BY <2>2 DEF IInv, TypeOK
    <2>5. TypeOK'
      BY <2>1, <2>2, <2>3, <2>4 DEF IInv, TypeOK, StartingUp
    <2>6. Migrated' /\ ApiRuns' /\ Working'
      BY <2>2, <2>3, <2>4, ServerAssumption
      DEF IInv, TypeOK, Migrated, ApiRuns, Working, Programs, Endpoints, StartingUp
    <2>7. Equipped' /\ DrainsOnSignal'
      BY <2>2, <2>3, <2>4 DEF IInv, Equipped, DrainsOnSignal, Clients
    <2> QED
      BY <2>5, <2>6, <2>7 DEF IInv
  <1>3. CASE p \in Processors /\ WaitReady(p)
    BY <1>3, ServerAssumption
    DEF WaitReady, Goto, IInv, TypeOK, Migrated, ApiRuns, Working, Equipped, DrainsOnSignal,
      Programs, Endpoints, Off, StartingUp, Opened, Clients
  <1>4. CASE p = Server /\ OpenSessions
    BY <1>4, ServeStep DEF OpenSessions
  <1>5. CASE p \in Processors /\ PreWarm(p)
    BY <1>5, ServeStep, ServerAssumption DEF PreWarm
  <1>6. CASE (p = Server /\ MigrateFails) \/ PingFails(p) \/ (p \in Processors /\ WaitFails(p))
    BY <1>6, FailSteps
  <1> QED
    BY <1>1, <1>2, <1>3, <1>4, <1>5, <1>6 DEF StartStep

\* The HTTP servers.
LEMMA ListenKeeps ==
  ASSUME IInv, NEW p \in Programs, NEW e \in Endpoints, Listen(p, e) \/ ListenFails(p, e)
  PROVE  IInv'
  <1>1. faults' \in 0 .. MaxFaults
    BY MaxFaultsAssumption DEF Listen, ListenFails, Fault, IInv, TypeOK
  <1>2. CASE Listen(p, e)
    BY <1>1, <1>2, ServerAssumption
    DEF Listen, IInv, TypeOK, Migrated, ApiRuns, Working, Equipped, DrainsOnSignal,
      Programs, Endpoints, Off, StartingUp, Opened, Clients
  <1>3. CASE ListenFails(p, e)
    BY <1>1, <1>3, ServerAssumption
    DEF ListenFails, IInv, TypeOK, Migrated, ApiRuns, Working, Equipped, DrainsOnSignal,
      Programs, Endpoints, Off, StartingUp, Opened, Clients
  <1> QED
    BY <1>2, <1>3

LEMMA ShutdownKeeps ==
  ASSUME IInv, NEW p \in Programs, NEW e \in Endpoints,
         Shutdown(p, e) \/ ShutdownReturns(p, e)
  PROVE  IInv'
  <1>1. CASE Shutdown(p, e)
    BY <1>1, ServerAssumption
    DEF Shutdown, Returned, IInv, TypeOK, Migrated, ApiRuns, Working, Equipped, DrainsOnSignal,
      Programs, Endpoints, Off, StartingUp, Opened, Clients
  <1>2. CASE ShutdownReturns(p, e)
    BY <1>2, ServerAssumption
    DEF ShutdownReturns, Returned, IInv, TypeOK, Migrated, ApiRuns, Working, Equipped, DrainsOnSignal,
      Programs, Endpoints, Off, StartingUp, Opened, Clients
  <1> QED
    BY <1>1, <1>2

\* What ends a program without a fault.
LEMMA EndKeeps ==
  ASSUME IInv, NEW p \in Programs, NEW e \in Endpoints,
         StartFails(p, e) \/ ShutdownTimesOut(p, e) \/ Exit(p)
  PROVE  IInv'
  <1>1. /\ Stop(p) /\ schema' \in {schema, TRUE}
        /\ faults' \in 0 .. MaxFaults
    BY DEF StartFails, ShutdownTimesOut, Exit, IInv, TypeOK
  <1> QED
    BY <1>1, StopKeeps

LEMMA HttpStepKeeps ==
  ASSUME IInv, NEW p \in Programs, NEW e \in Endpoints, HttpStep(p, e) \/ ListenFails(p, e)
  PROVE  IInv'
  BY ListenKeeps, ShutdownKeeps, EndKeeps DEF HttpStep

\* Jobs begin and end.
LEMMA JobSteps ==
  ASSUME IInv, NEW j \in Jobs,
         \/ Request(j)
         \/ \E p \in Processors : Receive(p, j)
         \/ \E p \in Programs : JobEnds(p, j)
  PROVE  IInv'
  <1>1. CASE Request(j)
    BY <1>1, ServerAssumption
    DEF Request, IInv, TypeOK, Migrated, ApiRuns, Working, Equipped, DrainsOnSignal,
      Programs, Endpoints, Off, StartingUp, Opened, Clients
  <1>2. ASSUME NEW p \in Processors, Receive(p, j) PROVE IInv'
    BY <1>2, ServerAssumption
    DEF Receive, IInv, TypeOK, Migrated, ApiRuns, Working, Equipped, DrainsOnSignal,
      Programs, Endpoints, Off, StartingUp, Opened, Clients
  <1>3. ASSUME NEW p \in Programs, JobEnds(p, j) PROVE IInv'
    BY <1>3, ServerAssumption
    DEF JobEnds, IInv, TypeOK, Migrated, ApiRuns, Working, Equipped, DrainsOnSignal,
      Programs, Endpoints, Off, StartingUp, Opened, Clients
  <1> QED
    BY <1>1, <1>2, <1>3

\* main ends.
LEMMA CloseKeeps == ASSUME IInv, NEW p \in Programs, CloseStep(p) PROVE IInv'
  <1>1. ASSUME NEW c \in DOMAIN Opened, Close(p, c) PROVE IInv'
    BY <1>1, ServerAssumption
    DEF Close, IInv, TypeOK, Migrated, ApiRuns, Working, Equipped, DrainsOnSignal,
      Programs, Endpoints, Off, StartingUp, Opened, Clients
  <1>2. CASE Exit(p)
    BY <1>2, EndKeeps DEF Endpoints
  <1> QED
    BY <1>1, <1>2 DEF CloseStep

LEMMA ConsumeReturnsKeeps == ASSUME IInv, NEW p \in Processors, ConsumeReturns(p) PROVE IInv'
  BY ServerAssumption
  DEF ConsumeReturns, Goto, IInv, TypeOK, Migrated, ApiRuns, Working, Equipped, DrainsOnSignal,
      Programs, Endpoints, Off, StartingUp, Opened, Clients

\* The invariant is inductive.
LEMMA NextKeeps == ASSUME IInv, [Next]_vars PROVE IInv'
  <1>1. CASE UNCHANGED vars
    BY <1>1 DEF vars, IInv, TypeOK, Migrated, ApiRuns, Working, Equipped, DrainsOnSignal
  <1>2. ASSUME NEW p \in Programs, Signal(p) PROVE IInv'
    BY <1>2, SignalStep
  <1>3. ASSUME NEW p \in Programs, Crash(p) PROVE IInv'
    BY <1>3, FailSteps
  <1>4. ASSUME NEW p \in Programs, Restart(p) \/ Launch(p) PROVE IInv'
    BY <1>4, BeginStep DEF Restart, Launch
  <1>5. ASSUME NEW p \in Programs, StartStep(p) \/ CloseStep(p) PROVE IInv'
    BY <1>5, StartStepKeeps, CloseKeeps
  <1>6. ASSUME NEW p \in Programs, NEW e \in Endpoints, HttpStep(p, e) \/ ListenFails(p, e)
        PROVE IInv'
    BY <1>6, HttpStepKeeps
  <1>7. ASSUME NEW j \in Jobs,
               \/ Request(j)
               \/ \E p \in Processors : Receive(p, j)
               \/ \E p \in Programs : JobEnds(p, j)
        PROVE IInv'
    BY <1>7, JobSteps
  <1>8. ASSUME NEW p \in Processors, ConsumeReturns(p) PROVE IInv'
    BY <1>8, ConsumeReturnsKeeps
  <1> QED
    BY <1>1, <1>2, <1>3, <1>4, <1>5, <1>6, <1>7, <1>8 DEF Next

\* The phases of main, the HTTP servers, the clients and the jobs fit together
\* in every reachable state.
THEOREM Invariance == Spec => []IInv
  <1>1. IInv /\ [Next]_vars => IInv'
    BY NextKeeps
  <1> QED
    BY <1>1, InitHolds, PTL DEF Spec

THEOREM TypeCorrect == Spec => []TypeOK
  <1>1. IInv => TypeOK
    BY DEF IInv
  <1> QED
    BY <1>1, Invariance, PTL

\* Neither requests nor deliveries are worked on before the migration.
THEOREM ServedOnSchemaHolds == Spec => []ServedOnSchema
  <1>1. IInv => ServedOnSchema
    BY DEF IInv, Working, Migrated, ServedOnSchema, Programs
  <1> QED
    BY <1>1, Invariance, PTL

\* No job sees a client that is not open yet, or closed already.
THEOREM ServedWithClientsHolds == Spec => []ServedWithClients
  <1>1. IInv => ServedWithClients
    BY DEF IInv, Working, Equipped, ServedWithClients
  <1> QED
    BY <1>1, Invariance, PTL

\* A running program with jobs ends only by a fault, a failed listener, or the
\* timeout of a drain that a signal began.
THEOREM CutForAReasonHolds == Spec => CutForAReason
  <1> DEFINE Reason(p) ==
        \/ faults' > faults
        \/ \E e \in Endpoints : \/ http[p][e] \in {"unbound", "broken"}
                                \/ http[p][e] = "draining" /\ signalled[p]
  <1>1. ASSUME IInv, [Next]_vars, NEW p \in Programs,
               jobs[p] # {}, phase[p] # "down", phase'[p] = "down"
        PROVE  Reason(p)
    <2>1. phase[p] = "serving"
      BY <1>1 DEF IInv, Working
    <2>2. faults \in Nat /\ phase \in [Programs -> StartingUp \cup {"serving", "closing", "down"}]
      BY <1>1, MaxFaultsAssumption DEF IInv, TypeOK
    <2>3. ASSUME NEW q \in Programs, Stop(q) PROVE q = p
      BY <1>1, <2>2, <2>3 DEF Stop
    <2>4. ASSUME Fault PROVE Reason(p)
      BY <2>2, <2>4 DEF Fault
    <2>5. ASSUME NEW q \in Programs, Crash(q) PROVE Reason(p)
      BY <2>4, <2>5 DEF Crash
    <2>6. ASSUME NEW q \in Programs, StartStep(q) \/ CloseStep(q) PROVE Reason(p)
      <3>1. Server \in Programs
        BY DEF Programs
      <3>2. ASSUME NEW r \in Programs, Stop(r), phase[r] # "serving" PROVE FALSE
        BY <2>1, <2>3, <3>2
      <3>3. CASE MigrateFails \/ PingFails(q) \/ WaitFails(q) \/ Exit(q)
        BY <3>1, <3>2, <3>3 DEF MigrateFails, PingFails, WaitFails, Exit
      <3>4. CASE Migrate \/ OpenSessions \/ Connect(q) \/ WaitReady(q) \/ PreWarm(q)
        BY <1>1, <2>1, <2>2, <3>1, <3>4
        DEF Migrate, OpenSessions, Connect, WaitReady, PreWarm, Serve, Goto
      <3>5. CASE \E c \in DOMAIN Opened : Close(q, c)
        BY <1>1, <3>5 DEF Close
      <3> QED
        BY <2>6, <3>3, <3>4, <3>5 DEF StartStep, CloseStep
    <2>7. ASSUME NEW q \in Programs, NEW e \in Endpoints, HttpStep(q, e) \/ ListenFails(q, e)
          PROVE Reason(p)
      <3>1. CASE StartFails(q, e)
        BY <2>3, <3>1 DEF StartFails
      <3>2. CASE ShutdownTimesOut(q, e)
        BY <1>1, <2>3, <3>2 DEF ShutdownTimesOut, IInv, DrainsOnSignal
      <3>3. CASE Listen(q, e) \/ ListenFails(q, e)
        BY <1>1, <3>3 DEF Listen, ListenFails
      <3>4. CASE Shutdown(q, e) \/ ShutdownReturns(q, e)
        BY <1>1, <2>1, <2>2, <3>4 DEF Shutdown, ShutdownReturns, Returned
      <3> QED
        BY <2>7, <3>1, <3>2, <3>3, <3>4 DEF HttpStep
    <2>8. CASE UNCHANGED vars
      BY <1>1, <2>8 DEF vars
    <2>9. ASSUME NEW q \in Programs, Signal(q) \/ Restart(q) \/ Launch(q) PROVE Reason(p)
      BY <1>1, <2>1, <2>2, <2>9 DEF Signal, Restart, Launch, Begin, Goto
    <2>10. ASSUME NEW j \in Jobs, NEW q \in Programs,
                  Request(j) \/ Receive(q, j) \/ JobEnds(q, j)
           PROVE Reason(p)
      BY <1>1, <2>10 DEF Request, Receive, JobEnds
    <2>11. ASSUME NEW q \in Processors, ConsumeReturns(q) PROVE Reason(p)
      BY <1>1, <2>1, <2>2, <2>11 DEF ConsumeReturns, Goto, Programs
    <2> QED
      BY <1>1, <2>5, <2>6, <2>7, <2>8, <2>9, <2>10, <2>11 DEF Next, Programs
  <1>2. IInv /\ [Next]_vars =>
           [\A p \in Programs : jobs[p] # {} /\ phase[p] # "down" /\ phase'[p] = "down" =>
               Reason(p)]_vars
    BY <1>1
  <1> QED
    BY <1>2, Invariance, PTL DEF Spec, CutForAReason
=============================================================================
