# Formal models of the remote code execution service

TLA+ models of the Go service in this repository: a server that accepts code
submissions over HTTP, a durable RabbitMQ queue, and processors that run the
submissions as containers on the Philharmonic orchestrator and store the
results in Postgres.  The models are checked with TLC on small instances, and
the theorems of `*Proofs.tla` are proved with TLAPS for every instance.

## 1. The system

| Component | Source | State | Operations | Talks to |
|---|---|---|---|---|
| Task service | `internal/service/task.go`, `handlers/task.go` | none of its own; the `tasks` rows | `Submit`, `Status`, `Result` | Postgres (`SaveTask`, `GetTask`), publisher |
| Publisher | `repository/queue/publisher.go` | cached connection and channel, mutex | `Publish`, `Close` | RabbitMQ |
| Consumer | `repository/queue/consumer.go`, `queue.go` | one broker session, the delivery in `handle` | `Consume`: dial, select, `handle`, `ack`, `nack`, reconnect | RabbitMQ, the handler |
| Processor's handler | `cmd/processor/main.go:72-79` | none | execute, then `SaveTaskResult` | executor, Postgres |
| Executor | `service/philharmonic.go`, labelled by `service/metrics.go` | none between calls; containers and records in the orchestrator | `Execute`: submit, poll, logs, stop | Philharmonic manager (HTTP) |
| Accounts | `service/user.go`, `handlers/user.go`, `middleware.go`, `getOwnedTask` in `service/task.go` | `users` rows, Redis sessions, the user id in a request's context | `Register`, `Login`, `Authenticate`, the ownership of tasks | Postgres, Redis |
| Configuration | `internal/config/*.go` | none | read, default, validate | |
| Programs | `cmd/*/main.go`, `controller/server.go`, `controller/metrics.go`, `postgres/migrate.go`, `WaitReady`, `PreWarm` | phase of `main`, open clients, HTTP servers, the context | migrate, wait, listen, drain, close, exit | all of the above |

A submission becomes a row `in_progress`, then a message.  A processor takes
the message, asks the orchestrator to run the code under the name
`run-<task id>`, polls until the run is terminal, reads its logs, removes the
record, writes the row `ready` with the result, and acknowledges the message.
The client polls the row.

What is hard, and where a unit test hardly gets:

* **Redelivery.** Every end of a broker session returns unsettled messages
  with the redelivered flag, while `handle` may still be running.  Tasks are
  then executed twice, one after the other or at the same time, and the flag
  that decides between requeue and drop is not only set by failures.
* **Partial failure.** Each task crosses Postgres, RabbitMQ, the orchestrator
  and Postgres again, with a possible crash or lost answer between any two.
* **Retries on a shared name.** Attempts of a task share one orchestrator
  name, and their cleanup may fail, be late, or be incomplete.
* **Stale sessions.** The publisher caches a session that may be dead, and
  publishes without confirms.
* **Two ways to end.**  `log.Fatalf` in either goroutine ends a program at once,
  whatever the other is doing; only a drain that ends in time reaches the deferred
  closes.
* **Races between requests.** Registrations of one login race between lookup
  and insert, sessions expire under the requests they let in, and a statement
  that failed for its caller may have been committed.

`PROJECT.json` lists these hazards line by line with the properties aimed at
them.

## 2. The modules

```
TaskLifecycle  <--implements--  CodeService  --EXTENDS-->  TaskQueue  --implements-->  WorkQueue
Publisher  --implements-->  CodeService (its requests)     Accounts  --implements-->  Directory
PhilharmonicExecutor (inside of CodeService!Execute)       Accounts (who asks, around CodeService!Submit and Poll)
PollBudget (inside of PhilharmonicExecutor!Expire)         Programs (where jobs of the others begin, and may be cut off)

AttemptsProofs  --EXTENDS-->  TaskQueueProofs  --EXTENDS-->  TaskQueue
CodeServiceProofs  --EXTENDS-->  TaskQueueProofs and CodeService
ExecutorProofs, PublisherProofs, AccountsProofs, PollBudgetProofs, ProgramsProofs: each of its module
```

**TaskQueue** – the queue and its processors (`consumer.go`, `queue.go`).
`pc[p]` is the place in `Consume`; `session[p]` the broker session, which may be
`lost` without the processor knowing; `buffer[p]` the deliveries in the client
library; `current[p]` the delivery in `handle`.  `LoopTop`, `Connect`,
`ConnectFails` and `WaitReconnect` are the outer loop, `SessionEnds` and
`Receive` the two cases of the `select`, `DropMalformed`, `StartHandler`,
`HandlerSucceeds` and `HandlerFails` the paths through `handle`.  `Deliver`,
`Requeue` and `SessionLost` are the broker.  `Cancel`, `Crash` and `Restart` are
the process.  A settlement on a lost session has no effect (`Ack`, `Nack`): the
code logs the error and goes on.  After a loss, buffered deliveries may still be
handled, and `select` may prefer any ready case.

**WorkQueue** – the contract of `TaskConsumer` (`port.go:51-57`), without sessions,
buffers, flags or deliveries: a message is unsent, open, done or dropped; a worker tries
one at a time, and an open message has at most one owner, whose verdict counts; it is
final, and without faults a message is tried at most twice and dropped only after the
second try.  A fault may take the message from its owner, who goes on without knowing;
what such a worker finds changes nothing.  `TaskQueue` implements it (`QueueSpec`): `Publish`
is `Accept`, `DropMalformed` is `Reject`, `StartHandler` is `Try`, `HandlerSucceeds` and
`HandlerFails` are `Succeed` and `Fail`, whatever counts as a fault is `Fault`, and the
rest is hidden.  The owners are the processors in `handle` whose session is open.

**CodeService** – a task from `POST /task` to its result.  It extends
`TaskQueue`: `Submit`, `SaveTask`, `Republish`, `PublishSucceeds` and `PublishFails`
are the server, `BeginTask`, `Execute`, `SaveTaskResult` and `EndTask` refine the
handler that `TaskQueue` leaves open (`BeginTask` and `EndTask` take
`StartHandler`, `HandlerSucceeds` and `HandlerFails` as they are), `Poll` is the
client.  `Ids` are tasks and `TaskOf` says which task a message carries: `Publish`
writes again when its first write failed, which may have got through, so one task may
have two messages, each redelivered, dropped and executed on its own.  A database
statement that reports an error may have been committed, and so may a submission the
client was told has failed.  `TaskLifecycle` is the abstract promise about a row;
`LifecycleSpec` says `CodeService` implements it.

**PhilharmonicExecutor** – several calls of `Execute` for one task.  `run[c]` is
the container submitted by call `c`, `Records` what the manager lists under the
name, `late` the requests whose sender gave up and that may still be processed.
`step[c]` follows `Execute` through `submit`, `awaitTerminal` (`poll`, `sleep`),
`logs` and `stop`; each request may be refused, fail, or get no answer.  One task is enough: names of different tasks differ and every
request addresses a name.

**Publisher** – concurrent calls of `Publish` around the mutex and the cached
session: `EnsureReady` dials when there is none, `WriteFails` resets and goes on to the
single retry, `RewriteFails` resets and returns the error, `Close` is the server's.
It implements what `CodeService` says of publishing (`PublishesForService`): each call is
a request of a service without processors, its row being saved while it waits for the
mutex.  A write is `Republish`, `PublishSucceeds` or `PublishFails` there, and mutex, dials
and session are hidden.

**Accounts** – concurrent requests, each database or Redis statement a step of its
own: `RegisterLookup`, `SaveUser`, `RegisterReread`; `LoginLookup`, `CreateSession`;
`Authenticate` and then `Submit`, `Status` or `Result`.  `EnterGroup` is the router's
group behind the middleware.  `sessions[r]` is what Redis holds for the token that
login `r` was given, `user[r]` what the middleware put into the context, `owner[r]` the
user id in the row of the task `r` submitted.  `Expire` is the TTL.

**Directory** – what the HTTP interface promises about users and their tasks: one
password per login, a token stands for a login, and each request is answered in one step.
`Accounts` implements it (`DirectorySpec`).  A registration takes effect where its row is
inserted (`SaveUser`) or where it reads the row that was there first, a login where
it looks the account up, though its token is given out later.

**PollBudget** – one `awaitTerminal` on a clock, with the settings as
`LoadPhilharmonicConfig` reads, derives and validates them (`config/philharmonic.go`).
`Load` is the configuration, `Poll` a request with the decision after it, `Sleep` the
`select`.  `end` is when the run becomes terminal in the manager; answers are
processed and arrive some time after the request, within the client's timeout, and
timers may be late.  It is the quantitative side of `Expire` and `PollUnfinished` in
`PhilharmonicExecutor`.

**Programs** – the server and the processors as processes.  `phase[p]` is where
`main` is: `Migrate`, `Connect`, `OpenSessions` are the server's start-up,
`Connect`, `WaitReady`, `PreWarm` a processor's, each with its failure.  `http[p]` are
the HTTP servers (`Api.Start` and `MetricsServer.Start`, which are alike), the
metrics one in a goroutine of its own: `Listen`, `ListenFails`, `StartFails`,
`Shutdown`, `ShutdownReturns`, `ShutdownTimesOut`.  `open[p]` are the clients with a
deferred `Close`.  `jobs[p]` are the requests or the delivery the program works on.
`Stop` is the end of the process, by `log.Fatalf`, return of `main`, or crash.

`MC*.tla` give the constants model values and symmetry sets.  Operators whose
comment starts with "Mutated form of" are plausible wrong versions of the
definition after them; no specification uses them.  They exist so that every
checked property is known to fail on some wrong code.

### External parts

* RabbitMQ: any end of a session requeues what the session had not settled, with
  the redelivered flag; settled messages are gone; the queue is durable.
* Philharmonic: modelled from how `philharmonic.go` uses it (lines 92, 223, 290,
  313): DELETE on a live run stops it, DELETE on a stopping or ended one removes
  the record, DELETE of several records hits one of them; POST of an existing
  name may be accepted or refused.
* Docker (`docker-compose.yml`): a program that ends is started again unless it was
  stopped; a signal is a stop.
* net/http: `Shutdown` returns when no connection is active, and requests may still
  come on connections accepted before.
* Postgres and Redis: single statements are atomic; a failing statement may have
  been committed; a key disappears after its TTL.

## 3. The runs

| Run | Instance | What it shows |
|---|---|---|
| `task_queue_safety` | 2 processors, 2 tasks and a malformed message, prefetch 2, 2 faults | each message in one place; nothing forgotten; settlement only for a reason; at most two attempts plus one per fault; refinement of `WorkQueue`, hence one owner at a time and settlement for good |
| `task_queue_live` | 2 processors, a task and a malformed message, prefetch 1, 2 faults | every message is settled while a processor runs; a signalled processor stops |
| `task_queue_drop` | 1 processor, 2 tasks, 1 fault | *violation*: a task dropped on its first failure |
| `executor` | 2 calls | a returned result is the call's own, also when an old record is still there; cleanup; `Execute` returns |
| `executor_name` | 2 calls | *violation*: the name of a retry is not unique |
| `executor_label` | 2 calls | *violation*: a killed run is labelled `failure` |
| `poll_budget` | 3 task timeouts, 3 intervals, 4 poll timeouts (unset, too short, equal, longer), answers of 0 or 10 s, 6 moments for the run to end | `awaitTerminal` returns within budget and one request, overlooks no run that ended in time, does not flood the manager, and with the derived budget outlasts the kill |
| `code_service_safety` | 2 processors, a task with two messages, a malformed message, prefetch 1, 1 fault | no message before its row, none acknowledged before its result; together only after a lost session or a duplicating retry; a result replaced only for a reason; the client's view never goes back; refinement of `TaskLifecycle` |
| `code_service_live` | 2 processors, a task with two messages, 1 fault | an accepted task becomes ready, or all its messages were lost or dropped |
| `publisher` | 3 calls, 3 faults | errors only for faults of the call itself; duplicates bounded; refinement of the requests of `CodeService`; no call waits for ever |
| `accounts` | 6 requests (two registrations, a login, a login or third registration, a submission, a question), 2 logins, 2 passwords | whoever is told of a registration can log in; a task stays with its login through every session, and is unknown to others; refinement of `Directory`, hence accounts never change hands |
| `programs` | server, 1 processor, 2 jobs, 2 faults | nothing served without schema or clients; jobs cut off only by faults, failed listeners and drain timeouts; a signal stops, and start-up succeeds in the end |

**Bounds.** `MaxFaults` bounds failed dials, lost sessions, crashes and signals
(`TaskQueue`), broken sessions and failed dials (`Publisher`), or crashes, failed
start-up steps and failed listeners (`Programs`, where two hit both programs, or one
of them in two stages).  In the queue two faults are what a task needs to be executed by two processors and dropped, and three break
both writes of a call and the dial of the next.  Two processors are what the
concurrent cases need, prefetch 2 makes one delivery wait behind another, and a
second task makes two messages compete.  Two calls of `Execute` are an attempt
and its repetition, which is all the code allows a failing task without faults.
In `CodeService` a task with two messages on two processors is the case where
executions of one task meet; tasks do not interact otherwise.  The two logins of
`accounts` are the owner of a task and a stranger, and its two sessions may belong to
one login; `MayAsk` says what each of the six requests may ask: the first registration and
the first login concern `l1`, the others either login, and every password is tried.  `attempts`, `result` and `sent` are
bounded by the other bounds.  The theorems need none of these bounds.

**Deadlock** is checked in `programs` only (a program can always be started again).
Elsewhere (`CHECK_DEADLOCK FALSE`) the programs stop after a
signal, every call and request is made once, and faults are bounded, so that
each model really ends.

**Fairness.** `TaskQueue` and `CodeService` assume weak fairness of what a running
processor does: `Execute` returns (that is `ExecuteReturns`, and every request has
a timeout), timers fire, and a dial that no fault hits succeeds; and that the
broker pushes messages to sessions with room.  Nothing is assumed of faults,
restarts, publishers or clients, nor that a handler succeeds, nor that `select`
prefers the context.  `PhilharmonicExecutor` assumes that a call keeps executing
and that its deadline passes, and nothing of the manager.  `Publisher` assumes that
the holder of the mutex goes on, and strong fairness of `Lock`, since `sync.Mutex`
starves no waiter.  `Programs` assumes that goroutines go on, timers fire, Docker
restarts and handlers return; requests of clients may take for ever.  The return of
`Consume` after a signal is strongly fair: Go's `select` chooses at random, and a
session buffers few deliveries (`ShutdownCompletes` is this in detail).

## 4. What disagrees with the documentation

1. `port.go:52` and `consumer.go:86` say a message is dropped when it failed
   before.  The code asks `d.Redelivered`, which is also set when the message came
   back for another reason: a broken connection, a shutdown of a processor with
   buffered deliveries, a crash.  (`task_queue_drop`)
2. `philharmonic.go:73` calls the name unique per orchestrator.  A retry reuses it
   while the record of the first attempt may remain: cleanup of a live run only
   stops it, and cleanup may fail or never run.  (`executor_name`)
3. `metrics.go:17` says `timeout` counts tasks killed by the execution timeout.  A
   killed run is terminal and `Failed`, hence counted as `failure`; `timeout` counts
   calls that ran out of poll budget.  (`executor_label`)

A smaller one has no run: `config/philharmonic.go:85` says the poll timeout must exceed
the task timeout, and the condition before it accepts equality.  The settings of
`poll_budget` include that case.

A comment that the models contradict only in passing: `service/task.go:57` takes the
row that a failed `Publish` leaves behind for one that stays `in_progress`.  The write
that failed may have reached the broker, and then the task is executed and its row
becomes ready although its client was told of a failure (`PublishFails` with `Write`).

## 5. What is proved

Every invariant and action property of the passing runs is a theorem of its
specification, for any sets of processors, messages, tasks, calls, requests, logins
and jobs, any prefetch, settings and number of faults; so are the four refinements, of
`TaskLifecycle`, `WorkQueue`, `Directory` and the publishing in `CodeService`.  The assumptions are the named ASSUMEs of the modules: malformed
messages are messages, prefetch is positive (`config/queue.go:52`), each task's message
carries an id, null values are no real ones.  `ConcurrentOnlyAfterLoss`, `SettledForGood` and
`AccountIsKept` are theorems without a run of their own, since the refinements that the
runs check exclude what they exclude.  Each module of proofs defines an inductive
invariant, shows it of the initial state and of every action, and concludes the
properties from it.

**TaskQueueProofs**: `TypeOK`, `OnePlace`, `UnackedIsHeld`, `SettledForAReason`,
`ConcurrentOnlyAfterLoss`, `SettledForGood`.  `OnePlace` needs `UnackedIsHeld`: that a
settlement hits a message of this session's own is what keeps it from settling one that
waits in the queue.  `UnackedIsHeld` needs `HeldOnce`: a session never holds two
deliveries of one message, otherwise settling one would leave the other owed.
`SettledForAReason` needs `FlagsKnown`: a delivery that carries the flag belongs to a
message the broker has marked.  All need `PhaseInv`: a processor that is not consuming
or handling has no session, and has a current delivery exactly while it handles.

**AttemptsProofs**: `AttemptsBounded`, by counting.  `Left(m, k)` says that the place
of a message lets the handler be started `k` more times (twice for a new message, once
for a flagged one), `Stale(m)` are the processors that still have it buffered from a
broken session.  `Counted`: tries made, stale ones and tries left are together at most
two plus the faults.  A start moves one unit from the second or third term to the first,
and only a fault adds to the sum.

The same module proves that `TaskQueue` implements `WorkQueue` (`ImplementsWorkQueue`).  This needs
`QueueInv` besides: what a processor holds was published (`HeldIsAccepted`), and before the
first fault no session breaks and nobody is signalled, so that every handler owns its
message, and a flag means an earlier try (`Calm`).  One lemma per action gives the step it maps to.  `OwnedOnce` is the crux: when
a handler starts under an open session no other owner has the message, because both
would owe it to the broker and `OnePlace` forbids that.  `WorkQueue`'s bound on tries is
`AttemptsBounded`, and its guard on drops is where `Calm` is needed: without faults the
redelivered flag of `consumer.go:102` really means a second try.

**CodeServiceProofs**: `ServiceTypeOK`, `RowBeforeMessage`, `AckedIsReady`,
`TogetherForAReason`, `WrittenOnce`, `SeenAdvances`, `LifecycleSpec`.  Every step of the
service is a step of the queue or leaves it alone (`QueueStep`), so the queue's
invariant carries over.  The service's adds `RequestKnown` (what a request's progress
says of its row), `HandlerKnown` (a handler that will report success has stored its
result), `ReadyKnown`, and for `WrittenOnce` `QuietKnown` and `WriterKnown`: without
faults a stored result belongs to a message that is acknowledged or still with the
processor that wrote it.

**ExecutorProofs**: `TypeOK`, `ResultIsOwn`, `CleansUp`.  For each call: a request is
late only when its call is over (`LateOf`), what its step says it knows (`StepOf`), that
its container lives undisturbed until its own cleanup (`OwnOf`), and that it is then the
only record if it was at the start (`AloneOf`).  The only record of the name that is
terminal must be the call's own, because the call's own is there.

**PublisherProofs**: `TypeOK`, `FailsOnlyWhenHit`, `SentOnceUnlessHit`, from
`RetryIsFresh` (a retry starts from no session, so that one it finds broken broke under
it) and `SentSoFar`.  `PublishesForService` follows from the same invariant: `SentSoFar` says
that the n-th write of a call sends a message that is not in the queue yet (`CopySent`),
which is what makes a step of a call a step of its request.

**AccountsProofs**: `TypeOK`, `RegisteredCanLogin`, `AccountIsKept`,
`TasksStayWithOwner`.  A user id is the registration that made it, hence names one login
(`AccountsKnown`); a session holds the id of the login it was issued for
(`SessionsKnown`); what the middleware put into the context is that of the token, also
after the session expired (`ContextKnown`); a row has the id of its submission
(`OwnersKnown`); answers were decided by these (`AnswersKnown`).  For `DirectorySpec`
(`ImplementsDirectory`) it adds that a request that has not come in has asked nothing
(`IdleKnown`): a registration that lost the race finds a password that
cannot have changed since, a login's token is given to whoever matched it,
and a task is found exactly by its login although the code compares user ids.

**PollBudgetProofs**: `TypeOK`, `ReturnsInTime`, `FinishedRunIsSeen`, `PollsBounded`,
`DefaultOutlastsKill`, assuming only that answers take at most `HTTPTimeout` and timers
are at most `MaxLate` late.  The invariant adds `Clock` (a poll is sent at most a timer's
lateness after the deadline, a sleep begins only before it), `Pace` (every sleep but the
last took a whole interval: this is what bounds the polls), `Derived` and `AtStart`.

**ProgramsProofs**: `TypeOK`, `ServedOnSchema`, `ServedWithClients`, `CutForAReason`.
None is inductive: a job tells nothing about schema or clients unless it is known where
`main` is.  The invariant says so: `Working` (jobs run only while `main` serves, requests
only between the API's first connection and the end of its drain), `Migrated` and
`Equipped` (what the phase says of schema and clients), `ApiRuns` (an API that is on
belongs to a server that serves) and `DrainsOnSignal`.

Only model-checked is liveness, since fairness and `ENABLED` are beyond the prover:
`EventuallySettled`, `ShutdownCompletes`, `EventuallyReady`, `ExecuteReturns`,
`PublishReturns`, `SignalStops` and `EventuallyUp`; and the three disagreements of
section 4, which are counterexamples.

## 6. Not modelled

* JSON, password hashing, and the reading of settings other than the time-outs hold no
  state that a property is about; a password is what its hash matches.
* Routing appears only as far as it decides what lies behind the middleware
  (`EnterGroup`); the metrics collector in front of the routes, counters and their
  exposition belong to libraries.
* `UpdateTaskStatus`, `DeleteSession` and `GetUserByID` are never called.  (The first
  appears in a mutated form: what `BeginTask` would break if it were.)
* The sandbox image's scripts, the deployment and the generated API documentation are not
  programs of this service.
* Inside one execution, the orchestrator's scheduling and resource limits; in the broker,
  the order of the queue, which no property depends on.
* Time is modelled in `PollBudget` only; elsewhere a time-out may strike at any moment,
  which allows more than the code does.

## 7. What is left

`CodeService!Execute` and `PhilharmonicExecutor` meet only by what they assume of each
other: an execution that returns a result or fails, and calls for one task that may
overlap or follow each other.  A composition of the two would show stale records and
requeues in one run; its state space is beyond the bounds used here.  With one task singled out,
it would carry one more theorem: without faults, duplicates and late requests, the stored
result is that of the execution's own container.

`PollBudget` is not a refinement of `PhilharmonicExecutor` step by step: one timed poll
contains both the end of the run, which is the manager's step there, and the answer that
reports it.
