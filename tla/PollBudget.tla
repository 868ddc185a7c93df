----------------------------- MODULE PollBudget -----------------------------
(***************************************************************************)
(* The time budget of one execution: the settings read by                  *)
(* LoadPhilharmonicConfig, and the polling of awaitTerminal under them     *)
(* (internal/config/philharmonic.go, internal/service/philharmonic.go).    *)
(*                                                                         *)
(* Times are milliseconds since awaitTerminal was called; arithmetic is    *)
(* exact, the settings being far from the limits of time.Duration.  The    *)
(* orchestrator is external: the run becomes terminal at some moment, and  *)
(* a poll is processed and answered some time after it was sent, within    *)
(* the HTTP client's timeout (polls that fail end the call at once; see    *)
(* PhilharmonicExecutor).                                                  *)
(***************************************************************************)
EXTENDS Integers

CONSTANTS
    TaskTimeouts,    \* values of PHILHARMONIC_TASK_TIMEOUT
    PollIntervals,   \* values of PHILHARMONIC_POLL_INTERVAL
    PollTimeouts,    \* values of PHILHARMONIC_POLL_TIMEOUT, 0 when it is not set
    Answers,         \* how long after a poll was sent it is processed and answered
    Lateness,        \* how much longer than asked a sleep may last
    Ends,            \* when the run may become terminal
    HTTPTimeout,     \* bound on answers (phrmDefaultHTTPTimeout)
    MaxLate          \* bound on lateness

ASSUME SettingsAssumption ==
    TaskTimeouts \subseteq Int /\ PollIntervals \subseteq Int /\ PollTimeouts \subseteq Int
ASSUME TimesAssumption ==
    /\ HTTPTimeout \in Nat
    /\ MaxLate \in Nat
    /\ Ends \subseteq Nat
    /\ Lateness \subseteq 0 .. MaxLate
    /\ Answers \subseteq [processed : Nat, arrived : 0 .. HTTPTimeout]
    /\ \A a \in Answers : a.processed <= a.arrived

VARIABLES
    task,       \* cfg.TaskTimeout
    interval,   \* cfg.PollInterval
    budget,     \* cfg.PollTimeout
    derived,    \* the poll timeout was not set
    pc,         \* where loading and polling are
    now,
    polls,      \* polls sent
    end         \* when the run becomes terminal

settings == <<task, interval, budget, derived>>
vars == <<settings, pc, now, polls, end>>

Second == 1000
Margin == 15 * Second

Running == {"poll", "sleep", "terminal", "timeout"}

TypeOK ==
    /\ {task, interval, budget} \subseteq Int
    /\ derived \in BOOLEAN
    /\ pc \in {"load", "rejected"} \cup Running
    /\ now \in Nat
    /\ polls \in Nat
    /\ end \in Nat
    /\ pc \in Running => task > 0 /\ interval > 0 /\ budget > 0

Init ==
    /\ task \in TaskTimeouts
    /\ interval \in PollIntervals
    /\ budget \in PollTimeouts
    /\ derived = FALSE
    /\ pc = "load"
    /\ now = 0
    /\ polls = 0
    /\ end \in Ends

\* Mutated form of Valid: the interval is not looked at.
ValidAnyInterval(pollTimeout) == task > 0 /\ pollTimeout >= task

\* validatePhilharmonic, of the three settings that matter here.
Valid(pollTimeout) == task > 0 /\ interval > 0 /\ pollTimeout >= task

\* Mutated form of Load: the derived poll timeout leaves no margin.
LoadNoMargin ==
    /\ pc = "load"
    /\ derived' = (budget <= 0)
    /\ budget' = IF derived' THEN task ELSE budget
    /\ pc' = IF Valid(budget') THEN "poll" ELSE "rejected"
    /\ UNCHANGED <<task, interval, now, polls, end>>

\* LoadPhilharmonicConfig; a valid configuration goes on to awaitTerminal.
Load ==
    /\ pc = "load"
    /\ derived' = (budget <= 0)
    /\ budget' = IF derived' THEN task + Margin ELSE budget
    /\ pc' = IF Valid(budget') THEN "poll" ELSE "rejected"
    /\ UNCHANGED <<task, interval, now, polls, end>>

\* Mutated form of Poll: the deadline is looked at before the answer.
PollDeadlineFirst(a) ==
    /\ pc = "poll"
    /\ polls' = polls + 1
    /\ now' = now + a.arrived
    /\ pc' = IF now' >= budget THEN "timeout"
             ELSE IF end <= now + a.processed THEN "terminal" ELSE "sleep"
    /\ UNCHANGED <<settings, end>>

\* GET /tasks is sent, processed and answered: the run is terminal, or the
\* deadline has passed, or the loop goes on to sleep.
Poll(a) ==
    /\ pc = "poll"
    /\ polls' = polls + 1
    /\ now' = now + a.arrived
    /\ pc' = IF end <= now + a.processed THEN "terminal"
             ELSE IF now' >= budget THEN "timeout" ELSE "sleep"
    /\ UNCHANGED <<settings, end>>

\* Mutated form of Wait: the last sleep is not cut to the deadline.
WaitInterval == interval

\* How long the loop sleeps: the interval, or what is left of the budget.
Wait == IF budget - now > interval THEN interval ELSE budget - now

\* Mutated form of Sleep: the select has a default case.
SleepNot(late) ==
    /\ pc = "sleep"
    /\ pc' = "poll"
    /\ UNCHANGED <<settings, now, polls, end>>

Sleep(late) ==
    /\ pc = "sleep"
    /\ now' = now + Wait + late
    /\ pc' = "poll"
    /\ UNCHANGED <<settings, polls, end>>

Next ==
    \/ Load
    \/ \E a \in Answers : Poll(a)
    \/ \E late \in Lateness : Sleep(late)

Spec == Init /\ [][Next]_vars

----------------------------------------------------------------------------
(* Properties.                                                             *)

\* A processor is kept at most the poll timeout and one request by a run that
\* does not end (and as much as its timer was late).
ReturnsInTime ==
    pc \in {"terminal", "timeout"} => now <= budget + MaxLate + HTTPTimeout

\* awaitTerminal gives up only on a run that was still going a request's time
\* before the deadline: slow answers and cut sleeps hide no earlier end.
FinishedRunIsSeen == pc = "timeout" => end > budget - HTTPTimeout

\* The number of polls is bounded by the budget, whatever the answers take:
\* no sleep is cut short but the last one, so the manager is not flooded.
PollsBounded == pc \in Running => (polls - 2) * interval < budget

\* When the orchestrator kills a run: its Timeout is in whole seconds.
KillAfter == ((task + (Second - 1)) \div Second) * Second

\* With the derived poll timeout, a run killed by the orchestrator is not given
\* up, though the kill timeout was rounded up and the last answer may be slow,
\* as long as starting and killing it takes no more than what the margin of
\* 15 s leaves.
DefaultOutlastsKill ==
    pc = "timeout" /\ derived => end > KillAfter + (Margin - Second - HTTPTimeout)
=============================================================================
