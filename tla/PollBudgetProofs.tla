-------------------------- MODULE PollBudgetProofs --------------------------
(***************************************************************************)
(* Theorems about PollBudget: the polling of awaitTerminal keeps to its    *)
(* budget for all settings that the configuration accepts, all answers     *)
(* within the client's timeout and every moment the run may end.           *)
(***************************************************************************)
EXTENDS PollBudget, TLAPS

\* Where the loop is bounds the clock: a poll is sent at most a timer's
\* lateness after the deadline, and the loop sleeps only before it.
Clock ==
    /\ pc = "poll" => now <= budget + MaxLate
    /\ pc = "sleep" => now < budget

\* Every sleep but the last lasted a whole interval.
Pace ==
    /\ pc = "poll" => /\ (polls - 1) * interval < budget
                      /\ polls * interval <= now \/ now >= budget
    /\ pc = "sleep" => (polls - 1) * interval <= now

\* A derived poll timeout has its margin.
Derived == pc \in Running /\ derived => budget = task + Margin

\* Nothing has happened before the settings are loaded.
AtStart == pc = "load" => now = 0 /\ polls = 0

\* The inductive invariant.
IInv ==
    /\ TypeOK
    /\ AtStart
    /\ Clock
    /\ Pace
    /\ Derived
    /\ ReturnsInTime
    /\ FinishedRunIsSeen
    /\ PollsBounded

----------------------------------------------------------------------------

\* The answers and the sleeps are natural numbers within their bounds.
LEMMA TimeTypes ==
    /\ \A a \in Answers : /\ a.processed \in Nat /\ a.arrived \in Nat
                          /\ a.processed <= a.arrived /\ a.arrived <= HTTPTimeout
    /\ \A late \in Lateness : late \in Nat /\ late <= MaxLate
    /\ HTTPTimeout \in Nat /\ MaxLate \in Nat
  BY TimesAssumption

\* One more sleep of a whole interval is one more interval.
LEMMA OneMore ==
    ASSUME NEW n \in Int, NEW i \in Int
    PROVE  /\ (n + 1) * i = n * i + i
           /\ (n - 1) * i = n * i - i
  OBVIOUS

\* A budget and the lateness of a timer are not negative together.
LEMMA PositiveSum == \A b \in Int, late \in Nat : b > 0 => 0 <= b + late
  <1> SUFFICES ASSUME NEW b \in Int, NEW late \in Int, b > 0, late >= 0
               PROVE  0 <= b + late
    OBVIOUS
  <1> QED
    OBVIOUS

\* A fresh configuration satisfies the invariant.
LEMMA InitHolds == Init => IInv
  <1> SUFFICES ASSUME Init PROVE IInv
    OBVIOUS
  <1>1. /\ task \in Int /\ interval \in Int /\ budget \in Int /\ end \in Nat
        /\ derived = FALSE /\ pc = "load" /\ now = 0 /\ polls = 0
    BY SettingsAssumption, TimesAssumption DEF Init
  <1>2. pc \notin Running
    BY <1>1 DEF Running
  <1>3. TypeOK
    BY <1>1, <1>2 DEF TypeOK
  <1> QED
    BY <1>1, <1>2, <1>3 DEF IInv, AtStart, Clock, Pace, Derived, ReturnsInTime,
                            FinishedRunIsSeen, PollsBounded

\* Loading: the budget is derived or taken, and polling starts at time zero.
LEMMA LoadStep == ASSUME IInv, Load PROVE IInv'
  <1>1. /\ task' = task /\ interval' = interval /\ now' = 0 /\ polls' = 0 /\ end' = end
        /\ task \in Int /\ interval \in Int /\ end \in Nat
    BY DEF IInv, TypeOK, AtStart, Load
  <1>2. derived' \in BOOLEAN /\ budget' \in Int
    BY DEF IInv, TypeOK, Load, Margin, Second
  <1>3. CASE Valid(budget')
    <2>1. pc' = "poll" /\ task > 0 /\ interval > 0 /\ budget' >= task
      BY <1>3 DEF Load, Valid
    <2>2. derived' => budget' = task + Margin
      BY DEF Load
    <2>3. budget' > 0 /\ pc' \in Running
      BY <1>1, <1>2, <2>1 DEF Running
    <2>4. TypeOK'
      BY <1>1, <1>2, <2>1, <2>3 DEF TypeOK
    <2>5. /\ Clock'
          /\ AtStart' /\ ReturnsInTime' /\ FinishedRunIsSeen'
      <3>1. now' <= budget' + MaxLate
        BY <1>1, <1>2, <2>3, TimeTypes, PositiveSum, Zenon
      <3>2. Clock'
        BY <3>1, <2>1 DEF Clock
      <3> QED
        BY <3>2, <2>1 DEF AtStart, ReturnsInTime, FinishedRunIsSeen
    <2>6. /\ (polls' - 1) * interval' = 0 - interval
          /\ (polls' - 2) * interval' = 0 - (interval + interval)
          /\ polls' * interval' = 0
      BY <1>1
    <2>7. Pace' /\ PollsBounded'
      BY <1>1, <1>2, <2>1, <2>3, <2>6 DEF Pace, PollsBounded
    <2>8. Derived'
      BY <1>1, <2>2 DEF Derived, Margin
    <2> QED
      BY <2>4, <2>5, <2>7, <2>8 DEF IInv
  <1>4. CASE ~Valid(budget')
    <2>1. pc' = "rejected"
      BY <1>4 DEF Load
    <2> QED
      BY <1>1, <1>2, <2>1
         DEF IInv, TypeOK, AtStart, Clock, Pace, Derived, ReturnsInTime, FinishedRunIsSeen,
             PollsBounded, Running
  <1> QED
    BY <1>3, <1>4

\* Polling: the answer is seen, or the deadline has passed, or the loop sleeps.
LEMMA PollStep == ASSUME IInv, NEW a \in Answers, Poll(a) PROVE IInv'
  <1> DEFINE p == a.processed
             d == a.arrived
  <1>1. /\ p \in Nat /\ d \in Nat /\ p <= d /\ d <= HTTPTimeout
        /\ HTTPTimeout \in Nat /\ MaxLate \in Nat
    BY TimeTypes
  <1>2. /\ pc = "poll" /\ polls' = polls + 1 /\ now' = now + d
        /\ pc' = IF end <= now + p THEN "terminal"
                 ELSE IF now' >= budget THEN "timeout" ELSE "sleep"
        /\ task' = task /\ interval' = interval /\ budget' = budget
        /\ derived' = derived /\ end' = end
    BY DEF Poll, settings
  <1>3. /\ task \in Int /\ interval \in Int /\ budget \in Int /\ now \in Nat
        /\ polls \in Nat /\ end \in Nat /\ derived \in BOOLEAN
        /\ task > 0 /\ interval > 0 /\ budget > 0 /\ now <= budget + MaxLate
    BY <1>2 DEF IInv, TypeOK, Clock, Running
  <1>4. pc' \in {"terminal", "timeout", "sleep"}
    BY <1>2
  <1>5. TypeOK'
    BY <1>1, <1>2, <1>3, <1>4 DEF TypeOK, Running
  <1>6. Clock'
    BY <1>1, <1>2, <1>3, <1>4 DEF Clock
  <1>7. (polls - 1) * interval < budget /\ (polls * interval <= now \/ now >= budget)
    BY <1>2 DEF IInv, Pace
  <1>8. /\ (polls' - 1) * interval' = polls * interval
        /\ (polls' - 2) * interval' = (polls - 1) * interval
    <2>1. polls' - 1 = polls /\ polls' - 2 = polls - 1
      BY <1>2, <1>3
    <2> QED
      BY <2>1, <1>2
  <1>9. Pace'
    <2> SUFFICES ASSUME pc' = "sleep" PROVE (polls' - 1) * interval' <= now'
      BY <1>4 DEF Pace
    <2>1. now' < budget
      BY <1>1, <1>2, <1>3
    <2>2. polls * interval <= now
      BY <2>1, <1>1, <1>2, <1>3, <1>7
    <2>3. polls * interval \in Int
      BY <1>3
    <2> QED
      BY <2>2, <2>3, <1>1, <1>2, <1>3, <1>8
  <1>10. PollsBounded'
    BY <1>2, <1>7, <1>8 DEF PollsBounded
  <1>11. Derived'
    BY <1>2 DEF IInv, Derived, Margin, Running
  <1>12. ReturnsInTime'
    BY <1>1, <1>2, <1>3 DEF ReturnsInTime
  <1>13. FinishedRunIsSeen'
    BY <1>1, <1>2, <1>3 DEF FinishedRunIsSeen
  <1> QED
    BY <1>2, <1>5, <1>6, <1>9, <1>10, <1>11, <1>12, <1>13 DEF IInv, AtStart

\* Sleeping: until the next poll is due, or until the deadline.
LEMMA SleepStep == ASSUME IInv, NEW late \in Lateness, Sleep(late) PROVE IInv'
  <1>1. late \in Nat /\ late <= MaxLate /\ MaxLate \in Nat
    BY TimeTypes
  <1>2. /\ pc = "sleep" /\ pc' = "poll" /\ now' = now + Wait + late
        /\ task' = task /\ interval' = interval /\ budget' = budget
        /\ derived' = derived /\ end' = end /\ polls' = polls
    BY DEF Sleep, settings
  <1>3. /\ task \in Int /\ interval \in Int /\ budget \in Int /\ now \in Nat
        /\ polls \in Nat /\ end \in Nat /\ derived \in BOOLEAN
        /\ task > 0 /\ interval > 0 /\ budget > 0 /\ now < budget
    BY <1>2 DEF IInv, TypeOK, Clock, Running
  <1>4. /\ Wait \in Nat /\ now + Wait <= budget
        /\ (now + interval < budget /\ Wait = interval) \/ now + Wait = budget
    BY <1>3 DEF Wait
  <1>5. TypeOK'
    BY <1>1, <1>2, <1>3, <1>4 DEF TypeOK, Running
  <1>6. Clock'
    BY <1>1, <1>2, <1>3, <1>4 DEF Clock
  <1>7. (polls - 1) * interval <= now
    BY <1>2 DEF IInv, Pace
  <1>8. /\ (polls - 1) * interval = polls * interval - interval
        /\ polls * interval \in Int
    BY <1>3, OneMore
  <1>9. Pace'
    <2>1. (polls - 1) * interval < budget
      BY <1>3, <1>7, <1>8
    <2>2. polls * interval <= now' \/ now' >= budget
      BY <1>1, <1>2, <1>3, <1>4, <1>7, <1>8
    <2> QED
      BY <2>1, <2>2, <1>2 DEF Pace
  <1>10. PollsBounded'
    <2>1. (polls - 2) * interval < budget
      BY <1>2 DEF IInv, PollsBounded, Running
    <2> QED
      BY <2>1, <1>2 DEF PollsBounded
  <1>11. Derived'
    BY <1>2 DEF IInv, Derived, Margin, Running
  <1>12. ReturnsInTime' /\ FinishedRunIsSeen'
    BY <1>2 DEF ReturnsInTime, FinishedRunIsSeen
  <1> QED
    BY <1>2, <1>5, <1>6, <1>9, <1>10, <1>11, <1>12 DEF IInv, AtStart

\* Every step keeps the invariant.
LEMMA StepHolds == IInv /\ [Next]_vars => IInv'
  <1> SUFFICES ASSUME IInv, [Next]_vars PROVE IInv'
    OBVIOUS
  <1>1. CASE Load
    BY <1>1, LoadStep
  <1>2. CASE \E a \in Answers : Poll(a)
    BY <1>2, PollStep
  <1>3. CASE \E late \in Lateness : Sleep(late)
    BY <1>3, SleepStep
  <1>4. CASE UNCHANGED vars
    BY <1>4 DEF vars, settings, IInv, TypeOK, AtStart, Clock, Pace, Derived, ReturnsInTime,
                FinishedRunIsSeen, PollsBounded, Running
  <1> QED
    BY <1>1, <1>2, <1>3, <1>4 DEF Next

\* The inductive invariant holds in every reachable state.
THEOREM Invariance == Spec => []IInv
  BY InitHolds, StepHolds, PTL DEF Spec

\* The settings that polling works with are positive, and the clock is a number.
THEOREM TypeCorrect == Spec => []TypeOK
  BY Invariance, PTL DEF IInv

\* awaitTerminal keeps its caller no longer than the budget and one request.
THEOREM ReturnsInTimeHolds == Spec => []ReturnsInTime
  BY Invariance, PTL DEF IInv

\* awaitTerminal overlooks no run that ended a request's time before the deadline.
THEOREM FinishedRunIsSeenHolds == Spec => []FinishedRunIsSeen
  BY Invariance, PTL DEF IInv

\* awaitTerminal sends no more polls than the budget has intervals, and two.
THEOREM PollsBoundedHolds == Spec => []PollsBounded
  BY Invariance, PTL DEF IInv

\* Rounding the kill timeout up costs less than a second.
LEMMA RoundingUp == ASSUME TypeOK PROVE KillAfter < task + Second
  BY DEF TypeOK, KillAfter, Second

\* The margin of the derived poll timeout covers rounding and the last answer.
THEOREM DefaultOutlastsKillHolds == Spec => []DefaultOutlastsKill
  <1>1. IInv => DefaultOutlastsKill
    <2> SUFFICES ASSUME IInv, pc = "timeout", derived
                 PROVE  end > KillAfter + (Margin - Second - HTTPTimeout)
      BY DEF DefaultOutlastsKill
    <2>1. end > budget - HTTPTimeout /\ budget = task + Margin
      BY DEF IInv, FinishedRunIsSeen, Derived, Running
    <2>2. KillAfter < task + Second /\ KillAfter \in Int
      BY RoundingUp DEF IInv, TypeOK, KillAfter, Second
    <2>3. task \in Int /\ end \in Nat /\ HTTPTimeout \in Nat
      BY TimeTypes DEF IInv, TypeOK
    <2> QED
      BY <2>1, <2>2, <2>3 DEF Margin, Second
  <1> QED
    BY <1>1, Invariance, PTL
=============================================================================
