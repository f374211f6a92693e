------------------------------ MODULE JobTimer -------------------------------
(***************************************************************************)
(* When a job runs: job.schedule and timeUntilNextRun of scheduler/job.go, *)
(* for one job and with the clocks that Scheduler leaves out.  The wait is *)
(* computed after each run, from the interval or from the next time of the *)
(* cron expression; the timer may fire any time after it is due, and a run *)
(* takes any time.                                                         *)
(*                                                                         *)
(* Timers go by the monotonic clock, now, and cron expressions by that on  *)
(* the wall, which can be set.  The wall is read twice, by Next and by     *)
(* time.Until, and what happens between is not excluded.                   *)
(*                                                                         *)
(* cronexpr's Next is modelled by what it returns: the first time of the   *)
(* expression after the given one, and the zero time when there is none (a *)
(* year field that is past, a day that does not exist).                    *)
(***************************************************************************)
EXTENDS Integers, FiniteSets, FiniteSetsExt

CONSTANTS MaxTime,      \* bound: the last instant
          Intervals,    \* the values of job.interval: positive for Add, 0 for AddCron
          Expressions,  \* the values of job.cronExpr, each as the set of its times
          MaxAhead,     \* bound: how far the wall clock is from now
          MaxSetBacks   \* bound: how often it is set back

ASSUME JobTimerAssumption ==
  /\ MaxTime \in Nat /\ MaxAhead \in Nat /\ MaxSetBacks \in Nat
  /\ Intervals \subseteq Nat
  /\ \A e \in Expressions : e \subseteq Nat /\ IsFiniteSet(e)

VARIABLES interval,   \* job.interval
          cronExpr,   \* job.cronExpr
          now,        \* the monotonic clock
          ahead,      \* how far the wall clock is ahead of it
          phase,      \* whether the job computes its wait, waits for its timer, or runs
          slot,       \* the time that Next returned
          due,        \* the time its timer is set to
          readAt,     \* history: the wall clock that Next was given
          setAt,      \* history: when the timer was set
          setWall,    \* history: the wall clock at that time
          forward,    \* history: how much the wall clock was set forward since Next
          setBacks,   \* history: how often it was set back
          served,     \* history: how often the job ran for each time of the expression
          started     \* history: the start of the last two runs

job == <<interval, cronExpr>>
clocks == <<now, ahead, forward, setBacks>>
runs == <<served, started>>
vars == <<job, clocks, phase, slot, due, readAt, setAt, setWall, runs>>

ZeroTime == -1000     \* time.Time{}, far in the past of every instant
wall == now + ahead

CronNext(t) ==
  LET later == {s \in cronExpr : s > t}
  IN  IF later = {} THEN ZeroTime ELSE Min(later)

\* time.AfterFunc fires at once when the wait is not positive.
AfterFunc(d) ==
  /\ phase' = "wait"
  /\ due' = IF d > 0 THEN now + d ELSE now
  /\ setAt' = now
  /\ setWall' = wall

\* Mutant: the interval is counted from the start of the run.
scheduleFromStart ==
  IF interval > 0
  THEN AfterFunc(started.last + interval - now) /\ UNCHANGED <<clocks, slot, readAt>>
  ELSE /\ phase' = "compute"
       /\ slot' = CronNext(wall)
       /\ readAt' = wall
       /\ forward' = 0
       /\ UNCHANGED <<now, ahead, setBacks, due, setAt, setWall>>

\* Mutant: a cron job's interval, zero, is taken for one.
scheduleZero ==
  IF interval >= 0
  THEN AfterFunc(interval) /\ UNCHANGED <<clocks, slot, readAt>>
  ELSE /\ phase' = "compute"
       /\ slot' = CronNext(wall)
       /\ readAt' = wall
       /\ forward' = 0
       /\ UNCHANGED <<now, ahead, setBacks, due, setAt, setWall>>

\* schedule, up to the result of Next for a cron job.
schedule ==
  IF interval > 0
  THEN AfterFunc(interval) /\ UNCHANGED <<clocks, slot, readAt>>
  ELSE /\ phase' = "compute"
       /\ slot' = CronNext(wall)
       /\ readAt' = wall
       /\ forward' = 0
       /\ UNCHANGED <<now, ahead, setBacks, due, setAt, setWall>>

-----------------------------------------------------------------------------
Init ==
  /\ interval \in Intervals
  /\ cronExpr \in Expressions
  /\ now = 0 /\ ahead = 0 /\ forward = 0 /\ setBacks = 0
  /\ phase = "new"
  /\ slot = ZeroTime
  /\ due = 0 /\ readAt = 0 /\ setAt = 0 /\ setWall = 0
  /\ served = [s \in cronExpr |-> 0]
  /\ started = [last |-> ZeroTime, previous |-> ZeroTime]

\* Start, or Add while running.
Arm ==
  /\ phase = "new"
  /\ schedule
  /\ UNCHANGED <<job, runs>>

\* Mutant: the wait is rounded down.
SetTimerEarly ==
  /\ phase = "compute"
  /\ AfterFunc(slot - wall - 1)
  /\ UNCHANGED <<job, clocks, slot, readAt, runs>>

\* Mutant: the wait is from the time that Next was given, without a second reading.
SetTimerFromFirst ==
  /\ phase = "compute"
  /\ AfterFunc(slot - readAt)
  /\ UNCHANGED <<job, clocks, slot, readAt, runs>>

\* The rest of schedule for a cron job: time.Until.
SetTimer ==
  /\ phase = "compute"
  /\ AfterFunc(slot - wall)
  /\ UNCHANGED <<job, clocks, slot, readAt, runs>>

Fire ==
  /\ phase = "wait"
  /\ due <= now
  /\ phase' = "run"
  /\ served' = IF interval = 0 /\ slot \in cronExpr THEN [served EXCEPT ![slot] = @ + 1] ELSE served
  /\ started' = [last |-> now, previous |-> started.last]
  /\ UNCHANGED <<job, clocks, slot, due, readAt, setAt, setWall>>

\* Job.Run returns.
Done ==
  /\ phase = "run"
  /\ schedule
  /\ UNCHANGED <<job, runs>>

Tick ==
  /\ now < MaxTime
  /\ now' = now + 1
  /\ UNCHANGED <<job, ahead, forward, setBacks, phase, slot, due, readAt, setAt, setWall, runs>>

\* Somebody, or the network's time, sets the wall clock.
SetClock ==
  /\ \E d \in -MaxAhead .. MaxAhead \ {0} :
       /\ ahead + d \in -MaxAhead .. MaxAhead
       /\ ahead' = ahead + d
       /\ IF d > 0 THEN forward' = forward + d /\ UNCHANGED setBacks
          ELSE setBacks < MaxSetBacks /\ setBacks' = setBacks + 1 /\ UNCHANGED forward
  /\ UNCHANGED <<job, now, phase, slot, due, readAt, setAt, setWall, runs>>

\* The bound: time ends at MaxTime.
Horizon == now = MaxTime /\ UNCHANGED vars

Next == Arm \/ SetTimer \/ Fire \/ Done \/ Tick \/ SetClock \/ Horizon

Spec == Init /\ [][Next]_vars

-----------------------------------------------------------------------------
\* Each time of the expression is served by at most one run, however late the timer fires
\* and however long a run takes, and by one more each time the wall clock is set back; and
\* only a clock that was set back has a run before its time (job.go:36-41).
OncePerSlot ==
  interval = 0 =>
    /\ \A s \in cronExpr : served[s] <= 1 + setBacks
    /\ phase = "wait" /\ slot # ZeroTime /\ setBacks = 0 => due + ahead >= slot

\* No time of the expression is slept through by a job that waits, except by as much as the
\* wall clock has been set forward in the meantime.  (Those that pass during a run are
\* missed.)
NextSlotNotMissed ==
  interval = 0 /\ phase = "wait" /\ due > setAt =>
    \A s \in cronExpr : readAt < s => due + ahead <= s + forward

\* Two runs never start closer to each other than the interval, nor is the suite run with
\* no pause at all after a run that outlasts it, whatever the wall clock says
\* (job.go:37-38).
Spaced ==
  /\ started.previous # ZeroTime => started.last - started.previous >= interval
  /\ phase = "wait" => due - setAt >= interval

\* A job runs again without a pause only if its time has passed between the two readings of
\* the clock, or if its expression has no time left: then it does so for ever, since the
\* zero time is always past (job.go:40).
PausesUnlessExhausted ==
  phase = "wait" /\ due = setAt =>
    LET later == {s \in cronExpr : s > readAt}
    IN  interval = 0 /\ (later = {} \/ \E s \in later : s <= setWall)
=============================================================================
