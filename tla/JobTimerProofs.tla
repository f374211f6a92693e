--------------------------- MODULE JobTimerProofs ----------------------------
(***************************************************************************)
(* Theorems about JobTimer: what it promises of the slots of a cron job    *)
(* and of the pauses between runs, for every interval and expression, and  *)
(* with any late timers, long runs and settings of the wall clock.         *)
(***************************************************************************)
EXTENDS JobTimer, WellFoundedInduction, TLAPS

TypeInv ==
  /\ interval \in Nat
  /\ cronExpr \in SUBSET Nat
  /\ now \in Nat /\ ahead \in Int /\ forward \in Nat /\ setBacks \in Nat
  /\ phase \in {"new", "compute", "wait", "run"}
  /\ slot \in Int /\ due \in Int /\ readAt \in Int /\ setAt \in Int /\ setWall \in Int
  /\ served \in [cronExpr -> Nat]
  /\ started \in [last : Int, previous : Int]

\* Only a cron job computes, and the slot that it computes or waits for is the next after
\* the time that was read.
SlotIsNext ==
  /\ phase = "compute" => interval = 0
  /\ interval = 0 /\ phase \in {"compute", "wait"} =>
       IF \E s \in cronExpr : s > readAt
       THEN slot \in cronExpr /\ slot > readAt /\ \A s \in cronExpr : s > readAt => slot <= s
       ELSE slot = ZeroTime

\* One run of a slot is owed for each time the clock was set back, and one more only from
\* the slot on: a job that has yet to serve its slot has not used that one, and one whose
\* timer fires before its slot has a setting of the clock to thank for it.
RunsOwed ==
  /\ \A s \in cronExpr : served[s] <= 1 + setBacks /\ (wall < s => served[s] <= setBacks)
  /\ interval = 0 /\ phase \in {"compute", "wait"} /\ slot \in cronExpr =>
       /\ served[slot] <= setBacks
       /\ phase = "wait" /\ due + ahead < slot => served[slot] < setBacks

\* A timer is set for the slot, and the wall clock has since come nearer to it only by what
\* it was set forward; or the slot has passed and the timer fires at once.
TimerIsSet ==
  phase = "wait" =>
    /\ due - setAt >= interval
    /\ started.last <= setAt /\ setAt <= now
    /\ interval = 0 /\ due > setAt => due + ahead <= slot + forward
    /\ interval = 0 /\ due = setAt => slot <= setWall

RunsApart ==
  /\ started.last <= now
  /\ started.previous # ZeroTime => started.last - started.previous >= interval

IInv == TypeInv /\ SlotIsNext /\ RunsOwed /\ TimerIsSet /\ RunsApart

-----------------------------------------------------------------------------
\* The first of some times.  The order of the naturals is well founded, which the library
\* states of a relation.
Earlier == {t \in Nat \X Nat : t[1] < t[2]}

LEMMA EarlierIsWellFounded == IsWellFoundedOn(Earlier, Nat)
  BY NatLessThanWellFounded DEF OpToRel, Earlier

LEMMA FirstTime ==
  ASSUME NEW S \in SUBSET Nat, S # {}
  PROVE  Min(S) \in S /\ \A s \in S : Min(S) <= s
<1>1. PICK x \in S : \A s \in S : <<s, x>> \notin Earlier
  BY EarlierIsWellFounded, WFMin
<1>2. ASSUME NEW s \in S PROVE x <= s
  <2>1. x \in Nat /\ s \in Nat
    OBVIOUS
  <2> SUFFICES ASSUME s < x PROVE <<s, x>> \in Earlier
    BY <2>1, <1>1
  <2> DEFINE t == <<s, x>>
  <2>2. t \in Nat \X Nat /\ t[1] < t[2]
    BY <2>1
  <2> QED
    BY <2>2 DEF Earlier
<1> QED
  BY <1>2 DEF Min

\* What Next returns.
LEMMA NextOfCron ==
  ASSUME cronExpr \in SUBSET Nat, NEW t \in Int
  PROVE  IF \E s \in cronExpr : s > t
         THEN /\ CronNext(t) \in cronExpr /\ CronNext(t) > t
              /\ \A s \in cronExpr : s > t => CronNext(t) <= s
         ELSE CronNext(t) = ZeroTime
<1> DEFINE later == {s \in cronExpr : s > t}
<1>1. CASE later = {}
  BY <1>1 DEF CronNext
<1>2. CASE later # {}
  <2>1. later \in SUBSET Nat
    OBVIOUS
  <2>2. CronNext(t) = Min(later)
    BY <1>2 DEF CronNext
  <2> QED
    BY <1>2, <2>1, <2>2, FirstTime
<1> QED
  BY <1>1, <1>2

\* The types of what Next returns and of the wall clock.
LEMMA Times ==
  ASSUME TypeInv
  PROVE  wall \in Int /\ ZeroTime \in Int /\ ZeroTime \notin cronExpr /\ CronNext(wall) \in Int
<1>1. wall \in Int /\ ZeroTime \in Int /\ ZeroTime \notin cronExpr
  BY DEF TypeInv, wall, ZeroTime
<1>2. CronNext(wall) \in Int
  <2>1. CronNext(wall) \in cronExpr \/ CronNext(wall) = ZeroTime
    BY <1>1, NextOfCron DEF TypeInv
  <2>2. \A s \in cronExpr : s \in Int
    BY DEF TypeInv
  <2> QED
    BY <1>1, <2>1, <2>2
<1> QED
  BY <1>1, <1>2

-----------------------------------------------------------------------------
\* schedule, called by Start or Add, or after a run: for an interval it sets the timer, for
\* an expression it reads the clock.  A slot that is to come was served at most once for
\* each time that the clock was set back.
LEMMA ScheduleKeepsIInv ==
  ASSUME IInv, phase \in {"new", "run"}, schedule, UNCHANGED <<job, runs>>
  PROVE  IInv'
<1> USE DEF IInv, job, runs, clocks
<1>1. CASE interval > 0
  <2>1. /\ phase' = "wait" /\ due' = now + interval /\ setAt' = now /\ setWall' = wall
        /\ UNCHANGED <<now, ahead, forward, setBacks, slot, readAt>>
    BY <1>1 DEF schedule, AfterFunc, TypeInv
  <2>2. TypeInv'
    BY <1>1, <2>1, Times DEF TypeInv
  <2>3. SlotIsNext'
    BY <1>1, <2>1 DEF SlotIsNext
  <2>4. RunsOwed'
    BY <1>1, <2>1 DEF RunsOwed, TypeInv, wall
  <2>5. TimerIsSet' /\ RunsApart'
    BY <1>1, <2>1 DEF TimerIsSet, RunsApart, TypeInv
  <2> QED
    BY <2>2, <2>3, <2>4, <2>5
<1>2. CASE ~(interval > 0)
  <2>1. /\ phase' = "compute" /\ slot' = CronNext(wall) /\ readAt' = wall /\ forward' = 0
        /\ UNCHANGED <<now, ahead, setBacks, due, setAt, setWall>>
    BY <1>2 DEF schedule
  <2>2. interval = 0
    BY <1>2 DEF TypeInv
  <2>3. TypeInv'
    BY <2>1, Times DEF TypeInv
  <2>4. SlotIsNext'
    BY <2>1, <2>2, Times, NextOfCron DEF SlotIsNext, TypeInv
  <2>5. RunsOwed'
    <3>1. slot' \in cronExpr => wall < slot'
      BY <2>1, Times, NextOfCron DEF TypeInv
    <3> QED
      BY <2>1, <3>1 DEF RunsOwed, wall
  <2>6. TimerIsSet' /\ RunsApart'
    BY <2>1 DEF TimerIsSet, RunsApart
  <2> QED
    BY <2>3, <2>4, <2>5, <2>6
<1> QED
  BY <1>1, <1>2

\* A timer is set for the slot, or for now if the slot has passed.
LEMMA SetTimerKeepsIInv == ASSUME IInv, SetTimer PROVE IInv'
<1> USE DEF IInv, SetTimer, job, runs, clocks
<1>1. /\ phase = "compute" /\ phase' = "wait" /\ setAt' = now /\ setWall' = wall
      /\ due' = IF slot - wall > 0 THEN now + (slot - wall) ELSE now
      /\ UNCHANGED <<interval, cronExpr, now, ahead, forward, setBacks, slot, readAt, served, started>>
  BY DEF AfterFunc
<1>2. interval = 0
  BY DEF SlotIsNext
<1>3. TypeInv'
  BY <1>1, Times DEF TypeInv
<1>4. SlotIsNext'
  BY <1>1, <1>2 DEF SlotIsNext
<1>5. RunsOwed'
  <2>1. slot \in cronExpr => due' + ahead >= slot
    BY <1>1 DEF TypeInv, wall
  <2>2. served[slot] <= setBacks \/ slot \notin cronExpr
    BY <1>1, <1>2 DEF RunsOwed
  <2>3. \A s \in cronExpr : served[s] <= 1 + setBacks /\ (wall < s => served[s] <= setBacks)
    BY DEF RunsOwed
  <2>4. wall' = wall
    BY <1>1 DEF wall
  <2>5. slot \in cronExpr => ~(due' + ahead' < slot)
    BY <1>1, <1>3, <2>1 DEF TypeInv
  <2> QED
    BY <1>1, <2>2, <2>3, <2>4, <2>5 DEF RunsOwed
<1>6. TimerIsSet'
  BY <1>1, <1>2 DEF TimerIsSet, RunsApart, TypeInv, wall
<1>7. RunsApart'
  BY <1>1 DEF RunsApart
<1> QED
  BY <1>3, <1>4, <1>5, <1>6, <1>7

\* A run begins: not before its slot, unless the clock was set back.
LEMMA FireKeepsIInv == ASSUME IInv, Fire PROVE IInv'
<1> USE DEF IInv, Fire, job, clocks
<1>1. TypeInv'
  BY DEF TypeInv
<1>2. SlotIsNext'
  BY DEF SlotIsNext
<1>3. RunsOwed'
  <2> SUFFICES ASSUME NEW s \in cronExpr
               PROVE  served'[s] <= 1 + setBacks /\ (wall < s => served'[s] <= setBacks)
    BY DEF RunsOwed, wall
  <2>1. CASE interval = 0 /\ slot = s
    <3>1. served'[s] = served[s] + 1
      BY <2>1 DEF TypeInv
    <3>2. wall < s => due + ahead < slot
      BY <2>1 DEF wall, TypeInv
    <3> QED
      BY <2>1, <3>1, <3>2 DEF RunsOwed, TypeInv
  <2>2. CASE ~(interval = 0 /\ slot = s)
    <3>1. served'[s] = served[s]
      BY <2>2 DEF TypeInv
    <3> QED
      BY <3>1 DEF RunsOwed
  <2> QED
    BY <2>1, <2>2
<1>4. TimerIsSet'
  BY DEF TimerIsSet
<1>5. RunsApart'
  BY DEF RunsApart, TimerIsSet, TypeInv
<1> QED
  BY <1>1, <1>2, <1>3, <1>4, <1>5

LEMMA TickKeepsIInv == ASSUME IInv, Tick PROVE IInv'
<1> USE DEF IInv, Tick, job, runs
<1>1. TypeInv'
  BY DEF TypeInv
<1>2. SlotIsNext'
  BY DEF SlotIsNext
<1>3. RunsOwed'
  BY DEF RunsOwed, TypeInv, wall
<1>4. TimerIsSet' /\ RunsApart'
  BY DEF TimerIsSet, RunsApart, TypeInv
<1> QED
  BY <1>1, <1>2, <1>3, <1>4

\* A clock that is set back may serve every slot once more.
LEMMA SetClockKeepsIInv == ASSUME IInv, SetClock PROVE IInv'
<1> USE DEF IInv, job, runs
<1>1. PICK d \in Int :
        /\ UNCHANGED <<interval, cronExpr, now, phase, slot, due, readAt, setAt, setWall, served, started>>
        /\ ahead' = ahead + d
        /\ IF d > 0 THEN forward' = forward + d /\ setBacks' = setBacks
           ELSE forward' = forward /\ setBacks' = setBacks + 1
  <2>1. MaxAhead \in Nat
    BY JobTimerAssumption
  <2> QED
    BY <2>1 DEF SetClock
<1>2. TypeInv'
  BY <1>1 DEF TypeInv
<1>3. SlotIsNext'
  BY <1>1 DEF SlotIsNext
<1>4. RunsOwed'
  <2>1. CASE d > 0
    <3>1. now \in Int /\ ahead \in Int /\ due \in Int /\ slot \in Int /\ cronExpr \subseteq Int
      BY DEF TypeInv
    <3>2. \A s \in cronExpr : wall' < s => wall < s
      BY <1>1, <2>1, <3>1 DEF wall
    <3>3. due + ahead' < slot => due + ahead < slot
      BY <1>1, <2>1, <3>1
    <3> QED
      BY <1>1, <2>1, <3>2, <3>3 DEF RunsOwed
  <2>2. CASE ~(d > 0)
    <3>1. \A s \in cronExpr : served[s] \in Nat
      BY DEF TypeInv
    <3>2. \A s \in cronExpr : served[s] <= setBacks'
      BY <1>1, <2>2, <3>1 DEF RunsOwed, TypeInv
    <3>3. \A s \in cronExpr : served[s] <= 1 + setBacks'
      BY <1>2, <3>1, <3>2 DEF TypeInv
    <3>4. \A s \in cronExpr : served[s] <= setBacks => served[s] < setBacks'
      BY <1>1, <2>2, <3>1 DEF TypeInv
    <3> QED
      BY <1>1, <3>2, <3>3, <3>4 DEF RunsOwed
  <2> QED
    BY <2>1, <2>2
<1>5. TimerIsSet' /\ RunsApart'
  BY <1>1 DEF TimerIsSet, RunsApart, TypeInv
<1> QED
  BY <1>2, <1>3, <1>4, <1>5

-----------------------------------------------------------------------------
\* The conjunction IInv is an inductive invariant of the timer.
THEOREM Invariance == Spec => []IInv
<1>1. Init => IInv
  <2> SUFFICES ASSUME Init PROVE IInv
    OBVIOUS
  <2>1. TypeInv
    BY JobTimerAssumption DEF Init, TypeInv, ZeroTime
  <2> QED
    BY <2>1 DEF Init, IInv, SlotIsNext, RunsOwed, TimerIsSet, RunsApart, ZeroTime, TypeInv
<1>2. IInv /\ [Next]_vars => IInv'
  <2> SUFFICES ASSUME IInv, [Next]_vars PROVE IInv'
    OBVIOUS
  <2>1. CASE Arm
    BY <2>1, ScheduleKeepsIInv DEF Arm
  <2>2. CASE SetTimer
    BY <2>2, SetTimerKeepsIInv
  <2>3. CASE Fire
    BY <2>3, FireKeepsIInv
  <2>4. CASE Done
    BY <2>4, ScheduleKeepsIInv DEF Done
  <2>5. CASE Tick
    BY <2>5, TickKeepsIInv
  <2>6. CASE SetClock
    BY <2>6, SetClockKeepsIInv
  <2>7. CASE Horizon \/ UNCHANGED vars
    BY <2>7 DEF Horizon, vars, job, clocks, runs, IInv, TypeInv, SlotIsNext, RunsOwed,
                TimerIsSet, RunsApart, wall
  <2> QED
    BY <2>1, <2>2, <2>3, <2>4, <2>5, <2>6, <2>7 DEF Next
<1> QED
  BY <1>1, <1>2, PTL DEF Spec

\* Each time of an expression is served once, and once more for each time the wall clock is
\* set back, however late timers fire and however long runs take.
THEOREM ServedOncePerSlot == Spec => []OncePerSlot
<1>1. IInv => OncePerSlot
  <2> SUFFICES ASSUME IInv, interval = 0 PROVE OncePerSlot
    BY DEF OncePerSlot
  <2>1. \A s \in cronExpr : served[s] <= 1 + setBacks
    BY DEF IInv, RunsOwed
  <2>2. ASSUME phase = "wait", slot # ZeroTime, setBacks = 0 PROVE due + ahead >= slot
    <3>1. slot \in cronExpr
      BY <2>2 DEF IInv, SlotIsNext
    <3> QED
      BY <2>2, <3>1 DEF IInv, RunsOwed, TypeInv
  <2> QED
    BY <2>1, <2>2 DEF OncePerSlot
<1> QED
  BY <1>1, Invariance, PTL

\* A job that waits sleeps through no time of its expression.
THEOREM NoSlotSleptThrough == Spec => []NextSlotNotMissed
<1>1. IInv => NextSlotNotMissed
  BY DEF IInv, TypeInv, SlotIsNext, TimerIsSet, NextSlotNotMissed
<1> QED
  BY <1>1, Invariance, PTL

\* Runs of an interval job are at least the interval apart, and so is the end of one from
\* the next.
THEOREM KeepsInterval == Spec => []Spaced
<1>1. IInv => Spaced
  BY DEF IInv, TimerIsSet, RunsApart, Spaced
<1> QED
  BY <1>1, Invariance, PTL

\* A job pauses after a run unless its next time has come or there is none.
THEOREM Pauses == Spec => []PausesUnlessExhausted
<1>1. IInv => PausesUnlessExhausted
  <2> SUFFICES ASSUME IInv, phase = "wait", due = setAt PROVE PausesUnlessExhausted
    BY DEF PausesUnlessExhausted
  <2>1. interval = 0
    BY DEF IInv, TypeInv, TimerIsSet
  <2>2. slot <= setWall
    BY <2>1 DEF IInv, TimerIsSet
  <2>3. CASE \E s \in cronExpr : s > readAt
    BY <2>1, <2>2, <2>3 DEF IInv, SlotIsNext, PausesUnlessExhausted
  <2>4. CASE ~\E s \in cronExpr : s > readAt
    BY <2>1, <2>4 DEF PausesUnlessExhausted
  <2> QED
    BY <2>3, <2>4
<1> QED
  BY <1>1, Invariance, PTL
=============================================================================
