-------------------------- MODULE RunCommandProofs ---------------------------
(***************************************************************************)
(* Theorems about Scheduler and about RunCommand, which drives one.        *)
(*                                                                         *)
(* First Scheduler, for any sets of names, jobs and timers, with and       *)
(* without late stores of job.timer.  One lemma for each action shows that *)
(* it preserves IInv; the theorems follow from that invariant.  None of    *)
(* this half refers to the command.                                        *)
(*                                                                         *)
(* Then RunCommand: its steps are steps of Scheduler, so that what the     *)
(* first half shows of a scheduler holds of the one that the command       *)
(* drives; and from that, for any number of suites and timers and whatever *)
(* their notifiers do, what the command promises of its suites.            *)
(***************************************************************************)
EXTENDS RunCommand, TLAPS

-----------------------------------------------------------------------------
\* The inductive invariant behind OneChain, QuietBeforeStart, NeverLost and CancelIsFinal.

\* An object has one name, and job.timer only ever refers to a timer of that job.
NoSharing ==
  /\ \A m, n \in Names : jobs[m] = jobs[n] /\ jobs[m] # NoObj => m = n
  /\ \A o \in Objs : timer[o] # NoTimer => Owner[timer[o]] = o

\* What the holder of mu may assume: Start works on registered jobs and before running
\* is set, Add schedules only after.
LockedState ==
  /\ mu = "Start" => ~running
  /\ mu = "Add" => running
  /\ mu # "Start" => todo = {}
  /\ todo \subseteq Registered

\* Before running is set nothing registered has been cancelled, and the chains alive are
\* those of the jobs Start's loop has passed.
BeforeRunning ==
  ~running =>
    /\ Registered \cap cancelled = {}
    /\ \A t \in Timers :
         status[t] # "idle" => mu = "Start" /\ Owner[t] \in Registered \ todo

\* Every job Start's loop has passed has its chain.
StartProgress == mu = "Start" => \A o \in Registered \ todo : Live(o) # {}

IInv ==
  /\ TypeOK
  /\ OneChain
  /\ NoSharing
  /\ LockedState
  /\ BeforeRunning
  /\ StartProgress
  /\ NeverLost

-----------------------------------------------------------------------------
\* New's scheduler satisfies the invariant.
LEMMA InitInv == Init => IInv
  BY SchedulerAssumption
  DEF Init, IInv, TypeOK, OneChain, NoSharing, LockedState, BeforeRunning, StartProgress,
      NeverLost, Registered, Live

\* A job added before Start has no chain and was never cancelled.
LEMMA AddIdleInv ==
  ASSUME IInv, NEW n \in Names, NEW o \in Objs, AddIdle(n, o)
  PROVE  IInv'
<1> USE SchedulerAssumption DEF AddIdle, Register, Unused
<1>1. TypeOK'
  BY DEF IInv, TypeOK
<1>2. OneChain'
  BY DEF IInv, OneChain
<1>3. NoSharing'
  BY DEF IInv, TypeOK, NoSharing, LockedState, Registered
<1>4. LockedState'
  BY DEF IInv, LockedState, Registered
<1>5. BeforeRunning'
  BY DEF IInv, BeforeRunning, Registered
<1>6. StartProgress'
  BY DEF IInv, StartProgress, Registered, Live
<1>7. NeverLost'
  BY DEF IInv, NeverLost, Registered, Live
<1> QED
  BY <1>1, <1>2, <1>3, <1>4, <1>5, <1>6, <1>7 DEF IInv

\* A job added while running gets the first timer of its chain.
LEMMA AddRunningInv ==
  ASSUME IInv, NEW n \in Names, NEW o \in Objs, NEW t \in Timers, AddRunning(n, o, t)
  PROVE  IInv'
<1> USE SchedulerAssumption DEF AddRunning, Register, Unused, Schedule, Fresh
<1>1. TypeOK'
  BY DEF IInv, TypeOK
<1>2. OneChain'
  BY DEF IInv, TypeOK, OneChain, LockedState, StartProgress, Registered, Live
<1>3. NoSharing'
  BY DEF IInv, TypeOK, NoSharing, LockedState, Registered
<1>4. LockedState'
  BY DEF IInv, LockedState, Registered
<1>5. BeforeRunning'
  BY DEF IInv, BeforeRunning, Registered
<1>6. StartProgress'
  BY DEF IInv, StartProgress, Registered, Live
<1>7. NeverLost'
  BY DEF IInv, TypeOK, NeverLost, Registered, Live
<1> QED
  BY <1>1, <1>2, <1>3, <1>4, <1>5, <1>6, <1>7 DEF IInv

\* Start begins with every registered job in its work list.
LEMMA StartBeginInv ==
  ASSUME IInv, StartBegin
  PROVE  IInv'
<1> USE SchedulerAssumption DEF StartBegin, timerVars
<1>1. TypeOK'
  BY DEF IInv, TypeOK, LockedState, Registered
<1>2. OneChain'
  BY DEF IInv, OneChain
<1>3. NoSharing'
  BY DEF IInv, NoSharing
<1>4. LockedState'
  BY DEF IInv, LockedState, Registered
<1>5. BeforeRunning'
  BY DEF IInv, BeforeRunning, Registered
<1>6. StartProgress'
  BY DEF IInv, StartProgress, Registered, Live
<1>7. NeverLost'
  BY DEF IInv, NeverLost, Registered, Live
<1> QED
  BY <1>1, <1>2, <1>3, <1>4, <1>5, <1>6, <1>7 DEF IInv

\* A job of Start's work list has no chain yet.
LEMMA StartScheduleInv ==
  ASSUME IInv, NEW o \in Objs, NEW t \in Timers, StartSchedule(o, t)
  PROVE  IInv'
<1> USE SchedulerAssumption DEF StartSchedule, Schedule, Fresh
<1>1. TypeOK'
  BY DEF IInv, TypeOK
<1>2. OneChain'
  BY DEF IInv, TypeOK, OneChain, LockedState, BeforeRunning, Registered
<1>3. NoSharing'
  BY DEF IInv, NoSharing
<1>4. LockedState'
  BY DEF IInv, LockedState, Registered
<1>5. BeforeRunning'
  BY DEF IInv, TypeOK, LockedState, BeforeRunning, Registered
<1>6. StartProgress'
  BY DEF IInv, TypeOK, StartProgress, Registered, Live
<1>7. NeverLost'
  BY DEF IInv, NeverLost, Registered, Live
<1> QED
  BY <1>1, <1>2, <1>3, <1>4, <1>5, <1>6, <1>7 DEF IInv

\* At the end of Start's loop every registered job has its chain.
LEMMA StartDoneInv ==
  ASSUME IInv, StartDone
  PROVE  IInv'
<1> USE SchedulerAssumption DEF StartDone, timerVars
<1>1. TypeOK'
  BY DEF IInv, TypeOK
<1>2. OneChain'
  BY DEF IInv, OneChain
<1>3. NoSharing'
  BY DEF IInv, NoSharing
<1>4. LockedState'
  BY DEF IInv, LockedState, Registered
<1>5. BeforeRunning'
  BY DEF IInv, BeforeRunning, Registered
<1>6. StartProgress'
  BY DEF IInv, StartProgress, Registered, Live
<1>7. NeverLost'
  BY DEF IInv, TypeOK, LockedState, StartProgress, NeverLost, Registered, Live
<1> QED
  BY <1>1, <1>2, <1>3, <1>4, <1>5, <1>6, <1>7 DEF IInv

\* Stop ends chains, of cancelled jobs only.
LEMMA StopInv ==
  ASSUME IInv, Stop
  PROVE  IInv'
<1> USE SchedulerAssumption DEF Stop, callVars, StopTimers
<1>1. TypeOK'
  BY DEF IInv, TypeOK, LockedState, Registered
<1>2. OneChain'
  BY DEF IInv, OneChain
<1>3. NoSharing'
  BY DEF IInv, NoSharing
<1>4. LockedState'
  BY DEF IInv, LockedState, Registered
<1>5. BeforeRunning'
  BY DEF IInv, BeforeRunning, Registered
<1>6. StartProgress'
  BY DEF IInv, StartProgress, Registered, Live
<1>7. NeverLost'
  BY DEF IInv, NeverLost, Registered, Live
<1> QED
  BY <1>1, <1>2, <1>3, <1>4, <1>5, <1>6, <1>7 DEF IInv

\* Remove ends the chain of the job it removes and of no other one.
LEMMA RemoveInv ==
  ASSUME IInv, NEW n \in Names, Remove(n)
  PROVE  IInv'
<1> USE SchedulerAssumption DEF Remove, StopTimers
<1>1. TypeOK'
  BY DEF IInv, TypeOK
<1>2. OneChain'
  BY DEF IInv, OneChain
<1>3. NoSharing'
  BY DEF IInv, NoSharing
<1>4. LockedState'
  BY DEF IInv, LockedState, Registered
<1>5. BeforeRunning'
  BY DEF IInv, TypeOK, NoSharing, BeforeRunning, Registered
<1>6. StartProgress'
  BY DEF IInv, StartProgress, Registered, Live
<1>7. NeverLost'
  <2>1. ASSUME NEW o \in Registered' PROVE o \in Registered /\ o # jobs[n]
    BY <2>1 DEF IInv, TypeOK, OneChain, NoSharing, Registered
  <2>2. ASSUME NEW o \in Objs, o # jobs[n] PROVE Live(o)' = Live(o)
    BY <2>2 DEF IInv, TypeOK, NoSharing, Live
  <2> QED
    BY <2>1, <2>2 DEF IInv, TypeOK, NeverLost, Registered
<1> QED
  BY <1>1, <1>2, <1>3, <1>4, <1>5, <1>6, <1>7 DEF IInv

\* A chain goes on from its timer to the callback.
LEMMA FireInv ==
  ASSUME IInv, NEW t \in Timers, Fire(t)
  PROVE  IInv'
<1> USE SchedulerAssumption DEF Fire, callVars
<1>1. TypeOK'
  BY DEF IInv, TypeOK
<1>2. OneChain'
  BY DEF IInv, OneChain
<1>3. NoSharing'
  BY DEF IInv, NoSharing
<1>4. LockedState'
  BY DEF IInv, LockedState, Registered
<1>5. BeforeRunning'
  BY DEF IInv, BeforeRunning, Registered
<1>6. StartProgress'
  BY DEF IInv, StartProgress, Registered, Live
<1>7. NeverLost'
  BY DEF IInv, NeverLost, Registered, Live
<1> QED
  BY <1>1, <1>2, <1>3, <1>4, <1>5, <1>6, <1>7 DEF IInv

\* A chain goes on from the callback to the next timer.
LEMMA RunDoneInv ==
  ASSUME IInv, NEW t \in Timers, NEW u \in Timers, RunDone(t, u)
  PROVE  IInv'
<1> USE SchedulerAssumption DEF RunDone, Fresh, callVars
<1>1. TypeOK'
  BY DEF IInv, TypeOK
<1>2. OneChain'
  BY DEF IInv, TypeOK, OneChain
<1>3. NoSharing'
  BY DEF IInv, NoSharing
<1>4. LockedState'
  BY DEF IInv, LockedState, Registered
<1>5. BeforeRunning'
  BY DEF IInv, TypeOK, BeforeRunning, Registered
<1>6. StartProgress'
  BY DEF IInv, TypeOK, StartProgress, Registered, Live
<1>7. NeverLost'
  BY DEF IInv, TypeOK, NeverLost, Registered, Live
<1> QED
  BY <1>1, <1>2, <1>3, <1>4, <1>5, <1>6, <1>7 DEF IInv

\* An assignment of job.timer leaves the chains alone.
LEMMA StoreInv ==
  ASSUME IInv, NEW t \in Timers, Store(t)
  PROVE  IInv'
<1> USE SchedulerAssumption DEF Store
<1>1. TypeOK'
  BY DEF IInv, TypeOK
<1>2. OneChain'
  BY DEF IInv, OneChain
<1>3. NoSharing'
  BY DEF IInv, NoSharing
<1>4. LockedState'
  BY DEF IInv, LockedState, Registered
<1>5. BeforeRunning'
  BY DEF IInv, BeforeRunning, Registered
<1>6. StartProgress'
  BY DEF IInv, StartProgress, Registered, Live
<1>7. NeverLost'
  BY DEF IInv, NeverLost, Registered, Live
<1> QED
  BY <1>1, <1>2, <1>3, <1>4, <1>5, <1>6, <1>7 DEF IInv

\* So does a step that changes nothing.
LEMMA UnchangedInv == IInv /\ UNCHANGED vars => IInv'
  BY DEF IInv, TypeOK, OneChain, NoSharing, LockedState, BeforeRunning, StartProgress,
         NeverLost, Registered, Live, vars

\* Each action preserves IInv, the refused calls because they change nothing.
LEMMA StepInv == IInv /\ [Next]_vars => IInv'
<1> SUFFICES ASSUME IInv, [Next]_vars PROVE IInv'
    OBVIOUS
<1>1. CASE Calls
  BY <1>1, AddIdleInv, AddRunningInv, StartBeginInv, StopInv, RemoveInv, UnchangedInv
  DEF Calls, StartRefused, AddRefused, StopRefused, RemoveRefused
<1>2. CASE StartStep
  BY <1>2, StartScheduleInv, StartDoneInv DEF StartStep
<1>3. CASE \E t \in Timers : Fire(t) \/ Store(t)
  BY <1>3, FireInv, StoreInv
<1>4. CASE \E t, u \in Timers : RunDone(t, u)
  BY <1>4, RunDoneInv
<1> QED
  BY <1>1, <1>2, <1>3, <1>4, UnchangedInv DEF Next

\* The inductive invariant holds in every reachable state.
THEOREM Invariance == Spec => []IInv
  BY InitInv, StepInv, PTL DEF Spec

-----------------------------------------------------------------------------
\* The state is always well typed.
THEOREM TypeCorrect == Spec => []TypeOK
  BY Invariance, PTL DEF IInv

\* A job never overlaps itself (job.go:22-28).
THEOREM NoOverlap == Spec => []OneChain
  BY Invariance, PTL DEF IInv

\* A started job that was not cancelled never loses its chain of timers.
THEOREM NoJobLost == Spec => []NeverLost
  BY Invariance, PTL DEF IInv

\* Nothing is armed before Start (scheduler.go:63-64).
THEOREM NothingBeforeStart == Spec => []QuietBeforeStart
<1>1. IInv => QuietBeforeStart
  BY DEF IInv, BeforeRunning, QuietBeforeStart
<1> QED
  BY <1>1, Invariance, PTL

-----------------------------------------------------------------------------
\* Only Add, Start's loop and the end of a run arm a timer.
LEMMA WhoArms ==
  ASSUME IInv, [Next]_vars, NEW o \in Objs, Live(o) = {}, Live(o)' # {}
  PROVE  \/ \E n \in Names, t \in Timers : AddRunning(n, o, t)
         \/ \E t \in Timers : StartSchedule(o, t)
<1>1. PICK t \in Timers : Owner[t] = o /\ status'[t] # "idle"
  BY DEF Live
<1>2. Owner[t] # o \/ status[t] = "idle"
  BY DEF Live
<1>3. CASE Calls
  <2>1. ASSUME NEW m \in Names, NEW p \in Objs, NEW u \in Timers, AddRunning(m, p, u)
        PROVE  t = u /\ p = o
    BY <1>1, <1>2, <2>1 DEF IInv, TypeOK, AddRunning, Register, Schedule
  <2> QED
    BY <1>1, <1>2, <1>3, <2>1
    DEF Calls, IInv, TypeOK, AddIdle, Register, StartBegin, StartRefused, Stop,
        StopRefused, Remove, AddRefused, RemoveRefused, StopTimers, timerVars, vars
<1>4. CASE StartStep
  <2>1. ASSUME NEW p \in Objs, NEW u \in Timers, StartSchedule(p, u)
        PROVE  t = u /\ p = o
    BY <1>1, <1>2, <2>1 DEF IInv, TypeOK, StartSchedule, Schedule
  <2> QED
    BY <1>1, <1>2, <1>4, <2>1 DEF StartStep, StartDone, timerVars
<1>5. CASE \E u \in Timers : Fire(u) \/ Store(u)
  BY <1>1, <1>2, <1>5 DEF IInv, TypeOK, Fire, Store
<1>6. CASE \E u, v \in Timers : RunDone(u, v)
  <2>1. PICK u, v \in Timers : RunDone(u, v)
    BY <1>6
  <2>2. u \in Live(Owner[u])
    BY <2>1 DEF RunDone, Live
  <2> QED
    BY <1>1, <1>2, <2>1, <2>2 DEF IInv, TypeOK, RunDone, Fresh
<1>7. CASE UNCHANGED vars
  BY <1>1, <1>2, <1>7 DEF vars
<1> QED
  BY <1>3, <1>4, <1>5, <1>6, <1>7 DEF Next

\* Once the chain of a cancelled job is dead it stays dead (scheduler.go:51-61, 115-127).
THEOREM CancelFinal == Spec => CancelIsFinal
<1>1. IInv /\ [Next]_vars =>
        [\A o \in Objs : o \in cancelled /\ Live(o) = {} /\ o \in cancelled'
                           => Live(o)' = {}]_vars
  <2> SUFFICES ASSUME IInv, [Next]_vars, NEW o \in Objs,
                      o \in cancelled, Live(o) = {}, o \in cancelled'
               PROVE  Live(o)' = {}
      OBVIOUS
  <2>1. ASSUME NEW n \in Names, NEW t \in Timers, AddRunning(n, o, t) PROVE FALSE
    BY <2>1 DEF AddRunning, Register
  <2>2. ASSUME NEW t \in Timers, StartSchedule(o, t) PROVE FALSE
    BY <2>2 DEF StartSchedule, IInv, LockedState, BeforeRunning
  <2> QED
    BY <2>1, <2>2, WhoArms
<1> QED
  BY <1>1, Invariance, PTL DEF Spec, CancelIsFinal

-----------------------------------------------------------------------------
\* A job has a timer armed, or a callback in Run, or neither, and never both.
LEMMA Disjoint ==
  ASSUME IInv, NEW t \in Timers, NEW u \in Timers, Owner[t] = Owner[u],
         status[t] # "idle", status[u] # "idle"
  PROVE  t = u
  BY DEF IInv, OneChain

\* Initially no job waits or runs.
LEMMA InitCycle == Init => Cycle!Init
  BY DEF Init, Cycle!Init, Owners

\* Arming a timer for a job without a chain is the abstract Schedule.
LEMMA ScheduleCycle ==
  ASSUME IInv, NEW o \in Objs, NEW t \in Timers, Schedule(o, t), Live(o) = {}
  PROVE  Cycle!Schedule(o)
  BY DEF IInv, TypeOK, Schedule, Fresh, Live, Owners, Cycle!Schedule

\* Cancelling jobs ends the wait of those whose timer it disarms.
LEMMA CancelCycle ==
  ASSUME IInv, NEW js \in SUBSET Objs, status' = StopTimers(js)
  PROVE  \E ks \in SUBSET Objs : Cycle!Cancel(ks)
<1> DEFINE hit == {t \in Timers : status[t] = "armed" /\ \E o \in js : timer[o] = t}
           ks == {Owner[t] : t \in hit}
<1>1. ks \in SUBSET Objs
  BY SchedulerAssumption
<1>2. \A t \in Timers : status'[t] = IF t \in hit THEN "idle" ELSE status[t]
  BY DEF StopTimers
<1>3. Owners("running")' = Owners("running")
  BY <1>2 DEF Owners
<1>4. Owners("armed")' = Owners("armed") \ ks
  BY <1>2, Disjoint DEF Owners
<1> QED
  BY <1>1, <1>3, <1>4 DEF Cycle!Cancel

\* Every step of Scheduler is a step of JobCycle or leaves it alone.
LEMMA StepCycle == IInv /\ [Next]_vars => [Cycle!Next]_(Cycle!vars)
<1> SUFFICES ASSUME IInv, [Next]_vars PROVE Cycle!Next \/ UNCHANGED Cycle!vars
    OBVIOUS
<1>1. ASSUME UNCHANGED status PROVE UNCHANGED Cycle!vars
  BY <1>1 DEF Cycle!vars, Owners
<1>2. CASE Calls
  <2>1. ASSUME NEW n \in Names, NEW o \in Objs, NEW t \in Timers, AddRunning(n, o, t)
        PROVE  Cycle!Next
    BY <2>1, ScheduleCycle DEF AddRunning, Register, Unused, Cycle!Next
  <2>2. CASE Stop
    BY <2>2, CancelCycle DEF Stop, Registered, IInv, TypeOK, Cycle!Next
  <2>3. ASSUME NEW n \in Names, Remove(n) PROVE Cycle!Next
    BY <2>3, CancelCycle DEF Remove, IInv, TypeOK, Cycle!Next
  <2> QED
    BY <1>1, <1>2, <2>1, <2>2, <2>3
    DEF Calls, AddIdle, StartBegin, StartRefused, StopRefused, AddRefused,
        RemoveRefused, timerVars, vars
<1>3. CASE StartStep
  <2>1. ASSUME NEW o \in Objs, NEW t \in Timers, StartSchedule(o, t) PROVE Cycle!Next
    <3>1. Live(o) = {}
      BY <2>1 DEF StartSchedule, IInv, LockedState, BeforeRunning, Live
    <3> QED
      BY <2>1, <3>1, ScheduleCycle DEF StartSchedule, Cycle!Next
  <2> QED
    BY <1>1, <1>3, <2>1 DEF StartStep, StartDone, timerVars
<1>4. ASSUME NEW t \in Timers, Fire(t) PROVE Cycle!Next
  <2>1. Owner[t] \in Owners("armed")
    BY <1>4 DEF Fire, Owners
  <2>2. Owners("armed")' = Owners("armed") \ {Owner[t]}
    BY <1>4, Disjoint DEF Fire, Owners, IInv, TypeOK
  <2>3. Owners("running")' = Owners("running") \cup {Owner[t]}
    BY <1>4 DEF Fire, Owners, IInv, TypeOK
  <2> QED
    BY <2>1, <2>2, <2>3, SchedulerAssumption DEF Cycle!Next, Cycle!Begin
<1>5. ASSUME NEW t \in Timers, NEW u \in Timers, RunDone(t, u) PROVE Cycle!Next
  <2>1. Owner[t] \in Owners("running")
    BY <1>5 DEF RunDone, Owners
  <2>2. Owners("running")' = Owners("running") \ {Owner[t]}
    BY <1>5, Disjoint DEF RunDone, Fresh, Owners, IInv, TypeOK
  <2>3. Owners("armed")' = Owners("armed") \cup {Owner[t]}
    BY <1>5 DEF RunDone, Fresh, Owners, IInv, TypeOK
  <2> QED
    BY <2>1, <2>2, <2>3, SchedulerAssumption DEF Cycle!Next, Cycle!End
<1>6. ASSUME NEW t \in Timers, Store(t) PROVE UNCHANGED Cycle!vars
  BY <1>1, <1>6 DEF Store
<1> QED
  BY <1>1, <1>2, <1>3, <1>4, <1>5, <1>6 DEF Next, vars

\* Scheduler implements JobCycle.
THEOREM Refinement == Spec => ImplementsJobCycle
  BY InitCycle, StepCycle, Invariance, PTL DEF Spec, ImplementsJobCycle, Cycle!Spec

-----------------------------------------------------------------------------
\* The command: what its steps rely on, with IInv.

Stages == {"load", "start", "serve", "stop", "stopped", "exited"}

CmdTypes ==
  /\ main \in Stages
  /\ added \in 0 .. Len(Paths)
  /\ phase \in [Objs -> {"idle", "suite", "notify"}]
  /\ hung \subseteq Objs
  /\ unsent \subseteq Objs

\* What the main goroutine has done by each of its stages.
InStage ==
  /\ main = "load" => ~running /\ mu = "free"
  /\ main = "start" => mu = "Start"
  /\ main \in {"serve", "stop", "stopped"} => running /\ mu = "free"
  /\ main \in {"start", "serve", "stop", "stopped"} => added = Len(Paths)
  /\ main \in {"load", "start", "serve", "stop"} => cancelled = {}

\* Each suite that was accepted has its job.
AddedHaveJobs == \A i \in 1 .. added : jobs[Paths[i]] # NoObj

\* A job is out of suiteRunner.Run unless a callback of it is running.
RunsInCallback ==
  \A o \in Objs : phase[o] # "idle" =>
    /\ added = Len(Paths)
    /\ \E t \in Timers : Owner[t] = o /\ status[t] = "running"

CmdInv ==
  IInv /\ CmdTypes /\ InStage /\ AddedHaveJobs /\ RunsInCallback /\ ReportsInOrder

-----------------------------------------------------------------------------
\* Each step of the command is one of the scheduler or leaves it alone.
LEMMA StepOfScheduler == IInv /\ CmdTypes /\ [CmdNext]_allVars => [Next]_vars
<1> SUFFICES ASSUME CmdTypes, CmdNext PROVE Next \/ UNCHANGED vars
  BY DEF allVars
<1>1. ASSUME NEW o \in Objs, AddSuite(o) PROVE Next
  <2>1. Paths[added + 1] \in Names
    BY <1>1, RunCommandAssumption DEF AddSuite, CmdTypes
  <2> QED
    BY <1>1, <2>1 DEF AddSuite, Next, Calls
<1>2. CASE MainStep
  BY <1>1, <1>2 DEF MainStep, StartServer, StartLoop, StartReturns, StopServer, Exit,
                    Next, Calls, StartStep
<1>3. ASSUME NEW t \in Timers, FireJob(t) \/ StoreTimer(t) PROVE Next
  BY <1>3 DEF FireJob, StoreTimer, Next
<1>4. ASSUME NEW t \in Timers, NEW u \in Timers, Rearm(t, u) PROVE Next
  BY <1>4 DEF Rearm, Next
<1> QED
  BY <1>2, <1>3, <1>4
  DEF CmdNext, AddSuiteFails, Killed, Signal, SuiteDone, Notified, NotifyHangs, Gone, allVars

LEMMA SchedulerKept == ASSUME CmdInv, [CmdNext]_allVars PROVE IInv'
  BY StepOfScheduler, StepInv DEF CmdInv

-----------------------------------------------------------------------------
\* Before the first suite is added.
LEMMA CmdInitInv == CmdInit => CmdInv
  BY InitInv, RunCommandAssumption
  DEF CmdInit, CmdInv, CmdTypes, Stages, InStage, AddedHaveJobs, RunsInCallback,
      ReportsInOrder, Init

\* A suite that is accepted gets a job, and no other loses its own.
LEMMA AddSuiteInv == ASSUME CmdInv, NEW o \in Objs, AddSuite(o) PROVE CmdInv'
<1> USE DEF AddSuite
<1>1. IInv'
  BY SchedulerKept DEF CmdNext, MainStep
<1>2. /\ Paths[added + 1] \in Names
      /\ jobs' = [jobs EXCEPT ![Paths[added + 1]] = o]
      /\ o # NoObj
      /\ added \in Nat /\ added + 1 <= Len(Paths) /\ added' = added + 1
      /\ \A i \in 1 .. added + 1 : Paths[i] \in Names /\ (i \in 1 .. added \/ i = added + 1)
      /\ UNCHANGED <<running, mu, status, main, phase, hung, unsent>>
  BY RunCommandAssumption, SchedulerAssumption DEF CmdInv, CmdTypes, AddIdle, Register
<1>3. cancelled' = {}
  BY DEF CmdInv, InStage, AddIdle, Register
<1>4. AddedHaveJobs'
  BY <1>2 DEF CmdInv, IInv, TypeOK, AddedHaveJobs
<1>5. RunsInCallback'
  BY <1>2 DEF CmdInv, RunsInCallback, CmdTypes
<1> QED
  BY <1>1, <1>2, <1>3, <1>4, <1>5 DEF CmdInv, CmdTypes, InStage, ReportsInOrder

\* Steps of the main goroutine that change no job.
LEMMA MainInv ==
  ASSUME CmdInv,
         StartServer \/ StartReturns \/ StopServer \/ Exit \/ AddSuiteFails \/ Killed \/ Signal
  PROVE  CmdInv'
<1>1. IInv'
  BY SchedulerKept DEF CmdNext, MainStep
<1>2. UNCHANGED <<jobs, added, phase, hung, unsent>>
  BY DEF StartServer, StartReturns, StopServer, Exit, AddSuiteFails, Killed, Signal,
         StartBegin, StartDone, Stop, callVars, vars
<1>3. \A t \in Timers : status[t] = "running" => status'[t] = "running"
  BY DEF StartServer, StartReturns, StopServer, Exit, AddSuiteFails, Killed, Signal,
         StartBegin, StartDone, Stop, StopTimers, timerVars, vars
<1>4. main' \in Stages /\ InStage'
  BY DEF CmdInv, CmdTypes, Stages, InStage, StartServer, StartReturns, StopServer, Exit,
         AddSuiteFails, Killed, Signal, StartBegin, StartDone, Stop, callVars, vars
<1>5. AddedHaveJobs' /\ RunsInCallback'
  BY <1>2, <1>3 DEF CmdInv, AddedHaveJobs, RunsInCallback
<1> QED
  BY <1>1, <1>2, <1>4, <1>5 DEF CmdInv, CmdTypes, ReportsInOrder

\* Start arms timers and ends no callback.
LEMMA StartLoopInv == ASSUME CmdInv, StartLoop PROVE CmdInv'
<1>1. IInv'
  BY SchedulerKept DEF CmdNext, MainStep
<1>2. PICK o \in Objs, u \in Timers : StartSchedule(o, u)
  BY DEF StartLoop
<1>3. UNCHANGED <<jobs, running, mu, cancelled, cmdVars>>
  BY <1>2 DEF StartLoop, StartSchedule
<1>4. \A t \in Timers : status[t] = "running" => status'[t] = "running"
  BY <1>2 DEF StartSchedule, Schedule, Fresh
<1>5. AddedHaveJobs' /\ RunsInCallback'
  BY <1>3, <1>4 DEF CmdInv, AddedHaveJobs, RunsInCallback, cmdVars
<1> QED
  BY <1>1, <1>3, <1>5 DEF CmdInv, CmdTypes, InStage, ReportsInOrder, cmdVars

-----------------------------------------------------------------------------
\* No callback of a job is running when a timer of it fires, for a job never overlaps
\* itself; and when one fires all suites have been accepted, for nothing is armed before.
LEMMA FiresAlone ==
  ASSUME CmdInv, NEW t \in Timers, FireJob(t)
  PROVE  /\ Owner[t] \in Objs /\ phase[Owner[t]] = "idle"
         /\ added = Len(Paths)
<1>1. status[t] = "armed" /\ Owner[t] \in Objs
  BY SchedulerAssumption DEF FireJob, Fire
<1>2. phase[Owner[t]] = "idle"
  BY <1>1 DEF CmdInv, RunsInCallback, IInv, OneChain
<1>3. main # "load"
  BY <1>1 DEF CmdInv, InStage, IInv, BeforeRunning
<1> QED
  BY <1>1, <1>2, <1>3 DEF CmdInv, CmdTypes, Stages, InStage, FireJob, alive

\* A timer fires: its job enters suiteRunner.Run.
LEMMA FireJobInv == ASSUME CmdInv, NEW t \in Timers, FireJob(t) PROVE CmdInv'
<1>1. IInv'
  BY SchedulerKept DEF CmdNext
<1>2. /\ status' = [status EXCEPT ![t] = "running"]
      /\ phase' = [phase EXCEPT ![Owner[t]] = "suite"]
      /\ UNCHANGED <<jobs, running, mu, cancelled, main, added, hung, unsent>>
  BY DEF FireJob, Fire, callVars
<1>3. RunsInCallback'
  BY <1>2, FiresAlone DEF CmdInv, RunsInCallback, CmdTypes, IInv, TypeOK
<1>4. ReportsInOrder'
  BY <1>2, FiresAlone DEF CmdInv, CmdTypes, ReportsInOrder
<1> QED
  BY <1>1, <1>2, <1>3, <1>4 DEF CmdInv, CmdTypes, InStage, AddedHaveJobs

\* The steps of suiteRunner.Run leave the scheduler alone.
LEMMA RunnerInv ==
  ASSUME CmdInv, NEW o \in Objs, SuiteDone(o) \/ Notified(o) \/ NotifyHangs(o)
  PROVE  CmdInv'
<1>1. IInv'
  BY SchedulerKept DEF CmdNext
<1>2. UNCHANGED <<vars, main, added>>
  BY DEF SuiteDone, Notified, NotifyHangs
<1>3. RunsInCallback'
  BY <1>2 DEF CmdInv, RunsInCallback, CmdTypes, SuiteDone, Notified, NotifyHangs, vars
<1>4. ReportsInOrder' /\ CmdTypes'
  BY <1>2 DEF CmdInv, ReportsInOrder, CmdTypes, SuiteDone, Notified, NotifyHangs
<1> QED
  BY <1>1, <1>2, <1>3, <1>4 DEF CmdInv, InStage, AddedHaveJobs, vars

\* A callback that re-arms its job is out of suiteRunner.Run, and it is the only one.
LEMMA RearmInv == ASSUME CmdInv, NEW t \in Timers, NEW u \in Timers, Rearm(t, u) PROVE CmdInv'
<1>1. IInv'
  BY SchedulerKept DEF CmdNext
<1>2. UNCHANGED <<jobs, running, mu, cancelled, cmdVars>>
  BY DEF Rearm, RunDone, callVars
<1>3. \A v \in Timers : v # t /\ status[v] = "running" => status'[v] = "running"
  BY DEF Rearm, RunDone, Fresh, CmdInv, IInv, TypeOK
<1>4. RunsInCallback'
  BY <1>2, <1>3 DEF CmdInv, RunsInCallback, Rearm, cmdVars
<1> QED
  BY <1>1, <1>2, <1>4 DEF CmdInv, CmdTypes, InStage, AddedHaveJobs, ReportsInOrder, cmdVars

\* An assignment to job.timer releases no lock: the command has no Add that waits for it.
LEMMA StoreTimerInv == ASSUME CmdInv, NEW t \in Timers, StoreTimer(t) PROVE CmdInv'
<1>1. IInv'
  BY SchedulerKept DEF CmdNext
<1>2. UNCHANGED <<jobs, running, status, cancelled, cmdVars>>
  BY DEF StoreTimer, Store
<1>3. mu # "Add" => mu' = mu
  BY DEF StoreTimer, Store
<1> QED
  BY <1>1, <1>2, <1>3
  DEF CmdInv, CmdTypes, InStage, AddedHaveJobs, RunsInCallback, ReportsInOrder, cmdVars

LEMMA CmdUnchangedInv == ASSUME CmdInv, UNCHANGED allVars PROVE CmdInv'
<1>1. IInv'
  BY UnchangedInv DEF CmdInv, allVars
<1> QED
  BY <1>1 DEF CmdInv, CmdTypes, InStage, AddedHaveJobs, RunsInCallback, ReportsInOrder,
              allVars, vars, cmdVars

LEMMA CmdStepInv == CmdInv /\ [CmdNext]_allVars => CmdInv'
<1> SUFFICES ASSUME CmdInv, [CmdNext]_allVars PROVE CmdInv'
  OBVIOUS
<1>1. CASE MainStep
  BY <1>1, AddSuiteInv, MainInv, StartLoopInv DEF MainStep
<1> QED
  BY <1>1, MainInv, FireJobInv, StoreTimerInv, RunnerInv, RearmInv, CmdUnchangedInv
  DEF CmdNext, Gone

\* The conjunction CmdInv is an inductive invariant of the command.
THEOREM CmdInvariance == CmdSpec => []CmdInv
  BY CmdInitInv, CmdStepInv, PTL DEF CmdSpec

-----------------------------------------------------------------------------
\* The command drives its scheduler as the scheduler's specification allows, so that every
\* theorem about Spec holds of the command: no job overlaps itself, none is lost, and a
\* cancelled one does not come back.
THEOREM DrivesScheduler == CmdSpec => Spec
<1>1. CmdInit => Init
  BY DEF CmdInit
<1>2. CmdInv /\ [CmdNext]_allVars => [Next]_vars
  BY StepOfScheduler DEF CmdInv
<1> QED
  BY <1>1, <1>2, CmdInvariance, PTL DEF CmdSpec, Spec

\* A suite is never entered again before it is out of Run and Notify.
THEOREM RunsAlone == CmdSpec => SuiteRunsAlone
<1>1. CmdInv /\ [CmdNext]_allVars =>
        [\A t \in Timers : FireJob(t) => phase[Owner[t]] = "idle"]_allVars
  BY FiresAlone
<1> QED
  BY <1>1, CmdInvariance, PTL DEF CmdSpec, SuiteRunsAlone

\* The notifications of a suite come in the order of its runs.
THEOREM InOrderOfRuns == CmdSpec => []ReportsInOrder
  BY CmdInvariance, PTL DEF CmdInv

\* No suite runs unless all were accepted, and all of them are driven while the command
\* serves.
THEOREM AllSuitesOrNone == CmdSpec => []AllOrNothing
<1>1. CmdInv => AllOrNothing
  <2> SUFFICES ASSUME CmdInv, main = "serve", NEW i \in 1 .. Len(Paths)
               PROVE  jobs[Paths[i]] # NoObj /\ Live(jobs[Paths[i]]) # {}
    BY DEF CmdInv, RunsInCallback, AllOrNothing
  <2>1. jobs[Paths[i]] # NoObj
    BY DEF CmdInv, InStage, AddedHaveJobs
  <2>2. Paths[i] \in Names
    BY RunCommandAssumption
  <2>3. jobs[Paths[i]] \in Registered \ cancelled
    BY <2>1, <2>2 DEF CmdInv, InStage, Registered
  <2> QED
    BY <2>1, <2>3 DEF CmdInv, InStage, IInv, NeverLost
<1> QED
  BY <1>1, CmdInvariance, PTL
=============================================================================
