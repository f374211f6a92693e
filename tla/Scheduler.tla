----------------------------- MODULE Scheduler ------------------------------
(***************************************************************************)
(* scheduler/scheduler.go and scheduler/job.go.  Jobs are registered under *)
(* a name and each is driven by a chain of one-shot runtime timers: a      *)
(* fired timer runs the job in a goroutine of its own, which then arms the *)
(* next timer.                                                             *)
(*                                                                         *)
(* Add, AddCron, Remove, Start and Stop hold Scheduler.mu.  The callbacks  *)
(* do not, so they interleave with the operations, and the assignment of   *)
(* job.timer is a step apart from the time.AfterFunc call whose result it  *)
(* stores.  The callbacks' assignments race with each other and with       *)
(* cancel's read of the field: Store(t) is the moment the assignment       *)
(* becomes visible, in any order.  Without LateStores it is visible before *)
(* the timer fires, as it is unless a goroutine is held up for a whole     *)
(* interval.                                                               *)
(*                                                                         *)
(* Time is left out: an armed timer may fire at any moment (JobTimer has   *)
(* the clock).                                                             *)
(***************************************************************************)
EXTENDS FiniteSets

CONSTANTS Names,      \* the keys of Scheduler.jobs (paths of suites)
          Objs,       \* addresses of *job objects
          Timers,     \* addresses of *time.Timer objects; bounds the timers alive at once
          Owner,      \* the job each timer is allocated for, which its callback captures
          LateStores, \* whether a timer can fire before job.timer is seen to refer to it
          NoObj,      \* no entry in Scheduler.jobs
          NoTimer     \* the nil *time.Timer

ASSUME SchedulerAssumption ==
  /\ Owner \in [Timers -> Objs]
  /\ LateStores \in BOOLEAN
  /\ NoObj \notin Objs
  /\ NoTimer \notin Timers

VARIABLES jobs,       \* Scheduler.jobs
          running,    \* Scheduler.running
          mu,         \* the operation that holds Scheduler.mu across steps, or "free"
          todo,       \* the jobs Start's loop has not reached
          storing,    \* the timer whose assignment to job.timer the holder of mu owes
          timer,      \* job.timer, for each job object
          status,     \* runtime state of each timer and of the callback it spawned
          unstored,   \* timers returned by AfterFunc and not yet assigned to job.timer
          cancelled   \* history: the job objects on which cancel was called

callVars == <<jobs, running, mu, todo, storing>>
timerVars == <<timer, status, unstored>>
vars == <<jobs, running, mu, todo, storing, timer, status, unstored, cancelled>>

Registered == {jobs[n] : n \in Names} \ {NoObj}

\* The timers of job o that are armed or whose callback is executing Run.
Live(o) == {t \in Timers : Owner[t] = o /\ status[t] # "idle"}

\* Garbage collection: a timer or a job that nothing refers to can be allocated anew (a
\* timer for the same job, which only says how the pool of addresses is divided).
Fresh(t) ==
  /\ status[t] = "idle"
  /\ t \notin unstored
  /\ \A o \in Objs : timer[o] # t

Unused(o) ==
  /\ o \notin Registered
  /\ Live(o) = {}
  /\ \A t \in unstored : Owner[t] # o

\* The effect of cancel on each job of js: Stop has an effect on an armed timer only,
\* and only on the one job.timer points to.
StopTimers(js) ==
  [t \in Timers |-> IF status[t] = "armed" /\ \E o \in js : timer[o] = t
                    THEN "idle" ELSE status[t]]

-----------------------------------------------------------------------------
Init ==
  /\ jobs = [n \in Names |-> NoObj]
  /\ running = FALSE
  /\ mu = "free"
  /\ todo = {}
  /\ storing = NoTimer
  /\ timer = [o \in Objs |-> NoTimer]
  /\ status = [t \in Timers |-> "idle"]
  /\ unstored = {}
  /\ cancelled = {}

\* time.AfterFunc, the first half of schedule, called for job o by the holder of mu.
Schedule(o, t) ==
  /\ Owner[t] = o
  /\ Fresh(t)
  /\ status' = [status EXCEPT ![t] = "armed"]
  /\ unstored' = unstored \cup {t}
  /\ storing' = t

\* A new job in the map: the registration half of Add and AddCron.
Register(n, o) ==
  /\ mu = "free"
  /\ jobs[n] = NoObj
  /\ Unused(o)
  /\ jobs' = [jobs EXCEPT ![n] = o]
  /\ timer' = [timer EXCEPT ![o] = NoTimer]
  /\ cancelled' = cancelled \ {o}

\* Mutant: Add forgets its test of running and schedules at once.
EagerAdd(n, o) ==
  /\ Register(n, o)
  /\ ~running
  /\ \E t \in Timers : Schedule(o, t)
  /\ mu' = "Add"
  /\ UNCHANGED <<running, todo>>

\* Add or AddCron while the scheduler is not started.
AddIdle(n, o) ==
  /\ Register(n, o)
  /\ ~running
  /\ UNCHANGED <<running, mu, todo, storing, status, unstored>>

\* Mutant: Add never schedules the job itself.
LazyAdd(n, o, t) ==
  /\ Register(n, o)
  /\ running
  /\ UNCHANGED <<running, mu, todo, storing, status, unstored>>

\* Add or AddCron while running: mu is held until job.timer is assigned.
AddRunning(n, o, t) ==
  /\ Register(n, o)
  /\ running
  /\ Schedule(o, t)
  /\ mu' = "Add"
  /\ UNCHANGED <<running, todo>>

StartBegin ==
  /\ mu = "free"
  /\ ~running
  /\ mu' = "Start"
  /\ todo' = Registered
  /\ UNCHANGED <<jobs, running, storing, timerVars, cancelled>>

\* Mutant: Start leaves the job it has scheduled in its work list.
StartTwice(o, t) ==
  /\ mu = "Start"
  /\ storing = NoTimer
  /\ o \in todo
  /\ Schedule(o, t)
  /\ UNCHANGED <<jobs, running, mu, todo, timer, cancelled>>

\* One iteration of Start's loop over the map, in any order.
StartSchedule(o, t) ==
  /\ mu = "Start"
  /\ storing = NoTimer
  /\ o \in todo
  /\ Schedule(o, t)
  /\ todo' = todo \ {o}
  /\ UNCHANGED <<jobs, running, mu, timer, cancelled>>

StartDone ==
  /\ mu = "Start"
  /\ storing = NoTimer
  /\ todo = {}
  /\ running' = TRUE
  /\ mu' = "free"
  /\ UNCHANGED <<jobs, todo, storing, timerVars, cancelled>>

\* Mutant: Stop clears running, so that a second Start schedules every job again.
StopAndReset ==
  /\ mu = "free"
  /\ running
  /\ status' = StopTimers(Registered)
  /\ cancelled' = cancelled \cup Registered
  /\ running' = FALSE
  /\ UNCHANGED <<jobs, mu, todo, storing, timer, unstored>>

\* Stop cancels every job.  It neither clears running nor uses its context.
Stop ==
  /\ mu = "free"
  /\ running
  /\ status' = StopTimers(Registered)
  /\ cancelled' = cancelled \cup Registered
  /\ UNCHANGED <<callVars, timer, unstored>>

\* Mutant: Remove forgets to test that the job exists.
RemoveUnchecked(n) ==
  /\ mu = "free"
  /\ status' = StopTimers({jobs[n]})
  /\ jobs' = [jobs EXCEPT ![n] = NoObj]
  /\ cancelled' = cancelled \cup {jobs[n]}
  /\ UNCHANGED <<running, mu, todo, storing, timer, unstored>>

Remove(n) ==
  /\ mu = "free"
  /\ jobs[n] # NoObj
  /\ status' = StopTimers({jobs[n]})
  /\ jobs' = [jobs EXCEPT ![n] = NoObj]
  /\ cancelled' = cancelled \cup {jobs[n]}
  /\ UNCHANGED <<running, mu, todo, storing, timer, unstored>>

\* The calls that return an error change nothing: Start returns ErrAlreadyStarted, Add
\* and AddCron ErrJobAlreadyExist, Stop ErrNotRunning and Remove ErrJobNotFound.
StartRefused == mu = "free" /\ running /\ UNCHANGED vars
AddRefused(n) == mu = "free" /\ jobs[n] # NoObj /\ UNCHANGED vars
StopRefused == mu = "free" /\ ~running /\ UNCHANGED vars
RemoveRefused(n) == mu = "free" /\ jobs[n] = NoObj /\ UNCHANGED vars

-----------------------------------------------------------------------------
\* A timer fires: its callback starts, in a new goroutine, with job.Run.
Fire(t) ==
  /\ status[t] = "armed"
  /\ LateStores \/ t \notin unstored
  /\ status' = [status EXCEPT ![t] = "running"]
  /\ UNCHANGED <<callVars, timer, unstored, cancelled>>

\* job.Run returns and the callback arms the next timer; the assignment is still to come.
RunDone(t, u) ==
  /\ status[t] = "running"
  /\ Owner[u] = Owner[t]
  /\ Fresh(u)
  /\ status' = [status EXCEPT ![t] = "idle", ![u] = "armed"]
  /\ unstored' = unstored \cup {u}
  /\ UNCHANGED <<callVars, timer, cancelled>>

\* The assignment to job.timer, by a callback (which then ends), by Start or by Add
\* (which then releases mu).
Store(t) ==
  /\ t \in unstored
  /\ timer' = [timer EXCEPT ![Owner[t]] = t]
  /\ unstored' = unstored \ {t}
  /\ storing' = IF t = storing THEN NoTimer ELSE storing
  /\ mu' = IF t = storing /\ mu = "Add" THEN "free" ELSE mu
  /\ UNCHANGED <<jobs, running, todo, status, cancelled>>

-----------------------------------------------------------------------------
Calls ==
  \/ \E n \in Names, o \in Objs : AddIdle(n, o)
  \/ \E n \in Names, o \in Objs, t \in Timers : AddRunning(n, o, t)
  \/ StartBegin \/ StartRefused
  \/ Stop \/ StopRefused
  \/ \E n \in Names : Remove(n) \/ AddRefused(n) \/ RemoveRefused(n)

StartStep ==
  \/ \E o \in Objs, t \in Timers : StartSchedule(o, t)
  \/ StartDone

Next ==
  \/ Calls
  \/ StartStep
  \/ \E t \in Timers : Fire(t) \/ Store(t)
  \/ \E t, u \in Timers : RunDone(t, u)

Spec == Init /\ [][Next]_vars

-----------------------------------------------------------------------------
TypeOK ==
  /\ jobs \in [Names -> Objs \cup {NoObj}]
  /\ running \in BOOLEAN
  /\ mu \in {"free", "Add", "Start"}
  /\ todo \subseteq Objs
  /\ storing \in Timers \cup {NoTimer}
  /\ timer \in [Objs -> Timers \cup {NoTimer}]
  /\ status \in [Timers -> {"idle", "armed", "running"}]
  /\ unstored \subseteq Timers
  /\ cancelled \subseteq Objs

\* A job never overlaps itself: at any moment at most one timer of a job is armed or in
\* its callback, whatever calls and callbacks interleave (job.go:22-28).
OneChain ==
  \A t, u \in Timers :
    Owner[t] = Owner[u] /\ status[t] # "idle" /\ status[u] # "idle" => t = u

\* "The job runs [...] when the scheduler is started or already running"
\* (scheduler.go:63-64): before Start nothing is armed.
QuietBeforeStart ==
  ~running /\ mu = "free" => \A t \in Timers : status[t] = "idle"

\* No job is lost: once started, a registered job that was not cancelled has a next run
\* pending or a run in progress, in every interleaving of Start, Add and the callbacks.
NeverLost ==
  running => \A o \in Registered \ cancelled : Live(o) # {}

\* A cancel that found its job's chain ended (or ended it) is final: no step re-arms the
\* job, neither Start after Stop nor a late callback (scheduler.go:51-61, 115-127).
CancelIsFinal ==
  [][\A o \in Objs : o \in cancelled /\ Live(o) = {} /\ o \in cancelled'
                       => Live(o)' = {}]_vars

\* Scheduler implements JobCycle: the waiting jobs are those with an armed timer, the
\* jobs in a run those with a callback in Run.
Owners(s) == {Owner[t] : t \in {u \in Timers : status[u] = s}}
Cycle == INSTANCE JobCycle WITH Jobs <- Objs,
                                waiting <- Owners("armed"), inRun <- Owners("running")
ImplementsJobCycle == Cycle!Spec

-----------------------------------------------------------------------------
\* "Stop stops the scheduler." (scheduler.go:50), "Remove removes the job from the
\* scheduler." (scheduler.go:114): no timer of a job that either cancelled is armed.
CancelledIsQuiet ==
  \A t \in Timers : status[t] = "armed" => Owner[t] \in Registered \ cancelled
=============================================================================
