----------------------------- MODULE RunCommand ------------------------------
(***************************************************************************)
(* The command "aragorn run" (cmd/aragorn/run.go) with the server that it  *)
(* drives (server/server.go): the suites of the configuration are added to *)
(* the scheduler, the scheduler is started, suites run and notify until a  *)
(* signal arrives, then the scheduler is stopped and the process exits.    *)
(*                                                                         *)
(* The scheduler's operations are the actions of Scheduler; this module    *)
(* gives them their caller (the main goroutine) and gives the jobs their   *)
(* body, suiteRunner.Run: the suite (SuiteRun), then the notifier.  A call *)
(* of the notifier may never return: slack.go:137 posts without a timeout. *)
(***************************************************************************)
EXTENDS Scheduler, Sequences, Naturals

CONSTANTS Paths,         \* the path of each suite of the configuration, in its order
          HasNotifier    \* whether GenNotifier returned one

ASSUME RunCommandAssumption == Paths \in Seq(Names) /\ HasNotifier \in BOOLEAN

VARIABLES main,          \* what the main goroutine does
          added,         \* how many suites AddSuite has accepted
          phase,         \* where suiteRunner.Run is, for each job
          hung,          \* the jobs whose notifier call will never return
          unsent         \* history: the jobs with a report the notifier does not have yet

cmdVars == <<main, added, phase, hung, unsent>>
allVars == <<vars, cmdVars>>

alive == main # "exited"

CmdInit ==
  /\ Init
  /\ main = "load"
  /\ added = 0
  /\ phase = [o \in Objs |-> "idle"]
  /\ hung = {}
  /\ unsent = {}

\* Mutant: a suite that cannot be scheduled is skipped.
AddSuiteOrSkip(o) ==
  /\ main = "load"
  /\ added < Len(Paths)
  /\ AddIdle(Paths[added + 1], o) \/ UNCHANGED vars
  /\ added' = added + 1
  /\ UNCHANGED <<main, phase, hung, unsent>>

\* One iteration of the loop of run.go:49-53; the job is new, so its phase is idle.
AddSuite(o) ==
  /\ main = "load"
  /\ added < Len(Paths)
  /\ AddIdle(Paths[added + 1], o)
  /\ added' = added + 1
  /\ UNCHANGED <<main, phase, hung, unsent>>

\* AddSuite fails, because of a second suite with the same path or a bad scheduling rule
\* (none, or an invalid cron expression): the command returns the error.
AddSuiteFails ==
  /\ main = "load"
  /\ added < Len(Paths)
  /\ main' = "exited"
  /\ UNCHANGED <<vars, added, phase, hung, unsent>>

\* Server.Start: the first step of Scheduler.Start, its loop, and its end.
StartServer ==
  /\ main = "load"
  /\ added = Len(Paths)
  /\ StartBegin
  /\ main' = "start"
  /\ UNCHANGED <<added, phase, hung, unsent>>

StartLoop ==
  /\ main = "start"
  /\ \E o \in Objs, t \in Timers : StartSchedule(o, t)
  /\ UNCHANGED cmdVars

StartReturns ==
  /\ main = "start"
  /\ StartDone
  /\ main' = "serve"
  /\ UNCHANGED <<added, phase, hung, unsent>>

\* A signal that comes before handleSignals has asked for it ends the process.
Killed ==
  /\ main \in {"load", "start"}
  /\ main' = "exited"
  /\ UNCHANGED <<vars, added, phase, hung, unsent>>

\* handleSignals returns on the first SIGINT or SIGTERM.
Signal ==
  /\ main = "serve"
  /\ main' = "stop"
  /\ UNCHANGED <<vars, added, phase, hung, unsent>>

\* Mutant: Stop waits for the runs in progress.
StopServerWaits ==
  /\ main = "stop"
  /\ \A o \in Objs : phase[o] = "idle"
  /\ Stop
  /\ main' = "stopped"
  /\ UNCHANGED <<added, phase, hung, unsent>>

StopServer ==
  /\ main = "stop"
  /\ Stop
  /\ main' = "stopped"
  /\ UNCHANGED <<added, phase, hung, unsent>>

\* Run returns to main and the process exits, with all its goroutines.
Exit ==
  /\ main = "stopped"
  /\ main' = "exited"
  /\ UNCHANGED <<vars, added, phase, hung, unsent>>

-----------------------------------------------------------------------------
\* The callback of a timer begins with suiteRunner.Run, and that with Suite.Run.
FireJob(t) ==
  /\ alive
  /\ Fire(t)
  /\ phase' = [phase EXCEPT ![Owner[t]] = "suite"]
  /\ UNCHANGED <<main, added, hung, unsent>>

\* Mutant: the report is sent from a goroutine of its own.
SuiteDoneAsync(o) ==
  /\ alive
  /\ phase[o] = "suite"
  /\ phase' = [phase EXCEPT ![o] = "idle"]
  /\ unsent' = unsent \cup {o}
  /\ UNCHANGED <<vars, main, added, hung>>

\* Suite.Run returns its report (RunEnds of SuiteRun).
SuiteDone(o) ==
  /\ alive
  /\ phase[o] = "suite"
  /\ IF HasNotifier
     THEN phase' = [phase EXCEPT ![o] = "notify"] /\ unsent' = unsent \cup {o}
     ELSE phase' = [phase EXCEPT ![o] = "idle"] /\ unsent' = unsent
  /\ UNCHANGED <<vars, main, added, hung>>

\* Mutant: the notifier serves one job at a time.
NotifiedInTurn(o) ==
  /\ alive
  /\ phase[o] = "notify"
  /\ hung = {}
  /\ phase' = [phase EXCEPT ![o] = "idle"]
  /\ unsent' = unsent \ {o}
  /\ UNCHANGED <<vars, main, added, hung>>

\* Notify delivers the report or gives up on it: either way the call is over.
Notified(o) ==
  /\ alive
  /\ phase[o] = "notify"
  /\ o \notin hung
  /\ phase' = [phase EXCEPT ![o] = "idle"]
  /\ unsent' = unsent \ {o}
  /\ UNCHANGED <<vars, main, added, hung>>

\* The webhook accepts the connection and never answers.
NotifyHangs(o) ==
  /\ alive
  /\ phase[o] = "notify"
  /\ o \notin hung
  /\ hung' = hung \cup {o}
  /\ UNCHANGED <<vars, main, added, phase, unsent>>

\* Mutant: the callback starts the run and arms the next timer without waiting for it.
RearmEarly(t, u) ==
  /\ alive
  /\ RunDone(t, u)
  /\ UNCHANGED cmdVars

\* suiteRunner.Run has returned: the callback arms the next timer.
Rearm(t, u) ==
  /\ alive
  /\ phase[Owner[t]] = "idle"
  /\ RunDone(t, u)
  /\ UNCHANGED cmdVars

StoreTimer(t) ==
  /\ alive
  /\ Store(t)
  /\ UNCHANGED cmdVars

\* The process is gone.
Gone == ~alive /\ UNCHANGED allVars

-----------------------------------------------------------------------------
MainStep ==
  \/ \E o \in Objs : AddSuite(o)
  \/ StartServer
  \/ StartLoop
  \/ StartReturns
  \/ StopServer
  \/ Exit

CmdNext ==
  \/ MainStep
  \/ AddSuiteFails
  \/ Killed
  \/ Signal
  \/ \E t \in Timers : FireJob(t) \/ StoreTimer(t)
  \/ \E o \in Objs : SuiteDone(o) \/ Notified(o) \/ NotifyHangs(o)
  \/ \E t, u \in Timers : Rearm(t, u)
  \/ Gone

CmdSpec == CmdInit /\ [][CmdNext]_allVars

\* Goroutines are scheduled and timers fire; a suite's run ends (RunEnds of SuiteRun) and
\* a notifier call returns unless it hangs.  No signal need ever come.  Fairness is strong
\* for Rearm because of the bound Timers alone: other jobs can take the last fresh timer
\* again and again, where the program always has memory for one more.
CmdFairness ==
  /\ WF_allVars(MainStep)
  /\ \A t \in Timers : WF_allVars(FireJob(t)) /\ WF_allVars(StoreTimer(t))
  /\ \A o \in Objs : WF_allVars(SuiteDone(o)) /\ WF_allVars(Notified(o))
  /\ \A t \in Timers : SF_allVars(\E u \in Timers : Rearm(t, u))

CmdFairSpec == CmdSpec /\ CmdFairness

-----------------------------------------------------------------------------
\* A suite is run only by its own callback and never entered again before it is out of
\* Run and Notify: its tests keep state from one step to the next (server.go:63-69).
SuiteRunsAlone ==
  [][\A t \in Timers : FireJob(t) => phase[Owner[t]] = "idle"]_allVars

\* No run starts before the report of the run before it was handed to the notifier, so
\* the notifications of a suite come in the order of its runs (server.go:65-68).
ReportsInOrder == \A o \in unsent : phase[o] = "notify"

\* All or nothing: no suite runs unless every suite of the configuration was accepted,
\* and while the command serves each of them has its chain of timers (run.go:49-56).
AllOrNothing ==
  /\ (\E o \in Objs : phase[o] # "idle") => added = Len(Paths)
  /\ main = "serve" =>
       \A i \in 1 .. Len(Paths) : jobs[Paths[i]] # NoObj /\ Live(jobs[Paths[i]]) # {}

\* A notifier call that never returns stops the suite that made it and no other one.
OthersGoOn ==
  \A o \in Objs :
    main = "serve" /\ o \in Registered
      ~> phase[o] = "suite" \/ o \in hung \/ main # "serve"

\* After the signal the process exits, whatever its suites and notifiers are doing.
ShutsDown == main = "stop" ~> main = "exited"

=============================================================================
