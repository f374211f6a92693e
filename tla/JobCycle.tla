------------------------------ MODULE JobCycle ------------------------------
(***************************************************************************)
(* What a scheduled job may rely on, whatever mechanism drives it: it is   *)
(* off, waiting for its next run, or in a run; it is never in two of these *)
(* at once, a run is always preceded by a wait, and only a waiting job can *)
(* be cancelled (a run is never interrupted).  Scheduler implements this.  *)
(***************************************************************************)
CONSTANT Jobs                 \* the job objects

VARIABLES waiting,            \* jobs whose next run is pending
          inRun               \* jobs that are executing

vars == <<waiting, inRun>>

Init == waiting = {} /\ inRun = {}

Schedule(j) ==
  /\ j \notin waiting \cup inRun
  /\ waiting' = waiting \cup {j}
  /\ UNCHANGED inRun

Begin(j) ==
  /\ j \in waiting
  /\ waiting' = waiting \ {j}
  /\ inRun' = inRun \cup {j}

End(j) ==
  /\ j \in inRun
  /\ inRun' = inRun \ {j}
  /\ waiting' = waiting \cup {j}

Cancel(js) ==
  /\ waiting' = waiting \ js
  /\ UNCHANGED inRun

Next ==
  \/ \E j \in Jobs : Schedule(j) \/ Begin(j) \/ End(j)
  \/ \E js \in SUBSET Jobs : Cancel(js)

Spec == Init /\ [][Next]_vars
=============================================================================
