---------------------------- MODULE MCScheduler -----------------------------
\* Small instances of Scheduler for TLC.
EXTENDS Scheduler, TLC

CONSTANTS j1, j2, t1, t2, t3, u1, u2, u3

\* Three timers for each job: one armed or running, one that job.timer still refers to,
\* and one to arm next.
JobTimers == [t \in {t1, t2, t3} |-> j1] @@ [t \in {u1, u2, u3} |-> j2]
OneJobTimers == [t \in {t1, t2, t3} |-> j1]

Symmetry ==
  Permutations(Names) \cup Permutations({t1, t2, t3}) \cup Permutations({u1, u2, u3})
=============================================================================
