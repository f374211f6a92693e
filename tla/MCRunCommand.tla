---------------------------- MODULE MCRunCommand -----------------------------
\* Small instances of RunCommand for TLC.
EXTENDS RunCommand, TLC

CONSTANTS n1, n2

\* Two suites, and one.
TwoSuites == <<n1, n2>>
OneSuite == <<n1>>

CONSTANTS j1, j2, t1, t2, t3, u1, u2, u3

\* For each job a timer that is armed or running, which job.timer refers to, and one to arm
\* next.  With LateStores a third is needed, since job.timer can refer to an earlier one.
PairTimers == [t \in {t1, t2} |-> j1] @@ [t \in {u1, u2} |-> j2]
OneJobTimers == [t \in {t1, t2, t3} |-> j1]
=============================================================================
