---------------------------- MODULE SuiteVerdict -----------------------------
(***************************************************************************)
(* What one run of a test suite promises, whatever the attempts it takes:  *)
(* the tests are judged one by one in their order, each once; a fail-fast  *)
(* run ends with its first failure, a cancelled run with the test that was *)
(* in progress, and any other run judges every test.  SuiteRun implements  *)
(* this.                                                                   *)
(***************************************************************************)
EXTENDS Naturals, Sequences

CONSTANTS Cancellable     \* whether the run's context can be cancelled

VARIABLES nb,             \* how many tests the suite has
          failfast,       \* whether it stops after the first failure
          verdicts,       \* one of "passed" and "failed" for each test judged
          active,         \* whether a run is in progress
          cancelled       \* whether its context was cancelled

vars == <<nb, failfast, verdicts, active, cancelled>>

Init ==
  /\ nb \in Nat
  /\ failfast \in BOOLEAN
  /\ verdicts = <<>>
  /\ active = FALSE
  /\ cancelled = FALSE

Begin ==
  /\ ~active
  /\ active' = TRUE
  /\ verdicts' = <<>>
  /\ cancelled' = FALSE
  /\ UNCHANGED <<nb, failfast>>

Cancel ==
  /\ Cancellable
  /\ active
  /\ ~cancelled
  /\ cancelled' = TRUE
  /\ UNCHANGED <<nb, failfast, verdicts, active>>

\* The next test is judged, and the run goes on unless that is a reason to end it.
Judge(v) ==
  /\ active
  /\ Len(verdicts) < nb
  /\ verdicts' = Append(verdicts, v)
  /\ active' = ((v = "passed" \/ ~failfast) /\ ~cancelled)
  /\ UNCHANGED <<nb, failfast, cancelled>>

Finish ==
  /\ active
  /\ Len(verdicts) = nb
  /\ active' = FALSE
  /\ UNCHANGED <<nb, failfast, verdicts, cancelled>>

Next == Begin \/ Cancel \/ Judge("passed") \/ Judge("failed") \/ Finish

Spec == Init /\ [][Next]_vars
=============================================================================
