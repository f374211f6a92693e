------------------------------ MODULE SuiteRun ------------------------------
(***************************************************************************)
(* server/suite.go (Run, runTests, runTestWithRetry, runTest) with the     *)
(* report of notifier/notifier.go.  A run takes the tests in order; a test *)
(* is attempted until an attempt reports no error or the attempts are used *)
(* up, with a pause before each retry; every attempt has a context of its  *)
(* own, which expires after the suite's timeout.                           *)
(*                                                                         *)
(* The test itself (a plugin: HTTP, gRPC) is the environment: it reports   *)
(* any errors and returns at any moment.  The other actor is whoever owns  *)
(* the run's context.  The same suite can be run again.                    *)
(***************************************************************************)
EXTENDS Naturals, Sequences, FiniteSets

CONSTANTS MaxTests,     \* bound: tests in a suite
          MaxRetries,   \* bound: Suite.retryCount
          MaxErrs,      \* bound: errors one attempt reports
          Cancellable   \* whether the context passed to Run can be cancelled (the
                        \* commands pass context.Background(), which cannot)

ASSUME SuiteRunAssumption ==
  /\ MaxTests \in Nat /\ MaxRetries \in Nat /\ MaxErrs \in Nat
  /\ Cancellable \in BOOLEAN

VARIABLES suite,        \* the fields of Suite that steer a run
          pc,           \* where the run is
          reports,      \* Report.TestReports; attempts is a history field
          nbFailed,     \* Report.NbFailed
          attempt,      \* the local of runTestWithRetry
          expired,      \* whether the context of the attempt is done
          ctxDone       \* whether the context passed to Run is done

vars == <<suite, pc, reports, nbFailed, attempt, expired, ctxDone>>

\* retryCount and timeout are 0 when the file sets them to 0 or less (applyConfig).
Suites == [nb : 0..MaxTests, retryCount : 0..MaxRetries, failfast : BOOLEAN,
           timeout : {0, 1}]

\* README.md:34-36: the response is unexpected, or the request could not be performed.
Kinds == {"failure", "error"}

TestReport == [errs : Seq([kind : Kinds, attempt : Nat]), attempts : Nat]

last == Len(reports)

Init ==
  /\ suite \in Suites
  /\ pc = "idle"
  /\ reports = <<>>
  /\ nbFailed = 0
  /\ attempt = 0
  /\ expired = FALSE
  /\ ctxDone = FALSE

\* Mutant: the count of failures is kept in the suite and never reset.
BeginKeepingCount ==
  /\ pc \in {"idle", "returned"}
  /\ pc' = "loop"
  /\ reports' = <<>>
  /\ ctxDone' = FALSE
  /\ UNCHANGED <<suite, nbFailed, attempt, expired>>

\* Run: a new report, and the context of this call.
Begin ==
  /\ pc \in {"idle", "returned"}
  /\ pc' = "loop"
  /\ reports' = <<>>
  /\ nbFailed' = 0
  /\ ctxDone' = FALSE
  /\ UNCHANGED <<suite, attempt, expired>>

Cancel ==
  /\ Cancellable
  /\ pc \notin {"idle", "returned"}
  /\ ~ctxDone
  /\ ctxDone' = TRUE
  /\ expired' = TRUE
  /\ UNCHANGED <<suite, pc, reports, nbFailed, attempt>>

\* runTest up to the call of Test.Run: context.WithTimeout on the run's context.
NewAttempt(n) ==
  /\ pc' = "test"
  /\ attempt' = n
  /\ expired' = (ctxDone \/ suite.timeout = 0)

\* The head of the loop over the tests: NewTestReport, then the first attempt.
NextTest ==
  /\ pc = "loop"
  /\ last < suite.nb
  /\ reports' = Append(reports, [errs |-> <<>>, attempts |-> 1])
  /\ NewAttempt(1)
  /\ UNCHANGED <<suite, nbFailed, ctxDone>>

Finish ==
  /\ pc = "loop"
  /\ last = suite.nb
  /\ pc' = "returned"
  /\ UNCHANGED <<suite, reports, nbFailed, attempt, expired, ctxDone>>

-----------------------------------------------------------------------------
\* Test.Run reports an error (TestReport.Error and Errorf).
LogError(k) ==
  /\ pc = "test"
  /\ Len(reports[last].errs) < MaxErrs
  /\ reports' = [reports EXCEPT ![last].errs = Append(@, [kind |-> k, attempt |-> attempt])]
  /\ UNCHANGED <<suite, pc, nbFailed, attempt, expired, ctxDone>>

\* Mutant: only the first attempt has a timeout.
ExpireFirst ==
  /\ pc = "test"
  /\ attempt = 1
  /\ ~expired
  /\ expired' = TRUE
  /\ UNCHANGED <<suite, pc, reports, nbFailed, attempt, ctxDone>>

\* The timeout of the attempt's context.
Expire ==
  /\ pc = "test"
  /\ ~expired
  /\ expired' = TRUE
  /\ UNCHANGED <<suite, pc, reports, nbFailed, attempt, ctxDone>>

\* Mutant: every run stops at its first failure.
EndTestFailFast(ok) ==
  /\ nbFailed' = nbFailed + (IF ok THEN 0 ELSE 1)
  /\ pc' = IF ~ok \/ ctxDone THEN "returned" ELSE "loop"
  /\ UNCHANGED <<suite, reports, attempt, expired, ctxDone>>

\* runTestWithRetry returns ok to runTests, which counts a failure and goes on to the
\* next test unless it fails fast or the context of the run is done.
EndTest(ok) ==
  /\ nbFailed' = nbFailed + (IF ok THEN 0 ELSE 1)
  /\ pc' = IF (~ok /\ suite.failfast) \/ ctxDone THEN "returned" ELSE "loop"
  /\ UNCHANGED <<suite, reports, attempt, expired, ctxDone>>

\* Test.Run returns: without an error the test passed,
Passed ==
  /\ pc = "test"
  /\ reports[last].errs = <<>>
  /\ EndTest(TRUE)

\* otherwise it failed for good when the attempts are used up,
Failed ==
  /\ pc = "test"
  /\ reports[last].errs # <<>>
  /\ attempt >= suite.retryCount
  /\ EndTest(FALSE)

\* Mutant: the report is reset before the pause instead of after it.
WaitReset ==
  /\ pc = "test"
  /\ reports[last].errs # <<>>
  /\ attempt < suite.retryCount
  /\ pc' = "wait"
  /\ reports' = [reports EXCEPT ![last].errs = <<>>]
  /\ UNCHANGED <<suite, nbFailed, attempt, expired, ctxDone>>

\* Mutant: retryCount counts the retries and not the attempts.
WaitOnceMore ==
  /\ pc = "test"
  /\ reports[last].errs # <<>>
  /\ attempt <= suite.retryCount
  /\ pc' = "wait"
  /\ UNCHANGED <<suite, reports, nbFailed, attempt, expired, ctxDone>>

\* or waits for its retry.
Wait ==
  /\ pc = "test"
  /\ reports[last].errs # <<>>
  /\ attempt < suite.retryCount
  /\ pc' = "wait"
  /\ UNCHANGED <<suite, reports, nbFailed, attempt, expired, ctxDone>>

\* The two cases of the select: either may be taken when both are ready.
GiveUp ==
  /\ pc = "wait"
  /\ ctxDone
  /\ EndTest(FALSE)

\* Mutant: the report is not reset.
RetryUnreset ==
  /\ pc = "wait"
  /\ reports' = [reports EXCEPT ![last].attempts = attempt + 1]
  /\ NewAttempt(attempt + 1)
  /\ UNCHANGED <<suite, nbFailed, ctxDone>>

Retry ==
  /\ pc = "wait"
  /\ reports' = [reports EXCEPT ![last] = [errs |-> <<>>, attempts |-> attempt + 1]]
  /\ NewAttempt(attempt + 1)
  /\ UNCHANGED <<suite, nbFailed, ctxDone>>

-----------------------------------------------------------------------------
Return == Passed \/ Failed \/ Wait

RunStep == NextTest \/ Finish \/ Return \/ GiveUp \/ Retry

Next ==
  \/ Begin
  \/ Cancel
  \/ \E k \in Kinds : LogError(k)
  \/ Expire
  \/ RunStep

Spec == Init /\ [][Next]_vars

\* The run's own goroutine goes on, timers expire, and a test returns once its context is
\* done (it may never return before).
Fairness ==
  /\ WF_vars(NextTest \/ Finish \/ GiveUp \/ Retry)
  /\ WF_vars(Expire)
  /\ WF_vars(expired /\ Return)

FairSpec == Spec /\ Fairness

-----------------------------------------------------------------------------
TypeOK ==
  /\ suite \in Suites
  /\ pc \in {"idle", "loop", "test", "wait", "returned"}
  /\ last <= suite.nb
  /\ reports \in Seq(TestReport)
  /\ nbFailed \in 0 .. MaxTests
  /\ attempt \in Nat
  /\ expired \in BOOLEAN
  /\ ctxDone \in BOOLEAN

\* The reports of the tests that are judged: the last one is open while it is attempted.
Closed == IF pc \in {"test", "wait"} THEN 1 .. last - 1 ELSE 1 .. last
WithErrors == {k \in Closed : reports[k].errs # <<>>}

\* The exit status (exec.go:87, from NbFailed) and the notification (slack.go:69-74, from
\* the errors of the test reports) agree on which runs failed, whatever was retried,
\* reset, abandoned or cancelled on the way.
CountAgrees == nbFailed = Cardinality(WithErrors)

\* A report never shows an error of an attempt that was retried (suite.go:175), nor hides
\* one of the attempt it describes.
LastAttemptOnly ==
  \A k \in 1 .. last : \A e \in 1 .. Len(reports[k].errs) :
    reports[k].errs[e].attempt = reports[k].attempts

\* A test is reported as failed only after all its attempts, retryCount of them or one,
\* unless the run was cancelled; and no test gets more (suite.go:162-176).
Attempts == IF suite.retryCount = 0 THEN 1 ELSE suite.retryCount
AllAttemptsUsed ==
  /\ \A k \in 1 .. last : reports[k].attempts \in 1 .. Attempts
  /\ \A k \in WithErrors : reports[k].attempts = Attempts \/ ctxDone

\* SuiteRun implements SuiteVerdict: a closed report is a verdict.
Verdicts ==
  [k \in Closed |-> IF reports[k].errs = <<>> THEN "passed" ELSE "failed"]
Verdict == INSTANCE SuiteVerdict WITH nb <- suite.nb, failfast <- suite.failfast,
                                      verdicts <- Verdicts,
                                      active <- pc \notin {"idle", "returned"},
                                      cancelled <- ctxDone
ImplementsVerdict == Verdict!Spec

\* A run ends, even when a request of its tests never gets an answer: the timeout of
\* every attempt sees to that (suite.go:185).
RunEnds == pc = "loop" ~> pc = "returned"

-----------------------------------------------------------------------------
\* "A failure is not retried." (README.md:40): only attempts without a failure are.
FailureNotRetried ==
  [][Retry => \A e \in 1 .. Len(reports[last].errs) :
                reports[last].errs[e].kind # "failure"]_vars

=============================================================================
