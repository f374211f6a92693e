----------------------------- MODULE ExecCommand -----------------------------
(***************************************************************************)
(* The command "aragorn exec" (cmd/aragorn/exec.go): the suites of the     *)
(* arguments or of a configuration are all loaded, then run one after the  *)
(* other (SuiteRun), each followed by the notifier (SlackNotify), and the  *)
(* process exits with the first failure as its status.  The context of the *)
(* runs is context.Background(), so Cancellable is FALSE here.             *)
(***************************************************************************)
EXTENDS SlackNotify

CONSTANT MaxSuites      \* bound: suites of one execution

ASSUME ExecAssumption == MaxSuites \in Nat

VARIABLES opts,         \* the flags, and the notifiers of the configuration
          main,         \* where the command is
          left,         \* the suites that remain to be run
          err,          \* the error that exec returns
          message,      \* what the notifier posted last
          ran,          \* history: the suites that were run,
          failures,     \* those of them with a failed test,
          heard         \* and the notifications posted

execVars == <<opts, main, left, err, message, ran, failures, heard>>
suiteVars == vars

\* The notifiers of the configuration: Slack's, which may be impossible to set up, and one
\* of which there is no plugin.  Without -config there are none.
Entries == {e \in SUBSET {"unknown", "broken", "quiet", "verbose"} :
              Cardinality(e \ {"unknown"}) <= 1}

Options == [failfast : BOOLEAN, wait : BOOLEAN, notifiers : Entries, total : 0 .. MaxSuites]

\* GenNotifier leaves out what it cannot set up, with an error in the log; the only plugin
\* is Slack's, so that at most one is left.
n == opts.notifiers \ {"unknown", "broken"}

ExecInit ==
  /\ Init
  /\ opts \in Options
  /\ main = "load"
  /\ left = opts.total
  /\ err = FALSE
  /\ message = None
  /\ ran = 0 /\ failures = 0 /\ heard = 0

\* GenSuites or getSuitesFromArgs: all suites are loaded before the first is run,
Loaded ==
  /\ main = "load"
  /\ main' = "next"
  /\ UNCHANGED <<suiteVars, opts, left, err, message, ran, failures, heard>>

\* or the command returns the error of the first one that cannot be.
LoadFails ==
  /\ main = "load"
  /\ main' = "refused"
  /\ err' = TRUE
  /\ UNCHANGED <<suiteVars, opts, left, message, ran, failures, heard>>

\* Mutant: the suite that is run stays in the list.
NextSuiteAgain ==
  /\ main = "next"
  /\ left > 0
  /\ suite' \in {s \in Suites : opts.failfast => s.failfast}
  /\ pc' = "idle"
  /\ main' = "run"
  /\ UNCHANGED <<reports, nbFailed, attempt, expired, ctxDone>>
  /\ UNCHANGED <<opts, left, err, message, ran, failures, heard>>

\* The head of the loop.  The options make a suite fail fast if the flag is given.
NextSuite ==
  /\ main = "next"
  /\ left > 0
  /\ left' = left - 1
  /\ suite' \in {s \in Suites : opts.failfast => s.failfast}
  /\ pc' = "idle"
  /\ main' = "run"
  /\ UNCHANGED <<reports, nbFailed, attempt, expired, ctxDone>>
  /\ UNCHANGED <<opts, err, message, ran, failures, heard>>

\* Suite.Run.
RunSuite ==
  /\ main = "run"
  /\ Next
  /\ main' = IF pc' = "returned" THEN "notify" ELSE "run"
  /\ UNCHANGED <<opts, left, err, message, ran, failures, heard>>

Notify ==
  /\ main = "notify"
  /\ main' = "count"
  /\ message' = IF n = {} THEN None ELSE Notification("verbose" \in n)
  /\ heard' = heard + (IF message'.built THEN 1 ELSE 0)
  /\ UNCHANGED <<suiteVars, opts, left, err, ran, failures>>

\* The webhook accepts the connection and never answers (slack.go:137).
NotifyHangs ==
  /\ main = "notify"
  /\ n # {} /\ Notification("verbose" \in n).built
  /\ main' = "hung"
  /\ UNCHANGED <<suiteVars, opts, left, err, message, ran, failures, heard>>

Over == IF opts.wait THEN "waiting" ELSE "exited"

\* Mutant: the error of the last suite is returned.
CountLast ==
  /\ main = "count"
  /\ err' = (nbFailed > 0)
  /\ main' = IF ~err /\ nbFailed > 0 /\ opts.failfast THEN Over ELSE "next"
  /\ ran' = ran + 1
  /\ failures' = failures + (IF WithErrors # {} THEN 1 ELSE 0)
  /\ UNCHANGED <<suiteVars, opts, left, message, heard>>

\* Mutant: the loop ends with the first failure.
CountAndStop ==
  /\ main = "count"
  /\ err' = (err \/ nbFailed > 0)
  /\ main' = IF ~err /\ nbFailed > 0 THEN Over ELSE "next"
  /\ ran' = ran + 1
  /\ failures' = failures + (IF WithErrors # {} THEN 1 ELSE 0)
  /\ UNCHANGED <<suiteVars, opts, left, message, heard>>

\* The rest of the loop's body.
Count ==
  /\ main = "count"
  /\ err' = (err \/ nbFailed > 0)
  /\ main' = IF ~err /\ nbFailed > 0 /\ opts.failfast THEN Over ELSE "next"
  /\ ran' = ran + 1
  /\ failures' = failures + (IF WithErrors # {} THEN 1 ELSE 0)
  /\ UNCHANGED <<suiteVars, opts, left, message, heard>>

\* The loop is over: the command returns, or blocks for ever with -wait.
LoopEnds ==
  /\ main = "next"
  /\ left = 0
  /\ main' = Over
  /\ UNCHANGED <<suiteVars, opts, left, err, message, ran, failures, heard>>

-----------------------------------------------------------------------------
\* The process has exited, blocks for ever (-wait) or hangs in the notifier.
Ended ==
  /\ main \in {"hung", "waiting", "exited", "refused"}
  /\ UNCHANGED <<suiteVars, execVars>>

ExecStep == Loaded \/ NextSuite \/ Notify \/ Count \/ LoopEnds

ExecNext == ExecStep \/ LoadFails \/ RunSuite \/ NotifyHangs \/ Ended

ExecSpec == ExecInit /\ [][ExecNext]_<<suiteVars, execVars>>

\* The fairness of SuiteRun for the run in progress (its Begin is the call of Run).
ExecFairness ==
  /\ WF_<<suiteVars, execVars>>(ExecStep)
  /\ WF_<<suiteVars, execVars>>
       (RunSuite /\ (Begin \/ NextTest \/ Finish \/ GiveUp \/ Retry))
  /\ WF_<<suiteVars, execVars>>(RunSuite /\ Expire)
  /\ WF_<<suiteVars, execVars>>(RunSuite /\ expired /\ Return)

ExecFairSpec == ExecSpec /\ ExecFairness

-----------------------------------------------------------------------------
ExecTypeOK ==
  /\ opts \in Options
  /\ main \in {"load", "next", "run", "notify", "count", "hung", "waiting", "exited",
              "refused"}
  /\ left \in 0 .. MaxSuites
  /\ err \in BOOLEAN
  /\ message \in [count : Nat, failed : SUBSET (1 .. MaxTests), ok : SUBSET (1 .. MaxTests),
                  built : BOOLEAN]
  /\ opts.total = ran + left + (IF main \in {"run", "notify", "count", "hung"}
                                THEN 1 ELSE 0)
  /\ failures \in 0 .. ran
  /\ heard \in Nat

over == main \in {"waiting", "exited"}

\* The exit status is an error exactly if a test failed in one of the runs, whichever run
\* it was and whatever came after it; nothing is run if a suite could not be loaded
\* (exec.go:49-95).
ExitStatus ==
  /\ over => (err <=> failures > 0)
  /\ main = "refused" => err /\ ran = 0 /\ left = opts.total

\* Every suite is run unless -failfast ends the loop with the first one that failed.
EverySuite ==
  over => left = 0 \/ (opts.failfast /\ failures = 1)

\* "it will send a notification [...] if there was any failure or error" (README.md:46):
\* the notifier heard of every run that failed, the one that ends the loop included, and,
\* unless it is verbose, of no other, whatever else is configured in vain; what it heard
\* agrees with the exit status.
FailuresHeard ==
  main \in {"next", "waiting", "exited"} =>
    heard = CASE "verbose" \in opts.notifiers -> ran
              [] "quiet" \in opts.notifiers -> failures
              [] OTHER -> 0

\* The attachments name each failed test once and no test that passed on its last attempt
\* (slack.go:92-127), so that there are NbFailed of them.
NamesFailedTests ==
  main = "count" /\ message.built =>
    /\ message.failed = WithErrors
    /\ Cardinality(message.failed) = nbFailed
    /\ "verbose" \in opts.notifiers => message.failed \cup message.ok = 1 .. last

\* Execution comes to its end, even when a request never gets an answer, unless the
\* notifier hangs (suite.go:185, slack.go:137).
ExecEnds == main = "next" ~> (over \/ main = "hung")
=============================================================================
