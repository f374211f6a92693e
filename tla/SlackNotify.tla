----------------------------- MODULE SlackNotify -----------------------------
(***************************************************************************)
(* notifier/slack/slack.go: what Notify makes of the report of a run       *)
(* (SuiteRun).  It builds no notification when there is nothing to say;    *)
(* otherwise it posts one, whose errors are logged and not retried.  Who   *)
(* calls Notify is in the modules of the commands.                         *)
(***************************************************************************)
EXTENDS SuiteRun

None == [count |-> 0, failed |-> {}, ok |-> {}, built |-> FALSE]

\* "errors" in Notify, the number in the text of the notification.
errors == Cardinality(UNION {{k} \X DOMAIN reports[k].errs : k \in 1 .. last})

\* Mutant: the tests that ran are taken for the tests that failed.
failedIfAny == IF errors = 0 THEN {} ELSE 1 .. last

\* The tests whose attachment is titled "failed".
failedTests == {k \in 1 .. last : reports[k].errs # <<>>}

\* Mutant: one error is not worth a notification.
NotificationOfMany(verbose) ==
  IF errors <= 1 /\ ~verbose THEN None
  ELSE [count |-> errors, failed |-> failedTests,
        ok |-> IF verbose THEN (1 .. last) \ failedTests ELSE {}, built |-> TRUE]

\* The notification that is posted: its count and its attachments.
Notification(verbose) ==
  IF errors = 0 /\ ~verbose THEN None
  ELSE [count |-> errors, failed |-> failedTests,
        ok |-> IF verbose THEN (1 .. last) \ failedTests ELSE {}, built |-> TRUE]
=============================================================================
