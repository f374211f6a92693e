-------------------------- MODULE ExecCommandProofs --------------------------
(***************************************************************************)
(* Theorems about ExecCommand, for any number of suites, tests, attempts   *)
(* and errors: what its exit status and its notifications say of the runs. *)
(* Each run is one of SuiteRun, whose invariant is taken from              *)
(* SuiteRunProofs.                                                         *)
(***************************************************************************)
EXTENDS ExecCommand, SuiteRunProofs

\* A run in progress satisfies the invariant of SuiteRun from its beginning, and a suite
\* that is yet to begin has what its run will start from.
InRun ==
  /\ suite \in Suites /\ attempt \in Nat /\ expired \in BOOLEAN
  /\ main = "run" => pc # "returned" /\ (pc # "idle" => IInv)
  /\ main \in {"notify", "count", "hung"} => pc = "returned" /\ IInv

\* The error, and what is left, account for the runs so far.
Accounts ==
  /\ ran \in Nat
  /\ main # "refused" => (err <=> failures > 0)
  /\ main \in {"load", "refused"} => ran = 0 /\ failures = 0 /\ left = opts.total
  /\ main = "refused" => err
  /\ over => left = 0 \/ (opts.failfast /\ failures = 1)

\* What the notifier should have heard of r runs, f of them with failures.
Due(r, f) == IF "verbose" \in opts.notifiers THEN r
             ELSE IF "quiet" \in opts.notifiers THEN f ELSE 0

\* The notifier has heard of the runs that were counted, and of the one that is about to
\* be if there is something to say of it.
HeardSoFar ==
  /\ main = "count" => message = IF n = {} THEN None ELSE Notification("verbose" \in n)
  /\ heard = Due(ran, failures) + (IF main = "count" /\ message.built THEN 1 ELSE 0)

ExecInv == ExecTypeOK /\ InRun /\ Accounts /\ HeardSoFar

-----------------------------------------------------------------------------
\* The number of errors in a notification is a number, and zero if no test failed.
LEMMA ErrorsOfTests == ASSUME TypeOK PROVE errors \in Nat /\ (errors = 0 <=> failedTests = {})
<1> DEFINE Errs(k) == {k} \X DOMAIN reports[k].errs
           all == UNION {Errs(k) : k \in 1 .. last}
<1>1. last \in Nat /\ \A k \in 1 .. last : reports[k] \in TestReport
  BY DEF TypeOK, last
<1>2. ASSUME NEW k \in 1 .. last
      PROVE  /\ DOMAIN reports[k].errs = 1 .. Len(reports[k].errs)
             /\ Len(reports[k].errs) \in Nat
             /\ reports[k].errs = <<>> <=> Len(reports[k].errs) = 0
  <2>1. reports[k].errs \in Seq([kind : Kinds, attempt : Nat])
    BY <1>1 DEF TestReport
  <2> QED
    BY <2>1
<1>3. ASSUME NEW k \in 1 .. last PROVE IsFiniteSet(Errs(k))
  <2>1. IsFiniteSet({k})
    BY FS_Singleton
  <2>2. IsFiniteSet(DOMAIN reports[k].errs)
    BY <1>2, FS_Interval
  <2> QED
    BY <2>1, <2>2, FS_Product
<1>6. all = {} <=> failedTests = {}
  <2>1. ASSUME NEW k \in 1 .. last PROVE Errs(k) = {} <=> reports[k].errs = <<>>
    <3> DEFINE d == DOMAIN reports[k].errs
               m == Len(reports[k].errs)
    <3>1. \A e \in d : <<k, e>> \in Errs(k)
      OBVIOUS
    <3>2. \A p \in Errs(k) : \E e \in d : p = <<k, e>>
      OBVIOUS
    <3>3. d = 1 .. m /\ m \in Nat /\ (reports[k].errs = <<>> <=> m = 0)
      BY <1>2
    <3> HIDE DEF Errs, d, m
    <3>4. d = {} <=> m = 0
      BY <3>3
    <3> QED
      BY <3>1, <3>2, <3>3, <3>4
  <2> HIDE DEF Errs
  <2> QED
    BY <2>1 DEF failedTests
<1>7. errors = Cardinality(all)
  BY DEF errors
<1>5. IsFiniteSet(all)
  <2> HIDE DEF Errs
  <2>1. IsFiniteSet(1 .. last)
    BY <1>1, FS_Interval
  <2>2. IsFiniteSet({Errs(k) : k \in 1 .. last})
    <3> DEFINE f == [k \in 1 .. last |-> Errs(k)]
    <3>1. f \in Surjection(1 .. last, {Errs(k) : k \in 1 .. last})
      BY DEF Surjection
    <3> QED
      BY <2>1, <3>1, FS_Surjection
  <2>3. \A E \in {Errs(k) : k \in 1 .. last} : IsFiniteSet(E)
    BY <1>3
  <2> QED
    BY <2>2, <2>3, FS_UNION
<1> HIDE DEF all
<1> QED
  BY <1>5, <1>6, <1>7, FS_CardinalityType, FS_EmptySet

-----------------------------------------------------------------------------
\* What a notification says of a run that is over.
Messages == [count : Nat, failed : SUBSET (1 .. MaxTests), ok : SUBSET (1 .. MaxTests),
             built : BOOLEAN]
Message == Notification("verbose" \in n)

LEMMA SaidOfRun ==
  ASSUME IInv, pc = "returned"
  PROVE  /\ Message \in Messages
         /\ Message.built <=> WithErrors # {} \/ "verbose" \in n
         /\ Message.built => Message.failed = WithErrors
         /\ "verbose" \in n => Message.failed \cup Message.ok = 1 .. last
<1>1. failedTests = WithErrors
  BY DEF failedTests, WithErrors, Closed
<1>2. errors \in Nat /\ (errors = 0 <=> WithErrors = {})
  BY <1>1, ErrorsOfTests DEF IInv
<1>3. /\ WithErrors \in SUBSET (1 .. last)
      /\ 1 .. last \subseteq 1 .. MaxTests
  BY SuiteRunAssumption DEF IInv, TypeOK, Suites, WithErrors, Closed, last
<1>4. WithErrors \cup ((1 .. last) \ WithErrors) = 1 .. last
  BY <1>3
<1>5. CASE errors = 0 /\ "verbose" \notin n
  BY <1>2, <1>5 DEF Message, Messages, Notification, None
<1>6. CASE ~(errors = 0 /\ "verbose" \notin n)
  <2>1. Message = [count |-> errors, failed |-> WithErrors,
                   ok |-> IF "verbose" \in n THEN (1 .. last) \ WithErrors ELSE {},
                   built |-> TRUE]
    BY <1>1, <1>6 DEF Message, Notification
  <2>2. Message \in Messages
    BY <1>2, <1>3, <2>1 DEF Messages
  <2> QED
    BY <1>2, <1>4, <1>6, <2>1, <2>2
<1> QED
  BY <1>5, <1>6

LEMMA NoneIsMessage == None \in Messages /\ ~None.built
  BY DEF None, Messages

\* The notifier that is left after GenNotifier.
LEMMA Notifiers ==
  ASSUME ExecTypeOK
  PROVE  /\ "verbose" \in n <=> "verbose" \in opts.notifiers
         /\ n = {} <=> "verbose" \notin opts.notifiers /\ "quiet" \notin opts.notifiers
  BY DEF ExecTypeOK, Options, Entries, n

\* Slack's notifier is set up once.
LEMMA OneNotifier ==
  ASSUME NEW e \in Entries PROVE "verbose" \in e => "quiet" \notin e
<1> SUFFICES ASSUME "verbose" \in e, "quiet" \in e PROVE FALSE
  OBVIOUS
<1> DEFINE both == {"quiet"} \cup {"verbose"}
<1>1. IsFiniteSet({"unknown", "broken", "quiet", "verbose"})
  <2>1. IsFiniteSet({"quiet"})
    BY FS_Singleton
  <2>2. IsFiniteSet({"quiet"} \cup {"verbose"})
    BY <2>1, FS_AddElement
  <2>3. IsFiniteSet({"quiet"} \cup {"verbose"} \cup {"unknown"})
    BY <2>2, FS_AddElement
  <2>4. IsFiniteSet({"quiet"} \cup {"verbose"} \cup {"unknown"} \cup {"broken"})
    BY <2>3, FS_AddElement
  <2>5. {"unknown", "broken", "quiet", "verbose"}
          = {"quiet"} \cup {"verbose"} \cup {"unknown"} \cup {"broken"}
    OBVIOUS
  <2> QED
    BY <2>4, <2>5
<1>2. IsFiniteSet(e \ {"unknown"})
  BY <1>1, FS_Subset DEF Entries
<1>3. Cardinality({"quiet"}) = 1 /\ IsFiniteSet({"quiet"})
  BY FS_Singleton
<1>4. Cardinality(both) = 2
  BY <1>3, FS_AddElement
<1>5. both \in SUBSET (e \ {"unknown"}) /\ Cardinality(e \ {"unknown"}) <= 1
  BY DEF Entries
<1>6. Cardinality(both) <= Cardinality(e \ {"unknown"})
  BY <1>2, <1>5, FS_Subset
<1>7. Cardinality(e \ {"unknown"}) \in Nat
  BY <1>2, FS_CardinalityType
<1> QED
  BY <1>4, <1>5, <1>6, <1>7

\* A run has failed if, and only if, its count says so.
LEMMA CountOfFailures ==
  ASSUME IInv
  PROVE  /\ nbFailed \in Nat /\ (nbFailed > 0 <=> WithErrors # {})
         /\ Cardinality(WithErrors) = nbFailed
<1>1. Cardinality(WithErrors) = nbFailed /\ nbFailed \in Nat /\ IsFiniteSet(WithErrors)
  BY FiniteWithErrors, SuiteRunAssumption DEF IInv, CountAgrees, TypeOK
<1> QED
  BY <1>1, FS_EmptySet

-----------------------------------------------------------------------------
LEMMA ExecInitInv == ExecInit => ExecInv
<1> SUFFICES ASSUME ExecInit PROVE ExecInv
  OBVIOUS
<1>1. opts.total \in 0 .. MaxSuites /\ MaxSuites \in Nat
  BY ExecAssumption DEF ExecInit, Options
<1>2. ExecTypeOK
  <2>1. opts.total = 0 + left + 0 /\ 0 \in 0 .. 0 /\ left \in 0 .. MaxSuites
    BY <1>1 DEF ExecInit
  <2> QED
    BY <2>1, NoneIsMessage DEF ExecInit, ExecTypeOK, Messages
<1>3. InRun
  BY DEF ExecInit, Init, InRun
<1> QED
  BY <1>1, <1>2, <1>3 DEF ExecInit, ExecInv, Accounts, over, HeardSoFar, Due

\* The steps around the loop: loading, and its end.
LEMMA AroundInv == ASSUME ExecInv, Loaded \/ LoadFails \/ LoopEnds PROVE ExecInv'
<1> USE DEF Loaded, LoadFails, LoopEnds, suiteVars, vars
<1>1. ExecTypeOK'
  BY DEF ExecInv, ExecTypeOK, Over
<1>2. InRun'
  BY DEF ExecInv, InRun, Over
<1>3. Accounts'
  BY DEF ExecInv, ExecTypeOK, Accounts, Over, over
<1>4. HeardSoFar'
  BY DEF ExecInv, HeardSoFar, Due, Over
<1> QED
  BY <1>1, <1>2, <1>3, <1>4 DEF ExecInv

\* The next suite is one of those that are left.
LEMMA NextSuiteInv == ASSUME ExecInv, NextSuite PROVE ExecInv'
<1> USE DEF NextSuite
<1>1. ExecTypeOK'
  <2>1. ran \in Nat /\ left \in 0 .. MaxSuites /\ MaxSuites \in Nat
    BY ExecAssumption DEF ExecInv, ExecTypeOK, Accounts
  <2>2. left' \in 0 .. MaxSuites /\ opts.total = ran + left
        /\ ran + left = ran + left' + 1
    BY <2>1 DEF ExecInv, ExecTypeOK
  <2> QED
    BY <2>2 DEF ExecInv, ExecTypeOK
<1>2. InRun'
  BY DEF ExecInv, InRun
<1>3. Accounts' /\ HeardSoFar'
  BY DEF ExecInv, Accounts, over, HeardSoFar, Due
<1> QED
  BY <1>1, <1>2, <1>3 DEF ExecInv

\* A run begins from any state of the suite before, and goes on as SuiteRun says.
LEMMA RunSuiteInv == ASSUME ExecInv, RunSuite PROVE ExecInv'
<1> USE DEF RunSuite
<1>1. IInv' /\ pc' # "idle"
  <2>1. pc # "returned" /\ (pc # "idle" => IInv) /\ suite \in Suites
        /\ attempt \in Nat /\ expired \in BOOLEAN
    BY DEF ExecInv, InRun
  <2>2. CASE pc = "idle"
    <3>1. Begin
      BY <2>2 DEF Next, Cancel, LogError, Expire, RunStep, NextTest, Finish, Return, Passed,
                  Failed, Wait, GiveUp, Retry
    <3> QED
      BY <2>1, <3>1, RunStarts DEF Begin
  <2>3. CASE pc # "idle"
    <3>1. pc' # "idle"
      BY <2>3 DEF Next, Begin, Cancel, LogError, Expire, RunStep, NextTest, NewAttempt, Finish,
                  Return, Passed, Failed, Wait, GiveUp, Retry, EndTest
    <3> QED
      BY <2>1, <2>3, <3>1, StepInv
  <2> QED
    BY <2>2, <2>3
<1>2. ExecTypeOK'
  BY DEF ExecInv, ExecTypeOK
<1>3. InRun'
  BY <1>1 DEF InRun, IInv, TypeOK
<1>4. Accounts' /\ HeardSoFar'
  BY DEF ExecInv, Accounts, over, HeardSoFar, Due
<1> QED
  BY <1>2, <1>3, <1>4 DEF ExecInv

\* The notifier is told of the run, or not, and may hang.
LEMMA NotifyInv == ASSUME ExecInv, Notify PROVE ExecInv'
<1> USE DEF Notify
<1>1. IInv /\ pc = "returned"
  BY DEF ExecInv, InRun
<1>2. message' \in Messages
  BY <1>1, SaidOfRun, NoneIsMessage DEF Message
<1>3. ExecTypeOK'
  BY <1>2 DEF ExecInv, ExecTypeOK, Messages
<1>4. InRun' /\ Accounts'
  BY <1>1 DEF ExecInv, InRun, Accounts, over, suiteVars, vars, IInv, TypeOK, CountAgrees,
              LastAttemptOnly, AllAttemptsUsed, OpenReport, WithErrors, Closed, Attempts, last
<1>5. HeardSoFar'
  <2>1. Notification("verbose" \in n)' = Notification("verbose" \in n)
    BY DEF n, suiteVars, vars, Notification, errors, failedTests, last
  <2>2. heard = Due(ran, failures) /\ Due(ran, failures)' = Due(ran, failures)
    <3>1. ran \in Nat /\ failures \in Nat
      BY DEF ExecInv, ExecTypeOK, Accounts
    <3> QED
      BY <3>1 DEF ExecInv, HeardSoFar, Due
  <2>3. n' = n
    BY DEF n
  <2> QED
    BY <2>1, <2>2, <2>3 DEF HeardSoFar
<1> QED
  BY <1>3, <1>4, <1>5 DEF ExecInv

LEMMA NotifyHangsInv == ASSUME ExecInv, NotifyHangs PROVE ExecInv'
<1> USE DEF NotifyHangs
<1>1. ExecTypeOK'
  BY DEF ExecInv, ExecTypeOK
<1>2. InRun' /\ Accounts' /\ HeardSoFar'
  BY UnchangedInv DEF ExecInv, InRun, Accounts, over, HeardSoFar, Due, suiteVars, vars
<1> QED
  BY <1>1, <1>2 DEF ExecInv

\* The rest of the loop's body counts the run, of which the notifier has heard if it is to.
LEMMA CountInv == ASSUME ExecInv, Count PROVE ExecInv'
<1> USE DEF Count
<1>1. IInv /\ pc = "returned" /\ main' \in {"next", "waiting", "exited"}
  BY DEF ExecInv, InRun, Over
<1>2. nbFailed > 0 <=> WithErrors # {}
  BY <1>1, CountOfFailures
<1>3. ran \in Nat /\ failures \in 0 .. ran
  BY DEF ExecInv, ExecTypeOK, Accounts
<1>4. ExecTypeOK'
  BY <1>1, <1>3 DEF ExecInv, ExecTypeOK
<1>5. InRun'
  BY <1>1 DEF ExecInv, InRun, suiteVars, vars
<1>6. Accounts'
  <2>1. err \in BOOLEAN /\ (err <=> failures > 0) /\ main' \notin {"load", "refused"}
    BY <1>1 DEF ExecInv, Accounts, ExecTypeOK
  <2>2. (err' <=> err \/ WithErrors # {}) /\ ran' \in Nat
    <3>1. err' <=> err \/ nbFailed > 0
      BY Zenon
    <3> QED
      BY <1>2, <1>3, <3>1
  <2>3. err' <=> failures' > 0
    BY <1>3, <2>1, <2>2
  <2>4. over' => opts'.failfast /\ failures' = 1
    <3>1. main' # "next" => ~err /\ WithErrors # {} /\ opts.failfast
      BY <1>2
    <3>2. over' => main' # "next" /\ opts' = opts
      BY DEF over
    <3> QED
      BY <1>3, <2>1, <3>1, <3>2
  <2> QED
    BY <2>1, <2>2, <2>3, <2>4 DEF Accounts
<1>7. heard = Due(ran', failures')
  <2>1. message.built <=>
          "verbose" \in opts.notifiers \/ ("quiet" \in opts.notifiers /\ WithErrors # {})
    BY <1>1, SaidOfRun, Notifiers, NoneIsMessage
    DEF ExecInv, HeardSoFar, Message
  <2> QED
    BY <1>3, <2>1 DEF ExecInv, HeardSoFar, Due
<1>8. HeardSoFar'
  BY <1>1, <1>3, <1>7 DEF HeardSoFar, Due
<1> QED
  BY <1>4, <1>5, <1>6, <1>8 DEF ExecInv

LEMMA ExecUnchangedInv == ASSUME ExecInv, UNCHANGED <<suiteVars, execVars>> PROVE ExecInv'
<1> USE DEF suiteVars, execVars
<1>1. InRun'
  BY UnchangedInv DEF ExecInv, InRun, vars
<1>2. HeardSoFar'
  BY DEF ExecInv, HeardSoFar, Due, n, vars, Notification, errors, failedTests, last
<1> QED
  BY <1>1, <1>2 DEF ExecInv, ExecTypeOK, Accounts, over

\* The conjunction ExecInv is an inductive invariant of the command.
THEOREM ExecInvariance == ExecSpec => []ExecInv
<1>1. ExecInv /\ [ExecNext]_<<suiteVars, execVars>> => ExecInv'
  BY AroundInv, NextSuiteInv, RunSuiteInv, NotifyInv, NotifyHangsInv, CountInv,
     ExecUnchangedInv
  DEF ExecNext, ExecStep, Ended
<1> QED
  BY ExecInitInv, <1>1, PTL DEF ExecSpec

-----------------------------------------------------------------------------
\* Every state of the command is well typed, and every suite is accounted for.
THEOREM ExecTypeCorrect == ExecSpec => []ExecTypeOK
  BY ExecInvariance, PTL DEF ExecInv

\* The exit status is an error exactly if a test failed in one of the runs.
THEOREM StatusOfRuns == ExecSpec => []ExitStatus
<1>1. ExecInv => ExitStatus
  BY DEF ExecInv, Accounts, ExitStatus, over
<1> QED
  BY <1>1, ExecInvariance, PTL

\* Only -failfast leaves suites out, after the first failure.
THEOREM RunsEverySuite == ExecSpec => []EverySuite
<1>1. ExecInv => EverySuite
  BY DEF ExecInv, Accounts, EverySuite
<1> QED
  BY <1>1, ExecInvariance, PTL

\* The notifier hears of every run that failed, and of the others only if it is verbose.
THEOREM HearsOfFailures == ExecSpec => []FailuresHeard
<1>1. ExecInv => FailuresHeard
  <2> SUFFICES ASSUME ExecInv, main \in {"next", "waiting", "exited"}
               PROVE  heard = CASE "verbose" \in opts.notifiers -> ran
                                [] "quiet" \in opts.notifiers -> failures
                                [] OTHER -> 0
    BY DEF FailuresHeard
  <2>1. "verbose" \in opts.notifiers => "quiet" \notin opts.notifiers
    BY OneNotifier DEF ExecInv, ExecTypeOK, Options
  <2>2. heard = Due(ran, failures)
    <3>1. ran \in Nat /\ failures \in Nat
      BY DEF ExecInv, ExecTypeOK, Accounts
    <3> QED
      BY <3>1 DEF ExecInv, HeardSoFar, Due
  <2> QED
    BY <2>1, <2>2 DEF Due
<1> QED
  BY <1>1, ExecInvariance, PTL

\* A notification names the tests that failed, and the others if it is verbose.
THEOREM NamesTests == ExecSpec => []NamesFailedTests
<1>1. ExecInv => NamesFailedTests
  <2> SUFFICES ASSUME ExecInv, main = "count", message.built PROVE NamesFailedTests
    BY DEF NamesFailedTests
  <2>1. IInv /\ pc = "returned"
    BY DEF ExecInv, InRun
  <2>2. n # {} /\ message = Message
    BY NoneIsMessage DEF ExecInv, HeardSoFar, Message
  <2> QED
    BY <2>1, <2>2, SaidOfRun, CountOfFailures, Notifiers DEF ExecInv, NamesFailedTests
<1> QED
  BY <1>1, ExecInvariance, PTL
=============================================================================
