--------------------------- MODULE SuiteRunProofs ----------------------------
(***************************************************************************)
(* Theorems about SuiteRun, for suites of any size, any number of retries  *)
(* and any number of errors, with and without cancellation.  After three   *)
(* lemmas on what a step does to the reports, one lemma for each action    *)
(* shows that it preserves IInv; the theorems follow.                      *)
(***************************************************************************)
EXTENDS SuiteRun, FiniteSetTheorems, SequenceTheorems, TLAPS

-----------------------------------------------------------------------------
\* The inductive invariant behind CountAgrees, LastAttemptOnly and AllAttemptsUsed.  While
\* a test is attempted its report is the last one and describes the present attempt; a
\* test that waits has failed so far and has an attempt left; and failures are counted for
\* closed reports only.
OpenReport ==
  /\ pc \in {"test", "wait"} =>
       /\ last > 0
       /\ reports[last].attempts = attempt
       /\ attempt \in 1 .. Attempts
       /\ nbFailed < last
  /\ pc = "wait" => reports[last].errs # <<>> /\ attempt < suite.retryCount
  /\ nbFailed <= last

IInv == TypeOK /\ CountAgrees /\ LastAttemptOnly /\ AllAttemptsUsed /\ OpenReport

-----------------------------------------------------------------------------
\* The failed reports are finitely many.
LEMMA FiniteWithErrors == ASSUME TypeOK PROVE IsFiniteSet(WithErrors)
<1>1. IsFiniteSet(1 .. last)
  BY FS_Interval DEF TypeOK, last
<1>2. WithErrors \subseteq 1 .. last
  BY DEF TypeOK, WithErrors, Closed, last
<1> QED
  BY <1>1, <1>2, FS_Subset

\* A report that is opened comes last and leaves the others alone.
LEMMA OpenedReport ==
  ASSUME TypeOK, NEW r \in TestReport, reports' = Append(reports, r)
  PROVE  /\ last \in Nat /\ last' = last + 1
         /\ reports'[last'] = r
         /\ \A k \in 1 .. last : reports'[k] = reports[k]
         /\ reports' \in Seq(TestReport)
  BY DEF TypeOK, last

\* So does a report that is changed while it is open.
LEMMA ChangedReport ==
  ASSUME TypeOK, last > 0, NEW r \in TestReport, reports' = [reports EXCEPT ![last] = r]
  PROVE  /\ last \in Nat /\ last' = last
         /\ reports'[last] = r
         /\ \A k \in 1 .. last - 1 : reports'[k] = reports[k]
         /\ reports' \in Seq(TestReport)
  BY DEF TypeOK, last

\* A report that is closed counts if it has an error.
LEMMA ClosedReport ==
  ASSUME TypeOK, OpenReport, CountAgrees,
         pc \in {"test", "wait"}, pc' \in {"loop", "returned"}, reports' = reports
  PROVE  Cardinality(WithErrors)' = nbFailed + (IF reports[last].errs = <<>> THEN 0 ELSE 1)
<1>1. last \notin WithErrors
  BY DEF TypeOK, WithErrors, Closed, last
<1>2. WithErrors' = IF reports[last].errs = <<>> THEN WithErrors ELSE WithErrors \cup {last}
  BY DEF TypeOK, OpenReport, WithErrors, Closed, last
<1>3. Cardinality(WithErrors \cup {last}) = Cardinality(WithErrors) + 1
  BY <1>1, FiniteWithErrors, FS_AddElement
<1>4. nbFailed \in Nat /\ Cardinality(WithErrors) = nbFailed
  BY SuiteRunAssumption DEF TypeOK, CountAgrees
<1> QED
  BY <1>2, <1>3, <1>4

-----------------------------------------------------------------------------
\* A suite that never ran has nothing to count.
LEMMA InitInv == Init => IInv
<1> SUFFICES ASSUME Init PROVE IInv
    OBVIOUS
<1>1. reports \in Seq(TestReport) /\ last = 0
  BY DEF Init, last
<1>2. WithErrors = {}
  BY <1>1 DEF Init, WithErrors, Closed
<1>3. TypeOK
  <2>1. suite.nb \in Nat /\ last <= suite.nb
    BY <1>1, SuiteRunAssumption DEF Init, Suites
  <2>2. nbFailed \in 0 .. MaxTests /\ attempt \in Nat
    BY SuiteRunAssumption DEF Init
  <2> QED
    BY <1>1, <2>1, <2>2 DEF Init, TypeOK
<1>4. CountAgrees
  BY <1>2, FS_EmptySet DEF Init, CountAgrees
<1> QED
  BY <1>1, <1>2, <1>3, <1>4
  DEF Init, IInv, LastAttemptOnly, AllAttemptsUsed, OpenReport

\* A new run starts with no report and no failure, whatever was there before.
LEMMA RunStarts ==
  ASSUME suite \in Suites, attempt \in Nat, expired \in BOOLEAN, Begin
  PROVE  IInv'
<1>1. reports' \in Seq(TestReport) /\ last' = 0
  BY DEF Begin, last
<1>2. WithErrors' = {}
  BY <1>1 DEF Begin, WithErrors, Closed
<1>3. TypeOK'
  <2>1. suite.nb \in Nat /\ last' <= suite'.nb
    BY <1>1, SuiteRunAssumption DEF Begin, Suites
  <2>2. nbFailed' \in 0 .. MaxTests
    BY SuiteRunAssumption DEF Begin
  <2> QED
    BY <1>1, <2>1, <2>2 DEF TypeOK, Begin
<1>4. CountAgrees'
  BY <1>2, FS_EmptySet DEF Begin, CountAgrees
<1> QED
  BY <1>1, <1>2, <1>3, <1>4
  DEF Begin, IInv, LastAttemptOnly, AllAttemptsUsed, OpenReport

LEMMA BeginInv ==
  ASSUME IInv, Begin
  PROVE  IInv'
  BY RunStarts DEF IInv, TypeOK

\* Cancelling changes neither the reports nor their count.
LEMMA CancelInv ==
  ASSUME IInv, Cancel
  PROVE  IInv'
<1> USE SuiteRunAssumption DEF Cancel
<1>1. TypeOK'
  BY DEF IInv, TypeOK, last
<1>2. CountAgrees'
  BY DEF IInv, CountAgrees, WithErrors, Closed, last
<1>3. LastAttemptOnly'
  BY DEF IInv, LastAttemptOnly, last
<1>4. AllAttemptsUsed'
  BY DEF IInv, AllAttemptsUsed, Attempts, WithErrors, Closed, last
<1>5. OpenReport'
  BY DEF IInv, OpenReport, Attempts, last
<1> QED
  BY <1>1, <1>2, <1>3, <1>4, <1>5 DEF IInv

\* A test begins with an open report without errors.
LEMMA NextTestInv ==
  ASSUME IInv, NextTest
  PROVE  IInv'
<1> USE SuiteRunAssumption DEF NextTest, NewAttempt
<1> DEFINE r == [errs |-> <<>>, attempts |-> 1]
<1>a. r \in TestReport
  BY DEF TestReport
<1>b. reports' = Append(reports, r)
  OBVIOUS
<1>c. /\ last \in Nat /\ last' = last + 1
      /\ reports'[last'] = r
      /\ \A k \in 1 .. last : reports'[k] = reports[k]
      /\ reports' \in Seq(TestReport)
  BY <1>a, <1>b, OpenedReport DEF IInv
<1>d. WithErrors' = WithErrors
  <2>1. Closed = 1 .. last /\ Closed' = 1 .. last
    BY <1>c DEF Closed
  <2> QED
    BY <1>c, <2>1 DEF WithErrors
<1>f. r.errs = <<>> /\ r.attempts = 1 /\ Len(r.errs) = 0
  OBVIOUS
<1>g. nbFailed \in Nat /\ nbFailed <= last
  BY DEF IInv, TypeOK, OpenReport
<1>e. suite.nb \in Nat /\ Attempts \in Nat /\ Attempts >= 1 /\ Attempts' = Attempts
  BY DEF IInv, TypeOK, Suites, Attempts
<1>h. UNCHANGED <<suite, nbFailed, ctxDone>> /\ pc' = "test" /\ attempt' = 1 /\ last < suite.nb
  OBVIOUS
<1>i. expired' \in BOOLEAN
  BY DEF IInv, TypeOK
<1> HIDE DEF r, NextTest, NewAttempt
<1>j. \A k \in 1 .. last' : k \in 1 .. last \/ k = last'
  BY <1>c
<1>1. TypeOK'
  BY <1>c, <1>e, <1>h, <1>i DEF IInv, TypeOK
<1>2. CountAgrees'
  BY <1>d, <1>h DEF IInv, CountAgrees
<1>3. LastAttemptOnly'
  <2> SUFFICES ASSUME NEW k \in 1 .. last', NEW e \in 1 .. Len(reports'[k].errs)
               PROVE  reports'[k].errs[e].attempt = reports'[k].attempts
    BY DEF LastAttemptOnly
  <2>1. CASE k \in 1 .. last
    BY <1>c, <2>1 DEF IInv, LastAttemptOnly
  <2>2. CASE k = last'
    BY <1>c, <1>f, <2>2
  <2> QED
    BY <1>j, <2>1, <2>2
<1>4. AllAttemptsUsed'
  <2>1. ASSUME NEW k \in 1 .. last' PROVE reports'[k].attempts \in 1 .. Attempts
    <3>1. CASE k \in 1 .. last
      BY <1>c, <3>1 DEF IInv, AllAttemptsUsed
    <3>2. CASE k = last'
      BY <1>c, <1>e, <1>f, <3>2
    <3> QED
      BY <1>j, <3>1, <3>2
  <2>2. \A k \in WithErrors : k \in 1 .. last
    BY <1>c DEF WithErrors, Closed
  <2>3. \A k \in WithErrors : reports'[k].attempts = Attempts \/ ctxDone
    BY <1>c, <2>2 DEF IInv, AllAttemptsUsed
  <2> QED
    BY <1>d, <1>e, <1>h, <2>1, <2>3 DEF AllAttemptsUsed
<1>5. OpenReport'
  BY <1>c, <1>e, <1>f, <1>g, <1>h DEF OpenReport
<1> QED
  BY <1>1, <1>2, <1>3, <1>4, <1>5 DEF IInv

\* The end of the loop changes nothing but pc.
LEMMA FinishInv ==
  ASSUME IInv, Finish
  PROVE  IInv'
<1> USE SuiteRunAssumption DEF Finish
<1>1. TypeOK'
  BY DEF IInv, TypeOK, last
<1>2. CountAgrees'
  BY DEF IInv, CountAgrees, WithErrors, Closed, last
<1>3. LastAttemptOnly'
  BY DEF IInv, LastAttemptOnly, last
<1>4. AllAttemptsUsed'
  BY DEF IInv, AllAttemptsUsed, Attempts, WithErrors, Closed, last
<1>5. OpenReport'
  BY DEF IInv, OpenReport, Attempts, last
<1> QED
  BY <1>1, <1>2, <1>3, <1>4, <1>5 DEF IInv

\* Errors are added to the open report only, under the present attempt.
LEMMA ErrorsLogged ==
  ASSUME IInv, pc = "test", UNCHANGED <<suite, pc, nbFailed, attempt, expired, ctxDone>>,
         NEW more \in Seq([kind : Kinds, attempt : Nat]),
         \A i \in 1 .. Len(more) : more[i].attempt = attempt,
         reports' = [reports EXCEPT ![last].errs = @ \o more]
  PROVE  /\ IInv'
         /\ last' = last
         /\ reports'[last].errs = reports[last].errs \o more
         /\ \A j \in 1 .. last - 1 : reports'[j] = reports[j]
<1> USE SuiteRunAssumption
<1> DEFINE r == [errs |-> reports[last].errs \o more, attempts |-> reports[last].attempts]
<1>a. last > 0 /\ reports[last] \in TestReport
  BY DEF IInv, TypeOK, OpenReport, last
<1>b. r \in TestReport
  BY <1>a DEF IInv, TypeOK, TestReport
<1>c. reports' = [reports EXCEPT ![last] = r]
  <2>1. \A x \in TestReport : \A y :
             [x EXCEPT !.errs = y] = [errs |-> y, attempts |-> x.attempts]
    BY DEF TestReport
  <2>3. [reports[last] EXCEPT !.errs = @ \o more] = r
    BY <1>a, <2>1
  <2>2. reports' = [reports EXCEPT ![last] = [reports[last] EXCEPT !.errs = @ \o more]]
    OBVIOUS
  <2> QED
    BY <2>2, <2>3
<1>d. /\ last \in Nat /\ last' = last
      /\ reports'[last] = r
      /\ \A j \in 1 .. last - 1 : reports'[j] = reports[j]
      /\ reports' \in Seq(TestReport)
  BY <1>a, <1>b, <1>c, ChangedReport DEF IInv
<1>e. WithErrors' = WithErrors
  BY <1>d DEF WithErrors, Closed
<1>f. \A i \in 1 .. Len(r.errs) : r.errs[i].attempt = attempt
  <2> DEFINE es == reports[last].errs
  <2>1. es \in Seq([kind : Kinds, attempt : Nat]) /\ last \in 1 .. last
    BY <1>a, <1>d DEF TestReport
  <2>2. \A i \in 1 .. Len(es) : es[i].attempt = attempt
    BY <2>1 DEF IInv, LastAttemptOnly, OpenReport
  <2>3. r.errs = es \o more
    OBVIOUS
  <2> HIDE DEF es
  <2>4. /\ Len(es \o more) = Len(es) + Len(more) /\ Len(es) \in Nat /\ Len(more) \in Nat
        /\ \A i \in 1 .. Len(es) : (es \o more)[i] = es[i]
        /\ \A i \in 1 .. Len(more) : (es \o more)[Len(es) + i] = more[i]
    BY <2>1
  <2> SUFFICES ASSUME NEW i \in 1 .. Len(es \o more) PROVE (es \o more)[i].attempt = attempt
    BY <2>3
  <2>5. CASE i <= Len(es)
    BY <2>2, <2>4, <2>5
  <2>6. CASE i > Len(es)
    <3>1. i - Len(es) \in 1 .. Len(more) /\ Len(es) + (i - Len(es)) = i
      BY <2>4, <2>6
    <3> QED
      BY <2>4, <3>1
  <2> QED
    BY <2>4, <2>5, <2>6
<1>g. r.errs = reports[last].errs \o more /\ r.attempts = reports[last].attempts
  OBVIOUS
<1> HIDE DEF r
<1>1. TypeOK'
  BY <1>a, <1>d, <1>e DEF IInv, TypeOK
<1>2. CountAgrees'
  BY <1>a, <1>d, <1>e DEF IInv, TypeOK, CountAgrees
<1>3. LastAttemptOnly'
  <2> SUFFICES ASSUME NEW j \in 1 .. last
               PROVE  \A i \in 1 .. Len(reports'[j].errs) :
                        reports'[j].errs[i].attempt = reports'[j].attempts
    BY <1>d DEF LastAttemptOnly
  <2>1. CASE j = last
    <3>1. reports[last].attempts = attempt
      BY DEF IInv, OpenReport
    <3>2. reports'[j] = r
      BY <1>d, <2>1
    <3> QED
      BY <1>f, <1>g, <3>1, <3>2
  <2>2. CASE j # last
    <3>1. reports'[j] = reports[j]
      BY <1>d, <2>2
    <3> QED
      BY <3>1 DEF IInv, LastAttemptOnly
  <2> QED
    BY <2>1, <2>2
<1>4. AllAttemptsUsed'
  BY <1>a, <1>d, <1>e, <1>g DEF IInv, TypeOK, AllAttemptsUsed, WithErrors, Closed, Attempts
<1>5. OpenReport'
  BY <1>a, <1>d, <1>g DEF IInv, TypeOK, OpenReport, Attempts
<1> QED
  BY <1>d, <1>g, <1>1, <1>2, <1>3, <1>4, <1>5 DEF IInv

\* Errors that a plugin reports at once: of one kind and of the attempt under way.
LEMMA ErrorsReported ==
  ASSUME IInv, pc = "test", UNCHANGED <<suite, pc, nbFailed, attempt, expired, ctxDone>>,
         reports[last].errs = <<>>, NEW count \in Nat, NEW kind \in Kinds,
         reports' = [reports EXCEPT ![last].errs =
                       @ \o [i \in 1 .. count |-> [kind |-> kind, attempt |-> attempt]]]
  PROVE  /\ IInv'
         /\ last' = last
         /\ reports'[last].errs = <<>> <=> count = 0
         /\ reports'[last].attempts = attempt
         /\ \A j \in 1 .. last - 1 : reports'[j] = reports[j]
<1> DEFINE Entries == [kind : Kinds, attempt : Nat]
           entry == [kind |-> kind, attempt |-> attempt]
           more == [i \in 1 .. count |-> entry]
<1>1. attempt \in Nat
  BY DEF IInv, TypeOK
<1>2. entry \in Entries /\ entry.attempt = attempt
  BY <1>1
<1>3. reports' = [reports EXCEPT ![last].errs = @ \o more]
  OBVIOUS
<1>4. /\ more \in Seq(Entries) /\ Len(more) = count
      /\ \A i \in 1 .. Len(more) : more[i].attempt = attempt
  <2> HIDE DEF Entries, entry
  <2>1. /\ more \in Seq(Entries) /\ Len(more) = count
        /\ \A i \in 1 .. count : more[i] = entry
    BY <1>2
  <2> QED
    BY <1>2, <2>1
<1> HIDE DEF more, entry
<1>5. /\ IInv' /\ last' = last
      /\ reports'[last].errs = reports[last].errs \o more
      /\ \A j \in 1 .. last - 1 : reports'[j] = reports[j]
  BY <1>3, <1>4, ErrorsLogged
<1>6. reports'[last].errs = <<>> <=> count = 0
  <2> HIDE DEF Entries
  <2>1. <<>> \o more = more
    BY <1>4
  <2>2. more = <<>> <=> Len(more) = 0
    BY <1>4
  <2> QED
    BY <1>4, <1>5, <2>1, <2>2
<1>7. reports'[last].attempts = attempt
  BY <1>5 DEF IInv, OpenReport
<1> QED
  BY <1>5, <1>6, <1>7

LEMMA LogErrorInv ==
  ASSUME IInv, NEW k \in Kinds, LogError(k)
  PROVE  IInv'
<1> DEFINE e == [kind |-> k, attempt |-> attempt]
           more == <<e>>
<1>1. e \in [kind : Kinds, attempt : Nat] /\ e.attempt = attempt
  BY DEF IInv, TypeOK
<1>2. reports[last].errs \in Seq([kind : Kinds, attempt : Nat])
  <2>1. last > 0 /\ reports[last] \in TestReport
    BY DEF IInv, TypeOK, OpenReport, LogError, last
  <2> QED
    BY <2>1 DEF TestReport
<1> HIDE DEF e
<1>3. Append(reports[last].errs, e) = reports[last].errs \o more
  BY <1>1, <1>2, AppendIsConcat
<1>4. reports' = [reports EXCEPT ![last].errs = Append(@, e)]
  BY DEF LogError, e
<1>5. reports' = [reports EXCEPT ![last].errs = @ \o more]
  <2>1. reports' = [reports EXCEPT ![last] =
                      [reports[last] EXCEPT !.errs = Append(reports[last].errs, e)]]
    BY <1>4
  <2>2. reports' = [reports EXCEPT ![last] =
                      [reports[last] EXCEPT !.errs = reports[last].errs \o more]]
    BY <1>3, <2>1
  <2> HIDE DEF more
  <2> QED
    BY <2>2
<1>6. more \in Seq([kind : Kinds, attempt : Nat])
      /\ \A i \in 1 .. Len(more) : more[i].attempt = attempt
  BY <1>1
<1>7. pc = "test" /\ UNCHANGED <<suite, pc, nbFailed, attempt, expired, ctxDone>>
  BY DEF LogError
<1> HIDE DEF more
<1> QED
  BY <1>5, <1>6, <1>7, ErrorsLogged

\* Nor does the expiry of an attempt's context.
LEMMA ExpireInv ==
  ASSUME IInv, Expire
  PROVE  IInv'
<1> USE SuiteRunAssumption DEF Expire
<1>1. TypeOK'
  BY DEF IInv, TypeOK, last
<1>2. CountAgrees'
  BY DEF IInv, CountAgrees, WithErrors, Closed, last
<1>3. LastAttemptOnly'
  BY DEF IInv, LastAttemptOnly, last
<1>4. AllAttemptsUsed'
  BY DEF IInv, AllAttemptsUsed, Attempts, WithErrors, Closed, last
<1>5. OpenReport'
  BY DEF IInv, OpenReport, Attempts, last
<1> QED
  BY <1>1, <1>2, <1>3, <1>4, <1>5 DEF IInv

\* A test that passed is not counted.
LEMMA PassedInv ==
  ASSUME IInv, Passed
  PROVE  IInv'
<1> USE SuiteRunAssumption DEF Passed, EndTest
<1>1. TypeOK'
  BY DEF IInv, TypeOK, Suites, OpenReport, last
<1>2. CountAgrees'
  BY ClosedReport DEF IInv, CountAgrees
<1>3. LastAttemptOnly'
  BY DEF IInv, LastAttemptOnly, last
<1>4. AllAttemptsUsed'
  BY DEF IInv, TypeOK, OpenReport, Suites, AllAttemptsUsed, Attempts, WithErrors, Closed, last
<1>5. OpenReport'
  BY DEF IInv, TypeOK, Suites, OpenReport, Attempts, last
<1> QED
  BY <1>1, <1>2, <1>3, <1>4, <1>5 DEF IInv

\* A test that failed has used its attempts and is counted.
LEMMA FailedInv ==
  ASSUME IInv, Failed
  PROVE  IInv'
<1> USE SuiteRunAssumption DEF Failed, EndTest
<1>1. TypeOK'
  BY DEF IInv, TypeOK, Suites, OpenReport, last
<1>2. CountAgrees'
  BY ClosedReport DEF IInv, CountAgrees
<1>3. LastAttemptOnly'
  BY DEF IInv, LastAttemptOnly, last
<1>4. AllAttemptsUsed'
  BY DEF IInv, TypeOK, OpenReport, Suites, AllAttemptsUsed, Attempts, WithErrors, Closed, last
<1>5. OpenReport'
  BY DEF IInv, TypeOK, Suites, OpenReport, Attempts, last
<1> QED
  BY <1>1, <1>2, <1>3, <1>4, <1>5 DEF IInv

\* A test that waits has failed so far and has an attempt left.
LEMMA WaitInv ==
  ASSUME IInv, Wait
  PROVE  IInv'
<1> USE SuiteRunAssumption DEF Wait
<1>1. TypeOK'
  BY DEF IInv, TypeOK, last
<1>2. CountAgrees'
  BY DEF IInv, CountAgrees, WithErrors, Closed, last
<1>3. LastAttemptOnly'
  BY DEF IInv, LastAttemptOnly, last
<1>4. AllAttemptsUsed'
  BY DEF IInv, AllAttemptsUsed, Attempts, WithErrors, Closed, last
<1>5. OpenReport'
  BY DEF IInv, TypeOK, Suites, OpenReport, Attempts, last
<1> QED
  BY <1>1, <1>2, <1>3, <1>4, <1>5 DEF IInv

\* A test given up in its wait still has its errors, and is counted.
LEMMA GiveUpInv ==
  ASSUME IInv, GiveUp
  PROVE  IInv'
<1> USE SuiteRunAssumption DEF GiveUp, EndTest
<1>1. TypeOK'
  BY DEF IInv, TypeOK, Suites, OpenReport, last
<1>2. CountAgrees'
  BY ClosedReport DEF IInv, CountAgrees, OpenReport
<1>3. LastAttemptOnly'
  BY DEF IInv, LastAttemptOnly, last
<1>4. AllAttemptsUsed'
  BY DEF IInv, TypeOK, OpenReport, Suites, AllAttemptsUsed, Attempts, WithErrors, Closed, last
<1>5. OpenReport'
  BY DEF IInv, TypeOK, Suites, OpenReport, Attempts, last
<1> QED
  BY <1>1, <1>2, <1>3, <1>4, <1>5 DEF IInv

\* A retry starts from an empty report.
LEMMA RetryInv ==
  ASSUME IInv, Retry
  PROVE  IInv'
<1> USE SuiteRunAssumption DEF Retry, NewAttempt
<1> DEFINE r == [errs |-> <<>>, attempts |-> attempt + 1]
<1>a. last > 0
  BY DEF IInv, OpenReport
<1>b. r \in TestReport
  BY DEF IInv, TypeOK, TestReport
<1>d. /\ last \in Nat /\ last' = last
      /\ reports'[last] = r
      /\ \A j \in 1 .. last - 1 : reports'[j] = reports[j]
      /\ reports' \in Seq(TestReport)
  BY <1>a, <1>b, ChangedReport DEF IInv
<1>e. WithErrors' = WithErrors
  BY <1>d DEF WithErrors, Closed
<1>f. attempt + 1 \in 1 .. Attempts /\ Attempts' = Attempts
  BY DEF IInv, TypeOK, OpenReport, Suites, Attempts
<1> HIDE DEF r
<1>1. TypeOK'
  BY <1>a, <1>d, <1>e DEF IInv, TypeOK
<1>2. CountAgrees'
  BY <1>a, <1>d, <1>e DEF IInv, TypeOK, CountAgrees
<1>3. LastAttemptOnly'
  BY <1>a, <1>d DEF IInv, TypeOK, LastAttemptOnly, r
<1>4. AllAttemptsUsed'
  BY <1>a, <1>d, <1>e, <1>f DEF IInv, TypeOK, AllAttemptsUsed, WithErrors, Closed, r
<1>5. OpenReport'
  BY <1>a, <1>d, <1>f DEF IInv, TypeOK, OpenReport, r
<1> QED
  BY <1>1, <1>2, <1>3, <1>4, <1>5 DEF IInv

\* A step that changes nothing preserves IInv.
LEMMA UnchangedInv == IInv /\ UNCHANGED vars => IInv'
  BY DEF IInv, TypeOK, CountAgrees, LastAttemptOnly, AllAttemptsUsed, OpenReport,
         WithErrors, Closed, Attempts, last, vars

LEMMA StepInv == IInv /\ [Next]_vars => IInv'
  BY BeginInv, CancelInv, NextTestInv, FinishInv, LogErrorInv, ExpireInv, PassedInv,
     FailedInv, WaitInv, GiveUpInv, RetryInv, UnchangedInv
  DEF Next, RunStep, Return

\* The inductive invariant holds in every reachable state.
THEOREM Invariance == Spec => []IInv
  BY InitInv, StepInv, PTL DEF Spec

-----------------------------------------------------------------------------
\* The state is always well typed: no more reports than tests, no more failures either.
THEOREM TypeCorrect == Spec => []TypeOK
  BY Invariance, PTL DEF IInv

\* NbFailed is the number of test reports with errors, in every state of every run: the
\* exit status and the notification never disagree (exec.go:87, slack.go:69-74).
THEOREM CountsAgree == Spec => []CountAgrees
  BY Invariance, PTL DEF IInv

\* A report shows the errors of its last attempt and no others (suite.go:175).
THEOREM ReportsLastAttempt == Spec => []LastAttemptOnly
  BY Invariance, PTL DEF IInv

\* A test is attempted as often as retryCount allows before it is reported as failed, and
\* never more often (suite.go:162-176).
THEOREM UsesAttempts == Spec => []AllAttemptsUsed
  BY Invariance, PTL DEF IInv

-----------------------------------------------------------------------------
\* The reports that are closed and their verdicts.
NbClosed == IF pc \in {"test", "wait"} THEN last - 1 ELSE last
VerdictOf(k) == IF reports[k].errs = <<>> THEN "passed" ELSE "failed"

\* There is one verdict for each closed report, in the order of the tests.
VerdictsInOrder ==
  /\ NbClosed \in Nat /\ NbClosed <= suite.nb /\ Closed = 1 .. NbClosed
  /\ Verdicts \in Seq({"passed", "failed"})
  /\ Len(Verdicts) = NbClosed
  /\ \A k \in 1 .. NbClosed : Verdicts[k] = VerdictOf(k)

\* The invariant makes it so.
LEMMA VerdictsShape == IInv => VerdictsInOrder
<1> SUFFICES ASSUME TypeOK, OpenReport PROVE VerdictsInOrder
  BY DEF IInv
<1>1. NbClosed \in Nat /\ NbClosed <= suite.nb /\ Closed = 1 .. NbClosed
  BY SuiteRunAssumption DEF TypeOK, OpenReport, NbClosed, Closed, last, Suites
<1>2. Verdicts = [k \in 1 .. NbClosed |-> VerdictOf(k)]
  BY <1>1 DEF Verdicts, VerdictOf
<1>3. \A k \in 1 .. NbClosed : VerdictOf(k) \in {"passed", "failed"}
  BY DEF VerdictOf
<1> QED
  BY <1>1, <1>2, <1>3 DEF VerdictsInOrder

\* In the next state too.
LEMMA VerdictsShapeNext == (IInv => VerdictsInOrder)'
  BY VerdictsShape, PTL

\* A step that judges no test leaves the verdicts as they are.
LEMMA SameVerdicts ==
  ASSUME IInv, IInv', NbClosed' = NbClosed,
         \A k \in 1 .. NbClosed : reports'[k] = reports[k]
  PROVE  Verdicts' = Verdicts
<1>1. \A k \in 1 .. NbClosed : VerdictOf(k)' = VerdictOf(k)
  BY DEF VerdictOf
<1>2. Closed = 1 .. NbClosed /\ Closed' = 1 .. NbClosed
  BY VerdictsShape, VerdictsShapeNext DEF VerdictsInOrder
<1> QED
  BY <1>1, <1>2 DEF Verdicts, VerdictOf

\* When the test in progress is judged, its verdict is added to the others.
LEMMA OneMoreVerdict ==
  ASSUME IInv, IInv', pc \in {"test", "wait"}, pc' \in {"loop", "returned"},
         UNCHANGED <<suite, reports>>
  PROVE  /\ Len(Verdicts) < suite.nb
         /\ Verdicts' = Append(Verdicts, VerdictOf(last))
<1>1. /\ NbClosed \in Nat /\ last = NbClosed + 1 /\ last <= suite.nb
      /\ NbClosed' = last /\ last' = last
      /\ suite.nb \in Nat
  BY SuiteRunAssumption DEF IInv, TypeOK, Suites, OpenReport, NbClosed, last
<1>2. \A k \in 1 .. last : VerdictOf(k)' = VerdictOf(k)
  BY DEF VerdictOf
<1>3. /\ Verdicts \in Seq({"passed", "failed"}) /\ Len(Verdicts) = NbClosed
      /\ \A k \in 1 .. NbClosed : Verdicts[k] = VerdictOf(k)
  BY VerdictsShape DEF VerdictsInOrder
<1>4. /\ Verdicts' \in Seq({"passed", "failed"}) /\ Len(Verdicts') = NbClosed + 1
      /\ \A k \in 1 .. last : Verdicts'[k] = VerdictOf(k)
  <2>1. /\ Verdicts' \in Seq({"passed", "failed"}) /\ Len(Verdicts') = NbClosed'
        /\ \A k \in 1 .. NbClosed' : Verdicts'[k] = VerdictOf(k)'
    BY VerdictsShapeNext DEF VerdictsInOrder
  <2> QED
    BY <1>1, <1>2, <2>1
<1>5. VerdictOf(last) \in {"passed", "failed"}
  BY DEF VerdictOf
<1>6. \A k \in 1 .. NbClosed : Verdicts'[k] = Verdicts[k]
  BY <1>1, <1>3, <1>4
<1>7. Verdicts'[NbClosed + 1] = VerdictOf(last)
  BY <1>1, <1>4
<1>8. Verdicts' = Append(Verdicts, VerdictOf(last))
  BY <1>1, <1>3, <1>4, <1>5, <1>6, <1>7
<1> QED
  BY <1>1, <1>3, <1>8

\* Every step of the run is a step of its abstract verdict, or none.
THEOREM Refinement == Spec => ImplementsVerdict
<1>1. ASSUME Init PROVE Verdict!Init
  <2>1. suite.nb \in Nat /\ suite.failfast \in BOOLEAN
    BY <1>1, SuiteRunAssumption DEF Init, Suites
  <2>2. Verdicts = <<>>
    BY <1>1 DEF Init, Verdicts, Closed, last
  <2> QED
    BY <1>1, <2>1, <2>2 DEF Init, Verdict!Init
<1>2. ASSUME IInv, IInv', [Next]_vars PROVE [Verdict!Next]_(Verdict!vars)
  <2>1. CASE Begin
    <3>1. Verdicts' = <<>>
      BY <2>1 DEF Begin, Verdicts, Closed, last
    <3> QED
      BY <2>1, <3>1 DEF Begin, Verdict!Next, Verdict!Begin
  <2>2. CASE NextTest
    <3>1. /\ NbClosed' = NbClosed /\ \A k \in 1 .. NbClosed : reports'[k] = reports[k]
          /\ UNCHANGED suite
      BY <2>2, <1>2 DEF IInv, TypeOK, NextTest, NewAttempt, NbClosed, last
    <3> QED
      BY <1>2, <2>2, <3>1, SameVerdicts DEF NextTest, NewAttempt, Verdict!vars
  <2>3. CASE Finish
    <3>1. /\ NbClosed' = NbClosed /\ NbClosed = suite.nb /\ UNCHANGED <<suite, reports>>
      BY <2>3 DEF Finish, NbClosed, last
    <3>2. Verdicts' = Verdicts /\ Len(Verdicts) = suite.nb
      BY <1>2, <3>1, SameVerdicts, VerdictsShape DEF VerdictsInOrder
    <3> QED
      BY <2>3, <3>1, <3>2 DEF Finish, Verdict!Next, Verdict!Finish
  <2>4. CASE Passed \/ Failed \/ GiveUp
    <3>1. /\ pc \in {"test", "wait"} /\ pc' \in {"loop", "returned"}
          /\ UNCHANGED <<suite, reports, ctxDone>>
      BY <2>4 DEF Passed, Failed, GiveUp, EndTest
    <3>2. /\ Len(Verdicts) < suite.nb
          /\ Verdicts' = Append(Verdicts, VerdictOf(last))
      BY <1>2, <3>1, OneMoreVerdict
    <3>3. (pc' # "returned") = ((VerdictOf(last) = "passed" \/ ~suite.failfast) /\ ~ctxDone)
      BY <1>2, <2>4
      DEF IInv, TypeOK, Suites, OpenReport, Passed, Failed, GiveUp,
          EndTest, VerdictOf
    <3>4. VerdictOf(last) \in {"passed", "failed"}
      BY DEF VerdictOf
    <3>5. Verdict!Judge(VerdictOf(last))
      BY <3>1, <3>2, <3>3 DEF Verdict!Judge
    <3> QED
      BY <3>4, <3>5 DEF Verdict!Next
  <2>5. CASE Cancel
    <3>1. /\ NbClosed' = NbClosed /\ UNCHANGED <<suite, reports, pc>>
      BY <2>5 DEF Cancel, NbClosed, last
    <3> QED
      BY <1>2, <2>5, <3>1, SameVerdicts DEF Cancel, Verdict!Next, Verdict!Cancel
  <2>6. CASE Expire \/ Wait
    <3>1. /\ NbClosed' = NbClosed /\ UNCHANGED <<suite, reports, ctxDone>>
          /\ pc' \notin {"idle", "returned"} /\ pc \notin {"idle", "returned"}
      BY <2>6 DEF Expire, Wait, NbClosed, last
    <3> QED
      BY <1>2, <3>1, SameVerdicts DEF Verdict!vars
  <2>7. CASE Retry \/ \E k \in Kinds : LogError(k)
    <3>1. /\ UNCHANGED <<suite, ctxDone>>
          /\ pc' \in {"test", "wait"} /\ pc \in {"test", "wait"}
      BY <2>7 DEF Retry, LogError, NewAttempt
    <3>2. PICK r : reports' = [reports EXCEPT ![last] = r]
      BY <2>7 DEF Retry, LogError
    <3>3. /\ reports \in Seq(TestReport) /\ last > 0
          /\ reports' \in Seq(TestReport)
      BY <1>2, <3>1 DEF IInv, TypeOK, OpenReport
    <3>4. NbClosed' = NbClosed /\ \A k \in 1 .. NbClosed : reports'[k] = reports[k]
      BY <3>1, <3>2, <3>3 DEF NbClosed, last
    <3> QED
      BY <1>2, <3>1, <3>4, SameVerdicts DEF Verdict!vars
  <2>8. CASE UNCHANGED vars
    <3>1. /\ NbClosed' = NbClosed /\ UNCHANGED <<suite, reports, pc, ctxDone>>
      BY <2>8 DEF vars, NbClosed, last
    <3> QED
      BY <1>2, <3>1, SameVerdicts DEF Verdict!vars
  <2> QED
    BY <1>2, <2>1, <2>2, <2>3, <2>4, <2>5, <2>6, <2>7, <2>8 DEF Next, RunStep, Return
<1> QED
  BY <1>1, <1>2, Invariance, PTL
  DEF Spec, ImplementsVerdict, Verdict!Spec
=============================================================================
