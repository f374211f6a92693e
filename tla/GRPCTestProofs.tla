--------------------------- MODULE GRPCTestProofs ----------------------------
(***************************************************************************)
(* Theorems about GRPCTest, for any suites, messages and headers: what the *)
(* service gets, and what its answers come to.  The run is that of         *)
(* SuiteRun, whose invariant is taken from SuiteRunProofs; the steps of    *)
(* the test are sorted by where they leave it: before the call has come to *)
(* an end, with a status, with an error, or judged.                        *)
(***************************************************************************)
EXTENDS GRPCTest, SuiteRunProofs

Calling == {"resolve", "call", "open"}

GRPCTypeOK ==
  /\ tests \in SuiteFiles /\ suite.nb = Len(tests)
  /\ h = [curReq |-> h.curReq, md |-> h.md, status |-> h.status, resps |-> h.resps]
  /\ h.curReq \in Nat /\ h.resps \in Seq(Answers)
  /\ call = [got |-> call.got, metadata |-> call.metadata, header |-> call.header,
             answers |-> call.answers, code |-> call.code]
  /\ call.got \in Seq(Messages) /\ call.answers \in Seq(Answers)

\* A test runs during the attempts of the run, and reports its errors at the end.
Stages ==
  /\ stage \in Calling \cup {"idle", "judge", "done", "hung", "panic"}
  /\ stage = "idle" <=> pc # "test"
  /\ stage \notin {"idle", "done"} => reports[last].errs = <<>>

\* The metadata of a call are the headers of the suite and the test, of which those of the
\* test replace the others that are spelled in the same way.
MetadataRight(t, m) ==
  /\ \A k \in DOMAIN t.header : t.header[k] \in m[Lower[k]]
  /\ \A k \in DOMAIN t.base \ DOMAIN t.header : t.base[k] \in m[Lower[k]]
  /\ \A n \in DOMAIN m : \A v \in m[n] :
       \/ \E k \in DOMAIN t.header : Lower[k] = n /\ t.header[k] = v
       \/ \E k \in DOMAIN t.base \ DOMAIN t.header : Lower[k] = n /\ t.base[k] = v

\* What is to be sent of test t, and what the service has got of it so far.
ToSend(t) == IF TakesMany(t) \/ t.reqs # <<>> THEN t.reqs ELSE <<Blank>>
SentRight(t) ==
  /\ IsPrefix(call.got, ToSend(t))
  /\ sender = "closed" => call.got = ToSend(t)
  /\ Malformed \notin Range(call.got)
  /\ MetadataRight(t, call.metadata)

\* Every call is a new one, and who sends has sent what the handler has given out.
Sending ==
  /\ stage \in {"idle", "resolve", "call"} => call = NoCall
  /\ stage \in {"resolve", "call"} => h = newHandler
  /\ stage = "open" =>
       /\ SentRight(test)
       /\ sender = "sending" => TakesMany(test) /\ Len(call.got) = h.curReq

\* What was logged is of earlier attempts, until the call comes to a status.
Logged ==
  /\ DOMAIN log \subseteq 1 .. last
  /\ stage = "judge" => last \in DOMAIN log /\ log[last] = [attempt |-> attempt, result |-> h]
  /\ stage \in Calling /\ last \in DOMAIN log => log[last].attempt < attempt
  /\ pc \in {"test", "wait"} /\ last \in DOMAIN log => log[last].attempt \in 1 .. attempt

\* A result is what the test expects.
Met(r, t) ==
  /\ r.status = t.code
  /\ r.resps = t.msgs
  /\ {<<n, t.expects[n]>> : n \in DOMAIN t.expects} \subseteq {<<n, r.md[n]>> : n \in DOMAIN r.md}

\* A report without an error is that of a call whose result is.
Right(k) ==
  reports[k].errs = <<>> <=>
    k \in DOMAIN log /\ log[k].attempt = reports[k].attempts /\ Met(log[k].result, tests[k])

AllRight ==
  /\ \A k \in Closed : Right(k)
  /\ stage = "done" \/ pc = "wait" => Right(last)

GRPCInv == IInv /\ GRPCTypeOK /\ Stages /\ Sending /\ Logged /\ AllRight

-----------------------------------------------------------------------------
\* What is sent in its order is all of it when as much was sent.
LEMMA PrefixStarts ==
  ASSUME NEW S, NEW t \in Seq(S) PROVE IsPrefix(<<>>, t) /\ IsPrefix(t, t)
  BY DEF IsPrefix

LEMMA PrefixGrows ==
  ASSUME NEW S, NEW t \in Seq(S), NEW s \in Seq(S), IsPrefix(s, t), Len(s) < Len(t)
  PROVE  IsPrefix(Append(s, t[Len(s) + 1]), t)
  BY DEF IsPrefix

LEMMA PrefixEnds ==
  ASSUME NEW S, NEW t \in Seq(S), NEW s \in Seq(S), IsPrefix(s, t), Len(s) >= Len(t)
  PROVE  s = t
  BY DEF IsPrefix

\* Merging them and asking for them in lower case does so.
LEMMA MergedHeaders ==
  ASSUME NEW t
  PROVE  MetadataRight(t, MetadataFromHeaders(MergeHeaders(t.base, t.header)))
<1> DEFINE hs == MergeHeaders(t.base, t.header)
           m == MetadataFromHeaders(hs)
<1>1. /\ DOMAIN hs = DOMAIN t.base \cup DOMAIN t.header
      /\ \A k \in DOMAIN t.header : hs[k] = t.header[k]
      /\ \A k \in DOMAIN t.base \ DOMAIN t.header : hs[k] = t.base[k]
  BY DEF MergeHeaders
<1> HIDE DEF hs
<1>2. /\ DOMAIN m = {Lower[k] : k \in DOMAIN hs}
      /\ \A n \in DOMAIN m : m[n] = {hs[k] : k \in {k \in DOMAIN hs : Lower[k] = n}}
  BY DEF MetadataFromHeaders
<1> HIDE DEF m
<1>3. \A k \in DOMAIN hs : hs[k] \in m[Lower[k]]
  BY <1>2
<1>4. \A n \in DOMAIN m : \A v \in m[n] : \E k \in DOMAIN hs : Lower[k] = n /\ hs[k] = v
  BY <1>2
<1>5. MetadataRight(t, m)
  BY <1>1, <1>3, <1>4 DEF MetadataRight
<1> QED
  BY <1>5 DEF m, hs

\* A result without an error is what the test expects.
LEMMA ErrorsOfResult ==
  ASSUME NEW t \in Tests, h.resps \in Seq(Answers)
  PROVE  NbErrors(t) \in Nat /\ (NbErrors(t) = 0 <=> Met(h, t))
<1>1. /\ t.msgs \in Seq(Messages) /\ IsFiniteSet(DOMAIN t.expects)
      /\ h.resps \in Seq(Messages) /\ \A i \in DOMAIN h.resps : h.resps[i] # Malformed
  <2>1. Answers \subseteq Messages /\ Malformed \notin Answers
    BY GRPCAssumption DEF Messages
  <2>2. \A i \in 1 .. Len(h.resps) : h.resps[i] \in Answers
    OBVIOUS
  <2>3. h.resps \in Seq(Messages) /\ DOMAIN h.resps = 1 .. Len(h.resps)
    <3>1. /\ DOMAIN h.resps = 1 .. Len(h.resps) /\ Len(h.resps) \in Nat
          /\ h.resps = [i \in 1 .. Len(h.resps) |-> h.resps[i]]
      OBVIOUS
    <3>2. \A i \in 1 .. Len(h.resps) : h.resps[i] \in Messages
      BY <2>1, <2>2
    <3> QED
      BY <3>1, <3>2
  <2>4. \A i \in DOMAIN h.resps : h.resps[i] # Malformed
    BY <2>1, <2>2, <2>3
  <2> QED
    BY <2>3, <2>4, GRPCAssumption
<1>2. IsFiniteSet(WrongHeaders(t))
  BY <1>1, FS_Subset DEF WrongHeaders
<1>3. IsFiniteSet(WrongAnswers(t))
  <2>1. DOMAIN t.msgs = 1 .. Len(t.msgs) /\ Len(t.msgs) \in Nat
    BY <1>1
  <2>2. IsFiniteSet(DOMAIN t.msgs)
    BY <2>1, FS_Interval
  <2> QED
    BY <2>2, FS_Subset DEF WrongAnswers
<1>4. /\ Cardinality(WrongHeaders(t)) \in Nat /\ Cardinality(WrongAnswers(t)) \in Nat
      /\ Cardinality(WrongHeaders(t)) = 0 <=> WrongHeaders(t) = {}
      /\ Cardinality(WrongAnswers(t)) = 0 <=> WrongAnswers(t) = {}
  BY <1>2, <1>3, FS_CardinalityType, FS_EmptySet
<1>5. WrongHeaders(t) = {} <=>
        {<<n, t.expects[n]>> : n \in DOMAIN t.expects} \subseteq {<<n, h.md[n]>> : n \in DOMAIN h.md}
  <2> DEFINE expected == {<<n, t.expects[n]>> : n \in DOMAIN t.expects}
             sent == {<<n, h.md[n]>> : n \in DOMAIN h.md}
  <2>1. \A n \in DOMAIN t.expects :
          <<n, t.expects[n]>> \in sent <=> n \in DOMAIN h.md /\ h.md[n] = t.expects[n]
    OBVIOUS
  <2>2. expected \subseteq sent <=> \A n \in DOMAIN t.expects : <<n, t.expects[n]>> \in sent
    OBVIOUS
  <2> HIDE DEF sent, expected
  <2>3. WrongHeaders(t) = {} <=>
          \A n \in DOMAIN t.expects : n \in DOMAIN h.md /\ h.md[n] = t.expects[n]
    BY DEF WrongHeaders
  <2> QED
    BY <2>1, <2>2, <2>3 DEF sent, expected
<1>6. h.resps = t.msgs <=> Len(t.msgs) = Len(h.resps) /\ WrongAnswers(t) = {}
  <2>1. h.resps = t.msgs <=>
          Len(t.msgs) = Len(h.resps) /\ \A i \in 1 .. Len(t.msgs) : t.msgs[i] = h.resps[i]
    BY <1>1
  <2>2. DOMAIN t.msgs = 1 .. Len(t.msgs) /\ DOMAIN h.resps = 1 .. Len(h.resps)
    BY <1>1
  <2>3. Len(t.msgs) = Len(h.resps) =>
          (WrongAnswers(t) = {} <=> \A i \in 1 .. Len(t.msgs) : t.msgs[i] = h.resps[i])
    BY <1>1, <2>2 DEF WrongAnswers
  <2> QED
    BY <2>1, <2>3
<1> QED
  <2> DEFINE a == Cardinality(WrongHeaders(t))
             b == Cardinality(WrongAnswers(t))
             c == One(Len(t.msgs) # Len(h.resps))
  <2>1. NbErrors(t) = IF h.status # t.code THEN 1 ELSE a + c + b
    BY DEF NbErrors
  <2>2. c \in Nat /\ (c = 0 <=> Len(t.msgs) = Len(h.resps))
    BY DEF One
  <2>3. a \in Nat /\ b \in Nat
    BY <1>4
  <2> HIDE DEF a, b, c
  <2>4. a + c + b \in Nat /\ (a + c + b = 0 <=> a = 0 /\ b = 0 /\ c = 0)
    BY <2>2, <2>3
  <2>5. a = 0 /\ b = 0 /\ c = 0 <=>
          h.resps = t.msgs /\ {<<n, t.expects[n]>> : n \in DOMAIN t.expects}
                                \subseteq {<<n, h.md[n]>> : n \in DOMAIN h.md}
    BY <1>4, <1>5, <1>6, <2>2 DEF a, b
  <2> QED
    BY <2>1, <2>4, <2>5 DEF Met

-----------------------------------------------------------------------------
LEMMA GRPCInitInv == GRPCInit => GRPCInv
<1> SUFFICES ASSUME GRPCInit PROVE GRPCInv
  OBVIOUS
<1>1. IInv /\ last = 0 /\ pc = "idle"
  BY InitInv DEF GRPCInit, Init, last
<1>2. GRPCTypeOK
  <2>1. <<>> \in Seq(Answers) /\ <<>> \in Seq(Messages)
    OBVIOUS
  <2> QED
    BY <2>1 DEF GRPCInit, GRPCTypeOK, newHandler, NoCall
<1>3. Stages /\ Sending
  BY <1>1 DEF GRPCInit, Stages, Sending, Calling
<1>4. Logged /\ AllRight
  BY <1>1 DEF GRPCInit, Logged, AllRight, Calling, Closed
<1> QED
  BY <1>1, <1>2, <1>3, <1>4 DEF GRPCInv

\* The test that is attempted is one of the suite.
LEMMA TestInProgress ==
  ASSUME GRPCInv, pc = "test"
  PROVE  /\ last \in 1 .. Len(tests) /\ last \in Nat /\ test \in Tests
         /\ reports[last].attempts = attempt /\ attempt \in Nat \ {0}
<1>1. last \in 1 .. Len(tests) /\ last \in Nat /\ tests \in Seq(Tests)
  BY SuiteRunAssumption, GRPCAssumption
  DEF GRPCInv, GRPCTypeOK, IInv, TypeOK, OpenReport, last, Suites
<1>2. reports[last].attempts = attempt /\ attempt \in Nat \ {0}
  BY DEF GRPCInv, IInv, TypeOK, OpenReport
<1> QED
  BY <1>1, <1>2 DEF test

\* A step of the test before the call has come to an end.
LEMMA StillCalling ==
  ASSUME GRPCInv, UNCHANGED <<vars, tests, log>>, stage \in Calling,
         stage' \in Calling \cup {"hung", "panic"}
  PROVE  IInv' /\ Stages' /\ Logged' /\ AllRight' /\ test' = test
<1>1. pc = "test" /\ pc' = "test" /\ UNCHANGED <<reports, tests, log, attempt>> /\ last' = last
  BY DEF GRPCInv, Stages, Calling, vars, last
<1>2. IInv'
  BY UnchangedInv DEF GRPCInv
<1>3. Stages'
  BY <1>1 DEF GRPCInv, Stages, Calling
<1>4. Logged'
  BY <1>1 DEF GRPCInv, Logged, Calling
<1>5. AllRight'
  BY <1>1 DEF GRPCInv, AllRight, Right, Met, Closed, Calling
<1> QED
  BY <1>1, <1>2, <1>3, <1>4, <1>5 DEF test

\* A step that comes to a status: the result is logged and nothing reported yet.
LEMMA StatusInv ==
  ASSUME GRPCInv, UNCHANGED <<vars, tests, call>>, stage \in Calling, stage' = "judge", Record,
         h' = [curReq |-> h'.curReq, md |-> h'.md, status |-> h'.status, resps |-> h'.resps],
         h'.curReq \in Nat, h'.resps \in Seq(Answers)
  PROVE  GRPCInv'
<1>1. pc = "test" /\ pc' = "test" /\ UNCHANGED <<reports, attempt>> /\ last' = last
  BY DEF GRPCInv, Stages, Calling, vars, last
<1>2. /\ DOMAIN log' = DOMAIN log \cup {last}
      /\ log'[last] = [attempt |-> attempt, result |-> h']
      /\ \A k \in DOMAIN log \ {last} : log'[k] = log[k]
  BY DEF Record
<1>3. IInv'
  BY UnchangedInv DEF GRPCInv
<1>4. GRPCTypeOK'
  BY DEF GRPCInv, GRPCTypeOK, vars
<1>5. Stages' /\ Sending'
  BY <1>1 DEF GRPCInv, Stages, Sending, Calling
<1>6. Logged'
  BY <1>1, <1>2, TestInProgress DEF GRPCInv, Logged, Calling
<1>7. AllRight'
  <2>1. Closed' = 1 .. last - 1 /\ Closed = 1 .. last - 1
    BY <1>1 DEF Closed
  <2>2. ASSUME NEW k \in 1 .. last - 1 PROVE Right(k)'
    <3>1. k # last /\ Right(k)
      BY <2>1, <1>1, TestInProgress DEF GRPCInv, AllRight
    <3>2. (k \in DOMAIN log' <=> k \in DOMAIN log) /\ (k \in DOMAIN log => log'[k] = log[k])
      BY <1>2, <3>1
    <3> QED
      BY <1>1, <3>1, <3>2 DEF Right, Met
  <2> QED
    BY <1>1, <2>1, <2>2 DEF AllRight
<1> QED
  BY <1>3, <1>4, <1>5, <1>6, <1>7 DEF GRPCInv

\* What errors do to the reports: those of the tests before stay right.
LEMMA Reported ==
  ASSUME GRPCInv, stage \in Calling \cup {"judge"}, stage' = "done",
         NEW count \in Nat, NEW kind \in Kinds, Log(count, kind),
         UNCHANGED <<suite, pc, nbFailed, attempt, expired, ctxDone, tests, log>>
  PROVE  /\ IInv' /\ Stages' /\ Logged' /\ last' = last
         /\ reports'[last].errs = <<>> <=> count = 0
         /\ reports'[last].attempts = attempt
         /\ Right(last)' => AllRight'
<1>1. /\ pc = "test" /\ last \in Nat /\ reports[last].attempts = attempt /\ attempt \in Nat
      /\ reports[last].errs = <<>>
  BY TestInProgress DEF GRPCInv, Stages, Calling
<1>2. /\ IInv' /\ last' = last
      /\ reports'[last].errs = <<>> <=> count = 0
      /\ reports'[last].attempts = attempt
      /\ \A j \in 1 .. last - 1 : reports'[j] = reports[j]
  BY <1>1, ErrorsReported DEF GRPCInv, Log
<1>3. Stages' /\ Logged'
  BY <1>1, <1>2 DEF GRPCInv, Stages, Logged, Calling
<1>4. ASSUME Right(last)' PROVE AllRight'
  <2>1. Closed' = 1 .. last - 1 /\ Closed = 1 .. last - 1
    BY <1>1, <1>2 DEF Closed
  <2>2. \A k \in 1 .. last - 1 : Right(k)'
    BY <1>2, <2>1 DEF GRPCInv, AllRight, Right, Met
  <2> QED
    BY <1>2, <1>4, <2>1, <2>2 DEF AllRight, Right, Met
<1> QED
  BY <1>2, <1>3, <1>4

\* A test that fails before its call has a status is reported so, and has no result.
LEMMA InvokeFailsInv ==
  ASSUME GRPCInv, stage \in Calling, InvokeFails, GRPCTypeOK'
  PROVE  GRPCInv'
<1>1. /\ IInv' /\ Stages' /\ Logged' /\ last' = last
      /\ reports'[last].errs # <<>> /\ reports'[last].attempts = attempt
      /\ Right(last)' => AllRight'
  BY Reported DEF InvokeFails, Kinds
<1>2. AllRight'
  <2>1. last \in DOMAIN log => log[last].attempt < attempt
    BY DEF GRPCInv, Logged
  <2>2. attempt \in Nat /\ (last \in DOMAIN log => log[last].attempt \in Nat)
    BY TestInProgress DEF GRPCInv, Logged, Stages, Calling
  <2>3. log' = log
    BY DEF InvokeFails
  <2> QED
    BY <1>1, <2>1, <2>2, <2>3 DEF Right
<1>3. Sending'
  BY DEF Sending, InvokeFails
<1> QED
  BY <1>1, <1>2, <1>3 DEF GRPCInv

\* The errors of a judged test are those of the result that was logged.
LEMMA JudgeInv ==
  ASSUME GRPCInv, Judge
  PROVE  GRPCInv'
<1>1. NbErrors(test) \in Nat /\ (NbErrors(test) = 0 <=> Met(h, test))
  BY TestInProgress, ErrorsOfResult DEF GRPCInv, GRPCTypeOK, Stages, Judge
<1>2. /\ IInv' /\ Stages' /\ Logged' /\ last' = last
      /\ reports'[last].errs = <<>> <=> NbErrors(test) = 0
      /\ reports'[last].attempts = attempt
      /\ Right(last)' => AllRight'
  BY <1>1, Reported DEF Judge, Kinds
<1>3. Right(last)'
  <2>1. last \in DOMAIN log /\ log[last] = [attempt |-> attempt, result |-> h] /\ log' = log
        /\ tests' = tests
    BY DEF GRPCInv, Logged, Judge
  <2> QED
    BY <1>1, <1>2, <2>1 DEF Right, Met, test
<1>4. GRPCTypeOK' /\ Sending'
  BY DEF GRPCInv, GRPCTypeOK, Sending, Judge
<1> QED
  BY <1>2, <1>3, <1>4 DEF GRPCInv

-----------------------------------------------------------------------------
\* A step before the end of the call, by what it does to the handler and the call.
LEMMA CallingInv ==
  ASSUME GRPCInv, UNCHANGED <<vars, tests, log>>, stage \in Calling,
         stage' \in Calling \cup {"hung", "panic"}, GRPCTypeOK', Sending'
  PROVE  GRPCInv'
  BY StillCalling DEF GRPCInv

\* The method is looked up.
LEMMA ResolveInv ==
  ASSUME GRPCInv, Resolve \/ ResolveHangs \/ ResolveFails \/ Refuse
  PROVE  GRPCInv'
<1>1. CASE Resolve \/ ResolveHangs
  <2>1. GRPCTypeOK' /\ Sending'
    BY <1>1 DEF GRPCInv, GRPCTypeOK, Sending, Resolve, ResolveHangs, vars
  <2> QED
    BY <1>1, <2>1, CallingInv DEF Resolve, ResolveHangs, Calling
<1>2. CASE ResolveFails \/ Refuse
  <2>1. GRPCTypeOK'
    BY <1>2 DEF GRPCInv, GRPCTypeOK, ResolveFails, Refuse, InvokeFails
  <2> QED
    BY <1>2, <2>1, InvokeFailsInv DEF ResolveFails, Refuse, Calling
<1> QED
  BY <1>1, <1>2

\* The call starts with the headers, and with the message if there is but one.
LEMMA OpenInv ==
  ASSUME GRPCInv, Open
  PROVE  GRPCInv'
<1> DEFINE got == IF TakesMany(test) THEN <<>>
                  ELSE IF test.reqs = <<>> THEN <<Blank>> ELSE test.reqs
<1>1. /\ pc = "test" /\ test \in Tests /\ test.reqs \in Seq(Messages)
      /\ UNCHANGED <<vars, tests, log>> /\ test' = test
      /\ call = NoCall /\ h = newHandler /\ stage' = "open"
      /\ call'.got = got
      /\ call'.metadata = MetadataFromHeaders(MergeHeaders(test.base, test.header))
  BY TestInProgress, GRPCAssumption
  DEF GRPCInv, Stages, Sending, Open, NoCall, vars, test, last
<1>a. Blank # Malformed /\ <<Blank>> \in Seq(Messages)
  <2>1. Blank \in Messages
    BY DEF Messages
  <2>2. Blank # Malformed
    BY DEF Blank, Malformed
  <2> QED
    BY <2>1, <2>2
<1>2. GRPCTypeOK'
  <2>1. got \in Seq(Messages)
    BY <1>1, <1>a
  <2>2. h'.curReq \in Nat
    BY <1>1 DEF Open, newHandler
  <2> HIDE DEF got
  <2> QED
    BY <1>1, <2>1, <2>2 DEF GRPCInv, GRPCTypeOK, Open, NoCall, newHandler, vars
<1>3. IsPrefix(got, ToSend(test)) /\ (~TakesMany(test) => got = ToSend(test))
  BY <1>1, <1>a, PrefixStarts DEF ToSend
<1>4. Malformed \notin Range(got)
  <2>1. CASE TakesMany(test)
    BY <2>1 DEF Range
  <2>2. CASE ~TakesMany(test) /\ test.reqs = <<>>
    BY <1>a, <2>2 DEF Range
  <2>3. CASE ~TakesMany(test) /\ test.reqs # <<>>
    <3>1. Len(test.reqs) = 1 /\ test.reqs # <<Malformed>>
      <4>1. ~(Len(test.reqs) > 1) /\ test.reqs # <<Malformed>>
        BY <2>3 DEF Open, Unsendable
      <4>2. \A s \in Seq(Messages) : s # <<>> => Len(s) \in Nat \ {0}
        OBVIOUS
      <4>3. Len(test.reqs) \in Nat \ {0}
        BY <1>1, <2>3, <4>2
      <4>4. \A k \in Nat \ {0} : ~(k > 1) => k = 1
        OBVIOUS
      <4> QED
        BY <4>1, <4>3, <4>4, Zenon
    <3>2. test.reqs = <<test.reqs[1]>>
      BY <1>1, <3>1
    <3>3. test.reqs[1] # Malformed
      BY <3>1, <3>2
    <3> QED
      BY <1>1, <2>3, <3>1, <3>3 DEF Range
  <2> QED
    BY <2>1, <2>2, <2>3
<1>5. SentRight(test)'
  <2> HIDE DEF got
  <2> QED
    BY <1>1, <1>3, <1>4, MergedHeaders DEF SentRight, Open
<1>6. Sending'
  BY <1>1, <1>5 DEF Sending, Open, newHandler
<1> QED
  BY <1>1, <1>2, <1>6, CallingInv DEF Open, Calling

\* Or it does not, with a status or a panic.
LEMMA OpenFailsInv ==
  ASSUME GRPCInv, OpenFails
  PROVE  GRPCInv'
<1>1. stage = "call" /\ UNCHANGED <<vars, tests, call>>
  BY DEF OpenFails
<1>2. CASE test.kind \in Streaming
  <2>1. GRPCTypeOK' /\ Sending'
    BY <1>2 DEF GRPCInv, GRPCTypeOK, Sending, OpenFails, vars
  <2> QED
    BY <1>1, <1>2, <2>1, CallingInv DEF OpenFails, Calling
<1>3. CASE test.kind \notin Streaming
  <2>1. PICK c : stage' = "judge" /\ h' = [h EXCEPT !.status = c] /\ Record
    BY <1>3 DEF OpenFails
  <2>2. /\ h' = [curReq |-> h'.curReq, md |-> h'.md, status |-> h'.status, resps |-> h'.resps]
        /\ h'.curReq \in Nat /\ h'.resps \in Seq(Answers)
    BY <2>1 DEF GRPCInv, GRPCTypeOK
  <2> QED
    BY <1>1, <2>1, <2>2, StatusInv DEF Calling
<1> QED
  BY <1>2, <1>3

\* What the sender may do with the messages.
LEMMA SendInv ==
  ASSUME GRPCInv, Send
  PROVE  GRPCInv'
<1>1. /\ stage = "open" /\ pc = "test" /\ test.reqs \in Seq(Messages) /\ SentRight(test)
      /\ sender = "sending" /\ TakesMany(test) /\ Len(call.got) = h.curReq
      /\ ToSend(test) = test.reqs /\ call.got \in Seq(Messages) /\ h.curReq \in Nat
  <2>1. stage = "open" /\ sender = "sending" /\ pc = "test"
    BY DEF GRPCInv, Stages, Send, SendNext, SendStops, SendFails, CloseSend
  <2>2. test.reqs \in Seq(Messages)
    BY <2>1, TestInProgress, GRPCAssumption
  <2> QED
    BY <2>1, <2>2 DEF GRPCInv, GRPCTypeOK, Sending, ToSend
<1>2. CASE SendNext
  <2> DEFINE m == test.reqs[h.curReq + 1]
  <2>1. /\ UNCHANGED <<vars, tests, stage, sender, log>> /\ test' = test
        /\ h' = [h EXCEPT !.curReq = @ + 1] /\ m # Malformed
        /\ call' = [call EXCEPT !.got = Append(@, m)]
        /\ h.curReq < Len(test.reqs)
    BY <1>2 DEF SendNext, test, last, vars
  <2>2. m \in Messages /\ Append(call.got, m) \in Seq(Messages)
        /\ Len(Append(call.got, m)) = h.curReq + 1
    BY <1>1, <2>1
  <2>3. IsPrefix(Append(call.got, m), test.reqs)
    BY <1>1, <2>1, PrefixGrows DEF SentRight
  <2>4. Malformed \notin Range(Append(call.got, m))
    <3>1. \A i \in 1 .. Len(call.got) : call.got[i] # Malformed
      BY <1>1 DEF SentRight, Range
    <3> HIDE DEF m
    <3>2. \A i \in 1 .. Len(Append(call.got, m)) : Append(call.got, m)[i] # Malformed
      BY <1>1, <2>1, <2>2, <3>1
    <3> QED
      BY <1>1, <2>2, <3>2 DEF Range
  <2> HIDE DEF m
  <2>5. call'.got = Append(call.got, m) /\ call'.metadata = call.metadata /\ h'.curReq = h.curReq + 1
    BY <2>1 DEF GRPCInv, GRPCTypeOK
  <2>6. GRPCTypeOK'
    <3>1. h' = [curReq |-> h.curReq + 1, md |-> h.md, status |-> h.status, resps |-> h.resps]
      BY <2>1 DEF GRPCInv, GRPCTypeOK
    <3>2. call' = [got |-> Append(call.got, m), metadata |-> call.metadata,
                   header |-> call.header, answers |-> call.answers, code |-> call.code]
      BY <2>1 DEF GRPCInv, GRPCTypeOK
    <3>3. tests' \in SuiteFiles /\ suite'.nb = Len(tests')
      BY <2>1 DEF GRPCInv, GRPCTypeOK, vars
    <3>4. h.curReq + 1 \in Nat /\ h.resps \in Seq(Answers) /\ call.answers \in Seq(Answers)
      BY DEF GRPCInv, GRPCTypeOK
    <3> QED
      BY <2>2, <3>1, <3>2, <3>3, <3>4 DEF GRPCTypeOK
  <2>7. Sending'
    BY <1>1, <2>1, <2>2, <2>3, <2>4, <2>5 DEF Sending, SentRight, ToSend
  <2> QED
    BY <1>1, <2>1, <2>6, <2>7, CallingInv DEF Calling
<1>3. CASE SendStops
  <2>1. GRPCTypeOK'
    BY <1>3 DEF GRPCInv, GRPCTypeOK, SendStops, vars
  <2>2. Sending'
    BY <1>1, <1>3 DEF Sending, SentRight, ToSend, SendStops, test, last, vars
  <2> QED
    BY <1>1, <1>3, <2>1, <2>2, CallingInv DEF SendStops, Calling
<1>4. CASE SendFails
  <2>1. GRPCTypeOK'
    <3>1. /\ h' = [h EXCEPT !.curReq = @ + 1]
          /\ UNCHANGED <<tests, suite, call>>
      BY <1>4 DEF SendFails, InvokeFails, vars
    <3>2. h' = [curReq |-> h.curReq + 1, md |-> h.md, status |-> h.status, resps |-> h.resps]
      BY <3>1 DEF GRPCInv, GRPCTypeOK
    <3>3. h.curReq + 1 \in Nat /\ h.resps \in Seq(Answers)
      BY DEF GRPCInv, GRPCTypeOK
    <3> QED
      BY <3>1, <3>2, <3>3 DEF GRPCInv, GRPCTypeOK
  <2>2. CASE test.kind = "client"
    BY <1>1, <1>4, <2>1, <2>2, InvokeFailsInv DEF SendFails, Calling
  <2>3. CASE test.kind # "client"
    <3>1. Sending'
      BY <1>1, <1>4, <2>3 DEF Sending, SentRight, ToSend, SendFails, test, last, vars
    <3> QED
      BY <1>1, <1>4, <2>1, <2>3, <3>1, CallingInv DEF SendFails, Calling
  <2> QED
    BY <2>2, <2>3
<1>5. CASE CloseSend
  <2>1. call.got = test.reqs
    BY <1>1, <1>5, PrefixEnds DEF CloseSend, SentRight
  <2>2. GRPCTypeOK'
    BY <1>5 DEF GRPCInv, GRPCTypeOK, CloseSend, vars
  <2>3. Sending'
    BY <1>1, <1>5, <2>1 DEF Sending, SentRight, ToSend, CloseSend, test, last, vars
  <2> QED
    BY <1>1, <1>5, <2>2, <2>3, CallingInv DEF CloseSend, Calling
<1> QED
  BY <1>2, <1>3, <1>4, <1>5 DEF Send

\* The service changes what it answers and nothing else.
LEMMA ServeInv ==
  ASSUME GRPCInv, SendsHeader \/ AnswersNext \/ Ends
  PROVE  GRPCInv'
<1>1. /\ stage = "open" /\ UNCHANGED <<vars, tests, reflection, stage, h, sender, log>>
      /\ call' = [got |-> call.got, metadata |-> call.metadata, header |-> call'.header,
                  answers |-> call'.answers, code |-> call'.code]
      /\ call'.answers \in Seq(Answers)
  <2>1. call = [got |-> call.got, metadata |-> call.metadata, header |-> call.header,
                answers |-> call.answers, code |-> call.code]
        /\ call.answers \in Seq(Answers)
    BY DEF GRPCInv, GRPCTypeOK
  <2>2. CASE SendsHeader
    BY <2>1, <2>2 DEF SendsHeader, Serve
  <2>3. CASE AnswersNext
    <3>1. PICK m \in Answers : Serve([call EXCEPT !.answers = Append(@, m)])
      BY <2>3 DEF AnswersNext
    <3>2. Append(call.answers, m) \in Seq(Answers)
      BY <2>1
    <3>3. [call EXCEPT !.answers = Append(@, m)] =
            [got |-> call.got, metadata |-> call.metadata, header |-> call.header,
             answers |-> Append(call.answers, m), code |-> call.code]
      BY <2>1
    <3> QED
      BY <3>1, <3>2, <3>3 DEF Serve
  <2>4. CASE Ends
    <3>1. PICK c \in Codes :
            \/ \E m \in Answers : Serve([call EXCEPT !.code = c, !.answers = <<m>>])
            \/ Serve([call EXCEPT !.code = c])
      BY <2>4 DEF Ends
    <3>2. CASE \E m \in Answers : Serve([call EXCEPT !.code = c, !.answers = <<m>>])
      <4>1. PICK m \in Answers : Serve([call EXCEPT !.code = c, !.answers = <<m>>])
        BY <3>2
      <4>2. <<m>> \in Seq(Answers)
        OBVIOUS
      <4>3. [call EXCEPT !.code = c, !.answers = <<m>>] =
              [got |-> call.got, metadata |-> call.metadata, header |-> call.header,
               answers |-> <<m>>, code |-> c]
        <5>1. PICK g, d, s, a, o :
                /\ g = call.got /\ d = call.metadata /\ s = call.header
                /\ a = call.answers /\ o = call.code
          OBVIOUS
        <5>2. call = [got |-> g, metadata |-> d, header |-> s, answers |-> a, code |-> o]
          BY <2>1, <5>1
        <5>3. PICK f, x : x = <<m>> /\ f = [call EXCEPT !.code = c]
          OBVIOUS
        <5>4. f = [got |-> g, metadata |-> d, header |-> s, answers |-> a, code |-> c]
          BY <5>2, <5>3
        <5>5. [call EXCEPT !.code = c, !.answers = <<m>>] = [f EXCEPT !.answers = x]
          BY <5>3
        <5>6. [f EXCEPT !.answers = x] =
                [got |-> g, metadata |-> d, header |-> s, answers |-> x, code |-> c]
          BY <5>4
        <5> QED
          BY <5>1, <5>3, <5>5, <5>6, Zenon
      <4> QED
        BY <4>1, <4>2, <4>3 DEF Serve
    <3>3. CASE Serve([call EXCEPT !.code = c])
      BY <2>1, <2>4, <3>3 DEF Ends, Serve
    <3> QED
      BY <3>1, <3>2, <3>3
  <2> QED
    BY <2>2, <2>3, <2>4
<1>2. GRPCTypeOK'
  BY <1>1 DEF GRPCInv, GRPCTypeOK, vars
<1>3. call'.got = call.got /\ call'.metadata = call.metadata /\ test' = test
  BY <1>1 DEF test, last, vars
<1>4. Sending'
  BY <1>1, <1>3 DEF GRPCInv, Sending, SentRight, ToSend
<1> QED
  BY <1>1, <1>2, <1>4, CallingInv DEF Calling

\* The call ends with a status, whoever ended it, or with the sender's error.
LEMMA ReceiveInv ==
  ASSUME GRPCInv, Receive
  PROVE  GRPCInv'
<1>1. ASSUME NEW c, NEW md, NEW answers \in Seq(Answers), stage = "open",
             Returns(c, md, answers)
      PROVE  GRPCInv'
  <2>1. /\ h' = [curReq |-> h'.curReq, md |-> h'.md, status |-> h'.status, resps |-> h'.resps]
        /\ h'.curReq \in Nat /\ h'.resps \in Seq(Answers)
    BY <1>1 DEF GRPCInv, GRPCTypeOK, Returns
  <2> QED
    BY <1>1, <2>1, StatusInv DEF Returns, Calling
<1>2. stage = "open" /\ call.answers \in Seq(Answers)
  BY DEF GRPCInv, GRPCTypeOK, Receive, CallEnds, CallExpires, CallCancelled, CallFails, Reading
<1>3. ASSUME NEW c, Interrupted(c) PROVE GRPCInv'
  <2>1. PICK n \in 0 .. (IF AnswersOnce(test) THEN 0 ELSE Len(call.answers)),
             md \in {<<>>} \cup Range(call.header) :
          Returns(c, md, SubSeq(call.answers, 1, n))
    BY <1>3 DEF Interrupted
  <2>2. SubSeq(call.answers, 1, n) \in Seq(Answers)
    BY <1>2
  <2> QED
    BY <1>1, <1>2, <2>1, <2>2
<1>4. CASE CallEnds
  BY <1>1, <1>2, <1>4 DEF CallEnds
<1>5. CASE CallExpires \/ CallCancelled
  BY <1>3, <1>5 DEF CallExpires, CallCancelled
<1>6. CASE CallFails
  <2>1. GRPCTypeOK'
    BY <1>6 DEF GRPCInv, GRPCTypeOK, CallFails, InvokeFails
  <2> QED
    BY <1>2, <1>6, <2>1, InvokeFailsInv DEF CallFails, Calling
<1> QED
  BY <1>4, <1>5, <1>6 DEF Receive

-----------------------------------------------------------------------------
\* A new run has no results, and its first attempt is yet to come.
LEMMA RunBeginsInv ==
  ASSUME GRPCInv, RunBegins
  PROVE  GRPCInv'
<1>1. IInv' /\ last' = 0 /\ pc' = "loop" /\ pc \in {"idle", "returned"}
  BY BeginInv DEF GRPCInv, RunBegins, Begin, last
<1>2. GRPCTypeOK' /\ Sending'
  BY <1>1 DEF GRPCInv, Stages, GRPCTypeOK, Sending, RunBegins, Begin
<1>3. Stages'
  BY <1>1 DEF GRPCInv, Stages, RunBegins
<1>4. Logged' /\ AllRight'
  BY <1>1, <1>3 DEF GRPCInv, Stages, Logged, AllRight, RunBegins, Calling, Closed
<1> QED
  BY <1>1, <1>2, <1>3, <1>4 DEF GRPCInv

\* An attempt begins with a new handler, and what was logged of its test is older.
LEMMA AttemptBeginsInv ==
  ASSUME GRPCInv, AttemptBegins
  PROVE  GRPCInv'
<1>1. /\ IInv' /\ pc \in {"loop", "wait"} /\ pc' = "test" /\ stage = "idle"
      /\ stage' = "resolve" /\ h' = newHandler /\ call = NoCall
      /\ UNCHANGED <<suite, tests, call, log>> /\ last \in Nat
  BY NextTestInv, RetryInv
  DEF GRPCInv, IInv, TypeOK, Stages, Sending, AttemptBegins, NextTest, Retry, NewAttempt, last
<1>2. /\ last' >= last /\ last' \in Nat
      /\ \A k \in Closed : reports'[k] = reports[k]
      /\ Closed = 1 .. last' - 1 /\ Closed' = 1 .. last' - 1
      /\ reports'[last'].errs = <<>>
      /\ last' \in DOMAIN log => log[last'].attempt < attempt'
      /\ last' \in DOMAIN log => log[last'].attempt \in 1 .. attempt'
  <2>1. CASE NextTest
    <3>1. /\ last' = last + 1 /\ reports'[last'] = [errs |-> <<>>, attempts |-> 1]
          /\ \A k \in 1 .. last : reports'[k] = reports[k]
      BY <2>1 DEF GRPCInv, IInv, TypeOK, NextTest, last
    <3>2. last' \notin DOMAIN log
      BY <1>1, <3>1 DEF GRPCInv, Logged
    <3>3. Closed = 1 .. last /\ Closed' = 1 .. last' - 1 /\ last' - 1 = last
      BY <1>1, <2>1, <3>1 DEF NextTest, Closed
    <3> QED
      BY <1>1, <3>1, <3>2, <3>3
  <2>2. CASE Retry
    <3>1. /\ last' = last /\ reports'[last'] = [errs |-> <<>>, attempts |-> attempt + 1]
          /\ \A k \in 1 .. last - 1 : reports'[k] = reports[k]
      BY <2>2 DEF GRPCInv, IInv, TypeOK, OpenReport, Retry, last
    <3>2. /\ attempt' = attempt + 1 /\ attempt \in Nat /\ pc = "wait"
          /\ last \in DOMAIN log => log[last].attempt \in 1 .. attempt
      BY <2>2 DEF GRPCInv, IInv, TypeOK, Logged, Retry, NewAttempt
    <3> QED
      BY <1>1, <2>2, <3>1, <3>2 DEF Retry, Closed
  <2> QED
    BY <2>1, <2>2 DEF AttemptBegins
<1>3. GRPCTypeOK' /\ Sending'
  <2>1. 0 \in Nat /\ <<>> \in Seq(Answers)
    OBVIOUS
  <2> QED
    BY <1>1, <2>1 DEF GRPCInv, GRPCTypeOK, Sending, newHandler
<1>4. Stages'
  BY <1>1, <1>2 DEF Stages, Calling
<1>5. Logged'
  BY <1>1, <1>2 DEF GRPCInv, Logged
<1>6. AllRight'
  <2>1. ASSUME NEW k \in Closed PROVE Right(k)'
    <3>1. Right(k)
      BY DEF GRPCInv, AllRight
    <3>2. reports'[k] = reports[k] /\ log' = log /\ tests' = tests
      BY <1>1, <1>2
    <3> QED
      BY <3>1, <3>2 DEF Right, Met
  <2>2. Closed' = Closed /\ stage' # "done" /\ pc' # "wait"
    BY <1>1, <1>2
  <2> QED
    BY <2>1, <2>2 DEF AllRight, Right, Met
<1> QED
  BY <1>1, <1>3, <1>4, <1>5, <1>6 DEF GRPCInv

\* The test returns, and its report is closed as it was judged, or tried again.
LEMMA AttemptEndsInv ==
  ASSUME GRPCInv, AttemptEnds
  PROVE  GRPCInv'
<1>1. /\ pc = "test" /\ pc' \in {"loop", "returned", "wait"}
      /\ stage = "done" /\ stage' = "idle" /\ call' = NoCall
      /\ UNCHANGED <<suite, reports, attempt, tests, h, log>> /\ last' = last /\ last \in Nat
  BY TestInProgress
  DEF GRPCInv, Stages, AttemptEnds, Return, Passed, Failed, Wait, EndTest, last
<1>2. IInv'
  BY PassedInv, FailedInv, WaitInv DEF GRPCInv, AttemptEnds, Return
<1>3. GRPCTypeOK' /\ Sending'
  <2>1. <<>> \in Seq(Answers) /\ <<>> \in Seq(Messages)
    OBVIOUS
  <2> QED
    BY <1>1, <2>1 DEF GRPCInv, GRPCTypeOK, Sending, NoCall
<1>4. Stages' /\ Logged'
  BY <1>1 DEF GRPCInv, Stages, Logged, Calling
<1>5. AllRight'
  <2>1. \A k \in Closed \cup {last} : Right(k)'
    BY <1>1 DEF GRPCInv, AllRight, Right, Met
  <2>2. Closed' \subseteq Closed \cup {last}
    BY <1>1 DEF Closed
  <2> QED
    BY <1>1, <2>1, <2>2 DEF AllRight, Right, Met
<1> QED
  BY <1>2, <1>3, <1>4, <1>5 DEF GRPCInv

\* The steps that no test takes part in leave the reports alone.
LEMMA RunGoesOnInv ==
  ASSUME GRPCInv, RunGoesOn \/ UNCHANGED <<vars, grpcVars>>
  PROVE  GRPCInv'
<1>1. /\ IInv'
      /\ UNCHANGED <<suite, reports, attempt, tests, stage, h, sender, call, log>>
      /\ last' = last /\ test' = test
  BY FinishInv, GiveUpInv, ExpireInv, CancelInv, UnchangedInv
  DEF GRPCInv, RunGoesOn, Finish, GiveUp, EndTest, Expire, Cancel, vars, grpcVars, last, test
<1>2. \/ pc' = pc
      \/ pc = "loop" /\ pc' = "returned"
      \/ pc = "wait" /\ pc' \in {"loop", "returned"}
  BY DEF RunGoesOn, Finish, GiveUp, EndTest, Expire, Cancel, vars
<1>3. GRPCTypeOK' /\ Stages' /\ Sending'
  BY <1>1, <1>2 DEF GRPCInv, GRPCTypeOK, Stages, Sending, SentRight, Calling
<1>4. Logged'
  BY <1>1, <1>2 DEF GRPCInv, Logged
<1>5. AllRight'
  <2>1. last \in Nat
    BY DEF GRPCInv, IInv, TypeOK, last
  <2>2. Closed' = Closed \/ (Closed' = Closed \cup {last} /\ pc = "wait")
    BY <1>1, <1>2, <2>1 DEF GRPCInv, IInv, OpenReport, Closed
  <2>3. \A k : Right(k) => Right(k)'
    BY <1>1 DEF Right, Met
  <2> QED
    BY <1>1, <1>2, <2>2, <2>3 DEF GRPCInv, AllRight
<1> QED
  BY <1>1, <1>3, <1>4, <1>5 DEF GRPCInv

-----------------------------------------------------------------------------
\* The conjunction GRPCInv is an inductive invariant of the tests of a run.
THEOREM GRPCInvariance == GRPCSpec => []GRPCInv
<1>1. GRPCInv /\ [GRPCNext]_<<vars, grpcVars>> => GRPCInv'
  BY RunBeginsInv, AttemptBeginsInv, ResolveInv, OpenInv, OpenFailsInv, JudgeInv,
     AttemptEndsInv, SendInv, ServeInv, ReceiveInv, RunGoesOnInv
  DEF GRPCNext, TestRun, Stuck
<1> QED
  BY GRPCInitInv, <1>1, PTL DEF GRPCSpec

\* The service gets the messages of the test in their order, and its headers
\* (grpcexpect.go:170-179, config.go:98).
THEOREM SendsWhatTestSays == GRPCSpec => []RequestsRight
<1>1. GRPCInv => RequestsRight
  BY DEF GRPCInv, Sending, SentRight, ToSend, MetadataRight, RequestsRight
<1> QED
  BY <1>1, GRPCInvariance, PTL

\* A report without an error is that of a call that met every expectation.
THEOREM JudgesByResult == GRPCSpec => []GRPCJudged
<1>1. GRPCInv => GRPCJudged
  BY DEF GRPCInv, AllRight, Right, Met, GRPCJudged
<1> QED
  BY <1>1, GRPCInvariance, PTL
=============================================================================
