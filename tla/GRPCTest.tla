------------------------------ MODULE GRPCTest -------------------------------
(***************************************************************************)
(* testsuite/grpcexpect (config.go, grpcexpect.go) over grpcurl.InvokeRpc: *)
(* what a test of a gRPC suite does in each attempt of a run (SuiteRun).   *)
(* It looks up its method, in a file or by asking the service, calls it    *)
(* with the messages of its document and compares what comes back.         *)
(*                                                                         *)
(* grpcurl takes the messages from the test's handler one by one.  A unary *)
(* or server-streaming method gets one; a client-streaming one all, before *)
(* the answer is read; a bidirectional one gets them from a goroutine of   *)
(* its own, while answers are read.  The service is the environment.  A    *)
(* message is a name; what service and file may say is in the constants.   *)
(***************************************************************************)
EXTENDS SuiteRun, SequencesExt

CONSTANTS SuiteFiles,   \* the tests of a suite, as its file describes them, each with the
                        \* header of the suite
          Lower,        \* the names of headers, and the same in lower case
          Answers,      \* the messages of the service
          Codes,        \* the codes that it ends a call with
          Headers,      \* the headers that it sends, with names in lower case
          MaxAnswers    \* bound: its answers to one call

VARIABLES tests,        \* Suite.tests
          reflection,   \* whether methods are looked up by asking the service
          stage,        \* where test.Run is
          h,            \* the handler: what it has given out and received
          sender,       \* whoever sends the messages
          call,         \* the service: the messages and the metadata it got, its answers
          log           \* history: the last call of each test of this run that came to a status

grpcVars == <<tests, reflection, stage, h, sender, call, log>>

OK == "OK"
Deadline == "DeadlineExceeded"
Canceled == "Canceled"
Malformed == "malformed"    \* a message that is not one of the method's type
Blank == "{}"               \* a message without fields
None == "none"

Streaming == {"client", "server", "bidi"}
TakesMany(t) == t.kind \in {"client", "bidi"}
AnswersOnce(t) == t.kind \in {"unary", "client"}

Tests == UNION {Range(file) : file \in SuiteFiles}
Messages == Answers \cup {Malformed, Blank}
              \cup UNION {Range(t.reqs) \cup Range(t.msgs) : t \in Tests}

ASSUME GRPCAssumption ==
  /\ SuiteFiles \subseteq Seq(Tests)
  /\ \A t \in Tests :
       t.reqs \in Seq(Messages) /\ t.msgs \in Seq(Messages) /\ IsFiniteSet(DOMAIN t.expects)
  /\ Malformed \notin Answers

newHandler == [curReq |-> 0, md |-> <<>>, status |-> None, resps |-> <<>>]

\* The header is a sequence of none or one.
NoCall == [got |-> <<>>, metadata |-> <<>>, header |-> <<>>, answers |-> <<>>, code |-> None]

test == tests[last]

-----------------------------------------------------------------------------
\* genTests: MergeHeaders knows names by their spelling; MetadataFromHeaders, later, does
\* not, and keeps every value.
MergeHeaders(base, header) ==
  [k \in DOMAIN base \cup DOMAIN header |->
     IF k \in DOMAIN header THEN header[k] ELSE base[k]]
MetadataFromHeaders(hs) ==
  [n \in {Lower[k] : k \in DOMAIN hs} |-> {hs[k] : k \in {k \in DOMAIN hs : Lower[k] = n}}]

GRPCInit ==
  /\ Init
  /\ tests \in SuiteFiles
  /\ suite.nb = Len(tests)
  /\ reflection \in BOOLEAN
  /\ stage = "idle"
  /\ h = newHandler
  /\ sender = "idle"
  /\ call = NoCall
  /\ log = <<>>

RunBegins ==
  /\ Begin
  /\ log' = <<>>
  /\ UNCHANGED <<tests, reflection, stage, h, sender, call>>

\* Mutant: the handler belongs to the test and not to the attempt.
AttemptBeginsWithHandler ==
  /\ NextTest \/ Retry
  /\ stage' = "resolve"
  /\ UNCHANGED <<tests, reflection, h, sender, call, log>>

\* test.Run: a new handler.
AttemptBegins ==
  /\ NextTest \/ Retry
  /\ stage' = "resolve"
  /\ h' = newHandler
  /\ UNCHANGED <<tests, reflection, sender, call, log>>

Log(n, kind) ==
  reports' = [reports EXCEPT ![last].errs =
                @ \o [i \in 1 .. n |-> [kind |-> kind, attempt |-> attempt]]]

\* InvokeRpc returns with a status.
Record ==
  log' = [k \in DOMAIN log \cup {last} |->
            IF k = last THEN [attempt |-> attempt, result |-> h'] ELSE log[k]]

\* InvokeRpc returns an error that is not a status.
InvokeFails ==
  /\ Log(1, "error")
  /\ stage' = "done"
  /\ UNCHANGED <<suite, pc, nbFailed, attempt, expired, ctxDone>>
  /\ UNCHANGED <<tests, reflection, log>>

-----------------------------------------------------------------------------
Resolve ==
  /\ stage = "resolve"
  /\ test.kind # "missing"
  /\ stage' = "call"
  /\ UNCHANGED <<vars, tests, reflection, h, sender, call, log>>

\* There is no such method, or the service does not tell.
ResolveFails ==
  /\ stage = "resolve"
  /\ test.kind = "missing" \/ reflection
  /\ InvokeFails
  /\ UNCHANGED <<h, sender, call>>

\* The service does not answer the question, which is asked without the attempt's context.
ResolveHangs ==
  /\ stage = "resolve"
  /\ reflection
  /\ stage' = "hung"
  /\ UNCHANGED <<vars, tests, reflection, h, sender, call, log>>

Unsendable(t) == ~TakesMany(t) /\ (Len(t.reqs) > 1 \/ t.reqs = <<Malformed>>)

\* invokeUnary and invokeServerStream, up to the call.
Refuse ==
  /\ stage = "call"
  /\ Unsendable(test)
  /\ InvokeFails
  /\ UNCHANGED <<h, sender, call>>

\* The method is called; one that takes one message gets it now.
Open ==
  /\ stage = "call"
  /\ ~Unsendable(test)
  /\ ~expired
  /\ stage' = "open"
  /\ IF TakesMany(test)
     THEN sender' = "sending" /\ UNCHANGED h
     ELSE sender' = "closed" /\ h' = [h EXCEPT !.curReq = Len(test.reqs)]
  /\ call' = [call EXCEPT
       !.metadata = MetadataFromHeaders(MergeHeaders(test.base, test.header)),
       !.got = IF TakesMany(test) THEN <<>> ELSE IF test.reqs = <<>> THEN <<Blank>> ELSE test.reqs]
  /\ UNCHANGED <<vars, tests, reflection, log>>

\* There is no connection, or no time left.  grpcurl then asks the stream that it did not
\* get for its header.
OpenFails ==
  /\ stage = "call"
  /\ ~Unsendable(test)
  /\ IF test.kind \in Streaming
     THEN stage' = "panic" /\ UNCHANGED <<h, log>>
     ELSE \E c \in IF expired THEN {Deadline} ELSE {"Unavailable"} :
            /\ stage' = "judge"
            /\ h' = [h EXCEPT !.status = c]
            /\ Record
  /\ UNCHANGED <<vars, tests, reflection, sender, call>>

-----------------------------------------------------------------------------
\* getRequestData, and what becomes of the message,
SendNext ==
  /\ stage = "open" /\ sender = "sending"
  /\ h.curReq < Len(test.reqs)
  /\ test.reqs[h.curReq + 1] # Malformed
  /\ h' = [h EXCEPT !.curReq = @ + 1]
  /\ call' = [call EXCEPT !.got = Append(@, test.reqs[h.curReq + 1])]
  /\ UNCHANGED <<vars, tests, reflection, stage, sender, log>>

\* which the stream does not take when it is over,
SendStops ==
  /\ stage = "open" /\ sender = "sending"
  /\ h.curReq < Len(test.reqs)
  /\ test.reqs[h.curReq + 1] # Malformed
  /\ call.code # None \/ expired
  /\ h' = [h EXCEPT !.curReq = @ + 1]
  /\ sender' = "stopped"
  /\ UNCHANGED <<vars, tests, reflection, stage, call, log>>

\* or which cannot be parsed: invokeClientStream returns, the goroutine of invokeBidi
\* leaves its error behind and cancels the call.
SendFails ==
  /\ stage = "open" /\ sender = "sending"
  /\ h.curReq < Len(test.reqs)
  /\ test.reqs[h.curReq + 1] = Malformed
  /\ h' = [h EXCEPT !.curReq = @ + 1]
  /\ IF test.kind = "client"
     THEN InvokeFails /\ UNCHANGED sender
     ELSE sender' = "failed" /\ UNCHANGED <<vars, tests, reflection, stage, log>>
  /\ UNCHANGED call

\* io.EOF from getRequestData.
CloseSend ==
  /\ stage = "open" /\ sender = "sending"
  /\ h.curReq >= Len(test.reqs)
  /\ sender' = "closed"
  /\ UNCHANGED <<vars, tests, reflection, stage, h, call, log>>

-----------------------------------------------------------------------------
Serve(c) == stage = "open" /\ call.code = None /\ call' = c /\
            UNCHANGED <<vars, tests, reflection, stage, h, sender, log>>

SendsHeader ==
  /\ call.header = <<>>
  /\ \E md \in Headers : Serve([call EXCEPT !.header = <<md>>])

AnswersNext ==
  /\ stage = "open" /\ ~AnswersOnce(test)
  /\ call.header # <<>>
  /\ Len(call.answers) < MaxAnswers
  /\ \E m \in Answers : Serve([call EXCEPT !.answers = Append(@, m)])

\* The service may end a call at any time, with its one answer if it is a success.
Ends ==
  /\ stage = "open"
  /\ call.header # <<>>
  /\ \E c \in Codes :
       IF AnswersOnce(test) /\ c = OK
       THEN \E m \in Answers : Serve([call EXCEPT !.code = c, !.answers = <<m>>])
       ELSE Serve([call EXCEPT !.code = c])

-----------------------------------------------------------------------------
\* InvokeRpc returns with a status, after the goroutine that sends has ended.
Returns(code, header, answers) ==
  /\ stage' = "judge"
  /\ sender' = "idle"
  /\ h' = [h EXCEPT !.status = code, !.md = header, !.resps = answers]
  /\ Record
  /\ UNCHANGED <<vars, tests, reflection, call>>

\* A client stream is read when everything was sent; a bidirectional one at any time, and
\* what the goroutine that sends has left behind goes before the service's status.
Reading ==
  /\ stage = "open"
  /\ test.kind = "client" => sender # "sending"
  /\ sender # "failed"

CallEnds ==
  /\ Reading
  /\ call.code # None
  /\ Returns(call.code, call.header[1], call.answers)

\* Mutant: the call is made without the attempt's context.
CallExpiresNever ==
  /\ Reading
  /\ FALSE
  /\ Returns(Deadline, <<>>, <<>>)

\* The context of the attempt is done; some answers may have been read.
Interrupted(code) ==
  \E n \in 0 .. IF AnswersOnce(test) THEN 0 ELSE Len(call.answers) :
    \E md \in {<<>>} \cup Range(call.header) :
      /\ n > 0 => md = call.header[1]
      /\ Returns(code, md, SubSeq(call.answers, 1, n))

CallExpires ==
  /\ Reading
  /\ expired
  /\ Interrupted(Deadline)

\* In a bidirectional stream that is over a message that cannot be sent cancels the call
\* before all that the service said is read.
CallCancelled ==
  /\ Reading
  /\ test.kind = "bidi" /\ sender = "stopped" /\ ~expired
  /\ Interrupted(Canceled)

CallFails ==
  /\ stage = "open"
  /\ sender = "failed"
  /\ sender' = "idle"
  /\ InvokeFails
  /\ UNCHANGED <<h, call>>

-----------------------------------------------------------------------------
One(b) == IF b THEN 1 ELSE 0

WrongHeaders(t) ==
  {k \in DOMAIN t.expects : k \notin DOMAIN h.md \/ h.md[k] # t.expects[k]}
WrongAnswers(t) ==
  {i \in DOMAIN t.msgs \cap DOMAIN h.resps : t.msgs[i] = Malformed \/ t.msgs[i] # h.resps[i]}

\* Mutant: the numbers of messages are not compared.
NbErrorsInCommon(t) ==
  IF h.status # t.code THEN 1
  ELSE Cardinality(WrongHeaders(t)) + Cardinality(WrongAnswers(t))

\* The rest of test.Run.  The names of the expected headers are as they are in the file.
NbErrors(t) ==
  IF h.status # t.code THEN 1
  ELSE Cardinality(WrongHeaders(t)) + One(Len(t.msgs) # Len(h.resps))
       + Cardinality(WrongAnswers(t))

Judge ==
  /\ stage = "judge"
  /\ Log(NbErrors(test), "failure")
  /\ stage' = "done"
  /\ UNCHANGED <<suite, pc, nbFailed, attempt, expired, ctxDone>>
  /\ UNCHANGED <<tests, reflection, h, sender, call, log>>

AttemptEnds ==
  /\ stage = "done"
  /\ Return
  /\ stage' = "idle"
  /\ sender' = "idle"
  /\ call' = NoCall
  /\ UNCHANGED <<tests, reflection, h, log>>

\* The steps of the run that no test takes part in.
RunGoesOn ==
  /\ stage # "panic"
  /\ Finish \/ GiveUp \/ Expire \/ Cancel
  /\ UNCHANGED grpcVars

\* A panic ends the process; a test that hangs stops its run.
Stuck == stage \in {"panic", "hung"} /\ UNCHANGED <<vars, grpcVars>>

Send == SendNext \/ SendStops \/ SendFails \/ CloseSend
TestRun ==
  \/ Resolve \/ ResolveFails \/ ResolveHangs
  \/ Refuse \/ Open \/ OpenFails
  \/ Judge \/ AttemptEnds
Receive == CallEnds \/ CallExpires \/ CallCancelled \/ CallFails

GRPCNext ==
  \/ RunBegins \/ AttemptBegins
  \/ TestRun
  \/ Send
  \/ SendsHeader \/ AnswersNext \/ Ends
  \/ Receive
  \/ RunGoesOn
  \/ Stuck

\* The goroutines go on, and timers expire.  Nothing is assumed of the service.
GRPCFairness ==
  /\ WF_<<vars, grpcVars>>(AttemptBegins \/ TestRun)
  /\ WF_<<vars, grpcVars>>(Send)
  /\ WF_<<vars, grpcVars>>(Receive)
  /\ WF_<<vars, grpcVars>>(RunGoesOn)

GRPCSpec == GRPCInit /\ [][GRPCNext]_<<vars, grpcVars>> /\ GRPCFairness

-----------------------------------------------------------------------------
\* The service gets the messages of the test in their order, each once in every attempt,
\* whoever sends them; it is told that there are no more only after the last; and it gets
\* the headers of the suite and the test, of which those of the test replace the others
\* that are spelled in the same way (grpcexpect.go:170-179, config.go:98).
RequestsRight ==
  stage = "open" =>
    LET all == IF TakesMany(test) \/ test.reqs # <<>> THEN test.reqs ELSE <<Blank>>
    IN  /\ IsPrefix(call.got, all)
        /\ sender = "closed" => call.got = all
        /\ Malformed \notin Range(call.got)
        /\ \A k \in DOMAIN test.header : test.header[k] \in call.metadata[Lower[k]]
        /\ \A k \in DOMAIN test.base \ DOMAIN test.header :
             test.base[k] \in call.metadata[Lower[k]]
        /\ \A n \in DOMAIN call.metadata :
             \A v \in call.metadata[n] :
               \/ \E k \in DOMAIN test.header : Lower[k] = n /\ test.header[k] = v
               \/ \E k \in DOMAIN test.base \ DOMAIN test.header : Lower[k] = n /\ test.base[k] = v

\* A test passes if, and only if, the call of its last attempt came to the expected code,
\* with the expected values in its header and as many messages as expected, each equal: an
\* error of the lookup, of a message, of sending, and too few or too many answers all reach
\* the verdict.  (No header is met whose name is not in lower case: grpcexpect.go:116.)
GRPCJudged ==
  \A k \in Closed :
    reports[k].errs = <<>> <=>
      /\ k \in DOMAIN log
      /\ log[k].attempt = reports[k].attempts
      /\ LET r == log[k].result
             t == tests[k]
         IN  /\ r.status = t.code
             /\ r.resps = t.msgs
             /\ {<<n, t.expects[n]>> : n \in DOMAIN t.expects}
                  \subseteq {<<n, r.md[n]>> : n \in DOMAIN r.md}

\* A run ends although the service never answers a call: the timeout of the attempt ends
\* every call.  It does not end the question for the method, which only reflection asks
\* (grpcexpect.go:67), and a stream that cannot be opened ends the process
\* (grpcexpect.go:106).
GRPCRunEnds ==
  pc = "loop" ~> \/ pc = "returned"
                 \/ stage = "hung" /\ reflection
                 \/ stage = "panic" /\ test.kind \in Streaming
=============================================================================
