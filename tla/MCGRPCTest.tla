----------------------------- MODULE MCGRPCTest -----------------------------
(* gRPC suites of one or two tests over two messages.                       *)
EXTENDS GRPCTest, TLC

MCLower == "hello" :> "hello" @@ "Hello" :> "hello" @@ "trace" :> "trace"
MCHeaders == {<<>>, "hello" :> "world"}

Calling(kind, reqs, msgs) ==
  [kind |-> kind, reqs |-> reqs, msgs |-> msgs, code |-> OK,
   base |-> <<>>, header |-> <<>>, expects |-> <<>>]

\* What becomes of a document that is absent.
Absent == <<Blank>>

MCSuiteFiles == {
  \* every kind of method
  <<Calling("unary", Absent, <<"a">>), Calling("missing", Absent, Absent)>>,
  <<Calling("client", <<"a", "b">>, <<"b">>)>>,
  <<Calling("server", <<"a">>, <<"a", "b">>)>>,
  <<[Calling("bidi", <<"a", "b">>, <<"b">>) EXCEPT !.header = "Hello" :> "test",
       !.base = "hello" :> "suite" @@ "trace" :> "suite"]>>,
  \* headers; the second expectation is never met
  <<[Calling("unary", <<>>, <<"a">>) EXCEPT !.expects = "hello" :> "world",
       !.base = "hello" :> "suite" @@ "trace" :> "suite", !.header = "hello" :> "test"],
    [Calling("unary", <<"a">>, <<"a">>) EXCEPT !.expects = "Hello" :> "world"]>>,
  \* errors that are expected, with and without a document
  <<[Calling("unary", Absent, <<>>) EXCEPT !.code = "NotFound"],
    [Calling("unary", Absent, Absent) EXCEPT !.code = Deadline]>>,
  <<[Calling("bidi", <<"a">>, <<"a">>) EXCEPT !.code = Deadline]>>,
  \* messages that cannot be parsed, and too many
  <<Calling("unary", <<Malformed>>, <<"a">>), Calling("server", <<"a", "b">>, <<>>)>>,
  <<Calling("client", <<"a", Malformed>>, <<"a">>)>>,
  <<Calling("bidi", <<"a", Malformed, "b">>, <<"a", Malformed>>)>> }
=============================================================================
