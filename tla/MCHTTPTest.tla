----------------------------- MODULE MCHTTPTest -----------------------------
(* HTTP suites of one or two tests over small documents.                    *)
EXTENDS HTTPTest, TLC

CONSTANT none

MCAtoi == "0" :> 0 @@ "1" :> 1 @@ "01" :> 1 @@ "-1" :> -1

\* {"id": 7}, {"id": [7, null]}, and a document that is no object.
DocA == Object("id" :> Number(7))
DocB == Object("id" :> Array(<<Number(7), Null>>))
MCValues == {DocA, DocB, DocB.fields["id"], Number(7), Number(2), Null}
Body(json, rest) == [json |-> json, rest |-> rest]

Test(id, query, save) ==
  [id |-> id, query |-> query, save |-> save, status |-> 0, header |-> FALSE,
   document |-> none, jsonSchema |-> none, jsonValues |-> none,
   base |-> <<>>, sends |-> <<>>, bodies |-> <<>>]

MCCanonical == "A" :> "A" @@ "a" :> "A" @@ "accept" :> "Accept" @@ "Accept" :> "Accept"
               @@ "content-type" :> "Content-Type"
Base == "A" :> "suite" @@ "content-type" :> "suite"
JSONBody == "body" :> [raw |-> FALSE, bytes |-> "{}"]

Expecting(q, v) == {[query |-> q, value |-> v]}
Login == Test("login", none, TRUE)
Plainly == Test("plain", none, FALSE)
GetWith(q) == Test("get", q, FALSE)

MCSuiteFiles == {
  \* a value of a saved document, of any depth
  <<[Login EXCEPT !.jsonValues = Expecting(<<"id">>, Number(7))], GetWith(<<"login", "id">>)>>,
  <<Login, GetWith(<<"login", "id", "1">>)>>,
  \* a document that replaces itself, one that nobody saves, and an id used twice
  <<Login, [Login EXCEPT !.query = <<"login", "id">>, !.header = TRUE]>>,
  <<Plainly, GetWith(<<"login">>)>>,
  \* expectations of one test
  <<[Plainly EXCEPT !.status = -1, !.document = [raw |-> FALSE, value |-> DocA]]>>,
  <<[Plainly EXCEPT !.status = 500, !.header = TRUE,
                    !.document = [raw |-> TRUE, value |-> Body(NotJSON, TRUE)]]>>,
  <<[Login EXCEPT !.jsonSchema = {DocA}, !.jsonValues = Expecting(<<"id", "length">>, Number(2))]>>,
  <<[Plainly EXCEPT !.jsonValues = Expecting(<<"id", "01">>, Null)
                                     \cup Expecting(<<"id", "0">>, Number(7))]>>,
  \* an index below zero, in an expectation and in a URL
  <<[Plainly EXCEPT !.jsonValues = Expecting(<<"id", "-1">>, Number(7))]>>,
  <<Login, GetWith(<<"login", "id", "-1">>)>>,
  \* headers and bodies
  <<[Plainly EXCEPT !.base = Base, !.sends = "a" :> "test" @@ "Accept" :> "text",
                    !.document = [raw |-> FALSE, value |-> DocA], !.bodies = JSONBody]>>,
  <<[Login EXCEPT !.base = Base, !.bodies = "formData" :> "k=v"],
    [GetWith(<<"login", "id">>) EXCEPT !.base = Base, !.jsonSchema = {DocA},
       !.sends = "content-type" :> "", !.bodies = "multipart" :> "parts"]>>,
  <<[Login EXCEPT !.sends = "accept" :> "", !.bodies = "body" :> [raw |-> TRUE, bytes |-> "x"]],
    [Plainly EXCEPT !.sends = "content-type" :> "own", !.bodies = JSONBody,
                    !.jsonValues = Expecting(<<"id">>, Number(7))]>>,
  \* suites that are refused
  <<>>,
  <<[Plainly EXCEPT !.bodies = JSONBody @@ "formData" :> "k=v"]>>,
  <<Login, [Plainly EXCEPT !.document = [raw |-> FALSE, value |-> DocA], !.jsonSchema = {DocA}]>> }

MCResponses ==
  [status : {200, 500}, header : {TRUE}, body : {Body(DocA, FALSE), Body(NotJSON, TRUE)}]
  \cup [status : {200}, header : {FALSE},
        body : {Body(DocA, TRUE), Body(DocB, FALSE), Body(Null, FALSE)}]
=============================================================================
