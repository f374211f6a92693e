------------------------------ MODULE HTTPTest ------------------------------
(***************************************************************************)
(* testsuite/httpexpect (config.go, request.go, httpexpect.go,             *)
(* response.go): what the tests of an HTTP suite are made of, and what     *)
(* they do in each attempt of a run (SuiteRun).  Loading makes a request   *)
(* for each test, and every attempt sends a clone of it, in which it       *)
(* replaces the placeholder of the URL by a value of a document that an    *)
(* earlier test of the run saved.  It checks the response; a test with     *)
(* saveDocument then saves its own document.  The service is the           *)
(* environment.                                                            *)
(*                                                                         *)
(* The documents are in testsuite.MD, which Suite.runTests makes anew for  *)
(* each run.  Request.WithContext copies the URL, as it does in the        *)
(* releases of Go that can build this repository, so that the request of   *)
(* the test keeps its placeholder.                                         *)
(***************************************************************************)
EXTENDS SuiteRun, JSONQuery

CONSTANTS SuiteFiles,   \* the tests of a suite, as its file describes them, each with the
                        \* base header of the file
          Canonical,    \* the names of headers, and their canonical spellings
          Responses,    \* what the service answers
          NoQuery, NoDocument, NoSchema, NoValues

VARIABLES tests,        \* Suite.tests
          md,           \* testsuite.MD: from ids of tests to their documents
          own,          \* test.req, for each test: [url, header, body]
          stage,        \* where test.Run is
          sent,         \* the request in progress
          log           \* history: the responses of this run

httpVars == <<tests, md, own, stage, sent, log>>

Plain == [type |-> "plain"]
Placeholder == [type |-> "placeholder"]
NotJSON == [type |-> "broken"]          \* the value of a body that cannot be decoded

Tests == UNION {Range(file) : file \in SuiteFiles}
IsQuery(q) == q # <<>> /\ q \in Seq(Range(q))

\* No map of a file has one name in two spellings, which the order of the map would decide
\* between.
IsHeader(h) ==
  /\ DOMAIN h \subseteq DOMAIN Canonical
  /\ \A k, l \in DOMAIN h : Canonical[k] = Canonical[l] => k = l

IsTest(t) ==
  /\ DOMAIN t = {"id", "query", "save", "status", "header", "document", "jsonSchema",
                 "jsonValues", "base", "sends", "bodies"}
  /\ t.status \in Int /\ {t.save, t.header} \subseteq BOOLEAN
  /\ t.query # NoQuery => IsQuery(t.query)
  /\ t.document # NoDocument =>
       t.document.raw \in BOOLEAN /\ (t.document.raw \/ t.document.value \in Values)
  /\ t.jsonSchema # NoSchema => t.jsonSchema \subseteq Values
  /\ t.jsonValues # NoValues =>
       /\ IsFiniteSet(t.jsonValues)
       /\ \A v \in t.jsonValues : IsQuery(v.query) /\ v.value \in Values
  /\ IsHeader(t.base) /\ IsHeader(t.sends)

ASSUME HTTPAssumption ==
  /\ SuiteFiles \subseteq Seq(Tests)
  /\ \A t \in Tests : IsTest(t)
  /\ \A r \in Responses : r.header \in BOOLEAN /\ r.body.json \in Values \cup {NotJSON}

-----------------------------------------------------------------------------
Valid(c) ==
  /\ Cardinality(DOMAIN c.bodies) <= 1
  /\ c.document # NoDocument => c.jsonSchema = NoSchema /\ c.jsonValues = NoValues

\* Function f over g.
Over(f, g) ==
  [k \in DOMAIN f \cup DOMAIN g |-> IF k \in DOMAIN f THEN f[k] ELSE g[k]]

\* http.Header knows a name by its canonical spelling.
Canonized(h) ==
  [n \in {Canonical[k] : k \in DOMAIN h} |-> h[CHOOSE k \in DOMAIN h : Canonical[k] = n]]
Get(h, n) == IF n \in DOMAIN h THEN h[n] ELSE ""
SetDefault(h, n, v) == IF v # "" /\ Get(h, n) = "" THEN Over([k \in {n} |-> v], h) ELSE h

\* The bytes of a body, and the type that goes with them; bytes as they are have none.
getBody(bodies) ==
  CASE "body" \in DOMAIN bodies -> bodies["body"].bytes
    [] "multipart" \in DOMAIN bodies -> bodies["multipart"]
    [] "formData" \in DOMAIN bodies -> bodies["formData"]
    [] OTHER -> "none"
cntType(bodies) ==
  CASE "body" \in DOMAIN bodies -> IF bodies["body"].raw THEN "" ELSE "json"
    [] "multipart" \in DOMAIN bodies -> "multipart"
    [] "formData" \in DOMAIN bodies -> "form"
    [] OTHER -> ""

\* The headers of the test are set over those of the suite.
toHTTPRequest(c) ==
  [url |-> IF c.query = NoQuery THEN Plain ELSE Placeholder,
   header |-> SetDefault(Over(Canonized(c.sends), Canonized(c.base)),
                         "Content-Type", cntType(c.bodies)),
   body |-> getBody(c.bodies)]

ExpectsJSON(c) ==
  \/ c.document # NoDocument /\ ~c.document.raw
  \/ c.jsonSchema # NoSchema
  \/ c.jsonValues # NoValues

\* The request of a test, and the test: the expected status is 200 unless the file says
\* otherwise; below zero, any will do.
prepareRequest(c) ==
  LET r == toHTTPRequest(c)
  IN  IF ExpectsJSON(c) THEN [r EXCEPT !.header = SetDefault(@, "Accept", "json")] ELSE r
prepare(c) == [c EXCEPT !.status = IF @ = 0 THEN 200 ELSE @]

\* One invalid test refuses the suite.
genTests(file) == IF file # <<>> /\ \A k \in DOMAIN file : Valid(file[k])
                  THEN {[k \in DOMAIN file |-> prepare(file[k])]} ELSE {}

HTTPInit ==
  /\ Init
  /\ \E file \in SuiteFiles :
       /\ tests \in genTests(file)
       /\ own = [k \in DOMAIN file |-> prepareRequest(file[k])]
  /\ suite.nb = Len(tests)
  /\ md = <<>>
  /\ stage = "idle"
  /\ sent = own[1]
  /\ log = <<>>

RunBegins ==
  /\ Begin
  /\ md' = <<>>
  /\ log' = <<>>
  /\ UNCHANGED <<tests, own, stage, sent>>

AttemptBegins ==
  /\ NextTest \/ Retry
  /\ stage' = "call"
  /\ UNCHANGED <<tests, md, own, sent, log>>

\* The URL of test k with its placeholder replaced, if the query has a value.
Replaced(k) ==
  LET v == queryJSONData(tests[k].query, Object(md))
  IN  IF own[k].url # Placeholder \/ v = Error THEN own[k].url ELSE v

\* A request whose context is done already is not sent.
Requested == IF sent'.url = Panic THEN "panic" ELSE IF expired THEN "late" ELSE "sent"

\* Mutant: the URL and the body are shared with the clone, so that the URL of the test's
\* own request is written to and its body is read to the end.
SendShared ==
  /\ pc = "test" /\ stage = "call"
  /\ sent' = [own[last] EXCEPT !.url = Replaced(last)]
  /\ own' = [own EXCEPT ![last].url = sent'.url, ![last].body = "none"]
  /\ stage' = Requested
  /\ UNCHANGED <<vars, tests, md, log>>

\* cloneRequest: a header of its own, and a new reader of the body (GetBody).
Send ==
  /\ pc = "test" /\ stage = "call"
  /\ sent' = [own[last] EXCEPT !.url = Replaced(last)]
  /\ stage' = Requested
  /\ UNCHANGED <<vars, tests, md, own, log>>

Log(n, kind) ==
  reports' = [reports EXCEPT ![last].errs =
                @ \o [i \in 1 .. n |-> [kind |-> kind, attempt |-> attempt]]]

\* The request cannot be done, its context is done, or the body cannot be read.
RequestFails ==
  /\ pc = "test" /\ stage \in {"sent", "late"}
  /\ Log(1, "error")
  /\ stage' = "done"
  /\ UNCHANGED <<suite, pc, nbFailed, attempt, expired, ctxDone>>
  /\ UNCHANGED <<tests, md, own, sent, log>>

-----------------------------------------------------------------------------
\* A body has the value of its first JSON document, json, and whether more follows: rest.
StatusIsWrong(t, r) == t.status # r.status /\ t.status >= 0

WantsJSON(t) == ExpectsJSON(t) \/ t.save

DocumentDiffers(t, r) ==
  /\ t.document # NoDocument
  /\ t.document.value # IF t.document.raw THEN r.body ELSE r.body.json

Found(q, r) == queryJSONData(q, r.body.json)
WrongValues(t, r) ==
  {v \in IF t.jsonValues = NoValues THEN {} ELSE t.jsonValues : Found(v.query, r) # v.value}

One(b) == IF b THEN 1 ELSE 0

\* Mutant: a body that cannot be decoded fails no check but that of the document.
NbErrorsUndecoded(t, r) ==
  IF StatusIsWrong(t, r) THEN 1
  ELSE One(t.header /\ ~r.header) + One(DocumentDiffers(t, r))
       + (IF r.body.json = NotJSON THEN 0
          ELSE One(t.jsonSchema # NoSchema /\ r.body.json \notin t.jsonSchema)
               + Cardinality(WrongValues(t, r)))

\* The errors that checkResponse logs.  A body that cannot be decoded is reported once,
\* and fails each check that needs it without another error.
NbErrors(t, r) ==
  IF StatusIsWrong(t, r) THEN 1
  ELSE One(t.header /\ ~r.header)
       + (IF r.body.json = NotJSON
          THEN One(DocumentDiffers(t, r) /\ t.document.raw) + One(WantsJSON(t))
          ELSE One(DocumentDiffers(t, r))
               + One(t.jsonSchema # NoSchema /\ r.body.json \notin t.jsonSchema)
               + Cardinality(WrongValues(t, r)))

\* A value is looked up only in a body that was decoded.
Panics(t, r) ==
  /\ ~StatusIsWrong(t, r)
  /\ r.body.json # NotJSON
  /\ \E v \in WrongValues(t, r) : Found(v.query, r) = Panic

\* Mutant: the first document of a run is kept.
SavesFirst(t, r) ==
  t.save /\ ~StatusIsWrong(t, r) /\ r.body.json # NotJSON /\ t.id \notin DOMAIN md

\* The document is saved whatever the checks found, unless the status was wrong.
Saves(t, r) == t.save /\ ~StatusIsWrong(t, r) /\ r.body.json # NotJSON

\* A response has come: checkResponse.
Answered(r) ==
  /\ pc = "test" /\ stage = "sent"
  /\ LET t == tests[last]
     IN  IF Panics(t, r)
         THEN stage' = "panic" /\ UNCHANGED <<reports, md>>
         ELSE /\ stage' = "done"
              /\ Log(NbErrors(t, r), "failure")
              /\ md' = IF Saves(t, r) THEN Over([id \in {t.id} |-> r.body.json], md) ELSE md
  /\ log' = Append(log, [test |-> last, attempt |-> attempt, resp |-> r])
  /\ UNCHANGED <<suite, pc, nbFailed, attempt, expired, ctxDone, tests, own, sent>>

\* test.Run returns.
AttemptEnds ==
  /\ stage = "done"
  /\ Return
  /\ stage' = "idle"
  /\ UNCHANGED <<tests, md, own, sent, log>>

\* The steps of the run that no test takes part in.
RunGoesOn ==
  /\ stage # "panic"
  /\ Finish \/ GiveUp \/ Expire \/ Cancel
  /\ UNCHANGED httpVars

\* A panic ends the process.
Crashed == stage = "panic" /\ UNCHANGED <<vars, httpVars>>

-----------------------------------------------------------------------------
HTTPNext ==
  \/ RunBegins
  \/ AttemptBegins
  \/ Send
  \/ RequestFails
  \/ \E r \in Responses : Answered(r)
  \/ AttemptEnds
  \/ RunGoesOn
  \/ Crashed

HTTPSpec == HTTPInit /\ [][HTTPNext]_<<vars, httpVars>>

-----------------------------------------------------------------------------
\* The responses of this run whose documents are saved under an id, and the newest of some.
SavedUnder(id) ==
  {i \in DOMAIN log : LET t == tests[log[i].test]
                      IN  /\ t.id = id /\ t.save
                          /\ t.status < 0 \/ t.status = log[i].resp.status
                          /\ log[i].resp.body.json # NotJSON}
Newest(S) == {i \in S : \A j \in S : j <= i}

\* A request is made from the documents of this run, the newest of each id.  Without a
\* document it goes out with its placeholder (httpexpect.go:84).
UrlIsCurrent ==
  LET q == tests[last].query
      found == UNION {{p[2] : p \in {p \in PartsAt(log[i].resp.body.json, Len(q) - 1) :
                                       p[1] = Tail(q)}} : i \in Newest(SavedUnder(Head(q)))}
  IN  q # NoQuery => sent.url \in IF found = {} THEN {Placeholder} ELSE found

\* What the file says of a header: the test before the suite, whatever the spelling.
Spelled(h, n) == {h[k] : k \in {k \in DOMAIN h : Canonical[k] = n}}
Said(t, n) == IF Spelled(t.sends, n) # {} THEN Spelled(t.sends, n) ELSE Spelled(t.base, n)

\* The type of the body, and the one that is expected, are for headers without a value.
Default(t, n) ==
  CASE n = "Content-Type" -> {cntType(t.bodies)} \ {""}
    [] n = "Accept" -> IF ExpectsJSON(t) THEN {"json"} ELSE {}
    [] OTHER -> {}

HeadersAreMerged ==
  LET t == tests[last]
  IN  \A n \in Range(Canonical) :
        {sent.header[k] : k \in DOMAIN sent.header \cap {n}} =
          IF Said(t, n) \subseteq {""} /\ Default(t, n) # {} THEN Default(t, n) ELSE Said(t, n)

\* README.md:120-219: every attempt of every run sends what the file describes, made from
\* the documents of this run.  Nothing that another attempt or run did to the request of
\* the same test is in it: the placeholder is still there to be replaced, the body is
\* sent from its beginning (httpexpect.go:124-138).
RequestRight ==
  stage \in {"sent", "late"} =>
    UrlIsCurrent /\ HeadersAreMerged /\ sent.body = getBody(tests[last].bodies)

\* What README.md:182-187 says of a response, with PartsAt instead of queryJSONData.
Met(t, r) ==
  /\ t.status < 0 \/ t.status = r.status
  /\ t.header => r.header
  /\ t.document # NoDocument => t.document.value = IF t.document.raw THEN r.body ELSE r.body.json
  /\ t.jsonSchema # NoSchema => r.body.json \in t.jsonSchema
  /\ t.jsonValues # NoValues =>
       \A v \in t.jsonValues : <<v.query, v.value>> \in PartsAt(r.body.json, Len(v.query))
  /\ t.save \/ t.jsonValues # NoValues => r.body.json # NotJSON

\* A test passes if, and only if, its last attempt was answered as the file expects:
\* errors of the request, of the decoding and of each check all reach the verdict.
Judged ==
  \A k \in Closed :
    reports[k].errs = <<>> <=>
      \E i \in DOMAIN log : /\ log[i].test = k /\ log[i].attempt = reports[k].attempts
                            /\ Met(tests[k], log[i].resp)

\* A test that passed has left its document to the tests after it, unless one of these
\* has the same id: no attempt that came before takes its place.
PassedIsSaved ==
  \A k \in Closed :
    /\ reports[k].errs = <<>> /\ tests[k].save
    /\ \A j \in k + 1 .. last : tests[j].id # tests[k].id
    => \E i \in DOMAIN log : /\ log[i].test = k /\ log[i].attempt = reports[k].attempts
                             /\ tests[k].id \in DOMAIN md
                             /\ md[tests[k].id] = log[i].resp.body.json

\* Queries of the saved documents and of the responses have the value at their path, and
\* an index that is out of bounds is an error, except that one below zero, which passes
\* the test of response.go:179, ends the process.
QueriesRight ==
  \A k \in 1 .. Len(tests) :
    /\ tests[k].query # NoQuery => QueryIsRight(tests[k].query, Object(md))
    /\ tests[k].jsonValues # NoValues =>
         \A v \in tests[k].jsonValues, i \in DOMAIN log :
           log[i].resp.body.json # NotJSON => QueryIsRight(v.query, log[i].resp.body.json)
=============================================================================
