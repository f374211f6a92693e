--------------------------- MODULE HTTPTestProofs ----------------------------
(***************************************************************************)
(* Theorems about HTTPTest, for any suites, documents and responses.  The  *)
(* first part is about the operators of the model, for values of any depth *)
(* and queries of any length: what a query finds, which errors a response  *)
(* comes to, which headers a request has.  The second is about the steps   *)
(* of a run, whose invariant is taken from SuiteRunProofs: which responses *)
(* came when, what they left, and what was made of them.                   *)
(***************************************************************************)
EXTENDS HTTPTest, SuiteRunProofs, WellFoundedInduction

\* The tests are those of a file, and their requests are as they were made.
Loaded ==
  /\ DOMAIN tests = 1 .. suite.nb /\ Len(tests) = suite.nb
  /\ \A k \in 1 .. suite.nb : IsTest(tests[k]) /\ own[k] = prepareRequest(tests[k])

\* A test runs during the attempts of the run, and reports its errors at the end.
Asking == {"call", "sent", "late"}
Stages ==
  /\ stage \in Asking \cup {"idle", "done", "panic"}
  /\ stage = "idle" <=> pc # "test"
  /\ stage \in Asking => reports[last].errs = <<>>

\* What was sent is the request of the test, made from the documents there are.
SentNow ==
  stage \in {"sent", "late"} =>
    /\ sent = [own[last] EXCEPT !.url = Replaced(last)]
    /\ sent.url # Panic

\* The process ended in a check, and not when a URL was made.
CheckPanicked == stage = "panic" /\ sent.url # Panic

\* The responses were logged one by one, at most one for each attempt, none of them later
\* than the attempt in progress.
Entry == [test : Nat, attempt : Nat, resp : Responses]
Earlier(a, b) == a.test < b.test \/ (a.test = b.test /\ a.attempt < b.attempt)
Logged ==
  /\ log \in Seq(Entry)
  /\ \A i \in 1 .. Len(log) :
       /\ log[i].test \in 1 .. last
       /\ log[i].attempt <= reports[log[i].test].attempts
       /\ stage \in Asking /\ log[i].test = last => log[i].attempt < attempt
  /\ \A i, j \in 1 .. Len(log) : i < j => Earlier(log[i], log[j])
  /\ CheckPanicked => log # <<>> /\ log[Len(log)].test = last

\* A document is that of the newest response that left one under its id; the check that
\* panicked left none.
Checked == IF CheckPanicked THEN Len(log) - 1 ELSE Len(log)
Kept(id) ==
  {i \in 1 .. Checked : LET t == tests[log[i].test] IN t.id = id /\ Saves(t, log[i].resp)}
DocumentsKept ==
  /\ \A id \in DOMAIN md : \E i \in Newest(Kept(id)) : md[id] = log[i].resp.body.json
  /\ \A i \in 1 .. Checked : LET t == tests[log[i].test]
                             IN  Saves(t, log[i].resp) => t.id \in DOMAIN md

\* A report without an error is that of an attempt that was answered as expected.
OfAttempt(i, k) == log[i].test = k /\ log[i].attempt = reports[k].attempts
Right(k) ==
  /\ reports[k].errs = <<>> => \E i \in 1 .. Len(log) : OfAttempt(i, k)
  /\ \A i \in 1 .. Len(log) :
       OfAttempt(i, k) => (reports[k].errs = <<>> <=> Met(tests[k], log[i].resp))
AllRight ==
  /\ \A k \in Closed : Right(k)
  /\ stage = "done" \/ pc = "wait" => Right(last)

HTTPInv ==
  IInv /\ Loaded /\ Stages /\ SentNow /\ Logged /\ DocumentsKept /\ AllRight

-----------------------------------------------------------------------------
\* A set of numbers has a least one, of which the proofs by induction below make use: the
\* least number for which something does not hold.
Before == {p \in Nat \X Nat : p[1] < p[2]}

LEMMA BeforeIsWellFounded == IsWellFoundedOn(Before, Nat)
  BY NatLessThanWellFounded DEF OpToRel, Before

LEMMA Least ==
  ASSUME NEW S \in SUBSET Nat, S # {}
  PROVE  \E n \in S : \A k \in S : n <= k
<1>1. PICK n \in S : \A k \in S : <<k, n>> \notin Before
  BY BeforeIsWellFounded, WFMin
<1>2. ASSUME NEW k \in S PROVE n <= k
  <2>1. n \in Nat /\ k \in Nat
    OBVIOUS
  <2> SUFFICES ASSUME k < n PROVE <<k, n>> \in Before
    BY <2>1, <1>1
  <2> DEFINE t == <<k, n>>
  <2>2. t \in Nat \X Nat /\ t[1] < t[2]
    BY <2>1
  <2> QED
    BY <2>2 DEF Before
<1> QED
  BY <1>2

\* Turns is the function that it is defined as: there is one up to each number.
AreTurns(at, q, v, n) ==
  at = [i \in 0 .. n |-> IF i = 0 THEN v ELSE Turn(q[i], at[i - 1])]

LEMMA TurnsUpTo ==
  ASSUME NEW q, Len(q) \in Nat, NEW v
  PROVE  \A n \in 0 .. Len(q) : \E at : AreTurns(at, q, v, n)
<1> DEFINE P(n) == \E at : AreTurns(at, q, v, n)
           S == {n \in 0 .. Len(q) : ~P(n)}
<1>1. S \in SUBSET Nat
  OBVIOUS
<1> HIDE DEF P
<1> SUFFICES ASSUME S # {} PROVE FALSE
  BY DEF P
<1>2. PICK n \in S : \A k \in S : n <= k
  BY <1>1, Least
<1>3. CASE n = 0
  <2>1. AreTurns([i \in 0 .. 0 |-> v], q, v, 0)
    BY DEF AreTurns
  <2> QED
    BY <1>2, <1>3, <2>1 DEF P
<1>4. CASE n # 0
  <2>1. n - 1 \in 0 .. Len(q) /\ ~(n <= n - 1)
    BY <1>4
  <2>2. PICK f : AreTurns(f, q, v, n - 1)
    BY <1>2, <2>1 DEF P
  <2>3. \A i \in 0 .. n - 1 : f[i] = IF i = 0 THEN v ELSE Turn(q[i], f[i - 1])
    BY <2>2 DEF AreTurns
  <2> DEFINE g == [i \in 0 .. n |-> IF i = n THEN Turn(q[n], f[n - 1]) ELSE f[i]]
  <2>4. ASSUME NEW i \in 0 .. n PROVE g[i] = IF i = 0 THEN v ELSE Turn(q[i], g[i - 1])
    <3>1. i # 0 => g[i - 1] = f[i - 1]
      <4>1. i # 0 => i - 1 \in 0 .. n /\ i - 1 # n
        OBVIOUS
      <4> QED
        BY <4>1
    <3>2. i # n => g[i] = f[i] /\ i \in 0 .. n - 1
      OBVIOUS
    <3>3. g[n] = Turn(q[n], f[n - 1])
      OBVIOUS
    <3> HIDE DEF g
    <3> QED
      BY <1>4, <2>3, <3>1, <3>2, <3>3
  <2>5. g = [i \in 0 .. n |-> g[i]]
    OBVIOUS
  <2> HIDE DEF g
  <2>6. AreTurns(g, q, v, n)
    BY <2>4, <2>5 DEF AreTurns
  <2> QED
    BY <1>2, <2>6 DEF P
<1> QED
  BY <1>3, <1>4

LEMMA TurnsDefined ==
  ASSUME NEW q, Len(q) \in Nat, NEW v
  PROVE  /\ Turns(q, v)[0] = v
         /\ \A n \in 1 .. Len(q) : Turns(q, v)[n] = Turn(q[n], Turns(q, v)[n - 1])
<1> DEFINE at == Turns(q, v)
<1>1. \E f : AreTurns(f, q, v, Len(q))
  <2>1. Len(q) \in 0 .. Len(q)
    OBVIOUS
  <2> QED
    BY <2>1, TurnsUpTo
<1>2. at = CHOOSE f : AreTurns(f, q, v, Len(q))
  BY DEF Turns, AreTurns
<1> HIDE DEF at
<1>3. AreTurns(at, q, v, Len(q))
  BY <1>1, <1>2
<1>4. at[0] = v /\ \A n \in 1 .. Len(q) : at[n] = Turn(q[n], at[n - 1])
  BY <1>3 DEF AreTurns
<1> QED
  BY <1>4 DEF at

\* And so is Levels.
AreLevels(at, b, n) ==
  at = [i \in 0 .. n |-> IF i = 0 THEN b ELSE Deeper(at[i - 1])]

LEMMA LevelsUpTo ==
  ASSUME NEW b, NEW depth \in Nat
  PROVE  \A n \in 0 .. depth : \E at : AreLevels(at, b, n)
<1> DEFINE P(n) == \E at : AreLevels(at, b, n)
           S == {n \in 0 .. depth : ~P(n)}
<1>1. S \in SUBSET Nat
  OBVIOUS
<1> HIDE DEF P
<1> SUFFICES ASSUME S # {} PROVE FALSE
  BY DEF P
<1>2. PICK n \in S : \A k \in S : n <= k
  BY <1>1, Least
<1>3. CASE n = 0
  <2>1. AreLevels([i \in 0 .. 0 |-> b], b, 0)
    BY DEF AreLevels
  <2> QED
    BY <1>2, <1>3, <2>1 DEF P
<1>4. CASE n # 0
  <2>1. n - 1 \in 0 .. depth /\ ~(n <= n - 1)
    BY <1>4
  <2>2. PICK f : AreLevels(f, b, n - 1)
    BY <1>2, <2>1 DEF P
  <2>3. \A i \in 0 .. n - 1 : f[i] = IF i = 0 THEN b ELSE Deeper(f[i - 1])
    BY <2>2 DEF AreLevels
  <2> DEFINE g == [i \in 0 .. n |-> IF i = n THEN Deeper(f[n - 1]) ELSE f[i]]
  <2>4. ASSUME NEW i \in 0 .. n PROVE g[i] = IF i = 0 THEN b ELSE Deeper(g[i - 1])
    <3>1. i # 0 => g[i - 1] = f[i - 1]
      <4>1. i # 0 => i - 1 \in 0 .. n /\ i - 1 # n
        OBVIOUS
      <4> QED
        BY <4>1
    <3>2. i # n => g[i] = f[i] /\ i \in 0 .. n - 1
      OBVIOUS
    <3>3. g[n] = Deeper(f[n - 1])
      OBVIOUS
    <3> HIDE DEF g
    <3> QED
      BY <1>4, <2>3, <3>1, <3>2, <3>3
  <2>5. g = [i \in 0 .. n |-> g[i]]
    OBVIOUS
  <2> HIDE DEF g
  <2>6. AreLevels(g, b, n)
    BY <2>4, <2>5 DEF AreLevels
  <2> QED
    BY <1>2, <2>6 DEF P
<1> QED
  BY <1>3, <1>4

LEMMA LevelsDefined ==
  ASSUME NEW v, NEW depth \in Nat
  PROVE  /\ Levels(v, depth)[0] = {<< <<>>, v >>}
         /\ \A n \in 1 .. depth : Levels(v, depth)[n] = Deeper(Levels(v, depth)[n - 1])
<1> DEFINE at == Levels(v, depth)
           top == {<< <<>>, v >>}
<1>1. at = CHOOSE f : AreLevels(f, top, depth)
  BY DEF Levels, AreLevels
<1> HIDE DEF at, top
<1>2. \E f : AreLevels(f, top, depth)
  <2>1. depth \in 0 .. depth
    OBVIOUS
  <2> QED
    BY <2>1, LevelsUpTo
<1>3. AreLevels(at, top, depth)
  BY <1>1, <1>2
<1>4. at[0] = top /\ \A n \in 1 .. depth : at[n] = Deeper(at[n - 1])
  BY <1>3 DEF AreLevels
<1> QED
  BY <1>4 DEF at, top

\* The parts n levels down are the parts of those one level less.
LEMMA PartsDown ==
  ASSUME NEW v
  PROVE  /\ PartsAt(v, 0) = {<< <<>>, v >>}
         /\ \A n \in Nat \ {0} : PartsAt(v, n) = Deeper(PartsAt(v, n - 1))
<1> DEFINE P(n) == \A d \in Nat : n <= d => Levels(v, d)[n] = PartsAt(v, n)
           S == {n \in Nat : ~P(n)}
<1>1. ASSUME NEW n \in Nat, n # 0, P(n - 1)
      PROVE  \A d \in Nat : n <= d => Levels(v, d)[n] = Deeper(PartsAt(v, n - 1))
  <2> SUFFICES ASSUME NEW d \in Nat, n <= d
               PROVE  Levels(v, d)[n] = Deeper(PartsAt(v, n - 1))
    OBVIOUS
  <2>1. Levels(v, d)[n] = Deeper(Levels(v, d)[n - 1])
    BY <1>1, LevelsDefined
  <2>2. Levels(v, d)[n - 1] = PartsAt(v, n - 1)
    BY <1>1
  <2> QED
    BY <2>1, <2>2
<1>2. S \in SUBSET Nat
  OBVIOUS
<1>3. P(0) /\ PartsAt(v, 0) = {<< <<>>, v >>}
  BY LevelsDefined DEF PartsAt
<1>4. ASSUME NEW n \in Nat, n # 0, P(n - 1) PROVE P(n)
  <2>1. PartsAt(v, n) = Deeper(PartsAt(v, n - 1))
    BY <1>1, <1>4 DEF PartsAt
  <2> QED
    BY <1>1, <1>4, <2>1
<1> HIDE DEF P
<1>5. S = {}
  <2> SUFFICES ASSUME S # {} PROVE FALSE
    OBVIOUS
  <2>1. PICK n \in S : \A k \in S : n <= k
    BY <1>2, Least
  <2>2. n # 0
    BY <1>3, <2>1
  <2>3. n - 1 \in Nat /\ ~(n <= n - 1)
    BY <2>2
  <2>4. P(n - 1)
    BY <2>1, <2>3
  <2> QED
    BY <1>4, <2>2, <2>4
<1>6. \A n \in Nat : P(n)
  BY <1>5
<1>7. ASSUME NEW n \in Nat \ {0} PROVE PartsAt(v, n) = Deeper(PartsAt(v, n - 1))
  <2>1. n \in Nat /\ n # 0 /\ n - 1 \in Nat
    OBVIOUS
  <2>2. P(n - 1)
    BY <1>6, <2>1
  <2> QED
    BY <1>1, <2>1, <2>2 DEF PartsAt
<1> QED
  BY <1>3, <1>7

\* The keys of the parts of a value, and of theirs.
Keys(v) == DOMAIN Atoi \cup {"length"} \cup UNION {DOMAIN w.fields : w \in Values \cup {v}}
IsPart(w) == w \in Values \/ \E n \in Nat : w = Number(n)

\* A part of a value is a value, and no error.
LEMMA PartsAreValues ==
  ASSUME NEW v, IsValue(v), NEW c \in Parts(v)
  PROVE  IsPart(c[2]) /\ c[1] \in DOMAIN Atoi \cup {"length"} \cup DOMAIN v.fields
                      /\ c = <<c[1], c[2]>>
<1>1. CASE v.type = "array"
  <2>1. v.items \in Seq(Values)
    BY <1>1 DEF IsValue
  <2>2. CASE c = <<"length", Number(Len(v.items))>>
    BY <2>1, <2>2 DEF IsPart
  <2>3. CASE \E k \in {a \in DOMAIN Atoi : Atoi[a] \in 0 .. Len(v.items) - 1} :
               c = <<k, v.items[Atoi[k] + 1]>>
    <3>1. PICK k \in DOMAIN Atoi : /\ Atoi[k] \in 0 .. Len(v.items) - 1
                                   /\ c = <<k, v.items[Atoi[k] + 1]>>
      BY <2>3
    <3>2. Atoi[k] + 1 \in 1 .. Len(v.items)
      BY <2>1, <3>1
    <3>3. v.items[Atoi[k] + 1] \in Values
      BY <2>1, <3>2
    <3> QED
      BY <3>1, <3>3 DEF IsPart
  <2> QED
    BY <1>1, <2>2, <2>3 DEF Parts
<1>2. CASE v.type = "object"
  <2>1. \E k \in DOMAIN v.fields : c = <<k, v.fields[k]>>
    BY <1>2 DEF Parts
  <2> QED
    BY <1>2, <2>1 DEF IsValue, IsPart
<1>3. CASE v.type \notin {"array", "object"}
  BY <1>3 DEF Parts
<1> QED
  BY <1>1, <1>2, <1>3

LEMMA ValueIsNoError ==
  ASSUME NEW w, IsPart(w)
  PROVE  IsValue(w) /\ w \notin {Error, Panic}
<1>1. IsValue(w)
  <2>1. CASE w \in Values
    BY <2>1, JSONQueryAssumption
  <2>2. ASSUME NEW n \in Nat, w = Number(n) PROVE IsValue(w)
    <3>1. w.type = "scalar"
      BY <2>2 DEF Number
    <3> QED
      BY <3>1 DEF IsValue
  <2> QED
    BY <2>1, <2>2 DEF IsPart
<1>2. Error.type = "error" /\ Panic.type = "panic"
  BY DEF Error, Panic
<1> QED
  BY <1>1, <1>2 DEF IsValue

\* One turn: what it finds is the part with that key.
LEMMA Lookup ==
  ASSUME NEW k, NEW v, IsValue(v)
  PROVE  LET x == lookupJSONData(k, v)
         IN  /\ x \notin {Error, Panic} => <<k, x>> \in Parts(v)
             /\ \A c \in Parts(v) : c[1] = k => c[2] = x
             /\ x = Panic <=> v.type = "array" /\ k \in DOMAIN Atoi /\ Atoi[k] < 0
<1> DEFINE x == lookupJSONData(k, v)
<1>1. Error # Panic
  <2>1. Error.type = "error" /\ Panic.type = "panic"
    BY DEF Error, Panic
  <2> QED
    BY <2>1
<1>2. CASE v.type = "array"
  <2>1. v.items \in Seq(Values) /\ Len(v.items) \in Nat
    BY <1>2 DEF IsValue
  <2>2. x = IF k = "length" THEN Number(Len(v.items))
            ELSE IF k \notin DOMAIN Atoi THEN Error
            ELSE IF Atoi[k] >= Len(v.items) THEN Error
            ELSE IF Atoi[k] < 0 THEN Panic
            ELSE v.items[Atoi[k] + 1]
    BY <1>2 DEF lookupJSONData
  <2>3. Parts(v) = {<<"length", Number(Len(v.items))>>} \cup
                   {<<a, v.items[Atoi[a] + 1]>> :
                      a \in {a \in DOMAIN Atoi : Atoi[a] \in 0 .. Len(v.items) - 1}}
    BY <1>2 DEF Parts
  <2> HIDE DEF x
  <2>4. CASE k = "length"
    <3>1. x = Number(Len(v.items)) /\ k \notin DOMAIN Atoi
      BY <2>2, <2>4, JSONQueryAssumption
    <3>2. IsPart(x)
      BY <2>1, <3>1 DEF IsPart
    <3> QED
      BY <2>3, <2>4, <3>1, <3>2, ValueIsNoError DEF x
  <2>5. CASE k \in DOMAIN Atoi
    <3>1. Atoi[k] \in Int /\ k # "length"
      BY <2>5, JSONQueryAssumption
    <3>2. \A c \in Parts(v) :
            c[1] = k => c[2] = v.items[Atoi[k] + 1] /\ Atoi[k] \in 0 .. Len(v.items) - 1
      BY <2>3, <3>1
    <3>3. CASE Atoi[k] \in 0 .. Len(v.items) - 1
      <4>1. x = v.items[Atoi[k] + 1]
        BY <2>1, <2>2, <2>5, <3>1, <3>3
      <4>2. <<k, x>> \in Parts(v)
        BY <2>3, <2>5, <3>3, <4>1
      <4>3. x # Panic
        <5>1. Atoi[k] + 1 \in 1 .. Len(v.items)
          BY <2>1, <3>1, <3>3
        <5>2. x \in Values
          BY <2>1, <4>1, <5>1
        <5> QED
          BY <5>2, ValueIsNoError DEF IsPart
      <4> QED
        BY <3>2, <3>3, <4>1, <4>2, <4>3 DEF x
    <3>4. CASE Atoi[k] \notin 0 .. Len(v.items) - 1
      <4>1. x \in {Error, Panic} /\ (x = Panic <=> Atoi[k] < 0)
        BY <1>1, <2>1, <2>2, <2>5, <3>1, <3>4
      <4> QED
        BY <1>2, <2>5, <3>2, <3>4, <4>1 DEF x
    <3> QED
      BY <3>3, <3>4
  <2>6. CASE k # "length" /\ k \notin DOMAIN Atoi
    <3>1. x = Error /\ \A c \in Parts(v) : c[1] # k
      BY <2>2, <2>3, <2>6
    <3> QED
      BY <1>1, <2>6, <3>1 DEF x
  <2> QED
    BY <2>4, <2>5, <2>6
<1>3. CASE v.type = "object"
  <2>1. x = IF k \in DOMAIN v.fields THEN v.fields[k] ELSE Error
    BY <1>3 DEF lookupJSONData
  <2>2. Parts(v) = {<<a, v.fields[a]>> : a \in DOMAIN v.fields}
    BY <1>3 DEF Parts
  <2>3. k \in DOMAIN v.fields => v.fields[k] # Panic
    BY <1>3, ValueIsNoError DEF IsValue, IsPart
  <2> HIDE DEF x
  <2> QED
    BY <1>1, <1>3, <2>1, <2>2, <2>3 DEF x
<1>4. CASE v.type \notin {"array", "object"}
  <2>1. x = Error /\ Parts(v) = {}
    BY <1>4 DEF lookupJSONData, Parts
  <2> QED
    BY <1>1, <1>4, <2>1
<1> QED
  BY <1>2, <1>3, <1>4

\* A set of numbers that has 0, and the next of each, has all of them.
LEMMA AllNumbers ==
  ASSUME NEW S \in SUBSET Nat, 0 \in S, \A n \in S : n + 1 \in S
  PROVE  S = Nat
<1> DEFINE T == {n \in Nat : n \notin S}
<1> SUFFICES ASSUME T # {} PROVE FALSE
  OBVIOUS
<1>1. PICK n \in T : \A k \in T : n <= k
  BY Least
<1>2. n \in Nat /\ n # 0 /\ n \notin S
  OBVIOUS
<1>3. n - 1 \in Nat /\ ~(n <= n - 1) /\ (n - 1) + 1 = n
  BY <1>2
<1>4. n - 1 \in S
  BY <1>1, <1>3
<1> QED
  BY <1>2, <1>3, <1>4

LEMMA SameAppend ==
  ASSUME NEW S, NEW s \in Seq(S), NEW t \in Seq(S), NEW a \in S, NEW b \in S,
         Append(s, a) = Append(t, b)
  PROVE  s = t /\ a = b
<1>1. Len(s) = Len(t)
  BY Len(Append(s, a)) = Len(s) + 1, Len(Append(t, b)) = Len(t) + 1
<1>2. a = b
  BY <1>1, Append(s, a)[Len(s) + 1] = a, Append(t, b)[Len(t) + 1] = b
<1>3. ASSUME NEW i \in 1 .. Len(s) PROVE s[i] = t[i]
  BY <1>1, Append(s, a)[i] = s[i], Append(t, b)[i] = t[i]
<1> QED
  BY <1>1, <1>2, <1>3

\* Every path has as many keys as levels, and leads to a value.
IsPath(v, p, n) ==
  /\ p = <<p[1], p[2]>> /\ p[1] \in Seq(Keys(v)) /\ Len(p[1]) = n
  /\ p[2] = v \/ IsPart(p[2])

LEMMA OneDeeper ==
  ASSUME NEW v, IsValue(v), NEW n \in Nat, NEW r, IsPath(v, r, n), NEW c \in Parts(r[2])
  PROVE  /\ c = <<c[1], c[2]>> /\ c[1] \in Keys(v)
         /\ IsPath(v, <<Append(r[1], c[1]), c[2]>>, n + 1)
<1>1. IsValue(r[2])
  BY ValueIsNoError DEF IsPath
<1>2. IsPart(c[2]) /\ c = <<c[1], c[2]>>
  BY <1>1, PartsAreValues
<1>3. c[1] \in Keys(v)
  <2>1. CASE r[2] \in Values \cup {v}
    BY <1>1, <2>1, PartsAreValues DEF Keys
  <2>2. CASE r[2] \notin Values \cup {v}
    <3>1. PICK m \in Nat : r[2] = Number(m)
      BY <2>2 DEF IsPath, IsPart
    <3>2. r[2].type = "scalar"
      BY <3>1 DEF Number
    <3> QED
      BY <3>2 DEF Parts
  <2> QED
    BY <2>1, <2>2
<1>4. /\ Append(r[1], c[1]) \in Seq(Keys(v))
      /\ Len(Append(r[1], c[1])) = n + 1
  BY <1>3 DEF IsPath
<1> QED
  BY <1>2, <1>3, <1>4 DEF IsPath

LEMMA PathsLead ==
  ASSUME NEW v, IsValue(v)
  PROVE  \A n \in Nat : \A p \in PartsAt(v, n) : IsPath(v, p, n)
<1> DEFINE P(n) == \A p \in PartsAt(v, n) : IsPath(v, p, n)
           S == {n \in Nat : P(n)}
<1>1. P(0)
  <2>1. PartsAt(v, 0) = {<< <<>>, v >>}
    BY PartsDown
  <2> DEFINE p == << <<>>, v >>
  <2>2. p = <<p[1], p[2]>> /\ p[1] \in Seq(Keys(v)) /\ Len(p[1]) = 0 /\ p[2] = v
    OBVIOUS
  <2> QED
    BY <2>1, <2>2 DEF IsPath
<1>2. ASSUME NEW n \in Nat, P(n) PROVE P(n + 1)
  <2>1. n + 1 \in Nat \ {0} /\ (n + 1) - 1 = n
    OBVIOUS
  <2>2. PartsAt(v, n + 1) = Deeper(PartsAt(v, n))
    BY <2>1, PartsDown
  <2> SUFFICES ASSUME NEW p \in Deeper(PartsAt(v, n)) PROVE IsPath(v, p, n + 1)
    BY <2>2
  <2>3. PICK r \in PartsAt(v, n) : \E c \in Parts(r[2]) : p = <<Append(r[1], c[1]), c[2]>>
    BY DEF Deeper
  <2>4. IsPath(v, r, n)
    BY <1>2
  <2> QED
    BY <2>3, <2>4, OneDeeper
<1> HIDE DEF P
<1>3. S \in SUBSET Nat /\ 0 \in S /\ \A n \in S : n + 1 \in S
  BY <1>1, <1>2
<1> HIDE DEF S
<1>5. S = Nat
  BY <1>3, AllNumbers
<1> USE DEF S
<1>4. \A n \in Nat : P(n)
  BY <1>5
<1> QED
  BY <1>4 DEF P

\* A query has what is at its path, by induction on the number of its keys.
FoundAt(q, v, n) ==
  LET x == Turns(q, v)[n]
  IN  /\ x \notin {Error, Panic} => <<SubSeq(q, 1, n), x>> \in PartsAt(v, n)
      /\ \A p \in PartsAt(v, n) : p[1] = SubSeq(q, 1, n) => x = p[2]
BelowZero(q, v, n) ==
  \E p \in PartsAt(v, n - 1) :
    /\ p[1] = SubSeq(q, 1, n - 1) /\ p[2].type = "array"
    /\ q[n] \in DOMAIN Atoi /\ Atoi[q[n]] < 0
PanicsAt(q, v, n) == Turns(q, v)[n] = Panic <=> \E m \in 1 .. n : BelowZero(q, v, m)

LEMMA ErrorIsNotPanic == Error # Panic
<1>1. Error.type = "error" /\ Panic.type = "panic"
  BY DEF Error, Panic
<1> QED
  BY <1>1

LEMMA NextTurn ==
  ASSUME NEW K, NEW q \in Seq(K), NEW v, IsValue(v), v \notin {Error, Panic},
         NEW n \in 1 .. Len(q), FoundAt(q, v, n - 1), PanicsAt(q, v, n - 1)
  PROVE  FoundAt(q, v, n) /\ PanicsAt(q, v, n)
<1> DEFINE x == Turns(q, v)[n - 1]
           y == Turns(q, v)[n]
           s == SubSeq(q, 1, n - 1)
           k == q[n]
<1>1. y = IF x \in {Error, Panic} THEN x ELSE lookupJSONData(k, x)
  BY TurnsDefined DEF Turn
<1>2. PartsAt(v, n) = Deeper(PartsAt(v, n - 1))
  <2>1. n \in Nat \ {0}
    OBVIOUS
  <2> QED
    BY <2>1, PartsDown
<1>3. SubSeq(q, 1, n) = Append(s, k) /\ s \in Seq(K) /\ k \in K /\ Len(s) = n - 1
  OBVIOUS
<1>4. n - 1 \in Nat /\ n \in 1 .. n /\ \A m \in 1 .. n : m = n \/ m \in 1 .. n - 1
  OBVIOUS
<1>5. \A r \in PartsAt(v, n - 1) : IsPath(v, r, n - 1)
  BY <1>4, PathsLead
<1>6. \A r \in PartsAt(v, n - 1) : IsValue(r[2]) /\ r[2] \notin {Error, Panic}
  BY <1>5, ValueIsNoError DEF IsPath
<1>7. /\ x \notin {Error, Panic} => <<s, x>> \in PartsAt(v, n - 1)
      /\ \A p \in PartsAt(v, n - 1) : p[1] = s => x = p[2]
      /\ x = Panic <=> \E m \in 1 .. n - 1 : BelowZero(q, v, m)
  BY DEF FoundAt, PanicsAt
<1>8. ASSUME NEW p \in PartsAt(v, n)
      PROVE  \E r \in PartsAt(v, n - 1) : \E c \in Parts(r[2]) :
               /\ p[1] = Append(r[1], c[1]) /\ p[2] = c[2]
               /\ p[1] = Append(s, k) => r[1] = s /\ c[1] = k
  <2>1. PICK r \in PartsAt(v, n - 1) : \E c \in Parts(r[2]) : p = <<Append(r[1], c[1]), c[2]>>
    BY <1>2 DEF Deeper
  <2>2. PICK c \in Parts(r[2]) : p = <<Append(r[1], c[1]), c[2]>>
    BY <2>1
  <2>3. c[1] \in Keys(v) /\ r[1] \in Seq(Keys(v))
    BY <1>4, <1>5, OneDeeper DEF IsPath
  <2>4. Append(r[1], c[1]) = Append(s, k) => r[1] = s /\ c[1] = k
    <3> DEFINE S == K \cup Keys(v)
    <3>1. s \in Seq(S) /\ r[1] \in Seq(S) /\ k \in S /\ c[1] \in S
      BY <1>3, <2>3
    <3> DEFINE t == r[1]
               b == c[1]
    <3> HIDE DEF S, s, k, t, b
    <3>2. t \in Seq(S) /\ b \in S
      BY <3>1 DEF t, b
    <3>3. ASSUME Append(t, b) = Append(s, k) PROVE t = s /\ b = k
      BY <3>1, <3>2, <3>3, SameAppend
    <3> QED
      BY <3>3, Zenon DEF t, b
  <2> QED
    BY <2>2, <2>4
<1> HIDE DEF x, y, s, k
<1>9. CASE x \in {Error, Panic}
  <2>1. y = x
    BY <1>1, <1>9
  <2>2. \A r \in PartsAt(v, n - 1) : r[1] # s
    BY <1>6, <1>7, <1>9
  <2>3. \A p \in PartsAt(v, n) : p[1] # Append(s, k)
    BY <1>8, <2>2
  <2>4. ~BelowZero(q, v, n)
    BY <2>2 DEF BelowZero, s
  <2>5. FoundAt(q, v, n)
    BY <1>3, <1>9, <2>1, <2>3 DEF FoundAt, y
  <2>6. y = Panic <=> \E m \in 1 .. n : BelowZero(q, v, m)
    BY <1>4, <1>7, <2>1, <2>4
  <2> QED
    BY <2>5, <2>6 DEF PanicsAt, y
<1>10. CASE x \notin {Error, Panic}
  <2>1. <<s, x>> \in PartsAt(v, n - 1) /\ y = lookupJSONData(k, x)
    BY <1>1, <1>7, <1>10
  <2>2. IsValue(x)
    BY <1>6, <2>1
  <2>3. /\ y \notin {Error, Panic} => <<k, y>> \in Parts(x)
        /\ \A c \in Parts(x) : c[1] = k => c[2] = y
        /\ y = Panic <=> x.type = "array" /\ k \in DOMAIN Atoi /\ Atoi[k] < 0
    BY <2>1, <2>2, Lookup
  <2>4. ASSUME y \notin {Error, Panic} PROVE <<Append(s, k), y>> \in PartsAt(v, n)
    BY <1>2, <2>1, <2>3, <2>4 DEF Deeper
  <2>5. ASSUME NEW p \in PartsAt(v, n), p[1] = Append(s, k) PROVE y = p[2]
    <3>1. PICK r \in PartsAt(v, n - 1) : \E c \in Parts(r[2]) :
                 r[1] = s /\ c[1] = k /\ p[2] = c[2]
      BY <1>8, <2>5
    <3>2. r[2] = x
      BY <1>7, <3>1
    <3> QED
      BY <2>3, <3>1, <3>2
  <2>6. FoundAt(q, v, n)
    BY <1>3, <2>4, <2>5 DEF FoundAt, y
  <2>7. ~\E m \in 1 .. n - 1 : BelowZero(q, v, m)
    BY <1>7, <1>10
  <2>8. BelowZero(q, v, n) <=> x.type = "array" /\ k \in DOMAIN Atoi /\ Atoi[k] < 0
    BY <1>7, <2>1 DEF BelowZero, s, k
  <2>9. y = Panic <=> \E m \in 1 .. n : BelowZero(q, v, m)
    BY <1>4, <2>3, <2>7, <2>8
  <2> QED
    BY <2>6, <2>9 DEF PanicsAt, y
<1> QED
  BY <1>9, <1>10

LEMMA QueriesFind ==
  ASSUME NEW K, NEW q \in Seq(K), NEW v, IsValue(v), v \notin {Error, Panic}
  PROVE  QueryIsRight(q, v)
<1> DEFINE P(n) == n <= Len(q) => FoundAt(q, v, n) /\ PanicsAt(q, v, n)
           S == {n \in Nat : P(n)}
<1>1. P(0)
  <2>1. Turns(q, v)[0] = v /\ PartsAt(v, 0) = {<< <<>>, v >>} /\ SubSeq(q, 1, 0) = <<>>
    BY TurnsDefined, PartsDown
  <2>2. FoundAt(q, v, 0)
    BY <2>1 DEF FoundAt
  <2>3. PanicsAt(q, v, 0)
    BY <2>1 DEF PanicsAt
  <2> QED
    BY <2>2, <2>3
<1>2. ASSUME NEW n \in Nat, P(n) PROVE P(n + 1)
  <2> SUFFICES ASSUME n + 1 <= Len(q)
               PROVE  FoundAt(q, v, n + 1) /\ PanicsAt(q, v, n + 1)
    OBVIOUS
  <2>1. n + 1 \in 1 .. Len(q) /\ (n + 1) - 1 = n /\ n <= Len(q)
    OBVIOUS
  <2>2. FoundAt(q, v, (n + 1) - 1) /\ PanicsAt(q, v, (n + 1) - 1)
    BY <1>2, <2>1
  <2> QED
    BY <2>1, <2>2, NextTurn
<1> HIDE DEF P
<1>3. S \in SUBSET Nat /\ 0 \in S /\ \A n \in S : n + 1 \in S
  BY <1>1, <1>2
<1> HIDE DEF S
<1>4. S = Nat
  BY <1>3, AllNumbers
<1> USE DEF S
<1>5. Len(q) \in Nat /\ SubSeq(q, 1, Len(q)) = q
  OBVIOUS
<1>6. FoundAt(q, v, Len(q)) /\ PanicsAt(q, v, Len(q))
  BY <1>4, <1>5 DEF P
<1> QED
  BY <1>5, <1>6 DEF FoundAt, PanicsAt, BelowZero, QueryIsRight, queryJSONData
-----------------------------------------------------------------------------
LEMMA ValuesAreSound ==
  ASSUME NEW w \in Values
  PROVE  IsValue(w) /\ w \notin {Error, Panic, NotJSON}
<1>1. IsValue(w) /\ w \notin {Error, Panic}
  BY ValueIsNoError DEF IsPart
<1>2. NotJSON.type = "broken"
  BY DEF NotJSON
<1> QED
  BY <1>1, <1>2 DEF IsValue

\* A query of a document has a value if, and only if, this is at its path.
LEMMA FoundAtPath ==
  ASSUME NEW q, IsQuery(q), NEW w \in Values, NEW x \in Values
  PROVE  queryJSONData(q, w) = x <=> <<q, x>> \in PartsAt(w, Len(q))
<1>1. q \in Seq(Range(q)) /\ IsValue(w) /\ w \notin {Error, Panic} /\ x \notin {Error, Panic}
  BY ValuesAreSound DEF IsQuery
<1>2. QueryIsRight(q, w)
  BY <1>1, QueriesFind
<1> DEFINE p == <<q, x>>
           P == PartsAt(w, Len(q))
           y == queryJSONData(q, w)
<1>3. (y \notin {Error, Panic} => <<q, y>> \in P) /\ \A r \in P : r[1] = q => y = r[2]
  BY <1>2 DEF QueryIsRight
<1> HIDE DEF P, y
<1>4. p \in P => y = x
  BY <1>3
<1> QED
  BY <1>1, <1>3, <1>4 DEF P, y

\* A response that no error is reported of is what the test expects.
LEMMA ErrorsOfResponse ==
  ASSUME NEW t, IsTest(t), NEW r \in Responses
  PROVE  NbErrors(t, r) \in Nat /\ (NbErrors(t, r) = 0 <=> Met(t, r))
<1> DEFINE j == r.body.json
<1>1. /\ t.status \in Int /\ t.save \in BOOLEAN /\ t.header \in BOOLEAN
      /\ r.header \in BOOLEAN /\ j \in Values \cup {NotJSON}
  BY HTTPAssumption DEF IsTest
<1>2. \A b \in BOOLEAN : One(b) \in {0, 1} /\ (One(b) = 0 <=> ~b)
  BY DEF One
<1>3. CASE StatusIsWrong(t, r)
  BY <1>1, <1>3 DEF NbErrors, Met, StatusIsWrong
<1>4. CASE ~StatusIsWrong(t, r) /\ j = NotJSON
  <2> DEFINE a == One(t.header /\ ~r.header)
             b == One(DocumentDiffers(t, r) /\ t.document.raw)
             c == One(WantsJSON(t))
  <2>1. NbErrors(t, r) = a + (b + c)
    BY <1>4 DEF NbErrors
  <2>2. a \in {0, 1} /\ (a = 0 <=> (t.header => r.header))
    BY <1>1 DEF One
  <2>3. b \in {0, 1} /\ (b = 0 <=> ~(DocumentDiffers(t, r) /\ t.document.raw))
    BY DEF One
  <2>4. c \in {0, 1} /\ (c = 0 <=> ~WantsJSON(t))
    BY DEF One
  <2> HIDE DEF a, b, c
  <2>5. a + (b + c) \in Nat /\ (a + (b + c) = 0 <=> a = 0 /\ b = 0 /\ c = 0)
    BY <2>2, <2>3, <2>4
  <2>6. j \notin Values
    BY <1>4, ValuesAreSound
  <2>7. Met(t, r) => ~WantsJSON(t)
    BY <1>4, <2>6 DEF IsTest, Met, WantsJSON, ExpectsJSON
  <2>8. ~WantsJSON(t) =>
          (Met(t, r) <=> (t.header => r.header) /\ ~(DocumentDiffers(t, r) /\ t.document.raw))
    BY <1>1, <1>4 DEF IsTest, Met, WantsJSON, ExpectsJSON, DocumentDiffers, StatusIsWrong
  <2> QED
    BY <2>1, <2>2, <2>3, <2>4, <2>5, <2>7, <2>8
<1>5. CASE ~StatusIsWrong(t, r) /\ j # NotJSON
  <2> DEFINE a == One(t.header /\ ~r.header)
             b == One(DocumentDiffers(t, r))
             s == t.jsonSchema # NoSchema /\ j \notin t.jsonSchema
             c == One(s)
             d == Cardinality(WrongValues(t, r))
  <2>1. NbErrors(t, r) = a + (b + c + d)
    BY <1>5 DEF NbErrors
  <2>2. a \in {0, 1} /\ (a = 0 <=> (t.header => r.header))
    BY <1>1 DEF One
  <2>3. b \in {0, 1} /\ (b = 0 <=> ~DocumentDiffers(t, r))
    BY DEF One
  <2>4. c \in {0, 1} /\ (c = 0 <=> ~s)
    BY DEF One
  <2>5. d \in Nat /\ (d = 0 <=> WrongValues(t, r) = {})
    <3> DEFINE vs == IF t.jsonValues = NoValues THEN {} ELSE t.jsonValues
    <3>1. IsFiniteSet(vs)
      BY FS_EmptySet DEF IsTest
    <3>2. WrongValues(t, r) \subseteq vs
      BY DEF WrongValues
    <3>3. IsFiniteSet(WrongValues(t, r))
      BY <3>1, <3>2, FS_Subset
    <3> QED
      BY <3>3, FS_CardinalityType, FS_EmptySet
  <2>6. WrongValues(t, r) = {} <=>
          (t.jsonValues # NoValues =>
             \A v \in t.jsonValues : <<v.query, v.value>> \in PartsAt(j, Len(v.query)))
    <3>1. CASE t.jsonValues = NoValues
      BY <3>1 DEF WrongValues
    <3>2. CASE t.jsonValues # NoValues
      <4>1. WrongValues(t, r) = {v \in t.jsonValues : queryJSONData(v.query, j) # v.value}
        BY <3>2 DEF WrongValues, Found
      <4>2. ASSUME NEW v \in t.jsonValues
            PROVE  queryJSONData(v.query, j) = v.value <=>
                     <<v.query, v.value>> \in PartsAt(j, Len(v.query))
        BY <1>1, <1>5, <3>2, FoundAtPath DEF IsTest
      <4> QED
        BY <3>2, <4>1, <4>2
    <3> QED
      BY <3>1, <3>2
  <2> HIDE DEF a, b, c, d
  <2>7. a + (b + c + d) \in Nat /\
        (a + (b + c + d) = 0 <=> a = 0 /\ b = 0 /\ c = 0 /\ d = 0)
    BY <2>2, <2>3, <2>4, <2>5
  <2>8. Met(t, r) <=> /\ t.header => r.header
                      /\ ~DocumentDiffers(t, r)
                      /\ ~s
                      /\ WrongValues(t, r) = {}
    BY <1>1, <1>5, <2>6 DEF Met, DocumentDiffers, StatusIsWrong
  <2> QED
    BY <2>1, <2>2, <2>3, <2>4, <2>5, <2>7, <2>8
<1> QED
  BY <1>1, <1>3, <1>4, <1>5
-----------------------------------------------------------------------------
\* The value of a header, as a set of none or one.
At(h, n) == {h[k] : k \in DOMAIN h \cap {n}}

LEMMA OneAt == ASSUME NEW h, NEW n PROVE At(h, n) = IF n \in DOMAIN h THEN {h[n]} ELSE {}
  BY DEF At

LEMMA SpelledOnce ==
  ASSUME NEW h, IsHeader(h), NEW n
  PROVE  At(Canonized(h), n) = Spelled(h, n)
<1> DEFINE c == Canonized(h)
           spellings == {k \in DOMAIN h : Canonical[k] = n}
<1>1. DOMAIN c = {Canonical[k] : k \in DOMAIN h}
  BY DEF Canonized
<1>2. CASE spellings = {}
  <2>1. n \notin DOMAIN c
    BY <1>1, <1>2
  <2>2. Spelled(h, n) = {}
    BY <1>2 DEF Spelled
  <2> QED
    BY <2>1, <2>2, OneAt
<1>3. ASSUME NEW k \in spellings PROVE At(c, n) = Spelled(h, n)
  <2>1. k \in DOMAIN h /\ Canonical[k] = n /\ \A l \in DOMAIN h : Canonical[l] = n => l = k
    BY <1>3 DEF IsHeader
  <2>2. n \in DOMAIN c
    BY <1>1, <2>1
  <2>3. (CHOOSE l \in DOMAIN h : Canonical[l] = n) = k
    BY <2>1
  <2>4. c[n] = h[k]
    BY <1>1, <2>2, <2>3 DEF Canonized
  <2>5. Spelled(h, n) = {h[k]}
    BY <2>1 DEF Spelled
  <2>6. At(c, n) = {c[n]}
    BY <2>2, OneAt
  <2> QED
    BY <2>4, <2>5, <2>6
<1> QED
  BY <1>2, <1>3

LEMMA AtOver ==
  ASSUME NEW f, NEW g, NEW n
  PROVE  At(Over(f, g), n) = IF At(f, n) # {} THEN At(f, n) ELSE At(g, n)
<1>1. /\ DOMAIN Over(f, g) = DOMAIN f \cup DOMAIN g
      /\ n \in DOMAIN f \cup DOMAIN g => Over(f, g)[n] = IF n \in DOMAIN f THEN f[n] ELSE g[n]
  BY DEF Over
<1> QED
  BY <1>1, OneAt

\* A default is for a header that is not there or empty.
Given(v) == v # ""
Unset(values) == values \subseteq {""}

LEMMA AtDefault ==
  ASSUME NEW h, NEW name, NEW v, NEW n
  PROVE  At(SetDefault(h, name, v), n) =
           IF n = name /\ Given(v) /\ Unset(At(h, n)) THEN {v} ELSE At(h, n)
<1> USE DEF Given, Unset
<1>1. Get(h, name) = "" <=> At(h, name) \subseteq {""}
  BY OneAt DEF Get
<1>2. CASE v # "" /\ Get(h, name) = ""
  <2> DEFINE f == [k \in {name} |-> v]
  <2>1. SetDefault(h, name, v) = Over(f, h)
    BY <1>2 DEF SetDefault
  <2>2. At(f, n) = IF n = name THEN {v} ELSE {}
    BY OneAt
  <2> HIDE DEF f
  <2>3. At(Over(f, h), n) = IF At(f, n) # {} THEN At(f, n) ELSE At(h, n)
    BY AtOver
  <2>4. CASE n = name
    BY <1>1, <1>2, <2>1, <2>2, <2>3, <2>4
  <2>5. CASE n # name
    BY <2>1, <2>2, <2>3, <2>5
  <2> QED
    BY <2>4, <2>5
<1>3. CASE ~(v # "" /\ Get(h, name) = "")
  BY <1>1, <1>3 DEF SetDefault
<1> QED
  BY <1>2, <1>3

LEMMA HeadersOfRequest ==
  ASSUME NEW t, IsTest(t), NEW n
  PROVE  At(prepareRequest(t).header, n) =
           IF Unset(Said(t, n)) /\ Default(t, n) # {} THEN Default(t, n) ELSE Said(t, n)
<1> DEFINE said == Over(Canonized(t.sends), Canonized(t.base))
           typed == SetDefault(said, "Content-Type", cntType(t.bodies))
           full == IF ExpectsJSON(t) THEN SetDefault(typed, "Accept", "json") ELSE typed
<1>1. prepareRequest(t).header = full
  BY DEF prepareRequest, toHTTPRequest
<1>2. At(said, n) = Said(t, n)
  BY AtOver, SpelledOnce DEF Said, IsTest
<1> HIDE DEF said
<1>3. At(typed, n) = IF n = "Content-Type" /\ Given(cntType(t.bodies)) /\ Unset(Said(t, n))
                     THEN {cntType(t.bodies)} ELSE Said(t, n)
  BY <1>2, AtDefault
<1> HIDE DEF typed
<1>4. At(full, n) = IF n = "Accept" /\ ExpectsJSON(t) /\ Unset(At(typed, n))
                    THEN {"json"} ELSE At(typed, n)
  <2>1. Given("json")
    BY DEF Given
  <2> QED
    BY <2>1, AtDefault
<1>5. CASE n = "Content-Type"
  <2>1. Default(t, n) = {cntType(t.bodies)} \ {""}
    BY <1>5 DEF Default
  <2> QED
    BY <1>1, <1>3, <1>4, <1>5, <2>1 DEF Given
<1>6. CASE n = "Accept"
  <2>1. Default(t, n) = IF ExpectsJSON(t) THEN {"json"} ELSE {}
    BY <1>6 DEF Default
  <2> QED
    BY <1>1, <1>3, <1>4, <1>6, <2>1
<1>7. CASE n \notin {"Content-Type", "Accept"}
  <2>1. Default(t, n) = {}
    BY <1>7 DEF Default
  <2> QED
    BY <1>1, <1>3, <1>4, <1>7, <2>1
<1> QED
  BY <1>5, <1>6, <1>7
-----------------------------------------------------------------------------
\* The parts of an object are those of its fields, one level further up.
Under(f, n) == UNION {{<< <<k>> \o p[1], p[2] >> : p \in PartsAt(f[k], n)} : k \in DOMAIN f}

LEMMA KeyBefore ==
  ASSUME NEW K, NEW k \in K, NEW s \in Seq(K)
  PROVE  /\ <<k>> \o s \in Seq(K) /\ Head(<<k>> \o s) = k /\ Tail(<<k>> \o s) = s
         /\ \A a \in K : Append(<<k>> \o s, a) = <<k>> \o Append(s, a)
<1> DEFINE t == <<k>> \o s
<1>1. /\ t \in Seq(K) /\ Len(t) = Len(s) + 1 /\ t[1] = k
      /\ \A i \in 1 .. Len(s) : t[i + 1] = s[i]
  OBVIOUS
<1>2. Head(t) = k /\ Tail(t) = s
  <2>1. /\ Tail(t) \in Seq(K) /\ Len(Tail(t)) = Len(s)
        /\ \A i \in 1 .. Len(s) : Tail(t)[i] = t[i + 1]
    BY <1>1
  <2>2. Tail(t) = s
    BY <1>1, <2>1
  <2> QED
    BY <1>1, <2>2
<1>3. ASSUME NEW a \in K PROVE Append(t, a) = <<k>> \o Append(s, a)
  <2> DEFINE l == Append(t, a)
             r == <<k>> \o Append(s, a)
  <2>1. l \in Seq(K) /\ r \in Seq(K) /\ Len(l) = Len(s) + 2 /\ Len(r) = Len(s) + 2
    OBVIOUS
  <2>2. \A i \in 1 .. Len(s) + 2 : l[i] = r[i]
    OBVIOUS
  <2> QED
    BY <2>1, <2>2
<1> QED
  BY <1>1, <1>2, <1>3

LEMMA ObjectIsOne ==
  ASSUME NEW f
  PROVE  /\ Object(f).type = "object" /\ Object(f).fields = f
         /\ Parts(Object(f)) = {<<k, f[k]>> : k \in DOMAIN f}
<1>1. Object(f).type = "object" /\ Object(f).fields = f
  BY DEF Object
<1> QED
  BY <1>1 DEF Parts

LEMMA FieldsAreValues ==
  ASSUME NEW f, \A k \in DOMAIN f : f[k] \in Values
  PROVE  /\ IsValue(Object(f)) /\ Object(f) \notin {Error, Panic}
         /\ \A k \in DOMAIN f : IsValue(f[k])
<1>1. Error.type = "error" /\ Panic.type = "panic"
  BY DEF Error, Panic
<1>2. Object(f).type = "object" /\ Object(f).fields = f
  BY ObjectIsOne
<1> HIDE DEF Object
<1> QED
  BY <1>1, <1>2, ValuesAreSound DEF IsValue

LEMMA PartsUnder ==
  ASSUME NEW f, \A k \in DOMAIN f : f[k] \in Values
  PROVE  \A n \in Nat : PartsAt(Object(f), n + 1) = Under(f, n)
<1> DEFINE P(n) == PartsAt(Object(f), n + 1) = Under(f, n)
           S == {n \in Nat : P(n)}
<1>1. P(0)
  <2>1. PartsAt(Object(f), 1) = Deeper({<< <<>>, Object(f) >>})
    <3>1. 1 \in Nat \ {0} /\ 1 - 1 = 0
      OBVIOUS
    <3> QED
      BY <3>1, PartsDown
  <2>2. Deeper({<< <<>>, Object(f) >>}) = {<<Append(<<>>, c[1]), c[2]>> : c \in Parts(Object(f))}
    <3> DEFINE top == << <<>>, Object(f) >>
    <3>1. top[1] = <<>> /\ top[2] = Object(f)
      OBVIOUS
    <3> HIDE DEF top
    <3>2. Deeper({top}) = {<<Append(top[1], c[1]), c[2]>> : c \in Parts(top[2])}
      BY DEF Deeper
    <3> QED
      BY <3>1, <3>2 DEF top
  <2>3. \A k \in DOMAIN f : PartsAt(f[k], 0) = {<< <<>>, f[k] >>}
    BY PartsDown
  <2>4. Under(f, 0) = {<< <<k>> \o <<>>, f[k] >> : k \in DOMAIN f}
    <3> DEFINE At0(k) == {<< <<k>> \o p[1], p[2] >> : p \in PartsAt(f[k], 0)}
    <3>1. ASSUME NEW k \in DOMAIN f PROVE At0(k) = {<< <<k>> \o <<>>, f[k] >>}
      <4> DEFINE top == << <<>>, f[k] >>
      <4>1. top[1] = <<>> /\ top[2] = f[k] /\ PartsAt(f[k], 0) = {top}
        BY <2>3
      <4> HIDE DEF top
      <4>2. At0(k) = {<< <<k>> \o top[1], top[2] >>}
        BY <4>1
      <4> QED
        BY <4>1, <4>2
    <3>2. Under(f, 0) = UNION {At0(k) : k \in DOMAIN f}
      BY DEF Under
    <3> HIDE DEF At0
    <3> QED
      BY <3>1, <3>2
  <2>5. \A k : Append(<<>>, k) = <<k>> \o <<>>
    OBVIOUS
  <2>6. {<<Append(<<>>, c[1]), c[2]>> : c \in Parts(Object(f))} =
        {<<Append(<<>>, k), f[k]>> : k \in DOMAIN f}
    <3> DEFINE pair(k) == <<k, f[k]>>
    <3>1. Parts(Object(f)) = {pair(k) : k \in DOMAIN f}
      BY ObjectIsOne
    <3>2. \A k \in DOMAIN f : pair(k)[1] = k /\ pair(k)[2] = f[k]
      OBVIOUS
    <3> HIDE DEF pair
    <3> QED
      BY <3>1, <3>2
  <2>7. {<<Append(<<>>, k), f[k]>> : k \in DOMAIN f} = {<< <<k>> \o <<>>, f[k] >> : k \in DOMAIN f}
    <3>1. \A k : <<Append(<<>>, k), f[k]>> = << <<k>> \o <<>>, f[k] >>
      BY <2>5
    <3> QED
      BY <3>1
  <2>8. PartsAt(Object(f), 1) = Under(f, 0)
    BY <2>1, <2>2, <2>4, <2>6, <2>7, Zenon
  <2>9. 0 + 1 = 1
    OBVIOUS
  <2> QED
    BY <2>8, <2>9
<1>2. ASSUME NEW n \in Nat, P(n) PROVE P(n + 1)
  <2>1. PartsAt(Object(f), n + 2) = Deeper(Under(f, n))
    <3>1. n + 2 \in Nat \ {0} /\ (n + 2) - 1 = n + 1
      OBVIOUS
    <3> QED
      BY <1>2, <3>1, PartsDown
  <2>2. \A k \in DOMAIN f : PartsAt(f[k], n + 1) = Deeper(PartsAt(f[k], n))
    <3>1. n + 1 \in Nat \ {0} /\ (n + 1) - 1 = n
      OBVIOUS
    <3> QED
      BY <3>1, PartsDown
  <2>3. ASSUME NEW k \in DOMAIN f, NEW u \in PartsAt(f[k], n), NEW c \in Parts(u[2])
        PROVE  Append(<<k>> \o u[1], c[1]) = <<k>> \o Append(u[1], c[1])
    <3> DEFINE K == DOMAIN f \cup Keys(f[k])
    <3>1. IsValue(f[k])
      BY FieldsAreValues
    <3>2. IsPath(f[k], u, n)
      BY <3>1, PathsLead
    <3>3. u[1] \in Seq(K) /\ c[1] \in K /\ k \in K
      BY <3>1, <3>2, OneDeeper DEF IsPath
    <3> DEFINE s == u[1]
               a == c[1]
    <3>4. s \in Seq(K) /\ a \in K
      BY <3>3
    <3> HIDE DEF K, s, a
    <3>5. Append(<<k>> \o s, a) = <<k>> \o Append(s, a)
      BY <3>3, <3>4, KeyBefore
    <3> QED
      BY <3>5 DEF s, a
  <2>4. ASSUME NEW p \in Deeper(Under(f, n)) PROVE p \in Under(f, n + 1)
    <3>1. PICK r \in Under(f, n) : \E c \in Parts(r[2]) : p = <<Append(r[1], c[1]), c[2]>>
      BY DEF Deeper
    <3>2. PICK k \in DOMAIN f : \E u \in PartsAt(f[k], n) : r = << <<k>> \o u[1], u[2] >>
      BY DEF Under
    <3>6. PICK u \in PartsAt(f[k], n) : r = << <<k>> \o u[1], u[2] >>
      BY <3>2
    <3>3. PICK c \in Parts(u[2]) : p = <<Append(<<k>> \o u[1], c[1]), c[2]>>
      BY <3>1, <3>6
    <3> DEFINE w == <<Append(u[1], c[1]), c[2]>>
    <3>4. w \in PartsAt(f[k], n + 1)
      BY <2>2 DEF Deeper
    <3>5. p = << <<k>> \o w[1], w[2] >>
      BY <2>3, <3>3
    <3> HIDE DEF w
    <3>7. p \in {<< <<k>> \o v[1], v[2] >> : v \in PartsAt(f[k], n + 1)}
      BY <3>4, <3>5
    <3> QED
      BY <3>7 DEF Under
  <2>5. ASSUME NEW p \in Under(f, n + 1) PROVE p \in Deeper(Under(f, n))
    <3>7. PICK k \in DOMAIN f : \E w \in PartsAt(f[k], n + 1) : p = << <<k>> \o w[1], w[2] >>
      BY DEF Under
    <3>1. PICK w \in PartsAt(f[k], n + 1) : p = << <<k>> \o w[1], w[2] >>
      BY <3>7
    <3>2. PICK u \in PartsAt(f[k], n) : \E c \in Parts(u[2]) : w = <<Append(u[1], c[1]), c[2]>>
      BY <2>2 DEF Deeper
    <3>3. PICK c \in Parts(u[2]) : w = <<Append(u[1], c[1]), c[2]>>
      BY <3>2
    <3>4. p = <<Append(<<k>> \o u[1], c[1]), c[2]>>
      BY <2>3, <3>1, <3>3
    <3> DEFINE r == << <<k>> \o u[1], u[2] >>
    <3>5. r \in Under(f, n)
      BY DEF Under
    <3>6. c \in Parts(r[2]) /\ p = <<Append(r[1], c[1]), c[2]>>
      BY <3>4
    <3> HIDE DEF r
    <3> QED
      BY <3>5, <3>6 DEF Deeper
  <2>6. (n + 1) + 1 = n + 2
    OBVIOUS
  <2> QED
    BY <2>1, <2>4, <2>5, <2>6
<1> HIDE DEF P
<1>3. S \in SUBSET Nat /\ 0 \in S /\ \A n \in S : n + 1 \in S
  BY <1>1, <1>2
<1> HIDE DEF S
<1>4. S = Nat
  BY <1>3, AllNumbers
<1> USE DEF S
<1>5. \A n \in Nat : P(n)
  BY <1>4
<1> QED
  BY <1>5 DEF P

\* What a query finds in a set of documents is what the rest of it leads to in one of them.
Leads(f, q) ==
  IF Head(q) \in DOMAIN f
  THEN {p[2] : p \in {p \in PartsAt(f[Head(q)], Len(q) - 1) : p[1] = Tail(q)}}
  ELSE {}

LEMMA QueryOfDocuments ==
  ASSUME NEW f, \A k \in DOMAIN f : f[k] \in Values, NEW q, IsQuery(q)
  PROVE  LET x == queryJSONData(q, Object(f))
         IN  /\ x \notin {Error, Panic} => x \in Leads(f, q)
             /\ x = Error => Leads(f, q) = {}
<1> DEFINE x == queryJSONData(q, Object(f))
           P == PartsAt(Object(f), Len(q))
<1>1. q \in Seq(Range(q)) /\ Len(q) \in Nat \ {0} /\ Len(q) - 1 \in Nat
      /\ q = <<Head(q)>> \o Tail(q) /\ Head(q) \in Range(q) /\ Tail(q) \in Seq(Range(q))
  BY DEF IsQuery
<1>2. IsValue(Object(f)) /\ Object(f) \notin {Error, Panic}
  BY FieldsAreValues
<1>3. (x \notin {Error, Panic} => <<q, x>> \in P) /\ \A r \in P : r[1] = q => x = r[2]
  <2>1. QueryIsRight(q, Object(f))
    BY <1>1, <1>2, QueriesFind
  <2> QED
    BY <2>1 DEF QueryIsRight
<1>4. P = Under(f, Len(q) - 1)
  <2>1. (Len(q) - 1) + 1 = Len(q)
    BY <1>1
  <2> QED
    BY <1>1, <2>1, PartsUnder
<1> HIDE DEF x, P
<1>5. ASSUME x \notin {Error, Panic} PROVE x \in Leads(f, q)
  <2>5. PICK k \in DOMAIN f :
          \E p \in PartsAt(f[k], Len(q) - 1) : <<q, x>> = << <<k>> \o p[1], p[2] >>
    BY <1>3, <1>4, <1>5 DEF Under
  <2>1. PICK p \in PartsAt(f[k], Len(q) - 1) : <<q, x>> = << <<k>> \o p[1], p[2] >>
    BY <2>5
  <2>2. p[1] \in Seq(Keys(f[k]))
    BY <1>1, FieldsAreValues, PathsLead DEF IsPath
  <2> DEFINE K == DOMAIN f \cup Keys(f[k])
  <2>3. p[1] \in Seq(K) /\ k \in K
    BY <2>2
  <2> HIDE DEF K
  <2>4. Head(q) = k /\ Tail(q) = p[1] /\ x = p[2]
    BY <2>1, <2>3, KeyBefore
  <2> QED
    BY <2>4 DEF Leads
<1>6. ASSUME x = Error, NEW y \in Leads(f, q) PROVE FALSE
  <2>1. Head(q) \in DOMAIN f
    BY <1>6 DEF Leads
  <2>2. PICK p \in PartsAt(f[Head(q)], Len(q) - 1) : p[1] = Tail(q) /\ y = p[2]
    BY <1>6, <2>1 DEF Leads
  <2> DEFINE r == << <<Head(q)>> \o p[1], p[2] >>
  <2>3. r \in P
    BY <1>4, <2>1 DEF Under
  <2>4. r[1] = q
    BY <1>1, <2>2
  <2>5. x = p[2]
    BY <1>3, <2>3, <2>4
  <2>6. p[2] \notin {Error, Panic}
    <3>1. IsPath(f[Head(q)], p, Len(q) - 1)
      BY <1>1, <2>1, FieldsAreValues, PathsLead
    <3> QED
      BY <2>1, <3>1, ValueIsNoError, ValuesAreSound DEF IsPath
  <2> QED
    BY <1>6, <2>5, <2>6
<1> QED
  BY <1>5, <1>6 DEF x
-----------------------------------------------------------------------------
\* What a file describes is a test, and its request does not depend on the status.
LEMMA Prepared ==
  ASSUME NEW c, IsTest(c)
  PROVE  IsTest(prepare(c)) /\ prepareRequest(prepare(c)) = prepareRequest(c)
<1> DEFINE t == prepare(c)
<1>1. /\ DOMAIN t = DOMAIN c
      /\ t.status = IF c.status = 0 THEN 200 ELSE c.status
      /\ t.id = c.id /\ t.query = c.query /\ t.save = c.save /\ t.header = c.header
      /\ t.document = c.document /\ t.jsonSchema = c.jsonSchema
      /\ t.jsonValues = c.jsonValues /\ t.base = c.base /\ t.sends = c.sends
      /\ t.bodies = c.bodies
  BY DEF prepare, IsTest
<1> HIDE DEF t
<1>2. IsTest(t)
  BY <1>1 DEF IsTest
<1>3. ExpectsJSON(t) = ExpectsJSON(c)
  BY <1>1 DEF ExpectsJSON
<1>4. toHTTPRequest(t) = toHTTPRequest(c)
  BY <1>1 DEF toHTTPRequest
<1> QED
  BY <1>2, <1>3, <1>4 DEF t, prepareRequest

LEMMA HTTPInitInv == HTTPInit => HTTPInv
<1> SUFFICES ASSUME HTTPInit PROVE HTTPInv
  OBVIOUS
<1>1. IInv /\ last = 0 /\ pc = "idle" /\ reports = <<>>
  BY InitInv DEF HTTPInit, Init, last
<1>2. Loaded
  <2>1. PICK file \in SuiteFiles : /\ tests \in genTests(file)
                                   /\ own = [k \in DOMAIN file |-> prepareRequest(file[k])]
    BY DEF HTTPInit
  <2>2. /\ file \in Seq(Tests) /\ DOMAIN file = 1 .. Len(file) /\ Len(file) \in Nat
        /\ \A k \in DOMAIN file : IsTest(file[k])
    BY HTTPAssumption
  <2>3. tests = [k \in DOMAIN file |-> prepare(file[k])]
    BY <2>1 DEF genTests
  <2>4. DOMAIN tests = 1 .. Len(file) /\ Len(tests) = Len(file) /\ suite.nb = Len(file)
    BY <2>2, <2>3 DEF HTTPInit
  <2>5. ASSUME NEW k \in 1 .. suite.nb
        PROVE  IsTest(tests[k]) /\ own[k] = prepareRequest(tests[k])
    <3>1. k \in DOMAIN file
      BY <2>2, <2>4
    <3> QED
      BY <2>1, <2>2, <2>3, <3>1, Prepared
  <2> QED
    BY <2>4, <2>5 DEF Loaded
<1>3. Stages /\ SentNow
  BY <1>1 DEF HTTPInit, Stages, Asking, SentNow
<1>4. Logged
  <2>1. <<>> \in Seq(Entry) /\ Len(<<>>) = 0
    OBVIOUS
  <2> QED
    BY <2>1 DEF HTTPInit, Logged, CheckPanicked
<1>5. DocumentsKept
  <2>1. Len(<<>>) = 0 /\ DOMAIN <<>> = {}
    OBVIOUS
  <2> QED
    BY <2>1 DEF HTTPInit, DocumentsKept, Checked, CheckPanicked
<1>6. AllRight
  BY <1>1 DEF HTTPInit, AllRight, Closed
<1> QED
  BY <1>1, <1>2, <1>3, <1>4, <1>5, <1>6 DEF HTTPInv

\* The test that is attempted is one of the suite.
LEMMA TestInProgress ==
  ASSUME HTTPInv, pc = "test"
  PROVE  /\ last \in 1 .. suite.nb /\ last \in Nat
         /\ IsTest(tests[last]) /\ own[last] = prepareRequest(tests[last])
         /\ reports[last].attempts = attempt /\ attempt \in Nat \ {0}
         /\ Closed = 1 .. last - 1
  BY SuiteRunAssumption
  DEF HTTPInv, Loaded, IInv, TypeOK, OpenReport, last, Suites, Closed

\* What is said of the documents and the reports stays, while there is no new response.
LEMMA DocumentsStay ==
  ASSUME DocumentsKept, UNCHANGED <<tests, md, log>>, Checked' = Checked
  PROVE  DocumentsKept'
<1>1. \A id : Newest(Kept(id))' = Newest(Kept(id))
  BY DEF Newest, Kept, Saves, StatusIsWrong
<1> QED
  BY <1>1 DEF DocumentsKept, Saves, StatusIsWrong

LEMMA RightStays ==
  ASSUME UNCHANGED <<tests, log>>, NEW k, reports'[k] = reports[k], Right(k)
  PROVE  Right(k)'
  BY DEF Right, OfAttempt, Met

\* What errors do to the reports: those of the tests before stay right.
LEMMA Reported ==
  ASSUME HTTPInv, stage \in Asking, stage' = "done",
         NEW count \in Nat, NEW kind \in Kinds, Log(count, kind),
         UNCHANGED <<suite, pc, nbFailed, attempt, expired, ctxDone>>
  PROVE  /\ IInv' /\ pc = "test" /\ last' = last
         /\ reports'[last].errs = <<>> <=> count = 0
         /\ reports'[last].attempts = attempt
         /\ \A j \in 1 .. last - 1 : reports'[j] = reports[j]
<1>1. pc = "test" /\ reports[last].errs = <<>>
  BY DEF HTTPInv, Stages, Asking
<1> QED
  BY <1>1, ErrorsReported DEF HTTPInv, Log

\* A new run has no responses and no documents.
LEMMA RunBeginsInv ==
  ASSUME HTTPInv, RunBegins
  PROVE  HTTPInv'
<1>1. /\ IInv' /\ last' = 0 /\ pc' = "loop" /\ pc \in {"idle", "returned"} /\ stage = "idle"
      /\ UNCHANGED <<suite, tests, own, stage>> /\ log' = <<>> /\ md' = <<>>
  BY BeginInv DEF HTTPInv, Stages, RunBegins, Begin, last
<1>2. <<>> \in Seq(Entry) /\ Len(<<>>) = 0 /\ DOMAIN <<>> = {}
  OBVIOUS
<1>3. Loaded' /\ Stages' /\ SentNow'
  BY <1>1 DEF HTTPInv, Loaded, Stages, Asking, SentNow
<1>4. Logged'
  BY <1>1, <1>2 DEF Logged, CheckPanicked
<1>5. DocumentsKept'
  BY <1>1, <1>2 DEF DocumentsKept, Checked, CheckPanicked
<1>6. AllRight'
  BY <1>1 DEF AllRight, Closed
<1> QED
  BY <1>1, <1>3, <1>4, <1>5, <1>6 DEF HTTPInv

\* What was logged of a test is older than the attempt that begins.
LEMMA AttemptBeginsInv ==
  ASSUME HTTPInv, AttemptBegins
  PROVE  HTTPInv'
<1>1. /\ IInv' /\ pc \in {"loop", "wait"} /\ pc' = "test"
      /\ stage = "idle" /\ stage' = "call"
      /\ UNCHANGED <<suite, tests, md, own, sent, log>> /\ last \in Nat
  BY NextTestInv, RetryInv
  DEF HTTPInv, IInv, TypeOK, Stages, AttemptBegins, NextTest, Retry, NewAttempt, last
<1>2. /\ last' >= last /\ last' \in Nat
      /\ \A k \in Closed : reports'[k] = reports[k]
      /\ Closed = 1 .. last' - 1 /\ Closed' = 1 .. last' - 1
      /\ reports'[last'].errs = <<>>
      /\ \A i \in 1 .. Len(log) :
           /\ log[i].attempt <= reports'[log[i].test].attempts
           /\ log[i].test = last' => log[i].attempt < attempt'
  <2>1. CASE NextTest
    <3>1. /\ last' = last + 1 /\ reports'[last'] = [errs |-> <<>>, attempts |-> 1]
          /\ \A k \in 1 .. last : reports'[k] = reports[k]
      BY <2>1 DEF HTTPInv, IInv, TypeOK, NextTest, last
    <3>2. ASSUME NEW i \in 1 .. Len(log)
          PROVE  log[i].test # last' /\ log[i].attempt <= reports'[log[i].test].attempts
      BY <1>1, <3>1 DEF HTTPInv, Logged
    <3>3. Closed = 1 .. last /\ Closed' = 1 .. last' - 1 /\ last' - 1 = last
      BY <1>1, <2>1, <3>1 DEF NextTest, Closed
    <3> QED
      BY <1>1, <3>1, <3>2, <3>3
  <2>2. CASE Retry
    <3>1. /\ last' = last /\ reports'[last'] = [errs |-> <<>>, attempts |-> attempt + 1]
          /\ \A k \in 1 .. last - 1 : reports'[k] = reports[k]
      BY <2>2 DEF HTTPInv, IInv, TypeOK, OpenReport, Retry, last
    <3>2. /\ attempt' = attempt + 1 /\ attempt \in Nat /\ pc = "wait"
          /\ reports[last].attempts = attempt
      BY <2>2 DEF HTTPInv, IInv, TypeOK, OpenReport, Retry, NewAttempt
    <3>3. ASSUME NEW i \in 1 .. Len(log)
          PROVE  /\ log[i].attempt <= reports'[log[i].test].attempts
                 /\ log[i].test = last' => log[i].attempt < attempt'
      <4>1. log \in Seq(Entry) /\ log[i] \in Entry
        BY DEF HTTPInv, Logged
      <4>2. log[i].attempt \in Nat /\ log[i].test \in 1 .. last
            /\ log[i].attempt <= reports[log[i].test].attempts
        BY <4>1 DEF HTTPInv, Logged, Entry
      <4>3. CASE log[i].test = last
        BY <3>1, <3>2, <4>2, <4>3
      <4>4. CASE log[i].test # last
        BY <1>1, <3>1, <4>2, <4>4
      <4> QED
        BY <4>3, <4>4
    <3>4. Closed = 1 .. last - 1 /\ Closed' = 1 .. last' - 1
      BY <1>1, <3>2 DEF Closed
    <3> QED
      BY <1>1, <3>1, <3>2, <3>3, <3>4
  <2> QED
    BY <2>1, <2>2 DEF AttemptBegins
<1>3. Loaded' /\ Stages' /\ SentNow'
  BY <1>1, <1>2 DEF HTTPInv, Loaded, Stages, Asking, SentNow
<1>4. Logged'
  <2>1. \A i \in 1 .. Len(log) : log[i].test \in 1 .. last'
    BY <1>1, <1>2 DEF HTTPInv, Logged
  <2> QED
    BY <1>1, <1>2, <2>1 DEF HTTPInv, Logged, Earlier, CheckPanicked
<1>5. DocumentsKept'
  BY <1>1, DocumentsStay DEF HTTPInv, Checked, CheckPanicked
<1>6. AllRight'
  <2>1. \A k \in Closed : Right(k)'
    BY <1>1, <1>2, RightStays DEF HTTPInv, AllRight
  <2> QED
    BY <1>1, <1>2, <2>1 DEF AllRight
<1> QED
  BY <1>1, <1>3, <1>4, <1>5, <1>6 DEF HTTPInv

\* The request is made.
LEMMA SendInv ==
  ASSUME HTTPInv, Send
  PROVE  HTTPInv'
<1>1. /\ pc = "test" /\ stage = "call" /\ stage' \in {"sent", "late", "panic"}
      /\ stage' = "panic" <=> sent'.url = Panic
      /\ sent' = [own[last] EXCEPT !.url = Replaced(last)]
      /\ UNCHANGED <<vars, tests, md, own, log>>
  BY DEF Send, Requested
<1>2. IInv' /\ UNCHANGED <<suite, pc, reports, attempt>> /\ last' = last /\ Closed' = Closed
  BY <1>1, UnchangedInv DEF HTTPInv, vars, last, Closed
<1>3. Loaded' /\ Stages'
  BY <1>1, <1>2 DEF HTTPInv, Loaded, Stages, Asking
<1>4. SentNow'
  BY <1>1, <1>2 DEF SentNow, Replaced
<1>5. Logged'
  BY <1>1, <1>2 DEF HTTPInv, Logged, Asking, Earlier, CheckPanicked
<1>6. DocumentsKept'
  BY <1>1, DocumentsStay DEF HTTPInv, Checked, CheckPanicked
<1>7. AllRight'
  BY <1>1, <1>2, RightStays DEF HTTPInv, AllRight
<1> QED
  BY <1>2, <1>3, <1>4, <1>5, <1>6, <1>7 DEF HTTPInv

\* A request that is not answered is an error, and there is no response of its attempt.
LEMMA RequestFailsInv ==
  ASSUME HTTPInv, RequestFails
  PROVE  HTTPInv'
<1>1. /\ stage \in {"sent", "late"} /\ stage' = "done" /\ Log(1, "error")
      /\ UNCHANGED <<suite, pc, nbFailed, attempt, expired, ctxDone>>
      /\ UNCHANGED <<tests, md, own, sent, log>>
  BY DEF RequestFails
<1>2. /\ IInv' /\ pc = "test" /\ last' = last
      /\ reports'[last].errs # <<>> /\ reports'[last].attempts = attempt
      /\ \A j \in 1 .. last - 1 : reports'[j] = reports[j]
  BY <1>1, Reported DEF Asking, Kinds
<1>3. Loaded' /\ Stages' /\ SentNow'
  BY <1>1, <1>2 DEF HTTPInv, Loaded, Stages, Asking, SentNow
<1>4. ASSUME NEW i \in 1 .. Len(log)
      PROVE  /\ log[i].test \in 1 .. last /\ log[i].attempt \in Nat
             /\ log[i].test = last => log[i].attempt < attempt
             /\ log[i].attempt <= reports'[log[i].test].attempts
  <2>1. log[i] \in Entry
    BY DEF HTTPInv, Logged
  <2>2. /\ log[i].test \in 1 .. last /\ log[i].attempt \in Nat
        /\ log[i].test = last => log[i].attempt < attempt
        /\ log[i].attempt <= reports[log[i].test].attempts
    BY <1>1, <2>1 DEF HTTPInv, Logged, Entry, Asking
  <2>3. last \in Nat /\ attempt \in Nat
    BY <1>2, TestInProgress
  <2> QED
    BY <1>2, <2>2, <2>3
<1>5. Logged'
  <2>1. log' = log /\ last' = last /\ stage' \notin Asking /\ ~CheckPanicked'
    BY <1>1, <1>2 DEF Asking, CheckPanicked
  <2>2. log \in Seq(Entry) /\ \A i, j \in 1 .. Len(log) : i < j => Earlier(log[i], log[j])
    BY DEF HTTPInv, Logged
  <2> QED
    BY <1>4, <2>1, <2>2 DEF Logged, Earlier
<1>6. DocumentsKept'
  BY <1>1, DocumentsStay DEF HTTPInv, Checked, CheckPanicked
<1>7. AllRight'
  <2>1. Closed = 1 .. last - 1 /\ Closed' = 1 .. last - 1
    BY <1>1, <1>2 DEF Closed
  <2>2. \A k \in 1 .. last - 1 : Right(k)'
    BY <1>1, <1>2, <2>1, RightStays DEF HTTPInv, AllRight
  <2>3. Right(last)'
    <3>1. attempt \in Nat
      BY <1>2, TestInProgress
    <3>2. \A i \in 1 .. Len(log) : ~OfAttempt(i, last)'
      BY <1>1, <1>2, <1>4, <3>1 DEF OfAttempt
    <3> QED
      BY <1>1, <1>2, <3>2 DEF Right, OfAttempt
  <2> QED
    BY <1>2, <2>1, <2>2, <2>3 DEF AllRight, Right, OfAttempt, Met
<1> QED
  BY <1>2, <1>3, <1>5, <1>6, <1>7 DEF HTTPInv

\* What a response does to the log: it is the last one so far, and the only one of its
\* attempt.
Grown(e) ==
  /\ log' \in Seq(Entry) /\ Len(log') = Len(log) + 1 /\ Len(log) \in Nat
  /\ log'[Len(log) + 1] = e
  /\ \A i \in 1 .. Len(log) : log'[i] = log[i]

LEMMA LogGrows ==
  ASSUME HTTPInv, pc = "test", stage = "sent", stage' \in {"done", "panic"},
         NEW e \in Entry, e.test = last, e.attempt = attempt, log' = Append(log, e),
         UNCHANGED tests, last' = last, reports'[last].attempts = attempt,
         \A j \in 1 .. last - 1 : reports'[j] = reports[j]
  PROVE  /\ Logged' /\ Grown(e)
         /\ \A k \in 1 .. last - 1 : Right(k)'
         /\ \A i \in 1 .. Len(log) : ~OfAttempt(i, last)'
<1> PICK n : n = Len(log) + 1
  OBVIOUS
<1>1. Grown(e)
  BY DEF HTTPInv, Logged, Grown
<1>2. last \in 1 .. suite.nb /\ last \in Nat /\ attempt \in Nat /\ Closed = 1 .. last - 1
  BY TestInProgress
<1>3. ASSUME NEW i \in 1 .. Len(log)
      PROVE  /\ log'[i] = log[i] /\ log[i].test \in 1 .. last /\ log[i].attempt \in Nat
             /\ log[i].test = last => log[i].attempt < attempt
             /\ log[i].attempt <= reports'[log[i].test].attempts
  <2>1. log[i] \in Entry
    BY DEF HTTPInv, Logged
  <2>2. /\ log[i].test \in 1 .. last /\ log[i].attempt \in Nat
        /\ log[i].test = last => log[i].attempt < attempt
        /\ log[i].attempt <= reports[log[i].test].attempts
    BY <2>1 DEF HTTPInv, Logged, Entry, Asking
  <2>3. log[i].attempt <= reports'[log[i].test].attempts
    <3>1. CASE log[i].test = last
      BY <1>2, <2>2, <3>1
    <3>2. CASE log[i].test \in 1 .. last - 1
      BY <2>2, <3>2
    <3> QED
      BY <1>2, <2>2, <3>1, <3>2
  <2> QED
    BY <1>1, <2>2, <2>3 DEF Grown
<1>4. \A i \in 1 .. Len(log') : i = n \/ i \in 1 .. Len(log)
  BY <1>1 DEF Grown
<1>5. Logged'
  <2>1. ASSUME NEW i \in 1 .. Len(log')
        PROVE  log'[i].test \in 1 .. last /\ log'[i].attempt <= reports'[log'[i].test].attempts
    <3>1. CASE i = n
      BY <1>1, <1>2, <3>1 DEF Grown
    <3>2. CASE i \in 1 .. Len(log)
      BY <1>3, <3>2
    <3> QED
      BY <1>4, <3>1, <3>2
  <2>2. ASSUME NEW i \in 1 .. Len(log'), NEW j \in 1 .. Len(log'), i < j
        PROVE  Earlier(log'[i], log'[j])
    <3>1. i \in 1 .. Len(log)
      BY <1>1, <1>4, <2>2 DEF Grown
    <3>2. CASE j = n
      <4>1. log'[j].test = last /\ log'[j].attempt = attempt
        BY <1>1, <3>2 DEF Grown
      <4>2. log'[i].test \in 1 .. last /\ (log'[i].test = last => log'[i].attempt < attempt)
        BY <1>3, <3>1
      <4> QED
        BY <1>2, <4>1, <4>2 DEF Earlier
    <3>3. CASE j \in 1 .. Len(log)
      <4>1. Earlier(log[i], log[j])
        BY <2>2, <3>1, <3>3 DEF HTTPInv, Logged
      <4> QED
        BY <1>3, <3>1, <3>3, <4>1
    <3> QED
      BY <1>4, <3>2, <3>3
  <2>3. log' # <<>> /\ log'[Len(log')].test = last
    BY <1>1 DEF Grown
  <2> QED
    BY <1>1, <2>1, <2>2, <2>3 DEF Logged, Grown, Asking
<1>6. ASSUME NEW k \in 1 .. last - 1 PROVE Right(k)'
  <2>1. Right(k)
    BY <1>2 DEF HTTPInv, AllRight
  <2>2. k # last /\ reports'[k] = reports[k]
    BY <1>2
  <2>3. ~OfAttempt(n, k)'
    BY <1>1, <2>2 DEF OfAttempt, Grown
  <2>4. ASSUME NEW i \in 1 .. Len(log)
        PROVE  /\ OfAttempt(i, k)' <=> OfAttempt(i, k)
               /\ log'[i] = log[i] /\ i \in 1 .. Len(log')
    <3>1. log'[i] = log[i] /\ i \in 1 .. Len(log')
      BY <1>1 DEF Grown
    <3> QED
      BY <2>2, <3>1 DEF OfAttempt
  <2>5. ASSUME reports[k].errs = <<>> PROVE \E i \in 1 .. Len(log') : OfAttempt(i, k)'
    BY <2>1, <2>4, <2>5 DEF Right
  <2>6. ASSUME NEW i \in 1 .. Len(log'), OfAttempt(i, k)'
        PROVE  reports'[k].errs = <<>> <=> Met(tests[k], log'[i].resp)
    <3>1. i \in 1 .. Len(log) /\ OfAttempt(i, k) /\ log'[i] = log[i]
      BY <1>4, <2>3, <2>4, <2>6
    <3> QED
      BY <2>1, <2>2, <3>1 DEF Right
  <2> QED
    BY <2>2, <2>5, <2>6 DEF Right
<1>7. ASSUME NEW i \in 1 .. Len(log) PROVE ~OfAttempt(i, last)'
  BY <1>2, <1>3 DEF OfAttempt
<1> QED
  BY <1>1, <1>5, <1>6, <1>7

\* A check that panics leaves nothing but the response.
LEMMA CheckPanicsInv ==
  ASSUME HTTPInv, NEW r \in Responses, Answered(r), stage' = "panic"
  PROVE  HTTPInv'
<1> DEFINE e == [test |-> last, attempt |-> attempt, resp |-> r]
<1>1. /\ pc = "test" /\ stage = "sent" /\ log' = Append(log, e) /\ UNCHANGED <<reports, md>>
      /\ UNCHANGED <<suite, pc, nbFailed, attempt, expired, ctxDone, tests, own, sent>>
  BY DEF Answered
<1>2. IInv' /\ last' = last
  BY <1>1, UnchangedInv DEF HTTPInv, vars, last
<1>3. /\ last \in Nat /\ attempt \in Nat /\ reports[last].attempts = attempt
      /\ Closed = 1 .. last - 1
  BY <1>1, TestInProgress
<1>4. e \in Entry /\ e.test = last /\ e.attempt = attempt
  BY <1>3 DEF Entry
<1> HIDE DEF e
<1>5. /\ Logged' /\ Grown(e)
      /\ \A k \in 1 .. last - 1 : Right(k)'
  BY <1>1, <1>2, <1>3, <1>4, LogGrows
<1>6. Loaded' /\ Stages' /\ SentNow'
  BY <1>1, <1>2 DEF HTTPInv, Loaded, Stages, Asking, SentNow
<1>7. DocumentsKept'
  <2>1. Checked' = Len(log) /\ Checked = Len(log) /\ Len(log) \in Nat
    BY <1>1, <1>5 DEF HTTPInv, SentNow, Checked, CheckPanicked, Grown
  <2>2. \A i \in 1 .. Len(log) : log'[i] = log[i]
    BY <1>5 DEF Grown
  <2>3. \A id : Kept(id)' = Kept(id) /\ Kept(id) \subseteq 1 .. Len(log)
    BY <1>1, <2>1, <2>2 DEF Kept, Saves, StatusIsWrong
  <2>4. \A id : Newest(Kept(id))' = Newest(Kept(id)) /\ Newest(Kept(id)) \subseteq 1 .. Len(log)
    BY <2>3 DEF Newest
  <2> QED
    BY <1>1, <2>1, <2>2, <2>4 DEF HTTPInv, DocumentsKept, Saves, StatusIsWrong
<1>8. AllRight'
  BY <1>1, <1>2, <1>3, <1>5 DEF AllRight, Closed
<1> QED
  BY <1>2, <1>5, <1>6, <1>7, <1>8 DEF HTTPInv

\* The document of a response takes the place of those before it.
LEMMA DocumentSaved ==
  ASSUME HTTPInv, pc = "test", stage = "sent", stage' = "done",
         NEW e \in Entry, e.test = last, Grown(e), UNCHANGED tests,
         md' = IF Saves(tests[last], e.resp)
               THEN Over([id \in {tests[last].id} |-> e.resp.body.json], md) ELSE md
  PROVE  DocumentsKept'
<1> DEFINE n == Len(log) + 1
           new == tests[last].id
           saves == Saves(tests[last], e.resp)
<1>1. Checked' = n /\ Checked = Len(log) /\ Len(log) \in Nat /\ n \in 1 .. n
  BY DEF Checked, CheckPanicked, Grown
<1>2. log'[n] = e /\ \A i \in 1 .. Len(log) : log'[i] = log[i] /\ i \in 1 .. n /\ i < n
  BY <1>1 DEF Grown
<1>3. \A i \in 1 .. n : i = n \/ i \in 1 .. Len(log)
  BY <1>1
<1>4. ASSUME NEW id PROVE Kept(id)' = IF saves /\ new = id THEN Kept(id) \cup {n} ELSE Kept(id)
  <2>1. \A i \in 1 .. Len(log) : i \in Kept(id)' <=> i \in Kept(id)
    BY <1>1, <1>2 DEF Kept, Saves, StatusIsWrong
  <2>2. n \in Kept(id)' <=> saves /\ new = id
    BY <1>1, <1>2 DEF Kept, Saves, StatusIsWrong
  <2>3. Kept(id)' \subseteq 1 .. n /\ Kept(id) \subseteq 1 .. Len(log)
    BY <1>1 DEF Kept
  <2> HIDE DEF n, saves, new
  <2>4. CASE saves /\ new = id
    BY <1>2, <1>3, <2>1, <2>2, <2>3, <2>4
  <2>5. CASE ~(saves /\ new = id)
    <3>1. \A i \in Kept(id)' : i \in Kept(id)
      BY <1>3, <2>1, <2>2, <2>3, <2>5
    <3>2. \A i \in Kept(id) : i \in Kept(id)'
      BY <2>1, <2>3
    <3>3. Kept(id)' = Kept(id)
      BY <3>1, <3>2
    <3> QED
      BY <2>5, <3>3
  <2> QED
    BY <2>4, <2>5
<1>5. \A id : Kept(id) \subseteq 1 .. Len(log)
  BY <1>1 DEF Kept
<1>6. /\ \A id \in DOMAIN md : \E i \in Newest(Kept(id)) : md[id] = log[i].resp.body.json
      /\ \A i \in 1 .. Len(log) :
           Saves(tests[log[i].test], log[i].resp) => tests[log[i].test].id \in DOMAIN md
  BY <1>1 DEF HTTPInv, DocumentsKept
<1>7. /\ DOMAIN md' = DOMAIN md \cup (IF saves THEN {new} ELSE {})
      /\ saves => md'[new] = e.resp.body.json
      /\ \A id \in DOMAIN md : id # new \/ ~saves => md'[id] = md[id]
  BY DEF Over
<1>8. ASSUME NEW id \in DOMAIN md'
      PROVE  \E i \in Newest(Kept(id)') : md'[id] = log'[i].resp.body.json
  <2>1. CASE saves /\ id = new
    <3>1. Kept(id)' = Kept(id) \cup {n}
      BY <1>4, <2>1
    <3>2. n \in Newest(Kept(id)')
      BY <1>1, <1>2, <1>5, <3>1 DEF Newest
    <3> QED
      BY <1>2, <1>7, <2>1, <3>2
  <2>2. CASE ~(saves /\ id = new)
    <3>1. id \in DOMAIN md /\ md'[id] = md[id] /\ Kept(id)' = Kept(id)
      BY <1>4, <1>7, <2>2
    <3>2. PICK i \in Newest(Kept(id)) : md[id] = log[i].resp.body.json
      BY <1>6, <3>1
    <3>3. i \in 1 .. Len(log)
      BY <1>5 DEF Newest
    <3> QED
      BY <1>2, <3>1, <3>2, <3>3
  <2> QED
    BY <2>1, <2>2
<1>9. ASSUME NEW i \in 1 .. n, Saves(tests[log'[i].test], log'[i].resp)
      PROVE  tests[log'[i].test].id \in DOMAIN md'
  <2>1. CASE i = n
    BY <1>2, <1>7, <1>9, <2>1
  <2>2. CASE i \in 1 .. Len(log)
    BY <1>2, <1>6, <1>7, <1>9, <2>2
  <2> QED
    BY <1>3, <2>1, <2>2
<1> HIDE DEF n, saves, new
<1> QED
  BY <1>1, <1>8, <1>9 DEF DocumentsKept, Newest, Saves, StatusIsWrong

\* A response that was checked is the one that its report is about.
LEMMA CheckedInv ==
  ASSUME HTTPInv, NEW r \in Responses, Answered(r), stage' # "panic"
  PROVE  HTTPInv'
<1> DEFINE e == [test |-> last, attempt |-> attempt, resp |-> r]
           t == tests[last]
<1>1. /\ pc = "test" /\ stage = "sent" /\ stage' = "done" /\ log' = Append(log, e)
      /\ Log(NbErrors(t, r), "failure")
      /\ md' = IF Saves(t, r) THEN Over([id \in {t.id} |-> r.body.json], md) ELSE md
      /\ UNCHANGED <<suite, pc, nbFailed, attempt, expired, ctxDone, tests, own, sent>>
  BY DEF Answered
<1>2. /\ last \in Nat /\ attempt \in Nat /\ Closed = 1 .. last - 1 /\ IsTest(t)
  BY <1>1, TestInProgress
<1>3. NbErrors(t, r) \in Nat /\ (NbErrors(t, r) = 0 <=> Met(t, r))
  BY <1>2, ErrorsOfResponse
<1>4. e \in Entry /\ e.test = last /\ e.attempt = attempt /\ e.resp = r
  BY <1>2 DEF Entry
<1> HIDE DEF e
<1>5. /\ IInv' /\ last' = last
      /\ reports'[last].errs = <<>> <=> Met(t, r)
      /\ reports'[last].attempts = attempt
      /\ \A j \in 1 .. last - 1 : reports'[j] = reports[j]
  BY <1>1, <1>3, Reported DEF Asking, Kinds
<1>6. /\ Logged' /\ Grown(e)
      /\ \A k \in 1 .. last - 1 : Right(k)'
      /\ \A i \in 1 .. Len(log) : ~OfAttempt(i, last)'
  BY <1>1, <1>4, <1>5, LogGrows
<1>7. Loaded' /\ Stages' /\ SentNow'
  BY <1>1, <1>5 DEF HTTPInv, Loaded, Stages, Asking, SentNow
<1>8. DocumentsKept'
  BY <1>1, <1>4, <1>6, DocumentSaved
<1>9. AllRight'
  <2> PICK n : n = Len(log) + 1
    OBVIOUS
  <2>1. /\ n \in 1 .. Len(log') /\ log'[n] = e
        /\ \A i \in 1 .. Len(log') : i = n \/ i \in 1 .. Len(log)
    BY <1>6 DEF Grown
  <2>2. OfAttempt(n, last)'
    BY <1>4, <1>5, <2>1 DEF OfAttempt
  <2>3. \A i \in 1 .. Len(log') : OfAttempt(i, last)' => i = n
    BY <1>6, <2>1
  <2>4. Right(last)'
    BY <1>1, <1>4, <1>5, <2>1, <2>2, <2>3 DEF Right, OfAttempt
  <2>5. Closed' = 1 .. last - 1
    BY <1>1, <1>5 DEF Closed
  <2> QED
    BY <1>5, <1>6, <2>4, <2>5 DEF AllRight, Right, OfAttempt
<1> QED
  BY <1>5, <1>6, <1>7, <1>8, <1>9 DEF HTTPInv

\* The test returns, and its report is closed as it was judged, or tried again.
LEMMA AttemptEndsInv ==
  ASSUME HTTPInv, AttemptEnds
  PROVE  HTTPInv'
<1>1. /\ pc = "test" /\ pc' \in {"loop", "returned", "wait"}
      /\ stage = "done" /\ stage' = "idle"
      /\ UNCHANGED <<suite, reports, attempt, tests, md, own, sent, log>>
      /\ last' = last /\ last \in Nat
  BY TestInProgress
  DEF HTTPInv, Stages, AttemptEnds, Return, Passed, Failed, Wait, EndTest, last
<1>2. IInv'
  BY PassedInv, FailedInv, WaitInv DEF HTTPInv, AttemptEnds, Return
<1>3. Loaded' /\ Stages' /\ SentNow'
  BY <1>1 DEF HTTPInv, Loaded, Stages, Asking, SentNow
<1>4. Logged'
  BY <1>1 DEF HTTPInv, Logged, Asking, Earlier, CheckPanicked
<1>5. DocumentsKept'
  BY <1>1, DocumentsStay DEF HTTPInv, Checked, CheckPanicked
<1>6. AllRight'
  <2>1. \A k \in Closed \cup {last} : Right(k)'
    BY <1>1, RightStays DEF HTTPInv, AllRight
  <2>2. Closed' \subseteq Closed \cup {last}
    BY <1>1 DEF Closed
  <2>3. Right(last)'
    BY <1>1 DEF HTTPInv, AllRight, Right, OfAttempt
  <2> QED
    BY <1>1, <2>1, <2>2, <2>3 DEF AllRight, Right, OfAttempt
<1> QED
  BY <1>2, <1>3, <1>4, <1>5, <1>6 DEF HTTPInv

\* The steps that no test takes part in leave the reports alone.
LEMMA RunGoesOnInv ==
  ASSUME HTTPInv, RunGoesOn \/ UNCHANGED <<vars, httpVars>>
  PROVE  HTTPInv'
<1>1. /\ IInv'
      /\ UNCHANGED <<suite, reports, attempt, tests, md, own, stage, sent, log>>
      /\ last' = last
  BY FinishInv, GiveUpInv, ExpireInv, CancelInv, UnchangedInv
  DEF HTTPInv, RunGoesOn, Finish, GiveUp, EndTest, Expire, Cancel, vars, httpVars, last
<1>2. \/ pc' = pc
      \/ pc = "loop" /\ pc' = "returned"
      \/ pc = "wait" /\ pc' \in {"loop", "returned"}
  BY DEF RunGoesOn, Finish, GiveUp, EndTest, Expire, Cancel, vars
<1>3. Loaded' /\ Stages'
  BY <1>1, <1>2 DEF HTTPInv, Loaded, Stages, Asking
<1>4. SentNow'
  BY <1>1 DEF HTTPInv, SentNow, Replaced
<1>5. Logged'
  BY <1>1 DEF HTTPInv, Logged, Asking, Earlier, CheckPanicked
<1>6. DocumentsKept'
  BY <1>1, DocumentsStay DEF HTTPInv, Checked, CheckPanicked
<1>7. AllRight'
  <2>1. last \in Nat
    BY DEF HTTPInv, IInv, TypeOK, last
  <2>2. Closed' = Closed \/ (Closed' = Closed \cup {last} /\ pc = "wait")
    BY <1>1, <1>2, <2>1 DEF HTTPInv, IInv, OpenReport, Closed
  <2>3. \A k : Right(k) => Right(k)'
    BY <1>1, RightStays
  <2>4. Right(last) => Right(last)'
    BY <1>1 DEF Right, OfAttempt
  <2> QED
    BY <1>1, <1>2, <2>2, <2>3, <2>4 DEF HTTPInv, AllRight
<1> QED
  BY <1>1, <1>3, <1>4, <1>5, <1>6, <1>7 DEF HTTPInv

-----------------------------------------------------------------------------
\* The conjunction HTTPInv is an inductive invariant of the tests of a run.
THEOREM HTTPInvariance == HTTPSpec => []HTTPInv
<1>1. HTTPInv /\ [HTTPNext]_<<vars, httpVars>> => HTTPInv'
  BY RunBeginsInv, AttemptBeginsInv, SendInv, RequestFailsInv, CheckPanicsInv, CheckedInv,
     AttemptEndsInv, RunGoesOnInv
  DEF HTTPNext, Crashed
<1> QED
  BY HTTPInitInv, <1>1, PTL DEF HTTPSpec

\* A test passes if, and only if, its last attempt was answered as the file expects
\* (httpexpect.go:108-120, response.go:39-137).
THEOREM JudgesByResponse == HTTPSpec => []Judged
<1>1. HTTPInv => Judged
  <2> SUFFICES ASSUME HTTPInv, NEW k \in Closed
               PROVE  reports[k].errs = <<>> <=>
                        \E i \in DOMAIN log : /\ log[i].test = k
                                              /\ log[i].attempt = reports[k].attempts
                                              /\ Met(tests[k], log[i].resp)
    BY DEF Judged
  <2>1. Right(k) /\ DOMAIN log = 1 .. Len(log)
    BY DEF HTTPInv, AllRight, Logged
  <2> QED
    BY <2>1 DEF Right, OfAttempt
<1> QED
  BY <1>1, HTTPInvariance, PTL

\* What is saved is always a value.
LEMMA SavedValues ==
  ASSUME HTTPInv
  PROVE  /\ \A id \in DOMAIN md : md[id] \in Values
         /\ \A i \in 1 .. Len(log) : log[i].resp \in Responses
<1>1. ASSUME NEW i \in 1 .. Len(log) PROVE log[i].resp \in Responses
  <2>1. log[i] \in Entry
    BY DEF HTTPInv, Logged
  <2> QED
    BY <2>1 DEF Entry
<1>2. ASSUME NEW id \in DOMAIN md PROVE md[id] \in Values
  <2>1. PICK i \in Newest(Kept(id)) : md[id] = log[i].resp.body.json
    BY DEF HTTPInv, DocumentsKept
  <2>2. i \in 1 .. Checked /\ Saves(tests[log[i].test], log[i].resp)
    BY DEF Newest, Kept
  <2>3. log \in Seq(Entry) /\ Len(log) \in Nat
    BY DEF HTTPInv, Logged
  <2>4. i \in 1 .. Len(log)
    BY <2>2, <2>3 DEF Checked
  <2> QED
    BY <1>1, <2>1, <2>2, <2>4, HTTPAssumption DEF Saves
<1> QED
  BY <1>1, <1>2

\* A test that passed has left its document to the tests after it, unless one of them has
\* the same id (response.go:64-69).
THEOREM SavesWhatPassed == HTTPSpec => []PassedIsSaved
<1>1. HTTPInv => PassedIsSaved
  <2> SUFFICES ASSUME HTTPInv, NEW k \in Closed, reports[k].errs = <<>>, tests[k].save,
                      \A j \in k + 1 .. last : tests[j].id # tests[k].id
               PROVE  \E i \in DOMAIN log : /\ log[i].test = k
                                            /\ log[i].attempt = reports[k].attempts
                                            /\ tests[k].id \in DOMAIN md
                                            /\ md[tests[k].id] = log[i].resp.body.json
    BY DEF PassedIsSaved
  <2> DEFINE id == tests[k].id
  <2>1. /\ k \in 1 .. last /\ last \in Nat /\ k \in Nat
        /\ pc = "test" => k < last
        /\ log \in Seq(Entry) /\ DOMAIN log = 1 .. Len(log) /\ Len(log) \in Nat
    BY DEF HTTPInv, IInv, TypeOK, Closed, Logged, last
  <2>2. PICK i \in 1 .. Len(log) : OfAttempt(i, k) /\ Met(tests[k], log[i].resp)
    BY DEF HTTPInv, AllRight, Right
  <2>10. log[i].test = k /\ log[i].attempt = reports[k].attempts
    BY <2>2 DEF OfAttempt
  <2>3. Saves(tests[k], log[i].resp)
    <3>1. last <= suite.nb /\ suite.nb \in Nat
      BY SuiteRunAssumption DEF HTTPInv, IInv, TypeOK, Suites, last
    <3>2. IsTest(tests[k])
      BY <2>1, <3>1 DEF HTTPInv, Loaded
    <3> QED
      BY <2>2, <3>2 DEF IsTest, Met, Saves, StatusIsWrong
  <2>4. i \in 1 .. Checked
    <3>1. CASE CheckPanicked
      <4>1. log[Len(log)].test = last /\ k < last
        BY <2>1, <3>1 DEF HTTPInv, Logged, Stages, CheckPanicked
      <4>2. ASSUME i = Len(log) PROVE FALSE
        <5>1. log[i].test = log[Len(log)].test
          BY <4>2
        <5>2. k = last
          BY <2>10, <4>1, <5>1
        <5> QED
          BY <2>1, <4>1, <5>2
      <4>3. Checked = Len(log) - 1
        BY <3>1 DEF Checked
      <4>4. i \in Nat /\ i >= 1 /\ i <= Len(log) /\ Len(log) \in Nat
        BY <2>1
      <4>5. ~(i = Len(log))
        BY <4>2
      <4>6. i \in 1 .. Len(log) - 1
        BY <4>4, <4>5
      <4> QED
        BY <4>3, <4>6
    <3>2. CASE ~CheckPanicked
      BY <2>2, <3>2 DEF Checked
    <3> QED
      BY <3>1, <3>2
  <2>5. i \in Kept(id) /\ id \in DOMAIN md
    BY <2>2, <2>3, <2>4 DEF HTTPInv, DocumentsKept, Kept, OfAttempt
  <2>6. PICK n \in Newest(Kept(id)) : md[id] = log[n].resp.body.json
    BY <2>5 DEF HTTPInv, DocumentsKept
  <2>7. n \in 1 .. Len(log) /\ tests[log[n].test].id = id /\ i <= n
    BY <2>1, <2>5 DEF Newest, Kept, Checked
  <2>8. n = i
    <3> SUFFICES ASSUME i < n PROVE FALSE
      BY <2>1, <2>2, <2>7
    <3>1. log[i] \in Entry /\ log[n] \in Entry
      BY <2>1, <2>2, <2>7
    <3>2. Earlier(log[i], log[n]) /\ log[n].test \in 1 .. last
          /\ log[n].attempt <= reports[log[n].test].attempts
      BY <2>2, <2>7 DEF HTTPInv, Logged
    <3>3. log[n].test = k
      BY <2>1, <2>7, <2>10, <3>1, <3>2 DEF Earlier
    <3> QED
      BY <2>10, <3>1, <3>2, <3>3 DEF Earlier, Entry
  <2> QED
    BY <2>1, <2>2, <2>5, <2>6, <2>8, <2>10
<1> QED
  BY <1>1, HTTPInvariance, PTL

\* A query has what is at its path, in the saved documents and in every response; it ends
\* the process if, and only if, it asks an array for an index below zero
\* (response.go:154-191).
THEOREM QueriesFindPaths == HTTPSpec => []QueriesRight
<1>1. HTTPInv => QueriesRight
  <2> SUFFICES ASSUME HTTPInv, NEW k \in 1 .. Len(tests)
               PROVE  /\ tests[k].query # NoQuery => QueryIsRight(tests[k].query, Object(md))
                      /\ tests[k].jsonValues # NoValues =>
                           \A v \in tests[k].jsonValues, i \in DOMAIN log :
                             log[i].resp.body.json # NotJSON =>
                               QueryIsRight(v.query, log[i].resp.body.json)
    BY DEF QueriesRight
  <2>1. IsTest(tests[k]) /\ DOMAIN log = 1 .. Len(log)
    BY DEF HTTPInv, Loaded, Logged
  <2>2. ASSUME tests[k].query # NoQuery PROVE QueryIsRight(tests[k].query, Object(md))
    <3>1. tests[k].query \in Seq(Range(tests[k].query))
      BY <2>1, <2>2 DEF IsTest, IsQuery
    <3>2. IsValue(Object(md)) /\ Object(md) \notin {Error, Panic}
      BY SavedValues, FieldsAreValues
    <3> QED
      BY <3>1, <3>2, QueriesFind
  <2>3. ASSUME tests[k].jsonValues # NoValues,
               NEW v \in tests[k].jsonValues, NEW i \in DOMAIN log,
               log[i].resp.body.json # NotJSON
        PROVE  QueryIsRight(v.query, log[i].resp.body.json)
    <3>1. v.query \in Seq(Range(v.query))
      BY <2>1, <2>3 DEF IsTest, IsQuery
    <3>2. log[i].resp.body.json \in Values
      BY <2>1, <2>3, SavedValues, HTTPAssumption
    <3> QED
      BY <3>1, <3>2, ValuesAreSound, QueriesFind
  <2> QED
    BY <2>2, <2>3
<1> QED
  BY <1>1, HTTPInvariance, PTL

\* The document that a query is about is the newest that was left under its id.
LEMMA UrlFromDocuments ==
  ASSUME HTTPInv, stage \in {"sent", "late"}, pc = "test"
  PROVE  UrlIsCurrent
<1> DEFINE q == tests[last].query
           id == Head(q)
           At0(i) == {p[2] : p \in {p \in PartsAt(log[i].resp.body.json, Len(q) - 1) :
                                      p[1] = Tail(q)}}
           found == UNION {At0(i) : i \in Newest(SavedUnder(id))}
           x == queryJSONData(q, Object(md))
<1> SUFFICES ASSUME q # NoQuery PROVE sent.url \in IF found = {} THEN {Placeholder} ELSE found
  BY DEF UrlIsCurrent
<1>1. IsTest(tests[last]) /\ own[last] = prepareRequest(tests[last])
  BY TestInProgress
<1>2. IsQuery(q)
  BY <1>1 DEF IsTest
<1>3. sent.url = IF x = Error THEN Placeholder ELSE x
  <2>1. own[last] = [url |-> own[last].url, header |-> own[last].header, body |-> own[last].body]
        /\ own[last].url = Placeholder
    BY <1>1 DEF prepareRequest, toHTTPRequest
  <2>2. sent.url = Replaced(last)
    BY <2>1 DEF HTTPInv, SentNow
  <2> QED
    BY <2>1, <2>2 DEF Replaced
<1>4. x # Panic
  <2>1. sent.url # Panic
    BY DEF HTTPInv, SentNow
  <2>2. Error # Panic
    BY ErrorIsNotPanic
  <2> QED
    BY <1>3, <2>1, <2>2
<1>5. /\ x \notin {Error, Panic} => x \in Leads(md, q)
      /\ x = Error => Leads(md, q) = {}
  BY <1>2, SavedValues, QueryOfDocuments
<1>6. Newest(SavedUnder(id)) = Newest(Kept(id))
  <2>1. /\ Checked = Len(log) /\ DOMAIN log = 1 .. Len(log) /\ Len(log) \in Nat
    BY DEF HTTPInv, Logged, Checked, CheckPanicked
  <2>2. \A i \in 1 .. Len(log) : tests[log[i].test].status \in Int
    BY SuiteRunAssumption DEF HTTPInv, Loaded, Logged, IsTest, IInv, TypeOK, Suites, last
  <2>3. SavedUnder(id) = Kept(id)
    BY <2>1, <2>2 DEF SavedUnder, Kept, Saves, StatusIsWrong
  <2> QED
    BY <2>3 DEF Newest
<1>7. found = Leads(md, q)
  <2>1. CASE id \in DOMAIN md
    <3>1. PICK n \in Newest(Kept(id)) : md[id] = log[n].resp.body.json
      BY <2>1 DEF HTTPInv, DocumentsKept
    <3>2. Newest(Kept(id)) = {n}
      <4>1. Kept(id) \subseteq Int
        BY DEF Kept
      <4> QED
        BY <3>1, <4>1 DEF Newest
    <3>3. found = At0(n)
      BY <1>6, <3>2
    <3>4. At0(n) = Leads(md, q)
      BY <2>1, <3>1 DEF Leads
    <3> QED
      BY <3>3, <3>4
  <2>2. CASE id \notin DOMAIN md
    <3>1. Kept(id) = {}
      BY <2>2 DEF HTTPInv, DocumentsKept, Kept
    <3>2. Newest(Kept(id)) = {}
      BY <3>1 DEF Newest
    <3>3. found = {}
      BY <1>6, <3>2
    <3> QED
      BY <2>2, <3>3 DEF Leads
  <2> QED
    BY <2>1, <2>2
<1> HIDE DEF found, x, q
<1> QED
  BY <1>3, <1>4, <1>5, <1>7

\* Every attempt sends what the file describes, made from the documents of this run
\* (httpexpect.go:75-138, request.go).
THEOREM SendsWhatFileSays == HTTPSpec => []RequestRight
<1>1. HTTPInv => RequestRight
  <2> SUFFICES ASSUME HTTPInv, stage \in {"sent", "late"}
               PROVE  /\ UrlIsCurrent
                      /\ HeadersAreMerged
                      /\ sent.body = getBody(tests[last].bodies)
    BY DEF RequestRight
  <2>1. pc = "test"
    BY DEF HTTPInv, Stages
  <2>2. IsTest(tests[last]) /\ own[last] = prepareRequest(tests[last])
    BY <2>1, TestInProgress
  <2>3. sent = [own[last] EXCEPT !.url = Replaced(last)]
    BY DEF HTTPInv, SentNow
  <2>4. sent.header = prepareRequest(tests[last]).header /\ sent.body = getBody(tests[last].bodies)
    BY <2>2, <2>3 DEF prepareRequest, toHTTPRequest
  <2>5. HeadersAreMerged
    <3> DEFINE t == tests[last]
               due(n) == IF Said(t, n) \subseteq {""} /\ Default(t, n) # {}
                         THEN Default(t, n) ELSE Said(t, n)
    <3>1. ASSUME NEW n PROVE At(sent.header, n) = due(n)
      BY <2>2, <2>4, HeadersOfRequest DEF Unset
    <3>2. \A n \in Range(Canonical) :
            {sent.header[k] : k \in DOMAIN sent.header \cap {n}} = due(n)
      BY <3>1 DEF At
    <3> QED
      BY <3>2 DEF HeadersAreMerged
  <2> QED
    BY <2>1, <2>4, <2>5, UrlFromDocuments
<1> QED
  BY <1>1, HTTPInvariance, PTL
=============================================================================
