--------------------------- MODULE LoadSuiteProofs ---------------------------
(***************************************************************************)
(* Proofs about the loading of a suite: the layers of its settings         *)
(* (SuiteLoad), and the documents of its tests (Documents, LoadSuite).     *)
(*                                                                         *)
(* The settings have an inductive invariant.  The documents are loaded in  *)
(* one step, by recursive functions; what these come to is proved by       *)
(* induction on how deep a value nests (ValueInduction), on how deep a     *)
(* call of loadDoc is and how many files it may still follow               *)
(* (CallInduction), and on how many nodes are not reached                  *)
(* (FollowInduction).                                                      *)
(***************************************************************************)
EXTENDS LoadSuite, FiniteSetTheorems, WellFoundedInduction, TLAPS

\* A set of numbers has a least one, of which the proofs by induction below make use: the
\* least number for which something does not hold.
Before == {p \in Nat \X Nat : p[1] < p[2]}

LEMMA BeforeIsWellFounded == IsWellFoundedOn(Before, Nat)
  BY NatLessThanWellFounded DEF OpToRel, Before

LEMMA Least ==
  ASSUME NEW S \in SUBSET Nat, S # {}
  PROVE  \E n \in S : \A k \in S : n <= k
<1>1. PICK n \in S : \A k \in S : <<k, n>> \notin Before
  BY BeforeIsWellFounded, WFMin
<1>2. ASSUME NEW k \in S PROVE n <= k
  <2>1. n \in Nat /\ k \in Nat
    OBVIOUS
  <2> SUFFICES ASSUME k < n PROVE <<k, n>> \in Before
    BY <2>1, <1>1
  <2> DEFINE t == <<k, n>>
  <2>2. t \in Nat \X Nat /\ t[1] < t[2]
    BY <2>1
  <2> QED
    BY <2>2 DEF Before
<1> QED
  BY <1>2

-----------------------------------------------------------------------------
\* Values: what is in one is a value that nests less deep.
LEMMA NestingType ==
  /\ MaxNesting \in Nat /\ MaxOpen \in Nat
  /\ \A v \in Values : Nesting[v] \in Nat /\ Nesting[v] <= MaxNesting
  BY DocumentsAssumption

LEMMA ValueTypes ==
  ASSUME NEW v \in Values
  PROVE  /\ v.type \in {"nil", "true", "text", "list", "object"}
         /\ v.type = "list" =>
              Len(v.items) \in Nat /\ DOMAIN v.items = 1 .. Len(v.items)
              /\ \A i \in DOMAIN v.items : v.items[i] \in Values
         /\ v.type = "object" => \A k \in DOMAIN v.fields : v.fields[k] \in Values
<1>1. IsValue(v)
  BY DocumentsAssumption
<1>2. v.type \in {"nil", "true", "text", "list", "object"}
  BY <1>1 DEF IsValue
<1>3. ASSUME v.type = "list"
      PROVE  Len(v.items) \in Nat /\ DOMAIN v.items = 1 .. Len(v.items)
             /\ \A i \in DOMAIN v.items : v.items[i] \in Values
  <2>1. v.items \in Seq(Values)
    BY <1>1, <1>3 DEF IsValue
  <2> QED
    BY <2>1
<1>4. ASSUME v.type = "object", NEW k \in DOMAIN v.fields PROVE v.fields[k] \in Values
  <2>1. v.fields \in [DOMAIN v.fields -> Values]
    BY <1>1, <1>4 DEF IsValue
  <2> QED
    BY <2>1
<1> QED
  BY <1>2, <1>3, <1>4

LEMMA ChildrenNest ==
  ASSUME NEW v \in Values, NEW but, NEW c \in Children(v, but)
  PROVE  c \in Values /\ c \in Children(v, {}) /\ Nesting[c] < Nesting[v]
<1>1. c \in Children(v, {})
  BY DEF Children
<1>2. c \in Values
  <2>1. CASE v.type = "object"
    BY <2>1, ValueTypes DEF Children, IsObject
  <2>2. CASE v.type = "list"
    BY <2>2, ValueTypes DEF Children, IsObject
  <2>3. CASE v.type # "object" /\ v.type # "list"
    BY <2>3 DEF Children, IsObject
  <2> QED
    BY <2>1, <2>2, <2>3
<1>3. IsValue(v)
  BY DocumentsAssumption
<1> QED
  BY <1>1, <1>2, <1>3 DEF IsValue

\* Induction on values: what holds of a value when it holds of those in it holds of all.
LEMMA ValueInduction ==
  ASSUME NEW T, \A v \in Values : Children(v, {}) \subseteq T => v \in T
  PROVE  Values \subseteq T
<1> DEFINE S == {Nesting[v] : v \in Values \ T}
<1>1. S \in SUBSET Nat
  BY NestingType
<1> SUFFICES ASSUME NEW w \in Values \ T PROVE FALSE
  OBVIOUS
<1>2. S # {}
  OBVIOUS
<1>3. PICK n \in S : \A k \in S : n <= k
  <2> HIDE DEF S
  <2> QED
    BY <1>1, <1>2, Least
<1>4. PICK v \in Values \ T : n = Nesting[v]
  OBVIOUS
<1>5. PICK c \in Children(v, {}) : c \notin T
  BY <1>4
<1>6. c \in Values /\ Nesting[c] < Nesting[v]
  BY <1>4, ChildrenNest
<1>7. Nesting[v] <= Nesting[c]
  BY <1>3, <1>4, <1>5, <1>6
<1> QED
  BY <1>4, <1>6, <1>7, NestingType

-----------------------------------------------------------------------------
\* fixRefInDoc is the function that it is defined as: there is one for the values that nest
\* less deep than any number.
Shallower(n) == {v \in Values : Nesting[v] < n}
IsFix(f, n) == f = [w \in Shallower(n) |-> fixIn(f, w)]

LEMMA FixAgrees ==
  ASSUME NEW v \in Values, NEW f, NEW g, \A c \in Children(v, {}) : f[c] = g[c]
  PROVE  fixIn(f, v) = fixIn(g, v)
<1>1. CASE v.type = "object"
  <2>1. \A k \in DOMAIN v.fields : f[v.fields[k]] = g[v.fields[k]]
    BY <1>1 DEF Children, IsObject
  <2> QED
    BY <1>1, <2>1 DEF fixIn, IsObject
<1>2. CASE v.type = "list"
  <2>1. \A i \in DOMAIN v.items : f[v.items[i]] = g[v.items[i]]
    BY <1>2 DEF Children, IsObject
  <2> QED
    BY <1>2, <2>1 DEF fixIn, IsObject
<1>3. CASE v.type # "object" /\ v.type # "list"
  BY <1>3 DEF fixIn, IsObject
<1> QED
  BY <1>1, <1>2, <1>3

LEMMA FixUpTo == \A n \in Nat : \E f : IsFix(f, n)
<1> DEFINE P(n) == \E f : IsFix(f, n)
           S == {n \in Nat : ~P(n)}
<1> HIDE DEF P
<1> SUFFICES ASSUME S # {} PROVE FALSE
  BY DEF P
<1>1. PICK n \in S : \A k \in S : n <= k
  BY Least
<1>2. CASE n = 0
  <2>1. Shallower(0) = {}
    BY NestingType DEF Shallower
  <2>2. IsFix([w \in {} |-> w], 0)
    BY <2>1 DEF IsFix
  <2> QED
    BY <1>1, <1>2, <2>2 DEF P
<1>3. CASE n # 0
  <2>1. n - 1 \in Nat /\ ~(n <= n - 1)
    BY <1>3
  <2>2. PICK f : IsFix(f, n - 1)
    BY <1>1, <2>1 DEF P
  <2> DEFINE g == [w \in Shallower(n) |-> fixIn(f, w)]
  <2>3. ASSUME NEW w \in Shallower(n - 1) PROVE g[w] = f[w]
    <3>1. w \in Shallower(n)
      BY <2>1, NestingType DEF Shallower
    <3>2. f[w] = fixIn(f, w)
      BY <2>2 DEF IsFix
    <3> QED
      BY <3>1, <3>2
  <2>4. ASSUME NEW w \in Shallower(n) PROVE fixIn(f, w) = fixIn(g, w)
    <3>1. w \in Values /\ Nesting[w] < n
      BY DEF Shallower
    <3>2. ASSUME NEW c \in Children(w, {}) PROVE f[c] = g[c]
      <4>1. c \in Values /\ Nesting[c] < Nesting[w]
        BY <3>1, ChildrenNest
      <4>2. c \in Shallower(n - 1)
        BY <2>1, <3>1, <4>1, NestingType DEF Shallower
      <4> QED
        BY <2>3, <4>2
    <3> QED
      BY <3>1, <3>2, FixAgrees
  <2>5. g = [w \in Shallower(n) |-> fixIn(g, w)]
    BY <2>4
  <2>6. IsFix(g, n)
    BY <2>5 DEF IsFix
  <2> QED
    BY <1>1, <2>6 DEF P
<1> QED
  BY <1>2, <1>3

LEMMA FixDefined ==
  \E f : f = [w \in Values |-> fixIn(f, w)] /\ \A v \in Values : fixRefInDoc(v) = f[v]
<1>1. Shallower(MaxNesting + 1) = Values
  BY NestingType DEF Shallower
<1>2. PICK f : IsFix(f, MaxNesting + 1)
  BY FixUpTo, NestingType
<1>3. f = [w \in Values |-> fixIn(f, w)]
  BY <1>1, <1>2 DEF IsFix
<1> DEFINE F == CHOOSE g : g = [w \in Values |-> fixIn(g, w)]
<1>4. F = [w \in Values |-> fixIn(F, w)]
  BY <1>3
<1>5. \A v \in Values : fixRefInDoc(v) = F[v]
  BY DEF fixRefInDoc
<1> HIDE DEF F
<1> QED
  BY <1>4, <1>5

\* What it makes of a value is made of what it makes of the values in it.
LEMMA FixedParts ==
  ASSUME NEW v \in Values
  PROVE  LET w == fixRefInDoc(v)
         IN  /\ w.type = v.type
             /\ Children(w, {"$ref"}) = {fixRefInDoc(c) : c \in Children(v, {"$ref"})}
             /\ v.type \notin {"list", "object"} => w = v
             /\ IsObject(v) => DOMAIN w.fields = DOMAIN v.fields
             /\ IsObject(v) /\ "$ref" \in DOMAIN v.fields =>
                  LET r == v.fields["$ref"]
                  IN  w.fields["$ref"] =
                        IF r.type = "text" /\ r.text \in DOMAIN Path
                        THEN FileURL(Join(Root, Path[r.text])) ELSE r
<1>1. PICK f : f = [w \in Values |-> fixIn(f, w)] /\ \A x \in Values : fixRefInDoc(x) = f[x]
  BY FixDefined
<1> DEFINE w == fixRefInDoc(v)
<1>2. w = fixIn(f, v)
  BY <1>1
<1>3. CASE v.type = "object"
  <2> DEFINE h == [k \in DOMAIN v.fields |->
                     IF k = "$ref"
                     THEN IF HasText(v, k) /\ v.fields[k].text \in DOMAIN Path
                          THEN FileURL(RefFile(Root, v)) ELSE v.fields[k]
                     ELSE f[v.fields[k]]]
  <2>1. w = Obj(h)
    BY <1>2, <1>3 DEF fixIn, IsObject
  <2>2. w.type = "object" /\ w.fields = h
    BY <2>1 DEF Obj
  <2>3. DOMAIN h = DOMAIN v.fields
    OBVIOUS
  <2>4. ASSUME NEW k \in DOMAIN v.fields, k # "$ref" PROVE h[k] = fixRefInDoc(v.fields[k])
    <3>1. v.fields[k] \in Values
      BY <1>3, ValueTypes
    <3> QED
      BY <1>1, <2>4, <3>1
  <2>5. Children(w, {"$ref"}) = {h[k] : k \in DOMAIN v.fields \ {"$ref"}}
    BY <2>2, <2>3 DEF Children, IsObject
  <2>6. Children(v, {"$ref"}) = {v.fields[k] : k \in DOMAIN v.fields \ {"$ref"}}
    BY <1>3 DEF Children, IsObject
  <2>7. Children(w, {"$ref"}) = {fixRefInDoc(c) : c \in Children(v, {"$ref"})}
    <3> HIDE DEF h
    <3>1. \A k \in DOMAIN v.fields \ {"$ref"} : h[k] = fixRefInDoc(v.fields[k])
      BY <2>4
    <3> QED
      BY <2>5, <2>6, <3>1
  <2>8. ASSUME "$ref" \in DOMAIN v.fields
        PROVE  LET r == v.fields["$ref"]
               IN  w.fields["$ref"] = IF r.type = "text" /\ r.text \in DOMAIN Path
                                      THEN FileURL(Join(Root, Path[r.text])) ELSE r
    <3>1. w.fields["$ref"] = h["$ref"]
      BY <2>2
    <3>2. h["$ref"] = IF HasText(v, "$ref") /\ v.fields["$ref"].text \in DOMAIN Path
                      THEN FileURL(RefFile(Root, v)) ELSE v.fields["$ref"]
      BY <2>8
    <3>3. HasText(v, "$ref") <=> v.fields["$ref"].type = "text"
      BY <1>3, <2>8 DEF HasText, IsObject
    <3> QED
      BY <3>1, <3>2, <3>3 DEF RefFile, Names
  <2> QED
    BY <1>3, <2>2, <2>3, <2>7, <2>8 DEF IsObject
<1>4. CASE v.type = "list"
  <2> DEFINE h == [i \in DOMAIN v.items |-> f[v.items[i]]]
  <2>1. w = List(h)
    BY <1>2, <1>4 DEF fixIn, IsObject
  <2>2. w.type = "list" /\ w.items = h
    BY <2>1 DEF List
  <2>3. \A i \in DOMAIN v.items : h[i] = fixRefInDoc(v.items[i])
    BY <1>1, <1>4, ValueTypes
  <2>4. Children(w, {"$ref"}) = {h[i] : i \in DOMAIN v.items}
    BY <2>2 DEF Children, IsObject
  <2>5. Children(v, {"$ref"}) = {v.items[i] : i \in DOMAIN v.items}
    BY <1>4 DEF Children, IsObject
  <2>6. Children(w, {"$ref"}) = {fixRefInDoc(c) : c \in Children(v, {"$ref"})}
    <3> HIDE DEF h
    <3> QED
      BY <2>3, <2>4, <2>5
  <2> QED
    BY <1>4, <2>2, <2>6 DEF IsObject
<1>5. CASE v.type # "object" /\ v.type # "list"
  <2>1. w = v
    BY <1>2, <1>5 DEF fixIn, IsObject
  <2>2. Children(v, {"$ref"}) = {}
    BY <1>5 DEF Children, IsObject
  <2> QED
    BY <1>5, <2>1, <2>2 DEF IsObject
<1> QED
  BY <1>3, <1>4, <1>5

-----------------------------------------------------------------------------
\* The values in a value, level by level: there is such a function up to each level.
AreLevels(f, v, but, n) == f = [i \in 0 .. n |-> IF i = 0 THEN {v} ELSE Deeper(f[i - 1], but)]
UpTo(v, but) == CHOOSE f : AreLevels(f, v, but, Deepest)

LEMMA DeepestType == Deepest \in Nat /\ MaxNesting < Deepest
<1>1. (MaxOpen + 1) * (MaxNesting + 1) = MaxOpen * (MaxNesting + 1) + (MaxNesting + 1)
  BY NestingType
<1>2. MaxOpen * (MaxNesting + 1) \in Nat
  BY NestingType
<1> QED
  BY <1>1, <1>2, NestingType DEF Deepest

LEMMA LevelsUpTo == ASSUME NEW v, NEW but PROVE \A n \in Nat : \E f : AreLevels(f, v, but, n)
<1> DEFINE P(n) == \E f : AreLevels(f, v, but, n)
           S == {n \in Nat : ~P(n)}
<1> HIDE DEF P
<1> SUFFICES ASSUME S # {} PROVE FALSE
  BY DEF P
<1>1. PICK n \in S : \A k \in S : n <= k
  BY Least
<1>2. CASE n = 0
  <2>1. AreLevels([i \in 0 .. 0 |-> {v}], v, but, 0)
    BY DEF AreLevels
  <2> QED
    BY <1>1, <1>2, <2>1 DEF P
<1>3. CASE n # 0
  <2>1. n - 1 \in Nat /\ ~(n <= n - 1)
    BY <1>3
  <2>2. PICK f : AreLevels(f, v, but, n - 1)
    BY <1>1, <2>1 DEF P
  <2>3. \A i \in 0 .. n - 1 : f[i] = IF i = 0 THEN {v} ELSE Deeper(f[i - 1], but)
    BY <2>2 DEF AreLevels
  <2> DEFINE g == [i \in 0 .. n |-> IF i = n THEN Deeper(f[n - 1], but) ELSE f[i]]
  <2>4. ASSUME NEW i \in 0 .. n PROVE g[i] = IF i = 0 THEN {v} ELSE Deeper(g[i - 1], but)
    <3>1. i # 0 => g[i - 1] = f[i - 1]
      <4>1. i # 0 => i - 1 \in 0 .. n /\ i - 1 # n
        OBVIOUS
      <4> QED
        BY <4>1
    <3>2. i # n => g[i] = f[i] /\ i \in 0 .. n - 1
      OBVIOUS
    <3>3. g[n] = Deeper(f[n - 1], but)
      OBVIOUS
    <3> HIDE DEF g
    <3> QED
      BY <1>3, <2>3, <3>1, <3>2, <3>3
  <2>5. g = [i \in 0 .. n |-> g[i]]
    OBVIOUS
  <2> HIDE DEF g
  <2>6. AreLevels(g, v, but, n)
    BY <2>4, <2>5 DEF AreLevels
  <2> QED
    BY <1>1, <2>6 DEF P
<1> QED
  BY <1>2, <1>3

LEMMA LevelsDefined ==
  ASSUME NEW v, NEW but
  PROVE  /\ UpTo(v, but)[0] = {v}
         /\ \A n \in 1 .. Deepest : UpTo(v, but)[n] = Deeper(UpTo(v, but)[n - 1], but)
         /\ Within(v, but) = UpTo(v, but)[Deepest]
<1> DEFINE f == UpTo(v, but)
<1>1. AreLevels(f, v, but, Deepest)
  BY LevelsUpTo, DeepestType DEF UpTo
<1>2. Within(v, but) = f[Deepest]
  BY DEF Within, UpTo, AreLevels
<1> HIDE DEF f
<1>3. \A n \in 0 .. Deepest : f[n] = IF n = 0 THEN {v} ELSE Deeper(f[n - 1], but)
  BY <1>1 DEF AreLevels
<1>4. f[0] = {v} /\ \A n \in 1 .. Deepest : f[n] = Deeper(f[n - 1], but)
  <2>1. 0 \in 0 .. Deepest /\ \A n \in 1 .. Deepest : n \in 0 .. Deepest /\ n # 0
    BY DeepestType
  <2> QED
    BY <1>3, <2>1
<1> QED
  BY <1>2, <1>4 DEF f

LEMMA ItselfWithin ==
  ASSUME NEW v, NEW but
  PROVE  v \in Within(v, but) /\ \A n \in 0 .. Deepest : v \in UpTo(v, but)[n]
<1> DEFINE S == {n \in 0 .. Deepest : v \notin UpTo(v, but)[n]}
<1> SUFFICES ASSUME S # {} PROVE FALSE
  BY LevelsDefined, DeepestType
<1>1. S \in SUBSET Nat
  BY DeepestType
<1>2. PICK n \in S : \A k \in S : n <= k
  <2> HIDE DEF S
  <2> QED
    BY <1>1, Least
<1>3. n # 0
  BY LevelsDefined
<1>4. n \in 1 .. Deepest /\ n - 1 \in 0 .. Deepest /\ ~(n <= n - 1)
  BY <1>3, DeepestType
<1>5. v \in UpTo(v, but)[n - 1]
  BY <1>2, <1>4
<1>6. UpTo(v, but)[n] = Deeper(UpTo(v, but)[n - 1], but)
  BY <1>4, LevelsDefined
<1> QED
  BY <1>5, <1>6 DEF Deeper

\* It is among the values in it, and these are in every set that has the values in its own.
LEMMA WithinLeast ==
  ASSUME NEW v, NEW but, NEW T, v \in T, \A w \in T : Children(w, but) \subseteq T
  PROVE  Within(v, but) \subseteq T
<1> DEFINE S == {n \in 0 .. Deepest : ~(UpTo(v, but)[n] \subseteq T)}
<1> SUFFICES ASSUME S # {} PROVE FALSE
  BY LevelsDefined, DeepestType
<1>1. S \in SUBSET Nat
  BY DeepestType
<1>2. PICK n \in S : \A k \in S : n <= k
  <2> HIDE DEF S
  <2> QED
    BY <1>1, Least
<1>3. n # 0
  BY LevelsDefined
<1>4. n \in 1 .. Deepest /\ n - 1 \in 0 .. Deepest /\ ~(n <= n - 1)
  BY <1>3, DeepestType
<1>5. UpTo(v, but)[n - 1] \subseteq T
  BY <1>2, <1>4
<1>6. Deeper(UpTo(v, but)[n - 1], but) \subseteq T
  BY <1>5 DEF Deeper
<1>7. UpTo(v, but)[n] = Deeper(UpTo(v, but)[n - 1], but)
  BY <1>4, LevelsDefined
<1> QED
  BY <1>6, <1>7

\* The levels of a value are those of the values in it, one further down.
LEMMA LevelsOfParts ==
  ASSUME NEW v, NEW but
  PROVE  \A n \in 1 .. Deepest :
           UpTo(v, but)[n] = {v} \cup UNION {UpTo(c, but)[n - 1] : c \in Children(v, but)}
<1> DEFINE Parts(n) == {v} \cup UNION {UpTo(c, but)[n - 1] : c \in Children(v, but)}
           S == {n \in 1 .. Deepest : UpTo(v, but)[n] # Parts(n)}
<1> SUFFICES ASSUME S # {} PROVE FALSE
  OBVIOUS
<1>1. S \in SUBSET Nat
  BY DeepestType
<1>2. PICK n \in S : \A k \in S : n <= k
  <2> HIDE DEF S
  <2> QED
    BY <1>1, Least
<1>3. n \in 1 .. Deepest /\ UpTo(v, but)[n] = Deeper(UpTo(v, but)[n - 1], but)
  BY LevelsDefined
<1>4. CASE n = 1
  <2>1. UpTo(v, but)[1] = {v} \cup Children(v, but)
    <3>1. UpTo(v, but)[1] = Deeper(UpTo(v, but)[0], but)
      BY <1>3, <1>4
    <3> QED
      BY <3>1, LevelsDefined DEF Deeper
  <2>2. \A c : UpTo(c, but)[0] = {c}
    BY LevelsDefined
  <2>3. Parts(1) = {v} \cup Children(v, but)
    BY <2>2
  <2> QED
    BY <1>4, <2>1, <2>3
<1>5. CASE n # 1
  <2>1. n - 1 \in 1 .. Deepest /\ ~(n <= n - 1) /\ (n - 1) - 1 = n - 2
    BY <1>3, <1>5, DeepestType
  <2>2. UpTo(v, but)[n - 1] = Parts(n - 1)
    BY <1>2, <2>1
  <2> DEFINE B == UNION {UpTo(c, but)[n - 2] : c \in Children(v, but)}
             C == UNION {UpTo(c, but)[n - 1] : c \in Children(v, but)}
  <2>3. UpTo(v, but)[n - 1] = {v} \cup B
    BY <2>1, <2>2
  <2>4. UpTo(v, but)[n] = Deeper({v} \cup B, but)
    BY <1>3, <2>3
  <2>5. ASSUME NEW c \in Children(v, but)
        PROVE  /\ UpTo(c, but)[n - 1] = Deeper(UpTo(c, but)[n - 2], but)
               /\ c \in UpTo(c, but)[n - 1]
    <3>1. UpTo(c, but)[n - 1] = Deeper(UpTo(c, but)[n - 2], but)
      BY <2>1, LevelsDefined
    <3>2. c \in UpTo(c, but)[n - 1]
      BY <2>1, ItselfWithin
    <3> QED
      BY <3>1, <3>2
  <2>6. C = UNION {Deeper(UpTo(c, but)[n - 2], but) : c \in Children(v, but)}
    BY <2>5
  <2>7. Deeper({v} \cup B, but) = {v} \cup Children(v, but) \cup Deeper(B, but)
    BY DEF Deeper
  <2>8. Deeper(B, but) = UNION {Deeper(UpTo(c, but)[n - 2], but) : c \in Children(v, but)}
    BY DEF Deeper
  <2>9. Children(v, but) \subseteq C
    BY <2>5
  <2> QED
    BY <2>4, <2>6, <2>7, <2>8, <2>9
<1> QED
  BY <1>4, <1>5

\* The levels of a value from some on have all that is in it.
EndsBy(v, but, n) ==
  \A m \in Nat : n <= m /\ m <= Deepest =>
    \A w \in UpTo(v, but)[m] : Children(w, but) \subseteq UpTo(v, but)[m]

LEMMA EndsAfterParts ==
  ASSUME NEW v, NEW but, NEW n \in Nat, \A c \in Children(v, but) : n # 0 /\ EndsBy(c, but, n - 1)
  PROVE  EndsBy(v, but, n)
<1> SUFFICES ASSUME NEW m \in Nat, n <= m, m <= Deepest, NEW w \in UpTo(v, but)[m]
             PROVE  Children(w, but) \subseteq UpTo(v, but)[m]
  BY DEF EndsBy
<1>1. CASE m = 0
  <2>1. w = v /\ Children(v, but) = {}
    BY <1>1, LevelsDefined
  <2> QED
    BY <2>1
<1>2. CASE m # 0
  <2>1. m \in 1 .. Deepest /\ m - 1 \in Nat /\ m - 1 <= Deepest /\ m - 1 \in 0 .. Deepest
    BY <1>2, DeepestType
  <2>2. UpTo(v, but)[m] = {v} \cup UNION {UpTo(c, but)[m - 1] : c \in Children(v, but)}
    BY <2>1, LevelsOfParts
  <2>3. CASE w = v
    <3>1. \A c \in Children(v, but) : c \in UpTo(c, but)[m - 1]
      BY <2>1, ItselfWithin
    <3> QED
      BY <2>2, <2>3, <3>1
  <2>4. ASSUME NEW c \in Children(v, but), w \in UpTo(c, but)[m - 1]
        PROVE  Children(w, but) \subseteq UpTo(v, but)[m]
    <3>1. n - 1 <= m - 1
      OBVIOUS
    <3>2. Children(w, but) \subseteq UpTo(c, but)[m - 1]
      BY <2>1, <2>4, <3>1 DEF EndsBy
    <3> QED
      BY <2>2, <3>2
  <2> QED
    BY <2>2, <2>3, <2>4
<1> QED
  BY <1>1, <1>2

LEMMA EndsLater ==
  ASSUME NEW v, NEW but, NEW k \in Nat, NEW n \in Nat, k <= n, EndsBy(v, but, k)
  PROVE  EndsBy(v, but, n)
<1>1. \A m \in Nat : n <= m => k <= m
  OBVIOUS
<1> QED
  BY <1>1 DEF EndsBy

LEMMA WithinClosed ==
  ASSUME NEW v, NEW but, NEW n \in Nat, n <= Deepest, EndsBy(v, but, n),
         NEW w \in Within(v, but)
  PROVE  Children(w, but) \subseteq Within(v, but)
  BY LevelsDefined, DeepestType DEF EndsBy

LEMMA ValueEnds == ASSUME NEW v \in Values, NEW but PROVE EndsBy(v, but, Nesting[v])
<1> DEFINE T == {w \in Values : EndsBy(w, but, Nesting[w])}
<1>1. ASSUME NEW w \in Values, Children(w, {}) \subseteq T PROVE w \in T
  <2>1. Nesting[w] \in Nat
    BY NestingType
  <2>2. ASSUME NEW c \in Children(w, but)
        PROVE  Nesting[w] # 0 /\ EndsBy(c, but, Nesting[w] - 1)
    <3>1. c \in Values /\ c \in Children(w, {}) /\ Nesting[c] < Nesting[w] /\ Nesting[c] \in Nat
      BY ChildrenNest, NestingType
    <3>2. EndsBy(c, but, Nesting[c])
      BY <1>1, <3>1
    <3>3. Nesting[w] # 0 /\ Nesting[w] - 1 \in Nat /\ Nesting[c] <= Nesting[w] - 1
      BY <2>1, <3>1
    <3> QED
      BY <3>1, <3>2, <3>3, EndsLater
  <2>3. EndsBy(w, but, Nesting[w])
    BY <2>1, <2>2, EndsAfterParts
  <2> QED
    BY <2>3
<1>2. Values \subseteq T
  <2> HIDE DEF T
  <2> QED
    BY <1>1, ValueInduction
<1> QED
  BY <1>2

\* What is within a value of a document is a value, and has its own within it.
LEMMA WithinValue ==
  ASSUME NEW v \in Values, NEW but
  PROVE  /\ Within(v, but) \subseteq Values
         /\ \A w \in Within(v, but) : Children(w, but) \subseteq Within(v, but)
<1>1. \A w \in Values : Children(w, but) \subseteq Values
  BY ChildrenNest
<1>2. Within(v, but) \subseteq Values
  BY <1>1, WithinLeast
<1>3. Nesting[v] \in Nat /\ Nesting[v] <= Deepest /\ EndsBy(v, but, Nesting[v])
  BY NestingType, DeepestType, ValueEnds
<1> QED
  BY <1>2, <1>3, WithinClosed

LEMMA FixedEnds == ASSUME NEW v \in Values PROVE EndsBy(fixRefInDoc(v), {"$ref"}, Nesting[v])
<1> DEFINE T == {w \in Values : EndsBy(fixRefInDoc(w), {"$ref"}, Nesting[w])}
<1>1. ASSUME NEW w \in Values, Children(w, {}) \subseteq T PROVE w \in T
  <2>1. Nesting[w] \in Nat
    BY NestingType
  <2>2. ASSUME NEW d \in Children(fixRefInDoc(w), {"$ref"})
        PROVE  Nesting[w] # 0 /\ EndsBy(d, {"$ref"}, Nesting[w] - 1)
    <3>1. PICK c \in Children(w, {"$ref"}) : d = fixRefInDoc(c)
      BY FixedParts
    <3>2. c \in Values /\ c \in Children(w, {}) /\ Nesting[c] < Nesting[w] /\ Nesting[c] \in Nat
      BY ChildrenNest, NestingType
    <3>3. EndsBy(d, {"$ref"}, Nesting[c])
      BY <1>1, <3>1, <3>2
    <3>4. Nesting[w] # 0 /\ Nesting[w] - 1 \in Nat /\ Nesting[c] <= Nesting[w] - 1
      BY <2>1, <3>2
    <3> QED
      BY <3>2, <3>3, <3>4, EndsLater
  <2>3. EndsBy(fixRefInDoc(w), {"$ref"}, Nesting[w])
    BY <2>1, <2>2, EndsAfterParts
  <2> QED
    BY <2>3
<1>2. Values \subseteq T
  <2> HIDE DEF T
  <2> QED
    BY <1>1, ValueInduction
<1> QED
  BY <1>2

\* What is in a schema once its references are fixed is what becomes of the values in it.
LEMMA FixedWithin ==
  ASSUME NEW v \in Values
  PROVE  Within(fixRefInDoc(v), {"$ref"}) = {fixRefInDoc(w) : w \in Within(v, {"$ref"})}
<1> DEFINE R == {"$ref"}
           I == Within(fixRefInDoc(v), R)
           J == {fixRefInDoc(w) : w \in Within(v, R)}
           K == {w \in Within(v, R) : fixRefInDoc(w) \in I}
<1>1. Within(v, R) \subseteq Values /\ \A w \in Within(v, R) : Children(w, R) \subseteq Within(v, R)
  BY WithinValue
<1>2. v \in Within(v, R) /\ fixRefInDoc(v) \in I
  BY ItselfWithin
<1>3. \A w \in I : Children(w, R) \subseteq I
  <2>1. Nesting[v] \in Nat /\ Nesting[v] <= Deepest /\ EndsBy(fixRefInDoc(v), R, Nesting[v])
    BY NestingType, DeepestType, FixedEnds
  <2> QED
    BY <2>1, WithinClosed
<1>4. \A w \in Values : Children(fixRefInDoc(w), R) = {fixRefInDoc(c) : c \in Children(w, R)}
  BY FixedParts
<1> HIDE DEF R, I
<1>5. I \subseteq J
  <2>1. fixRefInDoc(v) \in J
    BY <1>2
  <2>2. ASSUME NEW d \in J PROVE Children(d, R) \subseteq J
    <3>1. PICK w \in Within(v, R) : d = fixRefInDoc(w)
      OBVIOUS
    <3>2. Children(d, R) = {fixRefInDoc(c) : c \in Children(w, R)}
      BY <1>1, <1>4, <3>1
    <3>3. Children(w, R) \subseteq Within(v, R)
      BY <1>1
    <3> QED
      BY <3>2, <3>3
  <2> HIDE DEF J
  <2> QED
    BY <2>1, <2>2, WithinLeast DEF I
<1>6. J \subseteq I
  <2>1. v \in K
    BY <1>2
  <2>2. ASSUME NEW w \in K PROVE Children(w, R) \subseteq K
    <3>1. w \in Within(v, R) /\ w \in Values /\ fixRefInDoc(w) \in I
      BY <1>1
    <3>2. Children(fixRefInDoc(w), R) \subseteq I
      BY <1>3, <3>1
    <3>3. Children(w, R) \subseteq Within(v, R)
      BY <1>1, <3>1
    <3>4. \A c \in Children(w, R) : fixRefInDoc(c) \in I
      BY <1>4, <3>1, <3>2
    <3> QED
      BY <3>3, <3>4
  <2>3. Within(v, R) \subseteq K
    <3> HIDE DEF K
    <3> QED
      BY <2>1, <2>2, WithinLeast
  <2> QED
    BY <2>3
<1> QED
  BY <1>5, <1>6 DEF I, R

-----------------------------------------------------------------------------
\* What the suite is after the copy of the file, and after that of the entry.
OfFile == applyConfig([NewSuite EXCEPT !.header = pluginHeader],
                      IF fromConfig THEN file ELSE applyOptions(file))
OfEntry == applyConfig(OfFile, applyOptions(conf))

Inputs ==
  /\ command \in Commands
  /\ file \in FileSettings /\ conf \in ConfSettings /\ flags \in Flags
  /\ fromConfig \in BOOLEAN
  /\ command = "run" => fromConfig

\* The settings are copied in their order, and what is copied once is not changed.
InOrder ==
  /\ step = "decode" => cfg = file /\ suite = NewSuite
  /\ step = "override" => fromConfig /\ suite = OfFile
  /\ Loaded => suite = IF fromConfig THEN OfEntry ELSE OfFile

\* A rule is that of the suite.
RuleOfSuite ==
  /\ step \in {"cron", "every", "none"} => command = "run" /\ step = Rule(suite)
  /\ step \in {"decode", "override", "failed", "loaded", "cron", "every", "none"}

IInv == Inputs /\ InOrder /\ RuleOfSuite

-----------------------------------------------------------------------------
LEMMA InputTypes ==
  ASSUME Inputs
  PROVE  /\ file \in Settings /\ conf \in Settings
         /\ flags \in [failfast : BOOLEAN, timeout : Int,
                       filter : [tests : SUBSET Tests, valid : BOOLEAN]]
         /\ command \in {"run", "exec", "watch"} /\ fromConfig \in BOOLEAN
  BY SuiteLoadAssumption DEF Inputs

\* What the options leave of the settings.
LEMMA OptionsApplied ==
  ASSUME Inputs, NEW c \in Settings
  PROVE  LET o == applyOptions(c)
         IN  /\ o.retryCount = c.retryCount /\ o.runEvery = c.runEvery /\ o.runCron = c.runCron
             /\ o.timeout = IF command = "exec" /\ flags.timeout > 0 THEN flags.timeout ELSE c.timeout
             /\ o.failfast = IF command = "run" THEN c.failfast ELSE flags.failfast
             /\ o.filter = IF command = "exec" THEN flags.filter ELSE NoFilter
<1>1. CASE command = "run"
  BY <1>1 DEF applyOptions, Settings
<1>2. CASE command = "watch"
  BY <1>2 DEF applyOptions, Settings
<1>3. CASE command = "exec"
  BY <1>3 DEF applyOptions, Settings
<1> QED
  BY <1>1, <1>2, <1>3, InputTypes

LEMMA FromFileKeepsIInv == ASSUME IInv, FromFile PROVE IInv'
<1> USE DEF IInv, FromFile, inputs
<1>1. Inputs'
  BY DEF Inputs
<1>2. suite' = OfFile
  <2>1. suite = NewSuite /\ cfg = file
    BY DEF InOrder
  <2>2. cfg' = IF fromConfig THEN file ELSE applyOptions(file)
    BY <2>1
  <2>3. suite' = applyConfig([NewSuite EXCEPT !.header = pluginHeader], cfg')
    BY <2>1 DEF Copy
  <2> QED
    BY <2>2, <2>3 DEF OfFile
<1>4. OfFile' = OfFile /\ fromConfig' = fromConfig
  BY DEF OfFile, pluginHeader, NewSuite, applyOptions
<1>3. step' \in {"failed", "override", "loaded"} /\ (step' = "override" <=> step' # "failed" /\ fromConfig)
  BY DEF Copy
<1> QED
  BY <1>1, <1>2, <1>3, <1>4 DEF InOrder, RuleOfSuite, Loaded

LEMMA FromConfigKeepsIInv == ASSUME IInv, FromConfig PROVE IInv'
<1> USE DEF IInv, FromConfig, inputs
<1>1. Inputs'
  BY DEF Inputs
<1>2. suite' = OfEntry /\ OfEntry' = OfEntry /\ OfFile' = OfFile /\ fromConfig /\ fromConfig'
  BY DEF Copy, OfEntry, OfFile, InOrder, pluginHeader, NewSuite, applyOptions
<1>3. step' \in {"failed", "loaded"}
  BY DEF Copy
<1> QED
  BY <1>1, <1>2, <1>3 DEF InOrder, RuleOfSuite, Loaded

LEMMA ScheduleKeepsIInv == ASSUME IInv, Schedule PROVE IInv'
<1> USE DEF IInv, Schedule, inputs
<1>1. Inputs'
  BY DEF Inputs
<1>2. OfEntry' = OfEntry /\ OfFile' = OfFile /\ suite' = suite
  BY DEF OfEntry, OfFile, pluginHeader, applyOptions
<1>3. step' \in {"cron", "every", "none"} /\ step' = Rule(suite)
  BY DEF Rule
<1> QED
  BY <1>1, <1>2, <1>3 DEF InOrder, RuleOfSuite, Loaded

LEMMA InitIsIInv == ASSUME Init PROVE IInv
  BY SuiteLoadAssumption DEF Init, IInv, Inputs, InOrder, RuleOfSuite, Loaded

LEMMA StutterKeepsIInv == ASSUME IInv, UNCHANGED vars PROVE IInv'
  BY DEF vars, inputs, IInv, Inputs, InOrder, RuleOfSuite, Loaded, OfFile, OfEntry,
         pluginHeader, applyOptions, Rule

\* Loading goes through the layers in their order.
THEOREM Invariance == Spec => []IInv
<1>1. Init => IInv
  BY InitIsIInv
<1>2. IInv /\ [Next]_vars => IInv'
  <2> SUFFICES ASSUME IInv, [Next]_vars PROVE IInv'
    OBVIOUS
  <2>1. CASE UNCHANGED vars
    BY <2>1, StutterKeepsIInv
  <2> QED
    BY <2>1, FromFileKeepsIInv, FromConfigKeepsIInv, ScheduleKeepsIInv DEF Next
<1> QED
  BY <1>1, <1>2, PTL DEF Spec

-----------------------------------------------------------------------------
\* What the copies make of the settings.
LEMMA Copied ==
  ASSUME NEW s, NEW c
  PROVE  LET r == applyConfig(s, c)
         IN  /\ r.retryCount = IF c.retryCount > 0 THEN c.retryCount ELSE s.retryCount
             /\ r.timeout = IF c.timeout > 0 THEN c.timeout ELSE s.timeout
             /\ r.runEvery = IF c.runEvery > 0 THEN c.runEvery ELSE s.runEvery
             /\ r.runCron = IF c.runCron # "" THEN c.runCron ELSE s.runCron
             /\ r.failfast = (s.failfast \/ c.failfast)
             /\ r.tests = s.tests \cap c.filter.tests
             /\ r.header = s.header
  BY DEF applyConfig

LEMMA FileCopied ==
  ASSUME Inputs
  PROVE  /\ OfFile.retryCount = IF file.retryCount > 0 THEN file.retryCount ELSE 0
         /\ OfFile.timeout = IF ~fromConfig /\ command = "exec" /\ flags.timeout > 0
                             THEN flags.timeout
                             ELSE IF file.timeout > 0 THEN file.timeout ELSE 0
         /\ OfFile.runEvery = IF file.runEvery > 0 THEN file.runEvery ELSE 0
         /\ OfFile.runCron = file.runCron
         /\ OfFile.failfast = IF fromConfig \/ command = "run" THEN file.failfast ELSE flags.failfast
         /\ OfFile.tests = IF ~fromConfig /\ command = "exec" THEN flags.filter.tests ELSE Tests
         /\ OfFile.header = pluginHeader
<1> DEFINE s == [NewSuite EXCEPT !.header = pluginHeader]
           c == IF fromConfig THEN file ELSE applyOptions(file)
<1>1. /\ s.retryCount = 0 /\ s.timeout = 0 /\ s.runEvery = 0 /\ s.runCron = ""
      /\ s.failfast = FALSE /\ s.tests = Tests /\ s.header = pluginHeader
  BY DEF NewSuite
<1>2. /\ file \in Settings /\ file.filter.tests = Tests /\ flags.filter.tests \subseteq Tests
      /\ file.failfast \in BOOLEAN /\ flags.failfast \in BOOLEAN
  BY InputTypes DEF Settings, NoFilter
<1>3. /\ c.retryCount = file.retryCount /\ c.runEvery = file.runEvery
      /\ c.runCron = file.runCron
      /\ c.timeout = IF ~fromConfig /\ command = "exec" /\ flags.timeout > 0
                     THEN flags.timeout ELSE file.timeout
      /\ c.failfast = IF fromConfig \/ command = "run" THEN file.failfast ELSE flags.failfast
      /\ c.filter.tests = IF ~fromConfig /\ command = "exec" THEN flags.filter.tests ELSE Tests
  BY <1>2, OptionsApplied DEF NoFilter
<1>4. OfFile = applyConfig(s, c)
  BY DEF OfFile
<1> HIDE DEF s, c
<1>5. /\ OfFile.retryCount = IF c.retryCount > 0 THEN c.retryCount ELSE s.retryCount
      /\ OfFile.timeout = IF c.timeout > 0 THEN c.timeout ELSE s.timeout
      /\ OfFile.runEvery = IF c.runEvery > 0 THEN c.runEvery ELSE s.runEvery
      /\ OfFile.runCron = IF c.runCron # "" THEN c.runCron ELSE s.runCron
      /\ OfFile.failfast = (s.failfast \/ c.failfast)
      /\ OfFile.tests = s.tests \cap c.filter.tests
      /\ OfFile.header = s.header
  BY <1>4, Copied
<1>6. Tests \cap c.filter.tests = c.filter.tests
  BY <1>2, <1>3
<1>7. c.failfast \in BOOLEAN
  BY <1>2, <1>3
<1>8. OfFile.failfast = c.failfast
  BY <1>1, <1>5, <1>7
<1>9. OfFile.timeout = IF ~fromConfig /\ command = "exec" /\ flags.timeout > 0
                       THEN flags.timeout
                       ELSE IF file.timeout > 0 THEN file.timeout ELSE 0
  BY <1>1, <1>3, <1>5
<1> QED
  BY <1>1, <1>3, <1>5, <1>6, <1>8, <1>9

LEMMA EntryCopied ==
  ASSUME Inputs, fromConfig
  PROVE  /\ OfEntry.retryCount = IF conf.retryCount > 0 THEN conf.retryCount ELSE OfFile.retryCount
         /\ OfEntry.timeout = IF command = "exec" /\ flags.timeout > 0 THEN flags.timeout
                              ELSE IF conf.timeout > 0 THEN conf.timeout ELSE OfFile.timeout
         /\ OfEntry.runEvery = IF conf.runEvery > 0 THEN conf.runEvery ELSE OfFile.runEvery
         /\ OfEntry.runCron = IF conf.runCron # "" THEN conf.runCron ELSE OfFile.runCron
         /\ command = "exec" => OfEntry.tests = flags.filter.tests
         /\ OfEntry.failfast <=> \/ file.failfast
                                 \/ IF command = "run" THEN conf.failfast ELSE flags.failfast
         /\ OfEntry.header = pluginHeader
<1> DEFINE c == applyOptions(conf)
<1>1. OfEntry = applyConfig(OfFile, c)
  BY DEF OfEntry
<1>2. conf \in Settings /\ flags.filter.tests \subseteq Tests
  BY InputTypes
<1>9. file.failfast \in BOOLEAN /\ conf.failfast \in BOOLEAN /\ flags.failfast \in BOOLEAN
  BY InputTypes DEF Settings
<1>3. /\ c.retryCount = conf.retryCount /\ c.runEvery = conf.runEvery /\ c.runCron = conf.runCron
      /\ c.timeout = IF command = "exec" /\ flags.timeout > 0 THEN flags.timeout ELSE conf.timeout
      /\ command = "exec" => c.filter = flags.filter
      /\ c.failfast = IF command = "run" THEN conf.failfast ELSE flags.failfast
  BY <1>2, OptionsApplied
<1> HIDE DEF c
<1>4. /\ OfEntry.retryCount = IF c.retryCount > 0 THEN c.retryCount ELSE OfFile.retryCount
      /\ OfEntry.timeout = IF c.timeout > 0 THEN c.timeout ELSE OfFile.timeout
      /\ OfEntry.runEvery = IF c.runEvery > 0 THEN c.runEvery ELSE OfFile.runEvery
      /\ OfEntry.runCron = IF c.runCron # "" THEN c.runCron ELSE OfFile.runCron
      /\ OfEntry.failfast = (OfFile.failfast \/ c.failfast)
      /\ OfEntry.tests = OfFile.tests \cap c.filter.tests
      /\ OfEntry.header = OfFile.header
  BY <1>1, Copied
<1>5. OfFile.tests = Tests /\ OfFile.header = pluginHeader /\ OfFile.failfast = file.failfast
  BY FileCopied
<1>6. command = "exec" => OfEntry.tests = flags.filter.tests
  BY <1>2, <1>3, <1>4, <1>5
<1>7. OfEntry.failfast <=> \/ file.failfast
                           \/ IF command = "run" THEN conf.failfast ELSE flags.failfast
  <2>1. OfEntry.failfast = (file.failfast \/ c.failfast)
    BY <1>4, <1>5
  <2> QED
    BY <1>3, <1>9, <2>1
<1>8. OfEntry.timeout = IF command = "exec" /\ flags.timeout > 0 THEN flags.timeout
                        ELSE IF conf.timeout > 0 THEN conf.timeout ELSE OfFile.timeout
  BY <1>3, <1>4
<1> QED
  BY <1>3, <1>4, <1>5, <1>6, <1>7, <1>8

-----------------------------------------------------------------------------
LEMMA LayersByIInv == ASSUME IInv PROVE Layered
<1> SUFFICES ASSUME Loaded PROVE Layered
  BY DEF Layered
<1> DEFINE Layer(fc, ff) == IF fromConfig /\ fc > 0 THEN fc ELSE IF ff > 0 THEN ff ELSE 0
<1>1. Inputs /\ suite = IF fromConfig THEN OfEntry ELSE OfFile
  BY DEF IInv, InOrder
<1>2. /\ suite.retryCount = Layer(conf.retryCount, file.retryCount)
      /\ suite.runEvery = Layer(conf.runEvery, file.runEvery)
  BY <1>1, FileCopied, EntryCopied
<1>3. suite.runCron = IF fromConfig /\ conf.runCron # "" THEN conf.runCron ELSE file.runCron
  BY <1>1, FileCopied, EntryCopied
<1>4. suite.timeout = IF command = "exec" /\ flags.timeout > 0 THEN flags.timeout
                      ELSE Layer(conf.timeout, file.timeout)
  BY <1>1, FileCopied, EntryCopied
<1>5. command = "exec" => suite.tests = flags.filter.tests
  BY <1>1, FileCopied, EntryCopied
<1>6. suite.failfast <=> \/ fromConfig /\ file.failfast
                         \/ IF command = "run" THEN conf.failfast ELSE flags.failfast
  <2>1. CASE fromConfig
    BY <1>1, <2>1, EntryCopied
  <2>2. CASE ~fromConfig
    <3>1. command # "run" /\ suite.failfast = flags.failfast
      BY <1>1, <2>2, FileCopied DEF Inputs
    <3> QED
      BY <2>2, <3>1
  <2> QED
    BY <2>1, <2>2
<1>7. suite.header = pluginHeader
  BY <1>1, FileCopied, EntryCopied
<1>8. ASSUME NEW k
      PROVE  {suite.header[x] : x \in DOMAIN suite.header \cap {k}} =
               IF fromConfig /\ k \in DOMAIN conf.header THEN {conf.header[k]}
               ELSE IF k \in DOMAIN file.header THEN {file.header[k]} ELSE {}
  <2>1. DOMAIN suite.header = IF fromConfig THEN DOMAIN conf.header \cup DOMAIN file.header
                              ELSE DOMAIN file.header
    BY <1>7 DEF pluginHeader
  <2>2. k \in DOMAIN suite.header =>
          suite.header[k] = IF fromConfig /\ k \in DOMAIN conf.header THEN conf.header[k]
                            ELSE file.header[k]
    BY <1>7 DEF pluginHeader
  <2>3. CASE k \in DOMAIN suite.header
    <3>1. {suite.header[x] : x \in DOMAIN suite.header \cap {k}} = {suite.header[k]}
      BY <2>3
    <3> QED
      BY <2>1, <2>2, <2>3, <3>1
  <2>4. CASE k \notin DOMAIN suite.header
    <3>1. {suite.header[x] : x \in DOMAIN suite.header \cap {k}} = {}
      BY <2>4
    <3> QED
      BY <2>1, <2>4, <3>1
  <2> QED
    BY <2>3, <2>4
<1> QED
  BY <1>2, <1>3, <1>4, <1>5, <1>6, <1>8 DEF Layered

\* Every setting of a suite, and every field of its header, comes from the nearest layer
\* that has one, whatever the values; and a suite fails fast just when the flag, which
\* takes the place of what the layer it is applied to says, or another layer says so.
THEOREM NearestLayer == Spec => []Layered
  BY Invariance, LayersByIInv, PTL

LEMMA RuleByIInv == ASSUME IInv PROVE ScheduledByRule
<1> SUFFICES ASSUME step \in {"cron", "every", "none"} PROVE ScheduledByRule
  BY DEF ScheduledByRule
<1>1. Inputs /\ fromConfig /\ suite = OfEntry /\ step = Rule(suite)
  BY DEF IInv, Inputs, InOrder, RuleOfSuite, Loaded
<1>2. file.runEvery \in Int /\ conf.runEvery \in Int
  BY <1>1, InputTypes DEF Settings
<1>3. suite.runCron = IF conf.runCron # "" THEN conf.runCron ELSE file.runCron
  BY <1>1, FileCopied, EntryCopied
<1>4. suite.runEvery = IF conf.runEvery > 0 THEN conf.runEvery
                       ELSE IF file.runEvery > 0 THEN file.runEvery ELSE 0
  BY <1>1, FileCopied, EntryCopied
<1> DEFINE cron == file.runCron # "" \/ conf.runCron # ""
           every == file.runEvery > 0 \/ conf.runEvery > 0
<1>5. suite.runCron # "" <=> cron
  BY <1>3
<1>6. suite.runEvery > 0 <=> every
  BY <1>2, <1>4
<1>7. /\ step = "cron" <=> suite.runCron # ""
      /\ step = "every" <=> suite.runEvery > 0 /\ ~(suite.runCron # "")
      /\ step = "none" <=> ~(suite.runEvery > 0) /\ ~(suite.runCron # "")
  BY <1>1 DEF Rule
<1> QED
  BY <1>5, <1>6, <1>7 DEF ScheduledByRule

\* A suite is scheduled if, and only if, a layer has a rule for it, by cron if one has both.
THEOREM Scheduled == Spec => []ScheduledByRule
  BY Invariance, RuleByIInv, PTL

-----------------------------------------------------------------------------
\* With the documents: what was loaded is what loading the document comes to.
DocumentLoaded ==
  /\ document.value \in Values
  /\ step # "decode" => loaded \in Outcomes(document)

LoadInv == IInv /\ DocumentLoaded

\* Loading goes through the layers in their order, and what the plugin has of the document is
\* one of the outcomes of loading it (NewSuiteFromReader).
THEOREM LoadInvariance == LoadSpec => []LoadInv
<1>1. LoadInit => LoadInv
  <2> SUFFICES ASSUME LoadInit PROVE LoadInv
    OBVIOUS
  <2>1. IInv
    BY InitIsIInv DEF LoadInit
  <2>2. document.value \in Values
    BY LoadSuiteAssumption DEF LoadInit
  <2>3. step = "decode"
    BY DEF LoadInit, Init
  <2> QED
    BY <2>1, <2>2, <2>3 DEF LoadInv, DocumentLoaded
<1>2. LoadInv /\ [LoadNext]_<<vars, document, loaded>> => LoadInv'
  <2> SUFFICES ASSUME LoadInv, [LoadNext]_<<vars, document, loaded>> PROVE LoadInv'
    OBVIOUS
  <2> USE DEF LoadInv
  <2>1. ASSUME document' = document PROVE Outcomes(document)' = Outcomes(document)
    BY <2>1 DEF Outcomes
  <2>2. CASE LoadFile
    <3>1. IInv'
      BY <2>2, FromFileKeepsIInv DEF LoadFile
    <3>2. DocumentLoaded'
      BY <2>1, <2>2 DEF LoadFile, DocumentLoaded
    <3> QED
      BY <3>1, <3>2
  <2>3. CASE LoadFails
    <3>1. IInv'
      <4>1. Inputs'
        BY <2>3 DEF LoadFails, IInv, Inputs, inputs
      <4>2. step' = "failed"
        BY <2>3 DEF LoadFails
      <4> QED
        BY <4>1, <4>2 DEF IInv, InOrder, RuleOfSuite, Loaded
    <3>2. DocumentLoaded'
      BY <2>1, <2>3 DEF LoadFails, DocumentLoaded
    <3> QED
      BY <3>1, <3>2
  <2>4. CASE FromConfig /\ UNCHANGED <<document, loaded>>
    <3>1. step # "decode"
      BY <2>4 DEF FromConfig
    <3>2. DocumentLoaded'
      BY <2>1, <2>4, <3>1 DEF DocumentLoaded
    <3> QED
      BY <2>4, <3>2, FromConfigKeepsIInv
  <2>5. CASE Schedule /\ UNCHANGED <<document, loaded>>
    <3>1. step # "decode"
      BY <2>5 DEF Schedule
    <3>2. DocumentLoaded'
      BY <2>1, <2>5, <3>1 DEF DocumentLoaded
    <3> QED
      BY <2>5, <3>2, ScheduleKeepsIInv
  <2>6. CASE UNCHANGED <<vars, document, loaded>>
    <3>1. IInv'
      BY <2>6, StutterKeepsIInv
    <3>2. step' = step
      BY <2>6 DEF vars
    <3>3. DocumentLoaded'
      BY <2>1, <2>6, <3>2 DEF DocumentLoaded
    <3> QED
      BY <3>1, <3>3
  <2> QED
    BY <2>2, <2>3, <2>4, <2>5, <2>6 DEF LoadNext
<1> QED
  BY <1>1, <1>2, PTL DEF LoadSpec

\* Documents, and a plugin that refuses a suite, change nothing of that.
THEOREM NearestLayerWithDocuments == LoadSpec => []Layered
<1>1. LoadInv => Layered
  BY LayersByIInv DEF LoadInv
<1> QED
  BY <1>1, LoadInvariance, PTL

\* A suite that was loaded with its documents is scheduled by the rule that a layer has.
THEOREM ScheduledWithDocuments == LoadSpec => []ScheduledByRule
<1>1. LoadInv => ScheduledByRule
  BY RuleByIInv DEF LoadInv
<1> QED
  BY <1>1, LoadInvariance, PTL

\* Every reference of a schema is found, at whatever depth, and all else is as it was.
LEMMA FixedRefs ==
  ASSUME NEW v \in Values
  PROVE  RefsIn(fixRefInDoc(v)) = (RefsIn(v) \ PathsIn(v))
                                    \cup {FileURL(Join(Root, Path[r.text])) : r \in PathsIn(v)}
<1> DEFINE R == {"$ref"}
           I == Within(v, R)
           Holds(w) == IsObject(w) /\ "$ref" \in DOMAIN w.fields
           url(r) == FileURL(Join(Root, Path[r.text]))
           isPath(r) == r.type = "text" /\ r.text \in DOMAIN Path
<1>1. I \subseteq Values
  BY WithinValue
<1>2. RefsIn(v) = {w.fields["$ref"] : w \in {w \in I : Holds(w)}}
  BY DEF RefsIn
<1>3. RefsIn(fixRefInDoc(v)) =
        {fixRefInDoc(w).fields["$ref"] : w \in {w \in I : Holds(fixRefInDoc(w))}}
  <2>1. RefsIn(fixRefInDoc(v)) = {x.fields["$ref"] : x \in {x \in Within(fixRefInDoc(v), R) : Holds(x)}}
    BY DEF RefsIn
  <2>2. Within(fixRefInDoc(v), R) = {fixRefInDoc(w) : w \in I}
    BY FixedWithin
  <2> HIDE DEF Holds, I
  <2> QED
    BY <2>1, <2>2
<1>4. ASSUME NEW w \in I
      PROVE  /\ Holds(fixRefInDoc(w)) <=> Holds(w)
             /\ Holds(w) => fixRefInDoc(w).fields["$ref"] =
                              IF isPath(w.fields["$ref"]) THEN url(w.fields["$ref"])
                              ELSE w.fields["$ref"]
  <2>1. w \in Values
    BY <1>1
  <2> QED
    BY <2>1, FixedParts DEF IsObject
<1>5. PathsIn(v) = {r \in RefsIn(v) : isPath(r)}
  BY DEF PathsIn
<1> HIDE DEF Holds, url, isPath, I
<1>6. RefsIn(fixRefInDoc(v)) =
        {IF isPath(w.fields["$ref"]) THEN url(w.fields["$ref"]) ELSE w.fields["$ref"] :
           w \in {w \in I : Holds(w)}}
  BY <1>3, <1>4
<1>7. RefsIn(fixRefInDoc(v)) = {IF isPath(r) THEN url(r) ELSE r : r \in RefsIn(v)}
  BY <1>2, <1>6
<1>8. RefsIn(fixRefInDoc(v)) = (RefsIn(v) \ PathsIn(v)) \cup {url(r) : r \in PathsIn(v)}
  BY <1>5, <1>7
<1> QED
  BY <1>8 DEF url

\* The scalars of a schema are as they were.
LEMMA FixedScalars ==
  ASSUME NEW v \in Values
  PROVE  Scalars(Within(fixRefInDoc(v), {"$ref"})) = Scalars(Within(v, {"$ref"}))
<1> DEFINE I == Within(v, {"$ref"})
           isScalar(x) == x.type \notin {"object", "list", "nil"}
<1>1. Within(fixRefInDoc(v), {"$ref"}) = {fixRefInDoc(w) : w \in I}
  BY FixedWithin
<1>2. ASSUME NEW w \in I
      PROVE  /\ isScalar(fixRefInDoc(w)) <=> isScalar(w)
             /\ isScalar(w) => fixRefInDoc(w) = w
  <2>1. w \in Values
    BY WithinValue
  <2> QED
    BY <2>1, FixedParts
<1>3. \A S : Scalars(S) = {x \in S : isScalar(x)}
  BY DEF Scalars
<1> HIDE DEF I, isScalar
<1>4. {x \in {fixRefInDoc(w) : w \in I} : isScalar(x)} = {x \in I : isScalar(x)}
  BY <1>2
<1> QED
  BY <1>1, <1>3, <1>4 DEF I

\* Every reference of a schema, at any depth, is one that the loader finds and to the file that
\* was meant; URLs and all else are as they were (fixRefInDoc).
THEOREM SchemaRefsAreFound == LoadSpec => []SchemaRefsFound
<1>1. LoadInv => SchemaRefsFound
  <2> SUFFICES ASSUME LoadInv, document.plugin = "HTTP", document.field = "jsonSchema",
                      step # "decode"
               PROVE  /\ RefsIn(loaded) =
                           (RefsIn(document.value) \ PathsIn(document.value))
                             \cup {FileURL(Join(Root, Path[r.text])) : r \in PathsIn(document.value)}
                      /\ Scalars(Within(loaded, {"$ref"})) = Scalars(Within(document.value, {"$ref"}))
    BY DEF SchemaRefsFound
  <2>1. document.value \in Values
    BY DEF LoadInv, DocumentLoaded
  <2>2. loaded = fixRefInDoc(document.value)
    BY DEF LoadInv, DocumentLoaded, Outcomes
  <2> QED
    BY <2>1, <2>2, FixedRefs, FixedScalars
<1> QED
  BY <1>1, LoadInvariance, PTL

-----------------------------------------------------------------------------
\* The calls that a call of loadDoc makes, which are about less: fewer files can still be
\* opened, or the value is one in its value.
Height(c) == c.left * (MaxNesting + 1) + Nesting[c.value]
Inner(c) ==
  IF NamesFile(c) THEN IF c.left = 0 THEN {} ELSE {CallFor(c.left - 1, Target(c))}
  ELSE IF IsReference(c.value) THEN {}
  ELSE {[c EXCEPT !.value = w] : w \in Children(c.value, {})}

LEMMA CallTypes ==
  ASSUME NEW c \in Calls
  PROVE  /\ c.left \in Nat /\ c.left <= MaxOpen /\ c.dir \in Dirs /\ c.value \in Values
         /\ c = [left |-> c.left, dir |-> c.dir, value |-> c.value]
  BY NestingType DEF Calls

LEMMA HeightType == ASSUME NEW c \in Calls PROVE Height(c) \in Nat /\ Height(c) + 1 <= Deepest
<1> DEFINE M == MaxNesting + 1
<1>1. /\ c.left \in Nat /\ c.left <= MaxOpen /\ M \in Nat /\ MaxOpen \in Nat
      /\ Nesting[c.value] \in Nat /\ Nesting[c.value] + 1 <= M
  BY CallTypes, NestingType
<1>2. c.left * M \in Nat /\ c.left * M <= MaxOpen * M
  <2> HIDE DEF M
  <2>1. \A a, b, m \in Nat : a * m \in Nat /\ (a <= b => a * m <= b * m)
    OBVIOUS
  <2> QED
    BY <1>1, <2>1
<1>3. Deepest = MaxOpen * M + M
  <2> HIDE DEF M
  <2>1. \A a, m \in Nat : (a + 1) * m = a * m + m
    OBVIOUS
  <2> QED
    BY <1>1, <2>1 DEF Deepest, M
<1>4. MaxOpen * M \in Nat
  BY <1>1
<1> QED
  BY <1>1, <1>2, <1>3, <1>4 DEF Height

LEMMA InnerValue ==
  ASSUME NEW c \in Calls, NEW w \in Children(c.value, {})
  PROVE  /\ [c EXCEPT !.value = w] \in Calls
         /\ Height([c EXCEPT !.value = w]) < Height(c)
<1> DEFINE d == [c EXCEPT !.value = w]
<1>1. c.value \in Values /\ w \in Values /\ Nesting[w] < Nesting[c.value]
  BY CallTypes, ChildrenNest
<1>2. d \in Calls
  BY <1>1 DEF Calls
<1>3. d.left = c.left /\ d.value = w
  BY CallTypes
<1>4. c.left * (MaxNesting + 1) \in Nat
  BY CallTypes, NestingType
<1> QED
  BY <1>1, <1>2, <1>3, <1>4, NestingType DEF Height

LEMMA InnerFile ==
  ASSUME NEW c \in Calls, c.left # 0, NEW p \in ObjectFiles
  PROVE  /\ CallFor(c.left - 1, p) \in Calls
         /\ Height(CallFor(c.left - 1, p)) < Height(c)
<1> DEFINE d == CallFor(c.left - 1, p)
           M == MaxNesting + 1
<1>1. decoded(p) \in Values /\ p \in DOMAIN Files
  BY DocumentsAssumption DEF ObjectFiles
<1>2. c.left - 1 \in 0 .. MaxOpen
  BY CallTypes, NestingType
<1>3. Front(p) \in Dirs
  BY <1>1 DEF Dirs
<1>4. d \in Calls
  BY <1>1, <1>2, <1>3 DEF Calls, CallFor, dirOf
<1>5. d.left = c.left - 1 /\ d.value = decoded(p)
  BY DEF CallFor
<1>6. c.left * M = (c.left - 1) * M + M /\ (c.left - 1) * M \in Nat /\ M \in Nat
  <2>1. \A a, m \in Nat : a # 0 => a * m = (a - 1) * m + m /\ (a - 1) * m \in Nat
    OBVIOUS
  <2> QED
    BY <2>1, CallTypes, NestingType
<1>7. Nesting[decoded(p)] \in Nat /\ Nesting[decoded(p)] < M /\ Nesting[c.value] \in Nat
  BY <1>1, CallTypes, NestingType
<1> HIDE DEF M, d
<1>8. Height(d) = (c.left - 1) * M + Nesting[decoded(p)]
  BY <1>5 DEF Height, M
<1>9. Height(c) = c.left * M + Nesting[c.value]
  BY DEF Height, M
<1> QED
  BY <1>4, <1>6, <1>7, <1>8, <1>9 DEF d

LEMMA InnerCalls ==
  ASSUME NEW c \in Calls, NEW d \in Inner(c)
  PROVE  d \in Calls /\ Height(d) < Height(c)
<1>1. CASE NamesFile(c)
  <2>1. Target(c) \in ObjectFiles
    BY <1>1 DEF NamesFile
  <2>2. c.left # 0 /\ d = CallFor(c.left - 1, Target(c))
    BY <1>1 DEF Inner
  <2> QED
    BY <2>1, <2>2, InnerFile
<1>2. CASE ~NamesFile(c)
  <2>1. PICK w \in Children(c.value, {}) : d = [c EXCEPT !.value = w]
    BY <1>2 DEF Inner
  <2> QED
    BY <2>1, InnerValue
<1> QED
  BY <1>1, <1>2

\* Induction on calls: what holds of a call when it holds of those it makes holds of all.
LEMMA CallInduction ==
  ASSUME NEW T, \A c \in Calls : Inner(c) \subseteq T => c \in T
  PROVE  Calls \subseteq T
<1> DEFINE S == {Height(c) : c \in Calls \ T}
<1>1. S \in SUBSET Nat
  BY HeightType
<1> SUFFICES ASSUME NEW b \in Calls \ T PROVE FALSE
  OBVIOUS
<1>2. S # {}
  OBVIOUS
<1>3. PICK n \in S : \A k \in S : n <= k
  <2> HIDE DEF S
  <2> QED
    BY <1>1, <1>2, Least
<1>4. PICK c \in Calls \ T : n = Height(c)
  OBVIOUS
<1>5. PICK d \in Inner(c) : d \notin T
  BY <1>4
<1>6. d \in Calls /\ Height(d) < Height(c)
  BY <1>4, InnerCalls
<1>7. Height(c) <= Height(d)
  BY <1>3, <1>4, <1>5, <1>6
<1> QED
  BY <1>4, <1>6, <1>7, HeightType

-----------------------------------------------------------------------------
\* loadDoc, too, is the function that it is defined as.
Lower(n) == {c \in Calls : Height(c) < n}
IsLoad(f, n) == f = [c \in Lower(n) |-> outcome(f, c)]

LEMMA OutcomeAgrees ==
  ASSUME NEW c \in Calls, NEW f, NEW g, \A d \in Inner(c) : f[d] = g[d]
  PROVE  outcome(f, c) = outcome(g, c)
<1> DEFINE v == c.value
<1>1. CASE v.type = "list"
  <2>1. ~NamesFile(c) /\ ~IsReference(v)
    BY <1>1 DEF NamesFile, IsReference, HasText, IsObject
  <2>2. \A i \in DOMAIN v.items : [c EXCEPT !.value = v.items[i]] \in Inner(c)
    BY <1>1, <2>1 DEF Inner, Children, IsObject
  <2>3. \A i \in DOMAIN v.items : f[[c EXCEPT !.value = v.items[i]]] = g[[c EXCEPT !.value = v.items[i]]]
    BY <2>2
  <2>4. [i \in DOMAIN v.items |-> f[[c EXCEPT !.value = v.items[i]]]] =
          [i \in DOMAIN v.items |-> g[[c EXCEPT !.value = v.items[i]]]]
    BY <2>3
  <2>5. \A h : outcome(h, c) = listOf([i \in DOMAIN v.items |-> h[[c EXCEPT !.value = v.items[i]]]])
    BY <1>1 DEF outcome
  <2> QED
    BY <2>4, <2>5
<1>2. CASE v.type # "list" /\ HasText(v, "$ref")
  <2>1. CASE NamesFile(c) /\ c.left # 0
    <3>1. CallFor(c.left - 1, RefFile(c.dir, v)) \in Inner(c)
      BY <2>1 DEF Inner, Target
    <3> QED
      BY <1>2, <3>1 DEF outcome
  <2>2. CASE ~NamesFile(c) \/ c.left = 0
    BY <1>2, <2>2 DEF outcome, NamesFile, Target
  <2> QED
    BY <2>1, <2>2
<1>3. CASE v.type # "list" /\ ~HasText(v, "$ref") /\ IsObject(v) /\ ~HasText(v, "$raw")
  <2>1. ~NamesFile(c) /\ ~IsReference(v)
    BY <1>3 DEF NamesFile, IsReference
  <2>2. \A k \in DOMAIN v.fields : [c EXCEPT !.value = v.fields[k]] \in Inner(c)
    BY <1>3, <2>1 DEF Inner, Children
  <2>3. \A k \in DOMAIN v.fields : f[[c EXCEPT !.value = v.fields[k]]] = g[[c EXCEPT !.value = v.fields[k]]]
    BY <2>2
  <2>4. [k \in DOMAIN v.fields |-> f[[c EXCEPT !.value = v.fields[k]]]] =
          [k \in DOMAIN v.fields |-> g[[c EXCEPT !.value = v.fields[k]]]]
    BY <2>3
  <2>5. \A h : outcome(h, c) =
                 objectOf(v.fields, [k \in DOMAIN v.fields |-> h[[c EXCEPT !.value = v.fields[k]]]])
    BY <1>3 DEF outcome
  <2> QED
    BY <2>4, <2>5
<1>4. CASE v.type # "list" /\ ~HasText(v, "$ref") /\ (~IsObject(v) \/ HasText(v, "$raw"))
  BY <1>4 DEF outcome
<1> QED
  BY <1>1, <1>2, <1>3, <1>4

LEMMA LoadUpTo == \A n \in Nat : \E f : IsLoad(f, n)
<1> DEFINE P(n) == \E f : IsLoad(f, n)
           S == {n \in Nat : ~P(n)}
<1> HIDE DEF P
<1> SUFFICES ASSUME S # {} PROVE FALSE
  BY DEF P
<1>1. PICK n \in S : \A k \in S : n <= k
  BY Least
<1>2. CASE n = 0
  <2>1. Lower(0) = {}
    BY HeightType DEF Lower
  <2>2. IsLoad([c \in {} |-> c], 0)
    BY <2>1 DEF IsLoad
  <2> QED
    BY <1>1, <1>2, <2>2 DEF P
<1>3. CASE n # 0
  <2>1. n - 1 \in Nat /\ ~(n <= n - 1)
    BY <1>3
  <2>2. PICK f : IsLoad(f, n - 1)
    BY <1>1, <2>1 DEF P
  <2> DEFINE g == [c \in Lower(n) |-> outcome(f, c)]
  <2>3. ASSUME NEW c \in Lower(n - 1) PROVE g[c] = f[c]
    <3>1. c \in Lower(n)
      BY <2>1, HeightType DEF Lower
    <3>2. f[c] = outcome(f, c)
      BY <2>2 DEF IsLoad
    <3> QED
      BY <3>1, <3>2
  <2>4. ASSUME NEW c \in Lower(n) PROVE outcome(f, c) = outcome(g, c)
    <3>1. c \in Calls /\ Height(c) < n
      BY DEF Lower
    <3>2. ASSUME NEW d \in Inner(c) PROVE f[d] = g[d]
      <4>1. d \in Calls /\ Height(d) < Height(c)
        BY <3>1, InnerCalls
      <4>2. d \in Lower(n - 1)
        BY <2>1, <3>1, <4>1, HeightType DEF Lower
      <4> QED
        BY <2>3, <4>2
    <3> HIDE DEF g
    <3> QED
      BY <3>1, <3>2, OutcomeAgrees
  <2>5. g = [c \in Lower(n) |-> outcome(g, c)]
    BY <2>4
  <2> HIDE DEF g
  <2>6. IsLoad(g, n)
    BY <2>5 DEF IsLoad
  <2> QED
    BY <1>1, <2>6 DEF P
<1> QED
  BY <1>2, <1>3

LEMMA LoadDefined == \A c \in Calls : loadDoc[c] = outcome(loadDoc, c)
<1>1. Lower(Deepest) = Calls
  BY HeightType, DeepestType DEF Lower
<1>2. PICK f : IsLoad(f, Deepest)
  BY LoadUpTo, DeepestType
<1>3. f = [c \in Calls |-> outcome(f, c)]
  BY <1>1, <1>2 DEF IsLoad
<1> DEFINE F == CHOOSE g : g = [c \in Calls |-> outcome(g, c)]
<1>4. F = [c \in Calls |-> outcome(F, c)]
  BY <1>3
<1>5. loadDoc = F
  BY DEF loadDoc
<1> HIDE DEF F
<1> QED
  BY <1>4, <1>5

-----------------------------------------------------------------------------
\* Loading comes to one value, or to one of several bad ends.
Proper(x) == (x \cap Bad = {} /\ \E r : x = {r}) \/ (x \subseteq Bad /\ x # {})
Only(x) == CHOOSE r \in x : TRUE

LEMMA OnlyOne == ASSUME NEW r PROVE Only({r}) = r
  BY DEF Only

LEMMA ProperOnly == ASSUME NEW x, Proper(x), x \cap Bad = {} PROVE x = {Only(x)}
<1>1. PICK r : x = {r}
  BY DEF Proper
<1> QED
  BY <1>1, OnlyOne

LEMMA BadTypes ==
  ASSUME NEW r
  PROVE  r \in Bad => r.type \in {"error", "panic"}
  BY DEF Bad, Err, Panic

LEMMA BadIsProper ==
  ASSUME NEW r
  PROVE  (r \in Bad => Proper({r})) /\ (r \notin Bad => Proper({r}) /\ {r} \cap Bad = {})
  BY DEF Proper

LEMMA ListProper ==
  ASSUME NEW n \in Nat, NEW o, DOMAIN o = 1 .. n, \A i \in DOMAIN o : Proper(o[i])
  PROVE  /\ Proper(listOf(o))
         /\ (\A i \in DOMAIN o : o[i] \cap Bad = {}) =>
              listOf(o) = {List([i \in DOMAIN o |-> Only(o[i])])}
              /\ listOf(o) \cap Bad = {}
         /\ (\E i \in DOMAIN o : o[i] \cap Bad # {}) =>
              \E i \in DOMAIN o : o[i] \subseteq Bad /\ listOf(o) = o[i]
<1> DEFINE bad == {i \in DOMAIN o : o[i] \subseteq Bad}
<1>1. ASSUME \A i \in DOMAIN o : o[i] \cap Bad = {}
      PROVE  /\ listOf(o) = {List([i \in DOMAIN o |-> Only(o[i])])}
             /\ listOf(o) \cap Bad = {} /\ Proper(listOf(o))
  <2>1. bad = {}
    BY <1>1 DEF Proper
  <2>2. listOf(o) = {List([i \in DOMAIN o |-> Only(o[i])])}
    BY <2>1 DEF listOf, Only
  <2> DEFINE r == List([i \in DOMAIN o |-> Only(o[i])])
  <2>3. r.type = "list"
    BY DEF List
  <2>4. r \notin Bad
    BY <2>3, BadTypes
  <2> HIDE DEF r
  <2>5. Proper({r}) /\ {r} \cap Bad = {}
    BY <2>4, BadIsProper
  <2> QED
    BY <2>2, <2>5 DEF r
<1>2. ASSUME \E i \in DOMAIN o : o[i] \cap Bad # {}
      PROVE  /\ \E i \in DOMAIN o : o[i] \subseteq Bad /\ listOf(o) = o[i]
             /\ Proper(listOf(o))
  <2>1. bad # {} /\ bad \in SUBSET Nat
    BY <1>2 DEF Proper
  <2>2. \E i \in bad : \A j \in bad : i <= j
    <3> HIDE DEF bad
    <3> QED
      BY <2>1, Least
  <2> DEFINE i == CHOOSE i \in bad : \A j \in bad : i <= j
  <2>3. i \in bad
    BY <2>2
  <2>4. listOf(o) = o[i]
    BY <2>1 DEF listOf
  <2> HIDE DEF i
  <2> QED
    BY <2>3, <2>4
<1> QED
  BY <1>1, <1>2

EndsIn(K, o, compared) ==
  (UNION {o[k] \cap Bad : k \in K}) \cup (IF compared = {} THEN {} ELSE {Panic})

LEMMA NoEndOfObject ==
  ASSUME NEW K, NEW o, NEW compared
  PROVE  EndsIn(K, o, compared) = {} <=> compared = {} /\ \A k \in K : o[k] \cap Bad = {}
<1>1. PICK some : some = UNION {o[k] \cap Bad : k \in K}
  OBVIOUS
<1>2. some = {} <=> \A k \in K : o[k] \cap Bad = {}
  BY <1>1
<1>3. CASE compared = {}
  <2>1. EndsIn(K, o, compared) = some
    BY <1>1, <1>3 DEF EndsIn
  <2> QED
    BY <1>2, <1>3, <2>1
<1>4. CASE compared # {}
  <2>1. EndsIn(K, o, compared) = some \cup {Panic}
    BY <1>1, <1>4 DEF EndsIn
  <2> QED
    BY <1>4, <2>1
<1> QED
  BY <1>3, <1>4

LEMMA EndOfObject ==
  ASSUME NEW K, NEW o, NEW compared, \A k \in K : Proper(o[k]), NEW b \in EndsIn(K, o, compared)
  PROVE  /\ b \in Bad
         /\ (\E k \in K : b \in o[k] /\ o[k] \subseteq Bad) \/ (b = Panic /\ compared # {})
<1>1. PICK some : some = UNION {o[k] \cap Bad : k \in K}
  OBVIOUS
<1>2. b \in some \/ (b = Panic /\ compared # {})
  <2>1. CASE compared = {}
    BY <1>1, <2>1 DEF EndsIn
  <2>2. CASE compared # {}
    BY <1>1, <2>2 DEF EndsIn
  <2> QED
    BY <2>1, <2>2
<1>3. CASE b \in some
  <2>1. PICK k \in K : b \in o[k] \cap Bad
    BY <1>1, <1>3
  <2>2. o[k] \subseteq Bad
    BY <2>1 DEF Proper
  <2> QED
    BY <2>1, <2>2
<1>4. CASE b \notin some
  <2>1. b = Panic /\ compared # {}
    BY <1>2, <1>4
  <2> QED
    BY <2>1 DEF Bad
<1> QED
  BY <1>3, <1>4

LEMMA ObjectProper ==
  ASSUME NEW fields, NEW o, \A k \in DOMAIN fields : Proper(o[k])
  PROVE  LET same(k) == IsObject(fields[k]) /\ IsObject(Only(o[k]))
             fine == \A k \in DOMAIN fields : o[k] \cap Bad = {} /\ ~same(k)
         IN  /\ Proper(objectOf(fields, o))
             /\ fine => objectOf(fields, o) = {Obj([k \in DOMAIN fields |-> Only(o[k])])}
                        /\ objectOf(fields, o) \cap Bad = {}
             /\ ~fine => /\ objectOf(fields, o) \subseteq Bad
                         /\ \A b \in objectOf(fields, o) :
                              \/ \E k \in DOMAIN fields : b \in o[k] /\ o[k] \subseteq Bad
                              \/ b = Panic /\ \E k \in DOMAIN fields : same(k) /\ o[k] \cap Bad = {}
<1> DEFINE same(k) == IsObject(fields[k]) /\ IsObject(Only(o[k]))
           fine == \A k \in DOMAIN fields : o[k] \cap Bad = {} /\ ~same(k)
<1>1. PICK compared : compared = {k \in DOMAIN fields : IsObject(fields[k]) /\ \E x \in o[k] : IsObject(x)}
  OBVIOUS
<1>2. PICK bad : bad = EndsIn(DOMAIN fields, o, compared)
  OBVIOUS
<1>3. PICK r : r = Obj([k \in DOMAIN fields |-> Only(o[k])])
  OBVIOUS
<1>4. objectOf(fields, o) = IF bad # {} THEN bad ELSE {r}
  BY <1>1, <1>2, <1>3 DEF objectOf, Only, EndsIn
<1>5. ASSUME NEW k \in DOMAIN fields PROVE k \in compared <=> same(k) /\ o[k] \cap Bad = {}
  <2>1. CASE o[k] \cap Bad = {}
    <3>1. o[k] = {Only(o[k])}
      BY <2>1, ProperOnly
    <3> QED
      BY <1>1, <2>1, <3>1
  <2>2. CASE o[k] \cap Bad # {}
    <3>1. o[k] \subseteq Bad
      BY <2>2 DEF Proper
    <3>2. \A x \in o[k] : ~IsObject(x)
      BY <3>1, BadTypes DEF IsObject
    <3> QED
      BY <1>1, <2>2, <3>2
  <2> QED
    BY <2>1, <2>2
<1>6. compared \in SUBSET DOMAIN fields
  BY <1>1
<1> HIDE DEF same
<1>7. /\ \A b \in bad : b \in Bad
      /\ \A b \in bad : \/ \E k \in DOMAIN fields : b \in o[k] /\ o[k] \subseteq Bad
                        \/ b = Panic /\ compared # {}
  BY <1>2, EndOfObject
<1>8. bad = {} <=> fine
  <2>1. bad = {} <=> compared = {} /\ \A k \in DOMAIN fields : o[k] \cap Bad = {}
    BY <1>2, NoEndOfObject
  <2> QED
    BY <1>5, <1>6, <2>1
<1>9. compared # {} => \E k \in DOMAIN fields : same(k) /\ o[k] \cap Bad = {}
  BY <1>5, <1>6
<1>10. r \notin Bad
  <2>1. r.type = "object"
    BY <1>3 DEF Obj
  <2> QED
    BY <2>1, BadTypes
<1> HIDE DEF fine
<1>11. ASSUME fine
       PROVE  /\ objectOf(fields, o) = {r} /\ objectOf(fields, o) \cap Bad = {}
              /\ Proper(objectOf(fields, o))
  <2>1. objectOf(fields, o) = {r}
    BY <1>4, <1>8, <1>11
  <2> QED
    BY <2>1, <1>10, BadIsProper
<1>12. ASSUME ~fine
       PROVE  /\ objectOf(fields, o) \subseteq Bad /\ Proper(objectOf(fields, o))
              /\ \A b \in objectOf(fields, o) :
                   \/ \E k \in DOMAIN fields : b \in o[k] /\ o[k] \subseteq Bad
                   \/ b = Panic /\ \E k \in DOMAIN fields : same(k) /\ o[k] \cap Bad = {}
  <2>1. objectOf(fields, o) = bad /\ bad # {}
    BY <1>4, <1>8, <1>12
  <2>2. Proper(bad)
    BY <1>7, <2>1 DEF Proper
  <2> QED
    BY <1>7, <1>9, <2>1, <2>2
<1> QED
  BY <1>3, <1>11, <1>12 DEF fine, same

-----------------------------------------------------------------------------
\* What a call comes to, by what its value is.
Loads(c) == loadDoc[c] \cap Bad = {}
Result(c) == Only(loadDoc[c])
Plain(v) == IsObject(v) /\ ~IsReference(v)
Fine(c, d) == Loads(d) /\ (Plain(c.value) => ~(IsObject(d.value) /\ IsObject(Result(d))))

\* A reference when no more files can be opened.
Stuck(c) == HasText(c.value, "$ref") /\ c.left = 0

LEMMA Kinds ==
  ASSUME NEW c \in Calls
  PROVE  /\ \/ c.value.type = "list" \/ NamesFile(c) \/ Missing(c) \/ Plain(c.value)
            \/ IsBytes(c.value) /\ ~Missing(c)
            \/ c.value.type \notin {"list", "object"}
         /\ c.value.type = "list" =>
              LET v == c.value
              IN  loadDoc[c] = listOf([i \in DOMAIN v.items |-> loadDoc[[c EXCEPT !.value = v.items[i]]]])
         /\ NamesFile(c) /\ ~Stuck(c) => loadDoc[c] = loadDoc[CallFor(c.left - 1, Target(c))]
         /\ Missing(c) \/ Stuck(c) => loadDoc[c] = {Err}
         /\ IsBytes(c.value) /\ ~Missing(c) /\ ~Stuck(c) => loadDoc[c] = {Base64(Bytes(c))}
         /\ Plain(c.value) =>
              LET v == c.value
              IN  loadDoc[c] =
                    objectOf(v.fields, [k \in DOMAIN v.fields |-> loadDoc[[c EXCEPT !.value = v.fields[k]]]])
         /\ c.value.type \notin {"list", "object"} => loadDoc[c] = {c.value}
<1> DEFINE v == c.value
<1>1. loadDoc[c] = outcome(loadDoc, c)
  BY LoadDefined
<1>2. \/ v.type = "list" \/ NamesFile(c) \/ Missing(c) \/ Plain(v)
      \/ IsBytes(v) /\ ~Missing(c)
      \/ v.type \notin {"list", "object"}
  BY DEF NamesFile, Missing, Plain, IsBytes, IsFileBytes, IsReference, HasText, IsObject
<1>3. ASSUME v.type = "list"
      PROVE  loadDoc[c] = listOf([i \in DOMAIN v.items |-> loadDoc[[c EXCEPT !.value = v.items[i]]]])
  BY <1>1, <1>3 DEF outcome
<1>4. ASSUME NamesFile(c), ~Stuck(c) PROVE loadDoc[c] = loadDoc[CallFor(c.left - 1, Target(c))]
  <2>1. /\ v.type # "list" /\ HasText(v, "$ref") /\ ~IsRawRef(v) /\ RefFile(c.dir, v) \in ObjectFiles
        /\ c.left # 0
    BY <1>4 DEF NamesFile, Stuck, Target, HasText, IsObject
  <2>2. RefFile(c.dir, v) \in DOMAIN Files
    BY <2>1 DEF ObjectFiles
  <2> QED
    BY <1>1, <2>1, <2>2 DEF outcome, Target
<1>5. ASSUME Missing(c) \/ Stuck(c) PROVE loadDoc[c] = {Err}
  <2>1. v.type # "list" /\ HasText(v, "$ref")
    BY <1>5 DEF Missing, Stuck, HasText, IsObject
  <2> QED
    BY <1>1, <1>5, <2>1 DEF outcome, Target, Missing, Stuck
<1>6. ASSUME IsBytes(v), ~Missing(c), ~Stuck(c) PROVE loadDoc[c] = {Base64(Bytes(c))}
  <2>1. v.type # "list"
    BY <1>6 DEF IsBytes, IsFileBytes, HasText, IsObject
  <2>2. CASE IsFileBytes(v)
    <3>1. HasText(v, "$ref") /\ IsRawRef(v) /\ RefFile(c.dir, v) \in DOMAIN Files /\ c.left # 0
      BY <1>6, <2>2 DEF IsFileBytes, Missing, Stuck, Target
    <3> QED
      BY <1>1, <2>1, <2>2, <3>1 DEF outcome, Bytes, Target
  <2>3. CASE ~IsFileBytes(v)
    <3>1. HasText(v, "$raw") /\ ~HasText(v, "$ref")
      BY <1>6, <2>3 DEF IsBytes
    <3> QED
      BY <1>1, <2>1, <2>3, <3>1 DEF outcome, Bytes
  <2> QED
    BY <2>2, <2>3
<1>7. ASSUME Plain(v)
      PROVE  loadDoc[c] =
               objectOf(v.fields, [k \in DOMAIN v.fields |-> loadDoc[[c EXCEPT !.value = v.fields[k]]]])
  <2>1. v.type # "list" /\ IsObject(v) /\ ~HasText(v, "$ref") /\ ~HasText(v, "$raw")
    BY <1>7 DEF Plain, IsReference, IsObject
  <2> QED
    BY <1>1, <2>1 DEF outcome
<1>8. ASSUME v.type \notin {"list", "object"} PROVE loadDoc[c] = {v}
  BY <1>1, <1>8 DEF outcome, HasText, IsObject
<1> QED
  BY <1>2, <1>3, <1>4, <1>5, <1>6, <1>7, <1>8

-----------------------------------------------------------------------------
\* A call that loads: all it calls does, and its result is made of theirs.
Passes(c) == ~Missing(c) /\ ~Stuck(c) /\ \A d \in Inner(c) : Fine(c, d)
At(c, w) == [c EXCEPT !.value = w]
Made(c) ==
  /\ NamesFile(c) => \E d \in Inner(c) : Inner(c) = {d} /\ Result(c) = Result(d)
  /\ IsBytes(c.value) => Result(c) = Base64(Bytes(c))
  /\ c.value.type = "list" \/ Plain(c.value) =>
       Result(c).type = c.value.type /\ Children(Result(c), {}) = {Result(d) : d \in Inner(c)}
  /\ Plain(c.value) =>
       /\ DOMAIN Result(c).fields = DOMAIN c.value.fields
       /\ \A k \in DOMAIN c.value.fields : Result(c).fields[k] = Result(At(c, c.value.fields[k]))
  /\ c.value.type \notin {"list", "object"} => Result(c) = c.value

\* One that does not: what its bad end comes from.
Blamed(c, b) ==
  \/ \E d \in Inner(c) : b \in loadDoc[d]
  \/ b = Err /\ (Missing(c) \/ Stuck(c))
  \/ b = Panic /\ Plain(c.value)
     /\ \E d \in Inner(c) : IsObject(d.value) /\ Loads(d) /\ IsObject(Result(d))
Explained(c) ==
  /\ Proper(loadDoc[c])
  /\ Loads(c) => Passes(c) /\ Made(c)
  /\ \A b \in loadDoc[c] \cap Bad : Blamed(c, b)

LEMMA ListInner ==
  ASSUME NEW c \in Calls, c.value.type = "list"
  PROVE  /\ ~NamesFile(c) /\ ~Missing(c) /\ ~Stuck(c)
         /\ ~IsReference(c.value) /\ ~Plain(c.value) /\ ~IsBytes(c.value)
         /\ Inner(c) = {At(c, c.value.items[i]) : i \in DOMAIN c.value.items}
<1>1. /\ ~NamesFile(c) /\ ~Missing(c) /\ ~Stuck(c)
      /\ ~IsReference(c.value) /\ ~Plain(c.value) /\ ~IsBytes(c.value)
  BY DEF NamesFile, Missing, Stuck, IsReference, Plain, IsBytes, IsFileBytes, HasText, IsObject
<1>2. Children(c.value, {}) = {c.value.items[i] : i \in DOMAIN c.value.items}
  BY DEF Children, IsObject
<1>3. Inner(c) = {At(c, w) : w \in Children(c.value, {})}
  BY <1>1 DEF Inner, At
<1> QED
  BY <1>1, <1>2, <1>3

LEMMA PlainInner ==
  ASSUME NEW c \in Calls, Plain(c.value)
  PROVE  /\ ~NamesFile(c) /\ ~Missing(c) /\ ~Stuck(c) /\ ~IsBytes(c.value) /\ c.value.type = "object"
         /\ Inner(c) = {At(c, c.value.fields[k]) : k \in DOMAIN c.value.fields}
<1>1. /\ ~NamesFile(c) /\ ~Missing(c) /\ ~Stuck(c) /\ ~IsBytes(c.value) /\ c.value.type = "object"
      /\ ~IsReference(c.value)
  BY DEF NamesFile, Missing, Stuck, IsReference, Plain, IsBytes, IsFileBytes, IsObject
<1>2. Children(c.value, {}) = {c.value.fields[k] : k \in DOMAIN c.value.fields}
  BY <1>1 DEF Children, IsObject
<1>3. Inner(c) = {At(c, w) : w \in Children(c.value, {})}
  BY <1>1 DEF Inner, At
<1> QED
  BY <1>1, <1>2, <1>3

LEMMA ListExplained ==
  ASSUME NEW c \in Calls, c.value.type = "list", \A d \in Inner(c) : Proper(loadDoc[d])
  PROVE  Explained(c)
<1> DEFINE items == c.value.items
           o == [i \in DOMAIN items |-> loadDoc[At(c, items[i])]]
<1>1. DOMAIN o = DOMAIN items /\ \A i \in DOMAIN items : o[i] = loadDoc[At(c, items[i])]
  OBVIOUS
<1>2. c.value \in Values /\ Len(items) \in Nat /\ DOMAIN items = 1 .. Len(items)
  BY CallTypes, ValueTypes
<1>3. loadDoc[c] = listOf(o)
  BY Kinds DEF At
<1>4. Inner(c) = {At(c, items[i]) : i \in DOMAIN items}
  BY ListInner
<1> HIDE DEF o, items
<1>5. \A i \in DOMAIN o : Proper(o[i])
  BY <1>1, <1>4
<1>6. /\ Proper(listOf(o))
      /\ (\A i \in DOMAIN o : o[i] \cap Bad = {}) =>
           listOf(o) = {List([i \in DOMAIN o |-> Only(o[i])])} /\ listOf(o) \cap Bad = {}
      /\ (\E i \in DOMAIN o : o[i] \cap Bad # {}) =>
           \E i \in DOMAIN o : o[i] \subseteq Bad /\ listOf(o) = o[i]
  <2>1. DOMAIN o = 1 .. Len(items) /\ Len(items) \in Nat
    BY <1>1, <1>2
  <2> QED
    BY <1>5, <2>1, ListProper
<1>7. CASE \A i \in DOMAIN o : o[i] \cap Bad = {}
  <2> DEFINE r == [i \in DOMAIN o |-> Only(o[i])]
  <2>1. loadDoc[c] = {List(r)} /\ loadDoc[c] \cap Bad = {}
    BY <1>3, <1>6, <1>7
  <2>2. Result(c) = List(r)
    BY <2>1, OnlyOne DEF Result
  <2>3. DOMAIN r = DOMAIN items /\ \A i \in DOMAIN items : r[i] = Result(At(c, items[i]))
    BY <1>1 DEF Result
  <2> HIDE DEF r
  <2>4. Result(c).type = "list" /\ Children(Result(c), {}) = {r[i] : i \in DOMAIN r}
    BY <2>2 DEF List, Children, IsObject
  <2>5. Children(Result(c), {}) = {Result(d) : d \in Inner(c)}
    BY <1>4, <2>3, <2>4
  <2>6. Made(c)
    BY <2>4, <2>5, ListInner DEF Made
  <2>7. \A d \in Inner(c) : Loads(d)
    BY <1>1, <1>4, <1>7 DEF Loads
  <2>8. Passes(c)
    BY <2>7, ListInner DEF Passes, Fine
  <2> QED
    BY <1>3, <1>6, <2>1, <2>6, <2>8 DEF Explained
<1>8. CASE \E i \in DOMAIN o : o[i] \cap Bad # {}
  <2>1. PICK i \in DOMAIN o : o[i] \subseteq Bad /\ listOf(o) = o[i]
    BY <1>6, <1>8
  <2> DEFINE d == At(c, items[i])
  <2>2. d \in Inner(c) /\ loadDoc[c] = loadDoc[d] /\ loadDoc[c] \subseteq Bad
    BY <1>1, <1>3, <1>4, <2>1
  <2> HIDE DEF d
  <2>3. Proper(loadDoc[c])
    BY <1>3, <1>6
  <2>4. ~Loads(c)
    BY <2>2, <2>3 DEF Loads, Proper
  <2>5. \A b \in loadDoc[c] : Blamed(c, b)
    BY <2>2 DEF Blamed
  <2> QED
    BY <2>3, <2>4, <2>5 DEF Explained
<1> QED
  BY <1>7, <1>8

LEMMA PlainExplained ==
  ASSUME NEW c \in Calls, Plain(c.value), \A d \in Inner(c) : Proper(loadDoc[d])
  PROVE  Explained(c)
<1> DEFINE fields == c.value.fields
           o == [k \in DOMAIN fields |-> loadDoc[At(c, fields[k])]]
           same(k) == IsObject(fields[k]) /\ IsObject(Only(o[k]))
           fine == \A k \in DOMAIN fields : o[k] \cap Bad = {} /\ ~same(k)
<1>1. DOMAIN o = DOMAIN fields /\ \A k \in DOMAIN fields : o[k] = loadDoc[At(c, fields[k])]
  OBVIOUS
<1>2. \A w : At(c, w).value = w
  BY CallTypes DEF At
<1>3. loadDoc[c] = objectOf(fields, o)
  BY Kinds DEF At
<1>4. Inner(c) = {At(c, fields[k]) : k \in DOMAIN fields}
  BY PlainInner
<1> HIDE DEF o, fields
<1>5. \A k \in DOMAIN fields : Proper(o[k])
  BY <1>1, <1>4
<1>6. /\ Proper(objectOf(fields, o))
      /\ fine => objectOf(fields, o) = {Obj([k \in DOMAIN fields |-> Only(o[k])])}
                 /\ objectOf(fields, o) \cap Bad = {}
      /\ ~fine => /\ objectOf(fields, o) \subseteq Bad
                  /\ \A b \in objectOf(fields, o) :
                       \/ \E k \in DOMAIN fields : b \in o[k] /\ o[k] \subseteq Bad
                       \/ b = Panic /\ \E k \in DOMAIN fields : same(k) /\ o[k] \cap Bad = {}
  BY <1>5, ObjectProper
<1>7. CASE fine
  <2> DEFINE r == [k \in DOMAIN fields |-> Only(o[k])]
  <2>1. loadDoc[c] = {Obj(r)} /\ loadDoc[c] \cap Bad = {}
    BY <1>3, <1>6, <1>7
  <2>2. Result(c) = Obj(r)
    BY <2>1, OnlyOne DEF Result
  <2>3. DOMAIN r = DOMAIN fields /\ \A k \in DOMAIN fields : r[k] = Result(At(c, fields[k]))
    BY <1>1 DEF Result
  <2> HIDE DEF r
  <2>4. /\ Result(c).type = "object" /\ Result(c).fields = r
        /\ Children(Result(c), {}) = {r[k] : k \in DOMAIN r}
    BY <2>2 DEF Obj, Children, IsObject
  <2>5. Children(Result(c), {}) = {Result(d) : d \in Inner(c)}
    BY <1>4, <2>3, <2>4
  <2>6. Made(c)
    BY <2>3, <2>4, <2>5, PlainInner DEF Made, fields
  <2>7. ASSUME NEW d \in Inner(c) PROVE Fine(c, d)
    <3>1. PICK k \in DOMAIN fields : d = At(c, fields[k])
      BY <1>4
    <3>2. o[k] \cap Bad = {} /\ ~same(k) /\ o[k] = loadDoc[d] /\ d.value = fields[k]
      BY <1>1, <1>2, <1>7, <3>1
    <3> QED
      BY <3>2 DEF Fine, Loads, Result
  <2>8. Passes(c)
    BY <2>7, PlainInner DEF Passes
  <2> QED
    BY <1>3, <1>6, <2>1, <2>6, <2>8 DEF Explained
<1>8. CASE ~fine
  <2>1. Proper(loadDoc[c]) /\ loadDoc[c] \subseteq Bad
    BY <1>3, <1>6, <1>8
  <2>2. ~Loads(c)
    BY <2>1 DEF Loads, Proper
  <2>3. ASSUME NEW b \in loadDoc[c] PROVE Blamed(c, b)
    <3>1. CASE \E k \in DOMAIN fields : b \in o[k]
      <4>1. \E d \in Inner(c) : b \in loadDoc[d]
        BY <1>1, <1>4, <3>1
      <4> QED
        BY <4>1 DEF Blamed
    <3>2. CASE b = Panic /\ \E k \in DOMAIN fields : same(k) /\ o[k] \cap Bad = {}
      <4>1. PICK k \in DOMAIN fields : same(k) /\ o[k] \cap Bad = {}
        BY <3>2
      <4> DEFINE d == At(c, fields[k])
      <4>2. d \in Inner(c) /\ d.value = fields[k] /\ loadDoc[d] = o[k]
        BY <1>1, <1>2, <1>4
      <4> HIDE DEF d
      <4>3. IsObject(d.value) /\ Loads(d) /\ IsObject(Result(d))
        BY <4>1, <4>2 DEF Loads, Result
      <4> QED
        BY <3>2, <4>2, <4>3 DEF Blamed
    <3> QED
      BY <1>3, <1>6, <1>8, <3>1, <3>2
  <2> QED
    BY <2>1, <2>2, <2>3 DEF Explained
<1> QED
  BY <1>7, <1>8

LEMMA CallExplained ==
  ASSUME NEW c \in Calls, \A d \in Inner(c) : Proper(loadDoc[d])
  PROVE  Explained(c)
<1>1. CASE c.value.type = "list"
  BY <1>1, ListExplained
<1>2. CASE Plain(c.value)
  BY <1>2, PlainExplained
<1>3. CASE NamesFile(c) /\ ~Stuck(c)
  <2>1. /\ ~Missing(c) /\ ~IsBytes(c.value) /\ ~Plain(c.value) /\ c.value.type = "object"
    <3>1. Target(c) \in DOMAIN Files
      BY <1>3 DEF NamesFile, ObjectFiles
    <3> QED
      BY <1>3, <3>1 DEF NamesFile, Missing, IsBytes, IsFileBytes, Plain, IsReference, HasText, IsObject
  <2>2. c.left # 0
    BY <1>3 DEF NamesFile, Stuck
  <2> DEFINE d == CallFor(c.left - 1, Target(c))
  <2>3. Inner(c) = {d} /\ loadDoc[c] = loadDoc[d]
    BY <1>3, <2>2, Kinds DEF Inner
  <2> HIDE DEF d
  <2>4. Proper(loadDoc[c]) /\ Result(c) = Result(d) /\ (Loads(c) <=> Loads(d))
    BY <2>3 DEF Result, Loads
  <2>5. Made(c)
    BY <1>3, <2>1, <2>3, <2>4 DEF Made
  <2>6. Loads(c) => Passes(c)
    BY <1>3, <2>1, <2>3, <2>4 DEF Passes, Fine
  <2>7. \A b \in loadDoc[c] : Blamed(c, b)
    BY <2>3 DEF Blamed
  <2> QED
    BY <2>4, <2>5, <2>6, <2>7 DEF Explained
<1>4. CASE Missing(c) \/ Stuck(c)
  <2>1. loadDoc[c] = {Err} /\ Err \in Bad
    BY <1>4, Kinds DEF Bad
  <2>2. Proper(loadDoc[c]) /\ ~Loads(c)
    BY <2>1, BadIsProper DEF Loads
  <2>3. Blamed(c, Err)
    BY <1>4 DEF Blamed
  <2> QED
    BY <2>1, <2>2, <2>3 DEF Explained
<1>5. CASE IsBytes(c.value) /\ ~Missing(c) /\ ~Stuck(c)
  <2> DEFINE r == Base64(Bytes(c))
  <2>1. loadDoc[c] = {r}
    BY <1>5, Kinds
  <2>2. r.type = "base64"
    BY DEF Base64
  <2>3. r \notin Bad
    BY <2>2, BadTypes
  <2>4. /\ IsReference(c.value) /\ ~NamesFile(c) /\ c.value.type = "object" /\ ~Plain(c.value)
    BY <1>5 DEF IsBytes, IsFileBytes, IsReference, NamesFile, Plain, HasText, IsObject
  <2>5. Inner(c) = {}
    BY <2>4 DEF Inner
  <2>6. Result(c) = r
    BY <2>1, OnlyOne DEF Result
  <2>7. Made(c) /\ Passes(c)
    BY <1>5, <2>4, <2>5, <2>6 DEF Made, Passes
  <2> HIDE DEF r
  <2>8. Proper(loadDoc[c]) /\ loadDoc[c] \cap Bad = {}
    BY <2>1, <2>3, BadIsProper
  <2> QED
    BY <2>7, <2>8 DEF Explained
<1>6. CASE c.value.type \notin {"list", "object"}
  <2>1. loadDoc[c] = {c.value}
    BY <1>6, Kinds
  <2>2. c.value \notin Bad
    <3>1. c.value.type \in {"nil", "true", "text", "list", "object"}
      BY CallTypes, ValueTypes
    <3> QED
      BY <3>1, BadTypes
  <2>3. /\ ~NamesFile(c) /\ ~IsBytes(c.value) /\ ~Plain(c.value) /\ ~Missing(c) /\ ~Stuck(c)
        /\ ~IsReference(c.value)
    BY <1>6 DEF IsBytes, IsFileBytes, IsReference, NamesFile, Plain, Missing, Stuck, HasText, IsObject
  <2>4. Inner(c) = {}
    BY <1>6, <2>3 DEF Inner, Children, IsObject
  <2>5. Result(c) = c.value
    BY <2>1, OnlyOne DEF Result
  <2>6. Made(c) /\ Passes(c)
    BY <1>6, <2>3, <2>4, <2>5 DEF Made, Passes
  <2>7. Proper(loadDoc[c]) /\ loadDoc[c] \cap Bad = {}
    BY <2>1, <2>2, BadIsProper
  <2> QED
    BY <2>6, <2>7 DEF Explained
<1> QED
  BY <1>1, <1>2, <1>3, <1>4, <1>5, <1>6, Kinds

\* Every call of loadDoc comes to one value, or to bad ends that all come from somewhere.
LEMMA AllExplained == \A c \in Calls : Explained(c)
<1> DEFINE T == {c \in Calls : Explained(c)}
<1>1. ASSUME NEW c \in Calls, Inner(c) \subseteq T PROVE c \in T
  <2>1. \A d \in Inner(c) : Proper(loadDoc[d])
    BY <1>1 DEF Explained
  <2> QED
    BY <2>1, CallExplained
<1>2. Calls \subseteq T
  <2> HIDE DEF T
  <2> QED
    BY <1>1, CallInduction
<1> QED
  BY <1>2

LEMMA DecodedToObject == ASSUME NEW p \in ObjectFiles PROVE IsObject(decoded(p))
<1>1. CASE Files[p].json = Nil
  BY <1>1 DEF decoded, Obj, IsObject
<1>2. CASE Files[p].json # Nil
  BY <1>2 DEF decoded, ObjectFiles, IsObject
<1> QED
  BY <1>1, <1>2

\* What kind of value a call comes to.
LEMMA ResultTypes ==
  ASSUME NEW c \in Calls, Loads(c)
  PROVE  /\ c.value.type = "object" => Result(c).type \in {"object", "base64"}
         /\ c.value.type # "object" => Result(c).type = c.value.type
<1> DEFINE Right(x) == /\ x.value.type = "object" => Result(x).type \in {"object", "base64"}
                       /\ x.value.type # "object" => Result(x).type = x.value.type
           T == {x \in Calls : Loads(x) => Right(x)}
<1>1. ASSUME NEW x \in Calls, Inner(x) \subseteq T PROVE x \in T
  <2> SUFFICES ASSUME Loads(x) PROVE Right(x)
    OBVIOUS
  <2>1. Passes(x) /\ Made(x)
    BY AllExplained DEF Explained
  <2>2. CASE x.value.type \notin {"list", "object"} \/ x.value.type = "list" \/ Plain(x.value)
    <3>1. Plain(x.value) => x.value.type = "object"
      BY DEF Plain, IsObject
    <3> QED
      BY <2>1, <2>2, <3>1 DEF Made
  <2>3. CASE IsBytes(x.value)
    <3>1. x.value.type = "object"
      BY <2>3 DEF IsBytes, IsFileBytes, HasText, IsObject
    <3> QED
      BY <2>1, <2>3, <3>1 DEF Made, Base64
  <2>4. CASE NamesFile(x)
    <3>1. PICK d \in Inner(x) : Inner(x) = {d} /\ Result(x) = Result(d)
      BY <2>1, <2>4 DEF Made
    <3>2. Loads(d) /\ Right(d)
      BY <1>1, <2>1, <3>1 DEF Passes, Fine
    <3>3. x.value.type = "object" /\ x.left # 0 /\ Target(x) \in ObjectFiles
      BY <2>1, <2>4 DEF NamesFile, HasText, IsObject, Passes, Stuck
    <3>4. d = CallFor(x.left - 1, Target(x))
      BY <2>4, <3>1, <3>3 DEF Inner
    <3>5. d.value.type = "object"
      BY <3>3, <3>4, DecodedToObject DEF CallFor, IsObject
    <3> QED
      BY <3>1, <3>2, <3>3, <3>5
  <2> QED
    BY <2>1, <2>2, <2>3, <2>4, Kinds DEF Passes
<1>2. Calls \subseteq T
  <2> HIDE DEF T
  <2> QED
    BY <1>1, CallInduction
<1> QED
  BY <1>2

-----------------------------------------------------------------------------
\* There are finitely many nodes, so following them ends.
LEMMA NodeOfFile ==
  ASSUME NEW p \in ObjectFiles
  PROVE  NodeOf(p) \in Nodes /\ IsObject(decoded(p)) /\ decoded(p) \in Values
<1>1. decoded(p) \in Values /\ p \in DOMAIN Files
  BY DocumentsAssumption DEF ObjectFiles
<1>2. Front(p) \in Dirs
  BY <1>1 DEF Dirs
<1> QED
  BY <1>1, <1>2, DecodedToObject DEF NodeOf, Nodes

LEMMA BelowType == ASSUME NEW n \in Nodes PROVE Below(n) \subseteq Nodes
<1>1. CASE NamesFile(n)
  <2>1. Target(n) \in ObjectFiles
    BY <1>1 DEF NamesFile
  <2> QED
    BY <1>1, <2>1, NodeOfFile DEF Below
<1>2. CASE ~NamesFile(n)
  <2> SUFFICES ASSUME NEW m \in Below(n) PROVE m \in Nodes
    OBVIOUS
  <2>1. PICK w \in Children(n.value, {}) : m = [n EXCEPT !.value = w]
    BY <1>2 DEF Below
  <2>2. w \in Values
    BY ChildrenNest DEF Nodes
  <2> QED
    BY <2>1, <2>2 DEF Nodes
<1> QED
  BY <1>1, <1>2

LEMMA FurtherType ==
  ASSUME NEW S \in SUBSET Nodes
  PROVE  /\ Further(S) \in SUBSET Nodes /\ S \subseteq Further(S)
         /\ \A n \in S : Below(n) \subseteq Further(S)
<1>1. PICK more : more = UNION {Below(n) : n \in S}
  OBVIOUS
<1>2. more \subseteq Nodes /\ \A n \in S : Below(n) \subseteq more
  BY <1>1, BelowType
<1>3. Further(S) = S \cup more
  BY <1>1 DEF Further
<1> QED
  BY <1>2, <1>3

LEMMA NodesFinite == IsFiniteSet(Nodes)
<1>1. IsFiniteSet(Dirs)
  <2> DEFINE F == {Front(p) : p \in DOMAIN Files}
             f == [p \in DOMAIN Files |-> Front(p)]
  <2>1. f \in Surjection(DOMAIN Files, F)
    BY DEF Surjection
  <2>2. IsFiniteSet(DOMAIN Files)
    BY DocumentsAssumption
  <2>3. IsFiniteSet(F)
    <3> HIDE DEF F, f
    <3> QED
      BY <2>1, <2>2, FS_Surjection
  <2>4. Dirs = F \cup {SuitePath}
    BY DEF Dirs
  <2> HIDE DEF F
  <2> QED
    BY <2>3, <2>4, FS_AddElement
<1>2. IsFiniteSet(Values)
  BY DocumentsAssumption
<1>3. IsFiniteSet(Dirs \X Values)
  BY <1>1, <1>2, FS_Product
<1> DEFINE f == [x \in Dirs \X Values |-> [dir |-> x[1], value |-> x[2]]]
<1>4. f \in [Dirs \X Values -> Nodes]
  BY DEF Nodes
<1>5. ASSUME NEW n \in Nodes PROVE \E x \in Dirs \X Values : f[x] = n
  <2>1. n = [dir |-> n.dir, value |-> n.value] /\ <<n.dir, n.value>> \in Dirs \X Values
    BY DEF Nodes
  <2>2. f[<<n.dir, n.value>>] = [dir |-> n.dir, value |-> n.value]
    BY <2>1
  <2> QED
    BY <2>1, <2>2
<1>6. f \in Surjection(Dirs \X Values, Nodes)
  BY <1>4, <1>5 DEF Surjection
<1> HIDE DEF f
<1> QED
  BY <1>3, <1>6, FS_Surjection

NodesLeft(S) == Cardinality(Nodes \ S)

LEMMA NodesLeftType == ASSUME NEW S \in SUBSET Nodes PROVE NodesLeft(S) \in Nat
<1>1. IsFiniteSet(Nodes \ S)
  BY NodesFinite, FS_Difference
<1> QED
  BY <1>1, FS_CardinalityType DEF NodesLeft

LEMMA FewerLeft ==
  ASSUME NEW S \in SUBSET Nodes, Further(S) # S
  PROVE  NodesLeft(Further(S)) < NodesLeft(S)
<1>1. Further(S) \in SUBSET Nodes /\ S \subseteq Further(S)
  BY FurtherType
<1>2. IsFiniteSet(Nodes \ S)
  BY NodesFinite, FS_Difference
<1>3. Nodes \ Further(S) \in SUBSET (Nodes \ S) /\ Nodes \ Further(S) # Nodes \ S
  BY <1>1
<1>4. NodesLeft(Further(S)) <= NodesLeft(S) /\ NodesLeft(Further(S)) # NodesLeft(S)
  BY <1>2, <1>3, FS_Subset DEF NodesLeft
<1> QED
  BY <1>1, <1>4, NodesLeftType

\* Induction on sets of nodes, from the larger ones to the smaller ones they grow from.
LEMMA FollowInduction ==
  ASSUME NEW T, \A S \in SUBSET Nodes : (Further(S) # S => Further(S) \in T) => S \in T
  PROVE  SUBSET Nodes \subseteq T
<1> DEFINE N == {NodesLeft(S) : S \in (SUBSET Nodes) \ T}
<1>1. N \in SUBSET Nat
  BY NodesLeftType
<1> SUFFICES ASSUME NEW U \in (SUBSET Nodes) \ T PROVE FALSE
  OBVIOUS
<1>2. N # {}
  OBVIOUS
<1>3. PICK n \in N : \A k \in N : n <= k
  <2> HIDE DEF N
  <2> QED
    BY <1>1, <1>2, Least
<1>4. PICK S \in (SUBSET Nodes) \ T : n = NodesLeft(S)
  OBVIOUS
<1>5. Further(S) # S /\ Further(S) \notin T
  BY <1>4
<1>6. Further(S) \in SUBSET Nodes /\ NodesLeft(Further(S)) < NodesLeft(S)
  BY <1>4, <1>5, FurtherType, FewerLeft
<1>7. NodesLeft(S) <= NodesLeft(Further(S))
  BY <1>3, <1>4, <1>5, <1>6
<1> QED
  BY <1>4, <1>6, <1>7, NodesLeftType

\* Reached is the function that it is defined as,
Large(n) == {S \in SUBSET Nodes : NodesLeft(S) < n}
Follow(f, S) == IF Further(S) = S THEN S ELSE f[Further(S)]
IsReached(f, n) == f = [S \in Large(n) |-> Follow(f, S)]

LEMMA ReachedUpTo == \A n \in Nat : \E f : IsReached(f, n)
<1> DEFINE P(n) == \E f : IsReached(f, n)
           B == {n \in Nat : ~P(n)}
<1> HIDE DEF P
<1> SUFFICES ASSUME B # {} PROVE FALSE
  BY DEF P
<1>1. PICK n \in B : \A k \in B : n <= k
  BY Least
<1>2. CASE n = 0
  <2>1. Large(0) = {}
    BY NodesLeftType DEF Large
  <2>2. IsReached([S \in {} |-> S], 0)
    BY <2>1 DEF IsReached
  <2> QED
    BY <1>1, <1>2, <2>2 DEF P
<1>3. CASE n # 0
  <2>1. n - 1 \in Nat /\ ~(n <= n - 1)
    BY <1>3
  <2>2. PICK f : IsReached(f, n - 1)
    BY <1>1, <2>1 DEF P
  <2> DEFINE g == [S \in Large(n) |-> Follow(f, S)]
  <2>3. ASSUME NEW S \in Large(n - 1) PROVE g[S] = f[S]
    <3>1. S \in Large(n)
      BY <2>1, NodesLeftType DEF Large
    <3>2. f[S] = Follow(f, S)
      BY <2>2 DEF IsReached
    <3> QED
      BY <3>1, <3>2
  <2>4. ASSUME NEW S \in Large(n) PROVE Follow(f, S) = Follow(g, S)
    <3>1. S \in SUBSET Nodes /\ NodesLeft(S) < n
      BY DEF Large
    <3>2. CASE Further(S) # S
      <4>1. Further(S) \in SUBSET Nodes /\ NodesLeft(Further(S)) < NodesLeft(S)
        BY <3>1, <3>2, FurtherType, FewerLeft
      <4>2. Further(S) \in Large(n - 1)
        BY <2>1, <3>1, <4>1, NodesLeftType DEF Large
      <4>3. g[Further(S)] = f[Further(S)]
        BY <2>3, <4>2
      <4> HIDE DEF g
      <4> QED
        BY <4>3 DEF Follow
    <3>3. CASE Further(S) = S
      BY <3>3 DEF Follow
    <3> QED
      BY <3>2, <3>3
  <2>5. g = [S \in Large(n) |-> Follow(g, S)]
    BY <2>4
  <2> HIDE DEF g
  <2>6. IsReached(g, n)
    BY <2>5 DEF IsReached
  <2> QED
    BY <1>1, <2>6 DEF P
<1> QED
  BY <1>2, <1>3

LEMMA ReachedDefined ==
  \A S \in SUBSET Nodes : Reached[S] = IF Further(S) = S THEN S ELSE Reached[Further(S)]
<1>1. NodesLeft({}) + 1 \in Nat
  BY NodesLeftType
<1>2. Large(NodesLeft({}) + 1) = SUBSET Nodes
  <2>1. ASSUME NEW S \in SUBSET Nodes PROVE NodesLeft(S) <= NodesLeft({})
    <3>1. IsFiniteSet(Nodes \ {}) /\ Nodes \ S \in SUBSET (Nodes \ {})
      BY NodesFinite
    <3> QED
      BY <3>1, FS_Subset DEF NodesLeft
  <2> QED
    BY <1>1, <2>1, NodesLeftType DEF Large
<1>3. PICK f : IsReached(f, NodesLeft({}) + 1)
  BY <1>1, ReachedUpTo
<1>4. f = [S \in SUBSET Nodes |-> IF Further(S) = S THEN S ELSE f[Further(S)]]
  BY <1>2, <1>3 DEF IsReached, Follow
<1> DEFINE F == CHOOSE g : g = [S \in SUBSET Nodes |-> IF Further(S) = S THEN S ELSE g[Further(S)]]
<1>5. F = [S \in SUBSET Nodes |-> IF Further(S) = S THEN S ELSE F[Further(S)]]
  BY <1>4
<1>6. Reached = F
  BY DEF Reached
<1> HIDE DEF F
<1> QED
  BY <1>5, <1>6

\* and what it comes to: the least set with the nodes and all that is below one in it.
Follows(S) ==
  /\ S \subseteq Reached[S] /\ Reached[S] \subseteq Nodes
  /\ \A n \in Reached[S] : Below(n) \subseteq Reached[S]

LEMMA ReachedFollows == \A S \in SUBSET Nodes : Follows(S)
<1> DEFINE T == {S \in SUBSET Nodes : Follows(S)}
<1>1. ASSUME NEW S \in SUBSET Nodes, Further(S) # S => Further(S) \in T PROVE S \in T
  <2>1. CASE Further(S) = S
    <3>1. Reached[S] = S
      BY <2>1, ReachedDefined
    <3> QED
      BY <2>1, <3>1, FurtherType DEF Follows
  <2>2. CASE Further(S) # S
    <3>1. Reached[S] = Reached[Further(S)]
      BY <2>2, ReachedDefined
    <3>2. Follows(Further(S)) /\ S \subseteq Further(S)
      BY <1>1, <2>2, FurtherType
    <3> QED
      BY <3>1, <3>2 DEF Follows
  <2> QED
    BY <2>1, <2>2
<1>2. SUBSET Nodes \subseteq T
  <2> HIDE DEF T
  <2> QED
    BY <1>1, FollowInduction
<1> QED
  BY <1>2

LEMMA ReachedLeast ==
  ASSUME NEW S \in SUBSET Nodes, NEW U, S \subseteq U,
         \A n \in U \cap Nodes : Below(n) \subseteq U
  PROVE  Reached[S] \subseteq U
<1> DEFINE T == {X \in SUBSET Nodes : X \subseteq U => Reached[X] \subseteq U}
<1>1. ASSUME NEW X \in SUBSET Nodes, Further(X) # X => Further(X) \in T PROVE X \in T
  <2> SUFFICES ASSUME X \subseteq U PROVE Reached[X] \subseteq U
    OBVIOUS
  <2>1. CASE Further(X) = X
    BY <2>1, ReachedDefined
  <2>2. CASE Further(X) # X
    <3>1. PICK more : more = UNION {Below(n) : n \in X}
      OBVIOUS
    <3>2. more \subseteq U
      BY <3>1
    <3>3. Further(X) \subseteq U
      BY <3>1, <3>2 DEF Further
    <3> QED
      BY <1>1, <2>2, <3>3, ReachedDefined
  <2> QED
    BY <2>1, <2>2
<1>2. SUBSET Nodes \subseteq T
  <2> HIDE DEF T
  <2> QED
    BY <1>1, FollowInduction
<1> QED
  BY <1>2

LEMMA ReachedFrom ==
  ASSUME NEW n \in Nodes
  PROVE  /\ n \in Reached[{n}] /\ Reached[{n}] \subseteq Nodes
         /\ \A m \in Reached[{n}] : Below(m) \subseteq Reached[{n}]
         /\ \A m \in Reached[{n}] : Reached[{m}] \subseteq Reached[{n}]
<1>1. Follows({n})
  BY ReachedFollows
<1>2. ASSUME NEW m \in Reached[{n}] PROVE Reached[{m}] \subseteq Reached[{n}]
  <2>1. m \in Nodes
    BY <1>1 DEF Follows
  <2>2. {m} \in SUBSET Nodes /\ {m} \subseteq Reached[{n}]
    BY <1>2, <2>1
  <2> QED
    BY <1>1, <2>2, ReachedLeast DEF Follows
<1> QED
  BY <1>1, <1>2 DEF Follows

-----------------------------------------------------------------------------
\* A call is about a node, and those it makes about what is below it.
NodeAt(c) == [dir |-> c.dir, value |-> c.value]

LEMMA NodeOfCall ==
  ASSUME NEW c \in Calls
  PROVE  /\ NodeAt(c) \in Nodes /\ NodeAt(c).dir = c.dir /\ NodeAt(c).value = c.value
         /\ Target(NodeAt(c)) = Target(c)
         /\ NamesFile(NodeAt(c)) <=> NamesFile(c)
         /\ Missing(NodeAt(c)) <=> Missing(c)
         /\ Bytes(NodeAt(c)) = Bytes(c)
<1>1. NodeAt(c) \in Nodes /\ NodeAt(c).dir = c.dir /\ NodeAt(c).value = c.value
  BY CallTypes DEF NodeAt, Nodes
<1> QED
  BY <1>1 DEF Target, NamesFile, Missing, Bytes

LEMMA FileCalled ==
  ASSUME NEW c \in Calls, NamesFile(c), c.left # 0
  PROVE  \E d \in Calls : /\ d = CallFor(c.left - 1, Target(c)) /\ Inner(c) = {d}
                          /\ d.left = c.left - 1 /\ IsObject(d.value)
                          /\ NodeAt(d) = NodeOf(Target(c)) /\ Target(c) \in ObjectFiles
<1>1. PICK d : d = CallFor(c.left - 1, Target(c))
  OBVIOUS
<1>2. Target(c) \in ObjectFiles
  BY DEF NamesFile
<1>3. d \in Calls /\ Inner(c) = {d}
  BY <1>1, <1>2, InnerFile DEF Inner
<1>4. d.left = c.left - 1 /\ d.dir = Front(Target(c)) /\ d.value = decoded(Target(c))
  BY <1>1 DEF CallFor, dirOf
<1>5. IsObject(d.value)
  BY <1>2, <1>4, NodeOfFile
<1>6. NodeAt(d) = NodeOf(Target(c))
  BY <1>4 DEF NodeAt, NodeOf
<1> QED
  BY <1>1, <1>2, <1>3, <1>4, <1>5, <1>6

LEMMA InnerNodes ==
  ASSUME NEW c \in Calls
  PROVE  /\ \A d \in Inner(c) : NodeAt(d) \in Below(NodeAt(c))
         /\ (NamesFile(c) => c.left # 0) => Below(NodeAt(c)) = {NodeAt(d) : d \in Inner(c)}
         /\ ~NamesFile(c) => \A d \in Inner(c) : d.left = c.left
<1>1. CASE NamesFile(c) /\ c.left # 0
  <2>1. PICK d \in Calls : Inner(c) = {d} /\ NodeAt(d) = NodeOf(Target(c))
    BY <1>1, FileCalled
  <2>2. Below(NodeAt(c)) = {NodeOf(Target(c))}
    BY <1>1, NodeOfCall DEF Below
  <2> QED
    BY <1>1, <2>1, <2>2
<1>2. CASE NamesFile(c) /\ c.left = 0
  BY <1>2 DEF Inner
<1>3. CASE ~NamesFile(c) /\ IsReference(c.value)
  <2>1. Inner(c) = {} /\ Below(NodeAt(c)) = {}
    BY <1>3, NodeOfCall DEF Inner, Below
  <2> QED
    BY <2>1
<1>4. CASE ~NamesFile(c) /\ ~IsReference(c.value)
  <2>1. PICK parts : parts = Children(c.value, {})
    OBVIOUS
  <2>2. Inner(c) = {[c EXCEPT !.value = w] : w \in parts}
    BY <1>4, <2>1 DEF Inner
  <2>3. Below(NodeAt(c)) = {[NodeAt(c) EXCEPT !.value = w] : w \in parts}
    BY <1>4, <2>1, NodeOfCall DEF Below
  <2>4. ASSUME NEW w
        PROVE  /\ NodeAt([c EXCEPT !.value = w]) = [NodeAt(c) EXCEPT !.value = w]
               /\ [c EXCEPT !.value = w].left = c.left
    BY CallTypes DEF NodeAt
  <2>5. {NodeAt(d) : d \in Inner(c)} = {NodeAt([c EXCEPT !.value = w]) : w \in parts}
    BY <2>2
  <2>6. Below(NodeAt(c)) = {NodeAt(d) : d \in Inner(c)}
    BY <2>3, <2>4, <2>5
  <2>7. ASSUME NEW d \in Inner(c) PROVE NodeAt(d) \in Below(NodeAt(c)) /\ d.left = c.left
    <3>1. PICK w \in parts : d = [c EXCEPT !.value = w]
      BY <2>2
    <3> QED
      BY <2>4, <2>6, <3>1
  <2> QED
    BY <1>4, <2>6, <2>7
<1> QED
  BY <1>1, <1>2, <1>3, <1>4

LEMMA ReachedInner ==
  ASSUME NEW c \in Calls, NEW d \in Inner(c)
  PROVE  /\ d \in Calls /\ NodeAt(d) \in Reached[{NodeAt(c)}]
         /\ Reached[{NodeAt(d)}] \subseteq Reached[{NodeAt(c)}]
<1>1. NodeAt(d) \in Below(NodeAt(c)) /\ NodeAt(c) \in Nodes /\ d \in Calls
  BY InnerNodes, NodeOfCall, InnerCalls
<1> QED
  BY <1>1, ReachedFrom

LEMMA FileLoads ==
  ASSUME NEW c \in Calls, Loads(c), NamesFile(c)
  PROVE  \E d \in Calls : /\ d = CallFor(c.left - 1, Target(c)) /\ Inner(c) = {d} /\ c.left # 0
                          /\ NodeAt(d) = NodeOf(Target(c)) /\ d.left = c.left - 1
                          /\ Target(c) \in ObjectFiles /\ IsObject(d.value)
                          /\ Loads(d) /\ Result(c) = Result(d)
<1>1. Passes(c) /\ Made(c)
  BY AllExplained DEF Explained
<1>2. c.left # 0
  BY <1>1 DEF Passes, Stuck, NamesFile
<1>3. PICK d \in Calls : /\ d = CallFor(c.left - 1, Target(c)) /\ Inner(c) = {d}
                         /\ NodeAt(d) = NodeOf(Target(c)) /\ d.left = c.left - 1
                         /\ Target(c) \in ObjectFiles /\ IsObject(d.value)
  BY <1>2, FileCalled
<1>4. Loads(d)
  BY <1>1, <1>3 DEF Passes, Fine
<1>5. Result(c) = Result(d)
  BY <1>1, <1>3 DEF Made
<1> QED
  BY <1>2, <1>3, <1>4, <1>5

-----------------------------------------------------------------------------
\* What comes to bytes is what ComesToBytes says.
LEMMA BytesFilesClosed ==
  ASSUME NEW q \in ObjectFiles,
         IsBytes(decoded(q)) \/ (NamesFile(NodeOf(q)) /\ Target(NodeOf(q)) \in BytesFiles)
  PROVE  q \in BytesFiles
<1> SUFFICES ASSUME NEW S \in SUBSET ObjectFiles,
                    \A p \in ObjectFiles :
                      IsBytes(decoded(p)) \/ (NamesFile(NodeOf(p)) /\ Target(NodeOf(p)) \in S)
                        => p \in S
             PROVE  q \in S
  BY DEF BytesFiles
<1>1. BytesFiles \subseteq S
  BY DEF BytesFiles
<1> QED
  BY <1>1

LEMMA BytesFilesLeast ==
  ASSUME NEW S \in SUBSET ObjectFiles,
         \A p \in ObjectFiles :
           IsBytes(decoded(p)) \/ (NamesFile(NodeOf(p)) /\ Target(NodeOf(p)) \in S) => p \in S
  PROVE  BytesFiles \subseteq S
  BY DEF BytesFiles

LEMMA BytesLoad ==
  ASSUME NEW c \in Calls, Loads(c), IsBytes(c.value)
  PROVE  Result(c) = Base64(Bytes(c)) /\ Result(c).type = "base64"
<1>1. Result(c) = Base64(Bytes(c))
  BY AllExplained DEF Explained, Made
<1> QED
  BY <1>1 DEF Base64

LEMMA FilesToBytes ==
  ASSUME NEW p \in BytesFiles, NEW d \in Calls, Loads(d), NodeAt(d) = NodeOf(p)
  PROVE  Result(d).type = "base64"
<1> DEFINE Right(q) == \A x \in Calls : Loads(x) /\ NodeAt(x) = NodeOf(q) => Result(x).type = "base64"
           S == {q \in ObjectFiles : Right(q)}
<1>1. ASSUME NEW q \in ObjectFiles,
             IsBytes(decoded(q)) \/ (NamesFile(NodeOf(q)) /\ Target(NodeOf(q)) \in S)
      PROVE  q \in S
  <2> SUFFICES ASSUME NEW x \in Calls, Loads(x), NodeAt(x) = NodeOf(q)
               PROVE  Result(x).type = "base64"
    OBVIOUS
  <2>1. x.value = decoded(q)
    BY NodeOfCall DEF NodeOf
  <2>2. CASE IsBytes(decoded(q))
    BY <2>1, <2>2, BytesLoad
  <2>3. CASE NamesFile(NodeOf(q)) /\ Target(NodeOf(q)) \in S
    <3>1. NamesFile(x) /\ Target(x) \in S
      BY <2>3, NodeOfCall
    <3>2. PICK y \in Calls : NodeAt(y) = NodeOf(Target(x)) /\ Loads(y) /\ Result(x) = Result(y)
      BY <3>1, FileLoads
    <3> QED
      BY <3>1, <3>2
  <2> QED
    BY <1>1, <2>2, <2>3
<1>2. BytesFiles \subseteq S
  <2> HIDE DEF Right
  <2>1. S \in SUBSET ObjectFiles
    OBVIOUS
  <2> HIDE DEF S
  <2> QED
    BY <1>1, <2>1, BytesFilesLeast
<1> QED
  BY <1>2

LEMMA ComesOnlyToBytes ==
  ASSUME NEW c \in Calls, Loads(c), ComesToBytes(NodeAt(c))
  PROVE  Result(c).type = "base64"
<1>1. CASE IsBytes(c.value)
  BY <1>1, BytesLoad
<1>2. CASE ~IsBytes(c.value)
  <2>1. NamesFile(c) /\ Target(c) \in BytesFiles
    BY <1>2, NodeOfCall DEF ComesToBytes
  <2>2. PICK d \in Calls : NodeAt(d) = NodeOf(Target(c)) /\ Loads(d) /\ Result(c) = Result(d)
    BY <2>1, FileLoads
  <2> QED
    BY <2>1, <2>2, FilesToBytes
<1> QED
  BY <1>1, <1>2

LEMMA OnlyBytesCome ==
  ASSUME NEW c \in Calls, Loads(c), IsObject(c.value), Result(c).type = "base64"
  PROVE  ComesToBytes(NodeAt(c))
<1> DEFINE Is(x) == Loads(x) /\ IsObject(x.value) /\ Result(x).type = "base64"
           T == {x \in Calls : Is(x) => ComesToBytes(NodeAt(x))}
<1>1. ASSUME NEW x \in Calls, Inner(x) \subseteq T PROVE x \in T
  <2> SUFFICES ASSUME Is(x) PROVE ComesToBytes(NodeAt(x))
    OBVIOUS
  <2>1. ~Plain(x.value) /\ ~Missing(x)
    <3>1. Passes(x) /\ Made(x)
      BY AllExplained DEF Explained
    <3> QED
      BY <3>1 DEF Passes, Made, Plain, IsObject
  <2>2. CASE IsBytes(x.value)
    BY <2>2, NodeOfCall DEF ComesToBytes
  <2>3. CASE NamesFile(x)
    <3>1. PICK d \in Calls : /\ Inner(x) = {d} /\ NodeAt(d) = NodeOf(Target(x)) /\ Loads(d)
                             /\ Result(x) = Result(d) /\ Target(x) \in ObjectFiles /\ IsObject(d.value)
      BY <2>3, FileLoads
    <3>2. ComesToBytes(NodeOf(Target(x)))
      BY <1>1, <3>1
    <3>3. Target(x) \in BytesFiles
      BY <3>1, <3>2, BytesFilesClosed DEF ComesToBytes, NodeOf
    <3> QED
      BY <2>3, <3>3, NodeOfCall DEF ComesToBytes
  <2> QED
    BY <2>1, <2>2, <2>3, Kinds DEF IsObject
<1>2. Calls \subseteq T
  <2> HIDE DEF T
  <2> QED
    BY <1>1, CallInduction
<1> QED
  BY <1>2

-----------------------------------------------------------------------------
\* Where a bad end comes from.
LEMMA BadDiffer == Err # Panic /\ {Err, Panic} = Bad
<1>1. Err.type = "error" /\ Panic.type = "panic"
  BY DEF Err, Panic
<1> QED
  BY <1>1 DEF Bad

\* A panic: an object with an object in it that is no bytes.
LEMMA PanicIsObjectInside ==
  ASSUME NEW c \in Calls, Panic \in loadDoc[c]
  PROVE  \E n \in Reached[{NodeAt(c)}] : HasObjectInside(n)
<1> DEFINE Found(x) == \E n \in Reached[{NodeAt(x)}] : HasObjectInside(n)
           T == {x \in Calls : Panic \in loadDoc[x] => Found(x)}
<1>1. ASSUME NEW x \in Calls, Inner(x) \subseteq T PROVE x \in T
  <2> SUFFICES ASSUME Panic \in loadDoc[x] PROVE Found(x)
    OBVIOUS
  <2>1. Blamed(x, Panic)
    BY AllExplained, BadDiffer DEF Explained
  <2>2. CASE \E d \in Inner(x) : Panic \in loadDoc[d]
    <3>1. PICK d \in Inner(x) : Panic \in loadDoc[d]
      BY <2>2
    <3> QED
      BY <1>1, <3>1, ReachedInner
  <2>3. CASE Plain(x.value) /\ \E d \in Inner(x) : IsObject(d.value) /\ Loads(d) /\ IsObject(Result(d))
    <3>1. PICK d \in Inner(x) : IsObject(d.value) /\ Loads(d) /\ IsObject(Result(d))
      BY <2>3
    <3>2. d \in Calls /\ NodeAt(d) \in Below(NodeAt(x)) /\ IsObject(NodeAt(d).value)
      BY <3>1, InnerNodes, InnerCalls, NodeOfCall
    <3>3. ~ComesToBytes(NodeAt(d))
      BY <3>1, <3>2, ComesOnlyToBytes DEF IsObject
    <3>4. HasObjectInside(NodeAt(x))
      BY <2>3, <3>2, <3>3, NodeOfCall DEF HasObjectInside, Plain
    <3> QED
      BY <3>4, NodeOfCall, ReachedFrom
  <2> QED
    BY <2>1, <2>2, <2>3, BadDiffer DEF Blamed
<1>2. Calls \subseteq T
  <2> HIDE DEF T
  <2> QED
    BY <1>1, CallInduction
<1> QED
  BY <1>2

\* The files that are referred to.
FilesFrom(n) == {p \in ObjectFiles : \E m \in Reached[{n}] : NamesFile(m) /\ Target(m) = p}

LEMMA FilesFinite ==
  /\ IsFiniteSet(ObjectFiles) /\ Cardinality(ObjectFiles) \in Nat
  /\ Cardinality(ObjectFiles) < MaxOpen
<1>1. ObjectFiles \in SUBSET DOMAIN Files /\ IsFiniteSet(DOMAIN Files)
  BY DocumentsAssumption DEF ObjectFiles
<1>2. IsFiniteSet(ObjectFiles)
  BY <1>1, FS_Subset
<1> QED
  BY <1>2, FS_CardinalityType, DocumentsAssumption

LEMMA FilesFromType ==
  ASSUME NEW n
  PROVE  /\ FilesFrom(n) \subseteq ObjectFiles /\ IsFiniteSet(FilesFrom(n))
         /\ Cardinality(FilesFrom(n)) \in Nat /\ Cardinality(FilesFrom(n)) < MaxOpen
<1>1. FilesFrom(n) \in SUBSET ObjectFiles
  BY DEF FilesFrom
<1>2. IsFiniteSet(FilesFrom(n)) /\ Cardinality(FilesFrom(n)) <= Cardinality(ObjectFiles)
  BY <1>1, FilesFinite, FS_Subset
<1>3. Cardinality(FilesFrom(n)) \in Nat
  BY <1>2, FS_CardinalityType
<1> QED
  BY <1>1, <1>2, <1>3, FilesFinite, NestingType

LEMMA FilesFromMore ==
  ASSUME NEW n, NEW m, Reached[{m}] \subseteq Reached[{n}]
  PROVE  FilesFrom(m) \subseteq FilesFrom(n) /\ Cardinality(FilesFrom(m)) <= Cardinality(FilesFrom(n))
<1>1. FilesFrom(m) \in SUBSET FilesFrom(n)
  BY DEF FilesFrom
<1> QED
  BY <1>1, FilesFromType, FS_Subset

\* An error: a reference to no file, or a circle.  Without a circle, each reference that is
\* followed refers to a file that no reference behind it does, and there are not so many
\* files that no more could be opened.
LEMMA ErrorIsReference ==
  ASSUME NEW c \in Calls, Err \in loadDoc[c], c.left = MaxOpen
  PROVE  \E n \in Reached[{NodeAt(c)}] : Missing(n) \/ OnCircle(n)
<1> DEFINE Found(x) == \E n \in Reached[{NodeAt(x)}] : Missing(n) \/ OnCircle(n)
           Many(x) == x.left <= Cardinality(FilesFrom(NodeAt(x)))
           T == {x \in Calls : Err \in loadDoc[x] => Found(x) \/ Many(x)}
<1>1. ASSUME NEW x \in Calls, Inner(x) \subseteq T PROVE x \in T
  <2> SUFFICES ASSUME Err \in loadDoc[x], ~Found(x) PROVE Many(x)
    OBVIOUS
  <2>1. Blamed(x, Err)
    BY AllExplained, BadDiffer DEF Explained
  <2>2. NodeAt(x) \in Reached[{NodeAt(x)}] /\ x.left \in Nat
    BY NodeOfCall, ReachedFrom, CallTypes
  <2>3. NamesFile(x) => Target(x) \in FilesFrom(NodeAt(x))
    <3>1. NamesFile(x) => NamesFile(NodeAt(x)) /\ Target(NodeAt(x)) = Target(x) /\ Target(x) \in ObjectFiles
      BY NodeOfCall DEF NamesFile
    <3> QED
      BY <2>2, <3>1 DEF FilesFrom
  <2>4. CASE \E d \in Inner(x) : Err \in loadDoc[d]
    <3>1. PICK d \in Inner(x) : Err \in loadDoc[d]
      BY <2>4
    <3>2. /\ d \in Calls /\ NodeAt(d) \in Reached[{NodeAt(x)}]
          /\ Reached[{NodeAt(d)}] \subseteq Reached[{NodeAt(x)}]
      BY <3>1, ReachedInner
    <3>3. Many(d)
      BY <1>1, <3>1, <3>2
    <3>4. /\ FilesFrom(NodeAt(d)) \subseteq FilesFrom(NodeAt(x))
          /\ Cardinality(FilesFrom(NodeAt(d))) <= Cardinality(FilesFrom(NodeAt(x)))
      BY <3>2, FilesFromMore
    <3>5. CASE ~NamesFile(x)
      <4>1. d.left = x.left
        BY <3>1, <3>5, InnerNodes
      <4> QED
        BY <2>2, <3>3, <3>4, <4>1, FilesFromType
    <3>6. CASE NamesFile(x)
      <4>1. x.left # 0
        BY <3>1, <3>6 DEF Inner
      <4>2. d.left = x.left - 1 /\ NodeAt(d) = NodeOf(Target(x))
        BY <3>1, <3>6, <4>1, FileCalled
      <4>3. Target(x) \notin FilesFrom(NodeAt(d))
        <5> SUFFICES ASSUME Target(x) \in FilesFrom(NodeAt(d)) PROVE FALSE
          OBVIOUS
        <5>1. PICK m \in Reached[{NodeAt(d)}] : NamesFile(m) /\ Target(m) = Target(x)
          BY DEF FilesFrom
        <5>2. Below(m) = {NodeAt(d)}
          BY <4>2, <5>1 DEF Below
        <5>3. OnCircle(m)
          BY <5>1, <5>2 DEF OnCircle
        <5> QED
          BY <3>2, <5>1, <5>3
      <4>4. PICK more : more = FilesFrom(NodeAt(d)) \cup {Target(x)}
        OBVIOUS
      <4>5. Cardinality(more) = Cardinality(FilesFrom(NodeAt(d))) + 1
        BY <4>3, <4>4, FilesFromType, FS_AddElement
      <4>6. more \in SUBSET FilesFrom(NodeAt(x))
        BY <2>3, <3>4, <3>6, <4>4
      <4>7. Cardinality(more) <= Cardinality(FilesFrom(NodeAt(x)))
        BY <4>6, FilesFromType, FS_Subset
      <4> QED
        BY <2>2, <3>3, <4>2, <4>5, <4>7, FilesFromType
    <3> QED
      BY <3>5, <3>6
  <2>5. ~Missing(x)
    BY <2>2, NodeOfCall
  <2>6. CASE Stuck(x)
    BY <2>6, FilesFromType DEF Stuck
  <2> QED
    BY <2>1, <2>4, <2>5, <2>6, BadDiffer DEF Blamed
<1>2. Calls \subseteq T
  <2> HIDE DEF T
  <2> QED
    BY <1>1, CallInduction
<1>3. ~Many(c)
  BY FilesFromType, NestingType
<1> QED
  BY <1>2, <1>3

-----------------------------------------------------------------------------
\* The calls that a call leads to.
CallsFrom(c) ==
  {d \in Calls : \A S \in SUBSET Calls : c \in S /\ (\A x \in S : Inner(x) \subseteq S) => d \in S}

LEMMA CallsFromLeast ==
  ASSUME NEW c, NEW S \in SUBSET Calls, c \in S, \A x \in S : Inner(x) \subseteq S
  PROVE  CallsFrom(c) \subseteq S
  BY DEF CallsFrom

LEMMA CallsFromClosed ==
  ASSUME NEW c \in Calls
  PROVE  /\ c \in CallsFrom(c) /\ CallsFrom(c) \in SUBSET Calls
         /\ \A d \in CallsFrom(c) : Inner(d) \subseteq CallsFrom(c)
         /\ \A d \in CallsFrom(c) : CallsFrom(d) \subseteq CallsFrom(c)
<1>1. c \in CallsFrom(c) /\ CallsFrom(c) \in SUBSET Calls
  BY DEF CallsFrom
<1>2. ASSUME NEW d \in CallsFrom(c), NEW e \in Inner(d) PROVE e \in CallsFrom(c)
  <2>1. d \in Calls /\ e \in Calls
    BY <1>1, InnerCalls
  <2> SUFFICES ASSUME NEW S \in SUBSET Calls, c \in S, \A x \in S : Inner(x) \subseteq S
               PROVE  e \in S
    BY <2>1 DEF CallsFrom
  <2>2. d \in S
    BY CallsFromLeast
  <2> QED
    BY <2>2
<1>3. ASSUME NEW d \in CallsFrom(c) PROVE CallsFrom(d) \subseteq CallsFrom(c)
  BY <1>1, <1>2, CallsFromLeast
<1> QED
  BY <1>1, <1>2, <1>3

LEMMA AllLoad ==
  ASSUME NEW c \in Calls, Loads(c)
  PROVE  \A d \in CallsFrom(c) : d \in Calls /\ Loads(d) /\ Passes(d) /\ Made(d)
<1> DEFINE S == {d \in Calls : Loads(d)}
<1>1. ASSUME NEW x \in S, NEW d \in Inner(x) PROVE d \in S
  <2>1. Passes(x) /\ d \in Calls
    BY AllExplained, InnerCalls DEF Explained
  <2> QED
    BY <2>1 DEF Passes, Fine
<1>2. CallsFrom(c) \subseteq S
  <2>1. c \in S /\ S \in SUBSET Calls
    OBVIOUS
  <2> HIDE DEF S
  <2> QED
    BY <1>1, <2>1, CallsFromLeast
<1> QED
  BY <1>2, AllExplained DEF Explained

LEMMA DepthFalls ==
  ASSUME NEW c \in Calls
  PROVE  \A d \in CallsFrom(c) : d.left <= c.left
<1> DEFINE S == {d \in Calls : d.left <= c.left}
<1>1. ASSUME NEW x \in S, NEW d \in Inner(x) PROVE d \in S
  <2>1. d \in Calls /\ x.left \in Nat /\ d.left \in Nat /\ c.left \in Nat
    BY InnerCalls, CallTypes
  <2>2. d.left <= x.left
    <3>1. CASE NamesFile(x)
      <4>1. x.left # 0
        BY <3>1 DEF Inner
      <4>2. d.left = x.left - 1
        BY <3>1, <4>1, FileCalled
      <4> QED
        BY <2>1, <4>2
    <3>2. CASE ~NamesFile(x)
      BY <2>1, <3>2, InnerNodes
    <3> QED
      BY <3>1, <3>2
  <2> QED
    BY <2>1, <2>2
<1>2. CallsFrom(c) \subseteq S
  <2>1. c \in S /\ S \in SUBSET Calls
    BY CallTypes
  <2> HIDE DEF S
  <2> QED
    BY <1>1, <2>1, CallsFromLeast
<1> QED
  BY <1>2

\* A call that loads meets every node that its own leads to.
LEMMA NodesMet ==
  ASSUME NEW c \in Calls, Loads(c)
  PROVE  Reached[{NodeAt(c)}] = {NodeAt(d) : d \in CallsFrom(c)}
<1> DEFINE N == {NodeAt(d) : d \in CallsFrom(c)}
<1>1. NodeAt(c) \in Nodes /\ c \in CallsFrom(c)
  BY NodeOfCall, CallsFromClosed
<1>2. Reached[{NodeAt(c)}] \subseteq N
  <2>1. ASSUME NEW n \in N PROVE Below(n) \subseteq N
    <3>1. PICK d \in CallsFrom(c) : n = NodeAt(d)
      OBVIOUS
    <3>2. d \in Calls /\ (NamesFile(d) => d.left # 0) /\ Inner(d) \subseteq CallsFrom(c)
      BY AllLoad, CallsFromClosed DEF Passes, Stuck, NamesFile
    <3>3. Below(n) = {NodeAt(e) : e \in Inner(d)}
      BY <3>1, <3>2, InnerNodes
    <3> QED
      BY <3>2, <3>3
  <2>2. {NodeAt(c)} \in SUBSET Nodes /\ {NodeAt(c)} \subseteq N
    BY <1>1
  <2> HIDE DEF N
  <2> QED
    BY <2>1, <2>2, ReachedLeast
<1>3. ASSUME NEW d \in CallsFrom(c) PROVE NodeAt(d) \in Reached[{NodeAt(c)}]
  <2> DEFINE S == {x \in Calls : NodeAt(x) \in Reached[{NodeAt(c)}]}
  <2>1. ASSUME NEW x \in S, NEW e \in Inner(x) PROVE e \in S
    BY <1>1, InnerCalls, InnerNodes, ReachedFrom
  <2>2. c \in S /\ S \in SUBSET Calls
    BY <1>1, ReachedFrom
  <2>3. CallsFrom(c) \subseteq S
    <3> HIDE DEF S
    <3> QED
      BY <2>1, <2>2, CallsFromLeast
  <2> QED
    BY <2>3
<1> QED
  BY <1>2, <1>3

\* None of them is one that cannot be loaded.
LEMMA NoneMissing ==
  ASSUME NEW c \in Calls, Loads(c), NEW n \in Reached[{NodeAt(c)}]
  PROVE  ~Missing(n) /\ ~HasObjectInside(n)
<1>1. PICK d \in CallsFrom(c) : n = NodeAt(d)
  BY NodesMet
<1>2. d \in Calls /\ Passes(d)
  BY <1>1, AllLoad
<1>3. ~Missing(n)
  BY <1>1, <1>2, NodeOfCall DEF Passes
<1>4. ASSUME HasObjectInside(n) PROVE FALSE
  <2>1. Plain(d.value)
    BY <1>1, <1>2, <1>4, NodeOfCall DEF HasObjectInside, Plain
  <2>2. ~NamesFile(d)
    BY <1>2, <2>1, PlainInner
  <2>3. Below(n) = {NodeAt(e) : e \in Inner(d)}
    BY <1>1, <1>2, <2>2, InnerNodes
  <2>4. PICK e \in Inner(d) : IsObject(NodeAt(e).value) /\ ~ComesToBytes(NodeAt(e))
    BY <1>4, <2>3 DEF HasObjectInside
  <2>5. e \in Calls /\ IsObject(e.value) /\ Loads(e) /\ ~IsObject(Result(e))
    BY <1>2, <2>1, <2>4, InnerCalls, NodeOfCall DEF Passes, Fine
  <2>6. Result(e).type = "base64"
    BY <2>5, ResultTypes DEF IsObject
  <2> QED
    BY <2>4, <2>5, <2>6, OnlyBytesCome
<1> QED
  BY <1>3, <1>4

\* Nor is one on a circle: of the calls about it that load, the one that can open the fewest
\* more files would call another.
LEMMA NoneOnCircle ==
  ASSUME NEW c \in Calls, Loads(c), NEW n \in Reached[{NodeAt(c)}]
  PROVE  ~OnCircle(n)
<1> SUFFICES ASSUME OnCircle(n) PROVE FALSE
  OBVIOUS
<1> DEFINE S == {d.left : d \in {d \in Calls : Loads(d) /\ NodeAt(d) = n}}
<1>1. S \in SUBSET Nat
  BY CallTypes
<1>2. S # {}
  <2>1. PICK d \in CallsFrom(c) : n = NodeAt(d)
    BY NodesMet
  <2> QED
    BY <2>1, AllLoad
<1>3. PICK k \in S : \A j \in S : k <= j
  <2> HIDE DEF S
  <2> QED
    BY <1>1, <1>2, Least
<1>4. PICK d \in Calls : Loads(d) /\ NodeAt(d) = n /\ d.left = k
  OBVIOUS
<1>5. NamesFile(d) /\ NamesFile(n) /\ Target(n) = Target(d)
  BY <1>4, NodeOfCall DEF OnCircle
<1>6. PICK e \in Calls : Loads(e) /\ NodeAt(e) = NodeOf(Target(d)) /\ e.left = d.left - 1
  BY <1>4, <1>5, FileLoads
<1>7. n \in Reached[{NodeAt(e)}]
  <2>1. Below(n) = {NodeAt(e)}
    BY <1>5, <1>6 DEF Below
  <2> QED
    BY <2>1 DEF OnCircle
<1>8. PICK x \in CallsFrom(e) : n = NodeAt(x)
  BY <1>6, <1>7, NodesMet
<1>9. x \in Calls /\ Loads(x) /\ x.left <= e.left
  BY <1>6, AllLoad, DepthFalls
<1>10. k <= x.left
  BY <1>3, <1>8, <1>9
<1> QED
  BY <1>4, <1>6, <1>9, <1>10, CallTypes

-----------------------------------------------------------------------------
\* The values in what a call comes to are what the calls it leads to come to.
LEMMA NoParts == ASSUME NEW r, r.type \notin {"object", "list"} PROVE Children(r, {}) = {}
  BY DEF Children, IsObject

LEMMA PartsMade ==
  ASSUME NEW c \in Calls, Loads(c)
  PROVE  ~NamesFile(c) => Children(Result(c), {}) = {Result(d) : d \in Inner(c)}
<1>1. Made(c) /\ Passes(c)
  BY AllExplained DEF Explained
<1>2. CASE c.value.type = "list" \/ Plain(c.value)
  BY <1>1, <1>2 DEF Made
<1>3. CASE IsBytes(c.value)
  <2>1. Children(Result(c), {}) = {}
    BY <1>3, BytesLoad, NoParts
  <2>2. ~NamesFile(c) => Inner(c) = {}
    BY <1>3 DEF Inner, IsBytes, IsFileBytes, IsReference
  <2> QED
    BY <2>1, <2>2
<1>4. CASE c.value.type \notin {"list", "object"}
  <2>1. Result(c) = c.value
    BY <1>1, <1>4 DEF Made
  <2>2. Children(Result(c), {}) = {}
    BY <1>4, <2>1, NoParts
  <2>3. ~NamesFile(c) => Inner(c) = {}
    BY <1>4, <2>1, <2>2 DEF Inner
  <2> QED
    BY <2>2, <2>3
<1> QED
  BY <1>1, <1>2, <1>3, <1>4, Kinds DEF Passes

LEMMA PartsAreResults ==
  ASSUME NEW c \in Calls, Loads(c)
  PROVE  Children(Result(c), {}) \subseteq {Result(d) : d \in CallsFrom(c)}
<1> DEFINE Found(x) == Children(Result(x), {}) \subseteq {Result(d) : d \in CallsFrom(x)}
           T == {x \in Calls : Loads(x) => Found(x)}
<1>1. ASSUME NEW x \in Calls, Inner(x) \subseteq T PROVE x \in T
  <2> SUFFICES ASSUME Loads(x) PROVE Found(x)
    OBVIOUS
  <2>1. x \in CallsFrom(x) /\ Inner(x) \subseteq CallsFrom(x)
    BY CallsFromClosed
  <2>2. CASE ~NamesFile(x)
    <3>1. Children(Result(x), {}) = {Result(d) : d \in Inner(x)}
      BY <2>2, PartsMade
    <3> QED
      BY <2>1, <3>1
  <2>3. CASE NamesFile(x)
    <3>1. PICK d \in Calls : Inner(x) = {d} /\ Loads(d) /\ Result(x) = Result(d)
      BY <2>3, FileLoads
    <3>2. Found(d)
      BY <1>1, <3>1
    <3>3. CallsFrom(d) \subseteq CallsFrom(x)
      BY <2>1, <3>1, CallsFromClosed
    <3> QED
      BY <3>1, <3>2, <3>3
  <2> QED
    BY <2>2, <2>3
<1>2. Calls \subseteq T
  <2> HIDE DEF T
  <2> QED
    BY <1>1, CallInduction
<1> QED
  BY <1>2

\* A result nests no deeper than its call is high, so Within has all of it.
LEMMA ResultEnds ==
  ASSUME NEW c \in Calls, Loads(c)
  PROVE  EndsBy(Result(c), {}, Height(c))
<1> DEFINE Ends(x) == EndsBy(Result(x), {}, Height(x))
           T == {x \in Calls : Loads(x) => Ends(x)}
<1>1. ASSUME NEW x \in Calls, Inner(x) \subseteq T PROVE x \in T
  <2> SUFFICES ASSUME Loads(x) PROVE Ends(x)
    OBVIOUS
  <2>1. ASSUME NEW d \in Inner(x)
        PROVE  /\ Height(d) \in Nat /\ Height(x) \in Nat /\ Height(d) < Height(x)
               /\ Loads(d) /\ Ends(d)
    <3>1. d \in Calls /\ Height(d) < Height(x) /\ Height(d) \in Nat /\ Height(x) \in Nat
      BY InnerCalls, HeightType
    <3>2. Loads(d)
      BY AllExplained DEF Explained, Passes, Fine
    <3> QED
      BY <1>1, <3>1, <3>2
  <2>2. CASE ~NamesFile(x)
    <3>1. Children(Result(x), {}) = {Result(d) : d \in Inner(x)}
      BY <2>2, PartsMade
    <3>2. Height(x) \in Nat
      BY HeightType
    <3>3. ASSUME NEW r \in Children(Result(x), {})
          PROVE  Height(x) # 0 /\ EndsBy(r, {}, Height(x) - 1)
      <4>1. PICK d \in Inner(x) : r = Result(d)
        BY <3>1
      <4>2. /\ Height(d) \in Nat /\ Height(x) # 0 /\ Height(x) - 1 \in Nat
            /\ Height(d) <= Height(x) - 1 /\ EndsBy(r, {}, Height(d))
        BY <2>1, <3>2, <4>1
      <4> QED
        BY <4>2, EndsLater
    <3> QED
      BY <3>2, <3>3, EndsAfterParts
  <2>3. CASE NamesFile(x)
    <3>1. PICK d \in Calls : Inner(x) = {d} /\ Result(x) = Result(d)
      BY <2>3, FileLoads
    <3>2. /\ Height(d) \in Nat /\ Height(x) \in Nat /\ Height(d) <= Height(x)
          /\ EndsBy(Result(x), {}, Height(d))
      BY <2>1, <3>1
    <3> QED
      BY <3>2, EndsLater
  <2> QED
    BY <2>2, <2>3
<1>2. Calls \subseteq T
  <2> HIDE DEF T
  <2> QED
    BY <1>1, CallInduction
<1> QED
  BY <1>2

\* Nothing is lost, at any depth.
LEMMA WithinResult ==
  ASSUME NEW c \in Calls, Loads(c)
  PROVE  Within(Result(c), {}) = {Result(d) : d \in CallsFrom(c)}
<1> DEFINE R == {Result(d) : d \in CallsFrom(c)}
<1>1. Within(Result(c), {}) \subseteq R
  <2>1. Result(c) \in R
    BY CallsFromClosed
  <2>2. ASSUME NEW w \in R PROVE Children(w, {}) \subseteq R
    <3>1. PICK d \in CallsFrom(c) : w = Result(d)
      OBVIOUS
    <3>2. d \in Calls /\ Loads(d) /\ CallsFrom(d) \subseteq CallsFrom(c)
      BY AllLoad, CallsFromClosed
    <3>3. Children(w, {}) \subseteq {Result(e) : e \in CallsFrom(d)}
      BY <3>1, <3>2, PartsAreResults
    <3> QED
      BY <3>2, <3>3
  <2> HIDE DEF R
  <2> QED
    BY <2>1, <2>2, WithinLeast
<1>2. ASSUME NEW d \in CallsFrom(c) PROVE Result(d) \in Within(Result(c), {})
  <2> DEFINE W == Within(Result(c), {})
             S == {x \in Calls : Loads(x) /\ Result(x) \in W}
  <2>1. \A w \in W : Children(w, {}) \subseteq W
    <3>1. Height(c) \in Nat /\ Height(c) <= Deepest
      BY HeightType, DeepestType
    <3> QED
      BY <3>1, ResultEnds, WithinClosed
  <2>2. ASSUME NEW x \in S, NEW e \in Inner(x) PROVE e \in S
    <3>1. e \in Calls /\ Loads(e)
      BY AllExplained, InnerCalls DEF Explained, Passes, Fine
    <3>2. CASE ~NamesFile(x)
      <4>1. Result(e) \in Children(Result(x), {})
        BY <3>2, PartsMade
      <4> QED
        BY <2>1, <3>1, <4>1
    <3>3. CASE NamesFile(x)
      <4>1. Result(x) = Result(e)
        BY <3>3, FileLoads
      <4> QED
        BY <3>1, <4>1
    <3> QED
      BY <3>2, <3>3
  <2>3. c \in S /\ S \in SUBSET Calls
    BY ItselfWithin
  <2>4. CallsFrom(c) \subseteq S
    <3> HIDE DEF S
    <3> QED
      BY <2>2, <2>3, CallsFromLeast
  <2> QED
    BY <2>4
<1> QED
  BY <1>1, <1>2

\* What a reference to a file comes to is what some value that is none comes to.
LEMMA ComesFromValue ==
  ASSUME NEW c \in Calls, Loads(c)
  PROVE  \E d \in CallsFrom(c) : ~NamesFile(d) /\ Result(d) = Result(c)
<1> DEFINE Found(x) == \E d \in CallsFrom(x) : ~NamesFile(d) /\ Result(d) = Result(x)
           T == {x \in Calls : Loads(x) => Found(x)}
<1>1. ASSUME NEW x \in Calls, Inner(x) \subseteq T PROVE x \in T
  <2> SUFFICES ASSUME Loads(x) PROVE Found(x)
    OBVIOUS
  <2>1. CASE ~NamesFile(x)
    BY <2>1, CallsFromClosed
  <2>2. CASE NamesFile(x)
    <3>1. PICK d \in Calls : Inner(x) = {d} /\ Loads(d) /\ Result(x) = Result(d)
      BY <2>2, FileLoads
    <3>2. Found(d)
      BY <1>1, <3>1
    <3>3. CallsFrom(d) \subseteq CallsFrom(x)
      BY <3>1, CallsFromClosed
    <3> QED
      BY <3>1, <3>2, <3>3
  <2> QED
    BY <2>1, <2>2
<1>2. Calls \subseteq T
  <2> HIDE DEF T
  <2> QED
    BY <1>1, CallInduction
<1> QED
  BY <1>2

\* Nothing is left as a reference.
LEMMA NoReferenceLeft ==
  ASSUME NEW c \in Calls, Loads(c)
  PROVE  ~IsReference(Result(c))
<1>1. PICK d \in CallsFrom(c) : ~NamesFile(d) /\ Result(d) = Result(c)
  BY ComesFromValue
<1>2. d \in Calls /\ Loads(d) /\ Passes(d) /\ Made(d)
  BY AllLoad
<1> SUFFICES ASSUME IsReference(Result(d)) PROVE FALSE
  BY <1>1
<1>3. PICK k \in {"$ref", "$raw"} : HasText(Result(d), k)
  BY DEF IsReference
<1>4. Result(d).type = "object"
  BY <1>3 DEF HasText, IsObject
<1>5. Plain(d.value)
  <2>1. ~IsBytes(d.value)
    BY <1>2, <1>4, BytesLoad
  <2>2. d.value.type = "object"
    BY <1>2, <1>4, ResultTypes
  <2> QED
    BY <1>1, <1>2, <2>1, <2>2, Kinds DEF Passes
<1>6. /\ k \in DOMAIN d.value.fields
      /\ Result(d).fields[k] = Result(At(d, d.value.fields[k]))
      /\ At(d, d.value.fields[k]) \in Inner(d)
  BY <1>2, <1>3, <1>5, PlainInner DEF Made, HasText
<1>7. PICK e \in Inner(d) : e = At(d, d.value.fields[k]) /\ Result(e).type = "text"
  BY <1>3, <1>6 DEF HasText
<1>8. e \in Calls /\ Loads(e) /\ e.value = d.value.fields[k]
  BY <1>2, <1>7, InnerCalls, CallTypes DEF Passes, Fine, At
<1>9. e.value.type = "text"
  BY <1>7, <1>8, ResultTypes
<1>10. HasText(d.value, k)
  BY <1>5, <1>6, <1>8, <1>9 DEF HasText, Plain
<1> QED
  BY <1>5, <1>10 DEF Plain, IsReference

-----------------------------------------------------------------------------
\* The scalars of a result: those of the nodes, and the bytes that some of them stand for.
LEMMA ResultScalars ==
  ASSUME NEW c \in Calls, Loads(c)
  PROVE  LET N == Reached[{NodeAt(c)}]
         IN  Scalars(Within(Result(c), {})) =
               Scalars({n.value : n \in N}) \cup {Base64(Bytes(n)) : n \in {n \in N : IsBytes(n.value)}}
<1> DEFINE N == Reached[{NodeAt(c)}]
           isScalar(x) == x.type \notin {"object", "list", "nil"}
           bytes == {Base64(Bytes(n)) : n \in {n \in N : IsBytes(n.value)}}
<1>1. Within(Result(c), {}) = {Result(d) : d \in CallsFrom(c)}
  BY WithinResult
<1>2. N = {NodeAt(d) : d \in CallsFrom(c)}
  BY NodesMet
<1>3. \A S, x : x \in Scalars(S) <=> x \in S /\ isScalar(x)
  BY DEF Scalars
<1> HIDE DEF isScalar, N
<1>4. ASSUME NEW x, x \in Within(Result(c), {}), isScalar(x)
      PROVE  (\E n \in N : x = n.value) \/ x \in bytes
  <2>1. PICK b \in CallsFrom(c) : x = Result(b)
    BY <1>1, <1>4
  <2>2. b \in Calls /\ Loads(b)
    BY <2>1, AllLoad
  <2>3. PICK d \in CallsFrom(b) : ~NamesFile(d) /\ Result(d) = x
    BY <2>1, <2>2, ComesFromValue
  <2>4. d \in Calls /\ Loads(d) /\ Passes(d) /\ Made(d)
    BY <2>2, <2>3, AllLoad
  <2>5. NodeAt(d) \in N /\ NodeAt(d).value = d.value /\ Bytes(NodeAt(d)) = Bytes(d)
    <3>1. d \in CallsFrom(c)
      BY <2>1, <2>3, CallsFromClosed
    <3> QED
      BY <1>2, <2>4, <3>1, NodeOfCall
  <2>6. CASE IsBytes(d.value)
    <3>1. x = Base64(Bytes(NodeAt(d)))
      BY <2>3, <2>4, <2>5, <2>6, BytesLoad
    <3> QED
      BY <2>5, <2>6, <3>1
  <2>7. CASE d.value.type \notin {"list", "object"}
    <3>1. x = d.value
      BY <2>3, <2>4, <2>7 DEF Made
    <3> QED
      BY <2>5, <3>1
  <2>8. CASE d.value.type = "list" \/ Plain(d.value)
    <3>1. x.type = d.value.type /\ (Plain(d.value) => d.value.type = "object")
      BY <2>3, <2>4, <2>8 DEF Made, Plain, IsObject
    <3> QED
      BY <1>4, <2>8, <3>1 DEF isScalar
  <2> QED
    BY <2>3, <2>4, <2>6, <2>7, <2>8, Kinds DEF Passes
<1>5. ASSUME NEW n \in N, isScalar(n.value) PROVE n.value \in Within(Result(c), {})
  <2>1. PICK d \in CallsFrom(c) : n = NodeAt(d)
    BY <1>2
  <2>2. d \in Calls /\ Loads(d) /\ Made(d) /\ n.value = d.value
    BY <2>1, AllLoad, NodeOfCall
  <2>3. Result(d) = d.value
    BY <1>5, <2>2 DEF isScalar, Made
  <2> QED
    BY <1>1, <2>1, <2>2, <2>3
<1>6. ASSUME NEW n \in N, IsBytes(n.value)
      PROVE  Base64(Bytes(n)) \in Within(Result(c), {}) /\ isScalar(Base64(Bytes(n)))
  <2>1. PICK d \in CallsFrom(c) : n = NodeAt(d)
    BY <1>2
  <2>2. d \in Calls /\ Loads(d) /\ n.value = d.value /\ Bytes(n) = Bytes(d)
    BY <2>1, AllLoad, NodeOfCall
  <2>3. Result(d) = Base64(Bytes(n)) /\ Result(d).type = "base64"
    BY <1>6, <2>2, BytesLoad
  <2>4. isScalar(Result(d))
    BY <2>3 DEF isScalar
  <2> QED
    BY <1>1, <2>1, <2>3, <2>4
<1>7. PICK values : values = {n.value : n \in N}
  OBVIOUS
<1>8. ASSUME NEW x PROVE x \in Scalars(Within(Result(c), {})) <=> x \in Scalars(values) \/ x \in bytes
  <2>1. ASSUME x \in Scalars(Within(Result(c), {})) PROVE x \in Scalars(values) \/ x \in bytes
    <3>1. x \in Within(Result(c), {}) /\ isScalar(x)
      BY <1>3, <2>1
    <3>2. x \in values \/ x \in bytes
      BY <1>4, <1>7, <3>1
    <3> QED
      BY <1>3, <3>1, <3>2
  <2>2. ASSUME x \in Scalars(values) PROVE x \in Scalars(Within(Result(c), {}))
    <3>1. x \in values /\ isScalar(x)
      BY <1>3, <2>2
    <3>2. x \in Within(Result(c), {})
      BY <1>5, <1>7, <3>1
    <3> QED
      BY <1>3, <3>1, <3>2
  <2>3. ASSUME x \in bytes PROVE x \in Scalars(Within(Result(c), {}))
    <3>1. PICK n \in N : IsBytes(n.value) /\ x = Base64(Bytes(n))
      BY <2>3
    <3> QED
      BY <1>3, <1>6, <3>1
  <2> QED
    BY <2>1, <2>2, <2>3
<1>9. Scalars(Within(Result(c), {})) = Scalars(values) \cup bytes
  <2> HIDE DEF bytes
  <2> QED
    BY <1>8
<1> QED
  BY <1>7, <1>9 DEF N

\* The list that an object is put into.
LEMMA WithinOne ==
  ASSUME NEW r, NEW k \in Nat, k + 1 <= Deepest, EndsBy(r, {}, k)
  PROVE  Within(List(<<r>>), {}) = {List(<<r>>)} \cup Within(r, {})
<1> DEFINE l == List(<<r>>)
<1>1. Children(l, {}) = {r} /\ l.type = "list"
  BY DEF List, Children, IsObject
<1> HIDE DEF l
<1>2. EndsBy(l, {}, k + 1)
  <2>1. k + 1 \in Nat /\ k + 1 # 0 /\ (k + 1) - 1 = k
    OBVIOUS
  <2> QED
    BY <1>1, <2>1, EndsAfterParts
<1>3. \A w \in Within(l, {}) : Children(w, {}) \subseteq Within(l, {})
  BY <1>2, WithinClosed
<1>4. \A w \in Within(r, {}) : Children(w, {}) \subseteq Within(r, {})
  <2>1. k <= Deepest
    BY DeepestType
  <2> QED
    BY <2>1, WithinClosed
<1>5. l \in Within(l, {}) /\ r \in Within(l, {}) /\ r \in Within(r, {})
  BY <1>1, <1>3, ItselfWithin
<1>6. Within(r, {}) \subseteq Within(l, {})
  BY <1>3, <1>5, WithinLeast
<1>7. Within(l, {}) \subseteq {l} \cup Within(r, {})
  <2>1. \A w \in {l} \cup Within(r, {}) : Children(w, {}) \subseteq {l} \cup Within(r, {})
    BY <1>1, <1>4, <1>5
  <2>2. l \in {l} \cup Within(r, {})
    OBVIOUS
  <2> QED
    BY <2>1, <2>2, WithinLeast
<1>8. Within(l, {}) = {l} \cup Within(r, {})
  BY <1>5, <1>6, <1>7
<1> QED
  BY <1>8 DEF l

\* The message of a document that is null.
LEMMA EmptyMessage ==
  LET m == List(<<Obj(<<>>)>>)
  IN  Scalars(Within(m, {})) = {} /\ \A v \in Within(m, {}) : ~IsReference(v)
<1> DEFINE e == Obj(<<>>)
           m == List(<<e>>)
<1>1. e.type = "object" /\ Children(e, {}) = {} /\ ~IsReference(e)
  <2>1. e.type = "object" /\ e.fields = <<>>
    BY DEF Obj
  <2>2. DOMAIN <<>> = {}
    OBVIOUS
  <2>3. \A k : k \notin DOMAIN e.fields
    BY <2>1, <2>2
  <2> HIDE DEF e
  <2> QED
    BY <2>1, <2>3 DEF Children, IsObject, IsReference, HasText
<1>2. m.type = "list" /\ ~IsReference(m) /\ Children(m, {}) = {e}
  BY DEF List, IsReference, HasText, IsObject, Children
<1> HIDE DEF e, m
<1>3. Within(m, {}) \subseteq {m, e}
  BY <1>1, <1>2, WithinLeast
<1>4. Scalars(Within(m, {})) = {}
  BY <1>1, <1>2, <1>3 DEF Scalars
<1>5. \A v \in Within(m, {}) : ~IsReference(v)
  BY <1>1, <1>2, <1>3
<1> QED
  BY <1>4, <1>5 DEF e, m

\* What is right of the messages of a document, by what they are.
Whole(N, m) ==
  /\ \A n \in N : ~Missing(n) /\ ~OnCircle(n) /\ ~HasObjectInside(n)
  /\ \A v \in Within(m, {}) : ~IsReference(v)
  /\ Scalars(Within(m, {})) =
       Scalars({n.value : n \in N}) \cup {Base64(Bytes(n)) : n \in {n \in N : IsBytes(n.value)}}

LEMMA ResultWhole ==
  ASSUME NEW c \in Calls, Loads(c)
  PROVE  Whole(Reached[{NodeAt(c)}], Result(c))
<1>1. \A v \in Within(Result(c), {}) : ~IsReference(v)
  <2> TAKE v \in Within(Result(c), {})
  <2>1. PICK d \in CallsFrom(c) : v = Result(d)
    BY WithinResult
  <2> QED
    BY <2>1, AllLoad, NoReferenceLeft
<1>2. \A n \in Reached[{NodeAt(c)}] : ~Missing(n) /\ ~OnCircle(n) /\ ~HasObjectInside(n)
  BY NoneMissing, NoneOnCircle
<1> QED
  BY <1>1, <1>2, ResultScalars DEF Whole

LEMMA ObjectWhole ==
  ASSUME NEW c \in Calls, Loads(c)
  PROVE  Whole(Reached[{NodeAt(c)}], List(<<Result(c)>>))
<1> DEFINE l == List(<<Result(c)>>)
<1>1. Within(l, {}) = {l} \cup Within(Result(c), {})
  BY HeightType, ResultEnds, WithinOne
<1>2. l.type = "list" /\ ~IsReference(l)
  BY DEF List, IsReference, HasText, IsObject
<1>3. Whole(Reached[{NodeAt(c)}], Result(c))
  BY ResultWhole
<1> HIDE DEF l
<1>4. Scalars(Within(l, {})) = Scalars(Within(Result(c), {}))
  BY <1>1, <1>2 DEF Scalars
<1>5. \A v \in Within(l, {}) : ~IsReference(v)
  BY <1>1, <1>2, <1>3 DEF Whole
<1>6. Whole(Reached[{NodeAt(c)}], l)
  BY <1>3, <1>4, <1>5 DEF Whole
<1> QED
  BY <1>6 DEF l

LEMMA NullWhole ==
  ASSUME NEW c \in Calls, Loads(c), Result(c).type = "nil"
  PROVE  Whole(Reached[{NodeAt(c)}], List(<<Obj(<<>>)>>))
<1>1. c.value.type = "nil"
  BY ResultTypes
<1>2. ~NamesFile(c) /\ ~IsReference(c.value) /\ ~IsBytes(c.value) /\ Children(c.value, {}) = {}
  BY <1>1 DEF NamesFile, IsReference, IsBytes, IsFileBytes, HasText, IsObject, Children
<1>3. Below(NodeAt(c)) = {}
  BY <1>2, NodeOfCall DEF Below
<1>4. Reached[{NodeAt(c)}] = {NodeAt(c)}
  <2>1. Reached[{NodeAt(c)}] \subseteq {NodeAt(c)}
    BY <1>3, NodeOfCall, ReachedLeast
  <2>2. NodeAt(c) \in Reached[{NodeAt(c)}]
    BY NodeOfCall, ReachedFrom
  <2> QED
    BY <2>1, <2>2
<1>5. NodeAt(c).value = c.value
  BY NodeOfCall
<1>6. /\ Scalars({n.value : n \in {NodeAt(c)}}) = {}
      /\ {Base64(Bytes(n)) : n \in {n \in {NodeAt(c)} : IsBytes(n.value)}} = {}
  BY <1>1, <1>2, <1>5 DEF Scalars
<1>7. \A n \in Reached[{NodeAt(c)}] : ~Missing(n) /\ ~OnCircle(n) /\ ~HasObjectInside(n)
  BY NoneMissing, NoneOnCircle
<1> QED
  BY <1>4, <1>6, <1>7, EmptyMessage DEF Whole

\* The messages of a document, whatever it is and whatever files there are.
LEMMA DocumentMessages ==
  ASSUME NEW v \in Values, NEW m \in newDocToMsgs(v)
  PROVE  LET N == Reached[{[dir |-> SuitePath, value |-> v]}]
         IN  /\ m.type = "list" => Whole(N, m)
             /\ m = Panic => \E n \in N : HasObjectInside(n)
             /\ m.type = "list" \/ m = Panic
                \/ \E n \in N : \/ Missing(n) \/ OnCircle(n)
                                \/ n.value = v /\ (ComesToBytes(n) \/ Scalars({n.value}) # {})
<1> DEFINE c == [left |-> MaxOpen, dir |-> SuitePath, value |-> v]
           root == [dir |-> SuitePath, value |-> v]
<1>1. c \in Calls /\ c.left = MaxOpen /\ c.value = v /\ NodeAt(c) = root
  <2>1. SuitePath \in Dirs /\ MaxOpen \in 0 .. MaxOpen
    BY NestingType DEF Dirs
  <2> QED
    BY <2>1 DEF Calls, NodeAt
<1>2. root \in Reached[{root}] /\ root.value = v
  BY <1>1, NodeOfCall, ReachedFrom
<1>3. PICK d \in loadDoc[c] :
        m = IF d \in Bad THEN d
            ELSE CASE d.type = "list" -> d
                   [] d.type = "object" -> List(<<d>>)
                   [] d.type = "nil" -> List(<<Obj(<<>>)>>)
                   [] OTHER -> Err
  BY DEF newDocToMsgs
<1> HIDE DEF c, root
<1>4. CASE d \in Bad
  <2>1. m = d /\ m.type # "list"
    BY <1>3, <1>4, BadTypes
  <2>2. m = Err \/ m = Panic
    BY <1>4, <2>1 DEF Bad
  <2>3. m = Err => \E n \in Reached[{root}] : Missing(n) \/ OnCircle(n)
    BY <1>1, <2>1, ErrorIsReference
  <2>4. m = Panic => \E n \in Reached[{root}] : HasObjectInside(n)
    BY <1>1, <2>1, PanicIsObjectInside
  <2> QED
    BY <2>1, <2>2, <2>3, <2>4 DEF root
<1>5. CASE d \notin Bad
  <2>1. Loads(c) /\ d = Result(c)
    <3>1. Proper(loadDoc[c])
      BY <1>1, AllExplained DEF Explained
    <3>2. loadDoc[c] \cap Bad = {}
      BY <1>5, <3>1 DEF Proper
    <3>3. loadDoc[c] = {Only(loadDoc[c])}
      BY <3>1, <3>2, ProperOnly
    <3> QED
      BY <3>2, <3>3 DEF Loads, Result
  <2>2. CASE d.type \in {"list", "object", "nil"}
    <3>1. m.type = "list" /\ Whole(Reached[{root}], m)
      <4>1. CASE d.type = "list"
        BY <1>1, <1>3, <1>5, <2>1, <4>1, ResultWhole
      <4>2. CASE d.type = "object"
        <5>1. m = List(<<d>>)
          BY <1>3, <1>5, <4>2
        <5>2. m.type = "list"
          BY <5>1 DEF List
        <5> QED
          BY <1>1, <2>1, <5>1, <5>2, ObjectWhole
      <4>3. CASE d.type = "nil"
        <5>1. m = List(<<Obj(<<>>)>>)
          BY <1>3, <1>5, <4>3
        <5>2. m.type = "list"
          BY <5>1 DEF List
        <5> QED
          BY <1>1, <2>1, <4>3, <5>1, <5>2, NullWhole
      <4> QED
        BY <2>2, <4>1, <4>2, <4>3
    <3>2. m # Panic
      BY <3>1, BadTypes DEF Bad
    <3> QED
      BY <3>1, <3>2 DEF root
  <2>3. CASE d.type \notin {"list", "object", "nil"}
    <3>1. m = Err
      BY <1>3, <1>5, <2>3
    <3>2. m.type # "list" /\ m # Panic
      BY <3>1, BadDiffer DEF Err
    <3>3. ComesToBytes(root) \/ Scalars({root.value}) # {}
      <4>1. CASE IsObject(v)
        <5>1. Result(c).type = "base64"
          BY <1>1, <2>1, <2>3, <4>1, ResultTypes DEF IsObject
        <5> QED
          BY <1>1, <2>1, <4>1, <5>1, OnlyBytesCome
      <4>2. CASE ~IsObject(v)
        <5>1. v.type \notin {"list", "object", "nil"}
          BY <1>1, <2>1, <2>3, <4>2, ResultTypes DEF IsObject
        <5> QED
          BY <1>2, <5>1 DEF Scalars
      <4> QED
        BY <4>1, <4>2
    <3> QED
      BY <1>2, <3>2, <3>3 DEF root
  <2> QED
    BY <2>2, <2>3
<1> QED
  BY <1>4, <1>5

\* The messages of a gRPC test are what its document spells, whatever files it leads to, and
\* a document without messages has one of the four defects: no proper type, a reference to
\* no file, a circle of files, an object in an object (newDocToMsgs, loadDoc).
THEOREM MessagesAreRight == LoadSpec => []MessagesRight
<1>1. LoadInv => MessagesRight
  <2> SUFFICES ASSUME LoadInv, document.plugin = "GRPC", step # "decode" PROVE MessagesRight
    BY DEF MessagesRight
  <2>1. document.value \in Values /\ loaded \in newDocToMsgs(document.value)
    BY DEF LoadInv, DocumentLoaded, Outcomes
  <2>2. /\ loaded.type = "list" => Whole(Spelled, loaded)
        /\ loaded = Panic => \E n \in Spelled : HasObjectInside(n)
        /\ loaded.type = "list" \/ loaded = Panic
           \/ \E n \in Spelled :
                \/ Missing(n) \/ OnCircle(n)
                \/ n.value = document.value /\ (ComesToBytes(n) \/ Scalars({n.value}) # {})
    BY <2>1, DocumentMessages DEF Spelled
  <2>3. Panic.type # "list"
    BY DEF Panic
  <2>4. CASE loaded.type = "list"
    BY <2>2, <2>4 DEF MessagesRight, Whole
  <2>5. CASE loaded = Panic
    BY <2>2, <2>3, <2>5 DEF MessagesRight
  <2>6. CASE loaded.type # "list" /\ loaded # Panic
    BY <2>2, <2>6 DEF MessagesRight
  <2> QED
    BY <2>4, <2>5, <2>6
<1> QED
  BY <1>1, LoadInvariance, PTL
=============================================================================
