----------------------------- MODULE JSONQuery ------------------------------
(***************************************************************************)
(* testsuite/httpexpect/response.go, queryJSONData and lookupJSONData: the *)
(* value that a path such as "a.0.b" has in a decoded JSON document.  A    *)
(* path is the sequence of its keys.  Values are records of a type with    *)
(* items (arrays), fields (objects), val (numbers), or nothing (null).     *)
(***************************************************************************)
EXTENDS Integers, Sequences, SequencesExt

CONSTANTS Atoi,     \* strconv.Atoi: the keys that it can parse, and their numbers
          Values    \* the values that are decoded, with all their parts

\* What encoding/json makes of a text, in the form below.
IsValue(v) ==
  /\ v.type \in {"null", "scalar", "array", "object"}
  /\ v.type = "array" => v.items \in Seq(Values)
  /\ v.type = "object" => \A k \in DOMAIN v.fields : v.fields[k] \in Values

ASSUME JSONQueryAssumption ==
  /\ \A k \in DOMAIN Atoi : Atoi[k] \in Int
  /\ "length" \notin DOMAIN Atoi
  /\ \A v \in Values : IsValue(v)

Null == [type |-> "null"]
Number(n) == [type |-> "scalar", val |-> n]
Array(s) == [type |-> "array", items |-> s]
Object(f) == [type |-> "object", fields |-> f]

Error == [type |-> "error"]     \* an error is returned
Panic == [type |-> "panic"]     \* the index is out of the range of the slice

lookupJSONData(k, v) ==
  CASE v.type = "array" ->
         IF k = "length" THEN Number(Len(v.items))
         ELSE IF k \notin DOMAIN Atoi THEN Error
         ELSE IF Atoi[k] >= Len(v.items) THEN Error
         ELSE IF Atoi[k] < 0 THEN Panic
         ELSE v.items[Atoi[k] + 1]
    [] v.type = "object" -> IF k \in DOMAIN v.fields THEN v.fields[k] ELSE Error
    [] OTHER -> Error

\* Mutant: a key that is not found is skipped.
querySkips(q, v) ==
  LET at[n \in 0 .. Len(q)] ==
        IF n = 0 THEN v
        ELSE IF lookupJSONData(q[n], at[n - 1]) = Error THEN at[n - 1]
        ELSE lookupJSONData(q[n], at[n - 1])
  IN  at[Len(q)]

\* The loop over the keys: what each turn has found, of which the first that finds nothing
\* is the last.
Turn(k, x) == IF x \in {Error, Panic} THEN x ELSE lookupJSONData(k, x)
Turns(q, v) ==
  LET at[n \in 0 .. Len(q)] == IF n = 0 THEN v ELSE Turn(q[n], at[n - 1]) IN at

queryJSONData(q, v) == Turns(q, v)[Len(q)]

-----------------------------------------------------------------------------
\* Reference: the parts of a value, each with its key, and those n levels down, each with
\* its path.
Parts(v) ==
  CASE v.type = "array" ->
         {<<"length", Number(Len(v.items))>>} \cup
         {<<k, v.items[Atoi[k] + 1]>> :
            k \in {a \in DOMAIN Atoi : Atoi[a] \in 0 .. Len(v.items) - 1}}
    [] v.type = "object" -> {<<k, v.fields[k]>> : k \in DOMAIN v.fields}
    [] OTHER -> {}

Deeper(ps) == UNION {{<<Append(p[1], c[1]), c[2]>> : c \in Parts(p[2])} : p \in ps}
Levels(v, depth) ==
  LET at[n \in 0 .. depth] == IF n = 0 THEN {<< <<>>, v >>} ELSE Deeper(at[n - 1]) IN at

PartsAt(v, depth) == Levels(v, depth)[depth]

\* A query has the value at its path, if there is one; it panics if, and only if, it comes
\* to an array and asks for a negative index.
QueryIsRight(q, v) ==
  LET x == queryJSONData(q, v)
  IN  /\ \A p \in PartsAt(v, Len(q)) : p[1] = q => x = p[2]
      /\ x \notin {Error, Panic} => <<q, x>> \in PartsAt(v, Len(q))
      /\ x = Panic <=>
           \E n \in 1 .. Len(q) : \E p \in PartsAt(v, n - 1) :
             /\ p[1] = SubSeq(q, 1, n - 1) /\ p[2].type = "array"
             /\ q[n] \in DOMAIN Atoi /\ Atoi[q[n]] < 0
=============================================================================
