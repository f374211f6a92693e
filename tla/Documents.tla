----------------------------- MODULE Documents ------------------------------
(***************************************************************************)
(* The documents in the tests of a suite file, and what the plugins make   *)
(* of them: testsuite/httpexpect/config.go (getDocumentField,              *)
(* getObjectField, fixRefInDoc) and testsuite/grpcexpect/config.go         *)
(* (newDocToMsgs, loadDoc).  An object with "$ref" stands for a file, one  *)
(* with "$raw" for bytes.                                                  *)
(*                                                                         *)
(* A document is a value of JSON.  A path is a sequence of names that      *)
(* begins with "/" if it is absolute.  What loading comes to is a set: in  *)
(* an object with several defects the order of a Go map decides which of   *)
(* them is met first.                                                      *)
(***************************************************************************)
EXTENDS Integers, Sequences, SequencesExt, FiniteSets

CONSTANTS Path,         \* the texts of references without "://", and their names
          Files,        \* the files, by their absolute paths: [json, bytes]
          SuitePath,    \* the path of the suite file
          Nesting,      \* the values documents are made of, each with how deep it nests
          MaxNesting,   \* bound: the deepest of them
          MaxOpen       \* how many files can be open at once

Values == DOMAIN Nesting
Nil == [type |-> "nil"]
Yes == [type |-> "true"]
Text(t) == [type |-> "text", text |-> t]
List(s) == [type |-> "list", items |-> s]
Obj(f) == [type |-> "object", fields |-> f]
NotJSON == [type |-> "broken"]              \* what a file holds that cannot be decoded
Raw(b) == [type |-> "raw", bytes |-> b]     \* a []byte
Base64(b) == [type |-> "base64", bytes |-> b]
FileURL(p) == [type |-> "url", path |-> p]  \* the text "file://" and an absolute path

IsObject(v) == v.type = "object"

\* The files that can be decoded into a map; null leaves it nil, without an error.
ObjectFiles == {p \in DOMAIN Files : Files[p].json.type = "object" \/ Files[p].json = Nil}

\* What they are decoded to.  A nil map has no keys.
decoded(p) == IF Files[p].json = Nil THEN Obj(<<>>) ELSE Files[p].json

\* The values in a value, but for those at the given keys.
Children(v, but) ==
  CASE IsObject(v) -> {v.fields[k] : k \in DOMAIN v.fields \ but}
    [] v.type = "list" -> {v.items[i] : i \in DOMAIN v.items}
    [] OTHER -> {}

\* What encoding/json decodes a document to: a tree.
IsValue(v) ==
  /\ v.type \in {"nil", "true", "text", "list", "object"}
  /\ v.type = "list" => v.items \in Seq(Values)
  /\ v.type = "object" => v.fields \in [DOMAIN v.fields -> Values]
  /\ \A c \in Children(v, {}) : Nesting[c] < Nesting[v]

\* The files of a document can be open at the same time, with one more for bytes.
ASSUME DocumentsAssumption ==
  /\ \A p \in DOMAIN Files :
       /\ p[1] = "/"
       /\ p \in ObjectFiles => decoded(p) \in Values
  /\ SuitePath[1] = "/" /\ Len(SuitePath) > 1
  /\ Nesting \in [Values -> 0 .. MaxNesting] /\ \A v \in Values : IsValue(v)
  /\ IsFiniteSet(Values) /\ IsFiniteSet(DOMAIN Files)
  /\ MaxNesting \in Nat /\ MaxOpen \in Nat /\ Cardinality(ObjectFiles) < MaxOpen

Err == [type |-> "error"]       \* an error is returned
Panic == [type |-> "panic"]     \* the process ends
Bad == {Err, Panic}

\* The value of a key that is a string; there is no such key in any other value.
HasText(v, k) == IsObject(v) /\ k \in DOMAIN v.fields /\ v.fields[k].type = "text"
IsRawRef(v) == "$raw" \in DOMAIN v.fields /\ v.fields["$raw"] = Yes

\* filepath.Join, which resolves ".." by the names alone.
Join(dir, p) ==
  IF p[1] = "/" THEN p
  ELSE FoldLeft(LAMBDA q, name : IF name = ".." THEN Front(q) ELSE Append(q, name), dir, p)

Root == Front(SuitePath)
Names(t) == IF t \in DOMAIN Path THEN Path[t] ELSE <<t>>
RefFile(dir, v) == Join(dir, Names(v.fields["$ref"].text))

-----------------------------------------------------------------------------
\* HTTP: only the document itself can be a reference, relative to the suite's directory.
getDocumentField(v) ==
  IF HasText(v, "$raw") THEN Raw(v.fields["$raw"].text)
  ELSE IF ~HasText(v, "$ref") THEN v
  ELSE LET p == RefFile(Root, v)
       IN  IF p \notin DOMAIN Files THEN Err
           ELSE IF IsRawRef(v) THEN Raw(Files[p].bytes)
           ELSE IF Files[p].json = NotJSON THEN Err
           ELSE Files[p].json

getObjectField(v) ==
  IF ~HasText(v, "$ref") THEN v
  ELSE LET p == RefFile(Root, v)
       IN  IF p \notin ObjectFiles THEN Err ELSE decoded(p)

\* Mutant: the schemas of a list, as in allOf, are left as they are.
fixOutsideLists(v) ==
  LET fix[w \in Values] ==
        IF IsObject(w)
        THEN Obj([k \in DOMAIN w.fields |->
                    IF k = "$ref" /\ HasText(w, k) /\ w.fields[k].text \in DOMAIN Path
                    THEN FileURL(RefFile(Root, w)) ELSE fix[w.fields[k]]])
        ELSE w
  IN  fix[v]

\* The references of a JSON schema, which the loader of schemas could not resolve.  A text
\* that is no path is a URL and stays.
fixIn(fix, v) ==
  CASE IsObject(v) ->
         Obj([k \in DOMAIN v.fields |->
                IF k = "$ref"
                THEN IF HasText(v, k) /\ v.fields[k].text \in DOMAIN Path
                     THEN FileURL(RefFile(Root, v)) ELSE v.fields[k]
                ELSE fix[v.fields[k]]])
    [] v.type = "list" -> List([i \in DOMAIN v.items |-> fix[v.items[i]]])
    [] OTHER -> v

fixRefInDoc(v) == LET fix[w \in Values] == fixIn(fix, w) IN fix[v]

-----------------------------------------------------------------------------
\* Mutant: references in a file are taken relative to the suite, as those outside are.
dirOfSuite(p) == SuitePath

\* readJSONFileToDoc: references in a file are relative to its directory.
dirOf(p) == Front(p)

\* What loading comes to in a list,
listOf(outcomes) ==
  LET bad == {i \in DOMAIN outcomes : outcomes[i] \subseteq Bad}
  IN  IF bad = {} THEN {List([i \in DOMAIN outcomes |-> CHOOSE x \in outcomes[i] : TRUE])}
      ELSE outcomes[CHOOSE i \in bad : \A j \in bad : i <= j]

\* and in an object: the loop over its fields compares every object with what it was loaded
\* to, and Go cannot compare two maps.
objectOf(fields, outcomes) ==
  LET compared == {k \in DOMAIN fields : IsObject(fields[k]) /\ \E x \in outcomes[k] : IsObject(x)}
      bad == (UNION {outcomes[k] \cap Bad : k \in DOMAIN fields})
             \cup (IF compared = {} THEN {} ELSE {Panic})
  IN  IF bad # {} THEN bad
      ELSE {Obj([k \in DOMAIN fields |-> CHOOSE x \in outcomes[k] : TRUE])}

\* The calls of loadDoc, each with how many more files can be opened.
Dirs == {SuitePath} \cup {Front(p) : p \in DOMAIN Files}
Calls == [left : 0 .. MaxOpen, dir : Dirs, value : Values]
CallFor(left, p) == [left |-> left, dir |-> dirOf(p), value |-> decoded(p)]

\* gRPC: references and bytes are replaced at any depth.  A file is closed when all that it
\* refers to is loaded, so that files in a circle are opened until no more can be.
outcome(load, c) ==
  LET v == c.value
      p == RefFile(c.dir, v)
      inner(w) == load[[c EXCEPT !.value = w]]
  IN  IF v.type = "list" THEN listOf([i \in DOMAIN v.items |-> inner(v.items[i])])
      ELSE IF HasText(v, "$ref") THEN
        IF p \notin DOMAIN Files \/ c.left = 0 THEN {Err}
        ELSE IF IsRawRef(v) THEN {Base64(Files[p].bytes)}
        ELSE IF p \notin ObjectFiles THEN {Err}
        ELSE load[CallFor(c.left - 1, p)]
      ELSE IF HasText(v, "$raw") THEN {Base64(v.fields["$raw"].text)}
      ELSE IF IsObject(v) THEN objectOf(v.fields, [k \in DOMAIN v.fields |-> inner(v.fields[k])])
      ELSE {v}

loadDoc[c \in Calls] == outcome(loadDoc, c)

\* The messages that a document stands for.  The path of the suite file is passed where a
\* directory is expected.
newDocToMsgs(v) ==
  {IF d \in Bad THEN d
   ELSE CASE d.type = "list" -> d
          [] d.type = "object" -> List(<<d>>)
          [] d.type = "nil" -> List(<<Obj(<<>>)>>)
          [] OTHER -> Err :
     d \in loadDoc[[left |-> MaxOpen, dir |-> SuitePath, value |-> v]]}

-----------------------------------------------------------------------------
\* Reference: the values in a value, but for what is below the given keys.
Deepest == (MaxOpen + 1) * (MaxNesting + 1)
Deeper(S, but) == S \cup UNION {Children(w, but) : w \in S}
Within(v, but) ==
  LET upTo[n \in 0 .. Deepest] == IF n = 0 THEN {v} ELSE Deeper(upTo[n - 1], but)
  IN  upTo[Deepest]

\* A node is a value in a document or a file with the directory that references in it are
\* relative to.
Nodes == [dir : Dirs, value : Values]
NodeOf(p) == [dir |-> Front(p), value |-> decoded(p)]

IsReference(v) == HasText(v, "$ref") \/ HasText(v, "$raw")
Target(n) == RefFile(n.dir, n.value)
NamesFile(n) == HasText(n.value, "$ref") /\ ~IsRawRef(n.value) /\ Target(n) \in ObjectFiles

\* The nodes that a node leads to: the file that it refers to, or the values in it.
Below(n) ==
  IF NamesFile(n) THEN {NodeOf(Target(n))}
  ELSE IF IsReference(n.value) THEN {}
  ELSE {[n EXCEPT !.value = w] : w \in Children(n.value, {})}

\* The nodes that some lead to, in any number of steps.
Further(S) == S \cup UNION {Below(n) : n \in S}
Reached[S \in SUBSET Nodes] == IF Further(S) = S THEN S ELSE Reached[Further(S)]
=============================================================================
