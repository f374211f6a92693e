------------------------------ MODULE LoadSuite ------------------------------
(***************************************************************************)
(* The loading of a suite file with its tests: the settings of SuiteLoad   *)
(* and, between the options and the copy, the initialisation of the plugin *)
(* (reg.Init in NewSuiteFromReader), which loads the documents of the      *)
(* tests.  A file has one document here.  One that cannot be loaded        *)
(* refuses the suite, or ends the process.                                 *)
(***************************************************************************)
EXTENDS SuiteLoad, Documents

CONSTANT SuiteFiles     \* pairs of the settings and the document of a file

ASSUME LoadSuiteAssumption == \A f \in SuiteFiles : f[2].value \in Values

VARIABLES document,     \* the document of the file: [plugin, field, value]
          loaded        \* what it was loaded to

\* The parts of a test that hold documents, and who loads them.
Outcomes(d) ==
  CASE d.plugin = "GRPC" -> newDocToMsgs(d.value)
    [] d.plugin = "HTTP" /\ d.field = "document" -> {getDocumentField(d.value)}
    [] d.plugin = "HTTP" /\ d.field = "jsonValues" -> {getObjectField(d.value)}
    [] d.plugin = "HTTP" /\ d.field = "jsonSchema" -> {fixRefInDoc(d.value)}
    [] OTHER -> {Err}           \* plugin.Get returns nil

LoadInit ==
  /\ \E f \in SuiteFiles : file = f[1] /\ document = f[2]
  /\ Init
  /\ loaded = Nil

\* NewSuiteFromReader with a plugin that returns,
LoadFile ==
  /\ loaded' \in Outcomes(document) \ Bad
  /\ FromFile
  /\ UNCHANGED document

\* and with one that does not, or returns an error.
LoadFails ==
  /\ step = "decode"
  /\ loaded' \in Outcomes(document) \cap Bad
  /\ step' = "failed"
  /\ UNCHANGED <<inputs, cfg, suite, document>>

LoadNext ==
  \/ LoadFile
  \/ LoadFails
  \/ (FromConfig \/ Schedule) /\ UNCHANGED <<document, loaded>>

LoadSpec == LoadInit /\ [][LoadNext]_<<vars, document, loaded>>

-----------------------------------------------------------------------------
\* What a document spells, in the suite file and in those that refer to one another.  A
\* reference in the suite file is taken as if the path of that file were a directory
\* (config.go:140), one in another file from that file's directory (config.go:213): that of
\* README.md:363-369, to a file beside the suite, is Missing.
Spelled == Reached[{[dir |-> SuitePath, value |-> document.value]}]

IsFileBytes(v) == HasText(v, "$ref") /\ IsRawRef(v)
IsBytes(v) == IsFileBytes(v) \/ (HasText(v, "$raw") /\ ~HasText(v, "$ref"))
Bytes(n) == IF IsFileBytes(n.value) THEN Files[Target(n)].bytes ELSE n.value.fields["$raw"].text

\* The files that come to bytes: such a reference, or one to such a file.
BytesFiles ==
  {p \in ObjectFiles :
     \A S \in SUBSET ObjectFiles :
       (\A q \in ObjectFiles :
          IsBytes(decoded(q)) \/ (NamesFile(NodeOf(q)) /\ Target(NodeOf(q)) \in S) => q \in S)
       => p \in S}
ComesToBytes(n) == IsBytes(n.value) \/ (NamesFile(n) /\ Target(n) \in BytesFiles)

\* A reference to no file, one in a circle of files, and an object with an object in it.
Missing(n) ==
  /\ HasText(n.value, "$ref")
  /\ Target(n) \in DOMAIN Files => ~IsRawRef(n.value) /\ Target(n) \notin ObjectFiles
OnCircle(n) == NamesFile(n) /\ n \in Reached[Below(n)]
HasObjectInside(n) ==
  /\ IsObject(n.value) /\ ~IsReference(n.value)
  /\ \E m \in Below(n) : IsObject(m.value) /\ ~ComesToBytes(m)

Scalars(vs) == {v \in vs : v.type \notin {"object", "list", "nil"}}

\* The messages of a gRPC test are what its document spells, with the files its references
\* resolve to and those that these refer to: nothing is lost, or left as a reference, at any
\* depth.  A document that has no messages is of no proper type, or has a reference to no
\* file or to files in a circle, which are opened until no more can be (an error), or it
\* has an object in an object (a panic) (config.go:139-214).  That the references in a suite
\* file resolve to the files that README.md:363-369 means is no part of this, and not so:
\* see Spelled.
MessagesRight ==
  document.plugin = "GRPC" /\ step # "decode" =>
    CASE loaded.type = "list" ->
           /\ \A n \in Spelled : ~Missing(n) /\ ~OnCircle(n) /\ ~HasObjectInside(n)
           /\ \A v \in Within(loaded, {}) : ~IsReference(v)
           /\ Scalars(Within(loaded, {})) =
                Scalars({n.value : n \in Spelled})
                  \cup {Base64(Bytes(n)) : n \in {n \in Spelled : IsBytes(n.value)}}
      [] loaded = Panic -> \E n \in Spelled : HasObjectInside(n)
      [] OTHER -> \E n \in Spelled :
           \/ Missing(n) \/ OnCircle(n)
           \/ n.value = document.value /\ (ComesToBytes(n) \/ Scalars({n.value}) # {})

\* What a schema has as "$ref", at any depth.  What is below such a key, when it is no text,
\* is a property of that name and is never looked at.
RefsIn(v) ==
  {w.fields["$ref"] : w \in {w \in Within(v, {"$ref"}) : IsObject(w) /\ "$ref" \in DOMAIN w.fields}}
PathsIn(v) == {r \in RefsIn(v) : r.type = "text" /\ r.text \in DOMAIN Path}

\* Every reference of an HTTP test's schema, at any depth, is one that the loader finds from
\* any directory, and to the file next to the suite that was meant; URLs are left alone, and
\* so is all else.  (One to a part of the schema itself, "#/...", is taken for a file:
\* config.go:258.)
SchemaRefsFound ==
  document.plugin = "HTTP" /\ document.field = "jsonSchema" /\ step # "decode" =>
    /\ RefsIn(loaded) = (RefsIn(document.value) \ PathsIn(document.value))
                          \cup {FileURL(Join(Root, Path[r.text])) : r \in PathsIn(document.value)}
    /\ Scalars(Within(loaded, {"$ref"})) = Scalars(Within(document.value, {"$ref"}))

-----------------------------------------------------------------------------
\* "Document is any type with some special behaviors like reference." (README.md:361, of the
\* documents of gRPC tests): there is none that ends the process.
AnyTypeLoads == loaded # Panic
=============================================================================
