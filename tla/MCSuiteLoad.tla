---------------------------- MODULE MCSuiteLoad -----------------------------
(* Small instances of LoadSuite for TLC: any settings with a plain          *)
(* document, and any document with the default settings.                    *)
EXTENDS LoadSuite, FiniteSetsExt, TLC

\* Every field absent (its default: 1 attempt, 30 seconds), set, zero or negative.
AnySettings ==
  [retryCount : {1, -1, 0}, timeout : {30, 0}, runEvery : {0, -1, 5},
   runCron : {"", "daily"}, failfast : BOOLEAN, filter : {NoFilter},
   header : {"k" :> "file" @@ "l" :> "file"}]

Entries ==
  [retryCount : {0, 4}, timeout : {0, 20}, runEvery : {0, 6}, runCron : {"", "hourly"},
   failfast : BOOLEAN, filter : {NoFilter}, header : {<<>>, "k" :> "conf" @@ "m" :> "conf"}]

\* No filter, one that selects some tests, and one that does not compile.
AllFlags ==
  [failfast : BOOLEAN, timeout : {0, 40},
   filter : {NoFilter, [tests |-> {"a"}, valid |-> TRUE],
             [tests |-> Tests, valid |-> FALSE]}]

Defaults == [retryCount |-> 1, timeout |-> 30, runEvery |-> 5, runCron |-> "",
             failfast |-> FALSE, filter |-> NoFilter, header |-> <<>>]

-----------------------------------------------------------------------------
Texts == {"user.json", "../user.json", "/d/sub/a.json", "b.json", "../image.png",
          "../list.json", "../broken.json", "../loop.json", "../deep.json", "list.json",
          "loop.json", "sub/b.json", "image.png", "#/definitions/a",
          "../photo.json", "../alias.json", "../self.json", "self.json", "../null.json"}

MCPath == [t \in Texts |->
  CASE t = "/d/sub/a.json" -> <<"/", "d", "sub", "a.json">>
    [] t = "sub/b.json" -> <<"sub", "b.json">>
    [] t = "../user.json" -> <<"..", "user.json">>
    [] t = "../image.png" -> <<"..", "image.png">>
    [] t = "../list.json" -> <<"..", "list.json">>
    [] t = "../broken.json" -> <<"..", "broken.json">>
    [] t = "../loop.json" -> <<"..", "loop.json">>
    [] t = "../deep.json" -> <<"..", "deep.json">>
    [] t = "../photo.json" -> <<"..", "photo.json">>
    [] t = "../alias.json" -> <<"..", "alias.json">>
    [] t = "../self.json" -> <<"..", "self.json">>
    [] t = "../null.json" -> <<"..", "null.json">>
    [] t = "#/definitions/a" -> <<"#", "definitions", "a">>
    [] OTHER -> <<t>>]

MCSuitePath == <<"/", "d", "s.suite.json">>

Ref(t) == Obj("$ref" :> Text(t))
RawRef(t) == Obj("$ref" :> Text(t) @@ "$raw" :> Yes)
RawText(t) == Obj("$raw" :> Text(t))
Field(k, v) == Obj(k :> v)
User == Obj("name" :> Text("John") @@ "age" :> Nil)

MCFiles ==
  <<"/", "d", "user.json">> :> [json |-> User, bytes |-> "user"] @@
  <<"/", "d", "image.png">> :> [json |-> NotJSON, bytes |-> "image"] @@
  <<"/", "d", "broken.json">> :> [json |-> NotJSON, bytes |-> "broken"] @@
  <<"/", "d", "list.json">> :> [json |-> List(<<User, User>>), bytes |-> "list"] @@
  <<"/", "d", "loop.json">> :> [json |-> Field("all", List(<<User, Ref("loop.json")>>)),
                                bytes |-> "loop"] @@
  \* objects that are nothing but a reference: to an object, to themselves, or for bytes
  <<"/", "d", "alias.json">> :> [json |-> Ref("user.json"), bytes |-> "alias"] @@
  <<"/", "d", "null.json">> :> [json |-> Nil, bytes |-> "null"] @@
  <<"/", "d", "self.json">> :> [json |-> Ref("self.json"), bytes |-> "self"] @@
  <<"/", "d", "photo.json">> :> [json |-> RawRef("image.png"), bytes |-> "photo"] @@
  <<"/", "d", "deep.json">> :> [json |-> Field("b", Ref("sub/b.json")), bytes |-> "deep"] @@
  <<"/", "d", "sub", "a.json">> :>
     [json |-> Obj("more" :> List(<<Ref("b.json"), Text("b.json")>>)
                   @@ "image" :> RawRef("../image.png")), bytes |-> "a"] @@
  <<"/", "d", "sub", "b.json">> :> [json |-> Field("raw", RawText("x")), bytes |-> "b"]

DocValues == {
  Nil, Yes, Text("x"), User, Obj(<<>>), List(<<>>), List(<<User, Nil>>),
  \* relative, absolute and missing files, bytes, and files of another type
  Ref("user.json"), Ref("../user.json"), Ref("/d/sub/a.json"), Ref("../list.json"),
  Ref("list.json"), Ref("../broken.json"), Ref("../image.png"), Ref("http://x"),
  RawRef("../image.png"), RawRef("image.png"), RawText("x"),
  Obj("$ref" :> Text("../user.json") @@ "$raw" :> Text("x")),
  \* below the top: in lists and objects, in files, in a circle
  List(<<Ref("../user.json"), Ref("/d/sub/a.json"), RawText("x")>>),
  Field("all", List(<<Ref("../user.json"), List(<<Ref("/d/sub/a.json")>>)>>)),
  Obj("raw" :> RawText("x") @@ "image" :> RawRef("../image.png") @@ "$raw" :> Yes),
  Ref("../loop.json"), List(<<Ref("../loop.json"), Ref("b.json")>>),
  \* objects in objects, alone and with another defect
  Field("user", User), Field("user", Ref("../user.json")), Ref("../deep.json"),
  List(<<User, Field("user", User)>>),
  Obj("user" :> User @@ "other" :> Ref("b.json") @@ "$ref" :> Yes),
  Field("user", Ref("../alias.json")), Field("all", List(<<Ref("../alias.json")>>)),
  Ref("../photo.json"), Field("photo", Ref("../photo.json")),
  Ref("../self.json"), Field("self", Ref("../self.json")),
  Ref("../null.json"), Field("null", Ref("../null.json")) }

SchemaValues == {
  Ref("user.json"), Ref("../user.json"), Ref("/d/sub/a.json"), Ref("http://x"),
  Field("allOf", List(<<Ref("user.json"), User, Field("not", Ref("sub/b.json"))>>)),
  Obj("properties" :> Field("$ref", Field("type", Ref("user.json"))) @@ "$ref" :> Text("b.json")),
  Field("properties", Field("a", Ref("#/definitions/a"))) }

\* The values of the documents and of the files, with those in them.
RECURSIVE PartsOf(_), NestingOf(_)
PartsOf(v) == {v} \cup UNION {PartsOf(c) : c \in Children(v, {})}
NestingOf(v) == 1 + Max({-1} \cup {NestingOf(c) : c \in Children(v, {})})

FileValues == ({Obj(<<>>)} \cup {MCFiles[p].json : p \in DOMAIN MCFiles}) \ {NotJSON}
MCNesting == [v \in UNION {PartsOf(w) : w \in DocValues \cup SchemaValues \cup FileValues}
                |-> NestingOf(v)]

Plain == [plugin |-> "GRPC", field |-> "document", value |-> Nil]

AllDocuments ==
  [plugin : {"GRPC", "HTTP", "other"}, field : {"document"}, value : DocValues]
  \cup [plugin : {"HTTP"}, field : {"jsonValues"}, value : {v \in DocValues : IsObject(v)}]
  \cup [plugin : {"HTTP"}, field : {"jsonSchema"}, value : SchemaValues]

AllSettings == AnySettings \cup {Defaults}
MCSuiteFiles == (AnySettings \X {Plain}) \cup ({Defaults} \X AllDocuments)
=============================================================================
