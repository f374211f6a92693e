------------------------------ MODULE SuiteLoad ------------------------------
(***************************************************************************)
(* How a suite gets its settings: server/config.go, suite.go (NewSuite,    *)
(* NewSuiteFromReader), suite_option.go and scheduleSuite of server.go.    *)
(*                                                                         *)
(* A suite file is decoded over the defaults, the options of the command   *)
(* are applied, and the result is copied onto a new Suite; when the suite  *)
(* is named by a configuration, the options go to the configuration's      *)
(* entry instead, which is then copied over the same Suite.  In both       *)
(* copies a zero or negative setting leaves the Suite as it is.  The part  *)
(* of the entry that is for the plugin, here its header, is decoded over   *)
(* that of the file.                                                       *)
(***************************************************************************)
EXTENDS Integers

CONSTANTS Commands,     \* a subset of {"run", "exec", "watch"}
          FileSettings, \* what the file decodes to: an absent field has its default
          ConfSettings, \* the entry of a configuration: an absent field is zero
          Flags,        \* the flags of exec and watch
          Tests         \* the names of the suite's tests

NoFilter == [tests |-> Tests, valid |-> TRUE]

Headers == {c.header : c \in FileSettings \cup ConfSettings}

\* SuiteConfig.  Only a flag sets a filter.
Settings ==
  [retryCount : Int, timeout : Int, runEvery : Int, runCron : STRING, failfast : BOOLEAN,
   filter : {NoFilter}, header : Headers]

ASSUME SuiteLoadAssumption ==
  /\ Commands \subseteq {"run", "exec", "watch"}
  /\ FileSettings \cup ConfSettings \subseteq Settings
  /\ Flags \subseteq [failfast : BOOLEAN, timeout : Int,
                      filter : [tests : SUBSET Tests, valid : BOOLEAN]]

VARIABLES command, file, conf, flags,   \* the inputs
          fromConfig,   \* whether a configuration names the suite
          step,         \* how far loading has come
          cfg,          \* the SuiteConfig being filled in
          suite         \* the Suite

inputs == <<command, file, conf, flags, fromConfig>>
vars == <<inputs, step, cfg, suite>>

NewSuite == [retryCount |-> 0, timeout |-> 0, runEvery |-> 0, runCron |-> "",
             failfast |-> FALSE, tests |-> Tests, header |-> <<>>]

Init ==
  /\ command \in Commands
  /\ file \in FileSettings
  /\ conf \in ConfSettings
  /\ flags \in Flags
  /\ fromConfig \in (CASE command = "run" -> {TRUE}
                       [] command = "exec" -> BOOLEAN
                       [] command = "watch" -> {FALSE})
  /\ step = "decode"
  /\ cfg = file
  /\ suite = NewSuite

\* The options a command passes: exec FailFast, Filter and, if positive, Timeout; watch
\* FailFast; run none.  They overwrite what was decoded.
applyOptions(c) ==
  CASE command = "run" -> c
    [] command = "watch" -> [c EXCEPT !.failfast = flags.failfast]
    [] command = "exec" ->
         [c EXCEPT !.failfast = flags.failfast,
                   !.filter = flags.filter,
                   !.timeout = IF flags.timeout > 0 THEN flags.timeout ELSE @]

applyConfig(s, c) ==
  [retryCount |-> IF c.retryCount > 0 THEN c.retryCount ELSE s.retryCount,
   timeout    |-> IF c.timeout > 0 THEN c.timeout ELSE s.timeout,
   runEvery   |-> IF c.runEvery > 0 THEN c.runEvery ELSE s.runEvery,
   runCron    |-> IF c.runCron # "" THEN c.runCron ELSE s.runCron,
   failfast   |-> s.failfast \/ c.failfast,
   tests      |-> s.tests \cap c.filter.tests,
   header     |-> s.header]

\* Decoding into a map keeps the keys that the text does not have.
pluginHeader ==
  IF ~fromConfig THEN file.header
  ELSE [k \in DOMAIN conf.header \cup DOMAIN file.header |->
          IF k \in DOMAIN conf.header THEN conf.header[k] ELSE file.header[k]]

\* The copy onto s fails on a filter that is not a regular expression.
Copy(s, c) ==
  /\ suite' = applyConfig(s, c)
  /\ step' = IF ~c.filter.valid THEN "failed"
             ELSE IF fromConfig /\ step = "decode" THEN "override" ELSE "loaded"

\* NewSuiteFromReader, called without these options by GenSuites.
FromFile ==
  /\ step = "decode"
  /\ cfg' = IF fromConfig THEN cfg ELSE applyOptions(cfg)
  /\ Copy([suite EXCEPT !.header = pluginHeader], cfg')
  /\ UNCHANGED inputs

\* Mutant: the options are applied to the file's settings and not to the entry.
FromConfigNoOptions ==
  /\ step = "override"
  /\ cfg' = conf
  /\ Copy(suite, cfg')
  /\ UNCHANGED inputs

\* The rest of genSuite.
FromConfig ==
  /\ step = "override"
  /\ cfg' = applyOptions(conf)
  /\ Copy(suite, cfg')
  /\ UNCHANGED inputs

\* Mutant: a suite without a rule is not refused.
RuleUnchecked(s) == IF s.runCron # "" THEN "cron" ELSE "every"

Rule(s) ==
  IF s.runCron # "" THEN "cron" ELSE IF s.runEvery > 0 THEN "every" ELSE "none"

\* scheduleSuite, for the run command: the scheduling rule, if there is one.
Schedule ==
  /\ step = "loaded"
  /\ command = "run"
  /\ step' = Rule(suite)
  /\ UNCHANGED <<inputs, cfg, suite>>

Next == FromFile \/ FromConfig \/ Schedule

Spec == Init /\ [][Next]_vars

-----------------------------------------------------------------------------
Loaded == step \notin {"decode", "override", "failed"}

\* Each setting but failFast comes from the nearest layer that has one: the flags of exec,
\* the entry of the configuration, the file, the defaults.  Zero and negative values never
\* get through, and the fields of the header are taken one by one (suite.go:77-110,
\* config.go:60-79).  A suite fails fast if one of its layers says so; but the flag of exec
\* and watch, given or not, takes the place of what the layer it is applied to says, the
\* entry or, without a configuration, the file, which is lost (suite_option.go:20-24).
Layered ==
  LET Layer(fc, ff) == IF fromConfig /\ fc > 0 THEN fc ELSE IF ff > 0 THEN ff ELSE 0
      exec == command = "exec"
  IN  Loaded =>
        /\ suite.retryCount = Layer(conf.retryCount, file.retryCount)
        /\ suite.runEvery = Layer(conf.runEvery, file.runEvery)
        /\ suite.runCron =
             IF fromConfig /\ conf.runCron # "" THEN conf.runCron ELSE file.runCron
        /\ suite.timeout = IF exec /\ flags.timeout > 0 THEN flags.timeout
                           ELSE Layer(conf.timeout, file.timeout)
        /\ exec => suite.tests = flags.filter.tests
        /\ suite.failfast <=> \/ fromConfig /\ file.failfast
                              \/ IF command = "run" THEN conf.failfast ELSE flags.failfast
        /\ \A k \in DOMAIN conf.header \cup DOMAIN file.header :
             LET nearest == IF fromConfig /\ k \in DOMAIN conf.header THEN {conf.header[k]}
                            ELSE IF k \in DOMAIN file.header THEN {file.header[k]} ELSE {}
             IN  {suite.header[x] : x \in DOMAIN suite.header \cap {k}} = nearest

\* A suite with a rule in either layer is scheduled, by cron when it has both kinds, even
\* if they are of different layers, and one without is refused (server.go:45-56).
ScheduledByRule ==
  LET cron == file.runCron # "" \/ conf.runCron # ""
      every == file.runEvery > 0 \/ conf.runEvery > 0
  IN  step \in {"cron", "every", "none"} =>
        /\ step = "cron" <=> cron
        /\ step = "every" <=> every /\ ~cron
        /\ step = "none" <=> ~every /\ ~cron
=============================================================================
