# Verification of aragorn

Aragorn runs *suites* of HTTP and gRPC tests, once (`exec`), on every save of a
file (`watch`), or on a schedule (`run`), and notifies Slack of failures. This
directory holds TLA+ models of its core, the TLC configurations that check
them, and theorems about them that TLAPS checks. Paths below are relative to
the repository (`src/`).

    tlc -config MCScheduler.cfg MCScheduler.tla      # one run
    tlapm RunCommandProofs.tla                       # one module of proofs

## Inventory

| Component | State | Operations | Talks to |
| --- | --- | --- | --- |
| Scheduler (`scheduler/scheduler.go`) | `jobs` (name to job), `running`, the mutex `mu` | `Add`, `AddCron`, `Remove`, `Start`, `Stop` | arms and stops the timers of its jobs |
| Job (`scheduler/job.go`) | `interval` or cron expression, `timer` | `schedule`, `cancel`, `timeUntilNextRun`; the callback of a timer | runtime timers, one goroutine for each callback; calls `Job.Run` |
| Suite (`server/suite.go`) | settings, tests | `Run`, `runTests`, `runTestWithRetry`, `runTest` | the tests of a plugin, the report |
| Report (`notifier/notifier.go`) | `TestReports`, `NbFailed` | `Error`, `Errorf`, `Reset`, `Done` | written by the suite and its tests, read by notifiers and `exec` |
| Suite loading (`server/config.go`, `suite.go`, `suite_option.go`) | a `SuiteConfig` and the `Suite` it becomes | `GenSuites`, `NewSuiteFromReader`, `applyOptions`, `applyConfig` | plugins, the commands' flags |
| Server (`server/server.go`) | the scheduler, the notifier | `AddSuite`, `Start`, `Stop`, `suiteRunner.Run` | scheduler, suites, notifier |
| `run`, `exec`, `watch` (`cmd/aragorn/`) | the main goroutine's place, flags | one command each | server or suites, notifier, signals, file events |
| Slack notifier (`notifier/slack/slack.go`) | none | `Notify` | a webhook, by HTTP |
| Several notifiers (`notifier/multi.go`) | the list | `Notify`, one after the other | notifiers; never made, see `ExecCommand` |
| HTTP plugin (`testsuite/httpexpect`) | requests, expectations, saved documents | `Test.Run`, JSON queries, checks | the service under test |
| gRPC plugin (`testsuite/grpcexpect`) | connection, descriptors, expectations | `Test.Run`, the handler of `grpcurl` | the service under test |
| Plugin registry (`plugin/plugin.go`) | map of registrations under a lock | `Register`, `Get` | filled by `init` functions |
| The rest (`log`, `pkg/util/json`, `list`, `init`, `version`, tracing) | none of interest | | |

What is hard about it:

* **Concurrency.** Callbacks of timers run in goroutines of their own and
  re-arm their job *without* the scheduler's mutex; `job.timer` is written and
  read by several goroutines without a lock. Every run of a suite uses the same
  `Suite` and test objects.
* **Time.** Timers fire late, runs last longer than their interval, an
  expression of cron may have no time left, and the wall clock is set.
* **Streams.** A gRPC call sends and receives in two goroutines and may end at
  any time, by the service, by its context or by a message that cannot be sent.
* **Failure.** Tests fail, are retried, hang, are cut off by the timeout of
  their attempt or by cancellation of the run. Webhooks hang or fail. One suite
  of several cannot be loaded or scheduled. A signal arrives at any time.
* **Agreement.** One outcome is told three times: in the errors of the test
  reports (notification), in `NbFailed` (exit status), and in the log.
* **Layers.** A setting can come from a default, the file, the entry of the
  configuration or a flag, and zero means "absent" in some of them; a header
  from the suite, the test, the body or the expectation; a document from files
  that refer to one another.

What makes each component correct, in short: a job never overlaps itself, is
never lost and does not come back once cancelled (scheduler); each slot is
served once and none is slept through, intervals are kept (timing); the count,
the reports and the last attempts agree, all attempts are used, every run ends
(suite); the exit status, the notification and what ran agree (`exec`,
notifier); all suites start or none, they run alone, report in order and do not
block one another, and a signal ends the process (`run`, server); the nearest
layer wins, a suite is refused exactly when no layer has a rule for it, and a
document becomes what it spells (loading); a save leads to a run of
what was saved (`watch`); a
document saved by one test reaches the others, every attempt sends what the file
describes, and the verdict is that of the last answer (plugins).

## Modules

| Module | Models | Remarks |
| --- | --- | --- |
| `JobCycle` | what a scheduled job relies on | abstract: off, waiting or in a run |
| `Scheduler` | `scheduler.go`, `job.go` without time | implements `JobCycle` |
| `MCScheduler` | instances for TLC | |
| `JobTimer`, `MCJobTimer` | `job.go` with its two clocks, for one job | |
| `JobTimerProofs` | theorems about `JobTimer` | |
| `SuiteVerdict` | what a run of a suite promises | abstract: verdicts in the order of the tests |
| `SuiteRun` | `Suite.Run` and the report | implements `SuiteVerdict` |
| `SuiteRunProofs` | theorems about `SuiteRun` | |
| `SlackNotify` | `slack.Notifier.Notify` over the report of `SuiteRun` | operators only |
| `ExecCommand` | `aragorn exec` | composes `SuiteRun` and `SlackNotify` |
| `ExecCommandProofs` | theorems about `ExecCommand` | over those about `SuiteRun` |
| `RunCommand`, `MCRunCommand` | `aragorn run` and `server.go` | composes `Scheduler` with its caller and the body of its jobs |
| `RunCommandProofs` | theorems about `Scheduler`, and over these about `RunCommand` | |
| `HTTPTest`, `MCHTTPTest` | the tests of an HTTP suite and their requests | over the actions of `SuiteRun` |
| `HTTPTestProofs` | theorems about `HTTPTest` and `JSONQuery` | over those about `SuiteRun` |
| `GRPCTest`, `MCGRPCTest` | the tests of a gRPC suite over `grpcurl` | over the actions of `SuiteRun` |
| `GRPCTestProofs` | theorems about `GRPCTest` | over those about `SuiteRun` |
| `JSONQuery` | the queries of JSON documents, with a reference definition | operators only |
| `WatchCommand` | `aragorn watch` with editors and file events | |
| `WatchCommandProofs` | theorems about `WatchCommand` | |
| `SuiteLoad` | settings from file, flags and configuration | |
| `Documents` | references and bytes in documents, for both plugins | operators only |
| `LoadSuite`, `MCSuiteLoad` | the loading of a suite file | composes `SuiteLoad` and `Documents` |
| `LoadSuiteProofs` | theorems about `SuiteLoad`, `Documents` and `LoadSuite` | |

### Scheduler

`jobs` and `running` are the fields of the same names. `mu` names the operation
that holds the mutex over more than one step: `Start`, whose loop arms one job
at a time (`StartBegin`, `StartSchedule`, `StartDone`, with `todo` the entries
the loop has not reached), and `Add` on a running scheduler, which holds it
until `job.timer` is assigned. The other operations are one step each, because
nothing they read can change in between. `status` is the state of each timer
and of the callback it spawned; `timer` is `job.timer`.

`job.schedule` is two steps: `time.AfterFunc` returns an armed timer (`Schedule`
or `RunDone`), and its assignment to `job.timer` becomes visible later
(`Store`). The field is accessed without a lock, so `Store` steps of the same
job may come in any order; with `LateStores` a timer may even fire and its
callback store the next timer first. Without it an assignment is complete
before its timer fires, which is the case unless a goroutine is held up for a
whole interval. The theorems cover both.

Timers and jobs are addresses of a finite pool and are reused when nothing
refers to them. `Owner` divides the pool of timers among the jobs, which loses
nothing: a callback captures its job when its timer is made. The calls that
return an error are actions that change nothing.

### JobTimer

`now` is the monotonic clock that timers go by, and `wall` the one that cron
expressions go by, `ahead` of the other by an amount that anybody may set
(`SetClock`). Time passes at any point, a timer fires any time after it is
`due`, and a run takes any time. For a cron job `schedule` is two steps, since
it reads the wall clock twice: for `Next` (the phase `compute`) and for
`time.Until` (`SetTimer`). `CronNext` stands for the vendored `cronexpr`: the
first time of the expression after a given one, and the zero time when there is
none. `readAt`, `setAt`, `setWall`, `forward`, `setBacks`, `served` and
`started` are history, and what the properties are stated by.

### SuiteRun

`pc` is the place of the run: at the head of the loop over the tests (`loop`),
in an attempt (`test`), in the pause before a retry (`wait`), or back at the
caller. `reports` is `Report.TestReports`, each error with its kind and, as
history, the attempt it belongs to. The test is the environment: it logs
errors and returns at any moment, and once its context is done it will return
at some time. `Cancel` is the owner of the context passed to `Run`; all
commands pass `context.Background()`, which cannot be cancelled
(`Cancellable = FALSE` in `ExecCommand`), but `Run` handles it and is modelled
with it. `retryCount` and `timeout` include 0, which a file can bring about.

### ExecCommand and SlackNotify

The loop of `exec`: for each suite a complete `SuiteRun`, the call of the
notifier with the `Notification` of its report, and the rest of the loop's body
(`Count`), which keeps the first failure and, with `-failfast`, ends the loop.
`ran`, `failures` and `heard` are history: the runs, those with a failed test
according to their *reports*, and the notifications posted. `n` is what
`GenNotifier` makes of the entries of the configuration. They are keyed by the
id of a plugin, of which there is one, so that the list in
`notifier/multi.go` never has two members; that file is not modelled.

### RunCommand

`main` is the place of the main goroutine in `runCommand.Run`; its steps are
actions of `Scheduler` joined with its own. `phase` is the place of
`suiteRunner.Run` in the callback of each job: in `Suite.Run`, in `Notify`, or
out of both, when the callback may re-arm (`Rearm`). A suite's run is a single
phase here, since `SuiteRun` shows that it ends. A call of `Notify` may hang
for ever (`http.Post` has no timeout). Exit takes all goroutines with it, so
no step follows it.

### HTTPTest and JSONQuery

The steps of a run are those of `SuiteRun`, with the test's own in between:
`stage` is the place of `test.Run`, from its call to the request (`Send`), the
response (`Answered`, which is all of `checkResponse`) or the failure of either
(`RequestFails`), and back (`AttemptEnds`). The constant `SuiteFiles` holds what
files say; `prepare` makes a test of it, with at most one placeholder, in the
path or the query of its URL, and `prepareRequest` its request: the header, from
the suite, the test, the body and what is expected, by canonical names, and the
body. Documents are values of JSON in the form `JSONQuery` works on, a schema
is the set of the values it accepts, the headers of a response are right or
wrong, and its body is the first JSON value in it, all that the decoder looks
at, together with whether more follows. `md` is made anew by each run.

`own`, the request of each test, is a variable because an attempt could write to
it: `Send` works on a clone with its own header and a new reader of the body, and
its own URL as long as `Request.WithContext` copies it. It does in the releases
of Go that fit the repository's build (a `GOPATH` with `dep`); `SendShared` is
the program without these copies, where a placeholder replaced once stays
replaced and a body is sent once. `log` is history.

The loop of `queryJSONData` is a recursive function over its turns (`Turns`), and
the parts of a value at each depth, what a query is compared with, are one too
(`Levels`). `Values` is the set of the documents that occur, with their parts: TLC
is given a few, and the theorems are about any set that is closed under taking
parts (`JSONQueryAssumption`).

### GRPCTest

Again over the steps of `SuiteRun`: `stage` is the place of `test.Run`, which
resolves its method, calls it (`Open`), receives, and judges. The calls are
those of the vendored `grpcurl`, by the four kinds of methods: who takes the
messages from `getRequestData` (`sender`), when, and what is done with the
status. In a bidirectional stream `Send` and `Receive` interleave, and a send
that fails cancels the call. `h` is the handler of the attempt, `call` what the
service has received and answered; it may answer, end the call or fall silent at
any time. A message is a name, of which one is not of the method's type. Headers
keep their spelling in a file and are in lower case in the metadata. `log` is
history. The dial options and a connection that breaks and is made again below
grpc are left out: what they can do to a call is to fail it (`OpenFails`, `Ends`).

### WatchCommand

The editors, inotify and the reader goroutine of fsnotify are the environment
and most of the state. A save in place truncates the file and writes it in two
halves; `Replace` renames a new file over it. `content` is the version each
half belongs to, by file and inode, so that a reader keeps what it has open.
The loop takes an event, opens the file and reads its first half (`Take`), then
reads the second and either runs the suite or gives up (`RunSuite`,
`LoadFails`); with halves of two versions either may happen. `Post` merges
equal events and drops them when the queue is full, and `Offer` drops events of
files that are not there, as fsnotify does. A run is one phase (`SuiteRun` shows
that it ends).

### SuiteLoad, Documents and LoadSuite

The inputs are chosen initially: what the file decodes to, the entry of the
configuration, the flags and the command. `FromFile` is `NewSuiteFromReader`
and `FromConfig` the rest of `genSuite`, which copies the entry over the same
`Suite`; `Schedule` is the choice of `scheduleSuite`. Strings are members of
small sets and a filter is the set of tests it selects. The part of a file that
is for the plugin is represented by its header, over which that of the entry is
decoded. `Layered` determines the settings of the suite from the inputs. All but
one are those of the nearest layer; `failFast` is not: `applyConfig` can only set
it, so that a layer cannot take it back, and the option of `exec` and `watch`
overwrites it in the one layer it is applied to. `ScheduledByRule` says of each of
the three ends of `scheduleSuite` exactly when it is reached.

`Documents` has the functions that both plugins apply to the documents of their
tests, on JSON values with texts as names: `getDocumentField`, `getObjectField`
and `fixRefInDoc` for HTTP, `loadDoc` and `newDocToMsgs` for gRPC. `fixRefInDoc`
and `loadDoc` are recursive functions, over the set of values that documents are
made of (`Values`, the domain of `Nesting`) and over the calls of `loadDoc`: a
value, the directory of its references, and how many files can still be opened:
`readJSONFileToDoc` closes its file (`defer`) when all that it refers to has been
loaded, so that a circle of files ends with an error of `os.Open`. A file may hold
`null`, which decodes to a map without fields.
What a call comes to is a set, since the order of a map decides which of two
defects is met first. `LoadSuite` puts the initialisation of the plugin, with one
document, into the loading of the file.

What a document *spells* is defined without these functions, by a graph: a node
is a value with its directory, below it are the values in it or the file it refers
to, and `Reached` is what it leads to. It starts where the code does, with the path
of the suite file in the place of a directory (`Spelled`; `config.go:140`), so that
`MessagesRight` does not say that a reference means the file its author meant (see
Divergences). `MessagesRight` compares `loadDoc`, which
builds values from the inside and forgets where they were, with the nodes;
`Within`, the values in a value level by level, does the same for the result and
for the schemas of `SchemaRefsFound`.

## What the runs show

| Run | Bounds | Shows |
| --- | --- | --- |
| `scheduler` | 2 names, 2 jobs, 3 timers each, late stores, symmetry | `OneChain`, `QuietBeforeStart`, `NeverLost`, `CancelIsFinal`; implements `JobCycle` |
| `job_timer` | 7 instants, cron with uneven slots, with one slot and with none left, intervals of 1 and 3, a wall clock off by at most 2 and set back twice | `OncePerSlot`, `NextSlotNotMissed`, `Spaced`, `PausesUnlessExhausted` |
| `suite_run` | 3 tests, 3 attempts, 2 errors each, cancellation | `CountAgrees`, `LastAttemptOnly`, `AllAttemptsUsed`, `RunEnds`; implements `SuiteVerdict` |
| `http_test` | suites of 1 or 2 tests, 2 attempts, 7 responses, documents of depth 2 | `RequestRight`, `Judged`, `PassedIsSaved`, `QueriesRight` |
| `grpc_test` | suites of 1 or 2 tests, 2 attempts, calls of all kinds with at most 3 messages and 2 answers | `RequestsRight`, `GRPCJudged`, `GRPCRunEnds` |
| `watch` | 2 files, 2 saves of each, a queue of 2 events | `NothingForgotten`, `LastSaveRuns` |
| `exec` | 2 suites of at most 2 tests, 2 attempts, 1 error each | `ExitStatus`, `EverySuite`, `FailuresHeard`, `NamesFailedTests`, `ExecEnds` |
| `run_command` | 2 suites, 2 timers each | `ReportsInOrder`, `AllOrNothing`, `SuiteRunsAlone`, `OthersGoOn`, `ShutsDown` |
| `suite_load` | every combination of absent, set, zero and negative settings; values that nest up to 4 deep, with files in two directories | `Layered`, `ScheduledByRule`, `MessagesRight`, `SchemaRefsFound` |

Each property is commented where it is defined. Why the bounds suffice:

* Two jobs and two names are enough for a job to be removed and replaced while
  another is unaffected, and for the loop of `Start` to be in the middle; jobs
  share nothing but the mutex and the map. Three timers of one job are one
  armed or running, one that `job.timer` still refers to, and one to arm next;
  a fourth would be a duplicate of the second. What the run shows of safety is
  also proved for every number.
* Three attempts are the first, a middle one and the last; three tests have one
  before and one after a failure. These results are proved for every number.
* `job_timer` has a run that outlasts several slots, slots at distances of one
  and more, and one that is not reached; a clock that is set back twice serves a
  slot three times, which is what `OncePerSlot` allows.
* `http_test` needs one test that saves and one that reads, either of which may
  be retried, and a second run of both; its documents have a field that is
  missing, a scalar, an array and an index on either side of its bounds. Headers
  are set in each layer and in two spellings, and every kind of body is sent.
  Timeouts of zero, fail-fast and cancellation are included.
* `grpc_test` needs two messages for their order, a third that cannot be parsed
  before one that can, and one answer more than expected. An attempt whose time
  is up before the call, a service that never answers, and retries of each are
  included.
* `suite_load` has a reference in a file to a file in another directory that has
  one of its own, files that are nothing but a reference (to an object, to
  themselves, for bytes), circles, lists and objects around references, and every
  type of value where another is expected, and a file that holds `null`. `failFast` is
  set and not set in the file, the entry and the flag. `MaxOpen` is how many files can
  be open at once. That there are fewer files with documents (`DocumentsAssumption`,
  which TLC evaluates) means that only a circle meets the limit: who follows as many
  references as that meets a file again, and the proofs use just that.
* `watch` needs a save while the previous one is read or run, hence two saves;
  a queue of two is full as soon as a third event meets it, so that events are
  dropped in this run as they are beyond 16384 in an ordinary system.
* `exec` needs two suites, one that fails before or after one that passes.
* In `run_command` the races on `job.timer` are left to `scheduler`
  (`LateStores = FALSE`), so that two timers of a job are enough.

### Fairness

* `SuiteRun`: the goroutine of the run goes on, the timer of a context expires,
  and a test returns *once its context is done*. The plugins pass the context
  to the requests of a test. The exception is the fetch of an OAuth2 token,
  which uses `context.Background()` (`httpexpect.go:40-41`,
  `grpcexpect.go:51-52`): `RunEnds` and `ExecEnds` hold for suites without it,
  or whose token server answers.
* `RunCommand`: goroutines are scheduled, timers fire, runs end, and a call of
  the notifier returns unless it hangs. No signal needs to come. Fairness is
  strong for `Rearm` only because of the bounded pool of timers: the timer a
  callback needs may be free only from time to time, where the program always
  has memory for one.
* `ExecCommand`: that of `SuiteRun` for the run in progress, and the main
  goroutine goes on. It blocks in a notifier that hangs, hence the second
  disjunct of `ExecEnds`.
* `GRPCTest`: the goroutines of the test go on and timers expire. Nothing is
  assumed of the service: it may never answer a call. `GRPCRunEnds` lists the
  two ways in which a run does not end, a question of reflection that is not
  answered and the panic of a stream that cannot be opened.
* `WatchCommand`: fsnotify's reader and the loop go on and runs end. Editors may
  stop at any point, and the promise is for saves that are complete.

Hung notifiers are not fair to anybody: `OthersGoOn` says that only the suite
that made the call stops.

### Divergences

The runs that end in a counterexample state what a comment or the
documentation says, and show that the code does something else.

| Run | Statement | What happens |
| --- | --- | --- |
| `scheduler_cancelled` | `Stop` stops, `Remove` removes (`scheduler.go:50, 114`) | a job that is in its run at that moment re-arms itself and goes on |
| `suite_failure_retried` | a failure is not retried (`README.md:40`) | it is |
| `documents_any_type` | a document is of any type (`README.md:361`) | an object with an object inside ends the process: `loadDoc` compares two maps (`grpcexpect/config.go:195`) |

Met on the way and visible in the definitions, without a run of their own:

* when the goroutine that armed a timer is held up for a whole interval, its
  assignment of `job.timer` overwrites that of the next timer, and `Stop` misses
  the armed one although no job runs (`Store`);
* a cron expression without a time left (a past year, 30 February) runs its job
  without pause (`PausesUnlessExhausted`; `scheduler.go:86`), and the interval
  of a job is counted from the end of a run (`JobTimer`; `scheduler.go:63` says
  every interval);
* after a signal the process exits at once, in the middle of runs, whatever the
  grace period (`StopServer`, `Exit`; `run.go:34`);
* `exec` and `watch` overwrite `failFast` with their flag, whose default is false
  (`applyOptions`; `README.md:119`): without a configuration that of the file is
  lost, and with one (`exec -config`) that of the entry, while that of the file
  stays and cannot be taken back by an entry (`Layered`); `retryCount` is the number
  of attempts and not of retries (`Failed`, `Wait`; `README.md:116`); a suite
  can end up with `runEvery` from one layer and `runCron` from the other, which
  `README.md:114` calls exclusive (`Rule`);
* an index below zero in a query ends the process (`Panic` in `JSONQuery`), and
  what follows a document in a body is not looked at (`DocumentDiffers`;
  `httpexpect/config.go:61` says exactly);
* a reference of a schema to a part of itself, `#/...`, becomes that of a file
  (`fixRefInDoc`);
* a relative reference in a gRPC document is relative to the suite *file*
  (`grpcexpect/config.go:140`), so that it needs a `..` that one in an HTTP document
  must not have: the `{"$ref": "user.json"}` of `README.md:363-369` never loads from
  a file beside the suite (`Spelled`). From a file that was referred to, it is
  relative to its directory (`config.go:213`);
* files that refer to each other in a circle are opened until no more can be, and
  the suite is refused with that error (`outcome`, `OnCircle`);
* an expected gRPC header is met only if the file spells it in lower case
  (`WrongHeaders`), a header of a test replaces one of the suite only if it is
  spelled in the same way (`MergeHeaders`; `README.md:332`), and a test that
  expects an error code and no document fails for want of one message
  (`NbErrors`);
* the lookup of a method by reflection has no timeout (`ResolveHangs`), and a
  stream that cannot be opened ends the process (`OpenFails`);
* an argument of `watch` that an editor replaces by renaming is not seen again
  (`Replace`, `Seen`);
* the number of "tests failed" in a notification is the number of errors
  (`errors` in `SlackNotify`).

## What is proved

The theorems hold for every value of the constants that satisfies the named
assumption of the module: any sets of names, jobs and timers
(`SchedulerAssumption`), suites of any size, any number of attempts and
errors, with or without cancellation (`SuiteRunAssumption`), any intervals and
any expressions with finitely many times (`JobTimerAssumption`), settings
of any value in the types of `SuiteConfig` (`SuiteLoadAssumption`), any list of
suites with or without a notifier (`RunCommandAssumption`), any number of suites
(`ExecAssumption`), any files, saves and length of the queue of events
(`WatchAssumption`), and any gRPC suites, messages and headers, with finitely
many headers expected of a test (`GRPCAssumption`), and any HTTP suites, documents
and responses (`HTTPAssumption`, `JSONQueryAssumption`). The documents of a suite are any finite
set of trees with the values in them, however deep, and the files any finite number
with any references between them, of which fewer hold documents than can be open at
once (`DocumentsAssumption`, `LoadSuiteAssumption`); a
tree is what `encoding/json` makes of a text. Of an HTTP suite these theorems
assume that a list of expected values is finite, that a path has a key, and that
no single map has one header in two spellings, which the order of Go's map would
decide between. That `None` and `Malformed` are not among the events and the
answers is what their names say.

**RunCommandProofs, the scheduler.** `Invariance` proves the inductive invariant `IInv`, one
lemma for each action. `OneChain` and `NeverLost` are not inductive:

* `NoSharing`: a job object has one name, and `job.timer` refers to timers of
  that job, so cancelling one never stops a timer of another;
* `LockedState`: what the holder of `mu` may assume; without it `Start` could
  work on stale entries;
* `BeforeRunning`: before `running` is set no registered job was cancelled, and
  the only chains are those of the jobs `Start`'s loop has passed. This is why
  arming in the loop never makes a second chain;
* `StartProgress`: the jobs passed by the loop have their chain, from which
  `NeverLost` follows when `running` is set.

From it come `NoOverlap`, `NoJobLost`, `NothingBeforeStart`, `TypeCorrect`, and,
with a lemma on which actions can arm a timer (`WhoArms`), `CancelFinal`.
`Refinement` maps every step to a step of `JobCycle` or to a stutter.

**SuiteRunProofs.** `IInv` adds `OpenReport` to the checked invariants: while a
test is attempted its report is the last one and describes the present attempt,
and failures are counted for closed reports only. `CountsAgree` needs it since
a report under attempt may have errors that a retry will discard. The lemmas
on `Append` and on the change of the last report are stated once.
`Refinement` shows that closing a report appends one verdict (`OneMoreVerdict`)
and ends the run exactly when `SuiteVerdict` says so, and that every other step
leaves the verdicts alone (`SameVerdicts`).

**JobTimerProofs.** The history in `OncePerSlot` is not inductive: a slot could be
served once more by a job that waits for it. `RunsOwed` counts what is left: each
setting back of the clock owes a slot one run, and the slot itself one more, from
its time on, so that a job which has yet to serve its slot has not used that one.
It rests on `SlotIsNext` (the slot is the first time after the one read) and on
`TimerIsSet` (while the job waits, the wall clock has come nearer to the slot only
by what it was set forward). `RunsApart` is `Spaced` for the runs so far. That a
nonempty set of times has a first one comes from the well-foundedness of the order
of the naturals (`FirstTime`).

**LoadSuiteProofs, the settings.** `IInv` says what the suite is after each copy as
an expression of the inputs (`OfFile`, `OfEntry`), so that the theorems are facts
about `applyOptions` (`OptionsApplied`) and `applyConfig` (`Copied`). `LoadInv` adds
that what was loaded is one of the outcomes of loading the document; all else is
about the functions in `Documents`.

**LoadSuiteProofs, the documents.** That the recursive functions exist and satisfy
their equations is shown first, by the least counterexample as in `HTTPTestProofs`
(`FixDefined`, `LevelsDefined`, `LoadDefined`, `ReachedDefined`). Each has a measure
and an induction that goes by it: how deep a value nests (`ValueInduction`); the
files that a call can open and then the depth of its value (`Height`,
`CallInduction`); the nodes not yet reached, of which there are finitely many
(`FollowInduction`).

* `SchemaRefsAreFound`: what is within a fixed schema is what becomes of the values
  within it (`FixedWithin`), and each is treated as it should be (`FixedParts`).
* `AllExplained` goes through the kinds of values once: a call that loads has made
  its value of those of the calls inside it (`Made`), and a bad end comes from one of
  these or from a defect of its own (`Blamed`). So a panic leads to an object in an
  object (`PanicIsObjectInside`), where it has to be shown that a reference comes to bytes
  exactly when `ComesToBytes` says (`ComesOnlyToBytes`, `OnlyBytesCome`).
* An error leads to a reference to no file or to a circle (`ErrorIsReference`), for a
  call errs of itself when its file is missing or when no more can be opened
  (`Stuck`). Without a circle each file that is followed is referred to by no node
  behind it, so that who is stuck would have as many files with documents behind it
  as can be open. Conversely nothing that loads is on a circle (`NoneOnCircle`): of
  the calls about a node on it, the one that can open the fewest more files would
  make another about the same node.
* If a document loads, the calls it leads to meet exactly the nodes it spells
  (`NodesMet`) and return exactly the values within the messages (`WithinResult`), of
  which none is a reference (`NoReferenceLeft`) and the scalars are those of the nodes
  or their bytes (`ResultScalars`). `MessagesAreRight` follows.

**RunCommandProofs, the command.** `StepOfScheduler` shows that every step of the command is
one of `Scheduler`, or none; hence `DrivesScheduler`, `CmdSpec => Spec`, which
makes every theorem about the scheduler one about the command. `CmdInv` adds to
the invariant of the scheduler what the main goroutine has done by each of its
stages (`InStage`), that each accepted suite has a job (`AddedHaveJobs`), and
`RunsInCallback`: who is in `suiteRunner.Run` is in a running callback. A timer
that fires while its job is in `Run` would then be a second chain, which
`OneChain` rules out, and this is `SuiteRunsAlone`. `AllOrNothing` is
`NeverLost`, of the jobs that `AddedHaveJobs` says there are.

**ExecCommandProofs.** Each run in the loop is one of `SuiteRun` from its start,
and satisfies its invariant (`InRun`). By `CountAgrees` the count that the
command goes by is that of the failed reports (`Accounts`), and `ErrorsOfTests`,
about the cardinality of a union, makes the notifier's own judgement, which goes
by the number of *errors*, the same one (`HeardSoFar`). `StatusOfRuns`,
`RunsEverySuite`, `HearsOfFailures` and `NamesTests` follow.

**WatchCommandProofs.** Everything is said of one file at a time (`FileInv`), and
`Undisturbed` carries it over the steps that concern another. `Known` says why a
complete save is not lost: it was run, it is being read from its start, or an
event is on its way. This is not inductive, since a stale event could have an
older version read and run *after* the last. Hence `Newest` (the second half of
the last version is where the last save put it, and nothing is written after
it) and `RanNewest` (once the last version was run, only that one is read
again). They rest on `OnDisk` (how far a save has come) and `Inodes` (what a
reader has open is no newer than the last save).

**GRPCTestProofs.** The steps of a test are sorted by where they leave it: still
in the call (`StillCalling`), with a status (`StatusInv`), or with its errors
logged (`Reported`). While a call is open, what the service has got is a prefix
of what the file says, exactly as much as the handler has given out (`Sending`),
which for a stream in both directions is shown for every interleaving of `Send`
and `Receive`. `Logged` tells which attempt the last result is of; without it
`Right`, the verdict, could be that of an earlier attempt. `ErrorsOfResult` shows
that counting no errors is meeting each expectation. An attempt logs its errors at
once, so `ErrorsReported` of `SuiteRunProofs` is about any number of them.

**HTTPTestProofs.** Its first half is about operators. That the recursive functions
of `JSONQuery` exist and satisfy their equations is shown for every length
(`TurnsDefined`, `LevelsDefined`), and `QueriesFind` says for queries of any length
and values of any depth that the loop over the keys comes to what is at the path.
The library's induction theorems take an operator, so these are shown by the least
counterexample, which the well-foundedness of the order of the naturals provides
(`Least`, `AllNumbers`). `ErrorsOfResponse` shows that `checkResponse` logs no error
exactly when each expectation is met, with the values found by path;
`HeadersOfRequest`, that the headers are the nearest that is said and the defaults
only where nothing is; `QueryOfDocuments`, that a placeholder is looked up in the
document of the test it names (`PartsUnder`).

The invariant `HTTPInv` is over that of `SuiteRun`. `Stages` ties the place of the
test to that of the run, and `Loaded` says that the request of a test is still the
one made from its file, from which `RequestRight` follows. `Logged` orders the
responses: each is later than the one before, by test and attempt, with at most one
for an attempt. Without the order a document could come from an earlier attempt
than the one that passed. `DocumentsKept` says that `md` has, for each id, the
newest of the responses that were to be saved; the response whose check panicked
does not count (`Checked`). `AllRight` is `Judged` for the reports so far.
`JudgesByResponse`, `SavesWhatPassed`, `QueriesFindPaths` and `SendsWhatFileSays`
follow.

**What the proofs found.** Some places of the models had to be made to say what
the code does. `RunCommand` could take the first step of `Start`'s loop before its
call: nothing it checked was violated by that, but `CmdSpec => Spec` was false.
The errors of a notification were summed by recursion, and are now counted as a
set. In `WatchCommand` an absent event was not known to differ from all others.
`Met` accepted a raw document that is compared with the decoded body, and took
only -1 for a status that does not matter, where any number below zero will do.
`MessagesRight` blamed a panic on an object only if it was in the same file, and a
document of no proper type only on its own type: a file that is itself a reference,
or for bytes, was said to be what it is not. `SchemaRefsFound` compared schemas
without their references by value, where a property may have the value of a
reference. The run now has files of these kinds.

**Only model-checked:** the liveness properties (`RunEnds`, `ExecEnds`,
`OthersGoOn`, `ShutsDown`, `LastSaveRuns`, `GRPCRunEnds`), since fairness and
`ENABLED` are beyond the prover. Every invariant and action property of a run is
also a theorem.

## Not modelled

Left out for good:

* `notifier/multi.go`, which is never reached (see ExecCommand);
* the parsing of flags, help texts and templates (`main.go`, `list.go`,
  `init.go`, `version.go`), logging and tracing, the decoding of JSON and
  durations: straight-line input and output;
* the registration of plugins, before main;
* the vendored libraries, which are modelled by what the code relies on. Of
  `grpcurl`, whose control the tests depend on, `InvokeRpc` is modelled;
* `grpctesting`, generated code of the tests.
