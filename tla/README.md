# Formal verification of `aa26-connector`

TLA+ modules, TLC configurations and TLAPS proofs for the `aa26-connector` CLI: the Go program
with which the author of a connector scaffolds, lints, validates, tests and packages it. The
references of the form `file.go:line` are to the repository's source.

## 1. The system

`aa26-connector test` is the part of the CLI with behaviour worth modelling: it runs a worker
container against an emulated "sidecar" and judges what the worker did.

```
 user ──^C──▶ harness goroutine (runSingleScenario / runProbeContract, executeWorker, runWorker)
                 │  listens, starts, waits, kills, shuts down, evaluates         ▲
                 │                                               Done() closed   │ RunResult
                 ├── go server.Serve ──▶ emulator: one goroutine per request ────┘
                 │                            ▲  /v1/invocation, findings, progress, log,
                 │                            │  control, checkpoint, process, complete
                 └── docker CLI ──▶ docker daemon ──▶ worker container
```

| Component | Source | State | Operations |
|---|---|---|---|
| Sidecar emulator | `emulator.go` | overrides, `RunResult`, channel `finished`, one goroutine per request | `ServeHTTP` and its handlers, `applyOverride`, `recordCall`, `signalDone` |
| Fixture and verdict | `fixture.go` | fixture file; none in `Evaluate` | `LoadFixture`, `SaveFixture`, `Evaluate` |
| Single-scenario harness | `main.go` 501-594, 802-895 | port, docker CLI, signal channel, exit code | `runSingleScenario`, `executeWorker`, `runWorker` |
| Probe contract | `probe.go`, `main.go` 600-667 | scenario index, outcomes | `runProbeContract`, `MergeOverrides`, `AcceptsStatus` |
| Real-runtime harness | `realruntime.go` | runtime container with a fixed name, scratch directory, findings file | `runRealRuntime`, `loadAndValidateFindings` |
| Worker output capture | `realruntime.go` 267-317 | the last lines of two streams | `teeWithTail`, `addLine`, `snapshot` |
| Extraction emulator, SDKs | `extraction_emulator.go`, `sdk/` | `aa26_extract_error` of the connector's shell | `handleExtract`; `Extract` in Go, `extract_text` in Python, two functions in bash |
| Connection prompter | `prompter.go`, `termios_*.go` | two buffered readers of stdin, terminal mode | `resolveConnection`, `pickAuthMethod`, `coerce` |
| Mapping rules | `mapping.go`, `schema/connector.schema.json` | none | dot paths, `ApplyMapping`, `ValidateMappingRules`; the schema's part on `spec.sourceTypes` |
| Bundle packager | `package.go` | the bundle, a scratch directory, the manifest as last read | `cmdPackage`, `buildBundle`, `addFile`, `addDir` |
| Manifest linter | `linter.go` | none | `Lint`: rules with and without a window, R008 on a whole file |
| Dispatch, validation, reports | `main.go` | none | sequential glue, printing |
| Scaffolding, schemas, examples | `templates.go`, `schema/`, `examples/` | none | constant data |

What makes `test` hard to get right, and hard to test:

* **Concurrency in the emulator.** `Emulator.mu` makes single updates atomic and nothing else:
  the status is stored, then the channel is closed; the channel is tested, then closed; a call
  is recorded after its handler.
* **A worker that may do anything**: calls at any time and in parallel, a death in the middle of
  an upload, an exit without `/v1/complete`, no exit at all.
* **Three events race in `runWorker`** (exit, `Done()`, interrupt), each with timers behind it,
  and two of the outcomes invent an exit code.
* **The container is not the harness's child.** Killing the docker CLI leaves it running, and in
  probe mode the next scenario binds the same port.
* **`Evaluate` takes no lock**: what it may see depends on what `Shutdown` waited for. Nor does
  `outputTail`, which two goroutines append to and a third one reads.

Of the other commands, `package` reads files that their author may be saving: the manifest three
times, and every other file twice, once for its size and once for its content. The SDKs are one
protocol in three languages, and connectors in bash call theirs in a subshell.

What correctness means, per component: the emulator loses no call and no finding and signals only
a run that has a status; the harness leaves nothing behind that it can stop, and judges the whole
run, and never takes an exit code that it made up for a success; the probe judges each scenario by
the status of its own worker, and fails if one of them fails. What is quoted of a worker is its
output, in order. A bundle has one version in its name, its image and its manifest, and lacks no
file. An extraction that failed is a failure in every language. The two lists of what a mapping may
hold agree, and `lint` and `test` have one opinion of a connector.

## 2. Modules

| Module | Models | Notes |
|---|---|---|
| `Completion` | what an emulator promises its supervisor: a terminal status, then a signal | abstract specification |
| `Emulator` | `emulator.go`: every handler, as concurrent goroutines | implements `Completion` |
| `Fixture` | `Evaluate` and `endpointHit`, as operators | used by `Harness` and `Probe` |
| `Harness` | `runSingleScenario`, `executeWorker`, `runWorker`, with docker, worker and user | extends `Emulator` and `Fixture` |
| `Probe` | `runProbeContract` over the calls of several workers | extends `Fixture` |
| `RealRuntime` | `runRealRuntime` for several harnesses on one docker | extends `Fixture` |
| `Prompter` | `resolveConnection`, `LoadFixture`, `SaveFixture`, over several runs | |
| `Linter` | `linter.go`: the rules, their windows and the walk, as operators | used by `Manifest` |
| `Manifest` | what `validate`, `lint`, `test` and `validate-mapping` make of `spec.sourceTypes` and of the sources | extends `Linter` |
| `OutputTail` | `teeWithTail` and `outputTail`, with the docker CLI and the copiers of `os/exec` | |
| `PackageBundle` | `package.go`, over several runs, with the author, docker and the disk | |
| `Extraction` | the SDKs over several calls, `handleExtract`, and any other sidecar | |
| `Harness_proofs`, `Probe_proofs`, `RealRuntime_proofs`, `Prompter_proofs`, `OutputTail_proofs`, `PackageBundle_proofs`, `Extraction_proofs`, `Manifest_proofs` | TLAPS proofs about these modules | `Harness_proofs` is about `Emulator` first |
| `MC...` | an instance for TLC of each of the modules with a specification | |

### Emulator

The variables are the fields of `Emulator` and of `RunResult` (`status`, `findings`,
`logEvents`, ..., `lastCall`), `finished` for the channel, and, per request, the goroutine's
program counter `pc` and its locals (`req`, `wr` for the `recordingWriter`, `scanned`,
`accepted`). `client` is what the worker knows of its request; `before` is a history variable.
An action is one critical section of `Emulator.mu` together with the goroutine-local code around
it, or one half of the unlocked test-and-close in `signalDone`:

| `pc` | what comes next |
|---|---|
| `serve` | `applyOverride`, then the switch of `ServeHTTP` |
| `scan` | the loop of `handleFindings`, one line per step |
| `preempt` | the marker of an overridden `/v1/complete` |
| `signal`, `close` | `signalDone`: the test, then the close |
| `record` | the deferred `recordCall` |

Abstractions: a finding line is blank, not JSON, or an object with a type and the verdict of the
schema; a log body is its level; a `/v1/complete` body is its status; response bodies and headers
are left out. A body that is cut short is possible whenever the worker is gone. The empty string
is written as what it means (`"unset"`, `"untyped"`, `"any"`), and the markers `(overridden)` and
`(unparseable)` without their parentheses. A worker that itself posts the marker as its status is
left out (`StatusesAssumption`).

### Harness

`main` is the harness goroutine: `listen`, `extraction`, `start`, the outer `select`, the inner
ones (`drain` after `Done()`, `interrupted` after a signal), `reap` (the `<-exited` after the
kill), `shutdown` and `closing` (`server.Shutdown`), the three reads of `Evaluate`, and the ends.
The environment is `cli` (the docker CLI), `container` (the worker in the daemon), `sig` (the
signal channel). `GiveUp` is either timer. Time is not modelled: a timer may fire whenever it is
armed, so a run in which a worker is faster than its timer and one in which it is slower are both
there. One assumption on time is made, in `ShutdownReturns`: three seconds are enough for every
handler that does not wait for a live worker.

The retry under `sudo` is not modelled: it needs a docker that refuses the user, and
`ensureWorkerImage`, which never uses sudo, has returned an error for those before.

### Probe

The calls of a worker are atomic here. `containers` is the set of runs whose worker is alive,
and `callers[i]` the runs whose workers have called the emulator of run `i`: the two show what
the scenarios share, the port and the docker daemon. `rejected` says whether the result of the
current scenario has a finding that the schema rejects, which an override of `/v1/findings` would
have swallowed.

### RealRuntime

Each harness is a sequential process: `pc[h]` names the next step of `runRealRuntime`, and an
early return goes to the deferred calls registered so far (`cleanup`, then `unscratch`). What the
harnesses share is `runtime`, the holder of the container name `aa26-rt-emu`. The name is removed
before it is used, and the container is known by its ID from then on, so a harness can take the
runtime of another one away, but not join it. An interrupt ends a harness without its deferred
calls, which leaves a container behind for the next one to remove. The runtime image is not part
of the repository: it writes a finding to the mounted file in one step, and may exit at any time.

### Prompter

A run goes from `LoadFixture` (`Start`) over `pickAuthMethod` (`pick`, `choice`) and the loop of
`resolveConnection` (`fields`, `prompt`, `secret`) to `SaveFixture` (`save`, `write`). Runs follow
each other over one file. `stdin` is what the program has not read, `reader` what the reader of
`resolveConnection` has read ahead; the other two readers are local to one read, so what they
read ahead is gone (`Reads`). `wants` is what the user means to answer: typed prompt by prompt on a
terminal, or piped in at once (`Script`, the method and then the `Lines` for the fields in their
`Order`). `echo` is the terminal. An answer is the text of a line, "blank" if it is empty. So is a
value of the connection: an empty one comes from the fixture file, or from a default "" of the
manifest, which is not nil and therefore taken (`Accept`, `prompter.go:124`). A field without a
default has "nil" for it. `Parses` says which texts `coerce` accepts for a type. JSON and YAML are not modelled, but for a
write that fails: any part of the file may be there then. A value that is cut in the middle is
left out, and so are integers too large for the `float64` that `LoadFixture` makes of them.

### Manifest

A manifest is its scan types and its source types; an entry has a name, a domain, a target, a
`mapping` and the `additionalProperties` (`extras`). `pc` goes through the checks of `validate`
(`schema`, `rules`) and of `test` (then `lint`), through `lint` alone, or through
`validate-mapping` (`load`, `project`), which validates nothing, line by line of the findings. The
checks are operators that return the names of the rules that are broken. The schema and the rules
each have their own lists and their own pattern of a path here, as they have in the repository:
`SchemaDomains`, `SchemaTargets`, `SchemaColumns` and `JsonPathExpr` are those of
`connector.schema.json`, `ValidDomains`, `EntitiesAllowSet`, `PermissionsAllowSet` and `ValidPath`
those of `mapping.go`. A path expression begins with `$.` and has segments, does not, or is blank; a
segment is known by the kinds of its characters (`Shapes`), which is what the patterns look at.
Entries that are not objects, the warnings, and the rest of the schema are left out.

`sources` are the other files of the connector. In `Linter` a line is the set of the patterns that
it matches, so the regular expressions themselves are not modelled; what R008 greps for in the
manifest is taken to stand where it belongs. A file may be in an ignored directory, too big or
unreadable, and is then passed over.

### OutputTail

A stream is a sequence of pieces, texts and newlines in turn, and each stage holds the number of
pieces it has: `written` (the CLI's pipe), `taken` (the copier of `os/exec`), `read` (the `Read` of
`teeWithTail`), `scanned` (its loop). A copier's `Write` returns when the tee has read all of it,
not when the tee has dealt with it, and `cmd.Wait` waits for the copiers only: so `main` may take
its `snapshot` while a tee is still adding lines. `addLine` takes no lock, so it is three steps:
the append loads `t.lines` (`loaded`), stores it, and what is beyond the cap is cut off. `snapshot`
makes a slice, then copies. A slice's slot and its header are written in one step: a torn header,
which the Go memory model allows, is left out.

### PackageBundle

`pc` is the next step of `cmdPackage` and, from `create` to `close`, of `buildBundle`; an error
goes to the deferred calls registered so far. Files are their sizes, 0 for an empty one, which is
headed and copied like any other, while a file that is not there is `Absent`; the manifest also has
the version, the tag and whether it is valid, the image the tag it was saved by. `RemoveAll` may
fail, and nobody looks at its error: `scratch` is then "stuck". `bundles` is what is
at the name of each version. `missing` is what `archive/tar` still expects of the current entry:
it refuses the next header, and its trailer, while something is missing. The author saves or
removes any file between any two steps (`Edit`), an interrupt ends the program anywhere.

### Extraction

`sdk` is the function that a connector uses, `sidecar` what `EXTRACTION_URL` leads to: the
harness's emulator, one that may reply anything, or none. A call is sent, replied to and taken in
(`Reply`), or breaks (`TransportError`). `shellError` says which call the variable
`aa26_extract_error` of the connector's shell is about. Texts are the names of entries. An outcome
is a failure or not, a text and, in Go and Python, the `files` that `IterInner` and `iter_entries`
go through (`Inner`). The emulator's text of an archive is a constant in the code and in the model.

## 3. Runs

| Run | Instance | Question |
|---|---|---|
| `emulator` | 2 requests of 10 kinds, 3 sets of overrides; 59 k states | do the handlers keep the result right, and implement `Completion`? |
| `harness` | 2 requests of 3 kinds, 2 expect blocks, exit codes 0 and 1; 171 k states | does the harness judge the whole run, leave nothing behind, and finish? |
| `probe` | 3 scenarios, 2 statuses, exit codes 0 and 1; 1.2 M states | whose calls make a result, and what does the command return? |
| `real_runtime` | 2 harnesses, 1 finding each, 2 expect blocks; 69 k states | what is left behind, and what does a verdict rest on? |
| `prompter` | 4 manifests, 3 fixture files, 3 answers per field, the empty one among them, 2 runs; 296 k states | does an answer reach its field, and what becomes of the file? |
| `manifest` | all manifests of 1 source type over 5 columns and 9 expressions, pairs, and sources around each lint rule; 284 k states | do schema and rules agree, which rows come out, and what do `lint` and `test` say? |
| `output_tail` | 2 streams of 2 lines and an unfinished one, a tail of 2 lines; 149 k states | what is quoted of a worker that died, and is it judged? |
| `package_bundle` | 6 manifests, 1 optional file, 1 asset, sizes 0 to 2, 2 runs, 2 edits; 5.4 M states | what is in a bundle, and what becomes of an earlier one? |
| `extraction` | 4 functions, 3 sidecars, 3 calls; 13 k states | do the SDKs agree, and is a failure one? |
| `double_complete` | as `emulator` | violated: `signalDone` is not idempotent |
| `permissions_target` | as `manifest` | violated: a permissions mapping cannot pass `validate` |
| `probe_schema` | as `probe` | violated: a scenario passes with a finding that the schema rejects |

Properties of the emulator:

* `DoneImpliesStatus`: `Done()` is closed only after a status is stored.
* `CallsCounted`: `EndpointCalls` counts every call that ended exactly once, panics included.
* `LastCallIsLatest`: `LastCall` is never a call that ended before another recorded one began.
* `AcceptedAreRecorded`: the result holds as many valid findings as the uploads counted accepted
  lines.
* `ImplementsCompletion`: refinement of `Completion`, its liveness included.
* `AbandonedCallsEnd`: a call the worker gave up on ends.

Properties of the harness:

* `InventedExitCodeUnused`: the 0 reported for a worker that was killed is never what a verdict is
  on. The 130 that is reported after an interrupt is, where there is no status: for "failed".
* `NothingLeftBehind`: no CLI is left running; a container is left only if the harness gave up.
* `VerdictSeesWholeRun`: unless it gave up, the result no longer changes while it is read.
* `NoRejectedFindingPasses`: unless it gave up, no run passes with an answered upload of a finding
  that the schema rejects. If it did, `Evaluate` may read before the handler has written.
* `RunIsJudged`: after a completion, an exit or an interrupt, there is a verdict.

Properties of the probe:

* `OnlyAbandonedWorkersIntrude`: a result is made by its own worker and abandoned ones.
* `ReturnedReflectsOutcomes`: the command succeeds exactly if every scenario was run and ended in a
  status that it accepts, or under `--keep-going`. Only the status counts; what the code and the
  docs say of rejected findings is `RejectedFindingsFailScenarios`, which is false (finding 3).
* `NoPassOnInventedExitCode`: as for the harness, for scenarios that demand "completed".
* `ProbeEnds`: the probe ends if its workers do.

Properties of the real-runtime harness:

* `NothingLeftBehind`: unless it was killed, a harness leaves no container and no scratch
  directory, on any of its early returns.
* `PassIsEarned`: a verdict is on everything the runtime wrote for this worker, and by its exit
  code, even if another harness took the runtime away.
* `RunEnds`: a harness ends if its worker does, whatever becomes of its runtime.

Properties of the prompter:

* `TypeOK`: among the types, a connection holds lines that a user may type, and never the "nil" of
  a missing default.
* `AnswersReachTheirFields`: what is resolved is what the user meant for each field. On a pipe
  with a choice of methods it does not hold: the reader of the choice takes answers with it.
* `PinnedFixtureReproduces`: with a pinned method, a saved fixture resolves without the user, and
  to the same connection.
* `MethodDeclarationsWin`: of two declarations of a key, the method's is the one that counts.
* `AuthorsPartsSurvive`: loading, resolving and saving keep what the author wrote, unless a run
  was cut short while it wrote.
* `EchoRestored`: the terminal echoes again after a secret, unless an interrupt struck there.
* `UnattendedRunEnds`: a run that is piped or non-interactive never waits for the user.

Properties of the manifest's checks:

* `SchemaAgreesWithRules`: the two lists of columns and of domains, and the two patterns of a path, do
  not drift apart. What the schema lets pass, the rules let pass, except for the four rules that
  compare two places of the manifest; and of the entities that keep the rules the schema refuses
  none, except for a name that is not in Pascal case, a missing mapping or target, and the column
  `additionalProperties`, which only the rules know.
* `CheckedPartsOfRowsAreClean`: the rows of a manifest that keeps the rules have allowed columns, and
  those of entities allowed extra keys, and none of these holds the whole finding. (Without the
  rules, a path without `$.` leads to it.) The extras of a target `permissions` are left out: nobody
  validates them, and a path without `$.` among them does lead to the whole finding (section 4).
* `LintVerdictsAgree`: `lint` and `test` come to the same verdict on a connector, by two counts of
  their own, and the verdict is that on the same files with a blank line before and after, so none
  hangs on the edges of a file, where the windows of the rules are cut. That a rule looks for the
  right thing is not claimed: guarded code is flagged (section 4).

Properties of the output:

* `ExactUnlessRaced`: as long as the two tees have not added lines at the same time, the tail is
  the last lines of the output.
* `QuotedInOrder`: races lose lines, but do not make up, repeat or reorder those of a stream.
* `DeadWorkerIsJudged`: no full pipe keeps a worker that is gone from being judged.

Properties of the packager:

* `TypeOK`: among the types, what an entry's header says is the size of a file that was there; it may
  be 0.
* `IdentifiersAgree`: the image in a bundle has the tag that the bundle's name says, and so has the
  manifest unless it was saved between its three reads.
* `CompleteIfEnded`: a bundle that was reported as written, and that has its end, has every file
  that was left alone, each as long as its header says.
* `ScratchRemoved`: a run that was not killed leaves no scratch directory that it has not tried to
  remove.
* `BundlesKeptUntilSaved`: neither a refusal nor a missing image costs the author an earlier bundle.

Properties of the extraction:

* `SdksAgreeOnEmulator`: under the harness each SDK returns the same, for every type of file; and the
  files of an archive, in Go and Python, without the container.
* `RefusalIsFailure`: a refusal of the sidecar is not taken for a text.
* `ErrorIsOfLastCall`: in the shell that called, `aa26_extract_error` is the last call's.

The type invariants `HTypeOK` and those of `Probe`, `RealRuntime` and `OutputTail`, and
`AnsweredAfterRecord` of `Emulator` (there is no complete reply without its record), are proved
(section 5) and not in a run.

### Bounds

Every pair of handlers interleaves with two requests, and each hazard of the emulator involves at
most two goroutines: two completions, an upload and another call, a slow call and a later one. Two
lines per upload put a line before and after the one that fails. The harness only needs requests
of the kinds a verdict depends on; `/v1/control` is there because its handler outlives the worker.
Three scenarios are enough for a worker to intrude in the next run and in the one after it.
Two harnesses that share docker overlap in every way, a leftover of a killed one included; one
finding is enough to be read, lost to a read error, or rejected. Two runs show what a saved file
does to the next one; the manifests have each shape that `connectionFields` tells apart. The rules
judge an entry by itself but for duplicate names, so one entry with every combination of a column,
a key and an expression, and pairs, are enough; the columns are one of each class. The sources have
a hit of each rule with its other pattern on the same line, at the edge of the window and beyond
it, above and below. Two streams make every race of `outputTail`, and two full lines and a started
one overflow a tail of two. Two runs of `package` put a good bundle in the way of a bad run; two
edits change a file after its check and before its copy. Of three calls of an SDK one may leave an
error, one hide it, and one meet it.

### Fairness

* `Emulator!Fairness`: every goroutine that can run does (the Go scheduler), but a handler that
  reads a body is only sure to go on once the worker's connection is closed.
* `Harness!HFairness`: the same, and the harness goroutine with its timers and the docker CLI go
  on. No fairness for the worker or the user: it may hang forever.
* `Probe!Fairness`: the harness goes on, and every worker exits some day. Without that the probe
  need not end: nothing bounds the wait for a worker that neither exits nor completes.
* `RealRuntime!Fairness`: a harness that was started goes on, and every worker exits some day; no
  fairness for the user or for the runtime.
* `Prompter!Spec`: the program goes on where it can; none for the user.
* `OutputTail!Fairness`: every goroutine that can run does; none for the worker.
* `Manifest`, `PackageBundle` and `Extraction` have safety properties only: they are sequential and
  end after a bounded number of steps.

## 4. Findings

1. `signalDone` (`emulator.go:357`) tests and closes the channel without a lock. Two concurrent
   calls of `/v1/complete` can both close it; the second panics (run `double_complete`). net/http
   recovers the panic, the caller sees its connection dropped, and the verdict is unaffected:
   `ImplementsCompletion` and `CallsCounted` hold nevertheless.
2. The docs ask for source types with the target `permissions` and no domain, R008 warns of a
   manifest without one, and `ValidateMappingRules` has rules for it; but the schema only knows
   `entities` (`connector.schema.json:398`, run `permissions_target`). So `validate`, `test` and
   `package` reject every such manifest, and `test --strict` rejects an `access_scan` connector
   either way.
3. A scenario of the probe passes with findings that the schema rejects: only the status is looked at
   (`main.go:632`, run `probe_schema`). `main.go:597-599` wants "no schema-validation errors" too,
   and `docs/test-harness.md:39-40` has violations fail always. `main.go:628-630` gives the reason,
   that an override of `/v1/findings` may be behind them; but the counterexample has none.

What else was met while modelling, and no run is about:

* *Probe.* `probe.go:40` has the runs independent; a worker that was given up on goes on running and
  calls the next scenario's emulator (`main.go:862`; the model has it,
  `OnlyAbandonedWorkersIntrude`). `probe.go:33` accepts a failed run as long as the worker
  did not crash, and `runProbeContract` cannot tell the two apart (`main.go:636`).
* *Mapping.* `ApplyMapping` projects the `additionalProperties` of a target `permissions`
  (`mapping.go:211-219`), with keys and paths that nobody validates, so that one without `$.` yields
  the whole finding. `mapping.go:337` warns that they "will be ignored", and `mapping.go:87` has them
  "entities only". The model projects them as the code does.
* *Fixture.* `docs/cli.md:233` has `test` fail when the worker never posts `/v1/complete`; `Evaluate`
  takes exit code 0 for "completed" (`fixture.go:270`), as `docs/test-harness.md:156-159` and
  `fixture.go:91-93` say. `fixture.go:162` has a run of a saved fixture reproducible; the method
  that the user chose is not saved (`main.go:443`), and `--non-interactive` may then fail. `noErrorLogs` only
  looks at the level `error` (`fixture.go:316`), so a log body that does not parse never fails a run.
* *Harness.* A cancelled long poll returns without writing, and `LastCall` shows the status 200 for
  it (`emulator.go:329`). An error right after `go server.Serve` lets `Shutdown` run before `Serve`
  knows its listener (`main.go:547`), so the port may stay bound; `Harness` has them as one step.
  Each real-runtime harness removes whatever container holds the name `aa26-rt-emu`, that of a
  harness still at work included (`realruntime.go:98`); its properties hold all the same.
* *Output.* Nobody closes the tees' pipes, so each run leaks two goroutines, and a last line without
  a newline is never shown, although the code after the loop (`line.Len() > 0`) is meant for it.
  `docs/test-harness.md:37` has the trailing 200 lines kept: races and the early snapshot may lose
  some of them, the last lines of a traceback among them.
* *Packager.* `✓ wrote` is printed although a deferred `Close` failed, or although the last file
  shrank while it was copied (`package.go:189`): the archive then has no end, which
  `CompleteIfEnded` makes a condition. An error in the middle of `buildBundle` closes what there is
  under the bundle's final name. `docs/cli.md:153` has `package` refuse a bundle whose three identifiers
  do not agree; a manifest that is saved during `docker save` is shipped unchecked. An interrupt
  leaves the scratch directory, and so does a `RemoveAll` that fails.
* *Extraction.* `docs/extraction.md:208` reads `aa26_extract_error` after a call in `$(...)`, a
  subshell: it is empty there, or that of an earlier call. Outside of error envelopes the bash
  functions take any body for a success, and an error page of a proxy is a text (with the status 0
  of `aa26_extract_json`); a `null` becomes the text "null". Python raises an `AttributeError` on an
  error body that is JSON and no object. `docs/cli.md:196` shows a count of extractions that the
  code never prints.
* *Linter.* R003 does not see a check for `http.StatusNoContent` between the request and the Decode,
  so `lint --strict` rejects code that makes it; the comment at `linter.go:195-199` says that such
  code "won't trip this", and `docs/cli.md:82` and `docs/test-harness.md:229` that the rule catches a
  Decode without the check. A connector whose root directory has the name of an ignored directory
  (`build`, `env`, `dist`) is skipped whole, and what is missing or unreadable is lint-clean. R007 only matches at
  one depth of indentation.

## 5. Proofs

`Harness_proofs` proves about `Emulator`, for any sets of requests, inputs and overrides (infinite
ones too):

* `TypeCorrect`: `Spec => []TypeOK`, by one case per action. The lemmas `StepType` and
  `WriteHeaderType` cover what the actions share.
* `DoneHasStatus`: `Spec => []DoneImpliesStatus`. The property is not inductive: `SignalClose`
  closes the channel without looking at the status. The invariant `StatusInv` adds that a
  goroutine inside `signalDone` finds a status (`Signalling`), which holds since `HandleComplete`
  and `PreemptStatus` store one as they enter and no step takes one away (`ServeStatus`).
* `CompletionSafety`: `Spec => C!Safety`, the safety half of `ImplementsCompletion`: each step of
  the handlers is a step of `Completion` or leaves `status` and `finished` alone. A second close
  is a stutter.
* `EveryCallCounted`: `Spec => []CallsCounted`. The induction carries the finiteness of the set of
  recorded calls, so that none is assumed of the set of requests.
* `LastCallCorrect`: `Spec => []LastCallIsLatest`, with `PastInv`: what a call found recorded when
  it began is recorded still.
* `RepliesAreRecorded`: `Spec => []AnsweredAfterRecord`.
* `AcceptedRecorded`: `Spec => []AcceptedAreRecorded`. The two sets that are counted grow together,
  in the one step that appends a valid finding; their finiteness is part of the induction.

and about `Harness` (any expect blocks and exit codes as well):

* `HarnessRunsEmulator`: `HSpec => Safety`. Each step of the composition is a step of the emulator
  or leaves its variables alone (`EmulatorStep`), so the theorems above hold in a scenario.
* `HarnessCleansUp` (`NothingLeftBehind`) from `CliInv`: the CLI runs only while `main` is in one of
  the `select`s, and a container without a CLI is one that was given up on.
* `NoInventedVerdict` (`InventedExitCodeUnused`) from `InventedInv`: when the code 0 is made up the
  channel is closed, so by `StatusInv` there is a status, and what `Evaluate` has read is that one.
  Nothing is proved of the made-up 130, on which a verdict may well be.
* `VerdictOnWholeRun` (`VerdictSeesWholeRun`) from `WholeInv`: unless it gave up, no goroutine of
  the emulator is active while the result is read, since no client is waiting and `Shutdown` has
  returned; so each part that was read is still the result's.
* `RejectedFindingsFail` (`NoRejectedFindingPasses`): `ScanInv` says of each upload that what it has
  counted is in the findings, `VerdictInv` that a pass was judged on the findings that were read.
  As in `VerdictOnWholeRun`, runs that the harness gave up on are left out.
* `HarnessTypeCorrect`: `HSpec => []HTypeOK`.

`Probe_proofs` (any scenarios, statuses and exit codes): `ResultsHaveOwners` from `CallInv` (a
worker that may call is the current one or was given up on before), `CommandReflectsOutcomes` from
`OutcomesInv` (one outcome per scenario that is over), `NoInventedPass` from the `StatusInv` of that
module (who is given up on has a status or a code other than 0), and `TypeCorrect`.

`RealRuntime_proofs` (any number of harnesses, expect blocks and findings): `HarnessesCleanUp` from
`LeftInv` (each resource lives only between the step that makes it and the deferred call that
removes it), `PassesAreEarned` from `EarnedInv` (what is judged is what the runtime wrote, and
nothing writes any more by then), and `TypeCorrect`.

`Prompter_proofs` (any manifests, fixture files and answers, any number of runs): `EchoIsRestored`
from `EchoInv` (what the restore will put back is an echo, unless an interrupt struck before), and
`AuthorsPartsAreKept` from `KeptInv` (file and run both hold what the author wrote, and a field is
asked for only if the connection lacks it). The other four rest on one invariant, `RunInv`, which
TLC checked before it was proved; each property fails to be inductive by itself:

* `AnswersArrive` (`AnswersReachTheirFields`): `FieldInv` says that the fields behind the loop are
  `Settled` by the answers that were meant for them and those ahead are untouched, `InputInv` that
  the lines which are still to be read, in the reader or before it, are the `Lines` of the fields
  that are still to be visited. A key occurs once among the fields, so a settled one stays so.
  Left out is a user who pipes the answers in and is asked for the method.
* `PinnedRunsReproduce` (`PinnedFixtureReproduces`): `SavedInv` says that a saved fixture is
  `Resolvable`: its method is found without the user, and no required field of it is missing.
* `MethodsWin` (`MethodDeclarationsWin`): on `Order` and `Merged`, for each two declarations of a key.
* `TypesHold` (`TypeOK`): with `LinesInv`, the kind of line that each prompt may find; values and
  defaults may be empty.

`OutputTail_proofs` (any streams, any cap): `TailIsExact` from `TailInv`: each slice that a tee may
append to next ends as the log does. It rests on `LastOfAppend`: two sequences with the same last
elements have the same last elements after one more. `QuotedIsInOrder` from `OrderInv`: each slice
is in order, and the one that a tee has loaded has no line as late as the one it will append,
however stale it is. `TypeCorrect` needs `Flow`, the order of the stages of a stream.

`PackageBundle_proofs` (any files and manifests, any number of runs and edits): `ScratchIsRemoved`
and the action property `BundlesAreKept`, both from `ScratchInv`: the scratch directory is there
only between `MkdirTemp` and the deferred `RemoveAll`, and `buildBundle` only runs on a saved image.
The others are from `BundleInv`, of which TLC checked each part:

* `IdentifiersAlwaysAgree` (`IdentifiersAgree`): `ManifestInv` (a manifest that is left alone is read
  the same three times) and `ImagesInv` (the image of a bundle has the bundle's version).
* `EndedIsComplete` (`CompleteIfEnded`): `FilesInv` (a file that is left alone is in the bundle, or
  owed to it by `todo`) and `SizesInv` (only the last entry may be short of its header, by `missing`).
* `BundleTypes` (`TypeOK`): a header is only written for a file that is there, of any size.

`Extraction_proofs` (any number of calls): `RefusalsFail` from `ReplyInv`, `ErrorsAreCurrent` from
`ShellInv`, and `SdksAgree` (`SdksAgreeOnEmulator`) from `EmulatorInv` (a reply of the emulator
is the one to the call that is made), `EmulatorOutcome` (what each SDK makes of it) and
`InnerOfContainer` (what iterating over an archive leaves out).

`Manifest_proofs` (any manifests, findings and files of any length):

* `LintVerdicts` (`LintVerdictsAgree`): blank lines around a file change neither what a rule finds in
  its window nor what R008 finds in the whole, and the invariant says that the verdicts are the
  linter's.
* `SchemaAgrees` (`SchemaAgreesWithRules`): by `EntryOfSchema`, an entry at a time, since the rules
  only run on what the schema let pass (`SchemaInv`), and the other way round for the entities. It
  compares the lists as they stand in both places.
* `CheckedPartsAreClean` (`CheckedPartsOfRowsAreClean`): each row is one that `ApplyMapping` makes of
  a finding that was read (`RowsInv`), and by `CleanEntry` the rules leave it only paths, in the
  parts that they look at.

Three of the models define functions by recursion over numbers (`Order` and `Lines` of `Prompter`,
`Present` of `PackageBundle`, the files of an archive in `Extraction`). What each does in
one step is proved from the library's theorems on well-founded recursion, and induction is on a set
of numbers (`Least`, `Induction`), not on a predicate.

Assumptions, all on constants and evaluated by TLC in the runs: the types of `Inputs` and
`OverrideSets`, that `"unset"` and `"overridden"` are not statuses a worker posts, and that `None` is
not a call (`Emulator`); that there is a scenario, and that exit codes are integers (`Probe`); what
a fixture and a manifest consist of, and that no two fields of one method have the same key, being
properties of one JSON object (`Prompter`); that the bundle's files have names, none of them
"assets", and that a valid manifest has a version (`PackageBundle`); a positive cap (`OutputTail`);
that a path has a segment, and that no JSON value is a part of itself (`Manifest`).

Every safety invariant and action property of the runs is proved. Model-checked only: all liveness
(`AbandonedCallsEnd`, `RunIsJudged`, `ProbeEnds`, `RunEnds`, `UnattendedRunEnds`,
`DeadWorkerIsJudged`, and the fairness half of `ImplementsCompletion`), since fairness and `ENABLED`
are beyond the prover.

## 6. Plan

Done: the modules of section 2, with a run for each of them and proofs about all.
What would add most next:

1. Refinements: the capped tail of `OutputTail` as an implementation of a tail with one lock while the
   tees do not race, and `Harness` with one worker as a scenario of `Probe`.
2. `Fixture!Evaluate` and `coerce` against reference definitions; a fixture file that is edited by
   hand between two runs, with integers beyond 2^53.
3. A runtime that is killed in the middle of a line (`RealRuntime`), and the window between
   `go server.Serve` and `Shutdown` (`Harness`).

## 7. Not modelled

* Scaffolding (`templates.go`) and the examples: constant text.
* JSON Schema validation itself: its verdict on a finding is an input of the model, and of the
  connector's schema only the part on `spec.sourceTypes` is in `Manifest`.
* The regular expressions of the linter: a line is the set of the patterns it matches.
* Dispatch of the commands, the reports, `schema` and the live display of the worker's output:
  printing.
* The retry under `sudo` (see `Harness`), symbolic links, and an `--out` inside `assets/`.
* What Python's `iter_entries` raises on a result that is no object.
* The probes of `/readyz` and the limits on the size of a body, in the emulators and in the SDKs:
  they keep no state.
