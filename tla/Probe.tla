-------------------------------- MODULE Probe --------------------------------
(***************************************************************************)
(* `aa26-connector test --probe-contract` (probe.go, runProbeContract in   *)
(* main.go): the worker is run once per scenario, each time against a      *)
(* fresh emulator on the same port, and each run is judged by its terminal *)
(* status alone: findings that the schema rejects are collected, and play  *)
(* no part.                                                                *)
(*                                                                         *)
(* The scenarios share two things: the port, and the docker daemon.  A     *)
(* container whose CLI the harness killed goes on running, and calls       *)
(* whichever emulator is bound to the port.  Calls are atomic here; module *)
(* Emulator has their steps, module Harness those of one run.              *)
(***************************************************************************)
EXTENDS Integers, Sequences, Fixture

CONSTANTS
  Scenarios,      \* the scenarios of the probe, in order
  UserOverrides,  \* emulator.responses of the user's fixture
  KeepGoing,      \* --keep-going
  WorkerStatuses, \* the statuses a worker posts to /v1/complete
  ExitCodes       \* the exit codes a worker ends with

Scenario(name, path, method, status, accept) ==
  [name |-> name,
   overrides |-> [p \in {path} |-> [method |-> method, status |-> status]],
   accept |-> accept]

DefaultProbeScenarios ==
  << Scenario("cold-start",        "/v1/checkpoint", "GET",  204, {"completed"}),
     Scenario("warm-start",        "/v1/checkpoint", "GET",  200, {"completed"}),
     Scenario("control-empty-200", "/v1/control",    "GET",  200, {"completed"}),
     Scenario("log-rejected",      "/v1/log",        "POST", 500, {"completed", "failed"}),
     Scenario("progress-rejected", "/v1/progress",   "POST", 500, {"completed", "failed"}) >>

\* The layered map: for a path both define, extra replaces base, method and all.
MergeOverrides(base, extra) ==
  [p \in DOMAIN base \cup DOMAIN extra |->
     IF p \in DOMAIN extra THEN extra[p] ELSE base[p]]

\* An empty allow-list accepts any status the worker posted.
AcceptsStatus(sc, status) ==
  status \in sc.accept \/ (sc.accept = {} /\ status # "unset")

ASSUME ScenariosAssumption ==
  /\ Scenarios \in Seq({DefaultProbeScenarios[i] : i \in DOMAIN DefaultProbeScenarios})
  /\ Scenarios # << >>

ASSUME ProbeAssumption ==
  KeepGoing \in BOOLEAN /\ "unset" \notin WorkerStatuses /\ ExitCodes \subseteq Int

Runs == 1..Len(Scenarios)

VARIABLES
  current,     \* the scenario being run; Len(Scenarios) + 1 after the last
  phase,       \* where executeWorker is in it
  status,      \* RunResult.Status of the current run
  rejected,    \* does its Findings hold one that the schema rejects?
  finished,    \* is Done() of the current emulator closed?
  cli,         \* the docker CLI of the current run
  cliCode,     \* its exit code
  sig,         \* an interrupt in the signal channel of the current runWorker
  exitCode,    \* what runWorker returns
  containers,  \* the runs whose containers are alive
  callers,     \* for each run, the runs whose workers have called its emulator
  gaveUp,      \* history: the runs whose CLI the harness stopped waiting for
  outcomes,    \* the outcomes so far
  returned     \* "none", then what runProbeContract returns: "ok" or "error"

vars == <<current, phase, status, rejected, finished, cli, cliCode, sig, exitCode, containers,
          callers, gaveUp, outcomes, returned>>

\* reported (history): the status came from /v1/complete, not from the exit code.
Outcome == [status : WorkerStatuses \cup {"completed", "failed", "overridden", "error"},
            pass : BOOLEAN, exitCode : Int, reported : BOOLEAN]

TypeOK ==
  /\ current \in 1..Len(Scenarios) + 1
  /\ phase \in {"listen", "start", "select", "drain", "interrupted", "judge", "end"}
  /\ status \in WorkerStatuses \cup {"unset", "overridden"}
  /\ finished \in BOOLEAN
  /\ cli \in {"running", "exited"}
  /\ cliCode \in Int
  /\ sig \in BOOLEAN
  /\ exitCode \in Int
  /\ containers \subseteq Runs
  /\ callers \in [Runs -> SUBSET Runs]
  /\ rejected \in BOOLEAN
  /\ gaveUp \subseteq Runs
  /\ outcomes \in Seq(Outcome)
  /\ returned \in {"none", "ok", "error"}

Init ==
  /\ current = 1
  /\ phase = "listen"
  /\ status = "unset"
  /\ finished = FALSE
  /\ cli = "exited"
  /\ cliCode = 0
  /\ sig = FALSE
  /\ exitCode = 0
  /\ containers = {}
  /\ callers = [i \in Runs |-> {}]
  /\ rejected = FALSE
  /\ gaveUp = {}
  /\ outcomes = << >>
  /\ returned = "none"

Listening == phase \in {"start", "select", "drain", "interrupted"}

Overrides == MergeOverrides(UserOverrides, Scenarios[current].overrides)

\* Does an override answer a POST to the path?
PostOverridden(path) ==
  path \in DOMAIN Overrides /\ Overrides[path].method \in {"any", "POST"}

-----------------------------------------------------------------------------
\* The loop goes on to the next scenario, with this outcome of the current one.
Conclude(outcome) ==
  /\ outcomes' = Append(outcomes, outcome)
  /\ current' = current + 1
  /\ phase' = IF current = Len(Scenarios) THEN "end" ELSE "listen"

\* Mutant: a scenario that could not run leaves no outcome.
RunSkipped ==
  /\ phase \in {"listen", "start"}
  /\ current' = current + 1
  /\ phase' = IF current = Len(Scenarios) THEN "end" ELSE "listen"
  /\ UNCHANGED <<status, finished, cli, cliCode, sig, exitCode, containers, callers, rejected,
                 gaveUp, outcomes, returned>>

\* executeWorker fails (the port is taken, docker does not start): "error", and on.
RunFails ==
  /\ phase \in {"listen", "start"}
  /\ Conclude([status |-> "error", pass |-> FALSE, exitCode |-> -1,
               reported |-> FALSE])
  /\ UNCHANGED <<status, finished, cli, cliCode, sig, exitCode, containers, callers, rejected,
                 gaveUp, returned>>

\* A fresh RunResult and emulator, bound to the port.
Listen ==
  /\ phase = "listen"
  /\ phase' = "start"
  /\ status' = "unset"
  /\ rejected' = FALSE
  /\ finished' = FALSE
  /\ sig' = FALSE
  /\ UNCHANGED <<current, cli, cliCode, exitCode, containers, callers, gaveUp, outcomes,
                 returned>>

StartWorker ==
  /\ phase = "start"
  /\ phase' = "select"
  /\ cli' = "running"
  /\ containers' = containers \cup {current}
  /\ UNCHANGED <<current, status, finished, cliCode, sig, exitCode, callers, rejected, gaveUp,
                 outcomes, returned>>

\* The worker of run i, alive, calls the bound emulator: neither of what follows.
Call(i) ==
  /\ Listening
  /\ i \in containers
  /\ callers' = [callers EXCEPT ![current] = @ \cup {i}]
  /\ UNCHANGED <<current, phase, status, finished, cli, cliCode, sig, exitCode,
                 containers, rejected, gaveUp, outcomes, returned>>

\* It uploads a finding that the schema rejects, unless an override swallows it.
UploadRejected(i) ==
  /\ Listening
  /\ i \in containers
  /\ ~PostOverridden("/v1/findings")
  /\ callers' = [callers EXCEPT ![current] = @ \cup {i}]
  /\ rejected' = TRUE
  /\ UNCHANGED <<current, phase, status, finished, cli, cliCode, sig, exitCode,
                 containers, gaveUp, outcomes, returned>>

\* It posts a status to /v1/complete, which the fixture may override.
PostComplete(i, s) ==
  /\ Listening
  /\ i \in containers
  /\ callers' = [callers EXCEPT ![current] = @ \cup {i}]
  /\ status' = IF ~PostOverridden("/v1/complete") THEN s
               ELSE IF status = "unset" THEN "overridden" ELSE status
  /\ finished' = TRUE
  /\ UNCHANGED <<current, phase, cli, cliCode, sig, exitCode, containers, rejected, gaveUp,
                 outcomes, returned>>

\* A worker exits; the CLI of the current one reports how.
WorkerExits(i) ==
  /\ i \in containers
  /\ containers' = containers \ {i}
  /\ IF i = current /\ cli = "running"
     THEN cli' = "exited" /\ cliCode' \in ExitCodes
     ELSE UNCHANGED <<cli, cliCode>>
  /\ UNCHANGED <<current, phase, status, finished, sig, exitCode, callers, rejected, gaveUp,
                 outcomes, returned>>

Interrupt ==
  /\ phase \in {"select", "drain", "interrupted"}
  /\ ~sig
  /\ sig' = TRUE
  /\ UNCHANGED <<current, phase, status, finished, cli, cliCode, exitCode, containers,
                 callers, rejected, gaveUp, outcomes, returned>>

\* Mutant: Done() ends the run at once.
SelectNoDrain ==
  /\ phase = "select"
  /\ \/ finished /\ phase' = "judge"
     \/ sig /\ phase' = "interrupted"
  /\ UNCHANGED <<current, status, finished, cli, cliCode, sig, exitCode, containers,
                 callers, rejected, gaveUp, outcomes, returned>>

\* runWorker: the outer select, ...
Select ==
  /\ phase = "select"
  /\ \/ finished /\ phase' = "drain"
     \/ sig /\ phase' = "interrupted"
  /\ UNCHANGED <<current, status, finished, cli, cliCode, sig, exitCode, containers,
                 callers, rejected, gaveUp, outcomes, returned>>

\* Mutant: the outer select does not watch the CLI.
CliReapedInner ==
  /\ phase \in {"drain", "interrupted"}
  /\ cli = "exited"
  /\ phase' = "judge"
  /\ exitCode' = cliCode
  /\ UNCHANGED <<current, status, finished, cli, cliCode, sig, containers, callers, rejected,
                 gaveUp, outcomes, returned>>

\* ... the exit of the CLI, ...
CliReaped ==
  /\ phase \in {"select", "drain", "interrupted"}
  /\ cli = "exited"
  /\ phase' = "judge"
  /\ exitCode' = cliCode
  /\ UNCHANGED <<current, status, finished, cli, cliCode, sig, containers, callers, rejected,
                 gaveUp, outcomes, returned>>

\* Mutant: an interrupted worker is reported as a success, too.
GiveUpZero ==
  /\ phase \in {"drain", "interrupted"}
  /\ cli' = "exited"
  /\ gaveUp' = gaveUp \cup {current}
  /\ phase' = "judge"
  /\ exitCode' = 0
  /\ UNCHANGED <<current, status, finished, cliCode, sig, containers, callers, rejected, outcomes,
                 returned>>

\* ... and the timers: a CLI still running is killed, its container is not.
GiveUp ==
  /\ phase \in {"drain", "interrupted"}
  /\ cli' = "exited"
  /\ gaveUp' = gaveUp \cup {current}
  /\ phase' = "judge"
  /\ exitCode' = IF phase = "drain" THEN 0 ELSE 130
  /\ UNCHANGED <<current, status, finished, cliCode, sig, containers, callers, rejected, outcomes,
                 returned>>

\* After Shutdown: the terminal status is the single gate.
Judge ==
  LET got == TerminalStatus(status, exitCode)
  IN  /\ phase = "judge"
      /\ Conclude([status |-> got, pass |-> AcceptsStatus(Scenarios[current], got),
                   exitCode |-> exitCode, reported |-> status # "unset"])
      /\ UNCHANGED <<status, finished, cli, cliCode, sig, exitCode, containers, callers, rejected,
                     gaveUp, returned>>

\* The table is printed; totalFailures decides what the command returns.
Return ==
  LET totalFailures == Cardinality({i \in DOMAIN outcomes : ~outcomes[i].pass})
  IN  /\ phase = "end"
      /\ returned = "none"
      /\ returned' = IF totalFailures > 0 /\ ~KeepGoing THEN "error" ELSE "ok"
      /\ UNCHANGED <<current, phase, status, finished, cli, cliCode, sig, exitCode,
                     containers, callers, rejected, gaveUp, outcomes>>

HarnessStep ==
  RunFails \/ Listen \/ StartWorker \/ Select \/ CliReaped \/ GiveUp \/ Judge \/ Return

Next ==
  \/ HarnessStep
  \/ Interrupt
  \/ \E i \in Runs : Call(i) \/ UploadRejected(i) \/ WorkerExits(i)
  \/ \E i \in Runs, s \in WorkerStatuses : PostComplete(i, s)

Safety == Init /\ [][Next]_vars

\* The harness goes on when it can; every worker exits some day.
Fairness ==
  /\ WF_vars(HarnessStep)
  /\ \A i \in Runs : WF_vars(WorkerExits(i))

Spec == Safety /\ Fairness

-----------------------------------------------------------------------------
\* A result is made of the calls of its own worker, and of no other's but those that
\* the harness abandoned in an earlier scenario.
OnlyAbandonedWorkersIntrude ==
  \A i \in Runs : \A j \in callers[i] \ {i} : j \in gaveUp /\ j < i

\* The command is as good as its worst scenario: it returns no error exactly if every
\* scenario was run and ended in a status that it accepts, or under --keep-going.  The
\* status is all that counts (main.go:632): see RejectedFindingsFailScenarios.
ReturnedReflectsOutcomes ==
  returned # "none" =>
    /\ Len(outcomes) = Len(Scenarios)
    /\ returned = "ok" <=> KeepGoing \/ \A i \in Runs : /\ outcomes[i].pass
                                                       /\ outcomes[i].status \in Scenarios[i].accept

\* The exit codes that runWorker makes up for a CLI it kills pass no scenario that
\* demands "completed": the status was reported by then.
NoPassOnInventedExitCode ==
  \A i \in DOMAIN outcomes :
    i \in gaveUp /\ outcomes[i].pass /\ "failed" \notin Scenarios[i].accept
      => outcomes[i].reported

\* main.go:597: a scenario passes by an accepted status "AND no schema-validation errors
\* fired"; docs/test-harness.md:39 calls schema violations failures always.
RejectedFindingsFailScenarios ==
  [][rejected /\ outcomes' # outcomes => ~outcomes'[current].pass]_vars

\* Every probe ends, whichever way its workers behave, as long as they end.
ProbeEnds == <>(returned # "none")
=============================================================================
