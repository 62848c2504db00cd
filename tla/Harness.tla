------------------------------- MODULE Harness -------------------------------
(***************************************************************************)
(* One scenario of `aa26-connector test` (main.go: runSingleScenario,      *)
(* executeWorker, runWorker): the harness binds the emulator's port, runs  *)
(* the worker's container through the docker CLI, waits for it, shuts the  *)
(* emulator down and evaluates the fixture's expectations on what the      *)
(* emulator collected.                                                     *)
(*                                                                         *)
(* Four parties interleave: the harness goroutine, the goroutines of the   *)
(* emulator (module Emulator), the docker CLI the harness started, and the *)
(* container, which belongs to the docker daemon and not to the CLI: a CLI *)
(* killed by SIGKILL cannot stop it.  The worker in the container may call *)
(* any endpoint at any time, and exit at any time, or never.               *)
(***************************************************************************)
EXTENDS Emulator, Fixture

CONSTANTS
  Expectations,   \* candidate expect blocks of the fixture
  ExitCodes       \* the exit codes a worker ends with

ASSUME ExitCodesAssumption == ExitCodes \subseteq Nat

VARIABLES
  main,        \* where the harness goroutine is
  listener,    \* is port 8089 bound?
  cli,         \* the docker CLI process
  cliCode,     \* its exit code
  container,   \* the worker's container
  sig,         \* an interrupt in runWorker's signal channel
  gaveUp,      \* did a timer of runWorker end the wait for the CLI?
  exitCode,    \* RunResult.ExitCode
  failed,      \* executeWorker returns an error
  snap,        \* what Evaluate has read of the RunResult
  verdict      \* "none", then "pass" or "fail"

world     == <<cli, cliCode, container, sig>>
judgement == <<snap, verdict>>
hvars     == <<world, judgement, main, listener, gaveUp, exitCode, failed>>
allvars   == <<vars, hvars>>

Unread == [Status |-> "unset", ExitCode |-> 0, Findings |-> <<>>, LogEvents |-> <<>>,
           EndpointCalls |-> [k \in Methods \X Paths |-> 0]]

\* What the emulator and runWorker have collected so far.
Result == [Status |-> status, ExitCode |-> exitCode, Findings |-> findings,
           LogEvents |-> logEvents, EndpointCalls |-> endpointCalls]

HTypeOK ==
  /\ TypeOK
  /\ main \in {"listen", "extraction", "start", "select", "drain", "interrupted",
               "reap", "shutdown", "closing", "readStatus", "readFindings",
               "readCalls", "judged", "error"}
  /\ listener \in BOOLEAN
  /\ cli \in {"absent", "running", "exited"}
  /\ cliCode \in Int
  /\ container \in {"absent", "running", "gone"}
  /\ sig \in BOOLEAN
  /\ gaveUp \in BOOLEAN
  /\ exitCode \in Int
  /\ failed \in BOOLEAN
  /\ DOMAIN snap = DOMAIN Unread
  /\ verdict \in {"none", "pass", "fail"}

HInit ==
  /\ Init
  /\ main = "listen"
  /\ listener = FALSE
  /\ cli = "absent"
  /\ cliCode = 0
  /\ container = "absent"
  /\ sig = FALSE
  /\ gaveUp = FALSE
  /\ exitCode = 0
  /\ failed = FALSE
  /\ snap = Unread
  /\ verdict = "none"

Goto(from, to) == main = from /\ main' = to

-----------------------------------------------------------------------------
(* executeWorker, up to the start of the worker *)

\* listenEmulator, and `go server.Serve`; a second listener follows if the manifest
\* opts in to the extraction sidecar.  Or the port is taken: nothing to undo.
Listen ==
  /\ \/ /\ main = "listen"
        /\ main' \in {"extraction", "start"}
        /\ listener' = TRUE
        /\ UNCHANGED failed
     \/ /\ Goto("listen", "error")
        /\ failed' = TRUE
        /\ UNCHANGED listener
  /\ UNCHANGED <<vars, world, judgement, gaveUp, exitCode>>

\* listenExtractionEmulator; an error runs the deferred Shutdown of the emulator.
ListenExtraction ==
  /\ \/ Goto("extraction", "start") /\ UNCHANGED failed
     \/ Goto("extraction", "shutdown") /\ failed' = TRUE
  /\ UNCHANGED <<vars, world, judgement, listener, gaveUp, exitCode>>

\* cmd.Start.  Its retry under sudo needs a docker that refuses this user, and the
\* `docker image inspect` of ensureWorkerImage, never under sudo, has stopped those.
StartWorker ==
  /\ \/ /\ Goto("start", "select")
        /\ cli' = "running"
        /\ UNCHANGED <<exitCode, failed>>
     \/ /\ Goto("start", "shutdown")
        /\ exitCode' = -1
        /\ failed' = TRUE
        /\ UNCHANGED cli
  /\ UNCHANGED <<vars, judgement, listener, cliCode, container, sig, gaveUp>>

-----------------------------------------------------------------------------
(* runWorker's selects *)

\* The outer select: the CLI exited, Done() is closed, or the user interrupted.
SelectDone ==
  /\ finished
  /\ Goto("select", "drain")
  /\ UNCHANGED <<vars, world, judgement, listener, gaveUp, exitCode, failed>>

SelectSignal ==
  /\ sig
  /\ Goto("select", "interrupted")
  /\ UNCHANGED <<vars, world, judgement, listener, gaveUp, exitCode, failed>>

\* `<-exited` in the outer select and in both inner ones: the CLI's own exit code.
CliReaped ==
  /\ cli = "exited"
  /\ main \in {"select", "drain", "interrupted"}
  /\ main' = "shutdown"
  /\ exitCode' = cliCode
  /\ UNCHANGED <<vars, world, judgement, listener, gaveUp, failed>>

\* Mutant: an interrupted worker is reported as a success, too.
GiveUpZero ==
  /\ main \in {"drain", "interrupted"}
  /\ main' = "reap"
  /\ gaveUp' = TRUE
  /\ exitCode' = 0
  /\ IF cli = "running" THEN cli' = "exited" /\ cliCode' = -1
                        ELSE UNCHANGED <<cli, cliCode>>
  /\ UNCHANGED <<vars, judgement, listener, container, sig, failed>>

\* Mutant: the wait ends without killing the CLI.
GiveUpNoKill ==
  /\ main \in {"drain", "interrupted"}
  /\ main' = "shutdown"
  /\ gaveUp' = TRUE
  /\ exitCode' = IF main = "drain" THEN 0 ELSE 130
  /\ UNCHANGED <<vars, world, judgement, listener, failed>>

\* Mutant: no timer bounds the wait after Done().
GiveUpOnlyOnSignal ==
  /\ main = "interrupted"
  /\ main' = "reap"
  /\ gaveUp' = TRUE
  /\ exitCode' = 130
  /\ IF cli = "running" THEN cli' = "exited" /\ cliCode' = -1
                        ELSE UNCHANGED <<cli, cliCode>>
  /\ UNCHANGED <<vars, judgement, listener, container, sig, failed>>

\* The timers of the inner selects (5 s after Done(), 3 s after an interrupt): kill
\* the CLI, and report 0 or 130 for it.
GiveUp ==
  /\ main \in {"drain", "interrupted"}
  /\ main' = "reap"
  /\ gaveUp' = TRUE
  /\ exitCode' = IF main = "drain" THEN 0 ELSE 130
  /\ IF cli = "running" THEN cli' = "exited" /\ cliCode' = -1
                        ELSE UNCHANGED <<cli, cliCode>>
  /\ UNCHANGED <<vars, judgement, listener, container, sig, failed>>

\* `<-exited` after the kill.
Reap ==
  /\ cli = "exited"
  /\ Goto("reap", "shutdown")
  /\ UNCHANGED <<vars, world, judgement, listener, gaveUp, exitCode, failed>>

-----------------------------------------------------------------------------
(* server.Shutdown and Evaluate *)

CloseListener ==
  /\ Goto("shutdown", "closing")
  /\ listener' = FALSE
  /\ UNCHANGED <<vars, world, judgement, gaveUp, exitCode, failed>>

Active == {r \in Req : pc[r] \notin {"unsent", "done"}}

\* Mutant: the server is stopped without waiting for its handlers.
ShutdownAtOnce ==
  /\ Goto("closing", IF failed THEN "error" ELSE "readStatus")
  /\ UNCHANGED <<vars, world, judgement, listener, gaveUp, exitCode, failed>>

\* Shutdown returns when no connection is active, or after 3 s.  Three seconds are
\* taken to be enough for every handler but one that reads from a live worker (the
\* long poll takes two).
ShutdownReturns ==
  /\ Goto("closing", IF failed THEN "error" ELSE "readStatus")
  /\ Active = {} \/ \E r \in Active : Reading(r)
  /\ UNCHANGED <<vars, world, judgement, listener, gaveUp, exitCode, failed>>

\* Evaluate reads the result without Emulator.mu, one field after the other.
ReadStatus ==
  /\ Goto("readStatus", "readFindings")
  /\ snap' = [snap EXCEPT !.Status = status, !.ExitCode = exitCode]
  /\ UNCHANGED <<vars, world, listener, gaveUp, exitCode, failed, verdict>>

ReadFindings ==
  /\ Goto("readFindings", "readCalls")
  /\ snap' = [snap EXCEPT !.Findings = findings, !.LogEvents = logEvents]
  /\ UNCHANGED <<vars, world, listener, gaveUp, exitCode, failed, verdict>>

Judge ==
  /\ Goto("readCalls", "judged")
  /\ snap' = [snap EXCEPT !.EndpointCalls = endpointCalls]
  /\ \E expect \in Expectations :
       verdict' = IF Evaluate(expect, snap') = {} THEN "pass" ELSE "fail"
  /\ UNCHANGED <<vars, world, listener, gaveUp, exitCode, failed>>

-----------------------------------------------------------------------------
(* docker, the worker and the user *)

InRunWorker == main \in {"select", "drain", "interrupted", "reap"}

ContainerStarts ==
  /\ cli = "running"
  /\ container = "absent"
  /\ container' = "running"
  /\ UNCHANGED <<vars, main, judgement, listener, cli, cliCode, sig, gaveUp, exitCode, failed>>

\* The CLI could not create the container (docker reports 125).
CliFails ==
  /\ cli = "running"
  /\ container = "absent"
  /\ cli' = "exited"
  /\ cliCode' = 125
  /\ UNCHANGED <<vars, main, judgement, listener, container, sig, gaveUp, exitCode, failed>>

\* The worker exits, and its connections are closed.
WorkerExits ==
  LET waiting == {r \in Req : client[r] = "waiting"}
  IN  /\ container = "running"
      /\ container' = "gone"
      /\ cliCode' \in IF cli = "running" THEN ExitCodes ELSE {cliCode}
      /\ IF waiting = {} THEN UNCHANGED vars ELSE ClientsGone(waiting)
      /\ UNCHANGED <<main, judgement, listener, cli, sig, gaveUp, exitCode, failed>>

CliExits ==
  /\ cli = "running"
  /\ container = "gone"
  /\ cli' = "exited"
  /\ UNCHANGED <<vars, main, judgement, listener, cliCode, container, sig, gaveUp, exitCode, failed>>

\* SIGINT or SIGTERM while runWorker has its handler installed.
Interrupt ==
  /\ InRunWorker
  /\ ~sig
  /\ sig' = TRUE
  /\ UNCHANGED <<vars, main, judgement, listener, cli, cliCode, container, gaveUp, exitCode, failed>>

\* The worker calls an endpoint, or gives up on a call.
WorkerCalls ==
  /\ container = "running"
  /\ listener
  /\ \E r \in Req, q \in Inputs : Arrive(r, q)
  /\ UNCHANGED hvars

WorkerAbandons ==
  /\ container = "running"
  /\ \E r \in Req : ClientsGone({r})
  /\ UNCHANGED hvars

\* The harness process ends once it has its verdict, or an error.
Ended == main \in {"judged", "error"}

EmulatorServes(r) ==
  /\ ~Ended
  /\ Serve(r)
  /\ UNCHANGED hvars

-----------------------------------------------------------------------------
MainStep ==
  \/ Listen \/ ListenExtraction \/ StartWorker
  \/ SelectDone \/ SelectSignal \/ CliReaped \/ GiveUp \/ Reap
  \/ CloseListener \/ ShutdownReturns \/ ReadStatus \/ ReadFindings \/ Judge

Environment ==
  \/ ContainerStarts \/ CliFails \/ WorkerExits \/ CliExits \/ Interrupt
  \/ WorkerCalls \/ WorkerAbandons

HNext ==
  \/ MainStep
  \/ ~Ended /\ Environment
  \/ \E r \in Req : EmulatorServes(r)

HSafety == HInit /\ [][HNext]_allvars

(***************************************************************************)
(* The harness goroutine and its timers, the emulator's goroutines and the *)
(* docker CLI go on when they can; the worker and the user need not.       *)
(***************************************************************************)
HFairness ==
  /\ WF_allvars(MainStep)
  /\ WF_allvars(~Ended /\ CliExits)
  /\ \A r \in Req : WF_allvars(~Reading(r) /\ EmulatorServes(r))

HSpec == HSafety /\ HFairness
-----------------------------------------------------------------------------
Judged == main = "judged"

\* A worker is never taken for completed by an exit code that runWorker made up: when it
\* reports 0 for a worker it killed after Done() (main.go:864), a status is in the result,
\* so that Evaluate does not fall back on the code.  The 130 that it makes up after an
\* interrupt does decide, for "failed".
InventedExitCodeUnused ==
  /\ main \in {"reap", "readFindings", "readCalls", "judged"} /\ gaveUp /\ exitCode = 0
       => status # "unset"
  /\ main \in {"readFindings", "readCalls", "judged"} /\ gaveUp /\ exitCode = 0
       => snap.Status # "unset"

\* runWorker never returns while its docker CLI still runs, and a container that is
\* left behind is always one whose CLI the harness stopped waiting for.
NothingLeftBehind ==
  main \in {"shutdown", "closing", "readStatus", "readFindings", "readCalls",
            "judged", "error"}
    => /\ cli # "running"
       /\ container = "running" => gaveUp

\* The verdict is about the whole run: unless the harness gave up on a CLI (whose
\* container may go on calling the emulator), no handler is left when Evaluate starts,
\* and what it reads field by field is one state of the result, the final one.
VerdictSeesWholeRun ==
  /\ main \in {"readStatus", "readFindings", "readCalls"} /\ ~gaveUp => Active = {}
  /\ Judged /\ ~gaveUp => snap = Result

\* Every finding the worker was told about counts: unless the harness gave up on the CLI, when
\* Evaluate's reads may race handlers, a run passes only if no answered upload (one an
\* override did not swallow) held a line that the schema rejects.
NoRejectedFindingPasses ==
  verdict = "pass" /\ ~gaveUp =>
    \A r \in Req : client[r] = "answered" /\ Key(r) = <<"POST", "/v1/findings">>
                     /\ ~Overridden(r)
                   => \A i \in DOMAIN req[r].lines :
                        req[r].lines[i].kind # "blank" => Validated(req[r].lines[i]).ok

\* Once the worker has completed or exited, or the user has interrupted the run, the
\* harness comes to its verdict, even when the worker never exits.
RunIsJudged ==
  main = "select" /\ (finished \/ cli = "exited" \/ sig) ~> Judged
=============================================================================
