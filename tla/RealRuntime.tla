----------------------------- MODULE RealRuntime -----------------------------
(***************************************************************************)
(* `aa26-connector test --real-runtime` (runRealRuntime in realruntime.go, *)
(* and the end of runSingleScenario): the worker runs against a container  *)
(* of the production runtime, in its network namespace, and the findings   *)
(* are read from a file that the runtime wrote.                            *)
(*                                                                         *)
(* Several harnesses run on one machine, one after the other or at the     *)
(* same time.  They share the docker daemon, in which all of them give     *)
(* their runtime container the same name; each is known by its ID after    *)
(* that.  No signal handler is installed in this mode: an interrupt ends   *)
(* the harness on the spot, without its deferred calls.                    *)
(***************************************************************************)
EXTENDS Integers, Sequences, Fixture

CONSTANTS
  Harnesses,     \* the harness processes, each of which runs once
  Findings,      \* what a worker may post: the line's type, the schema's verdict
  ExitCodes,     \* the exit codes a worker ends with
  Expectations,  \* candidate expect blocks of the fixture
  MaxFindings,   \* bound on the findings of a worker
  None           \* no container

ASSUME FindingsAssumption == \A f \in Findings : f.ok \in BOOLEAN

ASSUME RealRuntimeAssumption ==
  ExitCodes \subseteq Int /\ MaxFindings \in Nat /\ None \notin Harnesses

VARIABLES
  runtime,   \* the harness whose container holds the name aa26-rt-emu, or None
  worker,    \* the worker container of a harness
  sink,      \* the findings file in its scratch directory
  scratch,   \* does its scratch directory exist?
  pc,        \* where it is in runRealRuntime
  findings,  \* RunResult.Findings
  exitCode,  \* the exit code of its worker
  failed,    \* runRealRuntime returns an error
  verdict,   \* "none", then "pass" or "fail"
  expect     \* the expect block of its fixture

daemon == <<runtime, worker, sink>>
vars   == <<daemon, scratch, pc, findings, exitCode, failed, verdict, expect>>

TypeOK ==
  /\ runtime \in Harnesses \cup {None}
  /\ worker \in [Harnesses -> {"absent", "running", "gone"}]
  /\ sink \in [Harnesses -> Seq(Findings)]
  /\ scratch \in [Harnesses -> BOOLEAN]
  /\ pc \in [Harnesses -> {"idle", "scratch", "files", "stale", "run", "worker", "wait",
                           "harvest", "cleanup", "unscratch", "judge", "ended", "killed"}]
  /\ findings \in [Harnesses -> Seq(Findings)]
  /\ exitCode \in [Harnesses -> Int]
  /\ failed \in [Harnesses -> BOOLEAN]
  /\ verdict \in [Harnesses -> {"none", "pass", "fail"}]
  /\ expect \in [Harnesses -> Expectations]

Init ==
  /\ runtime = None
  /\ worker = [h \in Harnesses |-> "absent"]
  /\ sink = [h \in Harnesses |-> << >>]
  /\ scratch = [h \in Harnesses |-> FALSE]
  /\ pc = [h \in Harnesses |-> "idle"]
  /\ findings = [h \in Harnesses |-> << >>]
  /\ exitCode = [h \in Harnesses |-> 0]
  /\ failed = [h \in Harnesses |-> FALSE]
  /\ verdict = [h \in Harnesses |-> "none"]
  /\ expect \in [Harnesses -> Expectations]

Goto(h, from, to) ==
  /\ pc[h] = from
  /\ pc' = [pc EXCEPT ![h] = to]

\* An early return with an error: the deferred calls registered so far still run.
Fail(h, from, to) ==
  /\ Goto(h, from, to)
  /\ failed' = [failed EXCEPT ![h] = TRUE]

Running(h) == pc[h] \notin {"idle", "ended", "killed"}

-----------------------------------------------------------------------------
\* ensureWorkerImage for the runtime's image; nothing to undo on an error.
CheckImage(h) ==
  /\ \/ Goto(h, "idle", "scratch") /\ UNCHANGED failed
     \/ Fail(h, "idle", "ended")
  /\ UNCHANGED <<daemon, scratch, findings, exitCode, verdict, expect>>

\* os.MkdirTemp, whose removal is deferred.
MakeScratch(h) ==
  /\ \/ /\ Goto(h, "scratch", "files")
        /\ scratch' = [scratch EXCEPT ![h] = TRUE]
        /\ UNCHANGED failed
     \/ Fail(h, "scratch", "ended") /\ UNCHANGED scratch
  /\ UNCHANGED <<daemon, findings, exitCode, verdict, expect>>

\* writeInvocationFile and the empty findings file.
WriteFiles(h) ==
  /\ \/ Goto(h, "files", "stale") /\ UNCHANGED failed
     \/ Fail(h, "files", "unscratch")
  /\ UNCHANGED <<daemon, scratch, findings, exitCode, verdict, expect>>

\* `docker rm -f aa26-rt-emu`, meant for a leftover container: whoever holds the name.
RemoveStale(h) ==
  /\ Goto(h, "stale", "run")
  /\ runtime' = None
  /\ UNCHANGED <<worker, sink, scratch, findings, exitCode, failed, verdict, expect>>

\* dockerRunDetached: docker refuses a name that is taken, or fails otherwise.
\* Removing the container, by its ID, is deferred.
RunRuntime(h) ==
  /\ \/ /\ runtime = None
        /\ Goto(h, "run", "worker")
        /\ runtime' = h
        /\ UNCHANGED failed
     \/ Fail(h, "run", "unscratch") /\ UNCHANGED runtime
  /\ UNCHANGED <<worker, sink, scratch, findings, exitCode, verdict, expect>>

\* The worker is started in the namespace of the runtime: docker refuses that (125) when
\* the runtime is gone.  Or the docker CLI itself does not start.
RunWorker(h) ==
  /\ \/ /\ runtime = h
        /\ Goto(h, "worker", "wait")
        /\ worker' = [worker EXCEPT ![h] = "running"]
        /\ UNCHANGED <<exitCode, failed>>
     \/ /\ runtime # h
        /\ Goto(h, "worker", "harvest")
        /\ exitCode' = [exitCode EXCEPT ![h] = 125]
        /\ UNCHANGED <<worker, failed>>
     \/ /\ Fail(h, "worker", "cleanup")
        /\ UNCHANGED <<worker, exitCode>>
  /\ UNCHANGED <<runtime, sink, scratch, findings, verdict, expect>>

\* Mutant: the harness does not wait for its worker.
ReapEarly(h) ==
  /\ Goto(h, "wait", "harvest")
  /\ UNCHANGED <<daemon, scratch, findings, exitCode, failed, verdict, expect>>

\* Mutant: the harness waits for the runtime to exit, too.
ReapBoth(h) ==
  /\ worker[h] = "gone" /\ runtime # h
  /\ Goto(h, "wait", "harvest")
  /\ UNCHANGED <<daemon, scratch, findings, exitCode, failed, verdict, expect>>

\* runCommandReportExit: the docker CLI has exited with its worker.
Reap(h) ==
  /\ worker[h] = "gone"
  /\ Goto(h, "wait", "harvest")
  /\ UNCHANGED <<daemon, scratch, findings, exitCode, failed, verdict, expect>>

\* Mutant: an error while reading returns without the deferred removal of the runtime.
HarvestNoDefer(h) ==
  /\ \/ /\ Goto(h, "harvest", "cleanup")
        /\ findings' = [findings EXCEPT ![h] = sink[h]]
        /\ UNCHANGED failed
     \/ /\ Fail(h, "harvest", "unscratch")
        /\ \E n \in 0..Len(sink[h]) - 1 :
             findings' = [findings EXCEPT ![h] = SubSeq(sink[h], 1, n)]
  /\ UNCHANGED <<daemon, scratch, exitCode, verdict, expect>>

\* loadAndValidateFindings: every line, or those before one the scanner cannot hold.
Harvest(h) ==
  /\ \/ /\ Goto(h, "harvest", "cleanup")
        /\ findings' = [findings EXCEPT ![h] = sink[h]]
        /\ UNCHANGED failed
     \/ /\ Fail(h, "harvest", "cleanup")
        /\ \E n \in 0..Len(sink[h]) - 1 :
             findings' = [findings EXCEPT ![h] = SubSeq(sink[h], 1, n)]
  /\ UNCHANGED <<daemon, scratch, exitCode, verdict, expect>>

\* The deferred `docker rm -f <id>`: only a container of its own ...
RemoveRuntime(h) ==
  /\ Goto(h, "cleanup", "unscratch")
  /\ runtime' = IF runtime = h THEN None ELSE runtime
  /\ UNCHANGED <<worker, sink, scratch, findings, exitCode, failed, verdict, expect>>

\* ... and the deferred os.RemoveAll.
RemoveScratch(h) ==
  /\ Goto(h, "unscratch", IF failed[h] THEN "ended" ELSE "judge")
  /\ scratch' = [scratch EXCEPT ![h] = FALSE]
  /\ UNCHANGED <<daemon, findings, exitCode, failed, verdict, expect>>

\* The status is derived from the exit code; of the endpoints the harness knows nothing.
RunResult(h) ==
  [Status |-> TerminalStatus("unset", exitCode[h]), ExitCode |-> exitCode[h],
   Findings |-> findings[h], LogEvents |-> << >>, EndpointCalls |-> << >>]

Judge(h) ==
  /\ Goto(h, "judge", "ended")
  /\ verdict' = [verdict EXCEPT ![h] = IF Evaluate(expect[h], RunResult(h)) = {}
                                       THEN "pass" ELSE "fail"]
  /\ UNCHANGED <<daemon, scratch, findings, exitCode, failed, expect>>

-----------------------------------------------------------------------------
(* The user, the worker and the runtime *)

\* SIGINT or SIGTERM: no deferred call runs.  The worker may or may not notice.
Kill(h) ==
  /\ Running(h)
  /\ pc' = [pc EXCEPT ![h] = "killed"]
  /\ UNCHANGED <<daemon, scratch, findings, exitCode, failed, verdict, expect>>

\* The worker posts a finding, and its runtime writes it to the file it has mounted.
WorkerPosts(h) ==
  /\ worker[h] = "running"
  /\ runtime = h
  /\ Len(sink[h]) < MaxFindings
  /\ \E f \in Findings : sink' = [sink EXCEPT ![h] = Append(@, f)]
  /\ UNCHANGED <<runtime, worker, scratch, pc, findings, exitCode, failed, verdict, expect>>

WorkerExits(h) ==
  /\ worker[h] = "running"
  /\ worker' = [worker EXCEPT ![h] = "gone"]
  /\ \E code \in ExitCodes : exitCode' = [exitCode EXCEPT ![h] = code]
  /\ UNCHANGED <<runtime, sink, scratch, pc, findings, failed, verdict, expect>>

\* The runtime exits (it does after /v1/complete), and --rm removes its container.
RuntimeExits ==
  /\ runtime # None
  /\ runtime' = None
  /\ UNCHANGED <<worker, sink, scratch, pc, findings, exitCode, failed, verdict, expect>>

HarnessStep(h) ==
  \/ CheckImage(h) \/ MakeScratch(h) \/ WriteFiles(h) \/ RemoveStale(h) \/ RunRuntime(h)
  \/ RunWorker(h) \/ Reap(h) \/ Harvest(h) \/ RemoveRuntime(h) \/ RemoveScratch(h)
  \/ Judge(h)

Next ==
  \/ \E h \in Harnesses : HarnessStep(h) \/ Kill(h) \/ WorkerPosts(h) \/ WorkerExits(h)
  \/ RuntimeExits

Safety == Init /\ [][Next]_vars

\* A harness that was started goes on; every worker exits some day.
Fairness ==
  \A h \in Harnesses : WF_vars(Running(h) /\ HarnessStep(h)) /\ WF_vars(WorkerExits(h))

Spec == Safety /\ Fairness

-----------------------------------------------------------------------------
\* A harness that was not killed leaves no container and no scratch directory behind,
\* on whichever of its early returns it ended, and whoever else uses the name.
NothingLeftBehind ==
  \A h \in Harnesses :
    pc[h] = "ended" => runtime # h /\ worker[h] # "running" /\ ~scratch[h]

\* A verdict is on all that the runtime accepted from the worker of this run, and by
\* the exit code of that worker: a pass of a fixture that asks for no status needs an
\* exit code of 0, though another harness may have taken the runtime away.
PassIsEarned ==
  \A h \in Harnesses :
    verdict[h] = "pass" =>
      /\ \A i \in DOMAIN sink[h] : sink[h][i].ok
      /\ expect[h].status = "unset" => worker[h] = "gone" /\ exitCode[h] = 0

\* Every harness that was started ends, if its worker does.
RunEnds == \A h \in Harnesses : Running(h) ~> ~Running(h)
=============================================================================
