-------------------------- MODULE RealRuntime_proofs --------------------------
(***************************************************************************)
(* Proofs about RealRuntime, for any number of harnesses on one docker     *)
(* daemon, and workers that post any number of findings.                   *)
(***************************************************************************)
EXTENDS RealRuntime, TLAPS

Places == {"idle", "scratch", "files", "stale", "run", "worker", "wait",
           "harvest", "cleanup", "unscratch", "judge", "ended", "killed"}

-----------------------------------------------------------------------------
(* Type correctness *)

LEMMA TypeInit == Init => TypeOK
BY DEF Init, TypeOK

\* The types of what one harness's step changes.
LEMMA GotoType ==
  ASSUME TypeOK, NEW h \in Harnesses, NEW from, NEW to \in Places, Goto(h, from, to)
  PROVE  pc' \in [Harnesses -> Places]
BY DEF TypeOK, Goto, Places

LEMMA HarnessType ==
  ASSUME TypeOK, NEW h \in Harnesses, HarnessStep(h)
  PROVE  TypeOK'
<1> USE GotoType DEF TypeOK, Places, daemon
<1>1. CASE CheckImage(h)
  BY <1>1 DEF CheckImage, Fail
<1>2. CASE MakeScratch(h)
  BY <1>2 DEF MakeScratch, Fail
<1>3. CASE WriteFiles(h)
  BY <1>3 DEF WriteFiles, Fail
<1>4. CASE RemoveStale(h)
  BY <1>4 DEF RemoveStale
<1>5. CASE RunRuntime(h)
  BY <1>5 DEF RunRuntime, Fail
<1>6. CASE RunWorker(h)
  <2>1. /\ worker' \in [Harnesses -> {"absent", "running", "gone"}]
        /\ failed' \in [Harnesses -> BOOLEAN]
    BY <1>6 DEF RunWorker, Fail
  <2>2. exitCode' = exitCode \/ exitCode' = [exitCode EXCEPT ![h] = 125]
    BY <1>6 DEF RunWorker
  <2>3. exitCode' \in [Harnesses -> Int]
    BY <2>2
  <2>4. pc' \in [Harnesses -> Places]
    BY <1>6 DEF RunWorker, Fail
  <2> QED
    BY <1>6, <2>1, <2>3, <2>4 DEF RunWorker
<1>7. CASE Reap(h)
  BY <1>7 DEF Reap
<1>8. CASE Harvest(h)
  <2>1. sink[h] \in Seq(Findings)
    OBVIOUS
  <2>2. \A n \in 0..Len(sink[h]) - 1 : SubSeq(sink[h], 1, n) \in Seq(Findings)
    BY <2>1
  <2>3. PICK fs \in Seq(Findings) : findings' = [findings EXCEPT ![h] = fs]
    BY <1>8, <2>1, <2>2 DEF Harvest
  <2> QED
    BY <1>8, <2>3 DEF Harvest, Fail
<1>9. CASE RemoveRuntime(h)
  BY <1>9 DEF RemoveRuntime
<1>10. CASE RemoveScratch(h)
  BY <1>10 DEF RemoveScratch
<1>11. CASE Judge(h)
  BY <1>11 DEF Judge
<1> QED
  BY <1>1, <1>2, <1>3, <1>4, <1>5, <1>6, <1>7, <1>8, <1>9, <1>10, <1>11 DEF HarnessStep

LEMMA TypeStep == TypeOK /\ [Next]_vars => TypeOK'
<1> SUFFICES ASSUME TypeOK, [Next]_vars PROVE TypeOK'
  OBVIOUS
<1> USE DEF TypeOK
<1>1. ASSUME NEW h \in Harnesses, HarnessStep(h) PROVE TypeOK'
  BY <1>1, HarnessType
<1>2. ASSUME NEW h \in Harnesses, Kill(h) PROVE TypeOK'
  BY <1>2 DEF Kill, daemon
<1>3. ASSUME NEW h \in Harnesses, WorkerPosts(h) PROVE TypeOK'
  BY <1>3 DEF WorkerPosts
<1>4. ASSUME NEW h \in Harnesses, WorkerExits(h) PROVE TypeOK'
  BY <1>4, RealRuntimeAssumption DEF WorkerExits
<1>5. CASE RuntimeExits
  BY <1>5 DEF RuntimeExits
<1>6. CASE UNCHANGED vars
  BY <1>6 DEF vars, daemon
<1> QED
  BY <1>1, <1>2, <1>3, <1>4, <1>5, <1>6 DEF Next

\* Every variable keeps its type: the fields of each harness's runRealRuntime, and docker.
THEOREM TypeCorrect == Spec => []TypeOK
<1>1. Safety => []TypeOK
  BY TypeInit, TypeStep, PTL DEF Safety
<1> QED
  BY <1>1, PTL DEF Spec

-----------------------------------------------------------------------------
(* Nothing is left behind *)

\* Each resource of a harness lives only between the step that makes it and the deferred
\* call that removes it, or on after a kill.
OwnInv(h) ==
  /\ scratch[h] => pc[h] \notin {"idle", "scratch", "judge", "ended"}
  /\ runtime = h => pc[h] \in {"worker", "wait", "harvest", "cleanup", "killed"}
  /\ worker[h] = "running" => pc[h] \in {"wait", "killed"}

LeftInv == \A h \in Harnesses : OwnInv(h)

LEMMA LeftInit == Init => LeftInv
BY RealRuntimeAssumption DEF Init, LeftInv, OwnInv

LEMMA LeftHarness ==
  ASSUME TypeOK, LeftInv, NEW h \in Harnesses, HarnessStep(h), NEW i \in Harnesses
  PROVE  OwnInv(i)'
<1>0. OwnInv(h) /\ OwnInv(i)
  BY DEF LeftInv
<1> USE <1>0, RealRuntimeAssumption DEF TypeOK, OwnInv, Goto, Fail, daemon
<1>1. CASE CheckImage(h)
  BY <1>1 DEF CheckImage
<1>2. CASE MakeScratch(h)
  BY <1>2 DEF MakeScratch
<1>3. CASE WriteFiles(h)
  BY <1>3 DEF WriteFiles
<1>4. CASE RemoveStale(h)
  BY <1>4 DEF RemoveStale
<1>5. CASE RunRuntime(h)
  BY <1>5 DEF RunRuntime
<1>6. CASE RunWorker(h)
  BY <1>6 DEF RunWorker
<1>7. CASE Reap(h)
  BY <1>7 DEF Reap
<1>8. CASE Harvest(h)
  BY <1>8 DEF Harvest
<1>9. CASE RemoveRuntime(h)
  BY <1>9 DEF RemoveRuntime
<1>10. CASE RemoveScratch(h)
  BY <1>10 DEF RemoveScratch
<1>11. CASE Judge(h)
  BY <1>11 DEF Judge
<1> QED
  BY <1>1, <1>2, <1>3, <1>4, <1>5, <1>6, <1>7, <1>8, <1>9, <1>10, <1>11 DEF HarnessStep

LEMMA LeftStep == TypeOK /\ LeftInv /\ [Next]_vars => LeftInv'
<1> SUFFICES ASSUME TypeOK, LeftInv, [Next]_vars, NEW i \in Harnesses PROVE OwnInv(i)'
  BY DEF LeftInv
<1>0. OwnInv(i)
  BY DEF LeftInv
<1> USE <1>0 DEF TypeOK, OwnInv
<1>1. ASSUME NEW h \in Harnesses, HarnessStep(h) PROVE OwnInv(i)'
  BY <1>1, LeftHarness
<1>2. ASSUME NEW h \in Harnesses, Kill(h) PROVE OwnInv(i)'
  BY <1>2 DEF Kill, Running, daemon
<1>3. ASSUME NEW h \in Harnesses, WorkerPosts(h) PROVE OwnInv(i)'
  BY <1>3 DEF WorkerPosts
<1>4. ASSUME NEW h \in Harnesses, WorkerExits(h) PROVE OwnInv(i)'
  BY <1>4 DEF WorkerExits
<1>5. CASE RuntimeExits
  BY <1>5, RealRuntimeAssumption DEF RuntimeExits
<1>6. CASE UNCHANGED vars
  BY <1>6 DEF vars, daemon
<1> QED
  BY <1>1, <1>2, <1>3, <1>4, <1>5, <1>6 DEF Next

\* A harness that was not killed leaves no container and no scratch directory, on whichever
\* of its early returns it ended, and whatever the others do to the container's name.
THEOREM HarnessesCleanUp == Spec => []NothingLeftBehind
<1>1. LeftInv => NothingLeftBehind
  BY DEF LeftInv, OwnInv, NothingLeftBehind
<1>2. Safety => [](TypeOK /\ LeftInv)
  BY TypeInit, TypeStep, LeftInit, LeftStep, PTL DEF Safety
<1> QED
  BY <1>1, <1>2, PTL DEF Spec

-----------------------------------------------------------------------------
(* A pass is earned *)

\* A fixture's expectations can only be met by findings that the schema accepts and, where
\* it asks for no status, by the exit code 0.
LEMMA MetExpectations ==
  ASSUME NEW h \in Harnesses, Evaluate(expect[h], RunResult(h)) = {}
  PROVE  /\ \A i \in DOMAIN findings[h] : findings[h][i].ok \in BOOLEAN => findings[h][i].ok
         /\ expect[h].status = "unset" => exitCode[h] = 0
<1>1. SchemaFailures(RunResult(h).Findings) = {}
  BY DEF Evaluate
<1>2. ASSUME NEW i \in DOMAIN findings[h], findings[h][i].ok \in BOOLEAN
      PROVE  findings[h][i].ok
  <2>1. SUFFICES ASSUME ~findings[h][i].ok PROVE FALSE
    BY <1>2
  <2>2. Failure("schema", i) \in SchemaFailures(RunResult(h).Findings)
    BY <2>1 DEF SchemaFailures, RunResult
  <2> QED
    BY <1>1, <2>2
<1>3. StatusFailures(expect[h], RunResult(h)) = {}
  BY DEF Evaluate
<1>4. expect[h].status = "unset" => exitCode[h] = 0
  <2>1. SUFFICES ASSUME expect[h].status = "unset", exitCode[h] # 0 PROVE FALSE
    OBVIOUS
  <2>2. TerminalStatus(RunResult(h).Status, RunResult(h).ExitCode) = "failed"
    BY <2>1 DEF TerminalStatus, RunResult
  <2>3. StatusFailures(expect[h], RunResult(h)) = {Failure("status", "failed")}
    BY <2>1, <2>2 DEF StatusFailures, Unless
  <2> QED
    BY <1>3, <2>3
<1> QED
  BY <1>2, <1>4

\* Docker's 125 stands for a worker that was not started.
Over(h) == worker[h] = "gone" \/ exitCode[h] = 125

Earned(h) ==
  /\ \A i \in DOMAIN sink[h] : sink[h][i].ok
  /\ expect[h].status = "unset" => worker[h] = "gone" /\ exitCode[h] = 0

\* What is judged is what the runtime wrote, unless an error hides it; and no worker writes
\* any more by then.
EarnedInv(h) ==
  /\ verdict[h] # "none" => pc[h] = "ended"
  /\ pc[h] \in {"harvest", "judge"} => Over(h)
  /\ pc[h] \in {"cleanup", "unscratch"} /\ ~failed[h] => Over(h)
  /\ pc[h] = "judge" => findings[h] = sink[h]
  /\ pc[h] \in {"cleanup", "unscratch"} /\ ~failed[h] => findings[h] = sink[h]
  /\ verdict[h] = "pass" => Earned(h)

PassInv == \A h \in Harnesses : EarnedInv(h)

LEMMA PassInit == Init => PassInv
BY DEF Init, PassInv, EarnedInv

LEMMA JudgeEarns ==
  ASSUME TypeOK, NEW h \in Harnesses, EarnedInv(h), Judge(h)
  PROVE  EarnedInv(h)'
<1> USE DEF TypeOK
<1>1. /\ pc[h] = "judge" /\ pc'[h] = "ended"
      /\ UNCHANGED <<sink, worker, exitCode, expect>>
  BY DEF Judge, Goto, daemon
<1>2. Over(h) /\ findings[h] = sink[h]
  BY <1>1 DEF EarnedInv
<1>3. ASSUME Evaluate(expect[h], RunResult(h)) = {} PROVE Earned(h)
  <2>1. \A i \in DOMAIN findings[h] : findings[h][i].ok \in BOOLEAN
    BY FindingsAssumption
  <2>2. \A i \in DOMAIN findings[h] : findings[h][i].ok
    BY <1>3, <2>1, MetExpectations
  <2>3. expect[h].status = "unset" => exitCode[h] = 0
    BY <1>3, MetExpectations
  <2> QED
    BY <1>2, <2>2, <2>3 DEF Earned, Over
<1>4. verdict'[h] = "pass" => Evaluate(expect[h], RunResult(h)) = {}
  BY DEF Judge
<1>5. Earned(h) => Earned(h)'
  BY <1>1 DEF Earned
<1> QED
  BY <1>1, <1>3, <1>4, <1>5 DEF EarnedInv

LEMMA PassHarness ==
  ASSUME TypeOK, LeftInv, PassInv, NEW h \in Harnesses, HarnessStep(h), NEW i \in Harnesses
  PROVE  EarnedInv(i)'
<1>0. EarnedInv(h) /\ EarnedInv(i) /\ OwnInv(h)
  BY DEF PassInv, LeftInv
<1> USE <1>0 DEF TypeOK, EarnedInv, Earned, Over, Goto, Fail, daemon
<1>1. CASE CheckImage(h)
  BY <1>1 DEF CheckImage
<1>2. CASE MakeScratch(h)
  BY <1>2 DEF MakeScratch
<1>3. CASE WriteFiles(h)
  BY <1>3 DEF WriteFiles
<1>4. CASE RemoveStale(h)
  BY <1>4 DEF RemoveStale
<1>5. CASE RunRuntime(h)
  BY <1>5 DEF RunRuntime
<1>6. CASE RunWorker(h)
  BY <1>6 DEF RunWorker
<1>7. CASE Reap(h)
  BY <1>7 DEF Reap
<1>8. CASE Harvest(h)
  BY <1>8 DEF Harvest
<1>9. CASE RemoveRuntime(h)
  BY <1>9 DEF RemoveRuntime
<1>10. CASE RemoveScratch(h)
  BY <1>10 DEF RemoveScratch
<1>11. CASE Judge(h)
  <2>1. CASE i = h
    BY <1>11, <2>1, JudgeEarns
  <2>2. CASE i # h
    BY <1>11, <2>2 DEF Judge
  <2> QED
    BY <2>1, <2>2
<1> QED
  BY <1>1, <1>2, <1>3, <1>4, <1>5, <1>6, <1>7, <1>8, <1>9, <1>10, <1>11 DEF HarnessStep

LEMMA PassStep == TypeOK /\ LeftInv /\ PassInv /\ [Next]_vars => PassInv'
<1> SUFFICES ASSUME TypeOK, LeftInv, PassInv, [Next]_vars, NEW i \in Harnesses
             PROVE  EarnedInv(i)'
  BY DEF PassInv
<1>0. EarnedInv(i) /\ OwnInv(i)
  BY DEF PassInv, LeftInv
<1> USE <1>0 DEF TypeOK, EarnedInv, Earned, Over
<1>1. ASSUME NEW h \in Harnesses, HarnessStep(h) PROVE EarnedInv(i)'
  BY <1>1, PassHarness
<1>2. ASSUME NEW h \in Harnesses, Kill(h) PROVE EarnedInv(i)'
  BY <1>2 DEF Kill, Running, daemon
<1>3. ASSUME NEW h \in Harnesses, WorkerPosts(h) PROVE EarnedInv(i)'
  BY <1>3 DEF WorkerPosts, OwnInv
<1>4. ASSUME NEW h \in Harnesses, WorkerExits(h) PROVE EarnedInv(i)'
  BY <1>4 DEF WorkerExits, OwnInv
<1>5. CASE RuntimeExits
  BY <1>5 DEF RuntimeExits
<1>6. CASE UNCHANGED vars
  BY <1>6 DEF vars, daemon
<1> QED
  BY <1>1, <1>2, <1>3, <1>4, <1>5, <1>6 DEF Next

\* A pass rests on everything that the runtime wrote for this worker, and by its exit code:
\* neither an early return nor another harness can make one.
THEOREM PassesAreEarned == Spec => []PassIsEarned
<1>1. PassInv => PassIsEarned
  BY DEF PassInv, EarnedInv, Earned, PassIsEarned
<1>2. Safety => [](TypeOK /\ LeftInv /\ PassInv)
  BY TypeInit, TypeStep, LeftInit, LeftStep, PassInit, PassStep, PTL DEF Safety
<1> QED
  BY <1>1, <1>2, PTL DEF Spec
=============================================================================
