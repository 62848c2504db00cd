----------------------------- MODULE Probe_proofs -----------------------------
(***************************************************************************)
(* Proofs about Probe, for any sequence of the scenarios, any overrides    *)
(* and any statuses and exit codes of the workers.                         *)
(***************************************************************************)
EXTENDS Probe, FiniteSetTheorems, TLAPS

Phases == {"listen", "start", "select", "drain", "interrupted", "judge", "end"}

\* The loop is over exactly when no scenario is left.
AtEnd == phase = "end" <=> current = Len(Scenarios) + 1

LEMMA ScenariosType == Len(Scenarios) \in Nat \ {0}
BY ScenariosAssumption

\* No scenario of the probe has an empty allow-list, which would accept what a worker posts.
LEMMA AcceptNotEmpty == \A i \in Runs : Scenarios[i].accept # {}
<1> SUFFICES ASSUME NEW i \in Runs PROVE Scenarios[i].accept # {}
  OBVIOUS
<1>1. PICK k \in 1..5 : Scenarios[i] = DefaultProbeScenarios[k]
  BY ScenariosAssumption DEF Runs, DefaultProbeScenarios
<1> QED
  BY <1>1 DEF DefaultProbeScenarios, Scenario

-----------------------------------------------------------------------------
(* Type correctness *)

LEMMA TypeInit == Init => TypeOK /\ AtEnd
<1> SUFFICES ASSUME Init PROVE TypeOK /\ AtEnd
  OBVIOUS
<1>1. current \in 1..Len(Scenarios) + 1 /\ AtEnd
  BY ScenariosType DEF Init, AtEnd
<1>2. callers \in [Runs -> SUBSET Runs] /\ outcomes \in Seq(Outcome)
  BY DEF Init
<1>3. /\ phase \in Phases
      /\ status \in WorkerStatuses \cup {"unset", "overridden"}
      /\ cli \in {"running", "exited"} /\ finished \in BOOLEAN /\ sig \in BOOLEAN
      /\ rejected \in BOOLEAN
      /\ returned \in {"none", "ok", "error"}
  BY DEF Init, Phases
<1>4. cliCode \in Int /\ exitCode \in Int /\ containers \subseteq Runs /\ gaveUp \subseteq Runs
  BY DEF Init
<1> QED
  BY <1>1, <1>2, <1>3, <1>4 DEF TypeOK, Phases

\* What the loop appends for a scenario, and where it goes on.
LEMMA ConcludeType ==
  ASSUME TypeOK, AtEnd, phase # "end", NEW outcome \in Outcome, Conclude(outcome)
  PROVE  /\ outcomes' \in Seq(Outcome)
         /\ current' \in 1..Len(Scenarios) + 1
         /\ phase' \in Phases
         /\ AtEnd'
BY ScenariosType DEF TypeOK, AtEnd, Conclude, Phases

LEMMA JudgedType ==
  ASSUME TypeOK
  PROVE  [status |-> TerminalStatus(status, exitCode),
          pass |-> AcceptsStatus(Scenarios[current], TerminalStatus(status, exitCode)),
          exitCode |-> exitCode, reported |-> status # "unset"] \in Outcome
<1>1. TerminalStatus(status, exitCode)
        \in WorkerStatuses \cup {"completed", "failed", "overridden", "error"}
  BY DEF TypeOK, TerminalStatus
<1>2. AcceptsStatus(Scenarios[current], TerminalStatus(status, exitCode)) \in BOOLEAN
  BY DEF AcceptsStatus
<1> QED
  BY <1>1, <1>2 DEF TypeOK, Outcome

LEMMA TypeStep == TypeOK /\ AtEnd /\ [Next]_vars => (TypeOK /\ AtEnd)'
<1> SUFFICES ASSUME TypeOK, AtEnd, [Next]_vars PROVE (TypeOK /\ AtEnd)'
  OBVIOUS
<1> USE DEF TypeOK, AtEnd
<1>1. CASE RunFails
  <2>1. [status |-> "error", pass |-> FALSE, exitCode |-> -1, reported |-> FALSE] \in Outcome
    BY DEF Outcome
  <2> QED
    BY <1>1, <2>1, ConcludeType DEF RunFails, Phases
<1>2. CASE Listen
  BY <1>2 DEF Listen
<1>3. CASE StartWorker
  <2>1. current \in Runs
    BY <1>3, ScenariosType DEF StartWorker, Runs
  <2> QED
    BY <1>3, <2>1 DEF StartWorker
<1>4. CASE Select
  BY <1>4 DEF Select
<1>5. CASE CliReaped
  BY <1>5 DEF CliReaped
<1>6. CASE GiveUp
  <2>1. current \in Runs
    BY <1>6, ScenariosType DEF GiveUp, Runs
  <2> QED
    BY <1>6, <2>1 DEF GiveUp
<1>7. CASE Judge
  BY <1>7, JudgedType, ConcludeType DEF Judge, Phases
<1>8. CASE Return
  BY <1>8 DEF Return
<1>9. CASE Interrupt
  BY <1>9 DEF Interrupt
<1>10. ASSUME NEW i \in Runs, Call(i) PROVE (TypeOK /\ AtEnd)'
  BY <1>10 DEF Call
<1>11. ASSUME NEW i \in Runs, WorkerExits(i) PROVE (TypeOK /\ AtEnd)'
  BY <1>11, ProbeAssumption DEF WorkerExits
<1>12. ASSUME NEW i \in Runs, NEW s \in WorkerStatuses, PostComplete(i, s)
       PROVE  (TypeOK /\ AtEnd)'
  BY <1>12 DEF PostComplete
<1>13. CASE UNCHANGED vars
  BY <1>13 DEF vars
<1>14. ASSUME NEW i \in Runs, UploadRejected(i) PROVE (TypeOK /\ AtEnd)'
  BY <1>14 DEF UploadRejected
<1> QED
  BY <1>1, <1>2, <1>3, <1>4, <1>5, <1>6, <1>7, <1>8, <1>9, <1>10, <1>11, <1>12, <1>13, <1>14
  DEF Next, HarnessStep

\* Every variable keeps its type, and the loop never runs past its last scenario.
THEOREM TypeCorrect == Spec => []TypeOK
<1>1. Safety => [](TypeOK /\ AtEnd)
  BY TypeInit, TypeStep, PTL DEF Safety
<1> QED
  BY <1>1, PTL DEF Spec

-----------------------------------------------------------------------------
(* Whose calls make a result *)

\* A container whose CLI the harness does not watch is one that it gave up on.
ContainersInv ==
  \A j \in containers :
    j \in gaveUp \/ (j = current /\ phase \in {"select", "drain", "interrupted"} /\ cli = "running")

\* What was given up on belongs to a scenario that is over, as far as the emulator goes.
GaveUpInv == \A j \in gaveUp : j < current \/ (j = current /\ phase = "judge")

CallInv == ContainersInv /\ GaveUpInv /\ OnlyAbandonedWorkersIntrude

LEMMA CallInit == Init => CallInv
BY DEF Init, CallInv, ContainersInv, GaveUpInv, OnlyAbandonedWorkersIntrude

\* Every worker that may call now is the current one, or was given up on before.
LEMMA CallersAreOwnOrAbandoned ==
  ASSUME TypeOK, AtEnd, CallInv, Listening, NEW i \in containers
  PROVE  /\ current \in Runs
         /\ i = current \/ (i \in gaveUp /\ i < current)
<1>1. current \in Runs
  BY ScenariosType DEF TypeOK, AtEnd, Listening, Runs
<1> QED
  BY <1>1 DEF Listening, CallInv, ContainersInv, GaveUpInv, TypeOK

LEMMA CallsKeepInv ==
  ASSUME TypeOK, AtEnd, CallInv, Listening, NEW i \in containers,
         callers' = [callers EXCEPT ![current] = @ \cup {i}], UNCHANGED gaveUp
  PROVE  OnlyAbandonedWorkersIntrude'
BY CallersAreOwnOrAbandoned DEF TypeOK, CallInv, OnlyAbandonedWorkersIntrude

LEMMA CallStep == TypeOK /\ AtEnd /\ CallInv /\ [Next]_vars => CallInv'
<1> SUFFICES ASSUME TypeOK, AtEnd, CallInv, [Next]_vars PROVE CallInv'
  OBVIOUS
<1>0. current \in Int /\ containers \subseteq Runs /\ gaveUp \subseteq Runs /\ Runs \subseteq Int
  BY DEF TypeOK, Runs
<1> USE <1>0 DEF CallInv, ContainersInv, GaveUpInv
<1>1. CASE RunFails
  BY <1>1 DEF RunFails, Conclude, OnlyAbandonedWorkersIntrude
<1>2. CASE Listen
  BY <1>2 DEF Listen, OnlyAbandonedWorkersIntrude
<1>3. CASE StartWorker
  BY <1>3 DEF StartWorker, OnlyAbandonedWorkersIntrude
<1>4. CASE Select
  BY <1>4 DEF Select, OnlyAbandonedWorkersIntrude
<1>5. CASE CliReaped
  BY <1>5 DEF CliReaped, OnlyAbandonedWorkersIntrude
<1>6. CASE GiveUp
  BY <1>6 DEF GiveUp, OnlyAbandonedWorkersIntrude
<1>7. CASE Judge
  BY <1>7 DEF Judge, Conclude, OnlyAbandonedWorkersIntrude
<1>8. CASE Return
  BY <1>8 DEF Return, OnlyAbandonedWorkersIntrude
<1>9. CASE Interrupt
  BY <1>9 DEF Interrupt, OnlyAbandonedWorkersIntrude
<1>10. ASSUME NEW i \in Runs, Call(i) PROVE CallInv'
  <2>1. OnlyAbandonedWorkersIntrude'
    BY <1>10, CallsKeepInv DEF Call
  <2> QED
    BY <1>10, <2>1 DEF Call
<1>11. ASSUME NEW i \in Runs, WorkerExits(i) PROVE CallInv'
  BY <1>11 DEF WorkerExits, OnlyAbandonedWorkersIntrude
<1>12. ASSUME NEW i \in Runs, NEW s \in WorkerStatuses, PostComplete(i, s) PROVE CallInv'
  <2>1. OnlyAbandonedWorkersIntrude'
    BY <1>12, CallsKeepInv DEF PostComplete
  <2> QED
    BY <1>12, <2>1 DEF PostComplete
<1>13. CASE UNCHANGED vars
  BY <1>13 DEF vars, OnlyAbandonedWorkersIntrude
<1>14. ASSUME NEW i \in Runs, UploadRejected(i) PROVE CallInv'
  <2>1. OnlyAbandonedWorkersIntrude'
    BY <1>14, CallsKeepInv DEF UploadRejected
  <2> QED
    BY <1>14, <2>1 DEF UploadRejected
<1> QED
  BY <1>1, <1>2, <1>3, <1>4, <1>5, <1>6, <1>7, <1>8, <1>9, <1>10, <1>11, <1>12, <1>13, <1>14
  DEF Next, HarnessStep

\* A result is made by the worker of its own scenario, and by workers of earlier ones that the
\* harness gave up on; by no other, however many scenarios there are.
THEOREM ResultsHaveOwners == Spec => []OnlyAbandonedWorkersIntrude
<1>1. Safety => [](TypeOK /\ AtEnd /\ CallInv)
  BY TypeInit, TypeStep, CallInit, CallStep, PTL DEF Safety
<1>2. CallInv => OnlyAbandonedWorkersIntrude
  BY DEF CallInv
<1> QED
  BY <1>1, <1>2, PTL DEF Spec

-----------------------------------------------------------------------------
(* What the command returns *)

\* One outcome for each scenario that is over; a pass is one by an accepted status.
OutcomesInv ==
  /\ Len(outcomes) = current - 1
  /\ \A i \in DOMAIN outcomes : outcomes[i].pass => outcomes[i].status \in Scenarios[i].accept

ReturnInv ==
  returned # "none" =>
    /\ phase = "end"
    /\ returned = "ok" <=> KeepGoing \/ \A i \in DOMAIN outcomes : outcomes[i].pass

LEMMA ReturnInit == Init => OutcomesInv /\ ReturnInv
BY DEF Init, OutcomesInv, ReturnInv

LEMMA ConcludeOutcomes ==
  ASSUME TypeOK, AtEnd, OutcomesInv, phase # "end", NEW o \in Outcome, Conclude(o),
         o.pass => o.status \in Scenarios[current].accept
  PROVE  OutcomesInv'
<1>1. /\ DOMAIN outcomes = 1..current - 1 /\ outcomes \in Seq(Outcome) /\ current \in Nat \ {0}
      /\ current' = current + 1
      /\ outcomes' = Append(outcomes, o)
  BY ScenariosType DEF TypeOK, OutcomesInv, Conclude
<1>2. /\ Len(outcomes') = current /\ DOMAIN outcomes' = 1..current
      /\ outcomes'[current] = o
      /\ \A i \in 1..current - 1 : outcomes'[i] = outcomes[i]
  BY <1>1
<1>3. ASSUME NEW i \in DOMAIN outcomes', outcomes'[i].pass
      PROVE  outcomes'[i].status \in Scenarios[i].accept
  <2>1. CASE i = current
    BY <1>2, <1>3, <2>1
  <2>2. CASE i # current
    BY <1>1, <1>2, <1>3, <2>2 DEF OutcomesInv
  <2> QED
    BY <2>1, <2>2
<1> QED
  BY <1>1, <1>2, <1>3 DEF OutcomesInv

LEMMA JudgeOutcomes ==
  ASSUME TypeOK, AtEnd, OutcomesInv, Judge
  PROVE  OutcomesInv'
<1> DEFINE got == TerminalStatus(status, exitCode)
           o == [status |-> got, pass |-> AcceptsStatus(Scenarios[current], got),
                 exitCode |-> exitCode, reported |-> status # "unset"]
<1>1. o \in Outcome /\ Conclude(o) /\ phase = "judge"
  BY JudgedType DEF Judge
<1>2. current \in Runs
  BY <1>1, ScenariosType DEF TypeOK, AtEnd, Runs
<1>3. AcceptsStatus(Scenarios[current], got) => got \in Scenarios[current].accept
  BY <1>2, AcceptNotEmpty DEF AcceptsStatus
<1>4. o.pass => o.status \in Scenarios[current].accept
  BY <1>3
<1> HIDE DEF o
<1> QED
  BY <1>1, <1>4, ConcludeOutcomes

\* No failure is counted exactly if every outcome is a pass.
LEMMA FailuresCounted ==
  ASSUME TypeOK
  PROVE  Cardinality({i \in DOMAIN outcomes : ~outcomes[i].pass}) = 0
           <=> \A i \in DOMAIN outcomes : outcomes[i].pass
<1> DEFINE failures == {i \in DOMAIN outcomes : ~outcomes[i].pass}
<1>1. IsFiniteSet(DOMAIN outcomes)
  BY FS_Interval DEF TypeOK
<1>2. IsFiniteSet(failures)
  BY <1>1, FS_Subset
<1>3. Cardinality(failures) = 0 <=> failures = {}
  BY <1>2, FS_EmptySet
<1> QED
  BY <1>3

LEMMA ReturnReturns ==
  ASSUME TypeOK, Return
  PROVE  returned' = "ok" <=> KeepGoing \/ \A i \in DOMAIN outcomes : outcomes[i].pass
<1> DEFINE failures == {i \in DOMAIN outcomes : ~outcomes[i].pass}
<1>1. IsFiniteSet(failures)
  BY FS_Interval, FS_Subset DEF TypeOK
<1>2. Cardinality(failures) \in Nat
  BY <1>1, FS_CardinalityType
<1>3. Cardinality(failures) = 0 <=> \A i \in DOMAIN outcomes : outcomes[i].pass
  BY FailuresCounted
<1> HIDE DEF failures
<1>4. returned' = IF Cardinality(failures) > 0 /\ ~KeepGoing THEN "error" ELSE "ok"
  BY DEF Return, failures
<1> QED
  BY <1>2, <1>3, <1>4, ProbeAssumption

LEMMA ReturnStep ==
  TypeOK /\ AtEnd /\ OutcomesInv /\ ReturnInv /\ [Next]_vars => (OutcomesInv /\ ReturnInv)'
<1> SUFFICES ASSUME TypeOK, AtEnd, OutcomesInv, ReturnInv, [Next]_vars
             PROVE  OutcomesInv' /\ ReturnInv'
  OBVIOUS
<1>1. CASE RunFails
  <2> DEFINE o == [status |-> "error", pass |-> FALSE, exitCode |-> -1, reported |-> FALSE]
  <2>1. o \in Outcome /\ ~o.pass /\ Conclude(o) /\ phase # "end" /\ UNCHANGED returned
    BY <1>1 DEF RunFails, Outcome
  <2> HIDE DEF o
  <2> QED
    BY <2>1, ConcludeOutcomes DEF ReturnInv
<1>2. CASE Judge
  <2>1. phase # "end" /\ UNCHANGED returned
    BY <1>2 DEF Judge
  <2> QED
    BY <1>2, <2>1, JudgeOutcomes DEF ReturnInv
<1>3. CASE Return
  <2>1. phase = "end" /\ UNCHANGED <<phase, current, outcomes>>
    BY <1>3 DEF Return
  <2> QED
    BY <1>3, <2>1, ReturnReturns DEF OutcomesInv, ReturnInv
<1>4. CASE UNCHANGED <<current, outcomes, returned>> /\ (phase' = phase \/ phase # "end")
  BY <1>4 DEF OutcomesInv, ReturnInv
<1>5. ASSUME ~RunFails, ~Judge, ~Return
      PROVE  UNCHANGED <<current, outcomes, returned>> /\ (phase' = phase \/ phase # "end")
  BY <1>5 DEF Next, HarnessStep, Listen, StartWorker, Select, CliReaped, GiveUp, Interrupt,
              Call, UploadRejected, WorkerExits, PostComplete, vars
<1> QED
  BY <1>1, <1>2, <1>3, <1>4, <1>5

\* The command returns no error exactly if every scenario was run and ended in a status that it
\* accepts, whatever its findings were, or under --keep-going; and it returns only when each
\* scenario has its outcome.
THEOREM CommandReflectsOutcomes == Spec => []ReturnedReflectsOutcomes
<1>1. ASSUME TypeOK, AtEnd, OutcomesInv, ReturnInv PROVE ReturnedReflectsOutcomes
  <2>1. SUFFICES ASSUME returned # "none"
                 PROVE  /\ Len(outcomes) = Len(Scenarios)
                        /\ returned = "ok" <=>
                             KeepGoing \/ \A i \in Runs : /\ outcomes[i].pass
                                                        /\ outcomes[i].status \in Scenarios[i].accept
    BY DEF ReturnedReflectsOutcomes
  <2>2. Len(outcomes) = Len(Scenarios) /\ DOMAIN outcomes = Runs
    BY <1>1, <2>1, ScenariosType DEF TypeOK, AtEnd, OutcomesInv, ReturnInv, Runs
  <2> QED
    BY <1>1, <2>1, <2>2 DEF OutcomesInv, ReturnInv
<1>2. Safety => [](TypeOK /\ AtEnd /\ OutcomesInv /\ ReturnInv)
  BY TypeInit, TypeStep, ReturnInit, ReturnStep, PTL DEF Safety
<1> QED
  BY <1>1, <1>2, PTL DEF Spec

-----------------------------------------------------------------------------
(* The exit codes that runWorker makes up *)

\* It makes up 0 only after Done(), and there is a status by then.
StatusInv ==
  /\ finished => status # "unset"
  /\ phase = "drain" => finished
  /\ phase = "judge" /\ current \in gaveUp => status # "unset" \/ exitCode # 0

InventedInv == StatusInv /\ NoPassOnInventedExitCode

LEMMA InventedInit == Init => InventedInv
BY DEF Init, InventedInv, StatusInv, NoPassOnInventedExitCode

\* The outcome that ends a scenario is the only one that may break the property.
LEMMA ConcludeInvented ==
  ASSUME TypeOK, AtEnd, OutcomesInv, NoPassOnInventedExitCode, NEW o, Conclude(o),
         phase # "end", UNCHANGED gaveUp,
         current \in gaveUp /\ o.pass /\ "failed" \notin Scenarios[current].accept => o.reported
  PROVE  NoPassOnInventedExitCode'
<1>1. /\ DOMAIN outcomes = 1..current - 1 /\ outcomes \in Seq(Outcome) /\ current \in Nat \ {0}
      /\ outcomes' = Append(outcomes, o)
  BY ScenariosType DEF TypeOK, OutcomesInv, Conclude
<1>2. /\ DOMAIN outcomes' = 1..current
      /\ outcomes'[current] = o
      /\ \A i \in 1..current - 1 : outcomes'[i] = outcomes[i]
  BY <1>1
<1> QED
  BY <1>1, <1>2 DEF NoPassOnInventedExitCode

LEMMA JudgeInvented ==
  ASSUME TypeOK, AtEnd, OutcomesInv, InventedInv, Judge
  PROVE  NoPassOnInventedExitCode'
<1> DEFINE got == TerminalStatus(status, exitCode)
           o == [status |-> got, pass |-> AcceptsStatus(Scenarios[current], got),
                 exitCode |-> exitCode, reported |-> status # "unset"]
<1>1. Conclude(o) /\ phase = "judge" /\ UNCHANGED gaveUp
  BY DEF Judge
<1>2. current \in Runs
  BY <1>1, ScenariosType DEF TypeOK, AtEnd, Runs
<1>3. ASSUME current \in gaveUp, o.pass, "failed" \notin Scenarios[current].accept
      PROVE  o.reported
  <2>1. got \in Scenarios[current].accept
    BY <1>2, <1>3, AcceptNotEmpty DEF AcceptsStatus
  <2>2. status = "unset" => exitCode # 0
    BY <1>1, <1>3 DEF InventedInv, StatusInv
  <2> QED
    BY <1>3, <2>1, <2>2 DEF TerminalStatus
<1> HIDE DEF o
<1> QED
  BY <1>1, <1>3, ConcludeInvented DEF InventedInv

LEMMA InventedStep ==
  TypeOK /\ AtEnd /\ CallInv /\ OutcomesInv /\ InventedInv /\ [Next]_vars => InventedInv'
<1> SUFFICES ASSUME TypeOK, AtEnd, CallInv, OutcomesInv, InventedInv, [Next]_vars
             PROVE  InventedInv'
  OBVIOUS
<1> USE DEF InventedInv, StatusInv
<1>1. CASE RunFails
  <2> DEFINE o == [status |-> "error", pass |-> FALSE, exitCode |-> -1, reported |-> FALSE]
  <2>1. ~o.pass /\ Conclude(o) /\ phase # "end" /\ UNCHANGED <<gaveUp, finished, status>>
    BY <1>1 DEF RunFails
  <2>2. phase' \notin {"drain", "judge"}
    BY <2>1 DEF Conclude
  <2> HIDE DEF o
  <2> QED
    BY <2>1, <2>2, ConcludeInvented
<1>2. CASE Listen
  BY <1>2 DEF Listen, NoPassOnInventedExitCode
<1>3. CASE StartWorker
  BY <1>3 DEF StartWorker, NoPassOnInventedExitCode
<1>4. CASE Select
  BY <1>4 DEF Select, NoPassOnInventedExitCode
<1>5. CASE CliReaped
  <2>1. current \notin gaveUp
    BY <1>5 DEF CliReaped, CallInv, GaveUpInv, TypeOK
  <2> QED
    BY <1>5, <2>1 DEF CliReaped, NoPassOnInventedExitCode
<1>6. CASE GiveUp
  <2>1. current \notin DOMAIN outcomes
    BY DEF OutcomesInv, TypeOK
  <2> QED
    BY <1>6, <2>1 DEF GiveUp, NoPassOnInventedExitCode
<1>7. CASE Judge
  <2>1. phase' \notin {"drain", "judge"} /\ UNCHANGED <<finished, status>>
    BY <1>7 DEF Judge, Conclude
  <2> QED
    BY <1>7, <2>1, JudgeInvented
<1>8. CASE Return
  BY <1>8 DEF Return, NoPassOnInventedExitCode
<1>9. CASE Interrupt
  BY <1>9 DEF Interrupt, NoPassOnInventedExitCode
<1>10. ASSUME NEW i \in Runs, Call(i) PROVE InventedInv'
  BY <1>10 DEF Call, NoPassOnInventedExitCode
<1>11. ASSUME NEW i \in Runs, WorkerExits(i) PROVE InventedInv'
  BY <1>11 DEF WorkerExits, NoPassOnInventedExitCode
<1>12. ASSUME NEW i \in Runs, NEW s \in WorkerStatuses, PostComplete(i, s) PROVE InventedInv'
  BY <1>12, ProbeAssumption DEF PostComplete, Listening, NoPassOnInventedExitCode
<1>13. CASE UNCHANGED vars
  BY <1>13 DEF vars, NoPassOnInventedExitCode
<1>14. ASSUME NEW i \in Runs, UploadRejected(i) PROVE InventedInv'
  BY <1>14 DEF UploadRejected, NoPassOnInventedExitCode
<1> QED
  BY <1>1, <1>2, <1>3, <1>4, <1>5, <1>6, <1>7, <1>8, <1>9, <1>10, <1>11, <1>12, <1>13, <1>14
  DEF Next, HarnessStep

\* A scenario that demands "completed" is never passed on an exit code that runWorker made up
\* for a worker it killed: the worker has said so itself, or another one has.
THEOREM NoInventedPass == Spec => []NoPassOnInventedExitCode
<1>1. Safety => [](TypeOK /\ AtEnd /\ CallInv /\ OutcomesInv /\ ReturnInv /\ InventedInv)
  BY TypeInit, TypeStep, CallInit, CallStep, ReturnInit, ReturnStep, InventedInit, InventedStep,
     PTL DEF Safety
<1>2. InventedInv => NoPassOnInventedExitCode
  BY DEF InventedInv
<1> QED
  BY <1>1, <1>2, PTL DEF Spec
=============================================================================
