---------------------------- MODULE Harness_proofs ----------------------------
(***************************************************************************)
(* Proofs about Emulator, for any set of requests, inputs and overrides,   *)
(* and then about Harness, for any expectations and exit codes as well.    *)
(* The steps of Harness are steps of Emulator or leave it alone, so what   *)
(* is proved of Emulator holds of it there.                                *)
(***************************************************************************)
EXTENDS Harness, FiniteSetTheorems, TLAPS

-----------------------------------------------------------------------------
(* Emulator: types *)

LEMMA TypeInit == Init => TypeOK
<1> SUFFICES ASSUME Init PROVE TypeOK
  OBVIOUS
<1>1. NoRequest \in Request
  BY DEF NoRequest, Request, Methods, Paths, Line
<1>2. /\ status \in TerminalStatuses \cup {"unset"}
      /\ findings \in Seq(Finding)
      /\ logEvents \in Seq(Levels \cup {"unparseable"})
  BY DEF Init
<1>3. endpointCalls \in [Methods \X Paths -> Nat]
  BY DEF Init
<1>4. lastCall \in [req : Req, status : Int] \cup {None}
  BY DEF Init
<1>5. /\ wr \in [Req -> [status : Int, wroteHeader : BOOLEAN]]
      /\ before \in [Req -> SUBSET Req]
  BY DEF Init
<1>6. /\ pc \in [Req -> {"unsent", "serve", "scan", "preempt", "signal", "close",
                        "record", "done"}]
      /\ client \in [Req -> {"unsent", "waiting", "answered", "dropped", "gone"}]
  BY DEF Init
<1> QED
  BY <1>1, <1>2, <1>3, <1>4, <1>5, <1>6 DEF Init, TypeOK

\* A request's goroutine writes one status, an integer.
LEMMA WriteHeaderType ==
  ASSUME TypeOK, NEW r \in Req, NEW code \in Int, WriteHeader(r, code)
  PROVE  wr' \in [Req -> [status : Int, wroteHeader : BOOLEAN]]
BY DEF TypeOK, WriteHeader

LEMMA StepType ==
  ASSUME TypeOK, NEW r \in Req, NEW from,
         NEW to \in {"unsent", "serve", "scan", "preempt", "signal", "close",
                     "record", "done"},
         Step(r, from, to)
  PROVE  pc' \in [Req -> {"unsent", "serve", "scan", "preempt", "signal", "close",
                          "record", "done"}]
BY DEF TypeOK, Step

LEMMA OverrideType ==
  ASSUME TypeOK, NEW r \in Req, Overridden(r)
  PROVE  OverrideStatus(r) \in Int
<1>1. req[r].path \in DOMAIN overrides /\ overrides \in OverrideSets
  BY DEF TypeOK, Overridden
<1>2. overrides[req[r].path] \in ResponseOverride
  BY <1>1, OverridesAssumption
<1>3. overrides[req[r].path].status \in Int
  BY <1>2 DEF ResponseOverride
<1> QED
  BY <1>3 DEF OverrideStatus

LEMMA CountType ==
  ASSUME NEW K, NEW f \in [K -> Nat], NEW k
  PROVE  [f EXCEPT ![k] = @ + 1] \in [K -> Nat]
<1>1. ASSUME NEW x \in K PROVE [f EXCEPT ![k] = @ + 1][x] \in Nat
  <2>1. f[x] \in Nat
    OBVIOUS
  <2> QED
    BY <2>1
<1> QED
  BY <1>1

LEMMA ValidatedType ==
  ASSUME NEW line \in Line PROVE Validated(line) \in Finding
BY DEF Line, Validated, Finding


\* Every step that a goroutine takes keeps the types.
LEMMA ServeType ==
  ASSUME TypeOK, NEW r \in Req, Serve(r)
  PROVE  TypeOK'
<1> USE DEF TypeOK, resultVars, callVars
<1>1. CASE ApplyOverride(r)
  BY <1>1, StepType, WriteHeaderType, OverrideType DEF ApplyOverride
<1>2. CASE PreemptStatus(r)
  BY <1>2, StepType DEF PreemptStatus, TerminalStatuses
<1>3. CASE HandleInvocation(r)
  <2>1. wr' \in [Req -> [status : Int, wroteHeader : BOOLEAN]]
    BY <1>3, WriteHeaderType DEF HandleInvocation
  <2>2. invocationCount' \in Nat
    BY <1>3 DEF HandleInvocation
  <2> QED
    BY <1>3, <2>1, <2>2, StepType DEF HandleInvocation
<1>4. CASE HandleProgress(r)
  <2>1. wr' \in [Req -> [status : Int, wroteHeader : BOOLEAN]]
    BY <1>4, WriteHeaderType DEF HandleProgress
  <2>2. progressCount' \in Nat
    BY <1>4 DEF HandleProgress
  <2> QED
    BY <1>4, <2>1, <2>2, StepType DEF HandleProgress
<1>5. CASE HandleLog(r)
  <2>1. req[r].level \in Levels \cup {"unparseable"}
    BY DEF Request
  <2>2. logEvents' \in Seq(Levels \cup {"unparseable"})
    BY <1>5, <2>1 DEF HandleLog
  <2>3. wr' \in [Req -> [status : Int, wroteHeader : BOOLEAN]]
    BY <1>5, WriteHeaderType DEF HandleLog
  <2> QED
    BY <1>5, <2>2, <2>3, StepType DEF HandleLog
<1>6. CASE HandleStatic(r)
  <2>1. wr' \in [Req -> [status : Int, wroteHeader : BOOLEAN]]
    BY <1>6, WriteHeaderType DEF HandleStatic, StaticStatus
  <2> QED
    BY <1>6, <2>1, StepType DEF HandleStatic
<1>7. CASE ControlTimeout(r)
  <2>1. wr' \in [Req -> [status : Int, wroteHeader : BOOLEAN]]
    BY <1>7, WriteHeaderType DEF ControlTimeout
  <2> QED
    BY <1>7, <2>1, StepType DEF ControlTimeout
<1>8. CASE ControlCancelled(r)
  BY <1>8, StepType DEF ControlCancelled
<1>9. CASE RejectFindings(r)
  <2>1. wr' \in [Req -> [status : Int, wroteHeader : BOOLEAN]]
    BY <1>9, WriteHeaderType DEF RejectFindings
  <2> QED
    BY <1>9, <2>1, StepType DEF RejectFindings
<1>10. CASE StartScan(r)
  BY <1>10, StepType DEF StartScan
<1>11. CASE ScanLine(r)
  <2>1. /\ req[r].lines \in Seq(Line)
        /\ scanned[r] + 1 \in 1..Len(req[r].lines)
    BY <1>11 DEF ScanLine, Request
  <2>2. Validated(req[r].lines[scanned[r] + 1]) \in Finding
    BY <2>1, ValidatedType
  <2>3. findings' \in Seq(Finding)
    BY <1>11, <2>2 DEF ScanLine
  <2>4. /\ scanned' \in [Req -> Nat]
        /\ accepted' \in [Req -> Nat]
    BY <1>11 DEF ScanLine
  <2> QED
    BY <1>11, <2>3, <2>4 DEF ScanLine
<1>12. CASE EndScan(r)
  <2>1. wr' \in [Req -> [status : Int, wroteHeader : BOOLEAN]]
    BY <1>12, WriteHeaderType DEF EndScan
  <2> QED
    BY <1>12, <2>1, StepType DEF EndScan
<1>13. CASE CutScan(r)
  <2>1. PICK f \in Finding : findings' \in {findings, Append(findings, f)}
    <3>1. [ok |-> FALSE, type |-> "untyped"] \in Finding
      BY DEF Finding
    <3> QED
      BY <1>13, <3>1, Zenon DEF CutScan
  <2>2. findings' \in Seq(Finding)
    <3>1. findings \in Seq(Finding)
      OBVIOUS
    <3>2. Append(findings, f) \in Seq(Finding)
      BY <3>1
    <3> QED
      BY <2>1, <3>1, <3>2, Zenon
  <2>3. wr' \in [Req -> [status : Int, wroteHeader : BOOLEAN]]
    BY <1>13, WriteHeaderType DEF CutScan
  <2> QED
    BY <1>13, <2>2, <2>3, StepType DEF CutScan
<1>14. CASE HandleComplete(r)
  <2>1. req[r].status \in Statuses \cup {"unset"}
    BY DEF Request
  <2>2. status' \in TerminalStatuses
    BY <1>14, <2>1 DEF HandleComplete, TerminalStatuses
  <2>3. wr' \in [Req -> [status : Int, wroteHeader : BOOLEAN]]
    BY <1>14, WriteHeaderType DEF HandleComplete
  <2> QED
    BY <1>14, <2>2, <2>3, StepType DEF HandleComplete
<1>15. CASE SignalCheck(r)
  BY <1>15, StepType DEF SignalCheck
<1>16. CASE SignalClose(r)
  BY <1>16, StepType DEF SignalClose
<1>17. CASE RecordCall(r)
  <2>1. wr[r].status \in Int
    OBVIOUS
  <2>2. lastCall' \in [req : Req, status : Int] \cup {None}
    BY <1>17, <2>1 DEF RecordCall
  <2>3. endpointCalls' \in [Methods \X Paths -> Nat]
    <3>1. endpointCalls' = [endpointCalls EXCEPT ![Key(r)] = @ + 1]
      BY <1>17 DEF RecordCall
    <3> QED
      BY <3>1, CountType
  <2>4. client' \in [Req -> {"unsent", "waiting", "answered", "dropped", "gone"}]
    BY <1>17 DEF RecordCall
  <2> QED
    BY <1>17, <2>2, <2>3, <2>4, StepType DEF RecordCall
<1> QED
  BY <1>1, <1>2, <1>3, <1>4, <1>5, <1>6, <1>7, <1>8, <1>9, <1>10, <1>11, <1>12,
     <1>13, <1>14, <1>15, <1>16, <1>17 DEF Serve

LEMMA TypeStep == TypeOK /\ [Next]_vars => TypeOK'
<1> SUFFICES ASSUME TypeOK, [Next]_vars PROVE TypeOK'
  OBVIOUS
<1> USE DEF TypeOK, resultVars, callVars
<1>1. ASSUME NEW r \in Req, NEW q \in Inputs, Arrive(r, q) PROVE TypeOK'
  <2>1. q \in Request
    BY InputsAssumption
  <2> QED
    BY <1>1, <2>1, StepType DEF Arrive
<1>2. ASSUME NEW S \in SUBSET Req, ClientsGone(S) PROVE TypeOK'
  BY <1>2 DEF ClientsGone
<1>3. ASSUME NEW r \in Req, Serve(r) PROVE TypeOK'
  BY <1>3, ServeType
<1>4. CASE UNCHANGED vars
  BY <1>4 DEF vars
<1> QED
  BY <1>1, <1>2, <1>3, <1>4 DEF Next

\* Every variable keeps its type, for any set of requests, whatever they ask for.
THEOREM TypeCorrect == Spec => []TypeOK
<1>1. Safety => []TypeOK
  BY TypeInit, TypeStep, PTL DEF Safety
<1> QED
  BY <1>1 DEF Spec
-----------------------------------------------------------------------------
(***************************************************************************)
(* The completion signal.  DoneImpliesStatus is not inductive: a goroutine *)
(* between the tests of signalDone closes the channel without looking at   *)
(* the status again, so the status has to be there since it entered.       *)
(***************************************************************************)
Signalling == \A r \in Req : pc[r] \in {"signal", "close"} => status # "unset"

StatusInv == DoneImpliesStatus /\ Signalling

\* What a goroutine's step does to the status and to the channel.
LEMMA ServeStatus ==
  ASSUME TypeOK, NEW r \in Req, Serve(r)
  PROVE  \/ /\ PreemptStatus(r) \/ HandleComplete(r)
            /\ status' # "unset"
            /\ finished' = finished
         \/ /\ SignalCheck(r) \/ SignalClose(r)
            /\ status' = status
         \/ /\ pc'[r] \notin {"signal", "close"}
            /\ status' = status
            /\ finished' = finished
<1> USE DEF TypeOK, Step, resultVars
<1>1. CASE PreemptStatus(r)
  BY <1>1 DEF PreemptStatus
<1>2. CASE HandleComplete(r)
  BY <1>2 DEF HandleComplete
<1>3. CASE SignalCheck(r) \/ SignalClose(r)
  BY <1>3 DEF SignalCheck, SignalClose
<1>4. CASE ApplyOverride(r)
  BY <1>4 DEF ApplyOverride
<1>5. CASE HandleInvocation(r) \/ HandleProgress(r) \/ HandleLog(r)
  BY <1>5 DEF HandleInvocation, HandleProgress, HandleLog
<1>6. CASE HandleStatic(r) \/ ControlTimeout(r) \/ ControlCancelled(r)
  BY <1>6 DEF HandleStatic, ControlTimeout, ControlCancelled
<1>7. CASE RejectFindings(r) \/ StartScan(r) \/ EndScan(r) \/ CutScan(r)
  BY <1>7 DEF RejectFindings, StartScan, EndScan, CutScan
<1>8. CASE ScanLine(r)
  BY <1>8 DEF ScanLine
<1>9. CASE RecordCall(r)
  BY <1>9 DEF RecordCall
<1> QED
  BY <1>1, <1>2, <1>3, <1>4, <1>5, <1>6, <1>7, <1>8, <1>9 DEF Serve

\* A step of one goroutine leaves the others where they are.
LEMMA ServeOthers ==
  ASSUME TypeOK, NEW r \in Req, Serve(r), NEW s \in Req, s # r
  PROVE  pc'[s] = pc[s]
<1> USE DEF TypeOK, Step
<1>1. CASE ScanLine(r)
  BY <1>1 DEF ScanLine
<1>2. CASE ApplyOverride(r) \/ PreemptStatus(r) \/ HandleInvocation(r) \/ HandleProgress(r)
  BY <1>2 DEF ApplyOverride, PreemptStatus, HandleInvocation, HandleProgress
<1>3. CASE HandleLog(r) \/ HandleStatic(r) \/ ControlTimeout(r) \/ ControlCancelled(r)
  BY <1>3 DEF HandleLog, HandleStatic, ControlTimeout, ControlCancelled
<1>4. CASE RejectFindings(r) \/ StartScan(r) \/ EndScan(r) \/ CutScan(r)
  BY <1>4 DEF RejectFindings, StartScan, EndScan, CutScan
<1>5. CASE HandleComplete(r) \/ SignalCheck(r) \/ SignalClose(r) \/ RecordCall(r)
  BY <1>5 DEF HandleComplete, SignalCheck, SignalClose, RecordCall
<1> QED
  BY <1>1, <1>2, <1>3, <1>4, <1>5 DEF Serve

LEMMA StatusStep == TypeOK /\ StatusInv /\ [Next]_vars => StatusInv'
<1> SUFFICES ASSUME TypeOK, StatusInv, [Next]_vars PROVE StatusInv'
  OBVIOUS
<1> USE DEF StatusInv, DoneImpliesStatus, Signalling
<1>1. ASSUME NEW r \in Req, NEW q \in Inputs, Arrive(r, q) PROVE StatusInv'
  BY <1>1 DEF Arrive, Step, TypeOK, resultVars
<1>2. ASSUME NEW S \in SUBSET Req, ClientsGone(S) PROVE StatusInv'
  BY <1>2 DEF ClientsGone, resultVars
<1>3. ASSUME NEW r \in Req, Serve(r) PROVE StatusInv'
  <2>1. CASE PreemptStatus(r) \/ HandleComplete(r)
    BY <1>3, <2>1, ServeStatus DEF PreemptStatus, HandleComplete
  <2>2. CASE SignalCheck(r)
    BY <2>2, ServeOthers, <1>3 DEF SignalCheck, Step, TypeOK, resultVars
  <2>3. CASE SignalClose(r)
    BY <2>3, ServeOthers, <1>3 DEF SignalClose, Step, TypeOK, resultVars
  <2>4. CASE /\ pc'[r] \notin {"signal", "close"}
             /\ status' = status
             /\ finished' = finished
    BY <1>3, <2>4, ServeOthers
  <2> QED
    BY <1>3, <2>1, <2>2, <2>3, <2>4, ServeStatus
<1>4. CASE UNCHANGED vars
  BY <1>4 DEF vars, resultVars, callVars
<1> QED
  BY <1>1, <1>2, <1>3, <1>4 DEF Next

\* The harness is never woken by Done() before the result holds a terminal status.
THEOREM DoneHasStatus == Spec => []DoneImpliesStatus
<1>1. Init => StatusInv
  BY DEF Init, StatusInv, DoneImpliesStatus, Signalling
<1>2. Safety => []TypeOK
  BY TypeInit, TypeStep, PTL DEF Safety
<1>3. Safety => []StatusInv
  BY <1>1, <1>2, StatusStep, PTL DEF Safety
<1>4. StatusInv => DoneImpliesStatus
  BY DEF StatusInv
<1> QED
  BY <1>3, <1>4, PTL DEF Spec
-----------------------------------------------------------------------------
(* The handlers implement Completion (its safety part) *)

LEMMA ServeImplements ==
  ASSUME TypeOK, StatusInv, NEW r \in Req, Serve(r)
  PROVE  [C!Next]_(C!cvars)
<1> USE DEF C!Next, C!cvars
<1>1. CASE PreemptStatus(r)
  BY <1>1 DEF PreemptStatus, C!Preempt
<1>2. CASE HandleComplete(r)
  <2>1. req[r].status \in Statuses \cup {"unset"}
    BY DEF TypeOK, Request
  <2>2. status' \in Statuses \cup {"completed"}
    BY <1>2, <2>1 DEF HandleComplete
  <2>3. status' \in TerminalStatuses \ {"overridden"}
    BY <2>2, StatusesAssumption DEF TerminalStatuses
  <2> QED
    BY <1>2, <2>3 DEF HandleComplete, C!Report
<1>3. CASE SignalCheck(r)
  BY <1>3 DEF SignalCheck, resultVars
<1>4. CASE SignalClose(r)
  BY <1>4 DEF SignalClose, Step, resultVars, StatusInv, Signalling, TypeOK, C!Signal
<1>5. CASE status' = status /\ finished' = finished
  BY <1>5
<1> QED
  BY <1>1, <1>2, <1>3, <1>4, <1>5, ServeStatus

LEMMA StepImplements == TypeOK /\ StatusInv /\ [Next]_vars => [C!Next]_(C!cvars)
<1> SUFFICES ASSUME TypeOK, StatusInv, [Next]_vars PROVE [C!Next]_(C!cvars)
  OBVIOUS
<1>1. ASSUME NEW r \in Req, NEW q \in Inputs, Arrive(r, q) PROVE UNCHANGED C!cvars
  BY <1>1 DEF Arrive, resultVars, C!cvars
<1>2. ASSUME NEW S \in SUBSET Req, ClientsGone(S) PROVE UNCHANGED C!cvars
  BY <1>2 DEF ClientsGone, resultVars, C!cvars
<1>3. CASE UNCHANGED vars
  BY <1>3 DEF vars, resultVars, C!cvars
<1> QED
  BY <1>1, <1>2, <1>3, ServeImplements DEF Next

\* However the handlers interleave, a terminal status never turns back into none, an
\* override never hides a status that was posted, and Done() follows a status: the
\* safety half of ImplementsCompletion.
THEOREM CompletionSafety == Spec => C!Safety
<1>1. Init => C!Init
  BY DEF Init, C!Init
<1>2. Safety => [](TypeOK /\ StatusInv)
  <2>1. Init => StatusInv
    BY DEF Init, StatusInv, DoneImpliesStatus, Signalling
  <2> QED
    BY <2>1, TypeInit, TypeStep, StatusStep, PTL DEF Safety
<1> QED
  BY <1>1, <1>2, StepImplements, PTL DEF Spec, Safety, C!Safety

-----------------------------------------------------------------------------
(* What is recorded *)

\* No step but recordCall touches what is recorded, or a call that is.
LEMMA NotRecording ==
  ASSUME TypeOK, [Next]_vars, \A r \in Req : ~RecordCall(r)
  PROVE  /\ Recorded' = Recorded
         /\ endpointCalls' = endpointCalls
         /\ lastCall' = lastCall
         /\ \A s \in Recorded : req'[s] = req[s] /\ before'[s] = before[s]
         /\ \A s \in Req : before'[s] \in {before[s], Recorded}
<1> DEFINE Kept == /\ Recorded' = Recorded
                   /\ endpointCalls' = endpointCalls
                   /\ lastCall' = lastCall
                   /\ req' = req
                   /\ before' = before
<1>1. ASSUME NEW r \in Req, NEW q \in Inputs, Arrive(r, q)
      PROVE  /\ Recorded' = Recorded
             /\ endpointCalls' = endpointCalls
             /\ lastCall' = lastCall
             /\ \A s \in Recorded : req'[s] = req[s] /\ before'[s] = before[s]
             /\ \A s \in Req : before'[s] \in {before[s], Recorded}
  BY <1>1 DEF Arrive, Step, TypeOK, Recorded, resultVars
<1>2. ASSUME NEW S \in SUBSET Req, ClientsGone(S) PROVE Kept
  BY <1>2 DEF ClientsGone, Recorded, resultVars
<1>3. ASSUME NEW r \in Req, Serve(r) PROVE Kept
  <2> USE DEF TypeOK, Step, Recorded, resultVars
  <2>1. CASE ScanLine(r)
    BY <2>1 DEF ScanLine
  <2>2. CASE ApplyOverride(r) \/ PreemptStatus(r)
    BY <2>2 DEF ApplyOverride, PreemptStatus
  <2>3. CASE HandleInvocation(r) \/ HandleProgress(r) \/ HandleLog(r) \/ HandleStatic(r)
    BY <2>3 DEF HandleInvocation, HandleProgress, HandleLog, HandleStatic
  <2>4. CASE ControlTimeout(r) \/ ControlCancelled(r)
    BY <2>4 DEF ControlTimeout, ControlCancelled
  <2>5. CASE RejectFindings(r) \/ StartScan(r) \/ EndScan(r) \/ CutScan(r)
    BY <2>5 DEF RejectFindings, StartScan, EndScan, CutScan
  <2>6. CASE HandleComplete(r) \/ SignalCheck(r) \/ SignalClose(r)
    BY <2>6 DEF HandleComplete, SignalCheck, SignalClose
  <2> QED
    BY <1>3, <2>1, <2>2, <2>3, <2>4, <2>5, <2>6 DEF Serve
<1>4. CASE UNCHANGED vars
  BY <1>4 DEF vars, resultVars, callVars, Recorded
<1> QED
  BY <1>1, <1>2, <1>3, <1>4 DEF Next

LEMMA Recording ==
  ASSUME TypeOK, NEW r \in Req, RecordCall(r)
  PROVE  /\ r \notin Recorded
         /\ Recorded' = Recorded \cup {r}
         /\ req' = req
         /\ before' = before
BY DEF RecordCall, Step, TypeOK, Recorded
(***************************************************************************)
(* CallsCounted is inductive once the calls recorded are finitely many,    *)
(* which they are whatever the set of requests is.                         *)
(***************************************************************************)
CountInv == IsFiniteSet(Recorded) /\ CallsCounted

LEMMA CountStep == TypeOK /\ CountInv /\ [Next]_vars => CountInv'
<1> SUFFICES ASSUME TypeOK, CountInv, [Next]_vars PROVE CountInv'
  OBVIOUS
<1> DEFINE Of(k) == {s \in Recorded : Key(s) = k}
<1>1. CASE \A r \in Req : ~RecordCall(r)
  <2>1. ASSUME NEW k PROVE Of(k)' = Of(k)
    BY <1>1, NotRecording DEF Key
  <2> QED
    BY <1>1, <2>1, NotRecording DEF CountInv, CallsCounted
<1>2. ASSUME NEW r \in Req, RecordCall(r) PROVE CountInv'
  <2>1. r \notin Recorded /\ Recorded' = Recorded \cup {r}
    BY <1>2, Recording
  <2>2. IsFiniteSet(Recorded)'
    BY <2>1, FS_AddElement DEF CountInv
  <2>3. ASSUME NEW k \in Methods \X Paths
        PROVE  endpointCalls'[k] = Cardinality(Of(k)')
    <3>1. IsFiniteSet(Of(k))
      BY FS_Subset DEF CountInv
    <3>2. endpointCalls[k] = Cardinality(Of(k))
      BY DEF CountInv, CallsCounted
    <3>3. endpointCalls' = [endpointCalls EXCEPT ![Key(r)] = @ + 1]
      BY <1>2 DEF RecordCall
    <3>4. DOMAIN endpointCalls = Methods \X Paths
      BY DEF TypeOK
    <3>5. CASE Key(r) = k
      <4>1. Of(k)' = Of(k) \cup {r} /\ r \notin Of(k)
        BY <1>2, <2>1, <3>5, Recording DEF Key
      <4>2. Cardinality(Of(k)') = Cardinality(Of(k)) + 1
        BY <3>1, <4>1, FS_AddElement
      <4>3. endpointCalls'[k] = endpointCalls[k] + 1
        BY <3>3, <3>4, <3>5
      <4> QED
        BY <3>2, <4>2, <4>3
    <3>6. CASE Key(r) # k
      <4>1. Of(k)' = Of(k)
        BY <1>2, <2>1, <3>6, Recording DEF Key
      <4>2. endpointCalls'[k] = endpointCalls[k]
        BY <3>3, <3>4, <3>6
      <4> QED
        BY <3>2, <4>1, <4>2
    <3> QED
      BY <3>5, <3>6
  <2> QED
    BY <2>2, <2>3 DEF CountInv, CallsCounted
<1> QED
  BY <1>1, <1>2

\* EndpointCalls has every call that ended, once, under its own method and path.
THEOREM EveryCallCounted == Spec => []CallsCounted
<1>1. Init => CountInv
  <2> SUFFICES ASSUME Init PROVE CountInv
    OBVIOUS
  <2>1. Recorded = {}
    BY DEF Init, Recorded
  <2>2. \A k \in Methods \X Paths : endpointCalls[k] = 0
    BY DEF Init
  <2> QED
    BY <2>1, <2>2, FS_EmptySet DEF CountInv, CallsCounted
<1>2. Safety => []TypeOK
  BY TypeInit, TypeStep, PTL DEF Safety
<1>3. Safety => []CountInv
  BY <1>1, <1>2, CountStep, PTL DEF Safety
<1>4. CountInv => CallsCounted
  BY DEF CountInv
<1> QED
  BY <1>3, <1>4, PTL DEF Spec

(***************************************************************************)
(* LastCallIsLatest: that a call recorded now is not among those recorded  *)
(* before another began needs every before[s] to be a part of the past.    *)
(***************************************************************************)
PastInv == \A s \in Req : before[s] \subseteq Recorded

LastInv == PastInv /\ LastCallIsLatest

LEMMA LastStep == TypeOK /\ LastInv /\ [Next]_vars => LastInv'
<1> SUFFICES ASSUME TypeOK, LastInv, [Next]_vars PROVE LastInv'
  OBVIOUS
<1> USE DEF LastInv, PastInv, LastCallIsLatest
<1>1. CASE \A r \in Req : ~RecordCall(r)
  BY <1>1, NotRecording
<1>2. ASSUME NEW r \in Req, RecordCall(r) PROVE LastInv'
  <2>1. lastCall' = [req |-> r, status |-> wr[r].status]
    BY <1>2 DEF RecordCall
  <2>2. lastCall'.req = r
    BY <2>1
  <2>3. lastCall' # None
    <3>1. wr[r].status \in Int
      BY DEF TypeOK
    <3> QED
      BY <2>1, <3>1, NoneAssumption
  <2>4. /\ r \notin Recorded
        /\ Recorded' = Recorded \cup {r}
        /\ before' = before
    BY <1>2, Recording
  <2>5. PastInv'
    BY <2>4
  <2>6. \A s \in Recorded' : r \notin before'[s]
    BY <2>4 DEF Recorded
  <2> QED
    BY <2>2, <2>3, <2>4, <2>5, <2>6
<1> QED
  BY <1>1, <1>2

\* LastCall, which the forensic report quotes as the call that killed the worker, is
\* never a call that ended before another recorded one began.
THEOREM LastCallCorrect == Spec => []LastCallIsLatest
<1>1. Init => LastInv
  BY DEF Init, LastInv, PastInv, LastCallIsLatest, Recorded
<1>2. Safety => []TypeOK
  BY TypeInit, TypeStep, PTL DEF Safety
<1>3. Safety => []LastInv
  BY <1>1, <1>2, LastStep, PTL DEF Safety
<1>4. LastInv => LastCallIsLatest
  BY DEF LastInv
<1> QED
  BY <1>3, <1>4, PTL DEF Spec
\* A call that ended takes no further step, and only one that is recorded ends.
LEMMA ServeEnds ==
  ASSUME TypeOK, NEW r \in Req, Serve(r)
  PROVE  /\ pc[r] # "done"
         /\ RecordCall(r) \/ client' = client
<1> USE DEF TypeOK, Step, Routed
<1>1. CASE ScanLine(r)
  BY <1>1 DEF ScanLine
<1>2. CASE ApplyOverride(r) \/ PreemptStatus(r)
  BY <1>2 DEF ApplyOverride, PreemptStatus
<1>3. CASE HandleInvocation(r) \/ HandleProgress(r) \/ HandleLog(r) \/ HandleStatic(r)
  BY <1>3 DEF HandleInvocation, HandleProgress, HandleLog, HandleStatic
<1>4. CASE ControlTimeout(r) \/ ControlCancelled(r)
  BY <1>4 DEF ControlTimeout, ControlCancelled
<1>5. CASE RejectFindings(r) \/ StartScan(r) \/ EndScan(r) \/ CutScan(r)
  BY <1>5 DEF RejectFindings, StartScan, EndScan, CutScan
<1>6. CASE HandleComplete(r) \/ SignalCheck(r) \/ SignalClose(r)
  BY <1>6 DEF HandleComplete, SignalCheck, SignalClose
<1>7. CASE RecordCall(r)
  BY <1>7 DEF RecordCall
<1> QED
  BY <1>1, <1>2, <1>3, <1>4, <1>5, <1>6, <1>7 DEF Serve

LEMMA ReplyStep == TypeOK /\ AnsweredAfterRecord /\ [Next]_vars => AnsweredAfterRecord'
<1> SUFFICES ASSUME TypeOK, AnsweredAfterRecord, [Next]_vars PROVE AnsweredAfterRecord'
  OBVIOUS
<1> USE DEF AnsweredAfterRecord
<1>1. ASSUME NEW r \in Req, NEW q \in Inputs, Arrive(r, q) PROVE AnsweredAfterRecord'
  BY <1>1 DEF Arrive, Step, TypeOK
<1>2. ASSUME NEW S \in SUBSET Req, ClientsGone(S) PROVE AnsweredAfterRecord'
  BY <1>2 DEF ClientsGone, TypeOK
<1>3. ASSUME NEW r \in Req, Serve(r) PROVE AnsweredAfterRecord'
  <2>1. CASE RecordCall(r)
    <3>1. ASSUME NEW s \in Req, s # r PROVE client'[s] = client[s] /\ pc'[s] = pc[s]
      BY <1>3, <2>1, <3>1, ServeOthers DEF RecordCall, TypeOK
    <3>2. pc'[r] = "done"
      BY <2>1 DEF RecordCall, Step, TypeOK
    <3> QED
      BY <3>1, <3>2
  <2>2. CASE ~RecordCall(r)
    BY <1>3, <2>2, ServeEnds, ServeOthers
  <2> QED
    BY <2>1, <2>2
<1>4. CASE UNCHANGED vars
  BY <1>4 DEF vars, callVars
<1> QED
  BY <1>1, <1>2, <1>3, <1>4 DEF Next

\* A call that the worker saw the end of is in the result the harness judges.
THEOREM RepliesAreRecorded == Spec => []AnsweredAfterRecord
<1>1. Init => AnsweredAfterRecord
  BY DEF Init, AnsweredAfterRecord
<1>2. Safety => []TypeOK
  BY TypeInit, TypeStep, PTL DEF Safety
<1> QED
  BY <1>1, <1>2, ReplyStep, PTL DEF Spec, Safety

-----------------------------------------------------------------------------
(* What is accepted *)

AcceptedInv ==
  IsFiniteSet(ValidFindings) /\ IsFiniteSet(AcceptedLines) /\ AcceptedAreRecorded

\* A finding more, valid or not.
LEMMA OneFinding ==
  ASSUME NEW s \in Seq(Finding), NEW f \in Finding
  PROVE  LET ok(t) == {i \in DOMAIN t : t[i].ok}
         IN  /\ f.ok => ok(Append(s, f)) = ok(s) \cup {Len(s) + 1} /\ Len(s) + 1 \notin ok(s)
             /\ ~f.ok => ok(Append(s, f)) = ok(s)
<1> DEFINE t == Append(s, f)
<1>1. /\ DOMAIN s = 1..Len(s) /\ DOMAIN t = 1..(Len(s) + 1) /\ Len(s) \in Nat
      /\ \A i \in 1..Len(s) : t[i] = s[i]
      /\ t[Len(s) + 1] = f
  OBVIOUS
<1> HIDE DEF t
<1>2. 1..(Len(s) + 1) = 1..Len(s) \cup {Len(s) + 1} /\ Len(s) + 1 \notin 1..Len(s)
  BY <1>1
<1> QED
  BY <1>1, <1>2 DEF t

\* The scanners of the uploads are the only ones that add findings.
LEMMA NotScanning ==
  ASSUME TypeOK, [Next]_vars, \A r \in Req : ~ScanLine(r)
  PROVE  /\ accepted' = accepted
         /\ findings' \in {findings, Append(findings, [ok |-> FALSE, type |-> "untyped"])}
<1> USE DEF resultVars
<1>1. ASSUME NEW r \in Req, NEW q \in Inputs, Arrive(r, q) PROVE UNCHANGED <<accepted, findings>>
  BY <1>1 DEF Arrive
<1>2. ASSUME NEW S \in SUBSET Req, ClientsGone(S) PROVE UNCHANGED <<accepted, findings>>
  BY <1>2 DEF ClientsGone
<1>3. ASSUME NEW r \in Req, Serve(r), ~CutScan(r) PROVE UNCHANGED <<accepted, findings>>
  <2>1. CASE ApplyOverride(r) \/ PreemptStatus(r)
    BY <2>1 DEF ApplyOverride, PreemptStatus
  <2>2. CASE HandleInvocation(r) \/ HandleProgress(r) \/ HandleLog(r) \/ HandleStatic(r)
    BY <2>2 DEF HandleInvocation, HandleProgress, HandleLog, HandleStatic
  <2>3. CASE ControlTimeout(r) \/ ControlCancelled(r)
    BY <2>3 DEF ControlTimeout, ControlCancelled
  <2>4. CASE RejectFindings(r) \/ StartScan(r) \/ EndScan(r)
    BY <2>4 DEF RejectFindings, StartScan, EndScan
  <2>5. CASE HandleComplete(r) \/ SignalCheck(r) \/ SignalClose(r) \/ RecordCall(r)
    BY <2>5 DEF HandleComplete, SignalCheck, SignalClose, RecordCall
  <2> QED
    BY <1>3, <2>1, <2>2, <2>3, <2>4, <2>5 DEF Serve
<1>4. ASSUME NEW r \in Req, CutScan(r)
      PROVE  /\ accepted' = accepted
             /\ findings' \in {findings, Append(findings, [ok |-> FALSE, type |-> "untyped"])}
  BY <1>4 DEF CutScan
<1>5. CASE UNCHANGED vars
  BY <1>5 DEF vars, callVars
<1> QED
  BY <1>1, <1>2, <1>3, <1>4, <1>5 DEF Next

LEMMA AcceptedStep == TypeOK /\ AcceptedInv /\ [Next]_vars => AcceptedInv'
<1> SUFFICES ASSUME TypeOK, AcceptedInv, [Next]_vars PROVE AcceptedInv'
  OBVIOUS
<1>1. findings \in Seq(Finding) /\ accepted \in [Req -> Nat]
  BY DEF TypeOK
<1>2. CASE \A r \in Req : ~ScanLine(r)
  <2>1. AcceptedLines' = AcceptedLines
    BY <1>2, NotScanning DEF AcceptedLines
  <2>2. ValidFindings' = ValidFindings
    <3>1. CASE findings' = findings
      BY <3>1 DEF ValidFindings
    <3>2. CASE findings' = Append(findings, [ok |-> FALSE, type |-> "untyped"])
      <4>1. [ok |-> FALSE, type |-> "untyped"] \in Finding
        BY DEF Finding
      <4> QED
        BY <1>1, <3>2, <4>1, OneFinding DEF ValidFindings
    <3> QED
      BY <1>2, <3>1, <3>2, NotScanning
  <2> QED
    BY <2>1, <2>2 DEF AcceptedInv, AcceptedAreRecorded
<1>3. ASSUME NEW r \in Req, ScanLine(r) PROVE AcceptedInv'
  <2> DEFINE line == req[r].lines[scanned[r] + 1]
             f == Validated(line)
  <2>1. f \in Finding
    <3>1. req[r].lines \in Seq(Line) /\ scanned[r] + 1 \in 1..Len(req[r].lines)
      BY <1>3 DEF TypeOK, ScanLine, Request
    <3> QED
      BY <3>1, ValidatedType
  <2>2. /\ findings' = IF line.kind = "blank" THEN findings ELSE Append(findings, f)
        /\ accepted' = IF line.kind # "blank" /\ f.ok THEN [accepted EXCEPT ![r] = @ + 1] ELSE accepted
    BY <1>3 DEF ScanLine
  <2> HIDE DEF f
  <2>3. CASE line.kind = "blank"
    BY <2>2, <2>3 DEF AcceptedInv, AcceptedAreRecorded, AcceptedLines, ValidFindings
  <2>4. CASE line.kind # "blank" /\ ~f.ok
    <3>1. ValidFindings' = ValidFindings
      BY <1>1, <2>1, <2>2, <2>4, OneFinding DEF ValidFindings
    <3>2. AcceptedLines' = AcceptedLines
      BY <2>2, <2>4 DEF AcceptedLines
    <3> QED
      BY <3>1, <3>2 DEF AcceptedInv, AcceptedAreRecorded
  <2>5. CASE line.kind # "blank" /\ f.ok
    <3> DEFINE k == Len(findings) + 1
               l == <<r, accepted[r] + 1>>
    <3>1. ValidFindings' = ValidFindings \cup {k} /\ k \notin ValidFindings
      BY <1>1, <2>1, <2>2, <2>5, OneFinding DEF ValidFindings
    <3>2. AcceptedLines' = AcceptedLines \cup {l} /\ l \notin AcceptedLines
      <4>1. /\ accepted'[r] = accepted[r] + 1 /\ accepted[r] \in Nat
            /\ \A s \in Req : s # r => accepted'[s] = accepted[s]
        BY <1>1, <2>2, <2>5
      <4>2. 1..accepted'[r] = 1..accepted[r] \cup {accepted[r] + 1} /\ accepted[r] + 1 \notin 1..accepted[r]
        BY <4>1
      <4>3. \A x : x \in AcceptedLines' <=> \E s \in Req : x \in {s} \X (1..accepted'[s])
        BY DEF AcceptedLines
      <4>4. \A x : x \in AcceptedLines <=> \E s \in Req : x \in {s} \X (1..accepted[s])
        BY DEF AcceptedLines
      <4> QED
        BY <4>1, <4>2, <4>3, <4>4
    <3> HIDE DEF k, l
    <3>3. /\ IsFiniteSet(ValidFindings') /\ Cardinality(ValidFindings') = Cardinality(ValidFindings) + 1
          /\ IsFiniteSet(AcceptedLines') /\ Cardinality(AcceptedLines') = Cardinality(AcceptedLines) + 1
      BY <3>1, <3>2, FS_AddElement DEF AcceptedInv
    <3> QED
      BY <3>3 DEF AcceptedInv, AcceptedAreRecorded
  <2> QED
    BY <2>3, <2>4, <2>5
<1> QED
  BY <1>2, <1>3

\* However the uploads interleave and wherever they fail (handleFindings), the lines they counted as
\* accepted are as many as the valid findings of the result: none is lost, or counted twice.
THEOREM AcceptedRecorded == Spec => []AcceptedAreRecorded
<1>1. Init => AcceptedInv
  <2> SUFFICES ASSUME Init PROVE AcceptedInv
    OBVIOUS
  <2>1. ValidFindings = {}
    BY DEF Init, ValidFindings
  <2>2. AcceptedLines = {}
    BY DEF Init, AcceptedLines
  <2> QED
    BY <2>1, <2>2, FS_EmptySet DEF AcceptedInv, AcceptedAreRecorded
<1>2. Safety => []TypeOK
  BY TypeInit, TypeStep, PTL DEF Safety
<1>3. Safety => []AcceptedInv
  BY <1>1, <1>2, AcceptedStep, PTL DEF Safety
<1>4. AcceptedInv => AcceptedAreRecorded
  BY DEF AcceptedInv
<1> QED
  BY <1>3, <1>4, PTL DEF Spec

-----------------------------------------------------------------------------
(* The emulator within the harness *)

LEMMA MainLeavesEmulator == MainStep => UNCHANGED vars
BY DEF MainStep, Listen, ListenExtraction, StartWorker, SelectDone, SelectSignal, CliReaped,
       GiveUp, Reap, CloseListener, ShutdownReturns, ReadStatus, ReadFindings, Judge

LEMMA EmulatorStep == [HNext]_allvars => [Next]_vars
<1> SUFFICES ASSUME [HNext]_allvars PROVE [Next]_vars
  OBVIOUS
<1>1. CASE MainStep
  BY <1>1, MainLeavesEmulator
<1>2. CASE ContainerStarts \/ CliFails \/ CliExits \/ Interrupt
  BY <1>2 DEF ContainerStarts, CliFails, CliExits, Interrupt
<1>3. CASE WorkerExits
  <2>1. {r \in Req : client[r] = "waiting"} \in SUBSET Req
    OBVIOUS
  <2> QED
    BY <1>3, <2>1 DEF WorkerExits, Next
<1>4. CASE WorkerCalls
  BY <1>4 DEF WorkerCalls, Next
<1>5. CASE WorkerAbandons
  <2>1. PICK r \in Req : ClientsGone({r})
    BY <1>5 DEF WorkerAbandons
  <2>2. {r} \in SUBSET Req
    OBVIOUS
  <2> QED
    BY <2>1, <2>2 DEF Next
<1>6. ASSUME NEW r \in Req, EmulatorServes(r) PROVE [Next]_vars
  BY <1>6 DEF EmulatorServes, Next
<1>7. CASE UNCHANGED allvars
  BY <1>7 DEF allvars
<1> QED
  BY <1>1, <1>2, <1>3, <1>4, <1>5, <1>6, <1>7 DEF HNext, Environment

LEMMA StatusInit == Init => StatusInv
BY DEF Init, StatusInv, DoneImpliesStatus, Signalling

\* The behaviours of the harness are behaviours of the emulator.
LEMMA EmulatorInHarness == HSafety => [](TypeOK /\ StatusInv)
<1>1. HInit => TypeOK /\ StatusInv
  BY TypeInit, StatusInit DEF HInit
<1>2. TypeOK /\ StatusInv /\ [HNext]_allvars => (TypeOK /\ StatusInv)'
  BY EmulatorStep, TypeStep, StatusStep
<1> QED
  BY <1>1, <1>2, PTL DEF HSafety

\* Whatever the harness, docker and the user do, the emulator among them behaves as Emulator says.
THEOREM HarnessRunsEmulator == HSpec => Safety
<1>1. HInit => Init
  BY DEF HInit
<1> QED
  BY <1>1, EmulatorStep, PTL DEF HSpec, HSafety, Safety

-----------------------------------------------------------------------------
(* Nothing is left behind *)

\* The docker CLI runs only inside of runWorker, and has no container before it starts; a
\* container outlives it only after the harness gave up.
CliInv ==
  /\ cli = "running" => main \in {"select", "drain", "interrupted"}
  /\ main \in {"listen", "extraction", "start"} => cli = "absent"
  /\ cli = "absent" => container = "absent"
  /\ container = "running" => cli = "running" \/ gaveUp

LEMMA CliInit == HInit => CliInv
BY DEF HInit, CliInv

LEMMA CliMain == ASSUME CliInv, MainStep PROVE CliInv'
<1> USE DEF CliInv, Goto, world
<1>1. CASE Listen \/ ListenExtraction
  BY <1>1 DEF Listen, ListenExtraction
<1>2. CASE StartWorker
  BY <1>2 DEF StartWorker
<1>3. CASE SelectDone \/ SelectSignal
  BY <1>3 DEF SelectDone, SelectSignal
<1>4. CASE CliReaped
  BY <1>4 DEF CliReaped
<1>5. CASE GiveUp
  BY <1>5 DEF GiveUp
<1>6. CASE Reap
  BY <1>6 DEF Reap
<1>7. CASE CloseListener \/ ShutdownReturns
  BY <1>7 DEF CloseListener, ShutdownReturns
<1>8. CASE ReadStatus \/ ReadFindings \/ Judge
  BY <1>8 DEF ReadStatus, ReadFindings, Judge
<1> QED
  BY <1>1, <1>2, <1>3, <1>4, <1>5, <1>6, <1>7, <1>8 DEF MainStep

LEMMA CliStep == CliInv /\ [HNext]_allvars => CliInv'
<1> SUFFICES ASSUME CliInv, [HNext]_allvars PROVE CliInv'
  OBVIOUS
<1> USE DEF CliInv
<1>1. CASE MainStep
  BY <1>1, CliMain
<1>2. CASE ContainerStarts \/ CliFails \/ CliExits \/ Interrupt
  BY <1>2 DEF ContainerStarts, CliFails, CliExits, Interrupt
<1>3. CASE WorkerExits
  BY <1>3 DEF WorkerExits
<1>4. CASE UNCHANGED hvars
  BY <1>4 DEF hvars, world
<1> QED
  BY <1>1, <1>2, <1>3, <1>4
  DEF HNext, Environment, WorkerCalls, WorkerAbandons, EmulatorServes, allvars

\* No run, however it ends, leaves its docker CLI running, and a container only if a timer ended
\* the wait for it.
THEOREM HarnessCleansUp == HSpec => []NothingLeftBehind
<1>1. CliInv => NothingLeftBehind
  BY DEF CliInv, NothingLeftBehind
<1>2. HSafety => []CliInv
  BY CliInit, CliStep, PTL DEF HSafety
<1> QED
  BY <1>1, <1>2, PTL DEF HSpec

-----------------------------------------------------------------------------
(* The exit code that runWorker makes up *)

\* The emulator never takes a status back.
LEMMA StatusStays ==
  ASSUME TypeOK, [Next]_vars, status # "unset"
  PROVE  status' # "unset"
<1>1. ASSUME NEW r \in Req, Serve(r) PROVE status' # "unset"
  BY <1>1, ServeStatus
<1>2. ASSUME NEW r \in Req, NEW q \in Inputs, Arrive(r, q) PROVE status' # "unset"
  BY <1>2 DEF Arrive, resultVars
<1>3. ASSUME NEW S \in SUBSET Req, ClientsGone(S) PROVE status' # "unset"
  BY <1>3 DEF ClientsGone, resultVars
<1>4. CASE UNCHANGED vars
  BY <1>4 DEF vars, resultVars
<1> QED
  BY <1>1, <1>2, <1>3, <1>4 DEF Next

\* The channel stays closed.
LEMMA FinishedStays ==
  ASSUME TypeOK, [Next]_vars, finished
  PROVE  finished'
<1>1. ASSUME NEW r \in Req, Serve(r) PROVE finished'
  <2>1. CASE SignalCheck(r) \/ SignalClose(r)
    BY <2>1 DEF SignalCheck, SignalClose
  <2> QED
    BY <1>1, <2>1, ServeStatus
<1>2. ASSUME NEW r \in Req, NEW q \in Inputs, Arrive(r, q) PROVE finished'
  BY <1>2 DEF Arrive
<1>3. ASSUME NEW S \in SUBSET Req, ClientsGone(S) PROVE finished'
  BY <1>3 DEF ClientsGone
<1>4. CASE UNCHANGED vars
  BY <1>4 DEF vars
<1> QED
  BY <1>1, <1>2, <1>3, <1>4 DEF Next

\* It makes up 0 only when Done() is closed, and then there is a status; what Evaluate reads
\* of it is not the initial one.
InventedInv ==
  /\ DOMAIN snap = DOMAIN Unread
  /\ main = "drain" => finished
  /\ gaveUp => main \notin {"listen", "extraction", "start", "select", "drain", "interrupted"}
  /\ gaveUp /\ exitCode = 0 => status # "unset"
  /\ main \in {"readFindings", "readCalls", "judged"} /\ gaveUp /\ exitCode = 0
       => snap.Status # "unset"

LEMMA InventedInit == HInit => InventedInv
BY DEF HInit, InventedInv

LEMMA InventedMain ==
  ASSUME TypeOK, StatusInv, InventedInv, MainStep
  PROVE  InventedInv'
<1>0. /\ UNCHANGED <<status, finished>>
      /\ finished => status # "unset"
  BY MainLeavesEmulator DEF vars, resultVars, StatusInv, DoneImpliesStatus
<1> USE <1>0 DEF InventedInv, Goto, judgement
<1>1. CASE Listen \/ ListenExtraction
  BY <1>1 DEF Listen, ListenExtraction
<1>2. CASE StartWorker
  BY <1>2 DEF StartWorker
<1>3. CASE SelectDone \/ SelectSignal
  BY <1>3 DEF SelectDone, SelectSignal
<1>4. CASE CliReaped
  BY <1>4 DEF CliReaped
<1>5. CASE GiveUp
  BY <1>5 DEF GiveUp
<1>6. CASE Reap
  BY <1>6 DEF Reap
<1>7. CASE CloseListener \/ ShutdownReturns
  BY <1>7 DEF CloseListener, ShutdownReturns
<1>8. CASE ReadStatus
  BY <1>8 DEF ReadStatus, Unread
<1>9. CASE ReadFindings
  BY <1>9 DEF ReadFindings, Unread
<1>10. CASE Judge
  BY <1>10 DEF Judge, Unread
<1> QED
  BY <1>1, <1>2, <1>3, <1>4, <1>5, <1>6, <1>7, <1>8, <1>9, <1>10 DEF MainStep

LEMMA InventedStep ==
  TypeOK /\ StatusInv /\ InventedInv /\ [HNext]_allvars => InventedInv'
<1> SUFFICES ASSUME TypeOK, StatusInv, InventedInv, [HNext]_allvars PROVE InventedInv'
  OBVIOUS
<1>1. CASE MainStep
  BY <1>1, InventedMain
<1>2. CASE ~MainStep
  <2>1. UNCHANGED <<main, snap, gaveUp, exitCode>>
    BY <1>2 DEF HNext, Environment, ContainerStarts, CliFails, WorkerExits, CliExits, Interrupt,
                WorkerCalls, WorkerAbandons, EmulatorServes, hvars, judgement, allvars
  <2>2. (status # "unset" => status' # "unset") /\ (finished => finished')
    BY EmulatorStep, StatusStays, FinishedStays
  <2> QED
    BY <2>1, <2>2 DEF InventedInv, Unread
<1> QED
  BY <1>1, <1>2

\* No worker is taken for completed by the exit code 0 that runWorker reports when it has killed
\* the CLI: the verdict then rests on a status that was posted.  Nothing is said of the 130 that it
\* reports after an interrupt, which Evaluate takes for "failed".
THEOREM NoInventedVerdict == HSpec => []InventedExitCodeUnused
<1>1. InventedInv => InventedExitCodeUnused
  BY DEF InventedInv, InventedExitCodeUnused
<1>2. HSafety => []InventedInv
  BY EmulatorInHarness, InventedInit, InventedStep, PTL DEF HSafety
<1> QED
  BY <1>1, <1>2, PTL DEF HSpec

-----------------------------------------------------------------------------
(* Harness: types *)

LEMMA HarnessTypeInit == HInit => HTypeOK
<1> SUFFICES ASSUME HInit PROVE HTypeOK
  OBVIOUS
<1>1. TypeOK
  BY TypeInit DEF HInit
<1>2. main = "listen" /\ cli = "absent" /\ container = "absent" /\ verdict = "none"
  BY DEF HInit
<1>3. cliCode \in Int /\ exitCode \in Int
  BY DEF HInit
<1>4. /\ listener \in BOOLEAN /\ sig \in BOOLEAN /\ gaveUp \in BOOLEAN /\ failed \in BOOLEAN
      /\ DOMAIN snap = DOMAIN Unread
  BY DEF HInit
<1> QED
  BY <1>1, <1>2, <1>3, <1>4 DEF HTypeOK

LEMMA HarnessTypeMain ==
  ASSUME HTypeOK, InventedInv', MainStep
  PROVE  HTypeOK'
<1>0. TypeOK'
  <2>1. [Next]_vars
    BY MainLeavesEmulator
  <2> QED
    BY <2>1, TypeStep DEF HTypeOK
<1>1. DOMAIN snap' = DOMAIN Unread'
  BY DEF InventedInv
<1> USE <1>0, <1>1 DEF HTypeOK, Goto, world
<1>2. CASE Listen \/ ListenExtraction
  BY <1>2 DEF Listen, ListenExtraction, judgement
<1>3. CASE StartWorker
  <2>1. exitCode' = exitCode \/ exitCode' = -1
    BY <1>3 DEF StartWorker
  <2>2. exitCode' \in Int
    BY <2>1
  <2> QED
    BY <1>3, <2>2 DEF StartWorker, judgement
<1>4. CASE SelectDone \/ SelectSignal
  BY <1>4 DEF SelectDone, SelectSignal, judgement
<1>5. CASE CliReaped
  BY <1>5 DEF CliReaped, judgement
<1>6. CASE GiveUp
  BY <1>6 DEF GiveUp, judgement
<1>7. CASE Reap
  BY <1>7 DEF Reap, judgement
<1>8. CASE CloseListener \/ ShutdownReturns
  BY <1>8 DEF CloseListener, ShutdownReturns, judgement
<1>9. CASE ReadStatus \/ ReadFindings
  BY <1>9 DEF ReadStatus, ReadFindings
<1>10. CASE Judge
  BY <1>10 DEF Judge
<1> QED
  BY <1>2, <1>3, <1>4, <1>5, <1>6, <1>7, <1>8, <1>9, <1>10 DEF MainStep

LEMMA HarnessTypeStep == HTypeOK /\ InventedInv' /\ [HNext]_allvars => HTypeOK'
<1> SUFFICES ASSUME HTypeOK, InventedInv', [HNext]_allvars PROVE HTypeOK'
  OBVIOUS
<1>0. TypeOK'
  BY EmulatorStep, TypeStep DEF HTypeOK
<1>1. DOMAIN snap' = DOMAIN Unread'
  BY DEF InventedInv
<1> USE <1>0, <1>1 DEF HTypeOK
<1>2. CASE MainStep
  BY <1>2, HarnessTypeMain
<1>3. CASE ContainerStarts \/ CliFails \/ CliExits \/ Interrupt
  <2>1. cliCode' = cliCode \/ cliCode' = 125
    BY <1>3 DEF ContainerStarts, CliFails, CliExits, Interrupt
  <2>2. cliCode' \in Int
    BY <2>1
  <2>3. /\ UNCHANGED <<main, listener, gaveUp, exitCode, failed, verdict>>
        /\ cli' \in {"absent", "running", "exited"}
        /\ container' \in {"absent", "running", "gone"}
        /\ sig' \in BOOLEAN
    BY <1>3 DEF ContainerStarts, CliFails, CliExits, Interrupt, judgement
  <2> QED
    BY <2>2, <2>3
<1>4. CASE WorkerExits
  <2>1. cliCode' \in ExitCodes \cup {cliCode}
    BY <1>4, Zenon DEF WorkerExits
  <2>2. cliCode' \in Int
    <3>1. ASSUME NEW c \in Int, NEW d \in ExitCodes \cup {c} PROVE d \in Int
      <4> HIDE DEF HTypeOK
      <4> QED
        BY ExitCodesAssumption
    <3>2. cliCode \in Int
      OBVIOUS
    <3> HIDE DEF HTypeOK
    <3> QED
      BY <2>1, <3>1, <3>2
  <2> QED
    BY <1>4, <2>2 DEF WorkerExits, judgement
<1>5. CASE UNCHANGED hvars
  BY <1>5 DEF hvars, world, judgement
<1> QED
  BY <1>2, <1>3, <1>4, <1>5
  DEF HNext, Environment, WorkerCalls, WorkerAbandons, EmulatorServes, allvars

\* Every variable of the composition keeps its type.
THEOREM HarnessTypeCorrect == HSpec => []HTypeOK
<1>1. HSafety => []InventedInv
  BY EmulatorInHarness, InventedInit, InventedStep, PTL DEF HSafety
<1> QED
  BY <1>1, HarnessTypeInit, HarnessTypeStep, PTL DEF HSpec, HSafety

-----------------------------------------------------------------------------
(* The verdict is on the whole run *)

Reads == {"readStatus", "readFindings", "readCalls", "judged"}

SnapIsResult ==
  snap = [Status |-> snap.Status, ExitCode |-> snap.ExitCode, Findings |-> snap.Findings,
          LogEvents |-> snap.LogEvents, EndpointCalls |-> snap.EndpointCalls]

\* Only a live worker waits for an answer; without one, and with no handler left, what is
\* read of the result stays as it was read.
WholeInv ==
  /\ container # "running" => \A r \in Req : client[r] # "waiting"
  /\ main \in Reads /\ ~gaveUp => Active = {}
  /\ SnapIsResult
  /\ main \in Reads \ {"readStatus"} /\ ~gaveUp => snap.Status = status /\ snap.ExitCode = exitCode
  /\ main \in {"readCalls", "judged"} /\ ~gaveUp =>
       snap.Findings = findings /\ snap.LogEvents = logEvents
  /\ main = "judged" /\ ~gaveUp => snap.EndpointCalls = endpointCalls

LEMMA WholeInit == HInit => WholeInv
<1> SUFFICES ASSUME HInit PROVE WholeInv
  OBVIOUS
<1>1. SnapIsResult
  BY DEF HInit, Unread, SnapIsResult
<1> QED
  BY <1>1 DEF HInit, Init, WholeInv, Reads

\* A goroutine takes no step before its request or after its end, and makes no client wait.
LEMMA ServeIsActive ==
  ASSUME TypeOK, NEW r \in Req, Serve(r)
  PROVE  /\ r \in Active
         /\ \A s \in Req : client'[s] = "waiting" => client[s] = "waiting"
<1> USE DEF TypeOK, Active, Step, Routed
<1>1. CASE ApplyOverride(r) \/ PreemptStatus(r) \/ HandleInvocation(r) \/ HandleProgress(r)
  BY <1>1 DEF ApplyOverride, PreemptStatus, HandleInvocation, HandleProgress
<1>2. CASE HandleLog(r) \/ HandleStatic(r) \/ ControlTimeout(r) \/ ControlCancelled(r)
  BY <1>2 DEF HandleLog, HandleStatic, ControlTimeout, ControlCancelled
<1>3. CASE RejectFindings(r) \/ StartScan(r) \/ ScanLine(r) \/ EndScan(r) \/ CutScan(r)
  BY <1>3 DEF RejectFindings, StartScan, ScanLine, EndScan, CutScan
<1>4. CASE HandleComplete(r) \/ SignalCheck(r) \/ SignalClose(r)
  BY <1>4 DEF HandleComplete, SignalCheck, SignalClose
<1>5. CASE RecordCall(r)
  BY <1>5 DEF RecordCall
<1> QED
  BY <1>1, <1>2, <1>3, <1>4, <1>5 DEF Serve

\* While the result is read, nothing happens in the emulator.
LEMMA QuietWhileRead ==
  ASSUME TypeOK, CliInv, WholeInv, [HNext]_allvars, main \in Reads, ~gaveUp
  PROVE  UNCHANGED vars
<1>1. container # "running" /\ Active = {}
  BY DEF CliInv, WholeInv, Reads
<1>2. CASE MainStep
  BY <1>2, MainLeavesEmulator
<1>3. CASE ContainerStarts \/ CliFails \/ CliExits \/ Interrupt
  BY <1>3 DEF ContainerStarts, CliFails, CliExits, Interrupt
<1>4. ASSUME NEW r \in Req, EmulatorServes(r) PROVE FALSE
  BY <1>1, <1>4, ServeIsActive DEF EmulatorServes
<1> QED
  BY <1>1, <1>2, <1>3, <1>4
  DEF HNext, Environment, WorkerExits, WorkerCalls, WorkerAbandons, allvars

LEMMA WholeMain ==
  ASSUME TypeOK, CliInv, WholeInv, MainStep
  PROVE  WholeInv'
<1>0. UNCHANGED <<status, findings, logEvents, endpointCalls, client, pc>>
  BY MainLeavesEmulator DEF vars, resultVars, callVars
<1>1. Active' = Active
  BY <1>0 DEF Active
<1>2. CASE Listen \/ ListenExtraction
  BY <1>0, <1>1, <1>2 DEF Listen, ListenExtraction, WholeInv, SnapIsResult, Goto, Reads, world,
                          judgement
<1>3. CASE StartWorker
  BY <1>0, <1>1, <1>3 DEF StartWorker, WholeInv, SnapIsResult, Goto, Reads, judgement
<1>4. CASE SelectDone \/ SelectSignal \/ CliReaped
  BY <1>0, <1>1, <1>4 DEF SelectDone, SelectSignal, CliReaped, WholeInv, SnapIsResult, Goto,
                          Reads, world, judgement
<1>5. CASE GiveUp \/ Reap
  BY <1>0, <1>1, <1>5 DEF GiveUp, Reap, WholeInv, SnapIsResult, Goto, Reads, world, judgement
<1>6. CASE CloseListener
  BY <1>0, <1>1, <1>6 DEF CloseListener, WholeInv, SnapIsResult, Goto, Reads, world, judgement
<1>7. CASE ShutdownReturns
  <2>1. ~gaveUp => Active = {}
    BY <1>7 DEF ShutdownReturns, Goto, CliInv, WholeInv, Active, Reading
  <2> QED
    BY <1>0, <1>1, <1>7, <2>1 DEF ShutdownReturns, WholeInv, SnapIsResult, Goto, Reads, world,
                                  judgement
<1>8. CASE ReadStatus
  BY <1>0, <1>1, <1>8 DEF ReadStatus, WholeInv, SnapIsResult, Goto, Reads, world
<1>9. CASE ReadFindings
  BY <1>0, <1>1, <1>9 DEF ReadFindings, WholeInv, SnapIsResult, Goto, Reads, world
<1>10. CASE Judge
  BY <1>0, <1>1, <1>10 DEF Judge, WholeInv, SnapIsResult, Goto, Reads, world
<1> QED
  BY <1>2, <1>3, <1>4, <1>5, <1>6, <1>7, <1>8, <1>9, <1>10 DEF MainStep

\* A worker that is not there waits for nothing, whatever else happens.
LEMMA WaitingStep ==
  ASSUME TypeOK, WholeInv, HNext, ~MainStep, container' # "running"
  PROVE  \A r \in Req : client'[r] # "waiting"
<1> USE DEF WholeInv, TypeOK
<1>1. CASE ContainerStarts \/ CliFails \/ CliExits \/ Interrupt
  BY <1>1 DEF ContainerStarts, CliFails, CliExits, Interrupt, vars, callVars
<1>2. CASE WorkerExits
  <2> DEFINE waiting == {r \in Req : client[r] = "waiting"}
  <2>1. CASE waiting = {}
    BY <1>2, <2>1 DEF WorkerExits, vars, callVars
  <2>2. CASE waiting # {}
    BY <1>2, <2>2 DEF WorkerExits, ClientsGone
  <2> QED
    BY <2>1, <2>2
<1>3. CASE WorkerCalls \/ WorkerAbandons
  BY <1>3 DEF WorkerCalls, WorkerAbandons, hvars, world
<1>4. ASSUME NEW r \in Req, EmulatorServes(r) PROVE \A s \in Req : client'[s] # "waiting"
  BY <1>4, ServeIsActive DEF EmulatorServes, hvars, world
<1> QED
  BY <1>1, <1>2, <1>3, <1>4 DEF HNext, Environment

LEMMA WholeStep ==
  TypeOK /\ CliInv /\ WholeInv /\ [HNext]_allvars => WholeInv'
<1> SUFFICES ASSUME TypeOK, CliInv, WholeInv, [HNext]_allvars PROVE WholeInv'
  OBVIOUS
<1>1. CASE MainStep
  BY <1>1, WholeMain
<1>2. CASE HNext /\ ~MainStep
  <2>1. UNCHANGED <<main, snap, gaveUp, exitCode>>
    BY <1>2 DEF HNext, Environment, ContainerStarts, CliFails, WorkerExits, CliExits, Interrupt,
                WorkerCalls, WorkerAbandons, EmulatorServes, hvars, judgement
  <2>2. container' # "running" => \A r \in Req : client'[r] # "waiting"
    BY <1>2, WaitingStep
  <2>3. CASE main \in Reads /\ ~gaveUp
    <3>1. UNCHANGED <<status, findings, logEvents, endpointCalls, pc>>
      BY <2>3, QuietWhileRead DEF vars, resultVars, callVars
    <3>2. Active' = Active
      BY <3>1 DEF Active
    <3> QED
      BY <2>1, <2>2, <3>1, <3>2 DEF WholeInv, SnapIsResult, Reads
  <2>4. CASE ~(main \in Reads /\ ~gaveUp)
    BY <2>1, <2>2, <2>4 DEF WholeInv, SnapIsResult, Reads
  <2> QED
    BY <2>3, <2>4
<1>3. CASE UNCHANGED allvars
  <2>1. Active' = Active
    BY <1>3 DEF Active, allvars, vars, callVars
  <2> QED
    BY <1>3, <2>1 DEF WholeInv, SnapIsResult, Reads, allvars, vars, hvars, world, judgement,
                      resultVars, callVars
<1> QED
  BY <1>1, <1>2, <1>3

\* Evaluate reads without a lock, field after field, and yet sees one state of the result, the
\* last one, unless the harness gave up on a worker that may go on calling.
THEOREM VerdictOnWholeRun == HSpec => []VerdictSeesWholeRun
<1>1. WholeInv => VerdictSeesWholeRun
  BY DEF WholeInv, SnapIsResult, VerdictSeesWholeRun, Reads, Judged, Result
<1>2. HSafety => [](TypeOK /\ CliInv /\ WholeInv)
  BY EmulatorInHarness, CliInit, CliStep, WholeInit, WholeStep, PTL DEF HSafety
<1> QED
  BY <1>1, <1>2, PTL DEF HSpec

-----------------------------------------------------------------------------
(* Every rejected finding counts *)

Upload(r) == Key(r) = <<"POST", "/v1/findings">> /\ ~Overridden(r)

Kept(line) == \E k \in DOMAIN findings : findings[k] = Validated(line)

\* A line of an upload is in the result once it is scanned; and all of them are scanned unless
\* the worker is gone.
ScanInv(r) ==
  /\ pc[r] \in {"unsent", "serve"} => scanned[r] = 0
  /\ \A i \in 1..scanned[r] : req[r].lines[i].kind # "blank" => Kept(req[r].lines[i])
  /\ Upload(r) => pc[r] \notin {"preempt", "signal", "close"}
  /\ Upload(r) /\ pc[r] \in {"record", "done"} /\ client[r] # "gone"
       => scanned[r] = Len(req[r].lines)
  /\ client[r] = "answered" => pc[r] = "done"

UploadInv == \A r \in Req : ScanInv(r)

LEMMA UploadInit == Init => UploadInv
BY DEF Init, UploadInv, ScanInv

LEMMA AppendKeeps ==
  ASSUME NEW seq \in Seq(Finding), NEW x \in Finding
  PROVE  \A k \in DOMAIN seq : k \in DOMAIN Append(seq, x) /\ Append(seq, x)[k] = seq[k]
OBVIOUS

\* The result's findings are only added to.
LEMMA FindingsStay ==
  ASSUME TypeOK, NEW r \in Req, Serve(r)
  PROVE  \A k \in DOMAIN findings : k \in DOMAIN findings' /\ findings'[k] = findings[k]
<1> USE DEF TypeOK, resultVars
<1>1. CASE ScanLine(r)
  <2>1. req[r].lines[scanned[r] + 1] \in Line
    BY <1>1 DEF ScanLine, Request
  <2>2. PICK f \in Finding : findings' \in {findings, Append(findings, f)}
    BY <1>1, <2>1, ValidatedType, Zenon DEF ScanLine
  <2>3. CASE findings' = Append(findings, f)
    BY <2>3, AppendKeeps
  <2> QED
    BY <2>2, <2>3
<1>2. CASE CutScan(r)
  <2>1. [ok |-> FALSE, type |-> "untyped"] \in Finding
    BY DEF Finding
  <2>2. PICK f \in Finding : findings' \in {findings, Append(findings, f)}
    BY <1>2, <2>1, Zenon DEF CutScan
  <2>3. CASE findings' = Append(findings, f)
    BY <2>3, AppendKeeps
  <2> QED
    BY <2>2, <2>3
<1>3. CASE ApplyOverride(r) \/ PreemptStatus(r) \/ HandleInvocation(r) \/ HandleProgress(r)
  BY <1>3 DEF ApplyOverride, PreemptStatus, HandleInvocation, HandleProgress
<1>4. CASE HandleLog(r) \/ HandleStatic(r) \/ ControlTimeout(r) \/ ControlCancelled(r)
  BY <1>4 DEF HandleLog, HandleStatic, ControlTimeout, ControlCancelled
<1>5. CASE RejectFindings(r) \/ StartScan(r) \/ EndScan(r)
  BY <1>5 DEF RejectFindings, StartScan, EndScan
<1>6. CASE HandleComplete(r) \/ SignalCheck(r) \/ SignalClose(r) \/ RecordCall(r)
  BY <1>6 DEF HandleComplete, SignalCheck, SignalClose, RecordCall
<1> QED
  BY <1>1, <1>2, <1>3, <1>4, <1>5, <1>6 DEF Serve

LEMMA ServeKeeps ==
  ASSUME TypeOK, NEW r \in Req, Serve(r)
  PROVE  UNCHANGED <<req, overrides>>
<1> USE DEF resultVars
<1>1. CASE ApplyOverride(r) \/ PreemptStatus(r) \/ HandleInvocation(r) \/ HandleProgress(r)
  BY <1>1 DEF ApplyOverride, PreemptStatus, HandleInvocation, HandleProgress
<1>2. CASE HandleLog(r) \/ HandleStatic(r) \/ ControlTimeout(r) \/ ControlCancelled(r)
  BY <1>2 DEF HandleLog, HandleStatic, ControlTimeout, ControlCancelled
<1>3. CASE RejectFindings(r) \/ StartScan(r) \/ ScanLine(r) \/ EndScan(r) \/ CutScan(r)
  BY <1>3 DEF RejectFindings, StartScan, ScanLine, EndScan, CutScan
<1>4. CASE HandleComplete(r) \/ SignalCheck(r) \/ SignalClose(r) \/ RecordCall(r)
  BY <1>4 DEF HandleComplete, SignalCheck, SignalClose, RecordCall
<1> QED
  BY <1>1, <1>2, <1>3, <1>4 DEF Serve

\* A goroutine touches no other's locals.
LEMMA ServeLocals ==
  ASSUME TypeOK, NEW r \in Req, Serve(r)
  PROVE  /\ ScanLine(r) \/ scanned' = scanned
         /\ \A s \in Req \ {r} : /\ pc'[s] = pc[s] /\ client'[s] = client[s]
                                 /\ scanned'[s] = scanned[s]
         /\ pc'[r] \notin {"unsent", "serve"}
         /\ RecordCall(r) \/ (client' = client /\ pc'[r] # "done")
<1> USE DEF TypeOK, Step
<1>1. CASE ApplyOverride(r) \/ PreemptStatus(r)
  BY <1>1 DEF ApplyOverride, PreemptStatus
<1>2. CASE HandleInvocation(r) \/ HandleProgress(r) \/ HandleLog(r)
  BY <1>2 DEF HandleInvocation, HandleProgress, HandleLog
<1>3. CASE HandleStatic(r) \/ ControlTimeout(r) \/ ControlCancelled(r)
  BY <1>3 DEF HandleStatic, ControlTimeout, ControlCancelled
<1>4. CASE RejectFindings(r) \/ StartScan(r) \/ EndScan(r) \/ CutScan(r)
  BY <1>4 DEF RejectFindings, StartScan, EndScan, CutScan
<1>5. CASE ScanLine(r)
  BY <1>5 DEF ScanLine
<1>6. CASE HandleComplete(r) \/ SignalCheck(r) \/ SignalClose(r)
  BY <1>6 DEF HandleComplete, SignalCheck, SignalClose
<1>7. CASE RecordCall(r)
  BY <1>7 DEF RecordCall
<1> QED
  BY <1>1, <1>2, <1>3, <1>4, <1>5, <1>6, <1>7 DEF Serve

\* An upload is scanned to its end, or its worker is gone.
LEMMA UploadScans ==
  ASSUME TypeOK, NEW r \in Req, Serve(r), Upload(r), pc[r] \notin {"preempt", "signal", "close"}
  PROVE  \/ EndScan(r) \/ RecordCall(r)
         \/ pc'[r] = "scan"
         \/ pc'[r] = "record" /\ client[r] = "gone"
<1> USE DEF TypeOK, Step, Routed, Upload, Key
<1>1. CASE ApplyOverride(r) \/ PreemptStatus(r) \/ SignalCheck(r) \/ SignalClose(r)
  BY <1>1 DEF ApplyOverride, PreemptStatus, SignalCheck, SignalClose
<1>2. CASE HandleInvocation(r) \/ HandleProgress(r) \/ HandleLog(r) \/ HandleComplete(r)
  BY <1>2 DEF HandleInvocation, HandleProgress, HandleLog, HandleComplete
<1>3. CASE HandleStatic(r) \/ ControlTimeout(r) \/ ControlCancelled(r)
  BY <1>3 DEF HandleStatic, ControlTimeout, ControlCancelled
<1>4. CASE RejectFindings(r) \/ StartScan(r) \/ CutScan(r)
  BY <1>4 DEF RejectFindings, StartScan, CutScan
<1>5. CASE ScanLine(r)
  BY <1>5 DEF ScanLine
<1> QED
  BY <1>1, <1>2, <1>3, <1>4, <1>5 DEF Serve

LEMMA UploadServe ==
  ASSUME TypeOK, UploadInv, NEW r \in Req, Serve(r), NEW s \in Req
  PROVE  ScanInv(s)'
<1>0. ScanInv(r) /\ ScanInv(s)
  BY DEF UploadInv
<1>1. /\ UNCHANGED <<req, overrides>>
      /\ \A line : Kept(line) => Kept(line)'
      /\ \A x \in Req : Upload(x)' = Upload(x)
  BY ServeKeeps, FindingsStay DEF Kept, Upload, Key, Overridden, Validated
<1>2. CASE s # r
  BY <1>0, <1>1, <1>2, ServeLocals DEF ScanInv
<1>3. CASE ScanLine(r)
  <2>1. /\ pc[r] = "scan" /\ UNCHANGED <<pc, client>>
        /\ scanned[r] \in Nat /\ scanned'[r] = scanned[r] + 1
    BY <1>3 DEF ScanLine, TypeOK
  <2>2. (req[r].lines[scanned[r]].kind # "blank" => Kept(req[r].lines[scanned[r]]))'
    <3> DEFINE line == req[r].lines[scanned[r] + 1]
    <3>1. line \in Line
      BY <1>3 DEF ScanLine, TypeOK, Request
    <3>2. SUFFICES ASSUME line.kind # "blank"
                   PROVE  \E k \in DOMAIN findings' : findings'[k] = Validated(line)
      BY <1>1, <2>1 DEF Kept, Validated
    <3>3. findings' = Append(findings, Validated(line))
      BY <1>3, <3>2 DEF ScanLine
    <3>4. Validated(line) \in Finding
      BY <3>1, ValidatedType
    <3> HIDE DEF line
    <3>5. Len(findings) + 1 \in DOMAIN findings' /\ findings'[Len(findings) + 1] = Validated(line)
      BY <3>3, <3>4 DEF TypeOK
    <3> QED
      BY <3>5
  <2>3. \A i \in 1..scanned'[r] : i \in 1..scanned[r] \/ i = scanned'[r]
    BY <2>1
  <2>4. \A i \in 1..scanned[r] : (req[r].lines[i].kind # "blank" => Kept(req[r].lines[i]))'
    BY <1>0, <1>1 DEF ScanInv
  <2>5. \A i \in 1..scanned'[r] : (req[r].lines[i].kind # "blank" => Kept(req[r].lines[i]))'
    BY <2>2, <2>3, <2>4
  <2>6. CASE s = r
    BY <1>0, <1>1, <2>1, <2>5, <2>6 DEF ScanInv
  <2> QED
    BY <1>2, <2>6
<1>4. CASE s = r /\ ~ScanLine(r)
  <2>1. scanned' = scanned /\ pc'[r] \notin {"unsent", "serve"}
    BY <1>4, ServeLocals
  <2>2. CASE RecordCall(r)
    <3>1. /\ pc[r] = "record" /\ pc'[r] = "done"
          /\ client'[r] # "gone" => client[r] # "gone"
      BY <2>2 DEF RecordCall, Step, TypeOK
    <3> QED
      BY <1>0, <1>1, <1>4, <2>1, <3>1 DEF ScanInv
  <2>3. CASE ~RecordCall(r)
    <3>1. /\ client' = client /\ pc'[r] # "done" /\ client[r] # "answered"
      BY <1>0, <2>3, ServeLocals, ServeIsActive DEF ScanInv, Active
    <3>2. ASSUME Upload(r)
          PROVE  EndScan(r) \/ pc'[r] = "scan" \/ (pc'[r] = "record" /\ client[r] = "gone")
      <4>1. pc[r] \notin {"preempt", "signal", "close"}
        BY <1>0, <3>2 DEF ScanInv
      <4> QED
        BY <2>3, <3>2, <4>1, UploadScans
    <3>3. EndScan(r) => scanned[r] = Len(req[r].lines) /\ pc'[r] = "record"
      BY DEF EndScan, Step, TypeOK
    <3> QED
      BY <1>0, <1>1, <1>4, <2>1, <3>1, <3>2, <3>3 DEF ScanInv
  <2> QED
    BY <2>2, <2>3
<1> QED
  BY <1>2, <1>3, <1>4

LEMMA UploadStep == TypeOK /\ UploadInv /\ [Next]_vars => UploadInv'
<1> SUFFICES ASSUME TypeOK, UploadInv, [Next]_vars, NEW s \in Req PROVE ScanInv(s)'
  BY DEF UploadInv
<1>0. ScanInv(s)
  BY DEF UploadInv
<1>1. ASSUME NEW r \in Req, NEW q \in Inputs, Arrive(r, q) PROVE ScanInv(s)'
  <2>1. UNCHANGED <<overrides, findings, scanned>>
    BY <1>1 DEF Arrive, resultVars
  <2>2. CASE s = r
    BY <1>0, <1>1, <2>1, <2>2 DEF Arrive, Step, ScanInv, TypeOK
  <2>3. CASE s # r
    <3>1. req'[s] = req[s] /\ pc'[s] = pc[s] /\ client'[s] = client[s]
      BY <1>1, <2>3 DEF Arrive, Step, TypeOK
    <3> QED
      BY <1>0, <2>1, <3>1 DEF ScanInv, Upload, Key, Overridden, Kept, Validated
  <2> QED
    BY <2>2, <2>3
<1>2. ASSUME NEW S \in SUBSET Req, ClientsGone(S) PROVE ScanInv(s)'
  <2>1. /\ UNCHANGED <<overrides, findings, scanned, pc, req>>
        /\ client'[s] \in {"gone", client[s]}
    BY <1>2 DEF ClientsGone, resultVars
  <2> QED
    BY <1>0, <2>1 DEF ScanInv, Upload, Key, Overridden, Kept, Validated
<1>3. ASSUME NEW r \in Req, Serve(r) PROVE ScanInv(s)'
  BY <1>3, UploadServe
<1>4. CASE UNCHANGED vars
  BY <1>0, <1>4 DEF vars, resultVars, callVars, ScanInv, Upload, Key, Overridden, Kept, Validated
<1> QED
  BY <1>1, <1>2, <1>3, <1>4 DEF Next

\* A pass was judged on findings without a fault.
VerdictInv ==
  verdict # "none" =>
    main = "judged" /\ (verdict = "pass" => SchemaFailures(snap.Findings) = {})

LEMMA VerdictInit == HInit => VerdictInv
BY DEF HInit, VerdictInv

LEMMA VerdictStep == WholeInv /\ VerdictInv /\ [HNext]_allvars => VerdictInv'
<1> SUFFICES ASSUME WholeInv, VerdictInv, [HNext]_allvars PROVE VerdictInv'
  OBVIOUS
<1>1. CASE Judge
  <2>1. main' = "judged" /\ snap'.Findings = snap.Findings
    BY <1>1 DEF Judge, Goto, WholeInv, SnapIsResult
  <2>2. PICK expect \in Expectations :
          verdict' = IF Evaluate(expect, snap') = {} THEN "pass" ELSE "fail"
    BY <1>1 DEF Judge
  <2>3. Evaluate(expect, snap') = {} => SchemaFailures(snap'.Findings) = {}
    BY DEF Evaluate
  <2> QED
    BY <2>1, <2>2, <2>3 DEF VerdictInv
<1>2. CASE ~Judge
  <2>1. verdict' = verdict
    BY <1>2 DEF HNext, MainStep, Listen, ListenExtraction, StartWorker, SelectDone, SelectSignal,
                CliReaped, GiveUp, Reap, CloseListener, ShutdownReturns, ReadStatus, ReadFindings,
                Environment, ContainerStarts, CliFails, WorkerExits, CliExits, Interrupt,
                WorkerCalls, WorkerAbandons, EmulatorServes, hvars, judgement, allvars
  <2>2. main = "judged" => UNCHANGED <<main, snap>>
    BY <1>2 DEF HNext, MainStep, Goto, Listen, ListenExtraction, StartWorker, SelectDone,
                SelectSignal, CliReaped, GiveUp, Reap, CloseListener, ShutdownReturns, ReadStatus,
                ReadFindings, Ended, EmulatorServes, hvars, judgement, allvars
  <2> QED
    BY <2>1, <2>2 DEF VerdictInv
<1> QED
  BY <1>1, <1>2

\* No run whose worker the harness waited for passes with a line that the schema rejects in an
\* upload that was answered: it has been scanned by then, and is still in the result that the
\* verdict is on.  In the runs that are left out, those it gave up on, Evaluate may race a handler.
THEOREM RejectedFindingsFail == HSpec => []NoRejectedFindingPasses
<1>1. ASSUME TypeOK, WholeInv, UploadInv, VerdictInv PROVE NoRejectedFindingPasses
  <2>1. SUFFICES ASSUME verdict = "pass", ~gaveUp, NEW r \in Req, client[r] = "answered",
                        Key(r) = <<"POST", "/v1/findings">>, ~Overridden(r),
                        NEW i \in DOMAIN req[r].lines, req[r].lines[i].kind # "blank"
                 PROVE  Validated(req[r].lines[i]).ok
    BY DEF NoRejectedFindingPasses
  <2>2. /\ main = "judged" /\ SchemaFailures(snap.Findings) = {}
        /\ snap.Findings = findings
    BY <1>1, <2>1 DEF VerdictInv, WholeInv
  <2>3. ScanInv(r)
    BY <1>1 DEF UploadInv
  <2>4. scanned[r] = Len(req[r].lines) /\ req[r].lines \in Seq(Line)
    BY <1>1, <2>1, <2>3 DEF ScanInv, Upload, TypeOK, Request
  <2>5. PICK k \in DOMAIN findings : findings[k] = Validated(req[r].lines[i])
    BY <2>1, <2>3, <2>4 DEF ScanInv, Kept
  <2>6. Failure("schema", k) \notin SchemaFailures(findings)
    BY <2>2
  <2>7. findings[k].ok \in BOOLEAN
    <3>1. findings[k] \in Finding
      BY <1>1 DEF TypeOK
    <3> QED
      BY <3>1 DEF Finding
  <2>8. findings[k].ok
    BY <2>6, <2>7 DEF SchemaFailures
  <2> QED
    BY <2>5, <2>8
<1>2. HSafety => [](TypeOK /\ CliInv /\ WholeInv)
  BY EmulatorInHarness, CliInit, CliStep, WholeInit, WholeStep, PTL DEF HSafety
<1>3. HSafety => []UploadInv
  <2>1. HInit => UploadInv
    BY UploadInit DEF HInit
  <2>2. TypeOK /\ UploadInv /\ [HNext]_allvars => UploadInv'
    BY EmulatorStep, UploadStep
  <2> QED
    BY <2>1, <2>2, EmulatorInHarness, PTL DEF HSafety
<1>4. HSafety => []VerdictInv
  BY <1>2, VerdictInit, VerdictStep, PTL DEF HSafety
<1> QED
  BY <1>1, <1>2, <1>3, <1>4, PTL DEF HSpec
=============================================================================
