------------------------------ MODULE Emulator ------------------------------
(***************************************************************************)
(* The in-process sidecar emulator of `aa26-connector test` (emulator.go). *)
(*                                                                         *)
(* net/http runs ServeHTTP in one goroutine per request, so the handlers   *)
(* interleave; Emulator.mu makes single updates of the RunResult atomic,   *)
(* and nothing else.  An action of this module is one such critical        *)
(* section (with the goroutine-local work around it), or one half of the   *)
(* unlocked test-and-close in signalDone.  A response is complete when     *)
(* net/http flushes its end, after ServeHTTP, and with it the deferred     *)
(* recordCall, has returned; a panic of a handler is recovered by net/http *)
(* (the deferred recordCall still runs) and the connection is closed.      *)
(*                                                                         *)
(* Where the code has the empty string, the model has a name for what it   *)
(* means: a status "unset", a finding "untyped", an override for "any"     *)
(* method.  The markers "(overridden)" and "(unparseable)" lose their      *)
(* parentheses.                                                            *)
(***************************************************************************)
EXTENDS Integers, Sequences, FiniteSets

CONSTANTS
  Req,           \* identities of the requests the worker may send, each used once
  Inputs,        \* the requests (elements of Request) it may send
  OverrideSets,  \* the candidate emulator.responses blocks of the fixture
  Types,         \* the finding types it may send
  Levels,        \* the log levels it may send
  Statuses,      \* the statuses it may send
  None           \* the nil *EndpointCall

Methods == {"GET", "POST"}

Paths == {"/healthz", "/v1/invocation", "/v1/findings", "/v1/progress",
          "/v1/log", "/v1/control", "/v1/checkpoint", "/v1/process",
          "/v1/complete", "/other"}

(***************************************************************************)
(* One NDJSON line: blank, not a JSON object, or an object with its "type" *)
(* member and the verdict of the finding schema on it.                     *)
(***************************************************************************)
Line == [kind : {"blank", "notjson", "object"}, type : Types \cup {"untyped"}, ok : BOOLEAN]

(***************************************************************************)
(* A request with the parts of its body a handler looks at: the lines of   *)
(* a /v1/findings body and whether they are followed by one longer than    *)
(* the scanner's 8 MiB buffer, the level of a /v1/log body                 *)
(* ("unparseable" when it has none or is not JSON) and the status of a     *)
(* /v1/complete body ("unset" when it has none or is not JSON).            *)
(***************************************************************************)
Request == [method : Methods, path : Paths, lines : Seq(Line),
            tooLong : BOOLEAN, level : Levels \cup {"unparseable"},
            status : Statuses \cup {"unset"}]

\* An override's method, compared without regard to case, is given in upper case.
ResponseOverride == [method : Methods \cup {"any"}, status : Int]

Finding == [ok : BOOLEAN, type : Types \cup {"untyped"}]

ASSUME InputsAssumption == \A q \in Inputs : q \in Request

ASSUME OverridesAssumption ==
  \A o \in OverrideSets : /\ DOMAIN o \subseteq Paths
                          /\ \A p \in DOMAIN o : o[p] \in ResponseOverride

\* The harness's own marker is not a status that a worker sends.
ASSUME StatusesAssumption == {"unset", "overridden"} \cap Statuses = {}

ASSUME NoneAssumption == None \notin [req : Req, status : Int]

VARIABLES
  overrides,        \* Emulator.overrides, installed before the server starts
  status,           \* RunResult.Status
  findings,         \* RunResult.Findings
  logEvents,        \* RunResult.LogEvents (their levels)
  progressCount,    \* RunResult.ProgressCount
  invocationCount,  \* RunResult.InvocationCount
  endpointCalls,    \* RunResult.EndpointCalls
  lastCall,         \* RunResult.LastCall: the request stands for method, path and time
  finished,         \* is the channel Emulator.finished closed?
  pc,               \* where the goroutine of a request is
  req,              \* the request it serves
  wr,               \* its recordingWriter
  scanned,          \* lines its scanner has returned
  accepted,         \* handleFindings' local counter
  panicked,         \* requests whose handler panicked
  client,           \* what the worker knows of its request
  before            \* history: requests already recorded when this one arrived

resultVars == <<status, findings, logEvents, progressCount, invocationCount,
                endpointCalls, lastCall>>
callVars   == <<pc, req, wr, scanned, accepted, panicked, client, before>>
vars       == <<overrides, finished, resultVars, callVars>>

\* What RunResult.Status may hold.
TerminalStatuses == Statuses \cup {"completed", "overridden"}

TypeOK ==
  /\ overrides \in OverrideSets
  /\ status \in TerminalStatuses \cup {"unset"}
  /\ findings \in Seq(Finding)
  /\ logEvents \in Seq(Levels \cup {"unparseable"})
  /\ progressCount \in Nat
  /\ invocationCount \in Nat
  /\ endpointCalls \in [Methods \X Paths -> Nat]
  /\ lastCall \in [req : Req, status : Int] \cup {None}
  /\ finished \in BOOLEAN
  /\ pc \in [Req -> {"unsent", "serve", "scan", "preempt", "signal", "close",
                     "record", "done"}]
  /\ req \in [Req -> Request]
  /\ wr \in [Req -> [status : Int, wroteHeader : BOOLEAN]]
  /\ scanned \in [Req -> Nat]
  /\ accepted \in [Req -> Nat]
  /\ panicked \in SUBSET Req
  /\ client \in [Req -> {"unsent", "waiting", "answered", "dropped", "gone"}]
  /\ before \in [Req -> SUBSET Req]

-----------------------------------------------------------------------------
NoRequest == [method |-> "GET", path |-> "/other", lines |-> <<>>,
              tooLong |-> FALSE, level |-> "unparseable", status |-> "unset"]

\* NewEmulator and SetOverrides: a fresh RunResult, an open channel.
Init ==
  /\ overrides \in OverrideSets
  /\ status = "unset"
  /\ findings = <<>>
  /\ logEvents = <<>>
  /\ progressCount = 0
  /\ invocationCount = 0
  /\ endpointCalls = [k \in Methods \X Paths |-> 0]
  /\ lastCall = None
  /\ finished = FALSE
  /\ pc = [r \in Req |-> "unsent"]
  /\ req = [r \in Req |-> NoRequest]
  /\ wr = [r \in Req |-> [status |-> 200, wroteHeader |-> FALSE]]
  /\ scanned = [r \in Req |-> 0]
  /\ accepted = [r \in Req |-> 0]
  /\ panicked = {}
  /\ client = [r \in Req |-> "unsent"]
  /\ before = [r \in Req |-> {}]

-----------------------------------------------------------------------------
Step(r, from, to) ==
  /\ pc[r] = from
  /\ pc' = [pc EXCEPT ![r] = to]

\* recordingWriter.WriteHeader: the first status wins.
WriteHeader(r, code) ==
  wr' = [wr EXCEPT ![r] = IF @.wroteHeader THEN @
                          ELSE [status |-> code, wroteHeader |-> TRUE]]

Key(r) == <<req[r].method, req[r].path>>

Overridden(r) ==
  /\ req[r].path \in DOMAIN overrides
  /\ overrides[req[r].path].method \in {"any", req[r].method}

\* The switch of ServeHTTP sends r to the handler of this path.
Routed(r, path) == pc[r] = "serve" /\ req[r].path = path /\ ~Overridden(r)

\* The worker's request reaches the server, which starts a goroutine for it.
Arrive(r, q) ==
  /\ Step(r, "unsent", "serve")
  /\ req' = [req EXCEPT ![r] = q]
  /\ client' = [client EXCEPT ![r] = "waiting"]
  /\ before' = [before EXCEPT ![r] = {s \in Req : pc[s] = "done"}]
  /\ UNCHANGED <<overrides, finished, resultVars, wr, scanned, accepted, panicked>>

\* The worker gives up on calls it is waiting for: one timed out, or it died.
ClientsGone(S) ==
  /\ S # {}
  /\ \A r \in S : client[r] = "waiting"
  /\ client' = [r \in Req |-> IF r \in S THEN "gone" ELSE client[r]]
  /\ UNCHANGED <<overrides, finished, resultVars, pc, req, wr, scanned, accepted,
                 panicked, before>>

-----------------------------------------------------------------------------
\* The status of an override, and whether net/http's WriteHeader takes it or panics.
OverrideStatus(r) ==
  LET code == overrides[req[r].path].status IN IF code = 0 THEN 200 ELSE code

Writable(code) == code \in 100..999

\* Mutant: an overridden /v1/complete signals without marking the status.
ApplyOverrideUnmarked(r) ==
  LET code == OverrideStatus(r)
  IN  /\ Overridden(r)
      /\ Step(r, "serve", IF Writable(code) /\ req[r].path = "/v1/complete" THEN "signal"
                         ELSE "record")
      /\ WriteHeader(r, code)
      /\ panicked' = IF Writable(code) THEN panicked ELSE panicked \cup {r}
      /\ UNCHANGED <<overrides, finished, resultVars, req, scanned, accepted, client,
                     before>>

\* applyOverride: drain the body, answer as the fixture says.
ApplyOverride(r) ==
  LET code == OverrideStatus(r)
  IN  /\ Overridden(r)
      /\ Step(r, "serve", IF Writable(code) /\ req[r].path = "/v1/complete" THEN "preempt"
                         ELSE "record")
      /\ WriteHeader(r, code)
      /\ panicked' = IF Writable(code) THEN panicked ELSE panicked \cup {r}
      /\ UNCHANGED <<overrides, finished, resultVars, req, scanned, accepted, client,
                     before>>

\* Mutant: the marker replaces a status that /v1/complete stored.
PreemptStatusAlways(r) ==
  /\ Step(r, "preempt", "signal")
  /\ status' = "overridden"
  /\ UNCHANGED <<overrides, finished, findings, logEvents, progressCount,
                 invocationCount, endpointCalls, lastCall, req, wr, scanned,
                 accepted, panicked, client, before>>

\* applyOverride on /v1/complete: mark the status as pre-empted, then signalDone.
PreemptStatus(r) ==
  /\ Step(r, "preempt", "signal")
  /\ status' = IF status = "unset" THEN "overridden" ELSE status
  /\ UNCHANGED <<overrides, finished, findings, logEvents, progressCount,
                 invocationCount, endpointCalls, lastCall, req, wr, scanned,
                 accepted, panicked, client, before>>

HandleInvocation(r) ==
  /\ Routed(r, "/v1/invocation")
  /\ Step(r, "serve", "record")
  /\ invocationCount' = invocationCount + 1
  /\ WriteHeader(r, 200)
  /\ UNCHANGED <<overrides, finished, status, findings, logEvents, progressCount,
                 endpointCalls, lastCall, req, scanned, accepted, panicked, client,
                 before>>

HandleProgress(r) ==
  /\ Routed(r, "/v1/progress")
  /\ Step(r, "serve", "record")
  /\ progressCount' = progressCount + 1
  /\ WriteHeader(r, 200)
  /\ UNCHANGED <<overrides, finished, status, findings, logEvents, invocationCount,
                 endpointCalls, lastCall, req, scanned, accepted, panicked, client,
                 before>>

\* handleLog ignores the read error: a body cut short does not parse.
HandleLog(r) ==
  /\ Routed(r, "/v1/log")
  /\ Step(r, "serve", "record")
  /\ \E level \in {req[r].level} \cup (IF client[r] = "gone" THEN {"unparseable"} ELSE {}) :
       logEvents' = Append(logEvents, level)
  /\ WriteHeader(r, 200)
  /\ UNCHANGED <<overrides, finished, status, findings, progressCount,
                 invocationCount, endpointCalls, lastCall, req, scanned, accepted,
                 panicked, client, before>>

\* The cases of ServeHTTP that keep no state, and its default.
StaticStatus(path) ==
  CASE path \in {"/healthz", "/v1/process"} -> 200
    [] path = "/v1/checkpoint" -> 204
    [] path = "/other" -> 404

HandleStatic(r) ==
  \E path \in {"/healthz", "/v1/process", "/v1/checkpoint", "/other"} :
    /\ Routed(r, path)
    /\ Step(r, "serve", "record")
    /\ WriteHeader(r, StaticStatus(path))
    /\ UNCHANGED <<overrides, finished, resultVars, req, scanned, accepted,
                   panicked, client, before>>

\* handleControl's select: the two-second timer ...
ControlTimeout(r) ==
  /\ Routed(r, "/v1/control")
  /\ Step(r, "serve", "record")
  /\ WriteHeader(r, 200)
  /\ UNCHANGED <<overrides, finished, resultVars, req, scanned, accepted, panicked,
                 client, before>>

\* ... or the cancelled request context: return without writing anything.
ControlCancelled(r) ==
  /\ Routed(r, "/v1/control")
  /\ client[r] = "gone"
  /\ Step(r, "serve", "record")
  /\ UNCHANGED <<overrides, finished, resultVars, req, wr, scanned, accepted,
                 panicked, client, before>>

-----------------------------------------------------------------------------
RejectFindings(r) ==
  /\ Routed(r, "/v1/findings")
  /\ req[r].method # "POST"
  /\ Step(r, "serve", "record")
  /\ WriteHeader(r, 405)
  /\ UNCHANGED <<overrides, finished, resultVars, req, scanned, accepted, panicked,
                 client, before>>

StartScan(r) ==
  /\ Routed(r, "/v1/findings")
  /\ req[r].method = "POST"
  /\ Step(r, "serve", "scan")
  /\ UNCHANGED <<overrides, finished, resultVars, req, wr, scanned, accepted,
                 panicked, client, before>>

\* Mutant: the line is appended as it came.
RawLine(line) == line

\* What handleFindings appends for a line, with the schema's verdict on it.
Validated(line) ==
  IF line.kind = "object" THEN [ok |-> line.ok, type |-> line.type]
                          ELSE [ok |-> FALSE, type |-> "untyped"]

\* Mutant: every line that is not blank counts as accepted.
ScanLineCountAll(r) ==
  LET line == req[r].lines[scanned[r] + 1]
  IN  /\ pc[r] = "scan"
      /\ scanned[r] < Len(req[r].lines)
      /\ scanned' = [scanned EXCEPT ![r] = @ + 1]
      /\ findings' = IF line.kind = "blank" THEN findings
                     ELSE Append(findings, Validated(line))
      /\ accepted' = IF line.kind # "blank"
                     THEN [accepted EXCEPT ![r] = @ + 1] ELSE accepted
      /\ UNCHANGED <<overrides, finished, status, logEvents, progressCount,
                     invocationCount, endpointCalls, lastCall, pc, req, wr,
                     panicked, client, before>>

\* One turn of handleFindings' loop: the next line, appended unless blank.
ScanLine(r) ==
  LET line == req[r].lines[scanned[r] + 1]
  IN  /\ pc[r] = "scan"
      /\ scanned[r] < Len(req[r].lines)
      /\ scanned' = [scanned EXCEPT ![r] = @ + 1]
      /\ findings' = IF line.kind = "blank" THEN findings
                     ELSE Append(findings, Validated(line))
      /\ accepted' = IF line.kind # "blank" /\ Validated(line).ok
                     THEN [accepted EXCEPT ![r] = @ + 1] ELSE accepted
      /\ UNCHANGED <<overrides, finished, status, logEvents, progressCount,
                     invocationCount, endpointCalls, lastCall, pc, req, wr,
                     panicked, client, before>>

\* The loop ends: at the end of the body, or at a line too long for the buffer.
EndScan(r) ==
  /\ Step(r, "scan", "record")
  /\ scanned[r] = Len(req[r].lines)
  /\ WriteHeader(r, IF req[r].tooLong THEN 400 ELSE 200)
  /\ UNCHANGED <<overrides, finished, resultVars, req, scanned, accepted, panicked,
                 client, before>>

\* The loop ends on a read error of a connection the worker closed before the end
\* of the body.  bufio.Scanner first returns what it holds of a line that was cut.
CutScan(r) ==
  /\ client[r] = "gone"
  /\ Step(r, "scan", "record")
  /\ \/ UNCHANGED findings
     \/ /\ scanned[r] < Len(req[r].lines)
        /\ findings' = Append(findings, [ok |-> FALSE, type |-> "untyped"])
  /\ WriteHeader(r, 400)
  /\ UNCHANGED <<overrides, finished, status, logEvents, progressCount,
                 invocationCount, endpointCalls, lastCall, req, scanned, accepted,
                 panicked, client, before>>

-----------------------------------------------------------------------------
\* handleComplete: a missing status, and a body cut short, mean "completed".
HandleComplete(r) ==
  /\ Routed(r, "/v1/complete")
  /\ Step(r, "serve", "signal")
  /\ \E s \in {req[r].status} \cup (IF client[r] = "gone" THEN {"unset"} ELSE {}) :
       status' = IF s = "unset" THEN "completed" ELSE s
  /\ WriteHeader(r, 200)
  /\ UNCHANGED <<overrides, finished, findings, logEvents, progressCount,
                 invocationCount, endpointCalls, lastCall, req, scanned, accepted,
                 panicked, client, before>>

\* Mutant: the signal is a send on the channel, which nobody receives twice.
SignalCheckBlocks(r) ==
  /\ ~finished
  /\ Step(r, "signal", "close")
  /\ UNCHANGED <<overrides, finished, resultVars, req, wr, scanned, accepted,
                 panicked, client, before>>

\* signalDone's select: is the channel closed already?
SignalCheck(r) ==
  /\ Step(r, "signal", IF finished THEN "record" ELSE "close")
  /\ UNCHANGED <<overrides, finished, resultVars, req, wr, scanned, accepted,
                 panicked, client, before>>

\* signalDone's default branch: close the channel; closing it again panics.
SignalClose(r) ==
  /\ Step(r, "close", "record")
  /\ finished' = TRUE
  /\ panicked' = IF finished THEN panicked \cup {r} ELSE panicked
  /\ UNCHANGED <<overrides, resultVars, req, wr, scanned, accepted, client, before>>

\* Mutant: recordCall is not deferred, so a handler that panics is not counted.
RecordCallNotDeferred(r) ==
  /\ Step(r, "record", "done")
  /\ endpointCalls' = IF r \in panicked THEN endpointCalls
                      ELSE [endpointCalls EXCEPT ![Key(r)] = @ + 1]
  /\ lastCall' = [req |-> r, status |-> wr[r].status]
  /\ client' = [client EXCEPT ![r] = IF @ = "gone" THEN @
                                     ELSE IF r \in panicked THEN "dropped" ELSE "answered"]
  /\ UNCHANGED <<overrides, finished, status, findings, logEvents, progressCount,
                 invocationCount, req, wr, scanned, accepted, panicked, before>>

\* Mutant: the first call to end stays the last one.
RecordCallFirst(r) ==
  /\ Step(r, "record", "done")
  /\ endpointCalls' = [endpointCalls EXCEPT ![Key(r)] = @ + 1]
  /\ lastCall' = IF lastCall = None THEN [req |-> r, status |-> wr[r].status] ELSE lastCall
  /\ client' = [client EXCEPT ![r] = IF @ = "gone" THEN @
                                     ELSE IF r \in panicked THEN "dropped" ELSE "answered"]
  /\ UNCHANGED <<overrides, finished, status, findings, logEvents, progressCount,
                 invocationCount, req, wr, scanned, accepted, panicked, before>>

\* The deferred recordCall; then net/http flushes the response, or recovers the
\* panic and closes the connection.
RecordCall(r) ==
  /\ Step(r, "record", "done")
  /\ endpointCalls' = [endpointCalls EXCEPT ![Key(r)] = @ + 1]
  /\ lastCall' = [req |-> r, status |-> wr[r].status]
  /\ client' = [client EXCEPT ![r] = IF @ = "gone" THEN @
                                     ELSE IF r \in panicked THEN "dropped" ELSE "answered"]
  /\ UNCHANGED <<overrides, finished, status, findings, logEvents, progressCount,
                 invocationCount, req, wr, scanned, accepted, panicked, before>>

-----------------------------------------------------------------------------
\* The goroutine of r takes a step of its own.
Serve(r) ==
  \/ ApplyOverride(r) \/ PreemptStatus(r)
  \/ HandleInvocation(r) \/ HandleProgress(r) \/ HandleLog(r) \/ HandleStatic(r)
  \/ ControlTimeout(r) \/ ControlCancelled(r)
  \/ RejectFindings(r) \/ StartScan(r) \/ ScanLine(r) \/ EndScan(r) \/ CutScan(r)
  \/ HandleComplete(r) \/ SignalCheck(r) \/ SignalClose(r) \/ RecordCall(r)

Next ==
  \/ \E r \in Req, q \in Inputs : Arrive(r, q)
  \/ \E S \in SUBSET Req : ClientsGone(S)
  \/ \E r \in Req : Serve(r)

(***************************************************************************)
(* The Go scheduler runs every goroutine that can run.  A handler that     *)
(* reads a body depends on the worker to send it: it is only sure to go on *)
(* when the connection is closed.  "serve" is treated as reading a body    *)
(* (log, complete and the drain of an override do).                        *)
(***************************************************************************)
Reading(r) == pc[r] \in {"serve", "scan"} /\ client[r] = "waiting"

Fairness == \A r \in Req : WF_vars(~Reading(r) /\ Serve(r))

Safety == Init /\ [][Next]_vars

Spec == Safety /\ Fairness

-----------------------------------------------------------------------------
Recorded == {r \in Req : pc[r] = "done"}

\* The harness is woken only after a terminal status is in the result: the
\* status is written before signalDone, by whichever handler gets there first.
DoneImpliesStatus == finished => status # "unset"

\* EndpointCalls counts every call that ended once, whatever its handler did
\* (a panic included), under the method and path it was made with.
CallsCounted ==
  \A k \in Methods \X Paths :
    endpointCalls[k] = Cardinality({r \in Recorded : Key(r) = k})

\* No reply without its record: a call the worker saw answered (or dropped)
\* is in EndpointCalls and could be in LastCall.
AnsweredAfterRecord ==
  \A r \in Req : client[r] \in {"answered", "dropped"} => pc[r] = "done"

\* LastCall is a most recent call: no call that began after it ended has ended.
LastCallIsLatest ==
  /\ lastCall = None <=> Recorded = {}
  /\ lastCall # None => /\ lastCall.req \in Recorded
                        /\ \A s \in Recorded : lastCall.req \notin before[s]

ValidFindings == {i \in DOMAIN findings : findings[i].ok}

\* What the uploads have counted: the first, second, ... line that each accepted.
AcceptedLines == UNION {{r} \X (1..accepted[r]) : r \in Req}

\* Every line a handler counted as accepted is a valid finding of the result,
\* and the other way round, while several uploads interleave and some fail.
AcceptedAreRecorded ==
  Cardinality(ValidFindings) = Cardinality(AcceptedLines)

\* What the supervisor of the worker (runWorker, Evaluate) relies on.
C == INSTANCE Completion WITH Statuses <- TerminalStatuses

\* The handlers implement Completion: a terminal status never turns back into
\* "none yet"; an override never hides a status that /v1/complete stored; Done()
\* is closed after a status is stored, and it is closed once one is, though
\* concurrent calls of signalDone may each leave that to another.
ImplementsCompletion == C!Spec

\* A call the worker gave up on still ends, so that it is recorded.
AbandonedCallsEnd ==
  \A r \in Req : client[r] = "gone" ~> pc[r] = "done"

\* emulator.go:360 ("already closed; idempotent"): no call makes signalDone panic, so
\* that a handler panics only for a status of the fixture that net/http refuses.
SignalDoneIdempotent == \A r \in panicked : ~Writable(wr[r].status)
=============================================================================
