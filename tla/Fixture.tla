------------------------------- MODULE Fixture -------------------------------
(***************************************************************************)
(* The verdict of a run: Fixture.Evaluate and endpointHit of fixture.go,   *)
(* as functions of a RunResult and of the fixture's expect block.          *)
(*                                                                         *)
(* A RunResult is a record [Status, ExitCode, Findings, LogEvents,         *)
(* EndpointCalls]; an endpoint is <<method, path>>, where the method "any" *)
(* of a required endpoint stands for a bare path.  A failure is a record   *)
(* that says which expectation failed and on what; the wording is left     *)
(* out, and so are the repetitions of a failure, since callers only ask    *)
(* whether there is one.                                                   *)
(***************************************************************************)
EXTENDS Naturals, Sequences, FiniteSets

Failure(expectation, on) == [expectation |-> expectation, on |-> on]

\* The failure f, where the expectation is not met.
Unless(met, f) == IF met THEN {} ELSE {f}

\* The status a run ends with: the one in the result, or else what the exit code of
\* the worker means.  Evaluate and runProbeContract derive it the same way.
TerminalStatus(status, exitCode) ==
  IF status # "unset" THEN status
  ELSE IF exitCode = 0 THEN "completed" ELSE "failed"

\* endpointHit: a bare path matches any method.
EndpointHit(hits, want) ==
  \E k \in DOMAIN hits : /\ hits[k] > 0
                         /\ k[2] = want[2]
                         /\ want[1] \in {"any", k[1]}

StatusFailures(expect, r) ==
  LET want == IF expect.status = "unset" THEN "completed" ELSE expect.status
      got  == TerminalStatus(r.Status, r.ExitCode)
  IN  Unless(got = want, Failure("status", got))

ValidCount(fs) == Cardinality({i \in DOMAIN fs : fs[i].ok})

SeenTypes(fs) == {fs[i].type : i \in DOMAIN fs} \ {"untyped"}

\* A bound of 0 is a bound that is not set; every typed line counts as seen, valid
\* or not.
FindingsFailures(fe, fs) ==
  LET valid == ValidCount(fs)
  IN       Unless(fe.minCount > 0 => valid >= fe.minCount, Failure("minCount", valid))
      \cup Unless(fe.maxCount > 0 => valid <= fe.maxCount, Failure("maxCount", valid))
      \cup {Failure("types", t) : t \in fe.types \ SeenTypes(fs)}

SchemaFailures(fs) == {Failure("schema", i) : i \in {j \in DOMAIN fs : ~fs[j].ok}}

ErrorLogFailures(expect, logs) ==
  {Failure("noErrorLogs", i) :
     i \in {j \in DOMAIN logs : expect.noErrorLogs /\ logs[j] = "error"}}

EndpointFailures(expect, hits) ==
  {Failure("requiredEndpoints", e) :
     e \in {w \in expect.requiredEndpoints : ~EndpointHit(hits, w)}}

\* Mutant: the schema only counts when the fixture has expectations on findings.
EvaluateSchemaOnDemand(expect, r) ==
       StatusFailures(expect, r)
  \cup (UNION {FindingsFailures(fe, r.Findings) \cup SchemaFailures(r.Findings) :
                 fe \in expect.findings})
  \cup ErrorLogFailures(expect, r.LogEvents)
  \cup EndpointFailures(expect, r.EndpointCalls)

\* Evaluate: the failed expectations.  expect.findings is a set of at most one block.
Evaluate(expect, r) ==
       StatusFailures(expect, r)
  \cup (UNION {FindingsFailures(fe, r.Findings) : fe \in expect.findings})
  \cup SchemaFailures(r.Findings)
  \cup ErrorLogFailures(expect, r.LogEvents)
  \cup EndpointFailures(expect, r.EndpointCalls)
=============================================================================
