------------------------------ MODULE MCHarness ------------------------------
(***************************************************************************)
(* A small instance of Harness: a worker that makes up to two calls at a   *)
(* time, of the kinds a verdict depends on and of /v1/control, whose       *)
(* handler outlives the call when the worker dies.                         *)
(***************************************************************************)
EXTENDS Harness

CONSTANTS r1, r2

MCReq == {r1, r2}

Call(m, p) == [NoRequest EXCEPT !.method = m, !.path = p]

MCInputs ==
  { [Call("POST", "/v1/findings") EXCEPT
       !.lines = << [kind |-> "object", type |-> "t", ok |-> TRUE],
                    [kind |-> "object", type |-> "u", ok |-> FALSE] >>],
    Call("GET", "/v1/control"),
    Call("POST", "/v1/complete") }

MCOverrideSets == { << >> }

MCExpectations ==
  { [status |-> "unset", findings |-> {}, noErrorLogs |-> FALSE, requiredEndpoints |-> {}],
    [status |-> "failed", findings |-> {[minCount |-> 1, maxCount |-> 1, types |-> {"t"}]},
     noErrorLogs |-> TRUE, requiredEndpoints |-> {<<"any", "/v1/findings">>}] }

MCExitCodes == {0, 1}

MCTypes == {"t", "u"}

MCLevels == {"error"}

MCStatuses == {"failed"}
=============================================================================
