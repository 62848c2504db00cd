----------------------------- MODULE MCEmulator -----------------------------
(***************************************************************************)
(* A small instance of Emulator: two concurrent requests drawn from one    *)
(* or two of every kind the switch of ServeHTTP tells apart, under no      *)
(* overrides and under overrides of a path with a body, of /v1/complete    *)
(* for one method, of a path that is not overridden for the method the     *)
(* worker uses, and with a status that net/http refuses.                   *)
(***************************************************************************)
EXTENDS Emulator

CONSTANTS r1, r2

MCReq == {r1, r2}

Valid   == [kind |-> "object", type |-> "t", ok |-> TRUE]
Invalid == [kind |-> "object", type |-> "t", ok |-> FALSE]
Blank   == [kind |-> "blank", type |-> "untyped", ok |-> FALSE]
NotJson == [kind |-> "notjson", type |-> "untyped", ok |-> FALSE]

Call(m, p) == [NoRequest EXCEPT !.method = m, !.path = p]

Upload(lines, tooLong) ==
  [Call("POST", "/v1/findings") EXCEPT !.lines = lines, !.tooLong = tooLong]

Complete(s) == [Call("POST", "/v1/complete") EXCEPT !.status = s]

MCInputs ==
  { Call("GET", "/v1/invocation"),
    Upload(<<Valid, Blank>>, FALSE), Upload(<<NotJson, Valid>>, TRUE),
    Call("GET", "/v1/findings"),
    Call("POST", "/v1/progress"),
    [Call("POST", "/v1/log") EXCEPT !.level = "error"],
    Call("GET", "/v1/control"),
    Call("GET", "/v1/checkpoint"),
    Complete("failed"), Call("GET", "/v1/complete") }

MCOverrideSets ==
  { << >>,
    [p \in {"/v1/complete"} |-> [method |-> "POST", status |-> 500]],
    [p \in {"/v1/log", "/v1/findings", "/v1/checkpoint"} |->
       [method |-> IF p = "/v1/findings" THEN "GET" ELSE "any",
        status |-> IF p = "/v1/checkpoint" THEN 42 ELSE 0]] }

MCTypes == {"t", "u"}

MCLevels == {"error"}

MCStatuses == {"failed"}
=============================================================================
