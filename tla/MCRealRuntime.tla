--------------------------- MODULE MCRealRuntime ---------------------------
(***************************************************************************)
(* A small instance of RealRuntime: two harnesses, at the same time or one *)
(* after the other (a leftover of the first included), whose workers post  *)
(* one finding at most.                                                     *)
(***************************************************************************)
EXTENDS RealRuntime

CONSTANTS h1, h2

MCHarnesses == {h1, h2}

MCFindings == {[ok |-> TRUE, type |-> "t"], [ok |-> FALSE, type |-> "t"]}

MCExitCodes == {0, 1}

MCExpectations ==
  { [status |-> "unset", findings |-> {}, noErrorLogs |-> FALSE, requiredEndpoints |-> {}],
    [status |-> "failed", findings |-> {[minCount |-> 1, maxCount |-> 1, types |-> {}]},
     noErrorLogs |-> FALSE, requiredEndpoints |-> {}] }
=============================================================================
