----------------------------- MODULE MCPrompter -----------------------------
(***************************************************************************)
(* Small instances of Prompter: a manifest without methods, where one      *)
(* default is the empty text, one whose sections declare the same key, one *)
(* with a choice of methods, one with "none" among them; a fixture file    *)
(* that is missing, or that its author has begun, with an empty value in   *)
(* one case.                                                               *)
(***************************************************************************)
EXTENDS Prompter

MCKeys == {"host", "port", "user"}

MCTexts == {"blank", "word", "digits"}

MCNumerals == <<"first", "second">>

MCParses == [integer |-> {"digits"}]

Host == [key |-> "host", type |-> "string", required |-> TRUE, secret |-> FALSE, default |-> "nil"]
Port == [Host EXCEPT !.key = "port", !.type = "integer", !.required = FALSE, !.default = "digits"]
User == [key |-> "user", type |-> "string", required |-> FALSE, secret |-> TRUE, default |-> "nil"]

Basic == [type |-> "basic", fields |-> <<[User EXCEPT !.required = TRUE]>>]
ApiKey == [type |-> "api_key", fields |-> << >>]
NoAuth == [type |-> "none", fields |-> << >>]

MCManifests ==
  { [shared |-> <<[Host EXCEPT !.default = "blank"], User>>, methods |-> << >>],
    [shared |-> <<Port, [User EXCEPT !.type = "integer"]>>, methods |-> <<Basic>>],
    [shared |-> <<Host>>, methods |-> <<Basic, ApiKey>>],
    [shared |-> <<Host>>, methods |-> <<NoAuth, Basic>>] }

MCAuthored ==
  { [state |-> "missing", fixture |-> DefaultFixture],
    [state |-> "present",
     fixture |-> [auth |-> "basic", connection |-> [host |-> "digits"], expect |-> "authored"]],
    [state |-> "present",
     fixture |-> [auth |-> "unset", connection |-> [user |-> "blank"], expect |-> "authored"]] }
=============================================================================
