------------------------------ MODULE Extraction ------------------------------
(***************************************************************************)
(* The calls of a connector for the text of a file: the SDKs in Go, Python *)
(* and bash (sdk/), and the sidecar they call, which is the harness's mock *)
(* (extraction_emulator.go), a real one, or not there.  The connector uses *)
(* one SDK, and calls it again and again; in bash either in its own shell  *)
(* or, as in text=$(aa26_extract_text ...), in a subshell.                 *)
(*                                                                         *)
(* A status is its class.  A body is what a client can tell apart, with    *)
(* the texts it has, and the text of a file is the name of its entry.  A   *)
(* timeout, a refused or a broken connection is one event, since each SDK  *)
(* makes the same of them; so the different timeouts are left out, and so  *)
(* are the limits on the size of a body, the probes of /readyz, and that   *)
(* iter_entries raises an exception on a result that is no object.         *)
(***************************************************************************)
EXTENDS Integers, Sequences

CONSTANTS MaxCalls   \* bound on the connector's calls

ASSUME ExtractionAssumption == MaxCalls \in Nat

VARIABLES
  sdk,         \* the function that the connector calls
  sidecar,     \* what EXTRACTION_URL leads to: "emulator", "real" or "none" if it is not set
  pc,          \* "idle", "sent" or "replied"
  call,        \* the last call
  reply,       \* the sidecar's reply to it
  outcome,     \* what the function returned
  made,        \* number of calls
  shellError   \* aa26_extract_error in the connector's shell: the call that set it, 0 if empty

vars == <<sdk, sidecar, pc, call, reply, outcome, made, shellError>>

Sdks == {"go", "python", "bash text", "bash json"}
Bash == {"bash text", "bash json"}

\* Content-Type: missing, an image, an archive, or anything else.
Types == {"none", "image", "archive", "file"}

\* A body is the object of a result, one of an error, another one, or another JSON value; null;
\* no JSON; or empty.
Body(kind) == [kind |-> kind, text |-> << >>, entries |-> << >>]
ResultOf(entries, text) == [kind |-> "result", text |-> text, entries |-> entries]

Bodies ==
  {Body(k) : k \in {"error", "object", "value", "null", "no json", "empty"}} \cup
  {ResultOf(<<"container">>, <<"container">>)}

Replies == [status : 2..5, body : Bodies]
NoReply == [status |-> 0, body |-> Body("empty")]

-----------------------------------------------------------------------------
(* The emulator: handleExtract *)

Archive == <<"container", "inner 1", "inner 2">>

EmulatorReply(type) ==
  IF type \in {"none", "image"} THEN [status |-> 4, body |-> Body("error")]
  ELSE IF type = "archive"
  THEN [status |-> 2, body |-> ResultOf(Archive, <<"inner 1", "inner 2">>)]
  ELSE [status |-> 2, body |-> ResultOf(<<"container">>, <<"container">>)]

-----------------------------------------------------------------------------
(* The SDKs.  `files` is what a connector in Go or Python then iterates    *)
(* over; `said`: is there a message in the error, or in                    *)
(* aa26_extract_error?                                                     *)

\* Mutant: the container of an archive counts as one of its files.
EveryEntry(entries) == entries

\* IterInner, and iter_entries in Python: the entries but for the container.
Inner(entries) ==
  LET inner[n \in 0..Len(entries)] ==
        IF n = 0 THEN << >>
        ELSE IF entries[n] # "container" THEN Append(inner[n - 1], entries[n]) ELSE inner[n - 1]
  IN  inner[Len(entries)]

Failure(said) == [ok |-> FALSE, text |-> << >>, files |-> << >>, said |-> said]
Success(text, files) == [ok |-> TRUE, text |-> text, files |-> files, said |-> FALSE]

\* Mutant: only a 4xx is an error.
ExtractClientErrors(r) ==
  IF r.status # 4 /\ r.body.kind \in {"result", "error", "object", "null"}
  THEN Success(r.body.text, Inner(r.body.entries)) ELSE Failure(TRUE)

\* Client.Extract in Go.
Extract(r) ==
  IF r.status = 2 /\ r.body.kind \in {"result", "error", "object", "null"}
  THEN Success(r.body.text, Inner(r.body.entries)) ELSE Failure(TRUE)

\* extract_text in Python.  An error's body that is JSON and no object raises another
\* exception than ExtractionError.
ExtractText(r) ==
  IF r.status < 4 /\ r.body.kind \notin {"no json", "empty"}
  THEN Success(r.body.text, Inner(r.body.entries))
  ELSE Failure(r.status < 4 \/ r.body.kind \notin {"value", "null"})

\* aa26_extract_text: the status is not looked at, jq fails without a message, and prints
\* "null" where there is no text.
Aa26ExtractText(r) ==
  CASE r.body.kind = "error" -> Failure(TRUE)
    [] r.body.kind \in {"value", "no json"} -> Failure(FALSE)
    [] r.body.kind \in {"object", "null"} -> Success(<<"null">>, << >>)
    [] OTHER -> Success(r.body.text, << >>)

\* aa26_extract_json.
Aa26ExtractJson(r) == IF r.body.kind = "error" THEN Failure(TRUE) ELSE Success(r.body.text, << >>)

OutcomeOf(s, r) ==
  CASE s = "go" -> Extract(r)
    [] s = "python" -> ExtractText(r)
    [] s = "bash text" -> Aa26ExtractText(r)
    [] s = "bash json" -> Aa26ExtractJson(r)

-----------------------------------------------------------------------------
NoCall == [type |-> "none", readable |-> TRUE, subshell |-> FALSE]

Init ==
  /\ sdk \in Sdks
  /\ sidecar \in {"emulator", "real", "none"}
  /\ pc = "idle" /\ call = NoCall /\ reply = NoReply /\ outcome = Success(<< >>, << >>)
  /\ made = 0 /\ shellError = 0

\* Mutant: aa26_extract_error is not emptied.
ReturnNoReset(o) ==
  /\ pc' = "idle" /\ outcome' = o
  /\ shellError' = IF sdk \in Bash /\ ~call'.subshell /\ o.said THEN made' ELSE shellError

\* A function returns.  What one in a subshell sets is lost with it.
Return(o) ==
  /\ pc' = "idle" /\ outcome' = o
  /\ shellError' = IF sdk \notin Bash \/ call'.subshell THEN shellError
                   ELSE IF o.said THEN made' ELSE 0

\* The checks before the request: EXTRACTION_URL and, in bash, the file.
Call(c) ==
  /\ pc = "idle" /\ made < MaxCalls
  /\ c.readable \/ sdk \in Bash
  /\ c.subshell => sdk \in Bash
  /\ made' = made + 1 /\ call' = c /\ reply' = NoReply
  /\ IF sidecar = "none" \/ ~c.readable
     THEN Return(Failure(TRUE))
     ELSE pc' = "sent" /\ UNCHANGED <<outcome, shellError>>
  /\ UNCHANGED <<sdk, sidecar>>

Serve ==
  /\ pc = "sent"
  /\ reply' \in IF sidecar = "emulator" THEN {EmulatorReply(call.type)} ELSE Replies
  /\ pc' = "replied"
  /\ UNCHANGED <<sdk, sidecar, call, outcome, made, shellError>>

\* A timeout, a connection that is refused, or one that breaks.
TransportError ==
  /\ pc \in {"sent", "replied"}
  /\ reply' = NoReply
  /\ UNCHANGED <<sdk, sidecar, call, made>>
  /\ Return(Failure(TRUE))

Reply ==
  /\ pc = "replied"
  /\ UNCHANGED <<sdk, sidecar, call, reply, made>>
  /\ Return(OutcomeOf(sdk, reply))

Next ==
  \/ Serve \/ TransportError \/ Reply
  \/ \E c \in [type : Types, readable : BOOLEAN, subshell : BOOLEAN] : Call(c)

Spec == Init /\ [][Next]_vars

-----------------------------------------------------------------------------
Answered == pc = "idle" /\ reply.status # 0

\* Under the harness a connector gets the same in every language: the text of a file, or of all
\* the files in an archive and not its container; in Go and Python also these files, one by one;
\* and a failure with a reason for the rest.
SdksAgreeOnEmulator ==
  Answered /\ sidecar = "emulator" =>
    LET files == <<"inner 1", "inner 2">>
    IN  outcome = CASE call.type = "archive" -> Success(files, IF sdk \in Bash THEN << >> ELSE files)
                    [] call.type = "file" -> Success(<<"container">>, << >>)
                    [] OTHER -> Failure(TRUE)

\* A refusal is not taken for a text: by Go and Python no matter what its body is, by bash if it
\* is the sidecar's.  A sidecar that breaks behind a proxy's error page is not told apart in bash.
RefusalIsFailure ==
  Answered /\ reply.status >= 4 /\ outcome.ok => sdk \in Bash /\ reply.body.kind # "error"

\* In the shell that called it, aa26_extract_error is the last call's.  In a subshell it is that of
\* an earlier call or empty, whatever comes of this one.
ErrorIsOfLastCall ==
  pc = "idle" /\ shellError # 0 /\ ~call.subshell => shellError = made /\ ~outcome.ok
=============================================================================
