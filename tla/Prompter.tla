------------------------------ MODULE Prompter ------------------------------
(***************************************************************************)
(* How `aa26-connector test` gets the connection block (cmdTest up to      *)
(* SaveFixture, resolveConnection and what it calls in prompter.go,        *)
(* LoadFixture and SaveFixture in fixture.go): several runs, one after the *)
(* other, over one manifest and one fixture file.                          *)
(*                                                                         *)
(* An answer is the text of a line, "blank" when it is empty; so is a      *)
(* value of the connection, and the default of a field, which may also be  *)
(* missing: "nil".  A run reads lines from a terminal, which hands out one *)
(* line per read, or from a pipe, which hands out all it has.  Each        *)
(* bufio.Reader keeps what it has read ahead.                              *)
(***************************************************************************)
EXTENDS Integers, Sequences, FiniteSetsExt, Functions

CONSTANTS
  Keys,       \* the connection fields a manifest may declare
  Texts,      \* the lines a user may type at a field, "blank" among them: the values, too
  Numerals,   \* Numerals[i]: the text of the choice i
  Parses,     \* Parses[t]: the texts that coerce accepts for the type t
  Manifests,  \* candidate manifests
  Authored,   \* candidate fixture files, before the first run
  MaxRuns     \* bound on the runs

Types  == {"string"} \cup DOMAIN Parses
Field  == [key : Keys, type : Types, required : BOOLEAN, secret : BOOLEAN,
           default : Texts \cup {"nil"}]

\* The fields of a method are the properties of one JSON object: a key occurs once.
ASSUME PrompterAssumption ==
  /\ MaxRuns \in Nat
  /\ "blank" \in Texts /\ "nil" \notin Texts
  /\ \A t \in DOMAIN Parses : Parses[t] \subseteq Texts
  /\ \A man \in Manifests :
       /\ man.shared \in Seq(Field)
       /\ man.methods \in Seq([type : STRING, fields : Seq(Field)])
       /\ \A n \in DOMAIN man.methods : \A i, j \in DOMAIN man.methods[n].fields :
            i # j => man.methods[n].fields[i].key # man.methods[n].fields[j].key
  /\ \A f \in Authored :
       /\ f.state \in {"missing", "empty", "garbled", "present"}
       /\ DOMAIN f.fixture = {"auth", "connection", "expect"}
       /\ DOMAIN f.fixture.connection \subseteq Keys /\ Range(f.fixture.connection) \subseteq Texts

VARIABLES
  manifest,  \* connector.yaml: the declared fields and authentication methods
  authored,  \* the fixture file as its author left it
  file,      \* the fixture file
  echo,      \* does the terminal echo?
  orig,      \* what readPasswordNoEcho found there
  runs,      \* number of runs so far
  pc,        \* where the run is
  flags,     \* interactive, save; is stdin a terminal?
  wants,     \* what the user means to answer
  stdin,     \* lines that nobody has read yet
  reader,    \* lines read ahead by the reader of resolveConnection
  fixture,   \* the Fixture of the run
  method,    \* the index of its authentication method, 0 for none
  fields,    \* the fields it still has to visit
  out,       \* the connection, so far
  saved,     \* history: the connection that the file holds since a run saved it
  cut        \* history: where runs were cut short, of "save" and "secret"

terminal == <<echo, orig>>
input  == <<wants, stdin, reader>>
run    == <<fixture, method, fields, out>>
given  == <<manifest, authored, flags, runs>>
vars   == <<given, terminal, file, pc, input, run, saved, cut>>

Ended  == {"idle", "done", "failed"}
Active == pc \notin Ended

\* Of a user who is not asked.
NoWants == [method |-> "blank", answers |-> << >>]

DefaultFixture == [auth |-> "unset", connection |-> << >>, expect |-> "default"]

\* What LoadFixture makes of a file: a missing or empty one is the default fixture.
Loaded(f) == IF f.state = "present" THEN f.fixture ELSE DefaultFixture

TypeOK ==
  /\ file.state \in {"missing", "empty", "garbled", "present"}
  /\ \A c \in {Loaded(file).connection, out} : DOMAIN c \subseteq Keys /\ Range(c) \subseteq Texts
  /\ echo \in BOOLEAN /\ orig \in BOOLEAN
  /\ runs \in 0..MaxRuns
  /\ pc \in Ended \cup {"pick", "choice", "fields", "prompt", "secret", "save", "write"}
  /\ Range(stdin \o reader) \subseteq Texts \cup Range(Numerals)
  /\ method \in 0..Len(manifest.methods)
  /\ Range(fields) \subseteq Field
  /\ cut \subseteq {"save", "secret"}

Init ==
  /\ manifest \in Manifests
  /\ authored \in Authored
  /\ file = authored
  /\ echo = TRUE /\ orig = TRUE
  /\ runs = 0
  /\ pc = "idle"
  /\ flags = [interactive |-> FALSE, save |-> FALSE, tty |-> FALSE]
  /\ wants = NoWants /\ stdin = << >> /\ reader = << >>
  /\ fixture = DefaultFixture
  /\ method = 0
  /\ fields = << >>
  /\ out = << >>
  /\ saved = [valid |-> FALSE, connection |-> << >>]
  /\ cut = {}

-----------------------------------------------------------------------------
(* What the manifest asks for *)

\* Mutant: the first declaration of a key counts.
FirstDeclaration(decls, k) ==
  decls[Min({i \in DOMAIN decls : decls[i].key = k})]

\* The last declaration of a key counts: those of the method come last.
Declaration(decls, k) ==
  decls[Max({i \in DOMAIN decls : decls[i].key = k})]

\* The keys of the first n declarations, each once, in the order of first mention.
Order(decls) ==
  LET order[n \in 0..Len(decls)] ==
        IF n = 0 THEN << >>
        ELSE IF \E j \in 1..(n - 1) : decls[j].key = decls[n].key THEN order[n - 1]
        ELSE Append(order[n - 1], decls[n].key)
  IN  order

\* connectionFields
Merged(decls) ==
  LET order == Order(decls)[Len(decls)]
  IN  [n \in 1..Len(order) |-> Declaration(decls, order[n])]

FieldDecls ==
  UNION {Range(ds) : ds \in {manifest.shared}
                             \cup {manifest.methods[i].fields : i \in DOMAIN manifest.methods}}

FieldsOf(m) ==
  Merged(manifest.shared \o (IF m = 0 THEN << >> ELSE manifest.methods[m].fields))

\* Does pickAuthMethod have to ask?
SeveralMethods(f) == f.auth = "unset" /\ Len(manifest.methods) > 1

\* The answers to the last n of the fields: one line for each that the connection lacks.
Lines(fs, connection, answers) ==
  LET lines[n \in 0..Len(fs)] ==
        IF n = 0 THEN << >>
        ELSE LET d == fs[Len(fs) - n + 1]
             IN  IF d.key \in DOMAIN connection THEN lines[n - 1]
                 ELSE <<answers[d.key]>> \o lines[n - 1]
  IN  lines

\* The lines of a user who pipes in the answers: the choice, if there is one, comes first.
Script(f, w) ==
  LET fits(i) == IF SeveralMethods(f) THEN Numerals[i] = w.method
                 ELSE f.auth \in {"unset", manifest.methods[i].type}
      fitting == {i \in DOMAIN manifest.methods : fits(i)}
      m       == IF fitting = {} THEN 0 ELSE Min(fitting)
  IN  (IF SeveralMethods(f) THEN <<w.method>> ELSE << >>)
        \o Lines(FieldsOf(m), f.connection, w.answers)[Len(FieldsOf(m))]

-----------------------------------------------------------------------------
(* Reading lines *)

\* What ReadString may return with `buffer` read ahead: the line, what is read ahead
\* then, and what is left in stdin.  The end of a pipe reads as a blank line.
Reads(buffer) ==
  IF buffer # << >>
  THEN {[line |-> Head(buffer), ahead |-> Tail(buffer), left |-> stdin]}
  ELSE IF stdin # << >>
  THEN {[line |-> Head(stdin), ahead |-> SubSeq(stdin, 2, n),
         left |-> SubSeq(stdin, n + 1, Len(stdin))] :
           n \in 1..(IF flags.tty THEN 1 ELSE Len(stdin))}
  ELSE IF flags.tty THEN {}
  ELSE {[line |-> "blank", ahead |-> << >>, left |-> << >>]}

Fail == pc' = "failed"

\* coerce
Coerces(d, line) == d.type \in DOMAIN Parses => line \in Parses[d.type]

\* A connection with the value v for the key.
With(connection, key, v) ==
  [k \in DOMAIN connection \cup {key} |-> IF k = key THEN v ELSE connection[k]]

\* Mutant: what promptField returns is stored, if it is nil, too.
AcceptNil(d, line) ==
  LET blank == line = "blank"
      bare  == blank /\ d.default = "nil"
  IN  IF IF blank THEN bare /\ d.required ELSE ~Coerces(d, line)
      THEN Fail /\ UNCHANGED <<fields, out>>
      ELSE /\ out' = With(out, d.key, IF blank THEN d.default ELSE line)
           /\ fields' = Tail(fields)
           /\ pc' = "fields"

\* promptField, after the line: the default, be it empty, or nothing, or a value, or an
\* error.
Accept(d, line) ==
  LET blank == line = "blank"
      bare  == blank /\ d.default = "nil"
      fails == IF blank THEN bare /\ d.required ELSE ~Coerces(d, line)
  IN  IF fails
      THEN Fail /\ UNCHANGED <<fields, out>>
      ELSE /\ out' = IF bare THEN out
                     ELSE With(out, d.key, IF blank THEN d.default ELSE line)
           /\ fields' = Tail(fields)
           /\ pc' = "fields"

-----------------------------------------------------------------------------
(* The steps of a run *)

\* LoadFixture, after the manifest was found valid; a garbled file is an error.  An
\* interactive shell may have reset its terminal since the last run.
Start ==
  /\ ~Active
  /\ runs < MaxRuns
  /\ runs' = runs + 1
  /\ fixture' = Loaded(file)
  /\ \/ /\ flags' \in [interactive : {TRUE}, save : BOOLEAN, tty : BOOLEAN]
        /\ wants' \in [method : Range(Numerals) \cup {"blank"},
                       answers : [{d.key : d \in FieldDecls} -> Texts]]
        /\ stdin' = IF flags'.tty THEN << >> ELSE Script(fixture', wants')
     \/ /\ flags' \in [interactive : {FALSE}, save : BOOLEAN, tty : BOOLEAN]
        /\ wants' = NoWants
        /\ stdin' = << >>
  /\ reader' = << >> /\ fields' = << >> /\ out' = fixture'.connection /\ method' = 0
  /\ pc' = IF file.state = "garbled" THEN "failed" ELSE "pick"
  /\ echo' \in {echo, TRUE}
  /\ UNCHANGED <<manifest, authored, file, orig, saved, cut>>

\* Method i is chosen: its fields follow those of the other sections.
Chosen(i) ==
  /\ method' = i
  /\ fields' = FieldsOf(i)
  /\ pc' = "fields"

\* The first method of the set, or an error if there is none.
ChosenIn(methods) ==
  IF methods = {} THEN Fail /\ UNCHANGED <<method, fields>> ELSE Chosen(Min(methods))

Among(type) == {i \in DOMAIN manifest.methods : manifest.methods[i].type = type}

\* Mutant: several methods are asked for in a non-interactive run, too.
AlwaysAsk == pc' = "choice" /\ UNCHANGED <<method, fields>>

\* Which of several: the user is asked, or else it is "none".
AskOrNone ==
  IF flags.interactive THEN pc' = "choice" /\ UNCHANGED <<method, fields>>
                       ELSE ChosenIn(Among("none"))

\* pickAuthMethod, up to its prompt: the pinned method, the only one, one of several.
PickMethod ==
  /\ pc = "pick"
  /\ IF manifest.methods = << >> THEN Chosen(0)
     ELSE IF fixture.auth # "unset" THEN ChosenIn(Among(fixture.auth))
     ELSE IF Len(manifest.methods) = 1 THEN Chosen(1)
     ELSE AskOrNone
  /\ UNCHANGED <<given, terminal, file, input, fixture, out, saved, cut>>

\* The choice is read by a reader of its own: what that one reads ahead is lost.
ReadChoice ==
  /\ pc = "choice"
  /\ \E r \in Reads(<< >>) :
       /\ stdin' = r.left
       /\ ChosenIn({i \in DOMAIN manifest.methods : Numerals[i] = r.line})
  /\ UNCHANGED <<given, terminal, file, wants, reader, fixture, out, saved, cut>>

\* The head of the loop of resolveConnection, for a field that is known already, or that
\* cannot be asked for.
SkipField ==
  /\ pc = "fields" /\ fields # << >>
  /\ LET d == Head(fields)
     IN  \/ /\ d.key \in DOMAIN out
            /\ fields' = Tail(fields)
            /\ UNCHANGED pc
         \/ /\ d.key \notin DOMAIN out /\ ~flags.interactive /\ ~d.required
            /\ fields' = Tail(fields)
            /\ UNCHANGED pc
         \/ /\ d.key \notin DOMAIN out /\ ~flags.interactive /\ d.required
            /\ Fail
            /\ UNCHANGED fields
  /\ UNCHANGED <<given, terminal, file, input, fixture, method, out, saved, cut>>

\* promptField, up to the read: a secret is typed with the echo off.
Prompt ==
  /\ pc = "fields" /\ fields # << >>
  /\ Head(fields).key \notin DOMAIN out
  /\ flags.interactive
  /\ IF Head(fields).secret /\ flags.tty
     THEN pc' = "secret" /\ echo' = FALSE /\ orig' = echo
     ELSE pc' = "prompt" /\ UNCHANGED terminal
  /\ UNCHANGED <<given, file, input, run, saved, cut>>

\* Mutant: the line is read by a reader of its own.
ReadFieldFresh ==
  /\ pc = "prompt"
  /\ \E r \in Reads(<< >>) : Accept(Head(fields), r.line) /\ stdin' = r.left
  /\ UNCHANGED <<given, terminal, file, wants, reader, fixture, method, saved, cut>>

\* promptField's ReadString.
ReadField ==
  /\ pc = "prompt"
  /\ \E r \in Reads(reader) :
       /\ Accept(Head(fields), r.line)
       /\ reader' = r.ahead
       /\ stdin' = r.left
  /\ UNCHANGED <<given, terminal, file, wants, fixture, method, saved, cut>>

\* readPasswordNoEcho: a reader of its own, and the echo is restored.
ReadSecret ==
  /\ pc = "secret"
  /\ \E r \in Reads(<< >>) : Accept(Head(fields), r.line) /\ stdin' = r.left
  /\ echo' = orig
  /\ UNCHANGED <<given, orig, file, wants, reader, fixture, method, saved, cut>>

\* Mutant: the echo is not restored after an error.
ReadErrorNotDeferred ==
  /\ pc \in {"prompt", "secret"}
  /\ Fail
  /\ UNCHANGED <<given, terminal, file, input, run, saved, cut>>

\* A read fails other than by the end of the input.  The echo is restored all the same.
ReadError ==
  /\ pc \in {"prompt", "secret"}
  /\ Fail
  /\ echo' = IF pc = "secret" THEN orig ELSE echo
  /\ UNCHANGED <<given, orig, file, input, run, saved, cut>>

\* resolveConnection returns.
Resolve ==
  /\ pc = "fields" /\ fields = << >>
  /\ pc' = IF flags.save THEN "save" ELSE "done"
  /\ UNCHANGED <<given, terminal, file, input, run, saved, cut>>

\* Mutant: the fixture is saved as it was loaded.
LoadedOnly == fixture

\* The fixture that cmdTest saves: the one that was loaded, with the resolved connection.
Resolved == [fixture EXCEPT !.connection = out]

\* SaveFixture: os.WriteFile opens the file, which truncates it, or fails to ...
OpenFile ==
  /\ pc = "save"
  /\ \/ /\ file' = [state |-> "empty", fixture |-> DefaultFixture]
        /\ saved' = [saved EXCEPT !.valid = FALSE]
        /\ pc' = "write"
     \/ Fail /\ UNCHANGED <<file, saved>>
  /\ UNCHANGED <<given, terminal, input, run, cut>>

\* Mutant: a fixture is saved with its connection only.
WriteConnectionOnly ==
  /\ pc = "write"
  /\ file' = [state |-> "present", fixture |-> [DefaultFixture EXCEPT !.connection = out]]
  /\ saved' = [valid |-> TRUE, connection |-> out]
  /\ pc' = "done"
  /\ UNCHANGED <<given, terminal, input, run, cut>>

\* ... and writes it.  Of a write that fails a part may be there: the sections in their
\* order, the expectations after the connection, in a file that may not even parse.
WriteFile ==
  /\ pc = "write"
  /\ \/ /\ file' = [state |-> "present", fixture |-> Resolved]
        /\ saved' = [valid |-> TRUE, connection |-> out]
        /\ pc' = "done"
        /\ UNCHANGED cut
     \/ /\ \/ file' \in [state : {"empty", "garbled"}, fixture : {DefaultFixture}]
           \/ \E known \in SUBSET DOMAIN out :
                file' = [state |-> "present",
                         fixture |-> [Resolved EXCEPT !.connection = Restrict(out, known),
                                                      !.expect = "default"]]
        /\ cut' = cut \cup {"save"}
        /\ Fail
        /\ UNCHANGED saved
  /\ UNCHANGED <<given, terminal, input, run>>

-----------------------------------------------------------------------------
(* The user *)

\* The user answers the prompt on the terminal.
UserTypes ==
  /\ flags.tty /\ stdin = << >>
  /\ \/ pc = "choice" /\ stdin' = <<wants.method>>
     \/ pc \in {"prompt", "secret"} /\ stdin' = <<wants.answers[Head(fields).key]>>
  /\ UNCHANGED <<given, terminal, file, pc, wants, reader, run, saved, cut>>

\* SIGINT or SIGTERM: no handler is installed yet, no deferred call runs.
Interrupt ==
  /\ Active
  /\ pc' = "idle"
  /\ cut' = cut \cup (IF pc = "write" THEN {"save"} ELSE {pc} \cap {"secret"})
  /\ UNCHANGED <<given, terminal, file, input, run, saved>>

Step ==
  \/ PickMethod \/ ReadChoice \/ SkipField \/ Prompt \/ ReadField \/ ReadSecret
  \/ Resolve \/ OpenFile \/ WriteFile

Next == Start \/ Step \/ ReadError \/ UserTypes \/ Interrupt

Safety == Init /\ [][Next]_vars

\* The program goes on where it can; the user may start and type, or not, and no read has
\* to fail.
Spec == Safety /\ WF_vars(Step)

-----------------------------------------------------------------------------
\* What a run resolved is what its user meant to answer: each field that the fixture
\* lacked has the answer to the prompt for that field, or the default where that was
\* blank.  Not promised to a user who pipes in answers and is asked for the method.
AnswersReachTheirFields ==
  /\ pc \in {"save", "write", "done"}
  /\ flags.interactive
  /\ flags.tty \/ ~SeveralMethods(fixture)
  =>
    \A i \in DOMAIN FieldsOf(method) :
      LET d      == FieldsOf(method)[i]
          answer == wants.answers[d.key]
          has(v) == d.key \in DOMAIN out /\ out[d.key] = v
      IN  IF d.key \in DOMAIN fixture.connection THEN has(fixture.connection[d.key])
          ELSE IF answer # "blank" THEN has(answer)
          ELSE IF d.default # "nil" THEN has(d.default)
          ELSE d.key \notin DOMAIN out /\ ~d.required

\* prompter.go:185: what the authentication method declares counts, whatever the other
\* sections say of the same key: a required field has an answer, an answer has its type.
MethodDeclarationsWin ==
  pc \in {"save", "write", "done"} /\ method # 0 =>
    \A d \in Range(manifest.methods[method].fields) :
      /\ d.required => d.key \in DOMAIN out
      /\ d.key \in DOMAIN out \ DOMAIN fixture.connection =>
           out[d.key] = d.default \/ Coerces(d, out[d.key])

\* fixture.go:161: after `--save-fixture` "the next run is reproducible".  A
\* non-interactive run on a file that a run has saved resolves, and to the same connection.
SavedFixtureReproduces ==
  saved.valid /\ ~flags.interactive /\ ~flags.save =>
    /\ pc # "failed"
    /\ pc = "done" => out = saved.connection

\* It does if the fixture pins the authentication method, or there is one at most.
PinnedFixtureReproduces ==
  ~SeveralMethods(fixture) => SavedFixtureReproduces

\* Whatever is resolved, saved and loaded again, what the author wrote by hand stays in
\* the file, unless a run was cut short while it wrote the file.
AuthorsPartsSurvive ==
  pc # "write" /\ "save" \notin cut =>
    LET f == Loaded(file)
        a == Loaded(authored)
    IN  /\ f.auth = a.auth /\ f.expect = a.expect
        /\ \A k \in DOMAIN a.connection :
             k \in DOMAIN f.connection /\ f.connection[k] = a.connection[k]

\* The terminal echoes, except while a secret is typed and after an interrupt of that.
EchoRestored == echo \/ pc = "secret" \/ "secret" \in cut

\* A run that needs no terminal ends (docs/test-harness.md:455, "no prompt blocks"), and
\* so does one whose answers are piped in, even if there are too few.
UnattendedRunEnds == (Active /\ ~(flags.interactive /\ flags.tty)) ~> ~Active
=============================================================================
