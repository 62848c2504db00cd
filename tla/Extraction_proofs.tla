-------------------------- MODULE Extraction_proofs --------------------------
(***************************************************************************)
(* Proofs about Extraction, for any number of calls.                       *)
(***************************************************************************)
EXTENDS Extraction, SequenceTheorems, TLAPS

\* A reply that has come, with what a function made of it.
ReplyInv ==
  /\ sdk \in Sdks
  /\ reply.status \in 0..5
  /\ pc = "idle" /\ reply.status # 0 => outcome = OutcomeOf(sdk, reply)

\* What a function says of a reply it takes for a success, and the other way round.
LEMMA Outcomes ==
  ASSUME NEW s \in Sdks, NEW r, r.status \in 0..5
  PROVE  /\ OutcomeOf(s, r).ok => ~OutcomeOf(s, r).said
         /\ r.status >= 4 /\ OutcomeOf(s, r).ok => s \in Bash /\ r.body.kind # "error"
<1> USE DEF Success, Failure, Bash
<1>1. CASE s = "go"
  BY <1>1 DEF OutcomeOf, Extract
<1>2. CASE s = "python"
  <2>1. CASE r.status < 4 /\ r.body.kind \notin {"no json", "empty"}
    <3>1. OutcomeOf(s, r) = Success(r.body.text, Inner(r.body.entries))
      BY <1>2, <2>1, Zenon DEF OutcomeOf, ExtractText
    <3>2. ~OutcomeOf(s, r).said
      BY <3>1
    <3>3. \A n \in 0..5 : n < 4 => ~(n >= 4)
      OBVIOUS
    <3>4. ~(r.status >= 4)
      BY <2>1, <3>3, Zenon
    <3> QED
      BY <3>2, <3>4
  <2>2. CASE ~(r.status < 4 /\ r.body.kind \notin {"no json", "empty"})
    <3>1. PICK said : OutcomeOf(s, r) = Failure(said)
      BY <1>2, <2>2, Zenon DEF OutcomeOf, ExtractText
    <3>2. ~OutcomeOf(s, r).ok
      BY <3>1
    <3> QED
      BY <3>2
  <2> QED
    BY <2>1, <2>2
<1>3. CASE s = "bash text"
  BY <1>3 DEF OutcomeOf, Aa26ExtractText
<1>4. CASE s = "bash json"
  BY <1>4 DEF OutcomeOf, Aa26ExtractJson
<1> QED
  BY <1>1, <1>2, <1>3, <1>4 DEF Sdks

LEMMA StatusType ==
  /\ NoReply.status = 0
  /\ \A type : EmulatorReply(type).status \in {2, 4}
  /\ \A r \in Replies : r.status \in 2..5
BY DEF NoReply, EmulatorReply, Replies

LEMMA ReplyInit == Init => ReplyInv
BY StatusType DEF Init, ReplyInv

LEMMA ReplyStep == ReplyInv /\ [Next]_vars => ReplyInv'
<1> SUFFICES ASSUME ReplyInv, [Next]_vars PROVE ReplyInv'
  OBVIOUS
<1> USE StatusType DEF ReplyInv
<1>1. ASSUME NEW c \in [type : Types, readable : BOOLEAN, subshell : BOOLEAN], Call(c)
      PROVE  ReplyInv'
  BY <1>1 DEF Call
<1>2. CASE Serve
  BY <1>2 DEF Serve
<1>3. CASE TransportError
  BY <1>3 DEF TransportError
<1>4. CASE Reply
  BY <1>4 DEF Reply, Return
<1>5. CASE UNCHANGED vars
  BY <1>5 DEF vars
<1> QED
  BY <1>1, <1>2, <1>3, <1>4, <1>5 DEF Next

\* However often it is called, no function takes a refusal for a text, but those in bash where
\* the sidecar's envelope is missing.
THEOREM RefusalsFail == Spec => []RefusalIsFailure
<1>1. ReplyInv => RefusalIsFailure
  BY Outcomes DEF ReplyInv, RefusalIsFailure, Answered
<1> QED
  BY <1>1, ReplyInit, ReplyStep, PTL DEF Spec

\* Only bash has the variable; and what it says is of the last call that was made in the same shell.
ShellInv == ErrorIsOfLastCall /\ (sdk \notin Bash => shellError = 0)

LEMMA ShellInit == Init => ShellInv
BY DEF Init, ShellInv, ErrorIsOfLastCall

LEMMA ReturnShell ==
  ASSUME NEW o, o.ok => ~o.said, Return(o), sdk' = sdk, sdk \notin Bash => shellError = 0
  PROVE  ShellInv'
BY DEF Return, ShellInv, ErrorIsOfLastCall

LEMMA ShellStep == ReplyInv /\ ShellInv /\ [Next]_vars => ShellInv'
<1> SUFFICES ASSUME ReplyInv, ShellInv, [Next]_vars PROVE ShellInv'
  OBVIOUS
<1>0. ~Failure(TRUE).ok
  BY DEF Failure
<1>1. ASSUME NEW c \in [type : Types, readable : BOOLEAN, subshell : BOOLEAN], Call(c)
      PROVE  ShellInv'
  <2>1. CASE sidecar = "none" \/ ~c.readable
    BY <1>0, <1>1, <2>1, ReturnShell DEF Call, ShellInv
  <2>2. CASE ~(sidecar = "none" \/ ~c.readable)
    BY <1>1, <2>2 DEF Call, ShellInv, ErrorIsOfLastCall
  <2> QED
    BY <2>1, <2>2
<1>2. CASE Serve
  BY <1>2 DEF Serve, ShellInv, ErrorIsOfLastCall
<1>3. CASE TransportError
  BY <1>0, <1>3, ReturnShell DEF TransportError, ShellInv
<1>4. CASE Reply
  BY <1>4, Outcomes, ReturnShell DEF Reply, ShellInv, ReplyInv
<1>5. CASE UNCHANGED vars
  BY <1>5 DEF vars, ShellInv, ErrorIsOfLastCall
<1> QED
  BY <1>1, <1>2, <1>3, <1>4, <1>5 DEF Next

\* Without a subshell, aa26_extract_error is never that of an earlier call.
THEOREM ErrorsAreCurrent == Spec => []ErrorIsOfLastCall
<1>1. ShellInv => ErrorIsOfLastCall
  BY DEF ShellInv
<1> QED
  BY <1>1, ReplyInit, ReplyStep, ShellInit, ShellStep, PTL DEF Spec

-----------------------------------------------------------------------------
(* The emulator *)

Texts == {"inner 1", "inner 2"}

LEMMA GrownText ==
  ASSUME NEW t \in Seq(Texts), NEW u \in Seq(Texts), NEW e \in Texts,
         Len(u) = Len(t) + 1, u[Len(t) + 1] = e, \A i \in 1..Len(t) : u[i] = t[i]
  PROVE  Append(t, e) = u
OBVIOUS

LEMMA TextTypes ==
  /\ << >> \in Seq(Texts) /\ Len(<< >>) = 0
  /\ <<"inner 1">> \in Seq(Texts) /\ Len(<<"inner 1">>) = 1 /\ <<"inner 1">>[1] = "inner 1"
  /\ <<"inner 1", "inner 2">> \in Seq(Texts) /\ Len(<<"inner 1", "inner 2">>) = 2
  /\ <<"inner 1", "inner 2">>[1] = "inner 1" /\ <<"inner 1", "inner 2">>[2] = "inner 2"
<1>1. << >> \in Seq(Texts) /\ Len(<< >>) = 0
  BY EmptySeq
<1>2. <<"inner 1">> \in Seq(Texts) /\ Len(<<"inner 1">>) = 1 /\ <<"inner 1">>[1] = "inner 1"
  BY DEF Texts
<1>3. /\ <<"inner 1", "inner 2">> \in Seq(Texts) /\ Len(<<"inner 1", "inner 2">>) = 2
      /\ <<"inner 1", "inner 2">>[1] = "inner 1" /\ <<"inner 1", "inner 2">>[2] = "inner 2"
  BY DEF Texts
<1> QED
  BY <1>1, <1>2, <1>3, Zenon

LEMMA TwoTexts ==
  ASSUME NEW a \in Texts, NEW b \in Texts,
         NEW z \in Seq(Texts), NEW o \in Seq(Texts), NEW w \in Seq(Texts),
         Len(z) = 0, Len(o) = 1, o[1] = a, Len(w) = 2, w[1] = a, w[2] = b
  PROVE  Append(z, a) = o /\ Append(o, b) = w
<1>1. Append(z, a) = o
  <2>1. Len(o) = Len(z) + 1 /\ o[Len(z) + 1] = a /\ \A i \in 1..Len(z) : o[i] = z[i]
    OBVIOUS
  <2> QED
    BY <2>1, GrownText
<1>2. Append(o, b) = w
  <2>1. Len(w) = Len(o) + 1 /\ w[Len(o) + 1] = b /\ \A i \in 1..Len(o) : w[i] = o[i]
    OBVIOUS
  <2> QED
    BY <2>1, GrownText
<1> QED
  BY <1>1, <1>2

LEMMA InnerTexts ==
  /\ Append(<< >>, "inner 1") = <<"inner 1">>
  /\ Append(<<"inner 1">>, "inner 2") = <<"inner 1", "inner 2">>
<1>1. "inner 1" \in Texts /\ "inner 2" \in Texts
  BY DEF Texts
<1> QED
  BY <1>1, TextTypes, TwoTexts, Zenon

LEMMA FourValues ==
  ASSUME NEW S, NEW a \in S, NEW b \in S, NEW c \in S
  PROVE  \E h \in [{0, 1, 2, 3} -> S] : h[0] = a /\ h[1] = a /\ h[2] = b /\ h[3] = c
<1> DEFINE h == [n \in {0, 1, 2, 3} |-> IF n = 2 THEN b ELSE IF n = 3 THEN c ELSE a]
<1>1. h[0] = a /\ h[1] = a /\ h[2] = b /\ h[3] = c
  OBVIOUS
<1>2. h \in [{0, 1, 2, 3} -> S]
  OBVIOUS
<1> HIDE DEF h
<1> QED
  BY <1>1, <1>2

LEMMA InnerValues ==
  \E h \in [{0, 1, 2, 3} -> Seq(Texts)] :
    h[0] = << >> /\ h[1] = << >> /\ h[2] = <<"inner 1">> /\ h[3] = <<"inner 1", "inner 2">>
<1> DEFINE zero == << >>
           one == <<"inner 1">>
           two == <<"inner 1", "inner 2">>
<1>1. zero \in Seq(Texts) /\ one \in Seq(Texts) /\ two \in Seq(Texts)
  BY TextTypes, Zenon
<1> HIDE DEF zero, one, two
<1>2. \E h \in [{0, 1, 2, 3} -> Seq(Texts)] :
        h[0] = zero /\ h[1] = zero /\ h[2] = one /\ h[3] = two
  BY <1>1, FourValues
<1> QED
  BY <1>2, Zenon DEF zero, one, two

\* IterInner on the archive, entry by entry.
LEMMA InnerOfArchive == Inner(Archive) = <<"inner 1", "inner 2">>
<1> DEFINE Of(g, n) == IF n = 0 THEN << >>
                       ELSE IF Archive[n] # "container" THEN Append(g[n - 1], Archive[n])
                       ELSE g[n - 1]
           F(g) == [n \in 0..Len(Archive) |-> Of(g, n)]
           f == CHOOSE g : g = F(g)
<1>1. /\ Len(Archive) = 3 /\ Archive[1] = "container"
      /\ Archive[2] = "inner 1" /\ Archive[2] # "container"
      /\ Archive[3] = "inner 2" /\ Archive[3] # "container"
  BY DEF Archive
<1>2. ASSUME NEW g
      PROVE  /\ Of(g, 0) = << >> /\ Of(g, 1) = g[0]
             /\ Of(g, 2) = Append(g[1], "inner 1") /\ Of(g, 3) = Append(g[2], "inner 2")
  <2>1. Of(g, 0) = << >>
    BY Zenon
  <2>2. 1 # 0 /\ 2 # 0 /\ 3 # 0 /\ 1 - 1 = 0 /\ 2 - 1 = 1 /\ 3 - 1 = 2
    OBVIOUS
  <2>3. Of(g, 1) = g[1 - 1]
    BY <1>1, <2>2, Zenon
  <2>4. Of(g, 2) = Append(g[2 - 1], "inner 1")
    BY <1>1, <2>2, Zenon
  <2>5. Of(g, 3) = Append(g[3 - 1], "inner 2")
    BY <1>1, <2>2, Zenon
  <2> HIDE DEF Of
  <2> QED
    BY <2>1, <2>2, <2>3, <2>4, <2>5
<1>3. 0..Len(Archive) = {0, 1, 2, 3}
  <2>1. 0..3 = {0, 1, 2, 3}
    OBVIOUS
  <2> QED
    BY <1>1, <2>1, Zenon
<1>4. Inner(Archive) = f[3]
  BY <1>1, Zenon DEF Inner
<1> HIDE DEF Of
<1>5. \E h : h = F(h)
  <2>1. PICK h \in [{0, 1, 2, 3} -> Seq(Texts)] :
          h[0] = << >> /\ h[1] = << >> /\ h[2] = <<"inner 1">> /\ h[3] = <<"inner 1", "inner 2">>
    BY InnerValues
  <2>2. \A n \in {0, 1, 2, 3} : h[n] = Of(h, n)
    BY <1>2, <2>1, InnerTexts
  <2> QED
    BY <1>3, <2>1, <2>2
<1> HIDE DEF F
<1>6. f = F(f)
  BY <1>5
<1> HIDE DEF f
<1>7. \A n \in {0, 1, 2, 3} : f[n] = Of(f, n)
  BY <1>3, <1>6 DEF F
<1>8. f[0] = << >> /\ f[1] = << >> /\ f[2] = <<"inner 1">> /\ f[3] = <<"inner 1", "inner 2">>
  BY <1>2, <1>7, InnerTexts
<1> QED
  BY <1>4, <1>8

\* And on a file, whose only entry is the container.
LEMMA InnerOfContainer == Inner(<<"container">>) = << >>
<1> DEFINE entries == <<"container">>
           Of(g, n) == IF n = 0 THEN << >>
                       ELSE IF entries[n] # "container" THEN Append(g[n - 1], entries[n])
                       ELSE g[n - 1]
           F(g) == [n \in 0..Len(entries) |-> Of(g, n)]
           f == CHOOSE g : g = F(g)
<1>1. Len(entries) = 1 /\ entries[1] = "container"
  OBVIOUS
<1>2. ASSUME NEW g PROVE Of(g, 0) = << >> /\ Of(g, 1) = g[0]
  <2>1. Of(g, 0) = << >>
    BY Zenon
  <2>2. 1 # 0 /\ 1 - 1 = 0
    OBVIOUS
  <2>3. Of(g, 1) = g[1 - 1]
    BY <1>1, <2>2, Zenon
  <2> HIDE DEF Of
  <2> QED
    BY <2>1, <2>2, <2>3
<1>3. 0..Len(entries) = {0, 1}
  <2>1. 0..1 = {0, 1}
    OBVIOUS
  <2> QED
    BY <1>1, <2>1, Zenon
<1>4. Inner(entries) = f[1]
  BY <1>1, Zenon DEF Inner
<1> HIDE DEF Of
<1>5. \E h : h = F(h)
  <2> DEFINE h == [n \in {0, 1} |-> << >>]
  <2>1. h[0] = << >> /\ h[1] = << >>
    OBVIOUS
  <2>2. \A n \in {0, 1} : h[n] = Of(h, n)
    BY <1>2, <2>1
  <2>3. h = [n \in {0, 1} |-> Of(h, n)]
    BY <2>2
  <2> HIDE DEF h
  <2> QED
    BY <1>3, <2>3
<1> HIDE DEF F
<1>6. f = F(f)
  BY <1>5
<1> HIDE DEF f
<1>7. \A n \in {0, 1} : f[n] = Of(f, n)
  BY <1>3, <1>6 DEF F
<1>8. f[0] = << >> /\ f[1] = << >>
  BY <1>2, <1>7
<1> QED
  BY <1>4, <1>8

\* The emulator's replies are for the call that is made.
EmulatorInv ==
  /\ call.type \in Types
  /\ sidecar = "emulator" /\ reply.status # 0 => pc # "sent" /\ reply = EmulatorReply(call.type)

LEMMA EmulatorStep == EmulatorInv /\ [Next]_vars => EmulatorInv'
<1> SUFFICES ASSUME EmulatorInv, [Next]_vars PROVE EmulatorInv'
  OBVIOUS
<1> USE StatusType DEF EmulatorInv, Return
<1>1. ASSUME NEW c \in [type : Types, readable : BOOLEAN, subshell : BOOLEAN], Call(c)
      PROVE  EmulatorInv'
  BY <1>1 DEF Call
<1>2. CASE Serve
  BY <1>2 DEF Serve
<1>3. CASE TransportError
  BY <1>3 DEF TransportError
<1>4. CASE Reply
  BY <1>4 DEF Reply
<1>5. CASE UNCHANGED vars
  BY <1>5 DEF vars
<1> QED
  BY <1>1, <1>2, <1>3, <1>4, <1>5 DEF Next

\* What each SDK makes of a result and of a refusal.
LEMMA ResultOutcome ==
  ASSUME NEW s \in Sdks, NEW r, r.status = 2, r.body.kind = "result"
  PROVE  /\ s \notin Bash => OutcomeOf(s, r) = Success(r.body.text, Inner(r.body.entries))
         /\ s \in Bash => OutcomeOf(s, r) = Success(r.body.text, << >>)
<1>1. r.status < 4 /\ r.body.kind \notin {"no json", "empty"}
  OBVIOUS
<1>2. CASE s = "go"
  BY <1>2 DEF OutcomeOf, Extract, Bash
<1>3. CASE s = "python"
  <2>1. s \notin Bash
    BY <1>3 DEF Bash
  <2> QED
    BY <1>1, <1>3, <2>1, Zenon DEF OutcomeOf, ExtractText
<1>4. CASE s = "bash text"
  BY <1>4 DEF OutcomeOf, Aa26ExtractText, Bash
<1>5. CASE s = "bash json"
  BY <1>5 DEF OutcomeOf, Aa26ExtractJson, Bash
<1> QED
  BY <1>2, <1>3, <1>4, <1>5 DEF Sdks

LEMMA ErrorOutcome ==
  ASSUME NEW s \in Sdks, NEW r, r.status = 4, r.body.kind = "error"
  PROVE  OutcomeOf(s, r) = Failure(TRUE)
<1>1. ~(r.status < 4) /\ r.body.kind \notin {"value", "null"}
  OBVIOUS
<1>2. CASE s = "go"
  BY <1>2 DEF OutcomeOf, Extract
<1>3. CASE s = "python"
  <2>1. OutcomeOf(s, r) = Failure(r.status < 4 \/ r.body.kind \notin {"value", "null"})
    BY <1>1, <1>3, Zenon DEF OutcomeOf, ExtractText
  <2>2. (r.status < 4 \/ r.body.kind \notin {"value", "null"}) = TRUE
    BY <1>1
  <2> QED
    BY <2>1, <2>2, Zenon
<1>4. CASE s = "bash text"
  BY <1>4 DEF OutcomeOf, Aa26ExtractText
<1>5. CASE s = "bash json"
  BY <1>5 DEF OutcomeOf, Aa26ExtractJson
<1> QED
  BY <1>2, <1>3, <1>4, <1>5 DEF Sdks

TwoFiles == <<"inner 1", "inner 2">>

LEMMA EmulatorOutcome ==
  ASSUME NEW s \in Sdks, NEW type \in Types
  PROVE  /\ type = "archive" =>
              OutcomeOf(s, EmulatorReply(type)) =
                Success(TwoFiles, IF s \in Bash THEN << >> ELSE TwoFiles)
         /\ type = "file" => OutcomeOf(s, EmulatorReply(type)) = Success(<<"container">>, << >>)
         /\ type \in {"none", "image"} => OutcomeOf(s, EmulatorReply(type)) = Failure(TRUE)
<1> DEFINE r == EmulatorReply(type)
<1>1. CASE type = "archive"
  <2>1. r.status = 2 /\ r.body.kind = "result" /\ r.body.text = TwoFiles /\ r.body.entries = Archive
    BY <1>1 DEF EmulatorReply, ResultOf, TwoFiles
  <2>2. Inner(Archive) = TwoFiles
    BY InnerOfArchive, Zenon DEF TwoFiles
  <2> HIDE DEF r
  <2>3. OutcomeOf(s, r) = Success(TwoFiles, IF s \in Bash THEN << >> ELSE TwoFiles)
    BY <2>1, <2>2, ResultOutcome, Zenon
  <2> QED
    BY <1>1, <2>3, Zenon DEF r
<1>2. CASE type = "file"
  <2>1. /\ r.status = 2 /\ r.body.kind = "result"
        /\ r.body.text = <<"container">> /\ r.body.entries = <<"container">>
    BY <1>2 DEF EmulatorReply, ResultOf
  <2> HIDE DEF r
  <2>2. OutcomeOf(s, r) = Success(<<"container">>, << >>)
    BY <2>1, InnerOfContainer, ResultOutcome, Zenon
  <2> QED
    BY <1>2, <2>2, Zenon DEF r
<1>3. CASE type \in {"none", "image"}
  <2>1. r.status = 4 /\ r.body.kind = "error"
    BY <1>3 DEF EmulatorReply, Body
  <2> HIDE DEF r
  <2>2. OutcomeOf(s, r) = Failure(TRUE)
    BY <2>1, ErrorOutcome
  <2> QED
    BY <1>3, <2>2, Zenon DEF r
<1> QED
  BY <1>1, <1>2, <1>3 DEF Types

\* Under the harness, a connector that goes from one language to another finds the same: the files
\* of an archive without its container, together and, in Go and Python, one by one; or a failure
\* with a reason.
THEOREM SdksAgree == Spec => []SdksAgreeOnEmulator
<1>1. Init => EmulatorInv
  BY StatusType DEF Init, EmulatorInv, NoCall, Types
<1>2. ReplyInv /\ EmulatorInv => SdksAgreeOnEmulator
  <2> SUFFICES ASSUME ReplyInv, EmulatorInv, Answered, sidecar = "emulator"
               PROVE  outcome = CASE call.type = "archive" ->
                                       Success(TwoFiles, IF sdk \in Bash THEN << >> ELSE TwoFiles)
                                  [] call.type = "file" -> Success(<<"container">>, << >>)
                                  [] OTHER -> Failure(TRUE)
    BY Zenon DEF SdksAgreeOnEmulator, TwoFiles
  <2>1. sdk \in Sdks /\ call.type \in Types /\ outcome = OutcomeOf(sdk, EmulatorReply(call.type))
    BY DEF ReplyInv, EmulatorInv, Answered
  <2>2. CASE call.type = "archive"
    BY <2>1, <2>2, EmulatorOutcome
  <2>3. CASE call.type = "file"
    BY <2>1, <2>3, EmulatorOutcome
  <2>4. CASE call.type \in {"none", "image"}
    BY <2>1, <2>4, EmulatorOutcome
  <2> QED
    BY <2>1, <2>2, <2>3, <2>4 DEF Types
<1> QED
  BY <1>1, <1>2, ReplyInit, ReplyStep, EmulatorStep, PTL DEF Spec
=============================================================================
