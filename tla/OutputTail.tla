----------------------------- MODULE OutputTail -----------------------------
(***************************************************************************)
(* What the harness keeps of the worker's output (teeWithTail and          *)
(* outputTail in realruntime.go, as runWorker and runRealRuntime use       *)
(* them).  stdout and stderr each go from a pipe of the docker CLI to a    *)
(* copier, a goroutine of os/exec; through an io.Pipe to a tee, a          *)
(* goroutine of teeWithTail that cuts it into lines; and from both tees    *)
(* into one outputTail, which has no lock.  cmd.Wait waits for the         *)
(* copiers, and nothing waits for the tees, whose pipes are never closed.  *)
(*                                                                         *)
(* A stream is a sequence of pieces: piece 2n-1 is the text of line n, and *)
(* piece 2n the newline that ends it.  Where a stream has got to is the    *)
(* number of its pieces that have.  The header of a slice is loaded and    *)
(* stored as one: a torn one is left out.                                  *)
(***************************************************************************)
EXTENDS Integers, Sequences

CONSTANTS
  Streams,    \* stdout and stderr
  Cap,        \* outputTail.cap (workerOutputTailMax)
  MaxPieces   \* bound on what the worker writes to a stream

ASSUME OutputTailAssumption == Cap \in Nat \ {0} /\ MaxPieces \in Nat

VARIABLES
  running,   \* does the docker CLI run?
  written,   \* pieces in the CLI's pipe, ever
  taken,     \* pieces the copier has read from it
  read,      \* pieces the tee has read from the io.Pipe
  scanned,   \* pieces the tee has dealt with
  pc,        \* "scan", or where the tee is in addLine: "store" or "trim"
  loaded,    \* the slice that addLine appends to
  lines,     \* outputTail.lines: stream and number of each line
  main,      \* the harness: "wait", "copy" in the middle of snapshot, "judge"
  quoted,    \* RunResult.WorkerOutputTail
  log,       \* history: every line added
  raced      \* history: has one tee stored to `lines` while the other was in addLine?

pipes == <<written, taken, read>>
tail  == <<scanned, pc, loaded, lines, log, raced>>
vars  == <<running, pipes, tail, main, quoted>>

Line == [stream : Streams, number : 1..MaxPieces]

\* What snapshot leaves in a slot that it has made and not copied to.
Blank == [stream |-> "none", number |-> 0]

TypeOK ==
  /\ running \in BOOLEAN
  /\ written \in [Streams -> 0..MaxPieces]
  /\ taken \in [Streams -> 0..MaxPieces]
  /\ read \in [Streams -> 0..MaxPieces]
  /\ scanned \in [Streams -> 0..MaxPieces]
  /\ pc \in [Streams -> {"scan", "store", "trim"}]
  /\ loaded \in [Streams -> Seq(Line)]
  /\ lines \in Seq(Line)
  /\ main \in {"wait", "copy", "judge"}
  /\ quoted \in Seq(Line \cup {Blank})
  /\ log \in Seq(Line)
  /\ raced \in BOOLEAN

Init ==
  /\ running = TRUE
  /\ written = [s \in Streams |-> 0]
  /\ taken = [s \in Streams |-> 0]
  /\ read = [s \in Streams |-> 0]
  /\ scanned = [s \in Streams |-> 0]
  /\ pc = [s \in Streams |-> "scan"]
  /\ loaded = [s \in Streams |-> << >>]
  /\ lines = << >>
  /\ main = "wait"
  /\ quoted = << >>
  /\ log = << >>
  /\ raced = FALSE

\* The last Cap elements.
LastOf(seq) == IF Len(seq) > Cap THEN SubSeq(seq, Len(seq) - Cap + 1, Len(seq)) ELSE seq

-----------------------------------------------------------------------------
(* The docker CLI and the copiers of os/exec *)

WorkerWrites(s) ==
  /\ running /\ written[s] < MaxPieces
  /\ written' = [written EXCEPT ![s] = @ + 1]
  /\ UNCHANGED <<running, taken, read, tail, main, quoted>>

\* The CLI exits with its worker, or is killed.
CliExits ==
  /\ running
  /\ running' = FALSE
  /\ UNCHANGED <<pipes, tail, main, quoted>>

\* A copier's io.Copy: it reads some of what is there once its last Write has returned,
\* which it does as soon as the tee has read all of it.
Copy(s) ==
  /\ read[s] = taken[s]
  /\ \E n \in taken[s] + 1..written[s] : taken' = [taken EXCEPT ![s] = n]
  /\ UNCHANGED <<running, written, read, tail, main, quoted>>

-----------------------------------------------------------------------------
(* teeWithTail *)

\* pr.Read, once the last piece of the buffer is dealt with.
Read(s) ==
  /\ scanned[s] = read[s]
  /\ \E n \in read[s] + 1..taken[s] : read' = [read EXCEPT ![s] = n]
  /\ UNCHANGED <<running, written, taken, tail, main, quoted>>

\* Mutant: the tee waits while the tail is full.
ScanWhileRoom(s) ==
  /\ scanned[s] < read[s] /\ pc[s] = "scan" /\ Len(lines) < Cap
  /\ \/ /\ scanned[s] % 2 = 0
        /\ scanned' = [scanned EXCEPT ![s] = @ + 1]
        /\ UNCHANGED <<pc, loaded>>
     \/ /\ scanned[s] % 2 = 1
        /\ pc' = [pc EXCEPT ![s] = "store"]
        /\ loaded' = [loaded EXCEPT ![s] = lines]
        /\ UNCHANGED scanned
  /\ UNCHANGED <<running, pipes, lines, log, raced, main, quoted>>

\* The loop over the buffer: a text is put aside, a newline calls addLine, whose append
\* first loads t.lines.
Scan(s) ==
  /\ scanned[s] < read[s] /\ pc[s] = "scan"
  /\ \/ /\ scanned[s] % 2 = 0
        /\ scanned' = [scanned EXCEPT ![s] = @ + 1]
        /\ UNCHANGED <<pc, loaded>>
     \/ /\ scanned[s] % 2 = 1
        /\ pc' = [pc EXCEPT ![s] = "store"]
        /\ loaded' = [loaded EXCEPT ![s] = lines]
        /\ UNCHANGED scanned
  /\ UNCHANGED <<running, pipes, lines, log, raced, main, quoted>>

\* addLine: t.lines = append(t.lines, s).
Store(s) ==
  LET line == [stream |-> s, number |-> (scanned[s] + 1) \div 2]
  IN  /\ pc[s] = "store"
      /\ pc' = [pc EXCEPT ![s] = "trim"]
      /\ lines' = Append(loaded[s], line)
      /\ log' = Append(log, line)
      /\ raced' = (raced \/ \E t \in Streams \ {s} : pc[t] # "scan")
      /\ UNCHANGED <<running, pipes, scanned, loaded, main, quoted>>

\* Mutant: a ring buffer, which is not turned before it is shown.
TrimRing(s) ==
  /\ pc[s] = "trim"
  /\ pc' = [pc EXCEPT ![s] = "scan"]
  /\ scanned' = [scanned EXCEPT ![s] = @ + 1]
  /\ lines' = IF Len(lines) > Cap
               THEN <<lines[Len(lines)]>> \o SubSeq(lines, 2, Cap)
               ELSE lines
  /\ loaded' = [loaded EXCEPT ![s] = << >>]
  /\ UNCHANGED <<running, pipes, log, raced, main, quoted>>

\* addLine: what is beyond t.cap goes.
Trim(s) ==
  /\ pc[s] = "trim"
  /\ pc' = [pc EXCEPT ![s] = "scan"]
  /\ scanned' = [scanned EXCEPT ![s] = @ + 1]
  /\ lines' = LastOf(lines)
  /\ loaded' = [loaded EXCEPT ![s] = << >>]
  /\ UNCHANGED <<running, pipes, log, raced, main, quoted>>

-----------------------------------------------------------------------------
(* The harness *)

\* cmd.Wait returns when the CLI is gone and both copiers have met the end of their pipes;
\* snapshot makes a slice ...
Wait ==
  /\ main = "wait"
  /\ ~running /\ \A s \in Streams : taken[s] = written[s] /\ read[s] = taken[s]
  /\ main' = "copy"
  /\ quoted' = [i \in DOMAIN lines |-> Blank]
  /\ UNCHANGED <<running, pipes, tail>>

\* ... and copies to it what fits.
CopyLines ==
  /\ main = "copy"
  /\ main' = "judge"
  /\ quoted' = [i \in DOMAIN quoted |-> IF i \in DOMAIN lines THEN lines[i] ELSE Blank]
  /\ UNCHANGED <<running, pipes, tail>>

Tee(s) == Read(s) \/ Scan(s) \/ Store(s) \/ Trim(s)

Harness == Wait \/ CopyLines

Next ==
  \/ CliExits \/ Harness
  \/ \E s \in Streams : WorkerWrites(s) \/ Copy(s) \/ Tee(s)

Safety == Init /\ [][Next]_vars

\* Every goroutine that can run does; none for the worker.
Fairness ==
  WF_vars(Harness) /\ \A s \in Streams : WF_vars(Copy(s)) /\ WF_vars(Tee(s))

Spec == Safety /\ Fairness

-----------------------------------------------------------------------------
\* Without a race of the two tees the tail is what it is meant to be: the last Cap lines,
\* of both streams, in the order in which they were added.
ExactUnlessRaced ==
  ~raced /\ (\A s \in Streams : pc[s] # "trim") => lines = LastOf(log)

\* Races lose lines, but never make up, repeat or reorder those of one stream.
QuotedInOrder ==
  \A i, j \in DOMAIN quoted :
    quoted[i] # Blank /\ quoted[j] # Blank /\ quoted[i].stream = quoted[j].stream =>
      /\ 2 * quoted[j].number <= written[quoted[j].stream]
      /\ i < j => quoted[i].number < quoted[j].number

\* However full the pipes are, a worker that is gone is judged.
DeadWorkerIsJudged == ~running ~> main = "judge"
=============================================================================
