-------------------------- MODULE OutputTail_proofs --------------------------
(***************************************************************************)
(* Proofs about OutputTail, for any number of streams, and a tail and      *)
(* streams of any length.                                                  *)
(***************************************************************************)
EXTENDS OutputTail, TLAPS

-----------------------------------------------------------------------------
(* The last Cap elements of a sequence *)

LEMMA LastOfElements ==
  ASSUME NEW seq \in Seq(Line)
  PROVE  /\ LastOf(seq) \in Seq(Line)
         /\ Len(LastOf(seq)) = IF Len(seq) > Cap THEN Cap ELSE Len(seq)
         /\ \A i \in 1..Len(LastOf(seq)) :
              LastOf(seq)[i] = seq[i + (IF Len(seq) > Cap THEN Len(seq) - Cap ELSE 0)]
<1> USE OutputTailAssumption
<1>1. CASE Len(seq) > Cap
  <2>1. LastOf(seq) = SubSeq(seq, Len(seq) - Cap + 1, Len(seq))
    BY <1>1 DEF LastOf
  <2>2. \A i \in Len(seq) - Cap + 1..Len(seq) : seq[i] \in Line
    BY <1>1
  <2> QED
    BY <1>1, <2>1, <2>2
<1>2. CASE ~(Len(seq) > Cap)
  BY <1>2 DEF LastOf
<1> QED
  BY <1>1, <1>2

LEMMA SequencesEqual ==
  ASSUME NEW a \in Seq(Line), NEW b \in Seq(Line), Len(a) = Len(b),
         \A i \in 1..Len(a) : a[i] = b[i]
  PROVE  a = b
OBVIOUS

LEMMA LastOfLast ==
  ASSUME NEW seq \in Seq(Line)
  PROVE  LastOf(LastOf(seq)) = LastOf(seq)
BY LastOfElements, OutputTailAssumption DEF LastOf

\* Two sequences with the same end have the same end after one more element.
LEMMA LastOfAppend ==
  ASSUME NEW a \in Seq(Line), NEW b \in Seq(Line), NEW x \in Line, LastOf(a) = LastOf(b)
  PROVE  LastOf(Append(a, x)) = LastOf(Append(b, x))
<1> DEFINE ax == Append(a, x)
           bx == Append(b, x)
<1> USE OutputTailAssumption
<1>1. ax \in Seq(Line) /\ bx \in Seq(Line) /\ Len(ax) = Len(a) + 1 /\ Len(bx) = Len(b) + 1
  OBVIOUS
<1>2. /\ \A i \in 1..Len(a) : ax[i] = a[i]
      /\ \A i \in 1..Len(b) : bx[i] = b[i]
      /\ ax[Len(a) + 1] = x /\ bx[Len(b) + 1] = x
  OBVIOUS
<1> HIDE DEF ax, bx
<1> DEFINE la == LastOf(a)  lb == LastOf(b)  lax == LastOf(ax)  lbx == LastOf(bx)
<1>3. /\ Len(a) \in Nat /\ Len(b) \in Nat /\ Len(ax) \in Nat /\ Len(bx) \in Nat
  BY <1>1
<1>a. /\ Len(la) = IF Len(a) > Cap THEN Cap ELSE Len(a)
      /\ \A i \in 1..Len(la) : la[i] = a[i + (IF Len(a) > Cap THEN Len(a) - Cap ELSE 0)]
  BY LastOfElements
<1>b. /\ Len(lb) = IF Len(b) > Cap THEN Cap ELSE Len(b)
      /\ \A i \in 1..Len(lb) : lb[i] = b[i + (IF Len(b) > Cap THEN Len(b) - Cap ELSE 0)]
  BY LastOfElements
<1>c. /\ lax \in Seq(Line)
      /\ Len(lax) = IF Len(ax) > Cap THEN Cap ELSE Len(ax)
      /\ \A i \in 1..Len(lax) : lax[i] = ax[i + (IF Len(ax) > Cap THEN Len(ax) - Cap ELSE 0)]
  BY <1>1, LastOfElements
<1>d. /\ lbx \in Seq(Line)
      /\ Len(lbx) = IF Len(bx) > Cap THEN Cap ELSE Len(bx)
      /\ \A i \in 1..Len(lbx) : lbx[i] = bx[i + (IF Len(bx) > Cap THEN Len(bx) - Cap ELSE 0)]
  BY <1>1, LastOfElements
<1>e. la = lb
  OBVIOUS
<1> HIDE DEF la, lb, lax, lbx
<1>4. Len(lax) = Len(lbx)
  BY <1>1, <1>3, <1>a, <1>b, <1>c, <1>d, <1>e
<1>5. ASSUME NEW i \in 1..Len(lax) PROVE lax[i] = lbx[i]
  <2>1. CASE Len(a) < Cap
    <3>1. Len(b) < Cap /\ Len(a) = Len(b)
      BY <1>3, <1>a, <1>b, <1>e, <2>1
    <3>2. lax[i] = ax[i] /\ lbx[i] = bx[i] /\ i \in 1..Len(a) + 1
      BY <1>1, <1>3, <1>4, <1>c, <1>d, <2>1, <3>1
    <3>3. CASE i = Len(a) + 1
      BY <1>2, <3>1, <3>2, <3>3
    <3>4. CASE i \in 1..Len(a)
      <4>1. la[i] = a[i] /\ lb[i] = b[i]
        BY <1>3, <1>a, <1>b, <2>1, <3>1, <3>4
      <4> QED
        BY <1>2, <1>e, <3>1, <3>2, <3>4, <4>1
    <3> QED
      BY <1>3, <3>2, <3>3, <3>4
  <2>2. CASE Len(a) >= Cap
    <3>1. Len(b) >= Cap /\ Len(la) = Cap /\ Len(lb) = Cap /\ Len(lax) = Cap
      BY <1>1, <1>3, <1>a, <1>b, <1>c, <1>e, <2>2
    <3>2. lax[i] = ax[i + (Len(a) + 1 - Cap)] /\ lbx[i] = bx[i + (Len(b) + 1 - Cap)]
      <4>1. lax[i] = ax[i + (Len(a) + 1 - Cap)]
        <5>1. Len(ax) > Cap /\ Len(ax) - Cap = Len(a) + 1 - Cap
          BY <1>1, <1>3, <2>2
        <5> QED
          BY <1>c, <5>1, Zenon
      <4>2. lbx[i] = bx[i + (Len(b) + 1 - Cap)]
        <5>1. Len(bx) > Cap /\ Len(bx) - Cap = Len(b) + 1 - Cap
          BY <1>1, <1>3, <3>1
        <5> QED
          BY <1>4, <1>d, <5>1, Zenon
      <4> QED
        BY <4>1, <4>2
    <3>3. CASE i = Cap
      BY <1>2, <1>3, <3>2, <3>3
    <3>4. CASE i < Cap
      <4>1. /\ la[i + 1] = a[i + 1 + (Len(a) - Cap)]
            /\ lb[i + 1] = b[i + 1 + (Len(b) - Cap)]
        BY <1>3, <1>a, <1>b, <2>2, <3>1, <3>4
      <4>2. /\ i + 1 + (Len(a) - Cap) = i + (Len(a) + 1 - Cap)
            /\ i + 1 + (Len(b) - Cap) = i + (Len(b) + 1 - Cap)
            /\ i + (Len(a) + 1 - Cap) \in 1..Len(a)
            /\ i + (Len(b) + 1 - Cap) \in 1..Len(b)
        BY <1>3, <2>2, <3>1, <3>4
      <4> QED
        BY <1>2, <1>e, <3>2, <4>1, <4>2
    <3> QED
      BY <3>1, <3>3, <3>4
  <2> QED
    BY <1>3, <2>1, <2>2
<1>6. lax = lbx
  BY <1>4, <1>5, <1>c, <1>d, SequencesEqual
<1> QED
  BY <1>6 DEF ax, bx, lax, lbx
-----------------------------------------------------------------------------
(* The type invariant *)

\* What it rests on: a stream's pieces go from one place to the next, and a tee that adds a
\* line stands before the newline of a text that it has.
Flow ==
  \A s \in Streams :
    /\ scanned[s] <= read[s] /\ read[s] <= taken[s] /\ taken[s] <= written[s]
    /\ pc[s] # "scan" => scanned[s] % 2 = 1 /\ scanned[s] < read[s]

TypeInv == TypeOK /\ Flow

LEMMA TypeInit == Init => TypeInv
<1> SUFFICES ASSUME Init PROVE TypeInv
  OBVIOUS
<1> USE OutputTailAssumption DEF Init
<1>1. << >> \in Seq(Line) /\ << >> \in Seq(Line \cup {Blank})
  OBVIOUS
<1>2. /\ written \in [Streams -> 0..MaxPieces] /\ taken \in [Streams -> 0..MaxPieces]
      /\ read \in [Streams -> 0..MaxPieces] /\ scanned \in [Streams -> 0..MaxPieces]
  OBVIOUS
<1>3. /\ pc \in [Streams -> {"scan", "store", "trim"}] /\ loaded \in [Streams -> Seq(Line)]
  BY <1>1
<1>4. TypeOK
  BY <1>1, <1>2, <1>3 DEF TypeOK
<1>5. Flow
  <2>1. \A s \in Streams : /\ scanned[s] = 0 /\ read[s] = 0 /\ taken[s] = 0
                          /\ written[s] = 0 /\ pc[s] = "scan"
    OBVIOUS
  <2> HIDE DEF Init
  <2>2. 0 <= 0
    OBVIOUS
  <2> QED
    BY <2>1, <2>2, Zenon DEF Flow
<1> QED
  BY <1>4, <1>5 DEF TypeInv

LEMMA LineType ==
  ASSUME TypeInv, NEW s \in Streams, pc[s] # "scan"
  PROVE  [stream |-> s, number |-> (scanned[s] + 1) \div 2] \in Line
<1>1. /\ MaxPieces \in Nat /\ scanned[s] \in Nat /\ scanned[s] < MaxPieces
      /\ scanned[s] % 2 = 1
  BY OutputTailAssumption DEF TypeInv, TypeOK, Flow
<1> DEFINE n == scanned[s]
<1>2. (n + 1) \div 2 \in 1..MaxPieces
  <2>1. n \in Nat /\ n < MaxPieces /\ MaxPieces \in Nat /\ n >= 1
    BY <1>1
  <2> HIDE DEF n
  <2> QED
    BY <2>1
<1> QED
  BY <1>2 DEF Line

LEMMA TypeStep == TypeInv /\ [Next]_vars => TypeInv'
<1> SUFFICES ASSUME TypeInv, [Next]_vars PROVE TypeInv'
  OBVIOUS
<1> USE OutputTailAssumption DEF TypeInv
<1>1. CASE UNCHANGED vars
  BY <1>1 DEF vars, pipes, tail, TypeOK, Flow
<1>2. CASE CliExits
  BY <1>2 DEF CliExits, pipes, tail, TypeOK, Flow
<1>3. CASE Wait
  <2>1. [i \in DOMAIN lines |-> Blank] \in Seq(Line \cup {Blank})
    BY DEF TypeOK
  <2> QED
    BY <1>3, <2>1 DEF Wait, pipes, tail, TypeOK, Flow
<1>4. CASE CopyLines
  <2> DEFINE copied == [i \in DOMAIN quoted |-> IF i \in DOMAIN lines THEN lines[i] ELSE Blank]
  <2>a. DOMAIN quoted = 1..Len(quoted) /\ Len(quoted) \in Nat
    BY DEF TypeOK
  <2>b. \A i \in DOMAIN lines : lines[i] \in Line
    BY DEF TypeOK
  <2>c. \A i \in DOMAIN quoted : copied[i] \in Line \cup {Blank}
    BY <2>b, Zenon
  <2>1. copied \in Seq(Line \cup {Blank})
    <3>1. copied \in [1..Len(quoted) -> Line \cup {Blank}]
      BY <2>a, <2>c, Zenon
    <3> HIDE DEF copied
    <3> QED
      BY <2>a, <3>1
  <2> QED
    BY <1>4, <2>1 DEF CopyLines, pipes, tail, TypeOK, Flow
<1>5. ASSUME NEW s \in Streams, WorkerWrites(s) PROVE TypeInv'
  BY <1>5 DEF WorkerWrites, tail, TypeOK, Flow
<1>6. ASSUME NEW s \in Streams, Copy(s) PROVE TypeInv'
  <2>1. PICK n \in taken[s] + 1..written[s] : taken' = [taken EXCEPT ![s] = n]
    BY <1>6 DEF Copy
  <2> QED
    BY <1>6, <2>1 DEF Copy, tail, TypeOK, Flow
<1>7. ASSUME NEW s \in Streams, Read(s) PROVE TypeInv'
  <2>1. PICK n \in read[s] + 1..taken[s] : read' = [read EXCEPT ![s] = n]
    BY <1>7 DEF Read
  <2> QED
    BY <1>7, <2>1 DEF Read, tail, TypeOK, Flow
<1>8. ASSUME NEW s \in Streams, Scan(s) PROVE TypeInv'
  <2>1. CASE scanned[s] % 2 = 0
    <3>1. /\ UNCHANGED <<running, written, taken, read, pc, loaded, lines, log, raced>>
          /\ UNCHANGED <<main, quoted>>
          /\ scanned' = [scanned EXCEPT ![s] = @ + 1]
          /\ scanned[s] < read[s] /\ pc[s] = "scan"
      BY <1>8, <2>1 DEF Scan, pipes
    <3>2. scanned[s] + 1 \in 0..MaxPieces
      BY <3>1 DEF TypeOK
    <3>3. TypeOK'
      BY <3>1, <3>2 DEF TypeOK
    <3>4. Flow'
      BY <3>1 DEF TypeOK, Flow
    <3> QED
      BY <3>3, <3>4
  <2>2. CASE scanned[s] % 2 = 1
    <3>1. /\ UNCHANGED <<running, written, taken, read, scanned, lines, log, raced, main, quoted>>
          /\ pc' = [pc EXCEPT ![s] = "store"] /\ loaded' = [loaded EXCEPT ![s] = lines]
          /\ scanned[s] < read[s]
      BY <1>8, <2>2 DEF Scan, pipes
    <3>2. TypeOK'
      BY <3>1 DEF TypeOK
    <3>3. Flow'
      BY <2>2, <3>1 DEF TypeOK, Flow
    <3> QED
      BY <3>2, <3>3
  <2> QED
    BY <1>8, <2>1, <2>2 DEF Scan
<1>9. ASSUME NEW s \in Streams, Store(s) PROVE TypeInv'
  <2> DEFINE line == [stream |-> s, number |-> (scanned[s] + 1) \div 2]
  <2>1. line \in Line
    BY <1>9, LineType DEF Store
  <2>2. Append(loaded[s], line) \in Seq(Line) /\ Append(log, line) \in Seq(Line)
    BY <2>1 DEF TypeOK
  <2>3. lines' = Append(loaded[s], line) /\ log' = Append(log, line)
    BY <1>9 DEF Store
  <2> HIDE DEF line
  <2>4. lines' \in Seq(Line) /\ log' \in Seq(Line)
    BY <2>2, <2>3
  <2>5. raced' \in BOOLEAN
    BY <1>9 DEF Store, TypeOK
  <2> QED
    BY <1>9, <2>4, <2>5 DEF Store, pipes, TypeOK, Flow
<1>10. ASSUME NEW s \in Streams, Trim(s) PROVE TypeInv'
  <2>1. LastOf(lines) \in Seq(Line)
    BY LastOfElements DEF TypeOK
  <2>2. << >> \in Seq(Line)
    OBVIOUS
  <2> QED
    BY <1>10, <2>1, <2>2 DEF Trim, pipes, TypeOK, Flow
<1> QED
  BY <1>1, <1>2, <1>3, <1>4, <1>5, <1>6, <1>7, <1>8, <1>9, <1>10 DEF Next, Harness, Tee

\* Every variable keeps its type, however the two tees overwrite each other's slice: what is
\* kept and what is quoted are lines of the output.
THEOREM TypeCorrect == Spec => []TypeOK
<1>1. TypeInv => TypeOK
  BY DEF TypeInv
<1> QED
  BY TypeInit, TypeStep, <1>1, PTL DEF Spec, Safety

-----------------------------------------------------------------------------
(* The tail between races *)

\* The two slices a tee may be about to append to, t.lines and the one it has loaded, end as
\* the log does; only a tee that has stored and not yet trimmed leaves more than that end.
TailInv ==
  ~raced =>
    /\ LastOf(lines) = LastOf(log)
    /\ \A s \in Streams : pc[s] = "store" => LastOf(loaded[s]) = LastOf(log)
    /\ (\A s \in Streams : pc[s] # "trim") => lines = LastOf(log)

LEMMA TailInit == Init => TailInv
BY OutputTailAssumption DEF Init, TailInv, LastOf

LEMMA TailStep == TypeInv /\ TailInv /\ [Next]_vars => TailInv'
<1> SUFFICES ASSUME TypeInv, TailInv, [Next]_vars, ~raced' PROVE TailInv'
  BY DEF TailInv
<1>1. lines \in Seq(Line) /\ log \in Seq(Line) /\ loaded \in [Streams -> Seq(Line)]
      /\ pc \in [Streams -> {"scan", "store", "trim"}]
  BY DEF TypeInv, TypeOK
<1>2. CASE UNCHANGED <<pc, loaded, lines, log, raced>>
  BY <1>2 DEF TailInv, LastOf
<1>3. ASSUME NEW s \in Streams, Scan(s) PROVE TailInv'
  <2>1. CASE UNCHANGED <<pc, loaded>>
    BY <1>2, <1>3, <2>1 DEF Scan
  <2>2. CASE /\ pc' = [pc EXCEPT ![s] = "store"]
             /\ loaded' = [loaded EXCEPT ![s] = lines]
    <3>1. UNCHANGED <<lines, log, raced>>
      BY <1>3 DEF Scan
    <3>2. LastOf(lines)' = LastOf(lines) /\ LastOf(log)' = LastOf(log)
      BY <3>1 DEF LastOf
    <3>3. \A t \in Streams : pc'[t] = "store" => LastOf(loaded'[t]) = LastOf(log)
      BY <1>1, <2>2, <3>1 DEF TailInv
    <3>4. (\A t \in Streams : pc'[t] # "trim") => \A t \in Streams : pc[t] # "trim"
      BY <1>1, <1>3, <2>2 DEF Scan
    <3> QED
      BY <3>1, <3>2, <3>3, <3>4 DEF TailInv, LastOf
  <2> QED
    BY <1>3, <2>1, <2>2 DEF Scan
<1>4. ASSUME NEW s \in Streams, Store(s) PROVE TailInv'
  <2> DEFINE line == [stream |-> s, number |-> (scanned[s] + 1) \div 2]
  <2>1. line \in Line
    BY <1>4, LineType DEF Store
  <2>2. /\ lines' = Append(loaded[s], line) /\ log' = Append(log, line)
        /\ pc[s] = "store" /\ pc' = [pc EXCEPT ![s] = "trim"]
        /\ ~raced /\ \A t \in Streams \ {s} : pc[t] = "scan"
    BY <1>1, <1>4 DEF Store
  <2> HIDE DEF line
  <2>3. LastOf(loaded[s]) = LastOf(log) /\ loaded[s] \in Seq(Line)
    BY <1>1, <2>2 DEF TailInv
  <2>4. LastOf(Append(loaded[s], line)) = LastOf(Append(log, line))
    BY <1>1, <2>1, <2>3, LastOfAppend
  <2>5. LastOf(lines') = LastOf(log')
    BY <2>2, <2>4
  <2>6. \A t \in Streams : pc'[t] # "store"
    BY <1>1, <2>2
  <2>7. pc'[s] = "trim"
    BY <1>1, <2>2
  <2> QED
    BY <2>5, <2>6, <2>7 DEF TailInv, LastOf
<1>5. ASSUME NEW s \in Streams, Trim(s) PROVE TailInv'
  <2>1. /\ pc' = [pc EXCEPT ![s] = "scan"] /\ loaded' = [loaded EXCEPT ![s] = << >>]
        /\ lines' = LastOf(lines) /\ log' = log /\ ~raced
    BY <1>5 DEF Trim
  <2>2. LastOf(lines) = LastOf(log)
    BY <2>1 DEF TailInv
  <2>3. LastOf(lines') = LastOf(log') /\ lines' = LastOf(log')
    BY <1>1, <2>1, <2>2, LastOfLast
  <2>4. \A t \in Streams : pc'[t] = "store" => LastOf(loaded'[t]) = LastOf(log')
    BY <1>1, <2>1 DEF TailInv
  <2> QED
    BY <2>3, <2>4 DEF TailInv, LastOf
<1>6. CASE UNCHANGED vars \/ CliExits \/ Harness
  BY <1>2, <1>6 DEF vars, tail, CliExits, Harness, Wait, CopyLines
<1>7. ASSUME NEW s \in Streams, WorkerWrites(s) \/ Copy(s) \/ Read(s) PROVE TailInv'
  BY <1>2, <1>7 DEF WorkerWrites, Copy, Read, tail
<1> QED
  BY <1>3, <1>4, <1>5, <1>6, <1>7 DEF Next, Tee

\* As long as the two tees have not added lines at the same time, the tail is the last Cap lines
\* of the output (outputTail.addLine): what is wrong with it is the missing lock, not the trimming.
THEOREM TailIsExact == Spec => []ExactUnlessRaced
<1>1. TailInv => ExactUnlessRaced
  BY DEF TailInv, ExactUnlessRaced
<1> QED
  BY TypeInit, TypeStep, TailInit, TailStep, <1>1, PTL DEF Spec, Safety

-----------------------------------------------------------------------------
(* The order of the lines of a stream *)

\* The pieces of a stream that are in lines of the tail.
Limit(s) == scanned[s] + IF pc[s] = "trim" THEN 1 ELSE 0

\* The same after a step.
NewLimit(s) == scanned'[s] + IF pc'[s] = "trim" THEN 1 ELSE 0

Increasing(q) ==
  \A i, j \in 1..Len(q) : i < j /\ q[i].stream = q[j].stream => q[i].number < q[j].number

Reached(q) == \A i \in 1..Len(q) : 2 * q[i].number <= Limit(q[i].stream)

NewReached(q) == \A i \in 1..Len(q) : 2 * q[i].number <= NewLimit(q[i].stream)

\* Both slices are in order, and the one that a tee has loaded has no line as late as the one it
\* will append, since only this tee adds lines of its stream.
OrderInv ==
  /\ Increasing(lines) /\ Reached(lines)
  /\ \A s \in Streams : pc[s] = "store" => Increasing(loaded[s]) /\ Reached(loaded[s])

LEMMA LimitGrows ==
  ASSUME TypeInv, [Next]_vars, NEW s \in Streams
  PROVE  Limit(s) \in Nat /\ NewLimit(s) \in Nat /\ Limit(s) <= NewLimit(s)
<1>1. /\ scanned \in [Streams -> 0..MaxPieces] /\ pc \in [Streams -> {"scan", "store", "trim"}]
      /\ scanned' \in [Streams -> 0..MaxPieces]
  BY TypeStep DEF TypeInv, TypeOK
<1>2. scanned[s] \in Nat /\ scanned'[s] \in Nat
  BY <1>1, OutputTailAssumption
<1>3. CASE UNCHANGED <<scanned, pc>>
  BY <1>2, <1>3 DEF Limit, NewLimit
<1>4. ASSUME NEW t \in Streams, Scan(t) PROVE Limit(s) <= NewLimit(s)
  <2>1. /\ pc[t] = "scan" /\ pc' \in {pc, [pc EXCEPT ![t] = "store"]}
        /\ scanned' \in {scanned, [scanned EXCEPT ![t] = @ + 1]}
    BY <1>4 DEF Scan
  <2>2. (pc'[s] = "trim" <=> pc[s] = "trim") /\ scanned'[s] >= scanned[s]
    BY <1>1, <1>2, <2>1
  <2> QED
    BY <1>2, <2>2 DEF Limit, NewLimit
<1>5. ASSUME NEW t \in Streams, Store(t) PROVE Limit(s) <= NewLimit(s)
  <2>1. scanned' = scanned /\ pc[t] = "store" /\ pc' = [pc EXCEPT ![t] = "trim"]
    BY <1>5 DEF Store
  <2>2. pc[s] = "trim" => pc'[s] = "trim"
    BY <1>1, <2>1
  <2> QED
    BY <1>2, <2>1, <2>2 DEF Limit, NewLimit
<1>6. ASSUME NEW t \in Streams, Trim(t) PROVE Limit(s) <= NewLimit(s)
  <2>1. /\ scanned' = [scanned EXCEPT ![t] = @ + 1] /\ pc[t] = "trim"
        /\ pc' = [pc EXCEPT ![t] = "scan"]
    BY <1>6 DEF Trim
  <2>2. CASE s = t
    <3>1. scanned'[s] = scanned[s] + 1 /\ pc[s] = "trim" /\ pc'[s] = "scan"
      BY <1>1, <2>1, <2>2
    <3> QED
      BY <1>2, <3>1 DEF Limit, NewLimit
  <2>3. CASE s # t
    <3>1. scanned'[s] = scanned[s] /\ pc'[s] = pc[s]
      BY <1>1, <2>1, <2>3
    <3> QED
      BY <1>2, <3>1 DEF Limit, NewLimit
  <2> QED
    BY <2>2, <2>3
<1>7. Limit(s) \in Nat /\ NewLimit(s) \in Nat
  BY <1>2 DEF Limit, NewLimit
<1>8. CASE UNCHANGED vars \/ CliExits \/ Harness
  BY <1>3, <1>8 DEF vars, tail, CliExits, Harness, Wait, CopyLines
<1>9. ASSUME NEW t \in Streams, WorkerWrites(t) \/ Copy(t) \/ Read(t) PROVE Limit(s) <= NewLimit(s)
  BY <1>3, <1>9 DEF WorkerWrites, Copy, Read, tail
<1> QED
  BY <1>4, <1>5, <1>6, <1>7, <1>8, <1>9 DEF Next, Tee

LEMMA LastOfInOrder ==
  ASSUME TypeInv, NEW q \in Seq(Line), Increasing(q), Reached(q)
  PROVE  Increasing(LastOf(q)) /\ Reached(LastOf(q))
<1> DEFINE l == LastOf(q)
           d == IF Len(q) > Cap THEN Len(q) - Cap ELSE 0
<1>1. /\ Len(q) \in Nat /\ d \in Nat /\ Len(l) \in Nat /\ Len(l) + d = Len(q)
      /\ \A i \in 1..Len(l) : l[i] = q[i + d]
  <2>1. Len(q) \in Nat /\ Cap \in Nat \ {0} /\ l \in Seq(Line)
    BY LastOfElements, OutputTailAssumption
  <2>2. /\ Len(l) = IF Len(q) > Cap THEN Cap ELSE Len(q)
        /\ \A i \in 1..Len(l) : l[i] = q[i + d]
    BY LastOfElements
  <2> HIDE DEF l
  <2> QED
    BY <2>1, <2>2
<1> HIDE DEF l, d
<1>2. Increasing(l)
  <2>1. \A i, j \in 1..Len(l) : i < j => i + d \in 1..Len(q) /\ j + d \in 1..Len(q) /\ i + d < j + d
    BY <1>1
  <2> QED
    BY <1>1, <2>1 DEF Increasing
<1>3. Reached(l)
  <2>1. \A i \in 1..Len(l) : i + d \in 1..Len(q)
    BY <1>1
  <2> QED
    BY <1>1, <2>1 DEF Reached
<1> QED
  BY <1>2, <1>3 DEF l

\* What is in order stays so, and the limits only grow.
LEMMA ReachedStays ==
  ASSUME TypeInv, [Next]_vars, NEW q \in Seq(Line), Reached(q)
  PROVE  NewReached(q)
<1> SUFFICES ASSUME NEW i \in 1..Len(q) PROVE 2 * q[i].number <= NewLimit(q[i].stream)
  BY DEF NewReached
<1> DEFINE n == q[i].number
           t == q[i].stream
<1>1. t \in Streams /\ n \in Nat
  <2>1. q[i] \in Line
    OBVIOUS
  <2> QED
    BY <2>1, OutputTailAssumption DEF Line
<1>2. 2 * n <= Limit(t)
  BY DEF Reached
<1> HIDE DEF n, t
<1>3. Limit(t) \in Nat /\ NewLimit(t) \in Nat /\ Limit(t) <= NewLimit(t)
  BY <1>1, LimitGrows
<1>4. 2 * n <= NewLimit(t)
  BY <1>1, <1>2, <1>3
<1> QED
  BY <1>4 DEF n, t

LEMMA ReachedPrimed ==
  /\ NewReached(lines') => Reached(lines)'
  /\ \A s \in Streams : NewReached(loaded'[s]) => Reached(loaded[s])'
BY DEF NewReached, NewLimit, Reached, Limit

LEMMA OrderStep == TypeInv /\ OrderInv /\ [Next]_vars => OrderInv'
<1> SUFFICES ASSUME TypeInv, OrderInv, [Next]_vars PROVE OrderInv'
  OBVIOUS
<1>1. /\ lines \in Seq(Line) /\ loaded \in [Streams -> Seq(Line)]
      /\ pc \in [Streams -> {"scan", "store", "trim"}]
  BY DEF TypeInv, TypeOK
<1>2. Increasing(lines) /\ Reached(lines)
  BY DEF OrderInv
<1>3. ASSUME lines' = lines PROVE Increasing(lines)' /\ Reached(lines)'
  BY <1>1, <1>2, <1>3, ReachedStays, ReachedPrimed DEF Increasing
<1>4. ASSUME NEW t \in Streams, pc'[t] = "store", loaded'[t] = loaded[t], pc[t] = "store"
      PROVE  Increasing(loaded[t])' /\ Reached(loaded[t])'
  <2>1. Increasing(loaded[t]) /\ Reached(loaded[t])
    BY <1>4 DEF OrderInv
  <2> QED
    BY <1>1, <1>4, <2>1, ReachedStays, ReachedPrimed DEF Increasing
<1>5. CASE UNCHANGED <<pc, loaded, lines>>
  BY <1>3, <1>4, <1>5 DEF OrderInv
<1>6. ASSUME NEW s \in Streams, Scan(s) PROVE OrderInv'
  <2>1. CASE UNCHANGED <<pc, loaded>>
    BY <1>5, <1>6, <2>1 DEF Scan
  <2>2. CASE /\ pc' = [pc EXCEPT ![s] = "store"]
             /\ loaded' = [loaded EXCEPT ![s] = lines]
    <3>1. lines' = lines
      BY <1>6 DEF Scan
    <3>2. loaded'[s] = lines
      BY <1>1, <2>2
    <3>3. Increasing(loaded[s])' /\ Reached(loaded[s])'
      BY <1>1, <1>2, <3>2, ReachedStays, ReachedPrimed DEF Increasing
    <3>4. ASSUME NEW t \in Streams, t # s, pc'[t] = "store"
          PROVE  Increasing(loaded[t])' /\ Reached(loaded[t])'
      BY <1>1, <1>4, <2>2, <3>4
    <3> QED
      BY <1>3, <3>1, <3>3, <3>4 DEF OrderInv
  <2> QED
    BY <1>6, <2>1, <2>2 DEF Scan
<1>7. ASSUME NEW s \in Streams, Store(s) PROVE OrderInv'
  <2> DEFINE n == (scanned[s] + 1) \div 2
             line == [stream |-> s, number |-> n]
             old == loaded[s]
  <2>1. /\ pc[s] = "store" /\ pc' = [pc EXCEPT ![s] = "trim"]
        /\ lines' = Append(old, line) /\ scanned' = scanned /\ loaded' = loaded
    BY <1>7 DEF Store
  <2>2. old \in Seq(Line) /\ Increasing(old) /\ Reached(old)
    BY <1>1, <2>1 DEF OrderInv
  <2>3. /\ Len(lines') = Len(old) + 1 /\ Len(old) \in Nat
        /\ \A i \in 1..Len(old) : lines'[i] = old[i]
        /\ lines'[Len(old) + 1] = line
    BY <2>1, <2>2
  <2>4. scanned[s] \in Nat /\ scanned[s] % 2 = 1
    BY <2>1, OutputTailAssumption DEF TypeInv, TypeOK, Flow
  <2>5. n \in Nat /\ 2 * n = scanned[s] + 1
    BY <2>4
  <2>6. Limit(s) = scanned[s] /\ NewLimit(s) = scanned[s] + 1
    <3>1. pc[s] # "trim" /\ pc'[s] = "trim" /\ scanned'[s] = scanned[s]
      BY <1>1, <2>1
    <3> QED
      BY <2>4, <3>1 DEF Limit, NewLimit
  <2>7. line.stream = s /\ line.number = n
    OBVIOUS
  <2> HIDE DEF n, line, old
  <2>8. \A i \in 1..Len(old) : old[i].number \in Nat
    <3>1. \A i \in 1..Len(old) : old[i] \in Line
      BY <2>2
    <3> QED
      BY <3>1, OutputTailAssumption DEF Line
  <2>9. Increasing(lines)'
    <3>1. ASSUME NEW i \in 1..Len(old), old[i].stream = s PROVE old[i].number < n
      BY <2>2, <2>4, <2>5, <2>6, <2>8, <3>1 DEF Reached
    <3>2. ASSUME NEW i \in 1..Len(lines'), NEW j \in 1..Len(lines'), i < j,
                 lines'[i].stream = lines'[j].stream
          PROVE  lines'[i].number < lines'[j].number
      <4>1. i \in 1..Len(old) /\ (j \in 1..Len(old) \/ j = Len(old) + 1)
        BY <2>3, <3>2
      <4>2. CASE j \in 1..Len(old)
        BY <2>2, <2>3, <3>2, <4>1, <4>2 DEF Increasing
      <4>3. CASE j = Len(old) + 1
        BY <2>3, <2>7, <3>1, <3>2, <4>1, <4>3
      <4> QED
        BY <4>1, <4>2, <4>3
    <3> QED
      BY <3>2 DEF Increasing
  <2>10. Reached(lines)'
    <3>1. \A i \in 1..Len(old) : 2 * old[i].number <= NewLimit(old[i].stream)
      BY <2>2, ReachedStays DEF NewReached
    <3>2. 2 * n <= NewLimit(s)
      BY <2>4, <2>5, <2>6
    <3>3. \A i \in 1..Len(lines') : i \in 1..Len(old) \/ i = Len(old) + 1
      BY <2>3
    <3>4. ASSUME NEW i \in 1..Len(lines') PROVE 2 * lines'[i].number <= NewLimit(lines'[i].stream)
      <4>1. CASE i \in 1..Len(old)
        BY <2>3, <3>1, <4>1
      <4>2. CASE i = Len(old) + 1
        BY <2>3, <2>7, <3>2, <4>2
      <4> QED
        BY <3>3, <4>1, <4>2
    <3> QED
      BY <3>4, ReachedPrimed DEF NewReached
  <2>11. ASSUME NEW t \in Streams, pc'[t] = "store"
         PROVE  Increasing(loaded[t])' /\ Reached(loaded[t])'
    BY <1>1, <1>4, <2>1, <2>11
  <2> QED
    BY <2>9, <2>10, <2>11 DEF OrderInv
<1>8. ASSUME NEW s \in Streams, Trim(s) PROVE OrderInv'
  <2>1. /\ pc' = [pc EXCEPT ![s] = "scan"] /\ loaded' = [loaded EXCEPT ![s] = << >>]
        /\ lines' = LastOf(lines)
    BY <1>8 DEF Trim
  <2>2. LastOf(lines) \in Seq(Line) /\ Increasing(LastOf(lines)) /\ Reached(LastOf(lines))
    BY <1>1, <1>2, LastOfElements, LastOfInOrder
  <2>3. Increasing(lines)' /\ Reached(lines)'
    BY <2>1, <2>2, ReachedStays, ReachedPrimed DEF Increasing
  <2>4. ASSUME NEW t \in Streams, pc'[t] = "store"
        PROVE  Increasing(loaded[t])' /\ Reached(loaded[t])'
    BY <1>1, <1>4, <2>1, <2>4
  <2> QED
    BY <2>3, <2>4 DEF OrderInv
<1>9. CASE UNCHANGED vars \/ CliExits \/ Harness
  BY <1>5, <1>9 DEF vars, tail, CliExits, Harness, Wait, CopyLines
<1>10. ASSUME NEW s \in Streams, WorkerWrites(s) \/ Copy(s) \/ Read(s) PROVE OrderInv'
  BY <1>5, <1>10 DEF WorkerWrites, Copy, Read, tail
<1> QED
  BY <1>6, <1>7, <1>8, <1>9, <1>10 DEF Next, Tee

LEMMA QuotedStep == TypeInv /\ OrderInv /\ QuotedInOrder /\ [Next]_vars => QuotedInOrder'
<1> SUFFICES ASSUME TypeInv, OrderInv, QuotedInOrder, [Next]_vars PROVE QuotedInOrder'
  OBVIOUS
<1>1. \A s \in Streams : written[s] \in Nat /\ written'[s] \in Nat /\ written[s] <= written'[s]
  <2>1. written \in [Streams -> 0..MaxPieces] /\ written' \in [Streams -> 0..MaxPieces]
    BY TypeStep DEF TypeInv, TypeOK
  <2>2. written' = written \/ \E t \in Streams : written' = [written EXCEPT ![t] = @ + 1]
    BY DEF Next, vars, pipes, CliExits, Harness, Wait, CopyLines, Tee, WorkerWrites, Copy, Read, Scan,
           Store, Trim
  <2> QED
    BY <2>1, <2>2, OutputTailAssumption
<1>2. \A x \in Line : x # Blank => x.number \in Nat /\ x.stream \in Streams
  BY OutputTailAssumption DEF Line
<1>3. quoted \in Seq(Line \cup {Blank}) /\ lines \in Seq(Line)
  BY DEF TypeInv, TypeOK
<1>4. CASE quoted' = quoted
  <2>1. \A i \in DOMAIN quoted : quoted[i] # Blank => quoted[i] \in Line
    BY <1>3
  <2>2. ASSUME NEW i \in DOMAIN quoted, NEW j \in DOMAIN quoted, quoted[i] # Blank, quoted[j] # Blank,
               quoted[i].stream = quoted[j].stream
        PROVE  /\ 2 * quoted[j].number <= written'[quoted[j].stream]
               /\ i < j => quoted[i].number < quoted[j].number
    <3> DEFINE n == quoted[j].number
               t == quoted[j].stream
    <3>1. 2 * n <= written[t] /\ (i < j => quoted[i].number < quoted[j].number)
      BY <2>2 DEF QuotedInOrder
    <3>2. n \in Nat /\ t \in Streams
      BY <1>2, <2>1, <2>2
    <3> HIDE DEF n, t
    <3>3. 2 * n <= written'[t]
      BY <1>1, <3>1, <3>2
    <3> QED
      BY <3>1, <3>3 DEF n, t
  <2> QED
    BY <1>4, <2>2 DEF QuotedInOrder, Blank
<1>5. CASE Wait
  <2>1. \A i \in DOMAIN quoted' : quoted'[i] = Blank
    BY <1>5 DEF Wait
  <2> QED
    BY <2>1 DEF QuotedInOrder, Blank
<1>6. CASE CopyLines
  <2>1. /\ quoted' = [i \in DOMAIN quoted |-> IF i \in DOMAIN lines THEN lines[i] ELSE Blank]
        /\ written' = written
    BY <1>6 DEF CopyLines, pipes
  <2>2. ASSUME NEW i \in DOMAIN quoted', quoted'[i] # Blank
        PROVE  i \in 1..Len(lines) /\ quoted'[i] = lines[i]
    BY <1>3, <2>1, <2>2
  <2>3. ASSUME NEW j \in 1..Len(lines) PROVE 2 * lines[j].number <= written[lines[j].stream]
    <3> DEFINE n == lines[j].number
               t == lines[j].stream
    <3>1. lines[j] \in Line
      BY <1>3
    <3>2. n \in Nat /\ t \in Streams
      BY <3>1, OutputTailAssumption DEF Line
    <3>3. 2 * n <= Limit(t)
      BY DEF OrderInv, Reached
    <3> HIDE DEF n, t
    <3>4. Limit(t) <= written[t] /\ Limit(t) \in Nat
      <4>1. scanned[t] \in Nat /\ read[t] \in Nat /\ taken[t] \in Nat
        BY <3>2, OutputTailAssumption DEF TypeInv, TypeOK
      <4>2. /\ scanned[t] <= read[t] /\ read[t] <= taken[t] /\ taken[t] <= written[t]
            /\ pc[t] # "scan" => scanned[t] < read[t]
        BY <3>2 DEF TypeInv, Flow
      <4> QED
        BY <1>1, <3>2, <4>1, <4>2 DEF Limit
    <3>5. 2 * n <= written[t]
      BY <1>1, <3>2, <3>3, <3>4
    <3> QED
      BY <3>5 DEF n, t
  <2>4. ASSUME NEW i \in DOMAIN quoted', NEW j \in DOMAIN quoted', quoted'[i] # Blank,
               quoted'[j] # Blank, quoted'[i].stream = quoted'[j].stream
        PROVE  /\ 2 * quoted'[j].number <= written'[quoted'[j].stream]
               /\ i < j => quoted'[i].number < quoted'[j].number
    <3>1. i \in 1..Len(lines) /\ j \in 1..Len(lines) /\ quoted'[i] = lines[i] /\ quoted'[j] = lines[j]
      BY <2>2, <2>4
    <3>2. i < j => lines[i].number < lines[j].number
      BY <2>4, <3>1 DEF OrderInv, Increasing
    <3> QED
      BY <2>1, <2>3, <3>1, <3>2
  <2> QED
    BY <2>4 DEF QuotedInOrder, Blank
<1>7. ~Wait /\ ~CopyLines => quoted' = quoted
  BY DEF Next, vars, CliExits, Harness, Tee, WorkerWrites, Copy, Read, Scan, Store, Trim
<1> QED
  BY <1>4, <1>5, <1>6, <1>7

\* However the two tees and snapshot race for the one slice: of each stream, what is quoted of a
\* worker that crashed are lines that it wrote, none twice, in the order in which it wrote them.
THEOREM QuotedIsInOrder == Spec => []QuotedInOrder
<1>1. Init => OrderInv /\ QuotedInOrder
  BY DEF Init, OrderInv, Increasing, Reached, QuotedInOrder
<1> QED
  BY TypeInit, TypeStep, OrderStep, QuotedStep, <1>1, PTL DEF Spec, Safety
=============================================================================
