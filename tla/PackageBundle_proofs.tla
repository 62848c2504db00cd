------------------------ MODULE PackageBundle_proofs ------------------------
(***************************************************************************)
(* Proofs about PackageBundle, for any manifests, files and number of      *)
(* runs, and an author who never stops saving.                             *)
(***************************************************************************)
EXTENDS PackageBundle, SequenceTheorems, WellFoundedInduction, TLAPS

\* The steps between MkdirTemp and the deferred RemoveAll, and those of buildBundle.
WithScratch == {"save", "create", "next", "header", "body", "close", "report", "remove"}
Building    == {"create", "next", "header", "body", "close"}

\* The scratch directory is there only between the two calls, after a kill, or when it could not
\* be removed; buildBundle only runs on a saved image.
ScratchInv ==
  /\ disk \in [Files -> Content]
  /\ m \in Content
  /\ DOMAIN bundles = Versions
  /\ scratch = "there" => pc \in WithScratch \/ (pc = "idle" /\ result = "killed")
  /\ pc \in Building => disk["image.tar"] # Absent

LEMMA ContentType ==
  /\ Absent \in Content /\ \A n \in Sizes : Plain(n) \in Content
  /\ Manifests \subseteq Content
  /\ \A c \in Content : Image(c.tag) \in Content /\ Image(c.tag) # Absent
  /\ \A c \in Content \ {Absent} : c.size \in Nat
  /\ "image.tar" \in Files /\ "connector.yaml" \in Files
<1>1. Absent \in Content /\ \A n \in Sizes : Plain(n) \in Content
  BY BundleAssumption DEF Plain, Content
<1>2. Manifests \subseteq Content
  BY BundleAssumption
<1>3. Absent.size = -1 /\ Absent.tag = None
  BY DEF Absent, Plain
<1>4. ASSUME NEW c \in Content PROVE Image(c.tag) \in Content /\ Image(c.tag) # Absent
  <2>1. c.tag \in Versions \cup {None}
    BY <1>3 DEF Content
  <2>2. Image(c.tag) = [size |-> ImageSize, valid |-> FALSE, version |-> None, tag |-> c.tag]
    BY DEF Image
  <2>3. Image(c.tag) \in Content
    BY <2>1, <2>2, BundleAssumption DEF Content
  <2>4. Image(c.tag).size = ImageSize /\ ImageSize # -1
    BY <2>2, BundleAssumption
  <2> QED
    BY <1>3, <2>3, <2>4
<1>5. \A c \in Content \ {Absent} : c.size \in Nat
  BY DEF Content
<1>6. "image.tar" \in Files /\ "connector.yaml" \in Files
  BY DEF Files
<1> QED
  BY <1>1, <1>2, <1>4, <1>5, <1>6

LEMMA ScratchInit == Init => ScratchInv
<1> SUFFICES ASSUME Init PROVE ScratchInv
  OBVIOUS
<1>1. disk \in [Files -> Content]
  BY ContentType DEF Init
<1> QED
  BY <1>1, ContentType DEF Init, ScratchInv, Building

LEMMA ScratchStep ==
  ScratchInv /\ [Next]_vars =>
    /\ ScratchInv'
    /\ \A v \in Versions :
         bundles'[v] # bundles[v] => v = m.version /\ disk["image.tar"] # Absent
<1> DEFINE Kept == \A v \in Versions :
                     bundles'[v] # bundles[v] => v = m.version /\ disk["image.tar"] # Absent
<1> SUFFICES ASSUME ScratchInv, [Next]_vars PROVE ScratchInv' /\ Kept
  OBVIOUS
<1>1. pc \in Building => disk["image.tar"] # Absent
  BY ContentType DEF ScratchInv
<1> USE ContentType DEF Goto, Refuse, Fail, FailBuild, archive, input, WithScratch, Building
<1>2. CASE UNCHANGED vars
  BY <1>2 DEF vars, ScratchInv
<1>3. CASE Start
  BY <1>3 DEF Start, ScratchInv
<1>4. CASE Interrupt
  BY <1>4 DEF Interrupt, ScratchInv
<1>5. ASSUME NEW f \in Files \ {"image.tar"}, Edit(f) PROVE ScratchInv' /\ Kept
  <2>1. PICK c \in {Absent} \cup IF f = "connector.yaml" THEN Manifests
                                 ELSE {Plain(n) : n \in Sizes} :
          disk' = [disk EXCEPT ![f] = c]
    BY <1>5 DEF Edit
  <2>2. c \in Content
    BY <2>1
  <2>3. disk' \in [Files -> Content] /\ disk'["image.tar"] = disk["image.tar"]
    BY <2>1, <2>2 DEF ScratchInv
  <2> QED
    BY <1>5, <2>3 DEF Edit, ScratchInv
<1>6. CASE Validate
  BY <1>6 DEF Validate, ScratchInv
<1>7. CASE ReadManifest
  BY <1>7 DEF ReadManifest, ScratchInv
<1>8. CASE MakeScratch
  BY <1>8 DEF MakeScratch, ScratchInv
<1>9. CASE DockerSave
  BY <1>9 DEF DockerSave, ScratchInv
<1>10. CASE Create
  BY <1>1, <1>10 DEF Create, ScratchInv
<1>11. CASE NextFile
  BY <1>11 DEF NextFile, ScratchInv
<1>12. CASE WalkAssets
  BY <1>12 DEF WalkAssets, ScratchInv
<1>13. CASE AddHeader
  BY <1>1, <1>13 DEF AddHeader, Extend, ScratchInv
<1>14. CASE AddBody
  BY <1>1, <1>14 DEF AddBody, ScratchInv
<1>15. CASE EndOfFiles
  BY <1>15 DEF EndOfFiles, ScratchInv
<1>16. CASE Close
  BY <1>1, <1>16 DEF Close, ScratchInv
<1>17. CASE Report
  BY <1>17 DEF Report, ScratchInv
<1>18. CASE RemoveScratch
  BY <1>18 DEF RemoveScratch, ScratchInv
<1> QED
  BY <1>2, <1>3, <1>4, <1>5, <1>6, <1>7, <1>8, <1>9, <1>10, <1>11, <1>12, <1>13, <1>14, <1>15,
     <1>16, <1>17, <1>18 DEF Next, Step

\* Every return of cmdPackage after MkdirTemp passes the deferred RemoveAll: unless it was killed,
\* a run leaves no scratch directory that it has not tried to remove.
THEOREM ScratchIsRemoved == Spec => []ScratchRemoved
<1>1. ScratchInv => ScratchRemoved
  BY DEF ScratchInv, ScratchRemoved, WithScratch
<1> QED
  BY ScratchInit, ScratchStep, <1>1, PTL DEF Spec

\* A bundle of an earlier run only changes when buildBundle runs for its version, and that only
\* after docker save: neither a refusal nor a missing image costs the author a good bundle.
THEOREM BundlesAreKept == Spec => BundlesKeptUntilSaved
<1>1. ScratchInv /\ [Next]_vars =>
        [\A v \in Versions :
           bundles'[v] # bundles[v] => v = m.version /\ disk["image.tar"] # Absent]_vars
  BY ScratchStep
<1> QED
  BY ScratchInit, ScratchStep, <1>1, PTL DEF Spec, BundlesKeptUntilSaved

-----------------------------------------------------------------------------
(* What filepath.Walk finds.  The library's induction takes an operator; the *)
(* least number of a set does as well.                                        *)

LEMMA Least ==
  ASSUME NEW T \in SUBSET Nat, T # {}
  PROVE  \E n \in T : \A k \in T : n <= k
<1> DEFINE R == {p \in Nat \X Nat : p[1] < p[2]}
<1>0. R = OpToRel(<, Nat)
  BY DEF OpToRel
<1>1. IsWellFoundedOn(R, Nat)
  BY <1>0, NatLessThanWellFounded
<1> HIDE DEF R
<1>2. \E x \in T : \A y \in T : <<y, x>> \notin R
  BY <1>1, WFMin, Zenon
<1>3. \A x, y \in Nat : <<y, x>> \notin R => x <= y
  BY DEF R
<1> QED
  BY <1>2, <1>3

\* Induction, for a set of numbers in the place of a predicate.
LEMMA Induction ==
  ASSUME NEW S, 0 \in S, \A n \in Nat : n \in S => n + 1 \in S
  PROVE  Nat \subseteq S
<1> SUFFICES ASSUME Nat \ S # {} PROVE FALSE
  OBVIOUS
<1>1. PICK n \in Nat \ S : \A k \in Nat \ S : n <= k
  <2> DEFINE T == Nat \ S
  <2>1. T \in SUBSET Nat /\ T # {}
    OBVIOUS
  <2> HIDE DEF T
  <2>2. \E x \in T : \A k \in T : x <= k
    BY <2>1, Least
  <2> QED
    BY <2>2 DEF T
<1>2. n # 0 /\ n - 1 \in Nat /\ ~(n <= n - 1)
  BY <1>1
<1>3. n - 1 \in S
  BY <1>1, <1>2
<1> QED
  BY <1>1, <1>2, <1>3

LEMMA PresentExists ==
  \A n \in 0..Len(Assets) :
    Present[n] = IF n = 0 THEN << >>
                 ELSE IF disk[Assets[n]] # Absent THEN Append(Present[n - 1], Assets[n])
                 ELSE Present[n - 1]
<1> DEFINE L == Len(Assets)
           Of(g, n) == IF n = 0 THEN << >>
                       ELSE IF disk[Assets[n]] # Absent THEN Append(g[n - 1], Assets[n])
                       ELSE g[n - 1]
           Good(g, k) == \A n \in 0..k : g[n] = Of(g, n)
           S == {k \in Nat : \E g : Good(g, k)}
<1>0. L \in Nat
  BY BundleAssumption
<1>1. 0 \in S
  <2>1. Good([n \in {0} |-> << >>], 0)
    OBVIOUS
  <2> QED
    BY <2>1
<1>2. ASSUME NEW k \in Nat, k \in S PROVE k + 1 \in S
  <2>1. PICK g : Good(g, k)
    BY <1>2
  <2> DEFINE h == [n \in 0..(k + 1) |-> IF n = k + 1 THEN Of(g, k + 1) ELSE g[n]]
  <2>2. ASSUME NEW n \in 0..(k + 1) PROVE h[n] = Of(h, n)
    <3>1. CASE n = 0
      BY <2>1, <3>1
    <3>2. CASE n \in 1..k
      <4>1. h[n] = g[n] /\ h[n - 1] = g[n - 1]
        BY <3>2
      <4>2. g[n] = Of(g, n)
        BY <2>1, <3>2
      <4> QED
        BY <4>1, <4>2, <3>2
    <3>3. CASE n = k + 1
      <4>1. h[n] = Of(g, n) /\ h[n - 1] = g[n - 1]
        BY <3>3
      <4> QED
        BY <4>1, <3>3
    <3> QED
      BY <3>1, <3>2, <3>3
  <2>3. Good(h, k + 1)
    BY <2>2
  <2> HIDE DEF h, Good
  <2> QED
    BY <2>3
<1> HIDE DEF Of
<1>3. Nat \subseteq S
  <2> HIDE DEF S
  <2> QED
    BY <1>1, <1>2, Induction
<1>4. PICK g : Good(g, L)
  BY <1>0, <1>3
<1> DEFINE F(f) == [n \in 0..L |-> Of(f, n)]
           h == [n \in 0..L |-> g[n]]
<1>5. h = F(h)
  <2>1. ASSUME NEW n \in 0..L PROVE h[n] = Of(h, n)
    <3>1. h[n] = Of(g, n)
      BY <1>4
    <3>2. n # 0 => n - 1 \in 0..L
      BY <1>0
    <3> QED
      BY <3>1, <3>2 DEF Of
  <2> QED
    BY <2>1
<1>6. Present = CHOOSE f : f = F(f)
  BY DEF Present, Of
<1> HIDE DEF F, h
<1>7. Present = F(Present)
  BY <1>5, <1>6
<1> QED
  BY <1>7 DEF F, Of


\* The walk yields files of assets/, and all of those that are there.
LEMMA PresentIsAll ==
  /\ Present[Len(Assets)] \in Seq(ToSet(Assets))
  /\ \A f \in ToSet(Assets) : disk[f] # Absent => f \in ToSet(Present[Len(Assets)])
<1> DEFINE A == ToSet(Assets)
           Good(n) == /\ Present[n] \in Seq(A)
                      /\ \A i \in 1..n : disk[Assets[i]] # Absent =>
                           \E j \in 1..Len(Present[n]) : Present[n][j] = Assets[i]
           S == {n \in Nat : n <= Len(Assets) => Good(n)}
<1>0. Len(Assets) \in Nat /\ \A i \in 1..Len(Assets) : Assets[i] \in A
  BY BundleAssumption DEF ToSet
<1>1. 0 \in S
  <2>1. Present[0] = << >> /\ 0 \in Nat
    BY <1>0, PresentExists
  <2>2. Present[0] \in Seq(A) /\ 1..0 = {}
    BY <2>1
  <2> QED
    BY <2>1, <2>2
<1>2. ASSUME NEW n \in Nat, n \in S PROVE n + 1 \in S
  <2> SUFFICES ASSUME n + 1 <= Len(Assets) PROVE Good(n + 1)
    OBVIOUS
  <2>1. Good(n) /\ n + 1 \in 1..Len(Assets) /\ Assets[n + 1] \in A
    BY <1>0, <1>2
  <2>2. Present[n + 1] = IF disk[Assets[n + 1]] # Absent THEN Append(Present[n], Assets[n + 1])
                         ELSE Present[n]
    BY <1>0, <2>1, PresentExists
  <2>3. CASE disk[Assets[n + 1]] # Absent
    <3>1. Present[n + 1] = Append(Present[n], Assets[n + 1])
      BY <2>2, <2>3
    <3>2. Present[n + 1] \in Seq(A) /\ Len(Present[n + 1]) = Len(Present[n]) + 1
      BY <2>1, <3>1
    <3>3. \A j \in 1..Len(Present[n]) : Present[n + 1][j] = Present[n][j]
      BY <2>1, <3>1
    <3>4. Present[n + 1][Len(Present[n]) + 1] = Assets[n + 1]
      BY <2>1, <3>1
    <3>5. ASSUME NEW i \in 1..(n + 1), disk[Assets[i]] # Absent
          PROVE  \E j \in 1..Len(Present[n + 1]) : Present[n + 1][j] = Assets[i]
      <4>1. CASE i = n + 1
        BY <2>1, <3>2, <3>4, <4>1
      <4>2. CASE i \in 1..n
        <5>1. PICK j \in 1..Len(Present[n]) : Present[n][j] = Assets[i]
          BY <2>1, <3>5, <4>2
        <5> QED
          BY <2>1, <3>2, <3>3, <5>1
      <4> QED
        BY <4>1, <4>2
    <3> QED
      BY <3>2, <3>5
  <2>4. CASE disk[Assets[n + 1]] = Absent
    BY <2>1, <2>2, <2>4
  <2> QED
    BY <2>3, <2>4
<1>3. Good(Len(Assets))
  <2>1. Nat \subseteq S
    <3> HIDE DEF S
    <3> QED
      BY <1>1, <1>2, Induction
  <2> QED
    BY <1>0, <2>1
<1>4. ASSUME NEW f \in A, disk[f] # Absent PROVE f \in ToSet(Present[Len(Assets)])
  <2>1. PICK i \in 1..Len(Assets) : f = Assets[i]
    BY BundleAssumption DEF ToSet
  <2>2. PICK j \in 1..Len(Present[Len(Assets)]) : Present[Len(Assets)][j] = f
    BY <1>3, <1>4, <2>1
  <2> QED
    BY <1>3, <2>2 DEF ToSet
<1> QED
  BY <1>3, <1>4

-----------------------------------------------------------------------------

(* The bundle of the run *)

\* The manifest passed the checks.
Accepted ==
  \/ pc \in {"mkdir", "save", "create", "next", "header", "body", "close", "report"}
  \/ result = "written"

\* The bundle is written with no error so far, or was.
Filling == pc \in {"next", "header", "body"} \/ (pc = "close" /\ result = None)
Filled  == pc = "report" \/ result = "written"

ResultInv ==
  /\ pc \notin {"idle", "close", "remove"} => result = None
  /\ pc = "close" => result \in {None, "failed"}

\* An author who leaves the manifest alone has it read the same three times.
ManifestInv ==
  /\ Accepted => m.version \in Versions /\ m.tag = m.version
  /\ "connector.yaml" \notin touched =>
       /\ pc = "read" => disk["connector.yaml"].valid
       /\ Accepted => disk["connector.yaml"] = m /\ m.valid

\* What docker save left stays as it is while the bundle is written.
ImageInv == pc \in Building => disk["image.tar"] = Image(m.tag)

ImagesInv ==
  \A v \in Versions : \A i \in DOMAIN bundles[v].entries :
    LET e == bundles[v].entries[i]
    IN  e.name = "image.tar" /\ e.body # Absent => e.body.tag = v

Current == bundles[m.version]
Top     == Len(Current.entries)

\* The file at the head of todo is the one of the last header.
HeaderInv ==
  /\ pc \in {"header", "body"} => todo # << >> /\ Head(todo) # "assets"
  /\ pc = "body" => /\ Top > 0 /\ Current.entries[Top].name = Head(todo)
                    /\ Current.entries[Top].body = Absent
  /\ pc = "close" /\ result = None => todo = << >>

Copied(e) == IF e.body = Absent THEN 0 ELSE e.body.size

\* Only the last entry may be short, by what the archive's writer still expects.
SizesInv ==
  /\ Filling =>
       /\ ~Current.ended
       /\ Top = 0 => missing = 0
       /\ \A i \in 1..Top :
            Current.entries[i].size =
              Copied(Current.entries[i]) + IF i = Top THEN missing ELSE 0
  /\ Filled /\ Current.ended =>
       \A i \in 1..Top : Current.entries[i].size = Copied(Current.entries[i])

\* Each entry but the one of addFile has its content, and the manifest's is what was read.
BodiesInv ==
  Filling \/ Filled =>
    \A i \in 1..Top :
      LET e == Current.entries[i]
      IN  /\ i < Top \/ pc # "body" => e.body # Absent
          /\ e.name = "connector.yaml" /\ e.body # Absent /\ "connector.yaml" \notin touched =>
               e.body = m

Owed(f) == f \in ToSet(todo) \/ ("assets" \in ToSet(todo) /\ f \in ToSet(Assets))

Packed(f) ==
  \E i \in 1..Top :
    LET e == Current.entries[i]
    IN  e.name = f /\ e.body # Absent /\ (f # "image.tar" => e.body = disk[f])

\* A file that the author leaves alone is in the bundle, or still to come.
FilesInv ==
  \A f \in Files \ touched :
    disk[f] # Absent \/ f = "image.tar" =>
      /\ Filling => Packed(f) \/ Owed(f)
      /\ Filled => Packed(f)

BundleInv ==
  /\ TypeOK /\ ResultInv /\ ManifestInv /\ ImageInv /\ ImagesInv
  /\ HeaderInv /\ SizesInv /\ BodiesInv /\ FilesInv

LEMMA SequenceFacts ==
  /\ \A s \in Seq(STRING) : s \in Seq(ToSet(s))
  /\ Optional \in Seq(Files) /\ Assets \in Seq(Files)
  /\ ToSet(Optional) \subseteq Files /\ ToSet(Assets) \subseteq Files
<1>1. \A s \in Seq(STRING) : s \in Seq(ToSet(s))
  BY DEF ToSet
<1> QED
  BY <1>1, BundleAssumption DEF Files, ToSet

LEMMA TypeInit == Init => TypeOK
<1> SUFFICES ASSUME Init PROVE TypeOK
  OBVIOUS
<1>1. disk \in [Files -> Content]
  <2>1. PICK c \in Manifests, present \in SUBSET (ToSet(Optional) \cup ToSet(Assets)) :
          \E size \in [present -> Sizes] :
            disk = [f \in Files |-> IF f = "connector.yaml" THEN c
                                    ELSE IF f \in present THEN Plain(size[f]) ELSE Absent]
    BY DEF Init
  <2> QED
    BY <2>1, ContentType
<1>2. bundles \in [Versions -> Bundle]
  BY DEF Init, NoBundle, Bundle
<1>3. runs \in 0..MaxRuns /\ edits \in 0..MaxEdits /\ missing \in Nat
  BY BundleAssumption DEF Init
<1>4. todo \in Seq(Files \cup {"assets"})
  BY DEF Init
<1> QED
  BY <1>1, <1>2, <1>3, <1>4, ContentType DEF Init, TypeOK

Names == Files \cup {"assets"}

LEMMA TodoType ==
  /\ << >> \in Seq(Names)
  /\ <<"connector.yaml", "image.tar">> \o Optional \o <<"assets">> \in Seq(Names)
  /\ Present[Len(Assets)] \in Seq(Names)
  /\ \A t \in Seq(Names) : t # << >> => Head(t) \in Names /\ Tail(t) \in Seq(Names)
<1>1. Optional \in Seq(Names) /\ ToSet(Assets) \subseteq Names
  BY SequenceFacts DEF Names
<1>2. <<"connector.yaml", "image.tar">> \in Seq(Names) /\ <<"assets">> \in Seq(Names)
  BY ContentType DEF Names
<1>3. Present[Len(Assets)] \in Seq(Names)
  BY <1>1, PresentIsAll
<1>4. <<"connector.yaml", "image.tar">> \o Optional \o <<"assets">> \in Seq(Names)
  BY <1>1, <1>2
<1> QED
  BY <1>3, <1>4

\* The ways in which a bundle changes.
LEMMA BundleType ==
  ASSUME NEW bs \in [Versions -> Bundle], NEW v
  PROVE  /\ [bs EXCEPT ![v] = NoBundle] \in [Versions -> Bundle]
         /\ [bs EXCEPT ![v].ended = TRUE] \in [Versions -> Bundle]
         /\ \A e \in Entry :
              [bs EXCEPT ![v].entries = Append(@, e)] \in [Versions -> Bundle]
         /\ \A c \in Content :
              Len(bs[v].entries) > 0 =>
                [bs EXCEPT ![v].entries =
                   [bs[v].entries EXCEPT ![Len(bs[v].entries)].body = c]] \in [Versions -> Bundle]
<1>1. NoBundle \in Bundle
  BY DEF NoBundle, Bundle
<1>2. CASE v \notin Versions
  BY <1>2
<1>3. CASE v \in Versions
  <2>1. bs[v] \in Bundle
    BY <1>3
  <2>2. [bs[v] EXCEPT !.ended = TRUE] \in Bundle
    BY <2>1 DEF Bundle
  <2>3. ASSUME NEW e \in Entry PROVE [bs[v] EXCEPT !.entries = Append(@, e)] \in Bundle
    <3>1. bs[v].entries \in Seq(Entry)
      BY <2>1 DEF Bundle
    <3>2. Append(bs[v].entries, e) \in Seq(Entry)
      BY <3>1, AppendProperties
    <3> QED
      BY <2>1, <3>2 DEF Bundle
  <2>4. ASSUME NEW c \in Content, Len(bs[v].entries) > 0
        PROVE  [bs[v] EXCEPT !.entries =
                  [bs[v].entries EXCEPT ![Len(bs[v].entries)].body = c]] \in Bundle
    <3> DEFINE es == bs[v].entries
               k == Len(es)
    <3>1. es \in Seq(Entry) /\ k \in 1..Len(es)
      BY <2>1, <2>4 DEF Bundle
    <3>2. es[k] \in Entry
      BY <3>1
    <3>3. [es[k] EXCEPT !.body = c] \in Entry
      BY <3>2 DEF Entry
    <3>4. [es EXCEPT ![k].body = c] = [es EXCEPT ![k] = [es[k] EXCEPT !.body = c]]
      OBVIOUS
    <3>5. [es EXCEPT ![k].body = c] \in Seq(Entry)
      BY <3>1, <3>3, <3>4, ExceptSeq
    <3> QED
      BY <2>1, <3>5 DEF Bundle
  <2> QED
    BY <1>1, <1>3, <2>2, <2>3, <2>4
<1> QED
  BY <1>2, <1>3

LEMMA TypeStep == TypeOK /\ HeaderInv /\ [Next]_vars => TypeOK'
<1> SUFFICES ASSUME TypeOK, HeaderInv, [Next]_vars PROVE TypeOK'
  OBVIOUS
<1>0. bundles \in [Versions -> Bundle] /\ todo \in Seq(Names)
  BY DEF TypeOK, Names
<1> USE ContentType DEF Goto, Refuse, Fail, FailBuild, archive, input
<1>2. CASE UNCHANGED vars
  BY <1>2 DEF vars, TypeOK
<1>3. CASE Start
  <2>1. runs' \in 0..MaxRuns
    BY <1>3, BundleAssumption DEF Start, TypeOK
  <2>2. disk' \in [Files -> Content]
    BY <1>3 DEF Start, TypeOK
  <2> QED
    BY <1>3, <2>1, <2>2 DEF Start, TypeOK
<1>4. CASE Interrupt
  BY <1>4 DEF Interrupt, TypeOK
<1>5. ASSUME NEW f \in Files \ {"image.tar"}, Edit(f) PROVE TypeOK'
  <2>1. PICK c \in {Absent} \cup IF f = "connector.yaml" THEN Manifests
                                 ELSE {Plain(n) : n \in Sizes} :
          disk' = [disk EXCEPT ![f] = c]
    BY <1>5 DEF Edit
  <2>2. c \in Content
    BY <2>1
  <2>3. disk' \in [Files -> Content]
    BY <2>1, <2>2 DEF TypeOK
  <2> QED
    BY <1>5, <2>3, BundleAssumption DEF Edit, TypeOK
<1>6. CASE Validate
  BY <1>6 DEF Validate, TypeOK
<1>7. CASE ReadManifest
  BY <1>7 DEF ReadManifest, TypeOK
<1>8. CASE MakeScratch
  BY <1>8 DEF MakeScratch, TypeOK
<1>9. CASE DockerSave
  <2>1. Image(m.tag) \in Content
    BY DEF TypeOK
  <2>2. disk' \in [Files -> Content]
    BY <1>9, <2>1 DEF DockerSave, TypeOK
  <2> QED
    BY <1>9, <2>2 DEF DockerSave, TypeOK
<1>10. CASE Create
  <2>1. bundles' \in [Versions -> Bundle]
    <3>1. bundles' \in {bundles, [bundles EXCEPT ![m.version] = NoBundle]}
      BY <1>10 DEF Create
    <3>2. [bundles EXCEPT ![m.version] = NoBundle] \in [Versions -> Bundle]
      BY <1>0, BundleType
    <3> QED
      BY <1>0, <3>1, <3>2
  <2>2. todo' \in Seq(Files \cup {"assets"})
    <3>1. todo' \in {todo, <<"connector.yaml", "image.tar">> \o Optional \o <<"assets">>}
      BY <1>10 DEF Create
    <3> QED
      BY <1>0, <3>1, TodoType DEF Names
  <2> QED
    BY <1>10, <2>1, <2>2 DEF Create, TypeOK
<1>11. CASE NextFile
  <2>1. todo' \in Seq(Files \cup {"assets"})
    <3>1. todo # << >> /\ todo' \in {todo, Tail(todo)}
      BY <1>11 DEF NextFile
    <3> QED
      BY <1>0, <3>1, TodoType DEF Names
  <2> QED
    BY <1>11, <2>1 DEF NextFile, TypeOK
<1>12. CASE WalkAssets
  <2>1. todo' \in Seq(Files \cup {"assets"})
    <3>1. todo' \in {todo, Present[Len(Assets)]}
      BY <1>12 DEF WalkAssets
    <3> QED
      BY <1>0, <3>1, TodoType DEF Names
  <2> QED
    BY <1>12, <2>1 DEF WalkAssets, TypeOK
<1>13. CASE AddHeader
  <2>1. Head(todo) \in Files
    BY <1>13 DEF AddHeader, TypeOK, HeaderInv
  <2>2. CASE UNCHANGED bundles
    <3>1. missing' \in Nat
      <4>1. \/ missing' \in {missing, 1}
            \/ disk[Head(todo)] # Absent /\ missing' = disk[Head(todo)].size
        BY <1>13 DEF AddHeader
      <4>2. missing \in Nat /\ disk[Head(todo)] \in Content
        BY <2>1 DEF TypeOK
      <4> QED
        BY <4>1, <4>2
    <3> QED
      BY <1>13, <2>2, <3>1 DEF AddHeader, TypeOK
  <2>3. CASE bundles' # bundles
    <3> DEFINE e == [name |-> Head(todo), size |-> disk[Head(todo)].size, body |-> Absent]
    <3>1. bundles' = [bundles EXCEPT ![m.version].entries = Append(@, e)]
          /\ missing' = disk[Head(todo)].size /\ disk[Head(todo)] # Absent
      BY <1>13, <2>3 DEF AddHeader, Extend
    <3>2. disk[Head(todo)] \in Content /\ disk[Head(todo)].size \in Nat
      BY <2>1, <3>1 DEF TypeOK
    <3>3. e \in Entry
      BY <2>1, <3>2 DEF Entry
    <3> HIDE DEF e
    <3>4. bundles' \in [Versions -> Bundle]
      BY <3>1, <3>3, BundleType DEF TypeOK
    <3>5. missing' \in Nat
      BY <3>1, <3>2
    <3> QED
      BY <1>13, <3>4, <3>5 DEF AddHeader, TypeOK
  <2> QED
    BY <2>2, <2>3
<1>14. CASE AddBody
  <2>1. Head(todo) \in Files /\ todo # << >>
    BY <1>14 DEF AddBody, TypeOK, HeaderInv
  <2>2. disk[Head(todo)] \in Content
    BY <2>1 DEF TypeOK
  <2>3. missing' \in Nat /\ todo' \in Seq(Files \cup {"assets"})
    <3>1. todo' \in {todo, Tail(todo)}
      BY <1>14 DEF AddBody
    <3>2. missing' \in Nat
      <4>1. missing \in Nat /\ (disk[Head(todo)] # Absent => disk[Head(todo)].size \in Nat)
        BY <2>2 DEF TypeOK
      <4> QED
        BY <1>14, <4>1 DEF AddBody
    <3> QED
      BY <1>0, <2>1, <3>1, <3>2, TodoType DEF Names
  <2>4. bundles' \in [Versions -> Bundle]
    <3>1. CASE UNCHANGED bundles
      BY <3>1 DEF TypeOK
    <3>2. CASE bundles' # bundles
      <4>1. bundles' = [bundles EXCEPT ![m.version].entries =
                          [bundles[m.version].entries EXCEPT
                             ![Len(bundles[m.version].entries)].body = disk[Head(todo)]]]
        BY <1>14, <3>2 DEF AddBody
      <4>2. Len(bundles[m.version].entries) > 0
        BY <1>14 DEF AddBody, HeaderInv, Top, Current
      <4> QED
        BY <2>2, <4>1, <4>2, BundleType DEF TypeOK
    <3> QED
      BY <3>1, <3>2
  <2>5. UNCHANGED <<disk, scratch, m, input>>
    BY <1>14 DEF AddBody
  <2>6. pc' \in {"next", "close"} /\ result' \in {result, "failed"}
    BY <1>14 DEF AddBody
  <2> QED
    BY <2>3, <2>4, <2>5, <2>6 DEF TypeOK
<1>15. CASE EndOfFiles
  BY <1>15 DEF EndOfFiles, TypeOK
<1>16. CASE Close
  <2>1. bundles' \in [Versions -> Bundle]
    <3>1. bundles' \in {bundles, [bundles EXCEPT ![m.version].ended = TRUE]}
      BY <1>16 DEF Close
    <3>2. [bundles EXCEPT ![m.version].ended = TRUE] \in [Versions -> Bundle]
      BY <1>0, BundleType
    <3> QED
      BY <1>0, <3>1, <3>2
  <2> QED
    BY <1>16, <2>1 DEF Close, TypeOK
<1>17. CASE Report
  BY <1>17 DEF Report, TypeOK
<1>18. CASE RemoveScratch
  BY <1>18 DEF RemoveScratch, TypeOK
<1> QED
  BY <1>2, <1>3, <1>4, <1>5, <1>6, <1>7, <1>8, <1>9, <1>10, <1>11, <1>12, <1>13, <1>14, <1>15,
     <1>16, <1>17, <1>18 DEF Next, Step

\* What a step does to the files that it is not about.
LEMMA DiskKept ==
  ASSUME TypeOK
  PROVE  /\ \A f, g \in Files : Edit(f) /\ g # f => disk'[g] = disk[g]
         /\ \A g \in Files \ {"image.tar"} : DockerSave \/ RemoveScratch \/ Start => disk'[g] = disk[g]
         /\ "connector.yaml" \in Files \ {"image.tar"} /\ "image.tar" \in Files
<1>1. ASSUME NEW f \in Files, NEW g \in Files, Edit(f), g # f PROVE disk'[g] = disk[g]
  <2>1. PICK c : disk' = [disk EXCEPT ![f] = c]
    BY <1>1 DEF Edit
  <2> QED
    BY <1>1, <2>1 DEF TypeOK
<1>2. ASSUME NEW g \in Files \ {"image.tar"}, DockerSave \/ RemoveScratch \/ Start
      PROVE  disk'[g] = disk[g]
  <2>1. UNCHANGED disk \/ \E c : disk' = [disk EXCEPT !["image.tar"] = c]
    BY <1>2 DEF DockerSave, RemoveScratch, Start
  <2> QED
    BY <2>1 DEF TypeOK
<1> QED
  BY <1>1, <1>2, ContentType

LEMMA ResultStep == ResultInv /\ [Next]_vars => ResultInv'
<1> SUFFICES ASSUME ResultInv, [Next]_vars PROVE ResultInv'
  OBVIOUS
<1> USE DEF Goto, Refuse, Fail, FailBuild, archive, input, None
<1>2. CASE UNCHANGED vars
  BY <1>2 DEF vars, ResultInv
<1>3. CASE Start
  BY <1>3 DEF Start, ResultInv
<1>4. CASE Interrupt
  BY <1>4 DEF Interrupt, ResultInv
<1>5. ASSUME NEW f \in Files \ {"image.tar"}, Edit(f) PROVE ResultInv'
  BY <1>5 DEF Edit, ResultInv
<1>6. CASE Validate
  BY <1>6 DEF Validate, ResultInv
<1>7. CASE ReadManifest
  BY <1>7 DEF ReadManifest, ResultInv
<1>8. CASE MakeScratch
  BY <1>8 DEF MakeScratch, ResultInv
<1>9. CASE DockerSave
  BY <1>9 DEF DockerSave, ResultInv
<1>10. CASE Create
  BY <1>10 DEF Create, ResultInv
<1>11. CASE NextFile
  BY <1>11 DEF NextFile, ResultInv
<1>12. CASE WalkAssets
  BY <1>12 DEF WalkAssets, ResultInv
<1>13. CASE AddHeader
  BY <1>13 DEF AddHeader, ResultInv
<1>14. CASE AddBody
  BY <1>14 DEF AddBody, ResultInv
<1>15. CASE EndOfFiles
  BY <1>15 DEF EndOfFiles, ResultInv
<1>16. CASE Close
  BY <1>16 DEF Close, ResultInv
<1>17. CASE Report
  BY <1>17 DEF Report, ResultInv
<1>18. CASE RemoveScratch
  BY <1>18 DEF RemoveScratch, ResultInv
<1> QED
  BY <1>2, <1>3, <1>4, <1>5, <1>6, <1>7, <1>8, <1>9, <1>10, <1>11, <1>12, <1>13, <1>14, <1>15,
     <1>16, <1>17, <1>18 DEF Next, Step

LEMMA ManifestStep == TypeOK /\ ResultInv /\ ManifestInv /\ [Next]_vars => ManifestInv'
<1> SUFFICES ASSUME TypeOK, ResultInv, ManifestInv, [Next]_vars PROVE ManifestInv'
  OBVIOUS
<1> USE DEF Goto, Refuse, Fail, FailBuild, archive, input, None
<1>2. CASE UNCHANGED vars
  BY <1>2 DEF vars, ResultInv, ManifestInv, Accepted
<1>3. CASE Start
  BY <1>3 DEF Start, ResultInv, ManifestInv, Accepted
<1>4. CASE Interrupt
  BY <1>4 DEF Interrupt, ResultInv, ManifestInv, Accepted
<1>5. ASSUME NEW f \in Files \ {"image.tar"}, Edit(f) PROVE ManifestInv'
  <2>1. f # "connector.yaml" => disk'["connector.yaml"] = disk["connector.yaml"]
    BY <1>5, DiskKept
  <2> QED
    BY <1>5, <2>1 DEF Edit, ManifestInv, Accepted
<1>6. CASE Validate
  BY <1>6 DEF Validate, ResultInv, ManifestInv, Accepted
<1>7. CASE ReadManifest
  <2>1. m'.version # None => m'.version \in Versions
    <3>1. m' \in Content
      BY <1>7, ContentType DEF ReadManifest, TypeOK
    <3>2. Absent.version = None
      BY DEF Absent, Plain
    <3> QED
      BY <3>1, <3>2 DEF Content
  <2> QED
    BY <1>7, <2>1 DEF ReadManifest, Accepts, ResultInv, ManifestInv, Accepted
<1>8. CASE MakeScratch
  BY <1>8 DEF MakeScratch, ResultInv, ManifestInv, Accepted
<1>9. CASE DockerSave
  <2>1. disk'["connector.yaml"] = disk["connector.yaml"]
    BY <1>9, DiskKept
  <2> QED
    BY <1>9, <2>1 DEF DockerSave, ManifestInv, Accepted
<1>10. CASE Create
  BY <1>10 DEF Create, ResultInv, ManifestInv, Accepted
<1>11. CASE NextFile
  BY <1>11 DEF NextFile, ResultInv, ManifestInv, Accepted
<1>12. CASE WalkAssets
  BY <1>12 DEF WalkAssets, ResultInv, ManifestInv, Accepted
<1>13. CASE AddHeader
  BY <1>13 DEF AddHeader, ResultInv, ManifestInv, Accepted
<1>14. CASE AddBody
  BY <1>14 DEF AddBody, ResultInv, ManifestInv, Accepted
<1>15. CASE EndOfFiles
  BY <1>15 DEF EndOfFiles, ResultInv, ManifestInv, Accepted
<1>16. CASE Close
  BY <1>16 DEF Close, ResultInv, ManifestInv, Accepted
<1>17. CASE Report
  BY <1>17 DEF Report, ResultInv, ManifestInv, Accepted
<1>18. CASE RemoveScratch
  <2>1. disk'["connector.yaml"] = disk["connector.yaml"]
    BY <1>18, DiskKept
  <2> QED
    BY <1>18, <2>1 DEF RemoveScratch, ManifestInv, Accepted
<1> QED
  BY <1>2, <1>3, <1>4, <1>5, <1>6, <1>7, <1>8, <1>9, <1>10, <1>11, <1>12, <1>13, <1>14, <1>15,
     <1>16, <1>17, <1>18 DEF Next, Step

LEMMA ImageStep == TypeOK /\ ImageInv /\ [Next]_vars => ImageInv'
<1> SUFFICES ASSUME TypeOK, ImageInv, [Next]_vars PROVE ImageInv'
  OBVIOUS
<1> USE DEF Goto, Refuse, Fail, FailBuild, archive, input, None
<1>2. CASE UNCHANGED vars
  BY <1>2 DEF vars, ImageInv, Building
<1>3. CASE Start
  BY <1>3 DEF Start, ImageInv, Building
<1>4. CASE Interrupt
  BY <1>4 DEF Interrupt, ImageInv, Building
<1>5. ASSUME NEW f \in Files \ {"image.tar"}, Edit(f) PROVE ImageInv'
  <2>1. disk'["image.tar"] = disk["image.tar"]
    BY <1>5, DiskKept
  <2> QED
    BY <1>5, <2>1 DEF Edit, ImageInv, Building
<1>6. CASE Validate
  BY <1>6 DEF Validate, ImageInv, Building
<1>7. CASE ReadManifest
  BY <1>7 DEF ReadManifest, ImageInv, Building
<1>8. CASE MakeScratch
  BY <1>8 DEF MakeScratch, ImageInv, Building
<1>9. CASE DockerSave
  <2>1. pc' = "create" => disk'["image.tar"] = Image(m.tag)
    BY <1>9, ContentType DEF DockerSave, TypeOK
  <2> QED
    BY <1>9, <2>1 DEF DockerSave, ImageInv, Building
<1>10. CASE Create
  BY <1>10 DEF Create, ImageInv, Building
<1>11. CASE NextFile
  BY <1>11 DEF NextFile, ImageInv, Building
<1>12. CASE WalkAssets
  BY <1>12 DEF WalkAssets, ImageInv, Building
<1>13. CASE AddHeader
  BY <1>13 DEF AddHeader, ImageInv, Building
<1>14. CASE AddBody
  BY <1>14 DEF AddBody, ImageInv, Building
<1>15. CASE EndOfFiles
  BY <1>15 DEF EndOfFiles, ImageInv, Building
<1>16. CASE Close
  BY <1>16 DEF Close, ImageInv, Building
<1>17. CASE Report
  BY <1>17 DEF Report, ImageInv, Building
<1>18. CASE RemoveScratch
  BY <1>18 DEF RemoveScratch, ImageInv, Building
<1> QED
  BY <1>2, <1>3, <1>4, <1>5, <1>6, <1>7, <1>8, <1>9, <1>10, <1>11, <1>12, <1>13, <1>14, <1>15,
     <1>16, <1>17, <1>18 DEF Next, Step

\* A header is the last entry, and has no content yet.
LEMMA HeaderEffect ==
  ASSUME TypeOK, ManifestInv, HeaderInv, AddHeader, pc' = "body"
  PROVE  /\ m' = m /\ Current'.ended = Current.ended
         /\ Head(todo) \in Files /\ disk[Head(todo)] # Absent
         /\ missing = 0 /\ missing' = disk[Head(todo)].size
         /\ Top \in Nat /\ Top' = Top + 1
         /\ \A j \in 1..Top : Current'.entries[j] = Current.entries[j]
         /\ Current'.entries[Top + 1].name = Head(todo)
         /\ Current'.entries[Top + 1].size = disk[Head(todo)].size
         /\ Current'.entries[Top + 1].body = Absent
         /\ \A v \in Versions : v # m.version => bundles'[v] = bundles[v]
<1> DEFINE e == [name |-> Head(todo), size |-> disk[Head(todo)].size, body |-> Absent]
<1>1. /\ m' = m /\ missing = 0 /\ missing' = disk[Head(todo)].size /\ disk[Head(todo)] # Absent
      /\ bundles' = [bundles EXCEPT ![m.version].entries = Append(@, e)]
  BY DEF AddHeader, FailBuild, Extend
<1>2. m.version \in Versions
  BY DEF AddHeader, ManifestInv, Accepted
<1>3. bundles \in [Versions -> Bundle] /\ bundles[m.version] \in Bundle
  BY <1>2 DEF TypeOK
<1>4. Head(todo) \in Files
  <2>1. todo \in Seq(Names) /\ todo # << >> /\ Head(todo) # "assets"
    BY DEF AddHeader, HeaderInv, TypeOK, Names
  <2> QED
    BY <2>1, TodoType DEF Names
<1> HIDE DEF e
<1>5. /\ bundles'[m.version].entries = Append(bundles[m.version].entries, e)
      /\ bundles'[m.version].ended = bundles[m.version].ended
      /\ \A v \in Versions : v # m.version => bundles'[v] = bundles[v]
  BY <1>1, <1>2, <1>3 DEF Bundle
<1>6. bundles[m.version].entries \in Seq(Entry)
  BY <1>3 DEF Bundle
<1> DEFINE es == bundles[m.version].entries
           t == Append(es, e)
<1>7. Len(es) \in Nat /\ Len(t) = Len(es) + 1
  BY <1>6
<1>8. (\A j \in 1..Len(es) : t[j] = es[j]) /\ t[Len(es) + 1] = e
  BY <1>6
<1>9. e.name = Head(todo) /\ e.size = disk[Head(todo)].size /\ e.body = Absent
  BY DEF e
<1>10. /\ Current = bundles[m.version] /\ Current'.entries = t /\ Current'.ended = Current.ended
       /\ Top = Len(es) /\ Top' = Len(t)
  BY <1>1, <1>5 DEF Current, Top
<1> QED
  BY <1>1, <1>4, <1>5, <1>7, <1>8, <1>9, <1>10

\* The content goes into the last entry, and its file is done.
LEMMA BodyEffect ==
  ASSUME TypeOK, ManifestInv, HeaderInv, AddBody, pc' = "next"
  PROVE  LET c == disk[Head(todo)]
         IN  /\ m' = m /\ Current'.ended = Current.ended
             /\ Head(todo) \in Files /\ todo # << >> /\ todo' = Tail(todo)
             /\ c # Absent /\ c.size <= missing /\ missing' = missing - c.size
             /\ Top \in Nat /\ Top > 0 /\ Top' = Top
             /\ \A j \in 1..Top : j # Top => Current'.entries[j] = Current.entries[j]
             /\ Current'.entries[Top].name = Head(todo)
             /\ Current'.entries[Top].size = Current.entries[Top].size
             /\ Current'.entries[Top].body = c
             /\ \A v \in Versions : v # m.version => bundles'[v] = bundles[v]
<1> DEFINE c == disk[Head(todo)]
           es == bundles[m.version].entries
           k == Len(es)
           t == [es EXCEPT ![k].body = c]
<1>1. /\ m' = m /\ c # Absent /\ c.size <= missing /\ missing' = missing - c.size
      /\ todo' = Tail(todo)
      /\ bundles' = [bundles EXCEPT ![m.version].entries = t]
  BY DEF AddBody, FailBuild
<1>2. m.version \in Versions
  BY DEF AddBody, ManifestInv, Accepted
<1>3. bundles \in [Versions -> Bundle] /\ bundles[m.version] \in Bundle
  BY <1>2 DEF TypeOK
<1>4. Head(todo) \in Files /\ todo # << >>
  <2>1. todo \in Seq(Names) /\ todo # << >> /\ Head(todo) # "assets"
    BY DEF AddBody, HeaderInv, TypeOK, Names
  <2> QED
    BY <2>1, TodoType DEF Names
<1>5. es \in Seq(Entry) /\ k \in Nat /\ k > 0 /\ es[k].name = Head(todo) /\ es[k] \in Entry
  <2>1. es \in Seq(Entry)
    BY <1>3 DEF Bundle
  <2>2. k > 0 /\ es[k].name = Head(todo)
    BY DEF AddBody, HeaderInv, Top, Current
  <2> QED
    BY <2>1, <2>2
<1> HIDE DEF c
<1>6. /\ Len(t) = k /\ \A j \in 1..k : j # k => t[j] = es[j]
      /\ t[k] = [es[k] EXCEPT !.body = c]
  BY <1>5
<1>7. t[k].name = es[k].name /\ t[k].size = es[k].size /\ t[k].body = c
  BY <1>5, <1>6 DEF Entry
<1> HIDE DEF t
<1>8. /\ bundles'[m.version].entries = t
      /\ bundles'[m.version].ended = bundles[m.version].ended
      /\ \A v \in Versions : v # m.version => bundles'[v] = bundles[v]
  BY <1>1, <1>2, <1>3 DEF Bundle
<1>9. /\ Current = bundles[m.version] /\ Current'.entries = t /\ Current'.ended = Current.ended
      /\ Top = k /\ Top' = k
  BY <1>1, <1>6, <1>8 DEF Current, Top
<1>10. /\ \A j \in 1..Top : j # Top => Current'.entries[j] = Current.entries[j]
       /\ Current'.entries[Top].name = Head(todo)
       /\ Current'.entries[Top].size = Current.entries[Top].size
       /\ Current'.entries[Top].body = c
  BY <1>5, <1>6, <1>7, <1>9
<1> QED
  BY <1>1, <1>4, <1>5, <1>8, <1>9, <1>10 DEF c

\* The steps in which a bundle begins and ends.
LEMMA CreateEffect ==
  ASSUME TypeOK, ManifestInv, Create, pc' = "next"
  PROVE  /\ m' = m /\ missing' = 0 /\ ~Current'.ended /\ Top' = 0
         /\ todo' = <<"connector.yaml", "image.tar">> \o Optional \o <<"assets">>
         /\ \A v \in Versions : v # m.version => bundles'[v] = bundles[v]
<1>1. /\ m' = m /\ missing' = 0 /\ bundles' = [bundles EXCEPT ![m.version] = NoBundle]
      /\ todo' = <<"connector.yaml", "image.tar">> \o Optional \o <<"assets">>
  BY DEF Create, Fail
<1>2. m.version \in Versions /\ bundles \in [Versions -> Bundle]
  BY DEF Create, ManifestInv, Accepted, TypeOK
<1>3. bundles'[m.version] = NoBundle /\ \A v \in Versions : v # m.version => bundles'[v] = bundles[v]
  BY <1>1, <1>2
<1> QED
  BY <1>1, <1>3 DEF Current, Top, NoBundle

LEMMA CloseEffect ==
  ASSUME TypeOK, ManifestInv, Close
  PROVE  /\ m' = m /\ Top' = Top
         /\ Current'.entries = Current.entries
         /\ Current'.ended => Current.ended \/ missing = 0
         /\ \A v \in Versions : bundles'[v].entries = bundles[v].entries
<1>1. m' = m /\ m.version \in Versions /\ bundles \in [Versions -> Bundle]
  BY DEF Close, input, ManifestInv, Accepted, TypeOK
<1>2. CASE UNCHANGED bundles
  BY <1>1, <1>2 DEF Current, Top
<1>3. CASE missing = 0 /\ bundles' = [bundles EXCEPT ![m.version].ended = TRUE]
  <2>1. \A v \in Versions : bundles[v] \in Bundle
    BY <1>1
  <2>2. \A v \in Versions : bundles'[v].entries = bundles[v].entries
    BY <1>1, <1>3, <2>1 DEF Bundle
  <2> QED
    BY <1>1, <1>3, <2>2 DEF Current, Top
<1> QED
  BY <1>2, <1>3 DEF Close

LEMMA HeaderStep == TypeOK /\ ManifestInv /\ HeaderInv /\ [Next]_vars => HeaderInv'
<1> SUFFICES ASSUME TypeOK, ManifestInv, HeaderInv, [Next]_vars PROVE HeaderInv'
  OBVIOUS
<1> USE DEF Goto, Refuse, Fail, FailBuild, archive, input, None
<1>2. CASE UNCHANGED vars
  BY <1>2 DEF vars, HeaderInv, Current, Top
<1>3. CASE Start
  BY <1>3 DEF Start, HeaderInv, Current, Top
<1>4. CASE Interrupt
  BY <1>4 DEF Interrupt, HeaderInv, Current, Top
<1>5. ASSUME NEW f \in Files \ {"image.tar"}, Edit(f) PROVE HeaderInv'
  BY <1>5 DEF Edit, HeaderInv, Current, Top
<1>6. CASE Validate
  BY <1>6 DEF Validate, HeaderInv, Current, Top
<1>7. CASE ReadManifest
  BY <1>7 DEF ReadManifest, HeaderInv, Current, Top
<1>8. CASE MakeScratch
  BY <1>8 DEF MakeScratch, HeaderInv, Current, Top
<1>9. CASE DockerSave
  BY <1>9 DEF DockerSave, HeaderInv, Current, Top
<1>10. CASE Create
  BY <1>10 DEF Create, HeaderInv, Current, Top
<1>11. CASE NextFile
  BY <1>11 DEF NextFile, HeaderInv, Current, Top
<1>12. CASE WalkAssets
  BY <1>12 DEF WalkAssets, HeaderInv, Current, Top
<1>13. CASE AddHeader
  <2>1. CASE pc' = "body"
    <3>1. todo' = todo /\ todo # << >> /\ Head(todo) # "assets"
      BY <1>13 DEF AddHeader, HeaderInv
    <3>2. Top' > 0 /\ Current'.entries[Top'].name = Head(todo) /\ Current'.entries[Top'].body = Absent
      BY <1>13, <2>1, HeaderEffect
    <3> QED
      BY <2>1, <3>1, <3>2 DEF HeaderInv
  <2>2. CASE pc' = "close" /\ result' = "failed"
    BY <2>2 DEF HeaderInv
  <2> QED
    BY <1>13, <2>1, <2>2 DEF AddHeader
<1>14. CASE AddBody
  <2>1. pc' = "next" \/ (pc' = "close" /\ result' = "failed")
    BY <1>14 DEF AddBody
  <2> QED
    BY <2>1 DEF HeaderInv
<1>15. CASE EndOfFiles
  BY <1>15 DEF EndOfFiles, HeaderInv, Current, Top
<1>16. CASE Close
  BY <1>16 DEF Close, HeaderInv, Current, Top
<1>17. CASE Report
  BY <1>17 DEF Report, HeaderInv, Current, Top
<1>18. CASE RemoveScratch
  BY <1>18 DEF RemoveScratch, HeaderInv, Current, Top
<1> QED
  BY <1>2, <1>3, <1>4, <1>5, <1>6, <1>7, <1>8, <1>9, <1>10, <1>11, <1>12, <1>13, <1>14, <1>15,
     <1>16, <1>17, <1>18 DEF Next, Step


LEMMA ImagesStep ==
  TypeOK /\ ManifestInv /\ ImageInv /\ HeaderInv /\ ImagesInv /\ [Next]_vars => ImagesInv'
<1> SUFFICES ASSUME TypeOK, ManifestInv, ImageInv, HeaderInv, ImagesInv, [Next]_vars
             PROVE  ImagesInv'
  OBVIOUS
<1> DEFINE Tagged(v, e) == e.name = "image.tar" /\ e.body # Absent => e.body.tag = v
<1>1. \A v \in Versions : \A i \in DOMAIN bundles[v].entries : Tagged(v, bundles[v].entries[i])
  BY DEF ImagesInv
<1>2. \A v \in Versions : DOMAIN bundles[v].entries = 1..Len(bundles[v].entries)
  BY DEF TypeOK, Bundle
<1>3. \A v \in Versions : DOMAIN bundles'[v].entries = 1..Len(bundles'[v].entries)
  BY TypeStep DEF TypeOK, Bundle
<1>4. SUFFICES ASSUME NEW v \in Versions, NEW i \in DOMAIN bundles'[v].entries
               PROVE  Tagged(v, bundles'[v].entries[i])
  BY DEF ImagesInv
<1>5. CASE bundles'[v].entries = bundles[v].entries
  BY <1>1, <1>4, <1>5
<1>6. CASE AddHeader /\ bundles'[v].entries # bundles[v].entries
  <2>1. pc' = "body"
    BY <1>6 DEF AddHeader, FailBuild, Goto
  <2>2. v = m.version /\ m' = m
    BY <1>6, <2>1, HeaderEffect
  <2>3. i \in 1..Top + 1 /\ Top \in Nat
    BY <1>3, <1>4, <1>6, <2>1, <2>2, HeaderEffect DEF Current, Top
  <2>4. CASE i = Top + 1
    <3>1. Current'.entries[i].body = Absent
      BY <1>6, <2>1, <2>4, HeaderEffect
    <3> QED
      BY <2>2, <3>1 DEF Current
  <2>5. CASE i \in 1..Top
    <3>1. Current'.entries[i] = Current.entries[i]
      BY <1>6, <2>1, <2>5, HeaderEffect
    <3> QED
      BY <1>1, <1>2, <2>2, <2>5, <3>1 DEF Current, Top
  <2> QED
    BY <2>3, <2>4, <2>5
<1>7. CASE AddBody /\ bundles'[v].entries # bundles[v].entries
  <2>1. pc' = "next"
    BY <1>7 DEF AddBody, FailBuild, Goto, archive
  <2>2. v = m.version /\ m' = m
    BY <1>7, <2>1, BodyEffect
  <2>3. i \in 1..Top /\ Top \in Nat
    BY <1>3, <1>4, <1>7, <2>1, <2>2, BodyEffect DEF Current, Top
  <2>4. CASE i = Top
    <3>1. Current'.entries[i].name = Head(todo) /\ Current'.entries[i].body = disk[Head(todo)]
      BY <1>7, <2>1, <2>4, BodyEffect
    <3>2. Head(todo) = "image.tar" => disk[Head(todo)].tag = m.version
      <4>1. m.tag = m.version /\ disk["image.tar"] = Image(m.tag)
        BY <1>7 DEF AddBody, ImageInv, Building, ManifestInv, Accepted
      <4> QED
        BY <4>1 DEF Image
    <3> QED
      BY <2>2, <3>1, <3>2 DEF Current
  <2>5. CASE i # Top
    <3>1. Current'.entries[i] = Current.entries[i]
      BY <1>7, <2>1, <2>3, <2>5, BodyEffect
    <3> QED
      BY <1>1, <1>2, <2>2, <2>3, <3>1 DEF Current, Top
  <2> QED
    BY <2>4, <2>5
<1>8. CASE Create /\ bundles'[v].entries # bundles[v].entries
  <2>1. pc' = "next"
    BY <1>8 DEF Create, Fail, Goto, archive
  <2>2. v = m.version /\ Len(bundles'[v].entries) = 0
    BY <1>8, <2>1, CreateEffect DEF Current, Top
  <2> QED
    BY <1>3, <1>4, <2>2
<1>9. CASE Close /\ bundles'[v].entries # bundles[v].entries
  BY <1>9, CloseEffect
<1>10. ~(AddHeader \/ AddBody \/ Create \/ Close) => bundles' = bundles
  BY DEF Next, Step, vars, archive, Start, Interrupt, Edit, Validate, ReadManifest, MakeScratch,
         DockerSave, NextFile, WalkAssets, EndOfFiles, Report, RemoveScratch
<1> QED
  BY <1>5, <1>6, <1>7, <1>8, <1>9, <1>10

\* A step that goes on with the bundle, or with a complete one, and leaves its entries alone.
Quiet ==
  /\ UNCHANGED <<bundles, m, missing>>
  /\ (Filling' => Filling) /\ (Filled' => Filled) /\ (pc' = "body" <=> pc = "body")
  /\ touched \subseteq touched'
  /\ \A f \in Files \ touched' : f # "image.tar" => disk'[f] = disk[f]

LEMMA StepKinds ==
  ASSUME TypeOK, ResultInv, [Next]_vars, Filling' \/ Filled'
  PROVE  \/ Create /\ pc' = "next"
         \/ AddHeader /\ pc' = "body"
         \/ AddBody /\ pc' = "next"
         \/ Close /\ pc' = "report" /\ Filling
         \/ Quiet
<1> USE DEF Goto, Refuse, Fail, FailBuild, archive, input, None, ResultInv, Filling, Filled
<1>2. CASE UNCHANGED vars
  BY <1>2 DEF vars, Quiet
<1>3. ~Start /\ ~Interrupt
  BY DEF Start, Interrupt
<1>4. ASSUME NEW f \in Files \ {"image.tar"}, Edit(f) PROVE Quiet
  BY <1>4, DiskKept DEF Edit, Quiet
<1>5. ~Validate /\ ~ReadManifest /\ ~MakeScratch /\ ~DockerSave
  BY DEF Validate, ReadManifest, MakeScratch, DockerSave
<1>6. NextFile \/ WalkAssets \/ EndOfFiles => Quiet
  BY DEF NextFile, WalkAssets, EndOfFiles, Quiet
<1>7. Report => Quiet
  BY DEF Report, Quiet
<1>8. CASE RemoveScratch
  BY <1>8, DiskKept DEF RemoveScratch, Quiet
<1>9. Create => pc' = "next"
  BY DEF Create
<1>10. AddHeader => pc' = "body"
  BY DEF AddHeader
<1>11. AddBody => pc' = "next"
  BY DEF AddBody
<1>12. Close => pc' = "report" /\ Filling
  BY DEF Close
<1> QED
  BY <1>2, <1>3, <1>4, <1>5, <1>6, <1>7, <1>8, <1>9, <1>10, <1>11, <1>12 DEF Next, Step

LEMMA SizeType ==
  ASSUME TypeOK, ManifestInv, Accepted
  PROVE  /\ Top \in Nat /\ missing \in Nat
         /\ \A i \in 1..Top : /\ Current.entries[i].size \in Nat
                              /\ Copied(Current.entries[i]) \in Nat
<1>1. m.version \in Versions
  BY DEF ManifestInv
<1>2. Current.entries \in Seq(Entry) /\ missing \in Nat
  BY <1>1 DEF Current, TypeOK, Bundle
<1>3. Top \in Nat /\ \A i \in 1..Top : Current.entries[i] \in Entry
  BY <1>2 DEF Top
<1>4. \A e \in Entry : e.size \in Nat /\ e.body \in Content
  BY DEF Entry
<1>5. \A e \in Entry : Copied(e) \in Nat
  BY <1>4, ContentType DEF Copied
<1> QED
  BY <1>2, <1>3, <1>4, <1>5

LEMMA SizesStep ==
  ASSUME TypeOK, ResultInv, ManifestInv, HeaderInv, SizesInv, [Next]_vars
  PROVE  SizesInv'
<1>1. SUFFICES ASSUME Filling' \/ Filled' PROVE SizesInv'
  BY DEF SizesInv
<1>2. CASE Create /\ pc' = "next"
  <2>1. ~Current'.ended /\ Top' = 0 /\ missing' = 0 /\ ~Filled'
    BY <1>2, CreateEffect DEF Create, Goto, ResultInv, Filled, Fail, None
  <2> QED
    BY <2>1 DEF SizesInv
<1>3. CASE AddHeader /\ pc' = "body"
  <2>1. Filling /\ Accepted /\ ~Filled'
    BY <1>3 DEF AddHeader, Filling, Filled, Accepted, ResultInv, Goto, FailBuild, None
  <2>2. disk[Head(todo)].size \in Nat
    <3>1. Head(todo) \in Files /\ disk[Head(todo)] # Absent
      BY <1>3, HeaderEffect
    <3>2. disk[Head(todo)] \in Content
      BY <3>1 DEF TypeOK
    <3> QED
      BY <3>1, <3>2, ContentType
  <2>3. ASSUME NEW i \in 1..Top'
        PROVE  Current'.entries[i].size =
                 Copied(Current'.entries[i]) + IF i = Top' THEN missing' ELSE 0
    <3>1. CASE i \in 1..Top
      <4>1. Current.entries[i].size = Copied(Current.entries[i]) + IF i = Top THEN missing ELSE 0
        BY <2>1, <3>1 DEF SizesInv
      <4>2. /\ Current'.entries[i] = Current.entries[i] /\ missing = 0 /\ i # Top'
        BY <1>3, <3>1, HeaderEffect
      <4>3. Copied(Current.entries[i]) \in Nat
        BY <2>1, <3>1, SizeType
      <4> QED
        BY <4>1, <4>2, <4>3
    <3>2. CASE i = Top + 1
      <4>1. /\ Top' = Top + 1 /\ missing' = disk[Head(todo)].size
            /\ Current'.entries[i].size = disk[Head(todo)].size
            /\ Current'.entries[i].body = Absent
        BY <1>3, <3>2, HeaderEffect
      <4>2. Copied(Current'.entries[i]) = 0
        BY <4>1 DEF Copied
      <4> QED
        BY <2>2, <3>2, <4>1, <4>2
    <3>3. i \in 1..Top \/ i = Top + 1
      BY <1>3, <2>3, HeaderEffect
    <3> QED
      BY <3>1, <3>2, <3>3
  <2>4. ~Current'.ended /\ Top' # 0
    BY <1>3, <2>1, HeaderEffect DEF SizesInv
  <2> QED
    BY <2>1, <2>3, <2>4 DEF SizesInv
<1>4. CASE AddBody /\ pc' = "next"
  <2>1. Filling /\ Accepted /\ ~Filled' /\ pc = "body"
    BY <1>4 DEF AddBody, Filling, Filled, Accepted, ResultInv, Goto, FailBuild, None
  <2> DEFINE c == disk[Head(todo)]
  <2>2. c.size \in Nat /\ c # Absent
    <3>1. Head(todo) \in Files /\ c # Absent
      BY <1>4, BodyEffect
    <3>2. c \in Content
      BY <3>1 DEF TypeOK
    <3> QED
      BY <3>1, <3>2, ContentType
  <2>3. /\ Top \in Nat /\ Top > 0 /\ Top' = Top /\ c.size <= missing /\ missing' = missing - c.size
        /\ \A j \in 1..Top : j # Top => Current'.entries[j] = Current.entries[j]
        /\ Current'.entries[Top].size = Current.entries[Top].size
        /\ Current'.entries[Top].body = c /\ Current'.ended = Current.ended
    BY <1>4, BodyEffect
  <2>4. Current.entries[Top].size = missing /\ missing \in Nat
    <3>1. Current.entries[Top].body = Absent /\ missing \in Nat
      BY <2>1, SizeType DEF HeaderInv
    <3>2. Current.entries[Top].size = Copied(Current.entries[Top]) + missing
      BY <2>1, <2>3 DEF SizesInv
    <3>3. Copied(Current.entries[Top]) = 0
      BY <3>1 DEF Copied
    <3> QED
      BY <3>1, <3>2, <3>3
  <2>5. ASSUME NEW i \in 1..Top'
        PROVE  Current'.entries[i].size =
                 Copied(Current'.entries[i]) + IF i = Top' THEN missing' ELSE 0
    <3>1. CASE i = Top
      <4>1. Copied(Current'.entries[Top]) = c.size
        BY <2>2, <2>3 DEF Copied
      <4> QED
        BY <2>2, <2>3, <2>4, <3>1, <4>1
    <3>2. CASE i # Top
      <4>1. Current.entries[i].size = Copied(Current.entries[i]) + IF i = Top THEN missing ELSE 0
        BY <2>1, <2>3, <2>5 DEF SizesInv
      <4> QED
        BY <2>3, <2>5, <3>2, <4>1
    <3> QED
      BY <3>1, <3>2
  <2> QED
    BY <2>1, <2>3, <2>5 DEF SizesInv
<1>5. CASE Close /\ pc' = "report" /\ Filling
  <2>1. /\ Accepted /\ ~Filling' /\ ~Current.ended
        /\ \A i \in 1..Top :
             Current.entries[i].size =
               Copied(Current.entries[i]) + IF i = Top THEN missing ELSE 0
    BY <1>5 DEF Close, Filling, Accepted, SizesInv
  <2>2. /\ Top' = Top /\ Current'.entries = Current.entries
        /\ Current'.ended => missing = 0
    BY <1>5, <2>1, CloseEffect
  <2>3. \A i \in 1..Top : Copied(Current.entries[i]) \in Nat
    BY <2>1, SizeType
  <2> QED
    BY <2>1, <2>2, <2>3 DEF SizesInv
<1>6. CASE Quiet
  BY <1>6 DEF Quiet, SizesInv, Current, Top
<1> QED
  BY <1>1, <1>2, <1>3, <1>4, <1>5, <1>6, StepKinds

LEMMA BodiesStep ==
  ASSUME TypeOK, ResultInv, ManifestInv, HeaderInv, BodiesInv, [Next]_vars
  PROVE  BodiesInv'
<1>1. SUFFICES ASSUME Filling' \/ Filled', NEW i \in 1..Top'
               PROVE  LET e == Current'.entries[i]
                      IN  /\ i < Top' \/ pc' # "body" => e.body # Absent
                          /\ e.name = "connector.yaml" /\ e.body # Absent
                             /\ "connector.yaml" \notin touched' => e.body = m'
  BY DEF BodiesInv
<1>2. CASE Create /\ pc' = "next"
  <2>1. Top' = 0
    BY <1>2, CreateEffect
  <2> QED
    BY <1>1, <2>1
<1>3. CASE AddHeader /\ pc' = "body"
  <2>1. Filling /\ pc # "body" /\ touched' = touched
    BY <1>3 DEF AddHeader, Filling, input
  <2>2. CASE i \in 1..Top
    <3>1. Current'.entries[i] = Current.entries[i] /\ m' = m
      BY <1>3, <2>2, HeaderEffect
    <3> QED
      BY <2>1, <2>2, <3>1 DEF BodiesInv
  <2>3. CASE i = Top + 1
    <3>1. Current'.entries[i].body = Absent /\ Top' = Top + 1 /\ Top \in Nat
      BY <1>3, <2>3, HeaderEffect
    <3> QED
      BY <1>3, <2>3, <3>1
  <2> QED
    BY <1>1, <1>3, <2>2, <2>3, HeaderEffect
<1>4. CASE AddBody /\ pc' = "next"
  <2>1. Filling /\ Accepted /\ pc = "body" /\ touched' = touched
    BY <1>4 DEF AddBody, Filling, Accepted, input
  <2>2. /\ Top \in Nat /\ Top' = Top /\ m' = m /\ disk[Head(todo)] # Absent
        /\ \A j \in 1..Top : j # Top => Current'.entries[j] = Current.entries[j]
        /\ Current'.entries[Top].name = Head(todo)
        /\ Current'.entries[Top].body = disk[Head(todo)]
    BY <1>4, BodyEffect
  <2>3. CASE i = Top
    <3>1. "connector.yaml" \notin touched => disk["connector.yaml"] = m
      BY <2>1 DEF ManifestInv
    <3> QED
      BY <2>1, <2>2, <2>3, <3>1
  <2>4. CASE i # Top
    <3>1. i \in 1..Top /\ i < Top /\ Current'.entries[i] = Current.entries[i]
      BY <1>1, <2>2, <2>4
    <3> QED
      BY <2>1, <2>2, <3>1 DEF BodiesInv
  <2> QED
    BY <2>3, <2>4
<1>5. CASE Close /\ pc' = "report" /\ Filling
  <2>1. pc # "body" /\ Accepted /\ touched' = touched
    BY <1>5 DEF Close, Accepted, input
  <2>2. Top' = Top /\ Current'.entries = Current.entries /\ m' = m
    BY <1>5, CloseEffect
  <2> QED
    BY <1>1, <1>5, <2>1, <2>2 DEF BodiesInv
<1>6. CASE Quiet
  BY <1>1, <1>6 DEF Quiet, BodiesInv, Current, Top
<1> QED
  BY <1>1, <1>2, <1>3, <1>4, <1>5, <1>6, StepKinds

LEMMA OwedFacts ==
  /\ \A f \in Files :
       f \in ToSet(<<"connector.yaml", "image.tar">> \o Optional \o <<"assets">>)
         \/ f \in ToSet(Assets)
  /\ "assets" \in ToSet(<<"connector.yaml", "image.tar">> \o Optional \o <<"assets">>)
  /\ \A t \in Seq(Names) : t # << >> =>
       \A f \in ToSet(t) : f = Head(t) \/ f \in ToSet(Tail(t))
<1> DEFINE a == <<"connector.yaml", "image.tar">>
           t == a \o Optional \o <<"assets">>
<1>1. Optional \in Seq(Names) /\ a \in Seq(Names) /\ <<"assets">> \in Seq(Names)
  BY SequenceFacts, ContentType DEF Names
<1>2. a \o Optional \in Seq(Names) /\ Len(a \o Optional) = 2 + Len(Optional)
  BY <1>1
<1>3. /\ t \in Seq(Names) /\ Len(t) = 3 + Len(Optional)
      /\ t[1] = "connector.yaml" /\ t[2] = "image.tar" /\ t[3 + Len(Optional)] = "assets"
      /\ \A j \in 1..Len(Optional) : t[2 + j] = Optional[j]
  BY <1>1, <1>2
<1> HIDE DEF t
<1>4. /\ \A j \in 1..(3 + Len(Optional)) : t[j] \in ToSet(t)
      /\ \A f \in ToSet(Optional) : \E j \in 1..Len(Optional) : f = Optional[j]
      /\ Len(Optional) \in Nat
  <2>1. DOMAIN t = 1..(3 + Len(Optional)) /\ DOMAIN Optional = 1..Len(Optional)
    BY <1>1, <1>3
  <2> QED
    BY <1>1, <2>1 DEF ToSet
<1>5. /\ "connector.yaml" \in ToSet(t) /\ "image.tar" \in ToSet(t) /\ "assets" \in ToSet(t)
      /\ ToSet(Optional) \subseteq ToSet(t)
  BY <1>3, <1>4
<1>6. ASSUME NEW u \in Seq(Names), u # << >>, NEW f \in ToSet(u)
      PROVE  f = Head(u) \/ f \in ToSet(Tail(u))
  <2>1. PICK j \in 1..Len(u) : f = u[j]
    BY <1>6 DEF ToSet
  <2>2. CASE j = 1
    BY <2>1, <2>2
  <2>3. CASE j > 1
    <3>1. Tail(u)[j - 1] = u[j] /\ j - 1 \in 1..Len(Tail(u)) /\ Tail(u) \in Seq(Names)
      BY <1>6, <2>1, <2>3, HeadTailProperties
    <3>2. j - 1 \in DOMAIN Tail(u)
      BY <3>1
    <3> QED
      BY <2>1, <3>1, <3>2 DEF ToSet
  <2> QED
    BY <2>1, <2>2, <2>3
<1> QED
  BY <1>5, <1>6 DEF Files, t

\* What is owed stays so until it is packed: NextFile drops only an optional file that is not
\* there, and WalkAssets finds all of assets/.
LEMMA OwedStep ==
  ASSUME TypeOK, ImageInv, HeaderInv, [Next]_vars, Quiet, Filling',
         NEW f \in Files \ touched', disk[f] # Absent \/ f = "image.tar", Owed(f)
  PROVE  Owed(f)'
<1>1. Filling
  BY DEF Quiet
<1>2. disk["image.tar"] # Absent
  BY <1>1, ContentType DEF Filling, ImageInv, Building, TypeOK
<1>3. disk[f] # Absent
  BY <1>2
<1>4. todo \in Seq(Names) /\ "assets" \notin Files
  BY BundleAssumption DEF TypeOK, Names
<1>5. CASE todo' = todo
  BY <1>5 DEF Owed
<1>6. CASE NextFile /\ todo' # todo
  <2>1. todo' = Tail(todo) /\ todo # << >> /\ disk[Head(todo)] = Absent /\ Head(todo) # "assets"
    BY <1>6 DEF NextFile, Goto
  <2>2. f # Head(todo)
    BY <1>3, <2>1
  <2>3. f \in ToSet(todo) => f \in ToSet(todo')
    BY <1>4, <2>1, <2>2, OwedFacts
  <2>4. "assets" \in ToSet(todo) => "assets" \in ToSet(todo')
    BY <1>4, <2>1, OwedFacts
  <2> QED
    BY <2>3, <2>4 DEF Owed
<1>7. CASE WalkAssets /\ todo' # todo
  <2>1. todo = <<"assets">> /\ todo' = Present[Len(Assets)]
    BY <1>7 DEF WalkAssets
  <2>2. f \notin ToSet(todo)
    BY <1>4, <2>1 DEF ToSet
  <2>3. f \in ToSet(Assets)
    BY <2>2 DEF Owed
  <2>4. f \in ToSet(Present[Len(Assets)])
    BY <1>3, <2>3, PresentIsAll
  <2> QED
    BY <2>1, <2>4 DEF Owed
<1>8. todo' # todo => NextFile \/ WalkAssets \/ ~Quiet \/ Create \/ AddBody
  BY DEF Next, Step, vars, archive, Start, Interrupt, Edit, Validate, ReadManifest, MakeScratch,
         DockerSave, AddHeader, EndOfFiles, Close, Report, RemoveScratch
<1>9. ~Create /\ ~(AddBody /\ todo' # todo)
  BY DEF Create, AddBody, Quiet, Filling, Fail, FailBuild, archive, Goto
<1> QED
  BY <1>5, <1>6, <1>7, <1>8, <1>9

LEMMA FilesStep ==
  ASSUME TypeOK, ResultInv, ManifestInv, ImageInv, HeaderInv, FilesInv, [Next]_vars
  PROVE  FilesInv'
<1>1. SUFFICES ASSUME Filling' \/ Filled', NEW f \in Files \ touched',
                      disk'[f] # Absent \/ f = "image.tar"
               PROVE  (Filling' => Packed(f)' \/ Owed(f)') /\ (Filled' => Packed(f)')
  BY DEF FilesInv
<1>2. CASE Create /\ pc' = "next"
  <2>1. ~Filled'
    BY <1>2 DEF Create, Goto, ResultInv, Filled, Fail, None
  <2>2. Owed(f)'
    BY <1>1, <1>2, CreateEffect, OwedFacts DEF Owed
  <2> QED
    BY <2>1, <2>2
<1>3. CASE AddHeader /\ pc' = "body"
  <2>1. Filling /\ ~Filled' /\ UNCHANGED <<touched, disk, todo>>
    BY <1>3 DEF AddHeader, Filling, Filled, ResultInv, Goto, FailBuild, None, input
  <2>2. Packed(f) \/ Owed(f)
    BY <1>1, <2>1 DEF FilesInv
  <2>3. Owed(f) => Owed(f)'
    BY <2>1 DEF Owed
  <2>4. ASSUME Packed(f) PROVE Packed(f)'
    <3>1. PICK i \in 1..Top : /\ Current.entries[i].name = f /\ Current.entries[i].body # Absent
                              /\ f # "image.tar" => Current.entries[i].body = disk[f]
      BY <2>4 DEF Packed
    <3>2. i \in 1..Top' /\ Current'.entries[i] = Current.entries[i]
      BY <1>3, HeaderEffect
    <3> QED
      BY <2>1, <3>1, <3>2 DEF Packed
  <2> QED
    BY <2>1, <2>2, <2>3, <2>4
<1>4. CASE AddBody /\ pc' = "next"
  <2>1. Filling /\ ~Filled' /\ pc = "body" /\ UNCHANGED <<touched, disk>>
    BY <1>4 DEF AddBody, Filling, Filled, ResultInv, Goto, FailBuild, None, input
  <2>2. Packed(f) \/ Owed(f)
    BY <1>1, <2>1 DEF FilesInv
  <2>3. /\ Top \in Nat /\ Top > 0 /\ Top' = Top /\ disk[Head(todo)] # Absent
        /\ \A j \in 1..Top : j # Top => Current'.entries[j] = Current.entries[j]
        /\ Current'.entries[Top].name = Head(todo)
        /\ Current'.entries[Top].body = disk[Head(todo)]
        /\ todo # << >> /\ todo' = Tail(todo) /\ Head(todo) \in Files
    BY <1>4, BodyEffect
  <2>4. ASSUME Packed(f) PROVE Packed(f)'
    <3>1. PICK i \in 1..Top : /\ Current.entries[i].name = f /\ Current.entries[i].body # Absent
                              /\ f # "image.tar" => Current.entries[i].body = disk[f]
      BY <2>4 DEF Packed
    <3>2. i # Top
      BY <2>1, <3>1 DEF HeaderInv
    <3>3. i \in 1..Top' /\ Current'.entries[i] = Current.entries[i]
      BY <2>3, <3>2
    <3> QED
      BY <2>1, <3>1, <3>3 DEF Packed
  <2>5. CASE f = Head(todo)
    <3>1. Top' \in 1..Top'
      BY <2>3
    <3> QED
      BY <2>1, <2>3, <2>5, <3>1 DEF Packed
  <2>6. CASE f # Head(todo) /\ Owed(f)
    <3>1. todo \in Seq(Names) /\ "assets" # Head(todo)
      BY <2>3, BundleAssumption DEF TypeOK, Names
    <3>2. f \in ToSet(todo) => f \in ToSet(todo')
      BY <2>3, <2>6, <3>1, OwedFacts
    <3>3. "assets" \in ToSet(todo) => "assets" \in ToSet(todo')
      BY <2>3, <3>1, OwedFacts
    <3> QED
      BY <2>1, <2>6, <3>2, <3>3 DEF Owed
  <2> QED
    BY <2>1, <2>2, <2>4, <2>5, <2>6
<1>5. CASE Close /\ pc' = "report" /\ Filling
  <2>1. todo = << >> /\ ~Filling' /\ UNCHANGED <<touched, disk>>
    BY <1>5 DEF Close, Filling, HeaderInv, input
  <2>2. Packed(f)
    <3>1. ~Owed(f)
      BY <2>1 DEF Owed, ToSet
    <3> QED
      BY <1>1, <1>5, <2>1, <3>1 DEF FilesInv
  <2>3. Top' = Top /\ Current'.entries = Current.entries
    BY <1>5, CloseEffect
  <2> QED
    BY <2>1, <2>2, <2>3 DEF Packed
<1>6. CASE Quiet
  <2>1. f \in Files \ touched /\ (f # "image.tar" => disk'[f] = disk[f])
    BY <1>1, <1>6 DEF Quiet
  <2>2. disk[f] # Absent \/ f = "image.tar"
    BY <1>1, <2>1
  <2>3. Packed(f) => Packed(f)'
    BY <1>6, <2>1 DEF Packed, Quiet, Current, Top
  <2>4. Filling' /\ Owed(f) => Owed(f)'
    BY <1>1, <1>6, <2>2, OwedStep
  <2>5. (Filling' => Filling) /\ (Filled' => Filled)
    BY <1>6 DEF Quiet
  <2> QED
    BY <2>1, <2>2, <2>3, <2>4, <2>5 DEF FilesInv
<1> QED
  BY <1>1, <1>2, <1>3, <1>4, <1>5, <1>6, StepKinds

LEMMA BundleInit == Init => BundleInv
<1> SUFFICES ASSUME Init PROVE BundleInv
  OBVIOUS
<1>1. TypeOK
  BY TypeInit
<1>2. ~Filling /\ ~Filled /\ ~Accepted /\ pc = "idle" /\ result = None
  BY DEF Init, Filling, Filled, Accepted, None
<1>3. ImagesInv
  BY DEF Init, ImagesInv, NoBundle
<1> QED
  BY <1>1, <1>2, <1>3 DEF BundleInv, ResultInv, ManifestInv, ImageInv, Building, HeaderInv,
     SizesInv, BodiesInv, FilesInv

LEMMA BundleStep == BundleInv /\ [Next]_vars => BundleInv'
  BY TypeStep, ResultStep, ManifestStep, ImageStep, ImagesStep, HeaderStep, SizesStep, BodiesStep,
     FilesStep DEF BundleInv

\* Types, for files of any size, empty ones too: a header is only written for a file that is
\* there.
THEOREM BundleTypes == Spec => []TypeOK
<1>1. BundleInv => TypeOK
  BY DEF BundleInv, TypeOK
<1> QED
  BY BundleInit, BundleStep, <1>1, PTL DEF Spec

\* The image in a bundle always has the tag in the bundle's name; and so has the manifest, for an
\* author who leaves it alone between the three reads of cmdPackage and buildBundle.
THEOREM IdentifiersAlwaysAgree == Spec => []IdentifiersAgree
<1>1. ASSUME BundleInv PROVE IdentifiersAgree
  <2>1. \A v \in Versions : bundles[v].entries \in Seq(Entry)
    BY <1>1 DEF BundleInv, TypeOK, Bundle
  <2>2. ASSUME NEW v \in Versions, NEW e \in Entries(v), e.name = "image.tar", e.body # Absent
        PROVE  e.body.tag = v
    BY <1>1, <2>1, <2>2 DEF BundleInv, ImagesInv, Entries, ToSet
  <2>3. ASSUME result = "written", "connector.yaml" \notin touched, NEW e \in Entries(m.version),
               e.name = "connector.yaml"
        PROVE  e.body.valid /\ e.body.version = m.version /\ e.body.tag = m.version
    <3>1. m.version \in Versions /\ m.tag = m.version /\ m.valid
      BY <1>1, <2>3 DEF BundleInv, ManifestInv, Accepted
    <3>2. PICK i \in 1..Top : e = Current.entries[i]
      <4>1. DOMAIN Current.entries = 1..Top
        BY <2>1, <3>1 DEF Current, Top
      <4> QED
        BY <2>3, <4>1 DEF Entries, ToSet, Current
    <3>3. e.body # Absent
      <4>1. pc # "body"
        BY <1>1, <2>3 DEF BundleInv, ResultInv, None
      <4> QED
        BY <1>1, <2>3, <3>2, <4>1 DEF BundleInv, BodiesInv, Filled
    <3>4. e.body = m
      BY <1>1, <2>3, <3>2, <3>3 DEF BundleInv, BodiesInv, Filled
    <3> QED
      BY <3>1, <3>4
  <2> QED
    BY <2>2, <2>3 DEF IdentifiersAgree
<1> QED
  BY BundleInit, BundleStep, <1>1, PTL DEF Spec

\* A bundle that was reported as written and has the end of its archive lacks nothing: for any
\* files, empty ones among them, and whatever the author saves, each entry is as long as its
\* header says, and each file left alone is in it.
THEOREM EndedIsComplete == Spec => []CompleteIfEnded
<1>1. ASSUME BundleInv PROVE CompleteIfEnded
  <2> SUFFICES ASSUME result = "written", bundles[m.version].ended
               PROVE  /\ \A e \in Entries(m.version) : e.body.size = e.size
                      /\ \A f \in Files \ touched :
                           (disk[f] # Absent \/ f = "image.tar") =>
                             \E e \in Entries(m.version) :
                               e.name = f /\ (f # "image.tar" => e.body = disk[f])
    BY DEF CompleteIfEnded
  <2>1. Filled /\ Current.ended /\ m.version \in Versions
    BY <1>1 DEF Filled, Current, BundleInv, ManifestInv, Accepted
  <2>2. DOMAIN Current.entries = 1..Top
    BY <1>1, <2>1 DEF Current, Top, BundleInv, TypeOK, Bundle
  <2>3. Entries(m.version) = {Current.entries[i] : i \in 1..Top}
    BY <2>2 DEF Entries, ToSet, Current
  <2>4. \A e \in Entries(m.version) : e.body.size = e.size
    <3>1. pc # "body"
      BY <1>1 DEF BundleInv, ResultInv, None
    <3>2. \A i \in 1..Top : Current.entries[i].body # Absent
      BY <1>1, <2>1, <3>1 DEF BundleInv, BodiesInv
    <3>3. \A i \in 1..Top : Current.entries[i].size = Copied(Current.entries[i])
      BY <1>1, <2>1 DEF BundleInv, SizesInv
    <3> QED
      BY <2>3, <3>2, <3>3 DEF Copied
  <2>5. ASSUME NEW f \in Files \ touched, disk[f] # Absent \/ f = "image.tar"
        PROVE  \E e \in Entries(m.version) : e.name = f /\ (f # "image.tar" => e.body = disk[f])
    <3>1. Packed(f)
      BY <1>1, <2>1, <2>5 DEF BundleInv, FilesInv
    <3> QED
      BY <2>3, <3>1 DEF Packed
  <2> QED
    BY <2>4, <2>5
<1> QED
  BY BundleInit, BundleStep, <1>1, PTL DEF Spec
=============================================================================
