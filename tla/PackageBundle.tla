---------------------------- MODULE PackageBundle ----------------------------
(***************************************************************************)
(* aa26-connector package (cmdPackage, buildBundle, addFile and addDir in  *)
(* package.go): runs that follow each other in one connector directory,    *)
(* whose author may save any of its files at any time.  The manifest is    *)
(* read to be validated, again for the checks and the image's tag, and a   *)
(* last time for the archive; a file is stat'ed for its header before it   *)
(* is copied.  Any file operation may fail, and an interrupt kills the     *)
(* program, which handles no signal.                                       *)
(*                                                                         *)
(* The content of a file is its size in units, for the manifest what the   *)
(* checks look at, and for the image the tag it was saved by; a file may   *)
(* be empty.  The name of the connector is left out: a version stands for  *)
(* <name>-<version>.  So are symbolic links, an --out inside assets/, and  *)
(* the sudo of runDockerSave, which comes to the same file or to an error. *)
(***************************************************************************)
EXTENDS Integers, Sequences, SequencesExt

CONSTANTS
  Versions,    \* values of metadata.version, spec.image.tag and the name of a bundle
  Manifests,   \* contents that connector.yaml may have
  Sizes,       \* sizes of the other files that the author saves
  ImageSize,   \* size of what docker save writes
  Optional,    \* the sequence icon.svg, icon.png, README.md, or a part of it
  Assets,      \* the sequence of the files in assets/, as filepath.Walk has them
  MaxRuns,     \* bound on the runs of the command
  MaxEdits     \* bound on what the author saves

None == "none"

Files == {"connector.yaml", "image.tar"} \cup ToSet(Optional) \cup ToSet(Assets)

Plain(n) == [size |-> n, valid |-> FALSE, version |-> None, tag |-> None]
Image(t) == [size |-> ImageSize, valid |-> FALSE, version |-> None, tag |-> t]

\* What is at a path without a file: less than an empty one.
Absent == Plain(-1)

Content ==
  [size : Nat, valid : BOOLEAN, version : Versions \cup {None}, tag : Versions \cup {None}]
    \cup {Absent}

ASSUME BundleAssumption ==
  /\ None \notin Versions
  /\ Optional \in Seq(STRING) /\ Assets \in Seq(STRING)
  /\ "assets" \notin Files
  /\ \A m \in Manifests :
       m \in Content \ {Absent} /\ (m.valid => m.version # None)
  /\ Sizes \subseteq Nat /\ ImageSize \in Nat
  /\ MaxRuns \in Nat /\ MaxEdits \in Nat

VARIABLES
  disk,      \* the files of the connector and, in the scratch directory, image.tar
  bundles,   \* the file <name>-<version>.tar.gz of each version
  scratch,   \* the scratch directory: "none", "there", or "stuck" if its removal failed
  pc,        \* the next step of cmdPackage, "idle" outside of it
  out,       \* the version in --out, or None
  m,         \* the manifest as the second read found it
  todo,      \* files and directories still to add
  missing,   \* what the archive's writer still expects of the current file
  result,    \* of the last run: "written", "failed", "refused" or "killed"
  runs,      \* runs that were started
  edits,     \* files that the author saved
  touched    \* history: files that were saved since the run began

input   == <<out, runs, edits, touched>>
archive == <<bundles, todo, missing>>
vars    == <<disk, archive, scratch, pc, m, result, input>>

Entry  == [name : Files, size : Nat, body : Content]
Bundle == [entries : Seq(Entry), ended : BOOLEAN]

\* No bundle, or a file without content.
NoBundle == [entries |-> << >>, ended |-> FALSE]

TypeOK ==
  /\ disk \in [Files -> Content]
  /\ bundles \in [Versions -> Bundle]
  /\ scratch \in {"none", "there", "stuck"}
  /\ pc \in {"idle", "validate", "read", "mkdir", "save", "create", "next", "header", "body",
             "close", "report", "remove"}
  /\ out \in Versions \cup {None}
  /\ m \in Content
  /\ todo \in Seq(Files \cup {"assets"})
  /\ missing \in Nat
  /\ result \in {None, "written", "failed", "refused", "killed"}
  /\ runs \in 0..MaxRuns /\ edits \in 0..MaxEdits
  /\ touched \subseteq Files

Init ==
  /\ \E c \in Manifests, present \in SUBSET (ToSet(Optional) \cup ToSet(Assets)) :
       \E size \in [present -> Sizes] :
         disk = [f \in Files |-> IF f = "connector.yaml" THEN c
                                 ELSE IF f \in present THEN Plain(size[f]) ELSE Absent]
  /\ bundles = [v \in Versions |-> NoBundle]
  /\ scratch = "none" /\ pc = "idle" /\ out = None /\ m = Absent
  /\ todo = << >> /\ missing = 0 /\ result = None
  /\ runs = 0 /\ edits = 0 /\ touched = {}

Goto(step) == pc' = step /\ UNCHANGED result

\* A return with an error: before the scratch directory is there, with it, and from
\* buildBundle with its three deferred Closes.
Refuse    == pc' = "idle" /\ result' = "refused"
Fail      == pc' = "remove" /\ result' = "failed"
FailBuild == pc' = "close" /\ result' = "failed"

-----------------------------------------------------------------------------
(* The user *)

Start ==
  /\ pc = "idle" /\ runs < MaxRuns
  /\ pc' = "validate" /\ result' = None
  /\ out' \in Versions \cup {None}
  /\ runs' = runs + 1 /\ touched' = {}
  /\ scratch' = "none" /\ disk' = [disk EXCEPT !["image.tar"] = Absent]
  /\ UNCHANGED <<archive, m, edits>>

\* A file is saved or removed.  A scratch directory has a name of its own.
Edit(f) ==
  /\ edits < MaxEdits
  /\ disk' \in {[disk EXCEPT ![f] = c] :
                  c \in {Absent} \cup IF f = "connector.yaml" THEN Manifests
                                      ELSE {Plain(n) : n \in Sizes}}
  /\ disk' # disk
  /\ edits' = edits + 1 /\ touched' = touched \cup {f}
  /\ UNCHANGED <<archive, scratch, pc, m, result, out, runs>>

Interrupt ==
  /\ pc # "idle"
  /\ pc' = "idle" /\ result' = "killed"
  /\ UNCHANGED <<disk, archive, scratch, m, input>>

-----------------------------------------------------------------------------
(* cmdPackage *)

\* cmdValidate.
Validate ==
  /\ pc = "validate"
  /\ IF disk["connector.yaml"].valid THEN Goto("read") ELSE Refuse
  /\ UNCHANGED <<disk, archive, scratch, m, input>>

\* Mutant: the tag may differ from the version.
AcceptsAnyTag(c) == c.version # None /\ c.tag # None /\ out \in {None, c.version}

\* The checks of version, tag and --out.
Accepts(c) == c.version # None /\ c.tag = c.version /\ out \in {None, c.version}

\* The manifest is read again.  One without content has no version.
ReadManifest ==
  /\ pc = "read"
  /\ m' = disk["connector.yaml"]
  /\ IF Accepts(m') THEN Goto("mkdir") ELSE Refuse
  /\ UNCHANGED <<disk, archive, scratch, input>>

\* Mutant: the bundle is opened before there is something to put in.
MakeScratchAndBundle ==
  /\ pc = "mkdir"
  /\ bundles' = [bundles EXCEPT ![m.version] = NoBundle]
  /\ \/ scratch' = "there" /\ Goto("save")
     \/ scratch' = "none" /\ Refuse
  /\ UNCHANGED <<disk, todo, missing, m, input>>

\* os.MkdirTemp.
MakeScratch ==
  /\ pc = "mkdir"
  /\ \/ scratch' = "there" /\ Goto("save")
     \/ scratch' = "none" /\ Refuse
  /\ UNCHANGED <<disk, archive, m, input>>

\* Mutant: a failed docker save returns before the removal is deferred.
DockerSaveNotDeferred ==
  /\ pc = "save"
  /\ \/ /\ disk' = [disk EXCEPT !["image.tar"] = Image(m.tag)]
        /\ Goto("create")
     \/ Refuse /\ UNCHANGED disk
  /\ UNCHANGED <<archive, scratch, m, input>>

\* runDockerSave.
DockerSave ==
  /\ pc = "save"
  /\ \/ /\ disk' = [disk EXCEPT !["image.tar"] = Image(m.tag)]
        /\ Goto("create")
     \/ Fail /\ UNCHANGED disk
  /\ UNCHANGED <<archive, scratch, m, input>>

-----------------------------------------------------------------------------
(* buildBundle *)

\* os.Create empties a bundle that is there.
Create ==
  /\ pc = "create"
  /\ \/ /\ bundles' = [bundles EXCEPT ![m.version] = NoBundle]
        /\ todo' = <<"connector.yaml", "image.tar">> \o Optional \o <<"assets">>
        /\ missing' = 0
        /\ Goto("next")
     \/ Fail /\ UNCHANGED archive
  /\ UNCHANGED <<disk, scratch, m, input>>

\* filepath.Walk: those of the first n files of assets/ that are there.
Present[n \in 0..Len(Assets)] ==
  IF n = 0 THEN << >>
  ELSE IF disk[Assets[n]] # Absent THEN Append(Present[n - 1], Assets[n]) ELSE Present[n - 1]

\* Mutant: an optional file that is not there ends the loop.
NextUntilAbsent ==
  /\ pc = "next" /\ todo # << >> /\ Head(todo) # "assets"
  /\ IF Head(todo) \in ToSet(Optional) /\ disk[Head(todo)] = Absent
     THEN todo' = << >> /\ Goto("next")
     ELSE UNCHANGED todo /\ Goto("header")
  /\ UNCHANGED <<disk, bundles, missing, scratch, m, input>>

\* The next file: an optional one is only added if it is there.
NextFile ==
  /\ pc = "next" /\ todo # << >> /\ Head(todo) # "assets"
  /\ IF Head(todo) \in ToSet(Optional) /\ disk[Head(todo)] = Absent
     THEN todo' = Tail(todo) /\ Goto("next")
     ELSE UNCHANGED todo /\ Goto("header")
  /\ UNCHANGED <<disk, bundles, missing, scratch, m, input>>

\* addDir: a header for the directory, which goes with its last file, and what is in it.
WalkAssets ==
  LET present == Present[Len(Assets)]
  IN  /\ pc = "next" /\ todo = <<"assets">>
      /\ \/ (present = << >> \/ missing = 0) /\ todo' = present /\ Goto("next")
            /\ UNCHANGED missing
         \/ present # << >> /\ FailBuild /\ missing' \in {missing, 1} /\ UNCHANGED todo
      /\ UNCHANGED <<disk, bundles, scratch, m, input>>

\* The entry at the end of this run's bundle.
Extend(e) == bundles' = [bundles EXCEPT ![m.version].entries = Append(@, e)]

\* Mutant: a file that cannot be stat'ed gets a header.
AddHeaderUnchecked ==
  LET c == disk[Head(todo)]
  IN  /\ pc = "header"
      /\ \/ /\ missing = 0
            /\ Extend([name |-> Head(todo), size |-> c.size, body |-> Absent])
            /\ missing' = c.size
            /\ Goto("body")
         \/ FailBuild /\ missing' \in {missing, 1} /\ UNCHANGED bundles
      /\ UNCHANGED <<disk, todo, scratch, m, input>>

\* addFile: the header says what os.Stat does, for an empty file too.  The archive's writer
\* refuses one while it still expects a piece of the file before; what a failed write loses,
\* it expects forever.
AddHeader ==
  LET c == disk[Head(todo)]
  IN  /\ pc = "header"
      /\ \/ /\ missing = 0 /\ c # Absent
            /\ Extend([name |-> Head(todo), size |-> c.size, body |-> Absent])
            /\ missing' = c.size
            /\ Goto("body")
         \/ FailBuild /\ missing' \in {missing, 1} /\ UNCHANGED bundles
      /\ UNCHANGED <<disk, todo, scratch, m, input>>

\* addFile: a file that has grown is more than the writer takes; one that has shrunk, or a
\* write that fails, leaves the entry short.
AddBody ==
  LET c == disk[Head(todo)]
      entries == bundles[m.version].entries
  IN  /\ pc = "body"
      /\ \/ /\ c # Absent /\ c.size <= missing
            /\ bundles' = [bundles EXCEPT ![m.version].entries =
                             [entries EXCEPT ![Len(entries)].body = c]]
            /\ missing' = missing - c.size
            /\ todo' = Tail(todo)
            /\ Goto("next")
         \/ FailBuild /\ UNCHANGED archive
         \/ c.size > missing /\ missing' = 0 /\ FailBuild /\ UNCHANGED <<bundles, todo>>
      /\ UNCHANGED <<disk, scratch, m, input>>

EndOfFiles ==
  /\ pc = "next" /\ todo = << >>
  /\ Goto("close")
  /\ UNCHANGED <<disk, archive, scratch, m, input>>

\* The deferred Close of the three writers: the end of the archive is written unless a file
\* came short or a write fails, and no error is looked at.
Close ==
  /\ pc = "close"
  /\ \/ missing = 0 /\ bundles' = [bundles EXCEPT ![m.version].ended = TRUE]
     \/ UNCHANGED bundles
  /\ Goto(IF result = "failed" THEN "remove" ELSE "report")
  /\ UNCHANGED <<disk, todo, missing, scratch, m, input>>

Report ==
  /\ pc = "report"
  /\ pc' = "remove" /\ result' = "written"
  /\ UNCHANGED <<disk, archive, scratch, m, input>>

-----------------------------------------------------------------------------

\* The deferred RemoveAll, whose error is not looked at: it leaves the directory and perhaps
\* the image.
RemoveScratch ==
  /\ pc = "remove"
  /\ \/ scratch' = "none" /\ disk' = [disk EXCEPT !["image.tar"] = Absent]
     \/ scratch' = "stuck" /\ disk' \in {disk, [disk EXCEPT !["image.tar"] = Absent]}
  /\ Goto("idle")
  /\ UNCHANGED <<archive, m, input>>

Step ==
  \/ Validate \/ ReadManifest \/ MakeScratch \/ DockerSave \/ Create \/ NextFile
  \/ WalkAssets \/ AddHeader \/ AddBody \/ EndOfFiles \/ Close \/ Report \/ RemoveScratch

Next == Start \/ Interrupt \/ Step \/ \E f \in Files \ {"image.tar"} : Edit(f)

Spec == Init /\ [][Next]_vars

-----------------------------------------------------------------------------
Entries(v) == ToSet(bundles[v].entries)

\* Whatever the author saves meanwhile, the image in a bundle has the tag that the bundle's
\* name says.  So has the manifest, if it was not saved between its three reads.
IdentifiersAgree ==
  /\ \A v \in Versions : \A e \in Entries(v) :
       e.name = "image.tar" /\ e.body # Absent => e.body.tag = v
  /\ result = "written" /\ "connector.yaml" \notin touched =>
       \A e \in Entries(m.version) :
         e.name = "connector.yaml" =>
           e.body.valid /\ e.body.version = m.version /\ e.body.tag = m.version

\* A bundle of an earlier run stays as it is until the image of its version has been saved:
\* neither a refusal nor a missing image costs the author a good bundle.
BundlesKeptUntilSaved ==
  [][\A v \in Versions :
       bundles'[v] # bundles[v] => v = m.version /\ disk["image.tar"] # Absent]_vars

\* A bundle that was reported as written, and whose end is there, lacks nothing: each entry is
\* as long as its header says, and each file that the author left alone is in it.
CompleteIfEnded ==
  result = "written" /\ bundles[m.version].ended =>
    /\ \A e \in Entries(m.version) : e.body.size = e.size
    /\ \A f \in Files \ touched :
         (disk[f] # Absent \/ f = "image.tar") =>
           \E e \in Entries(m.version) : e.name = f /\ (f # "image.tar" => e.body = disk[f])

\* Unless it was killed, a run leaves no scratch directory with an image in it that it has not
\* tried to remove.
ScratchRemoved == pc = "idle" /\ result # "killed" => scratch # "there"
=============================================================================
