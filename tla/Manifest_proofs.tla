--------------------------- MODULE Manifest_proofs ---------------------------
(***************************************************************************)
(* Proofs about Manifest and Linter, for any manifests, sources and        *)
(* findings.                                                               *)
(***************************************************************************)
EXTENDS Manifest, FiniteSetTheorems, SequenceTheorems, WellFoundedInduction, TLAPS

-----------------------------------------------------------------------------
(* What a run starts from stays as it is *)

\* The manifest and the sources are those of a candidate connector, the input a candidate file.
InputsInv ==
  /\ \E p \in Projects : manifest = p.manifest /\ sources = p.sources
  /\ command \in {"validate", "lint", "test", "project"} /\ strict \in BOOLEAN
  /\ input \in Inputs \cup {<< >>}

LEMMA InputsInit == Init => InputsInv
BY DEF Init, InputsInv

LEMMA InputsKept ==
  ASSUME [Next]_vars
  PROVE  UNCHANGED <<manifest, sources, command, strict, input>>
BY DEF Next, vars, CheckSchema, CheckRules, RunPreflightLint, CmdLint, LoadMapping, ProjectLine,
       EndOfInput, Goto

LEMMA InputsStep == InputsInv /\ [Next]_vars => InputsInv'
<1> SUFFICES ASSUME InputsInv, [Next]_vars PROVE InputsInv'
  OBVIOUS
<1> QED
  BY InputsKept DEF InputsInv

LEMMA Sequences ==
  ASSUME InputsInv
  PROVE  /\ SourceTypes \in Seq(Range(SourceTypes)) /\ Entries = 1..Len(SourceTypes)
         /\ input \in Seq(Range(input))
         /\ \A f \in sources : f.lines \in Seq(Range(f.lines))
<1>1. SourceTypes \in Seq(Range(SourceTypes)) /\ \A f \in sources : f.lines \in Seq(Range(f.lines))
  BY ProjectsAssumption DEF InputsInv, IsSequence, SourceTypes
<1>2. input \in Seq(Range(input))
  <2>1. << >> \in Seq(Range(<< >>))
    OBVIOUS
  <2> QED
    BY <2>1, InputsAssumption DEF InputsInv, IsSequence
<1>3. Entries = 1..Len(SourceTypes)
  BY <1>1 DEF Entries
<1> QED
  BY <1>1, <1>2, <1>3

-----------------------------------------------------------------------------
(* `validate` *)

\* The lists of the two do not differ but in the column additionalProperties.
LEMMA Lists ==
  /\ SchemaDomains = ValidDomains
  /\ SchemaColumns = EntitiesAllowSet \ {"additionalProperties"}
BY DEF SchemaDomains, ValidDomains, SchemaColumns, EntitiesAllowSet

LEMMA Patterns == ASSUME NEW e PROVE JsonPathExpr(e) <=> ValidPath(e)
BY DEF JsonPathExpr, ValidPath

\* An entry that the schema lets pass breaks no rule but those that compare it with others.
LEMMA EntryOfSchema ==
  ASSUME NEW st, SchemaErrors(st) = {}
  PROVE  st.ingestion # "absent" /\ IngestionErrors(st) \subseteq {"rule 8", "rule 11"}
<1>1. /\ st.domain \in SchemaDomains
      /\ st.ingestion = "mapped" /\ st.target \in SchemaTargets
      /\ DOMAIN st.mapping \subseteq SchemaColumns
      /\ \A c \in DOMAIN st.mapping : JsonPathExpr(st.mapping[c])
      /\ \A k \in DOMAIN st.extras : JsonPathExpr(st.extras[k])
  BY Zenon DEF SchemaErrors, Unless
<1>2. /\ st.domain \in ValidDomains /\ st.target = "entities"
      /\ DOMAIN st.mapping \subseteq EntitiesAllowSet
      /\ \A c \in DOMAIN st.mapping : ValidPath(st.mapping[c])
      /\ \A k \in DOMAIN st.extras : ValidPath(st.extras[k])
  BY <1>1, Lists, Patterns DEF SchemaTargets
<1>3. Target(st) = "entities"
  BY <1>1, <1>2 DEF Target
<1>4. DOMAIN st.mapping \subseteq AllowSet("entities")
  BY <1>2 DEF AllowSet
<1> QED
  BY <1>1, <1>2, <1>3, <1>4 DEF IngestionErrors, Unless

\* An entry for the entities that keeps the rules has nothing that the schema does not know.
LEMMA EntryOfRules ==
  ASSUME NEW st, IngestionErrors(st) = {}, Target(st) = "entities",
         "additionalProperties" \notin DOMAIN st.mapping
  PROVE  SchemaErrors(st) \subseteq {"name", "mapping", "target"}
<1> DEFINE target == Target(st)
           extras == IF target = "entities" THEN DOMAIN st.extras ELSE {}
<1>1. extras = DOMAIN st.extras /\ target = "entities"
  OBVIOUS
<1> HIDE DEF target, extras
<1>2. /\ target = "entities" => st.domain \in ValidDomains
      /\ DOMAIN st.mapping \subseteq AllowSet(target)
      /\ \A c \in DOMAIN st.mapping : ValidPath(st.mapping[c])
      /\ \A k \in extras : ValidPath(st.extras[k])
  BY Zenon DEF IngestionErrors, Unless, target, extras
<1>3. /\ st.domain \in SchemaDomains
      /\ DOMAIN st.mapping \subseteq SchemaColumns
      /\ \A c \in DOMAIN st.mapping : JsonPathExpr(st.mapping[c])
      /\ \A k \in DOMAIN st.extras : JsonPathExpr(st.extras[k])
  BY <1>1, <1>2, Lists, Patterns DEF AllowSet
<1> QED
  BY <1>3 DEF SchemaErrors, Unless

\* What ValidateMappingRules demands of an entry.
LEMMA EntryOfNoErrors ==
  ASSUME MappingErrors = {}, NEW i \in Entries
  PROVE  IngestionErrors(SourceTypes[i]) = {}
<1> DEFINE Errors(j) == IF SourceTypes[j].ingestion # "absent" THEN IngestionErrors(SourceTypes[j])
                        ELSE {"ingestion"}
           Others == Unless(NeedsMapping => SourceTypes # << >>, "rule 1")
                       \cup (UNION {Unless(\A j \in 1..(k - 1) :
                                            SourceTypes[j].name # SourceTypes[k].name,
                                          "rule 2") : k \in Entries})
<1>1. Others \cup (UNION {Errors(j) : j \in Entries}) = {}
  BY DEF MappingErrors
<1> HIDE DEF Others, Errors
<1>2. Errors(i) = {}
  BY <1>1
<1> QED
  BY <1>2 DEF Errors

SchemaInv == pc = "rules" => \A i \in Entries : SchemaErrors(SourceTypes[i]) = {}

LEMMA SchemaInit == Init => SchemaInv
BY DEF Init, SchemaInv

LEMMA SchemaStep == SchemaInv /\ [Next]_vars => SchemaInv'
<1> SUFFICES ASSUME SchemaInv, [Next]_vars PROVE SchemaInv'
  OBVIOUS
<1>1. UNCHANGED manifest
  BY InputsKept
<1>2. UNCHANGED SourceTypes /\ UNCHANGED Entries
  BY <1>1 DEF SourceTypes, Entries
<1>3. pc' = "rules" => pc = "rules" \/ \A i \in Entries : SchemaErrors(SourceTypes[i]) = {}
  BY DEF Next, vars, CheckSchema, CheckRules, RunPreflightLint, CmdLint, LoadMapping, ProjectLine,
         EndOfInput, Goto
<1> QED
  BY <1>2, <1>3 DEF SchemaInv, SchemaErrors, Unless

\* SchemaAgreesWithRules, for any manifest: cmdValidate's two checks of a source type, each with
\* lists of its own, do not contradict each other, but for what the property leaves out.
THEOREM SchemaAgrees == Spec => []SchemaAgreesWithRules
<1>1. ASSUME SchemaInv, pc = "rules"
      PROVE  MappingErrors \subseteq {"rule 1", "rule 2", "rule 8", "rule 11"}
  <2>1. ASSUME NEW i \in Entries
        PROVE  /\ SourceTypes[i].ingestion # "absent"
               /\ IngestionErrors(SourceTypes[i]) \subseteq {"rule 8", "rule 11"}
    BY <1>1, EntryOfSchema DEF SchemaInv
  <2>2. ASSUME NEW e \in MappingErrors PROVE e \in {"rule 1", "rule 2", "rule 8", "rule 11"}
    <3> DEFINE First     == Unless(NeedsMapping => SourceTypes # << >>, "rule 1")
               Same(i)   == Unless(\A j \in 1..(i - 1) : SourceTypes[j].name # SourceTypes[i].name,
                                   "rule 2")
               Errors(i) == IF SourceTypes[i].ingestion # "absent"
                            THEN IngestionErrors(SourceTypes[i]) ELSE {"ingestion"}
    <3>1. e \in First \cup (UNION {Same(i) : i \in Entries})
                    \cup (UNION {Errors(i) : i \in Entries})
      BY <2>2 DEF MappingErrors
    <3>2. First \subseteq {"rule 1"}
      BY DEF Unless
    <3>3. \A i \in Entries : Same(i) \subseteq {"rule 2"}
      BY DEF Unless
    <3>4. \A i \in Entries : Errors(i) \subseteq {"rule 8", "rule 11"}
      BY <2>1
    <3> HIDE DEF First, Same, Errors
    <3> QED
      BY <3>1, <3>2, <3>3, <3>4
  <2> QED
    BY <2>2
<1>2. ASSUME MappingErrors = {}, NEW st \in Range(SourceTypes), Target(st) = "entities",
             "additionalProperties" \notin DOMAIN st.mapping
      PROVE  SchemaErrors(st) \subseteq {"name", "mapping", "target"}
  <2>1. PICK i \in Entries : st = SourceTypes[i]
    BY DEF Range, Entries
  <2>2. IngestionErrors(st) = {}
    BY <1>2, <2>1, EntryOfNoErrors
  <2> QED
    BY <1>2, <2>2, EntryOfRules
<1>3. SchemaInv => SchemaAgreesWithRules
  BY <1>1, <1>2 DEF SchemaAgreesWithRules
<1> QED
  BY <1>3, SchemaInit, SchemaStep, PTL DEF Spec

-----------------------------------------------------------------------------
(* The linter's rules *)

LEMMA RuleFacts ==
  \A r \in DefaultRules :
    /\ r.width \in Nat
    /\ r.severity \in {"error", "warn"}
BY DEF DefaultRules, Rule, Nothing

\* A hit with what the rule asks for within its width, above or below: without the window.
Footgun(rule, file) ==
  \E i, j \in DOMAIN file.lines :
    /\ rule.id \in file.lines[i]
    /\ i - rule.width <= j /\ j <= i + rule.width
    /\ rule.near \in file.lines[j] \cup {Nothing}

\* The windows of ruleNearby are cut at the edges of a file where there is nothing to be found.
LEMMA CheckFindsFootguns ==
  ASSUME NEW r \in DefaultRules, NEW f, f.lines \in Seq(Range(f.lines))
  PROVE  Check(r, f.lines) # {} <=> Footgun(r, f)
<1> DEFINE L == f.lines
           w == r.width
<1>1. w \in Nat
  BY RuleFacts
<1>2. Len(L) \in Nat /\ DOMAIN L = 1..Len(L)
  OBVIOUS
<1>3. CASE r.near = Nothing
  <2>1. Check(r, L) = {i \in 1..Len(L) : r.id \in L[i]}
    BY <1>2, <1>3 DEF Check, RuleSimple
  <2>2. Footgun(r, f) <=> \E i, j \in 1..Len(L) : r.id \in L[i] /\ i - w <= j /\ j <= i + w
    BY <1>2, <1>3 DEF Footgun
  <2>3. \A i \in 1..Len(L) : i - w <= i /\ i <= i + w
    BY <1>1, <1>2
  <2> HIDE DEF L, w
  <2> QED
    BY <2>1, <2>2, <2>3 DEF L
<1>4. CASE r.near # Nothing
  <2> DEFINE lo(i) == IF i - w < 1 THEN 1 ELSE i - w
             hi(i) == IF i + w > Len(L) THEN Len(L) ELSE i + w
  <2>1. Check(r, L) = {i \in 1..Len(L) : r.id \in L[i] /\ \E j \in lo(i)..hi(i) : r.near \in L[j]}
    BY <1>2, <1>4 DEF Check, RuleNearby, RuleSimple
  <2>2. Footgun(r, f) <=>
          \E i, j \in 1..Len(L) : r.id \in L[i] /\ i - w <= j /\ j <= i + w /\ r.near \in L[j]
    BY <1>2, <1>4 DEF Footgun
  <2>3. \A i \in 1..Len(L) : \A j :
          j \in lo(i)..hi(i) <=> j \in 1..Len(L) /\ i - w <= j /\ j <= i + w
    BY <1>1, <1>2
  <2> HIDE DEF L, w, lo, hi
  <2> QED
    BY <2>1, <2>2, <2>3 DEF L
<1> QED
  BY <1>3, <1>4

\* lintFile finds a severity for the rules whose footgun is there, and for R008.
LEMMA FileFindings ==
  ASSUME NEW f, f.lines \in Seq(Range(f.lines)), NEW severity
  PROVE  severity \in LintFile(f) <=>
           \/ \E r \in DefaultRules :
                r.severity = severity /\ f.ext \in r.exts /\ Footgun(r, f)
           \/ severity = "warn" /\ f.ext \in Yaml /\ AccessScanWithoutTarget(f.lines)
<1> DEFINE hits == {r \in DefaultRules : f.ext \in r.exts /\ Check(r, f.lines) # {}}
           warns == f.ext \in Yaml /\ AccessScanWithoutTarget(f.lines)
<1>1. hits = {r \in DefaultRules : f.ext \in r.exts /\ Footgun(r, f)}
  BY CheckFindsFootguns
<1>2. LintFile(f) = {r.severity : r \in hits} \cup IF warns THEN {"warn"} ELSE {}
  BY DEF LintFile
<1> HIDE DEF hits, warns
<1>3. severity \in LintFile(f) <=>
        (\E r \in hits : r.severity = severity) \/ (severity = "warn" /\ warns)
  BY <1>2
<1> QED
  BY <1>1, <1>3 DEF warns

LEMMA OwnRange ==
  ASSUME NEW S, NEW s \in Seq(S)
  PROVE  s \in Seq(Range(s))
BY DEF Range

\* The line of a source type in the manifest.
TargetLine(i) == IF SourceTypes[i].target = "permissions" THEN {"target permissions"} ELSE {}

ScanLine == IF "access_scan" \in manifest.scanTypes THEN {"R008"} ELSE {}

LEMMA ManifestLines ==
  ASSUME InputsInv
  PROVE  /\ ManifestFile.lines \in Seq(Range(ManifestFile.lines))
         /\ DOMAIN ManifestFile.lines = 1..(Len(SourceTypes) + 2) /\ Len(SourceTypes) \in Nat
         /\ ManifestFile.lines[1] = {"apiVersion"}
         /\ ManifestFile.lines[2] = ScanLine
         /\ \A i \in Entries : ManifestFile.lines[i + 2] = TargetLine(i)
         /\ ManifestFile.ext = ".yaml" /\ ManifestFile.walk = "scanned"
<1> DEFINE P == SUBSET {"apiVersion", "R008", "target permissions"}
           a == <<{"apiVersion"}, ScanLine>>
           b == [i \in Entries |-> TargetLine(i)]
<1>1. Entries = 1..Len(SourceTypes) /\ Len(SourceTypes) \in Nat
  BY Sequences
<1>2. a \in Seq(P) /\ Len(a) = 2 /\ a[1] = {"apiVersion"} /\ a[2] = ScanLine
  BY DEF ScanLine
<1>3. b \in Seq(P) /\ Len(b) = Len(SourceTypes) /\ \A i \in Entries : b[i] = TargetLine(i)
  BY <1>1 DEF TargetLine
<1>4. ManifestFile.lines = a \o b /\ ManifestFile.ext = ".yaml" /\ ManifestFile.walk = "scanned"
  BY DEF ManifestFile, ScanLine, TargetLine
<1> HIDE DEF a, b, P
<1>5. /\ a \o b \in Seq(P) /\ Len(a \o b) = Len(SourceTypes) + 2
      /\ (a \o b)[1] = a[1] /\ (a \o b)[2] = a[2]
      /\ \A i \in 1..Len(SourceTypes) : (a \o b)[i + 2] = b[i]
  <2>1. /\ a \o b \in Seq(P) /\ Len(a \o b) = Len(a) + Len(b)
        /\ \A k \in 1..(Len(a) + Len(b)) : (a \o b)[k] = IF k <= Len(a) THEN a[k] ELSE b[k - Len(a)]
    <3>1. a \in Seq(P) /\ b \in Seq(P)
      BY <1>2, <1>3
    <3> QED
      BY <3>1, ConcatProperties, Zenon
  <2>2. \A i \in 1..Len(SourceTypes) :
          i + 2 \in 1..(2 + Len(SourceTypes)) /\ ~(i + 2 <= 2) /\ (i + 2) - 2 = i
    BY <1>1
  <2>3. /\ 1 \in 1..(2 + Len(SourceTypes)) /\ 2 \in 1..(2 + Len(SourceTypes))
        /\ 2 + Len(SourceTypes) = Len(SourceTypes) + 2
    BY <1>1
  <2> QED
    BY <1>2, <1>3, <2>1, <2>2, <2>3
<1>6. a \o b \in Seq(Range(a \o b))
  BY <1>5, OwnRange
<1> QED
  BY <1>1, <1>2, <1>3, <1>4, <1>5, <1>6

\* The lines of a file with a blank line before and after it.
LEMMA PaddedLines ==
  ASSUME NEW f, f.lines \in Seq(Range(f.lines))
  PROVE  LET L == f.lines
             P == Padded(f).lines
         IN  /\ P \in Seq(Range(P))
             /\ Len(L) \in Nat /\ DOMAIN L = 1..Len(L) /\ DOMAIN P = 1..(Len(L) + 2)
             /\ P[1] = {} /\ P[Len(L) + 2] = {}
             /\ \A i \in 1..Len(L) : P[i + 1] = L[i]
<1> DEFINE L == f.lines
           S == Range(L) \cup {{}}
           one == <<{}>>
           two == one \o L
<1>1. L \in Seq(S) /\ one \in Seq(S) /\ Len(one) = 1 /\ one[1] = {}
  OBVIOUS
<1>2. Padded(f).lines = two \o one
  BY DEF Padded
<1> HIDE DEF L, S, one
<1>3. /\ two \in Seq(S) /\ Len(two) = 1 + Len(L) /\ two[1] = {}
      /\ \A i \in 1..Len(L) : two[i + 1] = L[i]
  <2>1. /\ two \in Seq(S) /\ Len(two) = Len(one) + Len(L)
        /\ \A k \in 1..(Len(one) + Len(L)) : two[k] = IF k <= Len(one) THEN one[k] ELSE L[k - Len(one)]
    BY <1>1, ConcatProperties, Zenon
  <2>2. /\ Len(L) \in Nat /\ 1 \in 1..(1 + Len(L))
        /\ \A i \in 1..Len(L) : i + 1 \in 1..(1 + Len(L)) /\ ~(i + 1 <= 1) /\ (i + 1) - 1 = i
    BY <1>1
  <2> QED
    BY <1>1, <2>1, <2>2
<1> HIDE DEF two
<1>4. /\ two \o one \in Seq(S) /\ Len(two \o one) = Len(L) + 2
      /\ (two \o one)[Len(L) + 2] = {}
      /\ \A k \in 1..(Len(L) + 1) : (two \o one)[k] = two[k]
  <2>1. /\ two \o one \in Seq(S) /\ Len(two \o one) = Len(two) + Len(one)
        /\ \A k \in 1..(Len(two) + Len(one)) :
             (two \o one)[k] = IF k <= Len(two) THEN two[k] ELSE one[k - Len(two)]
    <3>1. two \in Seq(S) /\ one \in Seq(S)
      BY <1>1, <1>3
    <3> QED
      BY <3>1, ConcatProperties, Zenon
  <2>2. /\ Len(L) \in Nat /\ Len(two) + Len(one) = Len(L) + 2 /\ Len(two) = Len(L) + 1
        /\ Len(L) + 2 \in 1..(Len(L) + 2) /\ ~(Len(L) + 2 <= Len(L) + 1)
        /\ (Len(L) + 2) - (Len(L) + 1) = 1
        /\ \A k \in 1..(Len(L) + 1) : k \in 1..(Len(L) + 2) /\ k <= Len(L) + 1
    BY <1>1, <1>3
  <2> QED
    BY <1>1, <2>1, <2>2
<1>5. /\ Len(L) \in Nat /\ 1 \in 1..(Len(L) + 1)
      /\ \A i \in 1..Len(L) : i + 1 \in 1..(Len(L) + 1)
  BY <1>1
<1>6. two \o one \in Seq(Range(two \o one)) /\ DOMAIN (two \o one) = 1..(Len(L) + 2)
  <2>1. two \o one \in Seq(S)
    BY <1>4
  <2>2. two \o one \in Seq(Range(two \o one))
    BY <2>1, OwnRange
  <2>3. DOMAIN (two \o one) = 1..Len(two \o one)
    BY <2>1
  <2> QED
    BY <1>4, <2>2, <2>3
<1>7. DOMAIN L = 1..Len(L)
  BY <1>1
<1> QED
  BY <1>2, <1>3, <1>4, <1>5, <1>6, <1>7 DEF L

\* A blank line at an edge has no pattern, and leaves the distances as they are.
LEMMA PaddedFile ==
  ASSUME NEW f, f.lines \in Seq(Range(f.lines))
  PROVE  LintFile(Padded(f)) = LintFile(f)
<1> DEFINE L == f.lines
           P == Padded(f).lines
           n == Len(L)
<1>1. /\ P \in Seq(Range(P)) /\ n \in Nat /\ DOMAIN L = 1..n /\ DOMAIN P = 1..(n + 2)
      /\ P[1] = {} /\ P[n + 2] = {}
      /\ \A i \in 1..n : P[i + 1] = L[i]
  BY PaddedLines
<1>2. Padded(f).ext = f.ext
  BY DEF Padded
<1>3. \A i \in 1..n : i + 1 \in 1..(n + 2)
  BY <1>1
<1> HIDE DEF L, P, n
<1>4. \A k \in 1..(n + 2) : P[k] # {} => k - 1 \in 1..n /\ P[k] = L[k - 1]
  <2> SUFFICES ASSUME NEW k \in 1..(n + 2), P[k] # {} PROVE k - 1 \in 1..n /\ P[k] = L[k - 1]
    OBVIOUS
  <2>1. k # 1 /\ k # n + 2
    BY <1>1
  <2>2. k - 1 \in 1..n /\ (k - 1) + 1 = k
    BY <1>1, <2>1
  <2> QED
    BY <1>1, <2>2
<1>5. ASSUME NEW r \in DefaultRules PROVE Footgun(r, Padded(f)) <=> Footgun(r, f)
  <2>1. r.width \in Nat
    BY RuleFacts
  <2>2. ASSUME NEW i \in 1..n, NEW j \in 1..n, r.id \in L[i], i - r.width <= j, j <= i + r.width,
               r.near \in L[j] \cup {Nothing}
        PROVE  Footgun(r, Padded(f))
    <3>1. /\ i + 1 \in DOMAIN P /\ j + 1 \in DOMAIN P
          /\ r.id \in P[i + 1] /\ r.near \in P[j + 1] \cup {Nothing}
      BY <1>1, <1>3, <2>2
    <3>2. (i + 1) - r.width <= j + 1 /\ j + 1 <= (i + 1) + r.width
      BY <1>1, <2>1, <2>2
    <3> QED
      BY <3>1, <3>2 DEF Footgun, P
  <2>3. ASSUME NEW i \in 1..(n + 2), NEW j \in 1..(n + 2), r.id \in P[i],
               i - r.width <= j, j <= i + r.width, r.near \in P[j] \cup {Nothing}
        PROVE  Footgun(r, f)
    <3>1. i - 1 \in 1..n /\ r.id \in L[i - 1]
      BY <1>4, <2>3
    <3>2. CASE r.near = Nothing
      <4>1. (i - 1) - r.width <= i - 1 /\ i - 1 <= (i - 1) + r.width
        BY <1>1, <2>1
      <4>2. i - 1 \in DOMAIN L /\ r.near \in L[i - 1] \cup {Nothing}
        BY <1>1, <3>1, <3>2
      <4> QED
        BY <3>1, <4>1, <4>2 DEF Footgun, L
    <3>3. CASE r.near # Nothing
      <4>1. j - 1 \in 1..n /\ r.near \in L[j - 1]
        BY <1>4, <2>3, <3>3
      <4>2. (i - 1) - r.width <= j - 1 /\ j - 1 <= (i - 1) + r.width
        BY <1>1, <2>1, <2>3
      <4>3. i - 1 \in DOMAIN L /\ j - 1 \in DOMAIN L /\ r.near \in L[j - 1] \cup {Nothing}
        BY <1>1, <3>1, <4>1
      <4> QED
        BY <3>1, <4>2, <4>3 DEF Footgun, L
    <3> QED
      BY <3>2, <3>3
  <2>4. Footgun(r, f) => Footgun(r, Padded(f))
    BY <1>1, <2>2 DEF Footgun, L
  <2>5. Footgun(r, Padded(f)) => Footgun(r, f)
    BY <1>1, <2>3 DEF Footgun, P
  <2> QED
    BY <2>4, <2>5
<1>6. AccessScanWithoutTarget(P) <=> AccessScanWithoutTarget(L)
  <2>1. \A pattern : (\E k \in DOMAIN P : pattern \in P[k]) <=> \E i \in DOMAIN L : pattern \in L[i]
    BY <1>1, <1>3, <1>4
  <2> QED
    BY <2>1, Zenon DEF AccessScanWithoutTarget
<1>7. \A severity : severity \in LintFile(Padded(f)) <=> severity \in LintFile(f)
  <2> SUFFICES ASSUME NEW severity
               PROVE  severity \in LintFile(Padded(f)) <=> severity \in LintFile(f)
    OBVIOUS
  <2>1. severity \in LintFile(f) <=>
          \/ \E r \in DefaultRules :
               r.severity = severity /\ f.ext \in r.exts /\ Footgun(r, f)
          \/ severity = "warn" /\ f.ext \in Yaml /\ AccessScanWithoutTarget(L)
    BY FileFindings DEF L
  <2>2. severity \in LintFile(Padded(f)) <=>
          \/ \E r \in DefaultRules :
               r.severity = severity /\ f.ext \in r.exts /\ Footgun(r, Padded(f))
          \/ severity = "warn" /\ f.ext \in Yaml /\ AccessScanWithoutTarget(P)
    BY <1>1, <1>2, FileFindings DEF P
  <2> QED
    BY <1>5, <1>6, <2>1, <2>2
<1> QED
  BY <1>7, Zenon

\* So the findings are those of the files with blank lines around them.
LEMMA PaddedFindings ==
  ASSUME InputsInv
  PROVE  Lint({Padded(f) : f \in sources \cup {ManifestFile}}) = LintFindings
<1> DEFINE F == sources \cup {ManifestFile}
<1>1. \A f \in F : LintFile(Padded(f)) = LintFile(f)
  BY PaddedFile, Sequences, ManifestLines
<1>2. \A f \in F : Padded(f).walk = f.walk
  BY DEF Padded
<1> HIDE DEF F
<1>3. Lint({Padded(f) : f \in F}) = Lint(F)
  BY <1>1, <1>2 DEF Lint
<1> QED
  BY <1>3 DEF F, LintFindings

LEMMA TwoSeverities ==
  ASSUME NEW severity \in LintFindings
  PROVE  severity \in {"error", "warn"}
<1>1. PICK f : severity \in LintFile(f)
  BY DEF LintFindings, Lint
<1> QED
  BY <1>1, RuleFacts DEF LintFile

-----------------------------------------------------------------------------
(* `lint` and `test` *)

SchemaRejects == \E i \in Entries : SchemaErrors(SourceTypes[i]) # {}

\* The verdicts.
LintInv ==
  /\ command = "lint" => \/ pc = "lint"
                         \/ pc = "accepted" /\ ~LintRejects
                         \/ pc = "rejected" /\ LintRejects
  /\ command = "test" => \/ pc \in {"schema", "rules", "lint"}
                         \/ pc = "accepted" /\ ~PreflightRejects
                         \/ /\ pc = "rejected"
                            /\ PreflightRejects \/ MappingErrors # {} \/ SchemaRejects

LEMMA LintInit == Init => LintInv
<1> SUFFICES ASSUME Init PROVE LintInv
  OBVIOUS
<1>1. command = "lint" => pc = "lint"
  BY DEF Init
<1>2. command = "test" => pc = "schema"
  BY DEF Init
<1> QED
  BY <1>1, <1>2 DEF LintInv

\* What the checks look at does not change.
LEMMA VerdictsKept ==
  ASSUME [Next]_vars
  PROVE  /\ LintRejects' = LintRejects /\ PreflightRejects' = PreflightRejects
         /\ MappingErrors' = MappingErrors /\ SchemaRejects' = SchemaRejects
<1>1. UNCHANGED <<manifest, sources, strict>>
  BY InputsKept
<1>2. SourceTypes' = SourceTypes /\ Entries' = Entries
  BY <1>1 DEF SourceTypes, Entries
<1>3. ManifestFile' = ManifestFile
  BY <1>1, <1>2 DEF ManifestFile
<1>4. LintFindings' = LintFindings
  BY <1>1, <1>3 DEF LintFindings
<1>5. MappingErrors' = MappingErrors
  BY <1>1, <1>2 DEF MappingErrors, NeedsMapping
<1>6. LintRejects' = LintRejects /\ PreflightRejects' = PreflightRejects
  BY <1>1, <1>4 DEF LintRejects, PreflightRejects
<1>7. SchemaRejects' = SchemaRejects
  BY <1>2 DEF SchemaRejects
<1> QED
  BY <1>5, <1>6, <1>7

LEMMA LintStep == LintInv /\ [Next]_vars => LintInv'
<1> SUFFICES ASSUME LintInv, [Next]_vars PROVE LintInv'
  OBVIOUS
<1>1. UNCHANGED command
  BY InputsKept
<1> USE VerdictsKept DEF LintInv, Goto
<1>2. CASE CheckSchema
  BY <1>1, <1>2 DEF CheckSchema, SchemaRejects
<1>3. CASE CheckRules
  BY <1>1, <1>3 DEF CheckRules
<1>4. CASE RunPreflightLint
  BY <1>1, <1>4 DEF RunPreflightLint
<1>5. CASE CmdLint
  BY <1>1, <1>5 DEF CmdLint
<1>6. CASE LoadMapping
  BY <1>1, <1>6 DEF LoadMapping
<1>7. CASE ProjectLine
  BY <1>1, <1>7 DEF ProjectLine
<1>8. CASE EndOfInput
  BY <1>1, <1>8 DEF EndOfInput
<1>9. CASE UNCHANGED vars
  BY <1>1, <1>9 DEF vars
<1> QED
  BY <1>2, <1>3, <1>4, <1>5, <1>6, <1>7, <1>8, <1>9 DEF Next

\* LintVerdictsAgree, for any files of any length: `lint` and `test` come to one verdict on the
\* same connector, and the one on the same files with blank lines around them, so none hangs on
\* the edges of a file.
THEOREM LintVerdicts == Spec => []LintVerdictsAgree
<1>1. InputsInv /\ LintInv => LintVerdictsAgree
  <2> SUFFICES ASSUME InputsInv, LintInv PROVE LintVerdictsAgree
    OBVIOUS
  <2> DEFINE found == Lint({Padded(f) : f \in sources \cup {ManifestFile}})
             fails == "error" \in found \/ (strict /\ "warn" \in found)
  <2>1. found = LintFindings
    BY PaddedFindings
  <2>2. LintRejects <=> fails
    BY <2>1 DEF LintRejects
  <2>3. PreflightRejects <=> fails
    <3>1. LintFindings # {} <=> "error" \in LintFindings \/ "warn" \in LintFindings
      BY TwoSeverities
    <3> QED
      BY <2>1, <3>1 DEF PreflightRejects
  <2> HIDE DEF fails
  <2>4. /\ command = "lint" /\ pc = "accepted" => ~fails
        /\ command = "lint" /\ pc = "rejected" => fails
        /\ command = "test" /\ pc = "accepted" => ~fails
        /\ command = "test" /\ pc = "rejected" /\ ~fails => MappingErrors # {} \/ SchemaRejects
    BY <2>2, <2>3 DEF LintInv
  <2> QED
    BY <2>4, Zenon DEF LintVerdictsAgree, fails, SchemaRejects
<1> QED
  BY <1>1, InputsInit, InputsStep, LintInit, LintStep, PTL DEF Spec

-----------------------------------------------------------------------------
(* `validate-mapping` *)

\* The rows of the findings that have been read.
Rows == {Row(i, n) : i \in Entries, n \in {n \in 1..Len(input) : input[n].kind = "finding"}}

RowsInv == rows \in Seq(Rows) /\ read \in Nat

LEMMA RowsInit == Init => RowsInv
BY DEF Init, RowsInv

LEMMA SetAsSequence ==
  ASSUME NEW S, IsFiniteSet(S)
  PROVE  SetToSeq(S) \in Seq(S)
<1>1. Cardinality(S) \in Nat /\ ExistsBijection(1..Cardinality(S), S)
  BY FS_CardinalityType
<1>2. PICK f \in Bijection(1..Cardinality(S), S) : TRUE
  BY <1>1 DEF ExistsBijection
<1>3. f \in [1..Cardinality(S) -> S] /\ IsInjective(f)
  BY <1>2 DEF Bijection, Injection, IsInjective
<1>4. SetToSeq(S) \in [1..Cardinality(S) -> S]
  BY <1>3 DEF SetToSeq
<1> QED
  BY <1>1, <1>4

\* A set of numbers has a least member.
LEMMA Least ==
  ASSUME NEW T \in SUBSET Nat, T # {}
  PROVE  \E n \in T : \A k \in T : n <= k
<1> DEFINE R == {p \in Nat \X Nat : p[1] < p[2]}
<1>0. R = OpToRel(<, Nat)
  BY DEF OpToRel
<1>1. IsWellFoundedOn(R, Nat)
  BY <1>0, NatLessThanWellFounded
<1> HIDE DEF R
<1>2. \E x \in T : \A y \in T : <<y, x>> \notin R
  BY <1>1, WFMin, Zenon
<1>3. \A x, y \in Nat : <<y, x>> \notin R => x <= y
  BY DEF R
<1> QED
  BY <1>2, <1>3

\* A finding is of one source type at most.
LEMMA MatchingOne ==
  ASSUME InputsInv, NEW finding
  PROVE  Matching(finding) = {} \/ \E i \in Entries : Matching(finding) = {i}
<1>1. Entries = 1..Len(SourceTypes) /\ Len(SourceTypes) \in Nat
  BY Sequences
<1>2. CASE finding.sourceType = "unset"
  <2>1. Matching(finding) = IF Len(SourceTypes) = 1 THEN {1} ELSE {}
    BY <1>2 DEF Matching
  <2>2. Len(SourceTypes) = 1 => 1 \in Entries
    BY <1>1
  <2> QED
    BY <2>1, <2>2
<1>3. CASE finding.sourceType # "unset"
  <2> DEFINE named == {i \in Entries : SourceTypes[i].name = finding.sourceType}
  <2>1. Matching(finding) = IF named = {} THEN {} ELSE {Min(named)}
    BY <1>3 DEF Matching
  <2>2. named \subseteq Entries /\ named \in SUBSET Nat
    BY <1>1
  <2> HIDE DEF named
  <2>3. named # {} => Min(named) \in named
    <3>1. named # {} => \E m \in named : \A k \in named : m <= k
      BY <2>2, Least
    <3> QED
      BY <3>1 DEF Min
  <2> QED
    BY <2>1, <2>2, <2>3
<1> QED
  BY <1>2, <1>3

LEMMA RowsStep == InputsInv /\ RowsInv /\ [Next]_vars => RowsInv'
<1> SUFFICES ASSUME InputsInv, RowsInv, [Next]_vars PROVE RowsInv'
  OBVIOUS
<1>1. UNCHANGED <<manifest, input>>
  BY InputsKept
<1>2. UNCHANGED SourceTypes /\ UNCHANGED Entries
  BY <1>1 DEF SourceTypes, Entries
<1>3. \A i, n : Row(i, n)' = Row(i, n)
  BY <1>1, <1>2 DEF Row
<1>4. Rows' = Rows
  BY <1>1, <1>2, <1>3 DEF Rows
<1>5. CASE ProjectLine
  <2> DEFINE line == input[read + 1]
             hits == IF line.kind = "finding" THEN Matching(line) ELSE {}
             new  == {Row(i, read + 1) : i \in hits}
  <2>1. hits = {} \/ \E i \in Entries : hits = {i}
    BY MatchingOne
  <2>2. read + 1 \in 1..Len(input) /\ read + 1 \in Nat
    BY <1>5, Sequences DEF ProjectLine, RowsInv
  <2>3. new \subseteq Rows
    BY <2>1, <2>2 DEF Rows
  <2>4. new = {} \/ \E row : new = {row}
    BY <2>1
  <2>5. rows' = rows \o SetToSeq(new) /\ read' = read + 1
    BY <1>5 DEF ProjectLine
  <2> HIDE DEF new, hits
  <2>6. SetToSeq(new) \in Seq(Rows)
    <3>1. IsFiniteSet(new)
      BY <2>4, FS_EmptySet, FS_Singleton
    <3>2. SetToSeq(new) \in Seq(new)
      BY <3>1, SetAsSequence
    <3> QED
      BY <2>3, <3>2
  <2> QED
    BY <1>4, <2>2, <2>5, <2>6 DEF RowsInv
<1>6. CASE ~ProjectLine
  <2>1. UNCHANGED <<rows, read>>
    BY <1>6 DEF Next, vars, CheckSchema, CheckRules, RunPreflightLint, CmdLint, LoadMapping,
                EndOfInput, Goto
  <2> QED
    BY <1>4, <2>1 DEF RowsInv
<1> QED
  BY <1>5, <1>6

LEMMA CleanEntry ==
  ASSUME MappingErrors = {}, NEW i \in Entries
  PROVE  LET st == SourceTypes[i]
         IN  /\ DOMAIN st.mapping \subseteq AllowSet(Target(st))
             /\ \A c \in DOMAIN st.mapping : st.mapping[c].kind = "rooted"
             /\ Target(st) = "entities" =>
                  /\ DOMAIN st.extras \subseteq Namespaced
                  /\ \A k \in DOMAIN st.extras : st.extras[k].kind = "rooted"
<1> DEFINE st == SourceTypes[i]
<1>1. IngestionErrors(st) = {}
  BY EntryOfNoErrors
<1> HIDE DEF st
<1>2. DOMAIN st.mapping \subseteq AllowSet(Target(st))
  BY <1>1, Zenon DEF IngestionErrors, Unless
<1>3. \A c \in DOMAIN st.mapping : ValidPath(st.mapping[c])
  BY <1>1, Zenon DEF IngestionErrors, Unless
<1>4. ASSUME Target(st) = "entities"
      PROVE  /\ DOMAIN st.extras \subseteq Namespaced
             /\ \A k \in DOMAIN st.extras : ValidPath(st.extras[k])
  <2> DEFINE extras == IF Target(st) = "entities" THEN DOMAIN st.extras ELSE {}
  <2>1. extras = DOMAIN st.extras
    BY <1>4
  <2> HIDE DEF extras
  <2>2. extras \subseteq Namespaced /\ \A k \in extras : ValidPath(st.extras[k])
    BY <1>1, Zenon DEF IngestionErrors, Unless, extras
  <2> QED
    BY <2>1, <2>2
<1> QED
  BY <1>2, <1>3, <1>4 DEF st, ValidPath

\* A path of a manifest leads away from the finding that it is looked up in.
LEMMA PathsLeadAway ==
  ASSUME InputsInv, NEW i \in Entries,
         NEW n \in 1..Len(input), input[n].kind = "finding",
         NEW e \in Range(SourceTypes[i].mapping) \cup Range(SourceTypes[i].extras), e.kind = "rooted"
  PROVE  LookupPath(input[n].object, ParseDotPath(e)) # input[n].object
<1>1. PICK p \in Projects : manifest = p.manifest
  BY DEF InputsInv
<1>2. SourceTypes[i] \in Range(p.manifest.sourceTypes)
  BY <1>1 DEF SourceTypes, Entries, Range
<1>3. e \in Expressions(p)
  BY <1>2 DEF Expressions
<1>4. e.segments # << >> /\ ParseDotPath(e) = e.segments
  BY <1>3, ProjectsAssumption DEF ParseDotPath
<1>5. input[n] \in Range(input) /\ input \in Inputs
  <2>1. n \in DOMAIN input
    BY Sequences
  <2>2. input # << >>
    BY <2>1
  <2> QED
    BY <2>1, <2>2 DEF Range, InputsInv
<1> QED
  BY <1>3, <1>4, <1>5, PartsAssumption

\* CheckedPartsOfRowsAreClean, for any manifests and findings: of a mapping that keeps the rules
\* `validate-mapping` makes no row of what the ingestion would refuse, in the parts that the
\* rules look at; the extras of a target permissions are none of these.
THEOREM CheckedPartsAreClean == Spec => []CheckedPartsOfRowsAreClean
<1>1. InputsInv /\ RowsInv => CheckedPartsOfRowsAreClean
  <2> SUFFICES ASSUME InputsInv, RowsInv, MappingErrors = {}, NEW r \in Range(rows)
               PROVE  LET target == Target(SourceTypes[r.type])
                          whole  == input[r.line].object
                      IN  /\ DOMAIN r.columns \subseteq AllowSet(target)
                          /\ whole \notin Range(r.columns)
                          /\ target = "entities" => /\ DOMAIN r.extras \subseteq Namespaced
                                                    /\ Text(whole) \notin Range(r.extras)
    BY DEF CheckedPartsOfRowsAreClean
  <2>1. r \in Rows
    BY DEF RowsInv, Range
  <2>2. PICK i \in Entries, n \in 1..Len(input) : input[n].kind = "finding" /\ r = Row(i, n)
    BY <2>1 DEF Rows
  <2> DEFINE st == SourceTypes[i]
             object == input[n].object
             at(e) == LookupPath(object, ParseDotPath(e))
             mapped == Found(st.mapping, object)
             extras == Found(st.extras, object)
  <2>3. /\ DOMAIN mapped \subseteq DOMAIN st.mapping
        /\ \A c \in DOMAIN mapped : mapped[c] = at(st.mapping[c])
        /\ DOMAIN extras \subseteq DOMAIN st.extras
        /\ \A k \in DOMAIN extras : extras[k] = at(st.extras[k])
    BY DEF Found
  <2>4. /\ \A c \in DOMAIN st.mapping : at(st.mapping[c]) # object
        /\ Target(st) = "entities" => \A k \in DOMAIN st.extras : at(st.extras[k]) # object
    BY <2>2, CleanEntry, PathsLeadAway DEF Range
  <2> HIDE DEF mapped, extras, at
  <2>5. /\ r.type = i /\ r.line = n
        /\ r.extras = [k \in DOMAIN extras |-> Text(extras[k])]
        /\ DOMAIN r.columns \subseteq DOMAIN mapped
        /\ \A c \in DOMAIN r.columns : r.columns[c] = mapped[c]
    BY <2>2 DEF Row, Restrict, mapped, extras
  <2>6. DOMAIN r.columns \subseteq AllowSet(Target(st)) /\ object \notin Range(r.columns)
    BY <2>3, <2>4, <2>5, CleanEntry DEF Range
  <2>7. ASSUME Target(st) = "entities"
        PROVE  DOMAIN r.extras \subseteq Namespaced /\ Text(object) \notin Range(r.extras)
    <3>1. DOMAIN r.extras = DOMAIN extras /\ DOMAIN extras \subseteq DOMAIN st.extras
      BY <2>3, <2>5
    <3>2. DOMAIN st.extras \subseteq Namespaced
      BY <2>7, CleanEntry
    <3>3. \A k \in DOMAIN extras : r.extras[k] = Text(extras[k]) /\ extras[k] # object
      BY <2>3, <2>4, <2>5, <2>7
    <3>4. \A v, w : Text(v) = Text(w) => v = w
      BY DEF Text
    <3>5. \A x \in Range(r.extras) : \E k \in DOMAIN extras : x = r.extras[k]
      BY <3>1 DEF Range
    <3> QED
      BY <3>1, <3>2, <3>3, <3>4, <3>5
  <2> QED
    BY <2>5, <2>6, <2>7
<1> QED
  BY <1>1, InputsInit, InputsStep, RowsInit, RowsStep, PTL DEF Spec

=============================================================================
