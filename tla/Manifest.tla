------------------------------ MODULE Manifest ------------------------------
(***************************************************************************)
(* What the CLI makes of spec.sourceTypes, the ingestion mappings of a     *)
(* connector's manifest: `validate` (also the first step of `test` and of  *)
(* `package`) with the embedded JSON schema and ValidateMappingRules, the  *)
(* linter of `lint` and `test`, and `validate-mapping`, which projects     *)
(* findings with ApplyMapping and validates nothing.                       *)
(*                                                                         *)
(* A path expression is "rooted" if it begins with `$.`, and then has      *)
(* segments, "unrooted" if it does not, or "blank".                        *)
(* A JSON value is an object with fields, or not an object, null among     *)
(* these.  Errors are named by the rule; their wording is left out.        *)
(***************************************************************************)
EXTENDS Integers, Sequences, SequencesExt, Linter

CONSTANTS
  Projects,    \* candidate connectors: a manifest and the other files
  Inputs,      \* candidate findings files: sequences of lines
  Namespaced,  \* the additionalProperties keys that carry the connector's name
  PascalCase,  \* the names of source types that the schema's pattern matches
  Shapes       \* Shapes[s]: of which kinds the first and the other characters of a segment are

IsSequence(s) == s \in Seq(Range(s))

\* The expressions of a connector's source types.
Expressions(p) ==
  UNION {Range(st.mapping) \cup Range(st.extras) : st \in Range(p.manifest.sourceTypes)}

\* What follows `$.` has a segment, be it empty.
ASSUME ProjectsAssumption ==
  \A p \in Projects :
    /\ IsSequence(p.manifest.sourceTypes)
    /\ \A f \in p.sources : IsSequence(f.lines)
    /\ \A e \in Expressions(p) : e.kind = "rooted" => e.segments # << >>

ASSUME InputsAssumption == \A lines \in Inputs : IsSequence(lines)

VARIABLES
  manifest,   \* capabilities.scanTypes and spec.sourceTypes, which may be absent (<< >>)
  sources,    \* the other files of the connector
  command,    \* "validate", "lint", "test", or "project" for `validate-mapping`
  strict,     \* --strict
  pc,         \* the next check
  input,      \* the lines of the findings file
  read,       \* how many of them have been read
  rows        \* the rows projected so far, each with its line and the index of its source type

vars == <<manifest, sources, command, strict, pc, input, read, rows>>

ValidDomains == {"Artifact", "Computer", "Group", "Principal", "Role", "SystemObject"}

HierarchicalDomains == {"Artifact"}

PermissionsAllowSet ==
  {"permissionGrantId", "readAllowed", "writeAllowed", "deleteAllowed", "manageAllowed",
   "adminAllowed", "listAllowed", "aceType", "memberRole"}

EntitiesAllowSet ==
  {"name", "description", "displayName", "pathSegment", "parentId", "isContainer", "hasContent",
   "sourceSystemId", "sourceSystemIdType", "sizeBytes", "itemCount", "descendantCount",
   "extension", "contentType", "contentHash", "contentHashAlgorithm", "createdDate",
   "modifiedDate", "lastAccessedDate", "additionalProperties"}

AllowSet(target) == IF target = "permissions" THEN PermissionsAllowSet ELSE EntitiesAllowSet

\* jsonPathRE
ValidPath(expr) ==
  /\ expr.kind = "rooted"
  /\ \A s \in Range(expr.segments) : /\ Shapes[s].first \in {"letter", "underscore"}
                                     /\ Shapes[s].rest \subseteq {"letter", "digit", "underscore"}

Unless(met, rule) == IF met THEN {} ELSE {rule}

SourceTypes == manifest.sourceTypes

Entries == DOMAIN SourceTypes

-----------------------------------------------------------------------------
(* `validate` *)

\* connector.schema.json has lists and a pattern of its own.
SchemaDomains == {"Artifact", "Computer", "Group", "Principal", "Role", "SystemObject"}

SchemaTargets == {"entities"}

\* Mutant: a column of the permissions table was added.
SchemaColumnsOfBoth ==
  {"name", "description", "displayName", "pathSegment", "parentId", "isContainer", "hasContent",
   "sourceSystemId", "sourceSystemIdType", "sizeBytes", "itemCount", "descendantCount",
   "extension", "contentType", "contentHash", "contentHashAlgorithm", "createdDate",
   "modifiedDate", "lastAccessedDate", "permissionGrantId"}

SchemaColumns ==
  {"name", "description", "displayName", "pathSegment", "parentId", "isContainer", "hasContent",
   "sourceSystemId", "sourceSystemIdType", "sizeBytes", "itemCount", "descendantCount",
   "extension", "contentType", "contentHash", "contentHashAlgorithm", "createdDate",
   "modifiedDate", "lastAccessedDate"}

\* $defs/jsonPathExpr
JsonPathExpr(expr) ==
  /\ expr.kind = "rooted"
  /\ \A s \in Range(expr.segments) : /\ Shapes[s].first \in {"letter", "underscore"}
                                     /\ Shapes[s].rest \subseteq {"letter", "digit", "underscore"}

\* connector.schema.json on one entry: only the entities table is known to it.
SchemaErrors(st) ==
  Unless(st.name \in PascalCase, "name")
    \cup Unless(st.domain \in SchemaDomains, "domain")
    \cup Unless(st.ingestion = "mapped", "mapping")
    \cup Unless(st.target \in SchemaTargets, "target")
    \cup Unless(DOMAIN st.mapping \subseteq SchemaColumns, "column")
    \cup Unless(\A c \in DOMAIN st.mapping : JsonPathExpr(st.mapping[c]), "path")
    \cup Unless(\A k \in DOMAIN st.extras : JsonPathExpr(st.extras[k]), "path")

\* A missing target is "entities".
Target(st) == IF st.ingestion # "absent" /\ st.target # "unset" THEN st.target ELSE "entities"

\* Mutant: no path is checked.
IngestionErrorsNoPaths(st) ==
  LET target == Target(st)
  IN  Unless(target \in {"entities", "permissions"}, "rule 5")
        \cup Unless(target = "entities" => st.domain \in ValidDomains, "rule 4")
        \cup Unless(DOMAIN st.mapping \subseteq AllowSet(target), "rule 6")
        \cup Unless("parentId" \in DOMAIN st.mapping => st.domain \in HierarchicalDomains,
                    "rule 11")
        \cup Unless(target = "entities" => DOMAIN st.extras \subseteq Namespaced, "rule 8")

\* ValidateMappingRules on the ingestion block of an entry.
IngestionErrors(st) ==
  LET target == Target(st)
      extras == IF target = "entities" THEN DOMAIN st.extras ELSE {}
  IN  Unless(target \in {"entities", "permissions"}, "rule 5")
        \cup Unless(target = "entities" => st.domain \in ValidDomains, "rule 4")
        \cup Unless(DOMAIN st.mapping \subseteq AllowSet(target), "rule 6")
        \cup Unless(\A c \in DOMAIN st.mapping : ValidPath(st.mapping[c]), "rule 9")
        \cup Unless("parentId" \in DOMAIN st.mapping => st.domain \in HierarchicalDomains,
                    "rule 11")
        \cup Unless(extras \subseteq Namespaced, "rule 8")
        \cup Unless(\A k \in extras : ValidPath(st.extras[k]), "rule 9")

NeedsMapping == manifest.scanTypes \cap {"access_scan", "sensitive_data_scan"} # {}

\* ValidateMappingRules: its errors; the warnings are only printed.
MappingErrors ==
  Unless(NeedsMapping => SourceTypes # << >>, "rule 1")
    \cup (UNION {Unless(\A j \in 1..(i - 1) : SourceTypes[j].name # SourceTypes[i].name, "rule 2")
                   : i \in Entries})
    \cup (UNION {IF SourceTypes[i].ingestion # "absent" THEN IngestionErrors(SourceTypes[i])
                 ELSE {"ingestion"} : i \in Entries})

-----------------------------------------------------------------------------
(* `lint` *)

\* The lines of the manifest that the linter has patterns for.
ManifestFile ==
  [ext |-> ".yaml", walk |-> "scanned",
   lines |-> << {"apiVersion"}, IF "access_scan" \in manifest.scanTypes THEN {"R008"} ELSE {} >>
               \o [i \in Entries |->
                     IF SourceTypes[i].target = "permissions" THEN {"target permissions"} ELSE {}]]

LintFindings == Lint(sources \cup {ManifestFile})

\* cmdLint counts the warnings, runPreflightLint takes what is not an error for one.
LintRejects == "error" \in LintFindings \/ (strict /\ "warn" \in LintFindings)
PreflightRejects == "error" \in LintFindings \/ (strict /\ LintFindings # {})

-----------------------------------------------------------------------------
(* `validate-mapping` *)

Missing == [kind |-> "missing"]

\* lookupPath: no segments lead to the object itself.
LookupPath(object, segments) ==
  FoldLeft(LAMBDA at, s : IF at.kind = "object" /\ s \in DOMAIN at.fields THEN at.fields[s]
                          ELSE Missing,
           object, segments)

\* A JSON value is no part of itself.
ASSUME PartsAssumption ==
  \A p \in Projects : \A e \in {e \in Expressions(p) : e.segments # << >>} :
    \A lines \in Inputs : \A l \in {l \in Range(lines) : l.kind = "finding"} :
      LookupPath(l.object, e.segments) # l.object

\* parseDotPath: nothing comes of an expression that does not begin with `$.`.
ParseDotPath(expr) == IF expr.kind = "unrooted" THEN << >> ELSE expr.segments

\* The part of a row that `exprs` finds in a finding: a blank expression is dropped by
\* ParseSourceTypes, a null is not projected.
Found(exprs, object) ==
  LET at(c) == LookupPath(object, ParseDotPath(exprs[c]))
  IN  [c \in {c \in DOMAIN exprs :
                exprs[c].kind # "blank" /\ at(c).kind \notin {"missing", "null"}} |-> at(c)]

\* Which source type a finding is of, if any: the first of its name, or the only one.
Matching(finding) ==
  IF finding.sourceType = "unset"
  THEN IF Len(SourceTypes) = 1 THEN {1} ELSE {}
  ELSE LET named == {i \in Entries : SourceTypes[i].name = finding.sourceType}
       IN  IF named = {} THEN {} ELSE {Min(named)}

\* %v
Text(value) == [kind |-> "text", of |-> value]

\* ApplyMapping for a source type and the finding of a line; `extras` is the row's
\* additionalProperties, whose values are made texts, and which replaces a mapped column of that
\* name.
Row(i, n) ==
  LET st     == SourceTypes[i]
      object == input[n].object
      found  == Found(st.extras, object)
      extras == [k \in DOMAIN found |-> Text(found[k])]
      mapped == Found(st.mapping, object)
  IN  [line |-> n, type |-> i, extras |-> extras,
       columns |-> IF extras = << >> THEN mapped
                   ELSE Restrict(mapped, DOMAIN mapped \ {"additionalProperties"})]

-----------------------------------------------------------------------------
Init ==
  /\ \E p \in Projects : manifest = p.manifest /\ sources = p.sources
  /\ command \in {"validate", "lint", "test", "project"}
  /\ strict \in IF command \in {"lint", "test"} THEN BOOLEAN ELSE {FALSE}
  /\ pc = CASE command = "project" -> "load" [] command = "lint" -> "lint" [] OTHER -> "schema"
  /\ input \in IF command = "project" THEN Inputs ELSE {<< >>}
  /\ read = 0
  /\ rows = << >>

Goto(from, to) ==
  /\ pc = from
  /\ pc' = to
  /\ UNCHANGED <<manifest, sources, command, strict, input, read, rows>>

\* cmdValidate: the schema comes first ...
CheckSchema ==
  Goto("schema", IF \E i \in Entries : SchemaErrors(SourceTypes[i]) # {}
                 THEN "rejected" ELSE "rules")

\* ... then the rules ...
CheckRules ==
  Goto("rules", IF MappingErrors # {} THEN "rejected"
                ELSE IF command = "test" THEN "lint" ELSE "accepted")

\* ... and in `test` the linter, unless --skip-lint leaves it out.
RunPreflightLint ==
  command = "test" /\ Goto("lint", IF PreflightRejects THEN "rejected" ELSE "accepted")

CmdLint == command = "lint" /\ Goto("lint", IF LintRejects THEN "rejected" ELSE "accepted")

\* cmdValidateMapping needs a source type.
LoadMapping == Goto("load", IF SourceTypes = << >> THEN "rejected" ELSE "project")

\* The loop of cmdValidateMapping, one line per step: one that is no finding, or of no source
\* type, is skipped.
ProjectLine ==
  /\ pc = "project" /\ read < Len(input)
  /\ read' = read + 1
  /\ LET line == input[read + 1]
         hits == IF line.kind = "finding" THEN Matching(line) ELSE {}
     IN  rows' = rows \o SetToSeq({Row(i, read + 1) : i \in hits})
  /\ UNCHANGED <<manifest, sources, command, strict, pc, input>>

\* The input ends, or with a line that the scanner cannot hold.
EndOfInput ==
  /\ read = Len(input)
  /\ Goto("project", "accepted") \/ Goto("project", "rejected")

Next ==
  \/ CheckSchema \/ CheckRules
  \/ RunPreflightLint \/ CmdLint
  \/ LoadMapping \/ ProjectLine \/ EndOfInput

Spec == Init /\ [][Next]_vars

-----------------------------------------------------------------------------
\* The schema and the rules have each their list of columns and of domains, and their
\* pattern of a path; these do not drift apart.  What the schema lets pass breaks no rule but
\* those that look at two places of the manifest; and of the source types for the entities
\* that keep the rules the schema refuses none, but for what is left out, for the pattern of
\* a name, and for the column additionalProperties, which it does not know.
SchemaAgreesWithRules ==
  /\ pc = "rules" => MappingErrors \subseteq {"rule 1", "rule 2", "rule 8", "rule 11"}
  /\ MappingErrors = {} =>
       \A st \in Range(SourceTypes) :
         /\ Target(st) = "entities"
         /\ "additionalProperties" \notin DOMAIN st.mapping
         => SchemaErrors(st) \subseteq {"name", "mapping", "target"}

\* `validate-mapping` validates nothing; but what ValidateMappingRules has looked at is as it
\* should be in the rows: the columns are allowed ones, and so are the extra keys of the
\* entities, and neither holds the whole finding that the row is of.  Nothing is said of
\* the extras of a target permissions: mapping.go:337 has them ignored, but ApplyMapping
\* projects them, and nobody looks at their keys and paths.
CheckedPartsOfRowsAreClean ==
  MappingErrors = {} =>
    \A r \in Range(rows) :
      LET target == Target(SourceTypes[r.type])
          whole  == input[r.line].object
      IN  /\ DOMAIN r.columns \subseteq AllowSet(target)
          /\ whole \notin Range(r.columns)
          /\ target = "entities" => /\ DOMAIN r.extras \subseteq Namespaced
                                    /\ Text(whole) \notin Range(r.extras)

\* A file with a blank line before and after it.
Padded(file) ==
  [ext |-> file.ext, walk |-> file.walk, lines |-> <<{}>> \o file.lines \o <<{}>>]

\* `lint` and `test` come to the same verdict on the same connector: an error fails it, a
\* warning does with --strict.  And no verdict hangs on the edges of a file, where the windows
\* of the rules are cut: it is that on the same files with blank lines around them.  Whether
\* a rule is right is not said: R003 hits guarded Decodes too, against linter.go:195-199.
LintVerdictsAgree ==
  LET found == Lint({Padded(f) : f \in sources \cup {ManifestFile}})
      fails == "error" \in found \/ (strict /\ "warn" \in found)
  IN  /\ command = "lint" /\ pc = "accepted" => ~fails
      /\ command = "lint" /\ pc = "rejected" => fails
      /\ command = "test" /\ pc = "accepted" => ~fails
      /\ command = "test" /\ pc = "rejected" /\ ~fails =>
           MappingErrors # {} \/ \E i \in Entries : SchemaErrors(SourceTypes[i]) # {}

\* docs/manifest-reference.md:430 ("No `domain` needed") and docs/finding-schema.md:27: a
\* source type may have the target permissions.  A manifest that keeps the rules is only
\* rejected for what the schema says of a source type with the target entities.
PermissionsMappingsPass ==
  command = "validate" /\ pc = "rejected" /\ MappingErrors = {} =>
    \E i \in Entries :
      Target(SourceTypes[i]) = "entities" /\ SchemaErrors(SourceTypes[i]) # {}
=============================================================================
