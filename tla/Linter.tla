------------------------------- MODULE Linter -------------------------------
(***************************************************************************)
(* The linter (linter.go), as operators.  A file has an extension, lines,  *)
(* and what the walk makes of it: it is scanned, in an ignored directory,  *)
(* too big or unreadable.  A line is the set of the patterns it matches:   *)
(* the one that a rule hits on goes by the rule's name.                    *)
(***************************************************************************)
EXTENDS Integers, Sequences

Yaml == {".yaml", ".yml"}

Rule(id, severity, exts, near, width) ==
  [id |-> id, severity |-> severity, exts |-> exts, near |-> near, width |-> width]

\* No pattern has to be near.
Nothing == "nothing"

\* Without R008, which looks at the file as a whole.
DefaultRules ==
  { Rule("R001", "warn", {".py"}, "urlopen", 6),
    Rule("R002", "warn", {".py"}, Nothing, 0),
    Rule("R003", "warn", {".go"}, "http", 6),
    Rule("R004", "warn", {".ts", ".tsx", ".js", ".mjs", ".cjs"}, "fetch", 6),
    Rule("R005", "error", {".py", ".go", ".ts", ".tsx", ".js", ".rs", ".rb", ".sh"}, Nothing, 0),
    Rule("R006", "error", Yaml, "apiVersion", 200),
    Rule("R007", "warn", Yaml, "apiVersion", 200) }

RuleSimple(rule, lines) == {i \in DOMAIN lines : rule.id \in lines[i]}

\* Mutant: the window ends before its last line.
RuleNearbyExclusive(rule, lines) ==
  {i \in RuleSimple(rule, lines) :
     LET lo == IF i - rule.width < 1 THEN 1 ELSE i - rule.width
         hi == IF i + rule.width > Len(lines) THEN Len(lines) ELSE i + rule.width
     IN  \E j \in lo..(hi - 1) : rule.near \in lines[j]}

\* A hit with the other pattern within the rule's width, above or below.
RuleNearby(rule, lines) ==
  {i \in RuleSimple(rule, lines) :
     LET lo == IF i - rule.width < 1 THEN 1 ELSE i - rule.width
         hi == IF i + rule.width > Len(lines) THEN Len(lines) ELSE i + rule.width
     IN  \E j \in lo..hi : rule.near \in lines[j]}

Check(rule, lines) ==
  IF rule.near = Nothing THEN RuleSimple(rule, lines) ELSE RuleNearby(rule, lines)

\* R008: a manifest with an access_scan, and no target permissions.
AccessScanWithoutTarget(lines) ==
  LET matches(pattern) == \E i \in DOMAIN lines : pattern \in lines[i]
  IN  matches("apiVersion") /\ matches("R008") /\ ~matches("target permissions")

\* lintFile, with the rules for the file's extension: the severities of its findings.
LintFile(file) ==
  {rule.severity : rule \in {r \in DefaultRules : file.ext \in r.exts /\ Check(r, file.lines) # {}}}
    \cup IF file.ext \in Yaml /\ AccessScanWithoutTarget(file.lines) THEN {"warn"} ELSE {}

\* Lint: the severities of the findings in a tree.  What cannot be read is passed over.
Lint(files) == UNION {LintFile(f) : f \in {g \in files : g.walk = "scanned"}}
=============================================================================
