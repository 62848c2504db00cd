----------------------------- MODULE MCManifest -----------------------------
(***************************************************************************)
(* Small instances of Manifest: every manifest of one source type, and     *)
(* pairs of a few of them; findings of each type, of none, of an unknown   *)
(* one, and lines that are blank or not JSON; and sources for the linter.  *)
(* The segments of paths are identifiers, one with an underscore and a     *)
(* digit, and what is none: with an index, a digit first, or empty.        *)
(***************************************************************************)
EXTENDS Manifest

MCNamespaced == {"own.key"}

MCPascalCase == {"File", "Grant"}

Shape(first, rest) == [first |-> first, rest |-> rest]

MCShapes ==
  [ s \in {"object", "url", "owner", "host"} |-> Shape("letter", {"letter"}) ]
    @@ "_id2" :> Shape("underscore", {"letter", "digit"})
    @@ "object[0]" :> Shape("letter", {"letter", "digit", "other"})
    @@ "2nd" :> Shape("digit", {"letter"})
    @@ "" :> Shape("none", {})

Path(segments) == [kind |-> "rooted", segments |-> segments]

Url == Path(<<"object", "url">>)

MCExprs ==
  { Url, Path(<<"owner">>), Path(<<"object", "url", "host">>),
    Path(<<"object", "_id2">>), Path(<<"object[0]">>), Path(<<"2nd">>), Path(<<"">>),
    [kind |-> "unrooted", segments |-> << >>], [kind |-> "blank", segments |-> << >>] }

Maps(keys) == UNION {[ks -> {e}] : ks \in {{k} : k \in keys}, e \in MCExprs} \cup {<< >>}

MCColumns == {"sourceSystemId", "parentId", "additionalProperties", "permissionGrantId", "bogus"}

MCSourceTypes ==
  [name : {"File"}, domain : {"Artifact", "Role", "unset"}, ingestion : {"mapped"},
   target : {"entities", "permissions", "other", "unset"}, mapping : Maps(MCColumns),
   extras : Maps({"own.key", "other.key"})]

\* Without an ingestion block, or without its mapping; and one that is not in Pascal case.
Incomplete ==
  [name : {"File", "file"}, domain : {"Artifact"}, ingestion : {"absent"}, target : {"unset"},
   mapping : {<< >>}, extras : {<< >>}]
    \cup [name : {"File", "file"}, domain : {"Artifact"}, ingestion : {"unmapped"},
          target : {"entities", "unset"}, mapping : {<< >>}, extras : {<< >>}]

MCPairs ==
  LET few == [name : {"File", "Grant"}, domain : {"Artifact"}, ingestion : {"mapped"},
              target : {"entities", "permissions"},
              mapping : [{"sourceSystemId"} -> {Url}] \cup [{"permissionGrantId"} -> {Url}],
              extras : {<< >>}]
  IN  {<<a, b>> : a \in few, b \in few}

MCManifests ==
  { [scanTypes |-> s, sourceTypes |-> ts] :
      s \in {{}, {"access_scan"}, {"sensitive_data_scan"}},
      ts \in {<< >>} \cup {<<t>> : t \in Incomplete} \cup MCPairs }
    \cup {[scanTypes |-> {"access_scan"}, sourceTypes |-> <<t>>] : t \in MCSourceTypes}

File(ext, lines) == [ext |-> ext, walk |-> "scanned", lines |-> lines]

Gap(n) == [i \in 1..n |-> {}]

\* A hit of each rule with what it asks for: on the line, on the edge of the window and
\* beyond it, above and below; and alone.
MCHits ==
  UNION {
    LET hit == <<{r.id}>>  near == <<{r.near}>>
    IN  {File(e, hit) : e \in r.exts \cup {".txt"}} \cup
        {File(CHOOSE e \in r.exts : TRUE, ls) :
           ls \in {<<{r.id, r.near}>>} \cup
                 UNION {{hit \o Gap(n) \o near, near \o Gap(n) \o hit,
                         Gap(2) \o hit \o Gap(n) \o near \o Gap(2)} :
                        n \in {r.width - 1, r.width} \cap Nat}}
    : r \in DefaultRules}

Footguns == {f \in MCHits : Len(f.lines) = 1}

MCSources ==
  {{f} : f \in MCHits}
    \cup {{[f EXCEPT !.walk = w]} : f \in Footguns, w \in {"ignored", "too big", "unreadable"}}
    \cup {{f, g} : f \in Footguns, g \in Footguns}
    \cup {{File(e, ls)} : e \in Yaml \cup {".txt"},
                          ls \in {<<{"apiVersion"}, {"R008"}>>, <<{"R008"}>>,
                                 <<{"target permissions"}, {"apiVersion", "R008"}>>}}

MCProjects ==
  {[manifest |-> m, sources |-> {}] : m \in MCManifests} \cup
  {[manifest |-> [scanTypes |-> s, sourceTypes |-> << >>], sources |-> files] :
     s \in {{}, {"access_scan"}}, files \in MCSources}

Leaf(v) == [kind |-> "value", of |-> v]

Object(fields) == [kind |-> "object", fields |-> fields]

Finding(name, owner) ==
  [kind |-> "finding", sourceType |-> name,
   object |-> Object([object |-> Object([url |-> Leaf("u")]), owner |-> owner])]

MCInputs ==
  { << >>,
    <<[kind |-> "garbage"], Finding("File", [kind |-> "null"]), [kind |-> "blank"],
      Finding("unset", Leaf("o")), Finding("Grant", Leaf("o")), Finding("Other", Leaf("o"))>> }
=============================================================================
