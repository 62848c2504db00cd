-------------------------- MODULE MCPackageBundle --------------------------
(***************************************************************************)
(* A small instance of PackageBundle: two versions; manifests of each, one *)
(* that the schema rejects, an empty one, and ones that only the checks of *)
(* package reject; one optional file and one asset, which may be empty,    *)
(* shrink and grow; two runs, two saved files.                             *)
(***************************************************************************)
EXTENDS PackageBundle

MCVersions == {"1.0.0", "1.0.1"}

Manifest(n, valid, version, tag) ==
  [size |-> n, valid |-> valid, version |-> version, tag |-> tag]

MCManifests ==
  {Manifest(1, TRUE, v, v) : v \in MCVersions} \cup
  {Manifest(2, TRUE, "1.0.1", "1.0.0"), Manifest(1, TRUE, "1.0.0", None),
   Manifest(2, FALSE, "1.0.1", "1.0.1"), Manifest(0, FALSE, None, None)}

MCOptional == <<"README.md">>
MCAssets == <<"assets/logo.svg">>
=============================================================================
