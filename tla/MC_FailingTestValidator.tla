------------------------ MODULE MC_FailingTestValidator ------------------------
(***************************************************************************)
(* The directories validated: a missing directory, one without its        *)
(* definition, and complete ones with or without a k8s directory (whose   *)
(* manifests parse or not), with or without a verification script and a  *)
(* Python syntax error; their definitions range over a YAML error, an     *)
(* empty document and mappings that miss a section, carry a non-matching *)
(* or non-string id, an invalid cluster type, null or short step and      *)
(* criteria lists, no deployment step or an unnamed step.                 *)
(***************************************************************************)
EXTENDS FailingTestValidator, TLC

MCDefs ==
    {[parse |-> "error"], [parse |-> "null"]}
    \cup [parse : {"mapping"},
          sections : {Sections, Sections \ {"requirements"}},
          meta : BOOLEAN,
          id : {"conforming", "nonconforming", "nonstring"},
          cluster : {"kind", "other"},
          components : {TRUE},
          steps : Null \cup [kind : {"list"}, n : {2, 3}, deploy : BOOLEAN,
                              verify : {TRUE}, named : BOOLEAN],
          criteria : Null \cup [kind : {"list"}, n : {0, 1}, complete : {TRUE}]]

\* A missing directory has no files; a directory without a k8s/ has no
\* manifests to parse.
MCDirShapes ==
    {sd \in [exists : BOOLEAN, hasDef : BOOLEAN, k8s : {"absent", "files"},
             k8sDocs : {"ok", "unparsable"}, verify : {"none", "complete"},
             pyError : BOOLEAN, lint : {"clean"}, def : MCDefs] :
        /\ sd.hasDef => sd.exists
        /\ sd.k8s = "absent" => sd.k8sDocs = "ok"}

=============================================================================
