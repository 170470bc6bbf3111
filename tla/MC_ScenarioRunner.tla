------------------------- MODULE MC_ScenarioRunner -------------------------
(***************************************************************************)
(* A small instance of ScenarioRunner.  Three definition files: s1 and s2 *)
(* both lack metadata.id, so both run in 'tf-k8s-unknown' (n1); s3 does   *)
(* not parse.  s1 has the spec's minimal three steps (apply, a            *)
(* non-critical wait, verify) with one manifest; s2 has a non-critical    *)
(* and a critical step.  An invocation resolves either nothing or all    *)
(* three files; the process is invoked at most twice, and the clock      *)
(* shows two seconds.                                                      *)
(***************************************************************************)
EXTENDS ScenarioRunner, TLC

CONSTANTS s1, s2, s3, n1, n2

MCScenarios == {s1, s2, s3}

MCNamespaces == {n1, n2}

MCResolutions == {<< >>, <<s1, s2, s3>>}

MCNsOf == (s1 :> n1) @@ (s2 :> n1) @@ (s3 :> n2)

MCMalformed == {s3}

MCManifests == (s1 :> 1) @@ (s2 :> 0) @@ (s3 :> 0)

MCSteps ==
    (s1 :> << [critical |-> "unset", ncmds |-> 2],
              [critical |-> "false", ncmds |-> 1],
              [critical |-> "true", ncmds |-> 1] >>)
 @@ (s2 :> << [critical |-> "false", ncmds |-> 1],
              [critical |-> "unset", ncmds |-> 1] >>)
 @@ (s3 :> << >>)

MCCriteria == (s1 :> <<90>>) @@ (s2 :> <<0>>) @@ (s3 :> << >>)

\* s1 and s2 have no metadata.id: both are 'unknown'.
MCIds == {"unknown", "TF-X-1"}

MCIdOf == (s1 :> "unknown") @@ (s2 :> "unknown") @@ (s3 :> "TF-X-1")

MCMaxRuns == 2

\* Two distinct seconds: two saves may fall in one second or in two.
MCMaxTime == 1

\* The clock stopped: for the liveness run, where time plays no part.
MCMaxTimeFrozen == 0

=============================================================================
