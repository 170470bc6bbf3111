----------------------------- MODULE MC_Catalog -----------------------------
(***************************************************************************)
(* A small catalog: three scenario directories, one table group gA that   *)
(* lists d2 and d1, an unknown group name gX that prefixes d1 and d3, and *)
(* the --scenario values: absent, the plain id d2, and q, which names no  *)
(* directory.  Every placement of the three directories under enabled/    *)
(* and pending/ is an initial state.                                       *)
(***************************************************************************)
EXTENDS Catalog, TLC

CONSTANTS d1, d2, d3, gA, gX, q, none

MCDirs == {d1, d2, d3}

MCGroups == gA :> <<d2, d1>>

MCGroupArgs == {gA, gX}

MCIdArgs == {none, d2, q}

MCMatches == (d2 :> {d2}) @@ (q :> {})

MCPrefixed == (gA :> {}) @@ (gX :> {d1, d3})

=============================================================================
