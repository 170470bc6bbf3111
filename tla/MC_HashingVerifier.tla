------------------------- MODULE MC_HashingVerifier -------------------------
(***************************************************************************)
(* Every metrics file of at most two command-line labels: enough for a    *)
(* file that mixes a matching hash with a foreign one, with an uppercase  *)
(* one, or with a plaintext command line.                                  *)
(***************************************************************************)
EXTENDS HashingVerifier

MCMaxLines == 2

=============================================================================
