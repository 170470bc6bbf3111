---------------------- MODULE MC_VerificationTemplate ----------------------
(***************************************************************************)
(* A model of verification_template.py for TLC: values and thresholds in  *)
(* 0..1, so that a threshold of 0 (always met) and of 1 (met or not) both *)
(* occur for every metric.                                                 *)
(***************************************************************************)
EXTENDS VerificationTemplate

MCMaxValue == 1

=============================================================================
