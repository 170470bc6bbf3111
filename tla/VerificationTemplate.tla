------------------------- MODULE VerificationTemplate -------------------------
(***************************************************************************)
(* src/.bot/templates/verification_template.py: the skeleton every         *)
(* scenario's verification script is generated from.  ScenarioValidator   *)
(* loads the collected metrics, runs three criterion checks in order,      *)
(* prints a per-metric table and an OVERALL RESULT line, and the script    *)
(* exits 0 iff run_all_checks returned True.                               *)
(*                                                                         *)
(* Data is abstracted to what the control depends on: the input file's   *)
(* extension, whether reading and parsing it succeeds, and each check's   *)
(* calculated value.  The template leaves each calculation as a            *)
(* placeholder ("result = 0  # Replace with actual calculation based on   *)
(* self.data"); a generated script computes it from self.data and may     *)
(* raise doing so, so a check either records a value of Values or raises. *)
(* The thresholds are the placeholders [THRESHOLD_VALUEn], chosen in Init. *)
(***************************************************************************)
EXTENDS Naturals, Sequences

CONSTANT MaxValue   \* bound on calculated values and thresholds

ASSUME MaxValueAssumption == MaxValue \in Nat

Values == 0..MaxValue

\* The three metric names, in the order run_all_checks checks them.
Criteria == <<"metric_name1", "metric_name2", "metric_name3">>

Metrics == {Criteria[k] : k \in 1..3}

\* Lines 46-53: the extensions load_data accepts, and one it rejects.
Formats == {".json", ".yaml", ".yml", ".txt", ".log", ".csv"}
Supported == Formats \ {".csv"}

VARIABLES
    format,      \* the extension of input_file
    thresholds,  \* self.thresholds
    results,     \* self.results: the values recorded so far
    verdicts,    \* primary_result, secondary_result, ... computed so far
    success,     \* run_all_checks' return value
    pc,          \* "load", "check", "print" or "exited"
    overall,     \* the OVERALL RESULT printed (TRUE = PASS)
    exitCode

vars == <<format, thresholds, results, verdicts, success, pc, overall, exitCode>>

\* self.results.get(m, 0).
ResultOr0(m) == IF m \in DOMAIN results THEN results[m] ELSE 0

\* Lines 23-34 and 186-188: a validator for one input file.
Init ==
    /\ format \in Formats
    /\ thresholds \in [Metrics -> Values]
    /\ results = [m \in {} |-> 0]
    /\ verdicts = << >>
    /\ success = FALSE
    /\ pc = "load"
    /\ overall = FALSE
    /\ exitCode = 0

\* Lines 36-53 and 149: a supported file is read and parsed.
LoadData ==
    /\ pc = "load"
    /\ format \in Supported
    /\ pc' = "check"
    /\ UNCHANGED <<format, thresholds, results, verdicts, success, overall, exitCode>>

\* Lines 158-163: an exception out of load_data (open, a parse error, or
\* the ValueError of line 53) makes run_all_checks return False.
LoadDataRaises ==
    /\ pc = "load"
    /\ success' = FALSE
    /\ pc' = "print"
    /\ UNCHANGED <<format, thresholds, results, verdicts, overall, exitCode>>

\* A faulty variant: all() taken over the first two verdicts only.
CheckCriterionOffByOne ==
    /\ pc = "check"
    /\ \E r \in Values :
          LET m == Criteria[Len(verdicts) + 1]
          IN  /\ results' = [x \in DOMAIN results \cup {m} |->
                                IF x = m THEN r ELSE results[x]]
              /\ verdicts' = Append(verdicts, r >= thresholds[m])
              /\ IF Len(verdicts') = 3
                    THEN /\ success' = \A k \in 1..2 : verdicts'[k]
                         /\ pc' = "print"
                    ELSE UNCHANGED <<success, pc>>
    /\ UNCHANGED <<format, thresholds, overall, exitCode>>

\* Lines 87-139 and 151-156: the next check records its value and compares
\* it with its threshold; after the third, all() of the three verdicts.
CheckCriterion ==
    /\ pc = "check"
    /\ \E r \in Values :
          LET m == Criteria[Len(verdicts) + 1]
          IN  /\ results' = [x \in DOMAIN results \cup {m} |->
                                IF x = m THEN r ELSE results[x]]
              /\ verdicts' = Append(verdicts, r >= thresholds[m])
              /\ IF Len(verdicts') = 3
                    THEN /\ success' = \A k \in 1..3 : verdicts'[k]
                         /\ pc' = "print"
                    ELSE UNCHANGED <<success, pc>>
    /\ UNCHANGED <<format, thresholds, overall, exitCode>>

\* Lines 158-163: the calculation raises before self.results is written.
CheckRaises ==
    /\ pc = "check"
    /\ success' = FALSE
    /\ pc' = "print"
    /\ UNCHANGED <<format, thresholds, results, verdicts, overall, exitCode>>

\* Lines 165-175 and 189-193: print_results, then sys.exit.
PrintAndExit ==
    /\ pc = "print"
    /\ overall' = \A m \in Metrics : ResultOr0(m) >= thresholds[m]
    /\ exitCode' = IF success THEN 0 ELSE 1
    /\ pc' = "exited"
    /\ UNCHANGED <<format, thresholds, results, verdicts, success>>

Next == LoadData \/ LoadDataRaises \/ CheckCriterion \/ CheckRaises \/ PrintAndExit

Spec == Init /\ [][Next]_vars

-----------------------------------------------------------------------------
\* TypeOK: results only ever holds values of the three metrics.
TypeOK ==
    /\ format \in Formats /\ thresholds \in [Metrics -> Values]
    /\ DOMAIN results \subseteq Metrics
    /\ \A m \in DOMAIN results : results[m] \in Values
    /\ verdicts \in Seq(BOOLEAN) /\ Len(verdicts) <= 3 /\ success \in BOOLEAN
    /\ pc \in {"load", "check", "print", "exited"}
    /\ overall \in BOOLEAN /\ exitCode \in {0, 1}

(***************************************************************************)
(* PassMeansAllCriteriaMet: the script exits 0 only when all three checks *)
(* ran on loaded data, each recorded value meets its threshold, and the   *)
(* OVERALL RESULT it printed was PASS -- the guarantee the scenario       *)
(* engine relies on when it reads the exit status (lines 148-163, 193).   *)
(***************************************************************************)
PassMeansAllCriteriaMet ==
    pc = "exited" /\ exitCode = 0 =>
        /\ DOMAIN results = Metrics
        /\ \A m \in Metrics : results[m] >= thresholds[m]
        /\ overall

(***************************************************************************)
(* PrintedVerdictMatchesExit: the class docstring (lines 18-21) says the  *)
(* validator checks all success criteria and returns the matching exit    *)
(* code; the OVERALL RESULT line should then say PASS exactly when the    *)
(* script exits 0.                                                         *)
(***************************************************************************)
PrintedVerdictMatchesExit ==
    pc = "exited" => (overall <=> exitCode = 0)

=============================================================================
