------------------- MODULE VerificationTemplateProofs -------------------
(***************************************************************************)
(* Proofs about verification_template.py: the exit status 0 is only      *)
(* reached when every one of the three criteria ran on loaded data and   *)
(* met its threshold, for every bound on values and every thresholds.    *)
(***************************************************************************)
EXTENDS VerificationTemplate, TLAPS

(***************************************************************************)
(* CheckInv: self.results holds exactly the metrics whose checks have     *)
(* run, each verdict is its recorded value compared with its threshold,   *)
(* run_all_checks only returns True after the third check with all three *)
(* verdicts True, and the printed result and the exit status are those of *)
(* the final state of the checks.                                          *)
(***************************************************************************)
CheckInv ==
    /\ DOMAIN results = {Criteria[k] : k \in 1..Len(verdicts)}
    /\ \A k \in 1..Len(verdicts) :
         verdicts[k] <=> results[Criteria[k]] >= thresholds[Criteria[k]]
    /\ pc \in {"load", "check"} => Len(verdicts) < 3 /\ ~success
    /\ success => Len(verdicts) = 3 /\ \A k \in 1..3 : verdicts[k]
    /\ pc = "exited" => (exitCode = 0 <=> success) /\ (success => overall)

TemplateInv == TypeOK /\ CheckInv

\* The three metric names are distinct: a check never overwrites another's
\* value in self.results.
LEMMA CriteriaDistinct ==
    /\ Criteria \in [1..3 -> Metrics] /\ Len(Criteria) = 3
    /\ \A j, k \in 1..3 : Criteria[j] = Criteria[k] => j = k
<1>1. 1..3 = {1, 2, 3}
  OBVIOUS
<1>. QED
  BY <1>1 DEF Criteria, Metrics

LEMMA InitTemplateInv == Init => TemplateInv
<1> SUFFICES ASSUME Init PROVE TemplateInv
  OBVIOUS
<1>1. /\ DOMAIN results = {} /\ Len(verdicts) = 0
      /\ {Criteria[k] : k \in 1..0} = {}
  BY DEF Init
<1>2. TypeOK
  <2>1. format \in Formats /\ thresholds \in [Metrics -> Values]
    BY DEF Init
  <2>2. DOMAIN results \subseteq Metrics /\ \A m \in DOMAIN results : results[m] \in Values
    BY <1>1
  <2>3. verdicts \in Seq(BOOLEAN) /\ Len(verdicts) <= 3
    BY DEF Init
  <2>4. success \in BOOLEAN /\ pc \in {"load", "check", "print", "exited"}
        /\ overall \in BOOLEAN /\ exitCode \in {0, 1}
    BY DEF Init
  <2>. QED
    BY <2>1, <2>2, <2>3, <2>4 DEF TypeOK
<1>3. CheckInv
  BY <1>1 DEF Init, CheckInv
<1>. QED
  BY <1>2, <1>3 DEF TemplateInv

LEMMA LoadDataInv == TemplateInv /\ LoadData => TemplateInv'
BY DEF LoadData, TemplateInv, TypeOK, CheckInv, Formats, Supported

LEMMA LoadDataRaisesInv == TemplateInv /\ LoadDataRaises => TemplateInv'
BY DEF LoadDataRaises, TemplateInv, TypeOK, CheckInv

LEMMA CheckRaisesInv == TemplateInv /\ CheckRaises => TemplateInv'
BY DEF CheckRaises, TemplateInv, TypeOK, CheckInv

LEMMA PrintAndExitInv == TemplateInv /\ PrintAndExit => TemplateInv'
<1> SUFFICES ASSUME TemplateInv, PrintAndExit PROVE TemplateInv'
  OBVIOUS
<1>1. success => \A m \in Metrics : ResultOr0(m) >= thresholds[m]
  <2> SUFFICES ASSUME success, NEW m \in Metrics
               PROVE  ResultOr0(m) >= thresholds[m]
    OBVIOUS
  <2>1. PICK k \in 1..3 : m = Criteria[k]
    BY DEF Metrics
  <2>2. Len(verdicts) = 3 /\ verdicts[k]
    BY DEF TemplateInv, CheckInv
  <2>3. m \in DOMAIN results
    BY <2>1, <2>2 DEF TemplateInv, CheckInv
  <2>. QED
    BY <2>1, <2>2, <2>3 DEF TemplateInv, CheckInv, ResultOr0
<1>. QED
  BY <1>1 DEF PrintAndExit, TemplateInv, TypeOK, CheckInv

\* The next check records its value under a metric not yet in
\* self.results and appends its verdict; the third one sets 'success'.
LEMMA CheckCriterionInv == TemplateInv /\ CheckCriterion => TemplateInv'
<1> SUFFICES ASSUME TemplateInv, CheckCriterion PROVE TemplateInv'
  OBVIOUS
<1> DEFINE n == Len(verdicts)
<1>1. PICK r \in Values :
        LET m == Criteria[n + 1]
        IN  /\ results' = [x \in DOMAIN results \cup {m} |->
                              IF x = m THEN r ELSE results[x]]
            /\ verdicts' = Append(verdicts, r >= thresholds[m])
            /\ IF Len(verdicts') = 3
                  THEN /\ success' = \A k \in 1..3 : verdicts'[k]
                       /\ pc' = "print"
                  ELSE UNCHANGED <<success, pc>>
  BY DEF CheckCriterion
<1> DEFINE m == Criteria[n + 1]
<1>2. /\ pc = "check" /\ n \in Nat /\ n <= 2 /\ ~success
      /\ verdicts \in Seq(BOOLEAN)
      /\ UNCHANGED <<format, thresholds, overall, exitCode>>
  <2>1. pc = "check" /\ UNCHANGED <<format, thresholds, overall, exitCode>>
    BY DEF CheckCriterion
  <2>2. verdicts \in Seq(BOOLEAN) /\ n < 3 /\ ~success
    BY <2>1 DEF TemplateInv, TypeOK, CheckInv
  <2>3. n \in Nat /\ n <= 2
    BY <2>2 DEF n
  <2>. QED
    BY <2>1, <2>2, <2>3, Zenon
<1>3. /\ m \in Metrics
      /\ \A k \in 1..n : Criteria[k] # m
      /\ {Criteria[k] : k \in 1..n + 1} = {Criteria[k] : k \in 1..n} \cup {m}
  BY <1>2, CriteriaDistinct
<1>4. /\ verdicts' \in Seq(BOOLEAN) /\ Len(verdicts') = n + 1
      /\ \A k \in 1..n : verdicts'[k] = verdicts[k]
      /\ verdicts'[n + 1] = (r >= thresholds[m])
  BY <1>1, <1>2
<1>5. /\ DOMAIN results' = {Criteria[k] : k \in 1..n + 1}
      /\ results'[m] = r
      /\ \A k \in 1..n : results'[Criteria[k]] = results[Criteria[k]]
  BY <1>1, <1>3 DEF TemplateInv, CheckInv
<1>6. TypeOK'
  <2>1. DOMAIN results' \subseteq Metrics
    <3>1. \A k \in 1..n + 1 : Criteria[k] \in Metrics
      <4>1. \A k \in 1..n + 1 : k \in 1..3
        BY <1>2
      <4>. QED
        BY <4>1, CriteriaDistinct
    <3>. QED
      BY <1>5, <3>1
  <2>2. \A x \in DOMAIN results' : results'[x] \in Values
    BY <1>1 DEF TemplateInv, TypeOK
  <2>3. pc' \in {"check", "print"} /\ success' \in BOOLEAN
    BY <1>1, <1>2 DEF TemplateInv, TypeOK
  <2>. QED
    BY <1>2, <1>4, <2>1, <2>2, <2>3 DEF TemplateInv, TypeOK
<1>7. \A k \in 1..n + 1 :
        verdicts'[k] <=> results'[Criteria[k]] >= thresholds[Criteria[k]]
  BY <1>2, <1>4, <1>5 DEF TemplateInv, CheckInv
<1>8. CASE n + 1 = 3
  <2>1. /\ success' = \A k \in 1..3 : verdicts'[k]
        /\ pc' = "print"
    BY <1>1, <1>4, <1>8
  <2>. QED
    BY <1>2, <1>4, <1>5, <1>6, <1>7, <1>8, <2>1 DEF TemplateInv, CheckInv
<1>9. CASE n + 1 # 3
  <2>1. UNCHANGED <<success, pc>>
    BY <1>1, <1>4, <1>9
  <2>. QED
    BY <1>2, <1>4, <1>5, <1>6, <1>7, <1>9, <2>1 DEF TemplateInv, CheckInv
<1>. QED
  BY <1>8, <1>9

LEMMA NextTemplateInv == TemplateInv /\ [Next]_vars => TemplateInv'
<1> SUFFICES ASSUME TemplateInv, [Next]_vars PROVE TemplateInv'
  OBVIOUS
<1>1. CASE UNCHANGED vars
  BY <1>1 DEF vars, TemplateInv, TypeOK, CheckInv
<1>. QED
  BY <1>1, LoadDataInv, LoadDataRaisesInv, CheckCriterionInv, CheckRaisesInv,
     PrintAndExitInv DEF Next

(***************************************************************************)
(* ExitZeroMeansAllMet: for every bound on values and all thresholds, the *)
(* generated script exits 0 only after all three checks ran on loaded     *)
(* data, each recorded value met its threshold and the OVERALL RESULT was *)
(* PASS: run_all_checks returns all() of the three verdicts (lines       *)
(* 151-156) and an exception on the way returns False (lines 158-163).   *)
(***************************************************************************)
THEOREM ExitZeroMeansAllMet == Spec => []PassMeansAllCriteriaMet
<1>1. TemplateInv => PassMeansAllCriteriaMet
  <2> SUFFICES ASSUME TemplateInv, pc = "exited", exitCode = 0
               PROVE  /\ DOMAIN results = Metrics
                      /\ \A mm \in Metrics : results[mm] >= thresholds[mm]
                      /\ overall
    BY DEF PassMeansAllCriteriaMet
  <2>1. success /\ overall /\ Len(verdicts) = 3 /\ \A k \in 1..3 : verdicts[k]
    BY DEF TemplateInv, CheckInv
  <2>2. DOMAIN results = Metrics
    BY <2>1 DEF TemplateInv, CheckInv, Metrics
  <2>3. \A mm \in Metrics : results[mm] >= thresholds[mm]
    BY <2>1 DEF TemplateInv, CheckInv, Metrics
  <2>. QED
    BY <2>1, <2>2, <2>3
<1>. QED
  BY <1>1, InitTemplateInv, NextTemplateInv, PTL DEF Spec

=============================================================================
