---------------------------- MODULE ReportProofs ----------------------------
(***************************************************************************)
(* Proofs that the records save_results writes are faithful, for every     *)
(* value of the constants: StepResultsFaithful and ReportSuccessFaithful  *)
(* of ScenarioRunner.  A record is the 'results' dictionary of            *)
(* run_scenario at the moment it is saved, so the invariant to carry is   *)
(* one about 'results' while run_scenario builds it (RecordInv), on top   *)
(* of the loop invariant LoopInv of the refinement proof.                 *)
(***************************************************************************)
EXTENDS ExecutorRefinement

\* Every entry of a sequence of results says success.
AllOk(s) == \A k \in 1..Len(s) : s[k].success

(***************************************************************************)
(* RecordInv: from StartRun until the record is saved, the steps recorded *)
(* so far are faithful to their definitions and none but the last is a    *)
(* failed critical step; results['success'] is the conjunction of the     *)
(* recorded steps' flags, of the current step's flag inside the command   *)
(* loop, and of the criteria once they are recorded; at save the step     *)
(* list is complete or aborted.  The saved records are faithful.          *)
(***************************************************************************)
RecordInv ==
    /\ pc \in {"cmd", "criteria", "save"} =>
         /\ Len(results.steps) <= Len(CurSteps)
         /\ \A k \in 1..Len(results.steps) :
                FaithfulEntry(results.steps[k], CurSteps[k])
         /\ \A k \in 1..Len(results.steps) - 1 :
                results.steps[k].success \/ ~CriticalBySpec(CurSteps[k])
    /\ pc \in {"cmd", "criteria"} =>
         (results.success <=> AllOk(results.steps) /\ (pc = "cmd" => stepSuccess))
    /\ pc = "save" =>
         /\ results.success <=> AllOk(results.steps) /\ AllOk(results.criteria)
         /\ \/ Len(results.steps) = Len(CurSteps)
            \/ LogAborted(results.steps, CurSteps)
    /\ StepResultsFaithful
    /\ ReportSuccessFaithful

ReportInv == TypeInv /\ LoopInv /\ RecordInv

\* Every outcome the executor allows for a step is faithful to it.
LEMMA OutcomeFaithful ==
    ASSUME NEW st \in StepDef, NEW r \in Executor!Outcomes(st)
    PROVE  FaithfulEntry(r, st)
<1>1. st.ncmds \in Nat
  BY DEF StepDef
<1>2. CASE r = [success |-> TRUE, output |-> [j \in 1..st.ncmds |-> "out"]]
  BY <1>2 DEF FaithfulEntry
<1>3. CASE \E f \in 1..st.ncmds :
             r = [success |-> FALSE,
                  output |-> [j \in 1..f |-> IF j = f THEN "error" ELSE "out"]]
  <2>1. PICK f \in 1..st.ncmds :
             r = [success |-> FALSE,
                  output |-> [j \in 1..f |-> IF j = f THEN "error" ELSE "out"]]
    BY <1>3
  <2>2. /\ ~r.success
        /\ Len(r.output) = f
        /\ r.output[f] = "error"
        /\ \A j \in 1..f - 1 : r.output[j] = "out"
    BY <1>1, <2>1
  <2>. QED
    BY <1>1, <2>2 DEF FaithfulEntry
<1>. QED
  BY <1>2, <1>3 DEF Executor!Outcomes

\* Steps that leave run_scenario and keep the saved records keep RecordInv.
LEMMA LeavingRecord ==
    ASSUME RecordInv, pc' \notin {"cmd", "criteria", "save"},
           reports' = reports
    PROVE  RecordInv'
BY DEF RecordInv, StepResultsFaithful, ReportSuccessFaithful

LEMMA StartRunRecordInv == TypeInv /\ RecordInv /\ StartRun => RecordInv'
<1> SUFFICES ASSUME TypeInv, RecordInv, StartRun PROVE RecordInv'
  OBVIOUS
<1>1. /\ results' = InitResults /\ stepSuccess' = TRUE
      /\ pc' \in {"cmd", "criteria"} /\ reports' = reports
  BY DEF StartRun
<1>2. /\ results'.steps = << >> /\ results'.success
  BY <1>1 DEF InitResults
<1>. QED
  BY <1>1, <1>2 DEF RecordInv, AllOk, StepResultsFaithful,
                    ReportSuccessFaithful

LEMMA RunCommandRecordInv == TypeInv /\ RecordInv /\ RunCommand => RecordInv'
<1> SUFFICES ASSUME TypeInv, RecordInv, RunCommand PROVE RecordInv'
  OBVIOUS
<1>a. results \in Result
  BY DEF TypeInv, TypeOK
<1>1. /\ pc = "cmd" /\ pc' = "cmd" /\ stepSuccess /\ reports' = reports
      /\ results'.steps = results.steps
      /\ CurSteps' = CurSteps
  BY <1>a DEF RunCommand, Result, CurSteps, File
<1>2. results.success <=> AllOk(results.steps)
  BY <1>1 DEF RecordInv
<1>3. results'.success <=> AllOk(results'.steps) /\ stepSuccess'
  <2>1. CASE UNCHANGED <<stepSuccess, results>>
    BY <1>1, <1>2, <2>1
  <2>2. CASE stepSuccess' = FALSE /\ results' = [results EXCEPT !.success = FALSE]
    BY <1>a, <2>2 DEF Result
  <2>. QED
    BY <2>1, <2>2 DEF RunCommand
<1>. QED
  BY <1>1, <1>3 DEF RecordInv, StepResultsFaithful, ReportSuccessFaithful

LEMMA EndStepRecordInv ==
    TypeInv /\ LoopInv /\ RecordInv /\ EndStep => RecordInv'
<1> SUFFICES ASSUME TypeInv, LoopInv, RecordInv, EndStep PROVE RecordInv'
  OBVIOUS
<1> DEFINE rec == [success |-> stepSuccess, output |-> stepOutput]
           log == results.steps
<1>a. /\ rec \in Executor!Outcomes(CurSteps[step])
      /\ step \in 1..Len(CurSteps)
      /\ CurSteps \in Seq(StepDef)
  BY EndStepOutcome
<1>b. /\ pc = "cmd" /\ pc' \in {"cmd", "criteria"}
      /\ Len(log) = step - 1
      /\ ~LogAborted(log, CurSteps)
      /\ reports' = reports
  BY DEF EndStep, LoopInv
<1>c. /\ results \in Result
      /\ log \in Seq(StepResult)
  BY DEF TypeInv, TypeOK, Result
<1>d. /\ \A k \in 1..Len(log) : FaithfulEntry(log[k], CurSteps[k])
      /\ \A k \in 1..Len(log) - 1 : log[k].success \/ ~CriticalBySpec(CurSteps[k])
      /\ results.success <=> AllOk(log) /\ stepSuccess
  BY <1>b DEF RecordInv
<1>1. /\ CurSteps' = CurSteps
      /\ results'.steps = Append(log, rec)
      /\ results'.success = results.success
      /\ stepSuccess' = TRUE
  BY <1>c DEF EndStep, CurSteps, File, Result
<1>2. /\ Len(results'.steps) = step
      /\ results'.steps[step] = rec
      /\ \A k \in 1..step - 1 : results'.steps[k] = log[k]
  BY <1>a, <1>b, <1>c, <1>1
<1>3. FaithfulEntry(rec, CurSteps[step])
  <2>1. CurSteps[step] \in StepDef
    BY <1>a
  <2>. QED
    BY <1>a, <2>1, OutcomeFaithful
<1>4. \A k \in 1..Len(results'.steps) :
          FaithfulEntry(results'.steps[k], CurSteps'[k])
  BY <1>1, <1>2, <1>3, <1>b, <1>d
<1>5. \A k \in 1..Len(results'.steps) - 1 :
          results'.steps[k].success \/ ~CriticalBySpec(CurSteps'[k])
  <2> SUFFICES ASSUME NEW k \in 1..step - 1
               PROVE  log[k].success \/ ~CriticalBySpec(CurSteps[k])
    BY <1>1, <1>2
  <2>1. CASE k < step - 1
    BY <2>1, <1>b, <1>d
  <2>2. CASE k = step - 1
    BY <2>2, <1>b DEF LogAborted
  <2>. QED
    BY <2>1, <2>2, <1>a
<1>6. results'.success <=> AllOk(results'.steps) /\ (pc' = "cmd" => stepSuccess')
  <2>1. AllOk(results'.steps) <=> AllOk(log) /\ stepSuccess
    BY <1>2, <1>b, <1>a DEF AllOk
  <2>. QED
    BY <2>1, <1>1, <1>d
<1>7. Len(results'.steps) <= Len(CurSteps')
  BY <1>1, <1>2, <1>a
<1>. QED
  BY <1>b, <1>4, <1>5, <1>6, <1>7
     DEF RecordInv, StepResultsFaithful, ReportSuccessFaithful

LEMMA CriteriaRecordInv ==
    TypeInv /\ LoopInv /\ RecordInv /\ EvaluateCriteria => RecordInv'
<1> SUFFICES ASSUME TypeInv, LoopInv, RecordInv, EvaluateCriteria
             PROVE  RecordInv'
  OBVIOUS
<1> DEFINE cs == Criteria[File]
           rs == [k \in 1..Len(cs) |->
                    [threshold |-> cs[k], actual |-> 0, success |-> TRUE]]
<1>a. results \in Result
  BY DEF TypeInv, TypeOK
<1>b. cs \in Seq(Nat)
  BY CurrentFile, CriteriaAssumption DEF EvaluateCriteria, Busy
<1>1. /\ pc = "criteria" /\ pc' = "save" /\ reports' = reports
      /\ CurSteps' = CurSteps
      /\ results'.steps = results.steps
      /\ results'.criteria = rs
      /\ results'.success = (results.success /\ \A k \in 1..Len(cs) : rs[k].success)
  BY <1>a DEF EvaluateCriteria, CurSteps, File, Result
<1>2. AllOk(rs)
  BY <1>b DEF AllOk
<1>3. results.success <=> AllOk(results.steps)
  BY <1>1 DEF RecordInv
<1>4. \/ Len(results.steps) = Len(CurSteps)
      \/ LogAborted(results.steps, CurSteps)
  BY <1>1 DEF LoopInv
<1>5. results'.success <=> AllOk(results'.steps) /\ AllOk(results'.criteria)
  BY <1>1, <1>2, <1>3, <1>b DEF AllOk
<1>. QED
  BY <1>1, <1>4, <1>5 DEF RecordInv, StepResultsFaithful, ReportSuccessFaithful

\* The record main saves: the 'results' of the current file.
LEMMA SaveRecordInv == TypeInv /\ RecordInv /\ SaveResults => RecordInv'
<1> SUFFICES ASSUME TypeInv, RecordInv, SaveResults PROVE RecordInv'
  OBVIOUS
<1> DEFINE rep == [run |-> run, idx |-> idx, file |-> File, result |-> results]
<1>1. /\ pc = "save" /\ pc' \in {"cleanup", "next"}
      /\ reports' \in {reports, reports \cup {rep}}
  BY DEF SaveResults, Raise
<1>2. FaithfulLog(rep.result.steps, Steps[rep.file])
  <2>1. rep.result.steps = results.steps /\ Steps[rep.file] = CurSteps
    BY DEF CurSteps
  <2>2. /\ Len(results.steps) <= Len(CurSteps)
        /\ \A k \in 1..Len(results.steps) :
               FaithfulEntry(results.steps[k], CurSteps[k])
        /\ \A k \in 1..Len(results.steps) - 1 :
               results.steps[k].success \/ ~CriticalBySpec(CurSteps[k])
        /\ \/ Len(results.steps) = Len(CurSteps)
           \/ LogAborted(results.steps, CurSteps)
    BY <1>1 DEF RecordInv
  <2>. QED
    BY <2>1, <2>2 DEF FaithfulLog, LogAborted
<1>3. rep.result.success <=>
          /\ \A k \in 1..Len(rep.result.steps) : rep.result.steps[k].success
          /\ \A k \in 1..Len(rep.result.criteria) :
                 rep.result.criteria[k].success
  BY <1>1 DEF RecordInv, AllOk
<1>. QED
  BY <1>1, <1>2, <1>3 DEF RecordInv, StepResultsFaithful, ReportSuccessFaithful

LEMMA NextRecordInv ==
    TypeInv /\ LoopInv /\ RecordInv /\ [Next]_vars => RecordInv'
<1> SUFFICES ASSUME TypeInv, LoopInv, RecordInv, [Next]_vars
             PROVE  RecordInv'
  OBVIOUS
<1>1. CASE StartRun
  BY <1>1, StartRunRecordInv
<1>2. CASE RunCommand
  BY <1>2, RunCommandRecordInv
<1>3. CASE EndStep
  BY <1>3, EndStepRecordInv
<1>4. CASE EvaluateCriteria
  BY <1>4, CriteriaRecordInv
<1>5. CASE SaveResults
  BY <1>5, SaveRecordInv
<1>6. CASE \/ Start \/ Load \/ CreateNamespace \/ ApplyManifest
           \/ CleanupScenario \/ NextScenario \/ Exit \/ Kill \/ Invoke
  <2>1. pc' \notin {"cmd", "criteria", "save"} /\ reports' = reports
    BY <1>6 DEF Start, Load, CreateNamespace, ApplyManifest,
                CleanupScenario, NextScenario, Exit, Kill, Invoke, Raise
  <2>. QED
    BY <2>1, LeavingRecord
<1>7. CASE \E n \in Namespaces : NamespaceGone(n)
  BY <1>7 DEF NamespaceGone, ScratchVars, RecordInv, CurSteps, File,
              StepResultsFaithful, ReportSuccessFaithful
<1>8. CASE Tick
  BY <1>8 DEF Tick, ScratchVars, RecordInv, CurSteps, File,
              StepResultsFaithful, ReportSuccessFaithful
<1>9. CASE UNCHANGED vars
  BY <1>9 DEF vars, RecordInv, CurSteps, File,
              StepResultsFaithful, ReportSuccessFaithful
<1>. QED
  BY <1>1, <1>2, <1>3, <1>4, <1>5, <1>6, <1>7, <1>8, <1>9 DEF Next

\* ReportInv is an inductive invariant of the driver.
LEMMA ReportInvariant == Spec => []ReportInv
<1>1. Init => ReportInv
  <2>1. Init => LoopInv /\ RecordInv
    BY DEF Init, LoopInv, RecordInv, StepResultsFaithful,
           ReportSuccessFaithful
  <2>. QED
    BY <2>1, InitTypeInv DEF ReportInv
<1>2. ReportInv /\ [Next]_vars => ReportInv'
  BY NextTypeInv, NextLoopInv, NextRecordInv DEF ReportInv
<1>. QED
  BY <1>1, <1>2, PTL DEF Spec

(***************************************************************************)
(* FaithfulStepRecords: every record save_results writes lists exactly    *)
(* the steps run_scenario executed -- in order, each with its commands'   *)
(* output up to the first failing command, and none after a failed        *)
(* critical step (lines 130-162) -- for every value of the constants.     *)
(***************************************************************************)
THEOREM FaithfulStepRecords == Spec => []StepResultsFaithful
BY ReportInvariant, PTL DEF ReportInv, RecordInv

(***************************************************************************)
(* FaithfulSuccessFlag: a saved record says success exactly when each of  *)
(* its steps and criteria succeeded: results['success'] is lowered at     *)
(* line 150 on every failed command and at line 185 on a failed criterion *)
(* and never otherwise -- for every value of the constants.               *)
(***************************************************************************)
THEOREM FaithfulSuccessFlag == Spec => []ReportSuccessFaithful
BY ReportInvariant, PTL DEF ReportInv, RecordInv

-----------------------------------------------------------------------------
(***************************************************************************)
(* The exit status.                                                        *)
(***************************************************************************)

\* File k of this invocation got a successful record ...
OkReport(k) ==
    \E rep \in reports : rep.run = run /\ rep.idx = k /\ rep.result.success

\* ... and its namespace delete returned normally.
Done(k) == OkReport(k) /\ <<run, k>> \in cleaned

\* The phases before a file's record is saved.
Unsaved == {"load", "create", "apply", "cmd", "criteria", "save"}

(***************************************************************************)
(* ExitInv: records and cleanups of this invocation belong to the files  *)
(* before idx, or to idx itself once main got past save (for a record) or *)
(* past cleanup (for a delete); and main's 'success' is the conjunction   *)
(* of Done over the files handled so far -- lowered by the handler, by a  *)
(* failed record at line 240, and never raised again.                     *)
(***************************************************************************)
ExitInv ==
    /\ \A e \in cleaned :
         \/ e[1] < run
         \/ e[1] = run /\ e[2] < idx
         \/ e[1] = run /\ e[2] = idx /\ pc \in {"next", "exited", "killed"}
    /\ \A rep \in reports :
         \/ rep.run < run
         \/ rep.run = run /\ rep.idx < idx
         \/ /\ rep.run = run /\ rep.idx = idx
            /\ pc \in {"cleanup", "next", "exited", "killed"}
    /\ pc = "start" => idx = 0
    /\ pc \in Unsaved => (success <=> \A k \in 1..idx - 1 : Done(k))
    /\ pc = "cleanup" =>
         (success <=> (\A k \in 1..idx - 1 : Done(k)) /\ OkReport(idx))
    /\ pc = "next" => (success <=> \A k \in 1..idx : Done(k))
    /\ ExitStatusFaithful

\* The bookkeeping of ExitInv, where run, idx, reports and cleaned are typed.
LEMMA ExitTyping ==
    ASSUME TypeInv
    PROVE  /\ run \in Nat /\ idx \in Nat
           /\ \A e \in cleaned : e[1] \in Nat /\ e[2] \in Nat \ {0}
           /\ \A rep \in reports : rep.run \in Nat /\ rep.idx \in Nat \ {0}
BY DEF TypeInv, TypeOK, Runs, Execution, Report

\* A failing call: the handler lowers 'success' and goes to the next file,
\* before this file's namespace delete returned.
LEMMA RaiseExitInv ==
    ASSUME TypeInv, ExitInv, pc \in Unsaved \cup {"cleanup"},
           pc' = "next", success' = FALSE,
           UNCHANGED <<run, idx, files, reports, cleaned>>
    PROVE  ExitInv'
<1>1. idx \in 1..Len(files)
  BY DEF TypeInv, IdxInRange, Unsaved
<1>2. <<run, idx>> \notin cleaned
  BY ExitTyping DEF ExitInv, Unsaved
<1>3. ~Done(idx)'
  BY <1>2 DEF Done
<1>. QED
  BY <1>1, <1>3, ExitTyping DEF ExitInv, Unsaved, ExitStatusFaithful

\* A step within one file's setup and run that changes none of main's state.
LEMMA QuietExitInv ==
    ASSUME ExitInv, pc \in Unsaved, pc' \in Unsaved,
           UNCHANGED <<run, idx, files, success, reports, cleaned>>
    PROVE  ExitInv'
BY DEF ExitInv, Unsaved, Done, OkReport, ExitStatusFaithful

LEMMA StartExitInv == TypeInv /\ ExitInv /\ Start => ExitInv'
<1> SUFFICES ASSUME TypeInv, ExitInv, Start PROVE ExitInv'
  OBVIOUS
<1>1. /\ pc = "start" /\ idx = 0 /\ idx' = 1 /\ success'
      /\ UNCHANGED <<run, reports, cleaned>>
      /\ \/ Len(files') = 0 /\ pc' = "exited" /\ exitCode' = 1
         \/ pc' = "load"
  BY DEF Start, ExitInv
<1>2. /\ \A e \in cleaned : e[1] < run
      /\ \A rep \in reports : rep.run < run
  BY <1>1, ExitTyping DEF ExitInv
<1>. QED
  BY <1>1, <1>2 DEF ExitInv, Unsaved, ExitStatusFaithful

LEMMA SaveExitInv == TypeInv /\ ExitInv /\ SaveResults => ExitInv'
<1> SUFFICES ASSUME TypeInv, ExitInv, SaveResults PROVE ExitInv'
  OBVIOUS
<1> DEFINE rep == [run |-> run, idx |-> idx, file |-> File, result |-> results]
<1>1. CASE Raise /\ UNCHANGED <<reports, disk>>
  BY <1>1, RaiseExitInv DEF SaveResults, Raise, Unsaved
<1>2. CASE /\ reports' = reports \cup {rep}
           /\ success' = (success /\ results.success)
           /\ pc' = "cleanup"
  <2>a. /\ pc = "save" /\ UNCHANGED <<run, idx, files, cleaned>>
        /\ results.success \in BOOLEAN
    BY DEF SaveResults, TypeInv, TypeOK, Result
  <2>1. \A r \in reports : ~(r.run = run /\ r.idx = idx)
    BY <2>a, ExitTyping DEF ExitInv
  <2>2. OkReport(idx)' <=> results.success
    <3>1. /\ rep \in reports'
          /\ rep.run = run /\ rep.idx = idx /\ rep.result = results
      BY <1>2
    <3>2. \A r \in reports' : r \in reports \/ r = rep
      BY <1>2
    <3>. QED
      BY <2>1, <2>a, <3>1, <3>2 DEF OkReport
  <2>3. \A k \in 1..idx - 1 : Done(k)' <=> Done(k)
    BY <1>2, <2>a, ExitTyping DEF Done, OkReport
  <2>4. success <=> \A k \in 1..idx - 1 : Done(k)
    BY <2>a DEF ExitInv, Unsaved
  <2>5. \A e \in cleaned : e[1] < run \/ (e[1] = run /\ e[2] < idx)
    BY <2>a, ExitTyping DEF ExitInv
  <2>6. \A r \in reports' :
          \/ r.run < run
          \/ r.run = run /\ r.idx < idx
          \/ r.run = run /\ r.idx = idx
    BY <1>2, ExitTyping DEF ExitInv
  <2>7. success' <=> (\A k \in 1..idx - 1 : Done(k)') /\ OkReport(idx)'
    BY <1>2, <2>2, <2>3, <2>4
  <2>. QED
    BY <1>2, <2>a, <2>5, <2>6, <2>7 DEF ExitInv, Unsaved, ExitStatusFaithful
<1>. QED
  BY <1>1, <1>2 DEF SaveResults

LEMMA CleanupExitInv == TypeInv /\ ExitInv /\ CleanupScenario => ExitInv'
<1> SUFFICES ASSUME TypeInv, ExitInv, CleanupScenario PROVE ExitInv'
  OBVIOUS
<1>a. /\ pc = "cleanup" /\ UNCHANGED <<run, idx, files, reports>>
  BY DEF CleanupScenario
<1>1. CASE /\ cleaned' = cleaned \cup {<<run, idx>>}
           /\ pc' = "next"
           /\ UNCHANGED success
  <2>1. \A k \in 1..idx : Done(k)' <=>
                           OkReport(k) /\ <<run, k>> \in cleaned \cup {<<run, idx>>}
    BY <1>1, <1>a DEF Done, OkReport
  <2>2. /\ idx \in Nat /\ idx >= 1
        /\ \A k \in 1..idx : k = idx \/ k \in 1..idx - 1
        /\ \A k \in 1..idx - 1 : k \in 1..idx /\ <<run, k>> # <<run, idx>>
        /\ idx \in 1..idx
    BY <1>a DEF TypeInv, IdxInRange
  <2>3. success' <=> \A k \in 1..idx : Done(k)'
    <3>1. success <=> (\A k \in 1..idx - 1 : Done(k)) /\ OkReport(idx)
      BY <1>a DEF ExitInv
    <3>2. (\A k \in 1..idx : Done(k)') <=>
            \A k \in 1..idx : OkReport(k) /\ <<run, k>> \in cleaned \cup {<<run, idx>>}
      BY <2>1, Zenon
    <3>3. (\A k \in 1..idx : OkReport(k) /\ <<run, k>> \in cleaned \cup {<<run, idx>>})
          <=> (\A k \in 1..idx - 1 : Done(k)) /\ OkReport(idx)
      BY <2>2, Zenon DEF Done
    <3>. QED
      BY <1>1, <3>1, <3>2, <3>3
  <2>. QED
    BY <1>1, <1>a, <2>3 DEF ExitInv, Unsaved, ExitStatusFaithful
<1>2. CASE Raise /\ UNCHANGED cleaned
  BY <1>a, <1>2, RaiseExitInv DEF Raise
<1>. QED
  BY <1>1, <1>2 DEF CleanupScenario

LEMMA NextScenarioExitInv == TypeInv /\ ExitInv /\ NextScenario => ExitInv'
<1> SUFFICES ASSUME TypeInv, ExitInv, NextScenario PROVE ExitInv'
  OBVIOUS
<1>1. /\ pc = "next" /\ pc' = "load" /\ idx' = idx + 1
      /\ UNCHANGED <<run, success, reports, cleaned>>
  BY DEF NextScenario
<1>2. \A k \in 1..idx : Done(k)' <=> Done(k)
  BY <1>1 DEF Done, OkReport
<1>. QED
  BY <1>1, <1>2, ExitTyping DEF ExitInv, Unsaved, ExitStatusFaithful

LEMMA ExitExitInv == TypeInv /\ ExitInv /\ Exit => ExitInv'
<1> SUFFICES ASSUME TypeInv, ExitInv, Exit PROVE ExitInv'
  OBVIOUS
<1>1. /\ pc = "next" /\ pc' = "exited" /\ idx = Len(files)
      /\ exitCode' = IF success THEN 0 ELSE 1
      /\ UNCHANGED <<run, idx, files, success, reports, cleaned>>
  BY DEF Exit
<1>2. idx \in 1..Len(files)
  BY <1>1 DEF TypeInv, IdxInRange
<1>3. success <=> \A k \in 1..idx : Done(k)
  BY <1>1 DEF ExitInv
<1>4. ExitStatusFaithful'
  BY <1>1, <1>2, <1>3 DEF ExitStatusFaithful, Done, OkReport
<1>. QED
  BY <1>1, <1>4 DEF ExitInv, Unsaved

LEMMA KillExitInv == TypeInv /\ ExitInv /\ Kill => ExitInv'
<1> SUFFICES ASSUME TypeInv, ExitInv, Kill PROVE ExitInv'
  OBVIOUS
<1>1. /\ pc' = "killed"
      /\ UNCHANGED <<run, idx, files, success, exitCode, reports, cleaned>>
  BY DEF Kill
<1>. QED
  BY <1>1 DEF ExitInv, Unsaved, ExitStatusFaithful

\* A new invocation: every record and cleanup so far is of an earlier run.
LEMMA InvokeExitInv == TypeInv /\ ExitInv /\ Invoke => ExitInv'
<1> SUFFICES ASSUME TypeInv, ExitInv, Invoke PROVE ExitInv'
  OBVIOUS
<1>1. /\ pc' = "start" /\ idx' = 0 /\ run' = run + 1
      /\ UNCHANGED <<reports, cleaned>>
  BY DEF Invoke
<1>2. /\ \A e \in cleaned : e[1] <= run
      /\ \A rep \in reports : rep.run <= run
  BY ExitTyping DEF ExitInv
<1>3. /\ \A e \in cleaned : e[1] < run'
      /\ \A rep \in reports : rep.run < run'
  BY <1>1, <1>2, ExitTyping
<1>. QED
  BY <1>1, <1>3 DEF ExitInv, Unsaved, ExitStatusFaithful

\* The clock, the cluster and stuttering leave main's state alone.
LEMMA UntouchedExitInv ==
    ASSUME ExitInv,
           UNCHANGED <<pc, run, idx, files, success, exitCode, reports, cleaned>>
    PROVE  ExitInv'
BY DEF ExitInv, Unsaved, Done, OkReport, ExitStatusFaithful

LEMMA NextExitInv == TypeInv /\ ExitInv /\ [Next]_vars => ExitInv'
<1> SUFFICES ASSUME TypeInv, ExitInv, [Next]_vars PROVE ExitInv'
  OBVIOUS
<1>1. CASE Start
  BY <1>1, StartExitInv
<1>2. CASE Load
  <2>1. CASE File \in Malformed
    BY <1>2, <2>1, RaiseExitInv DEF Load, Raise, Unsaved
  <2>2. CASE File \notin Malformed
    BY <1>2, <2>2, QuietExitInv DEF Load, Unsaved
  <2>. QED
    BY <2>1, <2>2
<1>3. CASE CreateNamespace
  BY <1>3, RaiseExitInv, QuietExitInv DEF CreateNamespace, Raise, Unsaved
<1>4. CASE ApplyManifest
  BY <1>4, RaiseExitInv, QuietExitInv DEF ApplyManifest, Raise, Unsaved
<1>5. CASE StartRun
  BY <1>5, QuietExitInv DEF StartRun, Unsaved
<1>6. CASE RunCommand
  BY <1>6, QuietExitInv DEF RunCommand, Unsaved
<1>7. CASE EndStep
  BY <1>7, QuietExitInv DEF EndStep, Unsaved
<1>8. CASE EvaluateCriteria
  BY <1>8, QuietExitInv DEF EvaluateCriteria, Unsaved
<1>9. CASE SaveResults
  BY <1>9, SaveExitInv
<1>10. CASE CleanupScenario
  BY <1>10, CleanupExitInv
<1>11. CASE NextScenario
  BY <1>11, NextScenarioExitInv
<1>12. CASE Exit
  BY <1>12, ExitExitInv
<1>13. CASE Kill
  BY <1>13, KillExitInv
<1>14. CASE Invoke
  BY <1>14, InvokeExitInv
<1>15. CASE Tick
  BY <1>15, UntouchedExitInv DEF Tick
<1>16. CASE \E n \in Namespaces : NamespaceGone(n)
  BY <1>16, UntouchedExitInv DEF NamespaceGone
<1>17. CASE UNCHANGED vars
  BY <1>17, UntouchedExitInv DEF vars
<1>. QED
  BY <1>1, <1>2, <1>3, <1>4, <1>5, <1>6, <1>7, <1>8, <1>9, <1>10, <1>11,
     <1>12, <1>13, <1>14, <1>15, <1>16, <1>17 DEF Next

(***************************************************************************)
(* FaithfulExitStatus: whenever an invocation has exited, its status is 0 *)
(* exactly when it resolved at least one file and every file got a       *)
(* successful record of this invocation and a normally returning         *)
(* namespace delete -- main's 'success' (lines 223-251) is lowered by the *)
(* handler and by a failed record and never raised again, for every value *)
(* of the constants, across kills and repeated invocations.               *)
(***************************************************************************)
THEOREM FaithfulExitStatus == Spec => []ExitStatusFaithful
<1>1. Init => TypeInv /\ ExitInv
  <2>1. Init => ExitInv
    BY DEF Init, ExitInv, Unsaved, ExitStatusFaithful
  <2>. QED
    BY <2>1, InitTypeInv
<1>2. TypeInv /\ ExitInv /\ [Next]_vars => TypeInv' /\ ExitInv'
  BY NextTypeInv, NextExitInv
<1>3. ExitInv => ExitStatusFaithful
  BY DEF ExitInv
<1>. QED
  BY <1>1, <1>2, <1>3, PTL DEF Spec

=============================================================================
