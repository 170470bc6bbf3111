------------------------ MODULE ScenarioRunnerProofs ------------------------
(***************************************************************************)
(* Proofs about ScenarioRunner for every value of its constants: the type *)
(* invariant, and OwnNamespace (a scenario only ever works in the          *)
(* namespace its own execution created).                                   *)
(*                                                                         *)
(* Each action gets a lemma of its own: one step per variable the action  *)
(* assigns, one step for the variables it leaves alone, and the QED that  *)
(* puts them together.  Larger steps overwhelm the provers.               *)
(***************************************************************************)
EXTENDS ScenarioRunner, TLAPS

\* The type invariant together with the range of idx: neither is inductive
\* alone, since the file being executed is files[idx].
TypeInv == TypeOK /\ IdxInRange

\* The phases in which a scenario of 'files' is being executed.
Busy == {"load", "create", "apply", "cmd", "criteria", "save", "cleanup",
         "next"}

USE MaxRunsAssumption

LEMMA InitTypeInv == Init => TypeInv
BY MaxTimeAssumption
   DEF Init, TypeInv, TypeOK, IdxInRange, Phases, Runs, Execution, NoOwner,
       InitResults, Result, Report

\* While a scenario is executed, its file and namespace are well typed.
LEMMA CurrentFile ==
    ASSUME TypeInv, pc \in Busy
    PROVE  /\ idx \in 1..Len(files)
           /\ File \in Scenarios
           /\ Ns \in Namespaces
           /\ <<run, idx>> \in Execution
<1>1. idx \in 1..Len(files)
  BY DEF TypeInv, IdxInRange, Busy
<1>2. File \in Scenarios
  BY <1>1 DEF TypeInv, TypeOK, File
<1>. QED
  BY <1>1, <1>2, NsOfAssumption DEF Ns, Execution, TypeInv, TypeOK

LEMMA StartTypeInv == TypeInv /\ Start => TypeInv'
<1> SUFFICES ASSUME TypeInv, Start PROVE TypeInv'
  OBVIOUS
<1>1. PICK fs \in Resolutions :
        /\ files' = fs
        /\ IF Len(fs) = 0 THEN pc' = "exited" /\ exitCode' = 1
                          ELSE pc' = "load" /\ UNCHANGED exitCode
  BY DEF Start
<1>2. files' \in Seq(Scenarios)
  BY <1>1, ResolutionsAssumption
<1>3. pc' \in Phases /\ exitCode' \in {0, 1}
  BY <1>1 DEF TypeInv, TypeOK, Phases
<1>4. idx' \in Nat /\ success' \in BOOLEAN
  BY DEF Start
<1>5. IdxInRange'
  BY <1>1, <1>2 DEF Start, IdxInRange
<1>6. UNCHANGED <<now, disk, run, nsState, owner, reports, cleaned, applied,
                  step, cmd, stepSuccess, stepOutput, results>>
  BY DEF Start, ScratchVars
<1>. QED
  BY <1>2, <1>3, <1>4, <1>5, <1>6 DEF TypeInv, TypeOK

LEMMA LoadTypeInv == TypeInv /\ Load => TypeInv'
<1> SUFFICES ASSUME TypeInv, Load PROVE TypeInv'
  OBVIOUS
<1>1. pc' \in {"next", "create"} /\ success' \in BOOLEAN
  BY DEF Load, Raise, TypeInv, TypeOK
<1>2. UNCHANGED <<now, disk, run, files, idx, exitCode, nsState, owner,
                  reports, cleaned, applied, step, cmd, stepSuccess,
                  stepOutput, results>>
  BY DEF Load, ScratchVars
<1>3. idx \in 1..Len(files)
  BY DEF Load, TypeInv, IdxInRange
<1>. QED
  BY <1>1, <1>2, <1>3 DEF TypeInv, TypeOK, IdxInRange, Phases

LEMMA CreateTypeInv == TypeInv /\ CreateNamespace => TypeInv'
<1> SUFFICES ASSUME TypeInv, CreateNamespace PROVE TypeInv'
  OBVIOUS
<1>1. /\ idx \in 1..Len(files)
      /\ Ns \in Namespaces
      /\ <<run, idx>> \in Execution
  BY CurrentFile DEF CreateNamespace, Busy
<1>2. nsState' \in [Namespaces -> {"absent", "active", "terminating"}]
  BY <1>1 DEF CreateNamespace, TypeInv, TypeOK
<1>3. owner' \in [Namespaces -> Execution \cup {NoOwner}]
  BY <1>1 DEF CreateNamespace, TypeInv, TypeOK
<1>4. applied' \in Nat
  BY DEF CreateNamespace, TypeInv, TypeOK
<1>5. pc' \in {"apply", "next"} /\ success' \in BOOLEAN
  BY DEF CreateNamespace, Raise, TypeInv, TypeOK
<1>6. UNCHANGED <<now, disk, run, files, idx, exitCode, reports, cleaned,
                  step, cmd, stepSuccess, stepOutput, results>>
  BY DEF CreateNamespace
<1>. QED
  BY <1>1, <1>2, <1>3, <1>4, <1>5, <1>6
  DEF TypeInv, TypeOK, IdxInRange, Phases

LEMMA ApplyTypeInv == TypeInv /\ ApplyManifest => TypeInv'
<1> SUFFICES ASSUME TypeInv, ApplyManifest PROVE TypeInv'
  OBVIOUS
<1>1. applied' \in Nat
  BY DEF ApplyManifest, Raise, TypeInv, TypeOK
<1>2. pc' \in {"apply", "next"} /\ success' \in BOOLEAN
  BY DEF ApplyManifest, Raise, TypeInv, TypeOK
<1>3. UNCHANGED <<now, disk, run, files, idx, exitCode, nsState, owner,
                  reports, cleaned, step, cmd, stepSuccess, stepOutput,
                  results>>
  BY DEF ApplyManifest
<1>4. idx \in 1..Len(files)
  BY DEF ApplyManifest, TypeInv, IdxInRange
<1>. QED
  BY <1>1, <1>2, <1>3, <1>4 DEF TypeInv, TypeOK, IdxInRange, Phases

LEMMA StartRunTypeInv == TypeInv /\ StartRun => TypeInv'
<1> SUFFICES ASSUME TypeInv, StartRun PROVE TypeInv'
  OBVIOUS
<1>1. results' \in Result
  BY DEF StartRun, InitResults, Result
<1>2. /\ step' \in Nat /\ cmd' \in Nat
      /\ stepSuccess' \in BOOLEAN /\ stepOutput' \in Seq(Chunk)
  BY DEF StartRun
<1>3. pc' \in {"criteria", "cmd"}
  BY DEF StartRun
<1>4. UNCHANGED <<now, disk, run, files, idx, success, exitCode, nsState,
                  owner, applied, reports, cleaned>>
  BY DEF StartRun
<1>5. idx \in 1..Len(files)
  BY DEF StartRun, TypeInv, IdxInRange
<1>. QED
  BY <1>1, <1>2, <1>3, <1>4, <1>5 DEF TypeInv, TypeOK, IdxInRange, Phases

LEMMA RunCommandTypeInv == TypeInv /\ RunCommand => TypeInv'
<1> SUFFICES ASSUME TypeInv, RunCommand PROVE TypeInv'
  OBVIOUS
<1>0. \/ /\ stepOutput' = Append(stepOutput, "out")
         /\ cmd' = cmd + 1
         /\ UNCHANGED <<stepSuccess, results>>
      \/ /\ stepOutput' = Append(stepOutput, "error")
         /\ stepSuccess' = FALSE
         /\ results' = [results EXCEPT !.success = FALSE]
         /\ UNCHANGED cmd
  BY DEF RunCommand
<1>a. /\ stepOutput \in Seq(Chunk)
      /\ cmd \in Nat
      /\ stepSuccess \in BOOLEAN
      /\ results \in Result
  BY DEF TypeInv, TypeOK
<1>1. stepOutput' \in Seq(Chunk)
  <2>1. "out" \in Chunk /\ "error" \in Chunk
    BY DEF Chunk
  <2>2. \A c \in Chunk : Append(stepOutput, c) \in Seq(Chunk)
    BY <1>a
  <2>3. stepOutput' = Append(stepOutput, "out")
        \/ stepOutput' = Append(stepOutput, "error")
    BY <1>0, Zenon
  <2>. QED
    BY <2>1, <2>2, <2>3, Zenon
<1>2. cmd' \in Nat /\ stepSuccess' \in BOOLEAN
  <2>1. cmd + 1 \in Nat
    BY <1>a
  <2>. QED
    BY <2>1, <1>0, <1>a, Zenon
<1>3. results' \in Result
  BY <1>0, <1>a DEF Result
<1>4. UNCHANGED <<now, disk, pc, run, files, idx, success, exitCode, nsState,
                  owner, applied, step, reports, cleaned>>
  BY DEF RunCommand
<1>. QED
  BY <1>1, <1>2, <1>3, <1>4 DEF TypeInv, TypeOK, IdxInRange

LEMMA EndStepTypeInv == TypeInv /\ EndStep => TypeInv'
<1> SUFFICES ASSUME TypeInv, EndStep PROVE TypeInv'
  OBVIOUS
<1> DEFINE rec == [success |-> stepSuccess, output |-> stepOutput]
<1>a. results \in Result
  BY DEF TypeInv, TypeOK
<1>1. rec \in StepResult
  BY DEF TypeInv, TypeOK, StepResult
<1>b. Append(results.steps, rec) \in Seq(StepResult)
  BY <1>a, <1>1 DEF Result
<1>c. results' = [results EXCEPT !.steps = Append(results.steps, rec)]
  BY DEF EndStep
<1>2. results' \in Result
  BY <1>a, <1>b, <1>c DEF Result
<1>3. /\ step' \in Nat /\ cmd' \in Nat
      /\ stepSuccess' \in BOOLEAN /\ stepOutput' \in Seq(Chunk)
  BY DEF EndStep, TypeInv, TypeOK
<1>4. pc' \in {"criteria", "cmd"}
  BY DEF EndStep
<1>5. UNCHANGED <<now, disk, run, files, idx, success, exitCode, nsState,
                  owner, applied, reports, cleaned>>
  BY DEF EndStep
<1>6. idx \in 1..Len(files)
  BY DEF EndStep, TypeInv, IdxInRange
<1>. QED
  BY <1>2, <1>3, <1>4, <1>5, <1>6 DEF TypeInv, TypeOK, IdxInRange, Phases

LEMMA CriteriaTypeInv == TypeInv /\ EvaluateCriteria => TypeInv'
<1> SUFFICES ASSUME TypeInv, EvaluateCriteria PROVE TypeInv'
  OBVIOUS
<1>1. File \in Scenarios
  BY CurrentFile DEF EvaluateCriteria, Busy
<1>2. Criteria[File] \in Seq(Nat)
  BY <1>1, CriteriaAssumption
<1> DEFINE cs == Criteria[File]
          rs == [k \in 1..Len(cs) |->
                   [threshold |-> cs[k], actual |-> 0, success |-> TRUE]]
<1>a. results \in Result
  BY DEF TypeInv, TypeOK
<1>b. rs \in Seq(CriterionResult)
  BY <1>2 DEF CriterionResult
<1>c. results' = [results EXCEPT !.criteria = rs,
                    !.success = @ /\ \A k \in 1..Len(cs) : rs[k].success]
  BY DEF EvaluateCriteria
<1>3. results' \in Result
  BY <1>a, <1>b, <1>c DEF Result
<1>4. UNCHANGED <<now, disk, run, files, idx, success, exitCode, nsState,
                  owner, applied, step, cmd, stepSuccess, stepOutput, reports,
                  cleaned>>
  BY DEF EvaluateCriteria
<1>5. pc' = "save" /\ idx \in 1..Len(files)
  BY DEF EvaluateCriteria, TypeInv, IdxInRange
<1>. QED
  BY <1>3, <1>4, <1>5 DEF TypeInv, TypeOK, IdxInRange, Phases

LEMMA SaveTypeInv == TypeInv /\ SaveResults => TypeInv'
<1> SUFFICES ASSUME TypeInv, SaveResults PROVE TypeInv'
  OBVIOUS
<1>1. /\ idx \in 1..Len(files)
      /\ File \in Scenarios
  BY CurrentFile DEF SaveResults, Busy
<1> DEFINE rep == [run |-> run, idx |-> idx, file |-> File, result |-> results]
<1>2. rep \in Report
  BY <1>1 DEF TypeInv, TypeOK, Report
<1>3. reports' \subseteq Report
  BY <1>2 DEF SaveResults, TypeInv, TypeOK
<1>a. <<IdOf[File], now>> \in ReportNames
  BY <1>1, IdOfAssumption DEF TypeInv, TypeOK, ReportNames
<1>b. disk' \in [ReportNames -> SUBSET Report]
  BY <1>2, <1>a DEF SaveResults, Raise, TypeInv, TypeOK
<1>4. pc' \in {"cleanup", "next"} /\ success' \in BOOLEAN
  BY DEF SaveResults, Raise, TypeInv, TypeOK
<1>5. UNCHANGED <<now, run, files, idx, exitCode, nsState, owner, cleaned,
                  applied, step, cmd, stepSuccess, stepOutput, results>>
  BY DEF SaveResults, ScratchVars
<1>. QED
  BY <1>1, <1>3, <1>b, <1>4, <1>5 DEF TypeInv, TypeOK, IdxInRange, Phases

LEMMA CleanupTypeInv == TypeInv /\ CleanupScenario => TypeInv'
<1> SUFFICES ASSUME TypeInv, CleanupScenario PROVE TypeInv'
  OBVIOUS
<1>1. /\ idx \in 1..Len(files)
      /\ Ns \in Namespaces
      /\ <<run, idx>> \in Execution
  BY CurrentFile DEF CleanupScenario, Busy
<1>2. nsState' \in [Namespaces -> {"absent", "active", "terminating"}]
  BY <1>1 DEF CleanupScenario, Raise, TypeInv, TypeOK
<1>3. owner' \in [Namespaces -> Execution \cup {NoOwner}]
  BY <1>1 DEF CleanupScenario, Raise, TypeInv, TypeOK
<1>4. cleaned' \subseteq Execution
  BY <1>1 DEF CleanupScenario, Raise, TypeInv, TypeOK
<1>5. pc' = "next" /\ success' \in BOOLEAN
  BY DEF CleanupScenario, Raise, TypeInv, TypeOK
<1>6. UNCHANGED <<now, disk, run, files, idx, exitCode, reports, applied,
                  step, cmd, stepSuccess, stepOutput, results>>
  BY DEF CleanupScenario, ScratchVars
<1>. QED
  BY <1>1, <1>2, <1>3, <1>4, <1>5, <1>6
  DEF TypeInv, TypeOK, IdxInRange, Phases

LEMMA NextScenarioTypeInv == TypeInv /\ NextScenario => TypeInv'
<1> SUFFICES ASSUME TypeInv, NextScenario PROVE TypeInv'
  OBVIOUS
<1>1. idx' \in 1..Len(files')
  BY DEF NextScenario, TypeInv, IdxInRange
<1>2. UNCHANGED <<now, disk, run, files, success, exitCode, nsState, owner,
                  reports, cleaned, applied, step, cmd, stepSuccess,
                  stepOutput, results>>
  BY DEF NextScenario, ScratchVars
<1>. QED
  BY <1>1, <1>2 DEF NextScenario, TypeInv, TypeOK, IdxInRange, Phases

LEMMA ExitTypeInv == TypeInv /\ Exit => TypeInv'
<1> SUFFICES ASSUME TypeInv, Exit PROVE TypeInv'
  OBVIOUS
<1>1. pc' = "exited" /\ exitCode' \in {0, 1}
  BY DEF Exit
<1>2. UNCHANGED <<now, disk, run, files, idx, success, nsState, owner,
                  reports, cleaned, applied, step, cmd, stepSuccess,
                  stepOutput, results>>
  BY DEF Exit, ScratchVars
<1>. QED
  BY <1>1, <1>2 DEF TypeInv, TypeOK, IdxInRange, Phases

LEMMA KillTypeInv == TypeInv /\ Kill => TypeInv'
<1> SUFFICES ASSUME TypeInv, Kill PROVE TypeInv'
  OBVIOUS
<1>1. pc' = "killed"
  BY DEF Kill
<1>2. UNCHANGED <<now, disk, run, files, idx, success, exitCode, nsState,
                  owner, reports, cleaned, applied, step, cmd, stepSuccess,
                  stepOutput, results>>
  BY DEF Kill, ScratchVars
<1>. QED
  BY <1>1, <1>2 DEF TypeInv, TypeOK, IdxInRange, Phases

LEMMA InvokeTypeInv == TypeInv /\ Invoke => TypeInv'
<1> SUFFICES ASSUME TypeInv, Invoke PROVE TypeInv'
  OBVIOUS
<1>1. run' \in Runs
  BY DEF Invoke, TypeInv, TypeOK, Runs
<1>2. pc' = "start" /\ idx' = 0 /\ exitCode' = 0
  BY DEF Invoke
<1>3. UNCHANGED <<now, disk, files, success, nsState, owner, reports, cleaned,
                  applied, step, cmd, stepSuccess, stepOutput, results>>
  BY DEF Invoke, ScratchVars
<1>4. owner \in [Namespaces -> Execution \cup {NoOwner}]
      /\ reports \subseteq Report /\ cleaned \subseteq Execution
  BY DEF TypeInv, TypeOK
<1>. QED
  BY <1>1, <1>2, <1>3, <1>4 DEF TypeInv, TypeOK, IdxInRange, Phases

LEMMA GoneTypeInv ==
    ASSUME TypeInv, NEW n \in Namespaces, NamespaceGone(n) PROVE TypeInv'
<1>1. nsState' \in [Namespaces -> {"absent", "active", "terminating"}]
  BY DEF NamespaceGone, TypeInv, TypeOK
<1>2. owner' \in [Namespaces -> Execution \cup {NoOwner}]
  BY DEF NamespaceGone, TypeInv, TypeOK
<1>3. UNCHANGED <<now, disk, pc, run, files, idx, success, exitCode, reports,
                  cleaned, applied, step, cmd, stepSuccess, stepOutput,
                  results>>
  BY DEF NamespaceGone, ScratchVars
<1>. QED
  BY <1>1, <1>2, <1>3 DEF TypeInv, TypeOK, IdxInRange

LEMMA TickTypeInv == TypeInv /\ Tick => TypeInv'
<1> SUFFICES ASSUME TypeInv, Tick PROVE TypeInv'
  OBVIOUS
<1>1. now' \in 0..MaxTime
  BY MaxTimeAssumption DEF Tick, TypeInv, TypeOK
<1>2. UNCHANGED <<pc, run, files, idx, success, exitCode, nsState, owner,
                  reports, cleaned, disk, applied, step, cmd, stepSuccess,
                  stepOutput, results>>
  BY DEF Tick, ScratchVars
<1>. QED
  BY <1>1, <1>2 DEF TypeInv, TypeOK, IdxInRange

LEMMA StutterTypeInv == TypeInv /\ UNCHANGED vars => TypeInv'
BY DEF TypeInv, TypeOK, IdxInRange, vars

LEMMA NextTypeInv == TypeInv /\ [Next]_vars => TypeInv'
BY InitTypeInv, StartTypeInv, LoadTypeInv, CreateTypeInv, ApplyTypeInv,
   StartRunTypeInv, RunCommandTypeInv, EndStepTypeInv, CriteriaTypeInv,
   SaveTypeInv, CleanupTypeInv, NextScenarioTypeInv, ExitTypeInv,
   KillTypeInv, InvokeTypeInv, TickTypeInv, GoneTypeInv, StutterTypeInv
   DEF Next

(***************************************************************************)
(* TypeCorrect: every reachable state of the driver is well typed, for    *)
(* every scenario catalogue, every definition and every bound on the     *)
(* invocations (the TypeOK the model-checking runs check).                *)
(***************************************************************************)
THEOREM TypeCorrect == Spec => []TypeOK
<1>1. Init => TypeInv
  BY InitTypeInv
<1>2. TypeInv /\ [Next]_vars => TypeInv'
  BY NextTypeInv
<1>3. TypeInv => TypeOK
  BY DEF TypeInv
<1>. QED
  BY <1>1, <1>2, <1>3, PTL DEF Spec

(***************************************************************************)
(* IndexInRange: main's loop index stays within scenario_files whenever a *)
(* scenario is being executed, for every catalog and every cluster.       *)
(***************************************************************************)
THEOREM IndexInRange == Spec => []IdxInRange
<1>1. Init => TypeInv
  BY InitTypeInv
<1>2. TypeInv /\ [Next]_vars => TypeInv'
  BY NextTypeInv
<1>3. TypeInv => IdxInRange
  BY DEF TypeInv
<1>. QED
  BY <1>1, <1>2, <1>3, PTL DEF Spec

-----------------------------------------------------------------------------
(***************************************************************************)
(* OwnNamespace.  It is inductive on top of the type invariant: the only  *)
(* step that enters the phases it speaks of is a successful create, which *)
(* makes the namespace active and owned by the current execution; every   *)
(* later step up to cleanup leaves the cluster alone, and the cluster     *)
(* only removes namespaces that are Terminating, never an active one.     *)
(***************************************************************************)
OwnPhases == {"apply", "cmd", "criteria", "save", "cleanup"}

OwnInv == TypeInv /\ OwnNamespace

\* Steps that leave the phases of OwnNamespace satisfy it vacuously.
LEMMA LeavingOwn ==
    ASSUME [Next]_vars, pc' \notin OwnPhases
    PROVE  OwnNamespace'
BY DEF OwnNamespace, OwnPhases

\* Steps that keep the cluster, the invocation and the scenario preserve it.
LEMMA KeepingOwn ==
    ASSUME OwnNamespace, pc \in OwnPhases,
           UNCHANGED <<run, files, idx, nsState, owner>>
    PROVE  OwnNamespace'
BY DEF OwnNamespace, OwnPhases, Ns, File

LEMMA NextOwn == OwnInv /\ [Next]_vars => OwnNamespace'
<1> SUFFICES ASSUME OwnInv, [Next]_vars PROVE OwnNamespace'
  OBVIOUS
<1>1. CASE Start \/ Load \/ CleanupScenario \/ NextScenario \/ Exit \/ Kill
           \/ Invoke
  <2>1. pc' \notin OwnPhases
    BY <1>1 DEF Start, Load, CleanupScenario, NextScenario, Exit, Kill,
                Invoke, Raise, OwnPhases
  <2>. QED
    BY <2>1, LeavingOwn
<1>2. CASE CreateNamespace
  <2>1. CASE nsState[Ns] = "absent" /\ pc' = "apply"
    <3>a. Ns \in Namespaces
      BY <1>2, CurrentFile DEF CreateNamespace, OwnInv, Busy
    <3>b. /\ nsState' = [nsState EXCEPT ![Ns] = "active"]
          /\ owner' = [owner EXCEPT ![Ns] = <<run, idx>>]
          /\ UNCHANGED <<run, files, idx>>
      BY <1>2, <2>1 DEF CreateNamespace, Raise
    <3>c. nsState \in [Namespaces -> {"absent", "active", "terminating"}]
          /\ owner \in [Namespaces -> Execution \cup {NoOwner}]
      BY DEF OwnInv, TypeInv, TypeOK
    <3>. QED
      BY <3>a, <3>b, <3>c DEF OwnNamespace, Ns, File
  <2>2. CASE ~(nsState[Ns] = "absent" /\ pc' = "apply")
    <3>1. pc' = "next"
      BY <1>2, <2>2 DEF CreateNamespace, Raise
    <3>. QED
      BY <3>1, LeavingOwn DEF OwnPhases
  <2>. QED
    BY <2>1, <2>2
<1>3. CASE ApplyManifest \/ StartRun \/ RunCommand \/ EndStep
           \/ EvaluateCriteria \/ SaveResults
  <2>1. CASE pc' = "next"
    BY <2>1, LeavingOwn DEF OwnPhases
  <2>2. CASE pc' # "next"
    <3>a. pc \in OwnPhases
      BY <1>3 DEF ApplyManifest, StartRun, RunCommand, EndStep,
                  EvaluateCriteria, SaveResults, OwnPhases
    <3>b. UNCHANGED <<run, files, idx, nsState, owner>>
      BY <1>3 DEF ApplyManifest, StartRun, RunCommand, EndStep,
                  EvaluateCriteria, SaveResults
    <3>. QED
      BY <3>a, <3>b, KeepingOwn DEF OwnInv
  <2>. QED
    BY <2>1, <2>2
<1>4. ASSUME NEW n \in Namespaces, NamespaceGone(n)
      PROVE  OwnNamespace'
  <2>1. CASE pc \in OwnPhases
    <3>a. n # Ns
      BY <1>4, <2>1 DEF NamespaceGone, OwnInv, OwnNamespace, OwnPhases
    <3>b. Ns \in Namespaces
      BY <2>1, CurrentFile DEF OwnInv, Busy, OwnPhases
    <3>c. /\ nsState'[Ns] = nsState[Ns]
          /\ owner'[Ns] = owner[Ns]
          /\ UNCHANGED <<pc, run, files, idx>>
      BY <1>4, <3>a, <3>b DEF NamespaceGone, ScratchVars
    <3>. QED
      BY <2>1, <3>c DEF OwnInv, OwnNamespace, OwnPhases, Ns, File
  <2>2. CASE pc \notin OwnPhases
    BY <1>4, <2>2, LeavingOwn DEF NamespaceGone
  <2>. QED
    BY <2>1, <2>2
<1>5. CASE UNCHANGED vars
  BY <1>5 DEF OwnInv, OwnNamespace, vars, Ns, File
<1>6. CASE Tick
  BY <1>6 DEF Tick, ScratchVars, OwnInv, OwnNamespace, Ns, File
<1>. QED
  BY <1>1, <1>2, <1>3, <1>4, <1>5, <1>6 DEF Next

(***************************************************************************)
(* ExclusiveNamespace: from the namespace's creation until its cleanup,   *)
(* the scenario being executed works in a namespace that exists and that  *)
(* its own execution created -- never one leaked by an earlier file with  *)
(* the same derived name or by a killed invocation (the OwnNamespace the  *)
(* model-checking run checks), for every value of the constants.          *)
(***************************************************************************)
THEOREM ExclusiveNamespace == Spec => []OwnNamespace
<1>1. Init => OwnInv
  BY InitTypeInv DEF Init, OwnInv, OwnNamespace
<1>2. OwnInv /\ [Next]_vars => OwnInv'
  BY NextTypeInv, NextOwn DEF OwnInv
<1>3. OwnInv => OwnNamespace
  BY DEF OwnInv
<1>. QED
  BY <1>1, <1>2, <1>3, PTL DEF Spec

(***************************************************************************)
(* The steps that can end an active namespace: only cleanup_scenario's    *)
(* delete touches an active one, and it deletes the current Ns, which     *)
(* OwnNamespace says the current execution owns.                          *)
(***************************************************************************)
LEMMA NextOwnerDeletes == OwnInv /\ [Next]_vars => [OwnerDeletes]_vars
<1> SUFFICES ASSUME OwnInv, [Next]_vars PROVE [OwnerDeletes]_vars
  OBVIOUS
<1>a. nsState \in [Namespaces -> {"absent", "active", "terminating"}]
  BY DEF OwnInv, TypeInv, TypeOK
<1>1. CASE UNCHANGED nsState
  BY <1>1 DEF OwnerDeletes
<1>2. CASE CleanupScenario
  <2>1. /\ pc = "cleanup"
        /\ Ns \in Namespaces
        /\ owner[Ns] = <<run, idx>>
    BY <1>2, CurrentFile DEF CleanupScenario, OwnInv, OwnNamespace, Busy
  <2>2. nsState' \in {[nsState EXCEPT ![Ns] = "absent"],
                      [nsState EXCEPT ![Ns] = "terminating"], nsState}
    BY <1>2 DEF CleanupScenario, Raise
  <2>. QED
    BY <1>a, <2>1, <2>2 DEF OwnerDeletes
<1>3. CASE CreateNamespace
  <2>1. CASE nsState' = nsState
    BY <2>1 DEF OwnerDeletes
  <2>2. CASE nsState' # nsState
    <3>1. /\ Ns \in Namespaces
          /\ nsState' = [nsState EXCEPT ![Ns] = "active"]
      BY <1>3, <2>2, CurrentFile DEF CreateNamespace, Raise, OwnInv, Busy
    <3>. QED
      BY <1>a, <3>1 DEF OwnerDeletes
  <2>. QED
    BY <2>1, <2>2
<1>4. ASSUME NEW m \in Namespaces, NamespaceGone(m)
      PROVE  OwnerDeletes
  BY <1>a, <1>4 DEF NamespaceGone, OwnerDeletes
<1>5. CASE \/ Start \/ Load \/ ApplyManifest \/ StartRun \/ RunCommand
           \/ EndStep \/ EvaluateCriteria \/ SaveResults \/ NextScenario
           \/ Exit \/ Kill \/ Invoke \/ Tick
  <2>1. UNCHANGED nsState
    BY <1>5 DEF Start, Load, ApplyManifest, StartRun, RunCommand, EndStep,
                EvaluateCriteria, SaveResults, NextScenario, Exit, Kill,
                Invoke, Tick
  <2>. QED
    BY <2>1, <1>1
<1>6. CASE UNCHANGED vars
  BY <1>6, <1>1 DEF vars
<1>. QED
  BY <1>2, <1>3, <1>4, <1>5, <1>6 DEF Next

(***************************************************************************)
(* OwnerOnlyDelete: the driver never deletes a namespace another          *)
(* execution created -- an active namespace stops being active only in    *)
(* cleanup_scenario of its owner (the NoForeignDelete the model-checking  *)
(* run checks), for every value of the constants.                          *)
(***************************************************************************)
THEOREM OwnerOnlyDelete == Spec => NoForeignDelete
<1>1. Init => OwnInv
  BY InitTypeInv DEF Init, OwnInv, OwnNamespace
<1>2. OwnInv /\ [Next]_vars => OwnInv'
  BY NextTypeInv, NextOwn DEF OwnInv
<1>3. OwnInv /\ [Next]_vars => [OwnerDeletes]_vars
  BY NextOwnerDeletes
<1>. QED
  BY <1>1, <1>2, <1>3, PTL DEF Spec, NoForeignDelete

=============================================================================
