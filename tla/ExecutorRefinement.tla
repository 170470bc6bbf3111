------------------------- MODULE ExecutorRefinement -------------------------
(***************************************************************************)
(* Proof that ScenarioRunner's run_scenario implements the step executor  *)
(* of spec section 4.4 (StepExecutor) under the refinement mapping        *)
(* ExecState, ExecDefs, ExecLog of ScenarioRunner, for every value of the *)
(* constants.                                                              *)
(***************************************************************************)
EXTENDS ScenarioRunnerProofs

USE StepsAssumption

\* The recorded steps end with a failed critical step.
LogAborted(log, defs) ==
    /\ Len(log) > 0
    /\ ~log[Len(log)].success
    /\ CriticalBySpec(defs[Len(log)])

\* The output of the current step so far: one "out" per command that
\* returned, then the ERROR marker if the command 'cmd' failed.
PartialOutput ==
    [j \in 1..(IF stepSuccess THEN cmd - 1 ELSE cmd) |->
        IF ~stepSuccess /\ j = cmd THEN "error" ELSE "out"]

(***************************************************************************)
(* LoopInv: the state of run_scenario's two loops.  Inside the command    *)
(* loop the log holds the steps before 'step', none of which aborted the  *)
(* list, and step_output holds the current step's output so far; in the  *)
(* criteria loop the log is complete or ends with a failed critical step. *)
(* This is what the step map needs: EndStep appends an outcome the        *)
(* executor allows, and the criteria are reached only when it may end.    *)
(***************************************************************************)
LoopInv ==
    /\ pc = "cmd" =>
         /\ step \in 1..Len(CurSteps)
         /\ Len(results.steps) = step - 1
         /\ ~LogAborted(results.steps, CurSteps)
         /\ cmd \in 1..(CurSteps[step].ncmds + 1)
         /\ ~stepSuccess => cmd <= CurSteps[step].ncmds
         /\ stepOutput = PartialOutput
    /\ pc = "criteria" =>
         \/ Len(results.steps) = Len(CurSteps)
         \/ LogAborted(results.steps, CurSteps)

RefInv == TypeInv /\ LoopInv

\* While a scenario runs, its step list is a list of step definitions.
LEMMA CurrentSteps ==
    ASSUME TypeInv, pc \in Busy
    PROVE  /\ CurSteps \in Seq(StepDef)
           /\ CurSteps \in {Steps[s] : s \in Scenarios}
BY CurrentFile DEF CurSteps

\* Steps that leave both loops satisfy LoopInv vacuously.
LEMMA LeavingLoops ==
    ASSUME pc' \notin {"cmd", "criteria"}
    PROVE  LoopInv'
BY DEF LoopInv

LEMMA StartRunLoopInv == TypeInv /\ StartRun => LoopInv'
<1> SUFFICES ASSUME TypeInv, StartRun PROVE LoopInv'
  OBVIOUS
<1>1. CurSteps \in Seq(StepDef)
  BY CurrentSteps DEF StartRun, Busy
<1>2. /\ CurSteps' = CurSteps
      /\ results'.steps = << >>
      /\ step' = 1 /\ cmd' = 1 /\ stepSuccess' = TRUE /\ stepOutput' = << >>
      /\ pc' = IF Len(CurSteps) = 0 THEN "criteria" ELSE "cmd"
  BY DEF StartRun, InitResults, CurSteps, File
<1>3. PartialOutput' = << >>
  BY <1>2 DEF PartialOutput
<1>4. CASE Len(CurSteps) = 0
  BY <1>2, <1>4 DEF LoopInv
<1>5. CASE Len(CurSteps) # 0
  <2>0. CurSteps[1] \in StepDef
    BY <1>1, <1>5
  <2>1. CurSteps[1].ncmds \in Nat
    BY <2>0 DEF StepDef
  <2>2. ~LogAborted(<< >>, CurSteps)
    BY DEF LogAborted
  <2>. QED
    BY <1>1, <1>2, <1>3, <1>5, <2>1, <2>2 DEF LoopInv
<1>. QED
  BY <1>4, <1>5

LEMMA RunCommandLoopInv == TypeInv /\ LoopInv /\ RunCommand => LoopInv'
<1> SUFFICES ASSUME TypeInv, LoopInv, RunCommand PROVE LoopInv'
  OBVIOUS
<1> DEFINE n == CurSteps[step].ncmds
<1>a. /\ pc = "cmd" /\ pc' = "cmd" /\ stepSuccess
      /\ cmd <= n
      /\ UNCHANGED <<files, idx, step>>
  BY DEF RunCommand
<1>b. /\ CurSteps \in Seq(StepDef)
      /\ step \in 1..Len(CurSteps)
      /\ cmd \in 1..(n + 1)
      /\ stepOutput = PartialOutput
  BY <1>a, CurrentSteps DEF LoopInv, Busy
<1>d. n \in Nat
  <2>1. CurSteps[step] \in StepDef
    BY <1>b
  <2>. QED
    BY <2>1 DEF StepDef
<1>e. stepOutput = [j \in 1..(cmd - 1) |-> "out"]
  BY <1>a, <1>b DEF PartialOutput
<1>f. /\ Len(results.steps) = step - 1
      /\ ~LogAborted(results.steps, CurSteps)
  BY <1>a DEF LoopInv
<1>c. results \in Result
  BY DEF TypeInv, TypeOK
<1>1. /\ CurSteps' = CurSteps
      /\ results'.steps = results.steps
  BY <1>a, <1>c DEF RunCommand, CurSteps, File, Result
<1>2. CASE /\ stepOutput' = Append(stepOutput, "out")
           /\ cmd' = cmd + 1
           /\ UNCHANGED <<stepSuccess, results>>
  <2>1. stepOutput' = [j \in 1..cmd |-> "out"]
    BY <1>b, <1>d, <1>e, <1>2
  <2>2. PartialOutput' = [j \in 1..cmd |-> "out"]
    BY <1>a, <1>b, <1>d, <1>2 DEF PartialOutput
  <2>3. /\ step' \in 1..Len(CurSteps')
        /\ Len(results'.steps) = step' - 1
        /\ ~LogAborted(results'.steps, CurSteps')
    BY <1>a, <1>b, <1>f, <1>1
  <2>4. cmd' \in 1..(CurSteps'[step'].ncmds + 1) /\ stepSuccess'
    BY <1>a, <1>b, <1>d, <1>1, <1>2
  <2>. QED
    BY <1>a, <2>1, <2>2, <2>3, <2>4 DEF LoopInv
<1>3. CASE /\ stepOutput' = Append(stepOutput, "error")
           /\ stepSuccess' = FALSE
           /\ results' = [results EXCEPT !.success = FALSE]
           /\ UNCHANGED cmd
  <2>1. stepOutput' = [j \in 1..cmd |-> IF j = cmd THEN "error" ELSE "out"]
    BY <1>b, <1>d, <1>e, <1>3
  <2>2. PartialOutput' =
          [j \in 1..cmd |-> IF j = cmd THEN "error" ELSE "out"]
    BY <1>3 DEF PartialOutput
  <2>. QED
    BY <1>a, <1>b, <1>d, <1>f, <1>1, <1>3, <2>1, <2>2 DEF LoopInv, LogAborted
<1>. QED
  BY <1>2, <1>3 DEF RunCommand

\* What EndStep appends: the step's result, one of the executor's outcomes.
LEMMA EndStepOutcome ==
    ASSUME TypeInv, LoopInv, EndStep
    PROVE  /\ [success |-> stepSuccess, output |-> stepOutput]
                \in Executor!Outcomes(CurSteps[step])
           /\ step \in 1..Len(CurSteps)
           /\ CurSteps \in Seq(StepDef)
<1> DEFINE n == CurSteps[step].ncmds
<1>a. pc = "cmd" /\ (~stepSuccess \/ cmd > n)
  BY DEF EndStep
<1>b. /\ CurSteps \in Seq(StepDef)
      /\ step \in 1..Len(CurSteps)
      /\ cmd \in 1..(n + 1)
      /\ ~stepSuccess => cmd <= n
      /\ stepOutput = PartialOutput
  BY <1>a, CurrentSteps DEF LoopInv, Busy
<1>c. n \in Nat
  <2>1. CurSteps[step] \in StepDef
    BY <1>b
  <2>. QED
    BY <2>1 DEF StepDef
<1>1. CASE stepSuccess
  <2>1. cmd = n + 1
    BY <1>a, <1>b, <1>c, <1>1
  <2>2. stepOutput = [j \in 1..n |-> "out"]
    BY <1>b, <1>c, <1>1, <2>1 DEF PartialOutput
  <2>. QED
    BY <1>b, <1>1, <2>2 DEF Executor!Outcomes
<1>2. CASE ~stepSuccess
  <2>1. cmd \in 1..n
    BY <1>b, <1>c, <1>2
  <2>2. stepOutput = [j \in 1..cmd |-> IF j = cmd THEN "error" ELSE "out"]
    BY <1>b, <1>2 DEF PartialOutput
  <2>3. [success |-> stepSuccess, output |-> stepOutput] =
          [success |-> FALSE,
           output |-> [j \in 1..cmd |-> IF j = cmd THEN "error" ELSE "out"]]
    BY <1>2, <2>2 DEF TypeInv, TypeOK
  <2>. QED
    BY <1>b, <2>1, <2>3 DEF Executor!Outcomes
<1>. QED
  BY <1>1, <1>2

LEMMA EndStepLoopInv == TypeInv /\ LoopInv /\ EndStep => LoopInv'
<1> SUFFICES ASSUME TypeInv, LoopInv, EndStep PROVE LoopInv'
  OBVIOUS
<1> DEFINE rec == [success |-> stepSuccess, output |-> stepOutput]
           last == (~stepSuccess /\ IsCritical(CurSteps[step]))
                   \/ step = Len(CurSteps)
<1>a. /\ step \in 1..Len(CurSteps)
      /\ CurSteps \in Seq(StepDef)
  BY EndStepOutcome
<1>b. /\ pc = "cmd"
      /\ Len(results.steps) = step - 1
  BY DEF EndStep, LoopInv
<1>c. results \in Result
  BY DEF TypeInv, TypeOK
<1>e. results' = [results EXCEPT !.steps = Append(@, rec)]
  BY DEF EndStep
<1>1. /\ CurSteps' = CurSteps
      /\ results'.steps = Append(results.steps, rec)
      /\ cmd' = 1 /\ stepSuccess' = TRUE /\ stepOutput' = << >>
  <2>1. CurSteps' = CurSteps
    BY DEF EndStep, CurSteps, File
  <2>2. results'.steps = Append(results.steps, rec)
    BY <1>c, <1>e DEF Result
  <2>3. cmd' = 1 /\ stepSuccess' = TRUE /\ stepOutput' = << >>
    BY DEF EndStep
  <2>. QED
    BY <2>1, <2>2, <2>3
<1>2. /\ Len(results'.steps) = step
      /\ results'.steps[step] = rec
  <2>1. results.steps \in Seq(StepResult)
    BY <1>c DEF Result
  <2>. QED
    BY <1>a, <1>b, <2>1, <1>1
<1>d. CurSteps[step].critical \in CriticalVals
  <2>1. CurSteps[step] \in StepDef
    BY <1>a
  <2>. QED
    BY <2>1 DEF StepDef
<1>3. CASE last
  <2>1. pc' = "criteria"
    BY <1>3 DEF EndStep
  <2>2. \/ Len(results'.steps) = Len(CurSteps')
        \/ LogAborted(results'.steps, CurSteps')
    BY <1>1, <1>2, <1>3, <1>d DEF LogAborted, IsCritical, CriticalBySpec,
                                  CriticalVals
  <2>. QED
    BY <2>1, <2>2 DEF LoopInv
<1>4. CASE ~last
  <2>1. pc' = "cmd" /\ step' = step + 1
    BY <1>4 DEF EndStep
  <2>2. step' \in 1..Len(CurSteps')
    BY <1>a, <1>1, <1>4, <2>1
  <2>3. ~LogAborted(results'.steps, CurSteps')
    BY <1>1, <1>2, <1>4, <1>d DEF LogAborted, IsCritical, CriticalBySpec,
                                  CriticalVals
  <2>4. CurSteps'[step'].ncmds \in Nat
    <3>1. CurSteps[step + 1] \in StepDef
      BY <1>a, <2>1, <2>2, <1>1
    <3>. QED
      BY <3>1, <2>1, <1>1 DEF StepDef
  <2>5. PartialOutput' = << >>
    BY <1>1 DEF PartialOutput
  <2>. QED
    BY <1>1, <1>2, <2>1, <2>2, <2>3, <2>4, <2>5 DEF LoopInv
<1>. QED
  BY <1>3, <1>4

LEMMA NextLoopInv == TypeInv /\ LoopInv /\ [Next]_vars => LoopInv'
<1> SUFFICES ASSUME TypeInv, LoopInv, [Next]_vars PROVE LoopInv'
  OBVIOUS
<1>1. CASE StartRun
  BY <1>1, StartRunLoopInv
<1>2. CASE RunCommand
  BY <1>2, RunCommandLoopInv
<1>3. CASE EndStep
  BY <1>3, EndStepLoopInv
<1>4. CASE \/ Start \/ Load \/ CreateNamespace \/ ApplyManifest
           \/ EvaluateCriteria \/ SaveResults \/ CleanupScenario
           \/ NextScenario \/ Exit \/ Kill \/ Invoke
  <2>1. pc' \notin {"cmd", "criteria"}
    BY <1>4 DEF Start, Load, CreateNamespace, ApplyManifest,
                EvaluateCriteria, SaveResults, CleanupScenario,
                NextScenario, Exit, Kill, Invoke, Raise
  <2>. QED
    BY <2>1, LeavingLoops
<1>5. CASE \E n \in Namespaces : NamespaceGone(n)
  BY <1>5 DEF NamespaceGone, ScratchVars, LoopInv, LogAborted,
              PartialOutput, CurSteps, File
<1>6. CASE UNCHANGED vars
  BY <1>6 DEF vars, LoopInv, LogAborted, PartialOutput, CurSteps, File
<1>7. CASE Tick
  BY <1>7 DEF Tick, ScratchVars, LoopInv, LogAborted, PartialOutput,
              CurSteps, File
<1>. QED
  BY <1>1, <1>2, <1>3, <1>4, <1>5, <1>6, <1>7 DEF Next

\* A step outside run_scenario that keeps the result record leaves the
\* executor's state as it was.
LEMMA OutsideStutters ==
    ASSUME pc \notin {"cmd", "criteria", "killed"},
           pc' \notin {"cmd", "criteria", "killed"},
           results' = results
    PROVE  UNCHANGED Executor!xvars
BY DEF Executor!xvars, ExecState, ExecDefs, ExecLog, Running

LEMMA StartRunRefines == TypeInv /\ StartRun => Executor!Begin
<1> SUFFICES ASSUME TypeInv, StartRun PROVE Executor!Begin
  OBVIOUS
<1>1. ExecState = "idle" /\ ExecState' = "running"
  BY DEF StartRun, ExecState, Running
<1>2. ExecDefs' \in {Steps[s] : s \in Scenarios}
  <2>1. CurSteps' = CurSteps
    BY DEF StartRun, CurSteps, File
  <2>2. ExecDefs' = CurSteps
    BY <2>1 DEF StartRun, ExecDefs, Running
  <2>. QED
    BY <2>2, CurrentSteps DEF StartRun, Busy
<1>3. ExecLog' = << >>
  BY DEF StartRun, ExecLog, InitResults
<1>. QED
  BY <1>1, <1>2, <1>3 DEF Executor!Begin

LEMMA RunCommandRefines == TypeInv /\ RunCommand => UNCHANGED Executor!xvars
<1> SUFFICES ASSUME TypeInv, RunCommand PROVE UNCHANGED Executor!xvars
  OBVIOUS
<1>1. results \in Result
  BY DEF TypeInv, TypeOK
<1>2. results'.steps = results.steps
  BY <1>1 DEF RunCommand, Result
<1>. QED
  BY <1>2 DEF RunCommand, Executor!xvars, ExecState, ExecDefs, ExecLog,
              Running, CurSteps, File

LEMMA EndStepRefines == TypeInv /\ LoopInv /\ EndStep => Executor!Execute
<1> SUFFICES ASSUME TypeInv, LoopInv, EndStep PROVE Executor!Execute
  OBVIOUS
<1> DEFINE rec == [success |-> stepSuccess, output |-> stepOutput]
<1>a. /\ rec \in Executor!Outcomes(CurSteps[step])
      /\ step \in 1..Len(CurSteps)
      /\ CurSteps \in Seq(StepDef)
  BY EndStepOutcome
<1>b. /\ pc = "cmd" /\ pc' \in {"cmd", "criteria"}
      /\ Len(results.steps) = step - 1
      /\ ~LogAborted(results.steps, CurSteps)
  BY DEF EndStep, LoopInv
<1>c. results \in Result
  BY DEF TypeInv, TypeOK
<1>1. /\ ExecState = "running" /\ ExecState' = "running"
      /\ ExecDefs = CurSteps /\ ExecDefs' = CurSteps
  BY <1>b DEF EndStep, ExecState, ExecDefs, Running, CurSteps, File
<1>2. ExecLog' = Append(ExecLog, rec)
  BY <1>c DEF EndStep, ExecLog, Result
<1>3. ~Executor!Finished
  <2>1. Len(ExecLog) # Len(ExecDefs)
    BY <1>a, <1>b, <1>1 DEF ExecLog
  <2>2. ~Executor!Aborted
    BY <1>b, <1>1 DEF Executor!Aborted, Executor!Critical, LogAborted,
                      CriticalBySpec, ExecLog
  <2>. QED
    BY <2>1, <2>2 DEF Executor!Finished
<1>4. ExecDefs[Len(ExecLog) + 1] = CurSteps[step]
  BY <1>a, <1>b, <1>1 DEF ExecLog
<1>. QED
  BY <1>a, <1>1, <1>2, <1>3, <1>4 DEF Executor!Execute

LEMMA CriteriaRefines == TypeInv /\ LoopInv /\ EvaluateCriteria => Executor!End
<1> SUFFICES ASSUME TypeInv, LoopInv, EvaluateCriteria PROVE Executor!End
  OBVIOUS
<1>a. results \in Result
  BY DEF TypeInv, TypeOK
<1>1. /\ ExecState = "running" /\ ExecState' = "idle"
      /\ ExecDefs = CurSteps /\ ExecDefs' = << >>
  BY DEF EvaluateCriteria, ExecState, ExecDefs, Running
<1>2. ExecLog' = ExecLog
  BY <1>a DEF EvaluateCriteria, ExecLog, Result
<1>3. Executor!Finished
  BY <1>1 DEF EvaluateCriteria, LoopInv, LogAborted, CriticalBySpec,
              Executor!Finished, Executor!Aborted, Executor!Critical, ExecLog
<1>. QED
  BY <1>1, <1>2, <1>3 DEF Executor!End

LEMMA KillRefines == Kill => Executor!Abandon
BY DEF Kill, Executor!Abandon, ExecState, ExecDefs, ExecLog, Running,
       ScratchVars

LEMMA InvokeRefines == Invoke => [Executor!Restart]_Executor!xvars
<1> SUFFICES ASSUME Invoke PROVE [Executor!Restart]_Executor!xvars
  OBVIOUS
<1>1. CASE pc = "killed"
  BY <1>1 DEF Invoke, Executor!Restart, ExecState, ExecDefs, ExecLog,
              Running, ScratchVars
<1>2. CASE pc = "exited"
  BY <1>2, OutsideStutters DEF Invoke, ScratchVars
<1>. QED
  BY <1>1, <1>2 DEF Invoke

LEMMA NextRefines ==
    TypeInv /\ LoopInv /\ [Next]_vars => [Executor!XNext]_Executor!xvars
<1> SUFFICES ASSUME TypeInv, LoopInv, [Next]_vars
             PROVE  [Executor!XNext]_Executor!xvars
  OBVIOUS
<1>1. CASE StartRun
  BY <1>1, StartRunRefines DEF Executor!XNext
<1>2. CASE RunCommand
  BY <1>2, RunCommandRefines
<1>3. CASE EndStep
  BY <1>3, EndStepRefines DEF Executor!XNext
<1>4. CASE EvaluateCriteria
  BY <1>4, CriteriaRefines DEF Executor!XNext
<1>5. CASE Kill
  BY <1>5, KillRefines DEF Executor!XNext
<1>6. CASE Invoke
  BY <1>6, InvokeRefines DEF Executor!XNext
<1>7. CASE \/ Start \/ Load \/ CreateNamespace \/ ApplyManifest
           \/ SaveResults \/ CleanupScenario \/ NextScenario \/ Exit
  <2>1. /\ pc \notin {"cmd", "criteria", "killed"}
        /\ pc' \notin {"cmd", "criteria", "killed"}
        /\ results' = results
    BY <1>7 DEF Start, Load, CreateNamespace, ApplyManifest, SaveResults,
                CleanupScenario, NextScenario, Exit, Raise, ScratchVars
  <2>. QED
    BY <2>1, OutsideStutters
<1>8. CASE \E n \in Namespaces : NamespaceGone(n)
  BY <1>8 DEF NamespaceGone, ScratchVars, Executor!xvars, ExecState,
              ExecDefs, ExecLog, Running, CurSteps, File
<1>9. CASE UNCHANGED vars
  BY <1>9 DEF vars, Executor!xvars, ExecState, ExecDefs, ExecLog, Running,
              CurSteps, File
<1>10. CASE Tick
  BY <1>10 DEF Tick, ScratchVars, Executor!xvars, ExecState, ExecDefs,
               ExecLog, Running, CurSteps, File
<1>. QED
  BY <1>1, <1>2, <1>3, <1>4, <1>5, <1>6, <1>7, <1>8, <1>9, <1>10 DEF Next

(***************************************************************************)
(* RunScenarioImplementsExecutor: main's driver, with run_scenario's step *)
(* and command loops, implements the step executor of spec section 4.4    *)
(* under the mapping ExecState/ExecDefs/ExecLog -- the ImplementsExecutor *)
(* the model-checking run checks -- for every value of the constants.     *)
(* Init maps to the idle executor with an empty log; every step of the     *)
(* driver is a step of the executor or leaves its state unchanged, which  *)
(* LoopInv (with the type invariant) makes possible.                      *)
(***************************************************************************)
THEOREM RunScenarioImplementsExecutor == Spec => ImplementsExecutor
<1>1. Init => RefInv
  <2>1. Init => LoopInv
    BY DEF Init, LoopInv
  <2>. QED
    BY <2>1, InitTypeInv DEF RefInv
<1>2. RefInv /\ [Next]_vars => RefInv'
  BY NextTypeInv, NextLoopInv DEF RefInv
<1>3. Init => Executor!XInit
  BY DEF Init, Executor!XInit, ExecState, ExecDefs, ExecLog, Running,
         InitResults
<1>4. RefInv /\ [Next]_vars => [Executor!XNext]_Executor!xvars
  BY NextRefines DEF RefInv
<1>. QED
  BY <1>1, <1>2, <1>3, <1>4, PTL DEF Spec, ImplementsExecutor, Executor!XSpec

=============================================================================
