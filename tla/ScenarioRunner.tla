--------------------------- MODULE ScenarioRunner ---------------------------
(***************************************************************************)
(* The scenario driver of src/tf-k8s/scripts/scenario-runner.py: main()    *)
(* walks the resolved list of scenario files one after another; for each  *)
(* it loads the definition and creates its namespace and applies its      *)
(* manifests (setup_scenario), runs the steps command by command and      *)
(* evaluates the criteria (run_scenario), saves the result record         *)
(* (save_results) and deletes the namespace (cleanup_scenario).  Every    *)
(* exception of one scenario is caught by main's handler, which marks the *)
(* run failed and goes on with the next file.                              *)
(*                                                                         *)
(* Every external command (kubectl create/apply/delete, each step command, *)
(* the write of the report) is one action whose outcome is chosen         *)
(* nondeterministically.  The cluster's namespaces outlive the process:   *)
(* the process may be killed by a signal at any point and invoked again   *)
(* (up to MaxRuns times) against the same cluster, and a namespace whose  *)
(* delete timed out stays Terminating until the cluster removes it.       *)
(***************************************************************************)
EXTENDS Naturals, Sequences, FiniteSets

CONSTANTS
    Scenarios,   \* scenario definition files (model values)
    Namespaces,  \* namespace names the scenario ids can map to
    Resolutions, \* the lists find_scenarios can return, one per invocation
    NsOf,        \* namespace name derived from a file's metadata.id
    Malformed,   \* files whose yaml.safe_load raises
    Manifests,   \* number of *.yaml files in the file's k8s directory
    Steps,       \* the definition's steps: critical flag and command count
    Criteria,    \* the definition's success_criteria thresholds
    Ids,         \* the values metadata.id can take ('unknown' when absent)
    IdOf,        \* the scenario id of a file
    MaxRuns,     \* bound on the invocations of the process
    MaxTime      \* bound on the clock, in seconds

\* The value of a step's 'critical' key: absent, or the YAML boolean it holds.
CriticalVals == {"true", "false", "unset"}

StepDef == [critical : CriticalVals, ncmds : Nat]

ASSUME ResolutionsAssumption == Resolutions \subseteq Seq(Scenarios)
ASSUME NsOfAssumption == NsOf \in [Scenarios -> Namespaces]
ASSUME MalformedAssumption == Malformed \subseteq Scenarios
ASSUME ManifestsAssumption == Manifests \in [Scenarios -> Nat]
ASSUME StepsAssumption == Steps \in [Scenarios -> Seq(StepDef)]
ASSUME CriteriaAssumption == Criteria \in [Scenarios -> Seq(Nat)]
ASSUME MaxRunsAssumption == MaxRuns \in Nat \ {0}
\* The namespace name is derived from the id (line 101).
ASSUME IdOfAssumption ==
    /\ IdOf \in [Scenarios -> Ids]
    /\ \A a, b \in Scenarios : IdOf[a] = IdOf[b] => NsOf[a] = NsOf[b]
ASSUME MaxTimeAssumption == MaxTime \in Nat

VARIABLES
    pc,          \* where main() is: the statement about to run
    run,         \* the number of the current invocation of the process
    files,       \* scenario_files: what find_scenarios returned
    idx,         \* index in files of the scenario being executed
    success,     \* main's 'success'
    exitCode,    \* the process's exit status once it has exited
    nsState,     \* the cluster: each namespace absent, active or terminating
    owner,       \* which execution <<run, idx>> created a namespace
    applied,     \* manifests applied so far by setup_scenario
    step,        \* run_scenario's step index i (1-based)
    cmd,         \* index of the next command of that step
    stepSuccess, \* run_scenario's step_success
    stepOutput,  \* run_scenario's step_output
    results,     \* run_scenario's results record
    reports,     \* the result records save_results has written
    cleaned,     \* executions whose cleanup_scenario returned normally
    now,         \* the wall clock, in whole seconds
    disk         \* the report files: the record each file name holds

vars == <<pc, run, files, idx, success, exitCode, nsState, owner, applied, step,
          cmd, stepSuccess, stepOutput, results, reports, cleaned, now, disk>>

\* The cluster and the process's past are not touched by the driver's
\* bookkeeping steps.
ScratchVars == <<applied, step, cmd, stepSuccess, stepOutput, results>>

-----------------------------------------------------------------------------
(***************************************************************************)
(* Data                                                                    *)
(***************************************************************************)
NoOwner == <<0, 0>>

Runs == 1..MaxRuns

Execution == Runs \X (Nat \ {0})

\* One output chunk per executed command: its output, or the ERROR marker.
Chunk == {"out", "error"}

StepResult == [success : BOOLEAN, output : Seq(Chunk)]

\* The code always records actual = 0 (scenario-runner.py line 171).
CriterionResult == [threshold : Nat, actual : Nat, success : BOOLEAN]

Result == [steps : Seq(StepResult), criteria : Seq(CriterionResult),
           success : BOOLEAN]

Report == [run : Runs, idx : Nat \ {0}, file : Scenarios, result : Result]

\* A report file name '<id>_<YYYYMMDD-HHMMSS>.json': the id and the second.
ReportNames == Ids \X (0..MaxTime)

Phases == {"start", "load", "create", "apply", "cmd", "criteria", "save",
           "cleanup", "next", "exited", "killed"}

\* The file and namespace of the scenario being executed.
File == files[idx]

Ns == NsOf[File]

CurSteps == Steps[File]

\* A faulty variant, step.get('critical', False): an absent key read as
\* non-critical.
IsCriticalDefaultFalse(st) == st.critical = "true"

\* A faulty variant, the flag ignored: every failed step ends the loop.
IsCriticalAlways(st) == TRUE

\* step.get('critical', True): an absent key means critical.
IsCritical(st) == st.critical # "false"

InitResults == [steps |-> << >>, criteria |-> << >>, success |-> TRUE]

-----------------------------------------------------------------------------
(***************************************************************************)
(* Faulty variants of the code, each the kind of slip a change to          *)
(* scenario-runner.py could make; every property below is broken by one.  *)
(***************************************************************************)
\* The except handler forgets 'success = False'.
RaiseKeepsSuccess ==
    /\ UNCHANGED success
    /\ pc' = "next"

\* A 'finally: cleanup_scenario(...)' around every scenario: a failing call
\* goes on to delete the scenario's namespace.
RaiseThenCleanup ==
    /\ success' = FALSE
    /\ pc' = "cleanup"

\* 'kubectl create namespace' run without check=True: an existing namespace
\* of the same name is silently reused.
CreateNamespaceUnchecked ==
    /\ pc = "create"
    /\ nsState' = [nsState EXCEPT ![Ns] = "active"]
    /\ owner' = [owner EXCEPT ![Ns] = IF nsState[Ns] = "absent"
                                        THEN <<run, idx>> ELSE @]
    /\ applied' = 0
    /\ pc' = "apply"
    /\ UNCHANGED <<now, disk, run, files, idx, success, exitCode, reports,
                   cleaned, step, cmd, stepSuccess, stepOutput, results>>

\* A failing command that does not lower results['success'].
RunCommandKeepsResult ==
    /\ pc = "cmd"
    /\ stepSuccess
    /\ cmd <= CurSteps[step].ncmds
    /\ \/ /\ stepOutput' = Append(stepOutput, "out")
          /\ cmd' = cmd + 1
          /\ UNCHANGED stepSuccess
       \/ /\ stepOutput' = Append(stepOutput, "error")
          /\ stepSuccess' = FALSE
          /\ UNCHANGED cmd
    /\ UNCHANGED <<now, disk, pc, run, files, idx, success, exitCode, nsState,
                   owner, applied, step, results, reports, cleaned>>

\* The command loop bound off by one: the last command of a step never runs.
RunCommandOffByOne ==
    /\ pc = "cmd"
    /\ stepSuccess
    /\ cmd < CurSteps[step].ncmds
    /\ \/ /\ stepOutput' = Append(stepOutput, "out")
          /\ cmd' = cmd + 1
          /\ UNCHANGED <<stepSuccess, results>>
       \/ /\ stepOutput' = Append(stepOutput, "error")
          /\ stepSuccess' = FALSE
          /\ results' = [results EXCEPT !.success = FALSE]
          /\ UNCHANGED cmd
    /\ UNCHANGED <<now, disk, pc, run, files, idx, success, exitCode, nsState,
                   owner, applied, step, reports, cleaned>>

\* The file loop rewritten as a while loop that forgets to advance.
NextScenarioNoAdvance ==
    /\ pc = "next"
    /\ idx < Len(files)
    /\ pc' = "load"
    /\ UNCHANGED <<now, disk, run, files, idx, success, exitCode, nsState,
                   owner, reports, cleaned, ScratchVars>>

\* The loop bound off by one: 'next' is taken while idx <= len(files).
NextScenarioPastEnd ==
    /\ pc = "next"
    /\ idx <= Len(files)
    /\ idx' = idx + 1
    /\ pc' = "load"
    /\ UNCHANGED <<now, disk, run, files, success, exitCode, nsState, owner,
                   reports, cleaned, ScratchVars>>

-----------------------------------------------------------------------------
(***************************************************************************)
(* Initial state: the first invocation, before find_scenarios returns, on  *)
(* a cluster that holds none of the scenarios' namespaces.                 *)
(***************************************************************************)
Init ==
    /\ pc = "start"
    /\ run = 1
    /\ files = << >>
    /\ idx = 0
    /\ success = TRUE
    /\ exitCode = 0
    /\ nsState = [n \in Namespaces |-> "absent"]
    /\ owner = [n \in Namespaces |-> NoOwner]
    /\ applied = 0
    /\ step = 0
    /\ cmd = 0
    /\ stepSuccess = TRUE
    /\ stepOutput = << >>
    /\ results = InitResults
    /\ reports = {}
    /\ cleaned = {}
    /\ now = 0
    /\ disk = [nm \in ReportNames |-> {}]

(***************************************************************************)
(* main's 'except Exception' handler: the scenario counts as failed and    *)
(* the loop goes on with the next file.  Used by every failing call.       *)
(***************************************************************************)
Raise ==
    /\ success' = FALSE
    /\ pc' = "next"

\* main lines 217-227: find_scenarios returns one of the lists its
\* arguments can resolve to; an empty list exits with status 1 at once.
Start ==
    /\ pc = "start"
    /\ \E fs \in Resolutions :
          /\ files' = fs
          /\ IF Len(fs) = 0
                THEN pc' = "exited" /\ exitCode' = 1
                ELSE pc' = "load" /\ UNCHANGED exitCode
    /\ idx' = 1
    /\ success' = TRUE
    /\ UNCHANGED <<now, disk, run, nsState, owner, reports, cleaned,
                   ScratchVars>>

\* setup_scenario lines 96-101: a definition that does not parse raises
\* before any namespace exists.
Load ==
    /\ pc = "load"
    /\ IF File \in Malformed
          THEN Raise
          ELSE pc' = "create" /\ UNCHANGED success
    /\ UNCHANGED <<now, disk, run, files, idx, exitCode, nsState, owner,
                   reports, cleaned, ScratchVars>>

\* setup_scenario line 103: 'kubectl create namespace' with check=True.
\* It fails when the name exists (active or still terminating), and may
\* fail for any other reason (API server unreachable, quota).
CreateNamespace ==
    /\ pc = "create"
    /\ \/ /\ nsState[Ns] = "absent"
          /\ nsState' = [nsState EXCEPT ![Ns] = "active"]
          /\ owner' = [owner EXCEPT ![Ns] = <<run, idx>>]
          /\ applied' = 0
          /\ pc' = "apply"
          /\ UNCHANGED success
       \/ /\ Raise
          /\ UNCHANGED <<nsState, owner, applied>>
    /\ UNCHANGED <<now, disk, run, files, idx, exitCode, reports, cleaned,
                   step, cmd, stepSuccess, stepOutput, results>>

\* setup_scenario line 112: one 'kubectl apply -f manifest -n ns'.  A
\* failure raises out of setup_scenario with the namespace left behind.
ApplyManifest ==
    /\ pc = "apply"
    /\ applied < Manifests[File]
    /\ \/ applied' = applied + 1 /\ UNCHANGED <<pc, success>>
       \/ Raise /\ UNCHANGED applied
    /\ UNCHANGED <<now, disk, run, files, idx, exitCode, nsState, owner,
                   reports, cleaned, step, cmd, stepSuccess, stepOutput,
                   results>>

\* setup_scenario returns once every manifest is applied; run_scenario
\* lines 118-128 set up 'results', and the step loop starts (or, with no
\* steps, the criteria loop).
StartRun ==
    /\ pc = "apply"
    /\ applied = Manifests[File]
    /\ results' = InitResults
    /\ step' = 1
    /\ cmd' = 1
    /\ stepSuccess' = TRUE
    /\ stepOutput' = << >>
    /\ pc' = IF Len(CurSteps) = 0 THEN "criteria" ELSE "cmd"
    /\ UNCHANGED <<now, disk, run, files, idx, success, exitCode, nsState,
                   owner, applied, reports, cleaned>>

\* run_scenario lines 139-152: one step command through the shell.  Its
\* output is appended; a non-zero exit appends the ERROR marker, marks the
\* step and the whole result failed and leaves the command loop.
RunCommand ==
    /\ pc = "cmd"
    /\ stepSuccess
    /\ cmd <= CurSteps[step].ncmds
    /\ \/ /\ stepOutput' = Append(stepOutput, "out")
          /\ cmd' = cmd + 1
          /\ UNCHANGED <<stepSuccess, results>>
       \/ /\ stepOutput' = Append(stepOutput, "error")
          /\ stepSuccess' = FALSE
          /\ results' = [results EXCEPT !.success = FALSE]
          /\ UNCHANGED cmd
    /\ UNCHANGED <<now, disk, pc, run, files, idx, success, exitCode, nsState,
                   owner, applied, step, reports, cleaned>>

\* run_scenario lines 154-162: the command loop is over; the step's result
\* is appended, and a failed critical step ends the step loop.
EndStep ==
    /\ pc = "cmd"
    /\ ~stepSuccess \/ cmd > CurSteps[step].ncmds
    /\ results' = [results EXCEPT !.steps = Append(@, [success |-> stepSuccess,
                                                      output |-> stepOutput])]
    /\ IF (~stepSuccess /\ IsCritical(CurSteps[step])) \/ step = Len(CurSteps)
          THEN pc' = "criteria" /\ UNCHANGED step
          ELSE pc' = "cmd" /\ step' = step + 1
    /\ cmd' = 1
    /\ stepSuccess' = TRUE
    /\ stepOutput' = << >>
    /\ UNCHANGED <<now, disk, run, files, idx, success, exitCode, nsState,
                   owner, applied, reports, cleaned>>

\* run_scenario lines 165-188: every criterion is recorded with actual 0
\* and success True, so the overall flag is never lowered here.
EvaluateCriteria ==
    /\ pc = "criteria"
    /\ LET cs == Criteria[File]
           rs == [k \in 1..Len(cs) |->
                    [threshold |-> cs[k], actual |-> 0, success |-> TRUE]]
       IN results' = [results EXCEPT !.criteria = rs,
                         !.success = @ /\ \A k \in 1..Len(cs) : rs[k].success]
    /\ pc' = "save"
    /\ UNCHANGED <<now, disk, run, files, idx, success, exitCode, nsState,
                   owner, applied, step, cmd, stepSuccess, stepOutput,
                   reports, cleaned>>

\* main lines 237-240 with save_results lines 195-206: the record is
\* written to '<id>_<second>.json', replacing any file of that name (or
\* the write raises), then a failed result lowers 'success'.
SaveResults ==
    /\ pc = "save"
    /\ \/ LET rep == [run |-> run, idx |-> idx, file |-> File,
                      result |-> results]
          IN  /\ reports' = reports \cup {rep}
              /\ disk' = [disk EXCEPT ![<<IdOf[File], now>>] = {rep}]
              /\ success' = (success /\ results.success)
              /\ pc' = "cleanup"
       \/ Raise /\ UNCHANGED <<reports, disk>>
    /\ UNCHANGED <<now, run, files, idx, exitCode, nsState, owner, cleaned,
                   ScratchVars>>

\* cleanup_scenario line 193: 'kubectl delete namespace --timeout=60s'.
\* It returns once the namespace is gone; past the timeout the namespace
\* is left Terminating and the call raises; it may also fail outright.
CleanupScenario ==
    /\ pc = "cleanup"
    /\ \/ /\ nsState' = [nsState EXCEPT ![Ns] = "absent"]
          /\ owner' = [owner EXCEPT ![Ns] = NoOwner]
          /\ cleaned' = cleaned \cup {<<run, idx>>}
          /\ pc' = "next"
          /\ UNCHANGED success
       \/ /\ nsState' = [nsState EXCEPT ![Ns] = "terminating"]
          /\ Raise
          /\ UNCHANGED <<owner, cleaned>>
       \/ Raise /\ UNCHANGED <<nsState, owner, cleaned>>
    /\ UNCHANGED <<now, disk, run, files, idx, exitCode, reports, ScratchVars>>

\* main line 228: the loop moves to the next resolved file.
NextScenario ==
    /\ pc = "next"
    /\ idx < Len(files)
    /\ idx' = idx + 1
    /\ pc' = "load"
    /\ UNCHANGED <<now, disk, run, files, success, exitCode, nsState, owner,
                   reports, cleaned, ScratchVars>>

\* main lines 250-251: after the last file the exit status is 1 iff
\* 'success' was lowered.
Exit ==
    /\ pc = "next"
    /\ idx = Len(files)
    /\ pc' = "exited"
    /\ exitCode' = IF success THEN 0 ELSE 1
    /\ UNCHANGED <<now, disk, run, files, idx, success, nsState, owner,
                   reports, cleaned, ScratchVars>>

(***************************************************************************)
(* The environment: a signal ends the process between two calls (there is *)
(* no handler, so nothing is cleaned up); the process is invoked again on *)
(* the same cluster; the cluster finishes deleting a namespace.            *)
(***************************************************************************)
Kill ==
    /\ pc \notin {"exited", "killed"}
    /\ pc' = "killed"
    /\ UNCHANGED <<now, disk, run, files, idx, success, exitCode, nsState,
                   owner, reports, cleaned, ScratchVars>>

Invoke ==
    /\ pc \in {"exited", "killed"}
    /\ run < MaxRuns
    /\ run' = run + 1
    /\ pc' = "start"
    /\ idx' = 0
    /\ exitCode' = 0
    /\ UNCHANGED <<now, disk, files, success, nsState, owner, reports,
                   cleaned, ScratchVars>>

NamespaceGone(n) ==
    /\ nsState[n] = "terminating"
    /\ nsState' = [nsState EXCEPT ![n] = "absent"]
    /\ owner' = [owner EXCEPT ![n] = NoOwner]
    /\ UNCHANGED <<now, disk, pc, run, files, idx, success, exitCode, reports,
                   cleaned, ScratchVars>>

\* A second passes.
Tick ==
    /\ now < MaxTime
    /\ now' = now + 1
    /\ UNCHANGED <<pc, run, files, idx, success, exitCode, nsState, owner,
                   reports, cleaned, disk, ScratchVars>>

Next ==
    \/ Start \/ Load \/ CreateNamespace \/ ApplyManifest \/ StartRun
    \/ RunCommand \/ EndStep \/ EvaluateCriteria \/ SaveResults
    \/ CleanupScenario \/ NextScenario \/ Exit
    \/ Kill \/ Invoke \/ Tick
    \/ \E n \in Namespaces : NamespaceGone(n)

Spec == Init /\ [][Next]_vars

(***************************************************************************)
(* Fairness.  The process is sequential and never waits for anything but  *)
(* the call it is making, so each of its steps is taken once it is        *)
(* enabled -- provided every call returns.  kubectl delete is bounded by  *)
(* --timeout=60s; the step commands (line 145) and create/apply have no   *)
(* timeout, so FairSpec assumes they return.  A signal (Kill), a new      *)
(* invocation (Invoke) and the cluster's deletion (NamespaceGone) are the *)
(* environment's and are not assumed to happen.                           *)
(***************************************************************************)
FairSpec ==
    /\ Spec
    /\ WF_vars(Start) /\ WF_vars(Load) /\ WF_vars(CreateNamespace)
    /\ WF_vars(ApplyManifest) /\ WF_vars(StartRun) /\ WF_vars(RunCommand)
    /\ WF_vars(EndStep) /\ WF_vars(EvaluateCriteria) /\ WF_vars(SaveResults)
    /\ WF_vars(CleanupScenario) /\ WF_vars(NextScenario) /\ WF_vars(Exit)

(***************************************************************************)
(* Refinement mapping to the step executor of spec section 4.4: run_scenario *)
(* is executing while main is in its step or criteria loop; the executed  *)
(* definition is the current file's step list and the log is              *)
(* results['steps'].  StartRun is Begin, EndStep is Execute,              *)
(* EvaluateCriteria is End, Kill is Abandon and Invoke after a kill is    *)
(* Restart; every other step leaves the executor's state alone.           *)
(***************************************************************************)
Running == pc \in {"cmd", "criteria"}

ExecState ==
    IF Running THEN "running" ELSE IF pc = "killed" THEN "killed" ELSE "idle"

ExecDefs == IF Running THEN CurSteps ELSE << >>

ExecLog == results.steps

Executor == INSTANCE StepExecutor
    WITH Definitions <- {Steps[s] : s \in Scenarios},
         xstate <- ExecState, xdefs <- ExecDefs, xlog <- ExecLog


-----------------------------------------------------------------------------
(***************************************************************************)
(* Properties                                                              *)
(***************************************************************************)
TypeOK ==
    /\ pc \in Phases
    /\ run \in Runs
    /\ files \in Seq(Scenarios)
    /\ idx \in Nat
    /\ success \in BOOLEAN
    /\ exitCode \in {0, 1}
    /\ nsState \in [Namespaces -> {"absent", "active", "terminating"}]
    /\ owner \in [Namespaces -> Execution \cup {NoOwner}]
    /\ applied \in Nat
    /\ step \in Nat
    /\ cmd \in Nat
    /\ stepSuccess \in BOOLEAN
    /\ stepOutput \in Seq(Chunk)
    /\ results \in Result
    /\ reports \subseteq Report
    /\ cleaned \subseteq Execution
    /\ now \in 0..MaxTime
    /\ disk \in [ReportNames -> SUBSET Report]

(***************************************************************************)
(* IdxInRange: while main's for loop is executing a scenario, idx points  *)
(* into the resolved list scenario_files (lines 223-228): the loop never  *)
(* runs past its last file, nor starts on an empty list.                  *)
(***************************************************************************)
IdxInRange ==
    pc \in {"load", "create", "apply", "cmd", "criteria", "save", "cleanup",
            "next"} => idx \in 1..Len(files)

\* The spec's reading of a step's flag (section 3: 'critical' defaults to
\* true), stated independently of the code's IsCritical.
CriticalBySpec(st) == st.critical \in {"true", "unset"}

\* A step result 'e' is faithful to the step definition 'd': one output
\* chunk per executed command; a successful step ran all its commands and a
\* failed one stopped at its first failure.
FaithfulEntry(e, d) ==
    IF e.success
       THEN e.output = [j \in 1..d.ncmds |-> "out"]
       ELSE /\ Len(e.output) \in 1..d.ncmds
            /\ e.output[Len(e.output)] = "error"
            /\ \A j \in 1..Len(e.output) - 1 : e.output[j] = "out"

\* A step log 'log' recorded for the step definitions 'defs' is faithful:
\* each entry is; no step was run after a failed critical step; and when
\* the log is shorter than the definition, the step loop was cut by a
\* failed critical step.
FaithfulLog(log, defs) ==
    /\ Len(log) <= Len(defs)
    /\ \A k \in 1..Len(log) : FaithfulEntry(log[k], defs[k])
    /\ \A k \in 1..Len(log) - 1 : log[k].success \/ ~CriticalBySpec(defs[k])
    /\ Len(log) < Len(defs) =>
         /\ Len(log) > 0
         /\ ~log[Len(log)].success
         /\ CriticalBySpec(defs[Len(log)])

(***************************************************************************)
(* StepResultsFaithful: every saved result record lists exactly the steps *)
(* run_scenario executed: the steps before a failed critical step, in     *)
(* order, each with its commands' output up to the first failing command  *)
(* (scenario-runner.py lines 130-162, spec sections 4.4 and 8).           *)
(***************************************************************************)
StepResultsFaithful ==
    \A rep \in reports : FaithfulLog(rep.result.steps, Steps[rep.file])

(***************************************************************************)
(* ReportSuccessFaithful: a saved record claims success exactly when every *)
(* step it lists and every criterion it lists succeeded (spec section 3;  *)
(* results['success'] is lowered at line 150 and line 185).               *)
(***************************************************************************)
ReportSuccessFaithful ==
    \A rep \in reports :
        rep.result.success <=>
            /\ \A k \in 1..Len(rep.result.steps) : rep.result.steps[k].success
            /\ \A k \in 1..Len(rep.result.criteria) :
                   rep.result.criteria[k].success

(***************************************************************************)
(* ExitStatusFaithful: when an invocation exits, its status is 0 exactly  *)
(* when it resolved at least one file and, for every file, a successful   *)
(* record of this invocation was saved and the namespace delete returned  *)
(* normally (main lines 223-251, spec sections 6 and 7).                   *)
(***************************************************************************)
ExitStatusFaithful ==
    pc = "exited" =>
        (exitCode = 0 <=>
            /\ Len(files) > 0
            /\ \A k \in 1..Len(files) :
                 /\ \E rep \in reports :
                       rep.run = run /\ rep.idx = k /\ rep.result.success
                 /\ <<run, k>> \in cleaned)

(***************************************************************************)
(* OwnNamespace: from namespace creation until cleanup, the scenario being *)
(* executed works in a namespace that exists and that this very execution *)
(* created, never one left over by an earlier file with the same derived *)
(* name or by an earlier, killed invocation (line 103's check=True).      *)
(***************************************************************************)
OwnNamespace ==
    pc \in {"apply", "cmd", "criteria", "save", "cleanup"} =>
        /\ nsState[Ns] = "active"
        /\ owner[Ns] = <<run, idx>>

(***************************************************************************)
(* NoForeignDelete: the driver only ever deletes the namespace its current *)
(* execution created: a namespace stops being active only in              *)
(* cleanup_scenario of the execution that owns it.                         *)
(***************************************************************************)
OwnerDeletes ==
    \A n \in Namespaces :
        nsState[n] = "active" /\ nsState'[n] # "active" =>
            /\ pc = "cleanup"
            /\ n = Ns
            /\ owner[n] = <<run, idx>>

NoForeignDelete == [][OwnerDeletes]_vars

(***************************************************************************)
(* ImplementsExecutor: run_scenario's step loop implements the executor   *)
(* contract of spec section 4.4 at every step, not only in the saved      *)
(* record: steps are recorded one at a time in list order, each with all *)
(* its commands' output or up to its first failure, none after a failed  *)
(* critical step, and the criteria are reached only once the list is      *)
(* complete or aborted (lines 130-162).                                    *)
(***************************************************************************)
ImplementsExecutor == Executor!XSpec

(***************************************************************************)
(* ExecutorCompletes: under FairSpec, every step list run_scenario starts *)
(* is executed to its end (complete or aborted) unless a signal abandons  *)
(* it: the command and step loops cannot stall.                            *)
(***************************************************************************)
ExecutorCompletes == Executor!XFairSpec

(***************************************************************************)
(* InvocationTerminates: under FairSpec, every invocation of the process  *)
(* ends -- it exits or is killed -- whatever the cluster does: failing    *)
(* calls, a Terminating namespace that blocks create, delete timeouts.    *)
(***************************************************************************)
InvocationTerminates == pc = "start" ~> pc \in {"exited", "killed"}

-----------------------------------------------------------------------------
(***************************************************************************)
(* What the spec says and the code does not do (violation runs).           *)
(***************************************************************************)

(***************************************************************************)
(* NoReportOverwritten: spec sections 4.6 and 8: the report path is       *)
(* unique per (scenario id, second), so a saved report is never          *)
(* overwritten by another scenario's.  save_results names the file by    *)
(* results['scenario_id'] (default 'unknown') and the second (lines       *)
(* 198-203): every record it wrote is still in some file.                 *)
(***************************************************************************)
NoReportOverwritten ==
    \A rep \in reports : \E nm \in ReportNames : rep \in disk[nm]

(***************************************************************************)
(* NamespaceReleased: spec section 3 says the namespace is destroyed at    *)
(* cleanup regardless of the run's outcome; when an invocation exits, no  *)
(* namespace it created is left in the cluster.  main only reaches        *)
(* cleanup_scenario (line 243) when setup, run and save all returned.     *)
(***************************************************************************)
NamespaceReleased ==
    pc = "exited" => \A n \in Namespaces : owner[n][1] # run

(***************************************************************************)
(* CriteriaMeetThresholds: spec sections 4.5 and 8: a criterion succeeds  *)
(* only when its observed value is at least its threshold.  The code      *)
(* records actual 0 and success True for every criterion (lines 171-175). *)
(***************************************************************************)
CriteriaMeetThresholds ==
    \A rep \in reports :
        \A k \in 1..Len(rep.result.criteria) :
            LET c == rep.result.criteria[k]
            IN  c.success => c.actual >= c.threshold

=============================================================================
