---------------------------- MODULE StepExecutor ----------------------------
(***************************************************************************)
(* The step executor's contract, spec section 4.4:                        *)
(* execute(definition) -> ordered list of StepResult.  Each step, in list *)
(* order, either runs all its commands or stops at its first failing       *)
(* command, whose output is an error marker; once a step fails and is     *)
(* critical ('critical' defaults to true, section 3) no further step is    *)
(* attempted.  One execution appends one StepResult per step; it ends     *)
(* when the list is complete or aborted.  A signal may kill the process   *)
(* hosting the executor at any point, abandoning a running execution, and *)
(* the process may then be invoked again.                                  *)
(*                                                                         *)
(* This is the abstract specification ScenarioRunner's run_scenario is    *)
(* shown to implement (ScenarioRunner!Executor).                           *)
(***************************************************************************)
EXTENDS Naturals, Sequences

CONSTANT Definitions   \* the step lists a scenario definition can hold

VARIABLES
    xstate,   \* "idle", "running" or "killed"
    xdefs,    \* the step list being executed (<< >> when idle)
    xlog      \* the StepResults of the current or last execution

xvars == <<xstate, xdefs, xlog>>

\* Section 3: a step is critical unless its flag says false.
Critical(st) == st.critical \in {"true", "unset"}

\* The possible results of a step with st.ncmds commands: all succeed, or
\* the f-th is the first to fail and nothing after it runs.
Outcomes(st) ==
    {[success |-> TRUE, output |-> [j \in 1..st.ncmds |-> "out"]]}
    \cup {[success |-> FALSE,
           output |-> [j \in 1..f |-> IF j = f THEN "error" ELSE "out"]] :
          f \in 1..st.ncmds}

\* The last recorded step failed and was critical: early termination.
Aborted ==
    /\ Len(xlog) > 0
    /\ ~xlog[Len(xlog)].success
    /\ Critical(xdefs[Len(xlog)])

Finished == Len(xlog) = Len(xdefs) \/ Aborted

XInit ==
    /\ xstate = "idle"
    /\ xdefs = << >>
    /\ xlog = << >>

Begin ==
    /\ xstate = "idle"
    /\ xstate' = "running"
    /\ xdefs' \in Definitions
    /\ xlog' = << >>

\* The next step in list order is executed and its result recorded.
Execute ==
    /\ xstate = "running"
    /\ ~Finished
    /\ \E r \in Outcomes(xdefs[Len(xlog) + 1]) : xlog' = Append(xlog, r)
    /\ UNCHANGED <<xstate, xdefs>>

End ==
    /\ xstate = "running"
    /\ Finished
    /\ xstate' = "idle"
    /\ xdefs' = << >>
    /\ UNCHANGED xlog

\* A signal: a running execution is abandoned where it stands.
Abandon ==
    /\ xstate \in {"idle", "running"}
    /\ xstate' = "killed"
    /\ xdefs' = << >>
    /\ UNCHANGED xlog

Restart ==
    /\ xstate = "killed"
    /\ xstate' = "idle"
    /\ UNCHANGED <<xdefs, xlog>>

XNext == Begin \/ Execute \/ End \/ Abandon \/ Restart

XSpec == XInit /\ [][XNext]_xvars

\* An execution that is not abandoned runs to its end.
XFairSpec == XSpec /\ WF_xvars(Execute) /\ WF_xvars(End)

=============================================================================
