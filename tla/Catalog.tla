------------------------------ MODULE Catalog ------------------------------
(***************************************************************************)
(* find_scenarios of src/tf-k8s/scripts/scenario-runner.py (lines 19-89):  *)
(* the scenario catalog that turns the --group and --scenario arguments    *)
(* into the list of definition files main() executes.                      *)
(*                                                                         *)
(* The filesystem (which directories hold a scenario_definition.yaml under *)
(* enabled/ and under pending/) and the arguments are chosen in Init; the  *)
(* function's control is then one step per glob and per iteration of the  *)
(* group loop.  glob.glob returns matches in directory-listing order,      *)
(* which Python leaves unspecified: every order is a possible result.      *)
(***************************************************************************)
EXTENDS Naturals, Sequences, SequencesExt

CONSTANTS
    Dirs,       \* scenario directory names
    Groups,     \* SCENARIO_GROUPS: group name -> ordered scenario ids
    GroupArgs,  \* values of --group (table names and other strings)
    IdArgs,     \* values of --scenario
    NoId,       \* --scenario not given
    Matches,    \* directories the pattern '<dir>/<id>/...' matches, per id
    Prefixed    \* directories the pattern '<dir>/<group>*/...' matches

ASSUME GroupsAssumption == Groups \in [DOMAIN Groups -> Seq(Dirs)]
ASSUME ArgsAssumption ==
    /\ DOMAIN Groups \subseteq GroupArgs
    /\ NoId \in IdArgs
    /\ Matches \in [IdArgs \ {NoId} -> SUBSET Dirs]
    /\ Prefixed \in [GroupArgs -> SUBSET Dirs]

VARIABLES
    enabled,    \* directories with a definition under scenarios/enabled
    pending,    \* directories with a definition under scenarios/pending
    group,      \* args.group
    sid,        \* args.scenario
    pc,         \* "find" (entry), "loop" (group loop), "done" (returned)
    i,          \* index of the group loop over SCENARIO_GROUPS[group]
    scenarios,  \* the list being returned
    messages    \* WARNING/ERROR lines printed, in order

vars == <<enabled, pending, group, sid, pc, i, scenarios, messages>>

\* The printed diagnostics, abstracted to their kind and the id they name.
Message == [kind : {"pending", "notfound", "missing"}, id : IdArgs \cup Dirs]

\* glob.glob(pattern) for the set S of existing matches: any listing order.
Glob(S) == SetToSeqs(S)

\* A faulty variant: the pending/ lookup left out, every miss is an ERROR.
FindByIdNoPending ==
    /\ pc = "find"
    /\ sid # NoId
    /\ \E found \in Glob(Matches[sid] \cap enabled) :
          /\ scenarios' = found
          /\ messages' = IF found # << >> THEN << >>
                         ELSE <<[kind |-> "notfound", id |-> sid]>>
    /\ pc' = "done"
    /\ UNCHANGED <<enabled, pending, group, sid, i>>

Init ==
    /\ enabled \in SUBSET Dirs
    /\ pending \in SUBSET Dirs
    /\ group \in GroupArgs
    /\ sid \in IdArgs
    /\ pc = "find"
    /\ i = 0
    /\ scenarios = << >>
    /\ messages = << >>

\* Lines 61-73: a --scenario id is looked up under enabled/; when nothing
\* is there, pending/ is globbed only to choose the message.
FindById ==
    /\ pc = "find"
    /\ sid # NoId
    /\ \E found \in Glob(Matches[sid] \cap enabled) :
          /\ scenarios' = found
          /\ messages' =
                IF found # << >> THEN << >>
                ELSE IF Matches[sid] \cap pending # {}
                     THEN <<[kind |-> "pending", id |-> sid]>>
                     ELSE <<[kind |-> "notfound", id |-> sid]>>
    /\ pc' = "done"
    /\ UNCHANGED <<enabled, pending, group, sid, i>>

\* Lines 76-77: a table group starts the loop over its ids.
FindGroup ==
    /\ pc = "find"
    /\ sid = NoId
    /\ group \in DOMAIN Groups
    /\ pc' = "loop"
    /\ i' = 1
    /\ UNCHANGED <<enabled, pending, group, sid, scenarios, messages>>

\* Lines 78-84: one listed id; the ids of the table hold no glob
\* characters, so the pattern matches that directory alone.
GroupLoop ==
    /\ pc = "loop"
    /\ i <= Len(Groups[group])
    /\ LET id == Groups[group][i]
       IN  IF id \in enabled
              THEN /\ scenarios' = Append(scenarios, id)
                   /\ UNCHANGED messages
              ELSE /\ messages' = Append(messages, [kind |-> "missing", id |-> id])
                   /\ UNCHANGED scenarios
    /\ i' = i + 1
    /\ UNCHANGED <<enabled, pending, group, sid, pc>>

\* Line 85: the loop is over and the list is returned.
GroupDone ==
    /\ pc = "loop"
    /\ i > Len(Groups[group])
    /\ pc' = "done"
    /\ UNCHANGED <<enabled, pending, group, sid, i, scenarios, messages>>

\* Lines 86-89: any other group name is a directory-name prefix.
FindWildcard ==
    /\ pc = "find"
    /\ sid = NoId
    /\ group \notin DOMAIN Groups
    /\ \E found \in Glob(Prefixed[group] \cap enabled) : scenarios' = found
    /\ pc' = "done"
    /\ UNCHANGED <<enabled, pending, group, sid, i, messages>>

Next ==
    \/ FindById \/ FindGroup \/ GroupLoop \/ GroupDone \/ FindWildcard

Spec == Init /\ [][Next]_vars

-----------------------------------------------------------------------------
\* TypeOK: find_scenarios only ever returns enabled-directory files and
\* prints diagnostics of the three kinds it has.
TypeOK ==
    /\ enabled \subseteq Dirs /\ pending \subseteq Dirs
    /\ group \in GroupArgs /\ sid \in IdArgs
    /\ pc \in {"find", "loop", "done"}
    /\ i \in Nat
    /\ scenarios \in Seq(Dirs)
    /\ messages \in Seq(Message)

\* The ids of 'ids' that are enabled, in table order.
EnabledOf(ids) == SelectSeq(ids, LAMBDA d : d \in enabled)

\* The ids of 'ids' that are not, each with its WARNING.
MissingOf(ids) ==
    LET miss == SelectSeq(ids, LAMBDA d : d \notin enabled)
    IN  [k \in 1..Len(miss) |-> [kind |-> "missing", id |-> miss[k]]]

(***************************************************************************)
(* CatalogContract: what find_scenarios returns and prints, stated as the *)
(* spec's resolve(group, scenarioId?) (section 4.1): a single id yields   *)
(* that scenario when it is enabled and otherwise nothing, with a pending *)
(* warning distinct from a not-found error; a table group yields its      *)
(* enabled ids in table order and one warning per omitted id, in order;   *)
(* any other group yields each enabled directory with that prefix once.   *)
(***************************************************************************)
CatalogContract ==
    pc = "done" =>
        CASE sid # NoId ->
               /\ scenarios = IF sid \in enabled THEN <<sid>> ELSE << >>
               /\ messages =
                    IF sid \in enabled THEN << >>
                    ELSE IF sid \in pending
                         THEN <<[kind |-> "pending", id |-> sid]>>
                         ELSE <<[kind |-> "notfound", id |-> sid]>>
          [] group \in DOMAIN Groups ->
               /\ scenarios = EnabledOf(Groups[group])
               /\ messages = MissingOf(Groups[group])
          [] OTHER ->
               /\ ToSet(scenarios) = Prefixed[group] \cap enabled
               /\ Len(scenarios) = Cardinality(ToSet(scenarios))
               /\ messages = << >>

=============================================================================
