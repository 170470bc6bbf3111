------------------------ MODULE FailingTestValidator ------------------------
(***************************************************************************)
(* TestValidator of src/.bot/scripts/validate-failing-test.py: the         *)
(* pre-flight linter of a scenario directory.  validate() runs its five   *)
(* checks in order; every check appends to the shared lists self.errors   *)
(* and self.warnings and returns a flag, and the process exits 0 iff all  *)
(* five flags were true.                                                   *)
(*                                                                         *)
(* The directory is an input chosen in Init and never changed: which files *)
(* exist and, for the definition, which of the requirements of the spec's *)
(* section 6 it meets.  Messages are abstracted to their kind.             *)
(***************************************************************************)
EXTENDS Naturals, Sequences

CONSTANT DirShapes   \* the scenario directories to validate

Sections == {"metadata", "requirements", "steps", "success_criteria"}

\* The value null of a list-valued section.
Null == [kind : {"null"}]

\* A 'steps' list: its length, whether some step's commands hold
\* 'kubectl apply' resp. 'verify', and whether every step has a name.
StepsShape ==
    [kind : {"list"}, n : Nat, deploy : BOOLEAN, verify : BOOLEAN,
     named : BOOLEAN]

\* A 'success_criteria' list: its length, and whether every criterion has
\* its name, threshold and metric.
CriteriaShape == [kind : {"list"}, n : Nat, complete : BOOLEAN]

\* What yaml.safe_load makes of scenario_definition.yaml: a YAML error, an
\* empty document (None), or a mapping with these sections present.
DefShape ==
    [parse : {"error", "null"}]
    \cup [parse : {"mapping"}, sections : SUBSET Sections,
          meta : BOOLEAN,                     \* name ... eidc_references
          id : {"absent", "conforming", "nonconforming", "nonstring"},
          cluster : {"absent", "kind", "other"},
          components : BOOLEAN,
          steps : Null \cup StepsShape,
          criteria : Null \cup CriteriaShape]

DirShape ==
    [exists : BOOLEAN, hasDef : BOOLEAN,
     k8s : {"absent", "empty", "files"},        \* k8s/*.yaml + k8s/*.yml
     k8sDocs : {"ok", "incomplete", "unparsable"},
     verify : {"none", "complete", "incomplete"}, \* first verify*.py
     pyError : BOOLEAN,                         \* some *.py fails py_compile
     lint : {"absent", "clean", "issues"},      \* yamllint
     def : DefShape]

ASSUME DirShapesAssumption == DirShapes \subseteq DirShape

VARIABLES
    dir,        \* the scenario directory (constant along a behaviour)
    pc,         \* the check validate() is about to call
    errors,     \* self.errors
    warnings,   \* self.warnings
    allPassed,  \* validate()'s all_passed
    exitCode    \* the status of sys.exit

vars == <<dir, pc, errors, warnings, allPassed, exitCode>>

Opt(b, e) == IF b THEN <<e>> ELSE << >>

\* One part of validate_scenario_definition: the errors it appends and
\* whether it then raises (a TypeError from a None or non-string value).
Seg(errs, raises) == [errs |-> errs, raises |-> raises]

\* Lines 76-79: one error per missing section, in the order of
\* required_sections.
SectionsSeg(d) ==
    LET Missing(sec) == Opt(sec \notin d.sections, "section_missing")
    IN  Seg(Missing("metadata") \o Missing("requirements") \o Missing("steps")
              \o Missing("success_criteria"),
            FALSE)

\* Lines 82-93: re.match on a non-string id raises.
MetadataSeg(d) ==
    IF "metadata" \notin d.sections THEN Seg(<< >>, FALSE)
    ELSE Seg(Opt(~d.meta \/ d.id = "absent", "metadata_field")
               \o Opt(d.id = "nonconforming", "id_format"),
             d.id = "nonstring")

\* Lines 96-104.
RequirementsSeg(d) ==
    IF "requirements" \notin d.sections THEN Seg(<< >>, FALSE)
    ELSE Seg(Opt(d.cluster = "absent", "cluster_missing")
               \o Opt(d.cluster = "other", "cluster_invalid")
               \o Opt(~d.components, "components_missing"),
             FALSE)

\* A faulty variant: 'len(steps) <= 3' for 'len(steps) < 3'.
StepsSegOffByOne(d) ==
    IF "steps" \notin d.sections THEN Seg(<< >>, FALSE)
    ELSE IF d.steps.kind = "null" THEN Seg(<<"steps_insufficient">>, TRUE)
    ELSE Seg(Opt(d.steps.n <= 3, "steps_insufficient")
               \o Opt(~d.steps.deploy, "no_deploy")
               \o Opt(~d.steps.verify, "no_verify"),
             FALSE)

\* Lines 107-120: 'steps: null' is reported, then iterating None raises.
StepsSeg(d) ==
    IF "steps" \notin d.sections THEN Seg(<< >>, FALSE)
    ELSE IF d.steps.kind = "null" THEN Seg(<<"steps_insufficient">>, TRUE)
    ELSE Seg(Opt(d.steps.n < 3, "steps_insufficient")
               \o Opt(~d.steps.deploy, "no_deploy")
               \o Opt(~d.steps.verify, "no_verify"),
             FALSE)

\* Lines 123-134: likewise for 'success_criteria: null'.
CriteriaSeg(d) ==
    IF "success_criteria" \notin d.sections THEN Seg(<< >>, FALSE)
    ELSE IF d.criteria.kind = "null" THEN Seg(<<"no_criteria">>, TRUE)
    ELSE Seg(Opt(d.criteria.n < 1, "no_criteria")
               \o Opt(~d.criteria.complete, "criterion_field"),
             FALSE)

(***************************************************************************)
(* validate_scenario_definition (lines 66-143) for a readable file: the   *)
(* errors it appends, up to the first part that raises, where the generic *)
(* handler adds its own error; and whether it raised.                      *)
(***************************************************************************)
DefinitionResult(d) ==
    IF d.parse = "error" THEN Seg(<<"parse_error">>, TRUE)
    ELSE IF d.parse = "null" THEN Seg(<<"unexpected">>, TRUE)
    ELSE
      LET segs == <<SectionsSeg(d), MetadataSeg(d), RequirementsSeg(d),
                    StepsSeg(d), CriteriaSeg(d)>>
          raising == {j \in 1..5 : segs[j].raises}
          last == IF raising = {} THEN 5
                  ELSE CHOOSE j \in raising : \A i \in raising : j <= i
          \* the errors of part j, if it ran
          Ran(j) == IF j <= last THEN segs[j].errs ELSE << >>
      IN  Seg(Ran(1) \o Ran(2) \o Ran(3) \o Ran(4) \o Ran(5)
                \o Opt(raising # {}, "unexpected"),
              raising # {})

\* A check returns 'ret' after appending 'errs' and 'warns'.
Record(errs, warns, ret) ==
    /\ errors' = errors \o errs
    /\ warnings' = warnings \o warns
    /\ allPassed' = (allPassed /\ ret)

\* A faulty variant: check_syntax returning True, as the script check does.
CheckSyntaxAlwaysTrue ==
    /\ pc = "syntax"
    /\ Record(Opt(dir.exists /\ dir.pyError, "py_syntax"),
              Opt(dir.exists /\ dir.lint = "issues", "lint"), TRUE)
    /\ pc' = "report"
    /\ UNCHANGED <<dir, exitCode>>

Init ==
    /\ dir \in DirShapes
    /\ pc = "structure"
    /\ errors = << >>
    /\ warnings = << >>
    /\ allPassed = TRUE
    /\ exitCode = 0

\* check_directory_structure (lines 39-64): a missing directory or
\* definition is an error and returns at once; a missing or empty k8s
\* directory is only a warning.
CheckDirectoryStructure ==
    /\ pc = "structure"
    /\ IF ~dir.exists THEN Record(<<"no_directory">>, << >>, FALSE)
       ELSE IF ~dir.hasDef THEN Record(<<"required_file">>, << >>, FALSE)
       ELSE Record(<< >>, Opt(dir.k8s # "files", "k8s"), errors = << >>)
    /\ pc' = "definition"
    /\ UNCHANGED <<dir, exitCode>>

\* validate_scenario_definition (lines 66-143): opening a missing file
\* raises into the generic handler; any raise returns False, otherwise
\* the result is whether no error at all has been recorded so far.
ValidateScenarioDefinition ==
    /\ pc = "definition"
    /\ IF ~(dir.exists /\ dir.hasDef)
          THEN Record(<<"unexpected">>, << >>, FALSE)
          ELSE LET r == DefinitionResult(dir.def)
               IN  Record(r.errs, << >>, ~r.raises /\ errors \o r.errs = << >>)
    /\ pc' = "script"
    /\ UNCHANGED <<dir, exitCode>>

\* check_verification_script (lines 145-183): only warnings; always True.
CheckVerificationScript ==
    /\ pc = "script"
    /\ Record(<< >>, Opt(~dir.exists \/ dir.verify # "complete", "script"), TRUE)
    /\ pc' = "k8s"
    /\ UNCHANGED <<dir, exitCode>>

\* check_k8s_resources (lines 185-229): a manifest that does not parse is
\* an error, a document without kind or metadata.name a warning.
CheckK8sResources ==
    /\ pc = "k8s"
    /\ IF ~dir.exists \/ dir.k8s # "files"
          THEN Record(<< >>, << >>, TRUE)
          ELSE LET errs == Opt(dir.k8sDocs = "unparsable", "k8s_parse")
               IN  Record(errs, Opt(dir.k8sDocs = "incomplete", "k8s_doc"),
                          errors \o errs = << >>)
    /\ pc' = "syntax"
    /\ UNCHANGED <<dir, exitCode>>

\* check_syntax (lines 231-278): py_compile failures are errors, yamllint
\* findings warnings; the result counts every error recorded so far.
CheckSyntax ==
    /\ pc = "syntax"
    /\ LET errs == Opt(dir.exists /\ dir.pyError, "py_syntax")
       IN  Record(errs, Opt(dir.exists /\ dir.lint = "issues", "lint"),
                  errors \o errs = << >>)
    /\ pc' = "report"
    /\ UNCHANGED <<dir, exitCode>>

\* validate() returns all_passed (line 297); the script prints the lists
\* and exits with 0 iff it was true (lines 326-332).
Finish ==
    /\ pc = "report"
    /\ pc' = "exited"
    /\ exitCode' = IF allPassed THEN 0 ELSE 1
    /\ UNCHANGED <<dir, errors, warnings, allPassed>>

Next ==
    \/ CheckDirectoryStructure \/ ValidateScenarioDefinition
    \/ CheckVerificationScript \/ CheckK8sResources \/ CheckSyntax \/ Finish

Spec == Init /\ [][Next]_vars

-----------------------------------------------------------------------------
\* Section 6's requirements on a scenario definition, read from the spec.
Conformant(d) ==
    /\ d.parse = "mapping"
    /\ d.sections = Sections
    /\ d.meta /\ d.id = "conforming"
    /\ d.cluster = "kind" /\ d.components
    /\ d.steps.kind = "list"
    /\ d.steps.n >= 3 /\ d.steps.deploy /\ d.steps.verify /\ d.steps.named
    /\ d.criteria.kind = "list"
    /\ d.criteria.n >= 1 /\ d.criteria.complete

\* A directory whose other files give the linter no reason to fail.
SoundFiles(sd) ==
    /\ sd.exists /\ sd.hasDef /\ ~sd.pyError
    /\ sd.k8s = "files" => sd.k8sDocs # "unparsable"

(***************************************************************************)
(* ExitStatusReflectsErrors: the script exits 0 exactly when it recorded  *)
(* no error: every check's return value, which validate() conjoins, must  *)
(* agree with the shared error list the script prints (lines 284-297).    *)
(***************************************************************************)
ExitStatusReflectsErrors ==
    pc = "exited" => (exitCode = 0 <=> errors = << >>)

(***************************************************************************)
(* NoFalseRejection: a definition that meets every requirement of spec    *)
(* section 6, in a directory whose other files are sound, passes.         *)
(***************************************************************************)
NoFalseRejection ==
    pc = "exited" /\ Conformant(dir.def) /\ SoundFiles(dir) => exitCode = 0

(***************************************************************************)
(* NoFalseAcceptance: a directory the script passes holds a definition    *)
(* that meets every requirement of spec section 6, steps' names included. *)
(***************************************************************************)
NoFalseAcceptance ==
    pc = "exited" /\ exitCode = 0 => Conformant(dir.def)

=============================================================================
