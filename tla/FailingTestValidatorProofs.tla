------------------- MODULE FailingTestValidatorProofs -------------------
(***************************************************************************)
(* Proofs about validate-failing-test.py: the exit status agrees with the  *)
(* error list for every scenario directory, and a directory that meets    *)
(* every requirement of the spec's section 6 passes.                      *)
(***************************************************************************)
EXTENDS FailingTestValidator, TLAPS

\* The kinds of error message the checks append.
ErrorKinds ==
    {"no_directory", "required_file", "section_missing", "metadata_field",
     "id_format", "cluster_missing", "cluster_invalid", "components_missing",
     "steps_insufficient", "no_deploy", "no_verify", "no_criteria",
     "criterion_field", "parse_error", "unexpected", "k8s_parse", "py_syntax"}

\* The appended messages form a list of error kinds.
LEMMA ErrorListsTyped ==
    /\ << >> \in Seq(ErrorKinds)
    /\ \A b : \A e \in ErrorKinds : Opt(b, e) \in Seq(ErrorKinds)
    /\ \A s, t \in Seq(ErrorKinds) : s \o t \in Seq(ErrorKinds)
BY DEF Opt

\* The five parts of validate_scenario_definition, in order.
Parts(d) == <<SectionsSeg(d), MetadataSeg(d), RequirementsSeg(d),
              StepsSeg(d), CriteriaSeg(d)>>

\* Every part of a parsed definition appends error messages and either
\* raises or not.
LEMMA PartsTyped ==
    ASSUME NEW d \in DefShape, d.parse = "mapping"
    PROVE  \A j \in 1..5 : /\ Parts(d)[j].errs \in Seq(ErrorKinds)
                           /\ Parts(d)[j].raises \in BOOLEAN
<1>1. d \in [parse : {"mapping"}, sections : SUBSET Sections,
             meta : BOOLEAN,
             id : {"absent", "conforming", "nonconforming", "nonstring"},
             cluster : {"absent", "kind", "other"},
             components : BOOLEAN,
             steps : Null \cup StepsShape,
             criteria : Null \cup CriteriaShape]
  BY DEF DefShape
<1>2. \A b : \A e \in ErrorKinds : Opt(b, e) \in Seq(ErrorKinds)
  BY DEF Opt
<1>0. \A s, t \in Seq(ErrorKinds) : s \o t \in Seq(ErrorKinds)
  OBVIOUS
<1>9. /\ << >> \in Seq(ErrorKinds)
      /\ \A e \in ErrorKinds : <<e>> \in Seq(ErrorKinds)
  OBVIOUS
<1>8. /\ d.steps \in Null \cup StepsShape
      /\ d.criteria \in Null \cup CriteriaShape
  BY <1>1
<1>3. SectionsSeg(d).errs \in Seq(ErrorKinds) /\ SectionsSeg(d).raises = FALSE
  BY <1>0, <1>2 DEF SectionsSeg, Seg, ErrorKinds
<1>4. MetadataSeg(d).errs \in Seq(ErrorKinds) /\ MetadataSeg(d).raises \in BOOLEAN
  BY <1>0, <1>2, <1>9 DEF MetadataSeg, Seg, ErrorKinds
<1>5. RequirementsSeg(d).errs \in Seq(ErrorKinds)
      /\ RequirementsSeg(d).raises = FALSE
  BY <1>0, <1>2, <1>9 DEF RequirementsSeg, Seg, ErrorKinds
<1>6. StepsSeg(d).errs \in Seq(ErrorKinds) /\ StepsSeg(d).raises \in BOOLEAN
  BY <1>0, <1>2, <1>8, <1>9 DEF StepsSeg, Seg, ErrorKinds, StepsShape, Null
<1>7. CriteriaSeg(d).errs \in Seq(ErrorKinds) /\ CriteriaSeg(d).raises \in BOOLEAN
  BY <1>0, <1>2, <1>8, <1>9 DEF CriteriaSeg, Seg, ErrorKinds, CriteriaShape, Null
<1>10. 1..5 = {1, 2, 3, 4, 5}
  OBVIOUS
<1>11. /\ Parts(d)[1] = SectionsSeg(d) /\ Parts(d)[2] = MetadataSeg(d)
       /\ Parts(d)[3] = RequirementsSeg(d) /\ Parts(d)[4] = StepsSeg(d)
       /\ Parts(d)[5] = CriteriaSeg(d)
  BY DEF Parts
<1>. QED
  BY <1>3, <1>4, <1>5, <1>6, <1>7, <1>10, <1>11, Zenon

\* The parts of validate_scenario_definition that raise, the first of them
\* (or the last part when none does), and the errors of part j if it ran.
Raising(d) == {j \in 1..5 : Parts(d)[j].raises}

LastRun(d) ==
    IF Raising(d) = {} THEN 5
    ELSE CHOOSE j \in Raising(d) : \A i \in Raising(d) : j <= i

Ran(d, j) == IF j <= LastRun(d) THEN Parts(d)[j].errs ELSE << >>

\* The errors the parts append before the handler's own message.
DefErrors(d) == Ran(d, 1) \o Ran(d, 2) \o Ran(d, 3) \o Ran(d, 4) \o Ran(d, 5)

LEMMA MappingResult ==
    ASSUME NEW d \in DefShape, d.parse = "mapping"
    PROVE  /\ DefinitionResult(d).errs =
                DefErrors(d) \o Opt(Raising(d) # {}, "unexpected")
           /\ DefinitionResult(d).raises = (Raising(d) # {})
BY DEF DefinitionResult, DefErrors, Ran, LastRun, Raising, Parts, Seg

(***************************************************************************)
(* RaisingAppends: when validate_scenario_definition raises -- a YAML      *)
(* error, an empty document, a non-string id, a null list -- the handler  *)
(* leaves a message in self.errors, so a False return never comes with an *)
(* empty error list (lines 136-141).                                       *)
(***************************************************************************)
LEMMA RaisingAppends ==
    ASSUME NEW d \in DefShape
    PROVE  /\ DefinitionResult(d).errs \in Seq(ErrorKinds)
           /\ DefinitionResult(d).raises \in BOOLEAN
           /\ DefinitionResult(d).raises => DefinitionResult(d).errs # << >>
<1>1. CASE d.parse = "error"
  <2>1. DefinitionResult(d) = Seg(<<"parse_error">>, TRUE)
    BY <1>1 DEF DefinitionResult
  <2>. QED
    BY <2>1 DEF Seg, ErrorKinds
<1>3. CASE d.parse = "null"
  <2>1. DefinitionResult(d) = Seg(<<"unexpected">>, TRUE)
    BY <1>3 DEF DefinitionResult
  <2>. QED
    BY <2>1 DEF Seg, ErrorKinds
<1>2. CASE d.parse = "mapping"
  <2> DEFINE raising == Raising(d)
  <2>1. DefErrors(d) \in Seq(ErrorKinds)
    <3>1. \A j \in 1..5 : Parts(d)[j].errs \in Seq(ErrorKinds)
      BY <1>2, PartsTyped
    <3>2. \A s, t \in Seq(ErrorKinds) : s \o t \in Seq(ErrorKinds)
      OBVIOUS
    <3>3. << >> \in Seq(ErrorKinds)
      OBVIOUS
    <3>4. \A j \in 1..5 : Ran(d, j) \in Seq(ErrorKinds)
      BY <3>1, <3>3 DEF Ran
    <3>. QED
      BY <3>2, <3>4 DEF DefErrors
  <2>2. Opt(raising # {}, "unexpected") \in Seq(ErrorKinds)
    BY ErrorListsTyped DEF ErrorKinds
  <2>3. raising # {} => DefErrors(d) \o Opt(raising # {}, "unexpected") # << >>
    BY <2>1 DEF Opt
  <2>4. /\ DefinitionResult(d).errs =
             DefErrors(d) \o Opt(raising # {}, "unexpected")
        /\ DefinitionResult(d).raises = (raising # {})
    BY <1>2, MappingResult, Zenon DEF raising
  <2>5. DefErrors(d) \o Opt(raising # {}, "unexpected") \in Seq(ErrorKinds)
    BY <2>1, <2>2, ErrorListsTyped
  <2>. QED
    BY <2>3, <2>4, <2>5, Zenon
<1>. QED
  BY <1>1, <1>2, <1>3 DEF DefShape

(***************************************************************************)
(* ConformantPasses: a definition that meets every requirement of section *)
(* 6 makes none of the five parts of validate_scenario_definition append  *)
(* an error or raise (lines 76-134).                                       *)
(***************************************************************************)
LEMMA ConformantPasses ==
    ASSUME NEW d \in DefShape, Conformant(d)
    PROVE  DefinitionResult(d).errs = << >> /\ ~DefinitionResult(d).raises
<1>1. /\ d.parse = "mapping" /\ d.sections = Sections
      /\ d.meta /\ d.id = "conforming" /\ d.cluster = "kind" /\ d.components
      /\ d.steps.kind = "list" /\ d.steps.n >= 3
      /\ d.steps.deploy /\ d.steps.verify
      /\ d.criteria.kind = "list" /\ d.criteria.n >= 1 /\ d.criteria.complete
  BY DEF Conformant
<1>2. /\ d.meta = TRUE /\ d.components = TRUE
      /\ d.steps.n \in Nat /\ d.criteria.n \in Nat
      /\ d.steps.deploy = TRUE /\ d.steps.verify = TRUE
      /\ d.criteria.complete = TRUE
  <2>1. d \in [parse : {"mapping"}, sections : SUBSET Sections,
               meta : BOOLEAN,
               id : {"absent", "conforming", "nonconforming", "nonstring"},
               cluster : {"absent", "kind", "other"},
               components : BOOLEAN,
               steps : Null \cup StepsShape,
               criteria : Null \cup CriteriaShape]
    BY <1>1 DEF DefShape
  <2>2. d.steps \in StepsShape /\ d.criteria \in CriteriaShape
    BY <1>1, <2>1 DEF Null
  <2>. QED
    BY <1>1, <2>1, <2>2 DEF StepsShape, CriteriaShape
<1>3. /\ ~(~d.meta \/ d.id = "absent") /\ d.id # "nonconforming"
      /\ d.id # "nonstring" /\ d.cluster # "absent" /\ d.cluster # "other"
      /\ ~(d.steps.n < 3) /\ ~(d.criteria.n < 1)
      /\ "metadata" \in d.sections /\ "requirements" \in d.sections
      /\ "steps" \in d.sections /\ "success_criteria" \in d.sections
      /\ d.steps.kind # "null" /\ d.criteria.kind # "null"
  BY <1>1, <1>2 DEF Sections
<1>4. /\ SectionsSeg(d).errs = << >> /\ ~SectionsSeg(d).raises
      /\ MetadataSeg(d).errs = << >> /\ ~MetadataSeg(d).raises
      /\ RequirementsSeg(d).errs = << >> /\ ~RequirementsSeg(d).raises
      /\ StepsSeg(d).errs = << >> /\ ~StepsSeg(d).raises
      /\ CriteriaSeg(d).errs = << >> /\ ~CriteriaSeg(d).raises
  <2>1. SectionsSeg(d).errs = << >> /\ ~SectionsSeg(d).raises
    BY <1>3 DEF SectionsSeg, Opt, Seg
  <2>2. MetadataSeg(d).errs = << >> /\ ~MetadataSeg(d).raises
    <3>1. MetadataSeg(d) =
            Seg(Opt(~d.meta \/ d.id = "absent", "metadata_field")
                  \o Opt(d.id = "nonconforming", "id_format"),
                d.id = "nonstring")
      BY <1>3 DEF MetadataSeg
    <3>2. /\ Opt(~d.meta \/ d.id = "absent", "metadata_field") = << >>
          /\ Opt(d.id = "nonconforming", "id_format") = << >>
      BY <1>3, Zenon DEF Opt
    <3>3. MetadataSeg(d).errs = << >> \o << >>
      BY <3>1, <3>2 DEF Seg
    <3>4. MetadataSeg(d).raises = (d.id = "nonstring")
      BY <3>1 DEF Seg
    <3>5. << >> \o << >> = << >>
      OBVIOUS
    <3>. QED
      BY <1>3, <3>3, <3>4, <3>5, Zenon
  <2>3. RequirementsSeg(d).errs = << >> /\ ~RequirementsSeg(d).raises
    BY <1>2, <1>3 DEF RequirementsSeg, Opt, Seg
  <2>4. StepsSeg(d).errs = << >> /\ ~StepsSeg(d).raises
    BY <1>2, <1>3 DEF StepsSeg, Opt, Seg
  <2>5. CriteriaSeg(d).errs = << >> /\ ~CriteriaSeg(d).raises
    BY <1>2, <1>3 DEF CriteriaSeg, Opt, Seg
  <2>. QED
    BY <2>1, <2>2, <2>3, <2>4, <2>5
<1>5. \A j \in 1..5 : Parts(d)[j].errs = << >> /\ ~Parts(d)[j].raises
  <2>1. 1..5 = {1, 2, 3, 4, 5}
    OBVIOUS
  <2>2. /\ Parts(d)[1] = SectionsSeg(d) /\ Parts(d)[2] = MetadataSeg(d)
        /\ Parts(d)[3] = RequirementsSeg(d) /\ Parts(d)[4] = StepsSeg(d)
        /\ Parts(d)[5] = CriteriaSeg(d)
    BY DEF Parts
  <2>. QED
    BY <1>4, <2>1, <2>2, Zenon
<1>6. Raising(d) = {} /\ LastRun(d) = 5
  BY <1>5 DEF Raising, LastRun
<1>7. \A j \in 1..5 : Ran(d, j) = << >>
  BY <1>5, <1>6 DEF Ran
<1>8. DefErrors(d) = << >>
  BY <1>7 DEF DefErrors
<1>9. /\ DefinitionResult(d).errs =
           DefErrors(d) \o Opt(Raising(d) # {}, "unexpected")
      /\ DefinitionResult(d).raises = (Raising(d) # {})
  BY <1>1, MappingResult
<1>10. Opt(Raising(d) # {}, "unexpected") = << >>
  BY <1>6 DEF Opt
<1>11. DefinitionResult(d).errs = << >>
  BY <1>8, <1>9, <1>10
<1>. QED
  BY <1>6, <1>9, <1>11, Zenon

-----------------------------------------------------------------------------
(***************************************************************************)
(* ValidatorInv: validate()'s all_passed is true exactly while the error  *)
(* list is empty -- each check's return value is False exactly when it    *)
(* appended an error or found earlier ones -- a sound directory with a    *)
(* conformant definition gets no error at all, and the exit status is     *)
(* all_passed's.                                                           *)
(***************************************************************************)
ValidatorInv ==
    /\ dir \in DirShapes
    /\ errors \in Seq(ErrorKinds)
    /\ allPassed \in BOOLEAN
    /\ pc \in {"structure", "definition", "script", "k8s", "syntax", "report",
               "exited"}
    /\ allPassed <=> errors = << >>
    /\ Conformant(dir.def) /\ SoundFiles(dir) => errors = << >>
    /\ pc = "exited" => (exitCode = 0 <=> allPassed)

\* A check keeps all_passed in step with the error list when, called with
\* no error recorded yet, it returns True exactly when it appends none.
LEMMA RecordKeeps ==
    ASSUME errors \in Seq(ErrorKinds), allPassed \in BOOLEAN,
           allPassed <=> errors = << >>,
           NEW errs \in Seq(ErrorKinds), NEW warns, NEW ret \in BOOLEAN,
           errors = << >> => (ret <=> errs = << >>),
           Record(errs, warns, ret)
    PROVE  /\ errors' \in Seq(ErrorKinds)
           /\ allPassed' \in BOOLEAN
           /\ allPassed' <=> errors' = << >>
<1>1. errors' = errors \o errs /\ allPassed' = (allPassed /\ ret)
  BY DEF Record
<1>2. errors \o errs = << >> <=> errors = << >> /\ errs = << >>
  OBVIOUS
<1>. QED
  BY <1>1, <1>2

\* The conclusion of RecordKeeps, and what every check leaves alone.
Kept == /\ errors' \in Seq(ErrorKinds)
        /\ allPassed' \in BOOLEAN
        /\ allPassed' <=> errors' = << >>

\* A check that appends an error and returns False.
LEMMA FailingCheck ==
    ASSUME ValidatorInv, NEW e \in ErrorKinds, NEW warns,
           Record(<<e>>, warns, FALSE)
    PROVE  Kept /\ errors' # << >>
<1>1. <<e>> \in Seq(ErrorKinds) /\ <<e>> # << >> /\ FALSE \in BOOLEAN
  OBVIOUS
<1>2. errors = << >> => (FALSE <=> <<e>> = << >>)
  BY <1>1
<1>3. Kept
  BY <1>1, <1>2, RecordKeeps, Zenon DEF ValidatorInv, Kept
<1>4. errors' # << >>
  BY <1>1 DEF Record, ValidatorInv
<1>. QED
  BY <1>3, <1>4

LEMMA StructureInv == ValidatorInv /\ CheckDirectoryStructure => ValidatorInv'
<1> SUFFICES ASSUME ValidatorInv, CheckDirectoryStructure PROVE ValidatorInv'
  OBVIOUS
<1>1. pc' = "definition" /\ UNCHANGED dir
  BY DEF CheckDirectoryStructure
<1>2. CASE ~dir.exists
  <2>1. Record(<<"no_directory">>, << >>, FALSE)
    BY <1>2 DEF CheckDirectoryStructure
  <2>2. Kept /\ errors' # << >>
    BY <2>1, FailingCheck DEF ErrorKinds
  <2>. QED
    BY <1>1, <1>2, <2>2 DEF ValidatorInv, Kept, SoundFiles
<1>3. CASE dir.exists /\ ~dir.hasDef
  <2>1. Record(<<"required_file">>, << >>, FALSE)
    BY <1>3 DEF CheckDirectoryStructure
  <2>2. Kept /\ errors' # << >>
    BY <2>1, FailingCheck DEF ErrorKinds
  <2>. QED
    BY <1>1, <1>3, <2>2 DEF ValidatorInv, Kept, SoundFiles
<1>4. CASE dir.exists /\ dir.hasDef
  <2>1. Record(<< >>, Opt(dir.k8s # "files", "k8s"), errors = << >>)
    BY <1>4 DEF CheckDirectoryStructure
  <2>2. errors' = errors /\ allPassed' = (allPassed /\ errors = << >>)
    BY <2>1 DEF Record, ValidatorInv
  <2>. QED
    BY <1>1, <2>2 DEF ValidatorInv
<1>. QED
  BY <1>2, <1>3, <1>4

LEMMA DefinitionInv == ValidatorInv /\ ValidateScenarioDefinition => ValidatorInv'
<1> SUFFICES ASSUME ValidatorInv, ValidateScenarioDefinition PROVE ValidatorInv'
  OBVIOUS
<1>1. pc' = "script" /\ UNCHANGED dir
  BY DEF ValidateScenarioDefinition
<1>2. CASE ~(dir.exists /\ dir.hasDef)
  <2>1. Record(<<"unexpected">>, << >>, FALSE)
    BY <1>2 DEF ValidateScenarioDefinition
  <2>2. Kept /\ errors' # << >>
    BY <2>1, FailingCheck DEF ErrorKinds
  <2>. QED
    BY <1>1, <1>2, <2>2 DEF ValidatorInv, Kept, SoundFiles
<1>3. CASE dir.exists /\ dir.hasDef
  <2> DEFINE r == DefinitionResult(dir.def)
  <2>1. Record(r.errs, << >>, ~r.raises /\ errors \o r.errs = << >>)
    BY <1>3 DEF ValidateScenarioDefinition
  <2>2. dir.def \in DefShape
    <3>1. dir \in DirShape
      BY DirShapesAssumption DEF ValidatorInv
    <3>. QED
      BY <3>1 DEF DirShape
  <2>3. /\ r.errs \in Seq(ErrorKinds) /\ r.raises \in BOOLEAN
        /\ r.raises => r.errs # << >>
    BY <2>2, RaisingAppends
  <2>4. errors' = errors \o r.errs
        /\ allPassed' = (allPassed /\ ~r.raises /\ errors \o r.errs = << >>)
    BY <2>1 DEF Record
  <2>5. Kept
    <3>1. errors \in Seq(ErrorKinds) /\ allPassed \in BOOLEAN
          /\ (allPassed <=> errors = << >>)
      BY DEF ValidatorInv
    <3>2. errors \o r.errs = << >> <=> errors = << >> /\ r.errs = << >>
      BY <2>3, <3>1
    <3>3. errors' \in Seq(ErrorKinds)
      BY <2>3, <2>4, <3>1
    <3>4. allPassed' \in BOOLEAN
      BY <2>4
    <3>5. allPassed' <=> errors' = << >>
      BY <2>3, <2>4, <3>1, <3>2
    <3>. QED
      BY <3>3, <3>4, <3>5 DEF Kept
  <2>6. Conformant(dir.def) /\ SoundFiles(dir) => errors' = << >>
    <3>1. Conformant(dir.def) => r.errs = << >>
      BY <2>2, ConformantPasses
    <3>. QED
      BY <2>4, <3>1 DEF ValidatorInv
  <2>. QED
    BY <1>1, <2>5, <2>6 DEF ValidatorInv, Kept
<1>. QED
  BY <1>2, <1>3

\* check_k8s_resources and check_syntax append at most one error and return
\* whether no error has been recorded so far.
LEMMA CountingCheck ==
    ASSUME ValidatorInv, NEW c \in BOOLEAN, NEW e \in ErrorKinds, NEW warns,
           Record(Opt(c, e), warns, errors \o Opt(c, e) = << >>)
    PROVE  Kept /\ (~c => errors' = errors)
<1>1. Opt(c, e) \in Seq(ErrorKinds) /\ (Opt(c, e) = << >> <=> ~c)
  BY DEF Opt
<1>2. errors \in Seq(ErrorKinds) /\ allPassed \in BOOLEAN
      /\ (allPassed <=> errors = << >>)
  BY DEF ValidatorInv
<1>3. errors' = errors \o Opt(c, e)
      /\ allPassed' = (allPassed /\ errors \o Opt(c, e) = << >>)
  BY DEF Record
<1>4. errors \o Opt(c, e) = << >> <=> errors = << >> /\ ~c
  BY <1>1, <1>2
<1>5. Kept
  <2>1. errors' \in Seq(ErrorKinds)
    BY <1>1, <1>2, <1>3
  <2>2. allPassed' \in BOOLEAN
    BY <1>3
  <2>3. allPassed' <=> errors' = << >>
    BY <1>2, <1>3, <1>4
  <2>. QED
    BY <2>1, <2>2, <2>3 DEF Kept
<1>6. ~c => errors' = errors
  BY <1>1, <1>2, <1>3
<1>. QED
  BY <1>5, <1>6

\* check_verification_script records only warnings and returns True.
LEMMA ScriptInv == ValidatorInv /\ CheckVerificationScript => ValidatorInv'
<1> SUFFICES ASSUME ValidatorInv, CheckVerificationScript PROVE ValidatorInv'
  OBVIOUS
<1>1. pc' = "k8s" /\ UNCHANGED dir
  BY DEF CheckVerificationScript
<1>2. errors' = errors /\ allPassed' = allPassed
  <2>1. Record(<< >>, Opt(~dir.exists \/ dir.verify # "complete", "script"), TRUE)
    BY DEF CheckVerificationScript
  <2>2. errors \in Seq(ErrorKinds) /\ allPassed \in BOOLEAN
    BY DEF ValidatorInv
  <2>. QED
    BY <2>1, <2>2 DEF Record
<1>. QED
  BY <1>1, <1>2 DEF ValidatorInv

LEMMA K8sInv == ValidatorInv /\ CheckK8sResources => ValidatorInv'
<1> SUFFICES ASSUME ValidatorInv, CheckK8sResources PROVE ValidatorInv'
  OBVIOUS
<1>1. pc' = "syntax" /\ UNCHANGED dir
  BY DEF CheckK8sResources
<1>2. CASE ~dir.exists \/ dir.k8s # "files"
  <2>1. Record(<< >>, << >>, TRUE)
    BY <1>2 DEF CheckK8sResources
  <2>2. errors' = errors /\ allPassed' = allPassed
    BY <2>1 DEF Record, ValidatorInv
  <2>. QED
    BY <1>1, <2>2 DEF ValidatorInv
<1>3. CASE dir.exists /\ dir.k8s = "files"
  <2> DEFINE c == dir.k8sDocs = "unparsable"
  <2>1. Record(Opt(c, "k8s_parse"), Opt(dir.k8sDocs = "incomplete", "k8s_doc"),
               errors \o Opt(c, "k8s_parse") = << >>)
    BY <1>3 DEF CheckK8sResources
  <2>2. Kept /\ (~c => errors' = errors)
    BY <2>1, CountingCheck DEF ErrorKinds
  <2>3. SoundFiles(dir) => ~c
    BY <1>3 DEF SoundFiles
  <2>. QED
    BY <1>1, <2>2, <2>3 DEF ValidatorInv, Kept
<1>. QED
  BY <1>2, <1>3

LEMMA SyntaxInv == ValidatorInv /\ CheckSyntax => ValidatorInv'
<1> SUFFICES ASSUME ValidatorInv, CheckSyntax PROVE ValidatorInv'
  OBVIOUS
<1>1. pc' = "report" /\ UNCHANGED dir
  BY DEF CheckSyntax
<1> DEFINE c == dir.exists /\ dir.pyError
<1>2. Record(Opt(c, "py_syntax"), Opt(dir.exists /\ dir.lint = "issues", "lint"),
             errors \o Opt(c, "py_syntax") = << >>)
  BY DEF CheckSyntax
<1>3. c \in BOOLEAN
  BY DirShapesAssumption DEF ValidatorInv, DirShape
<1>4. Kept /\ (~c => errors' = errors)
  BY <1>2, <1>3, CountingCheck DEF ErrorKinds
<1>5. SoundFiles(dir) => ~c
  BY DEF SoundFiles
<1>. QED
  BY <1>1, <1>4, <1>5 DEF ValidatorInv, Kept

\* The report step: sys.exit(0 if all_passed else 1).
LEMMA FinishInv == ValidatorInv /\ Finish => ValidatorInv'
<1> SUFFICES ASSUME ValidatorInv, Finish PROVE ValidatorInv'
  OBVIOUS
<1>1. /\ pc = "report" /\ pc' = "exited"
      /\ exitCode' = (IF allPassed THEN 0 ELSE 1)
      /\ UNCHANGED <<dir, errors, allPassed>>
  BY DEF Finish
<1>2. allPassed \in BOOLEAN
  BY DEF ValidatorInv
<1>. QED
  BY <1>1, <1>2 DEF ValidatorInv

LEMMA InitValidatorInv == Init => ValidatorInv
BY DEF Init, ValidatorInv

LEMMA NextValidatorInv == ValidatorInv /\ [Next]_vars => ValidatorInv'
<1> SUFFICES ASSUME ValidatorInv, [Next]_vars PROVE ValidatorInv'
  OBVIOUS
<1>1. CASE UNCHANGED vars
  BY <1>1 DEF vars, ValidatorInv
<1>. QED
  BY <1>1, StructureInv, DefinitionInv, ScriptInv, K8sInv, SyntaxInv, FinishInv
     DEF Next

(***************************************************************************)
(* The script exits with status 0 exactly when validate() recorded no      *)
(* error: every check's return value, conjoined into all_passed, agrees    *)
(* with the errors it appended, for every directory.                       *)
(***************************************************************************)
THEOREM ExitMatchesErrors == Spec => []ExitStatusReflectsErrors
<1>1. ValidatorInv => ExitStatusReflectsErrors
  BY DEF ValidatorInv, ExitStatusReflectsErrors
<1>. QED
  BY <1>1, InitValidatorInv, NextValidatorInv, PTL DEF Spec

(***************************************************************************)
(* A directory whose definition meets spec section 6 and whose files are   *)
(* sound (a parseable manifest, compiling Python) is never rejected: no    *)
(* check of validate() appends an error for it, so the exit status is 0.   *)
(***************************************************************************)
THEOREM SoundDirectoryPasses == Spec => []NoFalseRejection
<1>1. ValidatorInv => NoFalseRejection
  BY DEF ValidatorInv, NoFalseRejection
<1>. QED
  BY <1>1, InitValidatorInv, NextValidatorInv, PTL DEF Spec

=============================================================================
