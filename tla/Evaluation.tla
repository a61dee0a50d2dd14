------------------------------ MODULE Evaluation ------------------------------
(***************************************************************************)
(* scripts/run_evaluation.py: every stage is a script that leaves an       *)
(* artifact, and RESULTS.md is assembled from the artifacts that are there *)
(* at the end, this run's or an earlier one's.  The allocation stage       *)
(* (scripts/run_allocation.py) also adjudicates the components under       *)
(* antar/eval/retention.py, whose verdicts stand from run to run.  An      *)
(* artifact is the number of the run that wrote it.                        *)
(***************************************************************************)
EXTENDS Naturals, Sequences

CONSTANTS
  Stages,       \* stages(), in their order
  PerScenario,  \* the stages whose artifact is named after the scenario
  Unreported,   \* the stages without a section in RESULTS.md
  Scenarios,
  Components,   \* GOVERNED_COMPONENTS
  MaxRuns       \* bound: evaluations in a behaviour

Names == {Stages[i] : i \in DOMAIN Stages}

ASSUME EvaluationAssumption ==
  /\ Stages \in Seq(STRING)
  /\ \A i, j \in DOMAIN Stages : Stages[i] = Stages[j] => i = j
  /\ "allocation" \in Names /\ PerScenario \subseteq Names /\ Unreported \subseteq Names
  /\ MaxRuns \in Nat

VARIABLES
  run,          \* how many evaluations have begun
  pc,           \* "idle", "stage", "adjudicate" or "report"
  scenario,     \* --scenario of the current evaluation
  at,           \* the place in Stages
  skip,         \* --skip
  artifacts,    \* artifacts/
  tied,         \* of each scenario, whether its allocation on file has two policies equal
  failed,       \* the stages that are reported as failed
  listed,       \* of each scenario, the verdicts that its allocation on file lists
  results,      \* RESULTS.md: the run that wrote it, its sections and the verdicts it lists
  exit,         \* the exit status of the last evaluation
  verdicts,     \* artifacts/retention.json
  evidence      \* what the last measurement that could have seen an effect has found

evaluationVars ==
  <<run, pc, scenario, at, skip, artifacts, tied, listed, failed, results, exit, verdicts, evidence>>

Absent == 0
Corrupt == MaxRuns + 1      \* a file that does not parse

File == 0 .. MaxRuns + 1

\* Verdicts are a function from components to whether they are kept.
NoVerdicts == <<>>

\* The name of a stage's artifact.
Artifact(stage, s) == <<stage, IF stage \in PerScenario THEN s ELSE "all">>

Artifacts == {Artifact(stage, s) : stage \in Names, s \in Scenarios}

EvaluationInit ==
  /\ run = 0 /\ pc = "idle" /\ scenario \in Scenarios /\ at = 1 /\ skip = {}
  /\ artifacts = [a \in Artifacts |-> Absent] /\ tied = [s \in Scenarios |-> FALSE]
  /\ listed = [s \in Scenarios |-> NoVerdicts] /\ failed = {} /\ exit = 0
  /\ results = [by |-> 0, sections |-> [n \in Names \ Unreported |-> Absent],
                verdicts |-> NoVerdicts]
  /\ verdicts = NoVerdicts /\ evidence = [c \in Components |-> "NONE"]

-----------------------------------------------------------------------------
(* main.                                                                    *)

\* An evaluation begins, after the end of another or after its death.
Begin ==
  /\ run < MaxRuns /\ run' = run + 1
  /\ pc' = "stage" /\ at' = 1 /\ failed' = {}
  /\ scenario' \in Scenarios /\ skip' \in SUBSET Names
  /\ UNCHANGED <<artifacts, tied, listed, results, exit, verdicts, evidence>>

Skip ==
  /\ pc = "stage" /\ at \in DOMAIN Stages /\ Stages[at] \in skip
  /\ at' = at + 1
  /\ UNCHANGED <<run, pc, scenario, skip, artifacts, tied, listed, failed, results, exit, verdicts, evidence>>

\* Mutant of Failed: the exit status of the script is not looked at.
FailedIfAbsent(ok, file) == file = Absent

\* What main takes for a failure: it knows that an artifact exists, not whose it is.
Failed(ok, file) == ~ok \/ file = Absent

\* Stage.run: the script ends well, or it ends badly before it has written the artifact,
\* in the middle of writing it, or after it.
Ending(ok, file) ==
  LET a == Artifact(Stages[at], scenario) IN
    /\ artifacts' = [artifacts EXCEPT ![a] = file]
    /\ failed' = IF Failed(ok, file) THEN failed \cup {Stages[at]} ELSE failed
    /\ pc' = "stage" /\ at' = at + 1
    /\ UNCHANGED <<run, scenario, skip, results, exit>>

Endings ==
  \/ Ending(TRUE, run)
  \/ \E file \in {artifacts[Artifact(Stages[at], scenario)], Corrupt, run} : Ending(FALSE, file)

RunStage ==
  /\ pc = "stage" /\ at \in DOMAIN Stages /\ Stages[at] \notin skip
  /\ IF Stages[at] = "allocation"
     THEN pc' = "adjudicate" /\ UNCHANGED <<run, scenario, at, skip, artifacts, failed, results, exit>>
     ELSE Endings
  /\ UNCHANGED <<tied, listed, verdicts, evidence>>

-----------------------------------------------------------------------------
(* The retention loop of run_allocation.main.                               *)

\* Of the difference that a component makes over the seeds: its sign when the interval
\* excludes zero; UNDERPOWERED when both arms were alike on every seed.
Measurement == {"POSITIVE", "NEGATIVE", "STRADDLES", "UNDERPOWERED"}

\* decide.
Decide(m) == m = "POSITIVE"

\* Mutant of Adjudicated: no difference is taken for a measurement.
AdjudicatedAlways(m) == Components

\* The components whose measurement is not passed over.
Adjudicated(m) == {c \in Components : m[c] # "UNDERPOWERED"}

\* The verdicts of this run.
Verdicts(m) == [c \in Adjudicated(m) |-> Decide(m[c])]

\* write_verdicts: the file holds what this run has adjudicated, and is left as it is
\* when that is nothing.  The artifact of the stage, which comes last, lists the same.
Adjudicate ==
  /\ pc = "adjudicate"
  /\ Endings
  /\ \E m \in [Components -> Measurement], equal \in BOOLEAN :
       LET written == artifacts'[Artifact("allocation", scenario)] = run IN
         /\ verdicts' = IF Adjudicated(m) = {} THEN verdicts ELSE Verdicts(m)
         /\ evidence' = [c \in Components |-> IF m[c] = "UNDERPOWERED" THEN evidence[c] ELSE m[c]]
         /\ tied' = IF written THEN [tied EXCEPT ![scenario] = equal] ELSE tied
         /\ listed' = IF written THEN [listed EXCEPT ![scenario] = Verdicts(m)] ELSE listed

\* The script dies before the verdicts are written.
FailBeforeVerdicts ==
  /\ pc = "adjudicate"
  /\ Ending(FALSE, artifacts[Artifact(Stages[at], scenario)])
  /\ UNCHANGED <<tied, listed, verdicts, evidence>>

-----------------------------------------------------------------------------
(* write_results_md.                                                        *)

\* load: what cannot be read is not there.
Load(stage) ==
  LET file == artifacts[Artifact(stage, scenario)] IN IF file = Corrupt THEN Absent ELSE file

\* The section of a stage has the numbers of its artifact, or says NOT PRODUCED.
Section(n) == Load(n)

\* _section_allocation takes the shares of recovery and of harm in the difference of
\* antar and propensity, which is a division by zero when the two have done the same.
Divides == Load("allocation") # Absent /\ tied[scenario]

\* The verdicts that the section of the allocation prints.
Printed == IF Load("allocation") = Absent THEN NoVerdicts ELSE listed[scenario]

\* The file is written when all sections are there.
Report ==
  /\ pc = "stage" /\ at \notin DOMAIN Stages /\ ~Divides /\ pc' = "idle"
  /\ results' = [by |-> run, sections |-> [n \in Names \ Unreported |-> Section(n)],
                 verdicts |-> Printed]
  /\ exit' = IF failed = {} THEN 0 ELSE 1
  /\ UNCHANGED <<run, scenario, at, skip, artifacts, tied, listed, failed, verdicts, evidence>>

\* Nothing catches the exception.
ReportRaises ==
  /\ pc = "stage" /\ at \notin DOMAIN Stages /\ Divides /\ pc' = "idle"
  /\ exit' = 1
  /\ UNCHANGED <<run, scenario, at, skip, artifacts, tied, listed, failed, results, verdicts, evidence>>

EvaluationNext == Begin \/ Skip \/ RunStage \/ Adjudicate \/ FailBeforeVerdicts \/ Report
                  \/ ReportRaises

EvaluationSpec == EvaluationInit /\ [][EvaluationNext]_evaluationVars

-----------------------------------------------------------------------------
(* Properties.                                                              *)

\* When an evaluation ends well and has left out nothing, every number in RESULTS.md is
\* from this run; and in any case, where it has written that file, a number that is not
\* is one of a stage that it names as failed or skipped, although an older artifact of
\* that stage, or the file of an earlier evaluation, may have been there.
NumbersAreFreshOrNamed ==
  pc = "idle" /\ run > 0 =>
    /\ exit = 0 /\ skip = {} =>
         results.by = run /\ \A n \in DOMAIN results.sections : results.sections[n] = run
    /\ results.by = run =>
         \A n \in DOMAIN results.sections : results.sections[n] # run => n \in failed \cup skip

\* retention.py, "Nothing here can be satisfied by an argument": a verdict on file says
\* what the last measurement of its component that could have seen an effect has found,
\* in whatever evaluation that was; once something was measured the file is never empty
\* again; and where the allocation neither failed nor was skipped, the verdicts that
\* RESULTS.md prints are those on file, although they come from two files of which the
\* script may have written one, in this evaluation or an earlier one.  (A verdict may be
\* lost all the same: the file is replaced by those of a run that measured another
\* component.)
VerdictsRestOnEvidence ==
  /\ \A c \in DOMAIN verdicts : evidence[c] # "NONE" /\ (verdicts[c] <=> evidence[c] = "POSITIVE")
  /\ (\E c \in Components : evidence[c] # "NONE") => DOMAIN verdicts # {}
  /\ pc = "idle" /\ results.by = run /\ "allocation" \notin failed \cup skip
       /\ DOMAIN results.verdicts # {} => results.verdicts = verdicts

=============================================================================
