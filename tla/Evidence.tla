------------------------------ MODULE Evidence ------------------------------
(***************************************************************************)
(* What the scripts record about files that may change while they read     *)
(* them: calibrations, evaluations, a validated set of provenance, the     *)
(* libraries and imports of llama.cpp, a verified export, and the          *)
(* validation of a diagnostic's repeats.  Each runs alone; unit says       *)
(* which, and the variables of the others stay where they are.             *)
(***************************************************************************)
EXTENDS Integers, FiniteSets, Sequences

CONSTANTS Calibrations, Free, MaxFaults,    \* calibrations with the same destinations
          Evaluators, Trained, Profiled,    \* evaluations with one output, of training runs
          Rows, LastArtifact, LastRuntime,  \* with their profiles
          MaxEvaluationFaults,
          FewFaults,                        \* bound on faults when several calibrations run
          Provided,                         \* a validated provenance
          Build, Surface,                   \* what is inspected of llama.cpp
          Exported,                         \* a verified export
          Diagnosed                         \* validated diagnostics

VARIABLES unit, view, durable, data, synced, public, version, at, seen, used, owned, installed,
          err, faults, run, stage, lineage, artifact, runtime, given, phase, before,
          engine, results, staging, output, outcome, files, hf, gguf, request, verdict,
          edits, restores, library, link, directory, step, known, held, whole, instant,
          entry, changed, round, names, walked, clean, inodes, times, initial, noted,
          preflight, signed, read, source, bundle, summary, partial, spec, through

Pipeline == INSTANCE CalibrationPipeline WITH
  Runs <- Calibrations
Evaluation == INSTANCE CodeEvaluation WITH
  Readers <- Evaluators, LastRun <- Trained, ProfileOf <- Profiled,
  MaxFaults <- MaxEvaluationFaults
Provenance == INSTANCE CodeProvenance WITH
  Readers <- Provided.readers, LastRun <- Provided.runs, ProfileOf <- Provided.profiles,
  Conversions <- DOMAIN Provided.made, Made <- Provided.made,
  Diagnoses <- Provided.diagnoses, MaxEdits <- Provided.edits
Libraries == INSTANCE LibraryClosure WITH
  Links <- Build.links, Files <- Build.files, MaxEdits <- Build.edits, file <- library
Imports == INSTANCE ImportSurface WITH
  Directories <- Surface.directories, Sources <- Surface.sources,
  Forbidden <- Surface.forbidden, MaxEdits <- Surface.edits
Export == INSTANCE ExportVerification WITH
  Jobs <- Exported.jobs, MaxEdits <- Exported.edits
Validation == INSTANCE DiagnosticValidation WITH
  Readers <- Diagnosed.readers, LastRun <- Diagnosed.runs, ProfileOf <- Diagnosed.profiles,
  Conversions <- DOMAIN Diagnosed.made, Made <- Diagnosed.made,
  Evaluated <- Diagnosed.evaluated, Specs <- Diagnosed.specs,
  LastRepeat <- Diagnosed.repeats, LastRuntime <- Diagnosed.runtimes,
  MaxEdits <- Diagnosed.edits

ASSUME ParametersAssumption ==
  /\ Pipeline!PipelineAssumption /\ FewFaults \in Nat
  /\ Evaluation!EvaluationAssumption
  /\ Provenance!RunAssumption /\ Provenance!MadeAssumption
  /\ Libraries!NamesAssumption
  /\ Imports!DirectoryAssumption /\ Imports!NameAssumption
  /\ Export!JobAssumption
  /\ Validation!RunAssumption /\ Validation!EvaluationAssumption /\ Validation!SpecAssumption

all == <<unit, view, durable, data, synced, public, version, at, seen, used, owned, installed,
         err, faults, run, stage, lineage, artifact, runtime, given, phase, before, engine,
         results, staging, output, outcome, files, hf, gguf, request, verdict, edits,
         restores, library, link, directory, step, known, held, whole, instant, entry,
         changed, round, names, walked, clean, inodes, times, initial, noted, preflight,
         signed, read, source, bundle, summary, partial, spec, through>>

(* The variables of the components that do not run. *)
Idle ==
  /\ IF unit = "calibration" THEN TRUE
     ELSE /\ view = 0 /\ durable = 0 /\ synced = 0 /\ public = 0 /\ version = 0 /\ used = 0
          /\ owned = 0 /\ installed = 0 /\ err = 0
  /\ IF unit \in {"calibration", "evaluation", "provenance", "validation"} THEN TRUE
     ELSE /\ data = 0
  /\ IF unit \in {"calibration", "libraries", "imports", "export"} THEN TRUE
     ELSE /\ at = 0
  /\ IF unit \in {"calibration", "provenance", "libraries", "validation"} THEN TRUE
     ELSE /\ seen = 0
  /\ IF unit \in {"calibration", "evaluation"} THEN TRUE
     ELSE /\ faults = 0
  /\ IF unit \in {"evaluation", "provenance", "validation"} THEN TRUE
     ELSE /\ run = 0 /\ stage = 0 /\ lineage = 0 /\ phase = 0
  /\ IF unit = "evaluation" THEN TRUE
     ELSE /\ artifact = 0 /\ given = 0 /\ before = 0 /\ engine = 0 /\ staging = 0
          /\ output = 0 /\ outcome = 0
  /\ IF unit \in {"evaluation", "validation"} THEN TRUE
     ELSE /\ runtime = 0 /\ results = 0
  /\ IF unit = "provenance" THEN TRUE
     ELSE /\ files = 0 /\ hf = 0 /\ gguf = 0 /\ request = 0
  /\ IF unit \in {"provenance", "libraries", "imports", "export", "validation"} THEN TRUE
     ELSE /\ verdict = 0 /\ edits = 0
  /\ IF unit = "libraries" THEN TRUE
     ELSE /\ restores = 0 /\ library = 0 /\ link = 0 /\ directory = 0 /\ step = 0
          /\ known = 0 /\ whole = 0
  /\ IF unit \in {"libraries", "export"} THEN TRUE
     ELSE /\ held = 0 /\ instant = 0
  /\ IF unit = "imports" THEN TRUE
     ELSE /\ entry = 0 /\ changed = 0 /\ round = 0 /\ names = 0 /\ walked = 0 /\ clean = 0
  /\ IF unit = "export" THEN TRUE
     ELSE /\ inodes = 0 /\ times = 0 /\ initial = 0 /\ noted = 0 /\ preflight = 0
          /\ signed = 0 /\ read = 0
  /\ IF unit = "validation" THEN TRUE
     ELSE /\ source = 0 /\ bundle = 0 /\ summary = 0 /\ partial = 0 /\ spec = 0
          /\ through = 0

Still ==
  /\ IF unit = "calibration" THEN TRUE
     ELSE UNCHANGED <<view, durable, synced, public, version, used, owned, installed, err>>
  /\ IF unit \in {"calibration", "evaluation", "provenance", "validation"} THEN TRUE
     ELSE UNCHANGED <<data>>
  /\ IF unit \in {"calibration", "libraries", "imports", "export"} THEN TRUE
     ELSE UNCHANGED <<at>>
  /\ IF unit \in {"calibration", "provenance", "libraries", "validation"} THEN TRUE
     ELSE UNCHANGED <<seen>>
  /\ IF unit \in {"calibration", "evaluation"} THEN TRUE
     ELSE UNCHANGED <<faults>>
  /\ IF unit \in {"evaluation", "provenance", "validation"} THEN TRUE
     ELSE UNCHANGED <<run, stage, lineage, phase>>
  /\ IF unit = "evaluation" THEN TRUE
     ELSE UNCHANGED <<artifact, given, before, engine, staging, output, outcome>>
  /\ IF unit \in {"evaluation", "validation"} THEN TRUE
     ELSE UNCHANGED <<runtime, results>>
  /\ IF unit = "provenance" THEN TRUE
     ELSE UNCHANGED <<files, hf, gguf, request>>
  /\ IF unit \in {"provenance", "libraries", "imports", "export", "validation"} THEN TRUE
     ELSE UNCHANGED <<verdict, edits>>
  /\ IF unit = "libraries" THEN TRUE
     ELSE UNCHANGED <<restores, library, link, directory, step, known, whole>>
  /\ IF unit \in {"libraries", "export"} THEN TRUE
     ELSE UNCHANGED <<held, instant>>
  /\ IF unit = "imports" THEN TRUE
     ELSE UNCHANGED <<entry, changed, round, names, walked, clean>>
  /\ IF unit = "export" THEN TRUE
     ELSE UNCHANGED <<inodes, times, initial, noted, preflight, signed, read>>
  /\ IF unit = "validation" THEN TRUE
     ELSE UNCHANGED <<source, bundle, summary, partial, spec, through>>

SuiteInit == /\ \/ unit = "calibration" /\ Pipeline!Init
                \/ unit = "evaluation" /\ Evaluation!Init
                \/ unit = "provenance" /\ Provenance!Init
                \/ unit = "libraries" /\ Libraries!Init
                \/ unit = "imports" /\ Imports!Init
                \/ unit = "export" /\ Export!Init
                \/ unit = "validation" /\ Validation!Init
             /\ Idle

(* Bounds: while several calibrations run they meet fewer faults, and while *)
(* several evaluations do the training run is not replaced.                *)
Waiting(r) == at[r][1] \in {"check", "dead"} /\ owned[r] = {}
CalibrationBound ==
  faults <= FewFaults \/ \E r \in Calibrations : \A s \in Calibrations \ {r} : Waiting(s)
EvaluationBound ==
  \/ \A part \in Evaluation!Parts : run[part] = 1
  \/ \E p \in Evaluators : \A q \in Evaluators \ {p} : phase[q] = "start"

SuiteNext == /\ \/ unit = "calibration" /\ Pipeline!Next /\ CalibrationBound'
                \/ unit = "evaluation" /\ Evaluation!Next /\ EvaluationBound'
                \/ unit = "provenance" /\ Provenance!Next
                \/ unit = "libraries" /\ Libraries!Next
                \/ unit = "imports" /\ Imports!Next
                \/ unit = "export" /\ Export!Next
                \/ unit = "validation" /\ Validation!Next
             /\ UNCHANGED unit
             /\ Still

SuiteSpec == SuiteInit /\ [][SuiteNext]_all

-----------------------------------------------------------------------------
(* The values of every component's variables, as its module describes them. *)
TypeOK ==
  /\ unit = "calibration" => Pipeline!TypeOK
  /\ unit = "evaluation" => Evaluation!TypeOK
  /\ unit = "provenance" => Provenance!TypeOK
  /\ unit = "libraries" => Libraries!TypeOK
  /\ unit = "export" => Export!TypeOK
  /\ unit = "validation" => Validation!TypeOK

(* What is recorded is true.  A calibration receipt has its outputs and    *)
(* names the inputs its commands read, unless a cleanup failed, and a run  *)
(* that returned survives a power loss; every row of an evaluation came    *)
(* from the artifact its summary names, whose lineage is of one run        *)
(* (run_calibration_pipeline, main of evaluate_code_gguf.py).              *)
ReceiptIsTruthful ==
  /\ unit = "calibration" => Pipeline!ReceiptHasOutputs
  /\ unit = "calibration" => Pipeline!ReceiptIsTruthful
  /\ unit = "calibration" => Pipeline!DoneIsDurable
  /\ unit = "evaluation" => Evaluation!SummaryIsExact

(* A calibration that failed and reports no incomplete cleanup has left    *)
(* neither a destination nor a temporary, even after a power loss; an      *)
(* evaluation leaves its staging directory only if it was killed, or       *)
(* stopped outside the try or in the middle of the removal                 *)
(* (_rollback_destinations, _cleanup_temporary_records, the except clause  *)
(* of main).                                                               *)
FailedLeavesNothing ==
  /\ unit = "calibration" => Pipeline!FailedLeavesNothing
  /\ unit = "evaluation" => Evaluation!StagingRemoved

(* Files may be exchanged between any two reads of a validation, and what  *)
(* it accepts is still of one training run, of one conversion of it, and   *)
(* of diagnostics of that artifact with that run's lineage; accepted       *)
(* repeats of a diagnostic are evaluations of their own, made one after    *)
(* the other (validate_publication, validate_declared_diagnostic).         *)
AcceptedIsOneRun ==
  /\ unit = "provenance" => Provenance!AcceptedIsOneRun
  /\ unit = "provenance" => Provenance!AcceptedIsOneConversion
  /\ unit = "provenance" => Provenance!DiagnosticsAreOfIt
  /\ unit = "validation" => Validation!RepeatsAreDistinct
  /\ unit = "validation" => Validation!RepeatsAreOfOneRun

(* Whatever is written, relinked or moved during an inspection, what it    *)
(* accepts was there at one moment: the libraries of llama.cpp, each read  *)
(* as a whole; no forbidden module in any directory of its imports; the    *)
(* files of a verified export (_runtime_library_closure, the two snapshots *)
(* of the import surface, _recheck_bound_file).                            *)
AcceptedAtOnce ==
  /\ unit = "libraries" => Libraries!SeenWhole
  /\ unit = "libraries" => Libraries!AcceptedAtOnce
  /\ unit = "imports" => Imports!AcceptedIsClean
  /\ unit = "export" => Export!AcceptedAtOnce

(* An accepted receipt is the one whose signature was checked, with the    *)
(* key that the worker spec pins, and names the model that was read,       *)
(* although every file may be replaced after the preflight                 *)
(* (verify_export).                                                        *)
ExportIsSigned == unit = "export" => Export!AcceptedIsSigned

(* Of two calibrations or two evaluations with one destination neither     *)
(* removes or overwrites what the other left there (the inode a rollback   *)
(* compares, os.link, and os.replace of a directory).                      *)
NeverClobbers ==
  [][/\ unit = "calibration" => Pipeline!NeverClobbersStep
     /\ unit = "evaluation" => Evaluation!ResultsStayStep]_all
=============================================================================
