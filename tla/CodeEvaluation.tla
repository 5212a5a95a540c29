---------------------------- MODULE CodeEvaluation ----------------------------
(***************************************************************************)
(* Evaluation of a GGUF artifact on the public diagnostic rows             *)
(* (evaluate_code_gguf.main): everything the summary names is identified,  *)
(* the engine loads the artifact and generates row after row into a        *)
(* staging directory, everything is identified again and the directory is  *)
(* renamed to the output.  An artifact is known by its version; the first  *)
(* is the one whose digest the operator gave.                              *)
(***************************************************************************)
EXTENDS TrainingLineage_proofs, Sequences

CONSTANTS Evaluators, Rows, LastArtifact, LastRuntime, MaxFaults

EvaluationAssumption ==
  /\ RunAssumption /\ Readers = Evaluators
  /\ Rows \in Nat /\ MaxFaults \in Nat
  /\ LastArtifact \in Nat \ {0} /\ LastRuntime \in Nat \ {0}

VARIABLES artifact,  \* version of the artifact on disk
          runtime,   \* version of the engine, the evaluator and their tools
          given,     \* whether each evaluator was given a training run
          phase,     \* what each evaluator does next
          before,    \* lineage and runtime each evaluator identified first
          engine,    \* artifact version each evaluator's engine holds, 0 for none
          results,   \* artifact versions each evaluator's rows came from
          staging,   \* whose staging directory exists
          output,    \* the output directory
          outcome, faults

run_state == <<before, engine, results>>
vars == <<disk, loader, artifact, runtime, given, phase, run_state, staging, output, outcome,
          faults>>

Expected == 1
NoOutput == [by |-> "nobody"]
Working == {"generate", "reload", "again", "rename"}
Phases == {"start", "lineage", "identify", "staged", "cleanup", "ended", "cut", "killed"}
            \cup Working

Fault == faults < MaxFaults /\ faults' = faults + 1
At(p, place) == phase[p] = place
Goto(p, place) == phase' = [phase EXCEPT ![p] = place]
World == UNCHANGED <<disk, artifact, runtime, given>>

Init == /\ LineageInit
        /\ artifact = 1 /\ runtime = 1 /\ faults = 0
        /\ given \in [Evaluators -> BOOLEAN]
        /\ phase = [p \in Evaluators |-> "start"]
        /\ before = [p \in Evaluators |-> [lineage |-> Nothing, runtime |-> 0]]
        /\ engine = [p \in Evaluators |-> 0] /\ results = [p \in Evaluators |-> <<>>]
        /\ staging = {} /\ output = NoOutput
        /\ outcome = [p \in Evaluators |-> "none"]

(* The world around the evaluators.                                        *)
Edit == /\ \/ Replace /\ UNCHANGED <<artifact, runtime>>
           \/ artifact < LastArtifact /\ artifact' = artifact + 1 /\ UNCHANGED <<disk, runtime>>
           \/ runtime < LastRuntime /\ runtime' = runtime + 1 /\ UNCHANGED <<disk, artifact>>
        /\ UNCHANGED <<loader, given, phase, run_state, staging, output, outcome, faults>>

(* What is raised before the directory is made ends the evaluation; in the  *)
(* try, the except clause first unloads the engine, and then removes the   *)
(* directory.  Mutant: the rename has been moved behind the try.           *)
BeforeRename(p) == phase[p] \in Working \ {"rename"}
InTry(p) == phase[p] \in Working
Unloads(p) == engine' = [engine EXCEPT ![p] = 0]
Refused(p) == outcome' = [outcome EXCEPT ![p] = "refused"]
Refuse(p) == /\ \/ InTry(p) /\ Goto(p, "cleanup") /\ UNCHANGED outcome
                \/ ~InTry(p) /\ Goto(p, "ended") /\ Refused(p)
             /\ Unloads(p) /\ World /\ UNCHANGED <<before, results, staging, output>>
Move(p, from, to) == At(p, from) /\ Goto(p, to) /\ World /\ UNCHANGED <<output, outcome, faults>>

(* The arguments; the output must not exist.                               *)
Start(p) == /\ At(p, "start") /\ UNCHANGED faults
            /\ \/ /\ output = NoOutput /\ given[p] /\ StartLoad(p) /\ Move(p, "start", "lineage")
                  /\ UNCHANGED <<run_state, staging>>
               \/ /\ output = NoOutput /\ ~given[p] /\ Move(p, "start", "identify")
                  /\ UNCHANGED <<loader, run_state, staging>>
               \/ output # NoOutput /\ Refuse(p) /\ UNCHANGED loader

(* The lineage, before and after the generation.                           *)
Load(p) == /\ phase[p] \in {"lineage", "reload"} /\ LoadStep(p) /\ World
           /\ UNCHANGED <<phase, run_state, staging, output, outcome, faults>>
LoadRefused(p) == /\ phase[p] \in {"lineage", "reload"} /\ stage[p] = "refused"
                  /\ Refuse(p) /\ Rest(p) /\ UNCHANGED faults
Loaded(p) == /\ stage[p] = "loaded" /\ Rest(p) /\ Move(p, "lineage", "identify")
             /\ before' = [before EXCEPT ![p].lineage = lineage[p]]
             /\ UNCHANGED <<engine, results, staging>>

(* The artifact must have the digest the operator gave (artifact_identity),*)
(* the runtime is identified, and the staging directory is made.  The try  *)
(* that removes it begins when the engine is made.                         *)
Accepted(v) == v = Expected
Identify(p) == /\ At(p, "identify") /\ UNCHANGED <<loader, faults>>
               /\ \/ /\ Accepted(artifact) /\ Move(p, "identify", "staged")
                     /\ before' = [before EXCEPT ![p].runtime = runtime]
                     /\ staging' = staging \cup {p} /\ UNCHANGED <<engine, results>>
                  \/ ~Accepted(artifact) /\ Refuse(p)
MakeEngine(p) == /\ Move(p, "staged", "generate") /\ UNCHANGED <<loader, faults>>
                 /\ UNCHANGED <<run_state, staging>>

(* The engine reads the artifact by its path, once, and generates.  A row  *)
(* whose generation failed is a result like the others.                    *)
EngineLoad(p) == /\ At(p, "generate") /\ engine[p] = 0 /\ results[p] = <<>>
                 /\ engine' = [engine EXCEPT ![p] = artifact] /\ World
                 /\ UNCHANGED <<loader, phase, before, results, staging, output, outcome, faults>>
Generate(p) == /\ At(p, "generate") /\ engine[p] # 0 /\ Len(results[p]) < Rows
               /\ results' = [results EXCEPT ![p] = Append(@, engine[p])] /\ World
               /\ UNCHANGED <<loader, phase, before, engine, staging, output, outcome, faults>>
Unload(p) == /\ engine[p] # 0 /\ Len(results[p]) = Rows
             /\ Unloads(p) /\ UNCHANGED <<before, results, staging>>
             /\ \/ given[p] /\ StartLoad(p) /\ Move(p, "generate", "reload")
                \/ ~given[p] /\ Move(p, "generate", "again") /\ UNCHANGED loader

(* Everything again.                                                       *)
SameLineage(p) == lineage[p] = before[p].lineage
Reloaded(p) == /\ At(p, "reload") /\ stage[p] = "loaded" /\ Rest(p) /\ UNCHANGED faults
               /\ \/ SameLineage(p) /\ Move(p, "reload", "again")
                     /\ UNCHANGED <<run_state, staging>>
                  \/ ~SameLineage(p) /\ Refuse(p)
(* Mutant: the artifact is not identified after the generation.            *)
OldArtifact(p) == runtime = before[p].runtime
SameInputs(p) == Accepted(artifact) /\ runtime = before[p].runtime
IdentifyAgain(p) == /\ At(p, "again") /\ UNCHANGED <<loader, faults>>
                    /\ \/ SameInputs(p) /\ Move(p, "again", "rename")
                          /\ UNCHANGED <<run_state, staging>>
                       \/ ~SameInputs(p) /\ Refuse(p)

(* The summary is written, the output looked for and the staging directory *)
(* renamed to it.  rename(2) of a directory refuses one that is not empty, *)
(* and nobody's output is: looking first decides nothing.                  *)
(* Mutant: rename(2) would replace an output.                              *)
AnyTarget(p) == TRUE
RenameSucceeds(p) == output = NoOutput
Rename(p) == /\ At(p, "rename") /\ UNCHANGED <<loader, faults>>
             /\ \/ /\ RenameSucceeds(p) /\ Goto(p, "ended")
                   /\ output' = [by |-> p, results |-> results[p], artifact |-> Expected,
                                 lineage |-> before[p].lineage]
                   /\ staging' = staging \ {p} /\ outcome' = [outcome EXCEPT ![p] = "complete"]
                   /\ World /\ UNCHANGED run_state
                \/ ~RenameSucceeds(p) /\ Refuse(p)

(* shutil.rmtree of the directory, if nothing cuts it short.               *)
RemoveStaging(p) == /\ At(p, "cleanup") /\ Goto(p, "ended") /\ Refused(p)
                    /\ staging' = staging \ {p} /\ World
                    /\ UNCHANGED <<loader, run_state, output, faults>>

(* An exception where the program stands, KeyboardInterrupt included.      *)
Interrupt(p) == /\ phase[p] \in {"lineage", "identify"} \cup Working
                /\ Fault /\ Refuse(p) /\ Rest(p)
(* Before the try nothing removes the directory, and an interrupt or an    *)
(* error of rmtree, which ignores it, leaves the directory or a part of it.*)
CutShort(p) == /\ phase[p] \in {"staged", "cleanup"} /\ Fault /\ Goto(p, "cut") /\ Refused(p)
               /\ World /\ UNCHANGED <<loader, run_state, staging, output>>
Kill(p) == /\ phase[p] \notin {"start", "ended", "cut", "killed"} /\ Fault /\ Goto(p, "killed")
           /\ World /\ Rest(p) /\ UNCHANGED <<run_state, staging, output, outcome>>

Evaluate(p) == \/ Start(p) \/ Load(p) \/ LoadRefused(p) \/ Loaded(p) \/ Identify(p)
               \/ MakeEngine(p) \/ EngineLoad(p) \/ Generate(p) \/ Unload(p) \/ Reloaded(p)
               \/ IdentifyAgain(p) \/ Rename(p) \/ RemoveStaging(p)
Next == Edit \/ \E p \in Evaluators : Evaluate(p) \/ Interrupt(p) \/ CutShort(p) \/ Kill(p)

Spec == Init /\ [][Next]_vars

-----------------------------------------------------------------------------
TypeOK == /\ LineageTypeOK /\ artifact \in 1..LastArtifact /\ runtime \in 1..LastRuntime
          /\ given \in [Evaluators -> BOOLEAN] /\ phase \in [Evaluators -> Phases]
          /\ before \in [Evaluators -> [lineage : Lineages, runtime : 0..LastRuntime]]
          /\ engine \in [Evaluators -> 0..LastArtifact]
          /\ \A p \in Evaluators : Len(results[p]) <= Rows
          /\ staging \subseteq Evaluators /\ faults \in 0..MaxFaults
          /\ outcome \in [Evaluators -> {"none", "complete", "refused"}]
          /\ \A p \in Evaluators : engine[p] # 0 => phase[p] \in {"generate", "killed"}

(* Whatever was replaced while it ran, a summary names the artifact every  *)
(* one of its rows came from, and the lineage of a single run if any (the  *)
(* artifact and the lineage are identified before and after).              *)
SummaryIsExact ==
  output # NoOutput =>
    /\ \A i \in DOMAIN output.results : output.results[i] = output.artifact
    /\ output.lineage # Nothing => /\ OneRun(output.lineage)
                                   /\ output.lineage.receipt = output.lineage.metadata

(* The steps that the next property allows. *)
ResultsStayStep == output # NoOutput => output' = output

(* Of two evaluations with one output, the later one never replaces the    *)
(* earlier one's results.                                                  *)
ResultsStay == [][ResultsStayStep]_output

(* A staging directory outlives its evaluation only if that was killed, or *)
(* met an exception between making the directory and entering the try, or  *)
(* while it removed the directory.  No refusal leaves one, wherever it     *)
(* comes from, and no complete evaluation does.                            *)
StagingRemoved ==
  \A p \in staging : phase[p] \in Working \cup {"staged", "cleanup", "cut", "killed"}
=============================================================================
