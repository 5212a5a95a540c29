------------------------------ MODULE Processes ------------------------------
(***************************************************************************)
(* How the scripts run commands: a contained command, the command of the   *)
(* calibration pipeline, a launch of the diagnostic, and the attestation   *)
(* of the runtime a contained command uses.  Each runs alone; unit says    *)
(* which, and the variables of the others stay where they are.             *)
(***************************************************************************)
EXTENDS Integers, FiniteSets, Sequences

CONSTANTS Members, MaxFaults,                                     \* a contained command
          Capacity, MaxBytes, MaxSignals,                         \* a calibration command
          Launchers, Last, MaxLaunchFaults,                       \* the diagnostic
          Paths, Root, Content, Installed, LastDir, Tree, MaxEdits  \* a runtime

VARIABLES unit, state, parent, grouped, doomed, subreaper, pc, known, status, pre, runtime,
          notes, record, durable, spawns, used, outlived, faults, command_pc, failing,
          command_grouped, escaped, holds, pipe, written, captured, thread, lingering,
          late, reported, outcome, signals, world, output, marker, receipt, litter, at,
          run, child, heir, spawned, launch_faults, disk, edits, round, attestation_pc,
          asked, digest, queue, parsing, result, listed, between, verdict

Contained == INSTANCE ContainedCommand WITH Processes <- Members
Command == INSTANCE CommandExecution WITH
  pc <- command_pc, grouped <- command_grouped
Launch == INSTANCE DiagnosticLaunch WITH
  MaxFaults <- MaxLaunchFaults, Reboots <- FALSE, faults <- launch_faults
Attestation == INSTANCE RuntimeAttestation WITH
  Present <- Installed, pc <- attestation_pc

ASSUME ParametersAssumption ==
  /\ Contained!ContainmentAssumption /\ Command!CommandAssumption
  /\ Launch!LaunchAssumption /\ Attestation!ContentAssumption

all == <<unit, state, parent, grouped, doomed, subreaper, pc, known, status, pre, runtime, notes,
         record, durable, spawns, used, outlived, faults, command_pc, failing,
         command_grouped, escaped, holds, pipe, written, captured, thread, lingering, late,
         reported, outcome, signals, world, output, marker, receipt, litter, at, run,
         child, heir, spawned, launch_faults, disk, edits, round, attestation_pc, asked,
         digest, queue, parsing, result, listed, between, verdict>>

Still ==
  /\ IF unit = "contained" THEN TRUE
     ELSE UNCHANGED <<state, parent, grouped, doomed, subreaper, pc, known, status, pre,
                      runtime, notes, record, durable, spawns, used, outlived, faults>>
  /\ IF unit = "command" THEN TRUE
     ELSE UNCHANGED <<command_pc, failing, command_grouped, escaped, holds, pipe, written,
                      captured, thread, lingering, late, reported, outcome, signals>>
  /\ IF unit = "launch" THEN TRUE
     ELSE UNCHANGED <<world, output, marker, receipt, litter, at, run, child, heir,
                      spawned, launch_faults>>
  /\ IF unit = "attestation" THEN TRUE
     ELSE UNCHANGED <<disk, edits, round, attestation_pc, asked, digest, queue, parsing,
                      result, listed, between, verdict>>

SuiteInit == unit \in {"contained", "command", "launch", "attestation"}
             /\ Contained!Init
             /\ Command!Init
             /\ Launch!Init
             /\ Attestation!Init

SuiteNext == /\ \/ unit = "contained" /\ Contained!Next
                \/ unit = "command" /\ Command!Next
                \/ unit = "launch" /\ Launch!Next
                \/ unit = "attestation" /\ Attestation!Next
             /\ UNCHANGED unit
             /\ Still

contained == <<state, parent, grouped, doomed, subreaper, pc, known, status, pre, runtime,
               notes, record, durable, spawns, used, outlived, faults>>
command == <<command_pc, failing, command_grouped, escaped, holds, pipe, written, captured,
             thread, lingering, late, reported, outcome, signals>>
launch == <<world, output, marker, receipt, litter, at, run, child, heir, spawned,
            launch_faults>>
attestation == <<disk, edits, round, attestation_pc, asked, digest, queue, parsing, result,
                 listed, between, verdict>>

(* The fairness of each component, while it runs. *)
SuiteSpec == /\ SuiteInit /\ [][SuiteNext]_all
             /\ WF_contained(unit = "contained" /\ Contained!Controller)
             /\ WF_contained(unit = "contained" /\ Contained!Killed)
             /\ WF_command(unit = "command" /\ Command!Controller)
             /\ WF_command(unit = "command" /\ Command!Streaming)
             /\ \A l \in Launchers : WF_launch(unit = "launch" /\ Launch!Step(l))
             /\ \A l \in Launchers : WF_launch(unit = "launch" /\ Launch!TimeOut(l))
             /\ WF_attestation(unit = "attestation" /\ Attestation!Attest)

-----------------------------------------------------------------------------
(* The values of every component's variables, as its module describes them. *)
TypeOK ==
  /\ unit = "contained" => Contained!TypeOK
  /\ unit = "command" => Command!TypeOK
  /\ unit = "launch" => Launch!TypeOK
  /\ unit = "attestation" => Attestation!TypeOK

(* An accepted record, and a receipt that says validated, mean that        *)
(* nothing of the command is left, however deep it forked and whatever     *)
(* group it moved to; ECHILD is noted only when that is so                 *)
(* (_drain_descendants, the drain of _launch_repeat).                      *)
AcceptedIsContained ==
  /\ unit = "contained" => Contained!AcceptedIsContained
  /\ unit = "contained" => Contained!EchildIsTerminal
  /\ unit = "launch" => Launch!ValidatedIsContained

(* An accepted command has seen one runtime, the attested one, all along;  *)
(* and two attestations that agree describe what the loader would find:    *)
(* every object, its bytes, where each of its needs is found, and the tree *)
(* (_attest_request before, just before and after; attest_elf_closure).    *)
AcceptedIsExact ==
  /\ unit = "contained" => Contained!AcceptedIsExact
  /\ unit = "attestation" => Attestation!AcceptedIsExact

(* One record path runs its command at most once, and one repeat of a      *)
(* series its evaluator, whatever interrupts, kills, power losses and      *)
(* other launches come in between (_write_record, the marker's os.link).   *)
RunsOnce ==
  /\ unit = "contained" => Contained!RunsOnce
  /\ unit = "launch" => Launch!EvaluatedOnce

(* A calibration command that returns is complete: its group is gone and   *)
(* the digests of both streams cover every byte.  However it ends, one it  *)
(* left behind was noticed, and is reported unless a signal replaces the   *)
(* report (_execute_argv, _stop_process_group).                            *)
ReturnedIsComplete ==
  /\ unit = "command" => Command!ReturnedIsComplete
  /\ unit = "command" => Command!LeftBehindIsReported

(* An evaluator starts only when every earlier repeat has a receipt that   *)
(* says validated, under the contract and the runtime of this launch, and  *)
(* each receipt states the validation of the one before it.                *)
SeriesAgrees == unit = "launch" => Launch!SeriesAgrees

(* The evaluator leaves its exec stop only after the inspection, or dead.  *)
RunsInspected == [][unit = "launch" => Launch!RunsInspectedStep]_all
=============================================================================
