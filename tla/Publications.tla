----------------------------- MODULE Publications -----------------------------
(***************************************************************************)
(* What the repository publishes: a GitHub release, a chain commitment, a  *)
(* W&B run and a converted bundle.  The components share nothing and never *)
(* meet, so a behaviour is one of one of them: unit says of which, and the *)
(* variables of the others stay where they are.  A release and a           *)
(* conversion come in two settings each.  The instances are those of the   *)
(* proof modules, where there is one, so that their theorems can be cited. *)
(***************************************************************************)
EXTENDS Integers, FiniteSets, Sequences

CONSTANTS Names, Contents, Signed, Ids, MaxReleaseFaults,         \* a release
          Period, MaxHead, MaxChanges,                            \* a transaction
          Versions, Processes, MaxFaults, MaxEdits,               \* a W&B publication
          One, Several    \* the settings of a conversion: the converters, the runs with
                          \* their profiles, the tools and a bound on failures

VARIABLES unit, releases, setting, disabled, late, disk, pc, run, faults, snapshots,
          inputs_now, next_nonce, head, stage, step, nonce, expires, extrinsic, pool, landed,
          changes, stale, sends, inputs, file, remote, wandb_late, action, digest, wandb_pc, held, state,
          report, writers, wandb_faults, edits, conversion_run, data, conversion_stage,
          lineage, tools, pinned, kind, phase, initial, work, kept, staging, bundle,
          outcome, conversion_faults

Release == INSTANCE GitHubRelease_proofs WITH
  MaxFaults <- MaxReleaseFaults, ReportsDigest <- TRUE
Undigested == INSTANCE GitHubRelease_proofs WITH
  MaxFaults <- MaxReleaseFaults, ReportsDigest <- FALSE
Tx == INSTANCE TransactionAuthorization WITH
  world <- inputs_now, next <- next_nonce
Publication == INSTANCE CodePublication WITH
  late <- wandb_late, pc <- wandb_pc, faults <- wandb_faults
Conversion == INSTANCE CodeConversion_proofs WITH
  Readers <- One.converters, Converters <- One.converters, LastRun <- One.runs,
  ProfileOf <- One.profiles, LastTools <- One.tools, Pinned <- One.pinned,
  MaxFaults <- One.faults, run <- conversion_run, stage <- conversion_stage,
  faults <- conversion_faults
Race == INSTANCE CodeConversion_proofs WITH
  Readers <- Several.converters, Converters <- Several.converters, LastRun <- Several.runs,
  ProfileOf <- Several.profiles, LastTools <- Several.tools, Pinned <- Several.pinned,
  MaxFaults <- Several.faults, run <- conversion_run, stage <- conversion_stage,
  faults <- conversion_faults

ASSUME ParametersAssumption ==
  /\ Release!ReleaseAssumption /\ Undigested!ReleaseAssumption
  /\ Tx!PeriodAssumption /\ Publication!PublicationAssumption
  /\ Conversion!ConversionAssumption /\ Race!ConversionAssumption

all == <<unit, releases, setting, disabled, late, disk, pc, run, faults, snapshots,
         inputs_now, next_nonce, head, stage, step, nonce, expires, extrinsic, pool, landed, changes, stale, sends,
         inputs, file, remote, wandb_late, action, digest, wandb_pc, held, state, report,
         writers, wandb_faults, edits, conversion_run, data, conversion_stage, lineage,
         tools, pinned, kind, phase, initial, work, kept, staging, bundle, outcome,
         conversion_faults>>

(* The variables of the components that do not run. *)
Idle ==
  /\ IF unit \in {"release", "release without digests"} THEN TRUE
     ELSE /\ releases = <<>> /\ setting = FALSE /\ disabled = FALSE /\ late = {}
          /\ disk = Signed /\ pc = "proved" /\ run = 0
          /\ faults = 0 /\ snapshots = {}
  /\ IF unit = "authorization" THEN TRUE
     ELSE /\ inputs_now = 0 /\ next_nonce = 0 /\ head = 0 /\ stage = 0 /\ step = 0
          /\ nonce = 0 /\ expires = 0 /\ extrinsic = 0 /\ pool = {} /\ landed = "none"
          /\ changes = 0 /\ stale = 0 /\ sends = 0
  /\ IF unit = "wandb" THEN TRUE
     ELSE /\ inputs = 0 /\ file = 0 /\ remote = 0 /\ wandb_late = 0 /\ action = 0
          /\ digest = 0 /\ wandb_pc = 0 /\ held = 0 /\ state = 0 /\ report = 0
          /\ writers = 0 /\ wandb_faults = 0 /\ edits = 0
  /\ IF unit \in {"conversion", "two conversions"} THEN TRUE
     ELSE /\ conversion_run = 0 /\ data = 0 /\ conversion_stage = 0 /\ lineage = 0
          /\ tools = 0 /\ pinned = 0 /\ kind = 0 /\ phase = [p \in One.converters |-> "ended"]
          /\ initial = 0 /\ work = 0 /\ kept = 0 /\ staging = 0 /\ bundle = 0
          /\ outcome = 0 /\ conversion_faults = 0

Still ==
  /\ IF unit \in {"release", "release without digests"} THEN TRUE
     ELSE UNCHANGED <<releases, setting, disabled, late, disk, pc, run, faults, snapshots>>
  /\ IF unit = "authorization" THEN TRUE
     ELSE UNCHANGED <<inputs_now, next_nonce, head, stage, step, nonce, expires, extrinsic,
                      pool, landed, changes, stale, sends>>
  /\ IF unit = "wandb" THEN TRUE
     ELSE UNCHANGED <<inputs, file, remote, wandb_late, action, digest, wandb_pc, held,
                      state, report, writers, wandb_faults, edits>>
  /\ IF unit \in {"conversion", "two conversions"} THEN TRUE
     ELSE UNCHANGED <<conversion_run, data, conversion_stage, lineage, tools, pinned, kind,
                      phase, initial, work, kept, staging, bundle, outcome,
                      conversion_faults>>

SuiteInit == /\ \/ unit = "release" /\ Release!Init
                \/ unit = "release without digests" /\ Undigested!Init
                \/ unit = "authorization" /\ Tx!Init
                \/ unit = "wandb" /\ Publication!Init
                \/ unit = "conversion" /\ Conversion!Init
                \/ unit = "two conversions" /\ Race!Init
             /\ Idle

SuiteNext == /\ \/ unit = "release" /\ Release!Next
                \/ unit = "release without digests" /\ Undigested!Next
                \/ unit = "authorization" /\ Tx!Next
                \/ unit = "wandb" /\ Publication!Next
                \/ unit = "conversion" /\ Conversion!Next
                \/ unit = "two conversions" /\ Race!Next
             /\ UNCHANGED unit
             /\ Still

release == <<releases, setting, disabled, late, disk, pc, run, faults, snapshots>>
conversion == <<conversion_run, data, conversion_stage, lineage, tools, pinned, kind,
                phase, initial, work, kept, staging, bundle, outcome, conversion_faults>>

(* The fairness of each component, while it runs. *)
SuiteSpec == /\ SuiteInit /\ [][SuiteNext]_all
             /\ WF_release(unit = "release" /\ Release!Publisher)
             /\ WF_release(unit = "release" /\ Release!Settle)
             /\ \A p \in One.converters : WF_conversion(unit = "conversion" /\ Conversion!Convert(p))

-----------------------------------------------------------------------------
(* The values of every component's variables, as its module describes them. *)
TypeOK ==
  /\ unit = "release" => Release!TypeOK
  /\ unit = "release without digests" => Undigested!TypeOK
  /\ unit = "authorization" => Tx!TypeOK
  /\ unit = "wandb" => Publication!TypeOK
  /\ unit = "conversion" => Conversion!TypeOK
  /\ unit = "two conversions" => Race!TypeOK

(* What a publisher goes on with is exact: the release that verify_source  *)
(* accepted, in whichever cycle, is public and what the manifest signs,    *)
(* even when GitHub states no digests, and immutable unless an owner turned *)
(* that off; and a call that returns from backend.publish has put its own  *)
(* call on chain, successfully and free of charge.                         *)
PublishedIsExact ==
  /\ unit = "release" => Release!ProvedIsSigned
  /\ unit = "release without digests" => Undigested!ProvedIsSigned
  /\ unit = "authorization" => Tx!ReturnedIsExact

(* One call of backend.publish calls submit_extrinsic at most once, however *)
(* its answer was lost or raised: a broadcast whose fate is unknown is     *)
(* never repeated from inside the call.  Without the broadcast nothing of  *)
(* the call is pending or on chain, and it is decided once.                *)
SendsOnce == unit = "authorization" => Tx!SendsOnce

(* The hotkey's name is only ever on a finished W&B run with every log and *)
(* the summary of the authorized payload, whatever the SDK lost, delayed   *)
(* or raised; a publication is reported as committed only if its run has   *)
(* the name, and keeps being so whatever fails after it (publish of        *)
(* publish_code_provenance.py, from the readback to the teardown).         *)
CommitIsExact ==
  /\ unit = "wandb" => Publication!MarkedIsExact
  /\ unit = "wandb" => Publication!CommittedIsMarked
  /\ unit = "wandb" => Publication!CommitIsKept

(* A deterministic run ID is consumed by one publication: no replay of the *)
(* payload writes into its run, however the first one ended (resume="never", *)
(* :2913, :3476-3507).                                                     *)
NeverReplayed == unit = "wandb" => Publication!NeverReplayed

(* A payload that is published is the one the operator authorized, a       *)
(* payload file never has its name without its content, not even after a   *)
(* power loss, and an export is reported as done only when it is durable   *)
(* (export_payload, authorize_payload).                                    *)
ExportIsExact ==
  /\ unit = "wandb" => Publication!CreatedIsAuthorized
  /\ unit = "wandb" => Publication!ExportedIsComplete
  /\ unit = "wandb" => Publication!ExportIsReported

(* What one load promises whichever files were replaced while it ran: the  *)
(* metadata, merged tree and metrics of a single run of the dataset's      *)
(* profile (_load_training_run).  The receipt is not part of it.           *)
LoadedIsOneRun ==
  /\ unit = "conversion" => Conversion!LoadedIsOneRun
  /\ unit = "two conversions" => Race!LoadedIsOneRun

(* Whatever was replaced while it was made, a bundle is of the one whole   *)
(* training run and the pinned build its receipt names, calibrated as the  *)
(* run's profile demands; a conversion that returned left its own bundle,  *)
(* and only one that was killed, or cut short before the try or in its     *)
(* finally clause, a staging directory (_convert_calibrated).              *)
BundleIsExact ==
  /\ unit = "conversion" => Conversion!BundleIsExact
  /\ unit = "conversion" => Conversion!CurrentIsCalibrated
  /\ unit = "conversion" => Conversion!ReturnedIsThere
  /\ unit = "conversion" => Conversion!StagingRemoved
  /\ unit = "two conversions" => Race!BundleIsExact
  /\ unit = "two conversions" => Race!CurrentIsCalibrated
  /\ unit = "two conversions" => Race!ReturnedIsThere
  /\ unit = "two conversions" => Race!StagingRemoved

(* A calibrated bundle holds nothing that a repetition would not produce,  *)
(* however its commands misbehaved (the determinism replay).               *)
CalibratedIsReproduced ==
  /\ unit = "conversion" => Conversion!CalibratedIsReproduced
  /\ unit = "two conversions" => Race!CalibratedIsReproduced

(* Nothing is broadcast that the gate, the registration, the runtime, the  *)
(* nonce or the fee has spoken against ever since it was signed: an input  *)
(* may change after it was read, but not before the signature and for good *)
(* (the rechecks of _submit_authorized_commitment), and the extrinsic is   *)
(* still the inspected one.                                                *)
SentIsAuthorized == [][unit = "authorization" => Tx!SentIsAuthorizedStep]_all

(* What has been published is never replaced or rewritten by a later or a  *)
(* racing invocation: neither an exported payload (os.link) nor a bundle   *)
(* (RENAME_NOREPLACE).                                                     *)
PublishedStays ==
  [][/\ unit = "wandb" => Publication!NeverReplacedStep
     /\ unit = "conversion" => Conversion!BundleStaysStep
     /\ unit = "two conversions" => Race!BundleStaysStep]_all

(* The tag that GitHub's answers describe with digests, which is never     *)
(* written while another component runs.                                   *)
Tag == INSTANCE WriteOnce WITH
  Values <- {Release!Exactly(s) : s \in [Names -> Contents]},
  Absent <- Release!Empty,
  prepared <- IF unit = "release" THEN Release!Prepared ELSE {},
  cell <- IF unit = "release" THEN Release!PublicAssets ELSE Release!Empty

(* The tag, seen from outside, goes from nothing to one file set that was  *)
(* prepared as a whole, and stays there: a draft pieced together by several *)
(* attempts never becomes public incomplete or mixed (publish,             *)
(* _verify_asset_set), whichever requests arrive late.                     *)
PublishedAtOnce == Tag!Spec

(* A release is proved in the end unless something no attempt can repair   *)
(* is in its way, and a conversion ends, refused or not, unless it is cut  *)
(* short or killed (upload, publish; the bounded commands of convert).     *)
PublicationEnds ==
  /\ <>(unit = "release" => pc = "proved") \/ <>[](Release!Unrepairable)
  /\ \A p \in One.converters : <>(unit = "conversion" => phase[p] \in {"ended", "cut", "killed"})
=============================================================================
