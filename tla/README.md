# A verification of the Microtensor miner

The repository holds two programs.  The controller
(`src/src/microtensor_miner_controller`) supervises one registered hotkey: for every
round the coordinator opens it signs a manifest, uploads it as an immutable GitHub
release, writes one commitment to the chain and proves that both are exact.  It runs
unattended, it holds keys, and an extrinsic cannot be taken back.  The scripts of
`src/training` make what is released: they train, convert, calibrate, evaluate and
publish, by hand and step by step, and their outputs claim to be made of particular
inputs, once, and without anything else in between.

What makes both correct is what happens when an answer is lost, a write fails, a file is
replaced between two reads, a process dies or leaves another one behind, or the host loses
power.  That is what these modules describe.

Line references without a file are to `controller.py`.

## 1. The system

| component | state | operations | talks to |
|---|---|---|---|
| submission controller (`controller.py`) | its place in the cycle, the round window it works on | preflight, cycle, submit, reconcile, re-verify, refuse | everything below |
| state store (`state.py`) | `status.json`, `health.json`, `authorization-refusal.json`, `submission-pending.json`, `rank.json`, a lock | write, mark_verified, heartbeat, latch, mark/clear pending, health | the file system |
| round trust (`coordinator.py`, `models.py`) | none; it reads the window persisted last | fetch, validate_served_round, accepts_at | the coordinator, the chain |
| backend (`backend.py`) | the wallet, an RPC session | package, upload, verify_source, publish, verify_on_chain | chain, release host, artifact directory |
| transaction authorization (`backend.py:867-1319`, `:1447`) | what it has read and signed | estimate, sign, inspect, re-check, submit one extrinsic, read the receipt | the chain |
| release publisher (`github_release.py`) | a draft and its assets at GitHub | create, upload, publish, verify | GitHub |
| upstream observer and gate (`upstream_observer.py`, `upstream_gate.py`) | the observer's own state directory, a git ref | poll, latch a rewrite, check exactness and age | git, the backend |
| rank monitor (`leaderboard.py`, `rank_observer.py`) | `rank.json` | poll | the leaderboard |
| binding, protected files, competition policy, configuration, redaction | none | check digests and metadata, parse the environment | backend, controller |
| supervision (`deploy/`, `scripts/`) | whether the program runs | restart on exit 1 or 2 or a crash; not on 0 or 3, not at boot | the controller |
| calibration pipeline (`run_calibration_pipeline.py`) | temporaries, three outputs, a receipt | run three commands, install, roll back | the llama.cpp tools |
| contained runtime (`code_conversion_runtime.py`) | a record per command, the processes it started | attest, reserve, spawn, drain, commit | the commands of a conversion |
| training lineage (`load_training_lineage`) | none | read the parts of a training run and bind them | conversion, evaluation, provenance, diagnostic validation |
| code conversion (`convert_code_gguf.py`) | a staging directory, the bundle | convert, calibrate, replay, publish | lineage, contained runtime |
| code evaluation (`evaluate_code_gguf.py`) | a staging directory, the results | identify, load, generate, identify again, rename | lineage, the engine |
| diagnostic launcher (`run_code_gguf_diagnostic.py`) | a marker and a receipt per repeat | check the series, reserve, hold at exec, inspect, run, drain, validate | the evaluator |
| diagnostic validation (`validate_code_gguf_diagnostic.py`) | none | validate a declared experiment and its repeats, aggregate | lineage, the evaluations |
| provenance publication (`publish_code_provenance.py`) | a payload file, a run at W&B | validate, export, authorize, publish, read back, rename | lineage, W&B |
| export verification (`verify_code_conversion_export.py`) | open descriptors | preflight, verify the signature, re-check | the export's files |
| extract provenance (`publish_provenance.py`), training, data preparation | files | sequential programs | W&B, none |

How the parts interact: the controller is one thread that calls the backend and the store;
the rank monitor is a second thread that writes only `rank.json`.  The chain, the
coordinator, GitHub, Supervisor and the operator are other parties that do not wait for it.
The scripts share no memory: they meet in the file system, in what one writes and
another reads, and nothing keeps two of them, or an operator's `mv`, from running at once.

What is hard here:

* **lost answers.** `submit_extrinsic`, an upload, a W&B rename: an exception says nothing
  about whether the request will be carried out, now or later.
* **crashes and power losses between any two steps.** A replaced, linked or unlinked file
  is visible at once and durable only after the directory was synced, and several files
  are written one after the other.
* **failing while failing.** The two places that record a refusal, a rollback interrupted by a
  second signal, a cleanup that cannot remove what it made.
* **stale knowledge.** What was read before a signature, a command or a comparison is used
  after it; the parts of a training run or of an export are read one by one.
* **processes that do not end.** A command forks, changes its group, ignores SIGTERM, keeps a
  pipe open; what it leaves must neither be missed nor waited for.
* **doing it twice.** A diagnostic's label, a contained command's record, a bundle's
  destination and a payload's W&B run are each to be used once, whoever races.
* **an untrusted counterpart.** The coordinator may serve older rounds, other bounds or
  another seed hash.

`PROJECT.json` lists the hazards by line with the properties that cover them.

## 2. Modules

The controller:

| module | what it is |
|---|---|
| `Submission` | abstract: one commitment undecided at a time, and never one that is on chain already |
| `WriteOnce` | abstract: a destination goes from nothing to one value prepared as a whole, and stays |
| `Rounds` | the trust decision as operators without state |
| `StateStore` | the effect of each primitive of the state directory, with the outcomes that can cut it short, and `AfterPowerLoss` |
| `MinerController` | the controller, the chain, the release host, Supervisor and the operator; extends both, and implements `Submission` |
| `TransactionAuthorization` | one call of `publish`, step by step |
| `GitHubRelease` | one release through its attempts; it implements `WriteOnce` |
| `UpstreamObserver` | the observer's poll over its state directory (an instance of `StateStore`), `origin/main`, the public branch, the clock, and the gate as a predicate on documents |

The scripts:

| module | what it is |
|---|---|
| `CommandExecution` | `_execute_argv` of the calibration: a process group, two pipes, two capture threads, signals |
| `CalibrationPipeline` | a calibration from its locks to its receipt, its rollback, and other runs with the same destinations |
| `ContainedCommand` | `run_contained_command`: the record, the subreaper, a tree of processes, the drain |
| `RuntimeAttestation` | `attest_runtime`: links, ELF closure and module tree, read one file at a time, twice |
| `TrainingLineage` | the reads of `load_training_lineage` and what binds them; extended by the next four |
| `CodeConversion` | a conversion from its arguments to its bundle |
| `CodeEvaluation` | an evaluation from its lineage to the renamed results |
| `CodeProvenance` | `validate_publication` over the files of several conversions |
| `DiagnosticValidation` | `validate_declared_diagnostic` over the historical, normalized and current experiments |
| `LibraryClosure`, `ImportSurface` | the two inspections of llama.cpp: `build/bin` read in chunks, the imports walked twice |
| `DiagnosticLaunch` | two launchers of a series of repeats |
| `CodePublication` | export of a payload, its authorization, and its publication at W&B |
| `ExportVerification` | every open, hash and recheck of `verify_export` |

`Publications`, `Processes` and `Evidence` put several modules side by side, for any values of the
constants (section 3); `MCPublication`, `MCProcesses` and `MCEvidence` give them values.  `MCMinerController`, `MCUpstreamObserver` and `MCGitHubRelease` give the other
instances TLC checks.  The `_proofs` modules hold the theorems (section 4).

The controller and the observer share no variable: the observer's process has its own state
directory, and the controller sees it only through the gate, whose refusal is one of the spurious
failures of the steps that call it.  `TransactionAuthorization` opens one step of the
controller, `Publish`, and `GitHubRelease` another, `Uploading`; what ties
them to it is the facts the controller takes from them (a public release is complete; a call
sends at most once).

### State of `MinerController`

| variable | stands for |
|---|---|
| `head` | the chain height the backend reads |
| `slot` | the hotkey's commitment on chain: its round, and (history) whether it was included at or after that round's close block |
| `inflight` | extrinsics that were broadcast and are neither included nor dropped |
| `local` | the round of the signed manifest in the artifact directory |
| `remote` | the rounds whose release is public and complete |
| `store` | the state directory, twice: what a process reads (`view`), and what a power loss leaves (`durable`) |
| `pc` | what the controller does next; `down`, `halted`, `exit3` when it does not run |
| `win` | the round window the current cycle works on |
| `faults` | spurious failures so far (a bound for TLC, nothing in the code) |

A status document keeps the fields the code decides on: `ok`, `round`,
`success` (`last_success_round`), `artifact` (the round of the recorded
artifact), `proofs` (all four proofs), `latched` (`authorization_latched`) and
`window` (`last_coordinator_window`).

### Actions

Every action is the code between two points at which another party, a failure or
a crash can change the outcome.  Successive writes of the same content, and the
registration checks between them, belong to the action they stand in.

| actions | code |
|---|---|
| `Restart`, `OperatorStart` | Supervisor and the operator start `run` |
| `Preflight`, `Check`, `PreflightFailed` | `preflight` and the retry loop of `run` (48-118) |
| `Loop`, `Stop` | the loop of `run` and its clean end (121-158) |
| `Cycle`, `Wait`, `Heartbeat` | `cycle` (192-293) with `_resolve_round` (671-707) |
| `Reverify`, `ReverifyCheck`, `MarkVerified` | `_reverify`, `_verified` (610-669) |
| `Submit`, `Package`, `Prepare`, `Recover`, `Upload`, `Uploading`, `Readback`, `Announce` | `_submit` before the marker (410-516) |
| `Mark`, `Recheck`, `Unmark`, `Publish`, `Await`, `Confirm`, `Clear` | `_submit` from the marker to the receipt (517-598) |
| `Reconcile`, `ReconcileCheck` | `_reconcile_pending` (295-408) |
| `Fail`, `Fatal` | `_failure`, `_waiting_for_trusted_round`, the last handlers of `run` |
| `Refuse`, `RefuseStatus` | `_authorization_failure` (937-993) |
| `Tick`, `Land`, `Drop` | the chain and its transaction pool |
| `Crash`, `PowerLoss`, `OperatorReview` | the host and the operator |

### `UpstreamObserver`

`main` is the public branch, `ref` is `refs/remotes/origin/main`, `poll` holds the local variables of
`poll_once` and `observe`, `elapsed` the time since the `ls-remote` of the poll under way.  `since` and
`unreviewed` are history: how long ago the branch was last the audited commit, and whether `origin/main` has
been rewritten without an operator archiving the status since.  A document keeps `ok`, `head`, the latch
and its age; ages saturate at the first one the gate refuses, so time needs no bound.

| actions | code (`upstream_observer.py`) |
|---|---|
| `BeginPoll` | the two reads of the prior status (248, 425) |
| `List` | the cached ref and `ls-remote` (252-272) |
| `Fetch`, `Latch`, `Update` | the candidate, the latch before the ref, `update-ref` (276-329) |
| `Confirm` | constants, difference, payload, write (331-442) |
| `Error` | the handler of `poll_once` (443-460) |
| `Restart`, `Crash`, `PowerLoss`, `Archive`, `Push`, `Tick` | Supervisor, the host, the operator, the public repository, the clock |
| `GateOpen` | `verify_upstream_observer_status` (`upstream_gate.py:160`) |

Git itself is external: a command does its work or fails, `update-ref` may do both and survives a power loss
(git syncs references), nobody else writes the checkout, and the commands after `ls-remote` take at
most `MaxPoll` together (each has a timeout of 60 seconds).  The gate's other exact fields can only
close it further and are left out.  Time is monotone: the allowance for clock skew is not
modelled.  The operator archives a status between two polls.

### `TransactionAuthorization` and `GitHubRelease`

A call of `publish` reads its inputs in the order `Order` (gate, UID, runtime, nonce, fee),
three times: for the estimate, before the signature and before the broadcast.  `world` says
of each input whether it authorizes, `Turn` changes one at any time, `OtherExtrinsic` moves
the account's nonce, `Alter` makes the SDK sign something else.  `stale` is history: the inputs that
have spoken against the call ever since it was signed.

| actions | code (`backend.py`) |
|---|---|
| `Publish`, `Bind` | `publish` and the binding it checks (1447-1470) |
| `Read`, with `Estimate`, `Sign`, `Submit` | `_submit_authorized_commitment`, with the reads of 887-983 (1090-1287) |
| `Receipt` | the receipt (1289-1319) |
| `Turn`, `OtherExtrinsic`, `Alter` | the inputs, another user of the key, the SDK |
| `Include`, `Discard`, `Tick` | the chain and its pool |

A release is modelled with its drafts, because a tag may have several, and with the
requests whose answer was lost (`late`), which GitHub may still carry out.  `snapshots` is
history: the file sets some attempt prepared, and `disabled` whether an owner has turned
the immutability setting off.

| actions | code (`github_release.py`) |
|---|---|
| `Prepare`, `Immutability` | `_prepare_assets`, `_enable_and_verify_immutability` |
| `Lookup`, `Listing`, `Create`, `Draft` | `_find_release`, `_create_draft` |
| `Upload`, `Uploading`, `CheckComplete`, `PublishDraft`, `Final` | `_upload`, `_verify_asset_set`, `publish` |
| `Probe`, `VerifySource` | `verify_source` (`backend.py`): before a publication that may not be needed (478), and after one (501) |
| `Late`, `Rewrite`, `Disable` | GitHub, the artifact directory, the repository's owner |

### The scripts

An invocation of a script is a process with a place (`pc`, `phase`, `at`), and each action is
the code between two points at which a file may be replaced, another invocation may
step, or the process may be interrupted.  A file is known by what it came from: a run, a
conversion, an evaluation, a version.  Comparing two digests is comparing these.

| module | what its state stands for |
|---|---|
| `CommandExecution` | processes alive in and outside of the group, the streams each holds open, bytes in the pipes, and what each capture thread has digested |
| `CalibrationPipeline` | directories as seen and as durable, inodes with their bytes, the inputs' versions; `used` is history: the versions the commands read |
| `ContainedCommand` | state, parent and group of every process, the launcher's notes, the record as seen and as durable; `used` and `outlived` are history |
| `RuntimeAttestation` | the version of every path, the queue of objects to parse, and the result of each round |
| `TrainingLineage` | the run each part on disk belongs to, and what each loader has read of it |
| `CodeConversion` | the tools and calibration rows on disk, the rounds and what is kept of the first, staging directory, bundle |
| `CodeEvaluation` | artifact, runtime, what was identified before, the row-by-row results, staging directory, output |
| `CodeProvenance`, `DiagnosticValidation` | for every file the conversion or evaluation it is of, and what the validation has read |
| `LibraryClosure`, `ImportSurface`, `ExportVerification` | change times and contents of files, names and directories, and the statuses the reader noted; `instant` is history: whether everything was in order at the beginning of the last pass |
| `DiagnosticLaunch` | markers, receipts, output roots, the direct child and the descendant it may leave |
| `CodePublication` | payload file (content, synced, linked), the W&B run of each payload, renames on their way, `publication_state` |

`PROJECT.json` maps each definition to its lines.

### Abstractions

The controller:

* The profile is the live one: signed v0.3, `MMC_DRY_RUN=false`, continuous `run`.
  Dry run, `--once`, `preflight-only`, the legacy profile and the chain-schedule
  fallback are not modelled.
* A round has one manifest, one source and one commitment, so its index stands
  for all three and for the pending marker's fingerprint.
* A read of the chain or of the release host returns what is there or fails; a
  failure is a step of its own that costs a fault.  A read of the store never
  fails here (`UpstreamObserver` models what a failing one does, `state.py:363`); the two markers are never corrupt.
* The wait for finalization and the receipt are one: the answer comes when the
  commitment is on chain.
* A process that dies inside a file operation leaves what a failure of the same
  operation leaves, followed by `Crash`.
* `verification_due` compares clocks; both answers are possible.
* `OperatorReview` is the documented procedure: the operator acts only while the
  program is stopped, and only once no broadcast is undecided.
* A pending marker's `provenance_block` never lies above the head, because the
  chain's height only grows; that comparison is left out.
* A late release request is carried out in `GitHubRelease`; in `MinerController` the set
  `remote` changes only while the controller is at `Uploading`.

The scripts:

* **No file comes back.** In the modules whose checks compare digests or versions before and after, a
  file that was replaced is not replaced again by its former content: a control changed and
  changed back between two reads is not noticed by the code, and not modelled.  This
  concerns `DiagnosticLaunch`, `CodeConversion` (the merged tree), `CodeEvaluation` (the artifact),
  `RuntimeAttestation` and `LibraryClosure` (`restores` is FALSE: bytes restored in place).
* `CalibrationPipeline`: the destinations share one directory and one file system.  A killed
  run leaves its outputs, and later runs refuse until someone removes them.
* `CommandExecution`: a signal during the join of the capture threads replaces the report
  of an incomplete cleanup by its own; `LeftBehindIsReported` says so.
* `ContainedCommand`: an interrupt inside `Popen` leaves a child the launcher does not hold,
  and the record then says refused; only the direct child writes the outputs.
* `TrainingLineage`: the adapter tree is left out.
* `CodeConversion`: the output lies on a file system without persistence, so a reboot loses
  everything; a verification that fails after the publication reports failure and leaves the bundle.
* `CodeProvenance`: receipts of the legacy calibration can never be accepted for a genuine
  bundle, and a current conversion is always refused at the end; the status of
  a GGUF diagnostic is not examined, that of an HF one must be `complete`.
* `DiagnosticLaunch`: receipts record the Git heads, so a commit or fetch between two
  repeats blocks the series.  Records lie in `/dev/shm`: with `Reboots` a label could be
  evaluated again after a reboot, so every run and theorem takes it as FALSE.
* `DiagnosticValidation`: the checkout stays between the check of the tools and their
  import (`validate_code_gguf_diagnostic.py:1686`); a refusal may come some steps later than
  in the code; an evaluation takes positive time; extra names and load specifications are left out.
* `ExportVerification`: extra names, ownership and modes are left out; a change of any
  ancestor directory refuses; a file is hashed at one instant (`LibraryClosure` reads in chunks).
* `CodePublication`: the W&B client and service are external: a call does its work, fails, or
  does it and fails; a rename may be applied late.

## 3. What is checked

| run | module | bounds | checks |
|---|---|---|---|
| `safety` | `MCMinerController`, `Spec` | `MaxHead` 7, `MaxFaults` 3 | `TypeOK`, `OutstandingIsMarked`, `GreenIsExact`, `NeverBlindlyResubmitted`, `RefusalIsFinal`, `TrustNeverRegresses` |
| `liveness` | `MCMinerController`, `FairSpec` | `MaxFaults` 2 | `UncertaintyIsResolved` |
| `rewrite` | `MCUpstreamObserver`, `Spec` | 2 faults, readable status | `TypeOK`, `RewriteIsRemembered` |
| `gate` | `MCUpstreamObserver`, `FairSpec` | 1 fault, status may be unreadable | `AdmittedIsRecent`, `DriftClosesTheGate` |
| `publication` | `MCPublication` | below | `TypeOK`, `PublishedIsExact`, `CommitIsExact`, `NeverReplayed`, `ExportIsExact`, `LoadedIsOneRun`, `BundleIsExact`, `CalibratedIsReproduced`, `SentIsAuthorized`, `PublishedStays`, `PublishedAtOnce`, `SendsOnce`, `PublicationEnds` |
| `processes` | `MCProcesses` | below | `TypeOK`, `AcceptedIsContained`, `AcceptedIsExact`, `RunsOnce`, `ReturnedIsComplete`, `SeriesAgrees`, `RunsInspected`, `RunEnds` |
| `evidence` | `MCEvidence` | below | `TypeOK`, `ReceiptIsTruthful`, `FailedLeavesNothing`, `AcceptedIsOneRun`, `AcceptedAtOnce`, `ExportIsSigned`, `NeverClobbers` |
| `health`, `close` | `MCMinerController` | `MaxFaults` 2 | `HealthyMeansCurrentRound`, `VerifiedBeforeClose`: violated |
| `unread` | `MCUpstreamObserver` | 2 faults, status may be unreadable | `RewriteIsRemembered`: violated |
| `release_recover` | `MCGitHubRelease` | 2 faults | `DraftIsRecoverable`: violated |
| `wandb_pending` | `CodePublication` | no fault | `PendingFailedIsUnmarked`: violated |

### The three suites

`publication`, `processes` and `evidence` each check several modules in one run.  Their
components share nothing and never meet, so a behaviour of the suite is a behaviour of one of
them: `unit` is chosen at the start and says of which, and the variables of the others stay
where they are.  The reachable states are the sum of those of the units, not their product, and a property
`unit = "x" => X!P` holds of the suite exactly if `P` holds of `X`.  Fairness is stated of
each component's actions under `unit = "x"`: a unit that does not run owes no step.  The assumptions of
each instance are checked by the suite's `ParametersAssumption`.  `Publications`, `Processes` and
`Evidence` state the suites over their constants, so that the theorems of section 4 are about the specification and the
properties the runs check.  A component that is proved in a module of its own is an instance
of that `_proofs` module, whose theorems it brings along; the others are proved in the suite's own.
`CodeEvaluation` extends the lemmas about the lineage for the same reason.  A property of a suite gathers
what its components promise of one kind; each of the parts has a mutant that
breaks it.

| suite | units and their bounds |
|---|---|
| `publication` | a release with and without digests (two files, two contents, two drafts, 3 faults); a transaction (era 2, 3 blocks, 3 changes); W&B (two versions of the payload, two processes, 2 faults, 1 edit); a conversion (two runs, three builds of the tools, 2 faults) and two racing ones (1 fault) |
| `processes` | a contained command (3 processes, 2 faults); a calibration's command (2 bytes through a pipe of 1, 2 signals); two launchers of two repeats (1 fault); an attestation of a library behind a link, two that need each other, and a tree that gains a file (3 edits) |
| `evidence` | a calibration (2 faults) and two (1 fault); an evaluation (two runs, two artifacts, two runtimes, 2 rows, 2 faults) and two; a publication's validation (three runs, six conversions, 1 edit); a library closure (2 edits), an import surface (3 edits), an export (two jobs, 2 edits); a diagnostic's validation (four runs of the three profiles, eight evaluations, two repeats, two runtimes, 1 edit) |

In `evidence` the two calibrations or evaluations are alike and appear only together, and the run
checks no liveness, so the symmetry `Alike` is sound.  `CalibrationBound` and `EvaluationBound` are bounds of the
suite's next-state relation: while several calibrations are under way they meet `FewFaults`, and while
several evaluations are, the training run stays; one alone meets the full number.

`MCSpec` of `MCEvidence` bounds `SuiteSpec` three times more.  `BeginsDeclared`: the run and the repeats on
disk when a diagnostic's validation starts are of the declared profile, although not necessarily of the
declared run; what is of another profile comes by the exchange.  A run or repeat that is of another profile at the start is refused
wherever it is still there when it is read, and one exchange does not make a whole lineage of it.
`InputsStay`: the inputs change only while one calibration is under way, for what two do to each other is done
at their destinations.  `MalformedAlone`: of the two changes of an export one may make a file malformed, if the other puts
it right.  The theorems of section 4 are about `SuiteSpec`, without these bounds and for any number of edits and faults.

Why the bounds are enough.  *Controller:* two rounds are what a rollover, a rollback, a marker of
a past round and proofs of a past round need; the gap lets a cycle find nothing to
trust.  The submissions phase has one block inside the margin and one past it.
The era of two blocks lets an extrinsic be included before its close, after its
close, in the next round, or not at all.  Three faults allow a lost answer, a failed
write of one place of the refusal and a power loss in one behaviour, the
shortest combination that would defeat each single safeguard.  The coordinator may also serve round 1
with other bounds and another configuration, and round 2 with either of two seed hashes.
*Observer:* the audited commit, one before, one after and one beside it, so that the
branch can go forward, back, aside, and come back to the audited commit by a fast-forward after a rewrite,
which is when only the latch keeps the gate closed.  *Release:* two files are what a partial set
needs, and two contents a changed one; two drafts make a tag ambiguous; three faults lose a request, repeat it and
change a file.  *Contained command:* three processes are a child, an orphan and
the orphan's own child.  *Validations:* the
files of a publication are of one conversion at the start, so that one edit of the two files a single
comparison is meant to bind makes them differ, and three runs have two of one profile
and one of the other; one edit of a diagnostic falls between any two of the reads of one repeat, or of two, and may put what is of another profile in the place of a file;
a run of each profile has two evaluations that agree, so that two repeats are accepted under each.  *Calibrations:* two faults are a failure and a second one during the rollback, or the power loss after it, and for an
evaluation an interrupt in the `try` and another in the clean-up; what the run checks of them holds for any number (section 4).  *Inspections:* two edits change a library, and change it again or
its directory, in the two passes; three of an import surface touch a second directory as well.

What the properties of the controller and the observer say:

* `OutstandingIsMarked`: while an extrinsic is undecided, its marker is on disk and
  would survive a power loss.  It rests on the order mark, sync, broadcast, readback,
  unlink, and on nobody else removing the marker.
* `NeverBlindlyResubmitted`: an extrinsic is sent only when none is undecided and the
  chain does not already hold its commitment.
* `GreenIsExact`: any document a reader may find green, now or after a power loss,
  names a round whose commitment is on chain and whose release is public.
* `RefusalIsFinal`: a refusal durable in either of its places stays until the operator
  removes it, and nothing is sent meanwhile.
* `TrustNeverRegresses`: the window that survives never goes back, never changes its
  identity inside a round and never withdraws its seed hash.
* `UncertaintyIsResolved`: a pending marker does not stay: it is reconciled, or the
  program stops for its operator.

* `RewriteIsRemembered`: once `origin/main` was moved to a commit that does not descend from the one it
  held, the latch is on disk and durable until the operator archives it.
* `AdmittedIsRecent`: a document the gate would admit, or would admit after a power loss, implies that the
  branch was the audited commit at most the maximum age and one poll ago.
* `DriftClosesTheGate`: if the branch leaves the audited commit for good, the gate closes for good.

What those of the suites say that is not plain from their names:

* `PublishedAtOnce`: seen from outside, the tag goes from nothing to one file set that one
  attempt prepared, even when several attempts pieced the draft together and requests arrive late.
* `PublishedIsExact`: what `verify_source` accepted is public and exactly what the manifest signs,
  even if GitHub states no digests, and immutable unless an owner has turned the repository's setting
  off; a `publish` that returned has its call on chain, free.  The exception is real: `publish` turns
  the setting on, looks at it once, and finds out afterwards that a release came out mutable
  (`github_release.py:273`); but the next cycle asks `verify_source` first (478), which does not look at
  immutability, and never calls `publish` if that accepts.  Re-verification and reconciliation ask
  `verify_source` alone, too.  What an owner may then do to a mutable release is not modelled.
* `SendsOnce`: one call of `publish` sends one extrinsic at most, whatever becomes of the first: there is
  no retry inside.  `sends` counts them, as history.
* `SentIsAuthorized`: nothing is broadcast that an input has spoken against ever since the signature.  An
  input may still change between its last read and the broadcast; the property says exactly how far.
* `CommitIsExact`: the hotkey's name is only on a finished W&B run with everything in it, and a
  reported commit stays one whatever fails after it.
* `BundleIsExact`, `LoadedIsOneRun`, `AcceptedIsOneRun`, `ReceiptIsTruthful`: files are
  replaced between any two reads, and what is recorded is still of one run, one build, one conversion.
* `AcceptedAtOnce`: what an inspection accepts was there at one moment, although it took many reads.
* `AcceptedIsContained`: an accepted record means that no process of the command is left.
* `RunsOnce`: one label, one record: at most one process, whoever is killed or restarted.
* `FailedLeavesNothing`, `NeverClobbers`: a rollback removes everything that was its own and nothing that
  was not.  The `except` clause of an evaluation begins four lines after the directory is made
  (`evaluate_code_gguf.py:2045`, `:2049`), and `rmtree` ignores its errors: an evaluation that was killed, or
  met an exception in these lines or in the removal, leaves its directory (`CutShort`); no other one does.
  A conversion's is left in the same way (`convert_code_gguf.py:3739` to `:3742`, `:4286`), which is the last
  part of `BundleIsExact`.
* `RunEnds`, `PublicationEnds`: the script ends whatever the processes do, with one exception: a
  calibration waits for the leader of its command without a timeout (`run_calibration_pipeline.py:791`), so a
  leader that never exits holds it for ever (`LeaderStays`).  A release is proved unless something no
  attempt can repair is in its way (`Unrepairable`).

Five statements of the repository do not hold of the code:

* `health`: `src/README.md:310` promises that health exits zero only for a fully
  verified current-round state.  `_resolve_round` (701) persists a new window with the
  `ok` of the old round; until the next write of the cycle, or for as long as the health
  document stays fresh if the process dies there, health is green and names the round before.
* `close`: `src/README.md:33` says that it publishes only while safely before the
  close block.  The deadline is checked (536) before the transaction is checked, signed and sent;
  the extrinsic stays valid for 128 blocks (`backend.py:67`), longer than the margin.  One included
  after the close block is read back, marked verified and reported healthy.

* `unread`: a rewrite latches until the status is archived (`upstream_observer.py:305`,
  `src/tests/test_upstream_observer.py:405`).  `StateStore._read` (363) answers `{}` for a status that exists but
  cannot be read, and the document the poll writes next drops the latch.  A poll that read the status
  successfully keeps it, which is what `rewrite` checks and `RewriteRemembered` proves.

* `release_recover`: `README.md:238` says that an interrupted draft is recoverable.  An upload cut
  while GitHub receives the file can leave an asset that is not `uploaded`, which every later attempt
  refuses (`github_release.py:463`) and none deletes; a draft created after the next attempt
  listed the releases makes the tag ambiguous.

* `wandb_pending`: `pending_failed` is documented as "the hotkey marker was not committed"
  (`publish_code_provenance.py:195`, `:3606`).  The state is set before `client.init` (`:3476`), so a second
  publication of a committed payload, refused there, reports it too.  So does an interrupt between
  the acknowledgement of the rename and its note, and a rename that is applied late.

Seen while modelling, without a run: `src/README.md:239` says that a published release is accepted only when it
is immutable, which the verification at the start of a cycle does not ask (`PublishedIsExact`).  The docstring of `run_calibration_pipeline.py` promises a
rollback without a receipt, but a second signal during the rollback leaves the receipt, and a
rollback that cannot remove the receipt still removes the outputs.  The evaluator does not compare the artifact's
conversion with the lineage it records; the diagnostic validation does, through the bundle's receipt.

### Fairness

Fairness of `gate`: the clock runs, and a poll that has begun takes its next step, because every git
command has a timeout.  That polls begin, or that Supervisor restarts the observer, is not assumed.

Fairness of `liveness`: a running process takes its next step, because
every call of the backend has a timeout; Supervisor restarts a process that died
(`autorestart=unexpected`); blocks are produced; an extrinsic is included or dropped.  The operator
is not fair: `halted` and `exit3` may be for ever, which is why the property ends there.

In the suites, the controlling thread of a script takes its next step when it can: its waits have
deadlines, and a deadline passes (`TimeOut`), except a calibration's wait for the leader of its command, whose only
step is to find it gone.  A process that was sent SIGKILL dies; a capture thread reads what its pipe
holds.  Neither a command's leader nor its descendants are assumed to write, to exit or to close anything.  GitHub settles a request it has received, and the controller tries a release again every
cycle.  A launcher's evaluator is not assumed to do anything.

## 4. What is proved

| module | theorem | statement |
|---|---|---|
| `MinerController_proofs` | `TypeCorrect` | `Spec => []TypeOK` |
| | `OutstandingMarked` | `Spec => []OutstandingIsMarked` |
| | `NotBlindlyResubmitted` | `Spec => NeverBlindlyResubmitted` |
| | `TrustKept` | `Spec => TrustNeverRegresses` |
| | `RefusalKept` | `Spec => RefusalIsFinal` |
| | `GreenExact` | `Spec => []GreenIsExact` |
| | `ImplementsSubmission` | `Spec => SubmitsOneAtATime` |
| `UpstreamObserver_proofs` | `TypeCorrect` | `Spec => []TypeOK` |
| | `RewriteRemembered` | `ReadFaults = FALSE /\ Spec => []RewriteIsRemembered` |
| | `AdmissionRecent` | `Spec => []AdmittedIsRecent` |
| `GitHubRelease_proofs` | `TypeCorrect`, `ProvedCorrect` | `Spec => []TypeOK`, `Spec => []ProvedIsSigned` |
| | `PublishedAtOnceCorrect` | `ReportsDigest` and `Spec` imply `PublishedAtOnce` |
| `CodeConversion_proofs` | `BundleCorrect`, `ReproducedCorrect`, `BundleStaysCorrect` | `Spec => []BundleIsExact`, `[]CalibratedIsReproduced`, `BundleStays` |
| `Publications_proofs` | `SuiteInvariance`, `TypeCorrect` | `SuiteSpec => []SuiteInv`, `[]TypeOK` |
| | `PublishedCorrect`, `CommitCorrect`, `ReplayedCorrect`, `ExportCorrect` | `SuiteSpec => []PublishedIsExact`, `[]CommitIsExact`, `[]NeverReplayed`, `[]ExportIsExact` |
| | `LoadedCorrect`, `BundleCorrect`, `ReproducedCorrect` | `SuiteSpec => []LoadedIsOneRun`, `[]BundleIsExact`, `[]CalibratedIsReproduced` |
| | `SentCorrect`, `StaysCorrect` | `SuiteSpec => SentIsAuthorized`, `PublishedStays` |
| | `PublishedAtOnceCorrect`, `SendsCorrect` | `SuiteSpec => PublishedAtOnce` (a refinement of `WriteOnce`), `[]SendsOnce` |
| `Processes_proofs` | `SuiteInvariance`, `TypeCorrect` | `SuiteSpec => []SuiteInv`, `[]TypeOK` |
| | `ContainedCorrect`, `OnceCorrect`, `ExactCorrect` | `SuiteSpec => []AcceptedIsContained`, `[]RunsOnce`, `[]AcceptedIsExact` |
| | `ReturnedCorrect`, `SeriesCorrect` | `SuiteSpec => []ReturnedIsComplete`, `[]SeriesAgrees` |
| | `InspectedCorrect` | `SuiteSpec => RunsInspected` |
| `Evidence_proofs` | `SuiteInvariance` | `SuiteSpec => []SuiteInv` |
| | `ReceiptCorrect`, `FailedCorrect`, `ClobbersCorrect` | `SuiteSpec => []ReceiptIsTruthful`, `[]FailedLeavesNothing`, `NeverClobbers` |
| | `SignedCorrect`, `AtOnceCorrect`, `OneRunCorrect` | `SuiteSpec => []ExportIsSigned`, `[]AcceptedAtOnce`, `[]AcceptedIsOneRun` |
| | `TypeCorrect` | `SuiteSpec => []TypeOK` |

`TrainingLineage_proofs` holds the lemmas about a load of the lineage, on which the conversion, the evaluation and both validations rest.

**Assumptions.**  *Controller:* `BoundsAssumption` (the numeric constants are integers; there is no bound on
them, so any number of faults and blocks is covered), `ServedAssumption` (the blocks and the round
of a payload are integers, as the parser requires), `DistinctAssumption` (the absent round, marker
and window are none of the real ones).  `Served` may be infinite and may contradict itself.
*The others:* `ObserverAssumption`, `PeriodAssumption`, `ReleaseAssumption`, `PublicationAssumption`,
`ConversionAssumption`, `ContainmentAssumption`, `CommandAssumption`, `LaunchAssumption`,
`ContentAssumption`, `PipelineAssumption`, `MadeAssumption` and the two `EvaluationAssumption`s say that bounds are natural numbers (a pipe holds a byte at least, a
diagnostic has a repeat and a runtime), the sets of processes and of releases finite, placeholders no real value, and, of what there has been
(conversions, evaluations, diagnoses), of what kind it is; an evaluation ends after it began.  `NamesAssumption` and `DirectoryAssumption` say that the
contract's links and files and the directories of a walk are sequences, the last not empty, and that no file has the name that stands for none; `NameAssumption` that a
directory's own entry is no forbidden module; `JobAssumption` that there is a job.  Where a module is checked as an instance of a suite,
its assumption is an operator: the theorem takes it as `ASSUME ... PROVE`, and the suite assumes
it of its constants (`ParametersAssumption`), which TLC evaluates for the values it uses.  The launches are
proved as they are checked, with `Reboots` FALSE.

**The inductive invariant.**  None of the properties is inductive: `OutstandingIsMarked` says nothing
of a controller that is about to unlink the marker.  `IInv` adds what the code relies on at each step:

* `SubmissionInv` = `UndecidedInv` (at most one undecided extrinsic, marked, and not of the round
  on chain) and `Established(pc, win)`: what the lines before the next step have made true.  A
  marker exists from `Mark` to `Clear` and names the cycle's round; before it nothing is
  pending; the release is public from the readback on; at `Clear` and `MarkVerified` the
  chain holds the round.  The crux is that no other party can undo these: the marker of a
  dead process stops the next one from preparing, so nothing is undecided while a marker is absent
  (`NothingUndecided`).
* `WindowInv`: the window the cycle works on is the one persisted, so a document about it does not
  change the trust.
* `TrustInv`: the visible window continues the durable one, and each trusted window has the seed
  hash its phase calls for.  `Follows` is shown transitive (`FollowsTransitive`), and an
  accepted payload to continue the window persisted last (`AcceptedFollows`).
* `LatchInv`: what is durable of a refusal is visible, and no process is past its preflight while a
  refusal is visible (unless it is recording one).
* `GreenInv`: `GreenIsExact`, and all four documents dark while a submission is under way past its
  first write, or while an extrinsic is undecided; that is why an inclusion cannot turn a green document
  of an older round into a lie.

**The argument.**  `TypeStep` and `SubmissionStep` go through the actions one by one.  The other
parts depend only on what a step does to the documents, so `DocNext` is proved once: every step but
a power loss and the operator's review is a `DocStep`, which replaces documents only by one that is
`Legit` (continues the trust and a recorded refusal, and is green only for what was green or has just been
verified), however its write was cut (`WriteStep`, `PendingStep`, `LatchStep`).  `TrustStep`,
`LatchStepInv` and `GreenStep` then have three cases each.

`ImplementsSubmission` follows from `SubmissionInv`: a broadcast finds nothing undecided and the
chain without the round, an inclusion finds that one extrinsic.

**The observer.**  `UpstreamObserver_proofs` proves, from `ObserverAssumption` (the audited commit is a commit,
the two durations are natural numbers),

| theorem | statement |
|---|---|
| `RewriteRemembered` | `ReadFaults = FALSE /\ Spec => []RewriteIsRemembered` |
| `AdmissionRecent` | `Spec => []AdmittedIsRecent` |

The premise of the first is needed: `unread` is its counterexample.  `RewriteInv` adds that a poll under way
still knows of an unreviewed rewrite (both its reads, or its own detection) and that it moves the ref
only with the latch durable.  `RecencyInv` carries one inequality along: `since <= elapsed` in a poll that
saw the audited commit becomes `since <= MaxPoll + age` of the document it writes, and both sides
grow with the clock.

**The transaction.**  `StaleInv` carries the argument of the re-checks: at the k-th read before the
broadcast none of the inputs read so far has spoken against the call ever since the signature, for the read
itself would have refused.  `TxPoolInv` keeps one extrinsic at most, undecided or landed, never both, and
`TxSendInv` counts: nothing is sent before `submit`, and that place is left with the one broadcast.

**The release.**  What any step does to the releases is first reduced to four changes, and these to `Grows`:
assets and public releases stay, immutable ones do not change at all, a release becomes public only if
none is.  `PublicInv` and `AttemptInv` follow, and with them that the release whose contents were compared with the
manifest is the public one.  `SettingInv`: no draft and no request exists before an attempt has turned the setting
on, so a public release is immutable unless an owner turned it off later, whichever cycle accepts it.  For the refinement of `WriteOnce`, `FullInv` says that whatever is public,
about to be, or asked to be by a request still on its way, holds one prepared file set; it needs
`CompleteIsFull`, which needs the digests, hence the premise.

**The contained command.**  Processes are any finite set.  `TreeInv` is the crux: a parent comes
before its children, so any nonempty set of present processes has a member whose parent lies outside it, and while the
launcher is the subreaper that parent can only be the launcher.  So ECHILD, no child left, means that no process is left.
`AdoptInv` and `OutlivedInv` relate the tree to the launcher's notes, `RecordInv` and `SeenInv` the notes to
the record, `OnceInv` the record to the number of spawns, over crashes, power losses and repeated calls.

**The code publication.**  `WriterInv` says that a run that exists has one writer, past `client.init`, so
nobody else sends to it; `ReadInv` that what the writer reads back stays, for items only come in; `MarkInv`
then carries exactness to the rename and to a rename that arrives after its call had raised.  `CommitInv`
relates the process's note and report to the name on the run.  `Changes` states once what each call does to
a run.  Neither the number of processes and payloads nor of faults and edits is bounded.  `DiskInv` is the
export's part: a temporary file has its name only after its content was synced, the name is made by `os.link`,
which never replaces, and what a power loss takes away is what no report speaks of yet.

**The conversion.**  Its invariant has three threads.  What was read of the training run: parts are only replaced by
parts of later runs, so a part read twice with equal content did not change in between, and the two passes of the lineage
overlap at one moment, at which all of them were of one run.  What the commands used: each tool is identified before and after, so
the builds a round recorded are those that ran.  And noise: a round's files carry the misbehaviour of the
commands that made them, so two rounds that agree carry none.

**A calibration command.**  `BytesInv` conserves bytes: what was written to a stream is what was captured plus what the
pipe holds.  `ClosedInv`: a thread that saw the end of its stream left nothing in the pipe and no writer behind.
`PlaceInv` is what the controlling thread knows at each line; from the join on the group is empty or
the incomplete cleanup is noted.

**The launches.**  `OwnerInv`: a label is owned by the launcher whose marker it bears; linking a marker never replaces
one.  `RowInv` says, place by place, what a launch has behind it (its marker, its inspection, its child's end, the
drain), `ReceiptInv` that a receipt was written last, by a launch that has left the guarded part, and never changes;
`SeriesInv` that what a launch read of the earlier receipts at `Reload` is still what they say when its evaluator
starts, since only their owners write them and these have ended.  `Moves` and `Failing` state once what a step of
a launcher does to its row, so that most actions are one citation.

**The attestations.**  Versions only grow, so a path read in both rounds with one version held it between them.  `Recorded`
says so of a round between two moments (`lo`, `hi`): what was read came in between, a path was found before any earlier
directory had the name, and a path was resolved to the file that was hashed if none of its links has changed.  The links
of a path, of any number, are in no order: `Chained` says that every set holding the path and closed under
them holds the file, and `FollowChain` that the file system then leads there too; neither needs induction.  `Connected` says
the same of the objects and the edges between them, `CoversInv` and `QueueInv` that a need has its edge, and an edge its
object, or still will.  `CompleteExact` applies both rounds to the disk between them: the objects are contained in every
closed set and closed themselves, hence the loader's.  `ContentAssumption` bounds neither paths nor versions nor edits.

**The calibrations.**  Any number of runs aim at the same destinations.  `OwnInv`: what a run has in a directory,
visible or durable, it has registered before.  `InputInv`: versions only grow, so what the commands read lies between the
snapshot and now, and is the snapshot once the recheck has passed.  `ForwardInv` is what the steps up to the receipt have
behind them, `ReceiptInv` what is true of a receipt in either directory: a power loss brings back the durable
one, so the argument is made for both.  `CleanupInv` follows a rollback file by file, unless one of its removals failed
(`err`).  A step of one run is a `Frame` for all others (`FrameKeeps`): nobody renames or removes what bears another's inode.

**The evaluations.**  `LineagesInv`: the second load of the lineage reads everything after the first had read its receipt,
so if the two are equal the receipt is of the run it was validated with, although one load alone does not show that
for a historical run.  `RowsInv`: the engine loads the artifact between two identifications; an artifact that was replaced
does not come back, so the rows are of the one that is identified both times.  `EvaluatorInv`
places every staging directory: its owner is in the try or before it, cleaning up, killed, or was cut short.

**The libraries.**  A plan is data, but where each task is in it can be stated for any number of links and files
(`ClosurePlaces`, from lemmas about a plan put together from parts).  `LibraryReading`: as long as a file's time is the one noted, its chunks
are those that were read.  `LibraryOnce` is the argument for one moment: if something was not the contract's when the second
pass began, then either the directory's time has changed or some file whose turn is still to come in the second pass is
not whole (`WillFail`), and stays so, unless a write in place may restore bytes.

**The import surface.**  If the surface was not clean when the second walk began, something is left that will refuse it (`Caught`): a
forbidden name that is to be listed or was, or a directory whose time is later than all times of the first walk, to be noted or noted.
Removing a name makes its directory such a one.

**The export.**  The place in the plan is what is left of it (`ExportPlace`); `ExportPlan` says which task is at each of its 74 places.
`ExportFiles`: what is held of a file is what it contains while its time stays.  `ExportRead` relates what was parsed, pinned and
signed to what is held, place by place.  `ExportOpened`: if the files were not in place and of one job when the last round began, one of them, still to be
rehashed in it, is `Lost`: its name leads elsewhere or its time has moved, and times do not come back.

**The validations.**  Files may be of any run, conversion or evaluation at any read, so nothing is known of the disk: what can be
known is what was compared.  A validation reads no file twice but those of the lineage, so whatever a comparison has found
stays true of what was read.  `Judged` says so place by place of a publication's validation, `Matched` of a diagnostic's
(`BundlesMatch`, `LineageMatches` and `RepeatsMatch`), whose plan depends on its profile.  That the accepted is
of one run then follows from the comparisons themselves and `LineageInv`; a historical lineage, which alone does not show
it, is bound by the metadata that are read again, or by the run the experiment declares.  Repeats are compared with their
neighbours only.  That any two are distinct needs an induction over them, made here from a least counterexample: an evaluation ends after
it began, so a first one that does not start after an earlier one's end cannot exist.  `LeastNat` gives the least number of
a nonempty set from the well-foundedness of `<` (`NatLessThanWellFounded`, `WFMin`), theorems without an operator parameter.

**The types.**  What the invariants leave out of `TypeOK` is kept beside them.  `LibraryTypes` counts: the files attested
so far are those whose turn is over in the plan (`FilesBefore`, `FilesCounted`), so an acceptance has seen each of them twice.
`ExportTypes`: every step that ends the verification closes what it holds (`ExportAdvanceTypes`).

**The suites.**  `SuiteInv` is the conjunction of the components' invariants.
A step of the suite is a step of
the running component and leaves the others where they are (`Still`), so the components' own step lemmas carry over.

**Only model-checked.**  Liveness (`UncertaintyIsResolved`, `DriftClosesTheGate`, `PublicationEnds`,
`RunEnds`), which rests on fairness and ENABLED, beyond this prover.  Every safety invariant and every action
property of the passing runs is stated by a theorem.  The five violated statements are counterexamples, found by TLC.

## 5. Plan

Done: the controller with its store and round trust, the transaction, the release, the observer and its gate, each
checked and proved; the calibration, conversion, evaluation, diagnostic and provenance scripts, checked; the
calibration, the conversion, the evaluation, the W&B publication, the contained and the calibration's commands, the
launches, the attestations, the inspections, the verification of an export and both validations proved.

Left, in this order:

1. The gate in front of each write of the controller, as a composition of `UpstreamObserver` and `MinerController`.
2. The store's reads with faults in `MinerController`, the lock, and the age test of health, which needs a clock that can
   be set back.
3. Round trust with the chain anchor, the legacy profile and the fallback.
4. `publish_provenance.py`.

## 6. Not modelled

* Pure checks of file metadata, digests and encodings (binding, protected files, competition policy),
  configuration, redaction and the wording of messages: they keep no state, and appear as refusals of
  the steps that call them.
* The rank monitor and `rank.json`: written by one atomic replace at a time and read by nothing that decides.  The age
  of a health document written by a clock ahead of the reader's (`state.py:348`): no module has a clock that steps.
* `publish_provenance.py`, an older and shorter form of what `CodePublication` shows, without readback and latches.
* Training, data preparation, soups and scoring: sequential numerical programs without a state that outlives
  a run.  Values of weights, scores and rows; bytes of models and logs.
* A file replaced and put back between two checks (section 2), and a hash that is taken of a file being
  written, except in `LibraryClosure`.
