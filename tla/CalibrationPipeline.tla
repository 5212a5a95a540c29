------------------------- MODULE CalibrationPipeline -------------------------
(***************************************************************************)
(* Runs of the calibration pipeline (run_calibration_pipeline.py) that aim *)
(* at the same destinations: three commands fill private temporaries, the  *)
(* inputs are checked again, the held inodes are linked to their           *)
(* destinations without replacing anything, and the receipt is linked      *)
(* last.  A failure or a signal rolls the run back.  A file is one of the  *)
(* three outputs (1, 2, 3) or the receipt (4); a run creates one inode for *)
(* each, so an inode is a run and a file.                                  *)
(***************************************************************************)
EXTENDS Integers, FiniteSets

CONSTANTS Runs,       \* runs of the pipeline
          Free,       \* a destination without a file
          MaxFaults   \* bound on failures, signals, crashes and changed inputs

Outputs == 1 .. 3
Receipt == 4
Files == Outputs \cup {Receipt}
Inputs == {"source", "corpus", "tools"}

PipelineAssumption ==
  Free \notin Runs /\ MaxFaults \in Nat

VARIABLES view,      \* the directories as programs see them
          durable,   \* the directories after a power loss
          data,      \* the bytes of each inode
          synced,    \* inodes whose bytes are durable
          public,    \* inodes of mode 0644
          version,   \* the inputs on disk
          at,        \* the step of each run, and its file
          seen,      \* the inputs each run snapshot before its commands
          used,      \* history: the inputs its commands read
          owned,     \* the temporaries each run has registered
          installed, \* the destinations each run has recorded
          err,       \* whether its current cleanup failed
          faults     \* faults so far

disk == <<view, durable, data, synced, public>>
local == <<seen, used, owned, installed, err>>
vars == <<disk, version, at, local, faults>>

Fault == faults < MaxFaults /\ faults' = faults + 1
NoFault == UNCHANGED faults

(* What _execute_argv starts reads: the converter, llama-imatrix and       *)
(* llama-quantize, with the files each is given.                           *)
Reads == <<{"source", "tools"}, {"corpus", "tools"}, {"tools"}>>

-----------------------------------------------------------------------------
(* Steps. *)

(* The step after each one that succeeds; cleanups go from the last file.  *)
Following(step, f) ==
  CASE step = "check"    -> <<"temp", 1>>
    [] step = "temp"     -> IF f < 3 THEN <<"temp", f + 1>>
                            ELSE IF f = 3 THEN <<"fill", 1>> ELSE <<"fill", 4>>
    [] step = "fill"     -> IF f = Receipt THEN <<"confirm", 1>> ELSE <<"hold", f>>
    [] step = "hold"     -> IF f < 3 THEN <<"fill", f + 1>> ELSE <<"recheck", 0>>
    [] step = "recheck"  -> <<"link", 1>>
    [] step = "link"     -> <<"track", f>>
    [] step = "track"    -> IF f < 3 THEN <<"link", f + 1>>
                            ELSE <<"readable", IF f = 3 THEN 1 ELSE Receipt>>
    [] step = "readable" -> IF f < 3 THEN <<"readable", f + 1>>
                            ELSE IF f = 3 THEN <<"clean", 3>> ELSE <<"inspect", Receipt>>
    [] step = "inspect"  -> <<"clean", Receipt>>
    [] step = "clean"    -> IF f \in {2, 3} THEN <<"clean", f - 1>>
                            ELSE <<"cleaned", IF f = 1 THEN 3 ELSE Receipt>>
    [] step = "cleaned"  -> IF f = 3 THEN <<"verify", 1>> ELSE <<"done", 0>>
    [] step = "verify"   -> IF f < 3 THEN <<"verify", f + 1>> ELSE <<"temp", Receipt>>
    [] step = "confirm"  -> IF f < 3 THEN <<"confirm", f + 1>> ELSE <<"link", Receipt>>
    [] step = "rollback" -> IF f > 1 THEN <<"rollback", f - 1>> ELSE <<"rolled", 0>>
    [] step = "rolled"   -> <<"sweep", Receipt>>
    [] step = "sweep"    -> IF f > 1 THEN <<"sweep", f - 1>> ELSE <<"swept", 0>>

Cleanup == {"rollback", "rolled", "sweep", "swept"}
Ended == {"done", "refused", "failed", "unclean", "broken", "dead"}
Forward == {"temp", "fill", "hold", "recheck", "link", "track", "readable", "inspect",
            "clean", "cleaned", "verify", "confirm"}

Goto(r, s, f) == at' = [at EXCEPT ![r] = <<s, f>>]
Advance(r) == at' = [at EXCEPT ![r] = Following(at[r][1], at[r][2])]

(* The exception handler of run_calibration_pipeline.                      *)
Raise(r) == Goto(r, "rollback", Receipt) /\ err' = [err EXCEPT ![r] = FALSE]

-----------------------------------------------------------------------------
(* Directories. *)

Own(r, f) == view.temp[r][f] = "own"
SetTemp(r, f, t) == view' = [view EXCEPT !.temp[r][f] = t]
SetDest(f, r) == view' = [view EXCEPT !.dest[f] = r]

(* _fsync_directory of the parents a cleanup touched, or its failure.      *)
SyncParents(r) ==
  \/ durable' = view /\ NoFault /\ UNCHANGED err
  \/ Fault /\ err' = [err EXCEPT ![r] = TRUE] /\ UNCHANGED durable

(* _unlink_if_identity of a temporary; another inode under its name stays. *)
RemoveTemp(r, f) ==
  \/ Own(r, f) /\ SetTemp(r, f, "none") /\ NoFault /\ UNCHANGED err
  \/ Own(r, f) /\ Fault /\ err' = [err EXCEPT ![r] = TRUE] /\ UNCHANGED view
  \/ /\ view.temp[r][f] = "other" /\ err' = [err EXCEPT ![r] = TRUE]
     /\ NoFault /\ UNCHANGED view
  \/ view.temp[r][f] = "none" /\ NoFault /\ UNCHANGED <<view, err>>

-----------------------------------------------------------------------------
(* The forward path.  Any of its steps may also fail (FailStep).           *)

Check(r) ==
  /\ at[r][1] = "check"
  /\ IF \A f \in Files : view.dest[f] = Free
     THEN seen' = [seen EXCEPT ![r] = version] /\ Advance(r)
     ELSE UNCHANGED seen /\ Goto(r, "refused", 0)
  /\ UNCHANGED <<disk, version, used, owned, installed, err, faults>>

MakeTemporary(r, f) ==
  /\ at[r] = <<"temp", f>>
  /\ SetTemp(r, f, "own")
  /\ owned' = [owned EXCEPT ![r] = @ \cup {f}]
  /\ Advance(r)
  /\ UNCHANGED <<durable, data, synced, public, version, seen, used, installed, err, faults>>

(* A command reads the inputs and writes its output.  It may fail, succeed *)
(* with a useless output, put another inode in its place, or damage an     *)
(* earlier output.                                                         *)
Fill(r, f) ==
  /\ at[r] = <<"fill", f>>
  /\ used' = [used EXCEPT ![r] = @ \cup
                IF f \in Outputs THEN {<<i, version[i]>> : i \in Reads[f]} ELSE {}]
  /\ \/ /\ data' = [data EXCEPT ![r][f] = "good"]
        /\ synced' = [synced EXCEPT ![r] = IF f = Receipt THEN @ \cup {f} ELSE @]
        /\ Advance(r) /\ NoFault /\ UNCHANGED <<view, err>>
     \/ /\ Fault /\ data' = [data EXCEPT ![r][f] = "bad"]
        /\ \/ f \in Outputs /\ Advance(r) /\ UNCHANGED err
           \/ Raise(r)
        /\ UNCHANGED <<view, synced>>
     \/ /\ f \in Outputs /\ Fault /\ SetTemp(r, f, "other")
        /\ Advance(r) /\ UNCHANGED <<data, synced, err>>
     \/ /\ f \in Outputs /\ Fault
        /\ \E g \in 1 .. f - 1 : data' = [data EXCEPT ![r][g] = "bad", ![r][f] = "good"]
        /\ Advance(r) /\ UNCHANGED <<view, synced, err>>
  /\ UNCHANGED <<durable, public, version, seen, owned, installed>>

Hold(r, f) ==
  /\ at[r] = <<"hold", f>>
  /\ IF Own(r, f) /\ data[r][f] = "good"
     THEN synced' = [synced EXCEPT ![r] = @ \cup {f}] /\ Advance(r) /\ UNCHANGED err
     ELSE Raise(r) /\ UNCHANGED synced
  /\ UNCHANGED <<view, durable, data, public, version, seen, used, owned, installed, faults>>

(* Mutant: only the source and the tools are looked at again.              *)
RecheckSourceAndTools(r) ==
  /\ at[r][1] = "recheck"
  /\ IF \A i \in Inputs \ {"corpus"} : version[i] = seen[r][i]
     THEN Advance(r) /\ UNCHANGED err ELSE Raise(r)
  /\ UNCHANGED <<disk, version, seen, used, owned, installed, faults>>

Recheck(r) ==
  /\ at[r][1] = "recheck"
  /\ IF version = seen[r] THEN Advance(r) /\ UNCHANGED err ELSE Raise(r)
  /\ UNCHANGED <<disk, version, seen, used, owned, installed, faults>>

(* _link_descriptor_no_replace of the held inode.                          *)
Link(r, f) ==
  /\ at[r] = <<"link", f>>
  /\ \/ view.dest[f] = Free /\ SetDest(f, r) /\ Advance(r) /\ UNCHANGED err
     \/ view.dest[f] # Free /\ Raise(r) /\ UNCHANGED view
  /\ UNCHANGED <<durable, data, synced, public, version, seen, used, owned, installed, faults>>

Track(r, f) ==
  /\ at[r] = <<"track", f>>
  /\ installed' = [installed EXCEPT ![r] = @ \cup {f}]
  /\ Advance(r)
  /\ UNCHANGED <<disk, version, seen, used, owned, err, faults>>

MakeReadable(r, f) ==
  /\ at[r] = <<"readable", f>>
  /\ public' = [public EXCEPT ![r] = @ \cup {f}]
  /\ Advance(r)
  /\ UNCHANGED <<view, durable, data, synced, version, local, faults>>

Clean(r, f) ==
  /\ at[r] = <<"clean", f>>
  /\ RemoveTemp(r, f) /\ Advance(r)
  /\ UNCHANGED <<durable, data, synced, public, version, seen, used, owned, installed>>

(* Mutant: the directories are not synced after the last link.             *)
CleanedUnsynced(r) ==
  /\ at[r][1] = "cleaned"
  /\ IF err[r] THEN Raise(r) ELSE Advance(r) /\ UNCHANGED err
  /\ UNCHANGED <<disk, version, seen, used, owned, installed, faults>>

(* The parents are synced, then a failed cleanup raises.                   *)
Cleaned(r) ==
  /\ at[r][1] = "cleaned"
  /\ \/ /\ durable' = view /\ NoFault
        /\ IF err[r] THEN Raise(r) ELSE Advance(r) /\ UNCHANGED err
     \/ Fault /\ Raise(r) /\ UNCHANGED durable
  /\ UNCHANGED <<view, data, synced, public, version, seen, used, owned, installed>>

Good(r, f) == view.dest[f] = r /\ data[r][f] = "good" /\ f \in public[r]

(* Mutant: the outputs are taken to be what was held.                      *)
VerifyNothing(r, f) ==
  /\ at[r] \in {<<"verify", f>>, <<"confirm", f>>, <<"inspect", f>>}
  /\ Advance(r)
  /\ UNCHANGED <<disk, version, local, faults>>

(* _verify_output, before the receipt is written and again before its      *)
(* link, and the inspection of the installed receipt.                      *)
Verify(r, f) ==
  /\ at[r] \in {<<"verify", f>>, <<"confirm", f>>, <<"inspect", f>>}
  /\ IF Good(r, f) THEN Advance(r) /\ UNCHANGED err ELSE Raise(r)
  /\ UNCHANGED <<disk, version, seen, used, owned, installed, faults>>

-----------------------------------------------------------------------------
(* Failures and signals. *)

(* The system call of a step fails; nothing of the step has happened.      *)
FailStep(r) ==
  /\ at[r][1] \in {"temp", "hold", "link", "readable"}
  /\ Fault /\ Raise(r)
  /\ UNCHANGED <<disk, version, seen, used, owned, installed>>

(* SIGHUP, SIGTERM or SIGINT.  mkstemp and the registration of its file    *)
(* run with the signals blocked, so a step is never half done.  The        *)
(* handlers are gone once the cleanup of a failure runs.                   *)
Interrupt(r) ==
  /\ Fault
  /\ \/ at[r][1] \in Forward /\ Raise(r)
     \/ at[r][1] \in Cleanup /\ Goto(r, "broken", 0) /\ UNCHANGED err
  /\ UNCHANGED <<disk, version, seen, used, owned, installed>>

(* Mutant: only the recorded destinations are rolled back.                 *)
RollbackInstalled(r, f) ==
  /\ at[r] = <<"rollback", f>>
  /\ \/ /\ f \in installed[r] /\ view.dest[f] = r
        /\ \/ SetDest(f, Free) /\ NoFault /\ UNCHANGED err
           \/ Fault /\ err' = [err EXCEPT ![r] = TRUE] /\ UNCHANGED view
     \/ /\ ~(f \in installed[r] /\ view.dest[f] = r)
        /\ NoFault /\ UNCHANGED <<view, err>>
  /\ Advance(r)
  /\ UNCHANGED <<durable, data, synced, public, version, seen, used, owned, installed>>

(* Mutant: whatever is at a destination is removed.                        *)
RollbackAnyone(r, f) ==
  /\ at[r] = <<"rollback", f>>
  /\ IF f \in owned[r] THEN SetDest(f, Free) ELSE UNCHANGED view
  /\ Advance(r)
  /\ UNCHANGED <<durable, data, synced, public, version, seen, used, owned, installed, err, faults>>

(* Mutant: the outputs go before the receipt.                              *)
RollbackOutputsFirst(r, f) ==
  LET g == Receipt - f + 1 IN
  /\ at[r] = <<"rollback", f>>
  /\ IF g \in owned[r] \cup installed[r] /\ view.dest[g] = r
     THEN SetDest(g, Free) ELSE UNCHANGED view
  /\ Advance(r)
  /\ UNCHANGED <<durable, data, synced, public, version, seen, used, owned, installed, err, faults>>

(* The candidates are the registered temporaries and what was recorded;    *)
(* a destination another run won is left alone.                            *)
Rollback(r, f) ==
  /\ at[r] = <<"rollback", f>>
  /\ \/ /\ f \in owned[r] \cup installed[r] /\ view.dest[f] = r
        /\ \/ SetDest(f, Free) /\ NoFault /\ UNCHANGED err
           \/ Fault /\ err' = [err EXCEPT ![r] = TRUE] /\ UNCHANGED view
     \/ /\ ~(f \in owned[r] \cup installed[r] /\ view.dest[f] = r)
        /\ NoFault /\ UNCHANGED <<view, err>>
  /\ Advance(r)
  /\ UNCHANGED <<durable, data, synced, public, version, seen, used, owned, installed>>

RolledBack(r) ==
  /\ at[r][1] = "rolled"
  /\ SyncParents(r) /\ Advance(r)
  /\ UNCHANGED <<view, data, synced, public, version, seen, used, owned, installed>>

Sweep(r, f) ==
  /\ at[r] = <<"sweep", f>>
  /\ IF f \in owned[r] THEN RemoveTemp(r, f) ELSE NoFault /\ UNCHANGED <<view, err>>
  /\ Advance(r)
  /\ UNCHANGED <<durable, data, synced, public, version, seen, used, owned, installed>>

(* The run ends with the error, or with what it could not clean up.        *)
Swept(r) ==
  /\ at[r][1] = "swept"
  /\ SyncParents(r)
  /\ Goto(r, IF err'[r] THEN "unclean" ELSE "failed", 0)
  /\ UNCHANGED <<view, data, synced, public, version, seen, used, owned, installed>>

-----------------------------------------------------------------------------
(* The world. *)

Change(i) == /\ Fault
             /\ version' = [version EXCEPT ![i] = @ + 1]
             /\ UNCHANGED <<disk, at, local>>

(* The system writes the directories back on its own, in the order of the  *)
(* operations: the destinations are in one directory, or in several of one *)
(* journal.                                                                *)
Writeback == /\ durable' = view
             /\ UNCHANGED <<view, data, synced, public, version, at, local, faults>>

Kill(r) == /\ at[r][1] \notin Ended
           /\ Fault /\ Goto(r, "dead", 0)
           /\ UNCHANGED <<disk, version, local>>

PowerLoss ==
  /\ Fault
  /\ view' = durable
  /\ data' = [r \in Runs |-> [f \in Files |-> IF f \in synced[r] THEN data[r][f] ELSE "bad"]]
  /\ at' = [r \in Runs |-> IF at[r][1] \in Ended THEN at[r] ELSE <<"dead", 0>>]
  /\ UNCHANGED <<durable, synced, public, version, local>>

-----------------------------------------------------------------------------
Init ==
  /\ view = [dest |-> [f \in Files |-> Free],
             temp |-> [r \in Runs |-> [f \in Files |-> "none"]]]
  /\ durable = view
  /\ data = [r \in Runs |-> [f \in Files |-> "bad"]]
  /\ synced = [r \in Runs |-> {}]
  /\ public = [r \in Runs |-> {}]
  /\ version = [i \in Inputs |-> 0]
  /\ at = [r \in Runs |-> <<"check", 0>>]
  /\ seen = [r \in Runs |-> version]
  /\ used = [r \in Runs |-> {}]
  /\ owned = [r \in Runs |-> {}]
  /\ installed = [r \in Runs |-> {}]
  /\ err = [r \in Runs |-> FALSE]
  /\ faults = 0

Publishing(r, f) == MakeTemporary(r, f) \/ Fill(r, f) \/ Hold(r, f) \/ Link(r, f)
                    \/ Track(r, f) \/ MakeReadable(r, f) \/ Clean(r, f) \/ Verify(r, f)
Step(r) == \/ Check(r) \/ Recheck(r) \/ Cleaned(r)
           \/ FailStep(r) \/ Interrupt(r) \/ RolledBack(r) \/ Swept(r) \/ Kill(r)
           \/ \E f \in Files : Publishing(r, f) \/ Rollback(r, f) \/ Sweep(r, f)

Next == \/ \E r \in Runs : Step(r)
        \/ \E i \in Inputs : Change(i)
        \/ Writeback \/ PowerLoss

Spec == Init /\ [][Next]_vars

-----------------------------------------------------------------------------
(* The values of the variables.                                            *)
TypeOK ==
  /\ {view, durable} \subseteq
       [dest : [Files -> Runs \cup {Free}],
        temp : [Runs -> [Files -> {"none", "own", "other"}]]]
  /\ data \in [Runs -> [Files -> {"good", "bad"}]]
  /\ {synced, public, owned, installed} \subseteq [Runs -> SUBSET Files]
  /\ version \in [Inputs -> 0 .. MaxFaults] /\ seen \in [Runs -> [Inputs -> 0 .. MaxFaults]]
  /\ \A r \in Runs : used[r] \subseteq Inputs \X (0 .. MaxFaults)
  /\ \A r \in Runs : at[r][1] \in {"check"} \cup Forward \cup Cleanup \cup Ended
                     /\ at[r][2] \in 0 .. Receipt
  /\ err \in [Runs -> BOOLEAN] /\ faults \in 0 .. MaxFaults

Complete(r) == data[r][Receipt] = "good" /\ \A f \in Outputs : Good(r, f)

(* Wherever there is a receipt, the three outputs of the same run are at   *)
(* their destinations, complete and readable, unless a cleanup of that run *)
(* has failed: after whatever other failure, signal, kill or power loss,   *)
(* and during the rollback (run_calibration_pipeline).                     *)
ReceiptHasOutputs ==
  \A r \in Runs : view.dest[Receipt] = r /\ ~err[r] => Complete(r)

(* A receipt names the inputs its commands have read, although they are    *)
(* only looked at before and after the commands (_same_snapshot).          *)
ReceiptIsTruthful ==
  \A r \in Runs : view.dest[Receipt] = r => \A u \in used[r] : seen[r][u[1]] = u[2]

(* The steps that the next property allows. *)
NeverClobbersStep ==
  \A r \in Runs, f \in Files : view.dest[f] = r /\ view'.dest[f] # r =>
    (view'.dest[f] = Free /\ at[r] = <<"rollback", f>>) \/ view' = durable

(* What a run has at a destination goes away only by its own rollback or a *)
(* power loss, whatever the other runs do (_link_descriptor_no_replace,    *)
(* _rollback_destinations).                                                *)
NeverClobbers == [][NeverClobbersStep]_vars

(* A run that failed and reports no incomplete cleanup has left nothing,   *)
(* neither a destination nor a temporary, even after a power loss          *)
(* (_rollback_destinations, _cleanup_temporary_records).                   *)
FailedLeavesNothing ==
  \A r \in Runs : at[r][1] = "failed" =>
    \A f \in Files, files \in {view, durable} :
      files.dest[f] # r /\ files.temp[r][f] = "none"

(* A run that returns has made everything durable (durability_confirmed).  *)
DoneIsDurable ==
  \A r \in Runs : at[r][1] = "done" =>
    \A f \in Files : durable.dest[f] = r /\ f \in synced[r] /\ durable.temp[r][f] = "none"
=============================================================================
