--------------------------- MODULE Evidence_proofs ---------------------------
(***************************************************************************)
(* Proofs of what the scripts record: calibrations and evaluations, for    *)
(* any number of them with the same destination, any number of rows, of    *)
(* builds and of faults; the inspections of llama.cpp, for any contract    *)
(* and any tree of directories; the verification of an export, for any     *)
(* number of jobs; the validation of a publication and of a diagnostic,    *)
(* for any files that earlier steps could have left; and any number of     *)
(* changes meanwhile.  The components in turn, their types, and then all   *)
(* of them, one of which runs.                                             *)
(***************************************************************************)
EXTENDS Evidence, WellFoundedInduction, TLAPS

-----------------------------------------------------------------------------
(* The calibrations.                                                       *)

(* Where a run of the calibration may be: a step and a file.               *)
Places ==
  {<<"check", 0>>, <<"recheck", 0>>, <<"inspect", Pipeline!Receipt>>, <<"rolled", 0>>,
   <<"swept", 0>>}
    \cup ({"temp", "fill", "link", "track", "readable", "clean", "rollback", "sweep"}
            \X Pipeline!Files)
    \cup ({"hold", "verify", "confirm"} \X Pipeline!Outputs)
    \cup ({"cleaned"} \X {3, Pipeline!Receipt}) \cup (Pipeline!Ended \X {0})

(* What the steps before a place have done: the inputs were looked at      *)
(* again; the outputs are at their destinations; their temporaries are     *)
(* gone; the receipt has its temporary, is written, is about to be         *)
(* linked, is linked.                                                      *)
Rechecked(a) == \/ a[1] \in {"link", "track", "readable", "inspect", "clean", "cleaned",
                             "verify", "confirm", "done"}
                \/ a[1] \in {"temp", "fill"} /\ a[2] = Pipeline!Receipt
Linked(a) == \/ a[1] \in {"readable", "inspect", "clean", "cleaned", "verify", "confirm", "done"}
             \/ a[1] \in {"temp", "fill", "link", "track"} /\ a[2] = Pipeline!Receipt
Cleared(a) == \/ a[1] \in {"verify", "confirm", "inspect"}
              \/ a[1] \in {"temp", "fill", "link", "track", "readable", "clean"}
                   /\ a[2] = Pipeline!Receipt
Reserved(a) == \/ a[1] \in {"confirm", "inspect", "done"}
               \/ a[1] \in {"fill", "link", "track", "readable", "clean", "cleaned"}
                  /\ a[2] = Pipeline!Receipt
Written(a) == \/ a[1] \in {"confirm", "inspect", "done"}
              \/ a[1] \in {"link", "track", "readable", "clean", "cleaned"}
                   /\ a[2] = Pipeline!Receipt
Confirmed(a) == \/ a[1] \in {"inspect", "done"}
                \/ a[1] \in {"link", "track", "readable", "clean", "cleaned"}
                     /\ a[2] = Pipeline!Receipt
Finished(a) == \/ a[1] \in {"inspect", "done"}
               \/ a[1] \in {"track", "readable", "clean", "cleaned"} /\ a[2] = Pipeline!Receipt

Truthful(r) == \A u \in used[r] : seen[r][u[1]] = u[2]
Dirs == {view, durable}
Disks == [dest : [Pipeline!Files -> Calibrations \cup {Free}],
          temp : [Calibrations -> [Pipeline!Files -> {"none", "own", "other"}]]]

TypeInv ==
  /\ Pipeline!PipelineAssumption
  /\ view \in Disks /\ durable \in Disks
  /\ data \in [Calibrations -> [Pipeline!Files -> {"good", "bad"}]]
  /\ synced \in [Calibrations -> SUBSET Pipeline!Files]
  /\ public \in [Calibrations -> SUBSET Pipeline!Files]
  /\ owned \in [Calibrations -> SUBSET Pipeline!Files]
  /\ installed \in [Calibrations -> SUBSET Pipeline!Files]
  /\ version \in [Pipeline!Inputs -> Nat] /\ seen \in [Calibrations -> [Pipeline!Inputs -> Nat]]
  /\ \A i \in Pipeline!Inputs : version[i] <= faults
  /\ used \in [Calibrations -> SUBSET (Pipeline!Inputs \X (0 .. MaxFaults))]
  /\ at \in [Calibrations -> Places]
  /\ err \in [Calibrations -> BOOLEAN] /\ faults \in 0 .. MaxFaults

(* What a run has in a directory it has registered before.                 *)
OwnInv(r) ==
  /\ \A d \in Dirs, f \in Pipeline!Files : d.dest[f] = r \/ d.temp[r][f] # "none"
       => f \in owned[r]
  /\ at[r][1] \in Pipeline!Forward \ {"temp"} => Pipeline!Outputs \subseteq owned[r]
  /\ at[r][1] = "temp" => 1 .. at[r][2] - 1 \subseteq owned[r]
  /\ Reserved(at[r]) => Pipeline!Receipt \in owned[r]

(* Versions only grow, so those the commands read lie between the snapshot *)
(* and now, and are the snapshot's once the recheck has passed.            *)
InputInv(r) ==
  /\ \A i \in Pipeline!Inputs : seen[r][i] <= version[i]
  /\ at[r][1] = "check" => used[r] = {}
  /\ at[r][1] \in {"temp", "fill", "hold", "recheck"} /\ ~Rechecked(at[r]) =>
       \A u \in used[r] : seen[r][u[1]] <= u[2] /\ u[2] <= version[u[1]]
  /\ Rechecked(at[r]) => Truthful(r)

(* A receipt, also one that a power loss would leave.                      *)
ReceiptInv(r) ==
  \A d \in Dirs : d.dest[Pipeline!Receipt] = r =>
    /\ Finished(at[r]) \/ at[r][1] \in Pipeline!Cleanup \cup Pipeline!Ended
    /\ Truthful(r) /\ Pipeline!Files \subseteq synced[r] /\ Pipeline!Outputs \subseteq public[r]
    /\ \A f \in Pipeline!Files : data[r][f] = "good"
    /\ (\A f \in Pipeline!Outputs : d.dest[f] = r)
         \/ (err[r] /\ at[r][1] \in Pipeline!Cleanup \cup Pipeline!Ended)

(* The way to the receipt.                                                 *)
ForwardInv(r) ==
  /\ at[r][1] \in {"fill", "hold"} => 1 .. at[r][2] - 1 \subseteq synced[r]
  /\ Rechecked(at[r]) \/ at[r][1] = "recheck" => Pipeline!Outputs \subseteq synced[r]
  /\ at[r][1] = "link" => \A g \in 1 .. at[r][2] - 1 : view.dest[g] = r
  /\ at[r][1] = "track" => \A g \in 1 .. at[r][2] : view.dest[g] = r
  /\ Linked(at[r]) => \A g \in Pipeline!Outputs : view.dest[g] = r
  /\ at[r][1] = "clean" /\ ~err[r] => \A g \in at[r][2] + 1 .. 3 : view.temp[r][g] = "none"
  /\ at[r][1] = "cleaned" /\ ~err[r] => \A g \in 1 .. at[r][2] : view.temp[r][g] = "none"
  /\ Cleared(at[r]) => \A g \in Pipeline!Outputs : view.temp[r][g] = "none"
  /\ Written(at[r]) => data[r][Pipeline!Receipt] = "good" /\ Pipeline!Receipt \in synced[r]
  /\ at[r][1] = "confirm" => \A g \in 1 .. at[r][2] - 1 : Pipeline!Good(r, g)
  /\ Confirmed(at[r]) => \A g \in Pipeline!Outputs : Pipeline!Good(r, g)
  /\ Finished(at[r]) => view.dest[Pipeline!Receipt] = r

(* The way back, and what is left at the end.                              *)
CleanupInv(r) ==
  /\ at[r][1] = "rollback" /\ ~err[r] =>
       \A g \in at[r][2] + 1 .. Pipeline!Receipt : view.dest[g] # r
  /\ at[r][1] = "rolled" /\ ~err[r] => \A g \in Pipeline!Files : view.dest[g] # r
  /\ at[r][1] \in {"sweep", "swept"} /\ ~err[r]
       => \A d \in Dirs, g \in Pipeline!Files : d.dest[g] # r
  /\ at[r][1] \in {"sweep", "swept"} /\ ~err[r] =>
       \A g \in at[r][2] + 1 .. Pipeline!Receipt : view.temp[r][g] = "none"
  /\ at[r][1] = "failed" =>
       \A d \in Dirs, g \in Pipeline!Files : d.dest[g] # r /\ d.temp[r][g] = "none"
  /\ at[r][1] = "done" => /\ Pipeline!Files \subseteq synced[r]
                          /\ \A d \in Dirs, g \in Pipeline!Files :
                               d.dest[g] = r /\ d.temp[r][g] = "none"

RunInv(r) == OwnInv(r) /\ InputInv(r) /\ ReceiptInv(r) /\ ForwardInv(r) /\ CleanupInv(r)
PipelineInv == TypeInv /\ \A r \in Calibrations : RunInv(r)

-----------------------------------------------------------------------------
(* A step that leaves a run where it is: its files stay in the directory,  *)
(* and what is durable is what was or what is there now.                   *)
Frame(s) ==
  /\ at'[s] = at[s] /\ data'[s] = data[s] /\ synced'[s] = synced[s] /\ public'[s] = public[s]
  /\ seen'[s] = seen[s] /\ used'[s] = used[s] /\ owned'[s] = owned[s] /\ err'[s] = err[s]
  /\ view'.temp[s] = view.temp[s]
  /\ \A f \in Pipeline!Files : view'.dest[f] = s <=> view.dest[f] = s
  /\ durable' = durable \/ durable' = view'
  /\ \A i \in Pipeline!Inputs : version'[i] \in Nat /\ version[i] <= version'[i]

LEMMA FrameKeeps ==
  ASSUME TypeInv, NEW s \in Calibrations, RunInv(s), Frame(s)
  PROVE  RunInv(s)'
  <1> USE DEF Frame, RunInv
  <1>1. OwnInv(s)'
    BY DEF OwnInv, Dirs, Reserved
  <1>2. InputInv(s)'
    BY DEF InputInv, TypeInv, Rechecked, Truthful
  <1>3. ReceiptInv(s)'
    BY DEF ReceiptInv, Dirs, Truthful, Finished, Pipeline!Files, Pipeline!Outputs,
           Pipeline!Receipt
  <1>4. ForwardInv(s)'
    <2>1. \A g \in Pipeline!Files : Pipeline!Good(s, g)' <=> Pipeline!Good(s, g)
      BY DEF Pipeline!Good
    <2>2. at[s] \in Places
      BY DEF TypeInv
    <2>3. \A g \in Pipeline!Outputs : g \in Pipeline!Files
      BY DEF Pipeline!Files
    <2>4. /\ at[s][1] = "link" => 1 .. at[s][2] - 1 \subseteq Pipeline!Files
          /\ at[s][1] = "track" => 1 .. at[s][2] \subseteq Pipeline!Files
          /\ at[s][1] = "confirm" => 1 .. at[s][2] - 1 \subseteq Pipeline!Files
      BY <2>2 DEF Places, Pipeline!Files, Pipeline!Outputs, Pipeline!Receipt, Pipeline!Ended
    <2>5. /\ Rechecked(at[s])' = Rechecked(at[s]) /\ Linked(at[s])' = Linked(at[s])
          /\ Cleared(at[s])' = Cleared(at[s]) /\ Written(at[s])' = Written(at[s])
          /\ Confirmed(at[s])' = Confirmed(at[s]) /\ Finished(at[s])' = Finished(at[s])
      BY DEF Rechecked, Linked, Cleared, Written, Confirmed, Finished
    <2>6. Pipeline!Receipt \in Pipeline!Files
      BY DEF Pipeline!Files
    <2> QED BY <2>1, <2>3, <2>4, <2>5, <2>6 DEF ForwardInv
  <1>5. CleanupInv(s)'
    <2>1. at[s] \in Places
      BY DEF TypeInv
    <2>2. at[s][1] = "rollback" => at[s][2] + 1 .. Pipeline!Receipt \subseteq Pipeline!Files
      BY <2>1 DEF Places, Pipeline!Files, Pipeline!Outputs, Pipeline!Receipt, Pipeline!Ended
    <2> QED BY <2>2 DEF CleanupInv, Dirs
  <1> QED BY <1>1, <1>2, <1>3, <1>4, <1>5

-----------------------------------------------------------------------------
(* What the directory looks like after a name in it was set.               *)
LEMMA TempSet ==
  ASSUME view \in Disks, NEW r \in Calibrations, NEW f \in Pipeline!Files,
           NEW t \in {"none", "own", "other"},
         Pipeline!SetTemp(r, f, t)
  PROVE  /\ view' \in Disks /\ view'.dest = view.dest /\ view'.temp[r][f] = t
         /\ \A g \in Pipeline!Files \ {f} : view'.temp[r][g] = view.temp[r][g]
         /\ \A s \in Calibrations \ {r} : view'.temp[s] = view.temp[s]
  BY DEF Pipeline!SetTemp, Disks

LEMMA DestSet ==
  ASSUME view \in Disks, NEW f \in Pipeline!Files, NEW x \in Calibrations \cup {Free},
           Pipeline!SetDest(f, x)
  PROVE  /\ view' \in Disks /\ view'.temp = view.temp /\ view'.dest[f] = x
         /\ \A g \in Pipeline!Files \ {f} : view'.dest[g] = view.dest[g]
  BY DEF Pipeline!SetDest, Disks

(* A step of one run leaves the others where they are.                     *)
StepOf(r) == /\ TypeInv' /\ RunInv(r)'
             /\ \A s \in Calibrations \ {r} : Frame(s)

(* What the exception handler finds is what the forward path has left.     *)
Raised(r) ==
  /\ at'[r] = <<"rollback", Pipeline!Receipt>> /\ ~err'[r]
  /\ owned'[r] = owned[r] /\ seen'[r] = seen[r] /\ synced'[r] = synced[r]
  /\ public'[r] = public[r] /\ version' = version
  /\ (used'[r] = used[r] /\ data'[r] = data[r]) \/ at[r][1] = "fill"
  /\ view' = view /\ durable' \in {durable, view}

LEMMA RaiseKeeps ==
  ASSUME TypeInv, NEW r \in Calibrations, RunInv(r), at[r][1] \in Pipeline!Forward, Raised(r)
  PROVE  RunInv(r)'
  <1> USE DEF Raised, RunInv
  <1>1. OwnInv(r)'
    BY DEF OwnInv, Dirs, Reserved, Pipeline!Forward, Pipeline!Receipt
  <1>2. InputInv(r)'
    BY DEF InputInv, Rechecked
  <1>3. ReceiptInv(r)'
    <2> SUFFICES ASSUME NEW d \in Dirs', d.dest[Pipeline!Receipt] = r
                 PROVE  /\ Truthful(r)' /\ Pipeline!Files \subseteq synced'[r]
                             /\ Pipeline!Outputs \subseteq public'[r]
                        /\ \A f \in Pipeline!Files : data'[r][f] = "good"
                        /\ \A f \in Pipeline!Outputs : d.dest[f] = r
      BY DEF ReceiptInv, Pipeline!Cleanup
    <2>1. d \in Dirs
      BY DEF Dirs
    <2>2. at[r] \in Places
      BY DEF TypeInv
    <2>3. at[r][1] \notin Pipeline!Cleanup \cup Pipeline!Ended
      BY DEF Pipeline!Forward, Pipeline!Cleanup, Pipeline!Ended
    <2>4. Finished(at[r])
      BY <2>1, <2>3 DEF ReceiptInv
    <2>5. at[r][1] # "fill"
      BY <2>4 DEF Finished
    <2> QED BY <2>1, <2>3, <2>5 DEF ReceiptInv, Truthful
  <1>4. ForwardInv(r)'
    BY DEF ForwardInv, Rechecked, Linked, Cleared, Written, Confirmed, Finished
  <1>5. CleanupInv(r)'
    BY DEF CleanupInv, Pipeline!Receipt
  <1> QED BY <1>1, <1>2, <1>3, <1>4, <1>5

(* The same for the other variables.                                       *)
LEMMA RaiseFrame ==
  ASSUME TypeInv, NEW r \in Calibrations, Pipeline!Raise(r)
  PROVE  /\ at' \in [Calibrations -> Places] /\ err' \in [Calibrations -> BOOLEAN]
         /\ at'[r] = <<"rollback", Pipeline!Receipt>> /\ ~err'[r]
         /\ \A s \in Calibrations \ {r} : at'[s] = at[s] /\ err'[s] = err[s]
  BY DEF Pipeline!Raise, Pipeline!Goto, TypeInv, Places, Pipeline!Files, Pipeline!Receipt

(* Where a run is after it has gone to a place.                            *)
LEMMA AdvanceTo ==
  ASSUME TypeInv, NEW r \in Calibrations, NEW p \in Places, at' = [at EXCEPT ![r] = p]
  PROVE  /\ at' \in [Calibrations -> Places] /\ at'[r] = p
         /\ \A s \in Calibrations \ {r} : at'[s] = at[s]
  BY DEF TypeInv

LEMMA CheckStep ==
  ASSUME TypeInv, NEW r \in Calibrations, RunInv(r), Pipeline!Check(r)
  PROVE  StepOf(r)
  <1> USE DEF RunInv
  <1>a. at[r] = <<"check", 0>>
    <2>1. at[r] \in Places /\ at[r][1] = "check"
      BY DEF Pipeline!Check, TypeInv
    <2> QED BY <2>1 DEF Places, Pipeline!Ended
  <1>b. /\ <<"temp", 1>> \in Places /\ <<"refused", 0>> \in Places
        /\ Pipeline!Following("check", 0) = <<"temp", 1>>
    BY DEF Places, Pipeline!Ended, Pipeline!Files, Pipeline!Outputs, Pipeline!Following
  <1>c. /\ \A s \in Calibrations \ {r} : at'[s] = at[s] /\ seen'[s] = seen[s]
        /\ UNCHANGED <<Pipeline!disk, version, used, owned, installed, err, faults>>
        /\ \/ seen'[r] = version /\ at'[r] = <<"temp", 1>>
           \/ seen'[r] = seen[r] /\ at'[r] = <<"refused", 0>>
        /\ seen' \in [Calibrations -> [Pipeline!Inputs -> Nat]]
             /\ at' \in [Calibrations -> Places]
    <2>1. CASE \A f \in Pipeline!Files : view.dest[f] = Free
      <3>1. seen' = [seen EXCEPT ![r] = version] /\ at' = [at EXCEPT ![r] = <<"temp", 1>>]
        BY <1>a, <1>b, <2>1 DEF Pipeline!Check, Pipeline!Advance
      <3> QED BY <1>b, <3>1 DEF Pipeline!Check, TypeInv
    <2>2. CASE ~\A f \in Pipeline!Files : view.dest[f] = Free
      <3>1. seen' = seen /\ at' = [at EXCEPT ![r] = <<"refused", 0>>]
        BY <2>2 DEF Pipeline!Check, Pipeline!Goto
      <3> QED BY <1>b, <3>1 DEF Pipeline!Check, TypeInv
    <2> QED BY <2>1, <2>2
  <1>1. /\ at[r] = <<"check", 0>>
        /\ \A s \in Calibrations \ {r} : at'[s] = at[s] /\ seen'[s] = seen[s]
        /\ UNCHANGED <<Pipeline!disk, version, used, owned, installed, err, faults>>
        /\ \/ seen'[r] = version /\ at'[r] = <<"temp", 1>>
           \/ seen'[r] = seen[r] /\ at'[r] = <<"refused", 0>>
        /\ seen' \in [Calibrations -> [Pipeline!Inputs -> Nat]]
             /\ at' \in [Calibrations -> Places]
    BY <1>a, <1>c
  <1>2. TypeInv'
    BY <1>1 DEF TypeInv, Pipeline!disk, Disks
  <1>3. \A s \in Calibrations \ {r} : Frame(s)
    BY <1>1 DEF Frame, Pipeline!disk, TypeInv
  <1>4. OwnInv(r)'
    BY <1>1 DEF OwnInv, Pipeline!disk, Dirs, Reserved, Pipeline!Forward
  <1>5. InputInv(r)'
    BY <1>1 DEF InputInv, Rechecked, TypeInv, Pipeline!Receipt
  <1>6. ReceiptInv(r)'
    BY <1>1 DEF ReceiptInv, Pipeline!disk, Dirs, Finished, Pipeline!Cleanup, Pipeline!Ended,
                Pipeline!Receipt
  <1>7. ForwardInv(r)'
    BY <1>1 DEF ForwardInv, Rechecked, Linked, Cleared, Written, Confirmed, Finished,
                Pipeline!Receipt
  <1>8. CleanupInv(r)'
    BY <1>1 DEF CleanupInv
  <1> QED BY <1>2, <1>3, <1>4, <1>5, <1>6, <1>7, <1>8 DEF StepOf

LEMMA MakeTemporaryStep ==
  ASSUME TypeInv, NEW r \in Calibrations, RunInv(r), NEW f \in Pipeline!Files,
           Pipeline!MakeTemporary(r, f)
  PROVE  StepOf(r)
  <1> USE DEF RunInv
  <1>1. /\ at[r] = <<"temp", f>> /\ at' \in [Calibrations -> Places]
        /\ at'[r] = IF f < 3 THEN <<"temp", f + 1>> ELSE IF f = 3 THEN <<"fill",
             1>> ELSE <<"fill", 4>>
        /\ owned'[r] = owned[r] \cup {f} /\ owned' \in [Calibrations -> SUBSET Pipeline!Files]
        /\ \A s \in Calibrations \ {r} : at'[s] = at[s] /\ owned'[s] = owned[s]
        /\ UNCHANGED <<durable, data, synced, public, version, seen, used, installed, err,
             faults>>
    BY DEF Pipeline!MakeTemporary, Pipeline!Advance, Pipeline!Following, TypeInv, Places,
           Pipeline!Files, Pipeline!Outputs, Pipeline!Receipt, Pipeline!Ended
  <1>2. /\ view' \in Disks /\ view'.dest = view.dest
        /\ \A g \in Pipeline!Files \ {f} : view'.temp[r][g] = view.temp[r][g]
        /\ \A s \in Calibrations \ {r} : view'.temp[s] = view.temp[s]
    BY TempSet DEF Pipeline!MakeTemporary, TypeInv
  <1>3. TypeInv'
    BY <1>1, <1>2 DEF TypeInv
  <1>4. \A s \in Calibrations \ {r} : Frame(s)
    BY <1>1, <1>2 DEF Frame, TypeInv
  <1>5. OwnInv(r)'
    BY <1>1, <1>2 DEF OwnInv, Dirs, Reserved, Pipeline!Forward, Pipeline!Files,
                      Pipeline!Outputs, Pipeline!Receipt
  <1>6. InputInv(r)'
    BY <1>1 DEF InputInv, Rechecked, Pipeline!Receipt, Truthful, Pipeline!Files, Pipeline!Outputs
  <1>7. ReceiptInv(r)'
    BY <1>1, <1>2 DEF ReceiptInv, Dirs, Finished, Pipeline!Cleanup, Pipeline!Ended,
                      Pipeline!Receipt
  <1>8. ForwardInv(r)'
    BY <1>1, <1>2 DEF ForwardInv, Rechecked, Linked, Cleared, Written, Confirmed, Finished,
                      Pipeline!Receipt, Pipeline!Files, Pipeline!Outputs
  <1>9. CleanupInv(r)'
    BY <1>1 DEF CleanupInv
  <1> QED BY <1>3, <1>4, <1>5, <1>6, <1>7, <1>8, <1>9 DEF StepOf

LEMMA FillStep ==
  ASSUME TypeInv, NEW r \in Calibrations, RunInv(r), NEW f \in Pipeline!Files, Pipeline!Fill(r, f)
  PROVE  StepOf(r)
  <1> USE DEF RunInv
  <1>1. /\ at[r] = <<"fill", f>> /\ f \in 1 .. 4
        /\ Pipeline!Following("fill", f) = IF f = 4 THEN <<"confirm", 1>> ELSE <<"hold", f>>
        /\ Pipeline!Following("fill", f) \in Places
    BY DEF Pipeline!Fill, Pipeline!Following, Places, Pipeline!Files, Pipeline!Outputs,
           Pipeline!Receipt
  <1>2. /\ UNCHANGED <<durable, public, version, seen, owned, installed>>
        /\ used' \in [Calibrations -> SUBSET (Pipeline!Inputs \X (0 .. MaxFaults))]
        /\ \A s \in Calibrations \ {r} : used'[s] = used[s]
        /\ used'[r] = used[r]
                 \cup IF f \in Pipeline!Outputs
                      THEN {<<i, version[i]>> : i \in Pipeline!Reads[f]} ELSE {}
    <2>1. f \in Pipeline!Outputs => Pipeline!Reads[f] \subseteq Pipeline!Inputs
      BY DEF Pipeline!Reads, Pipeline!Inputs, Pipeline!Outputs
    <2>2. (IF f \in Pipeline!Outputs THEN {<<i, version[i]>> : i \in Pipeline!Reads[f]} ELSE {})
            \subseteq Pipeline!Inputs \X (0 .. MaxFaults)
      <3>1. \A i \in Pipeline!Inputs : version[i] \in Nat /\ version[i] <= faults
        BY DEF TypeInv
      <3>2. faults \in 0 .. MaxFaults /\ MaxFaults \in Nat
        BY DEF TypeInv, Pipeline!PipelineAssumption
      <3>3. \A i \in Pipeline!Inputs : version[i] \in 0 .. MaxFaults
        BY <3>1, <3>2
      <3> QED BY <2>1, <3>3
    <2> QED BY <2>2 DEF Pipeline!Fill, TypeInv
  <1>3. /\ faults' \in 0 .. MaxFaults /\ faults <= faults'
    BY DEF Pipeline!Fill, Pipeline!Fault, Pipeline!NoFault, TypeInv, Pipeline!PipelineAssumption
  <1>4. /\ data' \in [Calibrations -> [Pipeline!Files -> {"good", "bad"}]]
        /\ \A s \in Calibrations \ {r} : data'[s] = data[s]
        /\ synced' \in [Calibrations -> SUBSET Pipeline!Files]
             /\ \A s \in Calibrations \ {r} : synced'[s] = synced[s]
    <2>1. /\ data' \in [Calibrations -> [Pipeline!Files -> {"good", "bad"}]]
          /\ \A s \in Calibrations \ {r} : data'[s] = data[s]
      <3>1. CASE data' = data
        BY <3>1 DEF TypeInv
      <3>3. CASE data' = [data EXCEPT ![r][f] = "good"]
        BY <3>3 DEF TypeInv
      <3>4. CASE data' = [data EXCEPT ![r][f] = "bad"]
        BY <3>4 DEF TypeInv
      <3>2. ASSUME NEW g \in 1 .. f - 1,
                   data' = [data EXCEPT ![r][g] = "bad", ![r][f] = "good"]
            PROVE  /\ data' \in [Calibrations -> [Pipeline!Files -> {"good", "bad"}]]
                   /\ \A s \in Calibrations \ {r} : data'[s] = data[s]
        <4>1. g \in Pipeline!Files
          BY <1>1 DEF Pipeline!Files, Pipeline!Outputs
        <4>2. [data EXCEPT ![r][g] = "bad"]
                 \in [Calibrations -> [Pipeline!Files -> {"good", "bad"}]]
          BY <4>1 DEF TypeInv
        <4> QED BY <3>2, <4>1, <4>2 DEF TypeInv
      <3> QED BY <3>1, <3>2, <3>3, <3>4 DEF Pipeline!Fill
    <2>2. CASE synced' = synced
      BY <2>1, <2>2 DEF TypeInv
    <2>3. CASE synced' = [synced EXCEPT ![r] = IF f = Pipeline!Receipt THEN @ \cup {f} ELSE @]
      BY <2>1, <2>3 DEF TypeInv
    <2> QED BY <2>2, <2>3 DEF Pipeline!Fill
  <1>5. /\ view' \in Disks /\ view'.dest = view.dest
        /\ \A g \in Pipeline!Files \ {f} : view'.temp[r][g] = view.temp[r][g]
        /\ \A s \in Calibrations \ {r} : view'.temp[s] = view.temp[s]
    BY TempSet DEF Pipeline!Fill, TypeInv
  <1>6. /\ at' \in [Calibrations -> Places] /\ err' \in [Calibrations -> BOOLEAN]
        /\ \A s \in Calibrations \ {r} : at'[s] = at[s] /\ err'[s] = err[s]
    <2>1. CASE Pipeline!Raise(r)
      BY <2>1, RaiseFrame
    <2>2. CASE Pipeline!Advance(r) /\ UNCHANGED err
      <3>1. at' = [at EXCEPT ![r] = Pipeline!Following("fill", f)]
        BY <1>1, <2>2 DEF Pipeline!Advance
      <3> QED BY <1>1, <2>2, <3>1, AdvanceTo DEF TypeInv
    <2> QED BY <2>1, <2>2 DEF Pipeline!Fill
  <1>7. TypeInv'
    BY <1>2, <1>3, <1>4, <1>5, <1>6 DEF TypeInv
  <1>8. \A s \in Calibrations \ {r} : Frame(s)
    BY <1>2, <1>4, <1>5, <1>6 DEF Frame, TypeInv
  <1>9. CASE Pipeline!Raise(r)
    <2>1. at[r][1] \in Pipeline!Forward
      BY <1>1 DEF Pipeline!Forward
    <2>2. synced' = synced /\ view' = view
      <3>1. at'[r] = <<"rollback", Pipeline!Receipt>>
        BY <1>9, RaiseFrame
      <3>2. ~Pipeline!Advance(r)
        BY <1>1, <3>1 DEF Pipeline!Advance, TypeInv
      <3> QED BY <3>2 DEF Pipeline!Fill
    <2>3. Raised(r)
      BY <1>1, <1>2, <1>9, <2>2, RaiseFrame DEF Raised
    <2> QED BY <1>7, <1>8, <2>1, <2>3, RaiseKeeps DEF StepOf
  <1>10. CASE Pipeline!Advance(r)
    <2>1. at'[r] = IF f = 4 THEN <<"confirm", 1>> ELSE <<"hold", f>>
      <3>1. at' = [at EXCEPT ![r] = Pipeline!Following("fill", f)]
        BY <1>1, <1>10 DEF Pipeline!Advance
      <3> QED BY <1>1, <3>1, AdvanceTo
    <2>2. err' = err
      <3>1. ~Pipeline!Raise(r)
        BY <2>1, RaiseFrame DEF Pipeline!Receipt
      <3> QED BY <3>1 DEF Pipeline!Fill
    <2>3. f = 4 => view' = view /\ data'[r][4] = "good" /\ synced'[r] = synced[r] \cup {4}
      <3>1. ~Pipeline!Raise(r)
        BY <2>1, RaiseFrame DEF Pipeline!Receipt
      <3> QED BY <3>1 DEF Pipeline!Fill, Pipeline!Outputs, Pipeline!Receipt, TypeInv,
                          Pipeline!Files
    <2>4. synced[r] \subseteq synced'[r]
      <3>1. \/ synced' = synced
            \/ synced' = [synced EXCEPT ![r] = IF f = Pipeline!Receipt THEN @ \cup {f} ELSE @]
        BY DEF Pipeline!Fill
      <3> QED BY <3>1 DEF TypeInv
    <2>5. OwnInv(r)'
      BY <1>1, <1>2, <1>5, <2>1 DEF OwnInv, Dirs, Reserved, Pipeline!Forward, Pipeline!Files,
                                    Pipeline!Outputs, Pipeline!Receipt
    <2>6. InputInv(r)'
      <3>1. \A i \in Pipeline!Inputs : seen'[r][i] <= version'[i]
        BY <1>2 DEF InputInv
      <3>2. CASE f = 4
        BY <1>1, <1>2, <2>1, <3>1, <3>2 DEF InputInv, Rechecked, Truthful, Pipeline!Receipt,
                                            Pipeline!Outputs
      <3>3. CASE f # 4
        <4>1. f \in Pipeline!Outputs /\ Pipeline!Reads[f] \subseteq Pipeline!Inputs
          BY <3>3 DEF Pipeline!Reads, Pipeline!Inputs, Pipeline!Outputs, Pipeline!Files,
                      Pipeline!Receipt
        <4>2. \A u \in used'[r] : seen[r][u[1]] <= u[2] /\ u[2] <= version[u[1]]
          BY <1>1, <1>2, <3>3, <4>1 DEF InputInv, Rechecked, Pipeline!Receipt, TypeInv
        <4> QED BY <1>2, <2>1, <3>1, <3>3, <4>2 DEF InputInv, Rechecked, Pipeline!Receipt
      <3> QED BY <3>2, <3>3
    <2>7. ReceiptInv(r)'
      BY <1>1, <1>2, <1>5, <2>1 DEF ReceiptInv, Dirs, Finished, Pipeline!Cleanup,
                                    Pipeline!Ended, Pipeline!Receipt
    <2>8. ForwardInv(r)'
      BY <1>1, <1>5, <2>1, <2>3, <2>4 DEF ForwardInv, Rechecked, Linked, Cleared, Written,
                                          Confirmed, Finished, Pipeline!Receipt,
                                          Pipeline!Files, Pipeline!Outputs
    <2>9. CleanupInv(r)'
      BY <2>1 DEF CleanupInv
    <2> QED BY <1>7, <1>8, <2>5, <2>6, <2>7, <2>8, <2>9 DEF StepOf
  <1> QED BY <1>9, <1>10 DEF Pipeline!Fill

LEMMA HoldStep ==
  ASSUME TypeInv, NEW r \in Calibrations, RunInv(r), NEW f \in Pipeline!Files, Pipeline!Hold(r, f)
  PROVE  StepOf(r)
  <1> USE DEF RunInv
  <1>1. at[r] = <<"hold", f>> /\ f \in 1 .. 3
    <2>1. at[r] = <<"hold", f>> /\ at[r] \in Places
      BY DEF Pipeline!Hold, TypeInv
    <2> QED BY <2>1 DEF Places, Pipeline!Outputs, Pipeline!Ended
  <1>2. /\ Pipeline!Following("hold", f) = IF f < 3 THEN <<"fill", f + 1>> ELSE <<"recheck", 0>>
        /\ Pipeline!Following("hold", f) \in Places
    BY <1>1 DEF Pipeline!Following, Places, Pipeline!Files, Pipeline!Outputs
  <1>3. UNCHANGED <<view, durable, data, public, version, seen, used, owned, installed, faults>>
    BY DEF Pipeline!Hold
  <1>4. CASE Pipeline!Raise(r) /\ UNCHANGED synced
    <2>1. at[r][1] \in Pipeline!Forward /\ Raised(r)
      BY <1>1, <1>3, <1>4, RaiseFrame DEF Pipeline!Forward, Raised
    <2>2. TypeInv'
      BY <1>3, <1>4, RaiseFrame DEF TypeInv
    <2>3. \A s \in Calibrations \ {r} : Frame(s)
      BY <1>3, <1>4, RaiseFrame DEF Frame, TypeInv
    <2> QED BY <2>1, <2>2, <2>3, RaiseKeeps DEF StepOf
  <1>5. CASE Pipeline!Advance(r) /\ UNCHANGED err /\ synced' = [synced EXCEPT ![r] = @ \cup {f}]
    <2>1. /\ at'[r] = IF f < 3 THEN <<"fill", f + 1>> ELSE <<"recheck", 0>>
          /\ at' \in [Calibrations -> Places]
               /\ synced' \in [Calibrations -> SUBSET Pipeline!Files]
          /\ \A s \in Calibrations \ {r} : at'[s] = at[s] /\ synced'[s] = synced[s]
          /\ synced'[r] = synced[r] \cup {f}
      BY <1>1, <1>2, <1>5 DEF Pipeline!Advance, TypeInv
    <2>2. TypeInv'
      BY <1>3, <1>5, <2>1 DEF TypeInv
    <2>3. \A s \in Calibrations \ {r} : Frame(s)
      BY <1>3, <1>5, <2>1 DEF Frame, TypeInv
    <2>4. OwnInv(r)'
      BY <1>1, <1>3, <2>1 DEF OwnInv, Dirs, Reserved, Pipeline!Forward, Pipeline!Receipt
    <2>5. InputInv(r)'
      BY <1>1, <1>3, <2>1 DEF InputInv, Rechecked, Pipeline!Receipt
    <2>6. ReceiptInv(r)'
      BY <1>1, <1>3, <2>1 DEF ReceiptInv, Dirs, Finished, Pipeline!Cleanup, Pipeline!Ended,
                              Pipeline!Receipt
    <2>7. ForwardInv(r)'
      BY <1>1, <1>3, <2>1 DEF ForwardInv, Rechecked, Linked, Cleared, Written, Confirmed,
                              Finished, Pipeline!Receipt, Pipeline!Outputs
    <2>8. CleanupInv(r)'
      BY <2>1 DEF CleanupInv
    <2> QED BY <2>2, <2>3, <2>4, <2>5, <2>6, <2>7, <2>8 DEF StepOf
  <1> QED BY <1>4, <1>5 DEF Pipeline!Hold

LEMMA RecheckStep ==
  ASSUME TypeInv, NEW r \in Calibrations, RunInv(r), Pipeline!Recheck(r)
  PROVE  StepOf(r)
  <1> USE DEF RunInv
  <1>1. at[r] = <<"recheck", 0>>
    <2>1. at[r][1] = "recheck" /\ at[r] \in Places
      BY DEF Pipeline!Recheck, TypeInv
    <2> QED BY <2>1 DEF Places, Pipeline!Ended
  <1>2. Pipeline!Following("recheck", 0) = <<"link", 1>> /\ <<"link", 1>> \in Places
    BY DEF Pipeline!Following, Places, Pipeline!Files, Pipeline!Outputs
  <1>3. UNCHANGED <<Pipeline!disk, version, seen, used, owned, installed, faults>>
    BY DEF Pipeline!Recheck
  <1>4. CASE Pipeline!Raise(r)
    <2>1. at[r][1] \in Pipeline!Forward /\ Raised(r)
      BY <1>1, <1>3, <1>4, RaiseFrame DEF Pipeline!Forward, Raised, Pipeline!disk
    <2>2. TypeInv'
      BY <1>3, <1>4, RaiseFrame DEF TypeInv, Pipeline!disk
    <2>3. \A s \in Calibrations \ {r} : Frame(s)
      BY <1>3, <1>4, RaiseFrame DEF Frame, TypeInv, Pipeline!disk
    <2> QED BY <2>1, <2>2, <2>3, RaiseKeeps DEF StepOf
  <1>5. CASE Pipeline!Advance(r) /\ UNCHANGED err /\ version = seen[r]
    <2>1. /\ at'[r] = <<"link", 1>> /\ at' \in [Calibrations -> Places]
          /\ \A s \in Calibrations \ {r} : at'[s] = at[s]
      <3>1. at' = [at EXCEPT ![r] = <<"link", 1>>]
        <4>1. Pipeline!Following(at[r][1], at[r][2]) = <<"link", 1>>
          BY <1>1, <1>2
        <4> QED BY <1>5, <4>1 DEF Pipeline!Advance
      <3> QED BY <1>2, <3>1, AdvanceTo
    <2>2. TypeInv'
      BY <1>3, <1>5, <2>1 DEF TypeInv, Pipeline!disk
    <2>3. \A s \in Calibrations \ {r} : Frame(s)
      BY <1>3, <1>5, <2>1 DEF Frame, TypeInv, Pipeline!disk
    <2>4. OwnInv(r)'
      BY <1>1, <1>3, <2>1 DEF OwnInv, Dirs, Reserved, Pipeline!Forward, Pipeline!Receipt,
                              Pipeline!disk
    <2>5. InputInv(r)'
      <3>1. used[r] \subseteq Pipeline!Inputs \X (0 .. MaxFaults)
              /\ \A i \in Pipeline!Inputs : version[i] \in Nat
        BY DEF TypeInv
      <3>2. \A u \in used[r] : seen[r][u[1]] = u[2]
        BY <1>1, <1>5, <3>1 DEF InputInv, Rechecked
      <3> QED BY <1>1, <1>3, <2>1, <3>2 DEF InputInv, Rechecked, Truthful
    <2>6. ReceiptInv(r)'
      BY <1>1, <1>3, <2>1 DEF ReceiptInv, Dirs, Finished, Pipeline!Cleanup, Pipeline!Ended,
                              Pipeline!Receipt, Pipeline!disk
    <2>7. ForwardInv(r)'
      BY <1>1, <1>3, <2>1 DEF ForwardInv, Rechecked, Linked, Cleared, Written, Confirmed,
                              Finished, Pipeline!Receipt, Pipeline!disk
    <2>8. CleanupInv(r)'
      BY <2>1 DEF CleanupInv
    <2> QED BY <2>2, <2>3, <2>4, <2>5, <2>6, <2>7, <2>8 DEF StepOf
  <1> QED BY <1>4, <1>5 DEF Pipeline!Recheck

LEMMA LinkStep ==
  ASSUME TypeInv, NEW r \in Calibrations, RunInv(r), NEW f \in Pipeline!Files, Pipeline!Link(r, f)
  PROVE  StepOf(r)
  <1> USE DEF RunInv
  <1>1. /\ at[r] = <<"link", f>> /\ f \in 1 .. 4
        /\ Pipeline!Following("link", f) = <<"track", f>> /\ <<"track", f>> \in Places
    BY DEF Pipeline!Link, Pipeline!Following, Places, Pipeline!Files, Pipeline!Outputs,
           Pipeline!Receipt
  <1>2. UNCHANGED <<durable, data, synced, public, version, seen, used, owned, installed, faults>>
    BY DEF Pipeline!Link
  <1>3. CASE Pipeline!Raise(r) /\ UNCHANGED view
    <2>1. at[r][1] \in Pipeline!Forward /\ Raised(r)
      BY <1>1, <1>2, <1>3, RaiseFrame DEF Pipeline!Forward, Raised
    <2>2. TypeInv'
      BY <1>2, <1>3, RaiseFrame DEF TypeInv
    <2>3. \A s \in Calibrations \ {r} : Frame(s)
      BY <1>2, <1>3, RaiseFrame DEF Frame, TypeInv
    <2> QED BY <2>1, <2>2, <2>3, RaiseKeeps DEF StepOf
  <1>4. CASE view.dest[f] = Free /\ Pipeline!SetDest(f, r) /\ Pipeline!Advance(r) /\ UNCHANGED err
    <2>1. /\ at'[r] = <<"track", f>> /\ at' \in [Calibrations -> Places]
          /\ \A s \in Calibrations \ {r} : at'[s] = at[s]
      <3>1. at' = [at EXCEPT ![r] = <<"track", f>>]
        <4>1. Pipeline!Following(at[r][1], at[r][2]) = <<"track", f>>
          BY <1>1
        <4> QED BY <1>4, <4>1 DEF Pipeline!Advance
      <3> QED BY <1>1, <3>1, AdvanceTo
    <2>2. /\ view' \in Disks /\ view'.temp = view.temp /\ view'.dest[f] = r
          /\ \A g \in Pipeline!Files \ {f} : view'.dest[g] = view.dest[g]
      BY <1>4, DestSet DEF TypeInv
    <2>3. TypeInv'
      BY <1>2, <1>4, <2>1, <2>2 DEF TypeInv
    <2>4. \A s \in Calibrations \ {r} : Frame(s)
      <3>1. \A i \in Pipeline!Inputs : version[i] \in Nat /\ version[i] <= version[i]
        BY DEF TypeInv
      <3>2. \A s \in Calibrations \ {r},
              g \in Pipeline!Files : view'.dest[g] = s <=> view.dest[g] = s
        BY <1>4, <2>2 DEF TypeInv, Pipeline!PipelineAssumption
      <3> QED BY <1>2, <1>4, <2>1, <2>2, <3>1, <3>2 DEF Frame
    <2>5. OwnInv(r)'
      BY <1>1, <1>2, <2>1, <2>2 DEF OwnInv, Dirs, Reserved, Pipeline!Forward, Pipeline!Files,
                                    Pipeline!Outputs, Pipeline!Receipt
    <2>6. InputInv(r)'
      BY <1>1, <1>2, <2>1 DEF InputInv, Rechecked, Pipeline!Receipt, Truthful
    <2>7. ReceiptInv(r)'
      <3>1. CASE f = 4
        BY <1>1, <1>2, <2>1, <2>2, <3>1 DEF ReceiptInv, InputInv, ForwardInv, Dirs, Finished,
                                            Pipeline!Cleanup, Pipeline!Ended, Rechecked,
                                            Written, Confirmed, Linked, Pipeline!Good,
                                            Truthful, Pipeline!Files, Pipeline!Outputs,
                                            Pipeline!Receipt
      <3>2. CASE f # 4
        BY <1>1, <1>2, <2>1, <2>2, <3>2 DEF ReceiptInv, Dirs, Finished, Pipeline!Cleanup,
                                            Pipeline!Ended, Truthful, Pipeline!Files,
                                            Pipeline!Outputs, Pipeline!Receipt
      <3> QED BY <3>1, <3>2
    <2>8. ForwardInv(r)'
      BY <1>1, <1>2, <2>1, <2>2 DEF ForwardInv, Rechecked, Linked, Cleared, Written,
                                    Confirmed, Finished, Pipeline!Good, Pipeline!Receipt,
                                    Pipeline!Files, Pipeline!Outputs
    <2>9. CleanupInv(r)'
      BY <2>1 DEF CleanupInv
    <2> QED BY <2>3, <2>4, <2>5, <2>6, <2>7, <2>8, <2>9 DEF StepOf
  <1> QED BY <1>3, <1>4 DEF Pipeline!Link

LEMMA TrackStep ==
  ASSUME TypeInv, NEW r \in Calibrations, RunInv(r), NEW f \in Pipeline!Files,
           Pipeline!Track(r, f)
  PROVE  StepOf(r)
  <1> USE DEF RunInv
  <1>1. /\ at[r] = <<"track", f>> /\ f \in 1 .. 4 /\ at' \in [Calibrations -> Places]
        /\ at'[r] = IF f < 3 THEN <<"link", f + 1>>
                    ELSE <<"readable", IF f = 3 THEN 1 ELSE Pipeline!Receipt>>
        /\ \A s \in Calibrations \ {r} : at'[s] = at[s]
        /\ UNCHANGED <<Pipeline!disk, version, seen, used, owned, err, faults>>
        /\ installed' \in [Calibrations -> SUBSET Pipeline!Files]
    BY DEF Pipeline!Track, Pipeline!Advance, Pipeline!Following, TypeInv, Places,
           Pipeline!Files, Pipeline!Outputs, Pipeline!Receipt
  <1>2. TypeInv'
    BY <1>1 DEF TypeInv, Pipeline!disk
  <1>3. \A s \in Calibrations \ {r} : Frame(s)
    BY <1>1 DEF Frame, TypeInv, Pipeline!disk
  <1>4. OwnInv(r)'
    BY <1>1 DEF OwnInv, Dirs, Reserved, Pipeline!Forward, Pipeline!Receipt, Pipeline!disk
  <1>5. InputInv(r)'
    BY <1>1 DEF InputInv, Rechecked, Pipeline!Receipt, Truthful
  <1>6. ReceiptInv(r)'
    BY <1>1 DEF ReceiptInv, Dirs, Finished, Pipeline!Cleanup, Pipeline!Ended,
                Pipeline!Receipt, Truthful, Pipeline!Files, Pipeline!Outputs, Pipeline!disk
  <1>7. ForwardInv(r)'
    BY <1>1 DEF ForwardInv, Rechecked, Linked, Cleared, Written, Confirmed, Finished,
                Pipeline!Good, Pipeline!Receipt, Pipeline!Files, Pipeline!Outputs,
                Pipeline!disk
  <1>8. CleanupInv(r)'
    BY <1>1 DEF CleanupInv
  <1> QED BY <1>2, <1>3, <1>4, <1>5, <1>6, <1>7, <1>8 DEF StepOf

LEMMA MakeReadableStep ==
  ASSUME TypeInv, NEW r \in Calibrations, RunInv(r), NEW f \in Pipeline!Files,
           Pipeline!MakeReadable(r, f)
  PROVE  StepOf(r)
  <1> USE DEF RunInv
  <1>1. /\ at[r] = <<"readable", f>> /\ f \in 1 .. 4 /\ at' \in [Calibrations -> Places]
        /\ at'[r] = IF f < 3 THEN <<"readable", f + 1>>
                    ELSE IF f = 3 THEN <<"clean", 3>> ELSE <<"inspect", Pipeline!Receipt>>
        /\ \A s \in Calibrations \ {r} : at'[s] = at[s]
    BY DEF Pipeline!MakeReadable, Pipeline!Advance, Pipeline!Following, TypeInv, Places,
           Pipeline!Files, Pipeline!Outputs, Pipeline!Receipt
  <1>2. /\ UNCHANGED <<view, durable, data, synced, version, Pipeline!local, faults>>
        /\ public' \in [Calibrations -> SUBSET Pipeline!Files] /\ public'[r] = public[r] \cup {f}
        /\ \A s \in Calibrations \ {r} : public'[s] = public[s]
    BY DEF Pipeline!MakeReadable, TypeInv
  <1>3. TypeInv'
    BY <1>1, <1>2 DEF TypeInv, Pipeline!local
  <1>4. \A s \in Calibrations \ {r} : Frame(s)
    BY <1>1, <1>2 DEF Frame, TypeInv, Pipeline!local
  <1>5. OwnInv(r)'
    BY <1>1, <1>2 DEF OwnInv, Dirs, Reserved, Pipeline!Forward, Pipeline!Receipt, Pipeline!local
  <1>6. InputInv(r)'
    BY <1>1, <1>2 DEF InputInv, Rechecked, Pipeline!Receipt, Truthful, Pipeline!local
  <1>7. ReceiptInv(r)'
    BY <1>1, <1>2 DEF ReceiptInv, Dirs, Finished, Pipeline!Cleanup, Pipeline!Ended,
                      Pipeline!Receipt, Truthful, Pipeline!Files, Pipeline!Outputs,
                      Pipeline!local
  <1>8. ForwardInv(r)'
    BY <1>1, <1>2 DEF ForwardInv, Rechecked, Linked, Cleared, Written, Confirmed, Finished,
                      Pipeline!Good, Pipeline!Receipt, Pipeline!Files, Pipeline!Outputs,
                      Pipeline!local
  <1>9. CleanupInv(r)'
    BY <1>1 DEF CleanupInv
  <1> QED BY <1>3, <1>4, <1>5, <1>6, <1>7, <1>8, <1>9 DEF StepOf

(* The exception handler after a step that has done nothing else to the    *)
(* run.                                                                    *)
LEMMA RaiseStep ==
  ASSUME TypeInv, NEW r \in Calibrations, RunInv(r), at[r][1] \in Pipeline!Forward,
           Pipeline!Raise(r),
         faults' \in 0 .. MaxFaults, faults <= faults', durable' \in {durable, view},
         UNCHANGED <<view, data, synced, public, version, seen, used, owned, installed>>
  PROVE  StepOf(r)
  <1>1. Raised(r)
    BY RaiseFrame DEF Raised
  <1>2. TypeInv'
    BY RaiseFrame DEF TypeInv
  <1>3. \A s \in Calibrations \ {r} : Frame(s)
    BY RaiseFrame DEF Frame, TypeInv
  <1> QED BY <1>1, <1>2, <1>3, RaiseKeeps DEF StepOf

(* What happened to faults.                                                *)
LEMMA FaultCount ==
  ASSUME TypeInv, Pipeline!Fault \/ Pipeline!NoFault
  PROVE  faults' \in 0 .. MaxFaults /\ faults <= faults'
  BY DEF Pipeline!Fault, Pipeline!NoFault, TypeInv, Pipeline!PipelineAssumption

(* _unlink_if_identity has removed the temporary or has recorded why not.  *)
LEMMA TempRemoved ==
  ASSUME TypeInv, NEW r \in Calibrations, NEW f \in Pipeline!Files, Pipeline!RemoveTemp(r, f)
  PROVE  /\ view' \in Disks /\ view'.dest = view.dest
         /\ \A g \in Pipeline!Files \ {f} : view'.temp[r][g] = view.temp[r][g]
         /\ \A s \in Calibrations \ {r} : view'.temp[s] = view.temp[s] /\ err'[s] = err[s]
         /\ view'.temp[r][f] \in {view.temp[r][f], "none"}
         /\ err' \in [Calibrations -> BOOLEAN]
         /\ ~err'[r] => ~err[r] /\ view'.temp[r][f] = "none"
         /\ faults' \in 0 .. MaxFaults /\ faults <= faults'
  <1>1. view \in Disks /\ err \in [Calibrations -> BOOLEAN]
    BY DEF TypeInv
  <1>2. faults' \in 0 .. MaxFaults /\ faults <= faults'
    BY FaultCount DEF Pipeline!RemoveTemp
  <1>3. CASE Pipeline!SetTemp(r, f, "none") /\ UNCHANGED err
    BY <1>1, <1>2, <1>3, TempSet
  <1>4. CASE err' = [err EXCEPT ![r] = TRUE] /\ UNCHANGED view
    BY <1>1, <1>2, <1>4
  <1>5. CASE view.temp[r][f] = "none" /\ UNCHANGED <<view, err>>
    BY <1>1, <1>2, <1>5
  <1> QED BY <1>3, <1>4, <1>5 DEF Pipeline!RemoveTemp

LEMMA CleanStep ==
  ASSUME TypeInv, NEW r \in Calibrations, RunInv(r), NEW f \in Pipeline!Files,
           Pipeline!Clean(r, f)
  PROVE  StepOf(r)
  <1> USE DEF RunInv
  <1>1. /\ at[r] = <<"clean", f>> /\ f \in 1 .. 4 /\ at' \in [Calibrations -> Places]
        /\ at'[r] = IF f \in {2, 3} THEN <<"clean", f - 1>>
                    ELSE <<"cleaned", IF f = 1 THEN 3 ELSE Pipeline!Receipt>>
        /\ \A s \in Calibrations \ {r} : at'[s] = at[s]
        /\ UNCHANGED <<durable, data, synced, public, version, seen, used, owned, installed>>
    BY DEF Pipeline!Clean, Pipeline!Advance, Pipeline!Following, TypeInv, Places,
           Pipeline!Files, Pipeline!Outputs, Pipeline!Receipt
  <1>2. /\ view' \in Disks /\ view'.dest = view.dest
        /\ \A g \in Pipeline!Files \ {f} : view'.temp[r][g] = view.temp[r][g]
        /\ \A s \in Calibrations \ {r} : view'.temp[s] = view.temp[s] /\ err'[s] = err[s]
        /\ view'.temp[r][f] \in {view.temp[r][f], "none"}
        /\ err' \in [Calibrations -> BOOLEAN]
        /\ ~err'[r] => ~err[r] /\ view'.temp[r][f] = "none"
        /\ faults' \in 0 .. MaxFaults /\ faults <= faults'
    BY TempRemoved DEF Pipeline!Clean
  <1>3. TypeInv'
    BY <1>1, <1>2 DEF TypeInv
  <1>4. \A s \in Calibrations \ {r} : Frame(s)
    BY <1>1, <1>2 DEF Frame, TypeInv
  <1>5. OwnInv(r)'
    BY <1>1, <1>2 DEF OwnInv, Dirs, Reserved, Pipeline!Forward, Pipeline!Receipt
  <1>6. InputInv(r)'
    BY <1>1 DEF InputInv, Rechecked, Pipeline!Receipt, Truthful
  <1>7. ReceiptInv(r)'
    BY <1>1, <1>2 DEF ReceiptInv, Dirs, Finished, Pipeline!Cleanup, Pipeline!Ended,
                      Pipeline!Receipt, Truthful, Pipeline!Files, Pipeline!Outputs
  <1>8. ForwardInv(r)'
    BY <1>1, <1>2 DEF ForwardInv, Rechecked, Linked, Cleared, Written, Confirmed, Finished,
                      Pipeline!Good, Pipeline!Receipt, Pipeline!Files, Pipeline!Outputs
  <1>9. CleanupInv(r)'
    BY <1>1 DEF CleanupInv
  <1> QED BY <1>3, <1>4, <1>5, <1>6, <1>7, <1>8, <1>9 DEF StepOf

LEMMA CleanedStep ==
  ASSUME TypeInv, NEW r \in Calibrations, RunInv(r), Pipeline!Cleaned(r)
  PROVE  StepOf(r)
  <1> USE DEF RunInv
  <1>1. at[r] \in {<<"cleaned", 3>>, <<"cleaned", 4>>}
    <2>1. at[r][1] = "cleaned" /\ at[r] \in Places
      BY DEF Pipeline!Cleaned, TypeInv
    <2> QED BY <2>1 DEF Places, Pipeline!Ended, Pipeline!Receipt
  <1>2. UNCHANGED <<view, data, synced, public, version, seen, used, owned, installed>>
    BY DEF Pipeline!Cleaned
  <1>3. CASE Pipeline!Raise(r)
    <2>1. at[r][1] \in Pipeline!Forward
      BY <1>1 DEF Pipeline!Forward
    <2>2. faults' \in 0 .. MaxFaults /\ faults <= faults' /\ durable' \in {durable, view}
      BY FaultCount DEF Pipeline!Cleaned
    <2> QED BY <1>2, <1>3, <2>1, <2>2, RaiseStep
  <1>4. CASE durable' = view /\ Pipeline!NoFault /\ ~err[r] /\ Pipeline!Advance(r)
               /\ UNCHANGED err
    <2> DEFINE p == IF at[r][2] = 3 THEN <<"verify", 1>> ELSE <<"done", 0>>
    <2>1. p \in Places /\ Pipeline!Following(at[r][1], at[r][2]) = p
      BY <1>1 DEF Pipeline!Following, Places, Pipeline!Ended, Pipeline!Outputs
    <2>2. at' \in [Calibrations -> Places] /\ at'[r] = p
            /\ \A s \in Calibrations \ {r} : at'[s] = at[s]
      <3>1. at' = [at EXCEPT ![r] = p]
        BY <1>4, <2>1 DEF Pipeline!Advance
      <3> HIDE DEF p
      <3> QED BY <2>1, <3>1, AdvanceTo
    <2>3. TypeInv'
      BY <1>2, <1>4, <2>2 DEF TypeInv, Pipeline!NoFault
    <2>4. \A s \in Calibrations \ {r} : Frame(s)
      BY <1>2, <1>4, <2>2 DEF Frame, TypeInv
    <2>5. OwnInv(r)'
      BY <1>1, <1>2, <1>4, <2>2 DEF OwnInv, Dirs, Reserved, Pipeline!Forward, Pipeline!Receipt
    <2>6. InputInv(r)'
      BY <1>1, <1>2, <2>2 DEF InputInv, Rechecked, Pipeline!Receipt, Truthful
    <2>7. ReceiptInv(r)'
      BY <1>1, <1>2, <1>4, <2>2 DEF ReceiptInv, Dirs, Finished, Pipeline!Cleanup,
                                    Pipeline!Ended, Pipeline!Receipt, Truthful
    <2>8. ForwardInv(r)'
      BY <1>1, <1>2, <1>4, <2>2 DEF ForwardInv, Rechecked, Linked, Cleared, Written,
                                    Confirmed, Finished, Pipeline!Good, Pipeline!Receipt,
                                    Pipeline!Files, Pipeline!Outputs
    <2>9. CleanupInv(r)'
      BY <1>1, <1>2, <1>4, <2>2 DEF CleanupInv, ForwardInv, Rechecked, Linked, Finished,
                                    Written, Dirs, Pipeline!Receipt, Pipeline!Files,
                                    Pipeline!Outputs
    <2> QED BY <2>3, <2>4, <2>5, <2>6, <2>7, <2>8, <2>9 DEF StepOf
  <1> QED BY <1>3, <1>4 DEF Pipeline!Cleaned

LEMMA VerifyStep ==
  ASSUME TypeInv, NEW r \in Calibrations, RunInv(r), NEW f \in Pipeline!Files,
           Pipeline!Verify(r, f)
  PROVE  StepOf(r)
  <1> USE DEF RunInv
  <1>1. at[r] \in ({"verify", "confirm"} \X (1 .. 3)) \cup {<<"inspect", 4>>} /\ at[r][2] = f
    <2>1. at[r] \in {<<"verify", f>>, <<"confirm", f>>, <<"inspect", f>>} /\ at[r] \in Places
      BY DEF Pipeline!Verify, TypeInv
    <2> QED BY <2>1 DEF Places, Pipeline!Ended, Pipeline!Receipt, Pipeline!Outputs
  <1>2. UNCHANGED <<view, durable, data, synced, public, version, seen, used, owned, installed,
          faults>>
    BY DEF Pipeline!Verify, Pipeline!disk
  <1>3. CASE Pipeline!Raise(r)
    <2>1. at[r][1] \in Pipeline!Forward
      BY <1>1 DEF Pipeline!Forward
    <2>2. faults' \in 0 .. MaxFaults /\ faults <= faults'
      BY <1>2 DEF TypeInv, Pipeline!PipelineAssumption
    <2> QED BY <1>2, <1>3, <2>1, <2>2, RaiseStep
  <1>4. CASE Pipeline!Good(r, f) /\ Pipeline!Advance(r) /\ UNCHANGED err
    <2> DEFINE p == IF at[r][1] = "inspect" THEN <<"clean", 4>>
                    ELSE IF f < 3 THEN <<at[r][1], f + 1>>
                    ELSE IF at[r][1] = "verify" THEN <<"temp", 4>> ELSE <<"link", 4>>
    <2>1. p \in Places /\ Pipeline!Following(at[r][1], at[r][2]) = p
      BY <1>1 DEF Pipeline!Following, Places, Pipeline!Files, Pipeline!Outputs, Pipeline!Receipt
    <2>2. at' \in [Calibrations -> Places] /\ at'[r] = p
            /\ \A s \in Calibrations \ {r} : at'[s] = at[s]
      <3>1. at' = [at EXCEPT ![r] = p]
        BY <1>4, <2>1 DEF Pipeline!Advance
      <3> HIDE DEF p
      <3> QED BY <2>1, <3>1, AdvanceTo
    <2>3. TypeInv'
      BY <1>2, <1>4, <2>2 DEF TypeInv
    <2>4. \A s \in Calibrations \ {r} : Frame(s)
      BY <1>2, <1>4, <2>2 DEF Frame, TypeInv
    <2>5. OwnInv(r)'
      BY <1>1, <1>2, <2>2 DEF OwnInv, Dirs, Reserved, Pipeline!Forward, Pipeline!Receipt,
                              Pipeline!Outputs
    <2>6. InputInv(r)'
      BY <1>1, <1>2, <2>2 DEF InputInv, Rechecked, Pipeline!Receipt, Truthful
    <2>7. ReceiptInv(r)'
      BY <1>1, <1>2, <2>2 DEF ReceiptInv, Dirs, Finished, Pipeline!Cleanup, Pipeline!Ended,
                              Pipeline!Receipt, Truthful
    <2>8. ForwardInv(r)'
      <3>1. at[r][1] = "confirm" => \A g \in 1 .. f : Pipeline!Good(r, g)
        BY <1>1, <1>4 DEF ForwardInv
      <3>2. \A g \in Pipeline!Files : Pipeline!Good(r, g)' <=> Pipeline!Good(r, g)
        BY <1>2 DEF Pipeline!Good
      <3> QED BY <1>1, <1>2, <1>4, <2>2, <3>1, <3>2
         DEF ForwardInv, Rechecked, Linked, Cleared, Written, Confirmed, Finished,
             Pipeline!Receipt, Pipeline!Files, Pipeline!Outputs
    <2>9. CleanupInv(r)'
      BY <1>1, <2>2 DEF CleanupInv
    <2> QED BY <2>3, <2>4, <2>5, <2>6, <2>7, <2>8, <2>9 DEF StepOf
  <1> QED BY <1>3, <1>4 DEF Pipeline!Verify

LEMMA FailingStep ==
  ASSUME TypeInv, NEW r \in Calibrations, RunInv(r), Pipeline!FailStep(r)
  PROVE  StepOf(r)
  <1>1. at[r][1] \in Pipeline!Forward /\ Pipeline!Raise(r) /\ Pipeline!Fault
    BY DEF Pipeline!FailStep, Pipeline!Forward
  <1> QED BY <1>1, FaultCount, RaiseStep DEF Pipeline!FailStep, Pipeline!disk

(* A run that stops where it is.                                           *)
LEMMA StopStep ==
  ASSUME TypeInv, NEW r \in Calibrations, RunInv(r), at[r][1] \notin Pipeline!Ended,
         NEW x \in {"broken", "dead"}, Pipeline!Goto(r, x, 0), Pipeline!Fault,
           UNCHANGED <<Pipeline!disk, version, Pipeline!local>>
  PROVE  StepOf(r)
  <1> USE DEF RunInv
  <1>1. at' \in [Calibrations -> Places] /\ at'[r] = <<x, 0>>
          /\ \A s \in Calibrations \ {r} : at'[s] = at[s]
    <2>1. <<x, 0>> \in Places
      BY DEF Places, Pipeline!Ended
    <2> QED BY <2>1, AdvanceTo DEF Pipeline!Goto
  <1>2. faults' \in 0 .. MaxFaults /\ faults <= faults'
    BY FaultCount
  <1>3. TypeInv'
    BY <1>1, <1>2 DEF TypeInv, Pipeline!disk, Pipeline!local
  <1>4. \A s \in Calibrations \ {r} : Frame(s)
    BY <1>1 DEF Frame, TypeInv, Pipeline!disk, Pipeline!local
  <1>5. OwnInv(r)'
    BY <1>1 DEF OwnInv, Dirs, Reserved, Pipeline!Forward, Pipeline!disk, Pipeline!local
  <1>6. InputInv(r)'
    BY <1>1 DEF InputInv, Rechecked, Pipeline!local
  <1>7. ReceiptInv(r)'
    BY <1>1 DEF ReceiptInv, Dirs, Finished, Pipeline!Cleanup, Pipeline!Ended, Truthful,
                Pipeline!disk, Pipeline!local
  <1>8. ForwardInv(r)'
    BY <1>1 DEF ForwardInv, Rechecked, Linked, Cleared, Written, Confirmed, Finished
  <1>9. CleanupInv(r)'
    BY <1>1 DEF CleanupInv
  <1> QED BY <1>3, <1>4, <1>5, <1>6, <1>7, <1>8, <1>9 DEF StepOf

LEMMA InterruptStep ==
  ASSUME TypeInv, NEW r \in Calibrations, RunInv(r), Pipeline!Interrupt(r)
  PROVE  StepOf(r)
  <1>1. CASE at[r][1] \in Pipeline!Forward /\ Pipeline!Raise(r)
    BY <1>1, FaultCount, RaiseStep DEF Pipeline!Interrupt, Pipeline!disk
  <1>2. CASE at[r][1] \in Pipeline!Cleanup /\ Pipeline!Goto(r, "broken", 0) /\ UNCHANGED err
    <2>1. at[r][1] \notin Pipeline!Ended
      BY <1>2 DEF Pipeline!Cleanup, Pipeline!Ended
    <2> QED BY <1>2, <2>1, StopStep DEF Pipeline!Interrupt, Pipeline!local
  <1> QED BY <1>1, <1>2 DEF Pipeline!Interrupt

LEMMA KillStep ==
  ASSUME TypeInv, NEW r \in Calibrations, RunInv(r), Pipeline!Kill(r)
  PROVE  StepOf(r)
  BY StopStep DEF Pipeline!Kill

LEMMA RollbackStep ==
  ASSUME TypeInv, NEW r \in Calibrations, RunInv(r), NEW f \in Pipeline!Files,
           Pipeline!Rollback(r, f)
  PROVE  StepOf(r)
  <1> USE DEF RunInv
  <1>1. /\ at[r] = <<"rollback", f>> /\ f \in 1 .. 4 /\ at' \in [Calibrations -> Places]
        /\ at'[r] = IF f > 1 THEN <<"rollback", f - 1>> ELSE <<"rolled", 0>>
        /\ \A s \in Calibrations \ {r} : at'[s] = at[s]
        /\ UNCHANGED <<durable, data, synced, public, version, seen, used, owned, installed>>
    BY DEF Pipeline!Rollback, Pipeline!Advance, Pipeline!Following, TypeInv, Places,
           Pipeline!Files, Pipeline!Outputs, Pipeline!Receipt
  <1>2. /\ view' \in Disks /\ view'.temp = view.temp
        /\ \A g \in Pipeline!Files \ {f} : view'.dest[g] = view.dest[g]
        /\ view'.dest[f] = view.dest[f] \/ (view.dest[f] = r /\ view'.dest[f] = Free)
        /\ err' \in [Calibrations -> BOOLEAN] /\ \A s \in Calibrations \ {r} : err'[s] = err[s]
        /\ ~err'[r] => ~err[r] /\ view'.dest[f] # r
    <2>1. view \in Disks /\ err \in [Calibrations -> BOOLEAN] /\ Free \notin Calibrations
      BY DEF TypeInv, Pipeline!PipelineAssumption
    <2>2. CASE view.dest[f] = r /\ Pipeline!SetDest(f, Free) /\ UNCHANGED err
      <3>1. /\ view' \in Disks /\ view'.temp = view.temp /\ view'.dest[f] = Free
            /\ \A g \in Pipeline!Files \ {f} : view'.dest[g] = view.dest[g]
        BY <2>1, <2>2, DestSet
      <3> QED BY <2>1, <2>2, <3>1
    <2>3. CASE err' = [err EXCEPT ![r] = TRUE] /\ UNCHANGED view
      BY <2>1, <2>3
    <2>4. CASE ~(f \in owned[r] \cup installed[r] /\ view.dest[f] = r) /\ UNCHANGED <<view, err>>
      BY <2>1, <2>4 DEF OwnInv, Dirs
    <2> QED BY <2>2, <2>3, <2>4 DEF Pipeline!Rollback
  <1>3. faults' \in 0 .. MaxFaults /\ faults <= faults'
    BY FaultCount DEF Pipeline!Rollback
  <1>4. TypeInv'
    BY <1>1, <1>2, <1>3 DEF TypeInv
  <1>5. \A s \in Calibrations \ {r} : Frame(s)
    <2>1. \A i \in Pipeline!Inputs : version[i] \in Nat /\ version[i] <= version[i]
      BY DEF TypeInv
    <2>2. \A s \in Calibrations \ {r},
            g \in Pipeline!Files : view'.dest[g] = s <=> view.dest[g] = s
      BY <1>2 DEF TypeInv, Pipeline!PipelineAssumption
    <2> QED BY <1>1, <1>2, <2>1, <2>2 DEF Frame
  <1>6. OwnInv(r)'
    <2>1. \A g \in Pipeline!Files : view'.dest[g] = r => view.dest[g] = r
      BY <1>2 DEF TypeInv, Pipeline!PipelineAssumption
    <2> QED BY <1>1, <1>2, <2>1 DEF OwnInv, Dirs, Reserved, Pipeline!Forward
  <1>7. InputInv(r)'
    BY <1>1 DEF InputInv, Rechecked
  <1>8. ReceiptInv(r)'
    <2>1. at'[r][1] \in Pipeline!Cleanup
      BY <1>1 DEF Pipeline!Cleanup
    <2>2. view'.dest[Pipeline!Receipt] = r => view.dest[Pipeline!Receipt] = r
      BY <1>2 DEF Pipeline!Files, Pipeline!Receipt, TypeInv, Pipeline!PipelineAssumption
    <2>3. view'.dest[Pipeline!Receipt] = r
            => err'[r] \/ \A g \in Pipeline!Outputs : view'.dest[g] = r
      <3>1. CASE f = 4
        BY <1>1, <1>2, <2>2, <3>1 DEF ReceiptInv, Dirs, Pipeline!Outputs, Pipeline!Files,
                                      Pipeline!Receipt
      <3>2. CASE f # 4
        BY <1>1, <1>2, <2>2, <3>2 DEF CleanupInv, Pipeline!Receipt
      <3> QED BY <3>1, <3>2
    <2>4. err[r] => err'[r]
      BY <1>2
    <2> QED BY <1>1, <2>1, <2>2, <2>3, <2>4 DEF ReceiptInv, Dirs, Truthful
  <1>9. ForwardInv(r)'
    BY <1>1 DEF ForwardInv, Rechecked, Linked, Cleared, Written, Confirmed, Finished
  <1>10. CleanupInv(r)'
    BY <1>1, <1>2 DEF CleanupInv, Pipeline!Files, Pipeline!Outputs, Pipeline!Receipt
  <1> QED BY <1>4, <1>5, <1>6, <1>7, <1>8, <1>9, <1>10 DEF StepOf

(* _fsync_directory has made the directories durable, or its failure is    *)
(* recorded.                                                               *)
LEMMA ParentsSynced ==
  ASSUME TypeInv, NEW r \in Calibrations, Pipeline!SyncParents(r)
  PROVE  /\ durable' \in {durable, view} /\ (~err'[r] => ~err[r] /\ durable' = view)
         /\ err' \in [Calibrations -> BOOLEAN] /\ \A s \in Calibrations \ {r} : err'[s] = err[s]
         /\ faults' \in 0 .. MaxFaults /\ faults <= faults'
  <1>1. faults' \in 0 .. MaxFaults /\ faults <= faults'
    BY FaultCount DEF Pipeline!SyncParents
  <1>2. err \in [Calibrations -> BOOLEAN]
    BY DEF TypeInv
  <1>3. CASE durable' = view /\ UNCHANGED err
    BY <1>1, <1>2, <1>3
  <1>4. CASE err' = [err EXCEPT ![r] = TRUE] /\ UNCHANGED durable
    BY <1>1, <1>2, <1>4
  <1> QED BY <1>3, <1>4 DEF Pipeline!SyncParents

LEMMA RolledBackStep ==
  ASSUME TypeInv, NEW r \in Calibrations, RunInv(r), Pipeline!RolledBack(r)
  PROVE  StepOf(r)
  <1> USE DEF RunInv
  <1>1. at[r] = <<"rolled", 0>>
    <2>1. at[r][1] = "rolled" /\ at[r] \in Places
      BY DEF Pipeline!RolledBack, TypeInv
    <2> QED BY <2>1 DEF Places, Pipeline!Ended
  <1>2. at' \in [Calibrations -> Places] /\ at'[r] = <<"sweep", 4>>
          /\ \A s \in Calibrations \ {r} : at'[s] = at[s]
    <2>1. Pipeline!Following(at[r][1], at[r][2]) = <<"sweep", 4>> /\ <<"sweep", 4>> \in Places
      BY <1>1 DEF Pipeline!Following, Places, Pipeline!Files, Pipeline!Receipt
    <2>2. at' = [at EXCEPT ![r] = <<"sweep", 4>>]
      BY <2>1 DEF Pipeline!RolledBack, Pipeline!Advance
    <2> QED BY <2>1, <2>2, AdvanceTo
  <1>3. /\ durable' \in {durable, view} /\ (~err'[r] => ~err[r] /\ durable' = view)
        /\ err' \in [Calibrations -> BOOLEAN] /\ \A s \in Calibrations \ {r} : err'[s] = err[s]
        /\ faults' \in 0 .. MaxFaults /\ faults <= faults'
    BY ParentsSynced DEF Pipeline!RolledBack
  <1>4. UNCHANGED <<view, data, synced, public, version, seen, used, owned, installed>>
    BY DEF Pipeline!RolledBack
  <1>5. TypeInv'
    BY <1>2, <1>3, <1>4 DEF TypeInv
  <1>6. \A s \in Calibrations \ {r} : Frame(s)
    BY <1>2, <1>3, <1>4 DEF Frame, TypeInv
  <1>7. OwnInv(r)'
    BY <1>2, <1>3, <1>4 DEF OwnInv, Dirs, Reserved, Pipeline!Forward
  <1>8. InputInv(r)'
    BY <1>2, <1>4 DEF InputInv, Rechecked
  <1>9. ReceiptInv(r)'
    BY <1>1, <1>2, <1>3, <1>4 DEF ReceiptInv, Dirs, Finished, Pipeline!Cleanup,
                                  Pipeline!Ended, Truthful
  <1>10. ForwardInv(r)'
    BY <1>2 DEF ForwardInv, Rechecked, Linked, Cleared, Written, Confirmed, Finished
  <1>11. CleanupInv(r)'
    BY <1>1, <1>2, <1>3, <1>4 DEF CleanupInv, Dirs, Pipeline!Receipt
  <1> QED BY <1>5, <1>6, <1>7, <1>8, <1>9, <1>10, <1>11 DEF StepOf

LEMMA SweepStep ==
  ASSUME TypeInv, NEW r \in Calibrations, RunInv(r), NEW f \in Pipeline!Files,
           Pipeline!Sweep(r, f)
  PROVE  StepOf(r)
  <1> USE DEF RunInv
  <1>1. /\ at[r] = <<"sweep", f>> /\ f \in 1 .. 4 /\ at' \in [Calibrations -> Places]
        /\ at'[r] = IF f > 1 THEN <<"sweep", f - 1>> ELSE <<"swept", 0>>
        /\ \A s \in Calibrations \ {r} : at'[s] = at[s]
        /\ UNCHANGED <<durable, data, synced, public, version, seen, used, owned, installed>>
    BY DEF Pipeline!Sweep, Pipeline!Advance, Pipeline!Following, TypeInv, Places,
           Pipeline!Files, Pipeline!Outputs, Pipeline!Receipt
  <1>2. /\ view' \in Disks /\ view'.dest = view.dest
        /\ \A g \in Pipeline!Files \ {f} : view'.temp[r][g] = view.temp[r][g]
        /\ \A s \in Calibrations \ {r} : view'.temp[s] = view.temp[s] /\ err'[s] = err[s]
        /\ view'.temp[r][f] \in {view.temp[r][f], "none"}
        /\ err' \in [Calibrations -> BOOLEAN]
        /\ ~err'[r] => ~err[r] /\ view'.temp[r][f] = "none"
        /\ faults' \in 0 .. MaxFaults /\ faults <= faults'
    <2>1. CASE f \in owned[r]
      BY <2>1, TempRemoved DEF Pipeline!Sweep
    <2>2. CASE f \notin owned[r]
      BY <2>2, FaultCount DEF Pipeline!Sweep, OwnInv, Dirs, TypeInv
    <2> QED BY <2>1, <2>2
  <1>3. TypeInv'
    BY <1>1, <1>2 DEF TypeInv
  <1>4. \A s \in Calibrations \ {r} : Frame(s)
    BY <1>1, <1>2 DEF Frame, TypeInv
  <1>5. OwnInv(r)'
    BY <1>1, <1>2 DEF OwnInv, Dirs, Reserved, Pipeline!Forward
  <1>6. InputInv(r)'
    BY <1>1 DEF InputInv, Rechecked
  <1>7. ReceiptInv(r)'
    BY <1>1, <1>2 DEF ReceiptInv, Dirs, Finished, Pipeline!Cleanup, Pipeline!Ended, Truthful
  <1>8. ForwardInv(r)'
    BY <1>1 DEF ForwardInv, Rechecked, Linked, Cleared, Written, Confirmed, Finished
  <1>9. CleanupInv(r)'
    BY <1>1, <1>2 DEF CleanupInv, Dirs, Pipeline!Files, Pipeline!Outputs, Pipeline!Receipt
  <1> QED BY <1>3, <1>4, <1>5, <1>6, <1>7, <1>8, <1>9 DEF StepOf

LEMMA SweptStep ==
  ASSUME TypeInv, NEW r \in Calibrations, RunInv(r), Pipeline!Swept(r)
  PROVE  StepOf(r)
  <1> USE DEF RunInv
  <1>1. at[r] = <<"swept", 0>>
    <2>1. at[r][1] = "swept" /\ at[r] \in Places
      BY DEF Pipeline!Swept, TypeInv
    <2> QED BY <2>1 DEF Places, Pipeline!Ended
  <1>2. /\ at' \in [Calibrations -> Places] /\ \A s \in Calibrations \ {r} : at'[s] = at[s]
        /\ at'[r] = <<"unclean", 0>> \/ (at'[r] = <<"failed", 0>> /\ ~err'[r])
    <2>1. <<"unclean", 0>> \in Places /\ <<"failed", 0>> \in Places
      BY DEF Places, Pipeline!Ended
    <2>2. CASE err'[r]
      <3>1. at' = [at EXCEPT ![r] = <<"unclean", 0>>]
        BY <2>2 DEF Pipeline!Swept, Pipeline!Goto
      <3> QED BY <2>1, <3>1, AdvanceTo
    <2>3. CASE ~err'[r]
      <3>1. at' = [at EXCEPT ![r] = <<"failed", 0>>]
        BY <2>3 DEF Pipeline!Swept, Pipeline!Goto
      <3> QED BY <2>1, <2>3, <3>1, AdvanceTo
    <2> QED BY <2>2, <2>3
  <1>3. /\ durable' \in {durable, view} /\ (~err'[r] => ~err[r] /\ durable' = view)
        /\ err' \in [Calibrations -> BOOLEAN] /\ \A s \in Calibrations \ {r} : err'[s] = err[s]
        /\ faults' \in 0 .. MaxFaults /\ faults <= faults'
    BY ParentsSynced DEF Pipeline!Swept
  <1>4. UNCHANGED <<view, data, synced, public, version, seen, used, owned, installed>>
    BY DEF Pipeline!Swept
  <1>5. TypeInv'
    BY <1>2, <1>3, <1>4 DEF TypeInv
  <1>6. \A s \in Calibrations \ {r} : Frame(s)
    BY <1>2, <1>3, <1>4 DEF Frame, TypeInv
  <1>7. OwnInv(r)'
    BY <1>2, <1>3, <1>4 DEF OwnInv, Dirs, Reserved, Pipeline!Forward
  <1>8. InputInv(r)'
    BY <1>2, <1>4 DEF InputInv, Rechecked
  <1>9. ReceiptInv(r)'
    BY <1>1, <1>2, <1>3, <1>4 DEF ReceiptInv, Dirs, Finished, Pipeline!Cleanup,
                                  Pipeline!Ended, Truthful
  <1>10. ForwardInv(r)'
    BY <1>2 DEF ForwardInv, Rechecked, Linked, Cleared, Written, Confirmed, Finished
  <1>11. CleanupInv(r)'
    BY <1>1, <1>2, <1>3, <1>4 DEF CleanupInv, Dirs, Pipeline!Receipt, Pipeline!Files,
                                  Pipeline!Outputs
  <1> QED BY <1>5, <1>6, <1>7, <1>8, <1>9, <1>10, <1>11 DEF StepOf

-----------------------------------------------------------------------------
(* The world. *)

LEMMA WorldStep ==
  ASSUME PipelineInv,
         Pipeline!Writeback \/ (\E i \in Pipeline!Inputs : Pipeline!Change(i))
           \/ UNCHANGED Pipeline!vars
  PROVE  PipelineInv'
  <1>1. /\ \A s \in Calibrations : Frame(s)
        /\ TypeInv'
    <2>1. CASE Pipeline!Writeback
      BY <2>1 DEF PipelineInv, Pipeline!Writeback, Frame, TypeInv, Pipeline!local
    <2>2. ASSUME NEW i \in Pipeline!Inputs, Pipeline!Change(i)
          PROVE  (\A s \in Calibrations : Frame(s)) /\ TypeInv'
      <3>1. /\ version' \in [Pipeline!Inputs -> Nat] /\ faults' \in 0 .. MaxFaults
                 /\ faults' = faults + 1
            /\ \A j \in Pipeline!Inputs : version'[j] =
                     IF j = i THEN version[j] + 1 ELSE version[j]
        BY <2>2 DEF PipelineInv, Pipeline!Change, Pipeline!Fault, TypeInv,
                    Pipeline!PipelineAssumption
      <3>2. \A j \in Pipeline!Inputs : /\ version'[j] \in Nat /\ version[j] <= version'[j]
                                       /\ version'[j] <= faults'
        <4>1. faults \in Nat /\ \A j \in Pipeline!Inputs : version[j] \in Nat
                /\ version[j] <= faults
          BY DEF PipelineInv, TypeInv, Pipeline!PipelineAssumption
        <4> QED BY <3>1, <4>1
      <3> QED BY <2>2, <3>1, <3>2 DEF PipelineInv, Pipeline!Change, Frame, TypeInv,
                                      Pipeline!disk, Pipeline!local
    <2>3. CASE UNCHANGED Pipeline!vars
      BY <2>3 DEF PipelineInv, Pipeline!vars, Pipeline!disk, Pipeline!local, Frame, TypeInv
    <2> QED BY <2>1, <2>2, <2>3
  <1> QED BY <1>1, FrameKeeps DEF PipelineInv

(* What a power loss leaves of a run is what was durable.                  *)
LEMMA PowerLossStep ==
  ASSUME PipelineInv, Pipeline!PowerLoss
  PROVE  PipelineInv'
  <1>1. TypeInv
    BY DEF PipelineInv
  <1>2. /\ view' = durable /\ durable' = durable
        /\ UNCHANGED <<synced, public, version, seen, used, owned, installed, err>>
        /\ data' \in [Calibrations -> [Pipeline!Files -> {"good", "bad"}]]
        /\ \A r \in Calibrations, f \in Pipeline!Files :
             data'[r][f] = IF f \in synced[r] THEN data[r][f] ELSE "bad"
    BY <1>1 DEF Pipeline!PowerLoss, Pipeline!local, TypeInv
  <1>3. /\ at' \in [Calibrations -> Places]
        /\ \A r \in Calibrations : at'[r] =
                 IF at[r][1] \in Pipeline!Ended THEN at[r] ELSE <<"dead", 0>>
    <2>1. <<"dead", 0>> \in Places
      BY DEF Places, Pipeline!Ended
    <2> QED BY <1>1, <2>1 DEF Pipeline!PowerLoss, TypeInv
  <1>4. faults' \in 0 .. MaxFaults /\ faults <= faults'
    BY <1>1, FaultCount DEF Pipeline!PowerLoss
  <1>5. TypeInv'
    BY <1>1, <1>2, <1>3, <1>4 DEF TypeInv
  <1>6. ASSUME NEW r \in Calibrations
        PROVE  RunInv(r)'
    <2> USE DEF RunInv
    <2>1. RunInv(r)
      BY DEF PipelineInv
    <2>2. /\ at'[r][1] \in Pipeline!Ended
          /\ at'[r][1] \in {"done", "failed"} => at'[r] = at[r]
      BY <1>3 DEF Pipeline!Ended
    <2>3. OwnInv(r)'
      BY <1>2, <2>1, <2>2 DEF OwnInv, Dirs, Reserved, Pipeline!Forward, Pipeline!Ended,
                              CleanupInv, Pipeline!Files
    <2>4. InputInv(r)'
      BY <1>2, <2>1, <2>2 DEF InputInv, Rechecked, Pipeline!Ended, Truthful
    <2>5. ReceiptInv(r)'
      <3> SUFFICES ASSUME durable.dest[Pipeline!Receipt] = r
                   PROVE  /\ Truthful(r)' /\ Pipeline!Files \subseteq synced'[r]
                               /\ Pipeline!Outputs \subseteq public'[r]
                          /\ \A f \in Pipeline!Files : data'[r][f] = "good"
                          /\ (\A f \in Pipeline!Outputs : durable.dest[f] = r) \/ err'[r]
        BY <1>2, <2>2 DEF ReceiptInv, Dirs
      <3>1. /\ Truthful(r) /\ Pipeline!Files \subseteq synced[r]
                 /\ Pipeline!Outputs \subseteq public[r]
            /\ \A f \in Pipeline!Files : data[r][f] = "good"
            /\ (\A f \in Pipeline!Outputs : durable.dest[f] = r) \/ err[r]
        BY <2>1 DEF ReceiptInv, Dirs
      <3> QED BY <1>2, <3>1 DEF Truthful
    <2>6. ForwardInv(r)'
      <3>1. CASE at'[r][1] = "done"
        <4>1. at[r][1] = "done"
          BY <2>2, <3>1
        <4>2. \A f \in Pipeline!Files : durable.dest[f] = r /\ durable.temp[r][f] = "none"
                /\ f \in synced[r]
          BY <2>1, <4>1 DEF CleanupInv, Dirs
        <4>3. \A f \in Pipeline!Outputs : data[r][f] = "good" /\ f \in public[r]
          BY <2>1, <4>1 DEF ForwardInv, Confirmed, Pipeline!Good
        <4>4. data[r][Pipeline!Receipt] = "good"
          BY <2>1, <4>1 DEF ForwardInv, Written
        <4>5. \A g \in Pipeline!Outputs : Pipeline!Good(r, g)' /\ g \in synced'[r]
          BY <1>2, <4>2, <4>3 DEF Pipeline!Good, Pipeline!Files
        <4>6. data'[r][Pipeline!Receipt] = "good" /\ Pipeline!Receipt \in synced'[r]
                /\ view'.dest[Pipeline!Receipt] = r
          BY <1>2, <4>2, <4>4 DEF Pipeline!Files
        <4> QED BY <3>1, <4>5, <4>6 DEF ForwardInv, Rechecked, Linked, Cleared, Written,
                                        Confirmed, Finished, Pipeline!Good
      <3>2. CASE at'[r][1] # "done"
        BY <2>2, <3>2 DEF ForwardInv, Rechecked, Linked, Cleared, Written, Confirmed,
                          Finished, Pipeline!Ended
      <3> QED BY <3>1, <3>2
    <2>7. CleanupInv(r)'
      <3>1. at'[r][1] \notin Pipeline!Cleanup
        BY <2>2 DEF Pipeline!Cleanup, Pipeline!Ended
      <3> QED BY <1>2, <2>1, <2>2, <3>1 DEF CleanupInv, Dirs, Pipeline!Cleanup
    <2> QED BY <2>3, <2>4, <2>5, <2>6, <2>7
  <1> QED BY <1>5, <1>6 DEF PipelineInv

LEMMA RunSteps ==
  ASSUME PipelineInv, NEW r \in Calibrations, Pipeline!Step(r)
  PROVE  PipelineInv'
  <1>1. TypeInv /\ RunInv(r)
    BY DEF PipelineInv
  <1>2. StepOf(r)
    <2>1. CASE Pipeline!Check(r)       BY <1>1, <2>1, CheckStep
    <2>2. CASE Pipeline!Recheck(r)     BY <1>1, <2>2, RecheckStep
    <2>3. CASE Pipeline!Cleaned(r)     BY <1>1, <2>3, CleanedStep
    <2>4. CASE Pipeline!FailStep(r)    BY <1>1, <2>4, FailingStep
    <2>5. CASE Pipeline!Interrupt(r)   BY <1>1, <2>5, InterruptStep
    <2>6. CASE Pipeline!RolledBack(r)  BY <1>1, <2>6, RolledBackStep
    <2>7. CASE Pipeline!Swept(r)       BY <1>1, <2>7, SweptStep
    <2>8. CASE Pipeline!Kill(r)        BY <1>1, <2>8, KillStep
    <2>9. ASSUME NEW f \in Pipeline!Files, Pipeline!Publishing(r, f) \/ Pipeline!Rollback(r, f)
                   \/ Pipeline!Sweep(r, f)
          PROVE  StepOf(r)
      <3>1. CASE Pipeline!MakeTemporary(r, f)  BY <1>1, <3>1, MakeTemporaryStep
      <3>2. CASE Pipeline!Fill(r, f)           BY <1>1, <3>2, FillStep
      <3>3. CASE Pipeline!Hold(r, f)           BY <1>1, <3>3, HoldStep
      <3>4. CASE Pipeline!Link(r, f)           BY <1>1, <3>4, LinkStep
      <3>5. CASE Pipeline!Track(r, f)          BY <1>1, <3>5, TrackStep
      <3>6. CASE Pipeline!MakeReadable(r, f)   BY <1>1, <3>6, MakeReadableStep
      <3>7. CASE Pipeline!Clean(r, f)          BY <1>1, <3>7, CleanStep
      <3>8. CASE Pipeline!Verify(r, f)         BY <1>1, <3>8, VerifyStep
      <3>9. CASE Pipeline!Rollback(r, f)       BY <1>1, <3>9, RollbackStep
      <3>10. CASE Pipeline!Sweep(r, f)         BY <1>1, <3>10, SweepStep
      <3> QED BY <2>9, <3>1, <3>2, <3>3, <3>4, <3>5, <3>6, <3>7, <3>8, <3>9, <3>10
         DEF Pipeline!Publishing
    <2> QED BY <2>1, <2>2, <2>3, <2>4, <2>5, <2>6, <2>7, <2>8, <2>9 DEF Pipeline!Step
  <1>3. \A s \in Calibrations \ {r} : RunInv(s)'
    BY <1>1, <1>2, FrameKeeps DEF PipelineInv, StepOf
  <1> QED BY <1>2, <1>3 DEF PipelineInv, StepOf

LEMMA PipelineInit ==
  ASSUME Pipeline!PipelineAssumption, Pipeline!Init
  PROVE  PipelineInv
  <1> USE DEF Pipeline!Init
  <1>1. TypeInv
    <2>1. <<"check", 0>> \in Places
      BY DEF Places
    <2>2. view \in Disks /\ durable \in Disks
      BY DEF Disks
    <2>3. 0 \in 0 .. MaxFaults /\ 0 \in Nat
      BY DEF Pipeline!PipelineAssumption
    <2> QED BY <2>1, <2>2, <2>3 DEF TypeInv
  <1>2. ASSUME NEW r \in Calibrations
        PROVE  RunInv(r)
    <2>1. at[r] = <<"check", 0>> /\ durable = view /\ used[r] = {}
      OBVIOUS
    <2>2. \A f \in Pipeline!Files : view.dest[f] # r /\ view.temp[r][f] = "none"
      BY DEF Pipeline!PipelineAssumption
    <2>3. OwnInv(r)
      BY <2>1, <2>2 DEF OwnInv, Dirs, Reserved, Pipeline!Forward
    <2>4. InputInv(r)
      BY <2>1 DEF InputInv, Rechecked
    <2>5. ReceiptInv(r)
      BY <2>1, <2>2 DEF ReceiptInv, Dirs, Pipeline!Files
    <2>6. ForwardInv(r)
      BY <2>1 DEF ForwardInv, Rechecked, Linked, Cleared, Written, Confirmed, Finished
    <2>7. CleanupInv(r)
      BY <2>1 DEF CleanupInv
    <2> QED BY <2>3, <2>4, <2>5, <2>6, <2>7 DEF RunInv
  <1> QED BY <1>1, <1>2 DEF PipelineInv

LEMMA PipelineStep ==
  ASSUME PipelineInv, [Pipeline!Next]_Pipeline!vars
  PROVE  PipelineInv'
  BY RunSteps, WorldStep, PowerLossStep DEF Pipeline!Next

LEMMA PipelinePromises ==
  ASSUME PipelineInv
  PROVE  Pipeline!TypeOK /\ Pipeline!ReceiptHasOutputs /\ Pipeline!ReceiptIsTruthful
           /\ Pipeline!FailedLeavesNothing /\ Pipeline!DoneIsDurable
  <1> USE DEF PipelineInv, RunInv
  <1>1. Pipeline!ReceiptHasOutputs
    BY DEF Pipeline!ReceiptHasOutputs, ReceiptInv, Pipeline!Complete, Pipeline!Good, Dirs,
           Pipeline!Files
  <1>2. Pipeline!ReceiptIsTruthful
    BY DEF Pipeline!ReceiptIsTruthful, ReceiptInv, Dirs, Truthful
  <1>3. Pipeline!FailedLeavesNothing
    BY DEF Pipeline!FailedLeavesNothing, CleanupInv, Dirs
  <1>4. Pipeline!DoneIsDurable
    BY DEF Pipeline!DoneIsDurable, CleanupInv, Dirs
  <1>5. Pipeline!TypeOK
    <2>1. faults \in 0 .. MaxFaults /\ MaxFaults \in Nat /\ version \in [Pipeline!Inputs -> Nat]
          /\ seen \in [Calibrations -> [Pipeline!Inputs -> Nat]]
               /\ \A i \in Pipeline!Inputs : version[i] <= faults
      BY DEF TypeInv, Pipeline!PipelineAssumption
    <2>2. \A i \in Pipeline!Inputs : version[i] \in 0 .. MaxFaults
      BY <2>1
    <2>3. \A r \in Calibrations, i \in Pipeline!Inputs : seen[r][i] \in 0 .. MaxFaults
      <3> SUFFICES ASSUME NEW r \in Calibrations, NEW i \in Pipeline!Inputs
                   PROVE  seen[r][i] \in 0 .. MaxFaults
        OBVIOUS
      <3>1. seen[r][i] \in Nat /\ version[i] \in Nat /\ seen[r][i] <= version[i]
        BY <2>1 DEF InputInv
      <3> QED BY <2>1, <3>1
    <2>4. version \in [Pipeline!Inputs -> 0 .. MaxFaults]
            /\ seen \in [Calibrations -> [Pipeline!Inputs -> 0 .. MaxFaults]]
      BY <2>1, <2>2, <2>3
    <2>5. ASSUME NEW r \in Calibrations
          PROVE  /\ at[r][1] \in {"check"} \cup Pipeline!Forward
                   \cup Pipeline!Cleanup \cup Pipeline!Ended
                 /\ at[r][2] \in 0 .. Pipeline!Receipt
      <3>1. at[r] \in Places
        BY DEF TypeInv
      <3> QED BY <3>1 DEF Places, Pipeline!Forward, Pipeline!Cleanup, Pipeline!Ended,
                          Pipeline!Files, Pipeline!Outputs, Pipeline!Receipt
    <2> QED BY <2>4, <2>5 DEF Pipeline!TypeOK, TypeInv, Disks
  <1> QED BY <1>1, <1>2, <1>3, <1>4, <1>5

(* Every step keeps what the other runs have at their destinations.        *)
LEMMA Unclobbered ==
  ASSUME PipelineInv, [Pipeline!Next]_Pipeline!vars
  PROVE  Pipeline!NeverClobbersStep
  <1>1. view \in Disks /\ Free \notin Calibrations
    BY DEF PipelineInv, TypeInv, Pipeline!PipelineAssumption
  <1>2. CASE view'.dest = view.dest \/ view' = durable
    BY <1>2 DEF Pipeline!NeverClobbersStep
  <1>3. ASSUME NEW s \in Calibrations, NEW g \in Pipeline!Files, Pipeline!Link(s, g)
        PROVE  Pipeline!NeverClobbersStep
    BY <1>1, <1>2, <1>3, DestSet DEF Pipeline!Link, Pipeline!NeverClobbersStep
  <1>4. ASSUME NEW s \in Calibrations, NEW g \in Pipeline!Files, Pipeline!Rollback(s, g)
        PROVE  Pipeline!NeverClobbersStep
    <2>1. CASE Pipeline!SetDest(g, Free) /\ view.dest[g] = s
      BY <1>1, <1>4, <2>1, DestSet DEF Pipeline!Rollback, Pipeline!NeverClobbersStep
    <2> QED BY <1>2, <1>4, <2>1 DEF Pipeline!Rollback
  <1>5. ASSUME NEW s \in Calibrations, NEW g \in Pipeline!Files,
                 NEW t \in {"none", "own", "other"},
               Pipeline!SetTemp(s, g, t)
        PROVE  view'.dest = view.dest
    BY <1>1, <1>5, TempSet
  <1>6. ASSUME NEW s \in Calibrations, Pipeline!Step(s)
        PROVE  Pipeline!NeverClobbersStep
    <2>1. CASE UNCHANGED view
      BY <1>2, <2>1
    <2>2. ASSUME NEW g \in Pipeline!Files, Pipeline!Publishing(s, g) \/ Pipeline!Rollback(s, g)
                   \/ Pipeline!Sweep(s, g)
          PROVE  Pipeline!NeverClobbersStep
      <3>1. CASE Pipeline!MakeTemporary(s, g)
        BY <1>2, <1>5, <3>1 DEF Pipeline!MakeTemporary
      <3>2. CASE Pipeline!Fill(s, g)
        BY <1>2, <1>5, <2>1, <3>2 DEF Pipeline!Fill
      <3>3. CASE Pipeline!Hold(s, g) \/ Pipeline!Track(s, g) \/ Pipeline!MakeReadable(s, g)
                   \/ Pipeline!Verify(s, g)
        BY <2>1, <3>3 DEF Pipeline!Hold, Pipeline!Track, Pipeline!MakeReadable,
                          Pipeline!Verify, Pipeline!disk
      <3>4. CASE Pipeline!RemoveTemp(s, g)
        BY <1>2, <1>5, <2>1, <3>4 DEF Pipeline!RemoveTemp
      <3>5. CASE Pipeline!Clean(s, g)
        BY <3>4, <3>5 DEF Pipeline!Clean
      <3>6. CASE Pipeline!Sweep(s, g)
        BY <2>1, <3>4, <3>6 DEF Pipeline!Sweep
      <3> QED BY <1>3, <1>4, <2>2, <3>1, <3>2, <3>3, <3>5, <3>6 DEF Pipeline!Publishing
    <2>3. CASE Pipeline!Check(s) \/ Pipeline!Recheck(s) \/ Pipeline!Cleaned(s)
                 \/ Pipeline!FailStep(s) \/ Pipeline!Interrupt(s)
               \/ Pipeline!RolledBack(s) \/ Pipeline!Swept(s) \/ Pipeline!Kill(s)
      BY <2>1, <2>3 DEF Pipeline!Check, Pipeline!Recheck, Pipeline!Cleaned, Pipeline!FailStep,
                        Pipeline!Interrupt, Pipeline!RolledBack, Pipeline!Swept,
                        Pipeline!Kill, Pipeline!disk
    <2> QED BY <1>6, <2>2, <2>3 DEF Pipeline!Step
  <1>7. CASE Pipeline!Writeback \/ Pipeline!PowerLoss
               \/ (\E i \in Pipeline!Inputs : Pipeline!Change(i)) \/ UNCHANGED Pipeline!vars
    BY <1>2, <1>7 DEF Pipeline!Writeback, Pipeline!PowerLoss, Pipeline!Change, Pipeline!vars,
                      Pipeline!disk
  <1> QED BY <1>6, <1>7 DEF Pipeline!Next

-----------------------------------------------------------------------------
(* The evaluations.                                                        *)

(* What p identified first was on disk then: one run, whose receipt may    *)
(* already be that of a later one.  The second load reads later still, so  *)
(* that once it is found equal to the first there was one run all the      *)
(* time.                                                                   *)
LineagesInv(p) ==
  LET l == before[p].lineage
  IN  /\ phase[p] \in {"lineage", "reload"} \/ l # Evaluation!Nothing => given[p]
      /\ l # Evaluation!Nothing
           => /\ Evaluation!OneRun(l) /\ l.receipt \in Evaluation!Runs /\ l.metadata <= l.receipt
                                   /\ l.receipt <= run["metadata"]
      /\ /\ phase[p] = "reload" /\ stage[p] \in {"merged", "metrics", "receipt", "loaded"}
         /\ l # Evaluation!Nothing
         => l.receipt <= lineage[p].metadata
      /\ phase[p] \in {"again", "rename"} /\ l # Evaluation!Nothing => l.receipt = l.metadata

(* The engine holds, and the rows come from, versions that have been on    *)
(* disk; the first is there again only if no other ever was.               *)
RowsInv(p) ==
  /\ engine[p] <= artifact
  /\ engine[p] # 0 => phase[p] \in {"generate", "killed"}
  /\ Len(results[p]) <= Rows
  /\ \A i \in DOMAIN results[p] : 1 <= results[p][i] /\ results[p][i] <= artifact
  /\ phase[p] = "rename" => \A i \in DOMAIN results[p] : results[p][i] = Evaluation!Expected

EvaluatorInv(p) == /\ LineagesInv(p) /\ RowsInv(p)
                   /\ p \in staging =>
                        phase[p] \in Evaluation!Working \cup {"staged", "cleanup", "cut", "killed"}

Firsts == [lineage : Evaluation!Lineages, runtime : 0 .. LastRuntime]
Outcomes == {"none", "complete", "refused"}
EvaluationTypes ==
  /\ artifact \in 1 .. LastArtifact /\ runtime \in 1 .. LastRuntime
  /\ given \in [Evaluators -> BOOLEAN] /\ phase \in [Evaluators -> Evaluation!Phases]
  /\ before \in [Evaluators -> Firsts] /\ engine \in [Evaluators -> 0 .. LastArtifact]
  /\ results \in [Evaluators -> Seq(Nat)]
  /\ staging \subseteq Evaluators /\ faults \in 0 .. MaxEvaluationFaults
  /\ outcome \in [Evaluators -> Outcomes]

EvaluationInv == /\ EvaluationTypes /\ Evaluation!LineageInv /\ Evaluation!SummaryIsExact
                 /\ \A p \in Evaluators : EvaluatorInv(p)

-----------------------------------------------------------------------------
(* A step of p to another phase, with what it has then identified, loaded  *)
(* and generated.                                                          *)
Moved(p, to, b, e, s) ==
  /\ to \in Evaluation!Phases /\ phase' = [phase EXCEPT ![p] = to]
  /\ b \in Firsts /\ before' = [before EXCEPT ![p] = b]
  /\ e \in 0 .. LastArtifact /\ engine' = [engine EXCEPT ![p] = e]
  /\ s \in Seq(Nat) /\ results' = [results EXCEPT ![p] = s]
  /\ \E o \in Outcomes : outcome' = [outcome EXCEPT ![p] = o]
  /\ staging' \in {staging, staging \cup {p}, staging \ {p}}
  /\ UNCHANGED faults \/ Evaluation!Fault
  /\ Evaluation!World
  /\ Evaluation!StartLoad(p) \/ Evaluation!LoadStep(p) \/ Evaluation!Rest(p)
       \/ UNCHANGED Evaluation!loader

(* The others, and the world, stay where they are.                         *)
Others(p) ==
  /\ UNCHANGED <<run, data, artifact, runtime, given>>
  /\ \A q \in Evaluators \ {p} :
       /\ phase'[q] = phase[q] /\ before'[q] = before[q] /\ engine'[q] = engine[q]
       /\ results'[q] = results[q] /\ stage'[q] = stage[q] /\ lineage'[q] = lineage[q]
       /\ q \in staging' <=> q \in staging

LEMMA LoaderFrame ==
  ASSUME Evaluation!EvaluationAssumption, Evaluation!LineageInv, NEW p \in Evaluators,
           UNCHANGED Evaluation!disk,
         Evaluation!StartLoad(p) \/ Evaluation!LoadStep(p) \/ Evaluation!Rest(p)
           \/ UNCHANGED Evaluation!loader
  PROVE  /\ Evaluation!LineageInv'
         /\ \A q \in Evaluators \ {p} : stage'[q] = stage[q] /\ lineage'[q] = lineage[q]
  <1>1. Evaluation!LineageTypeOK /\ Evaluation!RunAssumption
    BY DEF Evaluation!EvaluationAssumption, Evaluation!LineageInv
  <1>2. CASE Evaluation!StartLoad(p)
    BY <1>1, <1>2, Evaluation!StartKeeps DEF Evaluation!StartLoad, Evaluation!LineageTypeOK
  <1>3. CASE Evaluation!LoadStep(p)
    BY <1>1, <1>3, Evaluation!ReadFills, Evaluation!LoadKeeps DEF Evaluation!Filled
  <1>4. CASE Evaluation!Rest(p)
    BY <1>1, <1>4, Evaluation!RestKeeps DEF Evaluation!Rest, Evaluation!LineageTypeOK
  <1>5. CASE UNCHANGED Evaluation!loader
    BY <1>5, Evaluation!StillKeeps DEF Evaluation!loader
  <1> QED BY <1>2, <1>3, <1>4, <1>5

LEMMA MovedFrame ==
  ASSUME Evaluation!EvaluationAssumption, EvaluationTypes, Evaluation!LineageInv,
           NEW p \in Evaluators,
         NEW to, NEW b, NEW e, NEW s, Moved(p, to, b, e, s)
  PROVE  /\ EvaluationTypes' /\ Evaluation!LineageInv' /\ Others(p)
         /\ phase'[p] = to /\ before'[p] = b /\ engine'[p] = e /\ results'[p] = s
  <1>1. faults' \in 0 .. MaxEvaluationFaults
    BY DEF Moved, Evaluation!Fault, EvaluationTypes, Evaluation!EvaluationAssumption
  <1>2. UNCHANGED <<Evaluation!disk, run, data, artifact, runtime, given>>
    BY DEF Moved, Evaluation!World, Evaluation!disk
  <1>3. /\ Evaluation!LineageInv'
        /\ \A q \in Evaluators \ {p} : stage'[q] = stage[q] /\ lineage'[q] = lineage[q]
    BY <1>2, LoaderFrame DEF Moved
  <1>4. /\ phase' \in [Evaluators -> Evaluation!Phases] /\ phase'[p] = to
        /\ \A q \in Evaluators \ {p} : phase'[q] = phase[q]
    BY DEF Moved, EvaluationTypes
  <1>5. /\ before' \in [Evaluators -> Firsts] /\ before'[p] = b
        /\ \A q \in Evaluators \ {p} : before'[q] = before[q]
    BY DEF Moved, EvaluationTypes
  <1>6. /\ engine' \in [Evaluators -> 0 .. LastArtifact] /\ engine'[p] = e
        /\ \A q \in Evaluators \ {p} : engine'[q] = engine[q]
    BY DEF Moved, EvaluationTypes
  <1>7. /\ results' \in [Evaluators -> Seq(Nat)] /\ results'[p] = s
        /\ \A q \in Evaluators \ {p} : results'[q] = results[q]
    BY DEF Moved, EvaluationTypes
  <1>8. /\ staging' \subseteq Evaluators
        /\ \A q \in Evaluators \ {p} : q \in staging' <=> q \in staging
    BY DEF Moved, EvaluationTypes
  <1>9. outcome' \in [Evaluators -> Outcomes]
    BY DEF Moved, EvaluationTypes
  <1>10. EvaluationTypes'
    BY <1>1, <1>2, <1>4, <1>5, <1>6, <1>7, <1>8, <1>9 DEF EvaluationTypes
  <1> QED BY <1>2, <1>3, <1>4, <1>5, <1>6, <1>7, <1>8, <1>10 DEF Others

(* What the types say of the fields.                                       *)
LEMMA Numbers ==
  ASSUME Evaluation!EvaluationAssumption, EvaluationTypes, Evaluation!LineageInv,
           NEW p \in Evaluators
  PROVE  /\ artifact \in Nat /\ 1 <= artifact /\ artifact \in 0 .. LastArtifact
         /\ engine[p] \in Nat /\ runtime \in 0 .. LastRuntime
         /\ run["metadata"] \in Nat /\ run["metadata"] \in Evaluation!Runs
         /\ before[p] \in Firsts /\ before[p].lineage \in Evaluation!Lineages
              /\ lineage[p] \in Evaluation!Lineages
         /\ before[p].lineage.metadata \in Nat /\ before[p].lineage.receipt \in Nat
         /\ lineage[p].metadata \in Nat /\ lineage[p].receipt \in Nat
         /\ results[p] \in Seq(Nat) /\ phase[p] \in Evaluation!Phases /\ p \in Evaluators
         /\ stage[p] \in Evaluation!Stages
         /\ phase = [phase EXCEPT ![p] = phase[p]]
         /\ before = [before EXCEPT ![p] = before[p]]
         /\ engine = [engine EXCEPT ![p] = engine[p]] /\ engine[p] \in 0 .. LastArtifact
         /\ results = [results EXCEPT ![p] = results[p]]
         /\ outcome = [outcome EXCEPT ![p] = outcome[p]] /\ outcome[p] \in Outcomes
         /\ 0 \in 0 .. LastArtifact
  <1>1. p \in Evaluators /\ lineage[p] \in Evaluation!Lineages
          /\ stage[p] \in Evaluation!Stages /\ run["metadata"] \in Evaluation!Runs
    BY DEF Evaluation!EvaluationAssumption, Evaluation!LineageInv, Evaluation!LineageTypeOK,
           Evaluation!Parts
  <1>2. \A l \in Evaluation!Lineages : l.metadata \in Nat /\ l.receipt \in Nat
    BY DEF Evaluation!Lineages
  <1>3. before[p] \in Firsts /\ before[p].lineage \in Evaluation!Lineages
    BY DEF EvaluationTypes, Firsts
  <1>4. run["metadata"] \in Nat
    BY <1>1 DEF Evaluation!Runs
  <1>5. /\ artifact \in Nat /\ 1 <= artifact /\ artifact \in 0 .. LastArtifact
        /\ engine[p] \in Nat /\ runtime \in 0 .. LastRuntime /\ 0 \in 0 .. LastArtifact
        /\ engine[p] \in 0 .. LastArtifact
    BY DEF EvaluationTypes, Evaluation!EvaluationAssumption
  <1>6. /\ results[p] \in Seq(Nat) /\ phase[p] \in Evaluation!Phases
        /\ phase = [phase EXCEPT ![p] = phase[p]]
        /\ before = [before EXCEPT ![p] = before[p]]
        /\ engine = [engine EXCEPT ![p] = engine[p]]
        /\ results = [results EXCEPT ![p] = results[p]]
        /\ outcome = [outcome EXCEPT ![p] = outcome[p]] /\ outcome[p] \in Outcomes
    BY DEF EvaluationTypes
  <1> QED BY <1>1, <1>2, <1>3, <1>4, <1>5, <1>6

(* The invariant of an evaluator that does not move: the world only goes   *)
(* forward.                                                                *)
LEMMA OthersKeep ==
  ASSUME Evaluation!EvaluationAssumption, EvaluationTypes, Evaluation!LineageInv,
           NEW q \in Evaluators,
         EvaluatorInv(q), run'["metadata"] \in Nat, run["metadata"] <= run'["metadata"],
         artifact' \in Nat, artifact <= artifact', given' = given,
         phase'[q] = phase[q], before'[q] = before[q], engine'[q] = engine[q],
         results'[q] = results[q], stage'[q] = stage[q], lineage'[q] = lineage[q],
         q \in staging' <=> q \in staging
  PROVE  EvaluatorInv(q)'
  <1>1. LineagesInv(q)'
    BY Numbers DEF EvaluatorInv, LineagesInv, Evaluation!OneRun
  <1>2. RowsInv(q)'
    BY Numbers DEF EvaluatorInv, RowsInv
  <1> QED BY <1>1, <1>2 DEF EvaluatorInv

(* What a step of p has to keep.                                           *)
Kept(p) == EvaluationTypes' /\ Evaluation!LineageInv' /\ Others(p) /\ EvaluatorInv(p)'
  /\ Evaluation!SummaryIsExact'

LEMMA SummarySame ==
  ASSUME Evaluation!SummaryIsExact, UNCHANGED output
  PROVE  Evaluation!SummaryIsExact'
  BY DEF Evaluation!SummaryIsExact, Evaluation!OneRun

LEMMA RefuseKeeps ==
  ASSUME Evaluation!EvaluationAssumption, EvaluationInv, NEW p \in Evaluators,
           Evaluation!Refuse(p), phase[p] \notin {"staged", "cleanup", "cut", "killed"},
         UNCHANGED faults \/ Evaluation!Fault,
         Evaluation!StartLoad(p) \/ Evaluation!LoadStep(p) \/ Evaluation!Rest(p)
           \/ UNCHANGED Evaluation!loader
  PROVE  Kept(p)
  <1>1. EvaluationTypes /\ Evaluation!LineageInv /\ Evaluation!SummaryIsExact /\ EvaluatorInv(p)
    BY DEF EvaluationInv
  <1>2. PICK to \in {"ended", "cleanup"} :
          /\ Moved(p, to, before[p], 0, results[p])
          /\ to = "ended" => phase[p] \notin Evaluation!Working
    BY <1>1, Numbers DEF Moved, Evaluation!Refuse, Evaluation!Goto, Evaluation!Unloads,
                         Evaluation!Refused, Evaluation!InTry, Evaluation!Phases, Outcomes
  <1>3. /\ EvaluationTypes' /\ Evaluation!LineageInv' /\ Others(p)
        /\ phase'[p] = to /\ before'[p] = before[p] /\ engine'[p] = 0
        /\ results'[p] = results[p]
    BY <1>1, <1>2, MovedFrame
  <1>4. LineagesInv(p)'
    BY <1>1, <1>3 DEF EvaluatorInv, LineagesInv, Others, Evaluation!OneRun
  <1>5. RowsInv(p)'
    BY <1>1, <1>3, Numbers DEF EvaluatorInv, RowsInv, Others
  <1>6. UNCHANGED <<staging, output>>
    BY DEF Evaluation!Refuse
  <1> QED BY <1>1, <1>2, <1>3, <1>4, <1>5, <1>6, SummarySame DEF Kept, EvaluatorInv

(* A step that only moves p on.                                            *)
LEMMA MoveKeeps ==
  ASSUME Evaluation!EvaluationAssumption, EvaluationInv, NEW p \in Evaluators, NEW from,
           NEW to \in Evaluation!Phases,
         Evaluation!Move(p, from, to), UNCHANGED Evaluation!run_state,
         staging' \in {staging, staging \cup {p}, staging \ {p}},
         Evaluation!StartLoad(p) \/ Evaluation!LoadStep(p) \/ Evaluation!Rest(p)
           \/ UNCHANGED Evaluation!loader
  PROVE  /\ EvaluationTypes' /\ Evaluation!LineageInv' /\ Others(p) /\ Evaluation!SummaryIsExact'
         /\ phase[p] = from /\ phase'[p] = to /\ before'[p] = before[p]
         /\ engine'[p] = engine[p] /\ results'[p] = results[p]
  <1>1. EvaluationTypes /\ Evaluation!LineageInv /\ Evaluation!SummaryIsExact
    BY DEF EvaluationInv
  <1>2. Moved(p, to, before[p], engine[p], results[p])
    BY <1>1, Numbers DEF Moved, Evaluation!Move, Evaluation!Goto, Evaluation!run_state
  <1>3. UNCHANGED output /\ phase[p] = from
    BY DEF Evaluation!Move, Evaluation!At
  <1> QED BY <1>1, <1>2, <1>3, MovedFrame, SummarySame

LEMMA StartStep ==
  ASSUME Evaluation!EvaluationAssumption, EvaluationInv, NEW p \in Evaluators, Evaluation!Start(p)
  PROVE  Kept(p)
  <1>1. EvaluationTypes /\ Evaluation!LineageInv /\ EvaluatorInv(p) /\ Evaluation!RunAssumption
          /\ p \in Evaluators
    BY Numbers DEF EvaluationInv, Evaluation!EvaluationAssumption
  <1>2. CASE given[p] /\ Evaluation!StartLoad(p) /\ Evaluation!Move(p, "start", "lineage")
             /\ UNCHANGED <<Evaluation!run_state, staging>>
    <2>1. /\ EvaluationTypes' /\ Evaluation!LineageInv' /\ Others(p) /\ Evaluation!SummaryIsExact'
          /\ phase[p] = "start" /\ phase'[p] = "lineage" /\ before'[p] = before[p]
          /\ engine'[p] = engine[p] /\ results'[p] = results[p]
      BY <1>2, MoveKeeps DEF Evaluation!Phases
    <2> QED BY <1>1, <1>2, <2>1 DEF Kept, EvaluatorInv, LineagesInv, RowsInv, Others,
                                    Evaluation!OneRun, Evaluation!Working
  <1>3. CASE ~given[p] /\ Evaluation!Move(p, "start", "identify")
               /\ UNCHANGED <<Evaluation!loader, Evaluation!run_state, staging>>
    <2>1. /\ EvaluationTypes' /\ Evaluation!LineageInv' /\ Others(p) /\ Evaluation!SummaryIsExact'
          /\ phase[p] = "start" /\ phase'[p] = "identify" /\ before'[p] = before[p]
          /\ engine'[p] = engine[p] /\ results'[p] = results[p]
      BY <1>3, MoveKeeps DEF Evaluation!Phases
    <2> QED BY <1>1, <1>3, <2>1 DEF Kept, EvaluatorInv, LineagesInv, RowsInv, Others,
                                    Evaluation!OneRun, Evaluation!Working
  <1>4. CASE Evaluation!Refuse(p) /\ UNCHANGED Evaluation!loader
    BY <1>4, RefuseKeeps DEF Evaluation!Start, Evaluation!At
  <1> QED BY <1>2, <1>3, <1>4 DEF Evaluation!Start

LEMMA LoadOwn ==
  ASSUME Evaluation!EvaluationAssumption, EvaluationInv, NEW p \in Evaluators, Evaluation!Load(p)
  PROVE  Kept(p)
  <1>1. EvaluationTypes /\ Evaluation!LineageInv /\ Evaluation!SummaryIsExact /\ EvaluatorInv(p)
        /\ Evaluation!RunAssumption /\ p \in Evaluators
    BY Numbers DEF EvaluationInv, Evaluation!EvaluationAssumption
  <1>2. Moved(p, phase[p], before[p], engine[p], results[p]) /\ UNCHANGED <<output, staging>>
    BY <1>1, Numbers DEF Moved, Evaluation!Load, Evaluation!run_state
  <1>3. /\ EvaluationTypes' /\ Evaluation!LineageInv' /\ Others(p) /\ Evaluation!SummaryIsExact'
        /\ phase'[p] = phase[p] /\ before'[p] = before[p] /\ engine'[p] = engine[p]
        /\ results'[p] = results[p] /\ (p \in staging' <=> p \in staging)
    BY <1>1, <1>2, MovedFrame, SummarySame
  <1>4. LineagesInv(p)'
    <2> DEFINE l == before[p].lineage
    <2>1. LineagesInv(p) /\ given' = given /\ run' = run
      BY <1>1, <1>3 DEF EvaluatorInv, Others
    <2>2. ASSUME phase[p] = "reload", l # Evaluation!Nothing,
                 stage'[p] \in {"merged", "metrics", "receipt", "loaded"}
          PROVE  l.receipt <= lineage'[p].metadata
      <3>1. \/ stage[p] = "metadata" /\ lineage'[p].metadata = run["metadata"]
            \/ /\ stage[p] \in {"merged", "metrics", "receipt", "loaded"}
               /\ lineage'[p].metadata = lineage[p].metadata
        BY <1>1, <2>2, Evaluation!ReadFills DEF Evaluation!Load, Evaluation!LineageInv,
                                                Evaluation!Filled
      <3> QED BY <2>1, <2>2, <3>1 DEF LineagesInv
    <2> QED BY <1>3, <2>1, <2>2 DEF LineagesInv, Evaluation!OneRun
  <1>5. RowsInv(p)'
    BY <1>1, <1>3 DEF EvaluatorInv, RowsInv, Others
  <1> QED BY <1>1, <1>3, <1>4, <1>5 DEF Kept, EvaluatorInv

LEMMA LoadedStep ==
  ASSUME Evaluation!EvaluationAssumption, EvaluationInv, NEW p \in Evaluators,
           Evaluation!Loaded(p)
  PROVE  Kept(p)
  <1> DEFINE l == lineage[p]
             b == [before[p] EXCEPT !.lineage = l]
  <1>1. EvaluationTypes /\ Evaluation!LineageInv /\ Evaluation!SummaryIsExact
          /\ EvaluatorInv(p) /\ p \in Evaluators
    BY Numbers DEF EvaluationInv, Evaluation!EvaluationAssumption
  <1>2. b \in Firsts /\ b.lineage = l
    BY <1>1, Numbers DEF Firsts
  <1>3. /\ Evaluation!OneRun(l) /\ l.receipt \in Evaluation!Runs /\ l.metadata <= l.receipt
             /\ l.receipt <= run["metadata"]
    BY <1>1 DEF Evaluation!Loaded, Evaluation!LineageInv, Evaluation!Reads
  <1>4. before' = [before EXCEPT ![p] = b]
    BY <1>1 DEF Evaluation!Loaded, EvaluationTypes
  <1> HIDE DEF b
  <1>5. Moved(p, "identify", b, engine[p], results[p]) /\ UNCHANGED <<output, staging>>
        /\ phase[p] = "lineage"
    BY <1>1, <1>2, <1>4, Numbers DEF Moved, Evaluation!Loaded, Evaluation!Move,
                                     Evaluation!Goto, Evaluation!At, Evaluation!Phases
  <1>6. /\ EvaluationTypes' /\ Evaluation!LineageInv' /\ Others(p) /\ Evaluation!SummaryIsExact'
        /\ phase'[p] = "identify" /\ before'[p] = b /\ engine'[p] = engine[p]
        /\ results'[p] = results[p] /\ (p \in staging' <=> p \in staging)
    BY <1>1, <1>5, MovedFrame, SummarySame
  <1>7. LineagesInv(p)'
    <2>1. given[p] /\ given' = given /\ run' = run
      BY <1>1, <1>5, <1>6 DEF EvaluatorInv, LineagesInv, Others
    <2> QED BY <1>2, <1>3, <1>6, <2>1 DEF LineagesInv, Evaluation!OneRun
  <1>8. RowsInv(p)'
    BY <1>1, <1>5, <1>6 DEF EvaluatorInv, RowsInv, Others
  <1> QED BY <1>1, <1>5, <1>6, <1>7, <1>8 DEF Kept, EvaluatorInv, Evaluation!Working

LEMMA IdentifyStep ==
  ASSUME Evaluation!EvaluationAssumption, EvaluationInv, NEW p \in Evaluators,
           Evaluation!Identify(p)
  PROVE  Kept(p)
  <1>1. EvaluationTypes /\ Evaluation!LineageInv /\ Evaluation!SummaryIsExact /\ EvaluatorInv(p)
    BY DEF EvaluationInv
  <1>2. CASE Evaluation!Refuse(p)
    BY <1>2, RefuseKeeps DEF Evaluation!Identify, Evaluation!At
  <1>3. CASE /\ Evaluation!Move(p, "identify", "staged")
                  /\ before' = [before EXCEPT ![p].runtime = runtime]
             /\ staging' = staging \cup {p} /\ UNCHANGED <<engine, results, Evaluation!loader>>
    <2> DEFINE b == [before[p] EXCEPT !.runtime = runtime]
    <2>1. b \in Firsts /\ b.lineage = before[p].lineage
      BY <1>1, Numbers DEF Firsts
    <2>2. before' = [before EXCEPT ![p] = b]
      BY <1>1, <1>3 DEF EvaluationTypes
    <2> HIDE DEF b
    <2>3. Moved(p, "staged", b, engine[p], results[p]) /\ UNCHANGED output
            /\ phase[p] = "identify"
      BY <1>1, <1>3, <2>1, <2>2, Numbers DEF Moved, Evaluation!Move, Evaluation!Goto,
                                             Evaluation!At, Evaluation!Phases,
                                             Evaluation!Working
    <2>4. /\ EvaluationTypes' /\ Evaluation!LineageInv' /\ Others(p) /\ Evaluation!SummaryIsExact'
          /\ phase'[p] = "staged" /\ before'[p] = b /\ engine'[p] = engine[p]
          /\ results'[p] = results[p]
      BY <1>1, <2>3, MovedFrame, SummarySame
    <2> QED BY <1>1, <2>1, <2>3, <2>4 DEF Kept, EvaluatorInv, LineagesInv, RowsInv, Others,
                                          Evaluation!OneRun, Evaluation!Working
  <1> QED BY <1>2, <1>3 DEF Evaluation!Identify

LEMMA EngineLoadStep ==
  ASSUME Evaluation!EvaluationAssumption, EvaluationInv, NEW p \in Evaluators,
           Evaluation!EngineLoad(p)
  PROVE  Kept(p)
  <1>1. EvaluationTypes /\ Evaluation!LineageInv /\ Evaluation!SummaryIsExact /\ EvaluatorInv(p)
    BY DEF EvaluationInv
  <1>2. /\ Moved(p, "generate", before[p], artifact, results[p]) /\ UNCHANGED <<output, staging>>
        /\ phase[p] = "generate" /\ UNCHANGED Evaluation!loader
    BY <1>1, Numbers DEF Moved, Evaluation!EngineLoad, Evaluation!At, Evaluation!Phases,
                         Evaluation!Working
  <1>3. /\ EvaluationTypes' /\ Evaluation!LineageInv' /\ Others(p) /\ Evaluation!SummaryIsExact'
        /\ phase'[p] = "generate" /\ before'[p] = before[p] /\ engine'[p] = artifact
        /\ results'[p] = results[p]
    BY <1>1, <1>2, MovedFrame, SummarySame
  <1> QED BY <1>1, <1>2, <1>3, Numbers DEF Kept, EvaluatorInv, LineagesInv, RowsInv, Others,
                                           Evaluation!OneRun, Evaluation!Working

LEMMA GenerateStep ==
  ASSUME Evaluation!EvaluationAssumption, EvaluationInv, NEW p \in Evaluators,
           Evaluation!Generate(p)
  PROVE  Kept(p)
  <1> DEFINE s == Append(results[p], engine[p])
  <1>1. EvaluationTypes /\ Evaluation!LineageInv /\ Evaluation!SummaryIsExact /\ EvaluatorInv(p)
    BY DEF EvaluationInv
  <1>2. /\ s \in Seq(Nat) /\ Len(s) = Len(results[p]) + 1
        /\ \A i \in DOMAIN s : s[i] = engine[p]
             \/ (i \in DOMAIN results[p] /\ s[i] = results[p][i])
    <2>1. results[p] \in Seq(Nat) /\ engine[p] \in Nat
      BY <1>1, Numbers
    <2> QED BY <2>1
  <1>3. results' = [results EXCEPT ![p] = s] /\ Len(results[p]) < Rows /\ engine[p] # 0
    BY <1>1 DEF Evaluation!Generate, EvaluationTypes
  <1> HIDE DEF s
  <1>4. /\ Moved(p, "generate", before[p], engine[p], s) /\ UNCHANGED <<output, staging>>
        /\ phase[p] = "generate" /\ UNCHANGED Evaluation!loader
    BY <1>1, <1>2, <1>3, Numbers DEF Moved, Evaluation!Generate, Evaluation!At,
                                     Evaluation!Phases, Evaluation!Working
  <1>5. /\ EvaluationTypes' /\ Evaluation!LineageInv' /\ Others(p) /\ Evaluation!SummaryIsExact'
        /\ phase'[p] = "generate" /\ before'[p] = before[p] /\ engine'[p] = engine[p]
        /\ results'[p] = s
    BY <1>1, <1>4, MovedFrame, SummarySame
  <1>6. RowsInv(p)'
    <2>1. Len(results[p]) \in Nat /\ Rows \in Nat /\ engine[p] \in Nat /\ 1 <= engine[p]
      BY <1>1, <1>3, Numbers DEF Evaluation!EvaluationAssumption
    <2>2. RowsInv(p) /\ artifact' = artifact
      BY <1>1, <1>5 DEF EvaluatorInv, Others
    <2> QED BY <1>2, <1>3, <1>5, <2>1, <2>2 DEF RowsInv
  <1> QED BY <1>1, <1>4, <1>5, <1>6
          DEF Kept, EvaluatorInv, LineagesInv, Others, Evaluation!OneRun, Evaluation!Working

LEMMA UnloadStep ==
  ASSUME Evaluation!EvaluationAssumption, EvaluationInv, NEW p \in Evaluators,
           Evaluation!Unload(p)
  PROVE  Kept(p)
  <1>1. EvaluationTypes /\ Evaluation!LineageInv /\ Evaluation!SummaryIsExact
          /\ EvaluatorInv(p) /\ p \in Evaluators
        /\ Evaluation!RunAssumption
    BY Numbers DEF EvaluationInv, Evaluation!EvaluationAssumption
  <1>2. \E to \in {"reload", "again"} :
          /\ Moved(p, to, before[p], 0, results[p]) /\ UNCHANGED <<output, staging>>
          /\ phase[p] = "generate"
          /\ to = "reload" => given[p] /\ Evaluation!StartLoad(p)
          /\ to = "again" => ~given[p]
    BY <1>1, Numbers DEF Moved, Evaluation!Unload, Evaluation!Unloads, Evaluation!Move,
                         Evaluation!Goto, Evaluation!At, Evaluation!Phases, Evaluation!Working
  <1>3. PICK to \in {"reload", "again"} :
          /\ Moved(p, to, before[p], 0, results[p]) /\ UNCHANGED <<output, staging>>
          /\ phase[p] = "generate"
          /\ to = "reload" => given[p] /\ Evaluation!StartLoad(p)
          /\ to = "again" => ~given[p]
    BY <1>2
  <1>4. /\ EvaluationTypes' /\ Evaluation!LineageInv' /\ Others(p) /\ Evaluation!SummaryIsExact'
        /\ phase'[p] = to /\ before'[p] = before[p] /\ engine'[p] = 0
        /\ results'[p] = results[p]
    BY <1>1, <1>3, MovedFrame, SummarySame
  <1>5. to = "reload" => stage'[p] = "manifest"
    BY <1>1, <1>3 DEF Evaluation!StartLoad, Evaluation!LineageInv, Evaluation!LineageTypeOK
  <1>6. LineagesInv(p)'
    BY <1>1, <1>3, <1>4, <1>5 DEF EvaluatorInv, LineagesInv, Others, Evaluation!OneRun
  <1>7. RowsInv(p)'
    BY <1>1, <1>3, <1>4, Numbers DEF EvaluatorInv, RowsInv, Others
  <1> QED BY <1>1, <1>3, <1>4, <1>6, <1>7 DEF Kept, EvaluatorInv, Evaluation!Working

LEMMA ReloadedStep ==
  ASSUME Evaluation!EvaluationAssumption, EvaluationInv, NEW p \in Evaluators,
           Evaluation!Reloaded(p)
  PROVE  Kept(p)
  <1>1. EvaluationTypes /\ Evaluation!LineageInv /\ EvaluatorInv(p)
    BY DEF EvaluationInv
  <1>2. CASE Evaluation!Refuse(p)
    BY <1>2, RefuseKeeps DEF Evaluation!Reloaded, Evaluation!At
  <1>3. CASE Evaluation!SameLineage(p) /\ Evaluation!Move(p, "reload", "again")
               /\ UNCHANGED <<Evaluation!run_state, staging>>
    <2>1. /\ EvaluationTypes' /\ Evaluation!LineageInv' /\ Others(p) /\ Evaluation!SummaryIsExact'
          /\ phase[p] = "reload" /\ phase'[p] = "again" /\ before'[p] = before[p]
          /\ engine'[p] = engine[p] /\ results'[p] = results[p]
      BY <1>3, MoveKeeps DEF Evaluation!Reloaded, Evaluation!Phases, Evaluation!Working
    <2>2. LineagesInv(p)'
      <3> DEFINE l == before[p].lineage
      <3>1. l # Evaluation!Nothing => l.receipt <= l.metadata /\ l.metadata <= l.receipt
        BY <1>1, <1>3, <2>1 DEF Evaluation!Reloaded, Evaluation!SameLineage, EvaluatorInv,
                                LineagesInv
      <3>2. l # Evaluation!Nothing => l.receipt = l.metadata
        BY <1>1, <3>1, Numbers
      <3> QED BY <1>1, <2>1, <3>2 DEF EvaluatorInv, LineagesInv, Others, Evaluation!OneRun
    <2> QED BY <1>1, <1>3, <2>1, <2>2 DEF Kept, EvaluatorInv, RowsInv, Others, Evaluation!Working
  <1> QED BY <1>2, <1>3 DEF Evaluation!Reloaded

LEMMA IdentifyAgainStep ==
  ASSUME Evaluation!EvaluationAssumption, EvaluationInv, NEW p \in Evaluators,
           Evaluation!IdentifyAgain(p)
  PROVE  Kept(p)
  <1>1. EvaluationTypes /\ Evaluation!LineageInv /\ EvaluatorInv(p)
    BY DEF EvaluationInv
  <1>2. CASE Evaluation!Refuse(p)
    BY <1>2, RefuseKeeps DEF Evaluation!IdentifyAgain, Evaluation!At
  <1>3. CASE Evaluation!SameInputs(p) /\ Evaluation!Move(p, "again", "rename")
               /\ UNCHANGED <<Evaluation!run_state, staging, Evaluation!loader>>
    <2>1. /\ EvaluationTypes' /\ Evaluation!LineageInv' /\ Others(p) /\ Evaluation!SummaryIsExact'
          /\ phase[p] = "again" /\ phase'[p] = "rename" /\ before'[p] = before[p]
          /\ engine'[p] = engine[p] /\ results'[p] = results[p]
      BY <1>3, MoveKeeps DEF Evaluation!Phases, Evaluation!Working
    <2>2. \A i \in DOMAIN results[p] : results[p][i] = Evaluation!Expected
      <3>1. artifact = 1
        BY <1>3 DEF Evaluation!SameInputs, Evaluation!Accepted, Evaluation!Expected
      <3>2. \A i \in DOMAIN results[p] : results[p][i] \in Nat
        BY <1>1, Numbers
      <3> QED BY <1>1, <3>1, <3>2 DEF EvaluatorInv, RowsInv, Evaluation!Expected
    <2> QED BY <1>1, <1>3, <2>1, <2>2 DEF Kept, EvaluatorInv, LineagesInv, RowsInv, Others,
                                          Evaluation!OneRun, Evaluation!Working,
                                          Evaluation!loader
  <1> QED BY <1>2, <1>3 DEF Evaluation!IdentifyAgain

LEMMA RenameStep ==
  ASSUME Evaluation!EvaluationAssumption, EvaluationInv, NEW p \in Evaluators,
           Evaluation!Rename(p)
  PROVE  Kept(p)
  <1>1. EvaluationTypes /\ Evaluation!LineageInv /\ EvaluatorInv(p)
    BY DEF EvaluationInv
  <1>2. CASE Evaluation!Refuse(p)
    BY <1>2, RefuseKeeps DEF Evaluation!Rename, Evaluation!At
  <1>3. CASE /\ Evaluation!Goto(p, "ended") /\ Evaluation!World
                  /\ UNCHANGED Evaluation!run_state /\ staging' = staging \ {p}
             /\ output' = [by |-> p, results |-> results[p], artifact |-> Evaluation!Expected,
                           lineage |-> before[p].lineage]
             /\ outcome' = [outcome EXCEPT ![p] = "complete"]
    <2>1. Moved(p, "ended", before[p], engine[p], results[p]) /\ phase[p] = "rename"
          /\ UNCHANGED Evaluation!loader
      BY <1>1, <1>3, Numbers DEF Evaluation!Rename, Evaluation!At, Moved, Evaluation!Goto,
                                 Evaluation!Phases, Outcomes, Evaluation!run_state
    <2>2. /\ EvaluationTypes' /\ Evaluation!LineageInv' /\ Others(p)
          /\ phase'[p] = "ended" /\ before'[p] = before[p] /\ engine'[p] = engine[p]
          /\ results'[p] = results[p]
      BY <1>1, <2>1, MovedFrame
    <2>3. Evaluation!SummaryIsExact'
      <3>1. output'.results = results[p] /\ output'.artifact = Evaluation!Expected
            /\ output'.lineage = before[p].lineage
        BY <1>3
      <3> QED BY <1>1, <2>1, <3>1 DEF Evaluation!SummaryIsExact, EvaluatorInv, RowsInv,
                                      LineagesInv, Evaluation!OneRun
    <2> QED BY <1>1, <1>3, <2>1, <2>2, <2>3
            DEF Kept, EvaluatorInv, LineagesInv, RowsInv, Others, Evaluation!OneRun
  <1> QED BY <1>2, <1>3 DEF Evaluation!Rename

(* Into the try, out of the clean-up, or cut off.                          *)
EndStep(p) == \/ Evaluation!MakeEngine(p) \/ Evaluation!RemoveStaging(p) \/ Evaluation!CutShort(p)
              \/ Evaluation!Kill(p)

LEMMA KilledStep ==
  ASSUME Evaluation!EvaluationAssumption, EvaluationInv, NEW p \in Evaluators, EndStep(p)
  PROVE  Kept(p)
  <1>1. EvaluationTypes /\ Evaluation!LineageInv /\ Evaluation!SummaryIsExact /\ EvaluatorInv(p)
    BY DEF EvaluationInv
  <1>2. PICK to \in {"generate", "ended", "cut", "killed"} :
          /\ Moved(p, to, before[p], engine[p], results[p]) /\ UNCHANGED output
          /\ to = "killed" \/ phase[p] \in {"staged", "cleanup"}
          /\ p \notin staging' \/ to # "ended"
    BY <1>1, Numbers DEF EndStep, Evaluation!MakeEngine, Evaluation!RemoveStaging,
                         Evaluation!CutShort, Evaluation!Kill, Moved, Evaluation!Goto,
                         Evaluation!Move, Evaluation!At, Evaluation!Refused, Outcomes,
                         Evaluation!Phases, Evaluation!Working, Evaluation!run_state
  <1>3. /\ EvaluationTypes' /\ Evaluation!LineageInv' /\ Others(p) /\ Evaluation!SummaryIsExact'
        /\ phase'[p] = to /\ before'[p] = before[p] /\ engine'[p] = engine[p]
        /\ results'[p] = results[p]
    BY <1>1, <1>2, MovedFrame, SummarySame
  <1>4. LineagesInv(p)' /\ RowsInv(p)'
    BY <1>1, <1>2, <1>3 DEF EvaluatorInv, LineagesInv, RowsInv, Others, Evaluation!OneRun
  <1> QED BY <1>2, <1>3, <1>4 DEF Kept, EvaluatorInv, Evaluation!Working

(* The world goes forward: what was replaced does not come back.           *)
LEMMA EditStep ==
  ASSUME Evaluation!EvaluationAssumption, EvaluationInv, Evaluation!Edit
  PROVE  EvaluationInv'
  <1>1. EvaluationTypes /\ Evaluation!LineageInv /\ Evaluation!SummaryIsExact
          /\ Evaluation!RunAssumption
    BY DEF EvaluationInv, Evaluation!EvaluationAssumption
  <1>2. UNCHANGED <<Evaluation!loader, stage, lineage, given, phase, before, engine, results,
          staging, output,
                    outcome, faults>>
    BY DEF Evaluation!Edit, Evaluation!loader, Evaluation!run_state
  <1>3. Evaluation!LineageInv' /\ run'["metadata"] \in Nat /\ run["metadata"] <= run'["metadata"]
    <2>1. CASE Evaluation!Replace
      <3>1. Evaluation!LineageInv'
        BY <1>1, <1>2, <2>1, Evaluation!ReplaceKeeps
      <3>2. run' \in [Evaluation!Parts -> Evaluation!Runs]
              /\ \A part \in Evaluation!Parts : run[part] <= run'[part]
        BY <1>1, <2>1, Evaluation!ReplaceGrows
      <3> QED BY <3>1, <3>2 DEF Evaluation!Parts, Evaluation!Runs
    <2>2. CASE UNCHANGED Evaluation!disk
      <3>1. Evaluation!LineageInv'
        BY <1>1, <1>2, <2>2, Evaluation!StillKeeps
      <3>2. run' = run /\ run["metadata"] \in Nat
        BY <1>1, <2>2, Evaluation!SameRun
      <3> QED BY <3>1, <3>2
    <2> QED BY <2>1, <2>2 DEF Evaluation!Edit
  <1>4. /\ artifact' \in 1 .. LastArtifact /\ artifact <= artifact' /\ artifact' \in Nat
        /\ runtime' \in 1 .. LastRuntime
    BY <1>1 DEF Evaluation!Edit, EvaluationTypes, Evaluation!EvaluationAssumption
  <1>5. EvaluationTypes'
    BY <1>1, <1>2, <1>4 DEF EvaluationTypes
  <1>6. \A q \in Evaluators : EvaluatorInv(q)'
    BY <1>1, <1>2, <1>3, <1>4, OthersKeep DEF EvaluationInv
  <1> QED BY <1>1, <1>2, <1>3, <1>5, <1>6, SummarySame DEF EvaluationInv

LEMMA OwnStep ==
  ASSUME Evaluation!EvaluationAssumption, EvaluationInv, NEW p \in Evaluators,
         Evaluation!Evaluate(p) \/ Evaluation!Interrupt(p) \/ EndStep(p)
  PROVE  Kept(p)
  <1>1. CASE Evaluation!LoadRefused(p)
    BY <1>1, RefuseKeeps DEF Evaluation!LoadRefused
  <1>2. CASE Evaluation!Interrupt(p)
    BY <1>2, RefuseKeeps DEF Evaluation!Interrupt, Evaluation!Working
  <1> QED BY <1>1, <1>2, StartStep, LoadOwn, LoadedStep, IdentifyStep, EngineLoadStep,
             GenerateStep, UnloadStep, ReloadedStep, IdentifyAgainStep, RenameStep, KilledStep
          DEF Evaluation!Evaluate, EndStep

LEMMA EvaluationInit ==
  ASSUME Evaluation!EvaluationAssumption, Evaluation!Init
  PROVE  EvaluationInv
  <1>1. /\ Evaluation!RunAssumption /\ Evaluation!Nothing \in Evaluation!Lineages
             /\ Evaluation!Nothing.metadata = 0
        /\ Evaluation!Nothing.merged = 0 /\ Evaluation!Nothing.receipt = 0
    BY Evaluation!NothingType DEF Evaluation!EvaluationAssumption
  <1>2. Evaluation!LineageTypeOK
    BY <1>1 DEF Evaluation!Init, Evaluation!LineageInit, Evaluation!LineageTypeOK,
                Evaluation!RunAssumption, Evaluation!Runs, Evaluation!Stages, Evaluation!Parts
  <1>3. Evaluation!LineageInv
    <2>1. run["metadata"] = 1 /\ run["merged"] = 1
      BY DEF Evaluation!Init, Evaluation!LineageInit, Evaluation!Parts
    <2>2. \A p \in Evaluators : stage[p] = "idle" /\ lineage[p] = Evaluation!Nothing
      BY DEF Evaluation!Init, Evaluation!LineageInit
    <2> QED BY <1>1, <1>2, <2>1, <2>2 DEF Evaluation!LineageInv, Evaluation!Reads
  <1>4. EvaluationTypes
    <2>1. [lineage |-> Evaluation!Nothing, runtime |-> 0] \in Firsts
      BY <1>1 DEF Firsts, Evaluation!EvaluationAssumption
    <2>2. <<>> \in Seq(Nat) /\ 0 \in 0 .. LastArtifact /\ 0 \in 0 .. MaxEvaluationFaults
          /\ 1 \in 1 .. LastArtifact /\ 1 \in 1 .. LastRuntime
      BY DEF Evaluation!EvaluationAssumption
    <2> QED BY <2>1, <2>2 DEF Evaluation!Init, EvaluationTypes, Evaluation!Phases, Outcomes
  <1>5. ASSUME NEW p \in Evaluators PROVE EvaluatorInv(p)
    <2>1. /\ phase[p] = "start" /\ before[p].lineage = Evaluation!Nothing /\ engine[p] = 0
               /\ results[p] = <<>>
          /\ staging = {} /\ artifact = 1
      BY DEF Evaluation!Init
    <2>2. LineagesInv(p)
      BY <2>1 DEF LineagesInv
    <2>3. RowsInv(p)
      BY <2>1 DEF RowsInv, Evaluation!EvaluationAssumption
    <2> QED BY <2>1, <2>2, <2>3 DEF EvaluatorInv
  <1> QED BY <1>3, <1>4, <1>5 DEF EvaluationInv, Evaluation!Init, Evaluation!SummaryIsExact

LEMMA EvaluationStep ==
  ASSUME Evaluation!EvaluationAssumption, EvaluationInv, [Evaluation!Next]_Evaluation!vars
  PROVE  EvaluationInv'
  <1>1. EvaluationTypes /\ Evaluation!LineageInv /\ Evaluation!SummaryIsExact
          /\ Evaluation!RunAssumption
    BY DEF EvaluationInv, Evaluation!EvaluationAssumption
  <1>2. CASE Evaluation!Edit
    BY <1>2, EditStep
  <1>3. ASSUME NEW p \in Evaluators, Evaluation!Evaluate(p) \/ Evaluation!Interrupt(p)
                 \/ EndStep(p)
        PROVE  EvaluationInv'
    <2>1. Kept(p)
      BY <1>3, OwnStep
    <2>2. /\ run' = run /\ artifact' = artifact /\ given' = given
          /\ run["metadata"] \in Nat /\ artifact \in Nat
      BY <1>1, <2>1, Numbers DEF Kept, Others
    <2>3. \A q \in Evaluators \ {p} : EvaluatorInv(q)'
      BY <1>1, <2>1, <2>2, OthersKeep DEF Kept, Others, EvaluationInv
    <2> QED BY <2>1, <2>3 DEF Kept, EvaluationInv
  <1>4. CASE UNCHANGED Evaluation!vars
    <2>1. UNCHANGED <<Evaluation!disk, Evaluation!loader, run, stage, lineage, artifact,
            runtime, given, phase, before,
                      engine, results, staging, output, outcome, faults>>
      BY <1>4 DEF Evaluation!vars, Evaluation!disk, Evaluation!loader, Evaluation!run_state
    <2>2. Evaluation!LineageInv'
      BY <1>1, <2>1, Evaluation!StillKeeps
    <2>3. EvaluationTypes'
      BY <1>1, <2>1 DEF EvaluationTypes
    <2>4. \A q \in Evaluators : EvaluatorInv(q)'
      <3> SUFFICES ASSUME NEW q \in Evaluators PROVE EvaluatorInv(q)'
        OBVIOUS
      <3>1. run["metadata"] \in Nat /\ artifact \in Nat
        BY <1>1, Numbers
      <3> QED BY <1>1, <2>1, <3>1, OthersKeep DEF EvaluationInv
    <2> QED BY <1>1, <2>1, <2>2, <2>3, <2>4, SummarySame DEF EvaluationInv
  <1> QED BY <1>2, <1>3, <1>4 DEF Evaluation!Next, EndStep

LEMMA EvaluationPromises ==
  ASSUME EvaluationInv
  PROVE  Evaluation!TypeOK /\ Evaluation!SummaryIsExact /\ Evaluation!StagingRemoved
  <1>1. Evaluation!TypeOK
    BY DEF EvaluationInv, EvaluationTypes, Evaluation!LineageInv, EvaluatorInv, RowsInv,
           Evaluation!TypeOK, Firsts, Outcomes
  <1>2. Evaluation!StagingRemoved
    BY DEF EvaluationInv, EvaluationTypes, EvaluatorInv, Evaluation!StagingRemoved
  <1> QED BY <1>1, <1>2 DEF EvaluationInv

LEMMA ResultsKept == ASSUME [Evaluation!Next]_Evaluation!vars PROVE Evaluation!ResultsStayStep
  <1>1. CASE UNCHANGED output
    BY <1>1 DEF Evaluation!ResultsStayStep
  <1>2. ASSUME NEW p \in Evaluators, Evaluation!Rename(p) PROVE Evaluation!ResultsStayStep
    BY <1>1, <1>2 DEF Evaluation!Rename, Evaluation!RenameSucceeds, Evaluation!Refuse,
                      Evaluation!ResultsStayStep
  <1>3. ASSUME NEW p \in Evaluators, Evaluation!Evaluate(p) \/ Evaluation!Interrupt(p)
                 \/ EndStep(p) PROVE Evaluation!ResultsStayStep
    BY <1>1, <1>2, <1>3 DEF Evaluation!Evaluate, Evaluation!Start, Evaluation!Load,
                            Evaluation!LoadRefused, Evaluation!Loaded, Evaluation!Identify,
                            Evaluation!EngineLoad, Evaluation!Generate, Evaluation!Unload,
                            Evaluation!Reloaded, Evaluation!IdentifyAgain,
                            Evaluation!Interrupt, Evaluation!Kill, Evaluation!Move,
                            Evaluation!MakeEngine, Evaluation!RemoveStaging,
                            Evaluation!CutShort, EndStep, Evaluation!Refuse
  <1> QED BY <1>1, <1>3 DEF Evaluation!Next, Evaluation!Edit, Evaluation!vars, EndStep

-----------------------------------------------------------------------------
(* Plans put together from parts.                                          *)

(* One part of the plan and then another. *)
Then(s, t) == s \o t

Joins(S, s, t, n, m) ==
  /\ Then(s, t) \in Seq(S) /\ Len(Then(s, t)) = n + m
  /\ \A k \in 1 .. n : Then(s, t)[k] = s[k]
  /\ \A k \in (n + 1) .. (n + m) : Then(s, t)[k] = t[k - n]

LEMMA Joined ==
  ASSUME NEW S, NEW s \in Seq(S), NEW t \in Seq(S)
  PROVE  Joins(S, s, t, Len(s), Len(t))
  BY DEF Then, Joins

-----------------------------------------------------------------------------
(* The libraries of llama.cpp.                                             *)

(* The plan, place by place: how many links and files, and where the second *)
(* pass begins.                                                             *)
nLinks == Len(Build.links)
nFiles == Len(Build.files)
SecondStart == 3 + nLinks + nFiles
LibraryVerbs == {"status", "names", "link", "file", "again", "relink", "restatus"}
LibraryTasks == [do : LibraryVerbs, of :
    Libraries!Entries(Build.links) \cup Libraries!Entries(Build.files) \cup {"none"}]

OneTask(part, what) == part \in Seq(LibraryTasks) /\ Len(part) = 1 /\ part[1].do = what
ManyTasks(part, what, those) ==
  /\ part \in Seq(LibraryTasks) /\ Len(part) = Len(those)
  /\ \A i \in 1 .. Len(those) : part[i].do = what /\ part[i].of = those[i]

LEMMA OneTaskIs == ASSUME NEW what \in LibraryVerbs PROVE OneTask(Libraries!Once(what), what)
  BY DEF Libraries!Once, LibraryTasks, OneTask

LEMMA ManyTasksAre ==
  ASSUME NEW what \in LibraryVerbs, NEW those, those = Build.links \/ those = Build.files,
      Libraries!NamesAssumption
  PROVE  ManyTasks(Libraries!Task(what, those), what, those)
  <1>1. those \in Seq(Libraries!Entries(Build.links) \cup Libraries!Entries(Build.files))
    BY DEF Libraries!NamesAssumption
  <1> QED BY <1>1 DEF Libraries!Task, LibraryTasks, ManyTasks

LEMMA FirstPlan ==
  ASSUME Libraries!NamesAssumption
  PROVE  /\ nLinks \in Nat /\ nFiles \in Nat
         /\ Libraries!FirstPass \in Seq(LibraryTasks)
         /\ Len(Libraries!FirstPass) = 2 + nLinks + nFiles
         /\ Libraries!FirstPass[1].do = "status" /\ Libraries!FirstPass[2].do = "names"
         /\ \A i \in 1 .. nLinks : Libraries!FirstPass[2 + i].do = "link"
              /\ Libraries!FirstPass[2 + i].of = Build.links[i]
         /\ \A i \in 1 .. nFiles : Libraries!FirstPass[2 + nLinks + i].do = "file"
              /\ Libraries!FirstPass[2 + nLinks + i].of = Build.files[i]
  <1> DEFINE P == Libraries!FirstPass
             a == Libraries!Once("status")
             b == Libraries!Once("names")
             c == Libraries!Task("link", Build.links)
             d == Libraries!Task("file", Build.files)
             ab == Then(a, b)
             abc == Then(ab, c)
             abcd == Then(abc, d)
  <1>1. nLinks \in Nat /\ nFiles \in Nat
    BY DEF Libraries!NamesAssumption, nLinks, nFiles
  <1>2. /\ a \in Seq(LibraryTasks) /\ Len(a) = 1 /\ a[1].do = "status"
        /\ b \in Seq(LibraryTasks) /\ Len(b) = 1 /\ b[1].do = "names"
    <2>1. OneTask(a, "status") /\ OneTask(b, "names")
      BY OneTaskIs DEF LibraryVerbs
    <2> HIDE DEF a, b
    <2> QED BY <2>1 DEF OneTask
  <1>3. /\ c \in Seq(LibraryTasks) /\ Len(c) = nLinks
        /\ \A i \in 1 .. nLinks : c[i].do = "link" /\ c[i].of = Build.links[i]
    <2>1. ManyTasks(c, "link", Build.links)
      BY ManyTasksAre DEF LibraryVerbs
    <2> HIDE DEF c
    <2> QED BY <2>1 DEF ManyTasks, nLinks
  <1>4. /\ d \in Seq(LibraryTasks) /\ Len(d) = nFiles
        /\ \A i \in 1 .. nFiles : d[i].do = "file" /\ d[i].of = Build.files[i]
    <2>1. ManyTasks(d, "file", Build.files)
      BY ManyTasksAre DEF LibraryVerbs
    <2> HIDE DEF d
    <2> QED BY <2>1 DEF ManyTasks, nFiles
  <1>5. P = abcd
    BY DEF Libraries!FirstPass, Then
  <1> HIDE DEF P, a, b, c, d
  <1>6. Joins(LibraryTasks, a, b, 1, 1)
    BY <1>2, Joined
  <1>7. ab \in Seq(LibraryTasks) /\ Len(ab) = 2
    BY <1>6 DEF Joins
  <1>8. Joins(LibraryTasks, ab, c, 2, nLinks)
    BY <1>3, <1>7, Joined
  <1>9. abc \in Seq(LibraryTasks) /\ Len(abc) = 2 + nLinks
    BY <1>8 DEF Joins
  <1>10. Joins(LibraryTasks, abc, d, 2 + nLinks, nFiles)
    BY <1>4, <1>9, Joined
  <1>11. /\ P \in Seq(LibraryTasks) /\ Len(P) = 2 + nLinks + nFiles
         /\ \A k \in 1 .. 2 + nLinks : P[k] = abc[k]
         /\ \A k \in (2 + nLinks + 1) .. (2 + nLinks + nFiles) : P[k] = d[k - (2 + nLinks)]
    BY <1>5, <1>10 DEF Joins
  <1>12. /\ \A k \in 1 .. 2 : abc[k] = ab[k]
         /\ \A k \in 3 .. 2 + nLinks : abc[k] = c[k - 2]
    BY <1>8 DEF Joins
  <1>13. ab[1] = a[1] /\ ab[2] = b[1]
    BY <1>6 DEF Joins
  <1> HIDE DEF ab, abc, abcd
  <1>14. P[1].do = "status" /\ P[2].do = "names"
    BY <1>1, <1>2, <1>11, <1>12, <1>13
  <1>15. ASSUME NEW i \in 1 .. nLinks PROVE P[2 + i].do = "link" /\ P[2 + i].of = Build.links[i]
    <2>1. 2 + i \in 3 .. 2 + nLinks /\ 2 + i \in 1 .. 2 + nLinks /\ (2 + i) - 2 = i
      BY <1>1
    <2>2. P[2 + i] = c[i]
      BY <1>11, <1>12, <2>1
    <2> QED BY <1>3, <2>2
  <1>16. ASSUME NEW i \in 1 .. nFiles PROVE P[2 + nLinks + i].do = "file"
             /\ P[2 + nLinks + i].of = Build.files[i]
    <2>1. 2 + nLinks + i \in (2 + nLinks + 1) .. (2 + nLinks + nFiles)
              /\ (2 + nLinks + i) - (2 + nLinks) = i
      BY <1>1
    <2>2. P[2 + nLinks + i] = d[i]
      BY <1>11, <2>1
    <2> QED BY <1>4, <2>2
  <1> QED BY <1>1, <1>11, <1>14, <1>15, <1>16 DEF P

LEMMA SecondPlan ==
  ASSUME Libraries!NamesAssumption
  PROVE  /\ Libraries!SecondPass \in Seq(LibraryTasks)
         /\ Len(Libraries!SecondPass) = 3 + nLinks + nFiles
         /\ Libraries!SecondPass[1].do = "again"
         /\ \A i \in 1 .. nFiles : Libraries!SecondPass[1 + i].do = "file"
              /\ Libraries!SecondPass[1 + i].of = Build.files[i]
         /\ \A i \in 1 .. nLinks : Libraries!SecondPass[1 + nFiles + i].do = "relink"
         /\ Libraries!SecondPass[2 + nLinks + nFiles].do = "names"
         /\ Libraries!SecondPass[3 + nLinks + nFiles].do = "restatus"
  <1> DEFINE P == Libraries!SecondPass
             a == Libraries!Once("again")
             b == Libraries!Task("file", Build.files)
             c == Libraries!Task("relink", Build.links)
             d == Libraries!Once("names")
             e == Libraries!Once("restatus")
             ab == Then(a, b)
             abc == Then(ab, c)
             abcd == Then(abc, d)
             abcde == Then(abcd, e)
  <1>1. nLinks \in Nat /\ nFiles \in Nat
    BY DEF Libraries!NamesAssumption, nLinks, nFiles
  <1>2. /\ a \in Seq(LibraryTasks) /\ Len(a) = 1 /\ a[1].do = "again"
        /\ d \in Seq(LibraryTasks) /\ Len(d) = 1 /\ d[1].do = "names"
        /\ e \in Seq(LibraryTasks) /\ Len(e) = 1 /\ e[1].do = "restatus"
    <2>1. OneTask(a, "again") /\ OneTask(d, "names") /\ OneTask(e, "restatus")
      BY OneTaskIs DEF LibraryVerbs
    <2> HIDE DEF a, d, e
    <2> QED BY <2>1 DEF OneTask
  <1>3. /\ b \in Seq(LibraryTasks) /\ Len(b) = nFiles
        /\ \A i \in 1 .. nFiles : b[i].do = "file" /\ b[i].of = Build.files[i]
    <2>1. ManyTasks(b, "file", Build.files)
      BY ManyTasksAre DEF LibraryVerbs
    <2> HIDE DEF b
    <2> QED BY <2>1 DEF ManyTasks, nFiles
  <1>4. /\ c \in Seq(LibraryTasks) /\ Len(c) = nLinks /\ \A i \in 1 .. nLinks : c[i].do = "relink"
    <2>1. ManyTasks(c, "relink", Build.links)
      BY ManyTasksAre DEF LibraryVerbs
    <2> HIDE DEF c
    <2> QED BY <2>1 DEF ManyTasks, nLinks
  <1>5. P = abcde
    BY DEF Libraries!SecondPass, Then
  <1> HIDE DEF P, a, b, c, d, e
  <1>6. Joins(LibraryTasks, a, b, 1, nFiles)
    BY <1>2, <1>3, Joined
  <1>7. ab \in Seq(LibraryTasks) /\ Len(ab) = 1 + nFiles
    BY <1>6 DEF Joins
  <1>8. Joins(LibraryTasks, ab, c, 1 + nFiles, nLinks)
    BY <1>4, <1>7, Joined
  <1>9. abc \in Seq(LibraryTasks) /\ Len(abc) = 1 + nFiles + nLinks
    BY <1>8 DEF Joins
  <1>10. Joins(LibraryTasks, abc, d, 1 + nFiles + nLinks, 1)
    BY <1>2, <1>9, Joined
  <1>11. abcd \in Seq(LibraryTasks) /\ Len(abcd) = 1 + nFiles + nLinks + 1
    BY <1>10 DEF Joins
  <1>12. Joins(LibraryTasks, abcd, e, 1 + nFiles + nLinks + 1, 1)
    BY <1>2, <1>11, Joined
  <1>13. /\ P \in Seq(LibraryTasks) /\ Len(P) = 1 + nFiles + nLinks + 1 + 1
         /\ \A k \in 1 .. 1 + nFiles + nLinks + 1 : P[k] = abcd[k]
         /\ \A k \in (1 + nFiles + nLinks + 1 + 1) .. (1 + nFiles + nLinks + 1 + 1) :
              P[k] = e[k - (1 + nFiles + nLinks + 1)]
    BY <1>5, <1>12 DEF Joins
  <1>14. /\ \A k \in 1 .. 1 + nFiles + nLinks : abcd[k] = abc[k]
         /\ \A k \in (1 + nFiles + nLinks + 1) .. (1 + nFiles + nLinks + 1) :
              abcd[k] = d[k - (1 + nFiles + nLinks)]
    BY <1>10 DEF Joins
  <1>15. /\ \A k \in 1 .. 1 + nFiles : abc[k] = ab[k]
         /\ \A k \in (1 + nFiles + 1) .. (1 + nFiles + nLinks) : abc[k] = c[k - (1 + nFiles)]
    BY <1>8 DEF Joins
  <1>16. /\ \A k \in 1 .. 1 : ab[k] = a[k]
         /\ \A k \in (1 + 1) .. (1 + nFiles) : ab[k] = b[k - 1]
    BY <1>6 DEF Joins
  <1> HIDE DEF ab, abc, abcd, abcde
  <1>17. P[1].do = "again"
    <2>1. 1 \in 1 .. 1 + nFiles /\ 1 \in 1 .. 1 + nFiles + nLinks
              /\ 1 \in 1 .. 1 + nFiles + nLinks + 1 /\ 1 \in 1 .. 1
      BY <1>1
    <2> QED BY <1>2, <1>13, <1>14, <1>15, <1>16, <2>1
  <1>18. ASSUME NEW i \in 1 .. nFiles PROVE P[1 + i].do = "file" /\ P[1 + i].of = Build.files[i]
    <2> DEFINE k == 1 + i
    <2>1. /\ k \in 1 .. 1 + nFiles /\ k \in 1 .. 1 + nFiles + nLinks
          /\ k \in 1 .. 1 + nFiles + nLinks + 1
          /\ k \in (1 + 1) .. (1 + nFiles) /\ k - 1 = i
      BY <1>1
    <2> HIDE DEF k
    <2>2. P[k] = b[i]
      BY <1>13, <1>14, <1>15, <1>16, <2>1
    <2> QED BY <1>3, <2>2 DEF k
  <1>19. ASSUME NEW i \in 1 .. nLinks PROVE P[1 + nFiles + i].do = "relink"
    <2> DEFINE k == 1 + nFiles + i
    <2>1. /\ k \in 1 .. 1 + nFiles + nLinks /\ k \in 1 .. 1 + nFiles + nLinks + 1
          /\ k \in (1 + nFiles + 1) .. (1 + nFiles + nLinks) /\ k - (1 + nFiles) = i
      BY <1>1
    <2> HIDE DEF k
    <2>2. P[k] = c[i]
      BY <1>13, <1>14, <1>15, <2>1
    <2> QED BY <1>4, <2>2 DEF k
  <1>20. P[2 + nLinks + nFiles].do = "names"
    <2> DEFINE k == 2 + nLinks + nFiles
    <2>1. /\ k \in 1 .. 1 + nFiles + nLinks + 1
          /\ k \in (1 + nFiles + nLinks + 1) .. (1 + nFiles + nLinks + 1)
          /\ k - (1 + nFiles + nLinks) = 1
      BY <1>1
    <2> HIDE DEF k
    <2> QED BY <1>2, <1>13, <1>14, <2>1 DEF k
  <1>21. P[3 + nLinks + nFiles].do = "restatus"
    <2> DEFINE k == 3 + nLinks + nFiles
    <2>1. k \in (1 + nFiles + nLinks + 1 + 1) .. (1 + nFiles + nLinks + 1 + 1)
              /\ k - (1 + nFiles + nLinks + 1) = 1
      BY <1>1
    <2> HIDE DEF k
    <2> QED BY <1>2, <1>13, <2>1 DEF k
  <1>22. Len(P) = 3 + nLinks + nFiles
    BY <1>1, <1>13
  <1> QED BY <1>13, <1>17, <1>18, <1>19, <1>20, <1>21, <1>22 DEF P

(* The task at each place of the plan.                                     *)
LibraryPlace(k) ==
  \/ k = 1 /\ Libraries!Plan[k].do = "status"
  \/ k = 2 /\ Libraries!Plan[k].do = "names"
  \/ k \in 3 .. 2 + nLinks /\ Libraries!Plan[k].do = "link"
       /\ Libraries!Plan[k].of = Build.links[k - 2]
  \/ k \in 3 + nLinks .. 2 + nLinks + nFiles /\ Libraries!Plan[k].do = "file"
       /\ Libraries!Plan[k].of \in Libraries!Entries(Build.files)
  \/ k = SecondStart /\ Libraries!Plan[k].do = "again"
  \/ /\ k \in SecondStart + 1 .. SecondStart + nFiles /\ Libraries!Plan[k].do = "file"
       /\ Libraries!Plan[k].of = Build.files[k - SecondStart]
     /\ Libraries!Plan[k].of \in Libraries!Entries(Build.files)
  \/ k \in SecondStart + nFiles + 1 .. SecondStart + nFiles + nLinks
       /\ Libraries!Plan[k].do = "relink"
  \/ k = SecondStart + nFiles + nLinks + 1 /\ Libraries!Plan[k].do = "names"
  \/ k = Len(Libraries!Plan) /\ Libraries!Plan[k].do = "restatus"

LEMMA ClosureTasks ==
  ASSUME Libraries!NamesAssumption
  PROVE  /\ nLinks \in Nat /\ nFiles \in Nat
         /\ Len(Libraries!Plan) = 5 + 2 * nLinks + 2 * nFiles
         /\ \A k \in 1 .. Len(Libraries!Plan) : LibraryPlace(k)
  <1> DEFINE P == Libraries!Plan
             A == Libraries!FirstPass
             B == Libraries!SecondPass
  <1>1. /\ nLinks \in Nat /\ nFiles \in Nat
        /\ A \in Seq(LibraryTasks) /\ Len(A) = 2 + nLinks + nFiles
        /\ A[1].do = "status" /\ A[2].do = "names"
        /\ \A i \in 1 .. nLinks : A[2 + i].do = "link" /\ A[2 + i].of = Build.links[i]
        /\ \A i \in 1 .. nFiles : A[2 + nLinks + i].do = "file"
             /\ A[2 + nLinks + i].of = Build.files[i]
    BY FirstPlan
  <1>2. /\ B \in Seq(LibraryTasks) /\ Len(B) = 3 + nLinks + nFiles
        /\ B[1].do = "again"
        /\ \A i \in 1 .. nFiles : B[1 + i].do = "file" /\ B[1 + i].of = Build.files[i]
        /\ \A i \in 1 .. nLinks : B[1 + nFiles + i].do = "relink"
        /\ B[2 + nLinks + nFiles].do = "names" /\ B[3 + nLinks + nFiles].do = "restatus"
    BY SecondPlan
  <1>3. P = Then(A, B)
    BY DEF Libraries!Plan, Then
  <1> HIDE DEF A, B
  <1>4. Joins(LibraryTasks, A, B, 2 + nLinks + nFiles, 3 + nLinks + nFiles)
    BY <1>1, <1>2, Joined
  <1>5. /\ Len(P) = (2 + nLinks + nFiles) + (3 + nLinks + nFiles)
        /\ \A k \in 1 .. 2 + nLinks + nFiles : P[k] = A[k]
        /\ \A k \in (2 + nLinks + nFiles + 1) .. (2 + nLinks + nFiles + (3 + nLinks + nFiles)) :
             P[k] = B[k - (2 + nLinks + nFiles)]
    BY <1>3, <1>4 DEF Joins
  <1>6. Len(P) = 5 + 2 * nLinks + 2 * nFiles
    BY <1>1, <1>5
  <1>7. \A i \in 1 .. nFiles : Build.files[i] \in Libraries!Entries(Build.files)
    BY DEF Libraries!NamesAssumption, nFiles
  <1>8. ASSUME NEW k \in 1 .. Len(P)
        PROVE  LibraryPlace(k)
    <2>1. \/ k = 1 \/ k = 2 \/ k \in 3 .. 2 + nLinks
               \/ k \in 3 + nLinks .. 2 + nLinks + nFiles \/ k = SecondStart
          \/ k \in SecondStart + 1 .. SecondStart + nFiles
               \/ k \in SecondStart + nFiles + 1 .. SecondStart + nFiles + nLinks
          \/ k = SecondStart + nFiles + nLinks + 1 \/ k = Len(P)
      <3>1. /\ nLinks \in Nat /\ nFiles \in Nat /\ SecondStart = 3 + nLinks + nFiles
            /\ Len(P) = 5 + 2 * nLinks + 2 * nFiles
            /\ k \in 1 .. Len(P)
        BY <1>1, <1>6 DEF SecondStart
      <3> HIDE DEF SecondStart
      <3> QED BY <3>1
    <2>2. CASE k = 1 \/ k = 2
      BY <1>1, <1>5, <2>2 DEF LibraryPlace
    <2>3. CASE k \in 3 .. 2 + nLinks
      <3>1. k - 2 \in 1 .. nLinks /\ 2 + (k - 2) = k /\ k \in 1 .. 2 + nLinks + nFiles
        BY <1>1, <2>3
      <3>2. P[k] = A[k] /\ A[k].do = "link" /\ A[k].of = Build.links[k - 2]
        BY <1>1, <1>5, <3>1
      <3> QED BY <2>3, <3>2 DEF LibraryPlace
    <2>4. CASE k \in 3 + nLinks .. 2 + nLinks + nFiles
      <3>1. k - (2 + nLinks) \in 1 .. nFiles /\ 2 + nLinks + (k - (2 + nLinks)) = k
                /\ k \in 1 .. 2 + nLinks + nFiles
        BY <1>1, <2>4
      <3>2. P[k] = A[k] /\ A[k].do = "file" /\ A[k].of = Build.files[k - (2 + nLinks)]
        BY <1>1, <1>5, <3>1
      <3> QED BY <1>7, <2>4, <3>1, <3>2 DEF LibraryPlace
    <2> DEFINE j == k - (2 + nLinks + nFiles)
    <2>5. k > 2 + nLinks + nFiles => P[k] = B[j]
      <3> SUFFICES ASSUME k > 2 + nLinks + nFiles PROVE P[k] = B[j]
        OBVIOUS
      <3>1. k \in (2 + nLinks + nFiles + 1) .. (2 + nLinks + nFiles + (3 + nLinks + nFiles))
        BY <1>1, <1>5
      <3> QED BY <1>5, <3>1
    <2>6. CASE k = SecondStart
      <3>1. k > 2 + nLinks + nFiles /\ j = 1
        BY <1>1, <2>6 DEF SecondStart
      <3> QED BY <1>2, <2>5, <2>6, <3>1 DEF LibraryPlace
    <2>7. CASE k \in SecondStart + 1 .. SecondStart + nFiles
      <3>1. k > 2 + nLinks + nFiles /\ k - SecondStart \in 1 .. nFiles
                /\ j = 1 + (k - SecondStart)
        BY <1>1, <2>7 DEF SecondStart
      <3>2. P[k].do = "file" /\ P[k].of = Build.files[k - SecondStart]
        BY <1>2, <2>5, <3>1
      <3> QED BY <1>7, <2>7, <3>1, <3>2 DEF LibraryPlace
    <2>8. CASE k \in SecondStart + nFiles + 1 .. SecondStart + nFiles + nLinks
      <3>1. k > 2 + nLinks + nFiles /\ k - (SecondStart + nFiles) \in 1 .. nLinks
                /\ j = 1 + nFiles + (k - (SecondStart + nFiles))
        BY <1>1, <2>8 DEF SecondStart
      <3>2. P[k].do = "relink"
        BY <1>2, <2>5, <3>1
      <3> QED BY <2>8, <3>2 DEF LibraryPlace
    <2>9. CASE k = SecondStart + nFiles + nLinks + 1
      <3>1. k > 2 + nLinks + nFiles /\ j = 2 + nLinks + nFiles
        BY <1>1, <2>9 DEF SecondStart
      <3> QED BY <1>2, <2>5, <2>9, <3>1 DEF LibraryPlace
    <2>10. CASE k = Len(P)
      <3>1. k > 2 + nLinks + nFiles /\ j = 3 + nLinks + nFiles
        BY <1>1, <1>6, <2>10
      <3> QED BY <1>2, <2>5, <2>10, <3>1 DEF LibraryPlace
    <2> QED BY <2>1, <2>2, <2>3, <2>4, <2>6, <2>7, <2>8, <2>9, <2>10
  <1> QED BY <1>1, <1>6, <1>8

(* Where each task is; the last one is the directory's second status. *)
ClosurePlan ==
  /\ nLinks \in Nat /\ nFiles \in Nat /\ Len(Libraries!Plan) = 5 + 2 * nLinks + 2 * nFiles
  /\ \A k \in 1 .. Len(Libraries!Plan) :
       /\ Libraries!Plan[k].do = "status" <=> k = 1
       /\ Libraries!Plan[k].do = "link" => k \in 3 .. 2 + nLinks
            /\ Libraries!Plan[k].of = Build.links[k - 2]
       /\ Libraries!Plan[k].do = "file" => Libraries!Plan[k].of \in Libraries!Entries(Build.files)
       /\ Libraries!Plan[k].do = "again" <=> k = SecondStart
       /\ Libraries!Plan[k].do = "restatus" <=> k = Len(Libraries!Plan)
       /\ k \in 3 .. 2 + nLinks => Libraries!Plan[k].do = "link"
       /\ k \in SecondStart + 1 .. SecondStart + nFiles
          => Libraries!Plan[k].do = "file" /\ Libraries!Plan[k].of = Build.files[k - SecondStart]

LEMMA ClosurePlaces == ASSUME Libraries!NamesAssumption PROVE ClosurePlan
  <1> DEFINE P == Libraries!Plan
  <1>1. nLinks \in Nat /\ nFiles \in Nat /\ \A k \in 1 .. Len(P) : LibraryPlace(k)
    BY ClosureTasks
  <1>2. Len(P) = 5 + 2 * nLinks + 2 * nFiles
    BY ClosureTasks
  <1> HIDE DEF P
  <1>3. ASSUME NEW k \in 1 .. Len(P)
        PROVE  /\ P[k].do = "status" <=> k = 1
               /\ P[k].do = "link" => k \in 3 .. 2 + nLinks /\ P[k].of = Build.links[k - 2]
               /\ P[k].do = "file" => P[k].of \in Libraries!Entries(Build.files)
               /\ P[k].do = "again" <=> k = SecondStart
               /\ P[k].do = "restatus" <=> k = Len(P)
               /\ k \in 3 .. 2 + nLinks => P[k].do = "link"
               /\ k \in SecondStart + 1 .. SecondStart + nFiles
                    => P[k].do = "file" /\ P[k].of = Build.files[k - SecondStart]
    <2>1. nLinks \in Nat /\ nFiles \in Nat /\ SecondStart = 3 + nLinks + nFiles
              /\ Len(P) = 5 + 2 * nLinks + 2 * nFiles
      BY <1>1, <1>2 DEF SecondStart
    <2> DEFINE do == P[k].do
    <2>2. CASE k = 1 /\ do = "status"
      BY <2>1, <2>2
    <2>3. CASE k = 2 /\ do = "names"
      BY <2>1, <2>3
    <2>4. CASE k \in 3 .. 2 + nLinks /\ do = "link" /\ P[k].of = Build.links[k - 2]
      BY <2>1, <2>4
    <2>5. CASE k \in 3 + nLinks .. 2 + nLinks + nFiles /\ do = "file"
              /\ P[k].of \in Libraries!Entries(Build.files)
      <3>1. k # 1 /\ k # SecondStart /\ k # Len(P) /\ k \notin 3 .. 2 + nLinks
            /\ k \notin SecondStart + 1 .. SecondStart + nFiles
        BY <2>1, <2>5
      <3> HIDE DEF SecondStart, do
      <3> QED BY <2>5, <3>1 DEF do
    <2>6. CASE k = SecondStart /\ do = "again"
      BY <2>1, <2>6
    <2>7. CASE /\ k \in SecondStart + 1 .. SecondStart + nFiles /\ do = "file"
               /\ P[k].of = Build.files[k - SecondStart]
               /\ P[k].of \in Libraries!Entries(Build.files)
      <3>1. k # 1 /\ k # SecondStart /\ k # Len(P) /\ k \notin 3 .. 2 + nLinks
        BY <2>1, <2>7
      <3> HIDE DEF SecondStart, do
      <3> QED BY <2>7, <3>1 DEF do
    <2>8. CASE k \in SecondStart + nFiles + 1 .. SecondStart + nFiles + nLinks /\ do = "relink"
      <3>1. k # 1 /\ k # SecondStart /\ k # Len(P) /\ k \notin 3 .. 2 + nLinks
            /\ k \notin SecondStart + 1 .. SecondStart + nFiles
        BY <2>1, <2>8
      <3> HIDE DEF SecondStart, do
      <3> QED BY <2>8, <3>1 DEF do
    <2>9. CASE k = SecondStart + nFiles + nLinks + 1 /\ do = "names"
      BY <2>1, <2>9
    <2>10. CASE k = Len(P) /\ do = "restatus"
      BY <2>1, <2>10
    <2> HIDE DEF SecondStart
    <2> QED BY <1>1, <2>2, <2>3, <2>4, <2>5, <2>6, <2>7, <2>8, <2>9, <2>10 DEF LibraryPlace, P
  <1> QED BY <1>1, <1>2, <1>3 DEF ClosurePlan, P

LibraryWorld ==
  /\ edits \in Nat /\ restores \in BOOLEAN
  /\ library \in [Libraries!Entries(Build.files) -> [chunks :
       [Libraries!Chunks -> BOOLEAN], time : Nat]]
  /\ link \in [Libraries!Entries(Build.links) -> [pinned : BOOLEAN, time : Nat]]
  /\ directory \in [extra : BOOLEAN, time : Nat] /\ directory.time <= edits
  /\ \A f \in Libraries!Entries(Build.files) : library[f].time <= edits
(* As long as the time that was noted stays, so do the chunks, and a file   *)
(* that is whole was whole when it was opened.                              *)
LibraryReading ==
  /\ at <= Len(Libraries!Plan) /\ Libraries!Plan[at].do = "file"
  /\ held.of = Libraries!Plan[at].of /\ held.of \in Libraries!Entries(Build.files)
  /\ held.time \in Nat /\ held.time <= edits
  /\ held.chunks \in Seq(BOOLEAN) /\ Len(held.chunks) <= 2
  /\ held = [of |-> held.of, time |-> held.time, chunks |-> held.chunks]
  /\ library[held.of].time = held.time =>
       /\ \A i \in 1 .. Len(held.chunks) : held.chunks[i] = library[held.of].chunks[i]
       /\ Libraries!Whole(held.of) => whole
LibraryReader ==
  /\ at \in 1 .. Len(Libraries!Plan) + 1 /\ verdict \in {"none", "accepted", "refused"}
  /\ verdict = "none" => at <= Len(Libraries!Plan)
  /\ step \in {"none", "read"} /\ whole \in BOOLEAN
  /\ known = [time |-> known.time, links |-> known.links]
  /\ known.time \in Nat /\ known.time <= edits
  /\ seen \in Seq(BOOLEAN) /\ \A i \in 1 .. Len(seen) : seen[i]
  /\ step = "read" => LibraryReading
DirectoryStays == directory.time = known.time
LibraryLinked == DirectoryStays => \A i \in 1 .. nLinks : at > 2 + i
    => link[Build.links[i]].pinned
(* A file that was not whole when the second pass began, and will be found out. *)
WillFail(i) == /\ at <= SecondStart + i /\ ~Libraries!Whole(Build.files[i])
               /\ step = "read" /\ at = SecondStart + i => ~whole
LibraryOnce == at > SecondStart /\ DirectoryStays /\ ~restores
    => instant \/ \E i \in 1 .. nFiles : WillFail(i)
ClosureInv == /\ LibraryWorld /\ LibraryReader /\ LibraryLinked /\ LibraryOnce
              /\ verdict = "accepted" /\ ~restores => instant

LEMMA ClosurePromises == ASSUME ClosureInv PROVE Libraries!SeenWhole /\ Libraries!AcceptedAtOnce
  <1>1. DOMAIN seen = 1 .. Len(seen)
    BY DEF ClosureInv, LibraryReader
  <1> QED BY <1>1 DEF ClosureInv, LibraryReader, Libraries!SeenWhole, Libraries!AcceptedAtOnce

LEMMA ClosureAdvance ==
  ASSUME NEW accepted, Libraries!Advance(accepted), at \in 1 .. Len(Libraries!Plan)
  PROVE  /\ accepted => at' = at + 1 /\ verdict' \in {"none", "accepted"}
         /\ verdict' = "none" => at' <= Len(Libraries!Plan)
         /\ ~accepted => at' = at /\ verdict' = "refused"
         /\ verdict' = "accepted" => accepted /\ at = Len(Libraries!Plan)
         /\ at' \in 1 .. Len(Libraries!Plan) + 1
         /\ restores' = restores /\ library' = library /\ link' = link /\ directory' = directory
         /\ edits' = edits
  <1>1. CASE accepted
    BY <1>1 DEF Libraries!Advance, Libraries!world
  <1>2. CASE ~accepted
    BY <1>2 DEF Libraries!Advance, Libraries!world
  <1> QED BY <1>1, <1>2

(* A task that reads no file and does not begin the second pass.           *)
LEMMA ClosureTask ==
  ASSUME Libraries!NamesAssumption, ClosureInv, NEW accepted, Libraries!Advance(accepted),
      verdict = "none",
         Libraries!Plan[at].do \notin {"file", "again", "status"},
         Libraries!Plan[at].do = "link" /\ accepted => link[Libraries!Plan[at].of].pinned,
         Libraries!Plan[at].do = "restatus" /\ accepted => DirectoryStays,
         step' = step, held' = held, whole' = whole, seen' = seen, instant' = instant,
         known' = [time |-> known.time, links |-> known'.links]
  PROVE  ClosureInv'
  <1>1. at \in 1 .. Len(Libraries!Plan) /\ ClosurePlan /\ step = "none"
    BY ClosurePlaces DEF ClosureInv, LibraryReader, LibraryReading
  <1>2. at # 1 /\ at # SecondStart
    BY <1>1 DEF ClosurePlan
  <1>3. /\ accepted => at' = at + 1 /\ verdict' \in {"none", "accepted"}
        /\ verdict' = "none" => at' <= Len(Libraries!Plan)
        /\ ~accepted => at' = at /\ verdict' = "refused"
        /\ verdict' = "accepted" => accepted /\ at = Len(Libraries!Plan)
        /\ at' \in 1 .. Len(Libraries!Plan) + 1
        /\ restores' = restores /\ library' = library /\ link' = link /\ directory' = directory
        /\ edits' = edits
    BY <1>1, ClosureAdvance
  <1>4. LibraryWorld'
    BY <1>3 DEF ClosureInv, LibraryWorld
  <1>5. known'.time = known.time
    OBVIOUS
  <1>6. LibraryReader'
    <2>1. verdict' \in {"none", "accepted", "refused"}
      BY <1>3
    <2> QED BY <1>1, <1>3, <1>5, <2>1 DEF ClosureInv, LibraryReader
  <1>7. DirectoryStays' <=> DirectoryStays
    BY <1>3, <1>5 DEF DirectoryStays
  <1>8. LibraryLinked'
    <2> SUFFICES ASSUME DirectoryStays, NEW i \in 1 .. nLinks, at' > 2 + i
                 PROVE  link[Build.links[i]].pinned
      BY <1>3, <1>7 DEF LibraryLinked
    <2>1. CASE at > 2 + i
      BY <2>1 DEF ClosureInv, LibraryLinked
    <2>2. CASE ~(at > 2 + i)
      <3>1. accepted /\ at = 2 + i /\ at \in 3 .. 2 + nLinks
        BY <1>1, <1>3, <2>2 DEF ClosurePlan
      <3>2. Libraries!Plan[at].do = "link" /\ Libraries!Plan[at].of = Build.links[at - 2]
                /\ at - 2 = i
        BY <1>1, <3>1 DEF ClosurePlan
      <3> QED BY <3>1, <3>2
    <2> QED BY <2>1, <2>2
  <1>9. ~ \E i \in 1 .. nFiles : at > SecondStart /\ at <= SecondStart + i
    <2> SUFFICES ASSUME NEW i \in 1 .. nFiles, at > SecondStart, at <= SecondStart + i PROVE FALSE
      OBVIOUS
    <2>1. at \in SecondStart + 1 .. SecondStart + nFiles
      BY <1>1 DEF ClosurePlan, SecondStart
    <2> QED BY <1>1, <2>1 DEF ClosurePlan
  <1>10. at' > SecondStart => at > SecondStart
    <2>1. SecondStart \in Int /\ at \in Int
      BY <1>1 DEF ClosurePlan, SecondStart
    <2>2. at' = at \/ at' = at + 1
      BY <1>3
    <2> HIDE DEF SecondStart
    <2> QED BY <1>2, <2>1, <2>2
  <1>11. at > SecondStart /\ DirectoryStays /\ ~restores => instant
    BY <1>9 DEF ClosureInv, LibraryOnce, WillFail
  <1>12. LibraryOnce'
    BY <1>3, <1>7, <1>10, <1>11 DEF LibraryOnce
  <1>13. verdict' = "accepted" /\ ~restores' => instant'
    <2> SUFFICES ASSUME verdict' = "accepted", ~restores PROVE instant
      BY <1>3
    <2>1. accepted /\ at = Len(Libraries!Plan)
      BY <1>3
    <2>2. Libraries!Plan[at].do = "restatus" /\ at > SecondStart
      BY <1>1, <2>1 DEF ClosurePlan, SecondStart
    <2> QED BY <1>11, <2>1, <2>2
  <1> QED BY <1>4, <1>6, <1>8, <1>12, <1>13 DEF ClosureInv

LEMMA ClosureListStep ==
  ASSUME Libraries!NamesAssumption, ClosureInv, Libraries!List
  PROVE  ClosureInv'
  <1>1. /\ verdict = "none" /\ Libraries!Plan[at].do = "names"
        /\ Libraries!Advance(Libraries!Names)
        /\ step' = step /\ held' = held /\ whole' = whole /\ seen' = seen /\ instant' = instant
        /\ known' = known /\ known = [time |-> known.time, links |-> known.links]
    BY DEF Libraries!List, Libraries!Doing, ClosureInv, LibraryReader
  <1>2. known' = [time |-> known.time, links |-> known'.links]
    BY <1>1
  <1> QED BY <1>1, <1>2, ClosureTask

LEMMA ClosureStatLinkStep ==
  ASSUME Libraries!NamesAssumption, ClosureInv, Libraries!StatLink
  PROVE  ClosureInv'
  <1>1. /\ verdict = "none" /\ Libraries!Plan[at].do = "link"
        /\ Libraries!Advance(link[Libraries!This].pinned)
        /\ step' = step /\ held' = held /\ whole' = whole /\ seen' = seen /\ instant' = instant
        /\ known' = [known EXCEPT !.links = Append(@, link[Libraries!This])]
        /\ known = [time |-> known.time, links |-> known.links]
    BY DEF Libraries!StatLink, Libraries!Doing, ClosureInv, LibraryReader
  <1>2. known' = [time |-> known.time, links |-> known'.links]
    BY <1>1
  <1> DEFINE accepted == link[Libraries!This].pinned
  <1>3. accepted => link[Libraries!Plan[at].of].pinned
    BY DEF Libraries!This
  <1>4. Libraries!Advance(accepted)
    BY <1>1
  <1> HIDE DEF accepted
  <1> QED BY <1>1, <1>2, <1>3, <1>4, ClosureTask

LEMMA ClosureStatLinkAgainStep ==
  ASSUME Libraries!NamesAssumption, ClosureInv, Libraries!StatLinkAgain
  PROVE  ClosureInv'
  <1>1. /\ verdict = "none" /\ Libraries!Plan[at].do = "relink"
        /\ \E i \in DOMAIN Build.links :
           Build.links[i] = Libraries!This
               /\ Libraries!Advance(link[Libraries!This] = known.links[i])
        /\ step' = step /\ held' = held /\ whole' = whole /\ seen' = seen /\ instant' = instant
        /\ known' = known /\ known = [time |-> known.time, links |-> known.links]
    BY DEF Libraries!StatLinkAgain, Libraries!Doing, ClosureInv, LibraryReader
  <1>2. known' = [time |-> known.time, links |-> known'.links]
    BY <1>1
  <1>3. PICK i \in DOMAIN Build.links : Libraries!Advance(link[Libraries!This] = known.links[i])
    BY <1>1
  <1> DEFINE accepted == link[Libraries!This] = known.links[i]
  <1>4. Libraries!Advance(accepted)
    BY <1>3
  <1> HIDE DEF accepted
  <1> QED BY <1>1, <1>2, <1>4, ClosureTask

LEMMA ClosureStatDirectoryAgainStep ==
  ASSUME Libraries!NamesAssumption, ClosureInv, Libraries!StatDirectoryAgain PROVE ClosureInv'
  <1>1. /\ verdict = "none" /\ Libraries!Plan[at].do = "restatus"
        /\ Libraries!Advance(Libraries!SameDirectory)
        /\ step' = step /\ held' = held /\ whole' = whole /\ seen' = seen /\ instant' = instant
        /\ known' = known /\ known = [time |-> known.time, links |-> known.links]
    BY DEF Libraries!StatDirectoryAgain, Libraries!Doing, ClosureInv, LibraryReader
  <1>2. known' = [time |-> known.time, links |-> known'.links]
    BY <1>1
  <1>3. Libraries!SameDirectory => DirectoryStays
    BY DEF Libraries!SameDirectory, DirectoryStays
  <1> QED BY <1>1, <1>2, <1>3, ClosureTask

LEMMA ClosureStatDirectoryStep ==
  ASSUME Libraries!NamesAssumption, ClosureInv, Libraries!StatDirectory
  PROVE  ClosureInv'
  <1>1. /\ verdict = "none" /\ Libraries!Plan[at].do = "status" /\ Libraries!Advance(TRUE)
        /\ step' = step /\ held' = held /\ whole' = whole /\ seen' = seen /\ instant' = instant
        /\ known' = [known EXCEPT !.time = directory.time]
        /\ known = [time |-> known.time, links |-> known.links]
    BY DEF Libraries!StatDirectory, Libraries!Doing, ClosureInv, LibraryReader
  <1>2. at \in 1 .. Len(Libraries!Plan) /\ ClosurePlan /\ step = "none"
    BY <1>1, ClosurePlaces DEF ClosureInv, LibraryReader, LibraryReading
  <1>3. at = 1 /\ nLinks \in Nat /\ nFiles \in Nat
            /\ Len(Libraries!Plan) = 5 + 2 * nLinks + 2 * nFiles /\ Len(Libraries!Plan) # 1
    BY <1>1, <1>2 DEF ClosurePlan
  <1>4. /\ at' = 2 /\ verdict' = "none" /\ at' <= Len(Libraries!Plan)
        /\ restores' = restores /\ library' = library /\ link' = link /\ directory' = directory
        /\ edits' = edits
    BY <1>1, <1>3 DEF Libraries!Advance, Libraries!world
  <1>5. LibraryWorld'
    BY <1>4 DEF ClosureInv, LibraryWorld
  <1>6. /\ known' = [time |-> known'.time, links |-> known'.links]
        /\ known'.time \in Nat /\ known'.time <= edits'
    BY <1>1, <1>4 DEF ClosureInv, LibraryWorld
  <1>7. LibraryReader'
    BY <1>1, <1>2, <1>3, <1>4, <1>6 DEF ClosureInv, LibraryReader
  <1>8. LibraryLinked'
    BY <1>3, <1>4 DEF LibraryLinked
  <1>9. LibraryOnce'
    BY <1>3, <1>4 DEF LibraryOnce, SecondStart
  <1> QED BY <1>4, <1>5, <1>7, <1>8, <1>9 DEF ClosureInv

LEMMA ClosureListAgainStep ==
  ASSUME Libraries!NamesAssumption, ClosureInv, Libraries!ListAgain
  PROVE  ClosureInv'
  <1>1. /\ verdict = "none" /\ Libraries!Plan[at].do = "again"
        /\ Libraries!Advance(Libraries!Names)
        /\ step' = step /\ held' = held /\ whole' = whole /\ seen' = seen /\ known' = known
        /\ instant' = /\ \A f \in Libraries!Entries(Build.files) : Libraries!Whole(f)
                      /\ \A k \in Libraries!Entries(Build.links) : link[k].pinned
                      /\ Libraries!Names
    BY DEF Libraries!ListAgain, Libraries!Doing
  <1>2. at \in 1 .. Len(Libraries!Plan) /\ ClosurePlan /\ step = "none"
    BY <1>1, ClosurePlaces DEF ClosureInv, LibraryReader, LibraryReading
  <1>3. at = SecondStart /\ nLinks \in Nat /\ nFiles \in Nat /\ SecondStart # Len(Libraries!Plan)
    BY <1>1, <1>2 DEF ClosurePlan, SecondStart
  <1>4. /\ Libraries!Names => at' = at + 1 /\ verdict' \in {"none", "accepted"}
        /\ verdict' = "none" => at' <= Len(Libraries!Plan)
        /\ ~Libraries!Names => at' = at /\ verdict' = "refused"
        /\ verdict' = "accepted" => Libraries!Names /\ at = Len(Libraries!Plan)
        /\ at' \in 1 .. Len(Libraries!Plan) + 1
        /\ restores' = restores /\ library' = library /\ link' = link /\ directory' = directory
        /\ edits' = edits
    BY <1>1, <1>2, ClosureAdvance
  <1>5. LibraryWorld'
    BY <1>4 DEF ClosureInv, LibraryWorld
  <1>6. LibraryReader'
    <2>1. verdict' \in {"none", "accepted", "refused"}
      BY <1>4
    <2> QED BY <1>1, <1>2, <1>4, <2>1 DEF ClosureInv, LibraryReader
  <1>7. \A i \in 1 .. nLinks : DirectoryStays => link[Build.links[i]].pinned
    BY <1>3 DEF ClosureInv, LibraryLinked, SecondStart
  <1>8. LibraryLinked'
    BY <1>1, <1>4, <1>7 DEF LibraryLinked, DirectoryStays
  <1>9. ASSUME Libraries!Names, DirectoryStays, ~instant'
        PROVE  \E i \in 1 .. nFiles : ~Libraries!Whole(Build.files[i])
    <2>1. \A k \in Libraries!Entries(Build.links) : link[k].pinned
      <3>1. Build.links \in Seq(Libraries!Entries(Build.links))
        BY DEF Libraries!NamesAssumption
      <3>2. DOMAIN Build.links = 1 .. nLinks
        BY <3>1 DEF nLinks
      <3>3. \A i \in DOMAIN Build.links : link[Build.links[i]].pinned
        BY <1>7, <1>9, <3>2
      <3> QED BY <3>3 DEF Libraries!Entries
    <2>2. PICK f \in Libraries!Entries(Build.files) : ~Libraries!Whole(f)
      BY <1>1, <1>9, <2>1
    <2>3. Build.files \in Seq(Libraries!Entries(Build.files))
      BY DEF Libraries!NamesAssumption
    <2>4. DOMAIN Build.files = 1 .. nFiles
      BY <2>3 DEF nFiles
    <2> QED BY <2>2, <2>4 DEF Libraries!Entries
  <1>10. LibraryOnce'
    <2> SUFFICES ASSUME at' > SecondStart, DirectoryStays, ~restores, ~instant'
                 PROVE  \E i \in 1 .. nFiles : WillFail(i)'
      BY <1>1, <1>4 DEF LibraryOnce, DirectoryStays
    <2>1. Libraries!Names /\ at' = SecondStart + 1
      BY <1>3, <1>4 DEF SecondStart
    <2>2. PICK i \in 1 .. nFiles : ~Libraries!Whole(Build.files[i])
      BY <1>9, <2>1
    <2>3. WillFail(i)'
      BY <1>1, <1>2, <1>3, <1>4, <2>1, <2>2 DEF WillFail, Libraries!Whole, SecondStart
    <2> QED BY <2>3
  <1> QED BY <1>3, <1>4, <1>5, <1>6, <1>8, <1>10 DEF ClosureInv

LEMMA ClosureOpenStep ==
  ASSUME Libraries!NamesAssumption, ClosureInv, Libraries!Open
  PROVE  ClosureInv'
  <1>1. /\ verdict = "none" /\ Libraries!Plan[at].do = "file" /\ at <= Len(Libraries!Plan)
        /\ step = "none" /\ step' = "read"
        /\ held' = [of |-> Libraries!This, time |-> library[Libraries!This].time, chunks |-> <<>>]
        /\ whole' = Libraries!Whole(Libraries!This)
        /\ restores' = restores /\ library' = library /\ link' = link /\ directory' = directory
        /\ edits' = edits /\ at' = at /\ known' = known /\ seen' = seen /\ instant' = instant
        /\ verdict' = verdict
    BY DEF Libraries!Open, Libraries!Doing, Libraries!world
  <1>2. at \in 1 .. Len(Libraries!Plan) /\ ClosurePlan
    BY <1>1, ClosurePlaces DEF ClosureInv, LibraryReader
  <1>3. Libraries!This \in Libraries!Entries(Build.files)
            /\ Libraries!This = Libraries!Plan[at].of
    BY <1>1, <1>2 DEF ClosurePlan, Libraries!This
  <1>4. LibraryWorld'
    BY <1>1 DEF ClosureInv, LibraryWorld
  <1>5. LibraryReading'
    <2>1. held'.of = Libraries!This /\ held'.time = library[Libraries!This].time
              /\ held'.chunks = <<>>
      BY <1>1
    <2>2. held'.chunks \in Seq(BOOLEAN) /\ Len(held'.chunks) = 0
      BY <2>1
    <2>3. library[Libraries!This].time \in Nat /\ library[Libraries!This].time <= edits
      BY <1>3 DEF ClosureInv, LibraryWorld
    <2>4. Libraries!Whole(held.of)' => whole'
      BY <1>1, <2>1 DEF Libraries!Whole
    <2> QED BY <1>1, <1>2, <1>3, <2>1, <2>2, <2>3, <2>4 DEF LibraryReading
  <1>6. whole' \in BOOLEAN
    BY <1>1 DEF Libraries!Whole
  <1>7. LibraryReader'
    BY <1>1, <1>5, <1>6 DEF ClosureInv, LibraryReader
  <1>8. LibraryLinked'
    BY <1>1 DEF ClosureInv, LibraryLinked, DirectoryStays
  <1>9. ASSUME NEW i \in 1 .. nFiles, at > SecondStart, WillFail(i) PROVE WillFail(i)'
    <2>1. CASE at = SecondStart + i
      <3>1. at \in SecondStart + 1 .. SecondStart + nFiles /\ at - SecondStart = i
        BY <1>2, <2>1 DEF ClosurePlan, SecondStart
      <3>2. Libraries!This = Build.files[i]
        BY <1>2, <3>1 DEF ClosurePlan, Libraries!This
      <3> QED BY <1>1, <1>9, <3>2 DEF WillFail, Libraries!Whole
    <2>2. CASE at # SecondStart + i
      BY <1>1, <1>9, <2>2 DEF WillFail, Libraries!Whole, SecondStart
    <2> QED BY <2>1, <2>2
  <1>10. LibraryOnce'
    BY <1>1, <1>9 DEF ClosureInv, LibraryOnce, DirectoryStays, SecondStart
  <1> QED BY <1>1, <1>4, <1>7, <1>8, <1>10 DEF ClosureInv

LEMMA ClosureReadStep ==
  ASSUME Libraries!NamesAssumption, ClosureInv, Libraries!Read
  PROVE  ClosureInv'
  <1> DEFINE m == Len(held.chunks)
             f == held.of
  <1>1. /\ step = "read" /\ m < 2 /\ verdict = "none"
        /\ held' = [held EXCEPT !.chunks = Append(held.chunks, library[f].chunks[m + 1])]
        /\ restores' = restores /\ library' = library /\ link' = link /\ directory' = directory
        /\ edits' = edits /\ at' = at /\ known' = known /\ seen' = seen /\ instant' = instant
        /\ verdict' = verdict /\ step' = step /\ whole' = whole
    BY DEF Libraries!Read, Libraries!world
  <1>2. LibraryReading
    BY <1>1 DEF ClosureInv, LibraryReader
  <1>3. m \in 0 .. 1 /\ m + 1 \in Libraries!Chunks /\ f \in Libraries!Entries(Build.files)
            /\ held.chunks \in Seq(BOOLEAN)
    <2>1. f \in Libraries!Entries(Build.files) /\ held.chunks \in Seq(BOOLEAN)
      BY <1>2 DEF LibraryReading
    <2>2. m \in Nat
      BY <2>1
    <2> HIDE DEF m
    <2> QED BY <1>1, <2>1, <2>2 DEF Libraries!Chunks
  <1>4. library[f].chunks[m + 1] \in BOOLEAN
    BY <1>3 DEF ClosureInv, LibraryWorld
  <1>5. held' = [of |-> f, time |-> held.time,
                 chunks |-> Append(held.chunks, library[f].chunks[m + 1])]
    BY <1>1, <1>2 DEF LibraryReading
  <1> DEFINE c == Append(held.chunks, library[f].chunks[m + 1])
  <1>6. /\ c \in Seq(BOOLEAN) /\ Len(c) = m + 1 /\ c[m + 1] = library[f].chunks[m + 1]
        /\ \A i \in 1 .. m : c[i] = held.chunks[i]
    BY <1>3, <1>4
  <1>7. held'.of = f /\ held'.time = held.time /\ held'.chunks = c
    BY <1>5
  <1> HIDE DEF c, m
  <1>8. ASSUME library[f].time = held.time, NEW i \in 1 .. Len(c)
        PROVE  c[i] = library[f].chunks[i]
    <2>1. i \in 1 .. m \/ i = m + 1
      BY <1>3, <1>6
    <2> QED BY <1>2, <1>6, <1>8, <2>1 DEF LibraryReading, m
  <1>9. Libraries!Whole(held.of)' <=> Libraries!Whole(f)
    BY <1>1, <1>7 DEF Libraries!Whole
  <1>10. held' = [of |-> held'.of, time |-> held'.time, chunks |-> held'.chunks]
    BY <1>5
  <1>11. LibraryReading'
    BY <1>1, <1>2, <1>3, <1>6, <1>7, <1>8, <1>9, <1>10 DEF LibraryReading
  <1>12. LibraryWorld'
    BY <1>1 DEF ClosureInv, LibraryWorld
  <1>13. LibraryReader'
    BY <1>1, <1>11 DEF ClosureInv, LibraryReader
  <1>14. LibraryLinked'
    BY <1>1 DEF ClosureInv, LibraryLinked, DirectoryStays
  <1>15. LibraryOnce'
    BY <1>1 DEF ClosureInv, LibraryOnce, DirectoryStays, WillFail, Libraries!Whole, SecondStart
  <1> QED BY <1>1, <1>12, <1>13, <1>14, <1>15 DEF ClosureInv

LEMMA ClosureCloseStep ==
  ASSUME Libraries!NamesAssumption, ClosureInv, Libraries!Close
  PROVE  ClosureInv'
  <1> DEFINE accepted == Libraries!Digested /\ Libraries!Unmoved
  <1>1. /\ step = "read" /\ Len(held.chunks) = 2 /\ verdict = "none"
        /\ Libraries!Advance(accepted) /\ seen' = IF accepted THEN Append(seen, whole) ELSE seen
        /\ step' = "none" /\ whole' = FALSE /\ known' = known /\ instant' = instant
    BY DEF Libraries!Close
  <1>2. LibraryReading /\ at \in 1 .. Len(Libraries!Plan) /\ ClosurePlan
    BY <1>1, ClosurePlaces DEF ClosureInv, LibraryReader
  <1>3. at # Len(Libraries!Plan) /\ at # SecondStart /\ at \notin 3 .. 2 + nLinks
    BY <1>2 DEF LibraryReading, ClosurePlan
  <1>4. accepted => whole
    <2> SUFFICES ASSUME accepted PROVE whole
      OBVIOUS
    <2>1. library[held.of].time = held.time
      BY DEF Libraries!Unmoved
    <2>2. \A i \in Libraries!Chunks : held.chunks[i] = library[held.of].chunks[i]
      BY <1>1, <1>2, <2>1 DEF LibraryReading, Libraries!Chunks
    <2> QED BY <1>2, <2>1, <2>2 DEF LibraryReading, Libraries!Digested, Libraries!Whole
  <1>5. accepted \in BOOLEAN
    BY DEF Libraries!Digested, Libraries!Unmoved
  <1> HIDE DEF accepted
  <1>6. /\ accepted => at' = at + 1 /\ verdict' \in {"none", "accepted"}
        /\ verdict' = "none" => at' <= Len(Libraries!Plan)
        /\ ~accepted => at' = at /\ verdict' = "refused"
        /\ verdict' = "accepted" => accepted /\ at = Len(Libraries!Plan)
        /\ at' \in 1 .. Len(Libraries!Plan) + 1
        /\ restores' = restores /\ library' = library /\ link' = link /\ directory' = directory
        /\ edits' = edits
    BY <1>1, <1>2, ClosureAdvance
  <1>7. verdict' \in {"none", "refused"}
    BY <1>3, <1>6
  <1>8. LibraryWorld'
    BY <1>6 DEF ClosureInv, LibraryWorld
  <1>9. seen' \in Seq(BOOLEAN) /\ \A i \in 1 .. Len(seen') : seen'[i]
    <2>1. seen \in Seq(BOOLEAN) /\ (\A i \in 1 .. Len(seen) : seen[i]) /\ whole \in BOOLEAN
      BY DEF ClosureInv, LibraryReader
    <2>2. CASE accepted
      <3>1. seen' = Append(seen, TRUE)
        BY <1>1, <1>4, <2>1, <2>2
      <3>2. Len(seen') = Len(seen) + 1 /\ seen'[Len(seen) + 1] = TRUE /\ seen' \in Seq(BOOLEAN)
        BY <2>1, <3>1
      <3>3. \A i \in 1 .. Len(seen) : seen'[i] = seen[i]
        BY <2>1, <3>1
      <3> QED BY <2>1, <3>2, <3>3
    <2>3. CASE ~accepted
      BY <1>1, <2>1, <2>3
    <2> QED BY <2>2, <2>3
  <1>10. LibraryReader'
    BY <1>1, <1>6, <1>7, <1>9 DEF ClosureInv, LibraryReader
  <1>11. at' = at \/ at' = at + 1
    BY <1>5, <1>6
  <1>12. LibraryLinked'
    <2> SUFFICES ASSUME DirectoryStays, NEW i \in 1 .. nLinks, at' > 2 + i
                 PROVE  link[Build.links[i]].pinned
      BY <1>1, <1>6 DEF LibraryLinked, DirectoryStays
    <2>1. at > 2 + i
      BY <1>2, <1>3, <1>11 DEF ClosurePlan
    <2> QED BY <2>1 DEF ClosureInv, LibraryLinked
  <1>13. SecondStart \in Int /\ at \in Int /\ nFiles \in Nat
    BY <1>2 DEF ClosurePlan, SecondStart
  <1>14. LibraryOnce'
    <2> SUFFICES ASSUME at' > SecondStart, DirectoryStays, ~restores, ~instant
                 PROVE  \E i \in 1 .. nFiles : WillFail(i)'
      BY <1>1, <1>6 DEF LibraryOnce, DirectoryStays, SecondStart
    <2>1. at > SecondStart
      <3> HIDE DEF SecondStart
      <3> QED BY <1>3, <1>11, <1>13
    <2>2. PICK i \in 1 .. nFiles : WillFail(i)
      BY <2>1 DEF ClosureInv, LibraryOnce
    <2>3. at' <= SecondStart + i
      <3>1. at = SecondStart + i => at' = at
        BY <1>1, <1>4, <1>6, <2>2 DEF WillFail
      <3>2. at <= SecondStart + i
        BY <2>2 DEF WillFail
      <3> HIDE DEF SecondStart
      <3> QED BY <1>11, <1>13, <3>1, <3>2
    <2>4. WillFail(i)'
      BY <1>1, <1>6, <2>2, <2>3 DEF WillFail, Libraries!Whole, SecondStart
    <2> QED BY <2>4
  <1> QED BY <1>7, <1>8, <1>10, <1>12, <1>14 DEF ClosureInv

LEMMA TouchedFile ==
  ASSUME NEW r, r = [chunks |-> r.chunks, time |-> r.time], NEW c
  PROVE  Libraries!Touched([r EXCEPT !.chunks = c]) = [chunks |-> c, time |-> edits + 1]
  <1> DEFINE s == [r EXCEPT !.chunks = c]
  <1>1. s = [chunks |-> c, time |-> r.time]
    OBVIOUS
  <1> HIDE DEF s
  <1>2. Libraries!Touched(s) = [chunks |-> c, time |-> edits + 1]
    BY <1>1 DEF Libraries!Touched
  <1> QED BY <1>2 DEF s

LEMMA TouchedLink ==
  ASSUME NEW r, r = [pinned |-> r.pinned, time |-> r.time]
  PROVE  Libraries!Touched([r EXCEPT !.pinned = ~@]) = [pinned |-> ~r.pinned, time |-> edits + 1]
  <1> DEFINE s == [r EXCEPT !.pinned = ~@]
  <1>1. s = [pinned |-> ~r.pinned, time |-> r.time]
    OBVIOUS
  <1> HIDE DEF s
  <1>2. Libraries!Touched(s) = [pinned |-> ~r.pinned, time |-> edits + 1]
    BY <1>1 DEF Libraries!Touched
  <1> QED BY <1>2 DEF s

(* What somebody else's change leaves: a file whose time stays is the same, *)
(* a change of a name or a link shows in the directory, and a write in     *)
(* place makes no file whole unless it may restore bytes.                  *)
LEMMA ClosureEdits ==
  ASSUME LibraryWorld, Libraries!Edit
  PROVE  /\ LibraryWorld' /\ edits' = edits + 1 /\ restores' = restores
         /\ \A f \in Libraries!Entries(Build.files) :
              library'[f] = library[f] \/ library'[f].time = edits + 1
         /\ \/ directory'.time = edits + 1
            \/ /\ directory' = directory /\ link' = link
               /\ ~restores => \A f \in Libraries!Entries(Build.files) : Libraries!Whole(f)'
                    => Libraries!Whole(f)
  <1>1. edits' = edits + 1 /\ restores' = restores
    BY DEF Libraries!Edit
  <1>2. ASSUME NEW f \in Libraries!Entries(Build.files), NEW pinned \in BOOLEAN,
            Libraries!Install(f, pinned)
        PROVE  /\ LibraryWorld' /\ directory'.time = edits + 1
               /\ \A g \in Libraries!Entries(Build.files) :
                    library'[g] = library[g] \/ library'[g].time = edits + 1
    <2>0. library[f] = [chunks |-> library[f].chunks, time |-> library[f].time]
      BY DEF LibraryWorld
    <2>1. library' = [library EXCEPT ![f] = [chunks |-> [i \in Libraries!Chunks |-> pinned],
              time |-> edits + 1]]
      BY <1>2, <2>0, TouchedFile DEF Libraries!Install
    <2>2. directory' = [extra |-> directory.extra, time |-> edits + 1] /\ link' = link
      BY <1>2 DEF Libraries!Install, Libraries!Touched, LibraryWorld
    <2>3. /\ library' \in [Libraries!Entries(Build.files) -> [chunks :
               [Libraries!Chunks -> BOOLEAN], time : Nat]]
          /\ \A g \in Libraries!Entries(Build.files) :
               library'[g] = library[g] \/ library'[g].time = edits + 1
          /\ \A g \in Libraries!Entries(Build.files) : library'[g].time <= edits + 1
      BY <2>1 DEF LibraryWorld
    <2> QED BY <1>1, <2>2, <2>3 DEF LibraryWorld
  <1>3. ASSUME NEW f \in Libraries!Entries(Build.files), NEW pinned \in BOOLEAN,
            NEW i \in Libraries!Chunks,
               Libraries!Write(f, i, pinned)
        PROVE  /\ LibraryWorld' /\ directory' = directory /\ link' = link
               /\ ~restores => \A g \in Libraries!Entries(Build.files) : Libraries!Whole(g)'
                    => Libraries!Whole(g)
               /\ \A g \in Libraries!Entries(Build.files) :
                    library'[g] = library[g] \/ library'[g].time = edits + 1
    <2> DEFINE c == [library[f].chunks EXCEPT ![i] = pinned]
    <2>0. library[f] = [chunks |-> library[f].chunks, time |-> library[f].time]
      BY DEF LibraryWorld
    <2>1. library' = [library EXCEPT ![f] = [chunks |-> c, time |-> edits + 1]]
      <3>1. Libraries!Touched([library[f] EXCEPT !.chunks = c]) = [chunks |-> c,
                time |-> edits + 1]
        BY <2>0, TouchedFile
      <3>2. [library[f] EXCEPT !.chunks[i] = pinned] = [library[f] EXCEPT !.chunks = c]
        BY <2>0
      <3> QED BY <1>3, <3>1, <3>2 DEF Libraries!Write
    <2>2. directory' = directory /\ link' = link /\ (pinned => restores)
      BY <1>3 DEF Libraries!Write
    <2>3. c \in [Libraries!Chunks -> BOOLEAN] /\ c[i] = pinned
      BY DEF LibraryWorld
    <2> HIDE DEF c
    <2>4. /\ library' \in [Libraries!Entries(Build.files) -> [chunks :
               [Libraries!Chunks -> BOOLEAN], time : Nat]]
          /\ \A g \in Libraries!Entries(Build.files) :
               library'[g] = library[g] \/ library'[g].time = edits + 1
          /\ \A g \in Libraries!Entries(Build.files) : library'[g].time <= edits + 1
      BY <2>1, <2>3 DEF LibraryWorld
    <2>5. ASSUME ~restores, NEW g \in Libraries!Entries(Build.files), Libraries!Whole(g)'
          PROVE  Libraries!Whole(g)
      <3>1. \A k \in Libraries!Chunks : library'[g].chunks[k]
        BY <2>5 DEF Libraries!Whole
      <3>2. g # f
        <4> SUFFICES ASSUME g = f PROVE FALSE
          OBVIOUS
        <4>1. library'[g].chunks = c
          BY <2>1 DEF LibraryWorld
        <4> QED BY <2>2, <2>3, <2>5, <3>1, <4>1
      <3>3. library'[g] = library[g]
        BY <2>1, <3>2 DEF LibraryWorld
      <3> QED BY <3>1, <3>3 DEF Libraries!Whole
    <2> QED BY <1>1, <2>2, <2>4, <2>5 DEF LibraryWorld
  <1>4. ASSUME NEW k \in Libraries!Entries(Build.links), Libraries!Relink(k)
        PROVE  /\ LibraryWorld' /\ directory'.time = edits + 1 /\ library' = library
    <2>0. link[k] = [pinned |-> link[k].pinned, time |-> link[k].time]
      BY DEF LibraryWorld
    <2>1. link' = [link EXCEPT ![k] = [pinned |-> ~link[k].pinned, time |-> edits + 1]]
      BY <1>4, <2>0, TouchedLink DEF Libraries!Relink
    <2>2. directory' = [extra |-> directory.extra, time |-> edits + 1] /\ library' = library
      BY <1>4 DEF Libraries!Relink, Libraries!Touched, LibraryWorld
    <2>3. link' \in [Libraries!Entries(Build.links) -> [pinned : BOOLEAN, time : Nat]]
      BY <2>1 DEF LibraryWorld
    <2> QED BY <1>1, <2>2, <2>3 DEF LibraryWorld
  <1>5. ASSUME Libraries!Rename PROVE LibraryWorld' /\ directory'.time = edits + 1
            /\ library' = library
    <2>1. /\ directory' = [extra |-> ~directory.extra, time |-> edits + 1]
          /\ library' = library /\ link' = link
      BY <1>5 DEF Libraries!Rename, Libraries!Touched, LibraryWorld
    <2> QED BY <1>1, <2>1 DEF LibraryWorld
  <1> QED BY <1>1, <1>2, <1>3, <1>4, <1>5 DEF Libraries!Edit

LEMMA ClosureEditStep ==
  ASSUME Libraries!NamesAssumption, ClosureInv, Libraries!Edit
  PROVE  ClosureInv'
  <1>1. /\ verdict = "none" /\ restores' = restores /\ at' = at /\ step' = step /\ known' = known
        /\ held' = held /\ seen' = seen /\ instant' = instant /\ verdict' = verdict
        /\ whole' = (whole \/ (held # Libraries!NotHeld /\ Libraries!Whole(held.of)'))
    BY DEF Libraries!Edit, Libraries!reader
  <1>2. /\ LibraryWorld' /\ edits' = edits + 1 /\ restores' = restores
        /\ \A f \in Libraries!Entries(Build.files) :
             library'[f] = library[f] \/ library'[f].time = edits + 1
        /\ \/ directory'.time = edits + 1
           \/ /\ directory' = directory /\ link' = link
              /\ ~restores => \A f \in Libraries!Entries(Build.files) : Libraries!Whole(f)'
                   => Libraries!Whole(f)
    BY ClosureEdits DEF ClosureInv
  <1>3. edits \in Nat /\ known.time \in Nat /\ known.time <= edits
    BY DEF ClosureInv, LibraryWorld, LibraryReader
  <1>4. LibraryReading => LibraryReading'
    <2> SUFFICES ASSUME LibraryReading PROVE LibraryReading'
      OBVIOUS
    <2>1. held.of \in Libraries!Entries(Build.files) /\ held.time \in Nat /\ held.time <= edits
      BY DEF LibraryReading
    <2>2. ASSUME library'[held.of].time = held.time
          PROVE  /\ library[held.of] = library'[held.of] /\ library[held.of].time = held.time
                 /\ Libraries!Whole(held.of)' => whole'
      <3>1. library'[held.of] = library[held.of]
        BY <1>2, <1>3, <2>1, <2>2
      <3>2. Libraries!Whole(held.of)' => Libraries!Whole(held.of)
        BY <1>1, <3>1 DEF Libraries!Whole
      <3> QED BY <1>1, <2>2, <3>1, <3>2 DEF LibraryReading
    <2>3. held.time <= edits'
      BY <1>2, <1>3, <2>1
    <2> QED BY <1>1, <2>1, <2>2, <2>3 DEF LibraryReading
  <1>5. whole' \in BOOLEAN
    BY <1>1 DEF Libraries!Whole, ClosureInv, LibraryReader
  <1>6. known'.time <= edits'
    BY <1>1, <1>2, <1>3
  <1>7. LibraryReader'
    BY <1>1, <1>4, <1>5, <1>6 DEF ClosureInv, LibraryReader
  <1>8. DirectoryStays' => DirectoryStays /\ directory' = directory
    BY <1>1, <1>2, <1>3 DEF DirectoryStays
  <1>9. DirectoryStays' => /\ link' = link
                           /\ ~restores => \A f \in Libraries!Entries(Build.files) :
                                Libraries!Whole(f)' => Libraries!Whole(f)
    BY <1>1, <1>2, <1>3 DEF DirectoryStays
  <1>10. LibraryLinked'
    BY <1>1, <1>8, <1>9 DEF ClosureInv, LibraryLinked
  <1>11. LibraryOnce'
    <2> SUFFICES ASSUME at > SecondStart, DirectoryStays', ~restores, ~instant
                 PROVE  \E i \in 1 .. nFiles : WillFail(i)'
      BY <1>1, <1>2 DEF LibraryOnce, SecondStart
    <2>1. PICK i \in 1 .. nFiles : WillFail(i)
      BY <1>8 DEF ClosureInv, LibraryOnce
    <2>2. Build.files[i] \in Libraries!Entries(Build.files)
      BY DEF Libraries!NamesAssumption, Libraries!Entries, nFiles
    <2>3. ~Libraries!Whole(Build.files[i])'
      BY <1>9, <2>1, <2>2 DEF WillFail
    <2>4. ASSUME step = "read", at = SecondStart + i PROVE ~whole'
      <3>1. LibraryReading /\ at \in 1 .. Len(Libraries!Plan) /\ ClosurePlan
        BY <1>1, <2>4, ClosurePlaces DEF ClosureInv, LibraryReader
      <3>2. at \in SecondStart + 1 .. SecondStart + nFiles /\ at - SecondStart = i
        BY <2>4, <3>1 DEF ClosurePlan, SecondStart
      <3>3. held.of = Build.files[i]
        BY <3>1, <3>2 DEF ClosurePlan, LibraryReading
      <3>4. ~Libraries!Whole(held.of)'
        BY <1>1, <2>3, <3>3 DEF Libraries!Whole
      <3> QED BY <1>1, <2>1, <2>4, <3>4 DEF WillFail
    <2>5. WillFail(i)'
      BY <1>1, <2>1, <2>3, <2>4 DEF WillFail, SecondStart
    <2> QED BY <2>5
  <1> QED BY <1>1, <1>2, <1>7, <1>10, <1>11 DEF ClosureInv

LEMMA ClosureInit == ASSUME Libraries!NamesAssumption, Libraries!Init PROVE ClosureInv
  <1>1. ClosurePlan
    BY ClosurePlaces
  <1>2. LibraryWorld
    BY DEF Libraries!Init, LibraryWorld
  <1>3. LibraryReader
    <2>1. at = 1 /\ Len(Libraries!Plan) \in Nat /\ Len(Libraries!Plan) >= 5
      BY <1>1 DEF Libraries!Init, ClosurePlan
    <2>2. at \in 1 .. Len(Libraries!Plan) + 1 /\ at <= Len(Libraries!Plan)
      BY <2>1
    <2>3. seen = <<>> /\ seen \in Seq(BOOLEAN)
      BY DEF Libraries!Init
    <2>4. known = [time |-> 0, links |-> <<>>] /\ edits = 0 /\ step = "none" /\ verdict = "none"
          /\ whole = FALSE
      BY DEF Libraries!Init
    <2>5. \A i \in 1 .. Len(seen) : seen[i]
      BY <2>3
    <2>6. known.time = 0 /\ known.links = <<>>
      BY <2>4
    <2>7. known = [time |-> known.time, links |-> known.links] /\ known.time \in Nat
          /\ known.time <= edits
      BY <2>4, <2>6
    <2> QED BY <2>2, <2>3, <2>4, <2>5, <2>7 DEF LibraryReader
  <1>4. LibraryLinked
    BY DEF Libraries!Init, LibraryLinked
  <1>5. LibraryOnce
    BY <1>1 DEF Libraries!Init, LibraryOnce, ClosurePlan, SecondStart
  <1> QED BY <1>2, <1>3, <1>4, <1>5 DEF ClosureInv, Libraries!Init

LEMMA ClosureStep ==
  ASSUME Libraries!NamesAssumption, ClosureInv, [Libraries!Next]_Libraries!vars
  PROVE  ClosureInv'
  <1>1. CASE Libraries!Edit
    BY <1>1, ClosureEditStep
  <1>2. CASE Libraries!Inspect
    BY <1>2, ClosureStatDirectoryStep, ClosureListStep, ClosureListAgainStep,
       ClosureStatLinkStep, ClosureStatLinkAgainStep, ClosureStatDirectoryAgainStep,
       ClosureOpenStep, ClosureReadStep, ClosureCloseStep
       DEF Libraries!Inspect
  <1>3. CASE UNCHANGED Libraries!vars
    <2>1. /\ restores' = restores /\ library' = library /\ link' = link /\ directory' = directory
          /\ edits' = edits /\ at' = at /\ known' = known /\ seen' = seen /\ instant' = instant
          /\ verdict' = verdict /\ step' = step /\ whole' = whole /\ held' = held
      BY <1>3 DEF Libraries!vars, Libraries!world, Libraries!reader
    <2>2. LibraryWorld' /\ (LibraryReading => LibraryReading')
      BY <2>1 DEF ClosureInv, LibraryWorld, LibraryReading, Libraries!Whole
    <2>3. LibraryReader'
      BY <2>1, <2>2 DEF ClosureInv, LibraryReader
    <2>4. LibraryLinked' /\ LibraryOnce'
      BY <2>1 DEF ClosureInv, LibraryLinked, LibraryOnce, DirectoryStays, WillFail,
                  Libraries!Whole, SecondStart
    <2> QED BY <2>1, <2>2, <2>3, <2>4 DEF ClosureInv
  <1> QED BY <1>1, <1>2, <1>3 DEF Libraries!Next

-----------------------------------------------------------------------------
(* Its import surface.                                                     *)

SurfaceIndices == 1 .. Len(Surface.directories)

(* The clocks: nothing was noted that was changed later. *)
SurfaceClocks ==
  /\ edits \in Nat /\ entry \in [Imports!Paths -> Int] /\ changed \in [Imports!Dirs -> Int]
  /\ \A p \in Imports!Paths : entry[p] <= edits
  /\ \A d \in Imports!Dirs : changed[d] <= edits
SurfaceWalk ==
  /\ round \in {1, 2} /\ at \in 0 .. Len(Surface.directories) /\ walked = <<walked[1], walked[2]>>
  /\ at = 0 => names = {}
  /\ names \subseteq {Imports!Itself} \cup Surface.sources \cup Surface.forbidden
  /\ verdict \in {"none", "accepted", "refused"}
  /\ \A s \in walked[1] : s.time \in Int /\ s.time <= edits

(* A directory has changed since the first walk. *)
Later(time) == \A s \in walked[1] : s.time < time

(* What will refuse a surface that was not clean when the second walk began: *)
(* a forbidden name that is still to be listed, or was; the status of its    *)
(* directory that is still to be noted, or was.                              *)
ToList(i) == \E n \in Surface.forbidden : Imports!Present(<<Surface.directories[i], n>>)
Listed == \E n \in Surface.forbidden : n \in names
ToNote(i) == Later(changed[Surface.directories[i]])
Noted == \E s \in walked[2] : Later(s.time)
Caught ==
  \/ \E i \in SurfaceIndices : i > at /\ (ToList(i) \/ ToNote(i))
  \/ Listed \/ (at \in SurfaceIndices /\ Imports!Itself \in names /\ ToNote(at)) \/ Noted

SurfaceInv ==
  /\ SurfaceClocks /\ SurfaceWalk
  /\ round = 2 /\ at > 0 /\ verdict = "none" => clean \/ Caught
  /\ verdict = "accepted" => clean

LEMMA SurfaceTicks ==
  ASSUME SurfaceClocks, Imports!Edit
  PROVE  /\ SurfaceClocks' /\ edits' = edits + 1
         /\ \A d \in Imports!Dirs : changed'[d] = changed[d] \/ changed'[d] = edits + 1
         /\ \A d \in Imports!Dirs, n \in Surface.forbidden :
              Imports!Present(<<d, n>>) => Imports!Present(<<d, n>>)' \/ changed'[d] = edits + 1
  <1>1. PICK p \in Imports!Paths :
             \/ /\ Imports!Present(p) /\ entry' = [entry EXCEPT ![p] = edits + 1]
                /\ UNCHANGED changed
             \/ /\ entry' = [entry EXCEPT ![p] = IF Imports!Present(p) THEN Imports!Absent ELSE edits + 1]
                /\ changed' = [changed EXCEPT ![p[1]] = edits + 1]
    BY DEF Imports!Edit
  <1>2. edits' = edits + 1 /\ edits \in Nat
    BY DEF Imports!Edit, SurfaceClocks
  <1>3. p[1] \in Imports!Dirs
    BY DEF Imports!Paths
  <1>4. \A d \in Imports!Dirs : changed'[d] = changed[d] \/ changed'[d] = edits + 1
    BY <1>1, <1>3 DEF SurfaceClocks
  <1>5. changed' \in [Imports!Dirs -> Int]
    BY <1>1, <1>2, <1>3 DEF SurfaceClocks
  <1>6. entry' \in [Imports!Paths -> Int] /\ \A q \in Imports!Paths : entry'[q] <= edits + 1
    <2>1. CASE entry' = [entry EXCEPT ![p] = edits + 1]
      BY <1>2, <2>1 DEF SurfaceClocks
    <2>2. CASE entry' = [entry EXCEPT ![p] = Imports!Absent]
      BY <1>2, <2>2 DEF SurfaceClocks, Imports!Absent
    <2> QED BY <1>1, <2>1, <2>2
  <1>7. ASSUME NEW d \in Imports!Dirs, NEW n \in Surface.forbidden, Imports!Present(<<d, n>>)
        PROVE  Imports!Present(<<d, n>>)' \/ changed'[d] = edits + 1
    <2> DEFINE q == <<d, n>>
    <2>1. q \in Imports!Paths
      BY DEF Imports!Paths
    <2>2. CASE q # p
      <3>1. entry'[q] = entry[q]
        BY <1>1, <2>1, <2>2 DEF SurfaceClocks
      <3> QED BY <1>7, <3>1 DEF Imports!Present
    <2>3. CASE q = p
      <3>1. CASE UNCHANGED changed
        <4>1. entry'[q] = edits + 1 \/ changed'[d] = edits + 1
          BY <1>1, <2>1, <2>3, <3>1 DEF SurfaceClocks
        <4> QED BY <1>2, <4>1 DEF Imports!Present, Imports!Absent
      <3>2. CASE changed' = [changed EXCEPT ![p[1]] = edits + 1]
        BY <1>3, <2>3, <3>2 DEF SurfaceClocks
      <3> QED BY <1>1, <3>1, <3>2
    <2> QED BY <2>2, <2>3
  <1>8. SurfaceClocks'
    BY <1>2, <1>4, <1>5, <1>6 DEF SurfaceClocks
  <1> QED BY <1>2, <1>4, <1>7, <1>8

LEMMA SurfaceEdit ==
  ASSUME Imports!DirectoryAssumption, SurfaceInv, Imports!Edit
  PROVE  SurfaceInv'
  <1>1. /\ SurfaceClocks /\ SurfaceWalk /\ verdict = "none" /\ round' = round /\ at' = at
        /\ names' = names
        /\ walked' = walked /\ clean' = clean /\ verdict' = verdict
    BY DEF Imports!Edit, SurfaceInv
  <1>2. /\ SurfaceClocks' /\ edits' = edits + 1 /\ edits \in Nat
        /\ \A d \in Imports!Dirs : changed'[d] = changed[d] \/ changed'[d] = edits + 1
        /\ \A d \in Imports!Dirs, n \in Surface.forbidden :
             Imports!Present(<<d, n>>) => Imports!Present(<<d, n>>)' \/ changed'[d] = edits + 1
    BY <1>1, SurfaceTicks DEF SurfaceClocks
  <1>3. \A s \in walked[1] : s.time \in Int /\ s.time <= edits
    BY <1>1 DEF SurfaceWalk
  <1>4. SurfaceWalk'
    <2>1. \A s \in walked'[1] : s.time \in Int /\ s.time <= edits'
      BY <1>1, <1>2, <1>3
    <2> QED BY <1>1, <2>1 DEF SurfaceWalk
  <1>5. \A s \in walked[1] : s.time < edits + 1
    BY <1>2, <1>3
  <1>6. \A time : Later(time)' <=> Later(time)
    BY <1>1 DEF Later
  <1>7. \A i \in SurfaceIndices : Surface.directories[i] \in Imports!Dirs
    BY DEF Imports!DirectoryAssumption, SurfaceIndices
  <1>8. ASSUME NEW i \in SurfaceIndices, ToNote(i) PROVE ToNote(i)'
    BY <1>1, <1>2, <1>5, <1>7, <1>8 DEF ToNote, Later
  <1>9. ASSUME NEW i \in SurfaceIndices, ToList(i) PROVE ToList(i)' \/ ToNote(i)'
    <2>1. PICK n \in Surface.forbidden : Imports!Present(<<Surface.directories[i], n>>)
      BY <1>9 DEF ToList
    <2>2. Imports!Present(<<Surface.directories[i],
              n>>)' \/ changed'[Surface.directories[i]] = edits + 1
      BY <1>2, <1>7, <2>1
    <2> QED BY <1>1, <1>5, <2>2 DEF ToList, ToNote, Later
  <1>10. Listed => Listed'
    BY <1>1 DEF Listed
  <1>11. Noted => Noted'
    BY <1>1 DEF Noted, Later
  <1>12. Caught => Caught'
    BY <1>1, <1>8, <1>9, <1>10, <1>11 DEF Caught
  <1> QED BY <1>1, <1>2, <1>4, <1>12 DEF SurfaceInv

LEMMA SurfaceStands == ASSUME SurfaceClocks, UNCHANGED Imports!world PROVE SurfaceClocks'
  BY DEF SurfaceClocks, Imports!world

LEMMA SurfaceEnter ==
  ASSUME Imports!DirectoryAssumption, SurfaceInv, Imports!Enter
  PROVE  SurfaceInv'
  <1>1. /\ SurfaceClocks /\ SurfaceWalk /\ verdict = "none" /\ round' = round /\ at' = at + 1
        /\ walked' = walked /\ verdict' = verdict /\ names = {} /\ at < Len(Surface.directories)
        /\ entry' = entry /\ changed' = changed /\ edits' = edits
        /\ names' = {Imports!Itself} \cup {n \in Surface.sources \cup Surface.forbidden :
                                      Imports!Present(<<Surface.directories[at + 1], n>>)}
        /\ clean' = IF round = 2 /\ at = 0 THEN Imports!Clean ELSE clean
    BY DEF Imports!Enter, SurfaceInv, Imports!world
  <1>2. SurfaceClocks'
    BY <1>1, SurfaceStands DEF Imports!world
  <1>3. at \in 0 .. Len(Surface.directories) /\ Len(Surface.directories) \in Nat
            /\ at' \in SurfaceIndices
    BY <1>1 DEF SurfaceWalk, Imports!DirectoryAssumption, SurfaceIndices
  <1>4. SurfaceWalk'
    BY <1>1, <1>3 DEF SurfaceWalk, SurfaceIndices
  <1>5. ASSUME NEW i \in SurfaceIndices, i > at, ToList(i) \/ ToNote(i) PROVE Caught'
    <2>1. CASE i > at + 1
      <3>1. ToList(i)' \/ ToNote(i)'
        BY <1>1, <1>5 DEF ToList, Imports!Present, ToNote, Later
      <3> QED BY <1>1, <2>1, <3>1 DEF Caught
    <2>2. CASE i = at + 1
      <3>1. ToList(i) => Listed'
        BY <1>1, <2>2 DEF ToList, Listed
      <3>2. ToNote(i) => (at \in SurfaceIndices /\ Imports!Itself \in names /\ ToNote(at))'
        BY <1>1, <1>3, <2>2 DEF ToNote, Later
      <3> QED BY <1>5, <3>1, <3>2 DEF Caught
    <2>3. i > at + 1 \/ i = at + 1
      BY <1>3, <1>5 DEF SurfaceIndices
    <2> QED BY <2>1, <2>2, <2>3
  <1>6. ASSUME round = 2 PROVE clean' \/ Caught'
    <2>1. CASE at = 0
      <3>1. CASE Imports!Clean
        BY <1>1, <1>6, <2>1, <3>1
      <3>2. CASE ~Imports!Clean
        <4>1. PICK d \in Imports!Dirs, n \in Surface.forbidden : Imports!Present(<<d, n>>)
          BY <3>2 DEF Imports!Clean
        <4>2. PICK i \in SurfaceIndices : Surface.directories[i] = d
          BY DEF Imports!Dirs, SurfaceIndices, Imports!DirectoryAssumption
        <4>3. i > at /\ ToList(i)
          BY <2>1, <4>1, <4>2 DEF SurfaceIndices, ToList
        <4> QED BY <1>5, <4>3
      <3> QED BY <3>1, <3>2
    <2>2. CASE at # 0
      <3>1. at > 0 /\ clean' = clean
        BY <1>1, <1>3, <2>2
      <3>2. clean \/ Caught
        BY <1>1, <1>6, <3>1 DEF SurfaceInv
      <3>3. ~Listed /\ Imports!Itself \notin names
        BY <1>1 DEF Listed
      <3>4. Noted => Noted'
        BY <1>1 DEF Noted, Later
      <3>5. Caught => (\E i \in SurfaceIndices : i > at /\ (ToList(i) \/ ToNote(i))) \/ Noted
        BY <3>3 DEF Caught
      <3>6. Noted => Caught'
        BY <3>4 DEF Caught
      <3> QED BY <1>5, <3>1, <3>2, <3>5, <3>6
    <2> QED BY <2>1, <2>2
  <1> QED BY <1>1, <1>2, <1>4, <1>6 DEF SurfaceInv

LEMMA SurfaceNoted ==
  ASSUME SurfaceWalk, NEW status, Imports!Note(status), status.time \in Int, status.time <= edits
  PROVE  /\ walked' = <<walked'[1], walked'[2]>>
         /\ \A s \in walked'[1] : s.time \in Int /\ s.time <= edits
         /\ round = 2 => walked'[1] = walked[1] /\ walked'[2] = walked[2] \cup {status}
  <1>1. CASE round = 1
    BY <1>1 DEF SurfaceWalk, Imports!Note
  <1>2. CASE round = 2
    BY <1>2 DEF SurfaceWalk, Imports!Note
  <1> QED BY <1>1, <1>2 DEF SurfaceWalk

LEMMA SurfaceNote == ASSUME Imports!DirectoryAssumption, Imports!NameAssumption, SurfaceInv,
    Imports!NoteDirectory
                     PROVE  SurfaceInv'
  <1> DEFINE status == [of |-> <<Surface.directories[at], Imports!Itself>>,
      time |-> changed[Surface.directories[at]]]
  <1>1. /\ SurfaceClocks /\ SurfaceWalk /\ round' = round /\ at' = at /\ Imports!Itself \in names
        /\ verdict' = verdict /\ clean' = clean
        /\ entry' = entry /\ changed' = changed /\ edits' = edits
        /\ names' = names \ {Imports!Itself} /\ Imports!Note(status)
    BY DEF Imports!NoteDirectory, SurfaceInv, Imports!world
  <1>2. SurfaceClocks'
    BY <1>1, SurfaceStands DEF Imports!world
  <1>3. at \in SurfaceIndices /\ Surface.directories[at] \in Imports!Dirs
    <2>1. at # 0 /\ at \in 0 .. Len(Surface.directories) /\ Len(Surface.directories) \in Nat
      BY <1>1 DEF SurfaceWalk, Imports!DirectoryAssumption
    <2>2. at \in SurfaceIndices
      BY <2>1 DEF SurfaceIndices
    <2> QED BY <2>2 DEF SurfaceIndices, Imports!DirectoryAssumption
  <1>4. status.time = changed[Surface.directories[at]] /\ status.time \in Int
            /\ status.time <= edits
    BY <1>1, <1>3 DEF SurfaceClocks
  <1> HIDE DEF status
  <1>5. /\ walked' = <<walked'[1], walked'[2]>>
        /\ \A s \in walked'[1] : s.time \in Int /\ s.time <= edits
        /\ round = 2 => walked'[1] = walked[1] /\ walked'[2] = walked[2] \cup {status}
    BY <1>1, <1>4, SurfaceNoted
  <1>6. SurfaceWalk'
    BY <1>1, <1>5 DEF SurfaceWalk
  <1>7. ASSUME round = 2, Caught PROVE Caught'
    <2>1. \A time : Later(time) => Later(time)'
      BY <1>5, <1>7 DEF Later
    <2>2. \A i \in SurfaceIndices : (ToList(i) => ToList(i)') /\ (ToNote(i) => ToNote(i)')
      BY <1>1, <2>1 DEF ToList, Imports!Present, ToNote
    <2>3. Listed => Listed'
      BY <1>1 DEF Listed, Imports!NameAssumption
    <2>4. Noted => Noted'
      BY <1>5, <1>7, <2>1 DEF Noted
    <2>5. ToNote(at) => Noted'
      BY <1>4, <1>5, <1>7, <2>1 DEF ToNote, Noted
    <2> QED BY <1>1, <1>7, <2>2, <2>3, <2>4, <2>5 DEF Caught
  <1> QED BY <1>1, <1>2, <1>6, <1>7 DEF SurfaceInv

LEMMA SurfaceLook ==
  ASSUME Imports!DirectoryAssumption, SurfaceInv, Imports!Look
  PROVE  SurfaceInv'
  <1>1. PICK n \in names :
             LET p == <<Surface.directories[at], n>>
             IN /\ names' = names \ {n} /\ Imports!Note([of |-> p, time |-> entry[p]])
                /\ verdict' = IF Imports!Accepted(p) THEN "none" ELSE "refused"
    BY DEF Imports!Look
  <1> DEFINE p == <<Surface.directories[at], n>>
             status == [of |-> p, time |-> entry[p]]
  <1>2. /\ SurfaceClocks /\ SurfaceWalk /\ round' = round /\ at' = at
        /\ Imports!Itself \notin names
        /\ verdict = "none" /\ clean' = clean
        /\ entry' = entry /\ changed' = changed /\ edits' = edits
        /\ names' = names \ {n} /\ Imports!Note(status)
        /\ verdict' = IF Imports!Accepted(p) THEN "none" ELSE "refused"
    BY <1>1 DEF Imports!Look, SurfaceInv, Imports!world
  <1>3. SurfaceClocks'
    BY <1>2, SurfaceStands DEF Imports!world
  <1>4. at \in SurfaceIndices /\ Surface.directories[at] \in Imports!Dirs
    <2>1. at # 0 /\ at \in 0 .. Len(Surface.directories) /\ Len(Surface.directories) \in Nat
      BY <1>2 DEF SurfaceWalk, Imports!DirectoryAssumption
    <2>2. at \in SurfaceIndices
      BY <2>1 DEF SurfaceIndices
    <2> QED BY <2>2 DEF SurfaceIndices, Imports!DirectoryAssumption
  <1>5. p \in Imports!Paths
    <2>1. n \in Surface.sources \cup Surface.forbidden
      BY <1>2 DEF SurfaceWalk
    <2> QED BY <1>4, <2>1 DEF Imports!Paths
  <1>6. status.time \in Int /\ status.time <= edits
    BY <1>2, <1>5 DEF SurfaceClocks
  <1>7. n \in Surface.forbidden => verdict' = "refused"
    BY <1>2 DEF Imports!Accepted
  <1>8. verdict' \in {"none", "refused"}
    BY <1>2
  <1> HIDE DEF status, p
  <1>9. /\ walked' = <<walked'[1], walked'[2]>>
        /\ \A s \in walked'[1] : s.time \in Int /\ s.time <= edits
        /\ round = 2 => walked'[1] = walked[1] /\ walked'[2] = walked[2] \cup {status}
    BY <1>2, <1>6, SurfaceNoted
  <1>10. SurfaceWalk'
    BY <1>2, <1>8, <1>9 DEF SurfaceWalk
  <1>11. ASSUME round = 2, verdict' = "none", Caught PROVE Caught'
    <2>1. \A time : Later(time) => Later(time)'
      BY <1>9, <1>11 DEF Later
    <2>2. \A i \in SurfaceIndices : (ToList(i) => ToList(i)') /\ (ToNote(i) => ToNote(i)')
      BY <1>2, <2>1 DEF ToList, Imports!Present, ToNote
    <2>3. Listed => Listed'
      BY <1>2, <1>7, <1>11 DEF Listed
    <2>4. Noted => Noted'
      BY <1>9, <1>11, <2>1 DEF Noted
    <2> QED BY <1>2, <1>11, <2>2, <2>3, <2>4 DEF Caught
  <1> QED BY <1>2, <1>3, <1>8, <1>10, <1>11 DEF SurfaceInv

LEMMA SurfaceEnd ==
  ASSUME Imports!DirectoryAssumption, SurfaceInv, Imports!EndWalk
  PROVE  SurfaceInv'
  <1>1. /\ SurfaceClocks /\ SurfaceWalk /\ verdict = "none" /\ names = {}
        /\ at = Len(Surface.directories)
        /\ names' = names /\ walked' = walked /\ clean' = clean
        /\ entry' = entry /\ changed' = changed /\ edits' = edits
    BY DEF Imports!EndWalk, SurfaceInv, Imports!world
  <1>2. SurfaceClocks'
    BY <1>1, SurfaceStands DEF Imports!world
  <1>3. Len(Surface.directories) \in Nat
    BY DEF Imports!DirectoryAssumption
  <1>4. CASE round = 1 /\ round' = 2 /\ at' = 0 /\ UNCHANGED verdict
    <2>1. SurfaceWalk'
      BY <1>1, <1>3, <1>4 DEF SurfaceWalk
    <2> QED BY <1>1, <1>2, <1>4, <2>1 DEF SurfaceInv
  <1>5. CASE /\ round = 2 /\ verdict' = (IF Imports!SameWalk THEN "accepted" ELSE "refused")
             /\ UNCHANGED <<round, at>>
    <2>1. SurfaceWalk'
      BY <1>1, <1>5 DEF SurfaceWalk
    <2>2. ASSUME Imports!SameWalk PROVE clean
      <3>1. CASE at = 0
        <4>1. Len(Surface.directories) # 0
          BY DEF Imports!DirectoryAssumption
        <4> QED BY <1>1, <3>1, <4>1
      <3>2. CASE at # 0
        <4>1. at > 0
          BY <1>1, <1>3, <3>2
        <4>2. clean \/ Caught
          BY <1>1, <1>5, <4>1 DEF SurfaceInv
        <4>3. ~Listed /\ Imports!Itself \notin names
          BY <1>1 DEF Listed
        <4>4. \A i \in SurfaceIndices : ~(i > at)
          BY <1>1, <1>3 DEF SurfaceIndices
        <4>5. \A s \in walked[1] : s.time \in Int
          BY <1>1 DEF SurfaceWalk
        <4>6. ~Noted
          BY <2>2, <4>5 DEF Noted, Later, Imports!SameWalk
        <4> QED BY <4>2, <4>3, <4>4, <4>6 DEF Caught
      <3> QED BY <3>1, <3>2
    <2> QED BY <1>1, <1>2, <1>5, <2>1, <2>2 DEF SurfaceInv
  <1> QED BY <1>4, <1>5 DEF Imports!EndWalk

LEMMA SurfaceInit == ASSUME Imports!DirectoryAssumption, Imports!Init PROVE SurfaceInv
  <1>1. /\ changed = [d \in Imports!Dirs |-> 0] /\ edits = 0 /\ round = 1 /\ at = 0 /\ names = {}
        /\ walked = <<{}, {}>> /\ verdict = "none"
    BY DEF Imports!Init
  <1>2. PICK there \in {Imports!Dirs \X Surface.sources, {p \in Imports!Paths :
            p[1] = Surface.directories[1]}} :
             entry = [p \in Imports!Paths |-> IF p \in there THEN 0 ELSE Imports!Absent]
    BY DEF Imports!Init
  <1>3. entry \in [Imports!Paths -> Int] /\ \A p \in Imports!Paths : entry[p] <= 0
    BY <1>2 DEF Imports!Absent
  <1>4. SurfaceClocks
    BY <1>1, <1>3 DEF SurfaceClocks
  <1>5. Len(Surface.directories) \in Nat
    BY DEF Imports!DirectoryAssumption
  <1>6. SurfaceWalk
    BY <1>1, <1>5 DEF SurfaceWalk
  <1> QED BY <1>1, <1>4, <1>6 DEF SurfaceInv

LEMMA SurfaceStep ==
  ASSUME Imports!DirectoryAssumption, Imports!NameAssumption, SurfaceInv,
      [Imports!Next]_Imports!vars
  PROVE  SurfaceInv'
  <1>1. CASE UNCHANGED Imports!vars
    <2>1. /\ entry' = entry /\ changed' = changed /\ edits' = edits /\ round' = round /\ at' = at
          /\ names' = names /\ walked' = walked /\ clean' = clean /\ verdict' = verdict
      BY <1>1 DEF Imports!vars, Imports!world
    <2>2. SurfaceClocks' /\ SurfaceWalk'
      BY <2>1 DEF SurfaceClocks, SurfaceWalk, SurfaceInv
    <2>3. Caught => Caught'
      BY <2>1 DEF Caught, ToList, Imports!Present, ToNote, Later, Listed, Noted
    <2> QED BY <2>1, <2>2, <2>3 DEF SurfaceInv
  <1>2. CASE Imports!Next
    BY <1>2, SurfaceEdit, SurfaceEnter, SurfaceNote, SurfaceLook, SurfaceEnd
       DEF Imports!Next, Imports!Walk
  <1> QED BY <1>1, <1>2

-----------------------------------------------------------------------------
(* The verification of an export.                                          *)

ExportVerbs == {"initial", "stat", "open", "pinned", "recheck", "close", "rehash", "same",
          "signature", "read", "receipts", "last"}
ExportTasks == [do : ExportVerbs, of : Export!Files \cup {"none"}]

Does(part, n, verbs) ==
  /\ part \in Seq(ExportTasks) /\ Len(part) = n
  /\ \A i \in 1 .. n : part[i].do \in verbs /\ part[i].of \in Export!Files

LEMMA TaskPart ==
  ASSUME NEW what \in ExportVerbs, NEW those \in Seq(Export!Files)
  PROVE  /\ Does(Export!Task(what, those), Len(those), {what})
         /\ \A i \in 1 .. Len(those) : Export!Task(what, those)[i].of = those[i]
  BY DEF Export!Task, ExportTasks, Does

LEMMA OncePart ==
  ASSUME NEW what \in ExportVerbs
  PROVE  /\ Export!Once(what) \in Seq(ExportTasks) /\ Len(Export!Once(what)) = 1
         /\ Export!Once(what)[1].do = what
  BY DEF Export!Once, ExportTasks

LEMMA OpenPart ==
  ASSUME NEW those \in Seq(Export!Files)
  PROVE  Does(Export!_open_bound_group(those), 2 * Len(those), {"stat", "open"})
  <1>1. \A i \in 1 .. 2 * Len(those) : (i + 1) \div 2 \in 1 .. Len(those)
    OBVIOUS
  <1>2. \A i \in 1 .. 2 * Len(those) : those[(i + 1) \div 2] \in Export!Files
    BY <1>1
  <1> QED BY <1>1, <1>2 DEF Export!_open_bound_group, ExportTasks, ExportVerbs, Does

BothGroups == Then(Export!Trust, Export!Export)

LEMMA ExportNames ==
  /\ Export!Trust \in Seq(Export!Files) /\ Len(Export!Trust) = 5
  /\ Export!Export \in Seq(Export!Files) /\ Len(Export!Export) = 4
  /\ BothGroups \in Seq(Export!Files) /\ Len(BothGroups) = 9
  /\ \A f \in Export!Files : \E i \in 1 .. 9 : BothGroups[i] = f
  /\ \A i \in 1 .. 9 : BothGroups[i] \in Export!Files
  /\ BothGroups[3] = "key" /\ BothGroups[8] = "message"
  <1>1. Export!Trust \in Seq(Export!Files) /\ Len(Export!Trust) = 5
    BY DEF Export!Trust, Export!Files, Export!Entries
  <1>2. Export!Export \in Seq(Export!Files) /\ Len(Export!Export) = 4
    BY DEF Export!Export, Export!Files, Export!Entries
  <1>3. /\ BothGroups \in Seq(Export!Files) /\ Len(BothGroups) = 9
        /\ \A i \in 1 .. 5 : BothGroups[i] = Export!Trust[i]
        /\ \A i \in 1 .. 4 : BothGroups[5 + i] = Export!Export[i]
    <2>1. Joins(Export!Files, Export!Trust, Export!Export, 5, 4)
      BY <1>1, <1>2, Joined
    <2>2. /\ BothGroups \in Seq(Export!Files) /\ Len(BothGroups) = 9
          /\ \A i \in 1 .. 5 : BothGroups[i] = Export!Trust[i]
          /\ \A i \in 6 .. 9 : BothGroups[i] = Export!Export[i - 5]
      BY <2>1 DEF Joins, BothGroups
    <2>3. \A i \in 1 .. 4 : 5 + i \in 6 .. 9 /\ (5 + i) - 5 = i
      OBVIOUS
    <2> QED BY <2>2, <2>3
  <1>4. ASSUME NEW f \in Export!Files PROVE \E i \in 1 .. 9 : BothGroups[i] = f
    <2>1. CASE f \in Export!Entries(Export!Trust)
      BY <1>1, <1>3, <2>1 DEF Export!Entries
    <2>2. CASE f \in Export!Entries(Export!Export)
      <3>1. PICK i \in 1 .. 4 : Export!Export[i] = f
        BY <1>2, <2>2 DEF Export!Entries
      <3>2. 5 + i \in 1 .. 9 /\ BothGroups[5 + i] = f
        BY <1>3, <3>1
      <3> QED BY <3>2
    <2> QED BY <2>1, <2>2 DEF Export!Files
  <1>5. Export!Trust[3] = "key" /\ Export!Export[3] = "message"
    BY DEF Export!Trust, Export!Export
  <1>6. BothGroups[3] = "key"
    BY <1>3, <1>5
  <1>7. BothGroups[5 + 3] = "message"
    BY <1>3, <1>5
  <1>8. ASSUME NEW i \in 1 .. 9 PROVE BothGroups[i] \in Export!Files
    <2>1. BothGroups \in Seq(Export!Files) /\ i \in 1 .. Len(BothGroups)
      BY <1>3
    <2> HIDE DEF BothGroups
    <2> QED BY <2>1
  <1> QED BY <1>1, <1>2, <1>3, <1>4, <1>6, <1>7, <1>8

(* The plan, place by place. *)
PlanFacts ==
  /\ Export!verify_export \in Seq(ExportTasks) /\ Len(Export!verify_export) = 74
  /\ Export!verify_export[1].do = "initial"
  /\ \A k \in 2 .. 11 : Export!verify_export[k].do \in {"stat", "open"}
  /\ Export!verify_export[12].do = "pinned"
  /\ \A k \in 13 .. 40 : Export!verify_export[k].do \in {"recheck", "close", "stat", "open",
       "rehash"}
  /\ Export!verify_export[41].do = "same" /\ Export!verify_export[51].do = "signature"
  /\ \A k \in (42 .. 50) \cup (52 .. 60) : Export!verify_export[k].do = "rehash"
  /\ Export!verify_export[61].do = "read" /\ Export!verify_export[61].of = "message"
  /\ Export!verify_export[62].do = "read" /\ Export!verify_export[63].do = "read"
  /\ Export!verify_export[64].do = "receipts" /\ Export!verify_export[65].do = "last"
  /\ \A k \in 66 .. 74 : /\ Export!verify_export[k].do = "rehash"
                         /\ Export!verify_export[k].of = BothGroups[k - 65]
  /\ \A k \in 1 .. 74 : Export!verify_export[k].do \in {"open", "read"}
       => Export!verify_export[k].of \in Export!Files

LEMMA PreflightPlan ==
  LET A == Export!_preflight_context
  IN  /\ A \in Seq(ExportTasks) /\ Len(A) = 18
      /\ A[1].do = "initial" /\ A[12].do = "pinned" /\ A[18].do = "close"
      /\ \A k \in 2 .. 11 : A[k].do \in {"stat", "open"} /\ A[k].of \in Export!Files
      /\ \A k \in 13 .. 17 : A[k].do = "recheck"
  <1> DEFINE A == Export!_preflight_context
             a == Export!Once("initial")
             b == Export!_open_bound_group(Export!Trust)
             c == Export!Once("pinned")
             d == Export!Task("recheck", Export!Trust)
             e == Export!Once("close")
             ab == Then(a, b)
             abc == Then(ab, c)
             abcd == Then(abc, d)
             abcde == Then(abcd, e)
  <1>1. /\ a \in Seq(ExportTasks) /\ Len(a) = 1 /\ a[1].do = "initial"
        /\ c \in Seq(ExportTasks) /\ Len(c) = 1 /\ c[1].do = "pinned"
        /\ e \in Seq(ExportTasks) /\ Len(e) = 1 /\ e[1].do = "close"
    BY OncePart DEF ExportVerbs
  <1>2. Export!Trust \in Seq(Export!Files) /\ Len(Export!Trust) = 5
    BY ExportNames
  <1>3. Does(b, 10, {"stat", "open"})
    <2>1. Does(b, 2 * Len(Export!Trust), {"stat", "open"})
      BY <1>2, OpenPart
    <2>2. 2 * Len(Export!Trust) = 10
      BY <1>2
    <2> HIDE DEF b
    <2> QED BY <2>1, <2>2
  <1>4. Does(d, 5, {"recheck"})
    BY <1>2, TaskPart DEF ExportVerbs
  <1>5. A = abcde
    BY DEF Export!_preflight_context, Then
  <1> HIDE DEF A, a, b, c, d, e
  <1>6. Joins(ExportTasks, a, b, 1, 10)
    BY <1>1, <1>3, Joined DEF Does
  <1>7. ab \in Seq(ExportTasks) /\ Len(ab) = 11
    BY <1>6 DEF Joins
  <1>8. Joins(ExportTasks, ab, c, 11, 1)
    BY <1>1, <1>7, Joined
  <1>9. abc \in Seq(ExportTasks) /\ Len(abc) = 12
    BY <1>8 DEF Joins
  <1>10. Joins(ExportTasks, abc, d, 12, 5)
    BY <1>4, <1>9, Joined DEF Does
  <1>11. abcd \in Seq(ExportTasks) /\ Len(abcd) = 17
    BY <1>10 DEF Joins
  <1>12. Joins(ExportTasks, abcd, e, 17, 1)
    BY <1>1, <1>11, Joined
  <1>13. A \in Seq(ExportTasks) /\ Len(A) = 18
    BY <1>5, <1>12 DEF Joins
  <1>14. /\ \A k \in 1 .. 11 : A[k] = ab[k]
         /\ A[12] = c[1] /\ A[18] = e[1]
         /\ \A k \in 13 .. 17 : A[k] = d[k - 12]
    <2>1. (\A k \in 1 .. 17 : A[k] = abcd[k]) /\ A[18] = e[1]
      BY <1>5, <1>12 DEF Joins
    <2>2. (\A k \in 1 .. 12 : abcd[k] = abc[k]) /\ \A k \in 13 .. 17 : abcd[k] = d[k - 12]
      BY <1>10 DEF Joins
    <2>3. (\A k \in 1 .. 11 : abc[k] = ab[k]) /\ abc[12] = c[1]
      BY <1>8 DEF Joins
    <2> HIDE DEF ab, abc, abcd
    <2> QED BY <2>1, <2>2, <2>3
  <1>15. ab[1] = a[1] /\ \A k \in 2 .. 11 : ab[k] = b[k - 1]
    BY <1>6 DEF Joins
  <1> HIDE DEF ab, abc, abcd, abcde
  <1>16. A[1].do = "initial" /\ A[12].do = "pinned" /\ A[18].do = "close"
    BY <1>1, <1>14, <1>15
  <1>17. ASSUME NEW k \in 2 .. 11 PROVE A[k].do \in {"stat", "open"} /\ A[k].of \in Export!Files
    <2>1. A[k] = b[k - 1] /\ k - 1 \in 1 .. 10
      BY <1>14, <1>15
    <2> QED BY <1>3, <2>1 DEF Does
  <1>18. ASSUME NEW k \in 13 .. 17 PROVE A[k].do = "recheck"
    <2>1. A[k] = d[k - 12] /\ k - 12 \in 1 .. 5
      BY <1>14
    <2> QED BY <1>4, <2>1 DEF Does
  <1> QED BY <1>13, <1>16, <1>17, <1>18 DEF A

LEMMA BindPlan == Does(Export!_bind_export, 12, {"stat", "open", "rehash"})
  <1> DEFINE B == Export!_bind_export
             a == Export!_open_bound_group(Export!Export)
             b == Export!Task("rehash", Export!Export)
             ab == Then(a, b)
  <1>1. Export!Export \in Seq(Export!Files) /\ Len(Export!Export) = 4
    BY ExportNames
  <1>2. Does(a, 8, {"stat", "open"})
    <2>1. Does(a, 2 * Len(Export!Export), {"stat", "open"})
      BY <1>1, OpenPart
    <2>2. 2 * Len(Export!Export) = 8
      BY <1>1
    <2> HIDE DEF a
    <2> QED BY <2>1, <2>2
  <1>3. Does(b, 4, {"rehash"})
    BY <1>1, TaskPart DEF ExportVerbs
  <1>4. B = ab
    BY DEF Export!_bind_export, Then
  <1> HIDE DEF a, b, B
  <1>5. Joins(ExportTasks, a, b, 8, 4)
    <2>1. a \in Seq(ExportTasks) /\ Len(a) = 8 /\ b \in Seq(ExportTasks) /\ Len(b) = 4
      BY <1>2, <1>3 DEF Does
    <2> QED BY <2>1, Joined
  <1>6. /\ B \in Seq(ExportTasks) /\ Len(B) = 12
        /\ \A k \in 1 .. 8 : B[k] = a[k]
        /\ \A k \in 9 .. 12 : B[k] = b[k - 8]
    BY <1>4, <1>5 DEF Joins
  <1>7. ASSUME NEW k \in 1 .. 12
        PROVE  B[k].do \in {"stat", "open", "rehash"} /\ B[k].of \in Export!Files
    <2>1. CASE k \in 1 .. 8
      BY <1>2, <1>6, <2>1 DEF Does
    <2>2. CASE k \in 9 .. 12
      <3>1. B[k] = b[k - 8] /\ k - 8 \in 1 .. 4
        BY <1>6, <2>2
      <3> QED BY <1>3, <3>1 DEF Does
    <2> QED BY <2>1, <2>2
  <1> QED BY <1>6, <1>7 DEF Does, B

LEMMA RoundPlan ==
  Does(Export!Round, 9, {"rehash"}) /\ \A i \in 1 .. 9 : Export!Round[i].of = BothGroups[i]
  <1>1. BothGroups \in Seq(Export!Files) /\ Len(BothGroups) = 9
    BY ExportNames
  <1>2. Export!Round = Export!Task("rehash", BothGroups)
    BY DEF Export!Round, BothGroups, Then
  <1>3. "rehash" \in ExportVerbs
    BY DEF ExportVerbs
  <1>4. /\ Does(Export!Task("rehash", BothGroups), Len(BothGroups), {"rehash"})
        /\ \A i \in 1 .. Len(BothGroups) : Export!Task("rehash", BothGroups)[i].of = BothGroups[i]
    BY <1>1, <1>3, TaskPart
  <1> HIDE DEF BothGroups
  <1> QED BY <1>1, <1>2, <1>4

LEMMA LastPlan ==
  LET L == Export!LastRound(Export!Parsed)
  IN  /\ L \in Seq(ExportTasks) /\ Len(L) = 14
      /\ L[1].do = "read" /\ L[1].of = "message"
      /\ \A k \in 1 .. 3 : L[k].do = "read" /\ L[k].of \in Export!Files
      /\ L[4].do = "receipts" /\ L[5].do = "last"
      /\ \A k \in 6 .. 14 : L[k] = Export!Round[k - 5]
  <1> DEFINE L == Export!LastRound(Export!Parsed)
             those == <<"message", "conversion", "model">>
             a == Export!Task("read", those)
             b == Export!Once("receipts")
             c == Export!Once("last")
             ab == Then(a, b)
             abc == Then(ab, c)
             Everything == Then(abc, Export!Round)
  <1>1. those \in Seq(Export!Files) /\ Len(those) = 3 /\ those[1] = "message"
    BY DEF Export!Files, Export!Entries, Export!Export
  <1>2. L = Everything
    BY DEF Export!LastRound, Export!Parsed, Then
  <1> HIDE DEF those
  <1>3. Does(a, 3, {"read"}) /\ \A i \in 1 .. 3 : a[i].of = those[i]
    BY <1>1, TaskPart DEF ExportVerbs
  <1>4. /\ b \in Seq(ExportTasks) /\ Len(b) = 1 /\ b[1].do = "receipts"
        /\ c \in Seq(ExportTasks) /\ Len(c) = 1 /\ c[1].do = "last"
    BY OncePart DEF ExportVerbs
  <1>5. Export!Round \in Seq(ExportTasks) /\ Len(Export!Round) = 9
    BY RoundPlan DEF Does
  <1> HIDE DEF a, b, c, L
  <1>6. Joins(ExportTasks, a, b, 3, 1)
    BY <1>3, <1>4, Joined DEF Does
  <1>7. ab \in Seq(ExportTasks) /\ Len(ab) = 4
    BY <1>6 DEF Joins
  <1>8. Joins(ExportTasks, ab, c, 4, 1)
    BY <1>4, <1>7, Joined
  <1>9. abc \in Seq(ExportTasks) /\ Len(abc) = 5
    BY <1>8 DEF Joins
  <1>10. Joins(ExportTasks, abc, Export!Round, 5, 9)
    BY <1>5, <1>9, Joined
  <1>11. /\ L \in Seq(ExportTasks) /\ Len(L) = 14
         /\ \A k \in 1 .. 5 : L[k] = abc[k]
         /\ \A k \in 6 .. 14 : L[k] = Export!Round[k - 5]
    BY <1>2, <1>10 DEF Joins
  <1>12. /\ \A k \in 1 .. 3 : L[k] = a[k]
         /\ L[4] = b[1] /\ L[5] = c[1]
    <2>1. (\A k \in 1 .. 4 : abc[k] = ab[k]) /\ abc[5] = c[1]
      BY <1>8 DEF Joins
    <2>2. (\A k \in 1 .. 3 : ab[k] = a[k]) /\ ab[4] = b[1]
      BY <1>6 DEF Joins
    <2> HIDE DEF ab, abc
    <2> QED BY <1>11, <2>1, <2>2
  <1>13. L[1].do = "read" /\ L[1].of = "message" /\ L[4].do = "receipts" /\ L[5].do = "last"
    BY <1>1, <1>3, <1>4, <1>12 DEF Does
  <1>14. \A k \in 1 .. 3 : L[k].do = "read" /\ L[k].of \in Export!Files
    BY <1>3, <1>12 DEF Does
  <1> QED BY <1>11, <1>13, <1>14 DEF L

LEMMA ExportPlan == PlanFacts
  <1> DEFINE V == Export!verify_export
             A == Export!_preflight_context
             B == Export!_bind_export
             C == Export!_open_bound_group(Export!Trust)
             D == Export!Once("same")
             R == Export!Round
             S == Export!Once("signature")
             L == Export!LastRound(Export!Parsed)
             p2 == Then(A, B)
             p3 == Then(p2, C)
             p4 == Then(p3, D)
             p5 == Then(p4, R)
             p6 == Then(p5, S)
             p7 == Then(p6, R)
             p8 == Then(p7, L)
  <1>1. A \in Seq(ExportTasks) /\ Len(A) = 18
    BY PreflightPlan
  <1>2. B \in Seq(ExportTasks) /\ Len(B) = 12
    BY BindPlan DEF Does
  <1>3. Does(C, 10, {"stat", "open"})
    <2>1. Export!Trust \in Seq(Export!Files) /\ Len(Export!Trust) = 5
      BY ExportNames
    <2>2. Does(C, 2 * Len(Export!Trust), {"stat", "open"})
      BY <2>1, OpenPart
    <2>3. 2 * Len(Export!Trust) = 10
      BY <2>1
    <2> HIDE DEF C
    <2> QED BY <2>2, <2>3
  <1>4. /\ D \in Seq(ExportTasks) /\ Len(D) = 1 /\ D[1].do = "same"
        /\ S \in Seq(ExportTasks) /\ Len(S) = 1 /\ S[1].do = "signature"
    BY OncePart DEF ExportVerbs
  <1>5. R \in Seq(ExportTasks) /\ Len(R) = 9
    BY RoundPlan DEF Does
  <1>6. L \in Seq(ExportTasks) /\ Len(L) = 14
    BY LastPlan
  <1>7. V = p8
    BY DEF Export!verify_export, Then
  <1> HIDE DEF V, A, B, C, D, R, S, L
  <1>8. Joins(ExportTasks, A, B, 18, 12)
    BY <1>1, <1>2, Joined
  <1>9. Joins(ExportTasks, p2, C, 30, 10)
    <2>1. p2 \in Seq(ExportTasks) /\ Len(p2) = 30
      BY <1>8 DEF Joins
    <2> QED BY <1>3, <2>1, Joined DEF Does
  <1>10. Joins(ExportTasks, p3, D, 40, 1)
    <2>1. p3 \in Seq(ExportTasks) /\ Len(p3) = 40
      BY <1>9 DEF Joins
    <2> QED BY <1>4, <2>1, Joined
  <1>11. Joins(ExportTasks, p4, R, 41, 9)
    <2>1. p4 \in Seq(ExportTasks) /\ Len(p4) = 41
      BY <1>10 DEF Joins
    <2> QED BY <1>5, <2>1, Joined
  <1>12. Joins(ExportTasks, p5, S, 50, 1)
    <2>1. p5 \in Seq(ExportTasks) /\ Len(p5) = 50
      BY <1>11 DEF Joins
    <2> QED BY <1>4, <2>1, Joined
  <1>13. Joins(ExportTasks, p6, R, 51, 9)
    <2>1. p6 \in Seq(ExportTasks) /\ Len(p6) = 51
      BY <1>12 DEF Joins
    <2> QED BY <1>5, <2>1, Joined
  <1>14. Joins(ExportTasks, p7, L, 60, 14)
    <2>1. p7 \in Seq(ExportTasks) /\ Len(p7) = 60
      BY <1>13 DEF Joins
    <2> QED BY <1>6, <2>1, Joined
  <1>15. /\ V \in Seq(ExportTasks) /\ Len(V) = 74
         /\ \A k \in 1 .. 60 : V[k] = p7[k]
         /\ \A k \in 61 .. 74 : V[k] = L[k - 60]
    BY <1>7, <1>14 DEF Joins
  <1>16. (\A k \in 1 .. 51 : p7[k] = p6[k]) /\ \A k \in 52 .. 60 : p7[k] = R[k - 51]
    BY <1>13 DEF Joins
  <1>17. (\A k \in 1 .. 50 : p6[k] = p5[k]) /\ p6[51] = S[1]
    BY <1>12 DEF Joins
  <1>18. (\A k \in 1 .. 41 : p5[k] = p4[k]) /\ \A k \in 42 .. 50 : p5[k] = R[k - 41]
    BY <1>11 DEF Joins
  <1>19. (\A k \in 1 .. 40 : p4[k] = p3[k]) /\ p4[41] = D[1]
    BY <1>10 DEF Joins
  <1>20. (\A k \in 1 .. 30 : p3[k] = p2[k]) /\ \A k \in 31 .. 40 : p3[k] = C[k - 30]
    BY <1>9 DEF Joins
  <1>21. (\A k \in 1 .. 18 : p2[k] = A[k]) /\ \A k \in 19 .. 30 : p2[k] = B[k - 18]
    BY <1>8 DEF Joins
  <1> HIDE DEF p2, p3, p4, p5, p6, p7, p8
  <1>22. /\ \A k \in 1 .. 40 : V[k] = p3[k]
         /\ V[41].do = "same" /\ V[51].do = "signature"
    <2>1. ASSUME NEW k \in 1 .. 51 PROVE V[k] = p6[k]
      <3>1. k \in 1 .. 60
        OBVIOUS
      <3>2. V[k] = p7[k]
        BY <3>1, <1>15
      <3> QED BY <3>2, <1>16
    <2>2. V[51] = S[1] /\ \A k \in 1 .. 50 : V[k] = p5[k]
      BY <2>1, <1>17
    <2>3. \A k \in 1 .. 41 : V[k] = p4[k]
      BY <2>2, <1>18
    <2>4. V[41] = D[1] /\ \A k \in 1 .. 40 : V[k] = p3[k]
      BY <2>3, <1>19
    <2> QED BY <1>4, <2>2, <2>4
  <1>23. \A k \in 1 .. 18 : V[k] = A[k]
    BY <1>20, <1>21, <1>22
  <1>24. ASSUME NEW k \in 2 .. 11 PROVE V[k].do \in {"stat", "open"} /\ V[k].of \in Export!Files
    <2>1. V[k] = A[k]
      BY <1>23
    <2> QED BY <2>1, PreflightPlan DEF A
  <1>25. V[1].do = "initial" /\ V[12].do = "pinned"
    BY <1>23, PreflightPlan DEF A
  <1>26. ASSUME NEW k \in 13 .. 40
         PROVE  /\ V[k].do \in {"recheck", "close", "stat", "open", "rehash"}
                /\ V[k].do = "open" => V[k].of \in Export!Files
    <2>1. CASE k \in 13 .. 18
      <3>1. V[k] = A[k] /\ (k \in 13 .. 17 \/ k = 18)
        BY <1>23, <2>1
      <3> QED BY <3>1, PreflightPlan DEF A
    <2>2. CASE k \in 19 .. 30
      <3>1. V[k] = B[k - 18] /\ k - 18 \in 1 .. 12
        BY <1>20, <1>21, <1>22, <2>2
      <3> QED BY <3>1, BindPlan DEF Does, B
    <2>3. CASE k \in 31 .. 40
      <3>1. V[k] = C[k - 30] /\ k - 30 \in 1 .. 10
        BY <1>20, <1>22, <2>3
      <3> QED BY <1>3, <3>1 DEF Does
    <2> QED BY <2>1, <2>2, <2>3
  <1>27. ASSUME NEW k \in (42 .. 50) \cup (52 .. 60) PROVE V[k].do = "rehash"
    <2>1. CASE k \in 42 .. 50
      <3>1. V[k] = R[k - 41] /\ k - 41 \in 1 .. 9
        <4>1. k - 41 \in 1 .. 9 /\ k \in 1 .. 50 /\ k \in 1 .. 51 /\ k \in 1 .. 60
          BY <2>1
        <4>2. V[k] = p5[k]
          BY <4>1, <1>15, <1>16, <1>17
        <4> QED BY <2>1, <4>1, <4>2, <1>18
      <3> QED BY <3>1, RoundPlan DEF Does, R
    <2>2. CASE k \in 52 .. 60
      <3>1. V[k] = R[k - 51] /\ k - 51 \in 1 .. 9
        <4>1. k - 51 \in 1 .. 9 /\ k \in 1 .. 60
          BY <2>2
        <4> QED BY <2>2, <4>1, <1>15, <1>16
      <3> QED BY <3>1, RoundPlan DEF Does, R
    <2> QED BY <2>1, <2>2
  <1>28. /\ V[61].do = "read" /\ V[61].of = "message"
         /\ \A k \in 61 .. 63 : V[k].do = "read" /\ V[k].of \in Export!Files
         /\ V[64].do = "receipts" /\ V[65].do = "last"
    <2>1. V[61] = L[1] /\ V[62] = L[2] /\ V[63] = L[3] /\ V[64] = L[4] /\ V[65] = L[5]
      BY <1>15
    <2>2. L[1].do = "read" /\ L[1].of = "message" /\ L[4].do = "receipts" /\ L[5].do = "last"
      BY LastPlan DEF L
    <2>3. /\ L[1].do = "read" /\ L[2].do = "read" /\ L[3].do = "read"
          /\ L[1].of \in Export!Files /\ L[2].of \in Export!Files /\ L[3].of \in Export!Files
      BY LastPlan DEF L
    <2>4. \A k \in 61 .. 63 : k = 61 \/ k = 62 \/ k = 63
      OBVIOUS
    <2> QED BY <2>1, <2>2, <2>3, <2>4
  <1>29. ASSUME NEW k \in 66 .. 74 PROVE V[k].do = "rehash" /\ V[k].of = BothGroups[k - 65]
    <2>1. V[k] = L[k - 60] /\ k - 60 \in 6 .. 14
      <3>1. k - 60 \in 6 .. 14 /\ k \in 61 .. 74
        OBVIOUS
      <3> QED BY <3>1, <1>15
    <2>2. L[k - 60] = R[k - 65] /\ k - 65 \in 1 .. 9
      <3>1. L[k - 60] = Export!Round[(k - 60) - 5]
        BY <2>1, LastPlan DEF L
      <3> QED BY <3>1 DEF R
    <2>3. R[k - 65].do = "rehash" /\ R[k - 65].of = BothGroups[k - 65]
      BY <2>2, RoundPlan DEF Does, R
    <2> QED BY <2>1, <2>2, <2>3
  <1>30. ASSUME NEW k \in 1 .. 74, V[k].do \in {"open", "read"} PROVE V[k].of \in Export!Files
    <2>1. CASE k \in 1 .. 12
      BY <1>24, <1>25, <1>30, <2>1
    <2>2. CASE k \in 13 .. 40
      BY <1>26, <1>30, <2>2
    <2>3. CASE k \in 41 .. 60
      BY <1>22, <1>27, <1>30, <2>3
    <2>4. CASE k \in 61 .. 65
      BY <1>28, <1>30, <2>4
    <2>5. CASE k \in 66 .. 74
      BY <1>29, <1>30, <2>5
    <2> QED BY <2>1, <2>2, <2>3, <2>4, <2>5
  <1> QED BY <1>15, <1>22, <1>24, <1>25, <1>26, <1>27, <1>28, <1>29, <1>30 DEF PlanFacts, V

-----------------------------------------------------------------------------
(* Where the verifier is in its plan. *)
ExportPlace == 75 - Len(at)
ExportPlaceInv == /\ at \in Seq(ExportTasks) /\ Len(at) \in 1 .. 74
                  /\ \A i \in 1 .. Len(at) : at[i] = Export!verify_export[74 - Len(at) + i]

(* What is behind a descriptor since its status was noted. *)
ExportInodes == [bytes : UNION {Export!Contents(f) : f \in Export!Files}, time : Nat]
ExportHeld(f) ==
  /\ held[f].file \in 0 .. Len(inodes[f]) /\ held[f].time \in 0 .. edits
  /\ held[f].file # 0 /\ Export!Behind(f).time = held[f].time
       => Export!Behind(f).bytes = held[f].bytes
ExportFiles ==
  /\ edits \in Nat /\ inodes \in [Export!Files -> Seq(ExportInodes)]
  /\ held = [f \in Export!Files |-> held[f]]
  /\ \A f \in Export!Files :
       /\ Len(inodes[f]) > 0 /\ ExportHeld(f)
       /\ \A i \in 1 .. Len(inodes[f]) :
            inodes[f][i].bytes \in Export!Contents(f) /\ inodes[f][i].time <= edits

(* What was read through a descriptor is what it held when it was opened, or  *)
(* the descriptor's file has changed since, for good. *)
Unwritten(f, value) == held[f].file # 0 /\ Export!Behind(f).time = held[f].time
    => value = held[f].bytes
(* The name no longer leads to the descriptor's file as it was opened. *)
Lost(f) == held[f].file # Len(inodes[f]) \/ Export!Behind(f).time # held[f].time

ExportOpened ==
  /\ ExportPlace > 41 => \A f \in Export!Entries(Export!Trust) : held[f].bytes = initial["spec"]
  /\ ExportPlace > 51 => /\ Unwritten("message", signed.message) /\ Unwritten("key", signed.key)
                         /\ Unwritten("signature", [of |-> signed.message, by |-> signed.key])
  /\ ExportPlace > 61 => Unwritten("message", read["message"])
  /\ ExportPlace > 64 => \A f \in {"conversion", "model"} : held[f].bytes = initial["spec"]
  /\ ExportPlace > 65 => \/ instant
                         \/ \E i \in 1 .. 9 : ExportPlace <= 65 + i /\ Lost(BothGroups[i])
ExportRead ==
  /\ verdict \in {"none", "accepted", "refused"}
  /\ ExportPlace > 1 => initial["spec"] \in Export!Contents("spec")
       /\ initial["spec"] # Export!Malformed
  /\ ExportPlace > 12 => \A f \in Export!Entries(Export!Trust) : preflight[f] = initial["spec"]
  /\ ExportPlace > 51 => signed = [message |-> signed.message, key |-> signed.key]
  /\ read = [f \in Export!Entries(Export!Export) |-> read[f]]
  /\ ExportPlace > 64 => \A f \in {"message", "conversion", "model"} : read[f] = initial["spec"]
  /\ ExportPlace > 68 => signed.key = initial["spec"]
  /\ ExportPlace > 73 => signed.message = initial["spec"]
  /\ verdict = "accepted" => ExportPlace = 74 /\ instant
ExportInv == /\ ExportPlaceInv /\ ExportFiles /\ ExportRead
             /\ verdict = "none" => ExportOpened

LEMMA ExportPromises == ASSUME ExportInv PROVE Export!AcceptedIsSigned /\ Export!AcceptedAtOnce
  <1>1. Export!Entries(Export!Export) \ {"signature"} = {"message", "conversion", "model"}
    BY DEF Export!Entries, Export!Export
  <1>2. ASSUME verdict = "accepted"
        PROVE  /\ signed = [message |-> read["message"], key |-> initial["spec"]]
               /\ \A f \in {"message", "conversion", "model"} : read[f] = initial["spec"]
               /\ instant
    BY <1>2 DEF ExportInv, ExportRead
  <1> QED BY <1>1, <1>2 DEF Export!AcceptedIsSigned, Export!AcceptedAtOnce

LEMMA ExportCounting ==
  ASSUME NEW n \in 1 .. 74
  PROVE  /\ 1 \in 1 .. n /\ (74 - n) + 1 = 75 - n /\ 75 - n \in 1 .. 74 /\ n = 75 - (75 - n)
         /\ n > 1 => n - 1 \in 1 .. 74 /\ 75 - (n - 1) = (75 - n) + 1
         /\ n = 1 <=> 75 - n = 74
         /\ n = 1 <=> ~(n > 1)
         /\ \A i \in 1 .. n - 1 : i + 1 \in 1 .. n /\ (74 - n) + (i + 1) = (74 - (n - 1)) + i
  OBVIOUS

(* The task at hand is the one at the position. *)
LEMMA ThisTask ==
  ASSUME ExportPlaceInv
  PROVE  ExportPlace \in 1 .. 74 /\ at[1] = Export!verify_export[ExportPlace]
      /\ Len(at) = 75 - ExportPlace
  <1>1. Len(at) \in 1 .. 74 /\ \A i \in 1 .. Len(at) :
            at[i] = Export!verify_export[(74 - Len(at)) + i]
    BY DEF ExportPlaceInv
  <1> DEFINE n == Len(at)
  <1> HIDE DEF n
  <1>2. n \in 1 .. 74 /\ \A i \in 1 .. n : at[i] = Export!verify_export[(74 - n) + i]
    BY <1>1 DEF n
  <1>3. /\ 1 \in 1 .. n /\ (74 - n) + 1 = 75 - n /\ 75 - n \in 1 .. 74
        /\ n = 75 - (75 - n)
    BY <1>2, ExportCounting
  <1>4. at[1] = Export!verify_export[75 - n]
    BY <1>2, <1>3
  <1> QED BY <1>3, <1>4 DEF ExportPlace, n

LEMMA ExportAdvances ==
  ASSUME ExportPlaceInv, verdict = "none", NEW accepted, NEW h, Export!Advance(accepted, h)
  PROVE  /\ ExportPlaceInv' /\ inodes' = inodes /\ edits' = edits
         /\ verdict' \in {"none", "accepted", "refused"}
         /\ verdict' = "none" => accepted /\ ExportPlace' = ExportPlace + 1 /\ held' = h
         /\ verdict' # "none" => /\ ExportPlace' = ExportPlace
                                 /\ held' = [f \in Export!Files |-> Export!NotHeld]
         /\ verdict' = "accepted" => accepted /\ ExportPlace = 74
  <1>1. Len(at) \in 1 .. 74
    BY DEF ExportPlaceInv
  <1>2. CASE accepted /\ Len(at) > 1
    <2>1. at' = Tail(at) /\ verdict' = "none" /\ held' = h
      <3>1. at' = Tail(at)
        BY <1>2 DEF Export!Advance
      <3> DEFINE n == Len(at)
      <3>0. n > 1
        BY <1>2
      <3> HIDE DEF n
      <3>4. n # 1
        BY <3>0
      <3>2. Len(at) # 1
        BY <3>4 DEF n
      <3>3. verdict' = "none"
        BY <1>2, <3>2 DEF Export!Advance
      <3> QED BY <3>1, <3>3 DEF Export!Advance
    <2>2. /\ at' \in Seq(ExportTasks) /\ Len(at') = Len(at) - 1
          /\ \A i \in 1 .. Len(at) - 1 : at'[i] = at[i + 1]
      <3>1. at # <<>>
        BY <1>2
      <3>2. at \in Seq(ExportTasks)
        BY DEF ExportPlaceInv
      <3> QED BY <2>1, <3>1, <3>2
    <2> DEFINE n == Len(at)
    <2>3. \A i \in 1 .. n : at[i] = Export!verify_export[(74 - n) + i]
      BY DEF ExportPlaceInv
    <2>4. Len(at') = n - 1 /\ \A i \in 1 .. n - 1 : at'[i] = at[i + 1]
      BY <2>2
    <2>5. n \in 1 .. 74 /\ n > 1
      BY <1>1, <1>2
    <2>6. ExportPlace = 75 - n /\ ExportPlace' = 75 - Len(at')
      BY DEF ExportPlace
    <2> HIDE DEF n
    <2>7. /\ n - 1 \in 1 .. 74 /\ 75 - (n - 1) = (75 - n) + 1
          /\ \A i \in 1 .. n - 1 : i + 1 \in 1 .. n /\ (74 - n) + (i + 1) = (74 - (n - 1)) + i
      BY <2>5, ExportCounting
    <2>8. \A i \in 1 .. Len(at') : at'[i] = Export!verify_export[(74 - Len(at')) + i]
      BY <2>3, <2>4, <2>7
    <2>9. ExportPlaceInv'
      BY <2>2, <2>4, <2>7, <2>8 DEF ExportPlaceInv
    <2>10. ExportPlace' = ExportPlace + 1
      BY <2>4, <2>6, <2>7
    <2> QED BY <1>2, <2>1, <2>9, <2>10 DEF Export!Advance, Export!world
  <1>3. CASE ~(accepted /\ Len(at) > 1)
    <2>1. accepted => Len(at) = 1
      <3> DEFINE n == Len(at)
      <3>1. n \in 1 .. 74 /\ (accepted => ~(n > 1))
        BY <1>1, <1>3
      <3> HIDE DEF n
      <3>2. accepted => n = 1
        BY <3>1, ExportCounting
      <3> QED BY <3>2 DEF n
    <2>2. at' = at
      BY <1>3 DEF Export!Advance
    <2>3. verdict' \in {"accepted", "refused"} /\ (verdict' = "accepted" => accepted)
      BY <2>1 DEF Export!Advance
    <2>4. held' = Export!Closed(h)
      BY <2>3 DEF Export!Advance
    <2>5. ExportPlaceInv' /\ ExportPlace' = ExportPlace
      BY <2>2 DEF ExportPlaceInv, ExportPlace
    <2>6. accepted => ExportPlace = 74
      <3> DEFINE n == Len(at)
      <3>1. (accepted => n = 1) /\ ExportPlace = 75 - n
        BY <2>1 DEF ExportPlace
      <3> HIDE DEF n
      <3> QED BY <3>1
    <2> QED BY <2>3, <2>4, <2>5, <2>6 DEF Export!Advance, Export!world, Export!Closed
  <1> QED BY <1>2, <1>3

(* Descriptors that are closed, or stay, are as before. *)
LEMMA ExportHeldKeeps ==
  ASSUME ExportFiles, inodes' = inodes, edits' = edits,
         held' = [f \in Export!Files |-> Export!NotHeld] \/ held' = held
  PROVE  ExportFiles'
  <1>1. CASE held' = held
    BY <1>1 DEF ExportFiles, ExportHeld, Export!Behind
  <1>2. CASE held' = [f \in Export!Files |-> Export!NotHeld]
    <2>1. \A f \in Export!Files : ExportHeld(f)'
      BY <1>2 DEF ExportFiles, ExportHeld, Export!NotHeld
    <2>2. held' = [f \in Export!Files |-> held'[f]]
      BY <1>2
    <2> QED BY <2>1, <2>2 DEF ExportFiles
  <1> QED BY <1>1, <1>2

(* A refusal changes nothing that was established. *)
LEMMA ExportRefuses ==
  ASSUME ExportInv, verdict = "none", NEW accepted, NEW h, Export!Advance(accepted, h),
         verdict' = "refused",
         ExportPlace > 1 => initial' = initial, ExportPlace > 12 => preflight' = preflight,
         ExportPlace > 51 => signed' = signed, read' = read
  PROVE  ExportInv'
  <1>1. /\ ExportPlaceInv' /\ inodes' = inodes /\ edits' = edits /\ ExportPlace' = ExportPlace
        /\ held' = [f \in Export!Files |-> Export!NotHeld]
    BY ExportAdvances DEF ExportInv
  <1>2. ExportFiles'
    BY <1>1, ExportHeldKeeps DEF ExportInv
  <1>3. ExportPlace \in Int
    <2>1. ExportPlaceInv
      BY DEF ExportInv
    <2>2. ExportPlace \in 1 .. 74
      BY <2>1, ThisTask
    <2> QED BY <2>2
  <1>4. ExportRead'
    BY <1>1, <1>3 DEF ExportInv, ExportRead
  <1> QED BY <1>1, <1>2, <1>4 DEF ExportInv

(* The places of every task. *)
LEMMA ExportLocated ==
  ASSUME ExportPlaceInv
  PROVE  /\ ExportPlace \in 1 .. 74
         /\ at[1].do = "initial" => ExportPlace = 1
         /\ at[1].do = "pinned" => ExportPlace = 12
         /\ at[1].do \in {"stat", "open", "recheck", "close"}
              => ExportPlace <= 40 /\ ExportPlace # 1
                                                              /\ ExportPlace # 12
         /\ at[1].do = "same" => ExportPlace = 41
         /\ at[1].do = "signature" => ExportPlace = 51
         /\ at[1].do = "read" => ExportPlace \in 61 .. 63 /\ (ExportPlace = 61
              => at[1].of = "message")
         /\ at[1].do = "receipts" => ExportPlace = 64
         /\ at[1].do = "last" => ExportPlace = 65
         /\ at[1].do = "rehash" => /\ ExportPlace \notin {1, 12, 41, 51, 61, 62, 63, 64, 65}
                                   /\ ExportPlace > 65 => at[1].of = BothGroups[ExportPlace - 65]
         /\ at[1].do \in {"open", "read"} => at[1].of \in Export!Files
  <1> DEFINE k == ExportPlace
             task == at[1]
             V == Export!verify_export
  <1>1. k \in 1 .. 74 /\ task = V[k]
    BY ThisTask
  <1>2. /\ V[1].do = "initial" /\ \A i \in 2 .. 11 : V[i].do \in {"stat", "open"}
        /\ V[12].do = "pinned"
        /\ \A i \in 13 .. 40 : V[i].do \in {"recheck", "close", "stat", "open", "rehash"}
        /\ V[41].do = "same" /\ V[51].do = "signature"
        /\ \A i \in (42 .. 50) \cup (52 .. 60) : V[i].do = "rehash"
        /\ V[61].do = "read" /\ V[61].of = "message"
        /\ V[62].do = "read" /\ V[63].do = "read"
        /\ V[64].do = "receipts" /\ V[65].do = "last"
        /\ \A i \in 66 .. 74 : V[i].do = "rehash" /\ V[i].of = BothGroups[i - 65]
        /\ \A i \in 1 .. 74 : V[i].do \in {"open", "read"} => V[i].of \in Export!Files
    BY ExportPlan DEF PlanFacts
  <1> HIDE DEF k, task, V
  <1>3. \/ k = 1 \/ k \in 2 .. 11 \/ k = 12 \/ k \in 13 .. 40 \/ k = 41 \/ k = 51
        \/ k \in (42 .. 50) \cup (52 .. 60) \/ k = 61 \/ k = 62 \/ k = 63 \/ k = 64
        \/ k = 65 \/ k \in 66 .. 74
    BY <1>1
  <1>4. CASE k \in 66 .. 74
    BY <1>1, <1>2, <1>4 DEF k, task
  <1>5. CASE k \in {41, 51, 61, 62, 63, 64, 65}
    BY <1>1, <1>2, <1>5 DEF k, task
  <1>6. CASE k \in (42 .. 50) \cup (52 .. 60)
    <2>1. task.do = "rehash"
      BY <1>1, <1>2, <1>6
    <2> QED BY <1>1, <1>6, <2>1 DEF k, task
  <1>7. CASE k \in 13 .. 40
    <2>1. task.do \in {"recheck", "close", "stat", "open", "rehash"}
      BY <1>1, <1>2, <1>7
    <2>2. task.do = "open" => task.of \in Export!Files
      BY <1>1, <1>2
    <2> QED BY <1>1, <1>7, <2>1, <2>2 DEF k, task
  <1>8. CASE k \in 2 .. 11
    <2>1. task.do \in {"stat", "open"}
      BY <1>1, <1>2, <1>8
    <2>2. task.do = "open" => task.of \in Export!Files
      BY <1>1, <1>2
    <2> QED BY <1>1, <1>8, <2>1, <2>2 DEF k, task
  <1>9. CASE k \in {1, 12}
    BY <1>1, <1>2, <1>9 DEF k, task
  <1> QED BY <1>3, <1>4, <1>5, <1>6, <1>7, <1>8, <1>9

(* Nothing is established before the trust files are opened again. *)
LEMMA ExportEarly ==
  ASSUME ExportInv, ExportPlaceInv', ExportFiles', verdict' = "none", ExportPlace \in 1 .. 40,
         ExportPlace' = ExportPlace + 1, read' = read,
         ExportPlace > 1 => initial' = initial,
         ExportPlace = 1 => initial'["spec"] \in Export!Contents("spec")
             /\ initial'["spec"] # Export!Malformed,
         ExportPlace > 12 => preflight' = preflight,
         ExportPlace = 12 => \A f \in Export!Entries(Export!Trust) :
             preflight'[f] = initial["spec"]
  PROVE  ExportInv'
  <1>1. ~(ExportPlace' > 41)
    OBVIOUS
  <1>2. ExportOpened'
    BY <1>1 DEF ExportOpened
  <1>3. ExportPlace' > 12 => \A f \in Export!Entries(Export!Trust) :
            preflight'[f] = initial'["spec"]
    BY DEF ExportInv, ExportRead
  <1>4. ExportPlace' > 1 => initial'["spec"] \in Export!Contents("spec")
            /\ initial'["spec"] # Export!Malformed
    BY DEF ExportInv, ExportRead
  <1>5. ExportRead'
    BY <1>1, <1>3, <1>4 DEF ExportInv, ExportRead
  <1> QED BY <1>2, <1>5 DEF ExportInv

(* The file a name leads to. *)
LEMMA ExportCurrent ==
  ASSUME ExportFiles, NEW f \in Export!Files
  PROVE  /\ Export!Bytes(f) \in Export!Contents(f) /\ Export!Current(f).time \in Nat
         /\ Export!Current(f).time <= edits
         /\ Len(inodes[f]) \in Nat /\ Len(inodes[f]) > 0
  <1>1. inodes[f] \in Seq(ExportInodes) /\ Len(inodes[f]) > 0
    BY DEF ExportFiles
  <1>2. Len(inodes[f]) \in 1 .. Len(inodes[f]) /\ Len(inodes[f]) \in Nat
    BY <1>1
  <1>3. inodes[f][Len(inodes[f])] \in ExportInodes
    BY <1>1, <1>2
  <1> QED BY <1>1, <1>2, <1>3 DEF ExportFiles, Export!Bytes, Export!Current, ExportInodes

LEMMA ExportInitialStep == ASSUME ExportInv, Export!Initial PROVE ExportInv'
  <1>1. /\ ExportPlaceInv /\ verdict = "none" /\ at[1].do = "initial" /\ ExportFiles
        /\ preflight' = preflight /\ signed' = signed /\ read' = read
    BY DEF Export!Initial, Export!Doing, ExportInv
  <1>2. ExportPlace = 1
    BY <1>1, ExportLocated
  <1> DEFINE accepted == /\ Export!_validate_worker_spec(Export!Bytes("spec"))
                         /\ Export!_validate_input_manifest(Export!Bytes("manifest"))
  <1>3. Export!Advance(accepted, held) /\ (accepted => Export!Bytes("spec") # Export!Malformed)
    BY DEF Export!Initial, Export!_validate_worker_spec
  <1> HIDE DEF accepted
  <1>4. CASE verdict' = "refused"
    BY <1>1, <1>2, <1>3, <1>4, ExportRefuses
  <1>5. CASE verdict' = "none"
    <2>1. "spec" \in Export!Files
      BY DEF Export!Files, Export!Entries, Export!Trust
    <2>2. Export!Bytes("spec") \in Export!Contents("spec")
              /\ initial'["spec"] = Export!Bytes("spec")
      BY <1>1, <2>1, ExportCurrent DEF Export!Initial
    <2>3. /\ ExportPlaceInv' /\ inodes' = inodes /\ edits' = edits /\ accepted
          /\ ExportPlace' = ExportPlace + 1 /\ held' = held
      BY <1>1, <1>3, <1>5, ExportAdvances
    <2>4. ExportFiles'
      BY <1>1, <2>3, ExportHeldKeeps
    <2>5. initial'["spec"] \in Export!Contents("spec") /\ initial'["spec"] # Export!Malformed
      BY <1>3, <2>2, <2>3
    <2> QED BY <1>1, <1>2, <1>5, <2>3, <2>4, <2>5, ExportEarly
  <1>6. ExportPlace # 74
    BY <1>2
  <1> QED BY <1>1, <1>3, <1>4, <1>5, <1>6, ExportAdvances

LEMMA ExportStatStep ==
  ASSUME ExportInv, Export!Stat \/ Export!Recheck \/ Export!Close
  PROVE  ExportInv'
  <1>1. /\ ExportPlaceInv /\ verdict = "none" /\ at[1].do \in {"stat", "recheck", "close"}
        /\ ExportFiles
        /\ initial' = initial /\ preflight' = preflight /\ signed' = signed /\ read' = read
    BY DEF Export!Stat, Export!Recheck, Export!Close, Export!Doing, ExportInv
  <1>2. ExportPlace \in 1 .. 40 /\ ExportPlace # 1 /\ ExportPlace # 12
    BY <1>1, ExportLocated
  <1>3. PICK accepted \in BOOLEAN, h \in {held, [f \in Export!Files |-> Export!NotHeld]} :
            Export!Advance(accepted, h)
    BY DEF Export!Stat, Export!Recheck, Export!Close, Export!Closed, Export!_recheck_bound_file
  <1>4. CASE verdict' = "refused"
    BY <1>1, <1>3, <1>4, ExportRefuses
  <1>5. CASE verdict' = "none"
    <2>1. /\ ExportPlaceInv' /\ inodes' = inodes /\ edits' = edits
          /\ ExportPlace' = ExportPlace + 1 /\ held' = h
      BY <1>1, <1>3, <1>5, ExportAdvances
    <2>2. ExportFiles'
      BY <1>1, <1>3, <2>1, ExportHeldKeeps
    <2> QED BY <1>1, <1>2, <1>5, <2>1, <2>2, ExportEarly
  <1> QED BY <1>1, <1>2, <1>3, <1>4, <1>5, ExportAdvances

LEMMA ExportOpenStep == ASSUME ExportInv, Export!_open_bound_file PROVE ExportInv'
  <1>1. /\ ExportPlaceInv /\ verdict = "none" /\ at[1].do = "open" /\ ExportFiles
        /\ initial' = initial /\ preflight' = preflight /\ signed' = signed /\ read' = read
    BY DEF Export!_open_bound_file, Export!Doing, ExportInv
  <1>2. ExportPlace \in 1 .. 40 /\ ExportPlace # 1 /\ ExportPlace # 12
            /\ Export!This \in Export!Files
    BY <1>1, ExportLocated DEF Export!This
  <1> DEFINE h == [held EXCEPT ![Export!This] = [noted EXCEPT !.bytes = Export!Bytes(Export!This)]]
  <1>3. Export!Advance(noted = Export!Seen(Export!This), h)
    BY DEF Export!_open_bound_file
  <1>4. CASE verdict' = "refused"
    BY <1>1, <1>3, <1>4, ExportRefuses
  <1>5. CASE verdict' = "none"
    <2>1. /\ ExportPlaceInv' /\ inodes' = inodes /\ edits' = edits
          /\ noted = Export!Seen(Export!This)
          /\ ExportPlace' = ExportPlace + 1 /\ held' = h
      BY <1>1, <1>3, <1>5, ExportAdvances
    <2>2. PICK g \in Export!Files : g = Export!This
      BY <1>2
    <2>3. /\ held'[g].file = Len(inodes[g]) /\ held'[g].time = Export!Current(g).time
          /\ held'[g].bytes = Export!Bytes(g)
      BY <1>1, <2>1, <2>2 DEF ExportFiles, Export!Seen
    <2>4. ExportHeld(g)'
      <3>1. /\ Export!Current(g).time \in 0 .. edits /\ Len(inodes[g]) \in Nat
        BY <1>1, ExportCurrent DEF ExportFiles
      <3>2. Export!Behind(g)' = Export!Current(g)
        BY <2>1, <2>3 DEF Export!Behind, Export!Current
      <3>3. Len(inodes[g]) \in 0 .. Len(inodes[g])
        BY <3>1
      <3> QED BY <2>1, <2>3, <3>1, <3>2, <3>3 DEF ExportHeld, Export!Bytes
    <2>5. ASSUME NEW f \in Export!Files, f # g PROVE ExportHeld(f)'
      <3>1. held'[f] = held[f]
        BY <1>1, <2>1, <2>2, <2>5 DEF ExportFiles
      <3> QED BY <1>1, <2>1, <3>1 DEF ExportFiles, ExportHeld, Export!Behind
    <2>6. held' = [f \in Export!Files |-> held'[f]]
      BY <1>1, <2>1 DEF ExportFiles
    <2>7. ExportFiles'
      BY <1>1, <2>1, <2>4, <2>5, <2>6 DEF ExportFiles
    <2> QED BY <1>1, <1>2, <1>5, <2>1, <2>7, ExportEarly
  <1>6. ExportPlace # 74
    BY <1>2
  <1> QED BY <1>1, <1>3, <1>4, <1>5, <1>6, ExportAdvances

LEMMA ExportPinnedStep == ASSUME ExportInv, Export!Pinned PROVE ExportInv'
  <1>1. /\ ExportPlaceInv /\ verdict = "none" /\ at[1].do = "pinned" /\ ExportFiles
        /\ initial' = initial /\ signed' = signed /\ read' = read
    BY DEF Export!Pinned, Export!Doing, ExportInv
  <1>2. ExportPlace = 12
    BY <1>1, ExportLocated
  <1>3. Export!Advance(Export!PinnedBySpec, held)
    BY DEF Export!Pinned
  <1>4. CASE verdict' = "refused"
    BY <1>1, <1>2, <1>3, <1>4, ExportRefuses
  <1>5. CASE verdict' = "none"
    <2>1. /\ ExportPlaceInv' /\ inodes' = inodes /\ edits' = edits /\ Export!PinnedBySpec
          /\ ExportPlace' = ExportPlace + 1 /\ held' = held
      BY <1>1, <1>3, <1>5, ExportAdvances
    <2>2. ExportFiles'
      BY <1>1, <2>1, ExportHeldKeeps
    <2>3. \A f \in Export!Entries(Export!Trust) : preflight'[f] = initial["spec"]
      BY <2>1 DEF Export!Pinned, Export!PinnedBySpec
    <2> QED BY <1>1, <1>2, <1>5, <2>1, <2>2, <2>3, ExportEarly
  <1>6. ExportPlace # 74
    BY <1>2
  <1> QED BY <1>1, <1>3, <1>4, <1>5, <1>6, ExportAdvances

LEMMA ExportNamed ==
  /\ Export!Entries(Export!Trust) = {"spec", "manifest", "key", "verifier", "evidence"}
  /\ Export!Entries(Export!Export) = {"conversion", "model", "message", "signature"}
  /\ Export!Files = {"spec", "manifest", "key", "verifier", "evidence", "conversion", "model",
       "message",
              "signature"}
  BY DEF Export!Entries, Export!Trust, Export!Export, Export!Files

LEMMA ExportSameStep == ASSUME ExportInv, Export!Same PROVE ExportInv'
  <1>1. /\ ExportPlaceInv /\ verdict = "none" /\ at[1].do = "same" /\ ExportFiles /\ ExportRead
        /\ initial' = initial /\ preflight' = preflight /\ signed' = signed /\ read' = read
    BY DEF Export!Same, Export!Doing, ExportInv
  <1>2. ExportPlace = 41
    BY <1>1, ExportLocated
  <1>3. Export!Advance(Export!SameTrust, held)
    BY DEF Export!Same
  <1>4. CASE verdict' = "refused"
    BY <1>1, <1>3, <1>4, ExportRefuses
  <1>5. CASE verdict' = "none"
    <2>1. /\ ExportPlaceInv' /\ inodes' = inodes /\ edits' = edits /\ Export!SameTrust
          /\ ExportPlace' = ExportPlace + 1 /\ held' = held
      BY <1>1, <1>3, <1>5, ExportAdvances
    <2>2. ExportFiles'
      BY <1>1, <2>1, ExportHeldKeeps
    <2>3. ExportPlace' = 42
      BY <1>2, <2>1
    <2>4. \A f \in Export!Entries(Export!Trust) : held'[f].bytes = initial'["spec"]
      BY <1>1, <1>2, <2>1 DEF Export!SameTrust, ExportRead
    <2>5. ExportOpened'
      BY <2>3, <2>4 DEF ExportOpened
    <2>6. ExportRead'
      BY <1>1, <1>2, <1>5, <2>3 DEF ExportRead
    <2> QED BY <2>1, <2>2, <2>5, <2>6 DEF ExportInv
  <1>6. ExportPlace # 74
    BY <1>2
  <1> QED BY <1>1, <1>3, <1>4, <1>5, <1>6, ExportAdvances

LEMMA ExportSignatureStep == ASSUME ExportInv, Export!CommandSignatureVerifier PROVE ExportInv'
  <1>1. /\ ExportPlaceInv /\ verdict = "none" /\ at[1].do = "signature" /\ ExportFiles
        /\ ExportRead
        /\ ExportOpened
        /\ initial' = initial /\ preflight' = preflight /\ read' = read
        /\ signed' = [message |-> Export!Behind("message").bytes,
             key |-> Export!Behind("key").bytes]
    BY DEF Export!CommandSignatureVerifier, Export!Doing, ExportInv
  <1>2. ExportPlace = 51
    BY <1>1, ExportLocated
  <1>3. PICK answers \in BOOLEAN : Export!Advance(answers /\ Export!Verifies, held)
    BY DEF Export!CommandSignatureVerifier
  <1> DEFINE accepted == answers /\ Export!Verifies
  <1>4. Export!Advance(accepted, held) /\ (accepted => Export!Verifies)
    BY <1>3
  <1> HIDE DEF accepted
  <1>5. CASE verdict' = "refused"
    BY <1>1, <1>2, <1>4, <1>5, ExportRefuses
  <1>6. CASE verdict' = "none"
    <2>1. /\ ExportPlaceInv' /\ inodes' = inodes /\ edits' = edits /\ Export!Verifies
          /\ ExportPlace' = ExportPlace + 1 /\ held' = held
      BY <1>1, <1>4, <1>6, ExportAdvances
    <2>2. ExportFiles'
      BY <1>1, <2>1, ExportHeldKeeps
    <2>3. ExportPlace' = 52
      BY <1>2, <2>1
    <2>4. \A f \in Export!Entries(Export!Trust) : held'[f].bytes = initial'["spec"]
      BY <1>1, <1>2, <2>1 DEF ExportOpened
    <2>5. ASSUME NEW f \in Export!Files PROVE Unwritten(f, Export!Behind(f).bytes)
      BY <1>1 DEF ExportFiles, ExportHeld, Unwritten
    <2>6. /\ Unwritten("message", signed'.message) /\ Unwritten("key", signed'.key)
          /\ Unwritten("signature", [of |-> signed'.message, by |-> signed'.key])
      BY <1>1, <2>1, <2>5, ExportNamed DEF Export!Verifies
    <2>7. /\ Unwritten("message", signed.message)' /\ Unwritten("key", signed.key)'
          /\ Unwritten("signature", [of |-> signed.message, by |-> signed.key])'
      BY <2>1, <2>6 DEF Unwritten, Export!Behind
    <2>8. ExportOpened'
      BY <2>3, <2>4, <2>7 DEF ExportOpened
    <2>9. ExportRead'
      BY <1>1, <1>2, <1>6, <2>3 DEF ExportRead
    <2> QED BY <2>1, <2>2, <2>8, <2>9 DEF ExportInv
  <1>7. ExportPlace # 74
    BY <1>2
  <1> QED BY <1>1, <1>4, <1>5, <1>6, <1>7, ExportAdvances

LEMMA ExportReadStep == ASSUME ExportInv, Export!_bound_bytes PROVE ExportInv'
  <1>1. /\ ExportPlaceInv /\ verdict = "none" /\ at[1].do = "read" /\ ExportFiles /\ ExportRead
        /\ ExportOpened
        /\ initial' = initial /\ preflight' = preflight /\ signed' = signed
        /\ read' = [read EXCEPT ![Export!This] = Export!Behind(Export!This).bytes]
        /\ Export!Advance(TRUE, held)
    BY DEF Export!_bound_bytes, Export!Doing, ExportInv
  <1>2. /\ ExportPlace \in 61 .. 63 /\ (ExportPlace = 61 => Export!This = "message")
        /\ Export!This \in Export!Files
    BY <1>1, ExportLocated DEF Export!This
  <1>3. /\ ExportPlaceInv' /\ inodes' = inodes /\ edits' = edits
        /\ verdict' \in {"none", "accepted", "refused"}
        /\ verdict' = "none" => ExportPlace' = ExportPlace + 1 /\ held' = held
        /\ verdict' # "none" => verdict' = "refused" \/ ExportPlace = 74
    BY <1>1, ExportAdvances
  <1>4. Len(at) = 75 - ExportPlace
    BY <1>1, ThisTask
  <1>5. verdict' = "none"
    BY <1>1, <1>2, <1>4 DEF Export!Advance
  <1>6. ExportPlace' = ExportPlace + 1 /\ held' = held /\ ExportPlace' \in 62 .. 64
    BY <1>2, <1>3, <1>5
  <1>7. ExportFiles'
    BY <1>1, <1>3, <1>6, ExportHeldKeeps
  <1>8. \A f \in Export!Entries(Export!Trust) : held'[f].bytes = initial'["spec"]
    BY <1>1, <1>2, <1>6 DEF ExportOpened
  <1>9. /\ Unwritten("message", signed.message)' /\ Unwritten("key", signed.key)'
        /\ Unwritten("signature", [of |-> signed.message, by |-> signed.key])'
    BY <1>1, <1>2, <1>3, <1>6 DEF ExportOpened, Unwritten, Export!Behind
  <1>10. Unwritten("message", read'["message"])
    <2>1. CASE Export!This = "message"
      <3>1. read'["message"] = Export!Behind("message").bytes
        BY <1>1, <2>1, ExportNamed DEF ExportRead
      <3>2. ExportHeld("message")
        BY <1>1, ExportNamed DEF ExportFiles
      <3> QED BY <3>1, <3>2 DEF ExportHeld, Unwritten
    <2>2. CASE Export!This # "message"
      <3>1. read'["message"] = read["message"]
        BY <1>1, <2>2, ExportNamed DEF ExportRead
      <3>2. ExportPlace > 61
        BY <1>2, <2>2
      <3> QED BY <1>1, <3>1, <3>2 DEF ExportOpened
    <2> QED BY <2>1, <2>2
  <1>11. Unwritten("message", read["message"])'
    BY <1>3, <1>6, <1>10 DEF Unwritten, Export!Behind
  <1>12. ExportOpened'
    BY <1>6, <1>8, <1>9, <1>11 DEF ExportOpened
  <1>13. read' = [f \in Export!Entries(Export!Export) |-> read'[f]]
    BY <1>1 DEF ExportRead
  <1>14. ExportRead'
    BY <1>1, <1>2, <1>5, <1>6, <1>13 DEF ExportRead
  <1> QED BY <1>3, <1>7, <1>12, <1>14 DEF ExportInv

LEMMA ExportReceiptsStep == ASSUME ExportInv, Export!Receipts PROVE ExportInv'
  <1>1. /\ ExportPlaceInv /\ verdict = "none" /\ at[1].do = "receipts" /\ ExportFiles
        /\ ExportRead
        /\ ExportOpened
        /\ initial' = initial /\ preflight' = preflight /\ signed' = signed /\ read' = read
    BY DEF Export!Receipts, Export!Doing, ExportInv
  <1>2. ExportPlace = 64
    BY <1>1, ExportLocated
  <1> DEFINE accepted == /\ Export!_validate_worker_receipt /\ Export!_static_gguf_identity_bound
                         /\ Export!_validate_conversion_receipts
  <1>3. /\ Export!Advance(accepted, held)
        /\ accepted => Export!_validate_worker_receipt /\ Export!_validate_conversion_receipts
    BY DEF Export!Receipts
  <1> HIDE DEF accepted
  <1>4. CASE verdict' = "refused"
    BY <1>1, <1>3, <1>4, ExportRefuses
  <1>5. CASE verdict' = "none"
    <2>1. /\ ExportPlaceInv' /\ inodes' = inodes /\ edits' = edits
          /\ Export!_validate_worker_receipt /\ Export!_validate_conversion_receipts
          /\ ExportPlace' = ExportPlace + 1 /\ held' = held
      BY <1>1, <1>3, <1>5, ExportAdvances
    <2>2. ExportFiles'
      BY <1>1, <2>1, ExportHeldKeeps
    <2>3. ExportPlace' = 65
      BY <1>2, <2>1
    <2>4. preflight["spec"] = initial["spec"]
      BY <1>1, <1>2, ExportNamed DEF ExportRead
    <2>5. /\ \A f \in {"message", "conversion", "model"} : read[f] = initial["spec"]
          /\ \A f \in {"conversion", "model"} : held[f].bytes = initial["spec"]
      BY <2>1, <2>4 DEF Export!_validate_worker_receipt, Export!_validate_conversion_receipts
    <2>6. \A f \in Export!Entries(Export!Trust) : held'[f].bytes = initial'["spec"]
      BY <1>1, <1>2, <2>1 DEF ExportOpened
    <2>7. /\ Unwritten("message", signed.message)' /\ Unwritten("key", signed.key)'
          /\ Unwritten("signature", [of |-> signed.message, by |-> signed.key])'
          /\ Unwritten("message", read["message"])'
      BY <1>1, <1>2, <2>1 DEF ExportOpened, Unwritten, Export!Behind
    <2>8. ExportOpened'
      BY <1>1, <2>1, <2>3, <2>5, <2>6, <2>7 DEF ExportOpened
    <2>9. ExportRead'
      BY <1>1, <1>2, <1>5, <2>3, <2>5 DEF ExportRead
    <2> QED BY <2>1, <2>2, <2>8, <2>9 DEF ExportInv
  <1>6. ExportPlace # 74
    BY <1>2
  <1> QED BY <1>1, <1>3, <1>4, <1>5, <1>6, ExportAdvances

(* Either everything is of the spec's job when the last round begins, or   *)
(* some name no longer leads to what was opened.                           *)
LEMMA ExportLastStep == ASSUME ExportInv, Export!Last PROVE ExportInv'
  <1>1. /\ ExportPlaceInv /\ verdict = "none" /\ at[1].do = "last" /\ ExportFiles /\ ExportRead
        /\ ExportOpened
        /\ initial' = initial /\ preflight' = preflight /\ signed' = signed /\ read' = read
        /\ Export!Advance(TRUE, held)
        /\ instant' = \E job \in Exported.jobs : \A f \in Export!Files :
             Export!Bytes(f) = Export!Genuine(job, f)
    BY DEF Export!Last, Export!Doing, ExportInv
  <1>2. ExportPlace = 65 /\ Len(at) = 75 - ExportPlace
    BY <1>1, ExportLocated, ThisTask
  <1>3. verdict' = "none"
    BY <1>1, <1>2 DEF Export!Advance
  <1>4. /\ ExportPlaceInv' /\ inodes' = inodes /\ edits' = edits
        /\ ExportPlace' = 66 /\ held' = held
    <2>1. /\ ExportPlaceInv' /\ inodes' = inodes /\ edits' = edits
          /\ ExportPlace' = ExportPlace + 1 /\ held' = held
      BY <1>1, <1>3, ExportAdvances
    <2> QED BY <1>2, <2>1
  <1>5. ExportFiles'
    BY <1>1, <1>4, ExportHeldKeeps
  <1> DEFINE J == initial["spec"]
  <1>6. J \in Exported.jobs
    <2>1. J \in Export!Contents("spec") /\ J # Export!Malformed
      BY <1>1, <1>2 DEF ExportRead
    <2> QED BY <2>1 DEF Export!Contents
  <1>7. ASSUME \A f \in Export!Files : ~Lost(f) PROVE instant'
    <2>1. \A f \in Export!Files : held[f].file # 0 /\ Export!Behind(f).time = held[f].time
                           /\ Export!Behind(f) = Export!Current(f)
      BY <1>1, <1>7, ExportCurrent DEF Lost, Export!Behind, Export!Current
    <2>2. \A f \in Export!Files : Export!Bytes(f) = held[f].bytes
      BY <1>1, <2>1 DEF ExportFiles, ExportHeld, Export!Bytes
    <2>3. \A f \in Export!Entries(Export!Trust) \cup {"conversion", "model"} : held[f].bytes = J
      BY <1>1, <1>2 DEF ExportOpened
    <2>4. /\ signed.message = held["message"].bytes /\ signed.key = held["key"].bytes
          /\ [of |-> signed.message, by |-> signed.key] = held["signature"].bytes
          /\ read["message"] = held["message"].bytes
      BY <1>1, <1>2, <2>1, ExportNamed DEF ExportOpened, Unwritten
    <2>5. read["message"] = J
      BY <1>1, <1>2 DEF ExportRead
    <2>6. held["message"].bytes = J /\ held["key"].bytes = J
      BY <2>3, <2>4, <2>5, ExportNamed
    <2>7. held["signature"].bytes = [of |-> J, by |-> J]
      BY <2>4, <2>6
    <2>8. \A f \in Export!Files : held[f].bytes = Export!Genuine(J, f)
      BY <2>3, <2>6, <2>7, ExportNamed DEF Export!Genuine
    <2> QED BY <1>1, <1>6, <2>2, <2>8
  <1>8. instant' \/ \E i \in 1 .. 9 : ExportPlace' <= 65 + i /\ Lost(BothGroups[i])'
    <2>1. CASE \E f \in Export!Files : Lost(f)
      <3>1. PICK f \in Export!Files : Lost(f)
        BY <2>1
      <3>2. PICK i \in 1 .. 9 : BothGroups[i] = f
        BY ExportNames
      <3>3. Lost(BothGroups[i])'
        BY <1>4, <3>1, <3>2 DEF Lost, Export!Behind
      <3>4. ExportPlace' <= 65 + i
        BY <1>4
      <3> QED BY <3>3, <3>4
    <2> QED BY <1>7, <2>1
  <1>9. \A f \in Export!Entries(Export!Trust) : held'[f].bytes = initial'["spec"]
    BY <1>1, <1>2, <1>4 DEF ExportOpened
  <1>10. \A f \in {"conversion", "model"} : held'[f].bytes = initial'["spec"]
    BY <1>1, <1>2, <1>4 DEF ExportOpened
  <1>11. /\ Unwritten("message", signed.message)' /\ Unwritten("key", signed.key)'
         /\ Unwritten("signature", [of |-> signed.message, by |-> signed.key])'
         /\ Unwritten("message", read["message"])'
    BY <1>1, <1>2, <1>4 DEF ExportOpened, Unwritten, Export!Behind
  <1>12. ExportOpened'
    BY <1>8, <1>9, <1>10, <1>11 DEF ExportOpened
  <1>13. ExportRead'
    BY <1>1, <1>2, <1>3, <1>4 DEF ExportRead
  <1> QED BY <1>4, <1>5, <1>12, <1>13 DEF ExportInv

LEMMA ExportRehashStep == ASSUME ExportInv, Export!Rehash PROVE ExportInv'
  <1>1. /\ ExportPlaceInv /\ verdict = "none" /\ at[1].do = "rehash" /\ ExportFiles
        /\ ExportRead /\ ExportOpened
        /\ initial' = initial /\ preflight' = preflight /\ signed' = signed /\ read' = read
        /\ instant' = instant
    BY DEF Export!Rehash, Export!Doing, ExportInv
  <1>2. /\ ExportPlace \in 1 .. 74 /\ ExportPlace \notin {1, 12, 41, 51, 61, 62, 63, 64, 65}
        /\ ExportPlace > 65 => Export!This = BothGroups[ExportPlace - 65]
    BY <1>1, ExportLocated DEF Export!This
  <1> DEFINE accepted == Export!_rehash_bound_file(Export!This)
  <1>3. Export!Advance(accepted, held) /\ (accepted => ~Lost(Export!This))
    BY DEF Export!Rehash, Export!_rehash_bound_file, Export!_recheck_bound_file, Lost
  <1> HIDE DEF accepted
  <1>4. CASE verdict' = "refused"
    BY <1>1, <1>3, <1>4, ExportRefuses
  <1>5. ASSUME ~Lost(Export!This), ExportPlace > 65
        PROVE  instant \/ \E i \in 1 .. 9 : ExportPlace + 1 <= 65 + i /\ Lost(BothGroups[i])
    <2>1. CASE instant
      BY <2>1
    <2>2. CASE ~instant
      <3>1. PICK i \in 1 .. 9 : ExportPlace <= 65 + i /\ Lost(BothGroups[i])
        BY <1>1, <1>5, <2>2 DEF ExportOpened
      <3>2. i # ExportPlace - 65
        BY <1>2, <1>5, <3>1
      <3>3. ExportPlace + 1 <= 65 + i
        BY <1>2, <3>1, <3>2
      <3> QED BY <3>1, <3>3
    <2> QED BY <2>1, <2>2
  <1>6. ASSUME NEW f \in Export!Files, ~Lost(f)
        PROVE  held[f].file # 0 /\ Export!Behind(f).time = held[f].time
    BY <1>1, <1>6, ExportCurrent DEF Lost
  <1>7. CASE verdict' = "none"
    <2>1. /\ ExportPlaceInv' /\ inodes' = inodes /\ edits' = edits /\ ~Lost(Export!This)
          /\ ExportPlace' = ExportPlace + 1 /\ held' = held
      BY <1>1, <1>3, <1>7, ExportAdvances
    <2>2. ExportFiles'
      BY <1>1, <2>1, ExportHeldKeeps
    <2>3. /\ ExportPlace' > 1 => ExportPlace > 1
          /\ ExportPlace' > 12 => ExportPlace > 12
          /\ ExportPlace' > 41 => ExportPlace > 41
          /\ ExportPlace' > 51 => ExportPlace > 51
          /\ ExportPlace' > 61 => ExportPlace > 61
          /\ ExportPlace' > 64 => ExportPlace > 64
          /\ ExportPlace' > 65 => ExportPlace > 65
          /\ ExportPlace' > 68 => ExportPlace > 68 \/ ExportPlace = 68
          /\ ExportPlace' > 73 => ExportPlace > 73 \/ ExportPlace = 73
          /\ ExportPlace \in Int /\ ExportPlace' \in Int
      BY <1>2, <2>1
    <2>4. ExportPlace' > 41 => \A f \in Export!Entries(Export!Trust) :
              held'[f].bytes = initial'["spec"]
      BY <1>1, <2>1, <2>3 DEF ExportOpened
    <2>5. ExportPlace' > 51 => /\ Unwritten("message", signed.message)'
                               /\ Unwritten("key", signed.key)'
                           /\ Unwritten("signature", [of |-> signed.message, by |-> signed.key])'
      <3> SUFFICES ASSUME ExportPlace' > 51
                   PROVE  /\ Unwritten("message", signed.message)'
                          /\ Unwritten("key", signed.key)'
                          /\ Unwritten("signature", [of |-> signed.message, by |-> signed.key])'
        OBVIOUS
      <3>1. /\ Unwritten("message", signed.message) /\ Unwritten("key", signed.key)
            /\ Unwritten("signature", [of |-> signed.message, by |-> signed.key])
        BY <1>1, <2>3 DEF ExportOpened
      <3> QED BY <1>1, <2>1, <3>1 DEF Unwritten, Export!Behind
    <2>6. ExportPlace' > 61 => Unwritten("message", read["message"])'
      <3> SUFFICES ASSUME ExportPlace' > 61 PROVE Unwritten("message", read["message"])'
        OBVIOUS
      <3>1. Unwritten("message", read["message"])
        BY <1>1, <2>3 DEF ExportOpened
      <3> QED BY <1>1, <2>1, <3>1 DEF Unwritten, Export!Behind
    <2>7. ExportPlace' > 64 => \A f \in {"conversion", "model"} :
              held'[f].bytes = initial'["spec"]
      <3> SUFFICES ASSUME ExportPlace' > 64
                   PROVE  \A f \in {"conversion", "model"} : held'[f].bytes = initial'["spec"]
        OBVIOUS
      <3>1. \A f \in {"conversion", "model"} : held[f].bytes = initial["spec"]
        BY <1>1, <2>3 DEF ExportOpened
      <3> QED BY <1>1, <2>1, <3>1
    <2>8. ExportPlace' > 65 =>
            instant' \/ \E i \in 1 .. 9 : ExportPlace' <= 65 + i /\ Lost(BothGroups[i])'
      BY <1>1, <1>5, <2>1, <2>3 DEF Lost, Export!Behind
    <2>9. ExportOpened'
      BY <2>4, <2>5, <2>6, <2>7, <2>8 DEF ExportOpened
    <2>10. ExportPlace = 68 => signed.key = initial["spec"]
      <3> SUFFICES ASSUME ExportPlace = 68 PROVE signed.key = initial["spec"]
        OBVIOUS
      <3>1. Export!This = BothGroups[3]
        BY <1>2
      <3>2. Export!This = "key"
        BY <3>1, ExportNames
      <3>3. signed.key = held["key"].bytes
        BY <1>1, <1>6, <2>1, <3>2, ExportNamed DEF ExportOpened, Unwritten
      <3>4. held["key"].bytes = initial["spec"]
        BY <1>1, ExportNamed DEF ExportOpened
      <3> QED BY <3>3, <3>4
    <2>11. ExportPlace = 73 => signed.message = initial["spec"]
      <3> SUFFICES ASSUME ExportPlace = 73 PROVE signed.message = initial["spec"]
        OBVIOUS
      <3>1. Export!This = BothGroups[8]
        BY <1>2
      <3>2. Export!This = "message"
        BY <3>1, ExportNames
      <3>3. signed.message = held["message"].bytes /\ read["message"] = held["message"].bytes
        BY <1>1, <1>6, <2>1, <3>2, ExportNamed DEF ExportOpened, Unwritten
      <3>4. read["message"] = initial["spec"]
        BY <1>1 DEF ExportRead
      <3> QED BY <3>3, <3>4
    <2>12. ExportRead'
      <3>1. /\ ExportPlace > 1 => initial["spec"] \in Export!Contents("spec")
                 /\ initial["spec"] # Export!Malformed
            /\ ExportPlace > 12 => \A f \in Export!Entries(Export!Trust) :
                 preflight[f] = initial["spec"]
            /\ ExportPlace > 51 => signed = [message |-> signed.message, key |-> signed.key]
            /\ read = [f \in Export!Entries(Export!Export) |-> read[f]]
            /\ ExportPlace > 64 => \A f \in {"message", "conversion", "model"} :
                                     read[f] = initial["spec"]
        BY <1>1 DEF ExportRead
      <3>2. ExportPlace' > 1 => initial'["spec"] \in Export!Contents("spec")
                /\ initial'["spec"] # Export!Malformed
        BY <1>1, <2>3, <3>1
      <3>3. ExportPlace' > 12 => \A f \in Export!Entries(Export!Trust) :
                preflight'[f] = initial'["spec"]
        BY <1>1, <2>3, <3>1
      <3>4. /\ ExportPlace' > 51 => signed' = [message |-> signed'.message, key |-> signed'.key]
            /\ read' = [f \in Export!Entries(Export!Export) |-> read'[f]]
        BY <1>1, <2>3, <3>1
      <3>5. ExportPlace' > 64 => \A f \in {"message", "conversion", "model"} :
                                  read'[f] = initial'["spec"]
        BY <1>1, <2>3, <3>1
      <3>6. ExportPlace' > 68 => signed'.key = initial'["spec"]
        BY <1>1, <2>3, <2>10 DEF ExportRead
      <3>7. ExportPlace' > 73 => signed'.message = initial'["spec"]
        BY <1>1, <2>3, <2>11 DEF ExportRead
      <3> QED BY <1>7, <3>2, <3>3, <3>4, <3>5, <3>6, <3>7 DEF ExportRead
    <2> QED BY <2>1, <2>2, <2>9, <2>12 DEF ExportInv
  <1>8. CASE verdict' = "accepted"
    <2>1. /\ ExportPlaceInv' /\ inodes' = inodes /\ edits' = edits /\ ~Lost(Export!This)
          /\ ExportPlace = 74
          /\ ExportPlace' = ExportPlace /\ held' = [f \in Export!Files |-> Export!NotHeld]
      BY <1>1, <1>3, <1>8, ExportAdvances
    <2>2. ExportFiles'
      BY <1>1, <2>1, ExportHeldKeeps
    <2>3. instant
      BY <1>5, <2>1
    <2>4. ExportRead'
      BY <1>1, <1>8, <2>1, <2>3 DEF ExportRead
    <2> QED BY <1>8, <2>1, <2>2, <2>4 DEF ExportInv
  <1> QED BY <1>1, <1>3, <1>4, <1>7, <1>8, ExportAdvances

(* What is written, replaced or exchanged is from then on seen by its time. *)
LEMMA ExportEdits ==
  ASSUME ExportFiles, Export!Edit
  PROVE  /\ inodes' \in [Export!Files -> Seq(ExportInodes)] /\ edits' = edits + 1
         /\ \A f \in Export!Files :
              /\ Len(inodes'[f]) >= Len(inodes[f])
              /\ \A i \in 1 .. Len(inodes'[f]) :
                   /\ inodes'[f][i].bytes \in Export!Contents(f)
                   /\ inodes'[f][i].time <= edits + 1
              /\ \A i \in 1 .. Len(inodes[f]) :
                   inodes'[f][i] = inodes[f][i] \/ inodes'[f][i].time = edits + 1
  <1> DEFINE Result(f, s) ==
        /\ s \in Seq(ExportInodes) /\ Len(s) >= Len(inodes[f])
        /\ \A i \in 1 .. Len(s) : s[i].bytes \in Export!Contents(f) /\ s[i].time <= edits + 1
        /\ \A i \in 1 .. Len(inodes[f]) : s[i] = inodes[f][i] \/ s[i].time = edits + 1
  <1>1. /\ edits \in Nat /\ edits' = edits + 1
        /\ \A f \in Export!Files : inodes[f] \in Seq(ExportInodes) /\ Len(inodes[f]) \in Nat
             /\ Len(inodes[f]) > 0
        /\ \A f \in Export!Files : \A i \in 1 .. Len(inodes[f]) :
             /\ inodes[f][i] \in ExportInodes /\ inodes[f][i].bytes \in Export!Contents(f)
             /\ inodes[f][i].time \in Nat /\ inodes[f][i].time <= edits
    <2>1. edits \in Nat /\ edits' = edits + 1
      BY DEF Export!Edit, ExportFiles, Export!Now
    <2>2. ASSUME NEW f \in Export!Files
          PROVE  inodes[f] \in Seq(ExportInodes) /\ Len(inodes[f]) \in Nat /\ Len(inodes[f]) > 0
      BY DEF ExportFiles
    <2>3. ASSUME NEW f \in Export!Files, NEW i \in 1 .. Len(inodes[f])
          PROVE  /\ inodes[f][i] \in ExportInodes /\ inodes[f][i].bytes \in Export!Contents(f)
                 /\ inodes[f][i].time \in Nat /\ inodes[f][i].time <= edits
      <3>1. inodes[f][i] \in ExportInodes
        BY <2>2
      <3> QED BY <3>1 DEF ExportFiles, ExportInodes
    <2> QED BY <2>1, <2>2, <2>3
  <1>2. ASSUME NEW f \in Export!Files, NEW bytes \in Export!Contents(f)
        PROVE  Export!New(bytes) \in ExportInodes /\ Export!New(bytes).bytes = bytes
            /\ Export!New(bytes).time = edits + 1
    BY <1>1 DEF Export!New, Export!Now, ExportInodes
  <1>3. ASSUME NEW f \in Export!Files PROVE Result(f, inodes[f])
    BY <1>1
  <1>4. ASSUME NEW f \in Export!Files, NEW bytes \in Export!Contents(f)
        PROVE  Result(f, [inodes[f] EXCEPT ![Len(inodes[f])] = Export!New(bytes)])
    <2> DEFINE s == inodes[f]
               t == [s EXCEPT ![Len(s)] = Export!New(bytes)]
    <2>1. s \in Seq(ExportInodes) /\ Len(s) \in 1 .. Len(s)
      BY <1>1
    <2>2. t \in Seq(ExportInodes) /\ Len(t) = Len(s)
      BY <1>2, <2>1
    <2>3. \A i \in 1 .. Len(s) : t[i] = IF i = Len(s) THEN Export!New(bytes) ELSE s[i]
      BY <2>1
    <2>4. \A i \in 1 .. Len(s) : /\ s[i].bytes \in Export!Contents(f)
                                /\ s[i].time \in Nat /\ s[i].time <= edits
      BY <1>1
    <2> HIDE DEF s, t
    <2>5. ASSUME NEW i \in 1 .. Len(s)
          PROVE  /\ t[i].bytes \in Export!Contents(f) /\ t[i].time <= edits + 1
                 /\ t[i] = s[i] \/ t[i].time = edits + 1
      BY <1>1, <1>2, <2>3, <2>4
    <2>6. Len(s) \in Nat
      BY <2>1
    <2> QED BY <2>2, <2>5, <2>6 DEF s, t
  <1>5. ASSUME NEW f \in Export!Files, NEW bytes \in Export!Contents(f), NEW s, Result(f, s),
               Len(s) = Len(inodes[f])
        PROVE  Result(f, Append(s, Export!New(bytes)))
    <2> DEFINE t == Append(s, Export!New(bytes))
               n == Len(inodes[f])
    <2>1. /\ t \in Seq(ExportInodes) /\ Len(t) = Len(s) + 1 /\ t[Len(s) + 1] = Export!New(bytes)
          /\ \A i \in 1 .. Len(s) : t[i] = s[i]
      BY <1>2, <1>5
    <2>2. n \in Nat /\ Len(s) = n
      BY <1>1, <1>5
    <2>3. /\ \A i \in 1 .. n : s[i].bytes \in Export!Contents(f) /\ s[i].time <= edits + 1
          /\ \A i \in 1 .. n : s[i] = inodes[f][i] \/ s[i].time = edits + 1
      BY <1>5
    <2>4. /\ t \in Seq(ExportInodes) /\ Len(t) = n + 1 /\ t[n + 1] = Export!New(bytes)
          /\ \A i \in 1 .. n : t[i] = s[i]
      BY <2>1, <2>2
    <2> HIDE DEF t
    <2>5. \A i \in 1 .. Len(t) : t[i].bytes \in Export!Contents(f) /\ t[i].time <= edits + 1
      <3> HIDE DEF n
      <3> SUFFICES ASSUME NEW i \in 1 .. n + 1
                   PROVE  t[i].bytes \in Export!Contents(f) /\ t[i].time <= edits + 1
        BY <2>4
      <3>1. i \in 1 .. n \/ i = n + 1
        BY <2>2
      <3> QED BY <1>1, <1>2, <2>3, <2>4, <3>1
    <2>6. \A i \in 1 .. n : t[i] = inodes[f][i] \/ t[i].time = edits + 1
      BY <2>3, <2>4
    <2>7. Len(t) >= n
      <3> HIDE DEF n
      <3> QED BY <2>2, <2>4
    <2> QED BY <2>4, <2>5, <2>6, <2>7 DEF t
  <1>6. ASSUME NEW f \in Export!Files PROVE Result(f,
            Export!Gone(inodes[f])) /\ Len(Export!Gone(inodes[f])) = Len(inodes[f])
    <2> DEFINE s == inodes[f]
               t == Export!Gone(s)
               new == [s[Len(s)] EXCEPT !.time = edits + 1]
    <2>1. s \in Seq(ExportInodes) /\ Len(s) \in 1 .. Len(s)
      BY <1>1
    <2>2. new \in ExportInodes /\ new.bytes = s[Len(s)].bytes /\ new.time = edits + 1
      <3> DEFINE last == s[Len(s)]
      <3>1. last \in ExportInodes
        BY <2>1
      <3> HIDE DEF last
      <3>2. [last EXCEPT !.time = edits + 1] = [bytes |-> last.bytes, time |-> edits + 1]
        BY <3>1 DEF ExportInodes
      <3>3. last.bytes \in UNION {Export!Contents(f2) : f2 \in Export!Files} /\ edits + 1 \in Nat
        BY <1>1, <3>1 DEF ExportInodes
      <3> QED BY <3>2, <3>3 DEF last, ExportInodes
    <2>3. t = [s EXCEPT ![Len(s)] = new]
      BY <1>1, <2>1 DEF Export!Gone, Export!Now
    <2> HIDE DEF new
    <2>4. t \in Seq(ExportInodes) /\ Len(t) = Len(s)
      BY <2>1, <2>2, <2>3
    <2>5. \A i \in 1 .. Len(s) : t[i] = IF i = Len(s) THEN new ELSE s[i]
      BY <2>1, <2>3
    <2>6. \A i \in 1 .. Len(s) : /\ s[i].bytes \in Export!Contents(f)
                                /\ s[i].time \in Nat /\ s[i].time <= edits
      BY <1>1
    <2> HIDE DEF s, t
    <2>7. ASSUME NEW i \in 1 .. Len(s)
          PROVE  /\ t[i].bytes \in Export!Contents(f) /\ t[i].time <= edits + 1
                 /\ t[i] = s[i] \/ t[i].time = edits + 1
      BY <1>1, <2>1, <2>2, <2>5, <2>6
    <2>8. Len(s) \in Nat
      BY <2>1
    <2> QED BY <2>4, <2>7, <2>8 DEF s, t
  <1> HIDE DEF Result
  <1>7. DOMAIN inodes = Export!Files /\ inodes = [f \in Export!Files |-> inodes[f]]
    BY DEF ExportFiles
  <1>8. inodes' = [f \in Export!Files |-> inodes'[f]] /\ \A f \in Export!Files :
            Result(f, inodes'[f])
    <2>1. CASE \E f \in Export!Files : \E bytes \in Export!Contents(f) \ {Export!Bytes(f)} :
                 inodes' = [inodes EXCEPT ![f][Len(inodes[f])] = Export!New(bytes)]
      <3>1. PICK g \in Export!Files : \E bytes \in Export!Contents(g) :
                 inodes' = [inodes EXCEPT ![g][Len(inodes[g])] = Export!New(bytes)]
        BY <2>1
      <3>0. PICK bytes \in Export!Contents(g) :
                inodes' = [inodes EXCEPT ![g][Len(inodes[g])] = Export!New(bytes)]
        BY <3>1
      <3>2. inodes' = [f \in Export!Files |-> inodes'[f]]
        BY <1>7, <3>0
      <3>3. inodes'[g] = [inodes[g] EXCEPT ![Len(inodes[g])] = Export!New(bytes)]
        BY <1>7, <3>0
      <3>4. \A f \in Export!Files \ {g} : inodes'[f] = inodes[f]
        BY <1>7, <3>0
      <3> QED BY <1>3, <1>4, <3>0, <3>2, <3>3, <3>4
    <2>2. CASE \E f \in Export!Files : \E bytes \in Export!Contents(f) \ {Export!Bytes(f)} :
                 inodes' = [inodes EXCEPT ![f] = Append(Export!Gone(@), Export!New(bytes))]
      <3>1. PICK g \in Export!Files : \E bytes \in Export!Contents(g) :
                 inodes' = [inodes EXCEPT ![g] = Append(Export!Gone(@), Export!New(bytes))]
        BY <2>2
      <3>0. PICK bytes \in Export!Contents(g) :
                inodes' = [inodes EXCEPT ![g] = Append(Export!Gone(@), Export!New(bytes))]
        BY <3>1
      <3>2. inodes' = [f \in Export!Files |-> inodes'[f]]
        BY <1>7, <3>0
      <3>3. inodes'[g] = Append(Export!Gone(inodes[g]), Export!New(bytes))
        BY <1>7, <3>0
      <3>4. \A f \in Export!Files \ {g} : inodes'[f] = inodes[f]
        BY <1>7, <3>0
      <3>5. Result(g, inodes'[g])
        BY <1>5, <1>6, <3>0, <3>3
      <3> QED BY <1>3, <3>2, <3>4, <3>5
    <2>3. CASE \E g \in {Export!Trust, Export!Export}, job \in Exported.jobs :
                 inodes' = [f \in Export!Files |-> IF f \in Export!Entries(g)
                                                   THEN Append(inodes[f],
                                                       Export!New(Export!Genuine(job, f)))
                                                   ELSE inodes[f]]
      <3>1. PICK g \in {Export!Trust, Export!Export}, job \in Exported.jobs :
                 inodes' = [f \in Export!Files |-> IF f \in Export!Entries(g)
                                                   THEN Append(inodes[f],
                                                       Export!New(Export!Genuine(job, f)))
                                                   ELSE inodes[f]]
        BY <2>3
      <3>2. \A f \in Export!Files : Export!Genuine(job, f) \in Export!Contents(f)
        BY DEF Export!Genuine, Export!Contents
      <3>3. ASSUME NEW f \in Export!Files PROVE Result(f, inodes'[f])
        <4>1. CASE f \in Export!Entries(g)
          <5>1. inodes'[f] = Append(inodes[f], Export!New(Export!Genuine(job, f)))
            BY <3>1, <4>1
          <5> QED BY <1>3, <1>5, <3>2, <5>1
        <4>2. CASE f \notin Export!Entries(g)
          BY <1>3, <3>1, <4>2
        <4> QED BY <4>1, <4>2
      <3> QED BY <3>1, <3>3
    <2> QED BY <2>1, <2>2, <2>3 DEF Export!Edit
  <1>9. inodes' \in [Export!Files -> Seq(ExportInodes)]
    BY <1>8 DEF Result
  <1> QED BY <1>1, <1>8, <1>9 DEF Result

LEMMA ExportEditStep == ASSUME ExportInv, Export!Edit PROVE ExportInv'
  <1>1. /\ ExportFiles /\ ExportPlaceInv /\ ExportRead /\ ExportOpened
        /\ verdict' = "none" /\ at' = at /\ held' = held /\ initial' = initial
        /\ preflight' = preflight /\ signed' = signed /\ read' = read /\ instant' = instant
    BY DEF Export!Edit, Export!work, ExportInv
  <1>2. /\ inodes' \in [Export!Files -> Seq(ExportInodes)] /\ edits' = edits + 1
        /\ \A f \in Export!Files :
             /\ Len(inodes'[f]) >= Len(inodes[f])
             /\ \A i \in 1 .. Len(inodes'[f]) :
                  /\ inodes'[f][i].bytes \in Export!Contents(f)
                  /\ inodes'[f][i].time <= edits + 1
             /\ \A i \in 1 .. Len(inodes[f]) :
                  inodes'[f][i] = inodes[f][i] \/ inodes'[f][i].time = edits + 1
    BY <1>1, ExportEdits
  <1>3. ASSUME NEW f \in Export!Files
        PROVE  /\ Len(inodes[f]) \in Nat /\ Len(inodes'[f]) \in Nat /\ Len(inodes[f]) > 0
               /\ Len(inodes'[f]) >= Len(inodes[f]) /\ edits \in Nat
               /\ held[f].file \in 0 .. Len(inodes[f]) /\ held[f].time \in 0 .. edits
    BY <1>1, <1>2 DEF ExportFiles, ExportHeld
  (* Who finds the noted time finds the same file. *)
  <1>4. ASSUME NEW f \in Export!Files, held[f].file # 0, Export!Behind(f)'.time = held[f].time
        PROVE  Export!Behind(f)' = Export!Behind(f)
    <2>1. held[f].file \in 1 .. Len(inodes[f]) /\ held[f].time # edits + 1
      BY <1>3, <1>4
    <2>2. Export!Behind(f)' = inodes'[f][held[f].file]
      BY <1>1 DEF Export!Behind
    <2>3. inodes'[f][held[f].file] = inodes[f][held[f].file]
      BY <1>2, <1>4, <2>1, <2>2
    <2> QED BY <2>2, <2>3 DEF Export!Behind
  <1>5. ASSUME NEW f \in Export!Files PROVE ExportHeld(f)'
    <2>1. held'[f].file \in 0 .. Len(inodes'[f]) /\ held'[f].time \in 0 .. edits'
      BY <1>1, <1>2, <1>3
    <2>2. ASSUME held'[f].file # 0, Export!Behind(f)'.time = held'[f].time
          PROVE  Export!Behind(f)'.bytes = held'[f].bytes
      BY <1>1, <1>4, <2>2 DEF ExportFiles, ExportHeld
    <2> QED BY <2>1, <2>2 DEF ExportHeld
  <1>6. ExportFiles'
    <2>1. edits' \in Nat
      BY <1>1, <1>2 DEF ExportFiles
    <2>2. \A f \in Export!Files : Len(inodes'[f]) > 0
      BY <1>3
    <2>3. held' = [f \in Export!Files |-> held'[f]]
      BY <1>1 DEF ExportFiles
    <2> QED BY <1>2, <1>5, <2>1, <2>2, <2>3 DEF ExportFiles
  <1>7. ExportPlace' = ExportPlace /\ ExportPlaceInv'
    BY <1>1 DEF ExportPlaceInv, ExportPlace
  <1>8. ASSUME NEW f \in Export!Files, NEW value, Unwritten(f, value)
        PROVE  held'[f].file # 0 /\ Export!Behind(f)'.time = held'[f].time
            => value = held'[f].bytes
    BY <1>1, <1>4, <1>8 DEF Unwritten
  <1>9. ASSUME NEW f \in Export!Files, Lost(f) PROVE Lost(f)'
    <2>1. CASE held[f].file # Len(inodes[f])
      BY <1>1, <1>3, <2>1 DEF Lost
    <2>2. CASE held[f].file = Len(inodes[f])
      BY <1>1, <1>3, <1>4, <1>9, <2>2 DEF Lost
    <2> QED BY <2>1, <2>2
  <1>10. ExportOpened'
    <2>1. ExportPlace > 51 => /\ Unwritten("message", signed.message)'
                              /\ Unwritten("key", signed.key)'
                          /\ Unwritten("signature", [of |-> signed.message, by |-> signed.key])'
      BY <1>1, <1>8, ExportNamed DEF ExportOpened, Unwritten
    <2>2. ExportPlace > 61 => Unwritten("message", read["message"])'
      BY <1>1, <1>8, ExportNamed DEF ExportOpened, Unwritten
    <2>3. \A i \in 1 .. 9 : BothGroups[i] \in Export!Files
      BY ExportNames
    <2>4. ExportPlace > 65 => instant' \/ \E i \in 1 .. 9 :
              ExportPlace' <= 65 + i /\ Lost(BothGroups[i])'
      BY <1>1, <1>7, <1>9, <2>3 DEF ExportOpened
    <2> QED BY <1>1, <1>7, <2>1, <2>2, <2>4 DEF ExportOpened
  <1>11. ExportRead'
    BY <1>1, <1>7 DEF ExportInv, ExportRead
  <1> QED BY <1>6, <1>7, <1>10, <1>11 DEF ExportInv

LEMMA ExportInit == ASSUME Export!JobAssumption, Export!Init PROVE ExportInv
  <1>1. Export!FirstJob \in Exported.jobs
    BY DEF Export!FirstJob, Export!JobAssumption
  <1>2. /\ Export!verify_export \in Seq(ExportTasks) /\ Len(Export!verify_export) = 74
    BY ExportPlan DEF PlanFacts
  <1>3. at = Export!verify_export
    BY DEF Export!Init
  <1>4. ExportPlace = 1 /\ ExportPlaceInv
    <2>1. Len(at) = 74 /\ at \in Seq(ExportTasks)
      BY <1>2, <1>3
    <2>2. \A i \in 1 .. 74 : (74 - 74) + i = i
      OBVIOUS
    <2>3. \A i \in 1 .. Len(at) : at[i] = Export!verify_export[(74 - Len(at)) + i]
      BY <1>3, <2>1, <2>2
    <2>4. ExportPlace = 1
      BY <2>1 DEF ExportPlace
    <2> QED BY <2>1, <2>3, <2>4 DEF ExportPlaceInv
  <1>5. \A f \in Export!Files : Export!Genuine(Export!FirstJob, f) \in Export!Contents(f)
    BY <1>1 DEF Export!Genuine, Export!Contents
  <1>6. \A f \in Export!Files : [bytes |-> Export!Genuine(Export!FirstJob, f),
            time |-> 0] \in ExportInodes
    BY <1>5 DEF ExportInodes
  <1>7. \A f \in Export!Files : /\ inodes[f] = <<[bytes |-> Export!Genuine(Export!FirstJob, f),
                                     time |-> 0]>>
                                /\ held[f] = Export!NotHeld
    BY DEF Export!Init
  <1>8. inodes \in [Export!Files -> Seq(ExportInodes)]
            /\ held = [f \in Export!Files |-> held[f]] /\ edits = 0
    BY <1>6 DEF Export!Init
  <1>9. ASSUME NEW f \in Export!Files
        PROVE  /\ Len(inodes[f]) = 1 /\ ExportHeld(f)
               /\ inodes[f][1].bytes \in Export!Contents(f) /\ inodes[f][1].time = 0
    <2>1. Len(inodes[f]) = 1 /\ inodes[f][1] = [bytes |-> Export!Genuine(Export!FirstJob, f),
              time |-> 0]
      BY <1>7
    <2>2. held[f].file = 0 /\ held[f].time = 0
      <3>1. held[f] = Export!NotHeld
        BY <1>7
      <3> QED BY <3>1 DEF Export!NotHeld
    <2>3. ExportHeld(f)
      BY <1>8, <2>1, <2>2 DEF ExportHeld
    <2> QED BY <1>5, <2>1, <2>3
  <1>10. ExportFiles
    BY <1>8, <1>9 DEF ExportFiles
  <1>11. ExportRead
    BY <1>4 DEF ExportRead, Export!Init
  <1>12. ExportOpened
    BY <1>4 DEF ExportOpened
  <1> QED BY <1>4, <1>10, <1>11, <1>12 DEF ExportInv

LEMMA ExportStep == ASSUME ExportInv, [Export!Next]_Export!vars PROVE ExportInv'
  <1>1. CASE UNCHANGED Export!vars
    <2>1. /\ inodes' = inodes /\ edits' = edits /\ at' = at /\ held' = held /\ verdict' = verdict
          /\ initial' = initial /\ preflight' = preflight /\ signed' = signed /\ read' = read
          /\ instant' = instant
      BY <1>1 DEF Export!vars, Export!world, Export!work
    <2>2. ExportFiles'
      BY <2>1, ExportHeldKeeps DEF ExportInv
    <2>3. ExportPlace' = ExportPlace /\ ExportPlaceInv'
      BY <2>1 DEF ExportPlace, ExportPlaceInv, ExportInv
    <2>4. ExportRead'
      BY <2>1, <2>3 DEF ExportRead, ExportInv
    <2>5. verdict' = "none" => ExportOpened'
      BY <2>1, <2>3 DEF ExportOpened, Unwritten, Lost, Export!Behind, ExportInv
    <2> QED BY <2>2, <2>3, <2>4, <2>5 DEF ExportInv
  <1>2. CASE Export!Next
    BY <1>2, ExportEditStep, ExportInitialStep, ExportStatStep, ExportOpenStep,
       ExportRehashStep, ExportPinnedStep, ExportSameStep, ExportSignatureStep,
       ExportReadStep, ExportReceiptsStep, ExportLastStep
       DEF Export!Next, Export!Verify
  <1> QED BY <1>1, <1>2

-----------------------------------------------------------------------------
(* The validation of a publication of code provenance.                     *)

Bundled == DOMAIN Provided.made \cup {0}
Views == [metadata : 0..Provided.runs, metrics : 0..Provided.runs, load_spec : Bundled,
          artifact : Bundled, receipt : Bundled, calibration : Bundled,
          hf : 0..Provided.runs,
          gguf : Provided.diagnoses \cup {[artifact |-> 0, run |-> 0]}]

(* A validation has come to one of these places, or through all of them.   *)
Come(p, places) == phase[p] \in places \/ Provenance!Accepted(p)

(* What a validation has read agrees with what it read before: each        *)
(* comparison is of the lineage, of the request and of files seen since,   *)
(* none of which is read again.                                            *)
Judged(p) ==
  LET s == seen[p]
  IN  /\ Come(p, {"metadata", "metrics", "load_spec", "artifact", "receipt", "conversion",
                  "diagnostics", "gguf"})
           => stage[p] = "loaded"
      /\ Come(p, {"metrics", "load_spec", "artifact", "receipt", "conversion", "diagnostics",
                  "gguf"})
           => Provenance!MetadataAgrees(p, s.metadata)
      /\ Come(p, {"load_spec", "artifact", "receipt", "conversion", "diagnostics", "gguf"})
           => Provenance!MetricsAgree(p, s.metrics)
      /\ Come(p, {"receipt", "conversion", "diagnostics", "gguf"})
           => Provenance!ArtifactAgrees(p, s.artifact)
      /\ Come(p, {"conversion", "diagnostics", "gguf"}) => Provenance!SchemaAgrees(p, s.receipt)
      /\ Come(p, {"diagnostics", "gguf"}) => Provenance!ConversionAgrees(p, s.calibration)
      /\ Come(p, {"gguf"}) /\ request[p].diagnostics => s.hf = lineage[p].metadata
      /\ Provenance!Accepted(p) /\ request[p].diagnostics => Provenance!GgufAgrees(p, s.gguf)

ProvenanceInv == /\ Provenance!TypeOK /\ Provenance!LineageInv
                 /\ seen \in [Provided.readers -> Views]
                 /\ \A p \in Provided.readers : Judged(p)

(* What a validation has read, and how far it came, are kept while it      *)
(* does not read.                                                          *)
LEMMA JudgedStays ==
  ASSUME NEW p \in Provided.readers, Judged(p), stage'[p] = stage[p], lineage'[p] = lineage[p],
         phase'[p] = phase[p], seen'[p] = seen[p], verdict'[p] = verdict[p],
         request'[p] = request[p]
  PROVE  Judged(p)'
  BY DEF Judged, Come, Provenance!Accepted, Provenance!MetadataAgrees, Provenance!MetricsAgree,
         Provenance!ArtifactAgrees, Provenance!SchemaAgrees, Provenance!ConversionAgrees,
         Provenance!GenericAgrees, Provenance!CalibratedAgrees, Provenance!LegacyBinds,
         Provenance!Binds, Provenance!GgufAgrees, Provenance!Quantization, Provenance!Profile,
         Provenance!CalibrationOf

LEMMA PublicationInit ==
  ASSUME Provenance!Init, Provenance!RunAssumption, Provenance!MadeAssumption
  PROVE  ProvenanceInv
  <1>1. PICK b \in DOMAIN Provided.made :
           /\ files = [f \in Provenance!Files |-> b] /\ hf = Provided.made[b].run
           /\ run = [part \in Provenance!Parts |-> Provided.made[b].run]
           /\ data = Provenance!Profile(b)
           /\ gguf = [artifact |-> Provided.made[b].artifact, run |-> Provided.made[b].run]
           /\ gguf \in Provided.diagnoses
           /\ request \in [Provided.readers ->
                             {q \in Provenance!Requests : q.expected = Provided.made[b].artifact}]
    BY DEF Provenance!Init
  <1>2. Provided.made[b].run \in Provenance!Runs /\ Provenance!Profile(b) \in Provenance!Profiles
    BY DEF Provenance!MadeAssumption, Provenance!RunAssumption, Provenance!Profile
  <1>3. Provenance!Nothing \in Provenance!Lineages
    BY Provenance!NothingType
  <1>4. Provenance!LineageTypeOK
    BY <1>1, <1>2, <1>3 DEF Provenance!Init, Provenance!LineageTypeOK, Provenance!Stages
  <1>5. /\ files \in [Provenance!Files -> DOMAIN Provided.made] /\ hf \in Provenance!Runs
        /\ gguf \in Provided.diagnoses /\ request \in [Provided.readers -> Provenance!Requests]
    BY <1>1, <1>2 DEF Provenance!MadeAssumption
  <1>6. /\ phase \in [Provided.readers -> Provenance!Order] /\ edits \in 0..Provided.edits
        /\ verdict \in [Provided.readers -> {"none", "accepted", "refused"}]
        /\ \A p \in Provided.readers : phase[p] = "start" /\ verdict[p] = "none"
    BY DEF Provenance!Init, Provenance!Order, Provenance!MadeAssumption
  <1>7. Provenance!TypeOK
    BY <1>4, <1>5, <1>6 DEF Provenance!TypeOK
  <1>8. Provenance!LineageInv
    <2>1. run["metadata"] \in Nat /\ run["merged"] \in Nat
      BY <1>1, <1>2 DEF Provenance!Parts, Provenance!Runs
    <2> QED BY <1>4, <2>1, Provenance!NothingType
            DEF Provenance!LineageInv, Provenance!Reads, Provenance!Init
  <1>9. Provenance!Unseen \in Views
    BY DEF Provenance!Unseen, Views, Bundled, Provenance!RunAssumption
  <1>10. seen \in [Provided.readers -> Views]
    BY <1>9 DEF Provenance!Init
  <1>11. \A p \in Provided.readers : Judged(p)
    BY <1>6 DEF Judged, Come, Provenance!Accepted
  <1> QED BY <1>7, <1>8, <1>10, <1>11 DEF ProvenanceInv

(* A step of p alone, that reads a file or changes its loader.             *)
Alone(p) ==
  /\ \A q \in Provided.readers \ {p} :
       /\ stage'[q] = stage[q] /\ lineage'[q] = lineage[q] /\ phase'[q] = phase[q]
       /\ seen'[q] = seen[q] /\ verdict'[q] = verdict[q]
  /\ UNCHANGED request

LEMMA JudgedApart ==
  ASSUME ProvenanceInv, NEW p \in Provided.readers, Alone(p), Judged(p)'
  PROVE  \A q \in Provided.readers : Judged(q)'
  <1> SUFFICES ASSUME NEW q \in Provided.readers, q # p PROVE Judged(q)'
    OBVIOUS
  <1>1. Judged(q)
    BY DEF ProvenanceInv
  <1>2. /\ stage'[q] = stage[q] /\ lineage'[q] = lineage[q] /\ phase'[q] = phase[q]
        /\ seen'[q] = seen[q] /\ verdict'[q] = verdict[q] /\ request'[q] = request[q]
    BY DEF Alone
  <1> QED BY <1>1, <1>2, JudgedStays

(* A file was read, into the view m, and the validation goes on or ends.   *)
LEMMA Viewed ==
  ASSUME ProvenanceInv, NEW p \in Provided.readers, NEW m \in Views,
         NEW place \in Provenance!Order \ {"ended"},
         NEW next \in Provenance!Order, NEW judged \in {"none", "accepted", "refused"},
         judged # "none" <=> next = "ended",
         Provenance!At(p, place), Provenance!Goto(p, next), seen' = [seen EXCEPT ![p] = m],
         verdict' = [verdict EXCEPT ![p] = judged],
         Provenance!World, UNCHANGED <<stage, lineage>>
  PROVE  /\ Provenance!TypeOK' /\ Provenance!LineageInv' /\ seen' \in [Provided.readers -> Views]
         /\ phase'[p] = next /\ seen'[p] = m /\ verdict'[p] = judged
         /\ Alone(p)
  <1> USE DEF ProvenanceInv
  <1>1. /\ phase' = [phase EXCEPT ![p] = next]
        /\ UNCHANGED <<run, data, files, hf, gguf, request, edits, stage, lineage>>
    BY DEF Provenance!World, Provenance!disk, Provenance!Goto
  <1>2. Provenance!LineageInv'
    BY <1>1, Provenance!StillKeeps DEF Provenance!disk, Provenance!loader
  <1>3. Provenance!LineageTypeOK'
    BY <1>2 DEF Provenance!LineageInv
  <1>4. /\ phase \in [Provided.readers -> Provenance!Order]
        /\ verdict \in [Provided.readers -> {"none", "accepted", "refused"}]
        /\ seen \in [Provided.readers -> Views]
        /\ \A q \in Provided.readers : verdict[q] # "none" <=> phase[q] = "ended"
    BY DEF Provenance!TypeOK
  <1>5. /\ phase' \in [Provided.readers -> Provenance!Order]
        /\ verdict' \in [Provided.readers -> {"none", "accepted", "refused"}]
        /\ seen' \in [Provided.readers -> Views]
        /\ phase'[p] = next /\ seen'[p] = m /\ verdict'[p] = judged
        /\ \A q \in Provided.readers \ {p} :
             phase'[q] = phase[q] /\ seen'[q] = seen[q] /\ verdict'[q] = verdict[q]
    BY <1>1, <1>4
  <1>6. \A q \in Provided.readers : verdict'[q] # "none" <=> phase'[q] = "ended"
    BY <1>4, <1>5
  <1>7. Provenance!TypeOK'
    BY <1>1, <1>3, <1>5, <1>6 DEF Provenance!TypeOK
  <1> QED BY <1>1, <1>2, <1>5, <1>7 DEF Alone

(* A validation that is refused is not heard of again.                     *)
LEMMA RefusedJudged ==
  ASSUME NEW p, phase'[p] = "ended", verdict'[p] = "refused" PROVE Judged(p)'
  BY DEF Judged, Come, Provenance!Accepted

(* A file that agrees has been read, and the validation goes on.           *)
Passes(p, place, m, next) ==
  /\ phase[p] = place /\ phase'[p] = next /\ seen'[p] = m
  /\ verdict[p] = "none" /\ verdict'[p] = "none" /\ Judged(p)
  /\ stage'[p] = stage[p] /\ lineage'[p] = lineage[p] /\ request'[p] = request[p]

Viewing == {"metadata", "metrics", "load_spec", "artifact", "receipt", "calibration", "hf",
            "gguf"}

(* A file is read: it agrees and the validation goes on, or it ends.       *)
LEMMA FileSeen ==
  ASSUME ProvenanceInv, NEW p \in Provided.readers, NEW m \in Views,
         NEW place \in Provenance!Order \ {"ended"}, NEW next \in Provenance!Order \ {"ended"},
         Provenance!At(p, place), seen' = [seen EXCEPT ![p] = m], Provenance!World,
         UNCHANGED <<stage, lineage>>,
         \/ /\ Provenance!Goto(p, next) /\ UNCHANGED verdict
            /\ Passes(p, place, m, next) => Judged(p)'
         \/ Provenance!Goto(p, "ended") /\ verdict' = [verdict EXCEPT ![p] = "refused"]
  PROVE  ProvenanceInv'
  <1>1. verdict[p] = "none" /\ phase[p] = place /\ Judged(p)
    BY DEF ProvenanceInv, Provenance!TypeOK, Provenance!At
  <1>2. CASE /\ Provenance!Goto(p, next) /\ UNCHANGED verdict
             /\ Passes(p, place, m, next) => Judged(p)'
    <2>1. verdict' = [verdict EXCEPT ![p] = "none"]
      BY <1>1, <1>2 DEF ProvenanceInv, Provenance!TypeOK
    <2>2. /\ Provenance!TypeOK' /\ Provenance!LineageInv' /\ seen' \in [Provided.readers -> Views]
          /\ phase'[p] = next /\ seen'[p] = m /\ verdict'[p] = "none" /\ Alone(p)
      BY <1>2, <2>1, Viewed
    <2>3. Passes(p, place, m, next)
      BY <1>1, <2>2 DEF Passes, Provenance!World
    <2> QED BY <1>2, <2>2, <2>3, JudgedApart DEF ProvenanceInv
  <1>3. CASE Provenance!Goto(p, "ended") /\ verdict' = [verdict EXCEPT ![p] = "refused"]
    <2>1. "ended" \in Provenance!Order
      BY DEF Provenance!Order
    <2>2. /\ Provenance!TypeOK' /\ Provenance!LineageInv' /\ seen' \in [Provided.readers -> Views]
          /\ phase'[p] = "ended" /\ verdict'[p] = "refused" /\ Alone(p)
      BY <1>3, <2>1, Viewed
    <2> QED BY <2>2, RefusedJudged, JudgedApart DEF ProvenanceInv
  <1> QED BY <1>2, <1>3

LEMMA SeeSteps ==
  ASSUME ProvenanceInv, Provenance!RunAssumption, NEW p \in Provided.readers,
         \/ Provenance!SeeMetadata(p) \/ Provenance!SeeMetrics(p) \/ Provenance!SeeLoadSpec(p)
         \/ Provenance!SeeArtifact(p) \/ Provenance!SeeReceipt(p)
         \/ Provenance!SeeCalibration(p) \/ Provenance!SeeHf(p)
  PROVE  ProvenanceInv'
  <1>1. /\ {run["metadata"], run["metrics"], hf, 0} \subseteq 0..Provided.runs
        /\ {files["load_spec"], files["artifact"], files["receipt"], files["calibration"], 0}
             \subseteq Bundled
        /\ seen[p] \in Views
    BY DEF ProvenanceInv, Provenance!TypeOK, Provenance!LineageTypeOK, Provenance!Parts,
           Provenance!Runs, Provenance!Files, Bundled, Provenance!RunAssumption
  <1> USE DEF Provenance!MetadataAgrees, Provenance!MetricsAgree, Provenance!ArtifactAgrees,
              Provenance!SchemaAgrees, Provenance!ConversionAgrees, Provenance!GenericAgrees,
              Provenance!CalibratedAgrees, Provenance!LegacyBinds, Provenance!Binds,
              Provenance!Quantization, Provenance!Profile, Provenance!CalibrationOf
  <1>2. ASSUME Provenance!SeeMetadata(p) PROVE ProvenanceInv'
    <2> DEFINE v == run["metadata"]
               m == [seen[p] EXCEPT !["metadata"] = v]
    <2>1. m \in Views /\ m.metadata = v /\ \A x \in Viewing \ {"metadata"} : m[x] = seen[p][x]
      BY <1>1 DEF Views, Viewing
    <2>2. /\ Provenance!At(p, "metadata") /\ seen' = [seen EXCEPT ![p] = m]
          /\ Provenance!World /\ UNCHANGED <<stage, lineage>>
          /\ \/ /\ Provenance!Goto(p, "metrics") /\ UNCHANGED verdict
                /\ Provenance!MetadataAgrees(p, v)
             \/ Provenance!Goto(p, "ended") /\ verdict' = [verdict EXCEPT ![p] = "refused"]
      BY <1>2 DEF Provenance!SeeMetadata, Provenance!See, Provenance!loader
    <2>3. {"metadata", "metrics"} \subseteq Provenance!Order \ {"ended"}
      BY DEF Provenance!Order
    <2> HIDE DEF m, v
    <2>4. Provenance!MetadataAgrees(p, v) /\ Passes(p, "metadata", m, "metrics") => Judged(p)'
      BY <2>1 DEF Viewing, Passes, Judged, Come, Provenance!Accepted
    <2> QED BY <2>1, <2>2, <2>3, <2>4, FileSeen
  <1>3. ASSUME Provenance!SeeMetrics(p) PROVE ProvenanceInv'
    <2> DEFINE v == run["metrics"]
               m == [seen[p] EXCEPT !["metrics"] = v]
    <2>1. m \in Views /\ m.metrics = v /\ \A x \in Viewing \ {"metrics"} : m[x] = seen[p][x]
      BY <1>1 DEF Views, Viewing
    <2>2. /\ Provenance!At(p, "metrics") /\ seen' = [seen EXCEPT ![p] = m]
          /\ Provenance!World /\ UNCHANGED <<stage, lineage>>
          /\ \/ /\ Provenance!Goto(p, "load_spec") /\ UNCHANGED verdict
                /\ Provenance!MetricsAgree(p, v)
             \/ Provenance!Goto(p, "ended") /\ verdict' = [verdict EXCEPT ![p] = "refused"]
      BY <1>3 DEF Provenance!SeeMetrics, Provenance!See, Provenance!loader
    <2>3. {"metrics", "load_spec"} \subseteq Provenance!Order \ {"ended"}
      BY DEF Provenance!Order
    <2> HIDE DEF m, v
    <2>4. Provenance!MetricsAgree(p, v) /\ Passes(p, "metrics", m, "load_spec") => Judged(p)'
      BY <2>1 DEF Viewing, Passes, Judged, Come, Provenance!Accepted
    <2> QED BY <2>1, <2>2, <2>3, <2>4, FileSeen
  <1>4. ASSUME Provenance!SeeLoadSpec(p) PROVE ProvenanceInv'
    <2> DEFINE v == files["load_spec"]
               m == [seen[p] EXCEPT !["load_spec"] = v]
    <2>1. m \in Views /\ m.load_spec = v /\ \A x \in Viewing \ {"load_spec"} : m[x] = seen[p][x]
      BY <1>1 DEF Views, Viewing
    <2>2. /\ Provenance!At(p, "load_spec") /\ seen' = [seen EXCEPT ![p] = m]
          /\ Provenance!World /\ UNCHANGED <<stage, lineage>>
          /\ \/ Provenance!Goto(p, "artifact") /\ UNCHANGED verdict 
             \/ Provenance!Goto(p, "ended") /\ verdict' = [verdict EXCEPT ![p] = "refused"]
      BY <1>4 DEF Provenance!SeeLoadSpec, Provenance!See, Provenance!loader
    <2>3. {"load_spec", "artifact"} \subseteq Provenance!Order \ {"ended"}
      BY DEF Provenance!Order
    <2> HIDE DEF m, v
    <2>4. Passes(p, "load_spec", m, "artifact") => Judged(p)'
      BY <2>1 DEF Viewing, Passes, Judged, Come, Provenance!Accepted
    <2> QED BY <2>1, <2>2, <2>3, <2>4, FileSeen
  <1>5. ASSUME Provenance!SeeArtifact(p) PROVE ProvenanceInv'
    <2> DEFINE v == files["artifact"]
               m == [seen[p] EXCEPT !["artifact"] = v]
    <2>1. m \in Views /\ m.artifact = v /\ \A x \in Viewing \ {"artifact"} : m[x] = seen[p][x]
      BY <1>1 DEF Views, Viewing
    <2>2. /\ Provenance!At(p, "artifact") /\ seen' = [seen EXCEPT ![p] = m]
          /\ Provenance!World /\ UNCHANGED <<stage, lineage>>
          /\ \/ /\ Provenance!Goto(p, "receipt") /\ UNCHANGED verdict
                /\ Provenance!ArtifactAgrees(p, v)
             \/ Provenance!Goto(p, "ended") /\ verdict' = [verdict EXCEPT ![p] = "refused"]
      BY <1>5 DEF Provenance!SeeArtifact, Provenance!See, Provenance!loader
    <2>3. {"artifact", "receipt"} \subseteq Provenance!Order \ {"ended"}
      BY DEF Provenance!Order
    <2> HIDE DEF m, v
    <2>4. Provenance!ArtifactAgrees(p, v) /\ Passes(p, "artifact", m, "receipt") => Judged(p)'
      BY <2>1 DEF Viewing, Passes, Judged, Come, Provenance!Accepted
    <2> QED BY <2>1, <2>2, <2>3, <2>4, FileSeen
  <1>6. ASSUME Provenance!SeeReceipt(p) PROVE ProvenanceInv'
    <2> DEFINE v == files["receipt"]
               m == [seen[p] EXCEPT !["receipt"] = v]
    <2>1. m \in Views /\ m.receipt = v /\ \A x \in Viewing \ {"receipt"} : m[x] = seen[p][x]
      BY <1>1 DEF Views, Viewing
    <2>2. /\ Provenance!At(p, "receipt") /\ seen' = [seen EXCEPT ![p] = m]
          /\ Provenance!World /\ UNCHANGED <<stage, lineage>>
          /\ \/ /\ Provenance!Goto(p, "conversion") /\ UNCHANGED verdict
                /\ Provenance!SchemaAgrees(p, v)
             \/ Provenance!Goto(p, "ended") /\ verdict' = [verdict EXCEPT ![p] = "refused"]
      BY <1>6 DEF Provenance!SeeReceipt, Provenance!See, Provenance!loader
    <2>3. {"receipt", "conversion"} \subseteq Provenance!Order \ {"ended"}
      BY DEF Provenance!Order
    <2> HIDE DEF m, v
    <2>4. Provenance!SchemaAgrees(p, v) /\ Passes(p, "receipt", m, "conversion") => Judged(p)'
      BY <2>1 DEF Viewing, Passes, Judged, Come, Provenance!Accepted
    <2> QED BY <2>1, <2>2, <2>3, <2>4, FileSeen
  <1>7. ASSUME Provenance!SeeCalibration(p) PROVE ProvenanceInv'
    <2> DEFINE v == IF request[p].calibration THEN files["calibration"] ELSE 0
               m == [seen[p] EXCEPT !["calibration"] = v]
    <2>1. /\ m \in Views /\ m.calibration = v
          /\ \A x \in Viewing \ {"calibration"} : m[x] = seen[p][x]
      BY <1>1 DEF Views, Viewing
    <2>2. /\ Provenance!At(p, "conversion") /\ seen' = [seen EXCEPT ![p] = m]
          /\ Provenance!World /\ UNCHANGED <<stage, lineage>>
          /\ \/ /\ Provenance!Goto(p, "diagnostics") /\ UNCHANGED verdict
                /\ Provenance!ConversionAgrees(p, v)
             \/ Provenance!Goto(p, "ended") /\ verdict' = [verdict EXCEPT ![p] = "refused"]
      BY <1>7 DEF Provenance!SeeCalibration, Provenance!See, Provenance!loader
    <2>3. {"conversion", "diagnostics"} \subseteq Provenance!Order \ {"ended"}
      BY DEF Provenance!Order
    <2> HIDE DEF m, v
    <2>4. Provenance!ConversionAgrees(p, v)
          => (Passes(p, "conversion", m, "diagnostics") => Judged(p)')
      BY <2>1 DEF Viewing, Passes, Judged, Come, Provenance!Accepted
    <2> QED BY <2>1, <2>2, <2>3, <2>4, FileSeen
  <1>8. ASSUME Provenance!SeeHf(p) PROVE ProvenanceInv'
    <2> DEFINE v == IF request[p].diagnostics THEN hf ELSE 0
               m == [seen[p] EXCEPT !["hf"] = v]
    <2>1. m \in Views /\ m.hf = v /\ \A x \in Viewing \ {"hf"} : m[x] = seen[p][x]
      BY <1>1 DEF Views, Viewing
    <2>2. /\ Provenance!At(p, "diagnostics") /\ seen' = [seen EXCEPT ![p] = m]
          /\ Provenance!World /\ UNCHANGED <<stage, lineage>>
          /\ \/ /\ Provenance!Goto(p, "gguf") /\ UNCHANGED verdict
                /\ (request[p].diagnostics => v = lineage[p].metadata)
             \/ Provenance!Goto(p, "ended") /\ verdict' = [verdict EXCEPT ![p] = "refused"]
      BY <1>8 DEF Provenance!SeeHf, Provenance!See, Provenance!loader
    <2>3. {"diagnostics", "gguf"} \subseteq Provenance!Order \ {"ended"}
      BY DEF Provenance!Order
    <2> HIDE DEF m, v
    <2>4. (request[p].diagnostics => v = lineage[p].metadata)
          => (Passes(p, "diagnostics", m, "gguf") => Judged(p)')
      BY <2>1 DEF Viewing, Passes, Judged, Come, Provenance!Accepted
    <2> QED BY <2>1, <2>2, <2>3, <2>4, FileSeen
  <1> QED BY <1>2, <1>3, <1>4, <1>5, <1>6, <1>7, <1>8

LEMMA SeeGgufStep ==
  ASSUME ProvenanceInv, Provenance!RunAssumption, NEW p \in Provided.readers,
         Provenance!SeeGguf(p)
  PROVE  ProvenanceInv'
  <1> DEFINE v == IF request[p].diagnostics THEN gguf ELSE seen[p].gguf
  <1> DEFINE m == [seen[p] EXCEPT !["gguf"] = v]
  <1>1. seen[p] \in Views /\ gguf \in Provided.diagnoses
    BY DEF ProvenanceInv, Provenance!TypeOK
  <1>2. /\ m \in Views /\ m.gguf = v
        /\ m.metadata = seen[p].metadata /\ m.metrics = seen[p].metrics
        /\ m.load_spec = seen[p].load_spec /\ m.artifact = seen[p].artifact
        /\ m.receipt = seen[p].receipt /\ m.calibration = seen[p].calibration
        /\ m.hf = seen[p].hf
    BY <1>1 DEF Views
  <1>3. /\ Provenance!At(p, "gguf") /\ Provenance!Goto(p, "ended") /\ Provenance!World
        /\ seen' = [seen EXCEPT ![p] = m] /\ UNCHANGED <<stage, lineage>>
        /\ "gguf" \in Provenance!Order \ {"ended"} /\ "ended" \in Provenance!Order
    BY DEF Provenance!SeeGguf, Provenance!loader, Provenance!Order
  <1>4. PICK judged \in {"accepted", "refused"} :
          /\ verdict' = [verdict EXCEPT ![p] = judged]
          /\ judged = "accepted" /\ request[p].diagnostics => Provenance!GgufAgrees(p, gguf)
    BY DEF Provenance!SeeGguf
  <1> HIDE DEF m
  <1>5. /\ Provenance!TypeOK' /\ Provenance!LineageInv' /\ seen' \in [Provided.readers -> Views]
        /\ phase'[p] = "ended" /\ seen'[p] = m /\ verdict'[p] = judged /\ Alone(p)
    BY <1>2, <1>3, <1>4, Viewed
  <1>6. /\ stage'[p] = stage[p] /\ lineage'[p] = lineage[p] /\ request'[p] = request[p]
        /\ phase[p] = "gguf" /\ Judged(p)
    BY <1>3 DEF Provenance!World, Provenance!At, ProvenanceInv
  <1>7. CASE judged = "refused"
    BY <1>5, <1>7, RefusedJudged, JudgedApart DEF ProvenanceInv
  <1>8. CASE judged = "accepted"
    <2>1. request[p].diagnostics => Provenance!GgufAgrees(p, m.gguf) /\ m.gguf = gguf
      BY <1>2, <1>4, <1>8
    <2> HIDE DEF v
    <2>2. Judged(p)'
      BY <1>2, <1>5, <1>6, <1>8, <2>1
      DEF Judged, Come, Provenance!Accepted, Provenance!MetadataAgrees,
          Provenance!MetricsAgree, Provenance!ArtifactAgrees, Provenance!SchemaAgrees,
          Provenance!ConversionAgrees, Provenance!GenericAgrees, Provenance!CalibratedAgrees,
          Provenance!LegacyBinds, Provenance!Binds, Provenance!GgufAgrees,
          Provenance!Quantization, Provenance!Profile, Provenance!CalibrationOf
    <2> QED BY <1>5, <2>2, JudgedApart DEF ProvenanceInv
  <1> QED BY <1>7, <1>8

(* The lineage is loaded, one read after another, before anything is       *)
(* compared with it.                                                       *)
LEMMA BeforeJudged ==
  ASSUME NEW p, phase'[p] = "lineage", verdict'[p] = "none" PROVE Judged(p)'
  BY DEF Judged, Come, Provenance!Accepted

LEMMA PublicationStartStep ==
  ASSUME ProvenanceInv, Provenance!RunAssumption, NEW p \in Provided.readers,
         Provenance!Start(p)
  PROVE  ProvenanceInv'
  <1> USE DEF ProvenanceInv
  <1>1. /\ Provenance!StartLoad(p) /\ phase' = [phase EXCEPT ![p] = "lineage"]
        /\ phase[p] = "start"
        /\ UNCHANGED <<run, data, files, hf, gguf, request, edits, seen, verdict>>
    BY DEF Provenance!Start, Provenance!World, Provenance!disk, Provenance!Goto, Provenance!At
  <1>2. Provenance!LineageInv' /\ Provenance!LineageTypeOK'
    BY <1>1, Provenance!StartKeeps DEF Provenance!disk, Provenance!LineageInv
  <1>3. /\ phase' \in [Provided.readers -> Provenance!Order] /\ phase'[p] = "lineage"
        /\ verdict'[p] = "none" /\ \A q \in Provided.readers \ {p} : phase'[q] = phase[q]
    BY <1>1 DEF Provenance!TypeOK, Provenance!Order
  <1>4. Provenance!TypeOK'
    BY <1>1, <1>2, <1>3 DEF Provenance!TypeOK
  <1>5. \A q \in Provided.readers \ {p} : stage'[q] = stage[q] /\ lineage'[q] = lineage[q]
    BY <1>1 DEF Provenance!StartLoad, Provenance!LineageInv, Provenance!LineageTypeOK
  <1>6. Alone(p) /\ Judged(p)'
    BY <1>1, <1>3, <1>5, BeforeJudged DEF Alone
  <1> QED BY <1>1, <1>2, <1>4, <1>6, JudgedApart

LEMMA PublicationLoadingStep ==
  ASSUME ProvenanceInv, Provenance!RunAssumption, NEW p \in Provided.readers,
         Provenance!Load(p)
  PROVE  ProvenanceInv'
  <1> USE DEF ProvenanceInv
  <1>1. /\ Provenance!LoadStep(p) /\ phase[p] = "lineage"
        /\ UNCHANGED <<run, data, files, hf, gguf, request, edits, phase, seen, verdict>>
    BY DEF Provenance!Load, Provenance!World, Provenance!disk, Provenance!At
  <1>2. Provenance!LineageInv' /\ Provenance!LineageTypeOK'
    BY <1>1, Provenance!LoadKeeps DEF Provenance!disk, Provenance!LineageInv
  <1>3. Provenance!TypeOK'
    BY <1>1, <1>2 DEF Provenance!TypeOK
  <1>4. \A q \in Provided.readers \ {p} : stage'[q] = stage[q] /\ lineage'[q] = lineage[q]
    BY <1>1, Provenance!ReadFills DEF Provenance!Filled, Provenance!LineageInv
  <1>5. phase'[p] = "lineage" /\ verdict'[p] = "none"
    BY <1>1 DEF Provenance!TypeOK
  <1>6. Alone(p) /\ Judged(p)'
    BY <1>1, <1>4, <1>5, BeforeJudged DEF Alone
  <1> QED BY <1>1, <1>2, <1>3, <1>6, JudgedApart

LEMMA PublicationLoadedStep ==
  ASSUME ProvenanceInv, NEW p \in Provided.readers, Provenance!Loaded(p)
  PROVE  ProvenanceInv'
  <1> DEFINE m == seen[p]
  <1>1. /\ m \in Views /\ seen' = [seen EXCEPT ![p] = m]
        /\ Provenance!At(p, "lineage") /\ Provenance!World /\ UNCHANGED <<stage, lineage>>
        /\ {"lineage", "metadata"} \subseteq Provenance!Order \ {"ended"}
    BY DEF Provenance!Loaded, ProvenanceInv, Provenance!loader, Provenance!Order
  <1>2. \/ stage[p] = "loaded" /\ Provenance!Goto(p, "metadata") /\ UNCHANGED verdict
        \/ Provenance!Goto(p, "ended") /\ verdict' = [verdict EXCEPT ![p] = "refused"]
    BY DEF Provenance!Loaded
  <1> HIDE DEF m
  <1>3. stage[p] = "loaded" /\ Passes(p, "lineage", m, "metadata") => Judged(p)'
    BY DEF Passes, Judged, Come, Provenance!Accepted
  <1> QED BY <1>1, <1>2, <1>3, FileSeen

(* A file is exchanged for that of another conversion or run.              *)
LEMMA PublicationEditStep ==
  ASSUME ProvenanceInv, Provenance!RunAssumption, Provenance!MadeAssumption, Provenance!Edit
  PROVE  ProvenanceInv'
  <1> USE DEF ProvenanceInv
  <1>1. UNCHANGED <<stage, lineage, request, phase, seen, verdict>>
    BY DEF Provenance!Edit, Provenance!loader
  <1>2. edits' \in 0..Provided.edits
    BY DEF Provenance!Edit, Provenance!TypeOK, Provenance!MadeAssumption
  <1>3. /\ Provenance!LineageInv' /\ files' \in [Provenance!Files -> DOMAIN Provided.made]
        /\ hf' \in Provenance!Runs /\ gguf' \in Provided.diagnoses
    <2>1. /\ files \in [Provenance!Files -> DOMAIN Provided.made]
          /\ hf \in Provenance!Runs /\ gguf \in Provided.diagnoses
      BY DEF Provenance!TypeOK
    <2>2. CASE Provenance!Replace /\ UNCHANGED <<files, hf, gguf>>
      BY <1>1, <2>1, <2>2, Provenance!ReplaceKeeps DEF Provenance!loader
    <2>3. ASSUME UNCHANGED Provenance!disk PROVE Provenance!LineageInv'
      BY <1>1, <2>3, Provenance!StillKeeps DEF Provenance!loader
    <2>4. CASE \E f \in Provenance!Files : \E b \in DOMAIN Provided.made \ {files[f]} :
                 /\ files' = [files EXCEPT ![f] = b]
                 /\ UNCHANGED <<Provenance!disk, hf, gguf>>
      BY <2>1, <2>3, <2>4
    <2>5. CASE hf' \in Provenance!Runs \ {hf} /\ UNCHANGED <<Provenance!disk, files, gguf>>
      BY <2>1, <2>3, <2>5
    <2>6. CASE gguf' \in Provided.diagnoses \ {gguf} /\ UNCHANGED <<Provenance!disk, files, hf>>
      BY <2>1, <2>3, <2>6
    <2> QED BY <2>2, <2>4, <2>5, <2>6 DEF Provenance!Edit
  <1>4. Provenance!TypeOK'
    BY <1>1, <1>2, <1>3 DEF Provenance!TypeOK, Provenance!LineageInv
  <1>5. \A p \in Provided.readers : Judged(p)'
    BY <1>1, JudgedStays
  <1> QED BY <1>1, <1>3, <1>4, <1>5

LEMMA ProvenanceStep ==
  ASSUME ProvenanceInv, [Provenance!Next]_Provenance!vars, Provenance!RunAssumption,
         Provenance!MadeAssumption
  PROVE  ProvenanceInv'
  <1>1. CASE UNCHANGED Provenance!vars
    <2>1. UNCHANGED <<run, data, stage, lineage, files, hf, gguf, request, phase, seen, verdict,
                      edits>>
      BY <1>1 DEF Provenance!vars, Provenance!disk, Provenance!loader
    <2>2. Provenance!LineageInv'
      BY <2>1, Provenance!StillKeeps DEF ProvenanceInv, Provenance!disk, Provenance!loader
    <2>3. Provenance!TypeOK'
      BY <2>1, <2>2 DEF ProvenanceInv, Provenance!TypeOK, Provenance!LineageInv
    <2>4. \A p \in Provided.readers : Judged(p)'
      BY <2>1, JudgedStays DEF ProvenanceInv
    <2> QED BY <2>1, <2>2, <2>3, <2>4 DEF ProvenanceInv
  <1>2. CASE Provenance!Edit
    BY <1>2, PublicationEditStep
  <1>3. ASSUME NEW p \in Provided.readers, Provenance!Validate(p) PROVE ProvenanceInv'
    BY <1>3, PublicationStartStep, PublicationLoadingStep, PublicationLoadedStep,
       SeeSteps, SeeGgufStep DEF Provenance!Validate
  <1> QED BY <1>1, <1>2, <1>3 DEF Provenance!Next

(* What is accepted is of one run and of one conversion of it.             *)
LEMMA PublicationPromises ==
  ASSUME ProvenanceInv, Provenance!MadeAssumption
  PROVE  /\ Provenance!AcceptedIsOneRun /\ Provenance!AcceptedIsOneConversion
         /\ Provenance!DiagnosticsAreOfIt
  <1> SUFFICES ASSUME NEW p \in Provided.readers, Provenance!Accepted(p)
               PROVE  /\ Provenance!OneRun(lineage[p])
                      /\ {lineage[p].receipt, seen[p].metadata, seen[p].metrics,
                          Provided.made[seen[p].receipt].run} = {lineage[p].metadata}
                      /\ Provided.made[seen[p].receipt].artifact = request[p].expected
                      /\ Provided.made[seen[p].artifact].artifact = request[p].expected
                      /\ seen[p].calibration = Provenance!CalibrationOf(seen[p].receipt)
                      /\ Provenance!Profile(seen[p].receipt) # "current"
                      /\ request[p].diagnostics =>
                           /\ seen[p].gguf.artifact = request[p].expected
                           /\ {seen[p].hf, seen[p].gguf.run}
                                = {Provided.made[seen[p].receipt].run}
    BY DEF Provenance!AcceptedIsOneRun, Provenance!AcceptedIsOneConversion,
           Provenance!DiagnosticsAreOfIt
  <1>1. /\ stage[p] = "loaded" /\ Provenance!MetadataAgrees(p, seen[p].metadata)
        /\ Provenance!MetricsAgree(p, seen[p].metrics)
        /\ Provenance!ArtifactAgrees(p, seen[p].artifact)
        /\ Provenance!SchemaAgrees(p, seen[p].receipt)
        /\ Provenance!ConversionAgrees(p, seen[p].calibration)
        /\ request[p].diagnostics => /\ seen[p].hf = lineage[p].metadata
                                     /\ Provenance!GgufAgrees(p, seen[p].gguf)
    BY DEF ProvenanceInv, Judged, Come
  <1>2. Provenance!OneRun(lineage[p])
    BY <1>1 DEF ProvenanceInv, Provenance!LineageInv, Provenance!Reads
  <1>3. /\ lineage[p].receipt = lineage[p].metadata /\ seen[p].metadata = lineage[p].metadata
        /\ seen[p].metrics = lineage[p].metadata
    BY <1>1, <1>2 DEF Provenance!MetadataAgrees, Provenance!MetricsAgree, Provenance!OneRun
  <1>4. Provided.made[seen[p].artifact].artifact = request[p].expected
    BY <1>1 DEF Provenance!ArtifactAgrees
  <1>5. /\ Provenance!Binds(p, seen[p].receipt)
        /\ seen[p].calibration = Provenance!CalibrationOf(seen[p].receipt)
    BY <1>1 DEF Provenance!ConversionAgrees, Provenance!GenericAgrees,
                Provenance!CalibratedAgrees
  <1>6. /\ Provided.made[seen[p].receipt].run = lineage[p].metadata
        /\ Provided.made[seen[p].receipt].artifact = request[p].expected
    BY <1>4, <1>5 DEF Provenance!Binds
  <1>7. Provenance!Profile(seen[p].receipt) # "current"
    BY <1>1 DEF Provenance!SchemaAgrees, Provenance!ConversionAgrees,
                Provenance!GenericAgrees, Provenance!CalibratedAgrees
  <1> QED BY <1>1, <1>2, <1>3, <1>4, <1>5, <1>6, <1>7 DEF Provenance!GgufAgrees

-----------------------------------------------------------------------------
(* The validation of a diagnostic's repeats.                               *)

Sights ==
  [receipt : [Validation!Bundles -> DOMAIN Diagnosed.made \cup {0}],
   calibration : [Validation!Bundles -> DOMAIN Diagnosed.made \cup {0}],
   artifact : [Validation!Bundles -> Nat], runtime : 0..Diagnosed.runtimes,
   results : [Validation!Repeats -> Validation!Evaluations \cup {0}],
   summary : [Validation!Repeats -> Validation!Evaluations \cup {0}]]

(* Where the files of a bundle have been read, where the lineage has been  *)
(* compared, and where the repeats begin.                                  *)
BundleEnd(p, b) == CASE spec[p].profile = "historical" -> 3 * b + 1
                     [] spec[p].profile = "normalized" -> 3
                     [] spec[p].profile = "current" -> 6
LineageEnd(p) == CASE spec[p].profile = "historical" -> 9
                   [] spec[p].profile = "normalized" -> 5
                   [] spec[p].profile = "current" -> 3
Opening(p) == CASE spec[p].profile = "historical" -> 11
             [] spec[p].profile = "normalized" -> 7
             [] spec[p].profile = "current" -> 8

(* What a validation has passed still holds of what it has read, for none  *)
(* of it is read again: the bundles, the lineage, and the repeats.         *)
BundlesMatch(p) ==
  \A b \in DOMAIN bundle :
    phase[p] > BundleEnd(p, b) => Validation!BundleAgrees(p, b, seen[p].artifact[b])
LineageMatches(p) ==
  phase[p] > LineageEnd(p) => stage[p] = "loaded" /\ Validation!LineageAgrees(p)
RepeatsMatch(p) ==
  \A k \in 1..through[p] :
    /\ phase[p] > Opening(p) + 2 * k - 1 => seen[p].results[k] # 0
    /\ phase[p] > Opening(p) + 2 * k => Validation!SummaryAgrees(p, k, seen[p].summary[k])
Matched(p) ==
  /\ verdict[p] # "refused" => BundlesMatch(p) /\ LineageMatches(p) /\ RepeatsMatch(p)
  /\ verdict[p] = "accepted" =>
       phase[p] = Opening(p) + 2 * through[p] + 1 /\ Validation!RepeatsAgree(p)

ValidationInv == /\ Validation!TypeOK /\ Validation!LineageInv
                 /\ seen \in [Diagnosed.readers -> Sights]
                 /\ through \in [Diagnosed.readers -> Validation!Repeats]
                 /\ phase \in [Diagnosed.readers -> Nat]
                 /\ \A p \in Diagnosed.readers :
                      DOMAIN bundle = DOMAIN spec[p].bundles /\ Matched(p)

(* The shape of what can be declared.                                      *)
LEMMA SpecShape ==
  ASSUME Validation!SpecAssumption, Validation!EvaluationAssumption, NEW s \in Diagnosed.specs
  PROVE  /\ s.profile \in {"historical", "normalized", "current"} /\ s.run \in Validation!Runs
         /\ DOMAIN s.bundles = IF s.profile = "historical" THEN {1, 2} ELSE {1}
         /\ \A b \in DOMAIN s.bundles : s.bundles[b] \in DOMAIN Diagnosed.made
         /\ s.runtime \in Validation!Runtimes
  <1>1. CASE s \in Validation!HistoricalSpecs
    <2>1. PICK r \in Validation!Runs, b \in DOMAIN Diagnosed.made, c \in DOMAIN Diagnosed.made :
            s = Validation!HistoricalSpec(r, b, c)
      BY <1>1 DEF Validation!HistoricalSpecs
    <2>2. s.profile = "historical" /\ s.run = r /\ s.bundles = <<b, c>> /\ s.runtime = 1
      BY <2>1 DEF Validation!HistoricalSpec
    <2>3. DOMAIN <<b, c>> = {1, 2} /\ <<b, c>>[1] = b /\ <<b, c>>[2] = c
      OBVIOUS
    <2> QED BY <2>2, <2>3 DEF Validation!EvaluationAssumption, Validation!Runtimes
  <1>2. CASE s \in Validation!NormalizedSpecs
    <2>1. PICK r \in Validation!Runs, c \in DOMAIN Diagnosed.made,
               a \in Validation!Artifacts, n \in Validation!Runtimes :
            s = Validation!NormalizedSpec(r, c, a, n)
      BY <1>2 DEF Validation!NormalizedSpecs
    <2>2. s.profile = "normalized" /\ s.run = r /\ s.bundles = <<c>> /\ s.runtime = n
      BY <2>1 DEF Validation!NormalizedSpec
    <2>3. DOMAIN <<c>> = {1} /\ <<c>>[1] = c
      OBVIOUS
    <2> QED BY <2>2, <2>3
  <1>3. CASE s \in Validation!CurrentSpecs
    <2>1. PICK r \in Validation!Runs, c \in DOMAIN Diagnosed.made, k \in DOMAIN Diagnosed.made,
               a \in Validation!Artifacts, n \in Validation!Runtimes :
            s = Validation!CurrentSpec(r, c, k, a, n)
      BY <1>3 DEF Validation!CurrentSpecs
    <2>2. s.profile = "current" /\ s.run = r /\ s.bundles = <<c>> /\ s.runtime = n
      BY <2>1 DEF Validation!CurrentSpec
    <2>3. DOMAIN <<c>> = {1} /\ <<c>>[1] = c
      OBVIOUS
    <2> QED BY <2>2, <2>3
  <1> QED BY <1>1, <1>2, <1>3 DEF Validation!SpecAssumption

(* Where a validation may be when it reads what a place says.              *)
Placing(p, kind, n) ==
  LET i == phase[p]
      Apart == \A b \in DOMAIN bundle : i # BundleEnd(p, b)
      Early == i < Opening(p) /\ i # LineageEnd(p)
  IN  /\ kind = "tools" => Apart /\ Early
      /\ kind \in {"receipt", "calibration"} => i < BundleEnd(p, n) /\ Apart /\ Early
      /\ kind = "artifact" => /\ i = BundleEnd(p, n) /\ Early
                              /\ \A b \in DOMAIN bundle : b # n => i # BundleEnd(p, b)
      /\ kind = "load" => Apart /\ Early /\ i < LineageEnd(p)
      /\ kind = "lineage" => Apart /\ i < Opening(p) /\ i = LineageEnd(p)
      /\ kind \in {"load", "lineage"} /\ spec[p].profile = "current" => i < BundleEnd(p, 1)
      /\ kind = "runtime" => Apart /\ Early
      /\ kind = "roots" => Apart /\ i = Opening(p) /\ i > LineageEnd(p)
      /\ kind = "results" => n \in 1..through[p] /\ i = Opening(p) + 2 * n - 1
      /\ kind = "summary" => n \in 1..through[p] /\ i = Opening(p) + 2 * n
      /\ kind = "aggregate" => i = Opening(p) + 2 * through[p] + 1
      /\ kind # "aggregate" => i < Opening(p) + 2 * through[p] + 1

(* The places of each beginning.                                           *)
LEMMA HistoricalPlaces ==
  /\ Len(Validation!HistoricalBegin) = 11
  /\ Validation!HistoricalBegin[1] = <<"tools", 0>>
  /\ Validation!HistoricalBegin[2] = <<"receipt", 1>>
  /\ Validation!HistoricalBegin[3] = <<"calibration", 1>>
  /\ Validation!HistoricalBegin[4] = <<"artifact", 1>>
  /\ Validation!HistoricalBegin[5] = <<"receipt", 2>>
  /\ Validation!HistoricalBegin[6] = <<"calibration", 2>>
  /\ Validation!HistoricalBegin[7] = <<"artifact", 2>>
  /\ Validation!HistoricalBegin[8] = <<"load", 0>>
  /\ Validation!HistoricalBegin[9] = <<"lineage", 0>>
  /\ Validation!HistoricalBegin[10] = <<"runtime", 0>>
  /\ Validation!HistoricalBegin[11] = <<"roots", 0>>
  BY DEF Validation!HistoricalBegin

LEMMA NormalizedPlaces ==
  /\ Len(Validation!NormalizedBegin) = 7
  /\ Validation!NormalizedBegin[1] = <<"tools", 0>>
  /\ Validation!NormalizedBegin[2] = <<"receipt", 1>>
  /\ Validation!NormalizedBegin[3] = <<"artifact", 1>>
  /\ Validation!NormalizedBegin[4] = <<"load", 0>>
  /\ Validation!NormalizedBegin[5] = <<"lineage", 0>>
  /\ Validation!NormalizedBegin[6] = <<"runtime", 0>>
  /\ Validation!NormalizedBegin[7] = <<"roots", 0>>
  BY DEF Validation!NormalizedBegin

LEMMA CurrentPlaces ==
  /\ Len(Validation!CurrentBegin) = 8
  /\ Validation!CurrentBegin[1] = <<"tools", 0>>
  /\ Validation!CurrentBegin[2] = <<"load", 0>>
  /\ Validation!CurrentBegin[3] = <<"lineage", 0>>
  /\ Validation!CurrentBegin[4] = <<"calibration", 1>>
  /\ Validation!CurrentBegin[5] = <<"receipt", 1>>
  /\ Validation!CurrentBegin[6] = <<"artifact", 1>>
  /\ Validation!CurrentBegin[7] = <<"runtime", 0>>
  /\ Validation!CurrentBegin[8] = <<"roots", 0>>
  BY DEF Validation!CurrentBegin

(* A validation's beginning, and its length.                               *)
LEMMA Openings ==
  ASSUME ValidationInv, NEW p \in Diagnosed.readers, Validation!SpecAssumption,
         Validation!EvaluationAssumption
  PROVE  /\ Len(Validation!Begin(p)) = Opening(p) /\ Opening(p) \in Nat
         /\ through[p] \in Nat \ {0} /\ through[p] \in Validation!Repeats
         /\ Validation!Length(p) = Opening(p) + 2 * through[p] + 1
         /\ phase[p] \in 1..Opening(p) + 2 * through[p] + 1
         /\ spec[p] \in Diagnosed.specs
         /\ spec[p].profile \in {"historical", "normalized", "current"}
         /\ DOMAIN bundle = IF spec[p].profile = "historical" THEN {1, 2} ELSE {1}
         /\ \A b \in DOMAIN bundle : spec[p].bundles[b] \in DOMAIN Diagnosed.made
  <1>1. /\ spec[p] \in Diagnosed.specs /\ DOMAIN bundle = DOMAIN spec[p].bundles
        /\ through[p] \in Validation!Repeats /\ phase[p] \in 1..Validation!Length(p)
    BY DEF ValidationInv, Validation!TypeOK
  <1>2. through[p] \in Nat \ {0}
    BY <1>1 DEF Validation!Repeats, Validation!EvaluationAssumption
  <1>3. /\ spec[p].profile \in {"historical", "normalized", "current"}
        /\ DOMAIN bundle = IF spec[p].profile = "historical" THEN {1, 2} ELSE {1}
        /\ \A b \in DOMAIN bundle : spec[p].bundles[b] \in DOMAIN Diagnosed.made
    BY <1>1, SpecShape
  <1>4. Len(Validation!Begin(p)) = Opening(p) /\ Opening(p) \in Nat
    <2>1. CASE spec[p].profile = "historical"
      BY <2>1, HistoricalPlaces DEF Validation!Begin, Opening
    <2>2. CASE spec[p].profile = "normalized"
      BY <2>2, NormalizedPlaces DEF Validation!Begin, Opening
    <2>3. CASE spec[p].profile = "current"
      BY <2>3, CurrentPlaces DEF Validation!Begin, Opening
    <2> QED BY <1>3, <2>1, <2>2, <2>3
  <1>5. Validation!Length(p) = Opening(p) + 2 * through[p] + 1
    BY <1>4 DEF Validation!Length
  <1> QED BY <1>1, <1>2, <1>3, <1>4, <1>5

LEMMA Placed ==
  ASSUME ValidationInv, NEW p \in Diagnosed.readers, Validation!SpecAssumption,
         Validation!EvaluationAssumption, NEW kind, NEW n, Validation!Place(p) = <<kind, n>>
  PROVE  Placing(p, kind, n)
  <1> DEFINE i == phase[p]
  <1>1. /\ Len(Validation!Begin(p)) = Opening(p) /\ Opening(p) \in Nat
        /\ through[p] \in Nat \ {0}
        /\ Validation!Length(p) = Opening(p) + 2 * through[p] + 1
        /\ i \in 1..Opening(p) + 2 * through[p] + 1
        /\ spec[p].profile \in {"historical", "normalized", "current"}
        /\ DOMAIN bundle = IF spec[p].profile = "historical" THEN {1, 2} ELSE {1}
    BY Openings
  <1>2. CASE i > Opening(p)
    <2>1. CASE i = Validation!Length(p)
      <3>1. kind = "aggregate"
        BY <1>1, <1>2, <2>1 DEF Validation!Place
      <3> QED BY <1>1, <2>1, <3>1 DEF Placing
    <2>2. CASE i # Validation!Length(p)
      <3> DEFINE j == i - Opening(p)
      <3>1. j \in 1..2 * through[p]
        BY <1>1, <1>2, <2>2
      <3>2. <<kind, n>> = <<IF j % 2 = 1 THEN "results" ELSE "summary", (j + 1) \div 2>>
        <4>1. Validation!Place(p) = IF j <= 0 THEN Validation!Begin(p)[phase[p]]
                ELSE IF phase[p] = Validation!Length(p) THEN <<"aggregate", 0>>
                ELSE <<IF j % 2 = 1 THEN "results" ELSE "summary", (j + 1) \div 2>>
          BY <1>1 DEF Validation!Place
        <4>2. ~(j <= 0)
          BY <3>1
        <4> QED BY <2>2, <4>1, <4>2
      <3>3. j \in Int /\ i = Opening(p) + j
        BY <1>1
      <3> HIDE DEF j
      <3>4. kind = (IF j % 2 = 1 THEN "results" ELSE "summary") /\ n = (j + 1) \div 2
        BY <3>2
      <3>5. PICK q \in Int : q = (j + 1) \div 2
        BY <3>3
      <3>6. n = q /\ q \in 1..through[p]
        BY <1>1, <3>1, <3>4, <3>5
      <3>7. (j % 2 = 1 => j = 2 * q - 1) /\ (j % 2 # 1 => j = 2 * q)
        BY <3>3, <3>5
      <3>8. \/ kind = "results" /\ i = Opening(p) + 2 * q - 1
            \/ kind = "summary" /\ i = Opening(p) + 2 * q
        BY <1>1, <3>3, <3>4, <3>5, <3>7
      <3> QED BY <1>1, <3>6, <3>8 DEF Placing
    <2> QED BY <2>1, <2>2
  <1>3. CASE i <= Opening(p)
    <2>1. Validation!Begin(p)[i] = <<kind, n>>
      BY <1>1, <1>3 DEF Validation!Place
    <2>2. CASE spec[p].profile = "historical"
      <3>1. Validation!HistoricalBegin[i] = <<kind, n>> /\ i \in 1..11 /\ Opening(p) = 11
        BY <1>1, <1>3, <2>1, <2>2 DEF Validation!Begin, Opening
      <3>2. \/ <<kind, i>> \in {<<"tools", 1>>, <<"load", 8>>, <<"lineage", 9>>,
                                <<"runtime", 10>>, <<"roots", 11>>}
            \/ kind \in {"receipt", "calibration"} /\ n = 1 /\ i \in {2, 3}
            \/ kind \in {"receipt", "calibration"} /\ n = 2 /\ i \in {5, 6}
            \/ <<kind, n, i>> \in {<<"artifact", 1, 4>>, <<"artifact", 2, 7>>}
        BY <3>1, HistoricalPlaces
      <3> QED BY <1>1, <2>2, <3>1, <3>2 DEF Placing, BundleEnd, LineageEnd
    <2>3. CASE spec[p].profile = "normalized"
      <3>1. Validation!NormalizedBegin[i] = <<kind, n>> /\ i \in 1..7 /\ Opening(p) = 7
        BY <1>1, <1>3, <2>1, <2>3 DEF Validation!Begin, Opening
      <3>2. \/ <<kind, i>> \in {<<"tools", 1>>, <<"load", 4>>, <<"lineage", 5>>,
                                <<"runtime", 6>>, <<"roots", 7>>}
            \/ <<kind, n, i>> \in {<<"receipt", 1, 2>>, <<"artifact", 1, 3>>}
        BY <3>1, NormalizedPlaces
      <3> QED BY <1>1, <2>3, <3>1, <3>2 DEF Placing, BundleEnd, LineageEnd
    <2>4. CASE spec[p].profile = "current"
      <3>1. Validation!CurrentBegin[i] = <<kind, n>> /\ i \in 1..8 /\ Opening(p) = 8
        BY <1>1, <1>3, <2>1, <2>4 DEF Validation!Begin, Opening
      <3>2. \/ <<kind, i>> \in {<<"tools", 1>>, <<"load", 2>>, <<"lineage", 3>>,
                                <<"runtime", 7>>, <<"roots", 8>>}
            \/ kind \in {"calibration", "receipt"} /\ n = 1 /\ i \in {4, 5}
            \/ <<kind, n, i>> = <<"artifact", 1, 6>>
        BY <3>1, CurrentPlaces
      <3> QED BY <1>1, <2>4, <3>1, <3>2 DEF Placing, BundleEnd, LineageEnd
    <2> QED BY <1>1, <2>2, <2>3, <2>4
  <1> QED BY <1>1, <1>2, <1>3

(* What a validation has read, and how far it came, are kept while it      *)
(* does not read.                                                          *)
LEMMA MatchedStays ==
  ASSUME NEW p \in Diagnosed.readers, Matched(p), stage'[p] = stage[p], lineage'[p] = lineage[p],
         phase'[p] = phase[p], seen'[p] = seen[p], verdict'[p] = verdict[p],
         spec'[p] = spec[p], through'[p] = through[p], DOMAIN bundle' = DOMAIN bundle
  PROVE  Matched(p)'
  <1>1. BundlesMatch(p) => BundlesMatch(p)'
    BY DEF BundlesMatch, BundleEnd, Validation!BundleAgrees
  <1>2. LineageMatches(p) => LineageMatches(p)'
    BY DEF LineageMatches, LineageEnd, Validation!LineageAgrees
  <1>3. RepeatsMatch(p) => RepeatsMatch(p)'
    <2>1. Opening(p)' = Opening(p)
      BY DEF Opening
    <2>2. \A k : Validation!SummaryAgrees(p, k, seen[p].summary[k])
                   => Validation!SummaryAgrees(p, k, seen[p].summary[k])'
      BY DEF Validation!SummaryAgrees
    <2> QED BY <2>1, <2>2 DEF RepeatsMatch
  <1>4. Validation!RepeatsAgree(p) => Validation!RepeatsAgree(p)'
    BY DEF Validation!RepeatsAgree, Validation!SameOutputs, Validation!InTurn
  <1>5. Opening(p)' = Opening(p)
    BY DEF Opening
  <1> QED BY <1>1, <1>2, <1>3, <1>4, <1>5 DEF Matched

(* A step of p alone.                                                      *)
Lone(p) ==
  /\ \A q \in Diagnosed.readers \ {p} :
       /\ stage'[q] = stage[q] /\ lineage'[q] = lineage[q] /\ phase'[q] = phase[q]
       /\ seen'[q] = seen[q] /\ verdict'[q] = verdict[q]
  /\ UNCHANGED <<bundle, spec, through>>

LEMMA MatchedApart ==
  ASSUME ValidationInv, NEW p \in Diagnosed.readers, Lone(p), Matched(p)'
  PROVE  \A q \in Diagnosed.readers : DOMAIN bundle' = DOMAIN spec'[q].bundles /\ Matched(q)'
  <1> SUFFICES ASSUME NEW q \in Diagnosed.readers, q # p PROVE Matched(q)'
    BY DEF Lone, ValidationInv
  <1>1. Matched(q)
    BY DEF ValidationInv
  <1>2. /\ stage'[q] = stage[q] /\ lineage'[q] = lineage[q] /\ phase'[q] = phase[q]
        /\ seen'[q] = seen[q] /\ verdict'[q] = verdict[q] /\ spec'[q] = spec[q]
        /\ through'[q] = through[q] /\ DOMAIN bundle' = DOMAIN bundle
    BY DEF Lone
  <1> QED BY <1>1, <1>2, MatchedStays

(* A validation goes to the place i with the sight m.                      *)
LEMMA Arrives ==
  ASSUME ValidationInv, Validation!SpecAssumption, Validation!EvaluationAssumption,
         NEW p \in Diagnosed.readers, NEW m \in Sights,
         NEW i \in 1..Validation!Length(p), NEW judged \in {"none", "accepted", "refused"},
         phase' = [phase EXCEPT ![p] = i], verdict' = [verdict EXCEPT ![p] = judged],
         seen' = [seen EXCEPT ![p] = m], Validation!World, Validation!LineageInv',
         \A q \in Diagnosed.readers \ {p} : stage'[q] = stage[q] /\ lineage'[q] = lineage[q]
  PROVE  /\ Validation!TypeOK' /\ seen' \in [Diagnosed.readers -> Sights]
         /\ through' \in [Diagnosed.readers -> Validation!Repeats]
         /\ phase' \in [Diagnosed.readers -> Nat] /\ phase'[p] = i /\ seen'[p] = m
         /\ verdict'[p] = judged /\ Lone(p)
  <1> USE DEF ValidationInv
  <1>1. UNCHANGED <<run, data, source, bundle, runtime, results, summary, partial, spec, through,
                    edits>>
    BY DEF Validation!World, Validation!world, Validation!disk, Validation!asked
  <1>2. \A q \in Diagnosed.readers : phase[q] \in 1..Validation!Length(q)
    BY DEF Validation!TypeOK
  <1>3. \A q \in Diagnosed.readers : Validation!Length(q)' = Validation!Length(q)
    BY <1>1 DEF Validation!Length, Validation!Begin
  <1>4. /\ verdict \in [Diagnosed.readers -> {"none", "accepted", "refused"}]
        /\ verdict' \in [Diagnosed.readers -> {"none", "accepted", "refused"}]
        /\ verdict'[p] = judged
        /\ \A q \in Diagnosed.readers \ {p} : verdict'[q] = verdict[q]
    BY DEF Validation!TypeOK
  <1>5. /\ seen' \in [Diagnosed.readers -> Sights] /\ seen'[p] = m
        /\ \A q \in Diagnosed.readers \ {p} : seen'[q] = seen[q]
    OBVIOUS
  <1>6. /\ \A q \in Diagnosed.readers \ {p} : phase'[q] = phase[q]
        /\ phase' \in [Diagnosed.readers -> Nat] /\ phase'[p] = i
    OBVIOUS
  <1>7. Validation!LineageTypeOK'
    BY DEF Validation!LineageInv
  <1>8. \A q \in Diagnosed.readers : phase'[q] \in 1..Validation!Length(q)'
    BY <1>2, <1>3, <1>6
  <1>9. Validation!TypeOK'
    BY <1>1, <1>4, <1>7, <1>8 DEF Validation!TypeOK
  <1> QED BY <1>1, <1>4, <1>5, <1>6, <1>9 DEF Lone

(* A refused validation is not heard of again.                             *)
LEMMA Declines ==
  ASSUME ValidationInv, Validation!SpecAssumption, Validation!EvaluationAssumption,
         NEW p \in Diagnosed.readers, NEW m \in Sights, UNCHANGED phase,
         verdict' = [verdict EXCEPT ![p] = "refused"], seen' = [seen EXCEPT ![p] = m],
         Validation!World, UNCHANGED <<stage, lineage>>
  PROVE  ValidationInv'
  <1>1. /\ phase[p] \in 1..Validation!Length(p) /\ phase' = [phase EXCEPT ![p] = phase[p]]
        /\ UNCHANGED <<run, data>>
    BY DEF ValidationInv, Validation!TypeOK, Validation!World, Validation!world, Validation!disk
  <1>2. Validation!LineageInv'
    BY <1>1, Validation!StillKeeps
       DEF ValidationInv, Validation!disk, Validation!loader
  <1>3. /\ Validation!TypeOK' /\ seen' \in [Diagnosed.readers -> Sights]
        /\ through' \in [Diagnosed.readers -> Validation!Repeats]
        /\ phase' \in [Diagnosed.readers -> Nat] /\ verdict'[p] = "refused" /\ Lone(p)
    BY <1>1, <1>2, Arrives
  <1>4. Matched(p)'
    BY <1>3 DEF Matched
  <1> QED BY <1>2, <1>3, <1>4, MatchedApart DEF ValidationInv

(* One that was not goes on to the next place.                             *)
Onward(p, m, kind, n) ==
  /\ Validation!TypeOK' /\ seen' \in [Diagnosed.readers -> Sights]
  /\ through' \in [Diagnosed.readers -> Validation!Repeats]
  /\ phase' \in [Diagnosed.readers -> Nat] /\ phase'[p] = phase[p] + 1 /\ phase[p] \in Nat
  /\ seen'[p] = m /\ verdict'[p] = "none" /\ verdict[p] = "none"
  /\ Lone(p) /\ Placing(p, kind, n)
  /\ BundlesMatch(p) /\ LineageMatches(p) /\ RepeatsMatch(p)

LEMMA Advances ==
  ASSUME ValidationInv, Validation!SpecAssumption, Validation!EvaluationAssumption,
         NEW p \in Diagnosed.readers, NEW m \in Sights, NEW kind, NEW n, kind # "aggregate",
         Validation!At(p, <<kind, n>>), phase' = [phase EXCEPT ![p] = phase[p] + 1],
         UNCHANGED verdict, seen' = [seen EXCEPT ![p] = m], Validation!World,
         Validation!LineageInv',
         \A q \in Diagnosed.readers \ {p} : stage'[q] = stage[q] /\ lineage'[q] = lineage[q]
  PROVE  Onward(p, m, kind, n)
  <1> USE DEF Onward
  <1>1. verdict[p] = "none" /\ Placing(p, kind, n)
    BY Placed DEF Validation!At
  <1>2. phase[p] + 1 \in 1..Validation!Length(p) /\ phase[p] \in Nat
    <2>1. /\ Validation!Length(p) = Opening(p) + 2 * through[p] + 1 /\ Opening(p) \in Nat
          /\ phase[p] \in 1..Opening(p) + 2 * through[p] + 1 /\ through[p] \in Nat
      BY Openings
    <2> QED BY <1>1, <2>1 DEF Placing
  <1>3. verdict' = [verdict EXCEPT ![p] = "none"]
    BY <1>1 DEF ValidationInv, Validation!TypeOK
  <1>4. BundlesMatch(p) /\ LineageMatches(p) /\ RepeatsMatch(p)
    BY <1>1 DEF ValidationInv, Matched
  <1> QED BY <1>1, <1>2, <1>3, <1>4, Arrives

(* Which of the two a judgement of one file comes to.                      *)
LEMMA PlacedAt ==
  ASSUME ValidationInv, Validation!SpecAssumption, Validation!EvaluationAssumption,
         NEW p \in Diagnosed.readers, NEW kind, NEW n, kind # "aggregate",
         Validation!At(p, <<kind, n>>)
  PROVE  phase[p] # Validation!Length(p) /\ Placing(p, kind, n)
  <1>1. Placing(p, kind, n)
    BY Placed DEF Validation!At
  <1>2. /\ Validation!Length(p) = Opening(p) + 2 * through[p] + 1 /\ Opening(p) \in Nat
        /\ phase[p] \in 1..Opening(p) + 2 * through[p] + 1 /\ through[p] \in Nat
    BY Openings
  <1> QED BY <1>1, <1>2 DEF Placing

(* What was compared of a bundle stays compared while its files are not    *)
(* read again.                                                             *)
LEMMA AgreesStays ==
  ASSUME NEW p \in Diagnosed.readers, NEW b, spec'[p] = spec[p],
         spec[p].profile \in {"historical", "normalized", "current"},
         seen'[p].receipt[b] = seen[p].receipt[b],
         seen'[p].calibration[b] = seen[p].calibration[b],
         seen'[p].artifact[b] = seen[p].artifact[b],
         spec[p].profile = "current" => lineage'[p] = lineage[p],
         Validation!BundleAgrees(p, b, seen[p].artifact[b])
  PROVE  Validation!BundleAgrees(p, b, seen[p].artifact[b])'
  <1>1. CASE spec[p].profile = "historical"
    BY <1>1 DEF Validation!BundleAgrees, Validation!HistoricalBundle
  <1>2. CASE spec[p].profile = "normalized"
    BY <1>2 DEF Validation!BundleAgrees, Validation!NormalizedBundle
  <1>3. CASE spec[p].profile = "current"
    BY <1>3 DEF Validation!BundleAgrees, Validation!CurrentBundle
  <1> QED BY <1>1, <1>2, <1>3

LEMMA BundlesKept ==
  ASSUME NEW p \in Diagnosed.readers, Lone(p), BundlesMatch(p),
         spec[p].profile \in {"historical", "normalized", "current"},
         DOMAIN bundle \subseteq {1, 2}, phase[p] \in Nat,
         phase'[p] = phase[p] + 1 \/ phase'[p] = phase[p],
         \A b \in DOMAIN bundle :
           /\ phase'[p] > phase[p] => phase[p] # BundleEnd(p, b)
           /\ phase[p] > BundleEnd(p, b) =>
                /\ seen'[p].receipt[b] = seen[p].receipt[b]
                /\ seen'[p].calibration[b] = seen[p].calibration[b]
                /\ seen'[p].artifact[b] = seen[p].artifact[b]
                /\ spec[p].profile = "current" => lineage'[p] = lineage[p]
  PROVE  BundlesMatch(p)'
  <1> SUFFICES ASSUME NEW b \in DOMAIN bundle, phase'[p] > BundleEnd(p, b)
               PROVE  Validation!BundleAgrees(p, b, seen[p].artifact[b])'
    BY DEF BundlesMatch, Lone, BundleEnd
  <1>1. phase[p] > BundleEnd(p, b)
    <2>1. b \in {1, 2}
      OBVIOUS
    <2>2. BundleEnd(p, b) \in Int
      BY <2>1 DEF BundleEnd
    <2> QED BY <2>2
  <1> QED BY <1>1, AgreesStays DEF BundlesMatch, Lone

LEMMA LineageKept ==
  ASSUME NEW p \in Diagnosed.readers, LineageMatches(p), spec'[p] = spec[p],
         spec[p].profile \in {"historical", "normalized", "current"}, phase[p] \in Nat,
         phase'[p] = phase[p] + 1, phase[p] # LineageEnd(p),
         phase[p] > LineageEnd(p) => stage'[p] = stage[p] /\ lineage'[p] = lineage[p]
  PROVE  LineageMatches(p)'
  <1>1. LineageEnd(p)' = LineageEnd(p) /\ LineageEnd(p) \in Int
    BY DEF LineageEnd
  <1>2. Validation!LineageAgrees(p) /\ lineage'[p] = lineage[p] => Validation!LineageAgrees(p)'
    BY DEF Validation!LineageAgrees
  <1> QED BY <1>1, <1>2 DEF LineageMatches

(* Before the repeats nothing is known of them.                            *)
LEMMA NoRepeatYet ==
  ASSUME NEW p \in Diagnosed.readers, spec'[p] = spec[p], through'[p] = through[p],
         spec[p].profile \in {"historical", "normalized", "current"}, phase[p] \in Nat,
         through[p] \in Nat, phase'[p] = phase[p] + 1, phase[p] <= Opening(p)
  PROVE  RepeatsMatch(p)'
  <1>1. Opening(p)' = Opening(p) /\ Opening(p) \in Int
    BY DEF Opening
  <1>2. \A k \in 1..through[p] : /\ ~(phase'[p] > Opening(p) + 2 * k - 1)
                                 /\ ~(phase'[p] > Opening(p) + 2 * k)
    BY <1>1
  <1> QED BY <1>1, <1>2 DEF RepeatsMatch

LEMMA MatchedNow ==
  ASSUME NEW p \in Diagnosed.readers, verdict'[p] = "none", BundlesMatch(p)',
         LineageMatches(p)', RepeatsMatch(p)'
  PROVE  Matched(p)'
  BY DEF Matched

(* The tools, the runtime and the roots of the repeats.                    *)
LEMMA LooksStep ==
  ASSUME ValidationInv, Validation!SpecAssumption, Validation!EvaluationAssumption,
         NEW p \in Diagnosed.readers, NEW m \in Sights,
         NEW kind \in {"tools", "runtime", "roots"}, Validation!At(p, <<kind, 0>>),
         m.receipt = seen[p].receipt, m.calibration = seen[p].calibration,
         m.artifact = seen[p].artifact, phase' = [phase EXCEPT ![p] = phase[p] + 1],
         UNCHANGED verdict, seen' = [seen EXCEPT ![p] = m], Validation!World,
         UNCHANGED <<stage, lineage>>
  PROVE  ValidationInv'
  <1> USE DEF Onward
  <1>1. Validation!LineageInv'
    BY Validation!StillKeeps DEF ValidationInv, Validation!disk, Validation!loader,
                                 Validation!World, Validation!world
  <1>2. Onward(p, m, kind, 0)
    BY <1>1, Advances
  <1>3. /\ spec[p].profile \in {"historical", "normalized", "current"}
        /\ DOMAIN bundle \subseteq {1, 2} /\ through[p] \in Nat /\ Opening(p) \in Nat
    BY Openings
  <1>4. /\ phase[p] # LineageEnd(p) /\ phase[p] <= Opening(p)
        /\ \A b \in DOMAIN bundle : phase[p] # BundleEnd(p, b)
    BY <1>2, <1>3 DEF Placing, LineageEnd
  <1>5. BundlesMatch(p)'
    BY <1>2, <1>3, <1>4, BundlesKept
  <1>6. spec'[p] = spec[p] /\ through'[p] = through[p]
    BY <1>2 DEF Lone
  <1>7. LineageMatches(p)' /\ RepeatsMatch(p)'
    BY <1>2, <1>3, <1>4, <1>6, LineageKept, NoRepeatYet
  <1> QED BY <1>1, <1>2, <1>5, <1>7, MatchedNow, MatchedApart DEF ValidationInv

LEMMA ToolsStep ==
  ASSUME ValidationInv, Validation!SpecAssumption, Validation!EvaluationAssumption,
         NEW p \in Diagnosed.readers, Validation!Tools(p)
  PROVE  ValidationInv'
  <1> DEFINE m == seen[p]
  <1>1. /\ m \in Sights /\ m.receipt = seen[p].receipt /\ m.calibration = seen[p].calibration
        /\ m.artifact = seen[p].artifact /\ seen' = [seen EXCEPT ![p] = m]
        /\ Validation!At(p, <<"tools", 0>>) /\ Validation!World /\ UNCHANGED <<stage, lineage>>
    BY DEF ValidationInv, Validation!Tools, Validation!Check, Validation!loader
  <1>2. phase[p] # Validation!Length(p)
    BY <1>1, PlacedAt
  <1>3. \/ phase' = [phase EXCEPT ![p] = phase[p] + 1] /\ UNCHANGED verdict
        \/ UNCHANGED phase /\ verdict' = [verdict EXCEPT ![p] = "refused"]
    BY <1>2 DEF Validation!Tools, Validation!Check, Validation!Pass
  <1> HIDE DEF m
  <1> QED BY <1>1, <1>3, LooksStep, Declines

LEMMA RuntimeStep ==
  ASSUME ValidationInv, Validation!SpecAssumption, Validation!EvaluationAssumption,
         NEW p \in Diagnosed.readers, Validation!SeeRuntime(p)
  PROVE  ValidationInv'
  <1> DEFINE m == [seen[p] EXCEPT !.runtime = runtime]
  <1>1. runtime \in 0..Diagnosed.runtimes /\ seen[p] \in Sights
    BY DEF ValidationInv, Validation!TypeOK, Validation!Runtimes,
           Validation!EvaluationAssumption
  <1>2. /\ m \in Sights /\ m.receipt = seen[p].receipt /\ m.calibration = seen[p].calibration
        /\ m.artifact = seen[p].artifact
    BY <1>1 DEF Sights
  <1>3. /\ seen' = [seen EXCEPT ![p] = m] /\ Validation!At(p, <<"runtime", 0>>)
        /\ Validation!World /\ UNCHANGED <<stage, lineage>>
    BY DEF Validation!SeeRuntime, Validation!loader
  <1>4. phase[p] # Validation!Length(p)
    BY <1>3, PlacedAt
  <1>5. \/ phase' = [phase EXCEPT ![p] = phase[p] + 1] /\ UNCHANGED verdict
        \/ UNCHANGED phase /\ verdict' = [verdict EXCEPT ![p] = "refused"]
    BY <1>4 DEF Validation!SeeRuntime, Validation!Pass
  <1> HIDE DEF m
  <1> QED BY <1>2, <1>3, <1>5, LooksStep, Declines

LEMMA RootsStep ==
  ASSUME ValidationInv, Validation!SpecAssumption, Validation!EvaluationAssumption,
         NEW p \in Diagnosed.readers, Validation!Roots(p)
  PROVE  ValidationInv'
  <1> DEFINE m == seen[p]
  <1>1. /\ m \in Sights /\ m.receipt = seen[p].receipt /\ m.calibration = seen[p].calibration
        /\ m.artifact = seen[p].artifact /\ seen' = [seen EXCEPT ![p] = m]
        /\ Validation!At(p, <<"roots", 0>>) /\ Validation!World /\ UNCHANGED <<stage, lineage>>
    BY DEF ValidationInv, Validation!Roots, Validation!Check, Validation!loader
  <1>2. phase[p] # Validation!Length(p)
    BY <1>1, PlacedAt
  <1>3. \/ phase' = [phase EXCEPT ![p] = phase[p] + 1] /\ UNCHANGED verdict
        \/ UNCHANGED phase /\ verdict' = [verdict EXCEPT ![p] = "refused"]
    BY <1>2 DEF Validation!Roots, Validation!Check, Validation!Pass
  <1> HIDE DEF m
  <1> QED BY <1>1, <1>3, LooksStep, Declines

(* The receipts of the bundles, and those of their calibrations.           *)
LEMMA ReceiptSeen ==
  ASSUME ValidationInv, Validation!SpecAssumption, Validation!EvaluationAssumption,
         NEW p \in Diagnosed.readers, NEW n \in DOMAIN bundle,
         NEW key \in {"receipt", "calibration"},
         Validation!See(p, <<key, n>>, key, bundle[n][key], TRUE)
  PROVE  ValidationInv'
  <1> USE DEF Onward
  <1> DEFINE f == [seen[p][key] EXCEPT ![n] = bundle[n][key]]
  <1> DEFINE m == [seen[p] EXCEPT ![key] = f]
  <1>1. /\ spec[p].profile \in {"historical", "normalized", "current"}
        /\ DOMAIN bundle \subseteq {1, 2} /\ through[p] \in Nat /\ Opening(p) \in Nat
    BY Openings
  <1>2. /\ bundle[n][key] \in DOMAIN Diagnosed.made
        /\ seen[p] \in Sights /\ n \in Validation!Bundles
    BY <1>1 DEF ValidationInv, Validation!TypeOK, Validation!Files, Validation!Bundles
  <1>3. /\ f \in [Validation!Bundles -> DOMAIN Diagnosed.made \cup {0}]
        /\ \A b \in DOMAIN bundle \ {n} : f[b] = seen[p][key][b]
    BY <1>1, <1>2 DEF Sights, Validation!Bundles
  <1>4. seen' = [seen EXCEPT ![p] = m]
    BY DEF Validation!See
  <1> HIDE DEF f
  <1>5. /\ m \in Sights /\ m.artifact = seen[p].artifact
        /\ \A b \in DOMAIN bundle \ {n} : /\ m.receipt[b] = seen[p].receipt[b]
                                       /\ m.calibration[b] = seen[p].calibration[b]
    <2>1. CASE key = "receipt"
      BY <1>2, <1>3, <2>1 DEF Sights
    <2>2. CASE key = "calibration"
      BY <1>2, <1>3, <2>2 DEF Sights
    <2> QED BY <2>1, <2>2
  <1> HIDE DEF m
  <1>6. /\ Validation!At(p, <<key, n>>) /\ Validation!World /\ UNCHANGED <<stage, lineage>>
    BY DEF Validation!See, Validation!loader
  <1>7. phase[p] # Validation!Length(p)
    BY <1>6, PlacedAt
  <1>8. phase' = [phase EXCEPT ![p] = phase[p] + 1] /\ UNCHANGED verdict
    BY <1>7 DEF Validation!See, Validation!Pass
  <1>9. Validation!LineageInv'
    BY <1>6, Validation!StillKeeps DEF ValidationInv, Validation!disk, Validation!loader,
                                       Validation!World, Validation!world
  <1>10. Onward(p, m, key, n)
    BY <1>4, <1>5, <1>6, <1>8, <1>9, Advances
  <1>11. /\ phase[p] # LineageEnd(p) /\ phase[p] <= Opening(p)
         /\ phase[p] < BundleEnd(p, n)
         /\ \A b \in DOMAIN bundle : phase[p] # BundleEnd(p, b)
    BY <1>1, <1>10 DEF Placing
  <1>12. BundlesMatch(p)'
    <2>1. ASSUME NEW b \in DOMAIN bundle, phase[p] > BundleEnd(p, b) PROVE b # n
      <3>1. BundleEnd(p, b) \in Int
        BY <1>1 DEF BundleEnd
      <3> QED BY <1>10, <1>11, <2>1, <3>1
    <2>2. \A b \in DOMAIN bundle : phase[p] > BundleEnd(p, b) =>
            /\ seen'[p].receipt[b] = seen[p].receipt[b]
            /\ seen'[p].calibration[b] = seen[p].calibration[b]
            /\ seen'[p].artifact[b] = seen[p].artifact[b]
      BY <1>5, <1>10, <2>1
    <2> QED BY <1>1, <1>6, <1>10, <1>11, <2>2, BundlesKept
  <1>13. spec'[p] = spec[p] /\ through'[p] = through[p]
    BY <1>10 DEF Lone
  <1>14. LineageMatches(p)' /\ RepeatsMatch(p)'
    BY <1>1, <1>6, <1>10, <1>11, <1>13, LineageKept, NoRepeatYet
  <1> QED BY <1>9, <1>10, <1>12, <1>14, MatchedNow, MatchedApart DEF ValidationInv

(* The artifact of a bundle, with which its receipts are compared.         *)
LEMMA ArtifactSeen ==
  ASSUME ValidationInv, Validation!SpecAssumption, Validation!EvaluationAssumption,
         NEW p \in Diagnosed.readers, Validation!SeeArtifact(p)
  PROVE  ValidationInv'
  <1> USE DEF Onward
  <1>1. /\ spec[p].profile \in {"historical", "normalized", "current"}
        /\ DOMAIN bundle \subseteq {1, 2} /\ through[p] \in Nat /\ Opening(p) \in Nat
    BY Openings
  <1>2. PICK n \in DOMAIN bundle :
          LET v == Diagnosed.made[bundle[n]["artifact"]].artifact
          IN  Validation!See(p, <<"artifact", n>>, "artifact", v,
                             Validation!BundleAgrees(p, n, v) /\ Validation!SameArtifact(p, n, v))
    BY DEF Validation!SeeArtifact
  <1> DEFINE v == Diagnosed.made[bundle[n]["artifact"]].artifact
  <1> DEFINE f == [seen[p].artifact EXCEPT ![n] = v]
  <1> DEFINE m == [seen[p] EXCEPT !["artifact"] = f]
  <1>3. v \in Nat /\ seen[p] \in Sights /\ n \in Validation!Bundles
    BY <1>1 DEF ValidationInv, Validation!TypeOK, Validation!Files, Validation!Bundles,
                Validation!EvaluationAssumption
  <1>4. /\ seen' = [seen EXCEPT ![p] = m]
        /\ Validation!At(p, <<"artifact", n>>) /\ Validation!World /\ UNCHANGED <<stage, lineage>>
    BY <1>2 DEF Validation!See, Validation!loader
  <1>5. phase[p] # Validation!Length(p)
    BY <1>4, PlacedAt
  <1>6. \/ /\ phase' = [phase EXCEPT ![p] = phase[p] + 1] /\ UNCHANGED verdict
           /\ Validation!BundleAgrees(p, n, v)
        \/ UNCHANGED phase /\ verdict' = [verdict EXCEPT ![p] = "refused"]
    BY <1>2, <1>5 DEF Validation!See, Validation!Pass
  <1> HIDE DEF v
  <1>7. /\ f \in [Validation!Bundles -> Nat] /\ f[n] = v
        /\ \A b \in DOMAIN bundle \ {n} : f[b] = seen[p].artifact[b]
    BY <1>1, <1>3 DEF Sights, Validation!Bundles
  <1> HIDE DEF f
  <1>8. /\ m \in Sights /\ m.artifact = f /\ m.receipt = seen[p].receipt
        /\ m.calibration = seen[p].calibration
    BY <1>3, <1>7 DEF Sights
  <1> HIDE DEF m
  <1>9. ASSUME phase' = [phase EXCEPT ![p] = phase[p] + 1], UNCHANGED verdict,
               Validation!BundleAgrees(p, n, v)
        PROVE  ValidationInv'
    <2>1. Validation!LineageInv'
      BY <1>4, Validation!StillKeeps DEF ValidationInv, Validation!disk, Validation!loader,
                                         Validation!World, Validation!world
    <2>2. Onward(p, m, "artifact", n)
      BY <1>4, <1>8, <1>9, <2>1, Advances
    <2>3. /\ phase[p] # LineageEnd(p) /\ phase[p] <= Opening(p) /\ phase[p] = BundleEnd(p, n)
          /\ \A b \in DOMAIN bundle : b # n => phase[p] # BundleEnd(p, b)
      BY <1>1, <2>2 DEF Placing
    <2>4. BundlesMatch(p)'
      <3>1. ASSUME NEW b \in DOMAIN bundle, b # n, phase'[p] > BundleEnd(p, b)
            PROVE  Validation!BundleAgrees(p, b, seen[p].artifact[b])'
        <4>1. BundleEnd(p, b) \in Int
          BY <1>1 DEF BundleEnd
        <4>2. Validation!BundleAgrees(p, b, seen[p].artifact[b])
          BY <2>2, <2>3, <3>1, <4>1 DEF BundlesMatch
        <4>3. /\ seen'[p].receipt[b] = seen[p].receipt[b]
              /\ seen'[p].calibration[b] = seen[p].calibration[b]
              /\ seen'[p].artifact[b] = seen[p].artifact[b]
          BY <1>7, <1>8, <2>2, <3>1
        <4> QED BY <1>1, <1>4, <2>2, <4>2, <4>3, AgreesStays DEF Lone
      <3>2. Validation!BundleAgrees(p, n, seen[p].artifact[n])'
        <4>1. /\ seen'[p].receipt = seen[p].receipt /\ seen'[p].calibration = seen[p].calibration
              /\ seen'[p].artifact[n] = v /\ spec'[p] = spec[p] /\ lineage'[p] = lineage[p]
          BY <1>4, <1>7, <1>8, <2>2 DEF Lone
        <4>2. CASE spec[p].profile = "historical"
          BY <1>9, <4>1, <4>2 DEF Validation!BundleAgrees, Validation!HistoricalBundle
        <4>3. CASE spec[p].profile = "normalized"
          BY <1>9, <4>1, <4>3 DEF Validation!BundleAgrees, Validation!NormalizedBundle
        <4>4. CASE spec[p].profile = "current"
          BY <1>9, <4>1, <4>4 DEF Validation!BundleAgrees, Validation!CurrentBundle
        <4> QED BY <1>1, <4>2, <4>3, <4>4
      <3>3. /\ DOMAIN bundle' = DOMAIN bundle
            /\ \A b \in DOMAIN bundle : BundleEnd(p, b)' = BundleEnd(p, b)
        BY <2>2 DEF Lone, BundleEnd
      <3> QED BY <3>1, <3>2, <3>3 DEF BundlesMatch
    <2>5. spec'[p] = spec[p] /\ through'[p] = through[p]
      BY <2>2 DEF Lone
    <2>6. LineageMatches(p)' /\ RepeatsMatch(p)'
      BY <1>1, <1>4, <2>2, <2>3, <2>5, LineageKept, NoRepeatYet
    <2> QED BY <2>1, <2>2, <2>4, <2>6, MatchedNow, MatchedApart DEF ValidationInv
  <1> QED BY <1>4, <1>6, <1>8, <1>9, Declines

(* The load of the lineage begins.                                         *)
LEMMA LoadStarts ==
  ASSUME ValidationInv, Validation!RunAssumption, Validation!SpecAssumption,
         Validation!EvaluationAssumption, NEW p \in Diagnosed.readers, Validation!Load(p)
  PROVE  ValidationInv'
  <1> USE DEF Onward
  <1> DEFINE m == seen[p]
  <1>1. /\ spec[p].profile \in {"historical", "normalized", "current"}
        /\ DOMAIN bundle \subseteq {1, 2} /\ through[p] \in Nat /\ Opening(p) \in Nat
        /\ spec[p].profile = "current" => DOMAIN bundle = {1}
    BY Openings
  <1>2. /\ m \in Sights /\ m.receipt = seen[p].receipt /\ m.calibration = seen[p].calibration
        /\ m.artifact = seen[p].artifact /\ seen' = [seen EXCEPT ![p] = m]
        /\ Validation!At(p, <<"load", 0>>) /\ Validation!World /\ Validation!StartLoad(p)
    BY DEF ValidationInv, Validation!Load
  <1>3. phase[p] # Validation!Length(p)
    BY <1>2, PlacedAt
  <1>4. phase' = [phase EXCEPT ![p] = phase[p] + 1] /\ UNCHANGED verdict
    BY <1>3 DEF Validation!Load, Validation!Pass
  <1> HIDE DEF m
  <1>5. Validation!LineageInv'
    BY <1>2, Validation!StartKeeps DEF ValidationInv, Validation!disk, Validation!World,
                                       Validation!world
  <1>6. \A q \in Diagnosed.readers \ {p} : stage'[q] = stage[q] /\ lineage'[q] = lineage[q]
    BY <1>2 DEF Validation!StartLoad, ValidationInv, Validation!LineageInv,
                Validation!LineageTypeOK
  <1>7. Onward(p, m, "load", 0)
    BY <1>2, <1>4, <1>5, <1>6, Advances
  <1>8. /\ phase[p] # LineageEnd(p) /\ phase[p] <= Opening(p) /\ ~(phase[p] > LineageEnd(p))
        /\ \A b \in DOMAIN bundle : phase[p] # BundleEnd(p, b)
        /\ spec[p].profile = "current" => \A b \in DOMAIN bundle : ~(phase[p] > BundleEnd(p, b))
    BY <1>1, <1>7 DEF Placing, LineageEnd, BundleEnd
  <1>9. BundlesMatch(p)'
    BY <1>1, <1>2, <1>7, <1>8, BundlesKept
  <1>10. spec'[p] = spec[p] /\ through'[p] = through[p]
    BY <1>7 DEF Lone
  <1>11. LineageMatches(p)' /\ RepeatsMatch(p)'
    BY <1>1, <1>7, <1>8, <1>10, LineageKept, NoRepeatYet
  <1> QED BY <1>5, <1>7, <1>9, <1>11, MatchedNow, MatchedApart DEF ValidationInv

(* The load goes on.                                                       *)
LEMMA LoadGoesOn ==
  ASSUME ValidationInv, Validation!RunAssumption, Validation!SpecAssumption,
         Validation!EvaluationAssumption, NEW p \in Diagnosed.readers, Validation!Loading(p)
  PROVE  ValidationInv'
  <1> DEFINE m == seen[p]
  <1>1. /\ spec[p].profile \in {"historical", "normalized", "current"}
        /\ DOMAIN bundle \subseteq {1, 2} /\ through[p] \in Nat /\ Opening(p) \in Nat
        /\ spec[p].profile = "current" => DOMAIN bundle = {1}
        /\ phase[p] \in 1..Validation!Length(p)
    BY Openings
  <1>2. /\ m \in Sights /\ seen' = [seen EXCEPT ![p] = m] /\ seen' = seen /\ verdict[p] = "none"
        /\ verdict' = [verdict EXCEPT ![p] = "none"]
        /\ phase' = [phase EXCEPT ![p] = phase[p]]
        /\ Validation!At(p, <<"lineage", 0>>) /\ Validation!World /\ Validation!LoadStep(p)
    BY DEF ValidationInv, Validation!TypeOK, Validation!Loading, Validation!At
  <1> HIDE DEF m
  <1>3. Validation!LineageInv'
    BY <1>2, Validation!LoadKeeps DEF ValidationInv, Validation!disk, Validation!World,
                                      Validation!world
  <1>4. \A q \in Diagnosed.readers \ {p} : stage'[q] = stage[q] /\ lineage'[q] = lineage[q]
    BY <1>2, Validation!ReadFills DEF Validation!Filled, ValidationInv, Validation!LineageInv
  <1>5. /\ Validation!TypeOK' /\ seen' \in [Diagnosed.readers -> Sights]
        /\ through' \in [Diagnosed.readers -> Validation!Repeats]
        /\ phase' \in [Diagnosed.readers -> Nat] /\ phase'[p] = phase[p]
        /\ seen'[p] = m /\ verdict'[p] = "none" /\ Lone(p)
    BY <1>1, <1>2, <1>3, <1>4, Arrives
  <1>6. /\ Placing(p, "lineage", 0) /\ phase[p] \in Nat
        /\ BundlesMatch(p) /\ RepeatsMatch(p)
    BY <1>2, PlacedAt DEF ValidationInv, Matched
  <1>7. /\ phase[p] = LineageEnd(p) /\ phase[p] < Opening(p)
        /\ spec[p].profile = "current" => \A b \in DOMAIN bundle : ~(phase[p] > BundleEnd(p, b))
    BY <1>1, <1>6 DEF Placing, BundleEnd
  <1>8. BundlesMatch(p)'
    BY <1>1, <1>2, <1>5, <1>6, <1>7, BundlesKept
  <1>9. LineageMatches(p)'
    <2>1. LineageEnd(p)' = LineageEnd(p) /\ LineageEnd(p) \in Int
      BY <1>1, <1>5 DEF LineageEnd, Lone
    <2> QED BY <1>5, <1>7, <2>1 DEF LineageMatches
  <1>10. RepeatsMatch(p)'
    <2>1. Opening(p)' = Opening(p) /\ through'[p] = through[p]
      BY <1>5 DEF Opening, Lone
    <2>2. \A k \in 1..through[p] : /\ ~(phase'[p] > Opening(p) + 2 * k - 1)
                                   /\ ~(phase'[p] > Opening(p) + 2 * k)
      BY <1>1, <1>5, <1>6, <1>7
    <2> QED BY <2>1, <2>2 DEF RepeatsMatch
  <1> QED BY <1>3, <1>5, <1>8, <1>9, <1>10, MatchedNow, MatchedApart DEF ValidationInv

(* What was loaded is compared with what was declared.                     *)
LEMMA LineageStep ==
  ASSUME ValidationInv, Validation!SpecAssumption, Validation!EvaluationAssumption,
         NEW p \in Diagnosed.readers, Validation!Lineage(p)
  PROVE  ValidationInv'
  <1> USE DEF Onward
  <1> DEFINE m == seen[p]
  <1>1. /\ spec[p].profile \in {"historical", "normalized", "current"}
        /\ DOMAIN bundle \subseteq {1, 2} /\ through[p] \in Nat /\ Opening(p) \in Nat
    BY Openings
  <1>2. /\ m \in Sights /\ m.receipt = seen[p].receipt /\ m.calibration = seen[p].calibration
        /\ m.artifact = seen[p].artifact /\ seen' = [seen EXCEPT ![p] = m]
        /\ Validation!At(p, <<"lineage", 0>>) /\ Validation!World /\ UNCHANGED <<stage, lineage>>
    BY DEF ValidationInv, Validation!Lineage, Validation!Check, Validation!loader
  <1>3. phase[p] # Validation!Length(p)
    BY <1>2, PlacedAt
  <1>4. \/ /\ phase' = [phase EXCEPT ![p] = phase[p] + 1] /\ UNCHANGED verdict
           /\ stage[p] = "loaded" /\ Validation!LineageAgrees(p)
        \/ UNCHANGED phase /\ verdict' = [verdict EXCEPT ![p] = "refused"]
    BY <1>3 DEF Validation!Lineage, Validation!Check, Validation!Pass
  <1> HIDE DEF m
  <1>5. ASSUME phase' = [phase EXCEPT ![p] = phase[p] + 1], UNCHANGED verdict,
               stage[p] = "loaded", Validation!LineageAgrees(p)
        PROVE  ValidationInv'
    <2>1. Validation!LineageInv'
      BY <1>2, Validation!StillKeeps DEF ValidationInv, Validation!disk, Validation!loader,
                                         Validation!World, Validation!world
    <2>2. Onward(p, m, "lineage", 0)
      BY <1>2, <1>5, <2>1, Advances
    <2>3. phase[p] <= Opening(p) /\ \A b \in DOMAIN bundle : phase[p] # BundleEnd(p, b)
      BY <1>1, <2>2 DEF Placing
    <2>4. BundlesMatch(p)'
      BY <1>1, <1>2, <2>2, <2>3, BundlesKept
    <2>5. spec'[p] = spec[p] /\ through'[p] = through[p]
      BY <2>2 DEF Lone
    <2>6. RepeatsMatch(p)'
      BY <1>1, <2>2, <2>3, <2>5, NoRepeatYet
    <2>7. LineageMatches(p)'
      BY <1>2, <1>5, <2>5 DEF LineageMatches, Validation!LineageAgrees
    <2> QED BY <2>1, <2>2, <2>4, <2>6, <2>7, MatchedNow, MatchedApart DEF ValidationInv
  <1> QED BY <1>2, <1>4, <1>5, Declines

LEMMA ReceiptsStep ==
  ASSUME ValidationInv, Validation!SpecAssumption, Validation!EvaluationAssumption,
         NEW p \in Diagnosed.readers, Validation!SeeReceipts(p)
  PROVE  ValidationInv'
  <1>1. PICK b \in DOMAIN bundle :
          \/ Validation!See(p, <<"receipt", b>>, "receipt", bundle[b]["receipt"], TRUE)
          \/ Validation!See(p, <<"calibration", b>>, "calibration",
                            bundle[b]["calibration"], TRUE)
    BY DEF Validation!SeeReceipts
  <1> QED BY <1>1, ReceiptSeen

(* The results and the summaries of the repeats: what was compared before  *)
(* them stays, and each is read once.                                      *)
LEMMA RepeatSeen ==
  ASSUME ValidationInv, Validation!SpecAssumption, Validation!EvaluationAssumption,
         NEW p \in Diagnosed.readers, NEW m \in Sights, NEW kind \in {"results", "summary"},
         NEW n \in 1..through[p], Validation!At(p, <<kind, n>>),
         m.receipt = seen[p].receipt, m.calibration = seen[p].calibration,
         m.artifact = seen[p].artifact, m.runtime = seen[p].runtime,
         \A k \in 1..through[p] \ {n} : /\ m.results[k] = seen[p].results[k]
                                        /\ m.summary[k] = seen[p].summary[k],
         kind = "results" => m.results[n] # 0,
         kind = "summary" => m.results = seen[p].results
                               /\ Validation!SummaryAgrees(p, n, m.summary[n]),
         phase' = [phase EXCEPT ![p] = phase[p] + 1],
         UNCHANGED verdict, seen' = [seen EXCEPT ![p] = m], Validation!World,
         UNCHANGED <<stage, lineage>>
  PROVE  ValidationInv'
  <1> USE DEF Onward
  <1>1. Validation!LineageInv'
    BY Validation!StillKeeps DEF ValidationInv, Validation!disk, Validation!loader,
                                 Validation!World, Validation!world
  <1>2. Onward(p, m, kind, n)
    BY <1>1, Advances
  <1>3. /\ spec[p].profile \in {"historical", "normalized", "current"}
        /\ DOMAIN bundle = IF spec[p].profile = "historical" THEN {1, 2} ELSE {1}
        /\ through[p] \in Nat /\ Opening(p) \in Nat
    BY Openings
  <1>4. /\ kind = "results" => phase[p] = Opening(p) + 2 * n - 1
        /\ kind = "summary" => phase[p] = Opening(p) + 2 * n
    BY <1>2 DEF Placing
  <1>5. phase[p] > Opening(p)
    BY <1>3, <1>4
  <1>6. phase[p] # LineageEnd(p) /\ \A b \in DOMAIN bundle : phase[p] # BundleEnd(p, b)
    BY <1>3, <1>5 DEF LineageEnd, BundleEnd, Opening
  <1>7. BundlesMatch(p)'
    <2>1. DOMAIN bundle \subseteq {1, 2}
      BY <1>3
    <2> QED BY <1>2, <1>3, <1>6, <2>1, BundlesKept
  <1>8. spec'[p] = spec[p] /\ through'[p] = through[p] /\ Opening(p)' = Opening(p)
    BY <1>2 DEF Lone, Opening
  <1>9. LineageMatches(p)'
    BY <1>2, <1>3, <1>6, <1>8, LineageKept
  <1>10. ASSUME NEW k \in 1..through[p], phase'[p] > Opening(p) + 2 * k - 1
         PROVE  seen'[p].results[k] # 0
    <2>1. CASE k = n /\ kind = "results"
      BY <1>2, <2>1
    <2>2. CASE k = n /\ kind = "summary"
      <3>1. phase[p] > Opening(p) + 2 * k - 1
        BY <1>3, <1>4, <2>2
      <3> QED BY <1>2, <2>2, <3>1 DEF RepeatsMatch
    <2>3. CASE k # n
      <3>1. phase[p] > Opening(p) + 2 * k - 1
        BY <1>2, <1>3, <1>4, <1>10, <2>3
      <3> QED BY <1>2, <2>3, <3>1 DEF RepeatsMatch
    <2> QED BY <2>1, <2>2, <2>3
  <1>11. ASSUME NEW k \in 1..through[p], phase'[p] > Opening(p) + 2 * k
         PROVE  Validation!SummaryAgrees(p, k, seen[p].summary[k])'
    <2>1. CASE k = n
      <3>1. kind = "summary"
        BY <1>2, <1>3, <1>4, <1>11, <2>1
      <3> QED BY <1>2, <2>1, <3>1 DEF Validation!SummaryAgrees
    <2>2. CASE k # n
      <3>1. phase[p] > Opening(p) + 2 * k
        BY <1>2, <1>3, <1>4, <1>11, <2>2
      <3>2. Validation!SummaryAgrees(p, k, seen[p].summary[k])
        BY <1>2, <3>1 DEF RepeatsMatch
      <3> QED BY <1>2, <2>2, <3>2 DEF Validation!SummaryAgrees
    <2> QED BY <2>1, <2>2
  <1>12. RepeatsMatch(p)'
    BY <1>8, <1>10, <1>11 DEF RepeatsMatch
  <1> QED BY <1>1, <1>2, <1>7, <1>9, <1>12, MatchedNow, MatchedApart DEF ValidationInv

LEMMA ResultsStep ==
  ASSUME ValidationInv, Validation!SpecAssumption, Validation!EvaluationAssumption,
         NEW p \in Diagnosed.readers, Validation!SeeResults(p)
  PROVE  ValidationInv'
  <1>1. PICK n \in Validation!Repeats :
          Validation!See(p, <<"results", n>>, "results", results[n], results[n] # 0)
    BY DEF Validation!SeeResults
  <1> DEFINE f == [seen[p].results EXCEPT ![n] = results[n]]
  <1> DEFINE m == [seen[p] EXCEPT !["results"] = f]
  <1>2. results[n] \in Validation!Evaluations \cup {0} /\ seen[p] \in Sights
    BY DEF ValidationInv, Validation!TypeOK
  <1>3. /\ f \in [Validation!Repeats -> Validation!Evaluations \cup {0}] /\ f[n] = results[n]
        /\ \A k \in Validation!Repeats \ {n} : f[k] = seen[p].results[k]
    BY <1>2 DEF Sights
  <1>4. /\ seen' = [seen EXCEPT ![p] = m]
        /\ Validation!At(p, <<"results", n>>) /\ Validation!World /\ UNCHANGED <<stage, lineage>>
    BY <1>1 DEF Validation!See, Validation!loader
  <1> HIDE DEF f
  <1>5. /\ m \in Sights /\ m.receipt = seen[p].receipt /\ m.calibration = seen[p].calibration
        /\ m.artifact = seen[p].artifact /\ m.runtime = seen[p].runtime
        /\ m.results = f /\ m.summary = seen[p].summary
    BY <1>2, <1>3 DEF Sights
  <1> HIDE DEF m
  <1>6. phase[p] # Validation!Length(p) /\ n \in 1..through[p]
    BY <1>4, PlacedAt DEF Placing
  <1>7. \/ phase' = [phase EXCEPT ![p] = phase[p] + 1] /\ UNCHANGED verdict /\ results[n] # 0
        \/ UNCHANGED phase /\ verdict' = [verdict EXCEPT ![p] = "refused"]
    BY <1>1, <1>6 DEF Validation!See, Validation!Pass
  <1>8. 1..through[p] \subseteq Validation!Repeats
    BY Openings DEF Validation!Repeats, Validation!EvaluationAssumption
  <1>9. \A k \in 1..through[p] \ {n} : /\ m.results[k] = seen[p].results[k]
                                       /\ m.summary[k] = seen[p].summary[k]
    BY <1>3, <1>5, <1>8
  <1>10. CASE UNCHANGED phase /\ verdict' = [verdict EXCEPT ![p] = "refused"]
    BY <1>4, <1>5, <1>10, Declines
  <1>11. CASE phase' = [phase EXCEPT ![p] = phase[p] + 1] /\ UNCHANGED verdict /\ results[n] # 0
    <2>1. m.results[n] # 0
      BY <1>3, <1>5, <1>11
    <2> QED BY <1>4, <1>5, <1>6, <1>9, <1>11, <2>1, RepeatSeen
  <1> QED BY <1>7, <1>10, <1>11

LEMMA SummaryStep ==
  ASSUME ValidationInv, Validation!SpecAssumption, Validation!EvaluationAssumption,
         NEW p \in Diagnosed.readers, Validation!SeeSummary(p)
  PROVE  ValidationInv'
  <1>1. PICK n \in Validation!Repeats :
          Validation!See(p, <<"summary", n>>, "summary", summary[n],
                         Validation!SummaryAgrees(p, n, summary[n]))
    BY DEF Validation!SeeSummary
  <1> DEFINE f == [seen[p].summary EXCEPT ![n] = summary[n]]
  <1> DEFINE m == [seen[p] EXCEPT !["summary"] = f]
  <1>2. summary[n] \in Validation!Evaluations \cup {0} /\ seen[p] \in Sights
    BY DEF ValidationInv, Validation!TypeOK
  <1>3. /\ f \in [Validation!Repeats -> Validation!Evaluations \cup {0}] /\ f[n] = summary[n]
        /\ \A k \in Validation!Repeats \ {n} : f[k] = seen[p].summary[k]
    BY <1>2 DEF Sights
  <1>4. /\ seen' = [seen EXCEPT ![p] = m]
        /\ Validation!At(p, <<"summary", n>>) /\ Validation!World /\ UNCHANGED <<stage, lineage>>
    BY <1>1 DEF Validation!See, Validation!loader
  <1> HIDE DEF f
  <1>5. /\ m \in Sights /\ m.receipt = seen[p].receipt /\ m.calibration = seen[p].calibration
        /\ m.artifact = seen[p].artifact /\ m.runtime = seen[p].runtime
        /\ m.summary = f /\ m.results = seen[p].results
    BY <1>2, <1>3 DEF Sights
  <1> HIDE DEF m
  <1>6. phase[p] # Validation!Length(p) /\ n \in 1..through[p]
    BY <1>4, PlacedAt DEF Placing
  <1>7. \/ /\ phase' = [phase EXCEPT ![p] = phase[p] + 1] /\ UNCHANGED verdict
           /\ Validation!SummaryAgrees(p, n, summary[n])
        \/ UNCHANGED phase /\ verdict' = [verdict EXCEPT ![p] = "refused"]
    BY <1>1, <1>6 DEF Validation!See, Validation!Pass
  <1>8. 1..through[p] \subseteq Validation!Repeats
    BY Openings DEF Validation!Repeats, Validation!EvaluationAssumption
  <1>9. \A k \in 1..through[p] \ {n} : /\ m.results[k] = seen[p].results[k]
                                       /\ m.summary[k] = seen[p].summary[k]
    BY <1>3, <1>5, <1>8
  <1>10. CASE UNCHANGED phase /\ verdict' = [verdict EXCEPT ![p] = "refused"]
    BY <1>4, <1>5, <1>10, Declines
  <1>11. CASE /\ phase' = [phase EXCEPT ![p] = phase[p] + 1] /\ UNCHANGED verdict
              /\ Validation!SummaryAgrees(p, n, summary[n])
    <2>1. Validation!SummaryAgrees(p, n, m.summary[n])
      BY <1>3, <1>5, <1>11
    <2> QED BY <1>4, <1>5, <1>6, <1>9, <1>11, <2>1, RepeatSeen
  <1> QED BY <1>7, <1>10, <1>11

(* The repeats are compared with each other, and the validation ends.      *)
LEMMA AggregateStep ==
  ASSUME ValidationInv, Validation!SpecAssumption, Validation!EvaluationAssumption,
         NEW p \in Diagnosed.readers, Validation!Aggregate(p)
  PROVE  ValidationInv'
  <1> DEFINE m == seen[p]
  <1>1. /\ m \in Sights /\ seen' = [seen EXCEPT ![p] = m] /\ seen' = seen
        /\ Validation!At(p, <<"aggregate", 0>>) /\ Validation!World
        /\ UNCHANGED <<stage, lineage>>
    BY DEF ValidationInv, Validation!Aggregate, Validation!Check, Validation!loader
  <1> HIDE DEF m
  <1>2. Placing(p, "aggregate", 0) /\ verdict[p] = "none"
    BY <1>1, Placed DEF Validation!At
  <1>3. /\ Validation!Length(p) = Opening(p) + 2 * through[p] + 1
        /\ phase[p] \in 1..Opening(p) + 2 * through[p] + 1
    BY Openings
  <1>4. phase[p] = Validation!Length(p) /\ phase[p] = Opening(p) + 2 * through[p] + 1
    BY <1>2, <1>3 DEF Placing
  <1>5. \/ /\ UNCHANGED phase /\ verdict' = [verdict EXCEPT ![p] = "accepted"]
           /\ Validation!RepeatsAgree(p)
        \/ UNCHANGED phase /\ verdict' = [verdict EXCEPT ![p] = "refused"]
    BY <1>4 DEF Validation!Aggregate, Validation!Check, Validation!Pass
  <1>6. ASSUME UNCHANGED phase, verdict' = [verdict EXCEPT ![p] = "accepted"],
               Validation!RepeatsAgree(p)
        PROVE  ValidationInv'
    <2>1. Validation!LineageInv'
      BY <1>1, Validation!StillKeeps DEF ValidationInv, Validation!disk, Validation!loader,
                                         Validation!World, Validation!world
    <2>2. phase' = [phase EXCEPT ![p] = phase[p]] /\ phase[p] \in 1..Validation!Length(p)
      BY <1>3, <1>6 DEF ValidationInv
    <2>3. /\ Validation!TypeOK' /\ seen' \in [Diagnosed.readers -> Sights]
          /\ through' \in [Diagnosed.readers -> Validation!Repeats]
          /\ phase' \in [Diagnosed.readers -> Nat]
          /\ verdict'[p] = "accepted" /\ Lone(p)
      BY <1>1, <1>6, <2>1, <2>2, Arrives
    <2>4. BundlesMatch(p) /\ LineageMatches(p) /\ RepeatsMatch(p)
      BY <1>2 DEF ValidationInv, Matched
    <2>5. UNCHANGED <<bundle, spec, through, phase, seen, stage, lineage>>
      BY <1>1, <1>6, <2>3 DEF Lone
    <2>6. Opening(p)' = Opening(p)
      BY <2>5 DEF Opening
    <2>7. BundlesMatch(p)'
      BY <2>4, <2>5 DEF BundlesMatch, BundleEnd, Validation!BundleAgrees
    <2>8. LineageMatches(p)'
      BY <2>4, <2>5 DEF LineageMatches, LineageEnd, Validation!LineageAgrees
    <2>9. RepeatsMatch(p)'
      <3>1. \A k : Validation!SummaryAgrees(p, k, seen[p].summary[k])
                     => Validation!SummaryAgrees(p, k, seen[p].summary[k])'
        BY <2>5 DEF Validation!SummaryAgrees
      <3> QED BY <2>4, <2>5, <2>6, <3>1 DEF RepeatsMatch
    <2>10. Validation!RepeatsAgree(p)'
      BY <1>6, <2>5 DEF Validation!RepeatsAgree, Validation!SameOutputs, Validation!InTurn
    <2>11. Matched(p)'
      BY <1>4, <2>5, <2>6, <2>7, <2>8, <2>9, <2>10 DEF Matched
    <2> QED BY <2>1, <2>3, <2>11, MatchedApart DEF ValidationInv
  <1> QED BY <1>1, <1>5, <1>6, Declines

LEMMA ValidationInit ==
  ASSUME Validation!Init, Validation!RunAssumption, Validation!SpecAssumption,
         Validation!EvaluationAssumption
  PROVE  ValidationInv
  <1>1. PICK s \in Diagnosed.specs :
          /\ spec = [p \in Diagnosed.readers |-> s]
          /\ bundle = [b \in DOMAIN s.bundles |-> [f \in Validation!Files |-> s.bundles[b]]]
          /\ runtime = s.runtime
    BY DEF Validation!Init
  <1>2. /\ s.profile \in {"historical", "normalized", "current"}
        /\ \A b \in DOMAIN s.bundles : s.bundles[b] \in DOMAIN Diagnosed.made
        /\ s.runtime \in Validation!Runtimes
    BY SpecShape
  <1>3. PICK r \in Validation!Runs :
          run = [part \in Validation!Parts |-> r] /\ data = Diagnosed.profiles[r]
    BY DEF Validation!Init
  <1>4. data \in Validation!Profiles
    BY <1>3 DEF Validation!RunAssumption
  <1>5. Validation!Nothing \in Validation!Lineages
    BY Validation!NothingType
  <1>6. Validation!LineageTypeOK
    BY <1>3, <1>4, <1>5 DEF Validation!Init, Validation!LineageTypeOK, Validation!Stages
  <1>7. Validation!LineageInv
    <2>1. run["metadata"] \in Nat /\ run["merged"] \in Nat
      BY <1>3 DEF Validation!Parts, Validation!Runs
    <2> QED BY <1>6, <2>1, Validation!NothingType
            DEF Validation!LineageInv, Validation!Reads, Validation!Init
  <1>8. /\ source = {} /\ partial = {} /\ edits = 0 /\ summary = results
        /\ results \in [Validation!Repeats -> Validation!Evaluations \cup {0}]
        /\ through \in [Diagnosed.readers -> Validation!Repeats]
        /\ phase = [p \in Diagnosed.readers |-> 1]
        /\ seen = [p \in Diagnosed.readers |-> Validation!Unseen]
        /\ verdict = [p \in Diagnosed.readers |-> "none"]
    BY DEF Validation!Init
  <1>9. ASSUME NEW p \in Diagnosed.readers
        PROVE  /\ Len(Validation!Begin(p)) = Opening(p) /\ Opening(p) \in Nat
               /\ through[p] \in Nat \ {0} /\ spec[p] = s
               /\ 1 <= LineageEnd(p) /\ LineageEnd(p) \in Nat
               /\ 1 <= Opening(p)
               /\ \A b \in DOMAIN bundle : 1 <= BundleEnd(p, b) /\ BundleEnd(p, b) \in Nat
    <2>1. spec[p] = s /\ DOMAIN bundle = DOMAIN s.bundles /\ DOMAIN bundle \subseteq {1, 2}
      BY <1>1, SpecShape
    <2>2. through[p] \in Nat \ {0}
      BY <1>8 DEF Validation!Repeats, Validation!EvaluationAssumption
    <2>3. CASE s.profile = "historical"
      BY <2>1, <2>2, <2>3, HistoricalPlaces
         DEF Validation!Begin, Opening, LineageEnd, BundleEnd
    <2>4. CASE s.profile = "normalized"
      BY <2>1, <2>2, <2>4, NormalizedPlaces
         DEF Validation!Begin, Opening, LineageEnd, BundleEnd
    <2>5. CASE s.profile = "current"
      BY <2>1, <2>2, <2>5, CurrentPlaces
         DEF Validation!Begin, Opening, LineageEnd, BundleEnd
    <2> QED BY <1>2, <2>3, <2>4, <2>5
  <1>10. \A p \in Diagnosed.readers : phase[p] \in 1..Validation!Length(p)
    BY <1>8, <1>9 DEF Validation!Length
  <1>11. Validation!TypeOK
    BY <1>1, <1>2, <1>6, <1>8, <1>10 DEF Validation!TypeOK, Validation!EvaluationAssumption
  <1>12. Validation!Unseen \in Sights
    <2>1. 0 \in 0..Diagnosed.runtimes
      BY DEF Validation!EvaluationAssumption
    <2> QED BY <2>1 DEF Validation!Unseen, Sights
  <1>13. seen \in [Diagnosed.readers -> Sights] /\ phase \in [Diagnosed.readers -> Nat]
    BY <1>8, <1>12
  <1>14. ASSUME NEW p \in Diagnosed.readers PROVE Matched(p)
    <2>1. phase[p] = 1 /\ verdict[p] = "none"
      BY <1>8
    <2>2. BundlesMatch(p)
      BY <1>9, <2>1 DEF BundlesMatch
    <2>3. LineageMatches(p)
      BY <1>9, <2>1 DEF LineageMatches
    <2>4. RepeatsMatch(p)
      <3>1. \A k \in 1..through[p] : /\ ~(phase[p] > Opening(p) + 2 * k - 1)
                                     /\ ~(phase[p] > Opening(p) + 2 * k)
        BY <1>9, <2>1
      <3> QED BY <3>1 DEF RepeatsMatch
    <2> QED BY <2>1, <2>2, <2>3, <2>4 DEF Matched
  <1>15. \A p \in Diagnosed.readers : DOMAIN bundle = DOMAIN spec[p].bundles
    BY <1>1
  <1> QED BY <1>7, <1>8, <1>11, <1>13, <1>14, <1>15 DEF ValidationInv

(* Whatever is exchanged, what the validations have read stays.            *)
LEMMA ExchangeStep ==
  ASSUME ValidationInv, Validation!RunAssumption, Validation!EvaluationAssumption,
         Validation!Edit
  PROVE  ValidationInv'
  <1> USE DEF ValidationInv
  <1>1. UNCHANGED <<stage, lineage, spec, through, phase, seen, verdict>>
    BY DEF Validation!Edit, Validation!loader, Validation!asked
  <1>2. edits' \in 0..Diagnosed.edits
    BY DEF Validation!Edit, Validation!TypeOK, Validation!EvaluationAssumption
  <1>3. /\ Validation!LineageInv' /\ source' \subseteq Validation!Defects
        /\ DOMAIN bundle' = DOMAIN bundle
        /\ \A b \in DOMAIN bundle : bundle'[b] \in [Validation!Files -> DOMAIN Diagnosed.made]
        /\ runtime' \in Validation!Runtimes /\ partial' \subseteq Validation!Repeats
        /\ results' \in [Validation!Repeats -> Validation!Evaluations \cup {0}]
        /\ summary' \in [Validation!Repeats -> Validation!Evaluations \cup {0}]
    <2>1. /\ source \subseteq Validation!Defects
          /\ \A b \in DOMAIN bundle : bundle[b] \in [Validation!Files -> DOMAIN Diagnosed.made]
          /\ runtime \in Validation!Runtimes /\ partial \subseteq Validation!Repeats
          /\ results \in [Validation!Repeats -> Validation!Evaluations \cup {0}]
          /\ summary \in [Validation!Repeats -> Validation!Evaluations \cup {0}]
      BY DEF Validation!TypeOK
    <2>2. ASSUME UNCHANGED Validation!disk PROVE Validation!LineageInv'
      BY <1>1, <2>2, Validation!StillKeeps DEF Validation!loader
    <2>3. CASE /\ Validation!Replace
               /\ UNCHANGED <<source, bundle, runtime, results, summary, partial>>
      BY <1>1, <2>1, <2>3, Validation!ReplaceKeeps DEF Validation!loader
    <2>4. CASE /\ source' \in {{d} : d \in Validation!Defects}
               /\ UNCHANGED <<Validation!disk, bundle, runtime, results, summary, partial>>
      BY <2>1, <2>2, <2>4
    <2>5. CASE /\ \E b \in DOMAIN bundle, f \in Validation!Files, c \in DOMAIN Diagnosed.made :
                    bundle' = [bundle EXCEPT ![b][f] = c]
               /\ UNCHANGED <<Validation!disk, source, runtime, results, summary, partial>>
      BY <2>1, <2>2, <2>5
    <2>6. CASE /\ runtime' \in Validation!Runtimes \ {runtime}
               /\ UNCHANGED <<Validation!disk, source, bundle, results, summary, partial>>
      BY <2>1, <2>2, <2>6
    <2>7. CASE /\ \E k \in Validation!Repeats, e \in Validation!Evaluations \cup {0} :
                    \/ results' = [results EXCEPT ![k] = e] /\ UNCHANGED summary
                    \/ summary' = [summary EXCEPT ![k] = e] /\ UNCHANGED results
               /\ UNCHANGED <<Validation!disk, source, bundle, runtime, partial>>
      BY <2>1, <2>2, <2>7
    <2>8. CASE /\ \E k \in Validation!Repeats \ partial : partial' = partial \cup {k}
               /\ UNCHANGED <<Validation!disk, source, bundle, runtime, results, summary>>
      BY <2>1, <2>2, <2>8
    <2> QED BY <2>3, <2>4, <2>5, <2>6, <2>7, <2>8 DEF Validation!Edit, Validation!Exchange
  <1>4. \A p \in Diagnosed.readers : phase'[p] \in 1..Validation!Length(p)'
    <2>1. \A p \in Diagnosed.readers : Validation!Length(p)' = Validation!Length(p)
      BY <1>1 DEF Validation!Length, Validation!Begin
    <2> QED BY <1>1, <2>1 DEF Validation!TypeOK
  <1>5. Validation!TypeOK'
    BY <1>1, <1>2, <1>3, <1>4 DEF Validation!TypeOK, Validation!LineageInv
  <1>6. \A p \in Diagnosed.readers : Matched(p)'
    BY <1>1, <1>3, MatchedStays
  <1> QED BY <1>1, <1>3, <1>5, <1>6

LEMMA ValidationStep ==
  ASSUME ValidationInv, [Validation!Next]_Validation!vars, Validation!RunAssumption,
         Validation!SpecAssumption, Validation!EvaluationAssumption
  PROVE  ValidationInv'
  <1>1. CASE UNCHANGED Validation!vars
    <2>1. UNCHANGED <<run, data, stage, lineage, source, bundle, runtime, results, summary,
                      partial, spec, through, phase, seen, verdict, edits>>
      BY <1>1 DEF Validation!vars, Validation!world, Validation!asked, Validation!disk,
                  Validation!loader
    <2>2. Validation!LineageInv'
      BY <2>1, Validation!StillKeeps DEF ValidationInv, Validation!disk, Validation!loader
    <2>3. \A p \in Diagnosed.readers : Validation!Length(p)' = Validation!Length(p)
      BY <2>1 DEF Validation!Length, Validation!Begin
    <2>4. Validation!TypeOK'
      BY <2>1, <2>2, <2>3 DEF ValidationInv, Validation!TypeOK, Validation!LineageInv
    <2>5. \A p \in Diagnosed.readers : Matched(p)'
      BY <2>1, MatchedStays DEF ValidationInv
    <2> QED BY <2>1, <2>2, <2>4, <2>5 DEF ValidationInv
  <1>2. CASE Validation!Edit
    BY <1>2, ExchangeStep
  <1>3. ASSUME NEW p \in Diagnosed.readers, Validation!Validate(p) PROVE ValidationInv'
    BY <1>3, ToolsStep, ReceiptsStep, ArtifactSeen, LoadStarts, LoadGoesOn, LineageStep,
       RuntimeStep, RootsStep, ResultsStep, SummaryStep, AggregateStep DEF Validation!Validate
  <1> QED BY <1>1, <1>2, <1>3 DEF Validation!Next

(* Of a nonempty set of natural numbers one is the least.                  *)
LEMMA LeastNat ==
  ASSUME NEW T, T \subseteq Nat, T # {} PROVE \E x \in T : \A y \in T : x <= y
  <1>1. \E R : IsWellFoundedOn(R, Nat) /\ \A x, y \in Nat : y < x => <<y, x>> \in R
    <2>1. IsWellFoundedOn(OpToRel(<, Nat), Nat)
      BY NatLessThanWellFounded, Zenon
    <2>2. \A x, y \in Nat : y < x => <<y, x>> \in OpToRel(<, Nat)
      BY Zenon DEF OpToRel
    <2> QED BY <2>1, <2>2, Zenon
  <1>2. PICK R : IsWellFoundedOn(R, Nat) /\ \A x, y \in Nat : y < x => <<y, x>> \in R
    BY <1>1
  <1>3. \E x \in T : \A y \in T : ~(<<y, x>> \in R)
    BY <1>2, WFMin
  <1>4. PICK x \in T : \A y \in T : ~(<<y, x>> \in R)
    BY <1>3
  <1>5. \A y \in T : ~(y < x)
    BY <1>2, <1>4, Zenon
  <1>6. \A y \in T : x <= y
    BY <1>5
  <1> QED BY <1>6

(* What is accepted was read of one bundle and of whole evaluations.       *)
LEMMA AcceptedWhole ==
  ASSUME ValidationInv, NEW p \in Diagnosed.readers, verdict[p] = "accepted",
         Validation!SpecAssumption, Validation!EvaluationAssumption
  PROVE  /\ \A b \in DOMAIN bundle : Validation!BundleAgrees(p, b, seen[p].artifact[b])
         /\ stage[p] = "loaded" /\ Validation!LineageAgrees(p)
         /\ \A k \in 1..through[p] :
              /\ seen[p].results[k] = seen[p].summary[k]
              /\ seen[p].results[k] \in Validation!Evaluations
              /\ Validation!SummaryAgrees(p, k, seen[p].summary[k])
         /\ Validation!RepeatsAgree(p)
  <1>1. /\ spec[p].profile \in {"historical", "normalized", "current"}
        /\ DOMAIN bundle = IF spec[p].profile = "historical" THEN {1, 2} ELSE {1}
        /\ through[p] \in Nat /\ through[p] \in Validation!Repeats
    BY Openings
  <1>2. /\ BundlesMatch(p) /\ LineageMatches(p) /\ RepeatsMatch(p)
        /\ phase[p] = Opening(p) + 2 * through[p] + 1 /\ Validation!RepeatsAgree(p)
    BY DEF ValidationInv, Matched
  <1>3. /\ Opening(p) \in Nat /\ phase[p] > LineageEnd(p)
        /\ \A b \in DOMAIN bundle : phase[p] > BundleEnd(p, b)
    BY <1>1, <1>2 DEF Opening, LineageEnd, BundleEnd
  <1>4. ASSUME NEW k \in 1..through[p]
        PROVE  /\ Validation!SummaryAgrees(p, k, seen[p].summary[k])
               /\ seen[p].results[k] = seen[p].summary[k]
               /\ seen[p].results[k] \in Validation!Evaluations
    <2>1. phase[p] > Opening(p) + 2 * k
      BY <1>1, <1>2, <1>3
    <2>2. Validation!SummaryAgrees(p, k, seen[p].summary[k])
      BY <1>2, <2>1 DEF RepeatsMatch
    <2>3. k \in Validation!Repeats
      BY <1>1 DEF Validation!Repeats, Validation!EvaluationAssumption
    <2>4. seen[p].summary[k] \in Validation!Evaluations \cup {0}
      BY <2>3 DEF ValidationInv, Sights
    <2> QED BY <2>2, <2>4 DEF Validation!SummaryAgrees
  <1> QED BY <1>2, <1>3, <1>4 DEF BundlesMatch, LineageMatches

(* Accepted repeats follow each other, so none is a copy of another.       *)
LEMMA ValidationPromises ==
  ASSUME ValidationInv, Validation!SpecAssumption, Validation!EvaluationAssumption
  PROVE  Validation!RepeatsAreDistinct /\ Validation!RepeatsAreOfOneRun
  <1>1. Validation!RepeatsAreDistinct
    <2> SUFFICES ASSUME NEW p \in Diagnosed.readers, verdict[p] = "accepted",
                        NEW k \in 1..through[p], NEW j \in 1..k - 1
                 PROVE  /\ seen[p].results[j] # seen[p].results[k]
                        /\ Diagnosed.evaluated[seen[p].results[j]].output
                             = Diagnosed.evaluated[seen[p].results[k]].output
      BY AcceptedWhole DEF Validation!RepeatsAreDistinct
    <2> DEFINE Start(i) == Diagnosed.evaluated[seen[p].summary[i]].start
               Finish(i) == Diagnosed.evaluated[seen[p].summary[i]].finish
    <2>1. /\ through[p] \in Nat
          /\ \A i \in 1..through[p] : /\ seen[p].results[i] = seen[p].summary[i]
                                      /\ seen[p].summary[i] \in Validation!Evaluations
          /\ Validation!SameOutputs(p) /\ Validation!InTurn(p)
      BY AcceptedWhole, Openings DEF Validation!RepeatsAgree
    <2>2. \A i \in 1..through[p] :
            Start(i) \in Nat /\ Finish(i) \in Nat /\ Start(i) < Finish(i)
      BY <2>1 DEF Validation!EvaluationAssumption
    <2>3. \A i \in 2..through[p] : Finish(i - 1) <= Start(i)
      BY <2>1 DEF Validation!InTurn
    <2> HIDE DEF Start, Finish
    <2>4. Finish(j) <= Start(k)
      <3> DEFINE T == {i \in j + 1..through[p] : ~(Finish(j) <= Start(i))}
      <3>1. ASSUME T # {} PROVE FALSE
        <4>1. T \subseteq Nat
          OBVIOUS
        <4>2. PICK i \in T : \A n \in T : i <= n
          BY <3>1, <4>1, LeastNat
        <4>3. i \in 2..through[p] /\ j \in 1..through[p] /\ i - 1 \in 1..through[p]
          BY <2>1
        <4>4. CASE i = j + 1
          <5>1. i - 1 = j
            BY <4>4
          <5> QED BY <2>3, <4>3, <5>1
        <4>5. CASE i # j + 1
          <5>1. i - 1 \in j + 1..through[p] /\ ~(i <= i - 1)
            BY <2>1, <4>5
          <5>2. ~(i - 1 \in T)
            BY <4>2, <5>1
          <5>3. Finish(j) <= Start(i - 1)
            BY <5>1, <5>2
          <5>4. Finish(i - 1) <= Start(i) /\ Start(i - 1) < Finish(i - 1)
            BY <2>2, <2>3, <4>3
          <5>5. /\ Finish(j) \in Nat /\ Start(i - 1) \in Nat /\ Finish(i - 1) \in Nat
                /\ Start(i) \in Nat
            BY <2>2, <4>3
          <5>6. Finish(j) <= Start(i)
            BY <5>3, <5>4, <5>5
          <5> QED BY <5>6
        <4> QED BY <4>4, <4>5
      <3>2. k \in j + 1..through[p]
        BY <2>1
      <3> QED BY <3>1, <3>2
    <2>5. j \in 1..through[p] /\ k \in 1..through[p]
      BY <2>1
    <2>6. seen[p].summary[j] # seen[p].summary[k]
      <3>1. seen[p].summary[j] = seen[p].summary[k] => Start(j) = Start(k)
        BY DEF Start
      <3> QED BY <2>2, <2>4, <2>5, <3>1
    <2> QED BY <2>1, <2>5, <2>6 DEF Validation!SameOutputs
  <1>2. Validation!RepeatsAreOfOneRun
    <2> SUFFICES ASSUME NEW p \in Diagnosed.readers, verdict[p] = "accepted"
                 PROVE  /\ Validation!OneRun(lineage[p])
                        /\ \A b \in DOMAIN bundle : Diagnosed.made[seen[p].receipt[b]] =
                             [run |-> lineage[p].metadata, artifact |-> seen[p].artifact[b]]
                        /\ \A k \in 1..through[p] :
                             /\ Diagnosed.evaluated[seen[p].results[k]].artifact
                                  = seen[p].artifact[1]
                             /\ Diagnosed.evaluated[seen[p].results[k]].run
                                  = lineage[p].metadata
      BY DEF Validation!RepeatsAreOfOneRun
    <2>1. /\ \A b \in DOMAIN bundle : Validation!BundleAgrees(p, b, seen[p].artifact[b])
          /\ stage[p] = "loaded" /\ Validation!LineageAgrees(p)
          /\ \A k \in 1..through[p] :
               /\ seen[p].results[k] = seen[p].summary[k]
               /\ Validation!SummaryAgrees(p, k, seen[p].summary[k])
      BY AcceptedWhole
    <2>2. Validation!OneRun(lineage[p])
      BY <2>1 DEF ValidationInv, Validation!LineageInv, Validation!Reads
    <2>3. \A k \in 1..through[p] :
            /\ Diagnosed.evaluated[seen[p].results[k]].artifact = seen[p].artifact[1]
            /\ Diagnosed.evaluated[seen[p].results[k]].run = lineage[p].metadata
      BY <2>1 DEF Validation!SummaryAgrees
    <2>4. ASSUME NEW b \in DOMAIN bundle
          PROVE  Diagnosed.made[seen[p].receipt[b]] =
                   [run |-> lineage[p].metadata, artifact |-> seen[p].artifact[b]]
      <3>1. /\ spec[p].profile \in {"historical", "normalized", "current"}
            /\ spec[p].bundles[b] \in DOMAIN Diagnosed.made
            /\ DOMAIN bundle = IF spec[p].profile = "historical" THEN {1, 2} ELSE {1}
        BY Openings
      <3>2. Validation!BundleAgrees(p, b, seen[p].artifact[b])
        BY <2>1
      <3>3. /\ seen[p].receipt[b] = spec[p].bundles[b]
            /\ Diagnosed.made[seen[p].receipt[b]].run = lineage[p].metadata
            /\ Diagnosed.made[seen[p].receipt[b]].artifact = seen[p].artifact[b]
        <4>1. CASE spec[p].profile = "historical"
          <5>1. lineage[p].metadata = spec[p].run
            BY <2>1, <2>2, <4>1
               DEF Validation!LineageAgrees, Validation!HistoricalLineage, Validation!OneRun
          <5>2. Validation!HistoricalBundle(spec[p], b, seen[p].receipt[b],
                                            seen[p].calibration[b], seen[p].artifact[b])
            BY <3>2, <4>1 DEF Validation!BundleAgrees
          <5>3. {Diagnosed.made[seen[p].receipt[b]].artifact,
                 Diagnosed.made[seen[p].calibration[b]].artifact, seen[p].artifact[b]}
                  = {spec[p].artifact}
            BY <5>2 DEF Validation!HistoricalBundle
          <5>4. Diagnosed.made[seen[p].receipt[b]].artifact = seen[p].artifact[b]
            BY <5>3
          <5> QED BY <5>1, <5>2, <5>4 DEF Validation!HistoricalBundle
        <4>2. CASE spec[p].profile = "normalized"
          <5>1. b = 1
            BY <3>1, <4>2
          <5> QED BY <2>1, <2>2, <3>2, <4>2, <5>1
             DEF Validation!BundleAgrees, Validation!NormalizedBundle,
                 Validation!LineageAgrees, Validation!NormalizedLineage, Validation!OneRun
        <4>3. CASE spec[p].profile = "current"
          <5>1. b = 1
            BY <3>1, <4>3
          <5> QED BY <3>2, <4>3, <5>1 DEF Validation!BundleAgrees, Validation!CurrentBundle
        <4> QED BY <3>1, <4>1, <4>2, <4>3
      <3>4. Diagnosed.made[seen[p].receipt[b]] \in [run : Validation!Runs, artifact : Nat \ {0}]
        BY <3>1, <3>3 DEF Validation!EvaluationAssumption
      <3> QED BY <3>3, <3>4
    <2> QED BY <2>2, <2>3, <2>4
  <1> QED BY <1>1, <1>2

-----------------------------------------------------------------------------
(* The types of the components that are not in their invariants.           *)

LEMMA PipelineTypes == ASSUME PipelineInv PROVE Pipeline!TypeOK
  <1> USE DEF PipelineInv, TypeInv
  <1>1. {view, durable} \subseteq Disks
    OBVIOUS
  <1>2. \A i \in Pipeline!Inputs : version[i] \in 0 .. MaxFaults
    BY DEF Pipeline!PipelineAssumption
  <1>3. \A r \in Calibrations, i \in Pipeline!Inputs : seen[r][i] \in 0 .. MaxFaults
    <2> SUFFICES ASSUME NEW r \in Calibrations, NEW i \in Pipeline!Inputs
                 PROVE  seen[r][i] \in 0 .. MaxFaults
      OBVIOUS
    <2>1. seen[r][i] \in Nat /\ seen[r][i] <= version[i]
      BY DEF RunInv, InputInv
    <2> QED BY <1>2, <2>1 DEF Pipeline!PipelineAssumption
  <1>4. /\ version \in [Pipeline!Inputs -> 0 .. MaxFaults]
        /\ seen \in [Calibrations -> [Pipeline!Inputs -> 0 .. MaxFaults]]
    BY <1>2, <1>3
  <1>5. ASSUME NEW r \in Calibrations
        PROVE  /\ at[r][1] \in {"check"} \cup Pipeline!Forward \cup Pipeline!Cleanup
                                 \cup Pipeline!Ended
               /\ at[r][2] \in 0 .. Pipeline!Receipt
    <2>1. at[r] \in Places
      OBVIOUS
    <2> HIDE DEF PipelineInv, TypeInv
    <2> QED BY <2>1 DEF Places, Pipeline!Forward, Pipeline!Cleanup, Pipeline!Ended,
                        Pipeline!Receipt, Pipeline!Files, Pipeline!Outputs
  <1>6. \A r \in Calibrations : used[r] \subseteq Pipeline!Inputs \X (0 .. MaxFaults)
    OBVIOUS
  <1>7. {synced, public, owned, installed} \subseteq [Calibrations -> SUBSET Pipeline!Files]
    OBVIOUS
  <1> QED BY <1>1, <1>4, <1>5, <1>6, <1>7 DEF Pipeline!TypeOK, Disks

LEMMA EvaluationTyped == ASSUME EvaluationInv PROVE Evaluation!TypeOK
  <1>1. \A p \in Evaluators : /\ Len(results[p]) <= Rows
                              /\ engine[p] # 0 => phase[p] \in {"generate", "killed"}
    BY DEF EvaluationInv, EvaluatorInv, RowsInv
  <1> QED BY <1>1 DEF EvaluationInv, EvaluationTypes, Evaluation!LineageInv, Evaluation!TypeOK,
                      Firsts, Outcomes

(* How many files are attested before a place of the plan.                 *)
FilesBefore(k) ==
  IF k <= 3 + nLinks THEN 0
  ELSE IF k <= SecondStart THEN k - 3 - nLinks
  ELSE IF k <= SecondStart + nFiles THEN nFiles + (k - SecondStart - 1)
  ELSE 2 * nFiles

LibraryTypes ==
  /\ edits \in 0 .. Build.edits /\ instant \in BOOLEAN
  /\ \A l \in Libraries!Entries(Build.links) : link[l].time <= edits
  /\ step = "read" <=> held # Libraries!NotHeld
  /\ verdict # "refused" => Len(seen) = FilesBefore(at)
  /\ verdict = "accepted" => at = Len(Libraries!Plan) + 1

LEMMA FilesCounted ==
  ASSUME Libraries!NamesAssumption, NEW k \in 1 .. Len(Libraries!Plan)
  PROVE  /\ Libraries!Plan[k].do = "file" => FilesBefore(k + 1) = FilesBefore(k) + 1
         /\ Libraries!Plan[k].do # "file" => FilesBefore(k + 1) = FilesBefore(k)
         /\ FilesBefore(Len(Libraries!Plan) + 1) = 2 * nFiles /\ FilesBefore(1) = 0
  <1>1. /\ nLinks \in Nat /\ nFiles \in Nat /\ SecondStart = 3 + nLinks + nFiles
        /\ Len(Libraries!Plan) = 5 + 2 * nLinks + 2 * nFiles /\ LibraryPlace(k)
    BY ClosureTasks DEF SecondStart
  <1>2. FilesBefore(Len(Libraries!Plan) + 1) = 2 * nFiles /\ FilesBefore(1) = 0
    BY <1>1 DEF FilesBefore
  <1>3. \/ /\ Libraries!Plan[k].do = "file"
           /\ k \in (3 + nLinks .. 2 + nLinks + nFiles)
                \cup (SecondStart + 1 .. SecondStart + nFiles)
        \/ /\ Libraries!Plan[k].do # "file"
           /\ k \in (1 .. 2 + nLinks) \cup {SecondStart}
                \cup (SecondStart + nFiles + 1 .. SecondStart + nFiles + nLinks + 2)
    BY <1>1 DEF LibraryPlace
  <1>4. CASE Libraries!Plan[k].do = "file"
    <2>1. k \in (3 + nLinks .. 2 + nLinks + nFiles)
            \cup (SecondStart + 1 .. SecondStart + nFiles)
      BY <1>3, <1>4
    <2>2. FilesBefore(k + 1) = FilesBefore(k) + 1
      <3>1. CASE k \in 3 + nLinks .. 2 + nLinks + nFiles
        BY <1>1, <3>1 DEF FilesBefore
      <3>2. CASE k \in SecondStart + 1 .. SecondStart + nFiles
        BY <1>1, <3>2 DEF FilesBefore
      <3> QED BY <2>1, <3>1, <3>2
    <2> QED BY <1>2, <1>4, <2>2
  <1>5. CASE Libraries!Plan[k].do # "file"
    <2>1. k \in (1 .. 2 + nLinks) \cup {SecondStart}
            \cup (SecondStart + nFiles + 1 .. SecondStart + nFiles + nLinks + 2)
      BY <1>3, <1>5
    <2>2. FilesBefore(k + 1) = FilesBefore(k)
      <3>1. CASE k \in 1 .. 2 + nLinks
        BY <1>1, <3>1 DEF FilesBefore
      <3>2. CASE k = SecondStart
        BY <1>1, <3>2 DEF FilesBefore
      <3>3. CASE k \in SecondStart + nFiles + 1 .. SecondStart + nFiles + nLinks + 2
        BY <1>1, <3>3 DEF FilesBefore
      <3> QED BY <2>1, <3>1, <3>2, <3>3
    <2> QED BY <1>2, <1>5, <2>2
  <1> QED BY <1>4, <1>5

(* A task that reads no file.                                              *)
LEMMA LibraryTaskTypes ==
  ASSUME Libraries!NamesAssumption, ClosureInv, LibraryTypes, verdict = "none",
         NEW accepted, Libraries!Advance(accepted), Libraries!Plan[at].do # "file",
         step' = step, held' = held, seen' = seen, instant' \in BOOLEAN
  PROVE  LibraryTypes'
  <1>1. at \in 1 .. Len(Libraries!Plan)
    BY DEF ClosureInv, LibraryReader
  <1>2. /\ accepted => at' = at + 1 /\ verdict' \in {"none", "accepted"}
        /\ ~accepted => at' = at /\ verdict' = "refused"
        /\ verdict' = "accepted" => accepted /\ at = Len(Libraries!Plan)
        /\ link' = link /\ edits' = edits
    BY <1>1, ClosureAdvance
  <1>3. FilesBefore(at + 1) = FilesBefore(at)
    BY <1>1, FilesCounted
  <1>4. verdict' # "refused" => Len(seen') = FilesBefore(at')
    BY <1>2, <1>3 DEF LibraryTypes
  <1> QED BY <1>2, <1>4 DEF LibraryTypes

LEMMA LibraryOpenTypes ==
  ASSUME Libraries!NamesAssumption, ClosureInv, LibraryTypes, Libraries!Open
  PROVE  LibraryTypes'
  <1>1. /\ UNCHANGED <<edits, link, at, seen, instant, verdict>> /\ step' = "read"
        /\ held' = [of |-> Libraries!This, time |-> library[Libraries!This].time, chunks |-> <<>>]
    BY DEF Libraries!Open, Libraries!world
  <1>2. Libraries!Plan[at].do = "file" /\ at \in 1 .. Len(Libraries!Plan)
    BY DEF Libraries!Open, Libraries!Doing, ClosureInv, LibraryReader
  <1>3. Libraries!This # "none"
    BY <1>2, ClosurePlaces DEF ClosurePlan, Libraries!NamesAssumption, Libraries!This
  <1>4. held' # Libraries!NotHeld
    <2>1. held'.of # Libraries!NotHeld.of
      BY <1>1, <1>3 DEF Libraries!NotHeld
    <2> QED BY <2>1
  <1>5. Len(seen') = FilesBefore(at') <=> Len(seen) = FilesBefore(at)
    BY <1>1
  <1> QED BY <1>1, <1>4, <1>5 DEF LibraryTypes

LEMMA LibraryReadTypes ==
  ASSUME Libraries!NamesAssumption, ClosureInv, LibraryTypes, Libraries!Read
  PROVE  LibraryTypes'
  <1>1. /\ UNCHANGED <<edits, link, at, step, seen, instant, verdict>> /\ step = "read"
        /\ held' = [held EXCEPT !.chunks =
                      Append(@, library[held.of].chunks[Len(@) + 1])]
    BY DEF Libraries!Read, Libraries!world
  <1>2. LibraryReading
    BY <1>1 DEF ClosureInv, LibraryReader
  <1>3. held.of # "none"
    BY <1>2 DEF LibraryReading, Libraries!NamesAssumption
  <1>4. held'.of = held.of
    BY <1>1, <1>2 DEF LibraryReading
  <1>5. held' # Libraries!NotHeld
    <2>1. held'.of # Libraries!NotHeld.of
      BY <1>3, <1>4 DEF Libraries!NotHeld
    <2> QED BY <2>1
  <1>6. Len(seen') = FilesBefore(at') <=> Len(seen) = FilesBefore(at)
    BY <1>1
  <1> QED BY <1>1, <1>5, <1>6 DEF LibraryTypes

LEMMA LibraryCloseTypes ==
  ASSUME Libraries!NamesAssumption, ClosureInv, LibraryTypes, Libraries!Close
  PROVE  LibraryTypes'
  <1> DEFINE accepted == Libraries!Digested /\ Libraries!Unmoved
  <1>1. /\ step = "read" /\ verdict = "none" /\ Libraries!Advance(accepted)
        /\ seen' = (IF accepted THEN Append(seen, whole) ELSE seen)
        /\ step' = "none" /\ held' = Libraries!NotHeld /\ instant' = instant
    BY DEF Libraries!Close
  <1> HIDE DEF accepted
  <1>2. at \in 1 .. Len(Libraries!Plan) /\ Libraries!Plan[at].do = "file" /\ seen \in Seq(BOOLEAN)
    BY <1>1 DEF ClosureInv, LibraryReader, LibraryReading
  <1>3. /\ accepted => at' = at + 1 /\ verdict' \in {"none", "accepted"}
        /\ ~accepted => at' = at /\ verdict' = "refused"
        /\ verdict' = "accepted" => accepted /\ at = Len(Libraries!Plan)
        /\ link' = link /\ edits' = edits
    BY <1>1, <1>2, ClosureAdvance
  <1>4. FilesBefore(at + 1) = FilesBefore(at) + 1
    BY <1>2, FilesCounted
  <1>5. accepted => Len(seen') = Len(seen) + 1
    BY <1>1, <1>2 DEF ClosureInv, LibraryReader
  <1>6. verdict' # "refused" => Len(seen') = FilesBefore(at')
    BY <1>1, <1>3, <1>4, <1>5 DEF LibraryTypes
  <1> QED BY <1>1, <1>3, <1>6 DEF LibraryTypes

LEMMA LibraryEditTypes ==
  ASSUME Libraries!NamesAssumption, ClosureInv, LibraryTypes, Libraries!Edit
  PROVE  LibraryTypes'
  <1>1. /\ edits' = edits + 1 /\ edits' \in 0 .. Build.edits /\ edits \in Nat
        /\ UNCHANGED <<at, step, held, seen, instant, verdict>>
    BY DEF Libraries!Edit, Libraries!reader, LibraryTypes, Libraries!NamesAssumption
  <1>2. link \in [Libraries!Entries(Build.links) -> [pinned : BOOLEAN, time : Nat]]
    BY DEF ClosureInv, LibraryWorld
  <1>3. \A l \in Libraries!Entries(Build.links) : link'[l].time <= edits'
    <2>1. CASE link' = link
      BY <1>1, <1>2, <2>1 DEF LibraryTypes
    <2>2. CASE \E l \in Libraries!Entries(Build.links) : Libraries!Relink(l)
      <3>1. PICK l \in Libraries!Entries(Build.links) : Libraries!Relink(l)
        BY <2>2
      <3>2. link' = [link EXCEPT ![l] = Libraries!Touched([link[l] EXCEPT !.pinned = ~@])]
        BY <3>1 DEF Libraries!Relink
      <3>3. Libraries!Touched([link[l] EXCEPT !.pinned = ~@]).time = edits + 1
        BY <1>2 DEF Libraries!Touched
      <3> DEFINE t == Libraries!Touched([link[l] EXCEPT !.pinned = ~@])
      <3> HIDE DEF t
      <3>4. link' = [link EXCEPT ![l] = t] /\ t.time = edits + 1
        BY <3>2, <3>3 DEF t
      <3> QED BY <1>1, <1>2, <3>4 DEF LibraryTypes
    <2> QED BY <2>1, <2>2 DEF Libraries!Edit, Libraries!Install, Libraries!Write,
                              Libraries!Rename
  <1>4. Len(seen') = FilesBefore(at') <=> Len(seen) = FilesBefore(at)
    BY <1>1
  <1> QED BY <1>1, <1>3, <1>4 DEF LibraryTypes

LEMMA LibraryTypesStep ==
  ASSUME Libraries!NamesAssumption, ClosureInv, LibraryTypes, [Libraries!Next]_Libraries!vars
  PROVE  LibraryTypes'
  <1>1. CASE UNCHANGED Libraries!vars
    <2>1. UNCHANGED <<edits, link, at, step, held, seen, instant, verdict>>
      BY <1>1 DEF Libraries!vars, Libraries!world, Libraries!reader
    <2>2. Len(seen') = FilesBefore(at') <=> Len(seen) = FilesBefore(at)
      BY <2>1
    <2> QED BY <2>1, <2>2 DEF LibraryTypes
  <1>2. instant \in BOOLEAN
    BY DEF LibraryTypes
  <1>3. CASE Libraries!StatDirectory
    BY <1>2, <1>3, LibraryTaskTypes DEF Libraries!StatDirectory, Libraries!Doing
  <1>4. CASE Libraries!List
    BY <1>2, <1>4, LibraryTaskTypes DEF Libraries!List, Libraries!Doing
  <1>5. CASE Libraries!ListAgain
    <2>1. instant' \in BOOLEAN
      <3> DEFINE good == /\ \A f \in Libraries!Entries(Build.files) : Libraries!Whole(f)
                         /\ \A l \in Libraries!Entries(Build.links) : link[l].pinned
                         /\ Libraries!Names
      <3>1. instant' = good
        BY <1>5, Zenon DEF Libraries!ListAgain
      <3>2. good \in BOOLEAN
        BY DEF Libraries!Whole
      <3> HIDE DEF good
      <3> QED BY <3>1, <3>2
    <2> QED BY <1>5, <2>1, LibraryTaskTypes DEF Libraries!ListAgain, Libraries!Doing
  <1>6. CASE Libraries!StatLink
    BY <1>2, <1>6, LibraryTaskTypes DEF Libraries!StatLink, Libraries!Doing
  <1>7. CASE Libraries!StatLinkAgain
    <2>1. PICK i \in DOMAIN Build.links : Libraries!Advance(link[Libraries!This] = known.links[i])
      BY <1>7 DEF Libraries!StatLinkAgain
    <2> QED BY <1>2, <1>7, <2>1, LibraryTaskTypes DEF Libraries!StatLinkAgain, Libraries!Doing
  <1>8. CASE Libraries!StatDirectoryAgain
    BY <1>2, <1>8, LibraryTaskTypes DEF Libraries!StatDirectoryAgain, Libraries!Doing
  <1> QED BY <1>1, <1>3, <1>4, <1>5, <1>6, <1>7, <1>8, LibraryOpenTypes, LibraryReadTypes,
             LibraryCloseTypes, LibraryEditTypes DEF Libraries!Next, Libraries!Inspect

LEMMA LibraryTyped ==
  ASSUME Libraries!NamesAssumption, ClosureInv, LibraryTypes PROVE Libraries!TypeOK
  <1>1. verdict = "accepted" => Len(seen) = 2 * nFiles
    <2>1. 1 \in 1 .. Len(Libraries!Plan)
      BY ClosureTasks
    <2> QED BY <2>1, FilesCounted DEF LibraryTypes
  <1>2. /\ \A f \in Libraries!Entries(Build.files) : library[f].time \in 0 .. edits
        /\ \A l \in Libraries!Entries(Build.links) : link[l].time \in 0 .. edits
        /\ directory.time \in 0 .. edits
    BY DEF ClosureInv, LibraryWorld, LibraryTypes
  <1>3. edits \in 0 .. Build.edits /\ restores \in BOOLEAN
    BY DEF ClosureInv, LibraryWorld, LibraryTypes
  <1> QED BY <1>1, <1>2, <1>3
          DEF ClosureInv, LibraryReader, LibraryTypes, Libraries!TypeOK, nFiles

LEMMA LibraryTypesInit ==
  ASSUME Libraries!NamesAssumption, Libraries!Init PROVE LibraryTypes
  <1>1. /\ edits = 0 /\ 0 \in 0 .. Build.edits /\ instant = FALSE /\ step = "none"
        /\ held = Libraries!NotHeld /\ verdict = "none" /\ seen = <<>> /\ at = 1
        /\ link = [l \in Libraries!Entries(Build.links) |-> [pinned |-> TRUE, time |-> 0]]
    BY DEF Libraries!Init, Libraries!NamesAssumption
  <1>2. FilesBefore(at) = 0
    <2>1. 1 \in 1 .. Len(Libraries!Plan)
      BY ClosureTasks
    <2> QED BY <1>1, <2>1, FilesCounted
  <1>3. Len(seen) = 0
    BY <1>1
  <1>4. \A l \in Libraries!Entries(Build.links) : link[l].time = 0
    BY <1>1
  <1>5. /\ edits = 0 /\ edits \in 0 .. Build.edits /\ instant = FALSE /\ verdict = "none"
        /\ step = "none" /\ held = Libraries!NotHeld
    BY <1>1
  <1> HIDE DEF Libraries!NotHeld
  <1>6. /\ step = "read" <=> held # Libraries!NotHeld
        /\ verdict # "refused" => Len(seen) = FilesBefore(at)
    BY <1>2, <1>3, <1>5
  <1>7. \A l \in Libraries!Entries(Build.links) : link[l].time <= edits
    BY <1>4, <1>5
  <1> QED BY <1>5, <1>6, <1>7 DEF LibraryTypes

(* The export's.                                                           *)
ExportTypes ==
  /\ edits \in 0 .. Exported.edits /\ instant \in BOOLEAN
  /\ times \in [{Export!Trust, Export!Export} -> Nat]
  /\ \A g \in {Export!Trust, Export!Export} : times[g] <= edits
  /\ \A f \in DOMAIN initial : initial[f] \in Export!Contents(f)
  /\ verdict # "none" => held = [f \in Export!Files |-> Export!NotHeld]

LEMMA ExportTypesInit ==
  ASSUME Export!JobAssumption, Export!Init PROVE ExportTypes
  <1>1. /\ edits = 0 /\ 0 \in 0 .. Exported.edits /\ instant = FALSE /\ verdict = "none"
        /\ times = [g \in {Export!Trust, Export!Export} |-> 0]
        /\ initial = [f \in {"spec", "manifest"} |-> Export!Malformed]
    BY DEF Export!Init, Export!JobAssumption
  <1>2. \A f \in {"spec", "manifest"} : Export!Malformed \in Export!Contents(f)
    BY DEF Export!Contents
  <1> DEFINE G == {Export!Trust, Export!Export}
  <1>3. /\ times = [g \in G |-> 0] /\ edits = 0
    BY <1>1
  <1> HIDE DEF G
  <1>4. times \in [G -> Nat] /\ \A g \in G : times[g] <= edits
    BY <1>3
  <1>5. \A f \in DOMAIN initial : initial[f] \in Export!Contents(f)
    BY <1>1, <1>2
  <1> QED BY <1>1, <1>4, <1>5 DEF ExportTypes, G

(* Whatever a step of the verifier looks at, all is closed when it ends.   *)
LEMMA ExportAdvanceTypes ==
  ASSUME ExportInv, ExportTypes, verdict = "none", NEW accepted, NEW h,
         Export!Advance(accepted, h), instant' \in BOOLEAN,
         \A f \in DOMAIN initial' : initial'[f] \in Export!Contents(f)
  PROVE  ExportTypes'
  <1>1. edits' = edits /\ (verdict' # "none" => held' = [f \in Export!Files |-> Export!NotHeld])
    BY ExportAdvances DEF ExportInv
  <1>2. times' = times
    BY DEF Export!Advance, Export!world
  <1> QED BY <1>1, <1>2 DEF ExportTypes

LEMMA ExportTypesStep ==
  ASSUME Export!JobAssumption, ExportInv, ExportTypes, [Export!Next]_Export!vars
  PROVE  ExportTypes'
  <1>1. CASE UNCHANGED Export!vars
    <2>1. UNCHANGED <<edits, times, initial, held, instant, verdict>>
      BY <1>1 DEF Export!vars, Export!world, Export!work
    <2> QED BY <2>1 DEF ExportTypes
  <1>2. CASE Export!Edit
    <2>1. /\ edits' = edits + 1 /\ edits' \in 0 .. Exported.edits /\ edits \in Nat
          /\ UNCHANGED <<initial, held, instant, verdict>>
      BY <1>2 DEF Export!Edit, Export!Now, Export!work, ExportTypes, Export!JobAssumption
    <2>2. \/ times' = times
          \/ \E g \in {Export!Trust, Export!Export} : times' = [times EXCEPT ![g] = edits + 1]
      BY <1>2 DEF Export!Edit, Export!Now, Export!Group
    <2>3. /\ times' \in [{Export!Trust, Export!Export} -> Nat]
          /\ \A g \in {Export!Trust, Export!Export} : times'[g] <= edits'
      <3>1. CASE times' = times
        BY <2>1, <3>1 DEF ExportTypes
      <3>2. CASE \E g \in {Export!Trust, Export!Export} :
                   times' = [times EXCEPT ![g] = edits + 1]
        <4>1. PICK g \in {Export!Trust, Export!Export} :
                times' = [times EXCEPT ![g] = edits + 1]
          BY <3>2
        <4> DEFINE G == {Export!Trust, Export!Export}
        <4>2. times \in [G -> Nat] /\ (\A k \in G : times[k] <= edits) /\ g \in G
          BY DEF ExportTypes
        <4> HIDE DEF G
        <4>3. times' \in [G -> Nat] /\ \A k \in G : times'[k] <= edits'
          BY <2>1, <4>1, <4>2
        <4> QED BY <4>3 DEF G
      <3> QED BY <2>2, <3>1, <3>2
    <2> QED BY <2>1, <2>3 DEF ExportTypes
  <1>3. /\ instant \in BOOLEAN
        /\ \A f \in DOMAIN initial : initial[f] \in Export!Contents(f)
    BY DEF ExportTypes
  <1>4. CASE Export!Initial
    <2>1. initial' = [f \in {"spec", "manifest"} |-> Export!Bytes(f)]
      BY <1>4 DEF Export!Initial
    <2>2. \A f \in {"spec", "manifest"} : Export!Bytes(f) \in Export!Contents(f)
      <3> SUFFICES ASSUME NEW f \in {"spec", "manifest"}
                   PROVE  Export!Bytes(f) \in Export!Contents(f)
        OBVIOUS
      <3>1. f \in Export!Files
        BY DEF Export!Files, Export!Entries, Export!Trust
      <3>2. /\ inodes[f] \in Seq(ExportInodes) /\ Len(inodes[f]) > 0
            /\ \A i \in 1 .. Len(inodes[f]) : inodes[f][i].bytes \in Export!Contents(f)
        BY <3>1 DEF ExportInv, ExportFiles
      <3>3. Len(inodes[f]) \in 1 .. Len(inodes[f])
        BY <3>2
      <3> QED BY <3>2, <3>3 DEF Export!Bytes, Export!Current
    <2>3. \A f \in DOMAIN initial' : initial'[f] \in Export!Contents(f)
      BY <2>1, <2>2
    <2> QED BY <1>3, <1>4, <2>3, ExportAdvanceTypes DEF Export!Initial, Export!Doing
  <1>5. CASE Export!Last
    <2>1. instant' \in BOOLEAN
      BY <1>5, Zenon DEF Export!Last
    <2> QED BY <1>3, <1>5, <2>1, ExportAdvanceTypes DEF Export!Last, Export!Doing
  <1>6. CASE Export!Stat
    BY <1>3, <1>6, ExportAdvanceTypes DEF Export!Stat, Export!Doing
  <1>7. CASE Export!_open_bound_file
    BY <1>3, <1>7, ExportAdvanceTypes DEF Export!_open_bound_file, Export!Doing
  <1>8. CASE Export!Recheck
    BY <1>3, <1>8, ExportAdvanceTypes DEF Export!Recheck, Export!Doing
  <1>9. CASE Export!Rehash
    BY <1>3, <1>9, ExportAdvanceTypes DEF Export!Rehash, Export!Doing
  <1>10. CASE Export!Pinned
    BY <1>3, <1>10, ExportAdvanceTypes DEF Export!Pinned, Export!Doing
  <1>11. CASE Export!Close
    BY <1>3, <1>11, ExportAdvanceTypes DEF Export!Close, Export!Doing
  <1>12. CASE Export!Same
    BY <1>3, <1>12, ExportAdvanceTypes DEF Export!Same, Export!Doing
  <1>13. CASE Export!CommandSignatureVerifier
    BY <1>3, <1>13, ExportAdvanceTypes DEF Export!CommandSignatureVerifier, Export!Doing
  <1>14. CASE Export!_bound_bytes
    BY <1>3, <1>14, ExportAdvanceTypes DEF Export!_bound_bytes, Export!Doing
  <1>15. CASE Export!Receipts
    BY <1>3, <1>15, ExportAdvanceTypes DEF Export!Receipts, Export!Doing
  <1> QED BY <1>1, <1>2, <1>4, <1>5, <1>6, <1>7, <1>8, <1>9, <1>10, <1>11, <1>12, <1>13,
             <1>14, <1>15 DEF Export!Next, Export!Verify

LEMMA ExportTyped == ASSUME ExportInv, ExportTypes PROVE Export!TypeOK
  <1>1. \A f \in Export!Files : \A i \in DOMAIN inodes[f] :
          inodes[f][i].bytes \in Export!Contents(f) /\ inodes[f][i].time \in 0 .. edits
    <2> SUFFICES ASSUME NEW f \in Export!Files, NEW i \in DOMAIN inodes[f]
                 PROVE  /\ inodes[f][i].bytes \in Export!Contents(f)
                        /\ inodes[f][i].time \in 0 .. edits
      OBVIOUS
    <2>1. inodes[f] \in Seq(ExportInodes) /\ edits \in Nat
      BY DEF ExportInv, ExportFiles
    <2>2. i \in 1 .. Len(inodes[f])
      BY <2>1
    <2>3. inodes[f][i] \in ExportInodes
      BY <2>1, <2>2
    <2>4. inodes[f][i].bytes \in Export!Contents(f) /\ inodes[f][i].time <= edits
      BY <2>2 DEF ExportInv, ExportFiles
    <2> QED BY <2>1, <2>3, <2>4 DEF ExportInodes
  <1>2. \A f \in Export!Files : held[f].file \in 0 .. Len(inodes[f])
    BY DEF ExportInv, ExportFiles, ExportHeld
  <1>3. at # <<>>
    <2>1. Len(at) \in 1 .. 74
      BY DEF ExportInv, ExportPlaceInv
    <2>2. Len(<<>>) = 0 /\ 0 \notin 1 .. 74
      OBVIOUS
    <2> QED BY <2>1, <2>2, Zenon
  <1>4. \A g \in {Export!Trust, Export!Export} : times[g] \in 0 .. edits
    BY DEF ExportTypes, ExportInv, ExportFiles
  <1>5. verdict \in {"none", "accepted", "refused"}
    BY DEF ExportInv, ExportRead
  <1>6. verdict # "none" => \A f \in Export!Files : held[f] = Export!NotHeld
    BY DEF ExportTypes
  <1> QED BY <1>1, <1>2, <1>3, <1>4, <1>5, <1>6 DEF ExportTypes, Export!TypeOK

-----------------------------------------------------------------------------
(* The components together.                                                *)

(* The invariant of the component that runs, where it has one here.        *)
SuiteInv == /\ unit = "calibration" => PipelineInv
            /\ unit = "evaluation" => EvaluationInv
            /\ unit = "libraries" => ClosureInv /\ LibraryTypes
            /\ unit = "imports" => SurfaceInv
            /\ unit = "export" => ExportInv /\ ExportTypes
            /\ unit = "provenance" => ProvenanceInv
            /\ unit = "validation" => ValidationInv

(* A step of the whole is a step of the component that runs.               *)
LEMMA UnitSteps ==
  ASSUME [SuiteNext]_all
  PROVE  /\ UNCHANGED unit
         /\ unit = "calibration" => [Pipeline!Next]_Pipeline!vars
         /\ unit = "evaluation" => [Evaluation!Next]_Evaluation!vars
         /\ unit = "libraries" => [Libraries!Next]_Libraries!vars
         /\ unit = "imports" => [Imports!Next]_Imports!vars
         /\ unit = "export" => [Export!Next]_Export!vars
         /\ unit = "provenance" => [Provenance!Next]_Provenance!vars
         /\ unit = "validation" => [Validation!Next]_Validation!vars
  <1>1. UNCHANGED unit
    BY DEF SuiteNext, all
  <1>2. CASE UNCHANGED all
    BY <1>2 DEF all, Pipeline!vars, Pipeline!disk, Pipeline!local, Evaluation!vars,
                Evaluation!disk, Evaluation!loader, Evaluation!run_state,
                Libraries!vars, Libraries!world, Libraries!reader,
                Imports!vars, Imports!world, Export!vars, Export!world, Export!work,
                Provenance!vars, Provenance!disk, Provenance!loader,
                Validation!vars, Validation!world, Validation!asked, Validation!disk,
                Validation!loader
  <1>3. CASE SuiteNext
    BY <1>1, <1>3 DEF SuiteNext
  <1> QED BY <1>1, <1>2, <1>3

LEMMA SuiteInitInv == ASSUME SuiteInit PROVE SuiteInv
  <1>1. ASSUME unit = "calibration" PROVE PipelineInv
    <2>1. Pipeline!Init
      BY <1>1 DEF SuiteInit
    <2> QED BY <2>1, PipelineInit, ParametersAssumption
  <1>2. ASSUME unit = "evaluation" PROVE EvaluationInv
    <2>1. Evaluation!Init
      BY <1>2 DEF SuiteInit
    <2> QED BY <2>1, EvaluationInit, ParametersAssumption
  <1>3. ASSUME unit = "libraries" PROVE ClosureInv /\ LibraryTypes
    <2>1. Libraries!Init
      BY <1>3 DEF SuiteInit
    <2> QED BY <2>1, ClosureInit, LibraryTypesInit, ParametersAssumption
  <1>4. ASSUME unit = "imports" PROVE SurfaceInv
    <2>1. Imports!Init
      BY <1>4 DEF SuiteInit
    <2> QED BY <2>1, SurfaceInit, ParametersAssumption
  <1>5. ASSUME unit = "export" PROVE ExportInv /\ ExportTypes
    <2>1. Export!Init
      BY <1>5 DEF SuiteInit
    <2> QED BY <2>1, ExportInit, ExportTypesInit, ParametersAssumption
  <1>6. ASSUME unit = "provenance" PROVE ProvenanceInv
    <2>1. Provenance!Init
      BY <1>6 DEF SuiteInit
    <2> QED BY <2>1, PublicationInit, ParametersAssumption
  <1>7. ASSUME unit = "validation" PROVE ValidationInv
    <2>1. Validation!Init
      BY <1>7 DEF SuiteInit
    <2> QED BY <2>1, ValidationInit, ParametersAssumption
  <1> QED BY <1>1, <1>2, <1>3, <1>4, <1>5, <1>6, <1>7 DEF SuiteInv

LEMMA SuiteInvStep == ASSUME SuiteInv, [SuiteNext]_all PROVE SuiteInv'
  <1>1. UNCHANGED unit
    BY UnitSteps
  <1>2. ASSUME unit = "calibration" PROVE PipelineInv'
    <2>1. PipelineInv /\ [Pipeline!Next]_Pipeline!vars
      BY <1>2, UnitSteps DEF SuiteInv
    <2> QED BY <2>1, PipelineStep
  <1>3. ASSUME unit = "evaluation" PROVE EvaluationInv'
    <2>1. EvaluationInv /\ [Evaluation!Next]_Evaluation!vars
      BY <1>3, UnitSteps DEF SuiteInv
    <2> QED BY <2>1, EvaluationStep, ParametersAssumption
  <1>4. ASSUME unit = "libraries" PROVE (ClosureInv /\ LibraryTypes)'
    <2>1. ClosureInv /\ LibraryTypes /\ [Libraries!Next]_Libraries!vars
      BY <1>4, UnitSteps DEF SuiteInv
    <2> QED BY <2>1, ClosureStep, LibraryTypesStep, ParametersAssumption
  <1>5. ASSUME unit = "imports" PROVE SurfaceInv'
    <2>1. SurfaceInv /\ [Imports!Next]_Imports!vars
      BY <1>5, UnitSteps DEF SuiteInv
    <2> QED BY <2>1, SurfaceStep, ParametersAssumption
  <1>6. ASSUME unit = "export" PROVE (ExportInv /\ ExportTypes)'
    <2>1. ExportInv /\ ExportTypes /\ [Export!Next]_Export!vars
      BY <1>6, UnitSteps DEF SuiteInv
    <2> QED BY <2>1, ExportStep, ExportTypesStep, ParametersAssumption
  <1>7. ASSUME unit = "provenance" PROVE ProvenanceInv'
    <2>1. ProvenanceInv /\ [Provenance!Next]_Provenance!vars
      BY <1>7, UnitSteps DEF SuiteInv
    <2> QED BY <2>1, ProvenanceStep, ParametersAssumption
  <1>8. ASSUME unit = "validation" PROVE ValidationInv'
    <2>1. ValidationInv /\ [Validation!Next]_Validation!vars
      BY <1>8, UnitSteps DEF SuiteInv
    <2> QED BY <2>1, ValidationStep, ParametersAssumption
  <1> QED BY <1>1, <1>2, <1>3, <1>4, <1>5, <1>6, <1>7, <1>8 DEF SuiteInv

(* A calibration, an evaluation, an inspection of llama.cpp or of its      *)
(* imports, the verification of an export and the validation of a          *)
(* publication or of a diagnostic satisfy their invariants in every state, *)
(* for every value of the constants.                                       *)
THEOREM SuiteInvariance == SuiteSpec => []SuiteInv
  <1>1. SuiteInit => SuiteInv
    BY SuiteInitInv
  <1>2. SuiteInv /\ [SuiteNext]_all => SuiteInv'
    BY SuiteInvStep
  <1> QED BY <1>1, <1>2, PTL DEF SuiteSpec

(* The state of each component is of its type in every state: no counter   *)
(* passes its bound, whatever is held is released at the end, and an       *)
(* inspection that accepts has attested every file twice.                  *)
THEOREM TypeCorrect == SuiteSpec => []TypeOK
  <1>1. ASSUME SuiteInv, unit = "calibration" PROVE Pipeline!TypeOK
    BY <1>1, PipelineTypes DEF SuiteInv
  <1>2. ASSUME SuiteInv, unit = "evaluation" PROVE Evaluation!TypeOK
    BY <1>2, EvaluationTyped DEF SuiteInv
  <1>3. ASSUME SuiteInv, unit = "provenance" PROVE Provenance!TypeOK
    BY <1>3 DEF SuiteInv, ProvenanceInv
  <1>4. ASSUME SuiteInv, unit = "libraries" PROVE Libraries!TypeOK
    BY <1>4, LibraryTyped, ParametersAssumption DEF SuiteInv
  <1>5. ASSUME SuiteInv, unit = "export" PROVE Export!TypeOK
    BY <1>5, ExportTyped DEF SuiteInv
  <1>6. ASSUME SuiteInv, unit = "validation" PROVE Validation!TypeOK
    BY <1>6 DEF SuiteInv, ValidationInv
  <1>7. SuiteInv => TypeOK
    BY <1>1, <1>2, <1>3, <1>4, <1>5, <1>6 DEF TypeOK
  <1> QED BY <1>7, SuiteInvariance, PTL

(* What is recorded is true: a calibration receipt has its outputs and     *)
(* names the inputs its commands read, unless a cleanup failed, and a run  *)
(* that returned survives a power loss; every row of an evaluation came    *)
(* from the artifact its summary names, whose lineage is of one run        *)
(* (run_calibration_pipeline, main of evaluate_code_gguf.py).              *)
THEOREM ReceiptCorrect == SuiteSpec => []ReceiptIsTruthful
  <1>1. ASSUME SuiteInv, unit = "calibration"
        PROVE  /\ Pipeline!ReceiptHasOutputs /\ Pipeline!ReceiptIsTruthful
               /\ Pipeline!DoneIsDurable
    <2>1. PipelineInv
      BY <1>1 DEF SuiteInv
    <2> QED BY <2>1, PipelinePromises
  <1>2. ASSUME SuiteInv, unit = "evaluation" PROVE Evaluation!SummaryIsExact
    <2>1. EvaluationInv
      BY <1>2 DEF SuiteInv
    <2> QED BY <2>1, EvaluationPromises
  <1>3. SuiteInv => ReceiptIsTruthful
    BY <1>1, <1>2 DEF ReceiptIsTruthful
  <1> QED BY <1>3, SuiteInvariance, PTL

(* A calibration that failed and reports no incomplete cleanup has left    *)
(* neither a destination nor a temporary, even after a power loss; an eva- *)
(* luation leaves its staging directory only if killed or cut short        *)
(* (_rollback_destinations, _cleanup_temporary_records, main's except).    *)
THEOREM FailedCorrect == SuiteSpec => []FailedLeavesNothing
  <1>1. ASSUME SuiteInv, unit = "calibration" PROVE Pipeline!FailedLeavesNothing
    <2>1. PipelineInv
      BY <1>1 DEF SuiteInv
    <2> QED BY <2>1, PipelinePromises
  <1>2. ASSUME SuiteInv, unit = "evaluation" PROVE Evaluation!StagingRemoved
    <2>1. EvaluationInv
      BY <1>2 DEF SuiteInv
    <2> QED BY <2>1, EvaluationPromises
  <1>3. SuiteInv => FailedLeavesNothing
    BY <1>1, <1>2 DEF FailedLeavesNothing
  <1> QED BY <1>3, SuiteInvariance, PTL

(* Of any number of calibrations or evaluations with one destination none  *)
(* removes or overwrites what another left there (the inode a rollback     *)
(* compares, os.link, and os.replace of a directory).                      *)
THEOREM ClobbersCorrect == SuiteSpec => NeverClobbers
  <1>1. ASSUME SuiteInv, [SuiteNext]_all, unit = "calibration" PROVE Pipeline!NeverClobbersStep
    <2>1. PipelineInv /\ [Pipeline!Next]_Pipeline!vars
      BY <1>1, UnitSteps DEF SuiteInv
    <2> QED BY <2>1, Unclobbered
  <1>2. ASSUME [SuiteNext]_all, unit = "evaluation" PROVE Evaluation!ResultsStayStep
    <2>1. [Evaluation!Next]_Evaluation!vars
      BY <1>2, UnitSteps
    <2> QED BY <2>1, ResultsKept
  <1>3. SuiteInv /\ [SuiteNext]_all =>
          [/\ unit = "calibration" => Pipeline!NeverClobbersStep
           /\ unit = "evaluation" => Evaluation!ResultsStayStep]_all
    BY <1>1, <1>2
  <1> QED BY <1>3, SuiteInvariance, PTL DEF SuiteSpec, NeverClobbers

(* An accepted receipt is the one whose signature was checked, with the    *)
(* key that the worker spec pins, and names the model that was read,       *)
(* however often every file is written, replaced or exchanged with its     *)
(* directory after the preflight (verify_export).                          *)
THEOREM SignedCorrect == SuiteSpec => []ExportIsSigned
  <1>1. ASSUME SuiteInv, unit = "export" PROVE Export!AcceptedIsSigned
    <2>1. ExportInv
      BY <1>1 DEF SuiteInv
    <2> QED BY <2>1, ExportPromises
  <1>2. SuiteInv => ExportIsSigned
    BY <1>1 DEF ExportIsSigned
  <1> QED BY <1>2, SuiteInvariance, PTL

(* What an inspection accepts was there at one moment, whatever is         *)
(* written, relinked or moved meanwhile and however often: the libraries   *)
(* of llama.cpp, each read as a whole, unless a write in place brings      *)
(* bytes back; no forbidden module in any directory of its imports; the    *)
(* files of a verified export (_runtime_library_closure, the two snapshots *)
(* of the import surface, _recheck_bound_file).                            *)
THEOREM AtOnceCorrect == SuiteSpec => []AcceptedAtOnce
  <1>1. ASSUME SuiteInv, unit = "libraries"
        PROVE  Libraries!SeenWhole /\ Libraries!AcceptedAtOnce
    <2>1. ClosureInv
      BY <1>1 DEF SuiteInv
    <2> QED BY <2>1, ClosurePromises
  <1>2. ASSUME SuiteInv, unit = "imports" PROVE Imports!AcceptedIsClean
    <2>1. SurfaceInv
      BY <1>2 DEF SuiteInv
    <2> QED BY <2>1 DEF SurfaceInv, Imports!AcceptedIsClean
  <1>3. ASSUME SuiteInv, unit = "export" PROVE Export!AcceptedAtOnce
    <2>1. ExportInv
      BY <1>3 DEF SuiteInv
    <2> QED BY <2>1, ExportPromises
  <1>4. SuiteInv => AcceptedAtOnce
    BY <1>1, <1>2, <1>3 DEF AcceptedAtOnce
  <1> QED BY <1>4, SuiteInvariance, PTL

(* Files may be exchanged between any two reads of a publication's         *)
(* validation or of a diagnostic's, and what either accepts is still of    *)
(* one training run, of one conversion of it, and of diagnostics of that   *)
(* artifact; accepted repeats are evaluations of their own, however many   *)
(* there are, made one after the other (validate_publication,              *)
(* validate_declared_diagnostic).                                          *)
THEOREM OneRunCorrect == SuiteSpec => []AcceptedIsOneRun
  <1>1. ASSUME SuiteInv, unit = "provenance"
        PROVE  /\ Provenance!AcceptedIsOneRun /\ Provenance!AcceptedIsOneConversion
               /\ Provenance!DiagnosticsAreOfIt
    <2>1. ProvenanceInv
      BY <1>1 DEF SuiteInv
    <2> QED BY <2>1, PublicationPromises, ParametersAssumption
  <1>2. ASSUME SuiteInv, unit = "validation"
        PROVE  Validation!RepeatsAreDistinct /\ Validation!RepeatsAreOfOneRun
    <2>1. ValidationInv
      BY <1>2 DEF SuiteInv
    <2> QED BY <2>1, ValidationPromises, ParametersAssumption
  <1>3. SuiteInv => AcceptedIsOneRun
    BY <1>1, <1>2 DEF AcceptedIsOneRun
  <1> QED BY <1>3, SuiteInvariance, PTL
=============================================================================
