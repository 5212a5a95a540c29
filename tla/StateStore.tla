----------------------------- MODULE StateStore -----------------------------
(***************************************************************************)
(* The state directory of the miner (state.py).  `view' is what a process  *)
(* of this host reads; `durable' is what is left of it after a power loss. *)
(* os.replace and unlink change the view at once, and the directory entry  *)
(* is durable only after _fsync_root, so every primitive can fail before   *)
(* the change, or after it and before the fsync.  A process that dies      *)
(* inside a primitive leaves what one of these two failures leaves.        *)
(***************************************************************************)
CONSTANT NoMarker    \* submission-pending.json does not exist

(* How one replace or unlink, with its fsync, can end. *)
Outcomes == {"done", "before", "unsynced"}

(* How StateStore.write can end: it replaces status.json, then health.json. *)
WriteOutcomes == {"done", "before", "status_unsynced", "status_only",
                  "health_unsynced"}

(* Mutant: the directory is never synced. *)
ReplaceWithoutSync(s, f, x, outcome) ==
  IF outcome = "before" THEN s ELSE [s EXCEPT !.view[f] = x]

(* _atomic_json and unlink: file f of the store gets the value x.  The     *)
(* fsync is of the directory, so it makes every earlier change of the      *)
(* view durable too.                                                       *)
Replace(s, f, x, outcome) ==
  LET v == [s.view EXCEPT ![f] = x]
  IN IF outcome = "before" THEN s
     ELSE [view |-> v, durable |-> IF outcome = "done" THEN v ELSE s.durable]

(* Mutant: the health document leaves out the last success. *)
HealthWithoutSuccess(status) == [ok |-> status.ok, round |-> status.round]

(* The health document is a projection of the status document. *)
HealthOf(status) == [ok |-> status.ok, round |-> status.round,
                     success |-> status.success]

(* StateStore.write. *)
Written(s, status, outcome) ==
  LET statusOutcome == IF outcome = "before" THEN "before"
                       ELSE IF outcome = "status_unsynced" THEN "unsynced"
                       ELSE "done"
      healthOutcome == IF outcome = "done" THEN "done"
                       ELSE IF outcome = "health_unsynced" THEN "unsynced"
                       ELSE "before"
  IN Replace(Replace(s, "status", status, statusOutcome),
             "health", HealthOf(status), healthOutcome)

(* A power loss keeps, of every file, the durable entry or the newer one. *)
AfterPowerLoss(s) ==
  {[view |-> v, durable |-> v] :
     v \in {[status |-> a, health |-> b, latch |-> c, pending |-> d] :
              a \in {s.view.status, s.durable.status},
              b \in {s.view.health, s.durable.health},
              c \in {s.view.latch, s.durable.latch},
              d \in {s.view.pending, s.durable.pending}}}
=============================================================================
