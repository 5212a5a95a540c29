--------------------------- MODULE MinerController ---------------------------
(***************************************************************************)
(* The submission controller (controller.py) over its state directory, the *)
(* chain, the coordinator and the release host, one action per step whose  *)
(* outcome another party or a crash can change.  The profile is the live   *)
(* one: signed v0.3, MMC_DRY_RUN=false, continuous `run'.                  *)
(*                                                                         *)
(* A round has one manifest, one source and one commitment, so the round   *)
(* index stands for all three.  Every spurious failure (an RPC, a file     *)
(* operation, a crash, a power loss) spends one of MaxFaults; refusals     *)
(* that follow from the state are free.                                    *)
(***************************************************************************)
EXTENDS Integers, FiniteSets, Rounds, StateStore

CONSTANTS Served,      \* payloads the coordinator may serve
          Activation,  \* MMC_V030_ACTIVATION_BLOCK
          Era,         \* blocks a signed extrinsic stays valid
          NoRound,     \* no artifact, manifest or commitment
          MaxHead,     \* bound on the chain height
          MaxFaults    \* bound on spurious failures

ASSUME BoundsAssumption ==
  Activation \in Int /\ Era \in Int /\ MaxHead \in Int /\ MaxFaults \in Int

ASSUME ServedAssumption ==
  \A p \in Served : p.round \in Int /\ p.start \in Int /\ p.close \in Int /\ p.end \in Int

Windows == {WindowOf(p) : p \in Served}
Indices == {p.round : p \in Served}

ASSUME DistinctAssumption ==
  NoRound \notin Indices /\ NoMarker \notin Indices /\ NoWindow \notin Windows

VARIABLES head,      \* chain height
          slot,      \* the hotkey's commitment on chain: its round, and whether
                     \* it was included at or after that round's close block
          inflight,  \* broadcast extrinsics neither included nor dropped
          local,     \* round of the signed manifest in the artifact directory
          remote,    \* rounds whose immutable release is public and complete
          store,     \* the state directory
          pc,        \* what the controller process does next
          win,       \* the round window the cycle works on
          faults     \* spurious failures so far

chain == <<head, slot, inflight>>
artifacts == <<local, remote>>
vars == <<head, slot, inflight, local, remote, store, pc, win, faults>>

status == store.view.status
pending == store.view.pending

(* The steps after the pending marker is durable and before the receipt. *)
BroadcastSteps == {"recheck", "publish"}
(* The steps of _submit before the pending marker is written. *)
PrepareSteps == {"submit", "package", "prepare", "recover", "upload",
                 "uploading", "readback", "announce", "mark"}
Steps == {"preflight", "checking", "preflight_failed", "cycle", "wait",
          "heartbeat", "reverify", "reverify_check", "reconcile",
          "reconcile_check", "unmark", "await", "confirm", "clear",
          "verified", "fail", "fatal", "loop", "stopping", "refuse",
          "refuse_status"} \cup PrepareSteps \cup BroadcastSteps
Stopped == {"down", "halted", "exit3"}
(* Steps of a cycle that has resolved its round and keeps to it. *)
WindowSteps == PrepareSteps \cup BroadcastSteps \cup
  {"wait", "heartbeat", "reverify", "reverify_check", "reconcile",
   "reconcile_check", "await", "confirm", "clear", "verified"}

-----------------------------------------------------------------------------
(* Status documents. *)

NoStatus == [ok |-> FALSE, round |-> NoRound, success |-> NoRound,
             artifact |-> NoRound, proofs |-> FALSE, latched |-> FALSE,
             window |-> NoWindow]

EmptyFiles == [status |-> NoStatus, health |-> HealthOf(NoStatus),
               latch |-> FALSE, pending |-> NoMarker]

(* A write with ok=False and the static details. *)
Dark(s) == [s EXCEPT !.ok = FALSE]
(* _failure and _waiting_for_trusted_round: the proofs are withdrawn too. *)
Withdrawn(s) == [s EXCEPT !.ok = FALSE, !.proofs = FALSE]
(* _round_details with ok=False; the write merges it over the old status. *)
InRound(s, w) == [s EXCEPT !.ok = FALSE, !.round = w.round, !.window = w]
(* _round_details and the packaged artifact. *)
WithArtifact(s, w) == [InRound(s, w) EXCEPT !.artifact = w.round]
(* mark_verified. *)
Verified(s, w) == [WithArtifact(s, w) EXCEPT !.ok = TRUE, !.proofs = TRUE,
                                             !.success = w.round]
(* _authorization_failure's status. *)
Refused(s) == [Withdrawn(s) EXCEPT !.latched = TRUE]

(* Mutant: the latch is the dedicated marker alone. *)
LatchedByMarkerOnly(files) == files.latch

(* _authorization_latch_reason: the dedicated marker, then the status. *)
Latched(files) == files.latch \/ files.status.latched

(* Mutant: the proofs of an earlier success count for any ok. *)
ProofsWithoutSuccess(s, w) == s.round = w.round /\ s.artifact = w.round

(* _local_matches and _proofs_valid_for. *)
Matching(w) == local = w.round
ProofsValid(s, w) == /\ s.ok /\ s.proofs
                     /\ s.round = w.round /\ s.success = w.round
                     /\ s.artifact = w.round

-----------------------------------------------------------------------------
(* How a step can end. *)

Fault == faults < MaxFaults /\ faults' = faults + 1

(* A call that fails for a reason the model does not track. *)
Fails(next) == Fault /\ pc' = next /\ UNCHANGED <<store, win>>
(* A refusal that follows from the state. *)
Refuses(next) == pc' = next /\ UNCHANGED <<store, win, faults>>

(* StateStore.write of status document s, then step `next'; an OSError     *)
(* leaves a prefix of the write and goes to `onError'.                     *)
Write(s, next, onError) ==
  \/ store' = Written(store, s, "done") /\ pc' = next /\ UNCHANGED faults
  \/ /\ Fault
     /\ \E o \in WriteOutcomes \ {"done"} : store' = Written(store, s, o)
     /\ pc' = onError

(* A change of one marker file, as above. *)
Change(f, x, next, onError) ==
  \/ store' = Replace(store, f, x, "done") /\ pc' = next /\ UNCHANGED faults
  \/ /\ Fault
     /\ \E o \in Outcomes \ {"done"} : store' = Replace(store, f, x, o)
     /\ pc' = onError

-----------------------------------------------------------------------------
(* Starting and preflight. *)

Start(from) == /\ pc \in from
               /\ pc' = "preflight"
               /\ win' = NoWindow
               /\ UNCHANGED <<chain, artifacts, store, faults>>

(* Supervisor restarts a process that died or left with status 1 or 2;     *)
(* exits 0 and 3 are expected, and a host that boots starts nothing.       *)
Restart == Start({"down"})
OperatorStart == Start({"halted", "exit3"})

(* preflight: a latched refusal stops the process, anything else withdraws *)
(* the green state of an earlier process before the checks are made.       *)
Preflight == /\ pc = "preflight"
             /\ IF Latched(store.view)
                  THEN Refuses("refuse")
                  ELSE Write(Dark(status), "checking", "fatal") /\ UNCHANGED win
             /\ UNCHANGED <<chain, artifacts>>

(* backend.preflight and the `ready' status, or a refusal that is retried. *)
Check == /\ pc = "checking"
         /\ \/ Write(Dark(status), "loop", "fatal") /\ UNCHANGED win
            \/ Fails("preflight_failed")
            \/ Fails("fatal")
         /\ UNCHANGED <<chain, artifacts>>

PreflightFailed == /\ pc = "preflight_failed"
                   /\ \/ Write(Withdrawn(status), "preflight", "fatal")
                      \/ Write(Withdrawn(status), "stopping", "fatal")
                   /\ UNCHANGED <<chain, artifacts, win>>

(* The top of the loop in run: SIGTERM or SIGINT may have set the event.   *)
Loop == /\ pc = "loop"
        /\ pc' \in {"cycle", "stopping"}
        /\ UNCHANGED <<chain, artifacts, store, win, faults>>

Stop == /\ pc = "stopping"
        /\ Write(Dark(status), "halted", "fatal")
        /\ UNCHANGED <<chain, artifacts, win>>

-----------------------------------------------------------------------------
(* The cycle: resolve the round, then choose what to do in it. *)

Acceptable(p) == ValidServedRound(p, head, status.window)

(* No served payload is trusted now: RoundRefused costs no fault then. *)
NothingServed == \A p \in Served : ~Acceptable(p)

(* What cycle does once the round is resolved and `files' has its window. *)
Decision(files, w) ==
  LET valid == Matching(w) /\ ProofsValid(files.status, w)
  IN IF files.pending # NoMarker THEN {"reconcile"}
     ELSE IF AcceptsAt(w, head)
       THEN IF valid THEN {"heartbeat", "reverify"} ELSE {"submit"}
       ELSE (IF Matching(w) THEN {"reverify"} ELSE {}) \cup
            (IF valid \/ ~Matching(w) THEN {"wait"} ELSE {})

(* _resolve_round persists an accepted window with the old phase and ok. *)
Cycle ==
  /\ pc = "cycle"
  /\ IF Latched(store.view)
       THEN Refuses("refuse")
       ELSE \/ Fails("fail")
            \/ /\ head < Activation
               /\ Write(Withdrawn(status), "loop", "fail")
               /\ UNCHANGED win
            \/ head >= Activation /\ NothingServed /\ Refuses("fail")
            \/ /\ head >= Activation
               /\ \E p \in Served :
                    /\ Acceptable(p)
                    /\ win' = WindowOf(p)
                    /\ LET s == [status EXCEPT !.window = WindowOf(p)]
                       IN \E next \in Decision([store.view EXCEPT !.status = s],
                                               WindowOf(p)) :
                            Write(s, next, "fail")
  /\ UNCHANGED <<chain, artifacts>>

(* Outside the safe window: the state stays green only with valid proofs. *)
Wait == /\ pc = "wait"
        /\ LET valid == Matching(win) /\ ProofsValid(status, win)
           IN Write([InRound(status, win) EXCEPT !.ok = valid], "loop", "fail")
        /\ UNCHANGED <<chain, artifacts, win>>

Heartbeat == /\ pc = "heartbeat"
             /\ Write(status, "loop", "fail")
             /\ UNCHANGED <<chain, artifacts, win>>

(* _reverify: the state is not green while the proofs are refreshed. *)
Reverify == /\ pc = "reverify"
            /\ \/ Fails("fail")
               \/ Write(WithArtifact(status, win), "reverify_check", "fail") /\ UNCHANGED win
            /\ UNCHANGED <<chain, artifacts>>

SourceExact(w) == w.round \in remote
ChainExact(w) == slot.round = w.round

ReverifyCheck == /\ pc = "reverify_check"
                 /\ \/ Fails("fail")
                    \/ SourceExact(win) /\ ChainExact(win) /\ Refuses("verified")
                    \/ ~(SourceExact(win) /\ ChainExact(win)) /\ Refuses("fail")
                 /\ UNCHANGED <<chain, artifacts>>

(* _verified and mark_verified. *)
MarkVerified == /\ pc = "verified"
                /\ Write(Verified(status, win), "loop", "fail")
                /\ UNCHANGED <<chain, artifacts, win>>

-----------------------------------------------------------------------------
(* _submit: package, upload, and read the chain before anything is sent.   *)

Submit == /\ pc = "submit"
          /\ \/ Fails("fail")
             \/ /\ IF Matching(win)
                     THEN Write(WithArtifact(status, win), "recover", "fail")
                     ELSE Write(InRound(status, win), "package", "fail")
                /\ UNCHANGED win
          /\ UNCHANGED <<chain, artifacts>>

(* A failure may leave the new manifest in the artifact directory. *)
Package == /\ pc = "package"
           /\ \/ local' = win.round /\ pc' = "prepare" /\ UNCHANGED faults
              \/ local' \in {local, win.round} /\ pc' = "fail" /\ Fault
           /\ UNCHANGED <<chain, remote, store, win>>

(* The encoding and the provenance policy are checked before the upload.   *)
Prepare == /\ pc = "prepare"
           /\ \/ Fails("fail")
              \/ Write(WithArtifact(status, win), "upload", "fail") /\ UNCHANGED win
           /\ UNCHANGED <<chain, artifacts>>

(* A reused manifest also probes for the complete release; a probe that    *)
(* fails only costs a second upload.                                       *)
Recover == /\ pc = "recover"
           /\ \/ Fails("fail")
              \/ Fails("upload")
              \/ /\ Write(WithArtifact(status, win),
                          IF SourceExact(win) THEN "readback" ELSE "upload", "fail")
                 /\ UNCHANGED win
           /\ UNCHANGED <<chain, artifacts>>

(* _refresh_same_round and _assert_deadline: the round is resolved again,  *)
(* persisted, and must be the one of the cycle, still far from its close.  *)
Refresh(next, onRefusal) ==
  /\ \/ Fails(onRefusal)
     \/ (head < Activation \/ NothingServed) /\ Refuses(onRefusal)
     \/ /\ head >= Activation
        /\ \E p \in Served :
             /\ Acceptable(p)
             /\ Write([status EXCEPT !.window = WindowOf(p)],
                      IF WindowOf(p) = win /\ AcceptsAt(win, head)
                        THEN next ELSE onRefusal,
                      onRefusal)
        /\ UNCHANGED win
  /\ UNCHANGED <<chain, artifacts>>

Upload == pc = "upload" /\ Refresh("uploading", "fail")

(* The release becomes public and is fetched back, or something fails      *)
(* before or after it became public.                                       *)
Uploading == /\ pc = "uploading"
             /\ \/ /\ remote' = remote \cup {win.round}
                   /\ pc' = "readback"
                   /\ UNCHANGED faults
                \/ /\ remote' \in {remote, remote \cup {win.round}}
                   /\ pc' = "fail"
                   /\ Fault
             /\ UNCHANGED <<chain, local, store, win>>

(* verify_on_chain: an exact commitment is never sent again. *)
Readback == /\ pc = "readback"
            /\ \/ Fails("fail")
               \/ ChainExact(win) /\ Refuses("verified")
               \/ ~ChainExact(win) /\ Refuses("announce")
            /\ UNCHANGED <<chain, artifacts>>

Announce == pc = "announce" /\ Refresh("mark", "fail")

-----------------------------------------------------------------------------
(* _submit: the pending marker, the broadcast and its readback.            *)

(* mark_submission_pending refuses while any marker exists. *)
Mark == /\ pc = "mark"
        /\ \/ Fails("fail")
           \/ pending # NoMarker /\ Refuses("refuse")
           \/ /\ pending = NoMarker
              /\ Change("pending", win.round, "recheck", "refuse")
              /\ UNCHANGED win
        /\ UNCHANGED <<chain, artifacts>>

Recheck == pc = "recheck" /\ Refresh("publish", "unmark")

(* clear_submission_pending, for the round the cycle works on. *)
ClearPending(next) ==
  /\ \/ pending # win.round /\ Refuses("refuse")
     \/ /\ pending = win.round
        /\ Change("pending", NoMarker, next, "refuse")
        /\ UNCHANGED win
  /\ UNCHANGED <<chain, artifacts>>

(* Nothing was sent: the marker is removed and the refusal goes on. *)
Unmark == pc = "unmark" /\ ClearPending("fail")

(* backend.publish: the transaction authorization refuses, the artifact    *)
(* binding refuses, or the signed extrinsic is submitted.                  *)
Publish == /\ pc = "publish"
           /\ \/ (Fails("refuse") \/ Fails("unmark")) /\ UNCHANGED inflight
              \/ /\ inflight' = inflight \cup {[round |-> win.round, close |-> win.close,
                                              expires |-> head + Era]}
                 /\ Refuses("await")
           /\ UNCHANGED <<head, slot, artifacts>>

(* Mutant: a lost answer is taken for an extrinsic that was not sent. *)
AwaitLostIsUnsent == /\ pc = "await"
                     /\ \/ Fails("unmark")
                        \/ ChainExact(win) /\ Refuses("confirm")
                        \/ inflight = {} /\ ~ChainExact(win) /\ Refuses("refuse")
                     /\ UNCHANGED <<chain, artifacts>>

(* submit_extrinsic waits for finalization; a lost answer is ambiguous. *)
Await == /\ pc = "await"
         /\ \/ Fails("refuse")
            \/ ChainExact(win) /\ Refuses("confirm")
            \/ inflight = {} /\ ~ChainExact(win) /\ Refuses("refuse")
         /\ UNCHANGED <<chain, artifacts>>

Confirm == /\ pc = "confirm"
           /\ \/ Fails("refuse")
              \/ /\ Write(WithArtifact(status, win),
                          IF ChainExact(win) THEN "clear" ELSE "refuse", "refuse")
                 /\ UNCHANGED win
           /\ UNCHANGED <<chain, artifacts>>

Clear == pc = "clear" /\ ClearPending("verified")

-----------------------------------------------------------------------------
(* _reconcile_pending: read-only, and it never publishes.                  *)

(* Mutant: a marker of another round is an ordinary failure. *)
ReconcileRetried ==
  /\ pc = "reconcile"
  /\ IF pending # win.round \/ ~Matching(win)
       THEN Refuses("fail")
       ELSE \/ Fails("refuse")
            \/ /\ Write(WithArtifact(status, win), "reconcile_check", "fail")
               /\ UNCHANGED win
  /\ UNCHANGED <<chain, artifacts>>

Reconcile ==
  /\ pc = "reconcile"
  /\ IF pending # win.round \/ ~Matching(win)
       THEN Refuses("refuse")
       ELSE \/ Fails("refuse")
            \/ /\ Write(WithArtifact(status, win), "reconcile_check", "fail")
               /\ UNCHANGED win
  /\ UNCHANGED <<chain, artifacts>>

ReconcileCheck ==
  /\ pc = "reconcile_check"
  /\ \/ Fails("refuse")
     \/ ChainExact(win) /\ SourceExact(win) /\ Refuses("clear")
     \/ ~(ChainExact(win) /\ SourceExact(win)) /\ Refuses("refuse")
  /\ UNCHANGED <<chain, artifacts>>

-----------------------------------------------------------------------------
(* Recording a refusal.                                                    *)

(* _failure or _waiting_for_trusted_round; when even that write fails, run *)
(* tries once more on its way out with status 1.                           *)
Fail == /\ pc = "fail"
        /\ Write(Withdrawn(status), "loop", "fatal")
        /\ UNCHANGED <<chain, artifacts, win>>

Fatal == /\ pc = "fatal"
         /\ Write(Withdrawn(status), "down", "down")
         /\ UNCHANGED <<chain, artifacts, win>>

(* _authorization_failure: the dedicated latch, unless one is there, then  *)
(* the status; each may fail and the process exits 3 all the same.         *)
Refuse == /\ pc = "refuse"
          /\ IF store.view.latch
               THEN Refuses("refuse_status")
               ELSE /\ Change("latch", TRUE, "refuse_status", "refuse_status")
                    /\ UNCHANGED win
          /\ UNCHANGED <<chain, artifacts>>

RefuseStatus == /\ pc = "refuse_status"
                /\ Write(Refused(status), "exit3", "exit3")
                /\ UNCHANGED <<chain, artifacts, win>>

-----------------------------------------------------------------------------
(* The world around the process.                                           *)

Crash == /\ pc \notin Stopped
         /\ Fault
         /\ pc' = "down"
         /\ UNCHANGED <<chain, artifacts, store, win>>

(* The program is not started at boot (autostart=false). *)
PowerLoss == /\ Fault
             /\ store' \in AfterPowerLoss(store)
             /\ pc' = IF pc = "exit3" THEN "exit3" ELSE "halted"
             /\ UNCHANGED <<chain, artifacts, win>>

(* The operator clears a latch once no broadcast is undecided any more,    *)
(* and may leave the pending marker to the controller.                     *)
OperatorReview ==
  /\ pc \in {"halted", "exit3"}
  /\ Latched(store.view)
  /\ inflight = {}
  /\ \E marker \in {NoMarker, pending} :
       LET v == [store.view EXCEPT !.latch = FALSE, !.pending = marker,
                                   !.status.latched = FALSE]
       IN store' = [view |-> v, durable |-> v]
  /\ UNCHANGED <<chain, artifacts, pc, win, faults>>

Tick == /\ head < MaxHead
        /\ head' = head + 1
        /\ UNCHANGED <<slot, inflight, artifacts, store, pc, win, faults>>

(* A block includes and finalizes a broadcast extrinsic of its era. *)
Land(e) == /\ e \in inflight
           /\ head <= e.expires
           /\ slot' = [round |-> e.round, late |-> head >= e.close]
           /\ inflight' = inflight \ {e}
           /\ UNCHANGED <<head, artifacts, store, pc, win, faults>>

(* It expires, or the pool drops it. *)
Drop(e) == /\ e \in inflight
           /\ inflight' = inflight \ {e}
           /\ UNCHANGED <<head, slot, artifacts, store, pc, win, faults>>

-----------------------------------------------------------------------------
Init == /\ head = 0
        /\ slot = [round |-> NoRound, late |-> FALSE]
        /\ inflight = {}
        /\ local = NoRound
        /\ remote = {}
        /\ store = [view |-> EmptyFiles, durable |-> EmptyFiles]
        /\ pc = "halted"
        /\ win = NoWindow
        /\ faults = 0

Process == \/ Preflight \/ Check \/ PreflightFailed \/ Loop \/ Stop
           \/ Cycle \/ Wait \/ Heartbeat \/ Reverify \/ ReverifyCheck
           \/ Reconcile \/ ReconcileCheck \/ MarkVerified
           \/ Submit \/ Package \/ Prepare \/ Recover \/ Upload \/ Uploading
           \/ Readback \/ Announce \/ Mark \/ Recheck \/ Unmark
           \/ Publish \/ Await \/ Confirm \/ Clear
           \/ Fail \/ Fatal \/ Refuse \/ RefuseStatus

Decide == \E e \in inflight : Land(e) \/ Drop(e)

Next == \/ Process \/ Restart \/ OperatorStart \/ OperatorReview
        \/ Crash \/ PowerLoss \/ Tick \/ Decide

Spec == Init /\ [][Next]_vars

(* A running process takes its next step, Supervisor restarts one that     *)
(* died, blocks are produced, and every extrinsic is included or expires.  *)
FairSpec == /\ Spec
            /\ WF_vars(Process) /\ WF_vars(Restart)
            /\ WF_vars(Tick) /\ WF_vars(Decide)

-----------------------------------------------------------------------------
(* Properties.                                                             *)

Status == [ok : BOOLEAN, round : Indices \cup {NoRound},
           success : Indices \cup {NoRound}, artifact : Indices \cup {NoRound},
           proofs : BOOLEAN, latched : BOOLEAN, window : Windows \cup {NoWindow}]
Health == [ok : BOOLEAN, round : Indices \cup {NoRound},
           success : Indices \cup {NoRound}]
Files == [status : Status, health : Health, latch : BOOLEAN,
          pending : Indices \cup {NoMarker}]
Extrinsics == [round : Indices, close : Int, expires : Int]

(* The type of every variable; a running cycle past its start has a window. *)
TypeOK == /\ head \in Int
          /\ slot \in [round : Indices \cup {NoRound}, late : BOOLEAN]
          /\ inflight \in SUBSET Extrinsics
          /\ local \in Indices \cup {NoRound}
          /\ remote \in SUBSET Indices
          /\ store \in [view : Files, durable : Files]
          /\ pc \in Steps \cup Stopped
          /\ win \in Windows \cup {NoWindow}
          /\ pc \in WindowSteps \cup {"unmark"} => win # NoWindow
          /\ faults \in Int

(* While a broadcast extrinsic is undecided, the pending marker of its     *)
(* round is on disk and would survive a power loss (mark_submission_pending *)
(* before publish, clear_submission_pending only after exact readback).    *)
OutstandingIsMarked ==
  \A e \in inflight : /\ store.view.pending = e.round
                      /\ store.durable.pending = e.round

(* An extrinsic is sent only when none is undecided and the commitment of  *)
(* its round is not on chain already: never blindly again after a crash, a *)
(* power loss, a lost answer or a restart.                                 *)
NeverBlindlyResubmitted ==
  [][\A e \in inflight' \ inflight : inflight = {} /\ slot.round # e.round]_vars

(* Every document an observer may read as green, now or after a power      *)
(* loss, names a round whose exact commitment is on chain and whose        *)
(* release is public, however the writes of status and health were cut.    *)
GreenIsExact ==
  \A files \in {store.view, store.durable} :
    \A doc \in {files.status, files.health} :
      doc.ok => /\ doc.round = slot.round /\ doc.success = slot.round
                /\ slot.round \in remote

Submitted == INSTANCE Submission WITH
               Rounds <- Indices, Nothing <- NoRound,
               undecided <- {e.round : e \in inflight}, committed <- slot.round

(* Seen from the chain the miner is Submission: one commitment at a time,  *)
(* each decided before the next, none that is on chain already.            *)
SubmitsOneAtATime == Submitted!Spec

LatchedDurably == store.durable.latch \/ store.durable.status.latched

(* Once a refusal is durable in either place, nothing but the operator     *)
(* removes it, and nothing more is sent.                                   *)
RefusalIsFinal ==
  [][LatchedDurably /\ ~OperatorReview =>
       LatchedDurably' /\ inflight' \subseteq inflight]_vars

(* The window `new' continues the trust in `old'. *)
Follows(new, old) ==
  old # NoWindow =>
    /\ new # NoWindow
    /\ new.round >= old.round
    /\ new.round = old.round =>
         /\ Identity(new) = Identity(old)
         /\ \/ new.phase = old.phase /\ new.hash = old.hash
            \/ old.phase = "submissions" /\ new.phase = "evaluation"

(* The trusted round that survives a power loss never goes back to an      *)
(* earlier round, and never changes its bounds or configuration or takes   *)
(* back its seed hash inside a round, across every restart.                *)
TrustNeverRegresses ==
  [][Follows(store'.durable.status.window, store.durable.status.window)]_vars

(* An uncertain submission does not stay uncertain: the controller         *)
(* reconciles it, or stops for the operator.                               *)
UncertaintyIsResolved ==
  (pending # NoMarker) ~> (pending = NoMarker \/ pc \in {"halted", "exit3"})

-----------------------------------------------------------------------------
(* The inductive invariant behind the safety properties, part by part.     *)

(* Steps of a cycle that found no pending marker, or removed it. *)
UnmarkedSteps == PrepareSteps \cup {"reverify", "reverify_check", "verified"}
(* Steps at which the pending marker names the round of the cycle. *)
MarkedSteps == BroadcastSteps \cup {"await", "confirm", "clear", "reconcile_check"}
(* Steps at which the release of the cycle's round is public. *)
ReleasedSteps == BroadcastSteps \cup
  {"readback", "announce", "mark", "await", "confirm", "clear", "verified"}
(* Steps of _submit after its first write, with the broadcast. *)
DarkSteps == BroadcastSteps \cup (PrepareSteps \ {"submit"})

(* At most one extrinsic is undecided; its marker is durable and its       *)
(* commitment is not on chain yet.                                         *)
UndecidedInv == /\ OutstandingIsMarked
                /\ \A e, f \in inflight : e = f
                /\ \A e \in inflight : slot.round # e.round

(* What the controller has established when its next step is `step' in w. *)
Established(step, w) ==
  /\ step \in UnmarkedSteps => pending = NoMarker
  /\ step \in MarkedSteps => pending = w.round
  /\ step \in BroadcastSteps => store.durable.pending = w.round
  /\ step \in BroadcastSteps \cup {"unmark"} => inflight = {}
  /\ step \in BroadcastSteps \cup {"announce", "mark"} => slot.round # w.round
  /\ step \in ReleasedSteps => w.round \in remote
  /\ step \in {"clear", "verified"} => slot.round = w.round

SubmissionInv == UndecidedInv /\ Established(pc, win)

WindowInv == pc \in WindowSteps => status.window = win

AllDark == \A files \in {store.view, store.durable} :
             ~files.status.ok /\ ~files.health.ok

GreenInv ==
  /\ GreenIsExact
  /\ pc \in DarkSteps => AllDark
  /\ inflight # {} => AllDark

LatchInv ==
  /\ store.durable.latch => store.view.latch
  /\ store.durable.status.latched => store.view.status.latched
  /\ pc \in Steps \ {"preflight", "refuse", "refuse_status"} => ~Latched(store.view)

TrustInv ==
  /\ Follows(status.window, store.durable.status.window)
  /\ \A files \in {store.view, store.durable} :
       files.status.window # NoWindow => SeedRule(files.status.window)

IInv == TypeOK /\ SubmissionInv /\ WindowInv /\ GreenInv /\ LatchInv /\ TrustInv

-----------------------------------------------------------------------------
(* Statements of the documentation that the code does not keep.            *)

(* README: `health' exits zero only for a fully verified current-round     *)
(* state.  _resolve_round persists a newly opened round and keeps the ok   *)
(* of the round before.                                                    *)
HealthyMeansCurrentRound ==
  store.view.health.ok => store.view.health.round = status.window.round

(* README: publish only while safely before the close block.  The deadline *)
(* is checked before the signing protocol, and the era outlasts the margin. *)
VerifiedBeforeClose == status.ok => ~slot.late

=============================================================================
