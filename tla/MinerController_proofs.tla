----------------------- MODULE MinerController_proofs -----------------------
(***************************************************************************)
(* Proofs of the safety properties of MinerController, for every set of    *)
(* served payloads and every bound.                                        *)
(***************************************************************************)
EXTENDS MinerController, TLAPS

Stores == [view : Files, durable : Files]

-----------------------------------------------------------------------------
(* The state directory.                                                    *)

(* What any StateStore.write of document x does to a store s, however it   *)
(* ends: the markers of the view stay, and every document is an old or the *)
(* new one.                                                                *)
WriteEffect(s, t, x) ==
  /\ t \in Stores
  /\ t.view.pending = s.view.pending
  /\ t.view.latch = s.view.latch
  /\ t.durable.pending \in {s.durable.pending, s.view.pending}
  /\ t.durable.latch \in {s.durable.latch, s.view.latch}
  /\ t.view.status \in {s.view.status, x}
  /\ t.view.health \in {s.view.health, HealthOf(x)}
  /\ t.durable.status \in {s.durable.status, t.view.status}
  /\ t.durable.health \in {s.durable.health, s.view.health, t.view.health}

(* What a write that raises no error does besides. *)
WriteDone(s, t, x) == /\ t.view.status = x
                      /\ t.view.health = HealthOf(x)
                      /\ t.durable = t.view

LEMMA HealthType == ASSUME NEW x \in Status PROVE HealthOf(x) \in Health
  BY DEF Status, Health, HealthOf

LEMMA ReplaceStatus ==
  ASSUME NEW s \in Stores, NEW x \in Status, NEW o
  PROVE  LET t == Replace(s, "status", x, o)
         IN /\ t \in Stores
            /\ o = "before" => t = s
            /\ o # "before" => t.view = [s.view EXCEPT !.status = x]
            /\ t.durable = IF o = "done" THEN t.view ELSE s.durable
  BY DEF Stores, Files, Replace

LEMMA ReplaceHealth ==
  ASSUME NEW s \in Stores, NEW x \in Health, NEW o
  PROVE  LET t == Replace(s, "health", x, o)
         IN /\ t \in Stores
            /\ o = "before" => t = s
            /\ o # "before" => t.view = [s.view EXCEPT !.health = x]
            /\ t.durable = IF o = "done" THEN t.view ELSE s.durable
  BY DEF Stores, Files, Replace

LEMMA WrittenEffect ==
  ASSUME NEW s \in Stores, NEW x \in Status, NEW o \in WriteOutcomes
  PROVE  /\ WriteEffect(s, Written(s, x, o), x)
         /\ o = "done" => WriteDone(s, Written(s, x, o), x)
  <1> DEFINE so == IF o = "before" THEN "before"
                   ELSE IF o = "status_unsynced" THEN "unsynced" ELSE "done"
             ho == IF o = "done" THEN "done"
                   ELSE IF o = "health_unsynced" THEN "unsynced" ELSE "before"
             t == Replace(s, "status", x, so)
             u == Replace(t, "health", HealthOf(x), ho)
  <1>1. Written(s, x, o) = u
    BY DEF Written
  <1>2. HealthOf(x) \in Health
    BY HealthType
  <1>3. /\ t \in Stores
        /\ so = "before" => t = s
        /\ so # "before" => t.view = [s.view EXCEPT !.status = x]
        /\ t.durable = IF so = "done" THEN t.view ELSE s.durable
    BY ReplaceStatus
  <1> HIDE DEF t
  <1>4. /\ u \in Stores
        /\ ho = "before" => u = t
        /\ ho # "before" => u.view = [t.view EXCEPT !.health = HealthOf(x)]
        /\ u.durable = IF ho = "done" THEN u.view ELSE t.durable
    BY <1>2, <1>3, ReplaceHealth
  <1> HIDE DEF u
  <1>5. WriteEffect(s, u, x)
    BY <1>2, <1>3, <1>4 DEF WriteEffect, Stores, Files, WriteOutcomes
  <1>6. o = "done" => WriteDone(s, u, x)
    BY <1>2, <1>3, <1>4 DEF WriteDone, Stores, Files
  <1> QED BY <1>1, <1>5, <1>6

(* A Write step of the process. *)
LEMMA WriteStep ==
  ASSUME store \in Stores, NEW x \in Status, NEW next, NEW onError,
         Write(x, next, onError)
  PROVE  /\ WriteEffect(store, store', x)
         /\ faults' \in {faults, faults + 1}
         /\ \/ pc' = next /\ WriteDone(store, store', x)
            \/ pc' = onError
  <1>1. CASE store' = Written(store, x, "done") /\ pc' = next /\ UNCHANGED faults
    BY <1>1, WrittenEffect DEF WriteOutcomes
  <1>2. CASE /\ Fault
             /\ \E o \in WriteOutcomes \ {"done"} : store' = Written(store, x, o)
             /\ pc' = onError
    BY <1>2, WrittenEffect DEF Fault
  <1> QED BY <1>1, <1>2 DEF Write

(* A Change step of a marker file: nothing else of the view moves. *)
LEMMA PendingStep ==
  ASSUME store \in Stores, NEW x \in Indices \cup {NoMarker}, NEW next, NEW onError,
         Change("pending", x, next, onError)
  PROVE  /\ store' \in Stores
         /\ faults' \in {faults, faults + 1}
         /\ store'.view.status = status /\ store'.view.health = store.view.health
         /\ store'.view.latch = store.view.latch
         /\ store'.view.pending \in {pending, x}
         /\ store'.durable \in {store.durable, store'.view}
         /\ \/ /\ pc' = next
               /\ store'.view.pending = x /\ store'.durable.pending = x
            \/ pc' = onError
  <1>1. ASSUME NEW o \in Outcomes, store' = Replace(store, "pending", x, o)
        PROVE  /\ store' \in Stores
               /\ store'.view.status = status /\ store'.view.health = store.view.health
               /\ store'.view.latch = store.view.latch
               /\ store'.view.pending \in {pending, x}
               /\ store'.durable \in {store.durable, store'.view}
               /\ o = "done" => store'.view.pending = x /\ store'.durable.pending = x
    BY <1>1 DEF Replace, Stores, Files, status, pending, Outcomes
  <1> QED BY <1>1 DEF Change, Fault, Outcomes

LEMMA LatchStep ==
  ASSUME store \in Stores, NEW next, NEW onError,
         Change("latch", TRUE, next, onError)
  PROVE  /\ store' \in Stores
         /\ faults' \in {faults, faults + 1}
         /\ store'.view.status = status /\ store'.view.health = store.view.health
         /\ store'.view.pending = pending
         /\ store'.view.latch \in {store.view.latch, TRUE}
         /\ store'.durable \in {store.durable, store'.view}
         /\ pc' = next \/ pc' = onError
  <1>1. ASSUME NEW o \in Outcomes, store' = Replace(store, "latch", TRUE, o)
        PROVE  /\ store' \in Stores
               /\ store'.view.status = status /\ store'.view.health = store.view.health
               /\ store'.view.pending = pending
               /\ store'.view.latch \in {store.view.latch, TRUE}
               /\ store'.durable \in {store.durable, store'.view}
    BY <1>1 DEF Replace, Stores, Files, status, pending, Outcomes
  <1> QED BY <1>1 DEF Change, Fault, Outcomes

-----------------------------------------------------------------------------
(* The documents the controller writes.                                    *)

LEMMA WindowTypes ==
  ASSUME NEW w \in Windows
  PROVE  /\ w.round \in Indices /\ w.round \in Int /\ w.close \in Int
         /\ w.round # NoRound /\ w.round # NoMarker /\ w # NoWindow
  BY ServedAssumption, DistinctAssumption DEF Windows, Indices, WindowOf

LEMMA PlainDocuments ==
  ASSUME NEW s \in Status
  PROVE  /\ Dark(s) \in Status /\ Withdrawn(s) \in Status /\ Refused(s) \in Status
         /\ ~Dark(s).ok /\ ~Withdrawn(s).ok /\ ~Refused(s).ok
         /\ Dark(s).window = s.window /\ Withdrawn(s).window = s.window
         /\ Refused(s).window = s.window
         /\ Dark(s).latched = s.latched /\ Withdrawn(s).latched = s.latched
         /\ Refused(s).latched
  BY DEF Status, Dark, Withdrawn, Refused

LEMMA RoundDocuments ==
  ASSUME NEW s \in Status, NEW w \in Windows
  PROVE  /\ InRound(s, w) \in Status /\ WithArtifact(s, w) \in Status
         /\ Verified(s, w) \in Status
         /\ ~InRound(s, w).ok /\ ~WithArtifact(s, w).ok
         /\ InRound(s, w).window = w /\ WithArtifact(s, w).window = w
         /\ Verified(s, w).window = w
         /\ InRound(s, w).latched = s.latched /\ WithArtifact(s, w).latched = s.latched
         /\ Verified(s, w).latched = s.latched
         /\ Verified(s, w).round = w.round /\ Verified(s, w).success = w.round
  BY WindowTypes DEF Status, InRound, WithArtifact, Verified

LEMMA WindowDocument ==
  ASSUME NEW s \in Status, NEW w \in Windows
  PROVE  LET x == [s EXCEPT !.window = w]
         IN /\ x \in Status /\ x.ok = s.ok /\ x.round = s.round
            /\ x.success = s.success /\ x.latched = s.latched /\ x.window = w
  BY DEF Status

LEMMA WaitDocument ==
  ASSUME NEW s \in Status, NEW w \in Windows, NEW b \in BOOLEAN
  PROVE  LET x == [InRound(s, w) EXCEPT !.ok = b]
         IN /\ x \in Status /\ x.ok = b /\ x.round = w.round
            /\ x.success = s.success /\ x.latched = s.latched /\ x.window = w
  BY WindowTypes DEF Status, InRound

-----------------------------------------------------------------------------
(* Types.                                                                  *)

Labels == Steps \cup Stopped
(* Steps that need the window of a resolved round. *)
RoundSteps == WindowSteps \cup {"unmark"}

LEMMA TypedStore ==
  ASSUME TypeOK
  PROVE  store \in Stores /\ status \in Status
  BY DEF TypeOK, Stores, Files, status

LEMMA QuietTypes ==
  ASSUME TypeOK, NEW next \in Labels, UNCHANGED <<chain, artifacts>>,
         next \in RoundSteps => win # NoWindow,
         Fails(next) \/ Refuses(next)
  PROVE  TypeOK'
  BY DEF TypeOK, Fails, Refuses, Fault, chain, artifacts, Labels, RoundSteps

LEMMA WriteTypes ==
  ASSUME TypeOK, NEW x \in Status, NEW next \in Labels, NEW onError \in Labels,
         UNCHANGED <<chain, artifacts>>, win' \in Windows \cup {NoWindow},
         next \in RoundSteps \/ onError \in RoundSteps => win' # NoWindow,
         Write(x, next, onError)
  PROVE  TypeOK'
  <1>1. /\ WriteEffect(store, store', x)
        /\ faults' \in {faults, faults + 1}
        /\ pc' \in Labels
    BY TypedStore, WriteStep
  <1>2. pc' \in RoundSteps => win' # NoWindow
    BY TypedStore, WriteStep
  <1> QED BY <1>1, <1>2 DEF TypeOK, WriteEffect, Stores, chain, artifacts, Labels, RoundSteps

LEMMA RefreshTypes ==
  ASSUME TypeOK, NEW next \in Labels, NEW onRefusal \in Labels,
         win # NoWindow, Refresh(next, onRefusal)
  PROVE  TypeOK'
  <1> USE DEF Refresh
  <1>1. CASE Fails(onRefusal)
    BY <1>1, QuietTypes
  <1>2. CASE Refuses(onRefusal)
    BY <1>2, QuietTypes
  <1>3. ASSUME NEW p \in Served, UNCHANGED <<chain, artifacts, win>>,
               Write([status EXCEPT !.window = WindowOf(p)],
                     IF WindowOf(p) = win /\ AcceptsAt(win, head)
                       THEN next ELSE onRefusal,
                     onRefusal)
        PROVE  TypeOK'
    <2>1. [status EXCEPT !.window = WindowOf(p)] \in Status
      BY TypedStore, WindowDocument DEF Windows
    <2>2. win' \in Windows \cup {NoWindow} /\ win' # NoWindow
      BY <1>3 DEF TypeOK
    <2> QED BY <1>3, <2>1, <2>2, WriteTypes
  <1> QED BY <1>1, <1>2, <1>3 DEF chain, artifacts

LEMMA ClearTypes ==
  ASSUME TypeOK, NEW next \in Labels, win # NoWindow, ClearPending(next)
  PROVE  TypeOK'
  <1>0. "refuse" \in Labels
    BY DEF Labels, Steps
  <1>1. CASE Refuses("refuse")
    BY <1>0, <1>1, QuietTypes DEF ClearPending
  <1>2. CASE Change("pending", NoMarker, next, "refuse") /\ UNCHANGED win
    <2>1. /\ store' \in Stores
          /\ faults' \in {faults, faults + 1}
          /\ pc' \in Labels
      BY <1>0, <1>2, TypedStore, PendingStep
    <2> QED BY <1>2, <2>1 DEF TypeOK, Stores, Labels, ClearPending, chain, artifacts
  <1> QED BY <1>1, <1>2 DEF ClearPending

LEMMA DecisionSteps ==
  ASSUME NEW files, NEW w
  PROVE  Decision(files, w) \subseteq
           {"reconcile", "heartbeat", "reverify", "submit", "wait"}
  BY DEF Decision

LEMMA CycleTypes == ASSUME TypeOK, Cycle PROVE TypeOK'
  <1> USE DEF Labels, RoundSteps, WindowSteps, Steps, Stopped, PrepareSteps, BroadcastSteps
  <1>1. CASE Fails("fail") \/ Refuses("refuse") \/ Refuses("fail")
    BY <1>1, QuietTypes DEF Cycle
  <1>2. CASE Write(Withdrawn(status), "loop", "fail") /\ UNCHANGED win
    <2>1. Withdrawn(status) \in Status /\ win' \in Windows \cup {NoWindow}
      BY <1>2, TypedStore, PlainDocuments DEF TypeOK
    <2> QED BY <1>2, <2>1, WriteTypes DEF Cycle
  <1>3. ASSUME NEW p \in Served, win' = WindowOf(p), NEW next,
               next \in {"reconcile", "heartbeat", "reverify", "submit", "wait"},
               Write([status EXCEPT !.window = WindowOf(p)], next, "fail")
        PROVE  TypeOK'
    <2>1. /\ [status EXCEPT !.window = WindowOf(p)] \in Status
          /\ win' \in Windows \cup {NoWindow} /\ win' # NoWindow
      BY <1>3, TypedStore, WindowDocument, WindowTypes DEF Windows
    <2>2. UNCHANGED <<chain, artifacts>>
      BY DEF Cycle
    <2> QED BY <1>3, <2>1, <2>2, WriteTypes
  <1>4. CASE \E p \in Served :
               /\ Acceptable(p)
               /\ win' = WindowOf(p)
               /\ LET s == [status EXCEPT !.window = WindowOf(p)]
                  IN \E next \in Decision([store.view EXCEPT !.status = s],
                                          WindowOf(p)) :
                       Write(s, next, "fail")
    <2>1. PICK p \in Served :
            /\ win' = WindowOf(p)
            /\ LET s == [status EXCEPT !.window = WindowOf(p)]
               IN \E next \in Decision([store.view EXCEPT !.status = s], WindowOf(p)) :
                    Write(s, next, "fail")
      BY <1>4
    <2>2. PICK next \in Decision([store.view EXCEPT
                                    !.status = [status EXCEPT !.window = WindowOf(p)]],
                                  WindowOf(p)) :
            Write([status EXCEPT !.window = WindowOf(p)], next, "fail")
      BY <2>1
    <2> QED BY <1>3, <2>1, <2>2, DecisionSteps
  <1> QED BY <1>1, <1>2, <1>4 DEF Cycle

(* Every step keeps the types. *)
THEOREM TypeStep == TypeOK /\ [Next]_vars => TypeOK'
  <1> SUFFICES ASSUME TypeOK, [Next]_vars PROVE TypeOK'
    OBVIOUS
  <1> USE DEF Labels, RoundSteps, WindowSteps, Steps, Stopped, PrepareSteps, BroadcastSteps
  <1>0. /\ store \in Stores /\ status \in Status
        /\ pc \in RoundSteps => win \in Windows /\ win # NoWindow
        /\ win \in Windows \cup {NoWindow}
    BY TypedStore DEF TypeOK
  <1>d. /\ Dark(status) \in Status /\ Withdrawn(status) \in Status
        /\ Refused(status) \in Status
    BY <1>0, PlainDocuments
  <1>1. CASE Preflight
    BY <1>1, <1>0, <1>d, QuietTypes, WriteTypes DEF Preflight
  <1>2. CASE Check
    BY <1>2, <1>0, <1>d, QuietTypes, WriteTypes DEF Check
  <1>3. CASE PreflightFailed
    BY <1>3, <1>0, <1>d, QuietTypes, WriteTypes DEF PreflightFailed
  <1>4. CASE Loop
    BY <1>4 DEF Loop, TypeOK, chain, artifacts
  <1>5. CASE Stop
    BY <1>5, <1>0, <1>d, QuietTypes, WriteTypes DEF Stop
  <1>6. CASE Cycle
    BY <1>6, CycleTypes
  <1>7. CASE Wait
    BY <1>7, <1>0, <1>d, RoundDocuments, WaitDocument, QuietTypes, WriteTypes DEF Wait
  <1>8. CASE Heartbeat
    BY <1>8, <1>0, <1>d, QuietTypes, WriteTypes DEF Heartbeat
  <1>9. CASE Reverify
    BY <1>9, <1>0, <1>d, RoundDocuments, WaitDocument, QuietTypes, WriteTypes DEF Reverify
  <1>10. CASE ReverifyCheck
    BY <1>10, <1>0, <1>d, QuietTypes, WriteTypes DEF ReverifyCheck
  <1>11. CASE Reconcile
    BY <1>11, <1>0, <1>d, RoundDocuments, WaitDocument, QuietTypes, WriteTypes DEF Reconcile
  <1>12. CASE ReconcileCheck
    BY <1>12, <1>0, <1>d, QuietTypes, WriteTypes DEF ReconcileCheck
  <1>13. CASE MarkVerified
    BY <1>13, <1>0, <1>d, RoundDocuments, WaitDocument, QuietTypes, WriteTypes DEF MarkVerified
  <1>14. CASE Submit
    BY <1>14, <1>0, <1>d, RoundDocuments, WaitDocument, QuietTypes, WriteTypes DEF Submit
  <1>15. CASE Package
    <2>1. win \in Windows /\ win.round \in Indices
      BY <1>15, <1>0, WindowTypes DEF Package
    <2> QED BY <1>15, <2>1 DEF Package, TypeOK, Fault, chain
  <1>16. CASE Prepare
    BY <1>16, <1>0, <1>d, RoundDocuments, WaitDocument, QuietTypes, WriteTypes DEF Prepare
  <1>17. CASE Recover
    BY <1>17, <1>0, <1>d, RoundDocuments, WaitDocument, QuietTypes, WriteTypes DEF Recover
  <1>18. CASE Upload
    BY <1>18, <1>0, RefreshTypes DEF Upload
  <1>19. CASE Uploading
    <2>1. win \in Windows /\ win.round \in Indices
      BY <1>19, <1>0, WindowTypes DEF Uploading
    <2> QED BY <1>19, <2>1 DEF Uploading, TypeOK, Fault, chain
  <1>20. CASE Readback
    BY <1>20, <1>0, <1>d, QuietTypes, WriteTypes DEF Readback
  <1>21. CASE Announce
    BY <1>21, <1>0, RefreshTypes DEF Announce
  <1>22. CASE Mark
    <2>1. win \in Windows /\ win.round \in Indices
      BY <1>22, <1>0, WindowTypes DEF Mark
    <2>2. CASE Fails("fail") \/ Refuses("refuse")
      BY <1>22, <2>2, QuietTypes DEF Mark
    <2>3. CASE Change("pending", win.round, "recheck", "refuse") /\ UNCHANGED win
      <3>1. /\ store' \in Stores /\ faults' \in {faults, faults + 1}
            /\ pc' = "recheck" \/ pc' = "refuse"
        BY <2>1, <2>3, <1>0, PendingStep
      <3> QED BY <1>22, <2>1, <2>3, <3>1, <1>0 DEF Mark, TypeOK, Stores, chain, artifacts
    <2> QED BY <1>22, <2>2, <2>3 DEF Mark
  <1>23. CASE Recheck
    BY <1>23, <1>0, RefreshTypes DEF Recheck
  <1>24. CASE Unmark
    BY <1>24, <1>0, ClearTypes DEF Unmark
  <1>25. CASE Publish
    <2>1. win \in Windows /\ win.round \in Indices /\ win.close \in Int
      BY <1>25, <1>0, WindowTypes DEF Publish
    <2>2. inflight' \in SUBSET Extrinsics
      BY <1>25, <2>1, BoundsAssumption DEF Publish, TypeOK, Extrinsics
    <2> QED BY <1>25, <2>1, <2>2 DEF Publish, Fails, Refuses, Fault, TypeOK, artifacts
  <1>26. CASE Await
    BY <1>26, <1>0, <1>d, QuietTypes, WriteTypes DEF Await
  <1>27. CASE Confirm
    BY <1>27, <1>0, <1>d, RoundDocuments, WaitDocument, QuietTypes, WriteTypes DEF Confirm
  <1>28. CASE Clear
    BY <1>28, <1>0, ClearTypes DEF Clear
  <1>29. CASE Fail
    BY <1>29, <1>0, <1>d, QuietTypes, WriteTypes DEF Fail
  <1>30. CASE Fatal
    BY <1>30, <1>0, <1>d, QuietTypes, WriteTypes DEF Fatal
  <1>31. CASE Refuse
    <2>2. CASE Refuses("refuse_status")
      BY <1>31, <2>2, QuietTypes DEF Refuse
    <2>3. CASE Change("latch", TRUE, "refuse_status", "refuse_status") /\ UNCHANGED win
      <3>1. /\ store' \in Stores /\ faults' \in {faults, faults + 1}
            /\ pc' = "refuse_status"
        BY <2>3, <1>0, LatchStep
      <3> QED BY <1>31, <2>3, <3>1 DEF Refuse, TypeOK, Stores, chain, artifacts
    <2> QED BY <1>31, <2>2, <2>3 DEF Refuse
  <1>32. CASE RefuseStatus
    BY <1>32, <1>0, <1>d, QuietTypes, WriteTypes DEF RefuseStatus
  <1>33. CASE Restart
    BY <1>33 DEF Restart, Start, TypeOK, chain, artifacts
  <1>34. CASE OperatorStart
    BY <1>34 DEF OperatorStart, Start, TypeOK, chain, artifacts
  <1>35. CASE OperatorReview
    <2> USE <1>35
    <2>1. PICK marker \in {NoMarker, pending} :
            LET v == [store.view EXCEPT !.latch = FALSE, !.pending = marker,
                                        !.status.latched = FALSE]
            IN store' = [view |-> v, durable |-> v]
      BY DEF OperatorReview
    <2>2. store' \in Stores
      <3>1. store.view \in Files /\ marker \in Indices \cup {NoMarker}
        BY <2>1, <1>0 DEF Stores, Files, pending
      <3>2. [status EXCEPT !.latched = FALSE] \in Status
        BY <1>0 DEF Status
      <3>3. [store.view EXCEPT !.latch = FALSE, !.pending = marker,
                               !.status.latched = FALSE] \in Files
        BY <3>1, <3>2 DEF Files, status
      <3> QED BY <2>1, <3>3 DEF Stores
    <2> QED BY <2>2 DEF OperatorReview, TypeOK, Stores, chain, artifacts
  <1>36. CASE Crash
    BY <1>36 DEF Crash, Fault, TypeOK, chain, artifacts
  <1>37. CASE PowerLoss
    <2>1. store' \in Stores
      BY <1>37, <1>0 DEF PowerLoss, AfterPowerLoss, Stores, Files
    <2> QED BY <1>37, <2>1 DEF PowerLoss, Fault, TypeOK, Stores, chain, artifacts
  <1>38. CASE Tick
    BY <1>38 DEF Tick, TypeOK, chain, artifacts
  <1>39. CASE Decide
    <2>1. PICK e \in inflight : Land(e) \/ Drop(e)
      BY <1>39 DEF Decide
    <2> DEFINE late == head >= e.close
    <2>2. e.round \in Indices /\ late \in BOOLEAN
      BY DEF TypeOK, Extrinsics
    <2>4. Land(e) => slot' = [round |-> e.round, late |-> late]
      BY DEF Land
    <2> HIDE DEF late
    <2>3. slot' \in [round : Indices \cup {NoRound}, late : BOOLEAN]
      BY <2>1, <2>2, <2>4 DEF Drop, TypeOK
    <2> QED BY <2>1, <2>3 DEF Land, Drop, TypeOK, artifacts
  <1>40. CASE UNCHANGED vars
    BY <1>40 DEF vars, TypeOK
  <1> QED
    BY <1>1, <1>2, <1>3, <1>4, <1>5, <1>6, <1>7, <1>8, <1>9, <1>10, <1>11,
       <1>12, <1>13, <1>14, <1>15, <1>16, <1>17, <1>18, <1>19, <1>20,
       <1>21, <1>22, <1>23, <1>24, <1>25, <1>26, <1>27, <1>28, <1>29,
       <1>30, <1>31, <1>32, <1>33, <1>34, <1>35, <1>36, <1>37, <1>38,
       <1>39, <1>40 DEF Next, Process

LEMMA TypeInit == Init => TypeOK
  <1>1. NoStatus \in Status
    BY DEF NoStatus, Status
  <1>2. EmptyFiles \in Files
    BY <1>1, HealthType DEF EmptyFiles, Files
  <1> QED BY <1>2 DEF Init, TypeOK, Stopped, Steps, WindowSteps, PrepareSteps, BroadcastSteps

(* Every variable keeps its type, and a cycle that has resolved its round  *)
(* has a window (controller.py, state.py).                                 *)
THEOREM TypeCorrect == Spec => []TypeOK
  BY TypeInit, TypeStep, PTL DEF Spec

-----------------------------------------------------------------------------
(* Broadcasts and the pending marker.                                      *)

(* A step that touches neither the chain nor the store. *)
LEMMA QuietSubmission ==
  ASSUME UndecidedInv, NEW next, Established(next, win),
         UNCHANGED <<chain, artifacts>>, Fails(next) \/ Refuses(next)
  PROVE  SubmissionInv'
  BY DEF SubmissionInv, UndecidedInv, OutstandingIsMarked, Established, Fails,
         Refuses, Fault, chain, artifacts, pending

(* A step that leaves the pending marker of the view alone, and of the     *)
(* durable store too or makes it the one of the view.                      *)
KeepsMarker == /\ store'.view.pending = pending
               /\ store'.durable.pending \in {store.durable.pending, pending}

LEMMA KeptUndecided ==
  ASSUME UndecidedInv, KeepsMarker, UNCHANGED chain
  PROVE  UndecidedInv'
  BY DEF UndecidedInv, OutstandingIsMarked, KeepsMarker, chain, pending

LEMMA KeptEstablished ==
  ASSUME KeepsMarker, UNCHANGED <<chain, artifacts>>,
         NEW w, NEW step, Established(step, w), pc' = step, win' = w
  PROVE  Established(pc, win)'
  BY DEF Established, KeepsMarker, chain, artifacts, pending, BroadcastSteps, MarkedSteps,
         ReleasedSteps

LEMMA WriteSubmission ==
  ASSUME TypeOK, UndecidedInv, NEW x \in Status, NEW next, NEW onError, NEW w,
         Established(next, w), Established(onError, w),
         UNCHANGED <<chain, artifacts>>, win' = w, Write(x, next, onError)
  PROVE  SubmissionInv'
  <1>1. KeepsMarker /\ (pc' = next \/ pc' = onError)
    BY TypedStore, WriteStep DEF WriteEffect, KeepsMarker, pending
  <1>2. UndecidedInv'
    BY <1>1, KeptUndecided
  <1>3. Established(pc, win)'
    BY <1>1, KeptEstablished
  <1> QED BY <1>2, <1>3 DEF SubmissionInv

(* Steps at which the controller has established nothing. *)
IdleSteps == Labels \ (UnmarkedSteps \cup MarkedSteps \cup {"unmark"})

LEMMA IdleEstablished == ASSUME NEW step \in IdleSteps, NEW w PROVE Established(step, w)
  BY DEF IdleSteps, Labels, Established, UnmarkedSteps, MarkedSteps, ReleasedSteps,
         BroadcastSteps, PrepareSteps

LEMMA IdleStepsAre ==
  {"preflight", "checking", "preflight_failed", "cycle", "wait", "heartbeat",
   "reconcile", "fail", "fatal", "loop", "stopping", "refuse", "refuse_status",
   "down", "halted", "exit3"} \subseteq IdleSteps
  BY DEF IdleSteps, Labels, Steps, Stopped, UnmarkedSteps, MarkedSteps, BroadcastSteps,
         PrepareSteps

(* No broadcast is undecided while no marker is on disk, nor while the     *)
(* marker names a round that is on chain.                                  *)
LEMMA NothingUndecided ==
  ASSUME TypeOK, UndecidedInv, pending = NoMarker \/ slot.round = pending
  PROVE  inflight = {}
  BY DistinctAssumption DEF TypeOK, Extrinsics, UndecidedInv, OutstandingIsMarked, pending

LEMMA RefreshSubmission ==
  ASSUME TypeOK, UndecidedInv, NEW next, NEW onRefusal, win \in Windows,
         Established(next, win), Established(onRefusal, win), Refresh(next, onRefusal)
  PROVE  SubmissionInv'
  <1> USE DEF Refresh
  <1>1. CASE Fails(onRefusal) \/ Refuses(onRefusal)
    BY <1>1, QuietSubmission
  <1>2. ASSUME NEW p \in Served, UNCHANGED <<chain, artifacts, win>>,
               Write([status EXCEPT !.window = WindowOf(p)],
                     IF WindowOf(p) = win /\ AcceptsAt(win, head)
                       THEN next ELSE onRefusal,
                     onRefusal)
        PROVE  SubmissionInv'
    <2>1. [status EXCEPT !.window = WindowOf(p)] \in Status
      BY TypedStore, WindowDocument DEF Windows
    <2>2. CASE WindowOf(p) = win /\ AcceptsAt(win, head)
      BY <1>2, <2>1, <2>2, WriteSubmission
    <2>3. CASE ~(WindowOf(p) = win /\ AcceptsAt(win, head))
      BY <1>2, <2>1, <2>3, WriteSubmission
    <2> QED BY <2>2, <2>3
  <1> QED BY <1>1, <1>2

LEMMA ClearSubmission ==
  ASSUME TypeOK, UndecidedInv, inflight = {}, NEW next, ClearPending(next),
         next = "fail" \/
           /\ next = "verified"
           /\ win.round \in remote /\ slot.round = win.round
  PROVE  SubmissionInv'
  <1>0. Established("refuse", win) /\ Established("fail", win)
    BY IdleEstablished, IdleStepsAre
  <1>1. CASE Refuses("refuse")
    BY <1>0, <1>1, QuietSubmission DEF ClearPending
  <1>2. CASE Change("pending", NoMarker, next, "refuse") /\ UNCHANGED win
    <2>1. \/ pc' = next /\ store'.view.pending = NoMarker
          \/ pc' = "refuse"
      BY <1>2, TypedStore, PendingStep
    <2>2. inflight' = {} /\ UNCHANGED <<slot, remote, win>>
      BY <1>2 DEF ClearPending, chain, artifacts
    <2>3. UndecidedInv'
      BY <2>2 DEF UndecidedInv, OutstandingIsMarked
    <2>4. CASE pc' = "refuse" \/ pc' = "fail"
      BY <2>3, <2>4, IdleEstablished, IdleStepsAre DEF SubmissionInv, Established,
         UnmarkedSteps, MarkedSteps, BroadcastSteps, PrepareSteps, ReleasedSteps
    <2>5. CASE pc' = "verified" /\ next = "verified"
      BY <2>1, <2>2, <2>3, <2>5 DEF SubmissionInv, Established, pending,
         UnmarkedSteps, MarkedSteps, BroadcastSteps, PrepareSteps, ReleasedSteps
    <2> QED BY <2>1, <2>4, <2>5
  <1> QED BY <1>1, <1>2 DEF ClearPending

(* Where a cycle may go, given what it read of the marker. *)
LEMMA DecisionEstablished ==
  ASSUME NEW s, NEW w, NEW next \in Decision([store.view EXCEPT !.status = s], w),
         store \in Stores
  PROVE  Established(next, w)
  <1>1. [store.view EXCEPT !.status = s].pending = pending
    BY DEF Stores, Files, pending
  <1>2. CASE pending # NoMarker
    BY <1>1, <1>2, IdleEstablished, IdleStepsAre DEF Decision
  <1>3. CASE next \in {"wait", "heartbeat"}
    BY <1>3, IdleEstablished, IdleStepsAre
  <1>4. CASE pending = NoMarker /\ next \in {"reverify", "submit"}
    BY <1>4 DEF Established, UnmarkedSteps, MarkedSteps, BroadcastSteps, PrepareSteps,
                ReleasedSteps
  <1> QED BY <1>1, <1>2, <1>3, <1>4 DEF Decision

LEMMA CycleSubmission == ASSUME TypeOK, UndecidedInv, Cycle PROVE SubmissionInv'
  <1>0. \A w : /\ Established("fail", w) /\ Established("refuse", w)
               /\ Established("loop", w)
    BY IdleEstablished, IdleStepsAre
  <1>00. UNCHANGED <<chain, artifacts>>
    BY DEF Cycle
  <1>1. CASE Fails("fail") \/ Refuses("refuse") \/ Refuses("fail")
    BY <1>0, <1>00, <1>1, QuietSubmission
  <1>2. CASE Write(Withdrawn(status), "loop", "fail") /\ UNCHANGED win
    <2>1. Withdrawn(status) \in Status
      BY TypedStore, PlainDocuments
    <2> QED BY <1>0, <1>00, <1>2, <2>1, WriteSubmission
  <1>3. CASE \E p \in Served :
               /\ Acceptable(p)
               /\ win' = WindowOf(p)
               /\ LET s == [status EXCEPT !.window = WindowOf(p)]
                  IN \E next \in Decision([store.view EXCEPT !.status = s],
                                          WindowOf(p)) :
                       Write(s, next, "fail")
    <2>1. PICK p \in Served :
            /\ win' = WindowOf(p)
            /\ LET s == [status EXCEPT !.window = WindowOf(p)]
               IN \E next \in Decision([store.view EXCEPT !.status = s], WindowOf(p)) :
                    Write(s, next, "fail")
      BY <1>3
    <2> DEFINE s == [status EXCEPT !.window = WindowOf(p)]
    <2>2. PICK next \in Decision([store.view EXCEPT !.status = s], WindowOf(p)) :
            Write(s, next, "fail")
      BY <2>1
    <2>3. s \in Status
      BY TypedStore, WindowDocument DEF Windows
    <2> HIDE DEF s
    <2>4. Established(next, WindowOf(p))
      BY <2>2, TypedStore, DecisionEstablished
    <2> QED BY <1>0, <1>00, <2>1, <2>2, <2>3, <2>4, WriteSubmission
  <1> QED BY <1>1, <1>2, <1>3 DEF Cycle

(* Every step keeps what the submission protocol relies on. *)
LEMMA SubmissionStep == TypeOK /\ SubmissionInv /\ [Next]_vars => SubmissionInv'
  <1> SUFFICES ASSUME TypeOK, SubmissionInv, [Next]_vars PROVE SubmissionInv'
    OBVIOUS
  <1>u. UndecidedInv /\ Established(pc, win)
    BY DEF SubmissionInv
  <1>i. \A w : \A step \in {"preflight", "checking", "preflight_failed", "cycle", "wait",
                            "heartbeat", "reconcile", "fail", "fatal", "loop", "stopping",
                            "refuse", "refuse_status", "down", "halted", "exit3"} :
                 Established(step, w)
    BY IdleEstablished, IdleStepsAre
  <1>t. /\ store \in Stores /\ status \in Status
        /\ win \in Windows \cup {NoWindow}
        /\ pc \in RoundSteps => win \in Windows
    BY TypedStore DEF TypeOK, RoundSteps
  <1>d. /\ Dark(status) \in Status /\ Withdrawn(status) \in Status
        /\ Refused(status) \in Status
    BY <1>t, PlainDocuments
  <1>r. \A w \in Windows : /\ InRound(status, w) \in Status
                           /\ WithArtifact(status, w) \in Status
                           /\ Verified(status, w) \in Status
    BY <1>t, RoundDocuments
  <1>w. \A w \in Windows, b \in BOOLEAN : [InRound(status, w) EXCEPT !.ok = b] \in Status
    BY <1>t, WaitDocument
  <1>1. CASE Preflight
    BY <1>1, <1>u, <1>i, <1>d, QuietSubmission, WriteSubmission DEF Preflight
  <1>2. CASE Check
    BY <1>2, <1>u, <1>i, <1>d, QuietSubmission, WriteSubmission DEF Check
  <1>3. CASE PreflightFailed
    BY <1>3, <1>u, <1>i, <1>d, WriteSubmission DEF PreflightFailed
  <1>4. CASE Loop
    BY <1>4, <1>u, <1>i, KeptUndecided, KeptEstablished
       DEF Loop, KeepsMarker, pending, SubmissionInv
  <1>5. CASE Stop
    BY <1>5, <1>u, <1>i, <1>d, WriteSubmission DEF Stop
  <1>6. CASE Cycle
    BY <1>6, <1>u, CycleSubmission
  <1>7. CASE Wait
    <2> DEFINE valid == Matching(win) /\ ProofsValid(status, win)
    <2>1. valid \in BOOLEAN /\ win \in Windows
      BY <1>7, <1>t DEF Wait, RoundSteps, WindowSteps
    <2>2. Write([InRound(status, win) EXCEPT !.ok = valid], "loop", "fail")
      BY <1>7 DEF Wait
    <2> HIDE DEF valid
    <2>3. [InRound(status, win) EXCEPT !.ok = valid] \in Status
      BY <2>1, <1>w
    <2> QED BY <1>7, <1>u, <1>i, <2>2, <2>3, WriteSubmission DEF Wait
  <1>8. CASE Heartbeat
    BY <1>8, <1>u, <1>i, <1>t, WriteSubmission DEF Heartbeat
  <1> USE DEF RoundSteps, WindowSteps, UnmarkedSteps, MarkedSteps, BroadcastSteps,
              PrepareSteps, ReleasedSteps
  <1>9. CASE Reverify
    <2>1. win \in Windows /\ Established("reverify_check", win)
      BY <1>9, <1>u, <1>t DEF Reverify, Established
    <2> QED BY <1>9, <2>1, <1>u, <1>i, <1>r, QuietSubmission, WriteSubmission DEF Reverify
  <1>10. CASE ReverifyCheck
    <2>1. SourceExact(win) /\ ChainExact(win) => Established("verified", win)
      BY <1>10, <1>u DEF ReverifyCheck, Established, SourceExact, ChainExact
    <2> QED BY <1>10, <2>1, <1>u, <1>i, QuietSubmission DEF ReverifyCheck
  <1>11. CASE Reconcile
    <2>1. pending = win.round => Established("reconcile_check", win)
      BY DEF Established
    <2> QED BY <1>11, <2>1, <1>t, <1>u, <1>i, <1>r, QuietSubmission, WriteSubmission
            DEF Reconcile
  <1>12. CASE ReconcileCheck
    <2>1. ChainExact(win) /\ SourceExact(win) => Established("clear", win)
      BY <1>12, <1>u DEF ReconcileCheck, Established, SourceExact, ChainExact
    <2> QED BY <1>12, <2>1, <1>u, <1>i, QuietSubmission DEF ReconcileCheck
  <1>13. CASE MarkVerified
    BY <1>13, <1>u, <1>i, <1>t, <1>r, WriteSubmission DEF MarkVerified
  <1>14. CASE Submit
    <2>1. win \in Windows /\ Established("recover", win) /\ Established("package", win)
      BY <1>14, <1>u, <1>t DEF Submit, Established
    <2> QED BY <1>14, <2>1, <1>u, <1>i, <1>r, QuietSubmission, WriteSubmission DEF Submit
  <1>15. CASE Package
    BY <1>15, <1>u DEF Package, SubmissionInv, UndecidedInv, OutstandingIsMarked,
       Established, chain, pending
  <1>16. CASE Prepare
    <2>1. win \in Windows /\ Established("upload", win)
      BY <1>16, <1>u, <1>t DEF Prepare, Established
    <2> QED BY <1>16, <2>1, <1>u, <1>i, <1>r, QuietSubmission, WriteSubmission DEF Prepare
  <1>17. CASE Recover
    <2>1. /\ win \in Windows /\ Established("upload", win)
          /\ SourceExact(win) => Established("readback", win)
      BY <1>17, <1>u, <1>t DEF Recover, Established, SourceExact
    <2>2. Established(IF SourceExact(win) THEN "readback" ELSE "upload", win)
      BY <2>1
    <2> QED BY <1>17, <2>1, <2>2, <1>u, <1>i, <1>r, QuietSubmission, WriteSubmission
            DEF Recover
  <1>18. CASE Upload
    <2>1. win \in Windows /\ Established("uploading", win)
      BY <1>18, <1>u, <1>t DEF Upload, Established
    <2> QED BY <1>18, <2>1, <1>u, <1>i, RefreshSubmission DEF Upload
  <1>19. CASE Uploading
    BY <1>19, <1>u DEF Uploading, SubmissionInv, UndecidedInv, OutstandingIsMarked,
       Established, chain, pending
  <1>20. CASE Readback
    <2>1. /\ ChainExact(win) => Established("verified", win)
          /\ ~ChainExact(win) => Established("announce", win)
      BY <1>20, <1>u DEF Readback, Established, ChainExact
    <2> QED BY <1>20, <2>1, <1>u, <1>i, QuietSubmission DEF Readback
  <1>21. CASE Announce
    <2>1. win \in Windows /\ Established("mark", win)
      BY <1>21, <1>u, <1>t DEF Announce, Established
    <2> QED BY <1>21, <2>1, <1>u, <1>i, RefreshSubmission DEF Announce
  <1>22. CASE Mark
    <2>1. /\ win \in Windows /\ win.round \in Indices
          /\ inflight = {} /\ slot.round # win.round /\ win.round \in remote
      BY <1>22, <1>u, <1>t, WindowTypes, NothingUndecided DEF Mark, Established
    <2>2. CASE Fails("fail") \/ Refuses("refuse")
      BY <1>22, <2>2, <1>u, <1>i, QuietSubmission DEF Mark
    <2>3. CASE Change("pending", win.round, "recheck", "refuse") /\ UNCHANGED win
      <3>1. \/ /\ pc' = "recheck"
               /\ store'.view.pending = win.round /\ store'.durable.pending = win.round
            \/ pc' = "refuse"
        BY <2>1, <2>3, <1>t, PendingStep
      <3>2. UNCHANGED <<slot, inflight, remote, win>>
        BY <1>22, <2>3 DEF Mark, chain, artifacts
      <3> QED BY <2>1, <3>1, <3>2 DEF SubmissionInv, UndecidedInv, OutstandingIsMarked,
                                      Established, pending
    <2> QED BY <1>22, <2>2, <2>3 DEF Mark
  <1>23. CASE Recheck
    <2>1. /\ win \in Windows /\ Established("publish", win)
          /\ Established("unmark", win)
      BY <1>23, <1>u, <1>t DEF Recheck, Established
    <2> QED BY <1>23, <2>1, <1>u, RefreshSubmission DEF Recheck
  <1>24. CASE Unmark
    BY <1>24, <1>u, ClearSubmission DEF Unmark, Established
  <1>25. CASE Publish
    <2>1. /\ inflight = {} /\ pending = win.round /\ store.durable.pending = win.round
          /\ slot.round # win.round /\ win.round \in remote
      BY <1>25, <1>u DEF Publish, Established
    <2>2. CASE (Fails("refuse") \/ Fails("unmark")) /\ UNCHANGED inflight
      BY <1>25, <2>1, <2>2 DEF Publish, Fails, artifacts, SubmissionInv, UndecidedInv,
         OutstandingIsMarked, Established, pending
    <2>3. CASE /\ inflight' = inflight \cup {[round |-> win.round, close |-> win.close,
                                              expires |-> head + Era]}
               /\ Refuses("await")
      BY <1>25, <2>1, <2>3 DEF Publish, Refuses, artifacts, SubmissionInv, UndecidedInv,
         OutstandingIsMarked, Established, pending
    <2> QED BY <1>25, <2>2, <2>3 DEF Publish
  <1>26. CASE Await
    <2>1. Established("confirm", win)
      BY <1>26, <1>u DEF Await, Established
    <2> QED BY <1>26, <2>1, <1>u, <1>i, QuietSubmission DEF Await
  <1>27. CASE Confirm
    <2>1. win \in Windows /\ (ChainExact(win) => Established("clear", win))
      BY <1>27, <1>u, <1>t DEF Confirm, Established, ChainExact
    <2>2. Established(IF ChainExact(win) THEN "clear" ELSE "refuse", win)
      BY <2>1, <1>i
    <2> QED BY <1>27, <2>1, <2>2, <1>u, <1>i, <1>r, QuietSubmission, WriteSubmission
            DEF Confirm
  <1>28. CASE Clear
    <2>1. pending = win.round /\ slot.round = win.round /\ win.round \in remote
      BY <1>28, <1>u DEF Clear, Established
    <2> QED BY <1>28, <2>1, <1>u, NothingUndecided, ClearSubmission DEF Clear
  <1>29. CASE Fail
    BY <1>29, <1>u, <1>i, <1>d, WriteSubmission DEF Fail
  <1>30. CASE Fatal
    BY <1>30, <1>u, <1>i, <1>d, WriteSubmission DEF Fatal
  <1>31. CASE Refuse
    <2>2. CASE Refuses("refuse_status")
      BY <1>31, <2>2, <1>u, <1>i, QuietSubmission DEF Refuse
    <2>3. CASE Change("latch", TRUE, "refuse_status", "refuse_status") /\ UNCHANGED win
      <3>1. KeepsMarker /\ pc' = "refuse_status"
        BY <2>3, <1>t, LatchStep DEF KeepsMarker
      <3> QED BY <1>31, <2>3, <3>1, <1>u, <1>i, KeptUndecided, KeptEstablished
              DEF Refuse, SubmissionInv
    <2> QED BY <1>31, <2>2, <2>3 DEF Refuse
  <1>32. CASE RefuseStatus
    BY <1>32, <1>u, <1>i, <1>d, WriteSubmission DEF RefuseStatus
  <1>33. CASE Restart \/ OperatorStart \/ Crash
    BY <1>33, <1>u, <1>i, KeptUndecided, KeptEstablished
       DEF Restart, OperatorStart, Start, Crash, KeepsMarker, pending, SubmissionInv
  <1>35. CASE OperatorReview
    <2>1. /\ inflight' = {} /\ inflight = {} /\ pc' = pc /\ win' = win
          /\ pc \in {"halted", "exit3"}
      BY <1>35 DEF OperatorReview, chain
    <2> QED BY <2>1 DEF SubmissionInv, UndecidedInv, OutstandingIsMarked, Established
  <1>37. CASE PowerLoss
    <2>1. store'.view.pending \in {pending, store.durable.pending}
          /\ store'.durable.pending = store'.view.pending
      BY <1>37 DEF PowerLoss, AfterPowerLoss, pending
    <2>2. UNCHANGED <<slot, inflight>> /\ pc' \in {"halted", "exit3"}
      BY <1>37 DEF PowerLoss, chain
    <2>3. UndecidedInv'
      BY <1>u, <2>1, <2>2 DEF UndecidedInv, OutstandingIsMarked, pending
    <2> QED BY <2>2, <2>3 DEF SubmissionInv, Established
  <1>38. CASE Tick \/ UNCHANGED vars
    BY <1>38, <1>u DEF Tick, vars, artifacts, SubmissionInv, UndecidedInv,
       OutstandingIsMarked, Established, pending
  <1>39. CASE Decide
    <2>1. PICK e \in inflight : Land(e) \/ Drop(e)
      BY <1>39 DEF Decide
    <2>2. inflight = {e} /\ inflight' = {}
      BY <1>u, <2>1 DEF UndecidedInv, Land, Drop
    <2>3. pending = e.round /\ e.round \in Indices /\ slot.round # e.round
      BY <1>u DEF UndecidedInv, OutstandingIsMarked, TypeOK, Extrinsics, pending
    <2>4. pending # NoMarker
      BY <2>3, DistinctAssumption
    <2>5. UNCHANGED <<remote, store, pc, win>>
      BY <2>1 DEF Land, Drop, artifacts
    <2>6. UndecidedInv'
      BY <2>2 DEF UndecidedInv, OutstandingIsMarked
    <2>7. pc \notin BroadcastSteps \cup {"announce", "mark", "clear", "verified", "unmark"}
      BY <1>u, <2>2, <2>3, <2>4 DEF Established
    <2> QED BY <1>u, <2>5, <2>6, <2>7 DEF SubmissionInv, Established, pending
  <1> QED
    BY <1>1, <1>2, <1>3, <1>4, <1>5, <1>6, <1>7, <1>8, <1>9, <1>10, <1>11,
       <1>12, <1>13, <1>14, <1>15, <1>16, <1>17, <1>18, <1>19, <1>20,
       <1>21, <1>22, <1>23, <1>24, <1>25, <1>26, <1>27, <1>28, <1>29,
       <1>30, <1>31, <1>32, <1>33, <1>35, <1>37, <1>38, <1>39
       DEF Next, Process

LEMMA SubmissionInit == Init => SubmissionInv
  BY DEF Init, SubmissionInv, UndecidedInv, OutstandingIsMarked, Established,
         UnmarkedSteps, MarkedSteps, ReleasedSteps, BroadcastSteps, PrepareSteps

LEMMA SubmissionCorrect == Spec => [](TypeOK /\ SubmissionInv)
  <1>1. Init => TypeOK /\ SubmissionInv
    BY TypeInit, SubmissionInit
  <1>2. TypeOK /\ SubmissionInv /\ [Next]_vars => (TypeOK /\ SubmissionInv)'
    BY TypeStep, SubmissionStep
  <1> QED BY <1>1, <1>2, PTL DEF Spec

(* Whatever fails, crashes or loses power, and in whatever order, an       *)
(* undecided broadcast has its pending marker on disk, now and after a     *)
(* power loss (_submit, controller.py:517-598; state.py:146-213).          *)
THEOREM OutstandingMarked == Spec => []OutstandingIsMarked
  <1>1. SubmissionInv => OutstandingIsMarked
    BY DEF SubmissionInv, UndecidedInv
  <1> QED BY <1>1, SubmissionCorrect, PTL

(* Only Publish adds to what was broadcast. *)
LEMMA OnlyPublishSends == [Next]_vars => Publish \/ inflight' \subseteq inflight
  <1> SUFFICES ASSUME [Next]_vars PROVE Publish \/ inflight' \subseteq inflight
    OBVIOUS
  <1>1. CASE Process
    BY <1>1 DEF Process, Preflight, Check, PreflightFailed, Loop, Stop, Cycle, Wait,
       Heartbeat, Reverify, ReverifyCheck, Reconcile, ReconcileCheck, MarkVerified,
       Submit, Package, Prepare, Recover, Upload, Uploading, Readback, Announce, Mark,
       Recheck, Unmark, Await, Confirm, Clear, Fail, Fatal, Refuse, RefuseStatus,
       Refresh, ClearPending, chain
  <1>2. CASE Restart \/ OperatorStart \/ OperatorReview \/ Crash \/ PowerLoss \/ Tick
    BY <1>2 DEF Restart, OperatorStart, Start, OperatorReview, Crash, PowerLoss, Tick, chain
  <1>3. CASE Decide
    BY <1>3 DEF Decide, Land, Drop
  <1>4. CASE UNCHANGED vars
    BY <1>4 DEF vars
  <1> QED BY <1>1, <1>2, <1>3, <1>4 DEF Next

(* A commitment is broadcast only when nothing is undecided and the chain  *)
(* does not hold it already: after a lost answer, a crash, a power loss or *)
(* a restart it is reconciled first (_reconcile_pending, _submit).         *)
THEOREM NotBlindlyResubmitted == Spec => NeverBlindlyResubmitted
  <1> DEFINE Sends == \A e \in inflight' \ inflight :
                        inflight = {} /\ slot.round # e.round
  <1>1. SubmissionInv /\ [Next]_vars => Sends
    <2> SUFFICES ASSUME SubmissionInv, [Next]_vars, Publish PROVE Sends
      BY OnlyPublishSends
    <2>1. inflight = {} /\ slot.round # win.round
      BY DEF SubmissionInv, Established, Publish, BroadcastSteps
    <2>2. inflight' \subseteq inflight \cup {[round |-> win.round, close |-> win.close,
                                              expires |-> head + Era]}
      BY DEF Publish
    <2> QED BY <2>1, <2>2
  <1>2. SubmissionInv /\ [Next]_vars => [Sends]_vars
    BY <1>1
  <1> QED BY <1>2, SubmissionCorrect, PTL DEF Spec, NeverBlindlyResubmitted

(* The chain and the pool change by Publish and by Decide alone.           *)
LEMMA ChainChanges ==
  [Next]_vars => Publish \/ Decide \/ (inflight' = inflight /\ slot' = slot)
  <1> SUFFICES ASSUME [Next]_vars
               PROVE  Publish \/ Decide \/ (inflight' = inflight /\ slot' = slot)
    OBVIOUS
  <1>1. CASE Process
    BY <1>1 DEF Process, Preflight, Check, PreflightFailed, Loop, Stop, Cycle, Wait,
       Heartbeat, Reverify, ReverifyCheck, Reconcile, ReconcileCheck, MarkVerified,
       Submit, Package, Prepare, Recover, Upload, Uploading, Readback, Announce, Mark,
       Recheck, Unmark, Await, Confirm, Clear, Fail, Fatal, Refuse, RefuseStatus,
       Refresh, ClearPending, chain
  <1>2. CASE Restart \/ OperatorStart \/ OperatorReview \/ Crash \/ PowerLoss \/ Tick
    BY <1>2 DEF Restart, OperatorStart, Start, OperatorReview, Crash, PowerLoss, Tick, chain
  <1>3. CASE UNCHANGED vars
    BY <1>3 DEF vars
  <1> QED BY <1>1, <1>2, <1>3 DEF Next

(* Publish is a Send of the abstract submission, or a stutter.             *)
LEMMA PublishSends ==
  ASSUME TypeOK, SubmissionInv, Publish
  PROVE  [Submitted!Next]_<<{e.round : e \in inflight}, slot.round>>
  <1>1. inflight = {} /\ slot.round # win.round /\ slot' = slot
    BY DEF SubmissionInv, Established, Publish, BroadcastSteps
  <1>2. PICK r \in Indices : r = win.round
    BY WindowTypes DEF Publish, TypeOK, WindowSteps, BroadcastSteps
  <1>3. CASE inflight' = inflight
    BY <1>1, <1>3
  <1>4. ASSUME NEW e, e.round = r, inflight' = {e}
        PROVE  Submitted!Next
    <2>1. {x.round : x \in inflight'} = {r}
      BY <1>4
    <2>2. {x.round : x \in inflight} = {}
      BY <1>1
    <2>3. Submitted!Send(r)
      BY <1>1, <1>2, <2>1, <2>2 DEF Submitted!Send
    <2>4. \E i \in Indices : Submitted!Send(i) \/ Submitted!Land(i)
      BY <2>3
    <2> QED BY <2>4 DEF Submitted!Next
  <1>5. inflight' = inflight \/ \E e : e.round = r /\ inflight' = {e}
    <2> DEFINE e == [round |-> win.round, close |-> win.close, expires |-> head + Era]
    <2>1. e.round = r
      BY <1>2
    <2>2. inflight' = inflight \/ inflight' = {e}
      BY <1>1 DEF Publish
    <2> HIDE DEF e
    <2> QED BY <2>1, <2>2
  <1> QED BY <1>3, <1>4, <1>5

(* A decision of the chain is a Land or a Drop.                            *)
LEMMA DecideLands ==
  ASSUME TypeOK, SubmissionInv, Decide
  PROVE  [Submitted!Next]_<<{e.round : e \in inflight}, slot.round>>
  <1>1. PICK e \in inflight : Land(e) \/ Drop(e)
    BY DEF Decide
  <1>2. inflight = {e} /\ inflight' = {}
    BY <1>1 DEF SubmissionInv, UndecidedInv, Land, Drop
  <1>3. {x.round : x \in inflight} = {e.round} /\ {x.round : x \in inflight'} = {}
    BY <1>2
  <1>4. e.round \in Indices
    BY <1>1 DEF TypeOK, Extrinsics
  <1>5. CASE Land(e)
    <2>1. slot'.round = e.round
      BY <1>5 DEF Land
    <2>2. Submitted!Land(e.round)
      BY <1>3, <2>1 DEF Submitted!Land
    <2>3. \E r \in Indices : Submitted!Send(r) \/ Submitted!Land(r)
      BY <1>4, <2>2
    <2>4. Submitted!Next
      BY <2>3 DEF Submitted!Next
    <2> QED BY <2>4
  <1>6. CASE Drop(e)
    <2>1. slot' = slot
      BY <1>6 DEF Drop
    <2>2. Submitted!Drop
      BY <1>3, <2>1 DEF Submitted!Drop
    <2> QED BY <2>2 DEF Submitted!Next
  <1> QED BY <1>1, <1>5, <1>6

(* The miner implements Submission: at most one commitment is undecided,   *)
(* each is decided before the next, and none repeats the one on chain, for *)
(* every history of crashes, lost answers and restarts (_submit,           *)
(* _reconcile_pending).                                                    *)
THEOREM ImplementsSubmission == Spec => SubmitsOneAtATime
  <1>1. Init => Submitted!Init
    BY DEF Init, Submitted!Init
  <1>2. TypeOK /\ SubmissionInv /\ [Next]_vars
          => [Submitted!Next]_<<{e.round : e \in inflight}, slot.round>>
    BY ChainChanges, PublishSends, DecideLands
  <1> QED BY <1>1, <1>2, SubmissionCorrect, PTL DEF Spec, SubmitsOneAtATime, Submitted!Spec

-----------------------------------------------------------------------------
(* The window that is trusted.                                             *)

LEMMA FollowsItself == ASSUME NEW w \in Windows \cup {NoWindow} PROVE Follows(w, w)
  BY WindowTypes DEF Follows

LEMMA FollowsTransitive ==
  ASSUME NEW a \in Windows \cup {NoWindow}, NEW b \in Windows \cup {NoWindow},
         NEW c \in Windows \cup {NoWindow}, Follows(c, b), Follows(b, a)
  PROVE  Follows(c, a)
  <1> SUFFICES ASSUME a # NoWindow PROVE Follows(c, a)
    BY DEF Follows
  <1>1. a \in Windows /\ b \in Windows /\ c \in Windows
    BY DEF Follows
  <1>2. c.round >= a.round /\ c # NoWindow
    BY <1>1, WindowTypes DEF Follows
  <1>3. c.round = a.round => b.round = a.round /\ c.round = b.round
    BY <1>1, WindowTypes DEF Follows
  <1> QED BY <1>1, <1>2, <1>3 DEF Follows

(* What validate_served_round accepts continues the trust.                 *)
LEMMA AcceptedFollows ==
  ASSUME NEW p \in Served, NEW last \in Windows \cup {NoWindow}, SeedRule(p),
         last # NoWindow => SeedRule(last), Continues(p, last)
  PROVE  Follows(WindowOf(p), last) /\ SeedRule(WindowOf(p))
  <1>1. WindowOf(p) \in Windows /\ WindowOf(p) # NoWindow
    BY WindowTypes DEF Windows
  <1>2. /\ WindowOf(p).round = p.round /\ WindowOf(p).phase = p.phase
        /\ WindowOf(p).hash = p.hash /\ Identity(WindowOf(p)) = Identity(p)
    BY DEF WindowOf, Identity
  <1>3. SeedRule(WindowOf(p))
    BY <1>2 DEF SeedRule
  <1>4. ASSUME last # NoWindow, p.round = last.round
        PROVE  \/ p.phase = last.phase /\ p.hash = last.hash
               \/ last.phase = "submissions" /\ p.phase = "evaluation"
    BY <1>4 DEF SeedRule, Continues, Phases
  <1> QED BY <1>1, <1>2, <1>3, <1>4 DEF Follows, Continues

-----------------------------------------------------------------------------
(* What a step of the process does to the state directory.                 *)

(* A document the process may write: it continues the trust and a recorded *)
(* refusal, and is green only for what was green or has been verified now. *)
Legit(x) ==
  /\ x \in Status
  /\ Follows(x.window, status.window)
  /\ x.window # NoWindow => SeedRule(x.window)
  /\ status.latched => x.latched
  /\ x.latched => status.latched \/ pc = "refuse_status"
  /\ x.ok => \/ status.ok /\ x.round = status.round /\ x.success = status.success
             \/ pc = "verified" /\ x.round = win.round /\ x.success = win.round

(* The store after a step that writes x, or nothing. *)
Moves(x) ==
  /\ store'.view.status \in {status, x}
  /\ store'.view.health \in {store.view.health, HealthOf(x)}
  /\ store'.durable.status \in {store.durable.status, store'.view.status}
  /\ store'.durable.health \in {store.durable.health, store.view.health,
                                store'.view.health}
  /\ store.view.latch => store'.view.latch
  /\ store'.view.latch => store.view.latch \/ pc = "refuse"
  /\ store'.durable.latch \in {store.durable.latch, store'.view.latch,
                               store.view.latch}

DocStep == /\ \E x : Legit(x) /\ Moves(x)
           /\ WindowInv'
           /\ pc' \in DarkSteps => pc \in DarkSteps \/ AllDark'

LEMMA StatusLegit == ASSUME TypeOK, TrustInv PROVE Legit(status)
  <1>1. status \in Status /\ status.window \in Windows \cup {NoWindow}
    BY TypedStore DEF Status
  <1>2. Follows(status.window, status.window)
    BY <1>1, FollowsItself
  <1> QED BY <1>1, <1>2 DEF Legit, TrustInv, status

(* The plain documents, and those of a round already trusted.              *)
LEMMA DarkLegit ==
  ASSUME TypeOK, TrustInv, NEW x \in Status, ~x.ok, x.window = status.window,
         x.latched = status.latched \/ (pc = "refuse_status" /\ x.latched)
  PROVE  Legit(x)
  BY StatusLegit DEF Legit

(* A window that was accepted. *)
LEMMA WindowLegit ==
  ASSUME TypeOK, TrustInv, NEW p \in Served, Acceptable(p)
  PROVE  Legit([status EXCEPT !.window = WindowOf(p)])
  <1>1. status \in Status /\ status.window \in Windows \cup {NoWindow}
    BY TypedStore DEF Status
  <1>2. /\ Follows(WindowOf(p), status.window) /\ SeedRule(WindowOf(p))
        /\ WindowOf(p) \in Windows
    BY <1>1, AcceptedFollows DEF Acceptable, ValidServedRound, TrustInv, status, Windows
  <1> QED BY <1>1, <1>2, WindowDocument DEF Legit

LEMMA DocQuiet ==
  ASSUME TypeOK, TrustInv, UNCHANGED store,
         pc' \in WindowSteps => status.window = win',
         pc' \in DarkSteps => pc \in DarkSteps
  PROVE  DocStep
  <1>1. Moves(status)
    BY DEF Moves, status
  <1> QED BY <1>1, StatusLegit DEF DocStep, WindowInv, status

LEMMA DocWrite ==
  ASSUME TypeOK, NEW x, Legit(x), NEW next, NEW onError, Write(x, next, onError),
         next \in WindowSteps => x.window = win',
         next \in DarkSteps => pc \in DarkSteps \/ ~x.ok,
         onError \notin WindowSteps \cup DarkSteps
  PROVE  DocStep
  <1>1. /\ WriteEffect(store, store', x)
        /\ \/ pc' = next /\ WriteDone(store, store', x)
           \/ pc' = onError
    BY TypedStore, WriteStep DEF Legit
  <1>2. Moves(x)
    BY <1>1 DEF Moves, WriteEffect, status
  <1>3. WindowInv'
    BY <1>1 DEF WindowInv, WriteDone, status
  <1>4. pc' \in DarkSteps => pc \in DarkSteps \/ AllDark'
    BY <1>1 DEF AllDark, WriteDone, HealthOf
  <1> QED BY <1>2, <1>3, <1>4 DEF DocStep

LEMMA DocPending ==
  ASSUME TypeOK, TrustInv, NEW x \in Indices \cup {NoMarker}, NEW next, NEW onError,
         Change("pending", x, next, onError),
         next \in WindowSteps => status.window = win',
         next \in DarkSteps => pc \in DarkSteps,
         onError \notin WindowSteps \cup DarkSteps
  PROVE  DocStep
  <1>1. /\ store'.view.status = status /\ store'.view.health = store.view.health
        /\ store'.view.latch = store.view.latch
        /\ store'.durable \in {store.durable, store'.view}
        /\ pc' \in {next, onError}
    BY TypedStore, PendingStep
  <1>2. Moves(status)
    BY <1>1 DEF Moves
  <1>3. WindowInv'
    BY <1>1 DEF WindowInv, status
  <1> QED BY <1>1, <1>2, <1>3, StatusLegit DEF DocStep

LEMMA DocRefresh ==
  ASSUME TypeOK, TrustInv, NEW next, NEW onRefusal, Refresh(next, onRefusal),
         next \in DarkSteps => pc \in DarkSteps,
         onRefusal \notin WindowSteps \cup DarkSteps
  PROVE  DocStep
  <1> USE DEF Refresh
  <1>1. CASE Fails(onRefusal) \/ Refuses(onRefusal)
    BY <1>1, DocQuiet DEF Fails, Refuses
  <1>2. ASSUME NEW p \in Served, UNCHANGED win, Acceptable(p),
               Write([status EXCEPT !.window = WindowOf(p)],
                     IF WindowOf(p) = win /\ AcceptsAt(win, head)
                       THEN next ELSE onRefusal,
                     onRefusal)
        PROVE  DocStep
    <2>1. Legit([status EXCEPT !.window = WindowOf(p)])
      BY <1>2, WindowLegit
    <2>2. [status EXCEPT !.window = WindowOf(p)].window = WindowOf(p)
      BY TypedStore, WindowDocument DEF Windows
    <2>3. CASE WindowOf(p) = win /\ AcceptsAt(win, head)
      BY <1>2, <2>1, <2>2, <2>3, DocWrite
    <2>4. CASE ~(WindowOf(p) = win /\ AcceptsAt(win, head))
      BY <1>2, <2>1, <2>2, <2>4, DocWrite
    <2> QED BY <2>3, <2>4
  <1> QED BY <1>1, <1>2

LEMMA DocCycle == ASSUME TypeOK, TrustInv, Cycle PROVE DocStep
  <1> USE DEF WindowSteps, DarkSteps, BroadcastSteps, PrepareSteps
  <1>1. CASE Fails("fail") \/ Refuses("refuse") \/ Refuses("fail")
    BY <1>1, DocQuiet DEF Fails, Refuses
  <1>2. CASE Write(Withdrawn(status), "loop", "fail")
    <2>1. Legit(Withdrawn(status))
      BY TypedStore, PlainDocuments, DarkLegit
    <2> QED BY <1>2, <2>1, DocWrite
  <1>3. CASE \E p \in Served :
               /\ Acceptable(p)
               /\ win' = WindowOf(p)
               /\ LET s == [status EXCEPT !.window = WindowOf(p)]
                  IN \E next \in Decision([store.view EXCEPT !.status = s],
                                          WindowOf(p)) :
                       Write(s, next, "fail")
    <2>1. PICK p \in Served :
            /\ Acceptable(p)
            /\ win' = WindowOf(p)
            /\ LET s == [status EXCEPT !.window = WindowOf(p)]
               IN \E next \in Decision([store.view EXCEPT !.status = s], WindowOf(p)) :
                    Write(s, next, "fail")
      BY <1>3
    <2> DEFINE s == [status EXCEPT !.window = WindowOf(p)]
    <2>2. PICK next \in Decision([store.view EXCEPT !.status = s], WindowOf(p)) :
            Write(s, next, "fail")
      BY <2>1
    <2>3. Legit(s) /\ s.window = WindowOf(p)
      BY <2>1, TypedStore, WindowLegit, WindowDocument DEF Windows
    <2> HIDE DEF s
    <2>4. next \notin DarkSteps
      BY <2>2, DecisionSteps
    <2> QED BY <2>1, <2>2, <2>3, <2>4, DocWrite
  <1> QED BY <1>1, <1>2, <1>3 DEF Cycle

(* Every step but a power loss and the operator's review. *)
LEMMA DocNext ==
  TypeOK /\ WindowInv /\ TrustInv /\ [Next]_vars => DocStep \/ PowerLoss \/ OperatorReview
  <1> SUFFICES ASSUME TypeOK, WindowInv, TrustInv, [Next]_vars,
                      ~PowerLoss, ~OperatorReview
               PROVE  DocStep
    OBVIOUS
  <1> USE DEF RoundSteps, WindowSteps, DarkSteps, BroadcastSteps, PrepareSteps
  <1>t. /\ status \in Status
        /\ pc \in RoundSteps => win \in Windows
        /\ pc \in WindowSteps => status.window = win
    BY TypedStore DEF TypeOK, WindowInv
  <1>d. /\ Legit(status) /\ Legit(Dark(status)) /\ Legit(Withdrawn(status))
        /\ pc = "refuse_status" => Legit(Refused(status))
    BY <1>t, StatusLegit, DarkLegit, PlainDocuments
  <1>r. pc \in WindowSteps =>
          /\ Legit(InRound(status, win)) /\ Legit(WithArtifact(status, win))
          /\ InRound(status, win).window = win /\ WithArtifact(status, win).window = win
          /\ ~InRound(status, win).ok /\ ~WithArtifact(status, win).ok
    BY <1>t, DarkLegit, RoundDocuments
  <1>1. CASE Preflight
    BY <1>1, <1>d, DocQuiet, DocWrite DEF Preflight, Refuses
  <1>2. CASE Check
    BY <1>2, <1>d, DocQuiet, DocWrite DEF Check, Fails
  <1>3. CASE PreflightFailed
    BY <1>3, <1>d, DocWrite DEF PreflightFailed
  <1>4. CASE Loop
    BY <1>4, DocQuiet DEF Loop
  <1>5. CASE Stop
    BY <1>5, <1>d, DocWrite DEF Stop
  <1>6. CASE Cycle
    BY <1>6, DocCycle
  <1>7. CASE Wait
    <2> DEFINE valid == Matching(win) /\ ProofsValid(status, win)
               x == [InRound(status, win) EXCEPT !.ok = valid]
    <2>1. /\ valid \in BOOLEAN /\ win \in Windows
          /\ valid => status.ok /\ status.round = win.round
      BY <1>7, <1>t DEF Wait, ProofsValid
    <2>2. Write(x, "loop", "fail")
      BY <1>7 DEF Wait
    <2> HIDE DEF valid
    <2>3. /\ x \in Status /\ x.ok = valid /\ x.round = win.round
          /\ x.success = status.success /\ x.latched = status.latched /\ x.window = win
      BY <1>t, <2>1, WaitDocument
    <2> HIDE DEF x
    <2>4. Legit(x)
      BY <1>7, <1>t, <1>d, <2>1, <2>3 DEF Legit, Wait
    <2> QED BY <2>2, <2>4, DocWrite
  <1>8. CASE Heartbeat
    BY <1>8, <1>d, DocWrite DEF Heartbeat
  <1>9. CASE Reverify
    BY <1>9, <1>t, <1>r, DocQuiet, DocWrite DEF Reverify, Fails
  <1>10. CASE ReverifyCheck
    BY <1>10, <1>t, DocQuiet DEF ReverifyCheck, Fails, Refuses
  <1>11. CASE Reconcile
    BY <1>11, <1>t, <1>r, DocQuiet, DocWrite DEF Reconcile, Fails, Refuses
  <1>12. CASE ReconcileCheck
    BY <1>12, <1>t, DocQuiet DEF ReconcileCheck, Fails, Refuses
  <1>13. CASE MarkVerified
    <2> DEFINE x == Verified(status, win)
    <2>2. /\ x \in Status /\ x.window = status.window /\ x.latched = status.latched
          /\ x.round = win.round /\ x.success = win.round
      BY <1>13, <1>t, RoundDocuments DEF MarkVerified
    <2> HIDE DEF x
    <2>1. Legit(x)
      BY <1>13, <1>d, <2>2 DEF MarkVerified, Legit
    <2> QED BY <1>13, <2>1, DocWrite DEF MarkVerified, x
  <1>14. CASE Submit
    BY <1>14, <1>t, <1>r, DocQuiet, DocWrite DEF Submit, Fails
  <1>15. CASE Package \/ Uploading
    BY <1>15, <1>t, DocQuiet DEF Package, Uploading
  <1>16. CASE Prepare
    BY <1>16, <1>t, <1>r, DocQuiet, DocWrite DEF Prepare, Fails
  <1>17. CASE Recover
    <2>1. (IF SourceExact(win) THEN "readback" ELSE "upload") \in WindowSteps \cap DarkSteps
      OBVIOUS
    <2> QED BY <1>17, <2>1, <1>t, <1>r, DocQuiet, DocWrite DEF Recover, Fails
  <1>18. CASE Upload
    BY <1>18, DocRefresh DEF Upload
  <1>20. CASE Readback
    BY <1>20, <1>t, DocQuiet DEF Readback, Fails, Refuses
  <1>21. CASE Announce
    BY <1>21, DocRefresh DEF Announce
  <1>22. CASE Mark
    <2>1. win \in Windows /\ win.round \in Indices /\ status.window = win
      BY <1>22, <1>t, WindowTypes DEF Mark
    <2> QED BY <1>22, <2>1, DocQuiet, DocPending DEF Mark, Fails, Refuses
  <1>23. CASE Recheck
    BY <1>23, DocRefresh DEF Recheck
  <1>24. CASE Unmark
    BY <1>24, DocQuiet, DocPending DEF Unmark, ClearPending, Refuses
  <1>25. CASE Publish
    BY <1>25, <1>t, DocQuiet DEF Publish, Fails, Refuses
  <1>26. CASE Await
    BY <1>26, <1>t, DocQuiet DEF Await, Fails, Refuses
  <1>27. CASE Confirm
    <2>1. (IF ChainExact(win) THEN "clear" ELSE "refuse") \notin DarkSteps
      OBVIOUS
    <2> QED BY <1>27, <2>1, <1>t, <1>r, DocQuiet, DocWrite DEF Confirm, Fails
  <1>28. CASE Clear
    BY <1>28, <1>t, DocQuiet, DocPending DEF Clear, ClearPending, Refuses
  <1>29. CASE Fail
    BY <1>29, <1>d, DocWrite DEF Fail
  <1>30. CASE Fatal
    BY <1>30, <1>d, DocWrite DEF Fatal
  <1>31. CASE Refuse
    <2>2. CASE Refuses("refuse_status")
      BY <2>2, DocQuiet DEF Refuses
    <2>3. CASE Change("latch", TRUE, "refuse_status", "refuse_status")
      <3>1. /\ store'.view.status = status /\ store'.view.health = store.view.health
            /\ store'.view.latch \in {store.view.latch, TRUE}
            /\ store'.durable \in {store.durable, store'.view}
            /\ pc' = "refuse_status"
        BY <2>3, TypedStore, LatchStep
      <3>2. Moves(status)
        BY <1>31, <3>1 DEF Moves, Refuse
      <3> QED BY <1>d, <3>1, <3>2 DEF DocStep, WindowInv
    <2> QED BY <1>31, <2>2, <2>3 DEF Refuse
  <1>32. CASE RefuseStatus
    BY <1>32, <1>d, DocWrite DEF RefuseStatus
  <1>33. CASE Restart \/ OperatorStart \/ Crash
    BY <1>33, DocQuiet DEF Restart, OperatorStart, Start, Crash
  <1>38. CASE Tick \/ UNCHANGED vars
    BY <1>38, <1>t, DocQuiet DEF Tick, vars
  <1>39. CASE Decide
    <2>1. UNCHANGED <<store, pc, win>>
      BY <1>39 DEF Decide, Land, Drop
    <2> QED BY <2>1, <1>t, DocQuiet
  <1> QED
    BY <1>1, <1>2, <1>3, <1>4, <1>5, <1>6, <1>7, <1>8, <1>9, <1>10, <1>11,
       <1>12, <1>13, <1>14, <1>15, <1>16, <1>17, <1>18, <1>20,
       <1>21, <1>22, <1>23, <1>24, <1>25, <1>26, <1>27, <1>28, <1>29,
       <1>30, <1>31, <1>32, <1>33, <1>38, <1>39
       DEF Next, Process

-----------------------------------------------------------------------------
(* The trusted window never regresses.                                     *)

DurableFollows == Follows(store'.durable.status.window, store.durable.status.window)

LEMMA StoreWindows ==
  ASSUME TypeOK
  PROVE  /\ store.view.status.window \in Windows \cup {NoWindow}
         /\ store.durable.status.window \in Windows \cup {NoWindow}
  BY DEF TypeOK, Files, Status

LEMMA TrustDoc ==
  ASSUME TypeOK, TypeOK', TrustInv, DocStep PROVE TrustInv' /\ DurableFollows
  <1> DEFINE View == status.window
             Durable == store.durable.status.window
             View1 == store'.view.status.window
             Durable1 == store'.durable.status.window
  <1>1. PICK x : Legit(x) /\ Moves(x)
    BY DEF DocStep
  <1>2. /\ View \in Windows \cup {NoWindow} /\ Durable \in Windows \cup {NoWindow}
        /\ View1 \in Windows \cup {NoWindow} /\ Durable1 \in Windows \cup {NoWindow}
    BY StoreWindows DEF TypeOK, Files, Status, status
  <1>3. Follows(View1, View) /\ (View1 # NoWindow => SeedRule(View1))
    BY <1>1, StatusLegit DEF Legit, Moves
  <1>4. Durable1 \in {Durable, View1}
    BY <1>1 DEF Moves
  <1>5. Follows(View, Durable) /\ (Durable # NoWindow => SeedRule(Durable))
    BY DEF TrustInv
  <1>s. status' = store'.view.status
    BY DEF status
  <1> HIDE DEF View, Durable, View1, Durable1
  <1>6. Follows(View1, Durable)
    BY <1>2, <1>3, <1>5, FollowsTransitive
  <1>7. Follows(View1, Durable1) /\ Follows(Durable1, Durable)
    BY <1>2, <1>4, <1>6, FollowsItself
  <1>8. Durable1 # NoWindow => SeedRule(Durable1)
    BY <1>3, <1>4, <1>5
  <1> QED BY <1>3, <1>7, <1>8, <1>s DEF TrustInv, DurableFollows, View1, Durable1, Durable

(* The operator's review keeps every document but the refusal. *)
LEMMA ReviewDocuments ==
  ASSUME TypeOK, OperatorReview
  PROVE  /\ store'.durable = store'.view
         /\ store'.view.health = store.view.health
         /\ store'.view.status.window = status.window
         /\ store'.view.status.ok = status.ok
         /\ store'.view.status.round = status.round
         /\ store'.view.status.success = status.success
         /\ ~Latched(store'.view)
  <1>1. PICK marker \in {NoMarker, pending} :
          LET v == [store.view EXCEPT !.latch = FALSE, !.pending = marker,
                                      !.status.latched = FALSE]
          IN store' = [view |-> v, durable |-> v]
    BY DEF OperatorReview
  <1> DEFINE v == [store.view EXCEPT !.latch = FALSE, !.pending = marker,
                                     !.status.latched = FALSE]
  <1>2. /\ v.status = [status EXCEPT !.latched = FALSE]
        /\ v.health = store.view.health /\ ~v.latch
    BY TypedStore DEF Stores, Files, status
  <1>3. store'.view = v /\ store'.durable = v
    BY <1>1
  <1> HIDE DEF v
  <1>4. LET s == [status EXCEPT !.latched = FALSE]
        IN /\ s.window = status.window /\ s.ok = status.ok /\ s.round = status.round
           /\ s.success = status.success /\ ~s.latched
    BY TypedStore DEF Status
  <1> QED BY <1>2, <1>3, <1>4 DEF Latched

LEMMA TrustStep ==
  TypeOK /\ WindowInv /\ TrustInv /\ [Next]_vars => (WindowInv /\ TrustInv)' /\ DurableFollows
  <1> SUFFICES ASSUME TypeOK, WindowInv, TrustInv, [Next]_vars
               PROVE  (WindowInv /\ TrustInv)' /\ DurableFollows
    OBVIOUS
  <1>0. TypeOK'
    BY TypeStep
  <1>1. CASE DocStep
    BY <1>0, <1>1, TrustDoc DEF DocStep
  <1>2. CASE PowerLoss
    <2>1. /\ store'.view.status \in {status, store.durable.status}
          /\ store'.durable.status = store'.view.status
          /\ status' = store'.view.status
      BY <1>2 DEF PowerLoss, AfterPowerLoss, status
    <2>2. pc' \notin WindowSteps
      BY <1>2 DEF PowerLoss, WindowSteps, PrepareSteps, BroadcastSteps
    <2>3. TrustInv'
      BY <1>0, <2>1, StoreWindows, FollowsItself DEF TrustInv, status
    <2>4. DurableFollows
      BY <2>1, StoreWindows, FollowsItself DEF TrustInv, DurableFollows
    <2> QED BY <2>2, <2>3, <2>4 DEF WindowInv
  <1>3. CASE OperatorReview
    <2>1. /\ store'.view.status.window = status.window
          /\ store'.durable.status.window = status.window
      BY <1>3, ReviewDocuments
    <2>2. pc' \notin WindowSteps
      BY <1>3 DEF OperatorReview, WindowSteps, PrepareSteps, BroadcastSteps
    <2>3. TrustInv'
      BY <2>1, StoreWindows, FollowsItself DEF TrustInv, status
    <2>4. DurableFollows
      BY <2>1 DEF TrustInv, DurableFollows
    <2> QED BY <2>2, <2>3, <2>4 DEF WindowInv
  <1> QED BY <1>1, <1>2, <1>3, DocNext

LEMMA TrustInit == Init => WindowInv /\ TrustInv
  BY FollowsItself DEF Init, WindowInv, TrustInv, EmptyFiles, NoStatus, status, WindowSteps,
     PrepareSteps, BroadcastSteps

LEMMA TrustCorrect == Spec => [](TypeOK /\ WindowInv /\ TrustInv)
  <1>1. Init => TypeOK /\ WindowInv /\ TrustInv
    BY TypeInit, TrustInit
  <1>2. TypeOK /\ WindowInv /\ TrustInv /\ [Next]_vars => (TypeOK /\ WindowInv /\ TrustInv)'
    BY TypeStep, TrustStep
  <1> QED BY <1>1, <1>2, PTL DEF Spec

(* What the coordinator serves, and what failures and power losses do to   *)
(* status.json, never takes the durable trusted window back                *)
(* (_resolve_round, controller.py:671-707; coordinator.py:316-373).        *)
THEOREM TrustKept == Spec => TrustNeverRegresses
  <1>1. TypeOK /\ WindowInv /\ TrustInv /\ [Next]_vars => [DurableFollows]_vars
    BY TrustStep
  <1> QED BY <1>1, TrustCorrect, PTL DEF Spec, TrustNeverRegresses, DurableFollows

-----------------------------------------------------------------------------
(* A recorded refusal.                                                     *)

(* Steps that no process reaches while a refusal is recorded. *)
OpenSteps == Steps \ {"preflight", "refuse", "refuse_status"}

LEMMA ProcessSteps == Process => pc \in OpenSteps \/ Preflight \/ Refuse \/ RefuseStatus
  BY DEF OpenSteps, Steps, PrepareSteps, BroadcastSteps, Process, Check, PreflightFailed,
     Loop, Stop, Cycle, Wait, Heartbeat, Reverify, ReverifyCheck, Reconcile,
     ReconcileCheck, MarkVerified, Submit, Package, Prepare, Recover, Upload, Uploading,
     Readback, Announce, Mark, Recheck, Unmark, Publish, Await, Confirm, Clear, Fail, Fatal

(* Only a preflight that found no refusal opens the way to them. *)
LEMMA OpenedBy ==
  ASSUME TypeOK, [Next]_vars, pc' \in OpenSteps
  PROVE  pc \in OpenSteps \/ (pc = "preflight" /\ ~Latched(store.view))
  <1> USE DEF OpenSteps, Steps, Stopped, PrepareSteps, BroadcastSteps
  <1>1. CASE Preflight
    BY <1>1 DEF Preflight, Refuses
  <1>2. CASE Refuse
    BY <1>2, TypedStore, LatchStep DEF Refuse, Refuses
  <1>3. CASE RefuseStatus
    BY <1>3 DEF RefuseStatus, Write
  <1>4. CASE Restart \/ OperatorStart \/ OperatorReview \/ Crash \/ PowerLoss
    BY <1>4 DEF Restart, OperatorStart, Start, OperatorReview, Crash, PowerLoss
  <1>5. CASE Tick \/ Decide \/ UNCHANGED vars
    BY <1>5 DEF Tick, Decide, Land, Drop, vars
  <1> QED BY <1>1, <1>2, <1>3, <1>4, <1>5, ProcessSteps DEF Next

LEMMA LatchStepInv ==
  TypeOK /\ WindowInv /\ TrustInv /\ LatchInv /\ [Next]_vars =>
    LatchInv' /\ (LatchedDurably /\ ~OperatorReview => LatchedDurably')
  <1> SUFFICES ASSUME TypeOK, WindowInv, TrustInv, LatchInv, [Next]_vars
               PROVE  LatchInv' /\ (LatchedDurably /\ ~OperatorReview => LatchedDurably')
    OBVIOUS
  <1>o. pc' \in OpenSteps => pc \notin {"refuse", "refuse_status"} /\ ~Latched(store.view)
    BY OpenedBy DEF LatchInv, OpenSteps
  <1>1. CASE DocStep
    <2>1. PICK x : Legit(x) /\ Moves(x)
      BY <1>1 DEF DocStep
    <2>2. /\ store.view.latch => store'.view.latch
          /\ status.latched => store'.view.status.latched
          /\ store'.view.latch => store.view.latch \/ pc = "refuse"
          /\ store'.view.status.latched => status.latched \/ pc = "refuse_status"
      BY <2>1 DEF Legit, Moves
    <2>3. /\ store'.durable.latch \in {store.durable.latch, store'.view.latch,
                                       store.view.latch}
          /\ store'.durable.status \in {store.durable.status, store'.view.status}
      BY <2>1 DEF Moves
    <2>4. LatchedDurably => LatchedDurably'
      BY <2>2, <2>3 DEF LatchInv, LatchedDurably, status
    <2>5. LatchInv'
      BY <1>o, <2>2, <2>3 DEF LatchInv, Latched, OpenSteps, status
    <2> QED BY <2>4, <2>5
  <1>2. CASE PowerLoss
    <2>1. /\ store'.view.latch \in {store.view.latch, store.durable.latch}
          /\ store'.view.status \in {status, store.durable.status}
          /\ store'.durable = store'.view
      BY <1>2 DEF PowerLoss, AfterPowerLoss, status
    <2>2. pc' \notin Steps
      BY <1>2 DEF PowerLoss, Steps, PrepareSteps, BroadcastSteps
    <2> QED BY <2>1, <2>2 DEF LatchInv, LatchedDurably, status
  <1>3. CASE OperatorReview
    <2>1. pc' \notin Steps
      BY <1>3 DEF OperatorReview, Steps, PrepareSteps, BroadcastSteps
    <2> QED BY <1>3, <2>1, ReviewDocuments DEF LatchInv, Latched
  <1> QED BY <1>1, <1>2, <1>3, DocNext

LEMMA LatchInit == Init => LatchInv
  BY DEF Init, LatchInv, EmptyFiles, NoStatus, Steps, PrepareSteps, BroadcastSteps

LEMMA LatchCorrect == Spec => [](TypeOK /\ WindowInv /\ TrustInv /\ LatchInv)
  <1>1. Init => LatchInv
    BY LatchInit
  <1>2. TypeOK /\ WindowInv /\ TrustInv /\ LatchInv /\ [Next]_vars => LatchInv'
    BY LatchStepInv
  <1> QED BY <1>1, <1>2, TrustCorrect, PTL DEF Spec

(* A refusal that is durable in the latch or in the status stays until the *)
(* operator removes it, and nothing is broadcast meanwhile: the next        *)
(* process stops in preflight (_authorization_failure, controller.py:937).  *)
THEOREM RefusalKept == Spec => RefusalIsFinal
  <1> DEFINE Final == LatchedDurably /\ ~OperatorReview =>
                        LatchedDurably' /\ inflight' \subseteq inflight
  <1>1. TypeOK /\ WindowInv /\ TrustInv /\ LatchInv /\ [Next]_vars => Final
    <2> SUFFICES ASSUME TypeOK, WindowInv, TrustInv, LatchInv, [Next]_vars,
                        LatchedDurably, ~OperatorReview
                 PROVE  LatchedDurably' /\ inflight' \subseteq inflight
      OBVIOUS
    <2>1. LatchedDurably'
      BY LatchStepInv
    <2>2. Latched(store.view)
      BY DEF LatchInv, LatchedDurably, Latched
    <2>3. ~Publish
      BY <2>2 DEF LatchInv, Publish, Steps, BroadcastSteps
    <2> QED BY <2>1, <2>3, OnlyPublishSends
  <1>2. TypeOK /\ WindowInv /\ TrustInv /\ LatchInv /\ [Next]_vars => [Final]_vars
    BY <1>1
  <1> QED BY <1>2, LatchCorrect, PTL DEF Spec, RefusalIsFinal

-----------------------------------------------------------------------------
(* What an observer reads as green.                                        *)

(* Only a decided extrinsic changes the commitment; no release disappears. *)
LEMMA WorldStep == [Next]_vars => (slot' = slot \/ Decide) /\ remote \subseteq remote'
  <1> SUFFICES ASSUME [Next]_vars
               PROVE  (slot' = slot \/ Decide) /\ remote \subseteq remote'
    OBVIOUS
  <1>1. CASE Process
    BY <1>1 DEF Process, Preflight, Check, PreflightFailed, Loop, Stop, Cycle, Wait,
       Heartbeat, Reverify, ReverifyCheck, Reconcile, ReconcileCheck, MarkVerified,
       Submit, Package, Prepare, Recover, Upload, Uploading, Readback, Announce, Mark,
       Recheck, Unmark, Publish, Await, Confirm, Clear, Fail, Fatal, Refuse,
       RefuseStatus, Refresh, ClearPending, chain, artifacts
  <1>2. CASE Restart \/ OperatorStart \/ OperatorReview \/ Crash \/ PowerLoss \/ Tick
    BY <1>2 DEF Restart, OperatorStart, Start, OperatorReview, Crash, PowerLoss, Tick,
       chain, artifacts
  <1>3. CASE Decide
    BY <1>3 DEF Decide, Land, Drop, artifacts
  <1>4. CASE UNCHANGED vars
    BY <1>4 DEF vars
  <1> QED BY <1>1, <1>2, <1>3, <1>4 DEF Next

(* A document that may be read as green. *)
Exact(doc) == doc.ok => /\ doc.round = slot.round /\ doc.success = slot.round
                        /\ slot.round \in remote

(* A document the process may write is exact, and none is green while an   *)
(* extrinsic is undecided or a submission is under way.                    *)
LEMMA LegitExact ==
  ASSUME TypeOK, SubmissionInv, GreenInv, NEW x, Legit(x)
  PROVE  /\ Exact(x) /\ Exact(HealthOf(x))
         /\ AllDark /\ (pc \in DarkSteps \/ inflight # {}) =>
              ~x.ok /\ ~HealthOf(x).ok
  <1>1. pc = "verified" => /\ slot.round = win.round /\ win.round \in remote
                           /\ inflight = {}
    BY NothingUndecided DEF SubmissionInv, Established, UnmarkedSteps, ReleasedSteps
  <1>2. Exact(status)
    BY DEF GreenInv, GreenIsExact, Exact, status
  <1>3. Exact(x)
    BY <1>1, <1>2 DEF Legit, Exact
  <1>4. AllDark /\ (pc \in DarkSteps \/ inflight # {}) => ~x.ok
    BY <1>1 DEF Legit, AllDark, status, DarkSteps, BroadcastSteps, PrepareSteps
  <1> QED BY <1>3, <1>4 DEF Exact, HealthOf

LEMMA GreenDoc ==
  ASSUME TypeOK, SubmissionInv, GreenInv, [Next]_vars, DocStep
  PROVE  GreenInv'
  <1>1. PICK x : Legit(x) /\ Moves(x)
    BY DEF DocStep
  <1>2. /\ Exact(x) /\ Exact(HealthOf(x))
        /\ AllDark /\ (pc \in DarkSteps \/ inflight # {}) =>
             ~x.ok /\ ~HealthOf(x).ok
    BY <1>1, LegitExact
  <1>3. AllDark /\ (pc \in DarkSteps \/ inflight # {}) => AllDark'
    BY <1>1, <1>2 DEF Moves, AllDark, status
  <1>4. pc' \in DarkSteps => AllDark'
    BY <1>3 DEF DocStep, GreenInv
  <1>5. inflight' # {} => AllDark'
    <2>1. Publish => pc \in DarkSteps
      BY DEF Publish, DarkSteps, BroadcastSteps
    <2> QED BY <1>3, <2>1, OnlyPublishSends DEF GreenInv
  <1>6. GreenIsExact'
    <2>1. CASE Decide
      <3>1. inflight # {}
        BY <2>1 DEF Decide
      <3>2. AllDark'
        BY <1>3, <3>1 DEF GreenInv
      <3> QED BY <3>2 DEF AllDark, GreenIsExact
    <2>2. CASE slot' = slot
      <3>1. /\ Exact(status) /\ Exact(store.view.health)
            /\ Exact(store.durable.status) /\ Exact(store.durable.health)
        BY DEF GreenInv, GreenIsExact, Exact, status
      <3>2. /\ Exact(store'.view.status) /\ Exact(store'.view.health)
            /\ Exact(store'.durable.status) /\ Exact(store'.durable.health)
        BY <1>1, <1>2, <3>1 DEF Moves
      <3>3. remote \subseteq remote'
        BY WorldStep
      <3> QED BY <2>2, <3>2, <3>3 DEF Exact, GreenIsExact
    <2> QED BY <2>1, <2>2, WorldStep
  <1> QED BY <1>4, <1>5, <1>6 DEF GreenInv

LEMMA GreenStep ==
  TypeOK /\ SubmissionInv /\ WindowInv /\ TrustInv /\ GreenInv /\ [Next]_vars => GreenInv'
  <1> SUFFICES ASSUME TypeOK, SubmissionInv, WindowInv, TrustInv, GreenInv, [Next]_vars
               PROVE  GreenInv'
    OBVIOUS
  <1>1. CASE DocStep
    BY <1>1, GreenDoc
  <1>2. CASE PowerLoss
    <2>1. /\ store'.view.status \in {store.view.status, store.durable.status}
          /\ store'.view.health \in {store.view.health, store.durable.health}
          /\ store'.durable = store'.view
          /\ UNCHANGED <<slot, inflight, remote>>
          /\ pc' \notin DarkSteps
      BY <1>2 DEF PowerLoss, AfterPowerLoss, chain, artifacts, DarkSteps,
         BroadcastSteps, PrepareSteps
    <2>2. AllDark => AllDark'
      BY <2>1 DEF AllDark
    <2>3. GreenIsExact'
      BY <2>1 DEF GreenInv, GreenIsExact
    <2> QED BY <2>1, <2>2, <2>3 DEF GreenInv
  <1>3. CASE OperatorReview
    <2>1. /\ store'.durable = store'.view
          /\ store'.view.health = store.view.health
          /\ store'.view.status.ok = store.view.status.ok
          /\ store'.view.status.round = store.view.status.round
          /\ store'.view.status.success = store.view.status.success
      BY <1>3, ReviewDocuments DEF status
    <2>2. /\ UNCHANGED <<slot, remote>> /\ inflight' = {}
          /\ pc' \notin DarkSteps
      BY <1>3 DEF OperatorReview, chain, artifacts, DarkSteps, BroadcastSteps,
         PrepareSteps
    <2>3. GreenIsExact'
      BY <2>1, <2>2 DEF GreenInv, GreenIsExact
    <2> QED BY <2>2, <2>3 DEF GreenInv
  <1> QED BY <1>1, <1>2, <1>3, DocNext

LEMMA GreenInit == Init => GreenInv
  BY DEF Init, GreenInv, GreenIsExact, AllDark, EmptyFiles, NoStatus, HealthOf,
     DarkSteps, BroadcastSteps, PrepareSteps

(* The whole inductive invariant. *)
LEMMA InvariantCorrect == Spec => []IInv
  <1>1. Init => IInv
    BY TypeInit, SubmissionInit, TrustInit, GreenInit, LatchInit DEF IInv
  <1>2. IInv /\ [Next]_vars => IInv'
    BY TypeStep, SubmissionStep, TrustStep, GreenStep, LatchStepInv DEF IInv
  <1> QED BY <1>1, <1>2, PTL DEF Spec

(* A status or health document that says ok, read now or after a power     *)
(* loss, is about the round whose exact commitment is on chain and whose   *)
(* release is public, however its two writes were cut                      *)
(* (controller.py:743-770; state.py:219-304).                              *)
THEOREM GreenExact == Spec => []GreenIsExact
  <1>1. IInv => GreenIsExact
    BY DEF IInv, GreenInv
  <1> QED BY <1>1, InvariantCorrect, PTL

=============================================================================
