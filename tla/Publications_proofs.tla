------------------------- MODULE Publications_proofs -------------------------
(***************************************************************************)
(* Proofs of what the publications promise, for every value of their       *)
(* constants: first one call of backend.publish, for every length of the   *)
(* era, every chain height and any number of changes and of lost answers;  *)
(* then a publication at W&B: a deterministic run is written by one        *)
(* invocation, its name is put only when everything is in it, and what is  *)
(* reported as committed is; then all of the components, one of which      *)
(* runs, from their own invariants.                                        *)
(***************************************************************************)
EXTENDS Publications, TLAPS

TxUnsigned == {"publish", "binding", "estimate", "sign"}

(* What was sent is undecided, or it has landed, but not both.             *)
TxPoolInv ==
  /\ pool # {} => landed = "nothing" /\ \E e \in pool : pool = {e}
  /\ stage \in TxUnsigned \cup {"submit"} => pool = {} /\ landed = "nothing"

(* An input that was read since the signature has been authorized in       *)
(* between.                                                                *)
TxStaleInv ==
  /\ stage \in TxUnsigned => stale = {}
  /\ stage = "submit" => /\ stale \subseteq Tx!Unauthorized
                         /\ \A i \in 1 .. step - 1 : Tx!Order[i] \notin stale

(* Nothing is broadcast before the last stage, and never twice.            *)
TxSendInv == /\ stage \in TxUnsigned \cup {"submit"} => sends = 0
             /\ Tx!SendsOnce

TxInv == Tx!TypeOK /\ TxPoolInv /\ TxStaleInv /\ TxSendInv /\ Tx!ReturnedIsExact

-----------------------------------------------------------------------------
(* The list of inputs.                                                     *)
LEMMA TxOrderType == /\ Len(Tx!Order) = 5
                     /\ \A i \in 1 .. 5 : Tx!Order[i] \in Tx!Inputs \cup {"nonce"}
                     /\ \A x \in Tx!Inputs \cup {"nonce"} : \E i \in 1 .. 5 : Tx!Order[i] = x
  <1>1. /\ Tx!Order[1] = "gate" /\ Tx!Order[2] = "uid" /\ Tx!Order[3] = "runtime"
        /\ Tx!Order[4] = "nonce" /\ Tx!Order[5] = "fee" /\ Len(Tx!Order) = 5
    BY DEF Tx!Order
  <1>2. \A i \in 1 .. 5 : i = 1 \/ i = 2 \/ i = 3 \/ i = 4 \/ i = 5
    OBVIOUS
  <1>3. \A i \in 1 .. 5 : Tx!Order[i] \in Tx!Inputs \cup {"nonce"}
    BY <1>1, <1>2 DEF Tx!Inputs
  <1>4. \A x \in Tx!Inputs \cup {"nonce"} : \E i \in 1 .. 5 : Tx!Order[i] = x
    BY <1>1 DEF Tx!Inputs
  <1> QED BY <1>1, <1>3, <1>4

-----------------------------------------------------------------------------
(* The values of the variables.                                            *)

LEMMA TxTypeInit == Tx!Init => Tx!TypeOK
  BY TxOrderType DEF Tx!Init, Tx!TypeOK, Tx!Inputs, Tx!Reading, Tx!Ended

LEMMA TxTypes == ASSUME Tx!PeriodAssumption, Tx!TypeOK, Tx!Call PROVE Tx!TypeOK'
  <1> USE TxOrderType
  <1>1. CASE Tx!Publish
    BY <1>1 DEF Tx!TypeOK, Tx!Publish, Tx!Enter, Tx!Refuse, Tx!chain, Tx!Ended, Tx!Reading
  <1>2. CASE Tx!Bind
    BY <1>2 DEF Tx!TypeOK, Tx!Bind, Tx!chain, Tx!Ended, Tx!Reading
  <1>3. CASE Tx!Read
    <2>1. head + Period \in Nat /\ step + 1 \in Nat
      BY DEF Tx!PeriodAssumption, Tx!TypeOK
    <2>2. step \in 1 .. 5
      BY <1>3 DEF Tx!TypeOK, Tx!Read
    <2>3. stage' \in {stage, "refused"} /\ step' \in {1, step + 1}
      BY <1>3 DEF Tx!Read, Tx!Refuse, Tx!Enter
    <2>4. nonce' \in Nat /\ expires' \in Nat /\ extrinsic' = extrinsic
      BY <1>3, <2>1 DEF Tx!TypeOK, Tx!Read, Tx!Refuse, Tx!Enter
    <2>5. changes' \in Nat
      BY <1>3 DEF Tx!TypeOK, Tx!Read, Tx!Change
    <2>6. UNCHANGED <<inputs_now, next_nonce, head, pool, landed, stale, sends>>
      BY <1>3 DEF Tx!Read, Tx!chain
    <2> QED BY <2>2, <2>3, <2>4, <2>5, <2>6 DEF Tx!TypeOK, Tx!Ended
  <1>4. CASE Tx!Estimate
    BY <1>4 DEF Tx!TypeOK, Tx!Estimate, Tx!ReadAll, Tx!Enter, Tx!chain, Tx!Reading
  <1>5. CASE Tx!Sign
    BY <1>5 DEF Tx!TypeOK, Tx!Sign, Tx!ReadAll, Tx!Refuse, Tx!Enter, Tx!chain, Tx!Ended,
                Tx!Reading, Tx!Unauthorized
  <1>6. CASE Tx!Submit
    BY <1>6 DEF Tx!TypeOK, Tx!Submit, Tx!Broadcast, Tx!ReadAll, Tx!Refuse, Tx!Enter, Tx!Ended,
                Tx!Reading
  <1>7. CASE Tx!Receipt
    BY <1>7 DEF Tx!TypeOK, Tx!Receipt, Tx!Refuse, Tx!Enter, Tx!chain, Tx!Ended, Tx!Reading,
                Tx!Change
  <1> QED BY <1>1, <1>2, <1>3, <1>4, <1>5, <1>6, <1>7 DEF Tx!Call

(* Whatever happens around the call. *)
TxAround == \/ Tx!Alter \/ Tx!OtherExtrinsic \/ Tx!Tick
            \/ (\E i \in Tx!Inputs : Tx!Turn(i))
            \/ (\E e \in pool : Tx!Include(e) \/ Tx!Discard(e))

LEMMA TxAroundTypes == ASSUME Tx!TypeOK, TxAround PROVE Tx!TypeOK'
  <1>1. CASE Tx!Alter
    BY <1>1 DEF Tx!TypeOK, Tx!Alter, Tx!Change, Tx!chain
  <1>2. CASE Tx!OtherExtrinsic
    BY <1>2 DEF Tx!TypeOK, Tx!OtherExtrinsic, Tx!Change, Tx!chain, Tx!call
  <1>3. CASE Tx!Tick
    BY <1>3 DEF Tx!TypeOK, Tx!Tick, Tx!chain, Tx!call
  <1>4. ASSUME NEW i \in Tx!Inputs, Tx!Turn(i) PROVE Tx!TypeOK'
    BY <1>4 DEF Tx!TypeOK, Tx!Turn, Tx!Change, Tx!chain, Tx!call
  <1>5. ASSUME NEW e \in pool, Tx!Include(e) PROVE Tx!TypeOK'
    BY <1>5 DEF Tx!TypeOK, Tx!Include, Tx!call
  <1>6. ASSUME NEW e \in pool, Tx!Discard(e) PROVE Tx!TypeOK'
    BY <1>6 DEF Tx!TypeOK, Tx!Discard, Tx!call
  <1> QED BY <1>1, <1>2, <1>3, <1>4, <1>5, <1>6 DEF TxAround

LEMMA TxNextIsCallOrAround == Tx!Next <=> Tx!Call \/ TxAround
  BY DEF Tx!Next, TxAround

-----------------------------------------------------------------------------
(* The extrinsic on its way.                                               *)

LEMMA TxPoolStep == ASSUME Tx!TypeOK, TxPoolInv, Tx!Call \/ TxAround PROVE TxPoolInv'
  <1> USE DEF TxPoolInv, TxUnsigned
  <1>1. CASE Tx!Publish
    BY <1>1 DEF Tx!Publish, Tx!Enter, Tx!Refuse, Tx!chain
  <1>2. CASE Tx!Bind
    BY <1>2 DEF Tx!Bind, Tx!chain
  <1>3. CASE Tx!Read
    BY <1>3 DEF Tx!Read, Tx!Refuse, Tx!Enter, Tx!chain, Tx!Reading
  <1>4. CASE Tx!Estimate
    BY <1>4 DEF Tx!Estimate, Tx!ReadAll, Tx!Enter, Tx!chain
  <1>5. CASE Tx!Sign
    BY <1>5 DEF Tx!Sign, Tx!ReadAll, Tx!Refuse, Tx!Enter, Tx!chain
  <1>6. CASE Tx!Submit
    BY <1>6 DEF Tx!Submit, Tx!Broadcast, Tx!ReadAll, Tx!Refuse, Tx!Enter
  <1>7. CASE Tx!Receipt
    BY <1>7 DEF Tx!Receipt, Tx!Refuse, Tx!Enter, Tx!chain
  <1>8. CASE Tx!Alter
    BY <1>8 DEF Tx!Alter, Tx!chain
  <1>9. CASE Tx!OtherExtrinsic
    BY <1>9 DEF Tx!OtherExtrinsic, Tx!chain, Tx!call
  <1>10. CASE Tx!Tick
    BY <1>10 DEF Tx!Tick, Tx!chain, Tx!call
  <1>11. ASSUME NEW i \in Tx!Inputs, Tx!Turn(i) PROVE TxPoolInv'
    BY <1>11 DEF Tx!Turn, Tx!chain, Tx!call
  <1>12. ASSUME NEW e \in pool, Tx!Include(e) PROVE TxPoolInv'
    BY <1>12 DEF Tx!Include, Tx!call
  <1>13. ASSUME NEW e \in pool, Tx!Discard(e) PROVE TxPoolInv'
    <2>1. pool' = {}
      BY <1>13 DEF Tx!Discard
    <2> QED BY <1>13, <2>1 DEF Tx!Discard, Tx!call
  <1> QED BY <1>1, <1>2, <1>3, <1>4, <1>5, <1>6, <1>7, <1>8, <1>9, <1>10, <1>11, <1>12, <1>13
       DEF Tx!Call, TxAround

(* The count of the broadcasts.                                            *)
LEMMA TxSendStep ==
  ASSUME Tx!TypeOK, TxPoolInv, TxSendInv, Tx!Call \/ TxAround PROVE TxSendInv'
  <1>1. pool' = {} \/ landed' = "nothing"
    BY TxPoolStep DEF TxPoolInv
  <1>2. CASE Tx!Submit
    <2>1. sends = 0 /\ pool = {} /\ landed = "nothing" /\ landed' = landed
      BY <1>2 DEF Tx!Submit, Tx!ReadAll, TxPoolInv, TxSendInv
    <2>2. CASE UNCHANGED <<pool, sends>>
      <3>1. stage' = "refused"
        BY <1>2, <2>1, <2>2 DEF Tx!Submit, Tx!Broadcast, Tx!Refuse, Tx!Enter
      <3> QED BY <2>1, <2>2, <3>1 DEF TxSendInv, TxUnsigned, Tx!SendsOnce
    <2>3. CASE sends' = sends + 1 /\ stage' = "sent"
      BY <1>1, <2>1, <2>3 DEF TxSendInv, TxUnsigned, Tx!SendsOnce
    <2> QED BY <1>2, <2>2, <2>3 DEF Tx!Submit, Tx!Broadcast, Tx!Enter
  <1>3. CASE ~Tx!Submit
    <2>1. sends' = sends
      BY <1>3 DEF Tx!Call, TxAround, Tx!Publish, Tx!Bind, Tx!Read, Tx!Estimate, Tx!Sign, Tx!Receipt,
                  Tx!Alter, Tx!OtherExtrinsic, Tx!Tick, Tx!Turn, Tx!Include, Tx!Discard
    <2>2. stage' \in TxUnsigned \cup {"submit"} => stage \in TxUnsigned \cup {"submit"}
      <3>1. CASE TxAround
        BY <3>1 DEF TxAround, Tx!Alter, Tx!OtherExtrinsic, Tx!Tick, Tx!Turn, Tx!Include,
                    Tx!Discard, Tx!call
      <3>2. CASE Tx!Call
        BY <1>3, <3>2 DEF TxUnsigned, Tx!Call, Tx!Publish, Tx!Bind, Tx!Read, Tx!Estimate, Tx!Sign,
                          Tx!Receipt, Tx!ReadAll, Tx!Refuse, Tx!Enter
      <3> QED BY <3>1, <3>2
    <2>3. pool' # {} \/ landed' # "nothing" => pool # {} \/ landed # "nothing"
      BY <1>3 DEF Tx!Call, TxAround, Tx!Publish, Tx!Bind, Tx!Read, Tx!Estimate, Tx!Sign, Tx!Receipt,
                  Tx!Alter, Tx!OtherExtrinsic, Tx!Tick, Tx!Turn, Tx!Include, Tx!Discard, Tx!chain
    <2> QED BY <1>1, <2>1, <2>2, <2>3 DEF TxSendInv, Tx!SendsOnce
  <1> QED BY <1>2, <1>3

-----------------------------------------------------------------------------
(* What has spoken against the extrinsic since it was signed.              *)

(* What was authorized for a moment is not stale any more. *)
LEMMA TxNarrows ==
  ASSUME Tx!TypeOK, TxStaleInv, UNCHANGED <<stage, step>>, stale' = stale \cap Tx!Unauthorized'
  PROVE  TxStaleInv'
  BY DEF TxStaleInv, Tx!TypeOK

LEMMA TxStaleStays ==
  ASSUME TxStaleInv, UNCHANGED <<stage, step, inputs_now, next_nonce, nonce, stale>>
  PROVE  TxStaleInv'
  BY DEF TxStaleInv, Tx!Unauthorized, Tx!Authorized

LEMMA TxStaleStep ==
  ASSUME Tx!TypeOK, TxPoolInv, TxStaleInv, Tx!Call \/ TxAround
  PROVE  TxStaleInv'
  <1> USE DEF TxUnsigned
  <1>1. CASE Tx!Publish
    BY <1>1 DEF TxStaleInv, Tx!Publish, Tx!Enter, Tx!Refuse
  <1>2. CASE Tx!Bind
    BY <1>2 DEF TxStaleInv, Tx!Bind
  <1>3. CASE Tx!Read
    <2>1. CASE stage' = "refused"
      BY <2>1 DEF TxStaleInv
    <2>2. CASE stage' = stage /\ stage # "submit"
      BY <1>3, <2>2 DEF TxStaleInv, Tx!Read, Tx!Reading
    <2>3. CASE stage' = stage /\ stage = "submit"
      <3>1. /\ step \in 1 .. 5 /\ step' = step + 1 /\ Tx!Authorized(Tx!Order[step])
            /\ UNCHANGED <<inputs_now, next_nonce, nonce, stale>>
        BY <1>3, <2>3, TxOrderType DEF Tx!Read, Tx!TypeOK, Tx!Refuse, Tx!Enter
      <3>2. Tx!Order[step] \notin Tx!Unauthorized
        BY <3>1 DEF Tx!Unauthorized
      <3>3. Tx!Order[step] \notin stale
        BY <2>3, <3>2 DEF TxStaleInv
      <3>4. Tx!Unauthorized' = Tx!Unauthorized
        BY <3>1 DEF Tx!Unauthorized, Tx!Authorized
      <3>5. \A i \in 1 .. step' - 1 : i \in 1 .. step - 1 \/ i = step
        BY <3>1
      <3> QED BY <2>3, <3>1, <3>3, <3>4, <3>5 DEF TxStaleInv
    <2> QED BY <1>3, <2>1, <2>2, <2>3 DEF Tx!Read, Tx!Refuse, Tx!Enter
  <1>4. CASE Tx!Estimate
    BY <1>4 DEF TxStaleInv, Tx!Estimate, Tx!ReadAll, Tx!Enter
  <1>5. CASE Tx!Sign
    <2>1. CASE stage' = "refused"
      BY <2>1 DEF TxStaleInv
    <2>2. CASE stage' = "submit"
      <3>1. step' = 1 /\ UNCHANGED <<inputs_now, next_nonce, nonce>> /\ stale' = Tx!Unauthorized
        BY <1>5, <2>2 DEF Tx!Sign, Tx!ReadAll, Tx!Refuse, Tx!Enter
      <3>2. Tx!Unauthorized' = Tx!Unauthorized
        BY <3>1 DEF Tx!Unauthorized, Tx!Authorized
      <3> QED BY <2>2, <3>1, <3>2 DEF TxStaleInv
    <2> QED BY <1>5, <2>1, <2>2 DEF Tx!Sign, Tx!Refuse, Tx!Enter
  <1>6. CASE Tx!Submit
    BY <1>6 DEF TxStaleInv, Tx!Submit, Tx!Broadcast, Tx!Refuse, Tx!Enter
  <1>7. CASE Tx!Receipt
    BY <1>7 DEF TxStaleInv, Tx!Receipt, Tx!Refuse, Tx!Enter
  <1>8. CASE Tx!Alter
    BY <1>8, TxStaleStays DEF Tx!Alter
  <1>9. CASE Tx!OtherExtrinsic
    BY <1>9, TxNarrows DEF Tx!OtherExtrinsic, Tx!call
  <1>10. CASE Tx!Tick
    BY <1>10, TxStaleStays DEF Tx!Tick, Tx!call
  <1>11. ASSUME NEW i \in Tx!Inputs, Tx!Turn(i) PROVE TxStaleInv'
    BY <1>11, TxNarrows DEF Tx!Turn, Tx!call
  <1>12. ASSUME NEW e \in pool, Tx!Include(e) PROVE TxStaleInv'
    BY <1>12, TxNarrows DEF Tx!Include, Tx!call
  <1>13. ASSUME NEW e \in pool, Tx!Discard(e) PROVE TxStaleInv'
    BY <1>13, TxStaleStays DEF Tx!Discard, Tx!call
  <1> QED BY <1>1, <1>2, <1>3, <1>4, <1>5, <1>6, <1>7, <1>8, <1>9, <1>10, <1>11, <1>12, <1>13
       DEF Tx!Call, TxAround

-----------------------------------------------------------------------------
(* A call that has returned had the receipt of a free inclusion, which     *)
(* nothing takes back: nothing is pending any more.                        *)
LEMMA TxReturnedStep ==
  ASSUME Tx!TypeOK, TxPoolInv, Tx!ReturnedIsExact, Tx!Call \/ TxAround PROVE Tx!ReturnedIsExact'
  <1> USE DEF Tx!ReturnedIsExact
  <1>1. CASE Tx!Call
    BY <1>1 DEF Tx!Call, Tx!Publish, Tx!Bind, Tx!Read, Tx!Estimate, Tx!Sign, Tx!Submit,
                Tx!Receipt, Tx!ReadAll, Tx!Enter,
                Tx!Refuse, Tx!chain, Tx!Reading
  <1>2. CASE TxAround
    <2>1. stage' = stage
      BY <1>2 DEF TxAround, Tx!Alter, Tx!OtherExtrinsic, Tx!Tick, Tx!Turn, Tx!Include,
                  Tx!Discard, Tx!call
    <2>2. CASE UNCHANGED landed
      BY <2>1, <2>2
    <2>3. ASSUME NEW e \in pool, Tx!Include(e) PROVE Tx!ReturnedIsExact'
      BY <2>1, <2>3 DEF TxPoolInv
    <2> QED BY <1>2, <2>2, <2>3 DEF TxAround, Tx!Alter, Tx!OtherExtrinsic, Tx!Tick, Tx!Turn,
                                    Tx!Discard, Tx!chain
  <1> QED BY <1>1, <1>2

LEMMA TxInit == Tx!Init => TxInv
  BY TxTypeInit DEF Tx!Init, TxInv, TxPoolInv, TxStaleInv, TxSendInv, Tx!SendsOnce,
                    Tx!ReturnedIsExact, TxUnsigned

LEMMA TxStep == ASSUME Tx!PeriodAssumption, TxInv, [Tx!Next]_Tx!vars PROVE TxInv'
  <1>1. CASE Tx!Next
    BY <1>1, TxNextIsCallOrAround, TxTypes, TxAroundTypes, TxPoolStep, TxStaleStep,
       TxSendStep, TxReturnedStep DEF TxInv
  <1>2. CASE UNCHANGED Tx!vars
    <2>1. /\ UNCHANGED <<stage, step, inputs_now, next_nonce, nonce, stale, pool, landed, sends>>
          /\ Tx!TypeOK'
      BY <1>2 DEF Tx!vars, Tx!call, Tx!chain, TxInv, Tx!TypeOK
    <2> QED BY <2>1, TxStaleStays DEF TxInv, TxPoolInv, TxSendInv, Tx!SendsOnce, TxUnsigned,
                                      Tx!ReturnedIsExact
  <1> QED BY <1>1, <1>2

(* Every state of a call satisfies the invariant. *)
THEOREM TxInvariance == ASSUME Tx!PeriodAssumption PROVE Tx!Spec => []TxInv
  BY TxInit, TxStep, PTL DEF Tx!Spec

(* The variables have their types in every state, for every era and height. *)
THEOREM TxTypeCorrect == ASSUME Tx!PeriodAssumption PROVE Tx!Spec => []Tx!TypeOK
  <1>1. TxInv => Tx!TypeOK
    BY DEF TxInv
  <1> QED BY <1>1, TxInvariance, PTL

(* A call that returns has put the exact call on chain, free and successful *)
(* (_verify_submission_receipt).                                            *)
THEOREM TxReturnedCorrect == ASSUME Tx!PeriodAssumption PROVE Tx!Spec => []Tx!ReturnedIsExact
  <1>1. TxInv => Tx!ReturnedIsExact
    BY DEF TxInv
  <1> QED BY <1>1, TxInvariance, PTL

-----------------------------------------------------------------------------
(* What is broadcast was signed as inspected, and every input has been      *)
(* authorized at some moment since: each of the five reads before the       *)
(* broadcast removes one input from the stale ones, and none is added.      *)
LEMMA TxAuthorizedStep == ASSUME TxInv, [Tx!Next]_Tx!vars PROVE Tx!SentIsAuthorizedStep
  <1> SUFFICES ASSUME pool' \ pool # {} PROVE stale = {} /\ extrinsic = "exact"
    BY DEF Tx!SentIsAuthorizedStep
  <1>1. Tx!Submit
    <2>1. ~UNCHANGED pool
      OBVIOUS
    <2>2. ASSUME NEW e \in pool, Tx!Include(e) \/ Tx!Discard(e) PROVE FALSE
      BY <2>2 DEF Tx!Include, Tx!Discard
    <2> QED BY <2>1, <2>2 DEF Tx!Next, Tx!Call, Tx!Publish, Tx!Bind, Tx!Read, Tx!Estimate,
                              Tx!Sign, Tx!Receipt, Tx!Alter,
                              Tx!OtherExtrinsic, Tx!Tick, Tx!Turn, Tx!chain, Tx!vars
  <1>2. stage = "submit" /\ step > 5 /\ extrinsic = "exact"
    BY <1>1, TxOrderType DEF Tx!Submit, Tx!ReadAll
  <1>3. step = 6
    BY <1>2, TxOrderType DEF TxInv, Tx!TypeOK
  <1>4. \A i \in 1 .. 5 : Tx!Order[i] \notin stale
    BY <1>2, <1>3 DEF TxInv, TxStaleInv
  <1>5. stale \subseteq Tx!Inputs \cup {"nonce"}
    BY DEF TxInv, Tx!TypeOK
  <1> QED BY <1>2, <1>4, <1>5, TxOrderType

(* Nothing is broadcast that an input has spoken against ever since it was  *)
(* signed (_submit_authorized_commitment).                                  *)
THEOREM TxAuthorizationCorrect == ASSUME Tx!PeriodAssumption PROVE Tx!Spec => Tx!SentIsAuthorized
  BY TxInvariance, TxAuthorizedStep, PTL DEF Tx!Spec, Tx!SentIsAuthorized

-----------------------------------------------------------------------------
(* One call broadcasts once: nothing leads back from `sent' to a stage that *)
(* submits (the single submit_extrinsic of _submit_authorized_commitment).  *)
THEOREM TxSendsOnceCorrect == ASSUME Tx!PeriodAssumption PROVE Tx!Spec => []Tx!SendsOnce
  <1>1. TxInv => Tx!SendsOnce
    BY DEF TxInv, TxSendInv
  <1> QED BY <1>1, TxInvariance, PTL

-----------------------------------------------------------------------------
(* A publication at W&B, for any number of invocations, payloads, faults   *)
(* and edits.                                                              *)

(* Places before client.init, with a run to write, with the run read back, *)
(* and after it.                                                           *)
Exporting == {"exporting", "unsynced", "staged", "linked", "checked", "exported"}
Early == {"start", "validated", "authorizing", "authorized", "init"} \cup Exporting
Writing == Publication!Application \cup {"finish"}
Committing == {"rename", "acknowledged", "resolve", "verify", "published"}
Consumed == Writing \cup {"readback", "history"} \cup Committing
After == {"teardown", "ended", "dead"}

Runs == {r \in [name : {"none", "pending", "hotkey"}, status : {"running", "finished", "failed"},
                 sent : SUBSET Publication!Application, items : SUBSET Publication!Application] :
           r.items \subseteq r.sent}

RemoteType == remote \in [Versions -> Runs] /\ wandb_late \subseteq Versions
ProcessType == /\ wandb_pc \in [Processes -> Early \cup Consumed \cup After]
               /\ held \in [Processes -> Versions \cup {Publication!Torn}]
               /\ digest \in [Processes -> Versions]
               /\ writers \in [Versions -> SUBSET Processes]
               /\ inputs \in Versions
NoteType == /\ state \in [Processes -> {"none", "pending_failed", "outcome_uncertain",
                                        "committed"}]
            /\ report \in [Processes -> {"none", "refused", "exported", "export_postcommit",
                                         "export_uncertain", "pending_failed",
                                         "outcome_uncertain", "committed", "postcommit"}]

(* A run that exists has one writer, which was given its digest and is     *)
(* past client.init.                                                       *)
WriterInv ==
  /\ \A v \in Versions : \A p, q \in writers[v] : p = q
  /\ \A v \in Versions : writers[v] = {} <=> remote[v].name = "none"
  /\ \A v \in Versions : \A p \in writers[v] :
       held[p] = v /\ digest[p] = v /\ wandb_pc[p] \in Consumed \cup After
HolderInv ==
  /\ \A p \in Processes : wandb_pc[p] \in Consumed =>
       held[p] \in Versions /\ p \in writers[held[p]]
  /\ \A p \in Processes : wandb_pc[p] \in Early \ {"start"} => held[p] \in Versions
  /\ \A p \in Processes : wandb_pc[p] \in {"authorized", "init"} => digest[p] = held[p]

(* A run whose name is put, or may be put later, is exact, and its writer  *)
(* does not write any more.                                                *)
Exact(v) == remote[v].status = "finished" /\ remote[v].items = Publication!Application
Settled(v) == Exact(v) /\ writers[v] # {} /\ \A q \in writers[v] : wandb_pc[q] \notin Writing
MarkInv == \A v \in Versions : remote[v].name = "hotkey" \/ v \in wandb_late => Settled(v)
ReadInv == /\ \A p \in Processes : wandb_pc[p] \in Committing => Exact(held[p])
           /\ \A p \in Processes : wandb_pc[p] = "history" => Publication!Summarized(held[p])

(* What a process notes and reports of its commit.                         *)
Marked(p) == /\ held[p] \in Versions /\ p \in writers[held[p]]
             /\ remote[held[p]].name = "hotkey"
CommitInv ==
  /\ \A p \in Processes : \/ state[p] = "committed"
                          \/ wandb_pc[p] \in {"acknowledged", "verify", "published"}
                          \/ report[p] \in {"committed", "postcommit"}
                          => Marked(p)
  /\ \A p \in Processes : state[p] = "committed" =>
       wandb_pc[p] \in {"verify", "published", "teardown", "ended", "dead"}
  /\ \A p \in Processes : wandb_pc[p] = "verify" => state[p] = "committed"
  /\ Publication!CommitIsKept

PublicationInv == RemoteType /\ ProcessType /\ NoteType /\ WriterInv /\ HolderInv /\ MarkInv
  /\ ReadInv
       /\ CommitInv

Places == Early \cup Consumed \cup After

-----------------------------------------------------------------------------
(* The payload file, and what is reported of it.                           *)

Files == [content : Versions \cup {Publication!Torn}, by : Processes \cup {"nobody"},
          synced : BOOLEAN,
          linked : BOOLEAN, there : BOOLEAN]

(* A payload is linked into place when it is on disk, so that it stays     *)
(* whole; what is not there is nobody's, and no export that linked goes on *)
(* without it.                                                             *)
FileInv ==
  /\ file \in Files
  /\ file.there => file.synced /\ file.content # Publication!Torn
  /\ file.linked \/ file.by # "nobody" => file.there
  /\ \A p \in Processes : wandb_pc[p] \in {"linked", "checked", "exported"} => file.there
  /\ wandb_faults \in 0..MaxFaults /\ edits \in 0..MaxEdits

(* A process reports when it ends, and one that has created a run has      *)
(* noted that its ID is consumed.                                          *)
NotedInv ==
  /\ \A p \in Processes : (report[p] # "none") <=> (wandb_pc[p] = "ended")
  /\ \A p \in Processes : wandb_pc[p] \in {"init", "teardown"} \cup Consumed => state[p] # "none"
  /\ \A v \in Versions : \A p \in writers[v] : state[p] # "none"

(* A file is in place only by a process past its link, which does not      *)
(* refuse any more.  Without an edit it is the file of a process that has  *)
(* checked its link, and stays in place once the directory is synced.      *)
ExportInv ==
  /\ \A p \in Processes : file.by = p =>
       wandb_pc[p] \in {"linked", "checked", "exported", "ended", "dead"} /\ report[p] # "refused"
  /\ \A p \in Processes : edits = 0 =>
       /\ wandb_pc[p] = "checked" => file.by = p
       /\ wandb_pc[p] = "exported" \/ report[p] \in {"exported", "export_postcommit"} =>
            file.by = p /\ file.linked

DiskInv == FileInv /\ NotedInv /\ ExportInv

-----------------------------------------------------------------------------
(* What a step does to a run.                                              *)

Changes(v, name, status, items) ==
  /\ remote' \in [Versions -> Runs]
  /\ \A u \in Versions \ {v} : remote'[u] = remote[u]
  /\ v \in Versions
  /\ remote'[v].name = name /\ remote'[v].status = status /\ remote'[v].items = items

LEMMA Assigned ==
  ASSUME RemoteType, NEW v \in Versions, NEW r \in Runs, remote' = [remote EXCEPT ![v] = r]
  PROVE  Changes(v, r.name, r.status, r.items)
  BY DEF RemoteType, Changes

LEMMA InitChanges ==
  ASSUME PublicationInv, NEW p \in Processes, Publication!InitRun(p)
  PROVE  /\ held[p] \in Versions
         /\ \/ UNCHANGED <<remote, writers>>
            \/ /\ remote[held[p]].name = "none"
               /\ Changes(held[p], "pending", "running", {})
               /\ writers' = [writers EXCEPT ![held[p]] = @ \cup {p}]
  <1>1. held[p] \in Versions
    BY DEF Publication!InitRun, Publication!At, PublicationInv, HolderInv, Early
  <1>2. Publication!NewRun \in Runs /\ Publication!NewRun.name = "pending"
          /\ Publication!NewRun.status = "running" /\ Publication!NewRun.items = {}
    BY DEF Publication!NewRun, Runs
  <1>3. remote' = [remote EXCEPT ![held[p]] = Publication!NewRun]
          => Changes(held[p], "pending", "running", {})
    BY <1>1, <1>2, Assigned DEF PublicationInv
  <1>4. remote' = [remote EXCEPT ![held[p]] = remote[held[p]]] => UNCHANGED remote
    BY <1>1 DEF PublicationInv, RemoteType
  <1>5. \/ UNCHANGED writers /\ remote' = [remote EXCEPT ![held[p]] = remote[held[p]]]
        \/ /\ remote[held[p]].name = "none"
           /\ remote' = [remote EXCEPT ![held[p]] = Publication!NewRun]
           /\ writers' = [writers EXCEPT ![held[p]] = @ \cup {p}]
    BY DEF Publication!InitRun, Publication!Serve
  <1> QED BY <1>1, <1>3, <1>4, <1>5

LEMMA SendChanges ==
  ASSUME PublicationInv, NEW p \in Processes, Publication!Send(p)
  PROVE  LET r == remote[held[p]] IN Changes(held[p], r.name, r.status, r.items)
  <1> DEFINE r == remote[held[p]]
             s == [r EXCEPT !.sent = @ \cup {wandb_pc[p]}]
  <1>1. held[p] \in Versions /\ wandb_pc[p] \in Publication!Application
          /\ remote' = [remote EXCEPT ![held[p]] = s]
    BY DEF Publication!Send, Publication!Serve, PublicationInv, HolderInv, Consumed, Writing
  <1>2. r \in Runs
    BY <1>1 DEF PublicationInv, RemoteType
  <1>3. s \in Runs /\ s.name = r.name /\ s.status = r.status /\ s.items = r.items
    BY <1>1, <1>2 DEF Runs
  <1> QED BY <1>1, <1>3, Assigned DEF PublicationInv

LEMMA StatusRun ==
  ASSUME NEW r \in Runs, NEW t \in {"running", "finished", "failed"}
  PROVE  LET s == [r EXCEPT !.status = t] IN
           s \in Runs /\ s.name = r.name /\ s.status = t /\ s.items = r.items
  BY DEF Runs

LEMMA FinishChanges ==
  ASSUME PublicationInv, NEW p \in Processes, Publication!Finish(p)
  PROVE  Changes(held[p], remote[held[p]].name, "finished", remote[held[p]].items)
  <1>1. held[p] \in Versions
    BY DEF Publication!Finish, Publication!At, PublicationInv, HolderInv, Consumed, Writing
  <1>2. remote[held[p]] \in Runs
    BY <1>1 DEF PublicationInv, RemoteType
  <1>3. remote' = [remote EXCEPT ![held[p]] = [remote[held[p]] EXCEPT !.status = "finished"]]
    BY DEF Publication!Finish, Publication!Serve
  <1> DEFINE s == [remote[held[p]] EXCEPT !.status = "finished"]
  <1>4. /\ s \in Runs /\ s.name = remote[held[p]].name
        /\ s.status = "finished" /\ s.items = remote[held[p]].items
    BY <1>2, StatusRun
  <1> HIDE DEF s
  <1>5. remote' = [remote EXCEPT ![held[p]] = s]
    BY <1>3 DEF s
  <1> QED BY <1>1, <1>4, <1>5, Assigned DEF PublicationInv

LEMMA FailChanges ==
  ASSUME PublicationInv, NEW p \in Processes, Publication!WritingFails(p)
  PROVE  \E t \in {"running", "finished", "failed"} :
           Changes(held[p], remote[held[p]].name, t, remote[held[p]].items)
  <1>1. held[p] \in Versions
    BY DEF Publication!WritingFails, PublicationInv, HolderInv, Consumed, Writing
  <1>2. remote[held[p]] \in Runs /\ remote[held[p]].status \in {"running", "finished", "failed"}
    BY <1>1 DEF PublicationInv, RemoteType, Runs
  <1>3. PICK t \in {"running", "finished", "failed"} :
          remote' = [remote EXCEPT ![held[p]] = [remote[held[p]] EXCEPT !.status = t]]
    BY <1>2 DEF Publication!WritingFails, Publication!Serve
  <1> DEFINE s == [remote[held[p]] EXCEPT !.status = t]
  <1>4. /\ s \in Runs /\ s.name = remote[held[p]].name
        /\ s.status = t /\ s.items = remote[held[p]].items
    BY <1>2, StatusRun
  <1> HIDE DEF s
  <1>5. remote' = [remote EXCEPT ![held[p]] = s]
    BY <1>3 DEF s
  <1>6. Changes(held[p], remote[held[p]].name, t, remote[held[p]].items)
    BY <1>1, <1>4, <1>5, Assigned DEF PublicationInv
  <1> QED BY <1>6

LEMMA NamedChanges ==
  ASSUME PublicationInv, NEW v \in Versions, remote' = Publication!Named(v)
  PROVE  Changes(v, "hotkey", remote[v].status, remote[v].items)
  <1> DEFINE s == [remote[v] EXCEPT !.name = "hotkey"]
  <1>1. remote[v] \in Runs
    BY DEF PublicationInv, RemoteType
  <1>2. s \in Runs /\ s.name = "hotkey" /\ s.status = remote[v].status
          /\ s.items = remote[v].items
    BY <1>1 DEF Runs
  <1>3. remote' = [remote EXCEPT ![v] = s]
    BY DEF Publication!Named
  <1> QED BY <1>2, <1>3, Assigned DEF PublicationInv

LEMMA RenameChanges ==
  ASSUME PublicationInv, NEW p \in Processes, Publication!Rename(p)
  PROVE  /\ held[p] \in Versions
         /\ \/ UNCHANGED remote
            \/ Changes(held[p], "hotkey", remote[held[p]].status, remote[held[p]].items)
  <1>1. held[p] \in Versions
    BY DEF Publication!Rename, Publication!At, PublicationInv, HolderInv, Consumed, Committing
  <1> QED BY <1>1, NamedChanges DEF Publication!Rename

LEMMA ArriveChanges ==
  ASSUME PublicationInv, Publication!RenameArrives
  PROVE  \E v \in wandb_late : /\ wandb_late' = wandb_late \ {v}
                               /\ Changes(v, "hotkey", remote[v].status, remote[v].items)
  BY NamedChanges DEF Publication!RenameArrives, PublicationInv, RemoteType

LEMMA DeliverChanges ==
  ASSUME PublicationInv, Publication!Deliver
  PROVE  \E v \in Versions, i \in Publication!Application :
           Changes(v, remote[v].name, remote[v].status, remote[v].items \cup {i})
  <1>0. PICK v \in Versions : \E i \in remote[v].sent :
          remote' = [remote EXCEPT ![v] = [remote[v] EXCEPT !.items = @ \cup {i}]]
    BY DEF Publication!Deliver, PublicationInv, RemoteType
  <1>1. PICK i \in remote[v].sent :
          remote' = [remote EXCEPT ![v] = [remote[v] EXCEPT !.items = @ \cup {i}]]
    BY <1>0
  <1> DEFINE s == [remote[v] EXCEPT !.items = @ \cup {i}]
  <1>2. remote[v] \in Runs /\ i \in Publication!Application
    BY DEF PublicationInv, RemoteType, Runs
  <1>3. s \in Runs /\ s.name = remote[v].name /\ s.status = remote[v].status
        /\ s.items = remote[v].items \cup {i}
    BY <1>2 DEF Runs
  <1>4. Changes(v, remote[v].name, remote[v].status, remote[v].items \cup {i})
    BY <1>1, <1>3, Assigned DEF PublicationInv
  <1> QED BY <1>2, <1>4

-----------------------------------------------------------------------------
(* The invariant, step by step.                                            *)

(* A step leaves every run a run.                                          *)
LEMMA RemoteStep == ASSUME PublicationInv, [Publication!Next]_Publication!vars PROVE RemoteType'
  <1> USE DEF PublicationInv, RemoteType, ProcessType, HolderInv, Changes, Publication!At,
              Publication!Goto, Publication!Note, Publication!Keep, Publication!Step,
              Publication!Ends, Publication!Refuse, Publication!Serve, Publication!service,
              Publication!process, Publication!bounds, Places, Early, Exporting, Writing,
              Committing, Consumed, After, Publication!Application
  <1>1. ASSUME NEW p \in Processes, Publication!Validate(p) PROVE RemoteType'
    BY <1>1 DEF Publication!Validate
  <1>2. ASSUME NEW p \in Processes, Publication!_revalidated_payload_bytes(p) PROVE RemoteType'
    BY <1>2 DEF Publication!_revalidated_payload_bytes
  <1>3. ASSUME NEW p \in Processes, Publication!Stage(p) PROVE RemoteType'
    BY <1>3 DEF Publication!Stage
  <1>4. ASSUME NEW p \in Processes, Publication!SyncStaged(p) PROVE RemoteType'
    BY <1>4 DEF Publication!SyncStaged
  <1>5. ASSUME NEW p \in Processes, Publication!Link(p) PROVE RemoteType'
    BY <1>5 DEF Publication!Link
  <1>6. ASSUME NEW p \in Processes, Publication!CheckLinked(p) PROVE RemoteType'
    BY <1>6 DEF Publication!CheckLinked
  <1>7. ASSUME NEW p \in Processes, Publication!_fsync_directory(p) PROVE RemoteType'
    BY <1>7 DEF Publication!_fsync_directory
  <1>8. ASSUME NEW p \in Processes, Publication!Exported(p) PROVE RemoteType'
    BY <1>8 DEF Publication!Exported
  <1>9. ASSUME NEW p \in Processes, Publication!authorize_payload(p) PROVE RemoteType'
    BY <1>9 DEF Publication!authorize_payload
  <1>10. ASSUME NEW p \in Processes, Publication!SetUp(p) PROVE RemoteType'
    BY <1>10 DEF Publication!SetUp
  <1>11. ASSUME NEW p \in Processes, Publication!InitRun(p) PROVE RemoteType'
    BY <1>11, InitChanges DEF Publication!InitRun
  <1>12. ASSUME NEW p \in Processes, Publication!Send(p) PROVE RemoteType'
    BY <1>12, SendChanges DEF Publication!Send, Publication!Next_item
  <1>13. ASSUME NEW p \in Processes, Publication!Finish(p) PROVE RemoteType'
    BY <1>13, FinishChanges DEF Publication!Finish
  <1>14. ASSUME NEW p \in Processes, Publication!ReadRun(p) PROVE RemoteType'
    BY <1>14 DEF Publication!ReadRun
  <1>15. ASSUME NEW p \in Processes, Publication!ReadHistory(p) PROVE RemoteType'
    BY <1>15 DEF Publication!ReadHistory
  <1>16. ASSUME NEW p \in Processes, Publication!Rename(p) PROVE RemoteType'
    BY <1>16, RenameChanges DEF Publication!Rename
  <1>17. ASSUME NEW p \in Processes, Publication!Acknowledged(p) PROVE RemoteType'
    BY <1>17 DEF Publication!Acknowledged
  <1>18. ASSUME NEW p \in Processes, Publication!Resolve(p) PROVE RemoteType'
    BY <1>18 DEF Publication!Resolve
  <1>19. ASSUME NEW p \in Processes, Publication!Verify(p) PROVE RemoteType'
    BY <1>19 DEF Publication!Verify
  <1>20. ASSUME NEW p \in Processes, Publication!Report(p) PROVE RemoteType'
    BY <1>20 DEF Publication!Report, Publication!Terminal
  <1>21. ASSUME NEW p \in Processes, Publication!ExportFails(p) PROVE RemoteType'
    BY <1>21 DEF Publication!ExportFails
  <1>22. ASSUME NEW p \in Processes, Publication!WritingFails(p) PROVE RemoteType'
    BY <1>22, FailChanges DEF Publication!WritingFails
  <1>23. ASSUME NEW p \in Processes, Publication!ReadbackFails(p) PROVE RemoteType'
    BY <1>23 DEF Publication!ReadbackFails
  <1>24. ASSUME NEW p \in Processes, Publication!Interrupt(p) PROVE RemoteType'
    BY <1>24 DEF Publication!Interrupt
  <1>25. ASSUME NEW p \in Processes, Publication!Kill(p) PROVE RemoteType'
    BY <1>25 DEF Publication!Kill, Publication!Live
  <1>26. CASE Publication!Deliver
    BY <1>26, DeliverChanges DEF Publication!Deliver
  <1>27. CASE Publication!RenameArrives
    BY <1>27, ArriveChanges DEF Publication!RenameArrives
  <1>28. CASE Publication!Edit
    BY <1>28 DEF Publication!Edit
  <1>29. CASE Publication!PowerLoss
    BY <1>29 DEF Publication!PowerLoss, Publication!Live
  <1>30. CASE UNCHANGED Publication!vars
    BY <1>30 DEF Publication!vars
  <1> QED BY <1>1, <1>2, <1>3, <1>4, <1>5, <1>6, <1>7, <1>8, <1>9, <1>10, <1>11, <1>12, <1>13,
             <1>14, <1>15, <1>16, <1>17, <1>18, <1>19, <1>20, <1>21, <1>22, <1>23, <1>24,
             <1>25, <1>26, <1>27, <1>28, <1>29, <1>30
          DEF Publication!Next, Publication!Goes, Publication!Fails, Publication!Export,
            Publication!Publish

(* A step leaves every process at a place, with a payload and a digest.    *)
LEMMA ProcessStep ==
  ASSUME PublicationInv, [Publication!Next]_Publication!vars
  PROVE  ProcessType'
  <1> USE DEF PublicationInv, ProcessType, HolderInv, Publication!At, Publication!Goto,
              Publication!Note, Publication!Keep, Publication!Step, Publication!Ends,
              Publication!Refuse, Publication!Serve, Publication!service, Publication!process,
              Publication!bounds, Places, Early, Exporting, Writing, Committing, Consumed,
              After, Publication!Application
  <1>1. ASSUME NEW p \in Processes, Publication!Validate(p) PROVE ProcessType'
    BY <1>1 DEF Publication!Validate
  <1>2. ASSUME NEW p \in Processes, Publication!_revalidated_payload_bytes(p) PROVE ProcessType'
    BY <1>2 DEF Publication!_revalidated_payload_bytes
  <1>3. ASSUME NEW p \in Processes, Publication!Stage(p) PROVE ProcessType'
    BY <1>3 DEF Publication!Stage
  <1>4. ASSUME NEW p \in Processes, Publication!SyncStaged(p) PROVE ProcessType'
    BY <1>4 DEF Publication!SyncStaged
  <1>5. ASSUME NEW p \in Processes, Publication!Link(p) PROVE ProcessType'
    BY <1>5 DEF Publication!Link
  <1>6. ASSUME NEW p \in Processes, Publication!CheckLinked(p) PROVE ProcessType'
    BY <1>6 DEF Publication!CheckLinked
  <1>7. ASSUME NEW p \in Processes, Publication!_fsync_directory(p) PROVE ProcessType'
    BY <1>7 DEF Publication!_fsync_directory
  <1>8. ASSUME NEW p \in Processes, Publication!Exported(p) PROVE ProcessType'
    BY <1>8 DEF Publication!Exported
  <1>9. ASSUME NEW p \in Processes, Publication!authorize_payload(p) PROVE ProcessType'
    BY <1>9 DEF Publication!authorize_payload
  <1>10. ASSUME NEW p \in Processes, Publication!SetUp(p) PROVE ProcessType'
    BY <1>10 DEF Publication!SetUp
  <1>11. ASSUME NEW p \in Processes, Publication!InitRun(p) PROVE ProcessType'
    BY <1>11 DEF Publication!InitRun, Publication!NewRun
  <1>12. ASSUME NEW p \in Processes, Publication!Send(p) PROVE ProcessType'
    BY <1>12 DEF Publication!Send, Publication!Next_item
  <1>13. ASSUME NEW p \in Processes, Publication!Finish(p) PROVE ProcessType'
    BY <1>13 DEF Publication!Finish
  <1>14. ASSUME NEW p \in Processes, Publication!ReadRun(p) PROVE ProcessType'
    BY <1>14 DEF Publication!ReadRun
  <1>15. ASSUME NEW p \in Processes, Publication!ReadHistory(p) PROVE ProcessType'
    BY <1>15 DEF Publication!ReadHistory
  <1>16. ASSUME NEW p \in Processes, Publication!Rename(p) PROVE ProcessType'
    BY <1>16 DEF Publication!Rename, Publication!Named
  <1>17. ASSUME NEW p \in Processes, Publication!Acknowledged(p) PROVE ProcessType'
    BY <1>17 DEF Publication!Acknowledged
  <1>18. ASSUME NEW p \in Processes, Publication!Resolve(p) PROVE ProcessType'
    BY <1>18 DEF Publication!Resolve
  <1>19. ASSUME NEW p \in Processes, Publication!Verify(p) PROVE ProcessType'
    BY <1>19 DEF Publication!Verify
  <1>20. ASSUME NEW p \in Processes, Publication!Report(p) PROVE ProcessType'
    BY <1>20 DEF Publication!Report, Publication!Terminal
  <1>21. ASSUME NEW p \in Processes, Publication!ExportFails(p) PROVE ProcessType'
    BY <1>21 DEF Publication!ExportFails
  <1>22. ASSUME NEW p \in Processes, Publication!WritingFails(p) PROVE ProcessType'
    BY <1>22 DEF Publication!WritingFails
  <1>23. ASSUME NEW p \in Processes, Publication!ReadbackFails(p) PROVE ProcessType'
    BY <1>23 DEF Publication!ReadbackFails
  <1>24. ASSUME NEW p \in Processes, Publication!Interrupt(p) PROVE ProcessType'
    BY <1>24 DEF Publication!Interrupt
  <1>25. ASSUME NEW p \in Processes, Publication!Kill(p) PROVE ProcessType'
    BY <1>25 DEF Publication!Kill, Publication!Live
  <1>26. CASE Publication!Deliver
    BY <1>26 DEF Publication!Deliver
  <1>27. CASE Publication!RenameArrives
    BY <1>27 DEF Publication!RenameArrives, Publication!Named
  <1>28. CASE Publication!Edit
    BY <1>28 DEF Publication!Edit
  <1>29. CASE Publication!PowerLoss
    BY <1>29 DEF Publication!PowerLoss, Publication!Live
  <1>30. CASE UNCHANGED Publication!vars
    BY <1>30 DEF Publication!vars
  <1> QED BY <1>1, <1>2, <1>3, <1>4, <1>5, <1>6, <1>7, <1>8, <1>9, <1>10, <1>11, <1>12, <1>13,
             <1>14, <1>15, <1>16, <1>17, <1>18, <1>19, <1>20, <1>21, <1>22, <1>23, <1>24,
             <1>25, <1>26, <1>27, <1>28, <1>29, <1>30
          DEF Publication!Next, Publication!Goes, Publication!Fails, Publication!Export,
            Publication!Publish

(* What a process notes and reports stays within the script's words.       *)
LEMMA NoteStep == ASSUME PublicationInv, [Publication!Next]_Publication!vars PROVE NoteType'
  <1> USE DEF PublicationInv, NoteType, Publication!At, Publication!Goto, Publication!Note,
              Publication!Keep, Publication!Step, Publication!Ends, Publication!Refuse,
              Publication!Serve, Publication!service, Publication!process, Publication!bounds,
              Places, Early, Exporting, Writing, Committing, Consumed, After,
              Publication!Application
  <1>1. ASSUME NEW p \in Processes, Publication!Validate(p) PROVE NoteType'
    BY <1>1 DEF Publication!Validate
  <1>2. ASSUME NEW p \in Processes, Publication!_revalidated_payload_bytes(p) PROVE NoteType'
    BY <1>2 DEF Publication!_revalidated_payload_bytes
  <1>3. ASSUME NEW p \in Processes, Publication!Stage(p) PROVE NoteType'
    BY <1>3 DEF Publication!Stage
  <1>4. ASSUME NEW p \in Processes, Publication!SyncStaged(p) PROVE NoteType'
    BY <1>4 DEF Publication!SyncStaged
  <1>5. ASSUME NEW p \in Processes, Publication!Link(p) PROVE NoteType'
    BY <1>5 DEF Publication!Link
  <1>6. ASSUME NEW p \in Processes, Publication!CheckLinked(p) PROVE NoteType'
    BY <1>6 DEF Publication!CheckLinked
  <1>7. ASSUME NEW p \in Processes, Publication!_fsync_directory(p) PROVE NoteType'
    BY <1>7 DEF Publication!_fsync_directory
  <1>8. ASSUME NEW p \in Processes, Publication!Exported(p) PROVE NoteType'
    BY <1>8 DEF Publication!Exported
  <1>9. ASSUME NEW p \in Processes, Publication!authorize_payload(p) PROVE NoteType'
    BY <1>9 DEF Publication!authorize_payload
  <1>10. ASSUME NEW p \in Processes, Publication!SetUp(p) PROVE NoteType'
    BY <1>10 DEF Publication!SetUp
  <1>11. ASSUME NEW p \in Processes, Publication!InitRun(p) PROVE NoteType'
    BY <1>11 DEF Publication!InitRun, Publication!NewRun
  <1>12. ASSUME NEW p \in Processes, Publication!Send(p) PROVE NoteType'
    BY <1>12 DEF Publication!Send, Publication!Next_item
  <1>13. ASSUME NEW p \in Processes, Publication!Finish(p) PROVE NoteType'
    BY <1>13 DEF Publication!Finish
  <1>14. ASSUME NEW p \in Processes, Publication!ReadRun(p) PROVE NoteType'
    BY <1>14 DEF Publication!ReadRun
  <1>15. ASSUME NEW p \in Processes, Publication!ReadHistory(p) PROVE NoteType'
    BY <1>15 DEF Publication!ReadHistory
  <1>16. ASSUME NEW p \in Processes, Publication!Rename(p) PROVE NoteType'
    BY <1>16 DEF Publication!Rename, Publication!Named
  <1>17. ASSUME NEW p \in Processes, Publication!Acknowledged(p) PROVE NoteType'
    BY <1>17 DEF Publication!Acknowledged
  <1>18. ASSUME NEW p \in Processes, Publication!Resolve(p) PROVE NoteType'
    BY <1>18 DEF Publication!Resolve
  <1>19. ASSUME NEW p \in Processes, Publication!Verify(p) PROVE NoteType'
    BY <1>19 DEF Publication!Verify
  <1>20. ASSUME NEW p \in Processes, Publication!Report(p) PROVE NoteType'
    BY <1>20 DEF Publication!Report, Publication!Terminal
  <1>21. ASSUME NEW p \in Processes, Publication!ExportFails(p) PROVE NoteType'
    BY <1>21 DEF Publication!ExportFails
  <1>22. ASSUME NEW p \in Processes, Publication!WritingFails(p) PROVE NoteType'
    BY <1>22 DEF Publication!WritingFails
  <1>23. ASSUME NEW p \in Processes, Publication!ReadbackFails(p) PROVE NoteType'
    BY <1>23 DEF Publication!ReadbackFails
  <1>24. ASSUME NEW p \in Processes, Publication!Interrupt(p) PROVE NoteType'
    BY <1>24 DEF Publication!Interrupt
  <1>25. ASSUME NEW p \in Processes, Publication!Kill(p) PROVE NoteType'
    BY <1>25 DEF Publication!Kill, Publication!Live
  <1>26. CASE Publication!Deliver
    BY <1>26 DEF Publication!Deliver
  <1>27. CASE Publication!RenameArrives
    BY <1>27 DEF Publication!RenameArrives, Publication!Named
  <1>28. CASE Publication!Edit
    BY <1>28 DEF Publication!Edit
  <1>29. CASE Publication!PowerLoss
    BY <1>29 DEF Publication!PowerLoss, Publication!Live
  <1>30. CASE UNCHANGED Publication!vars
    BY <1>30 DEF Publication!vars
  <1> QED BY <1>1, <1>2, <1>3, <1>4, <1>5, <1>6, <1>7, <1>8, <1>9, <1>10, <1>11, <1>12, <1>13,
             <1>14, <1>15, <1>16, <1>17, <1>18, <1>19, <1>20, <1>21, <1>22, <1>23, <1>24,
             <1>25, <1>26, <1>27, <1>28, <1>29, <1>30
          DEF Publication!Next, Publication!Goes, Publication!Fails, Publication!Export,
            Publication!Publish

(* A run that exists is not created again, so that its writer stays the only one.*)
LEMMA WriterStep == ASSUME PublicationInv, [Publication!Next]_Publication!vars PROVE WriterInv'
  <1> USE DEF PublicationInv, RemoteType, ProcessType, WriterInv, HolderInv, Changes,
              Publication!At, Publication!Goto, Publication!Note, Publication!Keep,
              Publication!Step, Publication!Ends, Publication!Refuse, Publication!Serve,
              Publication!service, Publication!process, Publication!bounds, Places, Early,
              Exporting, Writing, Committing, Consumed, After, Publication!Application
  <1>1. ASSUME NEW p \in Processes, Publication!Validate(p) PROVE WriterInv'
    BY <1>1 DEF Publication!Validate
  <1>2. ASSUME NEW p \in Processes, Publication!_revalidated_payload_bytes(p) PROVE WriterInv'
    BY <1>2 DEF Publication!_revalidated_payload_bytes
  <1>3. ASSUME NEW p \in Processes, Publication!Stage(p) PROVE WriterInv'
    BY <1>3 DEF Publication!Stage
  <1>4. ASSUME NEW p \in Processes, Publication!SyncStaged(p) PROVE WriterInv'
    BY <1>4 DEF Publication!SyncStaged
  <1>5. ASSUME NEW p \in Processes, Publication!Link(p) PROVE WriterInv'
    BY <1>5 DEF Publication!Link
  <1>6. ASSUME NEW p \in Processes, Publication!CheckLinked(p) PROVE WriterInv'
    BY <1>6 DEF Publication!CheckLinked
  <1>7. ASSUME NEW p \in Processes, Publication!_fsync_directory(p) PROVE WriterInv'
    BY <1>7 DEF Publication!_fsync_directory
  <1>8. ASSUME NEW p \in Processes, Publication!Exported(p) PROVE WriterInv'
    BY <1>8 DEF Publication!Exported
  <1>9. ASSUME NEW p \in Processes, Publication!authorize_payload(p) PROVE WriterInv'
    BY <1>9 DEF Publication!authorize_payload
  <1>10. ASSUME NEW p \in Processes, Publication!SetUp(p) PROVE WriterInv'
    BY <1>10 DEF Publication!SetUp
  <1>11. ASSUME NEW p \in Processes, Publication!InitRun(p) PROVE WriterInv'
    <2>1. held[p] \in Versions /\ digest[p] = held[p] /\ UNCHANGED <<held, digest>>
      BY <1>11 DEF Publication!InitRun
    <2>2. wandb_pc'[p] \in Consumed \cup After /\ \A q \in Processes \ {p} : wandb_pc'[q] = wandb_pc[q]
      BY <1>11 DEF Publication!InitRun
    <2>3. CASE UNCHANGED <<remote, writers>>
      BY <2>1, <2>2, <2>3
    <2>4. CASE /\ remote[held[p]].name = "none" /\ Changes(held[p], "pending", "running", {})
               /\ writers' = [writers EXCEPT ![held[p]] = @ \cup {p}]
      <3>1. writers'[held[p]] = {p} /\ \A v \in Versions \ {held[p]} : writers'[v] = writers[v]
        BY <2>1, <2>4
      <3> QED BY <2>1, <2>2, <2>4, <3>1
    <2> QED BY <1>11, <2>3, <2>4, InitChanges
  <1>12. ASSUME NEW p \in Processes, Publication!Send(p) PROVE WriterInv'
    BY <1>12, SendChanges DEF Publication!Send, Publication!Next_item
  <1>13. ASSUME NEW p \in Processes, Publication!Finish(p) PROVE WriterInv'
    BY <1>13, FinishChanges DEF Publication!Finish
  <1>14. ASSUME NEW p \in Processes, Publication!ReadRun(p) PROVE WriterInv'
    BY <1>14 DEF Publication!ReadRun
  <1>15. ASSUME NEW p \in Processes, Publication!ReadHistory(p) PROVE WriterInv'
    BY <1>15 DEF Publication!ReadHistory
  <1>16. ASSUME NEW p \in Processes, Publication!Rename(p) PROVE WriterInv'
    BY <1>16, RenameChanges DEF Publication!Rename
  <1>17. ASSUME NEW p \in Processes, Publication!Acknowledged(p) PROVE WriterInv'
    BY <1>17 DEF Publication!Acknowledged
  <1>18. ASSUME NEW p \in Processes, Publication!Resolve(p) PROVE WriterInv'
    BY <1>18 DEF Publication!Resolve
  <1>19. ASSUME NEW p \in Processes, Publication!Verify(p) PROVE WriterInv'
    BY <1>19 DEF Publication!Verify
  <1>20. ASSUME NEW p \in Processes, Publication!Report(p) PROVE WriterInv'
    BY <1>20 DEF Publication!Report, Publication!Terminal
  <1>21. ASSUME NEW p \in Processes, Publication!ExportFails(p) PROVE WriterInv'
    BY <1>21 DEF Publication!ExportFails
  <1>22. ASSUME NEW p \in Processes, Publication!WritingFails(p) PROVE WriterInv'
    BY <1>22, FailChanges DEF Publication!WritingFails
  <1>23. ASSUME NEW p \in Processes, Publication!ReadbackFails(p) PROVE WriterInv'
    BY <1>23 DEF Publication!ReadbackFails
  <1>24. ASSUME NEW p \in Processes, Publication!Interrupt(p) PROVE WriterInv'
    BY <1>24 DEF Publication!Interrupt
  <1>25. ASSUME NEW p \in Processes, Publication!Kill(p) PROVE WriterInv'
    BY <1>25 DEF Publication!Kill, Publication!Live
  <1>26. CASE Publication!Deliver
    BY <1>26, DeliverChanges DEF Publication!Deliver
  <1>27. CASE Publication!RenameArrives
    <2>1. PICK v \in wandb_late : Changes(v, "hotkey", remote[v].status, remote[v].items)
      BY <1>27, ArriveChanges
    <2>2. v \in Versions /\ writers[v] # {}
      BY <2>1 DEF MarkInv, Settled
    <2>3. UNCHANGED <<held, digest, wandb_pc, writers>>
      BY <1>27 DEF Publication!RenameArrives
    <2> QED BY <2>1, <2>2, <2>3
  <1>28. CASE Publication!Edit
    BY <1>28 DEF Publication!Edit
  <1>29. CASE Publication!PowerLoss
    BY <1>29 DEF Publication!PowerLoss, Publication!Live
  <1>30. CASE UNCHANGED Publication!vars
    BY <1>30 DEF Publication!vars
  <1> QED BY <1>1, <1>2, <1>3, <1>4, <1>5, <1>6, <1>7, <1>8, <1>9, <1>10, <1>11, <1>12, <1>13,
             <1>14, <1>15, <1>16, <1>17, <1>18, <1>19, <1>20, <1>21, <1>22, <1>23, <1>24,
             <1>25, <1>26, <1>27, <1>28, <1>29, <1>30
          DEF Publication!Next, Publication!Goes, Publication!Fails, Publication!Export,
            Publication!Publish

(* A process past client.init writes the run of the payload it was given.  *)
LEMMA HolderStep == ASSUME PublicationInv, [Publication!Next]_Publication!vars PROVE HolderInv'
  <1> USE DEF PublicationInv, ProcessType, WriterInv, HolderInv, Publication!At,
              Publication!Goto, Publication!Note, Publication!Keep, Publication!Step,
              Publication!Ends, Publication!Refuse, Publication!Serve, Publication!service,
              Publication!process, Publication!bounds, Places, Early, Exporting, Writing,
              Committing, Consumed, After, Publication!Application
  <1>1. ASSUME NEW p \in Processes, Publication!Validate(p) PROVE HolderInv'
    BY <1>1 DEF Publication!Validate
  <1>2. ASSUME NEW p \in Processes, Publication!_revalidated_payload_bytes(p) PROVE HolderInv'
    BY <1>2 DEF Publication!_revalidated_payload_bytes
  <1>3. ASSUME NEW p \in Processes, Publication!Stage(p) PROVE HolderInv'
    BY <1>3 DEF Publication!Stage
  <1>4. ASSUME NEW p \in Processes, Publication!SyncStaged(p) PROVE HolderInv'
    BY <1>4 DEF Publication!SyncStaged
  <1>5. ASSUME NEW p \in Processes, Publication!Link(p) PROVE HolderInv'
    BY <1>5 DEF Publication!Link
  <1>6. ASSUME NEW p \in Processes, Publication!CheckLinked(p) PROVE HolderInv'
    BY <1>6 DEF Publication!CheckLinked
  <1>7. ASSUME NEW p \in Processes, Publication!_fsync_directory(p) PROVE HolderInv'
    BY <1>7 DEF Publication!_fsync_directory
  <1>8. ASSUME NEW p \in Processes, Publication!Exported(p) PROVE HolderInv'
    BY <1>8 DEF Publication!Exported
  <1>9. ASSUME NEW p \in Processes, Publication!authorize_payload(p) PROVE HolderInv'
    BY <1>9 DEF Publication!authorize_payload
  <1>10. ASSUME NEW p \in Processes, Publication!SetUp(p) PROVE HolderInv'
    BY <1>10 DEF Publication!SetUp
  <1>11. ASSUME NEW p \in Processes, Publication!InitRun(p) PROVE HolderInv'
    BY <1>11 DEF Publication!InitRun, Publication!NewRun
  <1>12. ASSUME NEW p \in Processes, Publication!Send(p) PROVE HolderInv'
    BY <1>12 DEF Publication!Send, Publication!Next_item
  <1>13. ASSUME NEW p \in Processes, Publication!Finish(p) PROVE HolderInv'
    BY <1>13 DEF Publication!Finish
  <1>14. ASSUME NEW p \in Processes, Publication!ReadRun(p) PROVE HolderInv'
    BY <1>14 DEF Publication!ReadRun
  <1>15. ASSUME NEW p \in Processes, Publication!ReadHistory(p) PROVE HolderInv'
    BY <1>15 DEF Publication!ReadHistory
  <1>16. ASSUME NEW p \in Processes, Publication!Rename(p) PROVE HolderInv'
    BY <1>16 DEF Publication!Rename, Publication!Named
  <1>17. ASSUME NEW p \in Processes, Publication!Acknowledged(p) PROVE HolderInv'
    BY <1>17 DEF Publication!Acknowledged
  <1>18. ASSUME NEW p \in Processes, Publication!Resolve(p) PROVE HolderInv'
    BY <1>18 DEF Publication!Resolve
  <1>19. ASSUME NEW p \in Processes, Publication!Verify(p) PROVE HolderInv'
    BY <1>19 DEF Publication!Verify
  <1>20. ASSUME NEW p \in Processes, Publication!Report(p) PROVE HolderInv'
    BY <1>20 DEF Publication!Report, Publication!Terminal
  <1>21. ASSUME NEW p \in Processes, Publication!ExportFails(p) PROVE HolderInv'
    BY <1>21 DEF Publication!ExportFails
  <1>22. ASSUME NEW p \in Processes, Publication!WritingFails(p) PROVE HolderInv'
    BY <1>22 DEF Publication!WritingFails
  <1>23. ASSUME NEW p \in Processes, Publication!ReadbackFails(p) PROVE HolderInv'
    BY <1>23 DEF Publication!ReadbackFails
  <1>24. ASSUME NEW p \in Processes, Publication!Interrupt(p) PROVE HolderInv'
    BY <1>24 DEF Publication!Interrupt
  <1>25. ASSUME NEW p \in Processes, Publication!Kill(p) PROVE HolderInv'
    BY <1>25 DEF Publication!Kill, Publication!Live
  <1>26. CASE Publication!Deliver
    BY <1>26 DEF Publication!Deliver
  <1>27. CASE Publication!RenameArrives
    BY <1>27 DEF Publication!RenameArrives, Publication!Named
  <1>28. CASE Publication!Edit
    BY <1>28 DEF Publication!Edit
  <1>29. CASE Publication!PowerLoss
    BY <1>29 DEF Publication!PowerLoss, Publication!Live
  <1>30. CASE UNCHANGED Publication!vars
    BY <1>30 DEF Publication!vars
  <1> QED BY <1>1, <1>2, <1>3, <1>4, <1>5, <1>6, <1>7, <1>8, <1>9, <1>10, <1>11, <1>12, <1>13,
             <1>14, <1>15, <1>16, <1>17, <1>18, <1>19, <1>20, <1>21, <1>22, <1>23, <1>24,
             <1>25, <1>26, <1>27, <1>28, <1>29, <1>30
          DEF Publication!Next, Publication!Goes, Publication!Fails, Publication!Export,
            Publication!Publish

(* The name is put on an exact run, and what arrives later finds it exact. *)
LEMMA MarkStep == ASSUME PublicationInv, [Publication!Next]_Publication!vars PROVE MarkInv'
  <1> USE DEF PublicationInv, RemoteType, ProcessType, WriterInv, HolderInv, MarkInv, ReadInv,
              Settled, Exact, Changes, Publication!At, Publication!Goto, Publication!Note,
              Publication!Keep, Publication!Step, Publication!Ends, Publication!Refuse,
              Publication!Serve, Publication!service, Publication!process, Publication!bounds,
              Places, Early, Exporting, Writing, Committing, Consumed, After,
              Publication!Application
  <1>1. ASSUME NEW p \in Processes, Publication!Validate(p) PROVE MarkInv'
    BY <1>1 DEF Publication!Validate
  <1>2. ASSUME NEW p \in Processes, Publication!_revalidated_payload_bytes(p) PROVE MarkInv'
    BY <1>2 DEF Publication!_revalidated_payload_bytes
  <1>3. ASSUME NEW p \in Processes, Publication!Stage(p) PROVE MarkInv'
    BY <1>3 DEF Publication!Stage
  <1>4. ASSUME NEW p \in Processes, Publication!SyncStaged(p) PROVE MarkInv'
    BY <1>4 DEF Publication!SyncStaged
  <1>5. ASSUME NEW p \in Processes, Publication!Link(p) PROVE MarkInv'
    BY <1>5 DEF Publication!Link
  <1>6. ASSUME NEW p \in Processes, Publication!CheckLinked(p) PROVE MarkInv'
    BY <1>6 DEF Publication!CheckLinked
  <1>7. ASSUME NEW p \in Processes, Publication!_fsync_directory(p) PROVE MarkInv'
    BY <1>7 DEF Publication!_fsync_directory
  <1>8. ASSUME NEW p \in Processes, Publication!Exported(p) PROVE MarkInv'
    BY <1>8 DEF Publication!Exported
  <1>9. ASSUME NEW p \in Processes, Publication!authorize_payload(p) PROVE MarkInv'
    BY <1>9 DEF Publication!authorize_payload
  <1>10. ASSUME NEW p \in Processes, Publication!SetUp(p) PROVE MarkInv'
    BY <1>10 DEF Publication!SetUp
  <1>11. ASSUME NEW p \in Processes, Publication!InitRun(p) PROVE MarkInv'
    <2>1. UNCHANGED wandb_late
            /\ wandb_pc' \in {[wandb_pc EXCEPT ![p] = "logs"], [wandb_pc EXCEPT ![p] = "teardown"]}
      BY <1>11 DEF Publication!InitRun
    <2>2. wandb_pc[p] = "init" /\ \A v \in Versions : p \notin writers[v]
      BY <1>11 DEF Publication!InitRun
    <2>3. ASSUME NEW v \in Versions, Settled(v), v # held[p] \/ UNCHANGED <<remote, writers>>
          PROVE  Settled(v)' /\ remote'[v].name = remote[v].name
      <3>1. remote'[v] = remote[v] /\ writers'[v] = writers[v]
        BY <2>3, <1>11, InitChanges
      <3>2. \A q \in writers[v] : q # p /\ q \in Processes /\ wandb_pc'[q] = wandb_pc[q]
        BY <2>1, <2>2
      <3> QED BY <2>3, <3>1, <3>2
    <2>4. CASE UNCHANGED <<remote, writers>>
      BY <2>1, <2>3, <2>4
    <2>5. CASE /\ remote[held[p]].name = "none"
               /\ Changes(held[p], "pending", "running", {})
               /\ writers' = [writers EXCEPT ![held[p]] = @ \cup {p}]
      <3>1. held[p] \notin wandb_late /\ remote'[held[p]].name = "pending"
        BY <2>5
      <3>2. \A v \in Versions \ {held[p]} : remote'[v] = remote[v]
        BY <2>5
      <3> QED BY <2>1, <2>3, <3>1, <3>2
    <2> QED BY <2>4, <2>5, <1>11, InitChanges
  <1>12. ASSUME NEW p \in Processes, Publication!Send(p) PROVE MarkInv'
    BY <1>12, SendChanges DEF Publication!Send, Publication!Next_item
  <1>13. ASSUME NEW p \in Processes, Publication!Finish(p) PROVE MarkInv'
    BY <1>13, FinishChanges DEF Publication!Finish
  <1>14. ASSUME NEW p \in Processes, Publication!ReadRun(p) PROVE MarkInv'
    BY <1>14 DEF Publication!ReadRun
  <1>15. ASSUME NEW p \in Processes, Publication!ReadHistory(p) PROVE MarkInv'
    BY <1>15 DEF Publication!ReadHistory
  <1>16. ASSUME NEW p \in Processes, Publication!Rename(p) PROVE MarkInv'
    BY <1>16, RenameChanges DEF Publication!Rename
  <1>17. ASSUME NEW p \in Processes, Publication!Acknowledged(p) PROVE MarkInv'
    BY <1>17 DEF Publication!Acknowledged
  <1>18. ASSUME NEW p \in Processes, Publication!Resolve(p) PROVE MarkInv'
    BY <1>18 DEF Publication!Resolve
  <1>19. ASSUME NEW p \in Processes, Publication!Verify(p) PROVE MarkInv'
    BY <1>19 DEF Publication!Verify
  <1>20. ASSUME NEW p \in Processes, Publication!Report(p) PROVE MarkInv'
    BY <1>20 DEF Publication!Report, Publication!Terminal
  <1>21. ASSUME NEW p \in Processes, Publication!ExportFails(p) PROVE MarkInv'
    BY <1>21 DEF Publication!ExportFails
  <1>22. ASSUME NEW p \in Processes, Publication!WritingFails(p) PROVE MarkInv'
    BY <1>22, FailChanges DEF Publication!WritingFails
  <1>23. ASSUME NEW p \in Processes, Publication!ReadbackFails(p) PROVE MarkInv'
    BY <1>23 DEF Publication!ReadbackFails
  <1>24. ASSUME NEW p \in Processes, Publication!Interrupt(p) PROVE MarkInv'
    BY <1>24 DEF Publication!Interrupt
  <1>25. ASSUME NEW p \in Processes, Publication!Kill(p) PROVE MarkInv'
    BY <1>25 DEF Publication!Kill, Publication!Live
  <1>26. CASE Publication!Deliver
    <2>1. PICK v \in Versions, i \in Publication!Application :
            Changes(v, remote[v].name, remote[v].status, remote[v].items \cup {i})
      BY <1>26, DeliverChanges
    <2>2. UNCHANGED <<wandb_late, writers, wandb_pc>>
      BY <1>26 DEF Publication!Deliver
    <2>3. \A u \in Versions : Exact(u) => Exact(u)'
      BY <2>1
    <2>4. \A u \in Versions : remote'[u].name = remote[u].name
      BY <2>1
    <2> HIDE DEF Exact, Changes
    <2> QED BY <2>2, <2>3, <2>4
  <1>27. CASE Publication!RenameArrives
    BY <1>27, ArriveChanges DEF Publication!RenameArrives
  <1>28. CASE Publication!Edit
    BY <1>28 DEF Publication!Edit
  <1>29. CASE Publication!PowerLoss
    BY <1>29 DEF Publication!PowerLoss, Publication!Live
  <1>30. CASE UNCHANGED Publication!vars
    BY <1>30 DEF Publication!vars
  <1> QED BY <1>1, <1>2, <1>3, <1>4, <1>5, <1>6, <1>7, <1>8, <1>9, <1>10, <1>11, <1>12, <1>13,
             <1>14, <1>15, <1>16, <1>17, <1>18, <1>19, <1>20, <1>21, <1>22, <1>23, <1>24,
             <1>25, <1>26, <1>27, <1>28, <1>29, <1>30
          DEF Publication!Next, Publication!Goes, Publication!Fails, Publication!Export,
            Publication!Publish

(* What was read back stays: nobody writes the run any more.               *)
LEMMA ReadStep == ASSUME PublicationInv, [Publication!Next]_Publication!vars PROVE ReadInv'
  <1> USE DEF PublicationInv, RemoteType, ProcessType, WriterInv, HolderInv, MarkInv, ReadInv,
              Settled, Exact, Publication!Summarized, Publication!Scanned, Changes,
              Publication!At, Publication!Goto, Publication!Note, Publication!Keep,
              Publication!Step, Publication!Ends, Publication!Refuse, Publication!Serve,
              Publication!service, Publication!process, Publication!bounds, Places, Early,
              Exporting, Writing, Committing, Consumed, After, Publication!Application
  <1>1. ASSUME NEW p \in Processes, Publication!Validate(p) PROVE ReadInv'
    BY <1>1 DEF Publication!Validate
  <1>2. ASSUME NEW p \in Processes, Publication!_revalidated_payload_bytes(p) PROVE ReadInv'
    BY <1>2 DEF Publication!_revalidated_payload_bytes
  <1>3. ASSUME NEW p \in Processes, Publication!Stage(p) PROVE ReadInv'
    BY <1>3 DEF Publication!Stage
  <1>4. ASSUME NEW p \in Processes, Publication!SyncStaged(p) PROVE ReadInv'
    BY <1>4 DEF Publication!SyncStaged
  <1>5. ASSUME NEW p \in Processes, Publication!Link(p) PROVE ReadInv'
    BY <1>5 DEF Publication!Link
  <1>6. ASSUME NEW p \in Processes, Publication!CheckLinked(p) PROVE ReadInv'
    BY <1>6 DEF Publication!CheckLinked
  <1>7. ASSUME NEW p \in Processes, Publication!_fsync_directory(p) PROVE ReadInv'
    BY <1>7 DEF Publication!_fsync_directory
  <1>8. ASSUME NEW p \in Processes, Publication!Exported(p) PROVE ReadInv'
    BY <1>8 DEF Publication!Exported
  <1>9. ASSUME NEW p \in Processes, Publication!authorize_payload(p) PROVE ReadInv'
    BY <1>9 DEF Publication!authorize_payload
  <1>10. ASSUME NEW p \in Processes, Publication!SetUp(p) PROVE ReadInv'
    BY <1>10 DEF Publication!SetUp
  <1>11. ASSUME NEW p \in Processes, Publication!InitRun(p) PROVE ReadInv'
    BY <1>11, InitChanges DEF Publication!InitRun
  <1>12. ASSUME NEW p \in Processes, Publication!Send(p) PROVE ReadInv'
    BY <1>12, SendChanges DEF Publication!Send, Publication!Next_item
  <1>13. ASSUME NEW p \in Processes, Publication!Finish(p) PROVE ReadInv'
    BY <1>13, FinishChanges DEF Publication!Finish
  <1>14. ASSUME NEW p \in Processes, Publication!ReadRun(p) PROVE ReadInv'
    BY <1>14 DEF Publication!ReadRun
  <1>15. ASSUME NEW p \in Processes, Publication!ReadHistory(p) PROVE ReadInv'
    <2>1. UNCHANGED <<remote, held>> /\ wandb_pc[p] = "history" /\ held[p] \in Versions
      BY <1>15 DEF Publication!ReadHistory
    <2>2. remote[held[p]] \in Runs
      BY <2>1
    <2>3. remote[held[p]].items \subseteq Publication!Application
      BY <2>2 DEF Runs
    <2>4. Publication!Summarized(held[p]) /\ Publication!Scanned(held[p]) => Exact(held[p])
      BY <2>3
    <2>5. wandb_pc' = [wandb_pc EXCEPT ![p] = IF Publication!Scanned(held[p])
                                              THEN "rename" ELSE "teardown"]
      BY <1>15 DEF Publication!ReadHistory
    <2>6. Publication!Summarized(held[p])
      BY <2>1
    <2>7. \A u \in Versions : (Exact(u)' <=> Exact(u))
            /\ (Publication!Summarized(u)' <=> Publication!Summarized(u))
      BY <2>1
    <2>8. \A q \in Processes : wandb_pc[q] \in Consumed => held[q] \in Versions
      OBVIOUS
    <2> HIDE DEF Exact, Publication!Summarized, Publication!Scanned, Changes
    <2> QED BY <2>1, <2>4, <2>5, <2>6, <2>7, <2>8
  <1>16. ASSUME NEW p \in Processes, Publication!Rename(p) PROVE ReadInv'
    BY <1>16, RenameChanges DEF Publication!Rename
  <1>17. ASSUME NEW p \in Processes, Publication!Acknowledged(p) PROVE ReadInv'
    BY <1>17 DEF Publication!Acknowledged
  <1>18. ASSUME NEW p \in Processes, Publication!Resolve(p) PROVE ReadInv'
    BY <1>18 DEF Publication!Resolve
  <1>19. ASSUME NEW p \in Processes, Publication!Verify(p) PROVE ReadInv'
    BY <1>19 DEF Publication!Verify
  <1>20. ASSUME NEW p \in Processes, Publication!Report(p) PROVE ReadInv'
    BY <1>20 DEF Publication!Report, Publication!Terminal
  <1>21. ASSUME NEW p \in Processes, Publication!ExportFails(p) PROVE ReadInv'
    BY <1>21 DEF Publication!ExportFails
  <1>22. ASSUME NEW p \in Processes, Publication!WritingFails(p) PROVE ReadInv'
    BY <1>22, FailChanges DEF Publication!WritingFails
  <1>23. ASSUME NEW p \in Processes, Publication!ReadbackFails(p) PROVE ReadInv'
    BY <1>23 DEF Publication!ReadbackFails
  <1>24. ASSUME NEW p \in Processes, Publication!Interrupt(p) PROVE ReadInv'
    BY <1>24 DEF Publication!Interrupt
  <1>25. ASSUME NEW p \in Processes, Publication!Kill(p) PROVE ReadInv'
    BY <1>25 DEF Publication!Kill, Publication!Live
  <1>26. CASE Publication!Deliver
    <2>1. PICK v \in Versions, i \in Publication!Application :
            Changes(v, remote[v].name, remote[v].status, remote[v].items \cup {i})
      BY <1>26, DeliverChanges
    <2>2. UNCHANGED <<held, wandb_pc>>
      BY <1>26 DEF Publication!Deliver
    <2>3. \A u \in Versions : (Exact(u) => Exact(u)')
            /\ (Publication!Summarized(u) => Publication!Summarized(u)')
      BY <2>1
    <2>4. \A q \in Processes : wandb_pc[q] \in Consumed => held[q] \in Versions
      OBVIOUS
    <2> HIDE DEF Exact, Publication!Summarized, Changes
    <2> QED BY <2>2, <2>3, <2>4
  <1>27. CASE Publication!RenameArrives
    BY <1>27, ArriveChanges DEF Publication!RenameArrives
  <1>28. CASE Publication!Edit
    BY <1>28 DEF Publication!Edit
  <1>29. CASE Publication!PowerLoss
    BY <1>29 DEF Publication!PowerLoss, Publication!Live
  <1>30. CASE UNCHANGED Publication!vars
    BY <1>30 DEF Publication!vars
  <1> QED BY <1>1, <1>2, <1>3, <1>4, <1>5, <1>6, <1>7, <1>8, <1>9, <1>10, <1>11, <1>12, <1>13,
             <1>14, <1>15, <1>16, <1>17, <1>18, <1>19, <1>20, <1>21, <1>22, <1>23, <1>24,
             <1>25, <1>26, <1>27, <1>28, <1>29, <1>30
          DEF Publication!Next, Publication!Goes, Publication!Fails, Publication!Export,
            Publication!Publish

(* A commit that was noted is on the run, and stays noted.                 *)
LEMMA CommitStep == ASSUME PublicationInv, [Publication!Next]_Publication!vars PROVE CommitInv'
  <1> USE DEF PublicationInv, RemoteType, ProcessType, NoteType, WriterInv, HolderInv,
              CommitInv, Marked, Publication!CommitIsKept, Changes, Publication!At,
              Publication!Goto, Publication!Note, Publication!Keep, Publication!Step,
              Publication!Ends, Publication!Refuse, Publication!Serve, Publication!service,
              Publication!process, Publication!bounds, Places, Early, Exporting, Writing,
              Committing, Consumed, After, Publication!Application
  <1>1. ASSUME NEW p \in Processes, Publication!Validate(p) PROVE CommitInv'
    BY <1>1 DEF Publication!Validate
  <1>2. ASSUME NEW p \in Processes, Publication!_revalidated_payload_bytes(p) PROVE CommitInv'
    BY <1>2 DEF Publication!_revalidated_payload_bytes
  <1>3. ASSUME NEW p \in Processes, Publication!Stage(p) PROVE CommitInv'
    BY <1>3 DEF Publication!Stage
  <1>4. ASSUME NEW p \in Processes, Publication!SyncStaged(p) PROVE CommitInv'
    BY <1>4 DEF Publication!SyncStaged
  <1>5. ASSUME NEW p \in Processes, Publication!Link(p) PROVE CommitInv'
    BY <1>5 DEF Publication!Link
  <1>6. ASSUME NEW p \in Processes, Publication!CheckLinked(p) PROVE CommitInv'
    BY <1>6 DEF Publication!CheckLinked
  <1>7. ASSUME NEW p \in Processes, Publication!_fsync_directory(p) PROVE CommitInv'
    BY <1>7 DEF Publication!_fsync_directory
  <1>8. ASSUME NEW p \in Processes, Publication!Exported(p) PROVE CommitInv'
    BY <1>8 DEF Publication!Exported
  <1>9. ASSUME NEW p \in Processes, Publication!authorize_payload(p) PROVE CommitInv'
    BY <1>9 DEF Publication!authorize_payload
  <1>10. ASSUME NEW p \in Processes, Publication!SetUp(p) PROVE CommitInv'
    BY <1>10 DEF Publication!SetUp
  <1>11. ASSUME NEW p \in Processes, Publication!InitRun(p) PROVE CommitInv'
    BY <1>11, InitChanges DEF Publication!InitRun
  <1>12. ASSUME NEW p \in Processes, Publication!Send(p) PROVE CommitInv'
    BY <1>12, SendChanges DEF Publication!Send, Publication!Next_item
  <1>13. ASSUME NEW p \in Processes, Publication!Finish(p) PROVE CommitInv'
    BY <1>13, FinishChanges DEF Publication!Finish
  <1>14. ASSUME NEW p \in Processes, Publication!ReadRun(p) PROVE CommitInv'
    BY <1>14 DEF Publication!ReadRun
  <1>15. ASSUME NEW p \in Processes, Publication!ReadHistory(p) PROVE CommitInv'
    BY <1>15 DEF Publication!ReadHistory
  <1>16. ASSUME NEW p \in Processes, Publication!Rename(p) PROVE CommitInv'
    <2>1. UNCHANGED <<held, writers, report>> /\ wandb_pc[p] = "rename" /\ state[p] # "committed"
      BY <1>16 DEF Publication!Rename
    <2>2. held[p] \in Versions /\ p \in writers[held[p]]
      BY <2>1
    <2>3. \A q \in Processes : Marked(q) => Marked(q)'
      BY <2>1, <1>16, RenameChanges
    <2>4. CASE /\ remote' = Publication!Named(held[p])
                    /\ wandb_pc' = [wandb_pc EXCEPT ![p] = "acknowledged"]
               /\ UNCHANGED state
      <3>1. Changes(held[p], "hotkey", remote[held[p]].status, remote[held[p]].items)
        BY <2>2, <2>4, NamedChanges
      <3>2. Marked(p)'
        BY <2>1, <2>2, <3>1
      <3> HIDE DEF Marked, Changes
      <3> QED BY <2>1, <2>3, <2>4, <3>2
    <2>5. CASE /\ wandb_pc' = [wandb_pc EXCEPT ![p] = "resolve"]
               /\ state' = [state EXCEPT ![p] = "outcome_uncertain"]
      <3> HIDE DEF Marked, Changes
      <3> QED BY <2>1, <2>3, <2>5
    <2> QED BY <2>4, <2>5, <1>16 DEF Publication!Rename
  <1>17. ASSUME NEW p \in Processes, Publication!Acknowledged(p) PROVE CommitInv'
    BY <1>17 DEF Publication!Acknowledged
  <1>18. ASSUME NEW p \in Processes, Publication!Resolve(p) PROVE CommitInv'
    BY <1>18 DEF Publication!Resolve
  <1>19. ASSUME NEW p \in Processes, Publication!Verify(p) PROVE CommitInv'
    BY <1>19 DEF Publication!Verify
  <1>20. ASSUME NEW p \in Processes, Publication!Report(p) PROVE CommitInv'
    BY <1>20 DEF Publication!Report, Publication!Terminal
  <1>21. ASSUME NEW p \in Processes, Publication!ExportFails(p) PROVE CommitInv'
    BY <1>21 DEF Publication!ExportFails
  <1>22. ASSUME NEW p \in Processes, Publication!WritingFails(p) PROVE CommitInv'
    BY <1>22, FailChanges DEF Publication!WritingFails
  <1>23. ASSUME NEW p \in Processes, Publication!ReadbackFails(p) PROVE CommitInv'
    BY <1>23 DEF Publication!ReadbackFails
  <1>24. ASSUME NEW p \in Processes, Publication!Interrupt(p) PROVE CommitInv'
    BY <1>24 DEF Publication!Interrupt
  <1>25. ASSUME NEW p \in Processes, Publication!Kill(p) PROVE CommitInv'
    BY <1>25 DEF Publication!Kill, Publication!Live
  <1>26. CASE Publication!Deliver
    BY <1>26, DeliverChanges DEF Publication!Deliver
  <1>27. CASE Publication!RenameArrives
    BY <1>27, ArriveChanges DEF Publication!RenameArrives
  <1>28. CASE Publication!Edit
    BY <1>28 DEF Publication!Edit
  <1>29. CASE Publication!PowerLoss
    BY <1>29 DEF Publication!PowerLoss, Publication!Live
  <1>30. CASE UNCHANGED Publication!vars
    BY <1>30 DEF Publication!vars
  <1> QED BY <1>1, <1>2, <1>3, <1>4, <1>5, <1>6, <1>7, <1>8, <1>9, <1>10, <1>11, <1>12, <1>13,
             <1>14, <1>15, <1>16, <1>17, <1>18, <1>19, <1>20, <1>21, <1>22, <1>23, <1>24,
             <1>25, <1>26, <1>27, <1>28, <1>29, <1>30
          DEF Publication!Next, Publication!Goes, Publication!Fails, Publication!Export,
            Publication!Publish

LEMMA PublicationInit == ASSUME Publication!Init PROVE PublicationInv
  <1>1. [Publication!NewRun EXCEPT !.name = "none"] \in Runs
          /\ [Publication!NewRun EXCEPT !.name = "none"].name = "none"
    BY DEF Publication!NewRun, Runs
  <1>2. RemoteType /\ ProcessType /\ NoteType
    BY <1>1 DEF Publication!Init, RemoteType, ProcessType, NoteType, Places, Early
  <1>3. WriterInv /\ HolderInv
    BY <1>1 DEF Publication!Init, WriterInv, HolderInv, Early, Exporting, Consumed, Writing,
                Committing, Publication!Application
  <1>4. MarkInv /\ ReadInv /\ CommitInv
    BY <1>1 DEF Publication!Init, MarkInv, ReadInv, CommitInv, Publication!CommitIsKept,
                Committing
  <1> QED BY <1>2, <1>3, <1>4 DEF PublicationInv

-----------------------------------------------------------------------------
(* The payload file, step by step.                                         *)

LEMMA SomeFile ==
  ASSUME NEW c \in Versions \cup {Publication!Torn}, NEW b \in Processes \cup {"nobody"},
         NEW s \in BOOLEAN, NEW l \in BOOLEAN, NEW h \in BOOLEAN, NEW f,
         f = [content |-> c, by |-> b, synced |-> s, linked |-> l, there |-> h]
  PROVE  /\ f \in Files /\ f.content = c /\ f.by = b /\ f.synced = s /\ f.linked = l
         /\ f.there = h
  BY DEF Files

(* A loss of power leaves the file, with its content if it was on disk, or *)
(* nothing if the directory was not.                                       *)
LEMMA LossChanges ==
  ASSUME FileInv, Publication!PowerLoss
  PROVE  /\ file' \in Files
         /\ \/ /\ file'.content = IF file.synced THEN file.content ELSE Publication!Torn
               /\ file'.by = file.by /\ file'.synced = file.synced
               /\ file'.linked = file.there /\ file'.there = file.there
            \/ file' = Publication!NoFile /\ ~file.linked
  <1> DEFINE c == IF file.synced THEN file.content ELSE Publication!Torn
  <1>1. file \in Files /\ c \in Versions \cup {Publication!Torn} /\ file.there \in BOOLEAN
    BY DEF FileInv, Files
  <1>2. Publication!NoFile \in Files
    BY DEF Publication!NoFile, Files
  <1>3. \/ file' = [file EXCEPT !.linked = file.there, !.content = c]
        \/ file' = Publication!NoFile /\ ~file.linked
    BY DEF Publication!PowerLoss
  <1>4. CASE file' = Publication!NoFile /\ ~file.linked
    BY <1>2, <1>4
  <1>5. CASE file' = [file EXCEPT !.linked = file.there, !.content = c]
    <2> HIDE DEF c
    <2> DEFINE g == [file EXCEPT !.linked = file.there, !.content = c]
    <2>1. /\ g \in Files /\ g.content = c /\ g.by = file.by
          /\ g.synced = file.synced /\ g.linked = file.there /\ g.there = file.there
      BY <1>1 DEF Files
    <2>2. file' = g
      BY <1>5
    <2> HIDE DEF g
    <2> QED BY <2>1, <2>2 DEF c
  <1> QED BY <1>3, <1>4, <1>5

LEMMA LossLeaves ==
  ASSUME FileInv, Publication!PowerLoss
  PROVE  \/ file'.by = file.by /\ file'.linked = file.there
         \/ file'.by = "nobody" /\ ~file.linked
  <1>1. Publication!NoFile.by = "nobody"
    BY DEF Publication!NoFile
  <1>2. CASE file' = Publication!NoFile /\ ~file.linked
    BY <1>1, <1>2
  <1>3. CASE file'.by = file.by /\ file'.linked = file.there
    BY <1>3
  <1> QED BY <1>2, <1>3, LossChanges

LEMMA LossFile ==
  ASSUME Publication!PublicationAssumption, FileInv, Publication!PowerLoss
  PROVE  FileInv'
  <1>1. UNCHANGED edits /\ wandb_faults' \in 0..MaxFaults
    BY DEF Publication!PowerLoss, Publication!Fault, Publication!PublicationAssumption, FileInv
  <1>2. \A p \in Processes : wandb_pc'[p] \notin {"linked", "checked", "exported"}
    <2>1. \A p \in Processes : wandb_pc'[p] = IF Publication!Live(p) THEN "dead" ELSE wandb_pc[p]
      BY DEF Publication!PowerLoss
    <2> QED BY <2>1 DEF Publication!Live
  <1>3. Publication!NoFile.by = "nobody" /\ Publication!NoFile.there = FALSE
          /\ Publication!NoFile.linked = FALSE
    BY DEF Publication!NoFile
  <1>4. CASE file' = Publication!NoFile
    BY <1>1, <1>2, <1>3, <1>4, LossChanges DEF FileInv
  <1>5. CASE /\ file'.content = IF file.synced THEN file.content ELSE Publication!Torn
             /\ file'.by = file.by /\ file'.synced = file.synced
             /\ file'.linked = file.there /\ file'.there = file.there
    BY <1>1, <1>2, <1>5, LossChanges DEF FileInv
  <1> QED BY <1>4, <1>5, LossChanges

LEMMA LossExport ==
  ASSUME Publication!PublicationAssumption, DiskInv, Publication!PowerLoss PROVE ExportInv'
  <1>1. UNCHANGED <<report, edits>>
    BY DEF Publication!PowerLoss
  <1>2. \A p \in Processes : wandb_pc'[p] = IF Publication!Live(p) THEN "dead" ELSE wandb_pc[p]
    BY DEF Publication!PowerLoss
  <1>3. \/ file'.by = file.by /\ file'.linked = file.there
        \/ file'.by = "nobody" /\ ~file.linked
    BY LossLeaves DEF DiskInv
  <1>4. file.linked => file.there
    BY DEF DiskInv, FileInv
  <1>5. \A p \in Processes : wandb_pc'[p] = wandb_pc[p] \/ wandb_pc'[p] = "dead"
    BY <1>2
  <1>6. \A p \in Processes : wandb_pc'[p] \notin {"checked", "exported"}
    BY <1>2 DEF Publication!Live
  <1>7. ASSUME NEW p \in Processes, file'.by = p
        PROVE  wandb_pc'[p] \in {"linked", "checked", "exported", "ended", "dead"}
                 /\ report[p] # "refused"
    BY <1>3, <1>5, <1>7 DEF Publication!PublicationAssumption, DiskInv, ExportInv
  <1>8. ASSUME NEW p \in Processes, edits = 0, report[p] \in {"exported", "export_postcommit"}
        PROVE  file'.by = p /\ file'.linked
    BY <1>3, <1>4, <1>8 DEF DiskInv, ExportInv
  <1> QED BY <1>1, <1>6, <1>7, <1>8 DEF ExportInv

LEMMA SyncChanges ==
  ASSUME FileInv, NEW p \in Processes, Publication!_fsync_directory(p)
  PROVE  /\ file' \in Files /\ file'.content = file.content /\ file'.by = file.by
         /\ file'.synced = file.synced /\ file'.there = file.there /\ file'.linked
  <1> DEFINE g == [file EXCEPT !.linked = TRUE]
  <1>1. /\ g \in Files /\ g.content = file.content /\ g.by = file.by
        /\ g.synced = file.synced /\ g.there = file.there /\ g.linked
    BY DEF Files, FileInv
  <1>2. file' = g
    BY DEF Publication!_fsync_directory
  <1> HIDE DEF g
  <1> QED BY <1>1, <1>2

(* The file is whole or it is not there, after a power loss too.           *)
LEMMA FileStep ==
  ASSUME Publication!PublicationAssumption, PublicationInv, FileInv,
           [Publication!Next]_Publication!vars
  PROVE  FileInv'
  <1> USE DEF Publication!PublicationAssumption, PublicationInv, ProcessType, HolderInv,
              FileInv, Files, Publication!Fault, Publication!At, Publication!Goto,
              Publication!Note, Publication!Keep, Publication!Step, Publication!Ends,
              Publication!Refuse, Publication!Serve, Publication!service, Publication!process,
              Publication!bounds, Places, Early, Exporting, Writing, Committing, Consumed,
              After, Publication!Application
  <1>1. ASSUME NEW p \in Processes, Publication!Validate(p) PROVE FileInv'
    BY <1>1 DEF Publication!Validate
  <1>2. ASSUME NEW p \in Processes, Publication!_revalidated_payload_bytes(p) PROVE FileInv'
    BY <1>2 DEF Publication!_revalidated_payload_bytes
  <1>3. ASSUME NEW p \in Processes, Publication!Stage(p) PROVE FileInv'
    BY <1>3 DEF Publication!Stage
  <1>4. ASSUME NEW p \in Processes, Publication!SyncStaged(p) PROVE FileInv'
    BY <1>4 DEF Publication!SyncStaged
  <1>5. ASSUME NEW p \in Processes, Publication!Link(p) PROVE FileInv'
    <2>1. wandb_pc[p] = "staged" /\ UNCHANGED <<wandb_faults, edits>>
      BY <1>5 DEF Publication!Link
    <2>2. held[p] \in Versions /\ held[p] # Publication!Torn
      BY <2>1
    <2>3. CASE file' = [content |-> held[p], by |-> p, synced |-> TRUE, linked |-> FALSE,
                        there |-> TRUE]
      <3>1. file' \in Files /\ file'.content = held[p] /\ file'.synced /\ file'.there
        BY <2>3, <2>2, SomeFile
      <3> QED BY <2>1, <2>2, <3>1
    <2>4. CASE UNCHANGED file
      BY <2>1, <2>4, <1>5 DEF Publication!Link
    <2> QED BY <1>5, <2>3, <2>4 DEF Publication!Link
  <1>6. ASSUME NEW p \in Processes, Publication!CheckLinked(p) PROVE FileInv'
    BY <1>6 DEF Publication!CheckLinked
  <1>7. ASSUME NEW p \in Processes, Publication!_fsync_directory(p) PROVE FileInv'
    <2>1. wandb_pc[p] = "checked"
      BY <1>7 DEF Publication!_fsync_directory
    <2> QED BY <1>7, <2>1, SyncChanges DEF Publication!_fsync_directory
  <1>8. ASSUME NEW p \in Processes, Publication!Exported(p) PROVE FileInv'
    BY <1>8 DEF Publication!Exported
  <1>9. ASSUME NEW p \in Processes, Publication!authorize_payload(p) PROVE FileInv'
    BY <1>9 DEF Publication!authorize_payload
  <1>10. ASSUME NEW p \in Processes, Publication!SetUp(p) PROVE FileInv'
    BY <1>10 DEF Publication!SetUp
  <1>11. ASSUME NEW p \in Processes, Publication!InitRun(p) PROVE FileInv'
    BY <1>11 DEF Publication!InitRun, Publication!NewRun
  <1>12. ASSUME NEW p \in Processes, Publication!Send(p) PROVE FileInv'
    BY <1>12 DEF Publication!Send, Publication!Next_item
  <1>13. ASSUME NEW p \in Processes, Publication!Finish(p) PROVE FileInv'
    BY <1>13 DEF Publication!Finish
  <1>14. ASSUME NEW p \in Processes, Publication!ReadRun(p) PROVE FileInv'
    BY <1>14 DEF Publication!ReadRun
  <1>15. ASSUME NEW p \in Processes, Publication!ReadHistory(p) PROVE FileInv'
    BY <1>15 DEF Publication!ReadHistory
  <1>16. ASSUME NEW p \in Processes, Publication!Rename(p) PROVE FileInv'
    BY <1>16 DEF Publication!Rename
  <1>17. ASSUME NEW p \in Processes, Publication!Acknowledged(p) PROVE FileInv'
    BY <1>17 DEF Publication!Acknowledged
  <1>18. ASSUME NEW p \in Processes, Publication!Resolve(p) PROVE FileInv'
    BY <1>18 DEF Publication!Resolve
  <1>19. ASSUME NEW p \in Processes, Publication!Verify(p) PROVE FileInv'
    BY <1>19 DEF Publication!Verify
  <1>20. ASSUME NEW p \in Processes, Publication!Report(p) PROVE FileInv'
    BY <1>20 DEF Publication!Report, Publication!Terminal
  <1>21. ASSUME NEW p \in Processes, Publication!ExportFails(p) PROVE FileInv'
    BY <1>21 DEF Publication!ExportFails
  <1>22. ASSUME NEW p \in Processes, Publication!WritingFails(p) PROVE FileInv'
    BY <1>22 DEF Publication!WritingFails
  <1>23. ASSUME NEW p \in Processes, Publication!ReadbackFails(p) PROVE FileInv'
    BY <1>23 DEF Publication!ReadbackFails
  <1>24. ASSUME NEW p \in Processes, Publication!Interrupt(p) PROVE FileInv'
    BY <1>24 DEF Publication!Interrupt
  <1>25. ASSUME NEW p \in Processes, Publication!Kill(p) PROVE FileInv'
    BY <1>25 DEF Publication!Kill, Publication!Live
  <1>26. CASE Publication!Deliver
    BY <1>26 DEF Publication!Deliver
  <1>27. CASE Publication!RenameArrives
    BY <1>27 DEF Publication!RenameArrives
  <1>28. CASE Publication!Edit
    <2>1. wandb_faults' \in 0..MaxFaults /\ edits' \in 0..MaxEdits
      BY <1>28 DEF Publication!Edit
    <2>2. CASE UNCHANGED file
      BY <2>1, <2>2, <1>28 DEF Publication!Edit
    <2>3. ASSUME NEW v \in Versions,
                 file' = [content |-> v, by |-> "nobody", synced |-> TRUE, linked |-> TRUE,
                          there |-> TRUE]
          PROVE  FileInv'
      BY <2>1, <2>3, SomeFile
    <2> QED BY <1>28, <2>2, <2>3 DEF Publication!Edit
  <1>29. CASE Publication!PowerLoss
    BY <1>29, LossFile
  <1>30. CASE UNCHANGED Publication!vars
    BY <1>30 DEF Publication!vars
  <1> QED BY <1>1, <1>2, <1>3, <1>4, <1>5, <1>6, <1>7, <1>8, <1>9, <1>10, <1>11, <1>12, <1>13,
             <1>14, <1>15, <1>16, <1>17, <1>18, <1>19, <1>20, <1>21, <1>22, <1>23, <1>24,
             <1>25, <1>26, <1>27, <1>28, <1>29, <1>30
       DEF Publication!Next, Publication!Goes, Publication!Fails, Publication!Export,
         Publication!Publish

(* What ends is reported, and what created a run has noted it.             *)
LEMMA NotedStep ==
  ASSUME PublicationInv, NotedInv, [Publication!Next]_Publication!vars PROVE NotedInv'
  <1> USE DEF PublicationInv, ProcessType, NoteType, WriterInv, HolderInv, NotedInv,
              Publication!At, Publication!Goto, Publication!Note, Publication!Keep,
              Publication!Step, Publication!Ends, Publication!Refuse, Publication!Serve,
              Publication!service, Publication!process, Publication!bounds, Places, Early,
              Exporting, Writing, Committing, Consumed, After, Publication!Application
  <1>1. ASSUME NEW p \in Processes, Publication!Validate(p) PROVE NotedInv'
    BY <1>1 DEF Publication!Validate
  <1>2. ASSUME NEW p \in Processes, Publication!_revalidated_payload_bytes(p) PROVE NotedInv'
    BY <1>2 DEF Publication!_revalidated_payload_bytes
  <1>3. ASSUME NEW p \in Processes, Publication!Stage(p) PROVE NotedInv'
    BY <1>3 DEF Publication!Stage
  <1>4. ASSUME NEW p \in Processes, Publication!SyncStaged(p) PROVE NotedInv'
    BY <1>4 DEF Publication!SyncStaged
  <1>5. ASSUME NEW p \in Processes, Publication!Link(p) PROVE NotedInv'
    BY <1>5 DEF Publication!Link
  <1>6. ASSUME NEW p \in Processes, Publication!CheckLinked(p) PROVE NotedInv'
    BY <1>6 DEF Publication!CheckLinked
  <1>7. ASSUME NEW p \in Processes, Publication!_fsync_directory(p) PROVE NotedInv'
    BY <1>7 DEF Publication!_fsync_directory
  <1>8. ASSUME NEW p \in Processes, Publication!Exported(p) PROVE NotedInv'
    BY <1>8 DEF Publication!Exported
  <1>9. ASSUME NEW p \in Processes, Publication!authorize_payload(p) PROVE NotedInv'
    BY <1>9 DEF Publication!authorize_payload
  <1>10. ASSUME NEW p \in Processes, Publication!SetUp(p) PROVE NotedInv'
    BY <1>10 DEF Publication!SetUp
  <1>11. ASSUME NEW p \in Processes, Publication!InitRun(p) PROVE NotedInv'
    BY <1>11 DEF Publication!InitRun, Publication!NewRun
  <1>12. ASSUME NEW p \in Processes, Publication!Send(p) PROVE NotedInv'
    BY <1>12 DEF Publication!Send, Publication!Next_item
  <1>13. ASSUME NEW p \in Processes, Publication!Finish(p) PROVE NotedInv'
    BY <1>13 DEF Publication!Finish
  <1>14. ASSUME NEW p \in Processes, Publication!ReadRun(p) PROVE NotedInv'
    BY <1>14 DEF Publication!ReadRun
  <1>15. ASSUME NEW p \in Processes, Publication!ReadHistory(p) PROVE NotedInv'
    BY <1>15 DEF Publication!ReadHistory
  <1>16. ASSUME NEW p \in Processes, Publication!Rename(p) PROVE NotedInv'
    BY <1>16 DEF Publication!Rename
  <1>17. ASSUME NEW p \in Processes, Publication!Acknowledged(p) PROVE NotedInv'
    BY <1>17 DEF Publication!Acknowledged
  <1>18. ASSUME NEW p \in Processes, Publication!Resolve(p) PROVE NotedInv'
    BY <1>18 DEF Publication!Resolve
  <1>19. ASSUME NEW p \in Processes, Publication!Verify(p) PROVE NotedInv'
    BY <1>19 DEF Publication!Verify
  <1>20. ASSUME NEW p \in Processes, Publication!Report(p) PROVE NotedInv'
    BY <1>20 DEF Publication!Report, Publication!Terminal
  <1>21. ASSUME NEW p \in Processes, Publication!ExportFails(p) PROVE NotedInv'
    BY <1>21 DEF Publication!ExportFails
  <1>22. ASSUME NEW p \in Processes, Publication!WritingFails(p) PROVE NotedInv'
    BY <1>22 DEF Publication!WritingFails
  <1>23. ASSUME NEW p \in Processes, Publication!ReadbackFails(p) PROVE NotedInv'
    BY <1>23 DEF Publication!ReadbackFails
  <1>24. ASSUME NEW p \in Processes, Publication!Interrupt(p) PROVE NotedInv'
    BY <1>24 DEF Publication!Interrupt
  <1>25. ASSUME NEW p \in Processes, Publication!Kill(p) PROVE NotedInv'
    BY <1>25 DEF Publication!Kill, Publication!Live
  <1>26. CASE Publication!Deliver
    BY <1>26 DEF Publication!Deliver
  <1>27. CASE Publication!RenameArrives
    BY <1>27 DEF Publication!RenameArrives
  <1>28. CASE Publication!Edit
    BY <1>28 DEF Publication!Edit
  <1>29. CASE Publication!PowerLoss
    BY <1>29 DEF Publication!PowerLoss, Publication!Live
  <1>30. CASE UNCHANGED Publication!vars
    BY <1>30 DEF Publication!vars
  <1> QED BY <1>1, <1>2, <1>3, <1>4, <1>5, <1>6, <1>7, <1>8, <1>9, <1>10, <1>11, <1>12, <1>13,
             <1>14, <1>15, <1>16, <1>17, <1>18, <1>19, <1>20, <1>21, <1>22, <1>23, <1>24,
             <1>25, <1>26, <1>27, <1>28, <1>29, <1>30
       DEF Publication!Next, Publication!Goes, Publication!Fails, Publication!Export,
         Publication!Publish

(* A file in place stays the file of the process that linked it.           *)
LEMMA ExportStep ==
  ASSUME Publication!PublicationAssumption, PublicationInv, DiskInv,
           [Publication!Next]_Publication!vars
  PROVE  ExportInv'
  <1> USE DEF Publication!PublicationAssumption, PublicationInv, ProcessType, NoteType,
              HolderInv, DiskInv, FileInv, Files, NotedInv, ExportInv, Publication!NoFile,
              Publication!At, Publication!Goto, Publication!Note, Publication!Keep,
              Publication!Step, Publication!Ends, Publication!Refuse, Publication!Serve,
              Publication!service, Publication!process, Publication!bounds, Places, Early,
              Exporting, Writing, Committing, Consumed, After, Publication!Application
  <1>1. ASSUME NEW p \in Processes, Publication!Validate(p) PROVE ExportInv'
    BY <1>1 DEF Publication!Validate
  <1>2. ASSUME NEW p \in Processes, Publication!_revalidated_payload_bytes(p) PROVE ExportInv'
    BY <1>2 DEF Publication!_revalidated_payload_bytes
  <1>3. ASSUME NEW p \in Processes, Publication!Stage(p) PROVE ExportInv'
    BY <1>3 DEF Publication!Stage
  <1>4. ASSUME NEW p \in Processes, Publication!SyncStaged(p) PROVE ExportInv'
    BY <1>4 DEF Publication!SyncStaged
  <1>5. ASSUME NEW p \in Processes, Publication!Link(p) PROVE ExportInv'
    BY <1>5 DEF Publication!Link
  <1>6. ASSUME NEW p \in Processes, Publication!CheckLinked(p) PROVE ExportInv'
    BY <1>6 DEF Publication!CheckLinked
  <1>7. ASSUME NEW p \in Processes, Publication!_fsync_directory(p) PROVE ExportInv'
    BY <1>7 DEF Publication!_fsync_directory
  <1>8. ASSUME NEW p \in Processes, Publication!Exported(p) PROVE ExportInv'
    BY <1>8 DEF Publication!Exported
  <1>9. ASSUME NEW p \in Processes, Publication!authorize_payload(p) PROVE ExportInv'
    BY <1>9 DEF Publication!authorize_payload
  <1>10. ASSUME NEW p \in Processes, Publication!SetUp(p) PROVE ExportInv'
    BY <1>10 DEF Publication!SetUp
  <1>11. ASSUME NEW p \in Processes, Publication!InitRun(p) PROVE ExportInv'
    BY <1>11 DEF Publication!InitRun, Publication!NewRun
  <1>12. ASSUME NEW p \in Processes, Publication!Send(p) PROVE ExportInv'
    BY <1>12 DEF Publication!Send, Publication!Next_item
  <1>13. ASSUME NEW p \in Processes, Publication!Finish(p) PROVE ExportInv'
    BY <1>13 DEF Publication!Finish
  <1>14. ASSUME NEW p \in Processes, Publication!ReadRun(p) PROVE ExportInv'
    BY <1>14 DEF Publication!ReadRun
  <1>15. ASSUME NEW p \in Processes, Publication!ReadHistory(p) PROVE ExportInv'
    BY <1>15 DEF Publication!ReadHistory
  <1>16. ASSUME NEW p \in Processes, Publication!Rename(p) PROVE ExportInv'
    BY <1>16 DEF Publication!Rename
  <1>17. ASSUME NEW p \in Processes, Publication!Acknowledged(p) PROVE ExportInv'
    BY <1>17 DEF Publication!Acknowledged
  <1>18. ASSUME NEW p \in Processes, Publication!Resolve(p) PROVE ExportInv'
    BY <1>18 DEF Publication!Resolve
  <1>19. ASSUME NEW p \in Processes, Publication!Verify(p) PROVE ExportInv'
    BY <1>19 DEF Publication!Verify
  <1>20. ASSUME NEW p \in Processes, Publication!Report(p) PROVE ExportInv'
    BY <1>20 DEF Publication!Report, Publication!Terminal
  <1>21. ASSUME NEW p \in Processes, Publication!ExportFails(p) PROVE ExportInv'
    BY <1>21 DEF Publication!ExportFails
  <1>22. ASSUME NEW p \in Processes, Publication!WritingFails(p) PROVE ExportInv'
    BY <1>22 DEF Publication!WritingFails
  <1>23. ASSUME NEW p \in Processes, Publication!ReadbackFails(p) PROVE ExportInv'
    BY <1>23 DEF Publication!ReadbackFails
  <1>24. ASSUME NEW p \in Processes, Publication!Interrupt(p) PROVE ExportInv'
    BY <1>24 DEF Publication!Interrupt
  <1>25. ASSUME NEW p \in Processes, Publication!Kill(p) PROVE ExportInv'
    BY <1>25 DEF Publication!Kill, Publication!Live
  <1>26. CASE Publication!Deliver
    BY <1>26 DEF Publication!Deliver
  <1>27. CASE Publication!RenameArrives
    BY <1>27 DEF Publication!RenameArrives
  <1>28. CASE Publication!Edit
    BY <1>28 DEF Publication!Edit
  <1>29. CASE Publication!PowerLoss
    BY <1>29, LossExport
  <1>30. CASE UNCHANGED Publication!vars
    BY <1>30 DEF Publication!vars
  <1> QED BY <1>1, <1>2, <1>3, <1>4, <1>5, <1>6, <1>7, <1>8, <1>9, <1>10, <1>11, <1>12, <1>13,
             <1>14, <1>15, <1>16, <1>17, <1>18, <1>19, <1>20, <1>21, <1>22, <1>23, <1>24,
             <1>25, <1>26, <1>27, <1>28, <1>29, <1>30
       DEF Publication!Next, Publication!Goes, Publication!Fails, Publication!Export,
         Publication!Publish

LEMMA InitDisk == ASSUME Publication!PublicationAssumption, Publication!Init PROVE DiskInv
  <1>1. Publication!NoFile \in Files
    BY DEF Publication!NoFile, Files
  <1>2. FileInv
    <2>1. CASE file = Publication!NoFile
      BY <1>1, <2>1 DEF Publication!NoFile, Publication!PublicationAssumption,
                        Publication!Init, FileInv
    <2>2. ASSUME NEW v \in Versions,
                 file = [content |-> v, by |-> "nobody", synced |-> TRUE, linked |-> TRUE,
                         there |-> TRUE]
          PROVE  FileInv
      <3>1. /\ v # Publication!Torn /\ v \in Versions \cup {Publication!Torn}
                 /\ "nobody" \in Processes \cup {"nobody"}
            /\ TRUE \in BOOLEAN
        BY <2>2 DEF Publication!PublicationAssumption
      <3>2. file \in Files /\ file.content = v /\ file.by = "nobody" /\ file.synced /\ file.there
        BY <2>2, <3>1 DEF Files
      <3> QED BY <3>1, <3>2 DEF Publication!PublicationAssumption, Publication!Init, FileInv
    <2> QED BY <2>1, <2>2 DEF Publication!Init
  <1>3. file.by = "nobody"
    BY DEF Publication!Init, Publication!NoFile
  <1>4. NotedInv /\ ExportInv
    BY <1>3 DEF Publication!PublicationAssumption, Publication!Init, NotedInv, ExportInv,
                Consumed, Writing, Committing, Publication!Application
  <1> QED BY <1>2, <1>4 DEF DiskInv

-----------------------------------------------------------------------------
(* Theorems.                                                               *)

LEMMA PublicationStep ==
  ASSUME PublicationInv, [Publication!Next]_Publication!vars
  PROVE  PublicationInv'
  BY RemoteStep, ProcessStep, NoteStep, WriterStep, HolderStep, MarkStep, ReadStep, CommitStep
     DEF PublicationInv

LEMMA DiskStep ==
  ASSUME Publication!PublicationAssumption, PublicationInv, DiskInv,
           [Publication!Next]_Publication!vars
  PROVE  DiskInv'
  BY FileStep, NotedStep, ExportStep DEF DiskInv

LEMMA InvMarked == ASSUME PublicationInv PROVE Publication!MarkedIsExact
  BY DEF PublicationInv, MarkInv, Settled, Exact, Publication!MarkedIsExact

LEMMA InvCommitted == ASSUME PublicationInv PROVE Publication!CommittedIsMarked
  <1>1. ASSUME NEW p \in Processes, report[p] \in {"committed", "postcommit"}
        PROVE  remote[held[p]].name = "hotkey" /\ writers[held[p]] = {p}
    <2>1. held[p] \in Versions /\ p \in writers[held[p]] /\ remote[held[p]].name = "hotkey"
      BY <1>1 DEF PublicationInv, CommitInv, Marked
    <2>2. \A q \in writers[held[p]] : q = p
      BY <1>1, <2>1 DEF PublicationInv, WriterInv
    <2> QED BY <2>1, <2>2
  <1> QED BY <1>1 DEF Publication!CommittedIsMarked

LEMMA InvReplayed == ASSUME PublicationInv PROVE Publication!NeverReplayed
  BY DEF PublicationInv, WriterInv, Publication!NeverReplayed

(* What the two invariants say of the module's properties.                 *)
LEMMA PublicationPromises ==
  ASSUME PublicationInv, DiskInv
  PROVE  /\ Publication!TypeOK /\ Publication!MarkedIsExact /\ Publication!CommittedIsMarked
              /\ Publication!CommitIsKept /\ Publication!NeverReplayed
         /\ Publication!CreatedIsAuthorized /\ Publication!ExportedIsComplete
              /\ Publication!ExportIsReported
  <1>1. Publication!TypeOK
    BY DEF PublicationInv, RemoteType, Runs, ProcessType, NoteType, WriterInv, DiskInv,
           FileInv, Files, NotedInv, Publication!TypeOK
  <1>2. Publication!CommitIsKept /\ Publication!CreatedIsAuthorized
    BY DEF PublicationInv, WriterInv, Publication!CreatedIsAuthorized, CommitInv
  <1>3. Publication!ExportedIsComplete /\ Publication!ExportIsReported
    BY DEF DiskInv, FileInv, ExportInv, Publication!ExportedIsComplete,
           Publication!ExportIsReported
  <1> QED BY <1>1, <1>2, <1>3, InvMarked, InvCommitted, InvReplayed

LEMMA ReplaceStep ==
  ASSUME Publication!PublicationAssumption, PublicationInv, DiskInv,
           [Publication!Next]_Publication!vars
  PROVE  Publication!NeverReplacedStep
  <1> SUFFICES ASSUME NEW p \in Processes, file.there, file'.by = p PROVE file.by = p
    BY DEF Publication!NeverReplacedStep
  <1>1. CASE UNCHANGED file
    BY <1>1
  <1>2. ASSUME NEW q \in Processes, Publication!Goes(q) \/ Publication!Fails(q)
        PROVE file' = file \/ file'.by = file.by
    BY <1>2 DEF Publication!Goes, Publication!Fails, Publication!Export, Publication!Publish,
                Publication!Validate, Publication!_revalidated_payload_bytes,
                Publication!Stage, Publication!SyncStaged, Publication!Link,
                Publication!CheckLinked, Publication!_fsync_directory, Publication!Exported,
                Publication!authorize_payload, Publication!SetUp, Publication!InitRun,
                Publication!Send, Publication!Finish, Publication!ReadRun,
                Publication!ReadHistory, Publication!Rename, Publication!Acknowledged,
                Publication!Resolve, Publication!Verify, Publication!Report,
                Publication!ExportFails, Publication!WritingFails, Publication!ReadbackFails,
                Publication!Interrupt, Publication!Kill, Publication!Step, Publication!Refuse,
                Publication!Serve, DiskInv, FileInv, Files
  <1>3. CASE Publication!PowerLoss
    <2>1. Publication!NoFile.by = "nobody"
      BY DEF Publication!NoFile
    <2>2. file'.by = file.by \/ file'.by = "nobody"
      BY <1>3, <2>1, LossChanges DEF DiskInv
    <2> QED BY <2>2 DEF Publication!PublicationAssumption
  <1>4. CASE Publication!Edit
    BY <1>4 DEF Publication!Edit, Publication!PublicationAssumption
  <1> QED BY <1>1, <1>2, <1>3, <1>4 DEF Publication!Next, Publication!vars,
                                        Publication!Deliver, Publication!RenameArrives

-----------------------------------------------------------------------------
(* The components together.                                                *)

(* The invariant of the component that runs; no extrinsic is pending or    *)
(* has landed where none is authorized.                                    *)
SuiteInv ==
  /\ unit = "release" => Release!Inv /\ Release!FullInv
  /\ unit = "release without digests" => Undigested!Inv
  /\ unit = "authorization" => TxInv
  /\ unit = "wandb" => PublicationInv /\ DiskInv
  /\ unit = "conversion" => Conversion!Inv
  /\ unit = "two conversions" => Race!Inv
  /\ unit # "authorization" => pool = {} /\ landed = "none"

(* A step of the whole is a step of the component that runs, and of no     *)
(* other.                                                                  *)
LEMMA UnitSteps ==
  ASSUME [SuiteNext]_all
  PROVE  /\ UNCHANGED unit
         /\ unit = "release" => [Release!Next]_Release!vars
         /\ unit = "release without digests" => [Undigested!Next]_Undigested!vars
         /\ unit = "authorization" => [Tx!Next]_Tx!vars
         /\ unit = "wandb" => [Publication!Next]_Publication!vars
         /\ unit = "conversion" => [Conversion!Next]_Conversion!vars
         /\ unit = "two conversions" => [Race!Next]_Race!vars
         /\ unit # "authorization" => UNCHANGED <<pool, landed>>
  <1>1. UNCHANGED unit
    BY DEF SuiteNext, all
  <1>2. CASE UNCHANGED all
    BY <1>2 DEF all, Release!vars, Undigested!vars, Tx!vars, Tx!call, Tx!chain, Publication!vars,
                Publication!process, Publication!service, Publication!bounds,
                Conversion!vars, Conversion!disk, Conversion!loader, Conversion!held,
                Race!vars, Race!disk, Race!loader, Race!held
  <1>3. CASE SuiteNext
    BY <1>1, <1>3 DEF SuiteNext, Still
  <1> QED BY <1>1, <1>2, <1>3

LEMMA SuiteInitInv == ASSUME SuiteInit PROVE SuiteInv
  <1>1. ASSUME unit = "release" PROVE Release!Inv /\ Release!FullInv
    <2>1. Release!Init
      BY <1>1 DEF SuiteInit
    <2> QED BY <2>1, Release!InitInv, Release!InitFull, ParametersAssumption
  <1>2. ASSUME unit = "release without digests" PROVE Undigested!Inv
    <2>1. Undigested!Init
      BY <1>2 DEF SuiteInit
    <2> QED BY <2>1, Undigested!InitInv, ParametersAssumption
  <1>3. ASSUME unit = "authorization" PROVE TxInv
    <2>1. Tx!Init
      BY <1>3 DEF SuiteInit
    <2> QED BY <2>1, TxInit
  <1>4. ASSUME unit = "wandb" PROVE PublicationInv /\ DiskInv
    <2>1. Publication!Init
      BY <1>4 DEF SuiteInit
    <2> QED BY <2>1, PublicationInit, InitDisk, ParametersAssumption
  <1>5. ASSUME unit = "conversion" PROVE Conversion!Inv
    <2>1. Conversion!Init
      BY <1>5 DEF SuiteInit
    <2> QED BY <2>1, Conversion!InitInv, ParametersAssumption
  <1>6. ASSUME unit = "two conversions" PROVE Race!Inv
    <2>1. Race!Init
      BY <1>6 DEF SuiteInit
    <2> QED BY <2>1, Race!InitInv, ParametersAssumption
  <1>7. ASSUME unit # "authorization" PROVE pool = {} /\ landed = "none"
    BY <1>7 DEF SuiteInit, Idle
  <1> QED BY <1>1, <1>2, <1>3, <1>4, <1>5, <1>6, <1>7 DEF SuiteInv

LEMMA SuiteInvStep == ASSUME SuiteInv, [SuiteNext]_all PROVE SuiteInv'
  <1>1. UNCHANGED unit
    BY UnitSteps
  <1>2. ASSUME unit = "release" PROVE (Release!Inv /\ Release!FullInv)'
    <2>1. Release!Inv /\ Release!FullInv /\ [Release!Next]_Release!vars
      BY <1>2, UnitSteps DEF SuiteInv
    <2> QED BY <2>1, Release!InvStep, Release!FullStep, ParametersAssumption
  <1>3. ASSUME unit = "release without digests" PROVE Undigested!Inv'
    <2>1. Undigested!Inv /\ [Undigested!Next]_Undigested!vars
      BY <1>3, UnitSteps DEF SuiteInv
    <2> QED BY <2>1, Undigested!InvStep, ParametersAssumption
  <1>4. ASSUME unit = "authorization" PROVE TxInv'
    <2>1. TxInv /\ [Tx!Next]_Tx!vars
      BY <1>4, UnitSteps DEF SuiteInv
    <2> QED BY <2>1, TxStep, ParametersAssumption
  <1>5. ASSUME unit = "wandb" PROVE (PublicationInv /\ DiskInv)'
    <2>1. PublicationInv /\ DiskInv /\ [Publication!Next]_Publication!vars
      BY <1>5, UnitSteps DEF SuiteInv
    <2> QED BY <2>1, PublicationStep, DiskStep, ParametersAssumption
  <1>6. ASSUME unit = "conversion" PROVE Conversion!Inv'
    <2>1. Conversion!Inv /\ [Conversion!Next]_Conversion!vars
      BY <1>6, UnitSteps DEF SuiteInv
    <2> QED BY <2>1, Conversion!InvStep, ParametersAssumption
  <1>7. ASSUME unit = "two conversions" PROVE Race!Inv'
    <2>1. Race!Inv /\ [Race!Next]_Race!vars
      BY <1>7, UnitSteps DEF SuiteInv
    <2> QED BY <2>1, Race!InvStep, ParametersAssumption
  <1>8. ASSUME unit # "authorization" PROVE (pool = {} /\ landed = "none")'
    BY <1>8, UnitSteps DEF SuiteInv
  <1> QED BY <1>1, <1>2, <1>3, <1>4, <1>5, <1>6, <1>7, <1>8 DEF SuiteInv

(* The component that runs satisfies its invariant in every state, for     *)
(* every value of the constants.                                           *)
THEOREM SuiteInvariance == SuiteSpec => []SuiteInv
  <1>1. SuiteInit => SuiteInv
    BY SuiteInitInv
  <1>2. SuiteInv /\ [SuiteNext]_all => SuiteInv'
    BY SuiteInvStep
  <1> QED BY <1>1, <1>2, PTL DEF SuiteSpec

(* A publisher goes on only with the exact thing it was to publish: a      *)
(* release that is public and what the manifest signs, immutable unless an *)
(* owner turned the setting off, whether or not GitHub states digests      *)
(* (verify_source), and a call of backend.publish that is on chain,        *)
(* successfully and free of charge.                                        *)
THEOREM PublishedCorrect == SuiteSpec => []PublishedIsExact
  <1>1. SuiteInv => PublishedIsExact
    BY DEF SuiteInv, PublishedIsExact, Release!Inv, Undigested!Inv, TxInv
  <1> QED BY <1>1, SuiteInvariance, PTL

(* The marker is only ever on a whole run, and a publication is reported   *)
(* as committed exactly if it knows of its marker (publish of              *)
(* publish_code_provenance.py), for any number of invocations.             *)
THEOREM CommitCorrect == SuiteSpec => []CommitIsExact
  <1>1. ASSUME SuiteInv, unit = "wandb"
        PROVE  /\ Publication!MarkedIsExact /\ Publication!CommittedIsMarked
               /\ Publication!CommitIsKept
    <2>1. PublicationInv /\ DiskInv
      BY <1>1 DEF SuiteInv
    <2> QED BY <2>1, PublicationPromises, ParametersAssumption
  <1>2. SuiteInv => CommitIsExact
    BY <1>1 DEF CommitIsExact
  <1> QED BY <1>2, SuiteInvariance, PTL

(* No replay of a payload writes into a run that exists (resume="never").  *)
THEOREM ReplayedCorrect == SuiteSpec => []NeverReplayed
  <1>1. ASSUME SuiteInv, unit = "wandb" PROVE Publication!NeverReplayed
    <2>1. PublicationInv /\ DiskInv
      BY <1>1 DEF SuiteInv
    <2> QED BY <2>1, PublicationPromises, ParametersAssumption
  <1>2. SuiteInv => NeverReplayed
    BY <1>1 DEF NeverReplayed
  <1> QED BY <1>2, SuiteInvariance, PTL

(* What is published was authorized, and what an export reports holds of   *)
(* the disk, power losses included (export_payload, authorize_payload).    *)
THEOREM ExportCorrect == SuiteSpec => []ExportIsExact
  <1>1. ASSUME SuiteInv, unit = "wandb"
        PROVE  /\ Publication!CreatedIsAuthorized /\ Publication!ExportedIsComplete
               /\ Publication!ExportIsReported
    <2>1. PublicationInv /\ DiskInv
      BY <1>1 DEF SuiteInv
    <2> QED BY <2>1, PublicationPromises, ParametersAssumption
  <1>2. SuiteInv => ExportIsExact
    BY <1>1 DEF ExportIsExact
  <1> QED BY <1>2, SuiteInvariance, PTL

(* What the conversions' invariant says of the whole. *)
LEMMA ConversionsPromise ==
  ASSUME SuiteInv
  PROVE  /\ unit = "conversion" => /\ Conversion!TypeOK /\ Conversion!LoadedIsOneRun
                                   /\ Conversion!BundleIsExact /\ Conversion!CurrentIsCalibrated
                                   /\ Conversion!ReturnedIsThere /\ Conversion!StagingRemoved
                                   /\ Conversion!CalibratedIsReproduced
         /\ unit = "two conversions" => /\ Race!TypeOK /\ Race!LoadedIsOneRun
                                        /\ Race!BundleIsExact /\ Race!CurrentIsCalibrated
                                        /\ Race!ReturnedIsThere /\ Race!StagingRemoved
                                        /\ Race!CalibratedIsReproduced
  <1>1. CASE unit = "conversion"
    <2>1. Conversion!Inv
      BY <1>1 DEF SuiteInv
    <2>2. /\ Conversion!TypeOK /\ Conversion!LoadedIsOneRun /\ Conversion!BundleIsExact
          /\ Conversion!CurrentIsCalibrated /\ Conversion!ReturnedIsThere
          /\ Conversion!StagingRemoved /\ Conversion!CalibratedIsReproduced
      BY <2>1, Conversion!Promises, ParametersAssumption
    <2> QED BY <1>1, <2>2
  <1>2. CASE unit = "two conversions"
    <2>1. Race!Inv
      BY <1>2 DEF SuiteInv
    <2>2. /\ Race!TypeOK /\ Race!LoadedIsOneRun /\ Race!BundleIsExact
          /\ Race!CurrentIsCalibrated /\ Race!ReturnedIsThere /\ Race!StagingRemoved
          /\ Race!CalibratedIsReproduced
      BY <2>1, Race!Promises, ParametersAssumption
    <2> QED BY <1>2, <2>2
  <1> QED BY <1>1, <1>2

(* A load that succeeds has read the files of one run, whichever were      *)
(* replaced between its reads (_load_training_run).                        *)
THEOREM LoadedCorrect == SuiteSpec => []LoadedIsOneRun
  <1>1. SuiteInv => LoadedIsOneRun
    BY ConversionsPromise DEF LoadedIsOneRun
  <1> QED BY <1>1, SuiteInvariance, PTL

(* A bundle is of the run and the build that its receipt names, whatever   *)
(* was replaced meanwhile and however many converters race for its place   *)
(* (_convert_calibrated, _same_identity, _publish_directory_noreplace).    *)
THEOREM BundleCorrect == SuiteSpec => []BundleIsExact
  <1>1. SuiteInv => BundleIsExact
    BY ConversionsPromise DEF BundleIsExact
  <1> QED BY <1>1, SuiteInvariance, PTL

(* A calibrated bundle holds what a repetition produces (the determinism   *)
(* replay), for any number of misbehaving commands.                        *)
THEOREM ReproducedCorrect == SuiteSpec => []CalibratedIsReproduced
  <1>1. SuiteInv => CalibratedIsReproduced
    BY ConversionsPromise DEF CalibratedIsReproduced
  <1> QED BY <1>1, SuiteInvariance, PTL

(* What has been published is never replaced: neither an exported payload  *)
(* (os.link) nor a bundle (RENAME_NOREPLACE), by any number of processes.  *)
THEOREM StaysCorrect == SuiteSpec => PublishedStays
  <1>1. ASSUME SuiteInv, [SuiteNext]_all, unit = "wandb" PROVE Publication!NeverReplacedStep
    <2>1. PublicationInv /\ DiskInv /\ [Publication!Next]_Publication!vars
      BY <1>1, UnitSteps DEF SuiteInv
    <2> QED BY <2>1, ReplaceStep, ParametersAssumption
  <1>2. ASSUME SuiteInv, [SuiteNext]_all, unit = "conversion" PROVE Conversion!BundleStaysStep
    <2>1. Conversion!Inv /\ [Conversion!Next]_Conversion!vars
      BY <1>2, UnitSteps DEF SuiteInv
    <2> QED BY <2>1, Conversion!StaysStep, ParametersAssumption
  <1>3. ASSUME SuiteInv, [SuiteNext]_all, unit = "two conversions" PROVE Race!BundleStaysStep
    <2>1. Race!Inv /\ [Race!Next]_Race!vars
      BY <1>3, UnitSteps DEF SuiteInv
    <2> QED BY <2>1, Race!StaysStep, ParametersAssumption
  <1>4. SuiteInv /\ [SuiteNext]_all =>
          /\ unit = "wandb" => Publication!NeverReplacedStep
          /\ unit = "conversion" => Conversion!BundleStaysStep
          /\ unit = "two conversions" => Race!BundleStaysStep
    BY <1>1, <1>2, <1>3
  <1> QED BY <1>4, SuiteInvariance, PTL DEF SuiteSpec, PublishedStays

(* The variables of the component that runs have their types, with what    *)
(* its module says of them together.                                       *)
THEOREM TypeCorrect == SuiteSpec => []TypeOK
  <1>1. ASSUME SuiteInv, unit = "wandb" PROVE Publication!TypeOK
    <2>1. PublicationInv /\ DiskInv
      BY <1>1 DEF SuiteInv
    <2> QED BY <2>1, PublicationPromises, ParametersAssumption
  <1>2. SuiteInv => TypeOK
    BY <1>1, ConversionsPromise DEF SuiteInv, TypeOK, Release!Inv, Undigested!Inv, TxInv
  <1> QED BY <1>2, SuiteInvariance, PTL

(* Nothing is broadcast that an input has spoken against ever since it was *)
(* signed (_submit_authorized_commitment).                                 *)
THEOREM SentCorrect == SuiteSpec => SentIsAuthorized
  <1>1. ASSUME SuiteInv, [SuiteNext]_all, unit = "authorization" PROVE Tx!SentIsAuthorizedStep
    BY <1>1, UnitSteps, TxAuthorizedStep DEF SuiteInv
  <1>2. SuiteInv /\ [SuiteNext]_all => (unit = "authorization" => Tx!SentIsAuthorizedStep)
    BY <1>1
  <1> QED BY <1>2, SuiteInvariance, PTL DEF SuiteSpec, SentIsAuthorized

(* One call of backend.publish calls submit_extrinsic at most once, for    *)
(* every era, chain height and number of lost answers; without it nothing  *)
(* of the call is pending or on chain, and it is decided once              *)
(* (_submit_authorized_commitment).                                        *)
THEOREM SendsCorrect == SuiteSpec => []SendsOnce
  <1>1. SuiteInv => SendsOnce
    BY DEF SuiteInv, SendsOnce, TxInv, TxSendInv
  <1> QED BY <1>1, SuiteInvariance, PTL

(* The tag goes from nothing to one file set that was prepared as a whole, *)
(* and stays there, however many attempts were cut, drafts left over and   *)
(* requests delayed (publish, _verify_asset_set).                          *)
THEOREM PublishedAtOnceCorrect == SuiteSpec => PublishedAtOnce
  <1>1. ASSUME SuiteInit PROVE Tag!Init
    <2>1. CASE unit = "release"
      BY <1>1, <2>1, Release!InitFull DEF SuiteInit, Tag!Init
    <2>2. CASE unit # "release"
      BY <2>2 DEF Tag!Init
    <2> QED BY <2>1, <2>2
  <1>2. ASSUME SuiteInv, [SuiteNext]_all
        PROVE  [Tag!Next]_<<IF unit = "release" THEN Release!Prepared ELSE {},
                            IF unit = "release" THEN Release!PublicAssets ELSE Release!Empty>>
    <2>1. CASE unit = "release"
      <3>1. \/ UNCHANGED <<Release!Prepared, Release!PublicAssets>>
            \/ /\ \E v \in {Release!Exactly(s) : s \in [Names -> Contents]} :
                    Release!Prepared' = Release!Prepared \cup {v}
               /\ UNCHANGED Release!PublicAssets
            \/ /\ Release!PublicAssets = Release!Empty
               /\ Release!PublicAssets' \in Release!Prepared
               /\ UNCHANGED Release!Prepared
        BY <1>2, <2>1, UnitSteps, Release!WrittenOnce DEF SuiteInv
      <3>2. unit' = unit
        BY <1>2, UnitSteps
      <3> QED BY <2>1, <3>1, <3>2 DEF Tag!Next, Tag!Prepare, Tag!Publish
    <2>2. CASE unit # "release"
      <3>1. unit' = unit
        BY <1>2, UnitSteps
      <3> QED BY <2>2, <3>1 DEF Release!Empty, Release!NoAsset
    <2> QED BY <2>1, <2>2
  <1> QED BY <1>1, <1>2, SuiteInvariance, PTL DEF SuiteSpec, PublishedAtOnce, Tag!Spec
=============================================================================
