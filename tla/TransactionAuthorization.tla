----------------------- MODULE TransactionAuthorization -----------------------
(***************************************************************************)
(* One call of backend.publish: the authorization inputs are read, the fee *)
(* is estimated, the extrinsic is signed and inspected, everything is read *)
(* again, and the extrinsic is broadcast (backend.py, 867-1319).  Anything *)
(* that was read may change before the next step.  The chain and the SDK   *)
(* are external.                                                           *)
(***************************************************************************)
EXTENDS Integers, Sequences

CONSTANTS Period,      \* blocks a signed extrinsic stays valid
          MaxHead,     \* bound on the chain height
          MaxChanges   \* bound on changes of the inputs and lost answers

PeriodAssumption == Period \in Nat /\ MaxHead \in Nat /\ MaxChanges \in Nat

VARIABLES world,      \* what the authorization reads: the observer's gate, the
                      \* hotkey's UID, the pinned runtime, a zero fee
          next,       \* the account's next index
          head,       \* the chain height
          stage,      \* where the call is
          step,       \* the next input the stage reads
          nonce,      \* the nonce read for the estimate
          expires,    \* the last block of the era of the estimate
          extrinsic,  \* what was signed: nothing, the exact call, or another
          pool,       \* the extrinsic while it is undecided
          landed,     \* what became of it on chain
          changes,    \* changes and lost answers so far
          stale,      \* history: inputs unauthorized ever since the signature
          sends       \* history: how often submit_extrinsic was called

call == <<stage, step, nonce, expires, extrinsic>>
chain == <<pool, landed>>
vars == <<world, next, head, call, chain, changes, stale, sends>>

Inputs == {"gate", "uid", "runtime", "fee"}
(* _assert_authorized_registration, _authorized_chain_head, nonce, fee. *)
Order == <<"gate", "uid", "runtime", "nonce", "fee">>
Reading == {"estimate", "sign", "submit"}
Ended == {"returned", "refused", "unbound"}

Change == changes < MaxChanges /\ changes' = changes + 1

-----------------------------------------------------------------------------
(* The call.                                                               *)

Enter(s) == stage' = s /\ step' = 1
Refuse == Enter("refused") /\ UNCHANGED <<nonce, expires, extrinsic>>

(* publish: the policy, the source and the artifact binding, before        *)
(* anything is composed.                                                   *)
Publish == /\ stage = "publish"
           /\ \/ ~world["gate"] /\ Refuse
              \/ world["gate"] /\ Enter("binding") /\ UNCHANGED <<nonce, expires, extrinsic>>
           /\ UNCHANGED <<world, next, head, chain, changes, stale, sends>>

Bind == /\ stage = "binding"
        /\ stage' \in {"estimate", "unbound", "refused"} /\ step' = 1
        /\ UNCHANGED <<world, next, head, nonce, expires, extrinsic, chain, changes, stale, sends>>

Authorized(i) == IF i = "nonce" THEN next = nonce ELSE world[i]

(* One of the five reads of a stage; any of them may fail instead.         *)
Read ==
  /\ stage \in Reading /\ step <= Len(Order)
  /\ \/ Change /\ Refuse
     \/ UNCHANGED changes /\
        IF stage = "estimate" /\ Order[step] = "nonce"
          THEN step' = step + 1 /\ nonce' = next /\ UNCHANGED <<stage, expires, extrinsic>>
          ELSE \/ ~Authorized(Order[step]) /\ Refuse
               \/ /\ Authorized(Order[step])
                  /\ step' = step + 1
                  /\ expires' = IF stage = "estimate" /\ Order[step] = "fee"
                                  THEN head + Period ELSE expires
                  /\ UNCHANGED <<stage, nonce, extrinsic>>
  /\ UNCHANGED <<world, next, head, chain, stale, sends>>

ReadAll(s) == stage = s /\ step > Len(Order)

(* The deposit, the era and the composed call follow from the runtime that *)
(* was read; then everything is read again before the key is used.         *)
Estimate == /\ ReadAll("estimate")
            /\ Enter("sign")
            /\ UNCHANGED <<nonce, expires, extrinsic>>
            /\ UNCHANGED <<world, next, head, chain, changes, stale, sends>>

Unauthorized == {i \in Inputs \cup {"nonce"} : ~Authorized(i)}

(* create_signed_extrinsic and _inspect_signed_extrinsic.                  *)
Sign == /\ ReadAll("sign")
        /\ \/ Refuse /\ UNCHANGED stale
           \/ /\ Enter("submit") /\ extrinsic' = "exact" /\ UNCHANGED <<nonce, expires>>
              /\ stale' = Unauthorized
        /\ UNCHANGED <<world, next, head, chain, changes, sends>>

(* submit_extrinsic. *)
Broadcast == /\ pool' = {[nonce |-> nonce, expires |-> expires]}
             /\ sends' = sends + 1

(* Mutant: what was read before the signature counts for the broadcast. *)
SubmitUnread == /\ stage = "submit"
                /\ \/ extrinsic # "exact" /\ Refuse /\ UNCHANGED <<pool, sends>>
                   \/ /\ extrinsic = "exact"
                      /\ Broadcast
                      /\ Enter("sent") /\ UNCHANGED <<nonce, expires, extrinsic>>
                /\ UNCHANGED <<world, next, head, landed, changes, stale>>

(* The last inspection, then submit_extrinsic.                             *)
Submit == /\ ReadAll("submit")
          /\ \/ extrinsic # "exact" /\ Refuse /\ UNCHANGED <<pool, sends>>
             \/ /\ extrinsic = "exact"
                /\ Broadcast
                /\ Enter("sent") /\ UNCHANGED <<nonce, expires, extrinsic>>
          /\ UNCHANGED <<world, next, head, landed, changes, stale>>

(* Mutant: an exception of submit_extrinsic is tried again. *)
ReceiptRetried ==
  /\ stage = "sent"
  /\ \/ Change /\ Enter("estimate") /\ UNCHANGED <<nonce, expires, extrinsic>>
     \/ pool = {} /\ landed = "nothing" /\ Refuse /\ UNCHANGED changes
     \/ /\ landed # "nothing"
        /\ IF landed = "free"
             THEN Enter("returned") /\ UNCHANGED <<nonce, expires, extrinsic>>
             ELSE Refuse
        /\ UNCHANGED changes
  /\ UNCHANGED <<world, next, head, chain, stale, sends>>

(* Mutant: the receipt only has to prove finalization. *)
ReceiptOfAnyFee ==
  /\ stage = "sent"
  /\ \/ Change /\ Refuse
     \/ pool = {} /\ landed = "nothing" /\ Refuse /\ UNCHANGED changes
     \/ /\ landed # "nothing"
        /\ Enter("returned") /\ UNCHANGED <<nonce, expires, extrinsic, changes>>
  /\ UNCHANGED <<world, next, head, chain, stale, sends>>

(* The answer is lost, or the extrinsic is not included, or a receipt      *)
(* proves a finalized, successful and free inclusion, or something else.   *)
Receipt ==
  /\ stage = "sent"
  /\ \/ Change /\ Refuse
     \/ pool = {} /\ landed = "nothing" /\ Refuse /\ UNCHANGED changes
     \/ /\ landed # "nothing"
        /\ IF landed = "free"
             THEN Enter("returned") /\ UNCHANGED <<nonce, expires, extrinsic>>
             ELSE Refuse
        /\ UNCHANGED changes
  /\ UNCHANGED <<world, next, head, chain, stale, sends>>

-----------------------------------------------------------------------------
(* The world around the call.                                              *)

(* An input changes.  The SDK may also alter the signed extrinsic while it *)
(* estimates the last fee.                                                 *)
Turn(i) == /\ Change
           /\ world' = [world EXCEPT ![i] = ~@]
           /\ UNCHANGED <<next, head, call, chain, sends>>
           /\ stale' = stale \cap Unauthorized'

Alter == /\ stage = "submit" /\ step = Len(Order)
         /\ Change
         /\ extrinsic' = "altered"
         /\ UNCHANGED <<world, next, head, stage, step, nonce, expires, chain, stale, sends>>

(* The same key is used elsewhere.                                         *)
OtherExtrinsic == /\ Change
                  /\ next' = next + 1
                  /\ UNCHANGED <<world, head, call, chain, sends>>
                  /\ stale' = stale \cap Unauthorized'

Tick == /\ head < MaxHead
        /\ head' = head + 1
        /\ UNCHANGED <<world, next, call, chain, changes, stale, sends>>

(* A block includes it: the nonce must be the next, the era alive and the  *)
(* runtime the signed one; the fee is the one of that block.               *)
Include(e) == /\ e \in pool
              /\ e.nonce = next /\ head <= e.expires /\ world["runtime"]
              /\ pool' = {}
              /\ next' = next + 1
              /\ landed' \in IF ~world["uid"] THEN {"failed"}
                            ELSE {"failed", IF world["fee"] THEN "free" ELSE "charged"}
              /\ UNCHANGED <<world, head, call, changes, sends>>
              /\ stale' = stale \cap Unauthorized'

Discard(e) == /\ e \in pool
              /\ pool' = pool \ {e}
              /\ UNCHANGED <<world, next, head, call, landed, changes, stale, sends>>

-----------------------------------------------------------------------------
Init == /\ world \in [Inputs -> BOOLEAN]
        /\ next = 0
        /\ head = 0
        /\ stage = "publish" /\ step = 1
        /\ nonce = 0 /\ expires = 0
        /\ extrinsic = "none"
        /\ pool = {}
        /\ landed = "nothing"
        /\ changes = 0
        /\ stale = {}
        /\ sends = 0

Call == Publish \/ Bind \/ Read \/ Estimate \/ Sign \/ Submit \/ Receipt

Next == \/ Call \/ Alter \/ OtherExtrinsic \/ Tick
        \/ (\E i \in Inputs : Turn(i))
        \/ (\E e \in pool : Include(e) \/ Discard(e))

Spec == Init /\ [][Next]_vars

-----------------------------------------------------------------------------
(* Properties.                                                             *)

TypeOK == /\ world \in [Inputs -> BOOLEAN]
          /\ next \in Nat /\ head \in Nat /\ changes \in Nat
          /\ stage \in Reading \cup Ended \cup {"publish", "binding", "sent"}
          /\ step \in 1..Len(Order) + 1
          /\ nonce \in Nat /\ expires \in Nat
          /\ extrinsic \in {"none", "exact", "altered"}
          /\ pool \in SUBSET [nonce : Nat, expires : Nat]
          /\ landed \in {"nothing", "free", "charged", "failed"}
          /\ stale \in SUBSET (Inputs \cup {"nonce"})
          /\ sends \in Nat

(* The steps that the next property allows. *)
SentIsAuthorizedStep ==
  pool' \ pool # {} => stale = {} /\ extrinsic = "exact"

(* Nothing is broadcast that the gate, the registration, the runtime, the  *)
(* nonce or the fee has spoken against ever since it was signed: an input  *)
(* may change after it was read, but not before the signature and for good *)
(* (the rechecks of _submit_authorized_commitment), and the extrinsic is   *)
(* still the inspected one.                                                *)
SentIsAuthorized == [][SentIsAuthorizedStep]_vars

(* A call that returns has put the exact call on chain, it succeeded, and  *)
(* it was free; whatever was paid or failed is a refusal.                  *)
ReturnedIsExact ==
  stage = "returned" => landed = "free"

(* One call calls submit_extrinsic at most once, however its answer was    *)
(* lost or raised: a broadcast whose fate is unknown is never repeated from *)
(* inside the call.  Without the broadcast nothing of the call is pending  *)
(* or on chain, and it is decided once.                                    *)
SendsOnce == /\ sends <= 1
             /\ pool # {} \/ landed # "nothing" => sends = 1
             /\ pool = {} \/ landed = "nothing"

=============================================================================
