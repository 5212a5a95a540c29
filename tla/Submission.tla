------------------------------ MODULE Submission ------------------------------
(***************************************************************************)
(* What the miner promises the chain: one commitment is sent at a time,    *)
(* never the one that is already on chain, and each is decided before the  *)
(* next.  The controller, with the chain and the pool, implements it.      *)
(***************************************************************************)
CONSTANTS Rounds,  \* what a commitment can name
          Nothing  \* no commitment yet

VARIABLES undecided,  \* commitments sent and neither included nor dropped
          committed   \* the commitment on chain

Init == undecided = {} /\ committed = Nothing

Send(r) == /\ undecided = {} /\ committed # r
           /\ undecided' = {r}
           /\ UNCHANGED committed

Land(r) == /\ undecided = {r}
           /\ undecided' = {}
           /\ committed' = r

Drop == /\ undecided # {}
        /\ undecided' = {}
        /\ UNCHANGED committed

Next == Drop \/ \E r \in Rounds : Send(r) \/ Land(r)

Spec == Init /\ [][Next]_<<undecided, committed>>
=============================================================================
