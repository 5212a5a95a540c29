------------------------------ MODULE WriteOnce ------------------------------
(***************************************************************************)
(* What every publication of this repository promises of its destination:  *)
(* it is absent, then it holds one value that was prepared as a whole, and *)
(* it never changes again.  The modules of the publishers show that they   *)
(* implement it.                                                           *)
(***************************************************************************)
CONSTANTS Values,  \* what can be published
          Absent   \* nothing was published

VARIABLES prepared,  \* the values some attempt has prepared
          cell       \* what the destination holds

Init == prepared = {} /\ cell = Absent

Prepare == /\ \E v \in Values : prepared' = prepared \cup {v}
           /\ UNCHANGED cell

Publish == /\ cell = Absent
           /\ cell' \in prepared
           /\ UNCHANGED prepared

Next == Prepare \/ Publish

Spec == Init /\ [][Next]_<<prepared, cell>>
=============================================================================
