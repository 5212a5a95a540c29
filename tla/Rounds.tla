------------------------------- MODULE Rounds -------------------------------
(***************************************************************************)
(* Which served round the miner trusts (coordinator.py, models.py), as     *)
(* operators without state.  A served payload is abstracted to its bounds, *)
(* its phase, the seed hash it discloses and `config', one value for the   *)
(* whole identity that may not change inside a round (config hash,         *)
(* mechanism, corpus version and digest).  `sound' says that the payload   *)
(* passes every check that looks at the payload alone: it is anchored, its *)
(* config hashes to its config hash, the competition is open, the ceilings *)
(* are positive and the signed-v0.3 rules hold.                            *)
(***************************************************************************)
EXTENDS Integers

CONSTANTS Margin,    \* MMC_DEADLINE_MARGIN_BLOCKS
          NoWindow,  \* no coordinator window has been persisted yet
          NoHash     \* a submissions phase discloses no seed hash

Phases == {"submissions", "evaluation"}

(* What the controller keeps of a served payload. *)
WindowOf(p) == [round |-> p.round, start |-> p.start, close |-> p.close,
                end |-> p.end, phase |-> p.phase, hash |-> p.hash,
                config |-> p.config]

(* RoundWindow.accepts_at: a write may start only this far before close. *)
AcceptsAt(w, block) == /\ w.phase = "submissions"
                       /\ w.start <= block
                       /\ block < w.close - Margin

(* The bounds are ordered and the live head is inside them, in the phase   *)
(* the payload claims.                                                     *)
Timely(p, head) == /\ p.round >= 0
                   /\ p.start < p.close /\ p.close < p.end
                   /\ p.start <= head /\ head < p.end
                   /\ p.phase = "submissions" => head < p.close
                   /\ p.phase = "evaluation" => head >= p.close

(* The seed hash is disclosed in the evaluation phase, and only there. *)
SeedRule(p) == /\ p.phase \in Phases
               /\ p.phase = "submissions" <=> p.hash = NoHash

(* Everything that may not change while a round lasts. *)
Identity(w) == <<w.round, w.start, w.close, w.end, w.config>>

(* Mutant: only an older round is a rollback. *)
ContinuesByRound(p, last) == last # NoWindow => p.round >= last.round

(* A payload of the round persisted last keeps its identity, and never     *)
(* takes back an evaluation phase or its seed hash; an older round is a    *)
(* rollback.                                                               *)
Continues(p, last) ==
  last # NoWindow =>
    /\ p.round >= last.round
    /\ p.round = last.round =>
         /\ Identity(p) = Identity(last)
         /\ last.phase = "evaluation" =>
              p.phase = "evaluation" /\ p.hash = last.hash

(* validate_served_round, in the signed-v0.3 profile. *)
ValidServedRound(p, head, last) == /\ p.sound
                                   /\ Timely(p, head)
                                   /\ SeedRule(p)
                                   /\ Continues(p, last)
=============================================================================
