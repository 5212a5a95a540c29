--------------------------- MODULE MCMinerController ---------------------------
(* Two rounds with a gap for TLC.  The coordinator may also serve the     *)
(* first round with a later close block, which no controller that has seen *)
(* the original may accept.                                                *)
EXTENDS MinerController

Payload(r, start, close, end, phase, hash, config) ==
  [round |-> r, start |-> start, close |-> close, end |-> end,
   phase |-> phase, hash |-> hash, config |-> config, sound |-> TRUE]

CONSTANTS hashA, hashB

MCServed == {Payload(1, 1, 3, 4, "submissions", NoHash, 1),
             Payload(1, 1, 3, 4, "evaluation", hashA, 1),
             Payload(1, 1, 4, 5, "submissions", NoHash, 2),
             Payload(2, 5, 7, 8, "submissions", NoHash, 1),
             Payload(2, 5, 7, 8, "evaluation", hashA, 1),
             Payload(2, 5, 7, 8, "evaluation", hashB, 1)}
=============================================================================
