---------------------------- MODULE MCPublication ----------------------------
(* Two files and two contents, two attempts of a W&B publication, one      *)
(* conversion of two historical runs, and two that race for one output.    *)
EXTENDS Publications

CONSTANTS manifest, weights, good, bad, p1, p2

MCNames == {manifest, weights}
MCSigned == [n \in MCNames |-> good]
MCOne == [converters |-> {p1}, runs |-> 2, profiles |-> <<"historical", "historical">>,
          tools |-> 3, pinned |-> {1, 3}, faults |-> 2]
MCSeveral == [converters |-> {p1, p2}, runs |-> 1, profiles |-> <<"current">>,
              tools |-> 1, pinned |-> {1}, faults |-> 1]
=============================================================================
