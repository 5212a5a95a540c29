--------------------------- MODULE MCGitHubRelease ---------------------------
(* Two files, two contents of the same size, two possible releases. *)
EXTENDS GitHubRelease

CONSTANTS manifest, weights, good, bad

MCSigned == [n \in Names |-> good]
=============================================================================
