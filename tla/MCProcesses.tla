----------------------------- MODULE MCProcesses -----------------------------
(* Two launches of two repeats, a pipe that holds one byte, and a loader   *)
(* with two directories.                                                   *)
EXTENDS Processes, TLC

CONSTANTS l1, l2

MCLaunchers == {l1, l2}

(* A library found first in another directory, or behind a symbolic link,  *)
(* two libraries that need each other, and a tree that gains a file.       *)
NoPath == <<0, "none">>
File(needs) == [link |-> NoPath, needs |-> needs]
Link(to) == [link |-> to, needs |-> <<>>]
MCContent == <<3, "python">> :> <<File(<<"a">>)>>
            @@ <<1, "a">> :> <<File(<<>>)>>
            @@ <<2, "a">> :> <<Link(<<2, "a1">>), File(<<>>)>>
            @@ <<2, "a1">> :> <<File(<<"b">>), File(<<>>)>>
            @@ <<2, "b">> :> <<File(<<"a">>), Link(<<2, "a">>)>>
            @@ <<4, "m">> :> <<File(<<>>), File(<<>>)>>
            @@ <<4, "k">> :> <<File(<<>>)>>
MCPaths == DOMAIN MCContent
MCRoot == <<3, "python">>
MCTree == {<<4, "m">>, <<4, "k">>}
MCInstalled == [p \in MCPaths |-> IF p \in {<<1, "a">>, <<4, "k">>} THEN 0 ELSE 1]

(* A run of any of the four ends, with one exception, whatever the         *)
(* processes it started do: a contained command has its deadline and kills *)
(* what is left (run_contained_command), a launch times out                *)
(* (_wait_exec_stop, _wait_direct_terminal), attest_elf_closure ends on    *)
(* libraries that need each other, and the calibration's command drains    *)
(* both pipes at once and joins its drains with a bound                    *)
(* (_join_capture_threads).  The exception is the wait for that command's  *)
(* leader (_execute_argv, process.wait()), which has no timeout: it ends   *)
(* unless the leader stays for good although it could exit; a leader held  *)
(* up by a full pipe, or a descendant of one that has gone, is no reason.  *)
(* The launchers are alike, so one stands for both.                        *)
RunEnds ==
  \/ <>[](unit = "command" /\ Command!LeaderStays)
  \/ (\/ unit = "contained" /\ pc \in Contained!Guarded
      \/ unit = "command" /\ outcome = "none"
      \/ unit = "launch" /\ at[l1] \in Launch!Guarded
      \/ unit = "attestation" /\ verdict = "none")
     ~> (\/ unit = "contained" /\ pc \in {"ended", "dead"}
         \/ unit = "command" /\ outcome # "none"
         \/ unit = "launch" /\ at[l1] \in Launch!Ended
         \/ unit = "attestation" /\ verdict # "none")
=============================================================================
