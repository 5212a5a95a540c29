--------------------------- MODULE CommandExecution ---------------------------
(***************************************************************************)
(* One command of the calibration pipeline (run_calibration_pipeline.py,   *)
(* _execute_argv): a leader in a process group of its own, the descendant  *)
(* it may leave, the two pipes with their capture threads, and the         *)
(* controlling thread, which a catchable signal can interrupt.             *)
(***************************************************************************)
EXTENDS Integers, FiniteSets

CONSTANTS Capacity,    \* bytes a pipe holds
          MaxBytes,    \* bound on the bytes written to a stream
          MaxSignals   \* bound on the signals the controlling thread gets

CommandAssumption == Capacity \in Nat \ {0} /\ MaxBytes \in Nat /\ MaxSignals \in Nat

Streams == {"stdout", "stderr"}
Processes == {"leader", "child"}

VARIABLES pc,        \* what the controlling thread does next
          failing,   \* whether it is in the exception path
          grouped,   \* processes alive in the process group
          escaped,   \* processes alive outside of it
          holds,     \* streams each process holds open
          pipe,      \* bytes in each pipe
          written,   \* bytes written to each stream
          captured,  \* bytes each capture thread has digested
          thread,    \* state of each capture thread
          lingering, \* whether descendants outlived the leader
          late,      \* whether a stream did not close by itself
          reported,  \* whether the cleanup is reported as incomplete
          outcome,   \* how _execute_argv ended
          signals    \* signals so far

processes == <<grouped, escaped, holds>>
capture == <<pipe, captured, thread>>
notes == <<lingering, late, reported>>
vars == <<pc, failing, processes, capture, written, notes, outcome, signals>>

Writers(s) == {p \in grouped \cup escaped : s \in holds[p]}
Started == {s \in Streams : thread[s] # "unstarted"}
Stopped == \A s \in Started : thread[s] \in {"closed", "failed"}

-----------------------------------------------------------------------------
(* The command.                                                            *)

Write(p, s) == /\ p \in Writers(s) /\ pipe[s] < Capacity /\ written[s] < MaxBytes
               /\ pipe' = [pipe EXCEPT ![s] = @ + 1]
               /\ written' = [written EXCEPT ![s] = @ + 1]
               /\ UNCHANGED <<pc, failing, processes, captured, thread, notes, outcome, signals>>

(* A process that has something to write does not exit before it has.      *)
Pending(p) == \E s \in holds[p] : written[s] < MaxBytes /\ pipe[s] = Capacity

Exit(p) == /\ p \in grouped \cup escaped /\ ~Pending(p)
           /\ grouped' = grouped \ {p} /\ escaped' = escaped \ {p}
           /\ UNCHANGED <<pc, failing, holds, capture, written, notes, outcome, signals>>

(* The leader leaves a descendant, in its group or in a session of its     *)
(* own, with some of the streams.                                          *)
Fork == /\ "leader" \in grouped /\ "child" \notin grouped \cup escaped
        /\ \E open \in SUBSET Streams : holds' = [holds EXCEPT !["child"] = open]
        /\ \/ grouped' = grouped \cup {"child"} /\ UNCHANGED escaped
           \/ escaped' = {"child"} /\ UNCHANGED grouped
        /\ UNCHANGED <<pc, failing, capture, written, notes, outcome, signals>>

-----------------------------------------------------------------------------
(* The capture threads (_drain).                                           *)

Capture(s) == /\ thread[s] = "reading" /\ pipe[s] > 0
              /\ pipe' = [pipe EXCEPT ![s] = @ - 1]
              /\ captured' = [captured EXCEPT ![s] = @ + 1]
              /\ UNCHANGED <<pc, failing, processes, thread, written, notes, outcome, signals>>

EndOfFile(s) == /\ thread[s] = "reading" /\ pipe[s] = 0 /\ Writers(s) = {}
                /\ thread' = [thread EXCEPT ![s] = "closed"]
                /\ UNCHANGED <<pc, failing, processes, pipe, captured, written, notes,
                               outcome, signals>>

(* Reading fails, or the descriptor was closed under the thread; the       *)
(* writers then find a closed pipe.                                        *)
ThreadError(s) == /\ thread[s] = "reading" /\ pc \in {"wait", "rejoin"}
                  /\ thread' = [thread EXCEPT ![s] = "failed"]
                  /\ holds' = [p \in Processes |-> holds[p] \ {s}]
                  /\ UNCHANGED <<pc, failing, grouped, escaped, pipe, captured, written,
                                 notes, outcome, signals>>

-----------------------------------------------------------------------------
(* The controlling thread.                                                 *)

Goto(s) == pc' = s /\ UNCHANGED outcome
End(how) == pc' = "ended" /\ outcome' = how

(* Popen with the catchable signals blocked.                               *)
Spawn == /\ pc = "spawn"
         /\ \/ grouped' = {"leader"} /\ Goto("start_stdout")
            \/ End("raised") /\ UNCHANGED grouped
         /\ UNCHANGED <<failing, escaped, holds, capture, written, notes, signals>>

StartOf(s) == IF s = "stdout" THEN "start_stdout" ELSE "start_stderr"

(* Mutant: the thread of stderr is started once the leader has exited.     *)
StartOneThread(s) == /\ pc = StartOf(s)
                     /\ thread' = IF s = "stdout" THEN [thread EXCEPT ![s] = "reading"]
                                                  ELSE thread
                     /\ Goto(IF s = "stdout" THEN "start_stderr" ELSE "wait")
                     /\ UNCHANGED <<failing, processes, pipe, captured, written, notes, signals>>

StartThread(s) == /\ pc = StartOf(s)
                  /\ \/ /\ thread' = [thread EXCEPT ![s] = "reading"]
                        /\ Goto(IF s = "stdout" THEN "start_stderr" ELSE "wait")
                        /\ UNCHANGED failing
                     \/ failing' = TRUE /\ Goto("stop") /\ UNCHANGED thread
                  /\ UNCHANGED <<processes, pipe, captured, written, notes, signals>>

Wait == /\ pc = "wait" /\ "leader" \notin grouped
        /\ Goto("probe")
        /\ UNCHANGED <<failing, processes, capture, written, notes, signals>>

Probe == /\ pc = "probe"
         /\ lingering' = (grouped # {})
         /\ Goto(IF grouped # {} THEN "stop" ELSE "join")
         /\ UNCHANGED <<failing, processes, capture, written, late, reported, signals>>

(* _stop_process_group: SIGTERM, a grace, SIGKILL, a grace.  Processes may *)
(* exit meanwhile; one that the kernel holds survives both.                *)
Terminate == /\ pc = "stop"
             /\ Goto(IF grouped = {} THEN "join" ELSE "terminated")
             /\ UNCHANGED <<failing, processes, capture, written, notes, signals>>

(* Mutant: the group is taken for gone after SIGTERM.                      *)
TrustTerm == /\ pc = "terminated"
             /\ Goto("join")
             /\ UNCHANGED <<failing, processes, capture, written, notes, signals>>

Kill == /\ pc = "terminated"
        /\ \/ grouped = {} /\ Goto("join") /\ UNCHANGED grouped
           \/ grouped # {} /\ Goto("killed") /\ grouped' \in {{}, grouped}
        /\ UNCHANGED <<failing, escaped, holds, capture, written, notes, signals>>

Killed == /\ pc = "killed"
          /\ reported' = (reported \/ grouped # {})
          /\ Goto("join")
          /\ UNCHANGED <<failing, processes, capture, written, lingering, late, signals>>

(* _finish_capture_threads: a join with a timeout, the descriptors closed, *)
(* another join.                                                           *)
Join == /\ pc = "join"
        /\ late' = ~Stopped
        /\ Goto("rejoin")
        /\ UNCHANGED <<failing, processes, capture, written, lingering, reported, signals>>

Rejoin == /\ pc = "rejoin"
          /\ reported' = (reported \/ ~Stopped)
          /\ Goto("verdict")
          /\ UNCHANGED <<failing, processes, capture, written, lingering, late, signals>>

(* Mutant: a stream that did not close by itself is not looked at.         *)
VerdictIgnoresLate ==
  /\ pc = "verdict"
  /\ End(IF reported THEN "unclean"
         ELSE IF failing \/ lingering THEN "raised" ELSE "returned")
  /\ UNCHANGED <<failing, processes, capture, written, notes, signals>>

Verdict ==
  /\ pc = "verdict"
  /\ End(IF reported THEN "unclean"
         ELSE IF failing \/ lingering \/ late \/ \E s \in Streams : thread[s] = "failed"
              THEN "raised" ELSE "returned")
  /\ UNCHANGED <<failing, processes, capture, written, notes, signals>>

(* A signal raises where the controlling thread is: before the cleanup it  *)
(* starts it, while the group is stopped it is recorded as a failure, and  *)
(* while the threads are joined it leaves.                                 *)
Interrupt ==
  /\ signals < MaxSignals /\ signals' = signals + 1
  /\ \/ /\ pc \in {"start_stdout", "start_stderr", "wait"}
        /\ failing' = TRUE /\ Goto("stop") /\ UNCHANGED reported
     \/ /\ pc \in {"probe", "stop", "terminated", "killed"}
        /\ reported' = TRUE /\ Goto("join") /\ UNCHANGED failing
     \/ /\ pc \in {"join", "rejoin", "verdict"}
        /\ End("raised") /\ UNCHANGED <<failing, reported>>
  /\ UNCHANGED <<processes, capture, written, lingering, late>>

-----------------------------------------------------------------------------
Init == /\ pc = "spawn" /\ failing = FALSE
        /\ grouped = {} /\ escaped = {}
        /\ holds = [p \in Processes |-> IF p = "leader" THEN Streams ELSE {}]
        /\ pipe = [s \in Streams |-> 0]
        /\ written = [s \in Streams |-> 0]
        /\ captured = [s \in Streams |-> 0]
        /\ thread = [s \in Streams |-> "unstarted"]
        /\ lingering = FALSE /\ late = FALSE /\ reported = FALSE
        /\ outcome = "none" /\ signals = 0

Controller == \/ Spawn \/ Wait \/ Probe \/ Terminate \/ Kill \/ Killed
              \/ Join \/ Rejoin \/ Verdict
              \/ \E s \in Streams : StartThread(s)
Command == \/ Fork
           \/ \E p \in Processes : Exit(p) \/ \E s \in Streams : Write(p, s)
Threads == \E s \in Streams : Capture(s) \/ EndOfFile(s) \/ ThreadError(s)

Next == Controller \/ Command \/ Threads \/ Interrupt

(* A capture thread reads whatever its pipe holds.  Nothing is assumed of  *)
(* the command, neither of the leader nor of a descendant.                 *)
Streaming == \E s \in Streams : Capture(s) \/ EndOfFile(s)
Fairness == WF_vars(Controller) /\ WF_vars(Streaming)

Spec == Init /\ [][Next]_vars /\ Fairness

-----------------------------------------------------------------------------
(* The values of the variables.                                            *)
TypeOK == /\ pc \in {"spawn", "start_stdout", "start_stderr", "wait", "probe", "stop",
                     "terminated", "killed", "join", "rejoin", "verdict", "ended"}
          /\ grouped \subseteq Processes /\ escaped \subseteq {"child"}
          /\ holds \in [Processes -> SUBSET Streams]
          /\ pipe \in [Streams -> 0 .. Capacity]
          /\ written \in [Streams -> 0 .. MaxBytes]
          /\ captured \in [Streams -> 0 .. MaxBytes]
          /\ thread \in [Streams -> {"unstarted", "reading", "closed", "failed"}]
          /\ {failing, lingering, late, reported} \subseteq BOOLEAN
          /\ outcome \in {"none", "returned", "raised", "unclean"}
          /\ signals \in 0 .. MaxSignals

(* A command that returns has a complete record: its whole group is gone,  *)
(* nobody can still write to its streams, and the digests of both streams  *)
(* cover every byte (_execute_argv, the checks after process.wait).        *)
ReturnedIsComplete ==
  outcome = "returned" => /\ grouped = {}
                          /\ \A s \in Streams : captured[s] = written[s] /\ Writers(s) = {}

(* However a command ends, a process of its group that is left alive was   *)
(* noticed, and without a signal it is reported as an incomplete cleanup   *)
(* (_stop_process_group).  A signal while the threads are joined replaces  *)
(* the report.                                                             *)
LeftBehindIsReported ==
  outcome # "none" /\ grouped # {} => reported /\ (signals = 0 => outcome = "unclean")

(* What process.wait, which has no timeout, can wait for without end: a    *)
(* leader that nothing keeps from exiting, least of all a full pipe.       *)
LeaderStays == pc = "wait" /\ "leader" \in grouped /\ ~Pending("leader")
=============================================================================
