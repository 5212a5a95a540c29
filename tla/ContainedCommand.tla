--------------------------- MODULE ContainedCommand ---------------------------
(***************************************************************************)
(* One contained conversion command (code_conversion_runtime.py,           *)
(* run_contained_command): the launcher reserves a durable record, becomes *)
(* a child subreaper, runs the direct child, waits until no descendant is  *)
(* left, and commits what it saw.  The processes are 1, the direct child,  *)
(* and what it forks; a call can be repeated with the same record path.    *)
(***************************************************************************)
EXTENDS Integers, FiniteSets

CONSTANTS Processes,   \* 1 .. n, the processes there can be (a bound)
          MaxFaults    \* bound on interrupts, crashes and runtime changes

ContainmentAssumption ==
  1 \in Processes /\ IsFiniteSet(Processes) /\ MaxFaults \in Nat
  /\ Processes \cap {-1, 0} = {}

Launcher == 0
System == -1    \* init, which reaps at once
Direct == 1

VARIABLES state,      \* of each process
          parent,     \* of each process
          grouped,    \* processes in the group of the direct child
          doomed,     \* processes that SIGKILL was sent to
          subreaper,  \* whether orphans are given to the launcher
          pc,         \* what the launcher does next
          known,      \* whether it holds the direct child
          status,     \* the direct child's wait status
          pre,        \* the runtime it attested
          runtime,    \* the runtime on disk
          notes,      \* what it noted: failure, timeout, descendants, ECHILD
          record,     \* the record file
          durable,    \* the record file after a power loss
          spawns,     \* history: direct children ever created
          used,       \* history: the runtimes seen by a process, each
                      \* with the one attested for it
          outlived,   \* history: whether a descendant outlived the child
          faults      \* faults so far

tree == <<state, parent, grouped, doomed>>
files == <<record, durable>>
history == <<spawns, used, outlived>>
vars == <<tree, subreaper, pc, known, status, pre, runtime, notes, files, history, faults>>

Fault == faults < MaxFaults /\ faults' = faults + 1

NoNotes == [n \in {"failure", "timeout", "observed", "echild"} |-> FALSE]

Present == {p \in Processes : state[p] \in {"runs", "stopped", "zombie"}}
Alive == {p \in Processes : state[p] \in {"runs", "stopped"}}
(* _child_pids. *)
Children == {p \in Present : parent[p] = Launcher}

-----------------------------------------------------------------------------
(* Processes. *)

Fork(p) == /\ state[p] = "runs" /\ p \notin doomed
           /\ \E q \in Processes \ {Direct} :
                /\ state[q] = "none"
                /\ state' = [state EXCEPT ![q] = "runs"]
                /\ parent' = [parent EXCEPT ![q] = p]
                /\ grouped' \in {grouped, IF p \in grouped THEN grouped \cup {q} ELSE grouped}
           /\ UNCHANGED <<doomed, subreaper, pc, known, status, pre, runtime, notes, files,
                          history, faults>>

(* A process exits; its orphans go to the launcher if it is a subreaper.   *)
Heir == IF subreaper THEN Launcher ELSE System
Die(p) ==
  /\ p \in Alive
  /\ parent' = [q \in Processes |-> IF parent[q] = p THEN Heir ELSE parent[q]]
  /\ state' = [q \in Processes |->
                 IF q = p THEN IF parent[p] = System THEN "gone" ELSE "zombie"
                 ELSE IF parent[q] = p /\ state[q] = "zombie" /\ Heir = System THEN "gone"
                 ELSE state[q]]
  /\ IF p = Direct
     THEN /\ status' \in (IF p \in doomed THEN {"bad"} ELSE {"good", "bad"})
          /\ outlived' = (outlived \/ Present # {Direct})
     ELSE UNCHANGED <<status, outlived>>
  /\ UNCHANGED <<grouped, doomed, subreaper, pc, known, pre, runtime, notes, files,
                 spawns, used, faults>>

Stop(p) == /\ state[p] = "runs" /\ p \notin doomed /\ Fault
           /\ state' = [state EXCEPT ![p] = "stopped"]
           /\ UNCHANGED <<parent, grouped, doomed, subreaper, pc, known, status, pre, runtime,
                          notes, files, history>>

(* A living process reaps its own children.                                *)
ReapOwn(q) == /\ state[q] = "zombie" /\ parent[q] \in Alive
              /\ state' = [state EXCEPT ![q] = "gone"]
              /\ UNCHANGED <<parent, grouped, doomed, subreaper, pc, known, status, pre, runtime,
                             notes, files, history, faults>>

-----------------------------------------------------------------------------
(* The launcher. *)

Goto(s) == pc' = s
Note(n) == notes' = [notes EXCEPT ![n] = TRUE]
Kill(ps) == doomed' = doomed \cup (ps \cap Alive)
Group == grouped \cup {Direct}

Attest == /\ pc = "attest"
          /\ pre' = runtime /\ Goto("reserve")
          /\ UNCHANGED <<tree, subreaper, known, status, runtime, notes, files, history, faults>>

(* Mutant: a record of an earlier call is overwritten.                     *)
ReserveAgain == /\ pc = "reserve"
                /\ record' = "started" /\ durable' = "started" /\ Goto("recheck")
                /\ UNCHANGED <<tree, subreaper, known, status, pre, runtime, notes, history, faults>>

(* The record is created exclusively and synced before anything runs; a    *)
(* write that fails leaves a torn one.                                     *)
Reserve == /\ pc = "reserve"
           /\ \/ /\ record = "absent" /\ UNCHANGED faults
                 /\ record' = "started" /\ durable' = "started" /\ Goto("recheck")
              \/ /\ record = "absent" /\ Fault
                 /\ record' = "torn" /\ durable' \in {"absent", "torn"} /\ Goto("ended")
              \/ record # "absent" /\ Goto("ended") /\ UNCHANGED <<files, faults>>
           /\ UNCHANGED <<tree, subreaper, known, status, pre, runtime, notes, history>>

(* The second attestation, just before the child is created.               *)
Recheck == /\ pc = "recheck"
           /\ IF runtime = pre THEN Goto("subreaper") /\ UNCHANGED notes
              ELSE Goto("handle") /\ Note("failure")
           /\ UNCHANGED <<tree, subreaper, known, status, pre, runtime, files, history, faults>>

(* Mutant: the launcher does not become a subreaper.                       *)
SkipSubreaper == /\ pc = "subreaper"
                 /\ Goto("spawn")
                 /\ UNCHANGED <<tree, subreaper, known, status, pre, runtime, notes, files,
                                history, faults>>

SetSubreaper == /\ pc = "subreaper"
                /\ subreaper' = TRUE /\ Goto("spawn")
                /\ UNCHANGED <<tree, known, status, pre, runtime, notes, files, history, faults>>

(* An interrupt inside Popen can leave a child the launcher does not hold. *)
Spawn == /\ pc = "spawn"
         /\ state' = [state EXCEPT ![Direct] = "runs"]
         /\ parent' = [parent EXCEPT ![Direct] = Launcher]
         /\ grouped' = {Direct}
         /\ spawns' = spawns + 1 /\ used' = used \cup {<<pre, runtime>>}
         /\ \/ known' = TRUE /\ Goto("wait") /\ UNCHANGED <<notes, faults>>
            \/ Fault /\ Goto("handle") /\ Note("failure") /\ UNCHANGED known
         /\ UNCHANGED <<doomed, subreaper, status, pre, runtime, files, outlived>>

ReapDirect(next) == /\ state[Direct] = "zombie"
                    /\ state' = [state EXCEPT ![Direct] = "gone"]
                    /\ Goto(next)
                    /\ UNCHANGED <<parent, grouped, doomed>>

Wait == /\ pc = "wait"
        /\ \/ ReapDirect("drain") /\ UNCHANGED notes
           \/ /\ state[Direct] = "stopped" /\ Direct \notin doomed
              /\ Note("failure") /\ Kill(Group) /\ UNCHANGED <<state, parent, grouped, pc>>
        /\ UNCHANGED <<subreaper, known, status, pre, runtime, files, history, faults>>

(* SIGTERM at the deadline, which a process may ignore.                    *)
TimeOut == /\ pc = "wait" /\ ~notes.timeout
           /\ Note("timeout")
           /\ UNCHANGED <<tree, subreaper, pc, known, status, pre, runtime, files, history, faults>>

(* Mutant: only a stopped child is killed after the grace.                 *)
KillStopped == /\ pc = "wait" /\ notes.timeout /\ state[Direct] = "stopped"
               /\ Kill({Direct})
               /\ UNCHANGED <<state, parent, grouped, subreaper, pc, known, status, pre, runtime,
                              notes, files, history, faults>>

(* SIGKILL after the grace.                                                *)
KillGroup == /\ pc = "wait" /\ notes.timeout /\ Direct \in Alive \ doomed
             /\ Kill(Group)
             /\ UNCHANGED <<state, parent, grouped, subreaper, pc, known, status, pre, runtime,
                            notes, files, history, faults>>

(* _drain_descendants, also from the handler: every child is observed and  *)
(* terminated, killed after the grace, and reaped, until waitpid reports   *)
(* ECHILD and no child is listed.                                          *)
Draining == pc \in {"drain", "redrain"}

Observe == /\ Draining /\ Children # {}
           /\ Note("observed")
           /\ \/ UNCHANGED doomed
              \/ Kill(Children)
           /\ UNCHANGED <<state, parent, grouped, subreaper, pc, known, status, pre, runtime,
                          files, history, faults>>

ReapAny == /\ Draining
           /\ \E p \in Children :
                /\ state[p] = "zombie"
                /\ state' = [state EXCEPT ![p] = "gone"]
           /\ Note("observed")
           /\ UNCHANGED <<parent, grouped, doomed, subreaper, pc, known, status, pre, runtime,
                          files, history, faults>>

Drained == /\ Draining /\ Children = {}
           /\ Note("echild") /\ Goto("finish")
           /\ UNCHANGED <<tree, subreaper, known, status, pre, runtime, files, history, faults>>

DrainTimeOut == /\ Draining /\ Children # {}
                /\ Note("failure") /\ Goto(IF pc = "drain" THEN "handle" ELSE "finish")
                /\ UNCHANGED <<tree, subreaper, known, status, pre, runtime, files, history, faults>>

(* The handler of every exception: the direct child it holds is killed and *)
(* waited for, then its descendants are drained.                           *)
Handle == /\ pc = "handle"
          /\ \/ /\ known /\ state[Direct] # "gone"
                /\ Kill(Group) /\ Goto("handle_wait")
             \/ /\ known /\ state[Direct] = "gone" /\ UNCHANGED doomed
                /\ Goto(IF notes.echild THEN "finish" ELSE "redrain")
             \/ ~known /\ UNCHANGED doomed /\ Goto("finish")
          /\ UNCHANGED <<state, parent, grouped, subreaper, known, status, pre, runtime, notes,
                         files, history, faults>>

HandleWait == /\ pc = "handle_wait"
              /\ \/ ReapDirect("redrain")
                 \/ UNCHANGED tree /\ Goto("finish")
              /\ UNCHANGED <<subreaper, known, status, pre, runtime, notes, files, history, faults>>

Finish == /\ pc = "finish"
          /\ subreaper' = FALSE /\ Goto("post")
          /\ UNCHANGED <<tree, known, status, pre, runtime, notes, files, history, faults>>

(* Mutant: the runtime is not attested after the command.                  *)
PostTrusts == /\ pc = "post"
              /\ Goto("commit")
              /\ UNCHANGED <<tree, subreaper, known, status, pre, runtime, notes, files, history, faults>>

Post == /\ pc = "post"
        /\ Goto("commit")
        /\ IF runtime = pre THEN UNCHANGED notes ELSE Note("failure")
        /\ UNCHANGED <<tree, subreaper, known, status, pre, runtime, files, history, faults>>

(* Mutant: descendants that were drained are forgiven.                     *)
VerdictForgiving == IF /\ ~notes.failure /\ ~notes.timeout /\ notes.echild
                       /\ status = "good"
                    THEN "accepted" ELSE "refused"

Verdict == IF /\ ~notes.failure /\ ~notes.timeout /\ ~notes.observed /\ notes.echild
              /\ status = "good"
           THEN "accepted" ELSE "refused"

(* The record is replaced atomically; a failing sync raises after it.      *)
Commit == /\ pc = "commit"
          /\ \/ record' = Verdict /\ durable' = Verdict /\ UNCHANGED faults
             \/ Fault /\ record' \in {record, Verdict} /\ durable' \in {record, record'}
          /\ Goto("ended")
          /\ UNCHANGED <<tree, subreaper, known, status, pre, runtime, notes, history>>

-----------------------------------------------------------------------------
(* What interrupts the launcher. *)

Guarded == {"recheck", "subreaper", "spawn", "wait", "drain"}
Cleaning == {"handle", "handle_wait", "redrain", "finish", "post", "commit"}

(* KeyboardInterrupt: handled like any other failure of the guarded part;  *)
(* later it leaves the call without a terminal record.                     *)
Interrupt == /\ Fault
             /\ \/ pc \in Guarded /\ Goto("handle") /\ Note("failure") /\ UNCHANGED subreaper
                \/ /\ pc \in Cleaning \cup {"attest", "reserve"}
                   /\ Goto("ended") /\ subreaper' = FALSE /\ UNCHANGED notes
             /\ UNCHANGED <<tree, known, status, pre, runtime, files, history>>

(* The launcher is killed.  The direct child dies with it (PDEATHSIG), the *)
(* other processes go to the system.                                       *)
LauncherDies ==
  /\ pc \notin {"ended", "dead"} /\ Fault /\ Goto("dead") /\ subreaper' = FALSE
  /\ parent' = [p \in Processes |-> IF parent[p] = Launcher THEN System ELSE parent[p]]
  /\ state' = [p \in Processes |-> IF parent[p] = Launcher /\ state[p] = "zombie" THEN "gone"
                                   ELSE state[p]]
  /\ doomed' = IF parent[Direct] = Launcher THEN doomed \cup ({Direct} \cap Alive) ELSE doomed
  /\ UNCHANGED <<grouped, known, status, pre, runtime, notes, files, history>>

PowerLoss == /\ Fault /\ Goto("dead") /\ subreaper' = FALSE
             /\ record' = durable
             /\ state' = [p \in Processes |-> IF p \in Present THEN "gone" ELSE state[p]]
             /\ UNCHANGED <<parent, grouped, doomed, known, status, pre, runtime, notes, durable,
                            history>>

(* The same call again, with the record path it had.                       *)
Again == /\ pc \in {"ended", "dead"} /\ spawns < 2
         /\ Goto("attest")
         /\ known' = FALSE /\ status' = "none" /\ notes' = NoNotes
         /\ UNCHANGED <<tree, subreaper, pre, runtime, files, history, faults>>

(* A file of the runtime changes; its identity holds the change time, so   *)
(* no later runtime looks like an earlier one.                             *)
Mutate == /\ Fault
          /\ runtime' = runtime + 1
          /\ used' = IF Alive = {} THEN used ELSE used \cup {<<pre, runtime'>>}
          /\ UNCHANGED <<tree, subreaper, pc, known, status, pre, notes, files, spawns, outlived>>

-----------------------------------------------------------------------------
Init == /\ state = [p \in Processes |-> "none"]
        /\ parent = [p \in Processes |-> System]
        /\ grouped = {} /\ doomed = {} /\ subreaper = FALSE
        /\ pc = "attest" /\ known = FALSE /\ status = "none"
        /\ pre = 0 /\ runtime = 0 /\ notes = NoNotes
        /\ record = "absent" /\ durable = "absent"
        /\ spawns = 0 /\ used = {} /\ outlived = FALSE /\ faults = 0

Step == \/ Attest \/ Reserve \/ Recheck \/ SetSubreaper \/ Spawn \/ Wait \/ KillGroup
        \/ Observe \/ ReapAny \/ Drained \/ DrainTimeOut
        \/ Handle \/ HandleWait \/ Finish \/ Post \/ Commit
Deaths == \E p \in Processes : Die(p) \/ Stop(p) \/ ReapOwn(p)
Next == \/ Step \/ TimeOut \/ Deaths
        \/ \E p \in Processes : Fork(p)
        \/ Interrupt \/ LauncherDies \/ PowerLoss \/ Again \/ Mutate

(* The launcher goes on, its clock reaches the deadlines, and a process    *)
(* that was sent SIGKILL dies.                                             *)
Controller == \/ Attest \/ Reserve \/ Recheck \/ SetSubreaper \/ Spawn
              \/ Wait \/ TimeOut \/ KillGroup \/ Drained \/ DrainTimeOut
              \/ Handle \/ HandleWait \/ Finish \/ Post \/ Commit
Killed == \E p \in doomed : Die(p)
Fairness == WF_vars(Controller) /\ WF_vars(Killed)

Spec == Init /\ [][Next]_vars /\ Fairness

-----------------------------------------------------------------------------
(* The values of the variables; a call that is over is no subreaper.       *)
TypeOK ==
  /\ state \in [Processes -> {"none", "runs", "stopped", "zombie", "gone"}]
  /\ parent \in [Processes -> Processes \cup {Launcher, System}]
  /\ grouped \subseteq Processes /\ doomed \subseteq Processes
  /\ {subreaper, known, outlived} \subseteq BOOLEAN
  /\ pc \in Guarded \cup Cleaning \cup {"attest", "reserve", "ended", "dead"}
  /\ subreaper => pc \in Guarded \cup Cleaning
  /\ status \in {"none", "good", "bad"}
  /\ notes \in [DOMAIN NoNotes -> BOOLEAN]
  /\ {record, durable} \subseteq {"absent", "torn", "started", "accepted", "refused"}
  /\ {pre, runtime} \subseteq 0 .. MaxFaults
  /\ used \subseteq (0 .. MaxFaults) \X (0 .. MaxFaults)
  /\ spawns \in 0 .. 2 /\ faults \in 0 .. MaxFaults

(* An accepted record means that nothing of the command is left and that   *)
(* no descendant ever outlived the direct child, however deep it forked    *)
(* and whatever group it moved to (run_contained_command).                 *)
AcceptedIsContained ==
  record = "accepted" => Present = {} /\ ~outlived /\ spawns = 1

(* Terminal ECHILD is the truth: when the launcher has noted it no process *)
(* of the command exists any more, accepted or not (_drain_descendants).   *)
EchildIsTerminal == notes.echild => Present = {}

(* An accepted command has seen one runtime all along, the attested one    *)
(* (_attest_request before, immediately before and after).                 *)
AcceptedIsExact == record = "accepted" => \A u \in used : u[2] = u[1]

(* One record path runs its command at most once, whatever interrupts,     *)
(* kills and power losses come between the calls (_write_record).          *)
RunsOnce == spawns <= 1

(* A command that ignores SIGTERM, stops or leaves descendants does not    *)
(* keep the launcher (the deadlines of run_contained_command).             *)
CallEnds == pc \in Guarded ~> pc \in {"ended", "dead"}
=============================================================================
