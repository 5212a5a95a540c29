--------------------------- MODULE DiagnosticLaunch ---------------------------
(***************************************************************************)
(* The once-only diagnostic launches (run_code_gguf_diagnostic.py).  A     *)
(* launcher checks that every earlier repeat was validated, consumes its   *)
(* own repeat by linking a marker, holds the evaluator at its exec, lets   *)
(* it run, kills and reaps what it leaves, validates the outputs and links *)
(* a receipt.  Several launchers can be started, for any repeat.           *)
(***************************************************************************)
EXTENDS Integers, FiniteSets

CONSTANTS Launchers,  \* launches (a bound)
          Last,       \* the last repeat; the first is 1
          MaxFaults,  \* bound on changes, failures, signals and kills
          Reboots     \* whether the machine may restart

LaunchAssumption ==
  /\ IsFiniteSet(Launchers) /\ "nobody" \notin Launchers
  /\ Last \in Nat \ {0} /\ MaxFaults \in Nat /\ Reboots \in BOOLEAN

Repeats == 1 .. Last
Pinned == {"source", "interpreter", "artifact"}  \* the contract states what they are
Recorded == {"addendum", "git", "runtime"}       \* compared with what was read before
Controls == Pinned \cup Recorded
Unacceptable == 2                                \* a version no launch accepts
Absent == [by |-> "nobody"]

VARIABLES world,    \* which version each control has; 0 is the declared one
          output,   \* what the evaluator has put at each output root
          marker,   \* the attempt marker of each repeat
          receipt,  \* the launch receipt of each repeat
          litter,   \* launches whose staging file is in the report root
          at,       \* what each launcher does next
          run,      \* its local variables
          child,    \* its direct child
          heir,     \* the descendant the child may leave
          spawned,  \* history: the repeat each launch started an evaluator for
          faults    \* faults so far

report == <<marker, receipt, litter>>
processes == <<child, heir>>
vars == <<world, output, report, at, run, processes, spawned, faults>>

Fault == faults < MaxFaults /\ faults' = faults + 1

NoRun == [repeat |-> 0, contract |-> <<0, 0>>, runtime |-> 0, prior |-> <<>>, why |-> "none",
          inspected |-> FALSE, code |-> "none", killed |-> FALSE, observed |-> FALSE,
          echild |-> FALSE, control |-> FALSE, validation |-> <<>>]

Goto(l, s) == at' = [at EXCEPT ![l] = s]
Keep(l, r) == run' = [run EXCEPT ![l] = r]
Repeat(l) == run[l].repeat

(* The launcher has no child of any kind (_validate_launcher_boundary_ready). *)
Ready(l) == child[l] \in {"none", "gone"} /\ heir[l] \notin {"adopted", "zombie"}

(* The addendum, the specification, the launcher and the validator are the *)
(* declared files; another commit makes another acceptable addendum.       *)
DeclarationLoads == world["addendum"] # Unacceptable
(* The commit is behind HEAD and behind the advertised branch.             *)
GitBinds == world["git"] # Unacceptable
(* The contract holds both heads, so it changes when one of them moves.    *)
Contract == <<world["addendum"], world["git"]>>
Loads == DeclarationLoads /\ GitBinds

SourceIdentity == world["source"] = 0
InterpreterIdentity == world["interpreter"] = 0
(* No source of the signed runtime can start a process or a session.       *)
EscapeScan == world["runtime"] # Unacceptable

-----------------------------------------------------------------------------
(* Reading what earlier launches left. *)

(* A validation reads the artifact and all outputs up to a repeat; its     *)
(* digest stands for what it read.                                         *)
Validates(k) == world["artifact"] = 0 /\ \A j \in 1 .. k : output[j] \in {"a", "b"}
Validation(k) == [j \in 1 .. k |-> output[j]]

BoundaryExact(r) == r.control
ProcessExact(r) == r.inspected /\ r.code = "zero"
ContainmentExact(r) == BoundaryExact(r) /\ ~r.killed /\ ~r.observed /\ r.echild
PreflightExact(r, c) == r.contract[1] = c[1]
DetailsExact(k, r, c, previous) ==
  /\ r.contract[2] = c[2]
  /\ PreflightExact(r, c) /\ ProcessExact(r) /\ ContainmentExact(r)
  /\ r.prior = previous

(* _validate_previous_record. *)
(* Mutant: the status of the receipt is not looked at. *)
AnyRecord(k, c) ==
  LET r == receipt[k]
  IN /\ marker[k] # Absent /\ r # Absent /\ r.by = marker[k].by

RecordExact(k, c) ==
  LET r == receipt[k]
  IN /\ marker[k] # Absent /\ r # Absent
     /\ marker[k].addendum = c[1] /\ r.by = marker[k].by
     /\ DetailsExact(k, r, c, IF k = 1 THEN <<>> ELSE receipt[k - 1].validation)
     /\ r.status = "validated"

(* _validate_namespace_state: exactly the records of the earlier repeats,  *)
(* their outputs, and nothing of this repeat or a later one.               *)
Namespace(k, c) ==
  /\ litter = {}
  /\ \A j \in Repeats :
       IF j < k THEN output[j] \notin {"none", "staged"} /\ RecordExact(j, c)
       ELSE output[j] = "none" /\ marker[j] = Absent /\ receipt[j] = Absent

Bindings(k) == [j \in 1 .. k - 1 |-> <<receipt[j].runtime, receipt[j].validation>>]

-----------------------------------------------------------------------------
(* Before the repeat is consumed: any refusal ends the launch. *)

Refuse(l) == Goto(l, "refused") /\ UNCHANGED run

(* launch_diagnostic. *)
Start(l) == /\ at[l] = "idle" /\ Loads
            /\ \E k \in Repeats :
                 Keep(l, [NoRun EXCEPT !.repeat = k, !.contract = Contract])
            /\ Goto(l, "inventory")
            /\ UNCHANGED <<world, output, report, processes, spawned, faults>>

Inventory(l) == /\ at[l] = "inventory"
                /\ IF Namespace(Repeat(l), run[l].contract)
                   THEN /\ Keep(l, [run[l] EXCEPT !.prior = Bindings(Repeat(l))])
                        /\ Goto(l, "preflight")
                   ELSE Refuse(l)
                /\ UNCHANGED <<world, output, report, processes, spawned, faults>>

(* _static_preflight, against the contract and the preflight of every      *)
(* earlier receipt.                                                        *)
(* Mutant: a preflight that differs from the earlier ones goes on. *)
PreflightAlone(l) ==
  /\ at[l] = "preflight"
  /\ IF SourceIdentity /\ InterpreterIdentity /\ world["artifact"] = 0 /\ EscapeScan
     THEN Keep(l, [run[l] EXCEPT !.runtime = world["runtime"]]) /\ Goto(l, "revalidate")
     ELSE Refuse(l)
  /\ UNCHANGED <<world, output, report, processes, spawned, faults>>

Preflight(l) ==
  /\ at[l] = "preflight"
  /\ IF /\ SourceIdentity /\ InterpreterIdentity /\ world["artifact"] = 0 /\ EscapeScan
        /\ \A j \in DOMAIN run[l].prior : run[l].prior[j][1] = world["runtime"]
     THEN Keep(l, [run[l] EXCEPT !.runtime = world["runtime"]]) /\ Goto(l, "revalidate")
     ELSE Refuse(l)
  /\ UNCHANGED <<world, output, report, processes, spawned, faults>>

(* The validations of the earlier repeats once more.                       *)
Revalidate(l) ==
  /\ at[l] = "revalidate"
  /\ IF \A j \in DOMAIN run[l].prior : Validates(j) /\ run[l].prior[j][2] = Validation(j)
     THEN Goto(l, "reload") /\ UNCHANGED run
     ELSE Refuse(l)
  /\ UNCHANGED <<world, output, report, processes, spawned, faults>>

(* The contract and the namespace again, just before the consumption.      *)
Reload(l) ==
  /\ at[l] = "reload"
  /\ IF /\ Loads /\ Contract = run[l].contract /\ Namespace(Repeat(l), run[l].contract)
        /\ Bindings(Repeat(l)) = run[l].prior /\ Ready(l)
     THEN Goto(l, "stage") /\ UNCHANGED run
     ELSE Refuse(l)
  /\ UNCHANGED <<world, output, report, processes, spawned, faults>>

-----------------------------------------------------------------------------
(* _atomic_publish_noreplace, for the marker and for the receipt.          *)

After(s) == CASE s = "stage" -> "link"       [] s = "link" -> "settle" [] s = "settle" -> "spawn"
              [] s = "r_stage" -> "r_link"   [] s = "r_link" -> "r_settle"

(* What publication that raises leads to.                                  *)
Unpublished(l) == Goto(l, IF at[l] \in {"stage", "link", "settle"} THEN "refused" ELSE "failed")

(* A staging file with a name of its own, written and synced.              *)
Stage(l) == /\ at[l] \in {"stage", "r_stage"}
            /\ \/ Goto(l, After(at[l])) /\ litter' = litter \cup {l} /\ UNCHANGED faults
               \/ Fault /\ Unpublished(l) /\ UNCHANGED litter
            /\ UNCHANGED <<world, output, marker, receipt, run, processes, spawned>>

Status(l) == IF run[l].why = "none" THEN "validated" ELSE "rejected"

(* Mutant: the marker replaces one that is there. *)
LinkReplacing(l) ==
  /\ at[l] = "link"
  /\ marker' = [marker EXCEPT ![Repeat(l)] = [by |-> l, addendum |-> run[l].contract[1]]]
  /\ Goto(l, "settle") /\ UNCHANGED <<litter, faults>>
  /\ UNCHANGED <<world, output, receipt, run, processes, spawned>>

(* The link fails when the name exists; the staging file goes either way.  *)
Link(l) ==
  /\ at[l] = "link"
  /\ IF marker[Repeat(l)] = Absent
     THEN /\ marker' = [marker EXCEPT ![Repeat(l)] = [by |-> l, addendum |-> run[l].contract[1]]]
          /\ Goto(l, "settle") /\ UNCHANGED <<litter, faults>>
     ELSE Unpublished(l) /\ litter' = litter \ {l} /\ UNCHANGED <<marker, faults>>
  /\ UNCHANGED <<world, output, receipt, run, processes, spawned>>

LinkReceipt(l) ==
  /\ at[l] = "r_link"
  /\ IF receipt[Repeat(l)] = Absent
     THEN /\ receipt' = [receipt EXCEPT ![Repeat(l)] =
               [by |-> l, status |-> Status(l), contract |-> run[l].contract,
                runtime |-> run[l].runtime, inspected |-> run[l].inspected,
                code |-> run[l].code, killed |-> run[l].killed, observed |-> run[l].observed,
                echild |-> run[l].echild, control |-> run[l].control,
                prior |-> IF Repeat(l) = 1 THEN <<>> ELSE run[l].prior[Repeat(l) - 1][2],
                validation |-> run[l].validation]]
          /\ Goto(l, "r_settle") /\ UNCHANGED <<litter, faults>>
     ELSE Unpublished(l) /\ litter' = litter \ {l} /\ UNCHANGED <<receipt, faults>>
  /\ UNCHANGED <<world, output, marker, run, processes, spawned>>

(* The directory is synced and the staging file removed.  A failure is     *)
(* raised although the record has its name; the staging file may stay.     *)
Settle(l) ==
  /\ at[l] \in {"settle", "r_settle"}
  /\ \/ /\ litter' = litter \ {l} /\ UNCHANGED faults
        /\ Goto(l, IF at[l] = "settle" THEN "spawn"
                   ELSE IF run[l].why = "none" THEN "done" ELSE "failed")
     \/ Fault /\ Unpublished(l) /\ litter' \in {litter, litter \ {l}}
  /\ UNCHANGED <<world, output, marker, receipt, run, processes, spawned>>

-----------------------------------------------------------------------------
(* The evaluator, and what it does while nobody holds it. *)

(* _child_exec, up to the stop of PTRACE_TRACEME; a setup that fails, or a *)
(* launcher that is gone, ends the child.                                  *)
ChildExec(l) ==
  /\ child[l] = "setup"
  /\ \/ at[l] # "dead" /\ child' = [child EXCEPT ![l] = "held"] /\ UNCHANGED faults
     \/ at[l] # "dead" /\ Fault /\ child' = [child EXCEPT ![l] = "bad"]
     \/ at[l] = "dead" /\ child' = [child EXCEPT ![l] = "gone"] /\ UNCHANGED faults
  /\ UNCHANGED <<world, output, report, at, run, heir, spawned>>

Fork(l) == /\ child[l] = "running" /\ heir[l] = "none" /\ Fault
           /\ heir' = [heir EXCEPT ![l] = "alive"]
           /\ UNCHANGED <<world, output, report, at, run, child, spawned>>

(* The evaluator builds its output beside the root and renames it.         *)
Evaluate(l) ==
  /\ child[l] = "running"
  /\ \/ output[spawned[l]] = "none" /\ output' = [output EXCEPT ![spawned[l]] = "staged"]
     \/ output[spawned[l]] = "staged"
        /\ \E o \in {"a", "bad"} : output' = [output EXCEPT ![spawned[l]] = o]
  /\ UNCHANGED <<world, report, at, run, processes, spawned, faults>>

(* What the child leaves goes to the launcher, its subreaper.              *)
Orphan(l) == CASE heir[l] = "alive" -> IF at[l] = "dead" THEN "orphan" ELSE "adopted"
               [] heir[l] = "unreaped" -> IF at[l] = "dead" THEN "gone" ELSE "zombie"
               [] OTHER -> heir[l]

Exit(l) == /\ child[l] = "running"
           /\ child' = [child EXCEPT ![l] = IF output[spawned[l]] \in {"a", "bad"}
                                            THEN "zero" ELSE "bad"]
           /\ heir' = [heir EXCEPT ![l] = Orphan(l)]
           /\ UNCHANGED <<world, output, report, at, run, spawned, faults>>

HeirExits(l) == /\ heir[l] \in {"alive", "adopted", "orphan"}
                /\ \E end \in CASE heir[l] = "alive" -> {"gone", "unreaped"}
                               [] heir[l] = "adopted" -> {"zombie"} [] OTHER -> {"gone"} :
                     heir' = [heir EXCEPT ![l] = end]
                /\ UNCHANGED <<world, output, report, at, run, child, spawned, faults>>

-----------------------------------------------------------------------------
(* _run_traced_process. *)

(* Mutant: the evaluator starts before the marker has its name. *)
SpawnEarly(l) == /\ at[l] \in {"spawn", "stage"} /\ child[l] = "none"
                 /\ child' = [child EXCEPT ![l] = "setup"]
                 /\ spawned' = [spawned EXCEPT ![l] = Repeat(l)]
                 /\ Goto(l, IF at[l] = "stage" THEN "stage" ELSE "exec")
                 /\ UNCHANGED <<world, output, report, run, heir, faults>>

Spawn(l) == /\ at[l] = "spawn" /\ Ready(l)
            /\ child' = [child EXCEPT ![l] = "setup"]
            /\ spawned' = [spawned EXCEPT ![l] = Repeat(l)]
            /\ Goto(l, "exec")
            /\ UNCHANGED <<world, output, report, run, heir, faults>>

Fails(l, why) == Keep(l, [run[l] EXCEPT !.why = why]) /\ Goto(l, "clean")

(* _wait_exec_stop. *)
WaitExecStop(l) ==
  /\ at[l] = "exec"
  /\ \/ child[l] = "held" /\ Goto(l, "inspect") /\ UNCHANGED <<run, child>>
     \/ child[l] = "bad" /\ Fails(l, "setup") /\ child' = [child EXCEPT ![l] = "gone"]
  /\ UNCHANGED <<world, output, report, heir, spawned, faults>>

(* _inspect_stopped_child, under its own deadline.                         *)
Inspect(l) ==
  /\ at[l] = "inspect"
  /\ \/ Keep(l, [run[l] EXCEPT !.inspected = TRUE]) /\ Goto(l, "detach") /\ UNCHANGED faults
     \/ Fault /\ Fails(l, "inspection")
  /\ UNCHANGED <<world, output, report, processes, spawned>>

(* Mutant: the child is let go before it is inspected. *)
DetachFirst(l) ==
  /\ at[l] \in {"inspect", "detach"}
  /\ IF child[l] = "held"
     THEN child' = [child EXCEPT ![l] = "running"] /\ Goto(l, "run") /\ UNCHANGED run
     ELSE Fails(l, "detach") /\ UNCHANGED child
  /\ UNCHANGED <<world, output, report, heir, spawned, faults>>

Detach(l) ==
  /\ at[l] = "detach"
  /\ IF child[l] = "held"
     THEN child' = [child EXCEPT ![l] = "running"] /\ Goto(l, "run") /\ UNCHANGED run
     ELSE Fails(l, "detach") /\ UNCHANGED child
  /\ UNCHANGED <<world, output, report, heir, spawned, faults>>

Reap(l) == /\ child[l] \in {"zero", "bad"}
           /\ child' = [child EXCEPT ![l] = "gone"]

WaitRun(l) == /\ at[l] = "run" /\ Reap(l)
              /\ Keep(l, [run[l] EXCEPT !.code = child[l]]) /\ Goto(l, "drain")
              /\ UNCHANGED <<world, output, report, heir, spawned, faults>>

(* The deadline of the launch passes while it waits for the child.         *)
TimeOut(l) == /\ at[l] \in {"exec", "run"} /\ child[l] \in {"setup", "held", "running"}
              /\ Fails(l, "timeout")
              /\ UNCHANGED <<world, output, report, processes, spawned, faults>>

(* The exception path kills the direct child with its group, and waits.    *)
Clean(l) ==
  /\ at[l] = "clean"
  /\ IF child[l] \in {"none", "gone"}
     THEN Goto(l, "drain") /\ UNCHANGED <<run, processes>>
     ELSE /\ child' = [child EXCEPT ![l] = IF @ \in {"zero", "bad"} THEN @ ELSE "bad"]
          /\ heir' = [heir EXCEPT ![l] = Orphan(l)]
          /\ Keep(l, [run[l] EXCEPT !.killed = TRUE]) /\ Goto(l, "reap")
  /\ UNCHANGED <<world, output, report, spawned, faults>>

ReapKilled(l) ==
  /\ at[l] = "reap"
  /\ \/ Reap(l) /\ Keep(l, [run[l] EXCEPT !.code = child[l]]) /\ UNCHANGED faults
     \/ Fault /\ UNCHANGED <<run, child>>      \* the bounded wait ends first
  /\ Goto(l, "drain")
  /\ UNCHANGED <<world, output, report, heir, spawned>>

-----------------------------------------------------------------------------
(* _drain_adopted_children. *)

(* Mutant: a descendant that was found dead does not count. *)
ObserveLiving(l) ==
  /\ at[l] = "drain" /\ heir[l] \in {"adopted", "zombie"}
  /\ Keep(l, [run[l] EXCEPT !.observed = (heir[l] = "adopted" \/ @)])
  /\ heir' = [heir EXCEPT ![l] = IF @ = "adopted" THEN "zombie" ELSE "reaped"]
  /\ UNCHANGED <<world, output, report, at, child, spawned, faults>>

Observe(l) ==
  /\ at[l] = "drain" /\ heir[l] \in {"adopted", "zombie"}
  /\ Keep(l, [run[l] EXCEPT !.observed = TRUE])
  /\ heir' = [heir EXCEPT ![l] = IF @ = "adopted" THEN "zombie" ELSE "reaped"]
  /\ UNCHANGED <<world, output, report, at, child, spawned, faults>>

Outcome(l) == IF run[l].why # "none" THEN run[l].why
              ELSE IF run[l].observed THEN "descendant"
              ELSE IF run[l].code # "zero" THEN "exit" ELSE "none"

(* Terminal ECHILD, or the deadline of the cleanup.                        *)
Drained(l) ==
  /\ at[l] = "drain"
  /\ \/ /\ Ready(l) /\ UNCHANGED faults
        /\ Keep(l, [run[l] EXCEPT !.echild = TRUE, !.why = Outcome(l)])
     \/ ~Ready(l) /\ UNCHANGED faults /\ Keep(l, [run[l] EXCEPT !.why = "cleanup"])
  /\ Goto(l, IF run'[l].why = "none" THEN "post" ELSE "r_stage")
  /\ UNCHANGED <<world, output, report, processes, spawned>>

(* After a clean exit: the boundary, the contract, the source and the      *)
(* interpreter, then the validation through this repeat.                   *)
Post(l) ==
  /\ at[l] = "post"
  /\ LET k == Repeat(l)
     IN IF /\ Ready(l) /\ Loads /\ Contract = run[l].contract
           /\ SourceIdentity /\ InterpreterIdentity
        THEN Keep(l, IF Validates(k)
                     THEN [run[l] EXCEPT !.control = TRUE, !.validation = Validation(k)]
                     ELSE [run[l] EXCEPT !.control = TRUE, !.why = "validation"])
        ELSE Keep(l, [run[l] EXCEPT !.why = "control"])
  /\ Goto(l, "r_stage")
  /\ UNCHANGED <<world, output, report, processes, spawned, faults>>

-----------------------------------------------------------------------------
(* What interferes. *)

Before == {"inventory", "preflight", "revalidate", "reload", "stage", "link", "settle"}
Guarded == {"spawn", "exec", "inspect", "detach", "run"}
Late == {"clean", "reap", "drain", "post"}
Receipt == {"r_stage", "r_link", "r_settle"}
Ended == {"refused", "failed", "done", "dead"}

(* KeyboardInterrupt. *)
Interrupt(l) ==
  /\ Fault
  /\ \/ at[l] \in Before /\ Refuse(l)
     \/ at[l] \in Guarded /\ Fails(l, "interrupt")
     \/ at[l] = "drain" /\ run[l].why = "none" /\ Fails(l, "interrupt")
     \/ /\ at[l] \in Late \cup {"exec"}     \* also: before fork has returned
        /\ Keep(l, [run[l] EXCEPT !.why = "interrupt"]) /\ Goto(l, "r_stage")
     \/ at[l] \in Receipt /\ Goto(l, "failed") /\ UNCHANGED run
  /\ litter' = IF at[l] \in Before \cup Receipt THEN litter \ {l} ELSE litter
  /\ UNCHANGED <<world, output, marker, receipt, processes, spawned>>

(* A launcher that is killed or exits: PDEATHSIG takes the child with it.  *)
Leaves(l) == /\ child' = [child EXCEPT ![l] = IF @ \in {"none", "setup"} THEN @ ELSE "gone"]
             /\ heir' = [heir EXCEPT ![l] = IF @ \in {"alive", "adopted"} THEN "orphan"
                                            ELSE IF @ = "none" THEN @ ELSE "gone"]

Kill(l) == /\ at[l] \notin Ended \cup {"idle"} /\ Fault
           /\ Goto(l, "dead") /\ Leaves(l)
           /\ UNCHANGED <<world, output, report, run, spawned>>

Exits(l) == /\ at[l] \in Ended \ {"dead"}
            /\ child[l] \notin {"none", "gone"} \/ heir[l] \in {"alive", "unreaped", "adopted", "zombie"}
            /\ child' = [child EXCEPT ![l] = "gone"]
            /\ heir' = [heir EXCEPT ![l] = IF @ \in {"alive", "adopted"} THEN "orphan"
                                           ELSE IF @ = "none" THEN @ ELSE "gone"]
            /\ UNCHANGED <<world, output, report, at, run, spawned, faults>>

(* A control or an output changes, and may change back.                    *)
Change == /\ Fault
          /\ \/ \E i \in Controls, v \in 0 .. 2 :
                  v # world[i] /\ (i \in Pinned => v # 2)
                  /\ world' = [world EXCEPT ![i] = v] /\ UNCHANGED output
             \/ \E k \in Repeats : /\ output[k] = "a" /\ output' = [output EXCEPT ![k] = "b"]
                                   /\ UNCHANGED world
          /\ UNCHANGED <<report, at, run, processes, spawned>>

(* The report root and the output roots are in a tmpfs.                    *)
Reboot == /\ Reboots /\ Fault
          /\ output' = [k \in Repeats |-> "none"]
          /\ marker' = [k \in Repeats |-> Absent] /\ receipt' = [k \in Repeats |-> Absent]
          /\ litter' = {}
          /\ at' = [l \in Launchers |-> IF at[l] \in {"idle"} THEN "idle" ELSE "dead"]
          /\ child' = [l \in Launchers |-> IF child[l] = "none" THEN "none" ELSE "gone"]
          /\ heir' = [l \in Launchers |-> IF heir[l] = "none" THEN "none" ELSE "gone"]
          /\ UNCHANGED <<world, run, spawned>>

-----------------------------------------------------------------------------
Init == /\ world = [i \in Controls |-> 0]
        /\ output = [k \in Repeats |-> "none"]
        /\ marker = [k \in Repeats |-> Absent] /\ receipt = [k \in Repeats |-> Absent]
        /\ litter = {}
        /\ at = [l \in Launchers |-> "idle"] /\ run = [l \in Launchers |-> NoRun]
        /\ child = [l \in Launchers |-> "none"] /\ heir = [l \in Launchers |-> "none"]
        /\ spawned = [l \in Launchers |-> 0]
        /\ faults = 0

Step(l) == \/ Inventory(l) \/ Preflight(l) \/ Revalidate(l) \/ Reload(l)
           \/ Stage(l) \/ Link(l) \/ LinkReceipt(l) \/ Settle(l)
           \/ Spawn(l) \/ WaitExecStop(l) \/ Inspect(l) \/ Detach(l) \/ WaitRun(l)
           \/ Clean(l) \/ ReapKilled(l) \/ Observe(l) \/ Drained(l) \/ Post(l)
Evaluator(l) == ChildExec(l) \/ Fork(l) \/ Evaluate(l) \/ Exit(l) \/ HeirExits(l)

Next == \/ \E l \in Launchers : Start(l) \/ Step(l) \/ Evaluator(l) \/ TimeOut(l)
                                \/ Interrupt(l) \/ Kill(l) \/ Exits(l)
        \/ Change \/ Reboot

(* The launcher goes on, and its deadlines pass; nothing is assumed of the *)
(* evaluator.                                                              *)
Fairness == \A l \in Launchers : WF_vars(Step(l)) /\ WF_vars(TimeOut(l))

Spec == Init /\ [][Next]_vars /\ Fairness

-----------------------------------------------------------------------------
(* The values of the variables; whoever has a child has consumed a repeat. *)
TypeOK ==
  /\ world \in [Controls -> 0 .. 2]
  /\ output \in [Repeats -> {"none", "staged", "a", "b", "bad"}]
  /\ litter \subseteq Launchers
  /\ at \in [Launchers -> {"idle"} \cup Before \cup Guarded \cup Late \cup Receipt \cup Ended]
  /\ child \in [Launchers -> {"none", "setup", "held", "running", "zero", "bad", "gone"}]
  /\ heir \in [Launchers -> {"none", "alive", "unreaped", "adopted", "orphan", "zombie", "reaped",
                               "gone"}]
  /\ \A l \in Launchers : child[l] # "none" =>
       /\ spawned[l] = Repeat(l) /\ Repeat(l) \in Repeats
       /\ Reboots \/ marker[Repeat(l)] # Absent
  /\ faults \in 0 .. MaxFaults

(* No repeat is evaluated twice, whatever is interrupted, killed or        *)
(* started side by side (the marker of _launch_repeat).                    *)
EvaluatedOnce ==
  \A l, m \in Launchers : l # m /\ spawned[l] # 0 => spawned[l] # spawned[m]

(* An evaluator starts only when every earlier repeat has a receipt that   *)
(* says validated, under the contract and the runtime of this launch, and  *)
(* each receipt states the validation of the one before it.                *)
SeriesAgrees ==
  \A l \in Launchers : child[l] # "none" /\ spawned[l] > 1 /\ marker[spawned[l]] # Absent =>
    \A j \in 1 .. spawned[l] - 1 :
      /\ receipt[j] # Absent /\ receipt[j].status = "validated"
      /\ receipt[j].contract = run[l].contract /\ receipt[j].runtime = run[l].runtime
      /\ j > 1 => receipt[j].prior = receipt[j - 1].validation

(* A receipt that says validated was written by the launcher whose         *)
(* evaluator was inspected at its exec, exited by itself, left nothing,    *)
(* and put an output there that passed its validation.                     *)
ValidatedIsContained ==
  \A k \in Repeats : receipt[k] # Absent /\ receipt[k].status = "validated" =>
    LET l == receipt[k].by
    IN /\ spawned[l] = k /\ marker[k].by = l
       /\ child[l] = "gone" /\ heir[l] \in {"none", "gone"}
       /\ receipt[k].validation[k] \in {"a", "b"}

(* The steps that the next property allows. *)
RunsInspectedStep ==
  \A l \in Launchers : child'[l] = "running" => run[l].inspected

(* The evaluator leaves its exec stop only after the inspection, or dead.  *)
RunsInspected == [][RunsInspectedStep]_vars

(* A launch that consumed its repeat ends, with an evaluator that never    *)
(* stops, never reaches its exec or cannot be reaped                       *)
(* (_wait_exec_stop, _wait_direct_terminal, _drain_adopted_children).      *)
LaunchEnds == \A l \in Launchers : at[l] \in Guarded ~> at[l] \in Ended
=============================================================================
