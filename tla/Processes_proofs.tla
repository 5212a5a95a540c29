-------------------------- MODULE Processes_proofs --------------------------
(***************************************************************************)
(* Proofs of what the commands of the scripts promise, for every value of  *)
(* the constants: first a contained command, for any finite number of      *)
(* processes, however they fork, and any number of faults; a calibration   *)
(* command, for pipes of any size; the launches of the diagnostic, for any *)
(* number of them and of repeats, as long as the machine does not restart; *)
(* two attestations of a runtime, for any paths and links; then all of the *)
(* components, one of which runs, from their own invariants.               *)
(***************************************************************************)
EXTENDS Processes, TLAPS

-----------------------------------------------------------------------------
(* A contained command.                                                    *)

Fresh == {"recheck", "subreaper", "spawn"}               \* reserved, not yet run
Running == {"wait", "drain", "handle_wait", "redrain"}   \* the child was created
Closing == {"handle", "finish", "post", "commit"}

(* The record is there before the command, and keeps a second call from it. *)
OnceInv ==
  /\ spawns = 0 => Contained!Present = {} /\ used = {} /\ ~outlived
  /\ spawns # 0 => record # "absent" /\ durable # "absent"
  /\ spawns <= 1
  /\ pc \in Fresh => spawns = 0 /\ record # "absent" /\ durable # "absent"
  /\ pc \in Running \/ (pc = "handle" /\ known) => spawns = 1

(* The launcher adopts orphans from before the child is created until no    *)
(* descendant is left.                                                      *)
AdoptInv ==
  /\ pc \in Running \cup {"spawn"} \/ (pc = "handle" /\ known) => subreaper
  /\ pc \in Fresh \cup {"attest", "reserve"} => ~known
  /\ pc \in {"post", "commit"} => ~subreaper

(* Who is there has a living parent, or the launcher, or the system when    *)
(* the launcher is no subreaper; and parents come before their children.    *)
Rooted(S) == S # {} => \E p \in S : parent[p] \notin S
TreeInv ==
  /\ \A p \in Contained!Present : parent[p] \in Contained!Alive
           \cup {Contained!Launcher, Contained!System}
  /\ subreaper => \A p \in Contained!Present : parent[p] # Contained!System
  /\ \A S \in SUBSET Contained!Present : Rooted(S)

(* A descendant that outlived the child is there, at the launcher, until    *)
(* it is observed.                                                          *)
OutlivedInv ==
  /\ notes.echild => Contained!Present = {} /\ spawns = 1
  /\ notes.echild /\ ~notes.observed => ~outlived
  /\ outlived /\ subreaper /\ ~notes.observed
       => \E p \in Contained!Present \ {Contained!Direct} : parent[p] = Contained!Launcher

(* What the processes of a call have seen lies between its attestations.    *)
SeenInv ==
  /\ pc \in Running \cup Closing => \A u \in used : u[1] = pre /\ pre <= u[2] /\ u[2] <= runtime
  /\ pc = "commit" /\ ~notes.failure /\ notes.echild => \A u \in used : u[2] = u[1]

(* What an accepted record says, on disk or after a power loss.             *)
RecordInv ==
  "accepted" \in {record, durable} =>
    Contained!Present = {} /\ ~outlived /\ spawns = 1 /\ \A u \in used : u[2] = u[1]

TreeTypes ==
  /\ state \in [Members -> {"none", "runs", "stopped", "zombie", "gone"}]
  /\ parent \in [Members -> Members \cup {Contained!Launcher, Contained!System}]
  /\ grouped \subseteq Members /\ doomed \subseteq Members
CallTypes ==
  /\ {subreaper, known} \subseteq BOOLEAN
       /\ (subreaper => pc \in Contained!Guarded \cup Contained!Cleaning)
  /\ pc \in Contained!Guarded \cup Contained!Cleaning \cup {"attest", "reserve", "ended", "dead"}
  /\ notes \in [DOMAIN Contained!NoNotes -> BOOLEAN]
ResultTypes ==
  /\ outlived \in BOOLEAN /\ status \in {"none", "good", "bad"}
  /\ {record, durable} \subseteq {"absent", "torn", "started", "accepted", "refused"}
CountTypes ==
  /\ pre \in Nat /\ runtime \in Nat /\ pre <= runtime
  /\ faults \in Nat /\ runtime <= faults /\ faults <= MaxFaults
  /\ used \subseteq (0 .. MaxFaults) \X (0 .. MaxFaults)
  /\ spawns \in 0 .. 2
ContainedTypes == TreeTypes /\ CallTypes /\ ResultTypes /\ CountTypes
ContainedInv == ContainedTypes /\ OnceInv /\ AdoptInv /\ TreeInv /\ OutlivedInv /\ SeenInv
  /\ RecordInv

LEMMA ContainedNotes == DOMAIN Contained!NoNotes = {"failure", "timeout", "observed", "echild"}
  BY DEF Contained!NoNotes

LEMMA NoNotesType == Contained!NoNotes \in [DOMAIN Contained!NoNotes -> BOOLEAN]
  BY DEF Contained!NoNotes

LEMMA ProcessNames ==
  ASSUME Contained!ContainmentAssumption
  PROVE  /\ Members \cap {Contained!Launcher, Contained!System} = {}
              /\ Contained!Direct \in Members
         /\ Contained!Launcher # Contained!System
  BY DEF Contained!ContainmentAssumption, Contained!Launcher, Contained!System, Contained!Direct

LEMMA Existing == Contained!Alive \subseteq Contained!Present
  /\ Contained!Present \subseteq Members
  BY DEF Contained!Alive, Contained!Present

LEMMA Types == ASSUME Contained!ContainmentAssumption, ContainedTypes PROVE Contained!TypeOK
  BY DEF Contained!ContainmentAssumption, ContainedTypes, TreeTypes, CallTypes, ResultTypes,
         CountTypes, Contained!TypeOK

LEMMA TreeTypesStep ==
  ASSUME Contained!ContainmentAssumption, TreeTypes, Contained!Next
  PROVE  TreeTypes'
  <1> USE ProcessNames, Existing DEF TreeTypes
  <1>1. CASE Contained!Attest
    BY <1>1 DEF Contained!Attest, Contained!Goto, Contained!tree, Contained!files,
                Contained!history
  <1>2. CASE Contained!Reserve
    BY <1>2 DEF Contained!Reserve, Contained!Goto, Contained!Fault, Contained!tree,
                Contained!files, Contained!history
  <1>3. CASE Contained!Recheck
    BY <1>3 DEF Contained!Recheck, Contained!Goto, Contained!Note, Contained!tree,
                Contained!files, Contained!history
  <1>4. CASE Contained!SetSubreaper
    BY <1>4 DEF Contained!SetSubreaper, Contained!Goto, Contained!tree, Contained!files,
                Contained!history
  <1>5. CASE Contained!Spawn
    BY <1>5 DEF Contained!Spawn, Contained!Goto, Contained!Note, Contained!Fault,
                Contained!tree, Contained!files, Contained!history
  <1>6. CASE Contained!Wait
    BY <1>6 DEF Contained!Wait, Contained!Goto, Contained!Note, Contained!Kill,
                Contained!ReapDirect, Contained!tree, Contained!files, Contained!history
  <1>7. CASE Contained!KillGroup
    BY <1>7 DEF Contained!KillGroup, Contained!Kill, Contained!tree, Contained!files,
                Contained!history
  <1>8. CASE Contained!Observe
    BY <1>8 DEF Contained!Observe, Contained!Note, Contained!Kill, Contained!Draining,
                Contained!tree, Contained!files, Contained!history
  <1>9. CASE Contained!ReapAny
    BY <1>9 DEF Contained!ReapAny, Contained!Note, Contained!Draining, Contained!Children,
                Contained!tree, Contained!files, Contained!history
  <1>10. CASE Contained!Drained
    BY <1>10 DEF Contained!Drained, Contained!Note, Contained!Goto, Contained!Draining,
                 Contained!tree, Contained!files, Contained!history
  <1>11. CASE Contained!DrainTimeOut
    BY <1>11 DEF Contained!DrainTimeOut, Contained!Note, Contained!Goto, Contained!Draining,
                 Contained!tree, Contained!files, Contained!history
  <1>12. CASE Contained!Handle
    BY <1>12 DEF Contained!Handle, Contained!Goto, Contained!Kill, Contained!tree,
                 Contained!files, Contained!history
  <1>13. CASE Contained!HandleWait
    BY <1>13 DEF Contained!HandleWait, Contained!Goto, Contained!ReapDirect, Contained!tree,
                 Contained!files, Contained!history
  <1>14. CASE Contained!Finish
    BY <1>14 DEF Contained!Finish, Contained!Goto, Contained!tree, Contained!files,
                 Contained!history
  <1>15. CASE Contained!Post
    BY <1>15 DEF Contained!Post, Contained!Goto, Contained!Note, Contained!tree,
                 Contained!files, Contained!history
  <1>16. CASE Contained!Commit
    BY <1>16 DEF Contained!Commit, Contained!Goto, Contained!Verdict, Contained!Fault,
                 Contained!tree, Contained!files, Contained!history
  <1>17. CASE Contained!TimeOut
    BY <1>17 DEF Contained!TimeOut, Contained!Note, Contained!tree, Contained!files,
                 Contained!history
  <1>18. CASE Contained!Interrupt
    BY <1>18 DEF Contained!Interrupt, Contained!Goto, Contained!Note, Contained!Fault,
                 Contained!Guarded, Contained!Cleaning, Contained!tree, Contained!files,
                 Contained!history
  <1>19. CASE Contained!LauncherDies
    BY <1>19 DEF Contained!LauncherDies, Contained!Goto, Contained!Fault, Contained!tree,
                 Contained!files, Contained!history
  <1>20. CASE Contained!PowerLoss
    BY <1>20 DEF Contained!PowerLoss, Contained!Goto, Contained!Fault, Contained!tree,
                 Contained!files, Contained!history
  <1>21. CASE Contained!Again
    BY <1>21 DEF Contained!Again, Contained!Goto, Contained!tree, Contained!files,
                 Contained!history
  <1>22. CASE Contained!Mutate
    BY <1>22 DEF Contained!Mutate, Contained!Fault, Contained!tree, Contained!files,
                 Contained!history
  <1>23. ASSUME NEW p \in Members, Contained!Die(p) PROVE TreeTypes'
    BY <1>23 DEF Contained!Die, Contained!Heir, Contained!tree, Contained!files, Contained!history
  <1>24. ASSUME NEW p \in Members, Contained!Stop(p) PROVE TreeTypes'
    BY <1>24 DEF Contained!Stop, Contained!Fault, Contained!tree, Contained!files,
                 Contained!history
  <1>25. ASSUME NEW p \in Members, Contained!ReapOwn(p) PROVE TreeTypes'
    BY <1>25 DEF Contained!ReapOwn, Contained!tree, Contained!files, Contained!history
  <1>26. ASSUME NEW p \in Members, Contained!Fork(p) PROVE TreeTypes'
    BY <1>26 DEF Contained!Fork, Contained!tree, Contained!files, Contained!history
  <1> QED BY <1>1, <1>2, <1>3, <1>4, <1>5, <1>6, <1>7, <1>8, <1>9, <1>10, <1>11, <1>12,
       <1>13, <1>14, <1>15, <1>16, <1>17, <1>18, <1>19, <1>20, <1>21, <1>22, <1>23, <1>24,
       <1>25, <1>26 DEF Contained!Next, Contained!Step, Contained!Deaths

LEMMA CallTypesStep ==
  ASSUME CallTypes, AdoptInv, Contained!Next
  PROVE  CallTypes'
  <1> USE ContainedNotes, NoNotesType DEF CallTypes, AdoptInv, Contained!Guarded,
                                          Contained!Cleaning
  <1>1. CASE Contained!Attest
    BY <1>1 DEF Contained!Attest, Contained!Goto, Contained!tree, Contained!files,
                Contained!history
  <1>2. CASE Contained!Reserve
    BY <1>2 DEF Contained!Reserve, Contained!Goto, Contained!Fault, Contained!tree,
                Contained!files, Contained!history
  <1>3. CASE Contained!Recheck
    BY <1>3 DEF Contained!Recheck, Contained!Goto, Contained!Note, Contained!tree,
                Contained!files, Contained!history
  <1>4. CASE Contained!SetSubreaper
    BY <1>4 DEF Contained!SetSubreaper, Contained!Goto, Contained!tree, Contained!files,
                Contained!history
  <1>5. CASE Contained!Spawn
    BY <1>5 DEF Contained!Spawn, Contained!Goto, Contained!Note, Contained!Fault,
                Contained!tree, Contained!files, Contained!history
  <1>6. CASE Contained!Wait
    BY <1>6 DEF Contained!Wait, Contained!Goto, Contained!Note, Contained!Kill,
                Contained!ReapDirect, Contained!tree, Contained!files, Contained!history
  <1>7. CASE Contained!KillGroup
    BY <1>7 DEF Contained!KillGroup, Contained!Kill, Contained!tree, Contained!files,
                Contained!history
  <1>8. CASE Contained!Observe
    BY <1>8 DEF Contained!Observe, Contained!Note, Contained!Kill, Contained!Draining,
                Contained!tree, Contained!files, Contained!history
  <1>9. CASE Contained!ReapAny
    BY <1>9 DEF Contained!ReapAny, Contained!Note, Contained!Draining, Contained!Children,
                Contained!tree, Contained!files, Contained!history
  <1>10. CASE Contained!Drained
    BY <1>10 DEF Contained!Drained, Contained!Note, Contained!Goto, Contained!Draining,
                 Contained!tree, Contained!files, Contained!history
  <1>11. CASE Contained!DrainTimeOut
    BY <1>11 DEF Contained!DrainTimeOut, Contained!Note, Contained!Goto, Contained!Draining,
                 Contained!tree, Contained!files, Contained!history
  <1>12. CASE Contained!Handle
    BY <1>12 DEF Contained!Handle, Contained!Goto, Contained!Kill, Contained!tree,
                 Contained!files, Contained!history
  <1>13. CASE Contained!HandleWait
    BY <1>13 DEF Contained!HandleWait, Contained!Goto, Contained!ReapDirect, Contained!tree,
                 Contained!files, Contained!history
  <1>14. CASE Contained!Finish
    BY <1>14 DEF Contained!Finish, Contained!Goto, Contained!tree, Contained!files,
                 Contained!history
  <1>15. CASE Contained!Post
    BY <1>15 DEF Contained!Post, Contained!Goto, Contained!Note, Contained!tree,
                 Contained!files, Contained!history
  <1>16. CASE Contained!Commit
    BY <1>16 DEF Contained!Commit, Contained!Goto, Contained!Verdict, Contained!Fault,
                 Contained!tree, Contained!files, Contained!history
  <1>17. CASE Contained!TimeOut
    BY <1>17 DEF Contained!TimeOut, Contained!Note, Contained!tree, Contained!files,
                 Contained!history
  <1>18. CASE Contained!Interrupt
    BY <1>18 DEF Contained!Interrupt, Contained!Goto, Contained!Note, Contained!Fault,
                 Contained!Guarded, Contained!Cleaning, Contained!tree, Contained!files,
                 Contained!history
  <1>19. CASE Contained!LauncherDies
    BY <1>19 DEF Contained!LauncherDies, Contained!Goto, Contained!Fault, Contained!tree,
                 Contained!files, Contained!history
  <1>20. CASE Contained!PowerLoss
    BY <1>20 DEF Contained!PowerLoss, Contained!Goto, Contained!Fault, Contained!tree,
                 Contained!files, Contained!history
  <1>21. CASE Contained!Again
    BY <1>21 DEF Contained!Again, Contained!Goto, Contained!tree, Contained!files,
                 Contained!history
  <1>22. CASE Contained!Mutate
    BY <1>22 DEF Contained!Mutate, Contained!Fault, Contained!tree, Contained!files,
                 Contained!history
  <1>23. ASSUME NEW p \in Members, Contained!Die(p) PROVE CallTypes'
    BY <1>23 DEF Contained!Die, Contained!Heir, Contained!tree, Contained!files, Contained!history
  <1>24. ASSUME NEW p \in Members, Contained!Stop(p) PROVE CallTypes'
    BY <1>24 DEF Contained!Stop, Contained!Fault, Contained!tree, Contained!files,
                 Contained!history
  <1>25. ASSUME NEW p \in Members, Contained!ReapOwn(p) PROVE CallTypes'
    BY <1>25 DEF Contained!ReapOwn, Contained!tree, Contained!files, Contained!history
  <1>26. ASSUME NEW p \in Members, Contained!Fork(p) PROVE CallTypes'
    BY <1>26 DEF Contained!Fork, Contained!tree, Contained!files, Contained!history
  <1> QED BY <1>1, <1>2, <1>3, <1>4, <1>5, <1>6, <1>7, <1>8, <1>9, <1>10, <1>11, <1>12,
       <1>13, <1>14, <1>15, <1>16, <1>17, <1>18, <1>19, <1>20, <1>21, <1>22, <1>23, <1>24,
       <1>25, <1>26 DEF Contained!Next, Contained!Step, Contained!Deaths

LEMMA ResultTypesStep ==
  ASSUME ResultTypes, Contained!Next
  PROVE  ResultTypes'
  <1> USE DEF ResultTypes
  <1>1. CASE Contained!Attest
    BY <1>1 DEF Contained!Attest, Contained!Goto, Contained!tree, Contained!files,
                Contained!history
  <1>2. CASE Contained!Reserve
    BY <1>2 DEF Contained!Reserve, Contained!Goto, Contained!Fault, Contained!tree,
                Contained!files, Contained!history
  <1>3. CASE Contained!Recheck
    BY <1>3 DEF Contained!Recheck, Contained!Goto, Contained!Note, Contained!tree,
                Contained!files, Contained!history
  <1>4. CASE Contained!SetSubreaper
    BY <1>4 DEF Contained!SetSubreaper, Contained!Goto, Contained!tree, Contained!files,
                Contained!history
  <1>5. CASE Contained!Spawn
    BY <1>5 DEF Contained!Spawn, Contained!Goto, Contained!Note, Contained!Fault,
                Contained!tree, Contained!files, Contained!history
  <1>6. CASE Contained!Wait
    BY <1>6 DEF Contained!Wait, Contained!Goto, Contained!Note, Contained!Kill,
                Contained!ReapDirect, Contained!tree, Contained!files, Contained!history
  <1>7. CASE Contained!KillGroup
    BY <1>7 DEF Contained!KillGroup, Contained!Kill, Contained!tree, Contained!files,
                Contained!history
  <1>8. CASE Contained!Observe
    BY <1>8 DEF Contained!Observe, Contained!Note, Contained!Kill, Contained!Draining,
                Contained!tree, Contained!files, Contained!history
  <1>9. CASE Contained!ReapAny
    BY <1>9 DEF Contained!ReapAny, Contained!Note, Contained!Draining, Contained!Children,
                Contained!tree, Contained!files, Contained!history
  <1>10. CASE Contained!Drained
    BY <1>10 DEF Contained!Drained, Contained!Note, Contained!Goto, Contained!Draining,
                 Contained!tree, Contained!files, Contained!history
  <1>11. CASE Contained!DrainTimeOut
    BY <1>11 DEF Contained!DrainTimeOut, Contained!Note, Contained!Goto, Contained!Draining,
                 Contained!tree, Contained!files, Contained!history
  <1>12. CASE Contained!Handle
    BY <1>12 DEF Contained!Handle, Contained!Goto, Contained!Kill, Contained!tree,
                 Contained!files, Contained!history
  <1>13. CASE Contained!HandleWait
    BY <1>13 DEF Contained!HandleWait, Contained!Goto, Contained!ReapDirect, Contained!tree,
                 Contained!files, Contained!history
  <1>14. CASE Contained!Finish
    BY <1>14 DEF Contained!Finish, Contained!Goto, Contained!tree, Contained!files,
                 Contained!history
  <1>15. CASE Contained!Post
    BY <1>15 DEF Contained!Post, Contained!Goto, Contained!Note, Contained!tree,
                 Contained!files, Contained!history
  <1>16. CASE Contained!Commit
    BY <1>16 DEF Contained!Commit, Contained!Goto, Contained!Verdict, Contained!Fault,
                 Contained!tree, Contained!files, Contained!history
  <1>17. CASE Contained!TimeOut
    BY <1>17 DEF Contained!TimeOut, Contained!Note, Contained!tree, Contained!files,
                 Contained!history
  <1>18. CASE Contained!Interrupt
    BY <1>18 DEF Contained!Interrupt, Contained!Goto, Contained!Note, Contained!Fault,
                 Contained!Guarded, Contained!Cleaning, Contained!tree, Contained!files,
                 Contained!history
  <1>19. CASE Contained!LauncherDies
    BY <1>19 DEF Contained!LauncherDies, Contained!Goto, Contained!Fault, Contained!tree,
                 Contained!files, Contained!history
  <1>20. CASE Contained!PowerLoss
    BY <1>20 DEF Contained!PowerLoss, Contained!Goto, Contained!Fault, Contained!tree,
                 Contained!files, Contained!history
  <1>21. CASE Contained!Again
    BY <1>21 DEF Contained!Again, Contained!Goto, Contained!tree, Contained!files,
                 Contained!history
  <1>22. CASE Contained!Mutate
    BY <1>22 DEF Contained!Mutate, Contained!Fault, Contained!tree, Contained!files,
                 Contained!history
  <1>23. ASSUME NEW p \in Members, Contained!Die(p) PROVE ResultTypes'
    BY <1>23 DEF Contained!Die, Contained!Heir, Contained!tree, Contained!files, Contained!history
  <1>24. ASSUME NEW p \in Members, Contained!Stop(p) PROVE ResultTypes'
    BY <1>24 DEF Contained!Stop, Contained!Fault, Contained!tree, Contained!files,
                 Contained!history
  <1>25. ASSUME NEW p \in Members, Contained!ReapOwn(p) PROVE ResultTypes'
    BY <1>25 DEF Contained!ReapOwn, Contained!tree, Contained!files, Contained!history
  <1>26. ASSUME NEW p \in Members, Contained!Fork(p) PROVE ResultTypes'
    BY <1>26 DEF Contained!Fork, Contained!tree, Contained!files, Contained!history
  <1> QED BY <1>1, <1>2, <1>3, <1>4, <1>5, <1>6, <1>7, <1>8, <1>9, <1>10, <1>11, <1>12,
       <1>13, <1>14, <1>15, <1>16, <1>17, <1>18, <1>19, <1>20, <1>21, <1>22, <1>23, <1>24,
       <1>25, <1>26 DEF Contained!Next, Contained!Step, Contained!Deaths

LEMMA CountTypesStep ==
  ASSUME Contained!ContainmentAssumption, CountTypes, OnceInv, Contained!Next
  PROVE  CountTypes'
  <1> USE DEF CountTypes, Contained!ContainmentAssumption, OnceInv, Fresh
  <1>1. CASE Contained!Attest
    BY <1>1 DEF Contained!Attest, Contained!Goto, Contained!tree, Contained!files,
                Contained!history
  <1>2. CASE Contained!Reserve
    BY <1>2 DEF Contained!Reserve, Contained!Goto, Contained!Fault, Contained!tree,
                Contained!files, Contained!history
  <1>3. CASE Contained!Recheck
    BY <1>3 DEF Contained!Recheck, Contained!Goto, Contained!Note, Contained!tree,
                Contained!files, Contained!history
  <1>4. CASE Contained!SetSubreaper
    BY <1>4 DEF Contained!SetSubreaper, Contained!Goto, Contained!tree, Contained!files,
                Contained!history
  <1>5. CASE Contained!Spawn
    BY <1>5 DEF Contained!Spawn, Contained!Goto, Contained!Note, Contained!Fault,
                Contained!tree, Contained!files, Contained!history
  <1>6. CASE Contained!Wait
    BY <1>6 DEF Contained!Wait, Contained!Goto, Contained!Note, Contained!Kill,
                Contained!ReapDirect, Contained!tree, Contained!files, Contained!history
  <1>7. CASE Contained!KillGroup
    BY <1>7 DEF Contained!KillGroup, Contained!Kill, Contained!tree, Contained!files,
                Contained!history
  <1>8. CASE Contained!Observe
    BY <1>8 DEF Contained!Observe, Contained!Note, Contained!Kill, Contained!Draining,
                Contained!tree, Contained!files, Contained!history
  <1>9. CASE Contained!ReapAny
    BY <1>9 DEF Contained!ReapAny, Contained!Note, Contained!Draining, Contained!Children,
                Contained!tree, Contained!files, Contained!history
  <1>10. CASE Contained!Drained
    BY <1>10 DEF Contained!Drained, Contained!Note, Contained!Goto, Contained!Draining,
                 Contained!tree, Contained!files, Contained!history
  <1>11. CASE Contained!DrainTimeOut
    BY <1>11 DEF Contained!DrainTimeOut, Contained!Note, Contained!Goto, Contained!Draining,
                 Contained!tree, Contained!files, Contained!history
  <1>12. CASE Contained!Handle
    BY <1>12 DEF Contained!Handle, Contained!Goto, Contained!Kill, Contained!tree,
                 Contained!files, Contained!history
  <1>13. CASE Contained!HandleWait
    BY <1>13 DEF Contained!HandleWait, Contained!Goto, Contained!ReapDirect, Contained!tree,
                 Contained!files, Contained!history
  <1>14. CASE Contained!Finish
    BY <1>14 DEF Contained!Finish, Contained!Goto, Contained!tree, Contained!files,
                 Contained!history
  <1>15. CASE Contained!Post
    BY <1>15 DEF Contained!Post, Contained!Goto, Contained!Note, Contained!tree,
                 Contained!files, Contained!history
  <1>16. CASE Contained!Commit
    BY <1>16 DEF Contained!Commit, Contained!Goto, Contained!Verdict, Contained!Fault,
                 Contained!tree, Contained!files, Contained!history
  <1>17. CASE Contained!TimeOut
    BY <1>17 DEF Contained!TimeOut, Contained!Note, Contained!tree, Contained!files,
                 Contained!history
  <1>18. CASE Contained!Interrupt
    BY <1>18 DEF Contained!Interrupt, Contained!Goto, Contained!Note, Contained!Fault,
                 Contained!Guarded, Contained!Cleaning, Contained!tree, Contained!files,
                 Contained!history
  <1>19. CASE Contained!LauncherDies
    BY <1>19 DEF Contained!LauncherDies, Contained!Goto, Contained!Fault, Contained!tree,
                 Contained!files, Contained!history
  <1>20. CASE Contained!PowerLoss
    BY <1>20 DEF Contained!PowerLoss, Contained!Goto, Contained!Fault, Contained!tree,
                 Contained!files, Contained!history
  <1>21. CASE Contained!Again
    BY <1>21 DEF Contained!Again, Contained!Goto, Contained!tree, Contained!files,
                 Contained!history
  <1>22. CASE Contained!Mutate
    BY <1>22 DEF Contained!Mutate, Contained!Fault, Contained!tree, Contained!files,
                 Contained!history
  <1>23. ASSUME NEW p \in Members, Contained!Die(p) PROVE CountTypes'
    BY <1>23 DEF Contained!Die, Contained!Heir, Contained!tree, Contained!files, Contained!history
  <1>24. ASSUME NEW p \in Members, Contained!Stop(p) PROVE CountTypes'
    BY <1>24 DEF Contained!Stop, Contained!Fault, Contained!tree, Contained!files,
                 Contained!history
  <1>25. ASSUME NEW p \in Members, Contained!ReapOwn(p) PROVE CountTypes'
    BY <1>25 DEF Contained!ReapOwn, Contained!tree, Contained!files, Contained!history
  <1>26. ASSUME NEW p \in Members, Contained!Fork(p) PROVE CountTypes'
    BY <1>26 DEF Contained!Fork, Contained!tree, Contained!files, Contained!history
  <1> QED BY <1>1, <1>2, <1>3, <1>4, <1>5, <1>6, <1>7, <1>8, <1>9, <1>10, <1>11, <1>12,
       <1>13, <1>14, <1>15, <1>16, <1>17, <1>18, <1>19, <1>20, <1>21, <1>22, <1>23, <1>24,
       <1>25, <1>26 DEF Contained!Next, Contained!Step, Contained!Deaths

LEMMA OnceStep ==
  ASSUME Contained!TypeOK, OnceInv, AdoptInv, Contained!Next
  PROVE  OnceInv'
  <1> USE DEF OnceInv, AdoptInv, Fresh, Running, Contained!Present, Contained!Alive
  <1>1. CASE Contained!Attest
    BY <1>1 DEF Contained!Attest, Contained!Goto, Contained!tree, Contained!files,
                Contained!history
  <1>2. CASE Contained!Reserve
    BY <1>2 DEF Contained!Reserve, Contained!Goto, Contained!Fault, Contained!tree,
                Contained!files, Contained!history
  <1>3. CASE Contained!Recheck
    BY <1>3 DEF Contained!Recheck, Contained!Goto, Contained!Note, Contained!tree,
                Contained!files, Contained!history
  <1>4. CASE Contained!SetSubreaper
    BY <1>4 DEF Contained!SetSubreaper, Contained!Goto, Contained!tree, Contained!files,
                Contained!history
  <1>5. CASE Contained!Spawn
    BY <1>5 DEF Contained!Spawn, Contained!Goto, Contained!Note, Contained!Fault,
                Contained!tree, Contained!files, Contained!history
  <1>6. CASE Contained!Wait
    BY <1>6 DEF Contained!Wait, Contained!Goto, Contained!Note, Contained!Kill,
                Contained!ReapDirect, Contained!tree, Contained!files, Contained!history
  <1>7. CASE Contained!KillGroup
    BY <1>7 DEF Contained!KillGroup, Contained!Kill, Contained!tree, Contained!files,
                Contained!history
  <1>8. CASE Contained!Observe
    BY <1>8 DEF Contained!Observe, Contained!Note, Contained!Kill, Contained!Draining,
                Contained!tree, Contained!files, Contained!history
  <1>9. CASE Contained!ReapAny
    BY <1>9 DEF Contained!ReapAny, Contained!Note, Contained!Draining, Contained!Children,
                Contained!tree, Contained!files, Contained!history
  <1>10. CASE Contained!Drained
    BY <1>10 DEF Contained!Drained, Contained!Note, Contained!Goto, Contained!Draining,
                 Contained!tree, Contained!files, Contained!history
  <1>11. CASE Contained!DrainTimeOut
    BY <1>11 DEF Contained!DrainTimeOut, Contained!Note, Contained!Goto, Contained!Draining,
                 Contained!tree, Contained!files, Contained!history
  <1>12. CASE Contained!Handle
    BY <1>12 DEF Contained!Handle, Contained!Goto, Contained!Kill, Contained!tree,
                 Contained!files, Contained!history
  <1>13. CASE Contained!HandleWait
    BY <1>13 DEF Contained!HandleWait, Contained!Goto, Contained!ReapDirect, Contained!tree,
                 Contained!files, Contained!history
  <1>14. CASE Contained!Finish
    BY <1>14 DEF Contained!Finish, Contained!Goto, Contained!tree, Contained!files,
                 Contained!history
  <1>15. CASE Contained!Post
    BY <1>15 DEF Contained!Post, Contained!Goto, Contained!Note, Contained!tree,
                 Contained!files, Contained!history
  <1>16. CASE Contained!Commit
    BY <1>16 DEF Contained!Commit, Contained!Goto, Contained!Verdict, Contained!Fault,
                 Contained!tree, Contained!files, Contained!history
  <1>17. CASE Contained!TimeOut
    BY <1>17 DEF Contained!TimeOut, Contained!Note, Contained!tree, Contained!files,
                 Contained!history
  <1>18. CASE Contained!Interrupt
    BY <1>18 DEF Contained!Interrupt, Contained!Goto, Contained!Note, Contained!Fault,
                 Contained!Guarded, Contained!Cleaning, Contained!tree, Contained!files,
                 Contained!history
  <1>19. CASE Contained!LauncherDies
    BY <1>19 DEF Contained!LauncherDies, Contained!Goto, Contained!Fault, Contained!tree,
                 Contained!files, Contained!history
  <1>20. CASE Contained!PowerLoss
    BY <1>20 DEF Contained!PowerLoss, Contained!Goto, Contained!Fault, Contained!tree,
                 Contained!files, Contained!history
  <1>21. CASE Contained!Again
    BY <1>21 DEF Contained!Again, Contained!Goto, Contained!tree, Contained!files,
                 Contained!history
  <1>22. CASE Contained!Mutate
    BY <1>22 DEF Contained!Mutate, Contained!Fault, Contained!tree, Contained!files,
                 Contained!history
  <1>23. ASSUME NEW p \in Members, Contained!Die(p) PROVE OnceInv'
    BY <1>23 DEF Contained!Die, Contained!Heir, Contained!tree, Contained!files, Contained!history
  <1>24. ASSUME NEW p \in Members, Contained!Stop(p) PROVE OnceInv'
    BY <1>24 DEF Contained!Stop, Contained!Fault, Contained!tree, Contained!files,
                 Contained!history
  <1>25. ASSUME NEW p \in Members, Contained!ReapOwn(p) PROVE OnceInv'
    BY <1>25 DEF Contained!ReapOwn, Contained!tree, Contained!files, Contained!history
  <1>26. ASSUME NEW p \in Members, Contained!Fork(p) PROVE OnceInv'
    BY <1>26 DEF Contained!Fork, Contained!tree, Contained!files, Contained!history
  <1> QED BY <1>1, <1>2, <1>3, <1>4, <1>5, <1>6, <1>7, <1>8, <1>9, <1>10, <1>11, <1>12,
       <1>13, <1>14, <1>15, <1>16, <1>17, <1>18, <1>19, <1>20, <1>21, <1>22, <1>23, <1>24,
       <1>25, <1>26 DEF Contained!Next, Contained!Step, Contained!Deaths

LEMMA AdoptStep ==
  ASSUME Contained!TypeOK, AdoptInv, Contained!Next
  PROVE  AdoptInv'
  <1> USE DEF AdoptInv, Fresh, Running
  <1>1. CASE Contained!Attest
    BY <1>1 DEF Contained!Attest, Contained!Goto, Contained!tree, Contained!files,
                Contained!history
  <1>2. CASE Contained!Reserve
    BY <1>2 DEF Contained!Reserve, Contained!Goto, Contained!Fault, Contained!tree,
                Contained!files, Contained!history
  <1>3. CASE Contained!Recheck
    BY <1>3 DEF Contained!Recheck, Contained!Goto, Contained!Note, Contained!tree,
                Contained!files, Contained!history
  <1>4. CASE Contained!SetSubreaper
    BY <1>4 DEF Contained!SetSubreaper, Contained!Goto, Contained!tree, Contained!files,
                Contained!history
  <1>5. CASE Contained!Spawn
    BY <1>5 DEF Contained!Spawn, Contained!Goto, Contained!Note, Contained!Fault,
                Contained!tree, Contained!files, Contained!history
  <1>6. CASE Contained!Wait
    BY <1>6 DEF Contained!Wait, Contained!Goto, Contained!Note, Contained!Kill,
                Contained!ReapDirect, Contained!tree, Contained!files, Contained!history
  <1>7. CASE Contained!KillGroup
    BY <1>7 DEF Contained!KillGroup, Contained!Kill, Contained!tree, Contained!files,
                Contained!history
  <1>8. CASE Contained!Observe
    BY <1>8 DEF Contained!Observe, Contained!Note, Contained!Kill, Contained!Draining,
                Contained!tree, Contained!files, Contained!history
  <1>9. CASE Contained!ReapAny
    BY <1>9 DEF Contained!ReapAny, Contained!Note, Contained!Draining, Contained!Children,
                Contained!tree, Contained!files, Contained!history
  <1>10. CASE Contained!Drained
    BY <1>10 DEF Contained!Drained, Contained!Note, Contained!Goto, Contained!Draining,
                 Contained!tree, Contained!files, Contained!history
  <1>11. CASE Contained!DrainTimeOut
    BY <1>11 DEF Contained!DrainTimeOut, Contained!Note, Contained!Goto, Contained!Draining,
                 Contained!tree, Contained!files, Contained!history
  <1>12. CASE Contained!Handle
    BY <1>12 DEF Contained!Handle, Contained!Goto, Contained!Kill, Contained!tree,
                 Contained!files, Contained!history
  <1>13. CASE Contained!HandleWait
    BY <1>13 DEF Contained!HandleWait, Contained!Goto, Contained!ReapDirect, Contained!tree,
                 Contained!files, Contained!history
  <1>14. CASE Contained!Finish
    BY <1>14 DEF Contained!Finish, Contained!Goto, Contained!tree, Contained!files,
                 Contained!history
  <1>15. CASE Contained!Post
    BY <1>15 DEF Contained!Post, Contained!Goto, Contained!Note, Contained!tree,
                 Contained!files, Contained!history
  <1>16. CASE Contained!Commit
    BY <1>16 DEF Contained!Commit, Contained!Goto, Contained!Verdict, Contained!Fault,
                 Contained!tree, Contained!files, Contained!history
  <1>17. CASE Contained!TimeOut
    BY <1>17 DEF Contained!TimeOut, Contained!Note, Contained!tree, Contained!files,
                 Contained!history
  <1>18. CASE Contained!Interrupt
    BY <1>18 DEF Contained!Interrupt, Contained!Goto, Contained!Note, Contained!Fault,
                 Contained!Guarded, Contained!Cleaning, Contained!tree, Contained!files,
                 Contained!history
  <1>19. CASE Contained!LauncherDies
    BY <1>19 DEF Contained!LauncherDies, Contained!Goto, Contained!Fault, Contained!tree,
                 Contained!files, Contained!history
  <1>20. CASE Contained!PowerLoss
    BY <1>20 DEF Contained!PowerLoss, Contained!Goto, Contained!Fault, Contained!tree,
                 Contained!files, Contained!history
  <1>21. CASE Contained!Again
    BY <1>21 DEF Contained!Again, Contained!Goto, Contained!tree, Contained!files,
                 Contained!history
  <1>22. CASE Contained!Mutate
    BY <1>22 DEF Contained!Mutate, Contained!Fault, Contained!tree, Contained!files,
                 Contained!history
  <1>23. ASSUME NEW p \in Members, Contained!Die(p) PROVE AdoptInv'
    BY <1>23 DEF Contained!Die, Contained!Heir, Contained!tree, Contained!files, Contained!history
  <1>24. ASSUME NEW p \in Members, Contained!Stop(p) PROVE AdoptInv'
    BY <1>24 DEF Contained!Stop, Contained!Fault, Contained!tree, Contained!files,
                 Contained!history
  <1>25. ASSUME NEW p \in Members, Contained!ReapOwn(p) PROVE AdoptInv'
    BY <1>25 DEF Contained!ReapOwn, Contained!tree, Contained!files, Contained!history
  <1>26. ASSUME NEW p \in Members, Contained!Fork(p) PROVE AdoptInv'
    BY <1>26 DEF Contained!Fork, Contained!tree, Contained!files, Contained!history
  <1> QED BY <1>1, <1>2, <1>3, <1>4, <1>5, <1>6, <1>7, <1>8, <1>9, <1>10, <1>11, <1>12,
       <1>13, <1>14, <1>15, <1>16, <1>17, <1>18, <1>19, <1>20, <1>21, <1>22, <1>23, <1>24,
       <1>25, <1>26 DEF Contained!Next, Contained!Step, Contained!Deaths

LEMMA SeenStep ==
  ASSUME CallTypes, CountTypes, OnceInv, OutlivedInv, SeenInv, Contained!Next
  PROVE  SeenInv'
  <1> USE DEF SeenInv, OnceInv, OutlivedInv, Contained!Present, Contained!Alive, Fresh,
              Running, Closing
  <1>1. CASE Contained!Attest
    BY <1>1 DEF Contained!Attest, Contained!Goto, Contained!tree, Contained!files,
                Contained!history
  <1>2. CASE Contained!Reserve
    BY <1>2 DEF Contained!Reserve, Contained!Goto, Contained!Fault, Contained!tree,
                Contained!files, Contained!history
  <1>3. CASE Contained!Recheck
    BY <1>3 DEF Contained!Recheck, Contained!Goto, Contained!Note, Contained!tree,
                Contained!files, Contained!history
  <1>4. CASE Contained!SetSubreaper
    BY <1>4 DEF Contained!SetSubreaper, Contained!Goto, Contained!tree, Contained!files,
                Contained!history
  <1>5. CASE Contained!Spawn
    <2>1. used = {} /\ used' = {<<pre, runtime>>} /\ UNCHANGED <<pre, runtime>> /\ pc' # "commit"
      BY <1>5 DEF Contained!Spawn, Contained!Goto, Contained!history
    <2> QED BY <2>1 DEF CountTypes
  <1>6. CASE Contained!Wait
    BY <1>6 DEF Contained!Wait, Contained!Goto, Contained!Note, Contained!Kill,
                Contained!ReapDirect, Contained!tree, Contained!files, Contained!history
  <1>7. CASE Contained!KillGroup
    BY <1>7 DEF Contained!KillGroup, Contained!Kill, Contained!tree, Contained!files,
                Contained!history
  <1>8. CASE Contained!Observe
    BY <1>8 DEF Contained!Observe, Contained!Note, Contained!Kill, Contained!Draining,
                Contained!tree, Contained!files, Contained!history
  <1>9. CASE Contained!ReapAny
    BY <1>9 DEF Contained!ReapAny, Contained!Note, Contained!Draining, Contained!Children,
                Contained!tree, Contained!files, Contained!history
  <1>10. CASE Contained!Drained
    BY <1>10 DEF Contained!Drained, Contained!Note, Contained!Goto, Contained!Draining,
                 Contained!tree, Contained!files, Contained!history
  <1>11. CASE Contained!DrainTimeOut
    BY <1>11 DEF Contained!DrainTimeOut, Contained!Note, Contained!Goto, Contained!Draining,
                 Contained!tree, Contained!files, Contained!history
  <1>12. CASE Contained!Handle
    BY <1>12 DEF Contained!Handle, Contained!Goto, Contained!Kill, Contained!tree,
                 Contained!files, Contained!history
  <1>13. CASE Contained!HandleWait
    BY <1>13 DEF Contained!HandleWait, Contained!Goto, Contained!ReapDirect, Contained!tree,
                 Contained!files, Contained!history
  <1>14. CASE Contained!Finish
    BY <1>14 DEF Contained!Finish, Contained!Goto, Contained!tree, Contained!files,
                 Contained!history
  <1>15. CASE Contained!Post
    <2>1. pc' = "commit" /\ UNCHANGED <<used, pre, runtime>> /\ (runtime = pre \/ notes'.failure)
      BY <1>15, ContainedNotes DEF Contained!Post, Contained!Goto, Contained!Note,
                                   Contained!history, CallTypes
    <2>2. \A u \in used : u[1] = pre /\ pre <= u[2] /\ u[2] <= runtime /\ u[2] \in Nat
      BY <1>15 DEF Contained!Post, CountTypes
    <2> QED BY <2>1, <2>2 DEF CountTypes
  <1>16. CASE Contained!Commit
    BY <1>16 DEF Contained!Commit, Contained!Goto, Contained!Verdict, Contained!Fault,
                 Contained!tree, Contained!files, Contained!history
  <1>17. CASE Contained!TimeOut
    BY <1>17 DEF Contained!TimeOut, Contained!Note, Contained!tree, Contained!files,
                 Contained!history
  <1>18. CASE Contained!Interrupt
    BY <1>18 DEF Contained!Interrupt, Contained!Goto, Contained!Note, Contained!Fault,
                 Contained!Guarded, Contained!Cleaning, Contained!tree, Contained!files,
                 Contained!history
  <1>19. CASE Contained!LauncherDies
    BY <1>19 DEF Contained!LauncherDies, Contained!Goto, Contained!Fault, Contained!tree,
                 Contained!files, Contained!history
  <1>20. CASE Contained!PowerLoss
    BY <1>20 DEF Contained!PowerLoss, Contained!Goto, Contained!Fault, Contained!tree,
                 Contained!files, Contained!history
  <1>21. CASE Contained!Again
    BY <1>21 DEF Contained!Again, Contained!Goto, Contained!tree, Contained!files,
                 Contained!history
  <1>22. CASE Contained!Mutate
    <2>1. pre <= runtime' /\ \A n \in Nat : n <= runtime => n <= runtime'
      BY <1>22 DEF Contained!Mutate, CountTypes
    <2>2. \A u \in used : u[2] \in Nat
      BY DEF CountTypes
    <2>3. used' = used \/ (used' = used \cup {<<pre, runtime'>>} /\ Contained!Alive # {})
      BY <1>22 DEF Contained!Mutate
    <2>4. UNCHANGED <<pc, pre, notes>> /\ runtime' \in Nat
      BY <1>22 DEF Contained!Mutate, CountTypes
    <2>5. notes.echild => used' = used
      BY <2>3
    <2> QED BY <2>1, <2>2, <2>3, <2>4, <2>5
  <1>23. ASSUME NEW p \in Members, Contained!Die(p) PROVE SeenInv'
    BY <1>23 DEF Contained!Die, Contained!Heir, Contained!tree, Contained!files, Contained!history
  <1>24. ASSUME NEW p \in Members, Contained!Stop(p) PROVE SeenInv'
    BY <1>24 DEF Contained!Stop, Contained!Fault, Contained!tree, Contained!files,
                 Contained!history
  <1>25. ASSUME NEW p \in Members, Contained!ReapOwn(p) PROVE SeenInv'
    BY <1>25 DEF Contained!ReapOwn, Contained!tree, Contained!files, Contained!history
  <1>26. ASSUME NEW p \in Members, Contained!Fork(p) PROVE SeenInv'
    BY <1>26 DEF Contained!Fork, Contained!tree, Contained!files, Contained!history
  <1> QED BY <1>1, <1>2, <1>3, <1>4, <1>5, <1>6, <1>7, <1>8, <1>9, <1>10, <1>11, <1>12,
       <1>13, <1>14, <1>15, <1>16, <1>17, <1>18, <1>19, <1>20, <1>21, <1>22, <1>23, <1>24,
       <1>25, <1>26 DEF Contained!Next, Contained!Step, Contained!Deaths

LEMMA RecordStep ==
  ASSUME Contained!ContainmentAssumption, OnceInv, OutlivedInv, SeenInv, RecordInv, Contained!Next
  PROVE  RecordInv'
  <1> USE ProcessNames DEF RecordInv, OutlivedInv, SeenInv, OnceInv, Contained!Present,
                           Contained!Alive, Fresh, Running, Closing
  <1>1. CASE Contained!Attest
    BY <1>1 DEF Contained!Attest, Contained!Goto, Contained!tree, Contained!files,
                Contained!history
  <1>2. CASE Contained!Reserve
    BY <1>2 DEF Contained!Reserve, Contained!Goto, Contained!Fault, Contained!tree,
                Contained!files, Contained!history
  <1>3. CASE Contained!Recheck
    BY <1>3 DEF Contained!Recheck, Contained!Goto, Contained!Note, Contained!tree,
                Contained!files, Contained!history
  <1>4. CASE Contained!SetSubreaper
    BY <1>4 DEF Contained!SetSubreaper, Contained!Goto, Contained!tree, Contained!files,
                Contained!history
  <1>5. CASE Contained!Spawn
    BY <1>5 DEF Contained!Spawn, Contained!Goto, Contained!Note, Contained!Fault,
                Contained!tree, Contained!files, Contained!history
  <1>6. CASE Contained!Wait
    BY <1>6 DEF Contained!Wait, Contained!Goto, Contained!Note, Contained!Kill,
                Contained!ReapDirect, Contained!tree, Contained!files, Contained!history
  <1>7. CASE Contained!KillGroup
    BY <1>7 DEF Contained!KillGroup, Contained!Kill, Contained!tree, Contained!files,
                Contained!history
  <1>8. CASE Contained!Observe
    BY <1>8 DEF Contained!Observe, Contained!Note, Contained!Kill, Contained!Draining,
                Contained!tree, Contained!files, Contained!history
  <1>9. CASE Contained!ReapAny
    BY <1>9 DEF Contained!ReapAny, Contained!Note, Contained!Draining, Contained!Children,
                Contained!tree, Contained!files, Contained!history
  <1>10. CASE Contained!Drained
    BY <1>10 DEF Contained!Drained, Contained!Note, Contained!Goto, Contained!Draining,
                 Contained!tree, Contained!files, Contained!history
  <1>11. CASE Contained!DrainTimeOut
    BY <1>11 DEF Contained!DrainTimeOut, Contained!Note, Contained!Goto, Contained!Draining,
                 Contained!tree, Contained!files, Contained!history
  <1>12. CASE Contained!Handle
    BY <1>12 DEF Contained!Handle, Contained!Goto, Contained!Kill, Contained!tree,
                 Contained!files, Contained!history
  <1>13. CASE Contained!HandleWait
    BY <1>13 DEF Contained!HandleWait, Contained!Goto, Contained!ReapDirect, Contained!tree,
                 Contained!files, Contained!history
  <1>14. CASE Contained!Finish
    BY <1>14 DEF Contained!Finish, Contained!Goto, Contained!tree, Contained!files,
                 Contained!history
  <1>15. CASE Contained!Post
    BY <1>15 DEF Contained!Post, Contained!Goto, Contained!Note, Contained!tree,
                 Contained!files, Contained!history
  <1>16. CASE Contained!Commit
    BY <1>16 DEF Contained!Commit, Contained!Goto, Contained!Verdict, Contained!Fault,
                 Contained!tree, Contained!files, Contained!history
  <1>17. CASE Contained!TimeOut
    BY <1>17 DEF Contained!TimeOut, Contained!Note, Contained!tree, Contained!files,
                 Contained!history
  <1>18. CASE Contained!Interrupt
    BY <1>18 DEF Contained!Interrupt, Contained!Goto, Contained!Note, Contained!Fault,
                 Contained!Guarded, Contained!Cleaning, Contained!tree, Contained!files,
                 Contained!history
  <1>19. CASE Contained!LauncherDies
    BY <1>19 DEF Contained!LauncherDies, Contained!Goto, Contained!Fault, Contained!tree,
                 Contained!files, Contained!history
  <1>20. CASE Contained!PowerLoss
    BY <1>20 DEF Contained!PowerLoss, Contained!Goto, Contained!Fault, Contained!tree,
                 Contained!files, Contained!history
  <1>21. CASE Contained!Again
    BY <1>21 DEF Contained!Again, Contained!Goto, Contained!tree, Contained!files,
                 Contained!history
  <1>22. CASE Contained!Mutate
    BY <1>22 DEF Contained!Mutate, Contained!Fault, Contained!tree, Contained!files,
                 Contained!history
  <1>23. ASSUME NEW p \in Members, Contained!Die(p) PROVE RecordInv'
    BY <1>23 DEF Contained!Die, Contained!Heir, Contained!tree, Contained!files, Contained!history
  <1>24. ASSUME NEW p \in Members, Contained!Stop(p) PROVE RecordInv'
    BY <1>24 DEF Contained!Stop, Contained!Fault, Contained!tree, Contained!files,
                 Contained!history
  <1>25. ASSUME NEW p \in Members, Contained!ReapOwn(p) PROVE RecordInv'
    BY <1>25 DEF Contained!ReapOwn, Contained!tree, Contained!files, Contained!history
  <1>26. ASSUME NEW p \in Members, Contained!Fork(p) PROVE RecordInv'
    BY <1>26 DEF Contained!Fork, Contained!tree, Contained!files, Contained!history
  <1> QED BY <1>1, <1>2, <1>3, <1>4, <1>5, <1>6, <1>7, <1>8, <1>9, <1>10, <1>11, <1>12,
       <1>13, <1>14, <1>15, <1>16, <1>17, <1>18, <1>19, <1>20, <1>21, <1>22, <1>23, <1>24,
       <1>25, <1>26 DEF Contained!Next, Contained!Step, Contained!Deaths

-----------------------------------------------------------------------------
(* The processes form a tree. *)

LEMMA TreeShrinks ==
  ASSUME TreeInv, Contained!Present' \subseteq Contained!Present,
           Contained!Alive' = Contained!Alive, UNCHANGED parent,
         subreaper' => subreaper \/ Contained!Present = {}
  PROVE  TreeInv'
  BY DEF TreeInv, Rooted

LEMMA Reaped ==
  ASSUME TreeTypes, NEW q \in Members, state[q] = "zombie",
         state' = [state EXCEPT ![q] = "gone"]
  PROVE  Contained!Present' = Contained!Present \ {q} /\ Contained!Alive' = Contained!Alive
  BY DEF TreeTypes, Contained!Present, Contained!Alive

LEMMA ForkStep ==
  ASSUME Contained!ContainmentAssumption, TreeTypes, TreeInv, NEW p \in Members, Contained!Fork(p)
  PROVE  TreeInv'
  <1>1. PICK q \in Members \ {Contained!Direct} : /\ state[q] = "none"
                                                  /\ state' = [state EXCEPT ![q] = "runs"]
                                                  /\ parent' = [parent EXCEPT ![q] = p]
    BY DEF Contained!Fork
  <1>2. Contained!Present' = Contained!Present \cup {q}
          /\ Contained!Alive' = Contained!Alive \cup {q} /\ q \notin Contained!Present
               /\ p \in Contained!Alive
    BY <1>1 DEF Contained!Fork, TreeTypes, Contained!Present, Contained!Alive
  <1>3. q # p /\ q \notin {Contained!Launcher, Contained!System} /\ p \in Contained!Present
    BY <1>2, ProcessNames, Existing
  <1>4. parent'[q] = p /\ \A x \in Contained!Present : parent'[x] = parent[x] /\ parent[x] # q
    BY <1>1, <1>2, <1>3, Existing DEF TreeTypes, TreeInv
  <1>5. ASSUME NEW S \in SUBSET Contained!Present' PROVE Rooted(S)'
    <2>1. CASE S \ {q} = {}
      BY <1>3, <1>4, <2>1 DEF Rooted
    <2>2. CASE S \ {q} # {}
      <3>1. S \ {q} \in SUBSET Contained!Present
        BY <1>2, <1>5
      <3>2. PICK x \in S \ {q} : parent[x] \notin S \ {q}
        BY <2>2, <3>1 DEF TreeInv, Rooted
      <3> QED BY <1>4, <3>1, <3>2 DEF Rooted
    <2> QED BY <2>1, <2>2
  <1>6. subreaper' = subreaper
    BY DEF Contained!Fork
  <1> QED BY <1>2, <1>3, <1>4, <1>5, <1>6, ProcessNames DEF TreeInv

(* The orphans of a process that exits go to the launcher or the system.   *)
LEMMA DieStep ==
  ASSUME Contained!ContainmentAssumption, TreeTypes, TreeInv, NEW p \in Members, Contained!Die(p)
  PROVE  TreeInv'
  <1>1. /\ p \in Contained!Alive /\ Contained!Alive' = Contained!Alive \ {p}
             /\ Contained!Present' \subseteq Contained!Present
        /\ Contained!Heir \in {Contained!Launcher, Contained!System}
             /\ (subreaper => Contained!Heir = Contained!Launcher) /\ subreaper' = subreaper
    BY DEF Contained!Die, TreeTypes, Contained!Present, Contained!Alive, Contained!Heir
  <1>2. \A x \in Members : parent'[x] = IF parent[x] = p THEN Contained!Heir ELSE parent[x]
    BY DEF Contained!Die
  <1>3. ASSUME NEW S \in SUBSET Contained!Present' PROVE Rooted(S)'
    <2>1. SUFFICES ASSUME S # {} PROVE \E x \in S : parent'[x] \notin S
      BY DEF Rooted
    <2>2. PICK x \in S : parent[x] \notin S
      BY <1>1, <2>1 DEF TreeInv, Rooted
    <2>3. S \subseteq Members
      BY <1>1, Existing
    <2> QED BY <1>1, <1>2, <2>2, <2>3, ProcessNames
  <1> QED BY <1>1, <1>2, <1>3, ProcessNames, Existing DEF TreeInv

LEMMA LauncherDiesStep ==
  ASSUME Contained!ContainmentAssumption, TreeTypes, TreeInv, Contained!LauncherDies
  PROVE  TreeInv'
  <1>1. Contained!Alive' = Contained!Alive /\ Contained!Present' \subseteq Contained!Present
          /\ subreaper' = FALSE
    BY DEF Contained!LauncherDies, TreeTypes, Contained!Present, Contained!Alive
  <1>2. \A x \in Members : parent'[x] = IF parent[x] = Contained!Launcher
                                        THEN Contained!System ELSE parent[x]
    BY DEF Contained!LauncherDies
  <1>3. ASSUME NEW S \in SUBSET Contained!Present' PROVE Rooted(S)'
    <2>1. SUFFICES ASSUME S # {} PROVE \E x \in S : parent'[x] \notin S
      BY DEF Rooted
    <2>2. PICK x \in S : parent[x] \notin S
      BY <1>1, <2>1 DEF TreeInv, Rooted
    <2>3. S \subseteq Members
      BY <1>1, Existing
    <2> QED BY <1>2, <2>2, <2>3, ProcessNames
  <1> QED BY <1>1, <1>2, <1>3, Existing DEF TreeInv

LEMMA ContainedSpawn ==
  ASSUME Contained!ContainmentAssumption, TreeTypes, OnceInv, TreeInv, Contained!Spawn
  PROVE  TreeInv'
  <1>1. Contained!Present = {}
    BY DEF Contained!Spawn, OnceInv, Fresh
  <1>2. Contained!Present' = {Contained!Direct} /\ parent'[Contained!Direct] = Contained!Launcher
    BY <1>1, ProcessNames DEF Contained!Spawn, TreeTypes, Contained!Present
  <1> QED BY <1>2, ProcessNames DEF TreeInv, Rooted

(* Nothing else adds a process or gives one another parent. *)
Grafts == Contained!Spawn \/ Contained!LauncherDies \/ \E p \in Members : Contained!Fork(p)
  \/ Contained!Die(p)

LEMMA ContainedSettled ==
  ASSUME Contained!ContainmentAssumption, TreeTypes, Contained!Next, ~Grafts
  PROVE  Contained!Present' \subseteq Contained!Present
           /\ (~Contained!PowerLoss => Contained!Alive' = Contained!Alive) /\ UNCHANGED parent
  <1>1. CASE UNCHANGED <<state, parent>>
    BY <1>1 DEF Contained!Present, Contained!Alive
  <1>2. CASE Contained!PowerLoss
    BY <1>2 DEF Contained!PowerLoss, TreeTypes, Contained!Present
  <1>3. CASE Contained!Wait \/ Contained!HandleWait
    BY <1>1, <1>3, Reaped, ProcessNames DEF Contained!Wait, Contained!HandleWait,
                                            Contained!ReapDirect, Contained!tree
  <1>4. CASE Contained!ReapAny
    BY <1>4, Reaped, Existing DEF Contained!ReapAny, Contained!Children
  <1>5. ASSUME NEW q \in Members, Contained!ReapOwn(q)
        PROVE Contained!Present' \subseteq Contained!Present
                                                  /\ Contained!Alive' = Contained!Alive
                                                       /\ UNCHANGED parent
    BY <1>5, Reaped DEF Contained!ReapOwn
  <1>6. ASSUME NEW q \in Members, Contained!Stop(q)
        PROVE Contained!Present' \subseteq Contained!Present
                                               /\ Contained!Alive' = Contained!Alive
                                                    /\ UNCHANGED parent
    BY <1>6 DEF Contained!Stop, TreeTypes, Contained!Present, Contained!Alive
  <1> QED BY <1>1, <1>2, <1>3, <1>4, <1>5, <1>6
     DEF Grafts, Contained!Next, Contained!Step, Contained!Deaths, Contained!Attest,
         Contained!Reserve, Contained!Recheck, Contained!SetSubreaper, Contained!KillGroup,
         Contained!Observe, Contained!Drained, Contained!DrainTimeOut, Contained!Handle,
         Contained!Finish, Contained!Post, Contained!Commit, Contained!TimeOut,
         Contained!Interrupt, Contained!Again, Contained!Mutate, Contained!tree

(* The launcher becomes a subreaper before there is any process.           *)
LEMMA SubreaperStep ==
  ASSUME OnceInv, Contained!Next, subreaper' = TRUE, ~Contained!Spawn
  PROVE  subreaper \/ (Contained!Present = {} /\ ~outlived)
  BY DEF OnceInv, Fresh, Contained!Next, Contained!Step, Contained!Deaths, Contained!Attest,
         Contained!Reserve, Contained!Recheck, Contained!SetSubreaper, Contained!Wait,
         Contained!KillGroup, Contained!Observe, Contained!ReapAny, Contained!Drained,
         Contained!DrainTimeOut, Contained!Handle, Contained!HandleWait, Contained!Finish,
         Contained!Post, Contained!Commit, Contained!TimeOut, Contained!Interrupt,
         Contained!LauncherDies, Contained!PowerLoss, Contained!Again, Contained!Mutate,
         Contained!Die, Contained!Stop, Contained!ReapOwn, Contained!Fork

LEMMA TreeStep ==
  ASSUME Contained!ContainmentAssumption, ContainedTypes, OnceInv, TreeInv, Contained!Next
  PROVE  TreeInv'
  <1>1. CASE Grafts
    BY <1>1, ContainedSpawn, LauncherDiesStep, ForkStep, DieStep DEF Grafts, ContainedTypes
  <1>2. CASE Contained!PowerLoss
    <2>1. Contained!Present' = {}
      BY <1>2 DEF Contained!PowerLoss, ContainedTypes, TreeTypes, Contained!Present
    <2> QED BY <2>1 DEF TreeInv, Rooted
  <1>3. CASE ~Grafts /\ ~Contained!PowerLoss
    <2>1. Contained!Present' \subseteq Contained!Present /\ Contained!Alive' = Contained!Alive
            /\ UNCHANGED parent
      BY <1>3, ContainedSettled DEF ContainedTypes
    <2>2. subreaper' => subreaper \/ Contained!Present = {}
      BY <1>3, SubreaperStep, Types DEF Grafts, Contained!TypeOK
    <2> QED BY <2>1, <2>2, TreeShrinks
  <1> QED BY <1>1, <1>2, <1>3

-----------------------------------------------------------------------------
(* When the launcher, being a subreaper, has no child, nobody is left: the  *)
(* first of those who are there would be a child of its.                    *)
LEMMA NoneLeft ==
  ASSUME TreeInv, subreaper, Contained!Children = {} PROVE Contained!Present = {}
  <1> SUFFICES ASSUME Contained!Present # {} PROVE FALSE
    OBVIOUS
  <1>1. PICK p \in Contained!Present : parent[p] \notin Contained!Present
    BY DEF TreeInv, Rooted
  <1>2. parent[p] = Contained!Launcher
    BY <1>1, Existing DEF TreeInv
  <1> QED BY <1>2 DEF Contained!Children

(* A child that exits before a descendant leaves one to the launcher.       *)
LEMMA LeavesHeir ==
  ASSUME Contained!ContainmentAssumption, TreeTypes, TreeInv, subreaper,
           Contained!Die(Contained!Direct),
         Contained!Present # {Contained!Direct}
  PROVE  \E p \in Contained!Present' \ {Contained!Direct} : parent'[p] = Contained!Launcher
  <1>1. Contained!Direct \in Contained!Alive /\ Contained!Alive \subseteq Contained!Present
    BY Existing DEF Contained!Die
  <1>2. PICK p \in Contained!Present \ {Contained!Direct} : parent[p]
           \notin Contained!Present \ {Contained!Direct}
    BY <1>1 DEF TreeInv, Rooted
  <1>3. parent[p] \in {Contained!Direct, Contained!Launcher}
    BY <1>1, <1>2 DEF TreeInv
  <1>4. p \in Members /\ Contained!Heir = Contained!Launcher
    BY <1>2, Existing DEF Contained!Heir
  <1>5. parent'[p] = Contained!Launcher
    BY <1>3, <1>4 DEF Contained!Die
  <1>6. p \in Contained!Present'
    BY <1>2, <1>3, <1>4, ProcessNames DEF Contained!Die, TreeTypes, Contained!Present
  <1> QED BY <1>2, <1>5, <1>6

(* An observed or unobserved heir of the launcher stays in its place until  *)
(* the launcher reaps it.                                                   *)
LEMMA HeirStays ==
  ASSUME Contained!ContainmentAssumption, ContainedTypes, OnceInv, Contained!Next,
           ~Contained!LauncherDies, ~Contained!PowerLoss, ~Contained!ReapAny,
         NEW w \in Contained!Present \ {Contained!Direct}, parent[w] = Contained!Launcher
  PROVE  w \in Contained!Present' /\ parent'[w] = Contained!Launcher
  <1> USE DEF ContainedTypes, TreeTypes
  <1>1. CASE UNCHANGED <<state, parent>>
    BY <1>1 DEF Contained!Present
  <1>2. ~Contained!Spawn
    BY DEF Contained!Spawn, OnceInv, Fresh
  <1>3. CASE Contained!Wait \/ Contained!HandleWait
    BY <1>1, <1>3 DEF Contained!Wait, Contained!HandleWait, Contained!ReapDirect,
                      Contained!tree, Contained!Present
  <1>4. ASSUME NEW p \in Members, Contained!Die(p)
        PROVE w \in Contained!Present' /\ parent'[w] = Contained!Launcher
    BY <1>4, ProcessNames DEF Contained!Die, Contained!Present
  <1>5. ASSUME NEW p \in Members, Contained!Stop(p)
        PROVE w \in Contained!Present' /\ parent'[w] = Contained!Launcher
    BY <1>5 DEF Contained!Stop, Contained!Present
  <1>6. ASSUME NEW p \in Members, Contained!ReapOwn(p)
        PROVE w \in Contained!Present' /\ parent'[w] = Contained!Launcher
    BY <1>6, ProcessNames, Existing DEF Contained!ReapOwn, Contained!Present
  <1>7. ASSUME NEW p \in Members, Contained!Fork(p)
        PROVE w \in Contained!Present' /\ parent'[w] = Contained!Launcher
    BY <1>7 DEF Contained!Fork, Contained!Present
  <1> QED BY <1>1, <1>2, <1>3, <1>4, <1>5, <1>6, <1>7
     DEF Contained!Next, Contained!Step, Contained!Deaths, Contained!Attest,
         Contained!Reserve, Contained!Recheck, Contained!SetSubreaper, Contained!KillGroup,
         Contained!Observe, Contained!Drained, Contained!DrainTimeOut, Contained!Handle,
         Contained!Finish, Contained!Post, Contained!Commit, Contained!TimeOut,
         Contained!Interrupt, Contained!Again, Contained!Mutate, Contained!tree

(* What the launcher has noted it does not forget during a call.            *)
LEMMA NotesGrow ==
  ASSUME CallTypes, Contained!Next
  PROVE  /\ notes'.echild => notes.echild \/ (Contained!Drained /\ ~UNCHANGED notes)
         /\ notes.observed => notes'.observed \/ Contained!Again
         /\ Contained!ReapAny => notes'.observed
         /\ Contained!Again => ~subreaper' /\ ~notes'.echild
  <1> USE ContainedNotes, NoNotesType DEF CallTypes, Contained!Guarded, Contained!Cleaning
  <1>1. CASE Contained!Again
    <2>1. ~Contained!NoNotes.echild
      BY DEF Contained!NoNotes
    <2> QED BY <1>1, <2>1 DEF Contained!Again, Contained!Goto, Contained!ReapAny,
                              Contained!Draining
  <1>2. CASE Contained!Drained
    BY <1>2 DEF Contained!Drained, Contained!Note, Contained!Draining, Contained!Again,
                Contained!Goto, Contained!ReapAny
  <1>3. CASE ~Contained!Again /\ ~Contained!Drained
    BY <1>3 DEF Contained!Next, Contained!Step, Contained!Deaths, Contained!Attest,
                Contained!Reserve, Contained!Recheck, Contained!SetSubreaper, Contained!Spawn,
                Contained!Wait, Contained!KillGroup, Contained!Observe, Contained!ReapAny,
                Contained!DrainTimeOut, Contained!Handle, Contained!HandleWait,
                Contained!Finish, Contained!Post, Contained!Commit, Contained!TimeOut,
                Contained!Interrupt, Contained!LauncherDies, Contained!PowerLoss,
                Contained!Mutate, Contained!Die, Contained!Stop, Contained!ReapOwn,
                Contained!Fork, Contained!Note
  <1> QED BY <1>1, <1>2, <1>3

(* Whoever outlives the child dies after it.                                *)
LEMMA OutlivedGrows ==
  ASSUME Contained!Next
  PROVE  outlived' = outlived
           \/ (Contained!Die(Contained!Direct)
                    /\ outlived' = (outlived \/ Contained!Present # {Contained!Direct}))
  BY DEF Contained!Next, Contained!Step, Contained!Deaths, Contained!Attest,
         Contained!Reserve, Contained!Recheck, Contained!SetSubreaper, Contained!Spawn,
         Contained!Wait, Contained!KillGroup, Contained!Observe, Contained!ReapAny,
         Contained!Drained, Contained!DrainTimeOut, Contained!Handle, Contained!HandleWait,
         Contained!Finish, Contained!Post, Contained!Commit, Contained!TimeOut,
         Contained!Interrupt, Contained!LauncherDies, Contained!PowerLoss, Contained!Again,
         Contained!Mutate, Contained!Die, Contained!Stop, Contained!ReapOwn, Contained!Fork,
         Contained!history

LEMMA OutlivedStep ==
  ASSUME Contained!ContainmentAssumption, ContainedTypes, OnceInv, OnceInv', AdoptInv, TreeInv,
           OutlivedInv, Contained!Next
  PROVE  OutlivedInv'
  <1> USE DEF ContainedTypes
  <1>1. (Contained!Die(Contained!Direct) => Contained!Direct \in Contained!Present)
          /\ (Grafts /\ ~Contained!LauncherDies => Contained!Present # {} \/ Contained!Spawn)
    BY Existing DEF Contained!Die, Contained!Fork, Grafts, Contained!Alive, Contained!Present
  <1>2. notes.echild => Contained!Present' = {} /\ spawns' = 1 /\ outlived' = outlived
    <2>1. ASSUME notes.echild
          PROVE ~Contained!Spawn /\ ~Contained!Die(Contained!Direct)
                  /\ (Grafts => Contained!LauncherDies)
      BY <1>1, <2>1 DEF OutlivedInv, OnceInv, Contained!Spawn, Fresh
    <2>2. ASSUME notes.echild, Contained!LauncherDies PROVE Contained!Present' = {}
      BY <2>2 DEF OutlivedInv, Contained!LauncherDies, TreeTypes, Contained!Present
    <2>3. ASSUME notes.echild PROVE spawns' = spawns
      BY <2>1, <2>3 DEF Contained!Next, Contained!Step, Contained!Deaths, Contained!Attest,
                        Contained!Reserve, Contained!Recheck, Contained!SetSubreaper,
                        Contained!Wait, Contained!KillGroup, Contained!Observe,
                        Contained!ReapAny, Contained!Drained, Contained!DrainTimeOut,
                        Contained!Handle, Contained!HandleWait, Contained!Finish,
                        Contained!Post, Contained!Commit, Contained!TimeOut,
                        Contained!Interrupt, Contained!LauncherDies, Contained!PowerLoss,
                        Contained!Again, Contained!Mutate, Contained!Die, Contained!Stop,
                        Contained!ReapOwn, Contained!Fork, Contained!history
    <2> QED BY <2>1, <2>2, <2>3, ContainedSettled, OutlivedGrows DEF OutlivedInv
  <1>3. CASE Contained!Drained
    <2>1. subreaper /\ spawns = 1 /\ Contained!Present = {}
            /\ UNCHANGED <<state, spawns, outlived, subreaper>>
      BY <1>3, NoneLeft DEF Contained!Drained, Contained!Draining, AdoptInv, OnceInv, Running,
                            Contained!tree, Contained!history
    <2>2. Contained!Present' = {} /\ (notes'.observed <=> notes.observed)
      BY <1>3, <2>1, ContainedNotes DEF Contained!Drained, Contained!Note, CallTypes,
                                        Contained!Present
    <2> QED BY <2>1, <2>2 DEF OutlivedInv
  <1>4. CASE ~Contained!Drained
    <2>1. notes'.echild => notes.echild
      BY <1>4, NotesGrow
    <2>2. notes'.echild /\ ~notes'.observed => ~outlived'
      BY <1>2, <2>1, NotesGrow DEF OutlivedInv
    <2>3. ASSUME outlived', subreaper', ~notes'.observed
          PROVE  \E p \in Contained!Present' \ {Contained!Direct}
                   : parent'[p] = Contained!Launcher
      <3>1. ~Contained!Again /\ ~Contained!LauncherDies /\ ~Contained!PowerLoss
              /\ ~Contained!ReapAny /\ ~notes.observed
        BY <2>3, NotesGrow DEF Contained!LauncherDies, Contained!PowerLoss
      <3>2. outlived => subreaper
        BY <2>3, SubreaperStep DEF Contained!Spawn, OnceInv, Fresh, CallTypes
      <3>3. CASE outlived
        <4>1. PICK w \in Contained!Present \ {Contained!Direct} : parent[w] = Contained!Launcher
          BY <3>1, <3>2, <3>3 DEF OutlivedInv
        <4> QED BY <3>1, <4>1, HeirStays
      <3>4. CASE ~outlived
        <4>1. Contained!Die(Contained!Direct) /\ Contained!Present # {Contained!Direct}
                /\ subreaper
          BY <2>3, <3>4, OutlivedGrows DEF Contained!Die
        <4> QED BY <4>1, LeavesHeir
      <3> QED BY <3>3, <3>4
    <2> QED BY <1>2, <2>1, <2>2, <2>3 DEF OutlivedInv
  <1> QED BY <1>3, <1>4

-----------------------------------------------------------------------------
LEMMA ContainedInit == ASSUME Contained!ContainmentAssumption, Contained!Init PROVE ContainedInv
  <1>1. Contained!Present = {} /\ Contained!Alive = {}
    BY DEF Contained!Init, Contained!Present, Contained!Alive
  <1>2. ~notes.echild /\ ~notes.observed /\ ~notes.failure
    BY DEF Contained!Init, Contained!NoNotes
  <1>3. ContainedTypes
    <2>1. TreeTypes /\ ResultTypes
      BY DEF Contained!Init, TreeTypes, ResultTypes
    <2>2. CallTypes
      BY NoNotesType DEF Contained!Init, CallTypes
    <2>3. CountTypes
      BY DEF Contained!Init, CountTypes, Contained!ContainmentAssumption
    <2> QED BY <2>1, <2>2, <2>3 DEF ContainedTypes
  <1>4. OnceInv /\ AdoptInv /\ TreeInv
    BY <1>1 DEF Contained!Init, OnceInv, AdoptInv, TreeInv, Fresh, Running, Rooted
  <1> QED BY <1>1, <1>2, <1>3, <1>4
       DEF Contained!Init, ContainedInv, OutlivedInv, SeenInv, RecordInv, Running, Closing

LEMMA ContainedStep ==
  ASSUME Contained!ContainmentAssumption, ContainedInv, [Contained!Next]_Contained!vars
  PROVE  ContainedInv'
  <1>1. CASE Contained!Next
    <2>1. ContainedTypes'
      BY <1>1, TreeTypesStep, CallTypesStep, ResultTypesStep, CountTypesStep
         DEF ContainedInv, ContainedTypes
    <2>2. OnceInv' /\ AdoptInv'
      BY <1>1, OnceStep, AdoptStep, Types DEF ContainedInv
    <2> QED BY <1>1, <2>1, <2>2, TreeStep, OutlivedStep, SeenStep, RecordStep
       DEF ContainedInv, ContainedTypes
  <1>2. CASE UNCHANGED Contained!vars
    BY <1>2 DEF Contained!vars, Contained!tree, Contained!files, Contained!history,
                ContainedInv, ContainedTypes, TreeTypes, CallTypes, ResultTypes, CountTypes,
                OnceInv, AdoptInv, TreeInv, Rooted, OutlivedInv, SeenInv, RecordInv,
                Contained!Present, Contained!Alive
  <1> QED BY <1>1, <1>2

(* What the properties say, from the invariant. *)
LEMMA ContainedPromises ==
  ASSUME Contained!ContainmentAssumption, ContainedInv
  PROVE  Contained!TypeOK /\ Contained!RunsOnce /\ Contained!AcceptedIsContained
           /\ Contained!EchildIsTerminal /\ Contained!AcceptedIsExact
  <1>1. Contained!TypeOK
    BY Types DEF ContainedInv
  <1>2. Contained!RunsOnce
    BY DEF ContainedInv, OnceInv, Contained!RunsOnce
  <1>3. Contained!AcceptedIsContained /\ Contained!AcceptedIsExact
    BY DEF ContainedInv, RecordInv, Contained!AcceptedIsContained, Contained!AcceptedIsExact
  <1>4. Contained!EchildIsTerminal
    BY DEF ContainedInv, OutlivedInv, Contained!EchildIsTerminal
  <1> QED BY <1>1, <1>2, <1>3, <1>4

-----------------------------------------------------------------------------
(* A calibration command.                                                  *)

(* No byte is lost between a command and its capture threads.              *)
BytesInv == \A s \in Command!Streams : written[s] = captured[s] + pipe[s]

(* A thread that has seen the end of its stream has seen all of it: the    *)
(* leader, which holds every stream until it exits, is gone.               *)
ClosedInv ==
  \A s \in Command!Streams : /\ thread[s] # "failed" => s \in holds["leader"]
                             /\ thread[s] = "closed" =>
                                  pipe[s] = 0 /\ Command!Writers(s) = {}
                                    /\ "leader" \notin command_grouped

Starting == {"spawn", "start_stdout", "start_stderr"}
Joining == {"join", "rejoin", "verdict"}

(* What the controlling thread knows where it is.                          *)
PlaceInv ==
  /\ command_pc = "spawn"
       => command_grouped = {} /\ \A s \in Command!Streams : thread[s] = "unstarted"
  /\ command_pc = "start_stdout" => \A s \in Command!Streams : thread[s] = "unstarted"
  /\ command_pc = "start_stderr"
       => thread["stdout"] # "unstarted" /\ thread["stderr"] = "unstarted"
  /\ command_pc \notin Starting \cup {"ended"} /\ ~failing
       => \A s \in Command!Streams : thread[s] # "unstarted"
  /\ command_pc \in Joining => command_grouped = {} \/ reported
  /\ command_pc \in {"rejoin", "verdict"} /\ ~late => Command!Stopped

(* What it leaves.                                                         *)
OutcomeInv ==
  /\ outcome # "none" <=> command_pc = "ended"
  /\ outcome = "returned"
       => command_grouped = {} /\ \A s \in Command!Streams : thread[s] = "closed"
  /\ Command!LeftBehindIsReported

CommandInv == Command!TypeOK /\ BytesInv /\ ClosedInv /\ PlaceInv /\ OutcomeInv

LEMMA CommandInit == ASSUME Command!CommandAssumption, Command!Init PROVE CommandInv
  <1>1. Command!TypeOK
    <2>1. holds \in [Command!Processes -> SUBSET Command!Streams]
      BY DEF Command!Init
    <2>2. 0 \in 0 .. Capacity /\ 0 \in 0 .. MaxBytes /\ 0 \in 0 .. MaxSignals
      BY DEF Command!CommandAssumption
    <2> QED BY <2>1, <2>2 DEF Command!Init, Command!TypeOK
  <1>2. BytesInv
    BY DEF Command!Init, BytesInv
  <1>3. ClosedInv
    BY DEF Command!Init, ClosedInv, Command!Processes, Command!Streams
  <1>4. PlaceInv /\ OutcomeInv
    BY DEF Command!Init, PlaceInv, OutcomeInv, Command!LeftBehindIsReported, Starting, Joining
  <1> QED BY <1>1, <1>2, <1>3, <1>4 DEF CommandInv

(* The controlling thread.                                                 *)
LEMMA ControllerStep ==
  ASSUME Command!CommandAssumption, CommandInv, Command!Controller
  PROVE  CommandInv'
  <1> USE DEF CommandInv, Command!TypeOK, BytesInv, ClosedInv, PlaceInv, OutcomeInv,
              Command!LeftBehindIsReported, Starting, Joining, Command!Goto, Command!End,
              Command!processes, Command!capture, Command!notes, Command!Writers,
              Command!Started, Command!Stopped
  <1>1. CASE Command!Spawn
    BY <1>1 DEF Command!Spawn, Command!Processes
  <1>2. CASE Command!Wait
    BY <1>2 DEF Command!Wait
  <1>3. CASE Command!Probe
    BY <1>3 DEF Command!Probe
  <1>4. CASE Command!Terminate
    BY <1>4 DEF Command!Terminate
  <1>5. CASE Command!Kill
    BY <1>5 DEF Command!Kill
  <1>6. CASE Command!Killed
    BY <1>6 DEF Command!Killed
  <1>7. CASE Command!Join
    BY <1>7 DEF Command!Join
  <1>8. CASE Command!Rejoin
    BY <1>8 DEF Command!Rejoin
  <1>9. CASE Command!Verdict
    BY <1>9 DEF Command!Verdict
  <1>10. ASSUME NEW s \in Command!Streams, Command!StartThread(s) PROVE CommandInv'
    <2>1. Command!TypeOK'
      <3>1. thread' \in [Command!Streams -> {"unstarted", "reading", "closed", "failed"}]
        BY <1>10 DEF Command!StartThread, CommandInv, Command!TypeOK
      <3>2. {failing, lingering, late, reported}' \subseteq BOOLEAN
        BY <1>10 DEF Command!StartThread, CommandInv, Command!TypeOK, Command!notes
      <3>3. command_pc' \in {"start_stderr", "wait", "stop"} /\ outcome' = outcome
        BY <1>10 DEF Command!StartThread, Command!Goto, Command!StartOf
      <3> QED BY <1>10, <3>1, <3>2, <3>3 DEF Command!StartThread, CommandInv, Command!TypeOK,
                                             Command!processes, Command!capture, Command!notes
    <2>2. BytesInv'
      BY <1>10 DEF Command!StartThread, Command!StartOf, CommandInv, Command!TypeOK, BytesInv,
                   Command!processes, Command!capture, Command!notes, Command!Goto,
                   Command!Streams
    <2>3. ClosedInv'
      BY <1>10 DEF Command!StartThread, Command!StartOf, CommandInv, Command!TypeOK,
                   ClosedInv, PlaceInv, Command!Writers, Command!processes, Command!capture,
                   Command!notes, Command!Goto, Command!Streams
    <2>4. PlaceInv'
      BY <1>10 DEF Command!StartThread, Command!StartOf, CommandInv, Command!TypeOK, PlaceInv,
                   ClosedInv, Starting, Joining, Command!Started, Command!Stopped,
                   Command!processes, Command!capture, Command!notes, Command!Goto,
                   Command!Streams
    <2>5. OutcomeInv'
      BY <1>10 DEF Command!StartThread, Command!StartOf, CommandInv, Command!TypeOK,
                   OutcomeInv, ClosedInv, Command!LeftBehindIsReported, Command!processes,
                   Command!capture, Command!notes, Command!Goto, Command!Streams
    <2> QED BY <2>1, <2>2, <2>3, <2>4, <2>5 DEF CommandInv
  <1> QED BY <1>1, <1>2, <1>3, <1>4, <1>5, <1>6, <1>7, <1>8, <1>9, <1>10 DEF Command!Controller

(* The command and its capture threads.                                    *)
LEMMA CommandStep ==
  ASSUME Command!CommandAssumption, CommandInv, Command!Command \/ Command!Threads
  PROVE  CommandInv'
  <1> USE DEF CommandInv, Command!TypeOK, BytesInv, ClosedInv, PlaceInv, OutcomeInv,
              Command!LeftBehindIsReported, Starting, Joining, Command!processes,
              Command!capture, Command!notes, Command!Writers, Command!Started,
              Command!Stopped
  <1>1. CASE Command!Fork
    <2>1. Command!TypeOK'
      <3>1. holds' \in [Command!Processes -> SUBSET Command!Streams]
        BY <1>1 DEF Command!Fork, CommandInv, Command!TypeOK
      <3>2. command_grouped' \subseteq Command!Processes /\ escaped' \subseteq {"child"}
        BY <1>1 DEF Command!Fork, CommandInv, Command!TypeOK, Command!Processes
      <3> QED BY <1>1, <3>1, <3>2 DEF Command!Fork, CommandInv, Command!TypeOK,
                                      Command!processes, Command!capture, Command!notes
    <2>2. BytesInv'
      BY <1>1 DEF Command!Fork, CommandInv, Command!TypeOK, BytesInv, Command!processes,
                  Command!capture, Command!notes, Command!Processes
    <2>3. ClosedInv'
      BY <1>1 DEF Command!Fork, CommandInv, Command!TypeOK, ClosedInv, Command!Writers,
                  Command!processes, Command!capture, Command!notes, Command!Processes
    <2>4. PlaceInv'
      BY <1>1 DEF Command!Fork, CommandInv, Command!TypeOK, PlaceInv, ClosedInv, Starting,
                  Joining, Command!Started, Command!Stopped, Command!processes,
                  Command!capture, Command!notes, Command!Processes
    <2>5. OutcomeInv'
      BY <1>1 DEF Command!Fork, CommandInv, Command!TypeOK, OutcomeInv, ClosedInv,
                  Command!LeftBehindIsReported, Command!processes, Command!capture,
                  Command!notes, Command!Processes
    <2> QED BY <2>1, <2>2, <2>3, <2>4, <2>5 DEF CommandInv
  <1>2. ASSUME NEW p \in Command!Processes, Command!Exit(p) PROVE CommandInv'
    BY <1>2 DEF Command!Exit
  <1>3. ASSUME NEW p \in Command!Processes, NEW s \in Command!Streams, Command!Write(p, s)
        PROVE CommandInv'
    BY <1>3 DEF Command!Write, Command!CommandAssumption
  <1>4. ASSUME NEW s \in Command!Streams, Command!Capture(s) PROVE CommandInv'
    <2>1. Command!TypeOK'
      <3>1. pipe[s] \in 1 .. Capacity /\ captured[s] + pipe[s] \in 0 .. MaxBytes
              /\ captured[s] \in Nat
        BY <1>4 DEF Command!Capture, CommandInv, Command!TypeOK, BytesInv,
                    Command!CommandAssumption
      <3>2. captured[s] + 1 \in 0 .. MaxBytes /\ pipe[s] - 1 \in 0 .. Capacity
        BY <3>1 DEF Command!CommandAssumption
      <3>3. pipe' \in [Command!Streams -> 0 .. Capacity]
              /\ captured' \in [Command!Streams -> 0 .. MaxBytes]
        BY <1>4, <3>2 DEF Command!Capture, CommandInv, Command!TypeOK
      <3> QED BY <1>4, <3>1, <3>2, <3>3 DEF Command!Capture, CommandInv, Command!TypeOK,
                                            Command!processes, Command!capture, Command!notes
    <2>2. BytesInv'
      BY <1>4 DEF Command!Capture, CommandInv, Command!TypeOK, BytesInv, Command!processes,
                  Command!capture, Command!notes
    <2>3. ClosedInv'
      BY <1>4 DEF Command!Capture, CommandInv, Command!TypeOK, ClosedInv, Command!Writers,
                  Command!processes, Command!capture, Command!notes
    <2>4. PlaceInv'
      BY <1>4 DEF Command!Capture, CommandInv, Command!TypeOK, PlaceInv, ClosedInv, Starting,
                  Joining, Command!Started, Command!Stopped, Command!processes,
                  Command!capture, Command!notes
    <2>5. OutcomeInv'
      BY <1>4 DEF Command!Capture, CommandInv, Command!TypeOK, OutcomeInv, ClosedInv,
                  Command!LeftBehindIsReported, Command!processes, Command!capture,
                  Command!notes
    <2> QED BY <2>1, <2>2, <2>3, <2>4, <2>5 DEF CommandInv
  <1>5. ASSUME NEW s \in Command!Streams, Command!EndOfFile(s) PROVE CommandInv'
    BY <1>5 DEF Command!EndOfFile
  <1>6. ASSUME NEW s \in Command!Streams, Command!ThreadError(s) PROVE CommandInv'
    <2>1. Command!TypeOK'
      BY <1>6 DEF Command!ThreadError, CommandInv, Command!TypeOK, Command!processes,
                  Command!capture, Command!notes, Command!Processes
    <2>2. BytesInv'
      BY <1>6 DEF Command!ThreadError, CommandInv, Command!TypeOK, BytesInv,
                  Command!processes, Command!capture, Command!notes, Command!Processes
    <2>3. ClosedInv'
      BY <1>6 DEF Command!ThreadError, CommandInv, Command!TypeOK, ClosedInv, Command!Writers,
                  Command!processes, Command!capture, Command!notes, Command!Processes
    <2>4. PlaceInv'
      BY <1>6 DEF Command!ThreadError, CommandInv, Command!TypeOK, PlaceInv, ClosedInv,
                  Starting, Joining, Command!Started, Command!Stopped, Command!processes,
                  Command!capture, Command!notes, Command!Processes
    <2>5. OutcomeInv'
      BY <1>6 DEF Command!ThreadError, CommandInv, Command!TypeOK, OutcomeInv, ClosedInv,
                  Command!LeftBehindIsReported, Command!processes, Command!capture,
                  Command!notes, Command!Processes
    <2> QED BY <2>1, <2>2, <2>3, <2>4, <2>5 DEF CommandInv
  <1> QED BY <1>1, <1>2, <1>3, <1>4, <1>5, <1>6 DEF Command!Command, Command!Threads

LEMMA CommandInvStep ==
  ASSUME Command!CommandAssumption, CommandInv, [Command!Next]_Command!vars
  PROVE  CommandInv'
  <1>1. CASE Command!Interrupt
    <2>1. Command!TypeOK'
      <3>1. signals' \in 0 .. MaxSignals
        BY <1>1 DEF Command!Interrupt, CommandInv, Command!TypeOK, Command!CommandAssumption
      <3>2. {failing, lingering, late, reported}' \subseteq BOOLEAN
        BY <1>1 DEF Command!Interrupt, CommandInv, Command!TypeOK
      <3>3. command_pc' \in {"stop", "join", "ended"} /\ outcome' \in {outcome, "raised"}
        BY <1>1 DEF Command!Interrupt, Command!Goto, Command!End
      <3> QED BY <1>1, <3>1, <3>2, <3>3 DEF Command!Interrupt, CommandInv, Command!TypeOK,
                                            Command!processes, Command!capture, Command!notes
    <2>2. BytesInv'
      BY <1>1 DEF Command!Interrupt, CommandInv, Command!TypeOK, BytesInv, Command!processes,
                  Command!capture, Command!notes, Command!Goto, Command!End,
                  Command!CommandAssumption
    <2>3. ClosedInv'
      BY <1>1 DEF Command!Interrupt, CommandInv, Command!TypeOK, ClosedInv, Command!Writers,
                  Command!processes, Command!capture, Command!notes, Command!Goto,
                  Command!End, Command!CommandAssumption
    <2>4. PlaceInv'
      BY <1>1 DEF Command!Interrupt, CommandInv, Command!TypeOK, PlaceInv, ClosedInv,
                  Starting, Joining, Command!Started, Command!Stopped, Command!processes,
                  Command!capture, Command!notes, Command!Goto, Command!End,
                  Command!CommandAssumption
    <2>5. OutcomeInv'
      BY <1>1 DEF Command!Interrupt, CommandInv, Command!TypeOK, OutcomeInv, PlaceInv,
                  Joining, Command!LeftBehindIsReported, Command!processes, Command!capture,
                  Command!notes, Command!Goto, Command!End, Command!CommandAssumption
    <2> QED BY <2>1, <2>2, <2>3, <2>4, <2>5 DEF CommandInv
  <1>2. CASE UNCHANGED Command!vars
    BY <1>2 DEF Command!vars, CommandInv, Command!TypeOK, BytesInv, ClosedInv, PlaceInv,
                OutcomeInv, Command!LeftBehindIsReported, Command!processes, Command!capture,
                Command!notes, Command!Writers, Command!Started, Command!Stopped
  <1> QED BY <1>1, <1>2, ControllerStep, CommandStep DEF Command!Next

LEMMA CommandPromises ==
  ASSUME CommandInv
  PROVE  Command!TypeOK /\ Command!ReturnedIsComplete /\ Command!LeftBehindIsReported
  BY DEF CommandInv, Command!TypeOK, BytesInv, ClosedInv, OutcomeInv, Command!ReturnedIsComplete

-----------------------------------------------------------------------------
(* The launches of the diagnostic.                                         *)

(* The launch that linked the marker of its repeat is about to start the   *)
(* evaluator.                                                              *)
Owns == {"settle", "spawn"}

FunctionInv ==
  /\ DOMAIN at = Launchers /\ DOMAIN marker = Launch!Repeats /\ DOMAIN run = Launchers
       /\ DOMAIN spawned = Launchers
  /\ \A l \in Launchers : "repeat" \in DOMAIN run[l]

(* A started launch has a repeat; whoever owns a repeat, or has started its *)
(* evaluator, is the one the marker names.                                  *)
MarkerInv ==
  \A l \in Launchers :
    /\ at[l] # "idle" => Launch!Repeat(l) \in Launch!Repeats
    /\ at[l] \in Owns => marker[Launch!Repeat(l)].by = l
    /\ spawned[l] # 0 => spawned[l] \in Launch!Repeats /\ marker[spawned[l]].by = l

OwnerInv == FunctionInv /\ MarkerInv

LEMMA AbsentNamesNobody ==
  ASSUME Launch!LaunchAssumption, NEW l \in Launchers, NEW k \in Launch!Repeats, marker[k].by = l
  PROVE  marker[k] # Launch!Absent
  BY DEF Launch!LaunchAssumption, Launch!LaunchAssumption, Launch!Absent

(* A launch goes on, with its repeat, to where it owns nothing it did not;  *)
(* markers and evaluators stay.                                             *)
Advances(l) ==
  /\ DOMAIN at' = Launchers /\ DOMAIN run' = Launchers
  /\ \A m \in Launchers \ {l} : at'[m] = at[m] /\ run'[m] = run[m]
  /\ "repeat" \in DOMAIN run'[l] /\ run'[l].repeat = run[l].repeat
  /\ at[l] # "idle" /\ at'[l] # "idle"
  /\ at'[l] \in Owns => at[l] = "settle"
  /\ UNCHANGED <<marker, spawned>>

LEMMA AdvanceStep == ASSUME OwnerInv, NEW l \in Launchers, Advances(l) PROVE OwnerInv'
  <1>1. \A m \in Launchers : run'[m].repeat = run[m].repeat /\ "repeat" \in DOMAIN run'[m]
    BY DEF Advances, OwnerInv, FunctionInv
  <1>2. FunctionInv'
    BY <1>1 DEF Advances, OwnerInv, FunctionInv
  <1>3. MarkerInv'
    BY <1>1 DEF Advances, OwnerInv, FunctionInv, MarkerInv, Owns, Launch!Repeat
  <1> QED BY <1>2, <1>3 DEF OwnerInv

LEMMA OwnerStays == ASSUME OwnerInv, UNCHANGED <<marker, spawned, run, at>> PROVE OwnerInv'
  BY DEF OwnerInv, FunctionInv, MarkerInv, Launch!Repeat

(* Changing what a launch noted keeps its repeat.                           *)
LEMMA Noted ==
  ASSUME NEW r, "repeat" \in DOMAIN r, NEW x, NEW y
  PROVE  /\ "repeat" \in DOMAIN [r EXCEPT !.why = x] /\ [r EXCEPT !.why = x].repeat = r.repeat
         /\ "repeat" \in DOMAIN [r EXCEPT !.prior = x] /\ [r EXCEPT !.prior = x].repeat = r.repeat
         /\ "repeat" \in DOMAIN [r EXCEPT !.runtime = x]
         /\ [r EXCEPT !.runtime = x].repeat = r.repeat
         /\ "repeat" \in DOMAIN [r EXCEPT !.inspected = x]
         /\ [r EXCEPT !.inspected = x].repeat = r.repeat
         /\ "repeat" \in DOMAIN [r EXCEPT !.code = x] /\ [r EXCEPT !.code = x].repeat = r.repeat
         /\ "repeat" \in DOMAIN [r EXCEPT !.killed = x]
              /\ [r EXCEPT !.killed = x].repeat = r.repeat
         /\ "repeat" \in DOMAIN [r EXCEPT !.observed = x]
         /\ [r EXCEPT !.observed = x].repeat = r.repeat
         /\ "repeat" \in DOMAIN [r EXCEPT !.echild = x, !.why = y]
         /\ [r EXCEPT !.echild = x, !.why = y].repeat = r.repeat
         /\ "repeat" \in DOMAIN [r EXCEPT !.control = x, !.validation = y]
         /\ [r EXCEPT !.control = x, !.validation = y].repeat = r.repeat
         /\ "repeat" \in DOMAIN [r EXCEPT !.control = x, !.why = y]
         /\ [r EXCEPT !.control = x, !.why = y].repeat = r.repeat
  OBVIOUS

-----------------------------------------------------------------------------
(* The steps that matter.                                                   *)

LEMMA StartStep == ASSUME OwnerInv, NEW l \in Launchers, Launch!Start(l) PROVE OwnerInv'
  <1>1. PICK k \in Launch!Repeats : run' = [run EXCEPT ![l] = [Launch!NoRun
                                               EXCEPT !.repeat = k, !.contract = Launch!Contract]]
    BY DEF Launch!Start, Launch!Keep
  <1>2. "repeat" \in DOMAIN run'[l] /\ run'[l].repeat = k
    BY <1>1 DEF Launch!NoRun, OwnerInv, FunctionInv
  <1>3. at' = [at EXCEPT ![l] = "inventory"] /\ UNCHANGED <<marker, spawned>>
    BY DEF Launch!Start, Launch!Goto, Launch!report
  <1> QED BY <1>1, <1>2, <1>3 DEF OwnerInv, FunctionInv, MarkerInv, Owns, Launch!Repeat

(* The marker is only ever linked where there is none.                      *)
LEMMA LinkStep ==
  ASSUME Launch!LaunchAssumption, OwnerInv, NEW l \in Launchers, Launch!Link(l)
  PROVE  OwnerInv'
  <1>1. CASE marker[Launch!Repeat(l)] = Launch!Absent
    <2>1. /\ at[l] = "link" /\ Launch!Repeat(l) \in Launch!Repeats
               /\ at' = [at EXCEPT ![l] = "settle"]
          /\ marker' = [marker EXCEPT ![Launch!Repeat(l)] = [by |-> l, addendum |-> run[l].contract[1]]]
          /\ UNCHANGED <<run, spawned>>
      BY <1>1 DEF Launch!Link, Launch!Goto, OwnerInv, MarkerInv
    <2>2. marker'[Launch!Repeat(l)].by = l
      BY <2>1 DEF OwnerInv, FunctionInv
    <2>3. ASSUME NEW m \in Launchers, NEW k \in Launch!Repeats, marker[k].by = m
          PROVE marker'[k].by = m
      BY <1>1, <2>1, <2>3, AbsentNamesNobody DEF OwnerInv, FunctionInv
    <2> QED BY <1>1, <2>1, <2>2, <2>3 DEF OwnerInv, FunctionInv, MarkerInv, Owns, Launch!Repeat
  <1>2. CASE marker[Launch!Repeat(l)] # Launch!Absent
    BY <1>2, AdvanceStep DEF Advances, OwnerInv, FunctionInv, Launch!report, Launch!Link,
                             Launch!Unpublished, Launch!Goto, Owns
  <1> QED BY <1>1, <1>2

LEMMA SpawnStep == ASSUME OwnerInv, NEW l \in Launchers, Launch!Spawn(l) PROVE OwnerInv'
  <1>1. /\ at[l] = "spawn" /\ at' = [at EXCEPT ![l] = "exec"] /\ UNCHANGED <<marker, run>>
        /\ spawned' = [spawned EXCEPT ![l] = Launch!Repeat(l)]
    BY DEF Launch!Spawn, Launch!Goto, Launch!report
  <1>2. Launch!Repeat(l) \in Launch!Repeats /\ marker[Launch!Repeat(l)].by = l
    BY <1>1 DEF OwnerInv, MarkerInv, Owns
  <1> QED BY <1>1, <1>2 DEF OwnerInv, FunctionInv, MarkerInv, Owns, Launch!Repeat

-----------------------------------------------------------------------------
(* All other steps.                                                         *)

LEMMA BeforeSteps ==
  ASSUME OwnerInv, NEW l \in Launchers,
         Launch!Inventory(l) \/ Launch!Preflight(l) \/ Launch!Revalidate(l) \/ Launch!Reload(l)
           \/ Launch!Stage(l) \/ Launch!Settle(l)
  PROVE  OwnerInv'
  <1> USE Noted, AdvanceStep DEF Advances, OwnerInv, FunctionInv, Launch!Refuse, Launch!Goto,
                                 Launch!Keep, Owns, Launch!report
  <1>0. "repeat" \in DOMAIN run[l]
    BY DEF OwnerInv, FunctionInv
  <1>1. CASE Launch!Inventory(l)
    BY <1>0, <1>1 DEF Launch!Inventory
  <1>2. CASE Launch!Preflight(l)
    BY <1>0, <1>2 DEF Launch!Preflight
  <1>3. CASE Launch!Revalidate(l)
    BY <1>3 DEF Launch!Revalidate
  <1>4. CASE Launch!Reload(l)
    BY <1>4 DEF Launch!Reload
  <1>5. CASE Launch!Stage(l)
    BY <1>5 DEF Launch!Stage, Launch!After, Launch!Unpublished
  <1>6. CASE Launch!Settle(l)
    BY <1>6 DEF Launch!Settle, Launch!Unpublished
  <1> QED BY <1>1, <1>2, <1>3, <1>4, <1>5, <1>6

LEMMA RunSteps ==
  ASSUME OwnerInv, NEW l \in Launchers,
         \/ Launch!WaitExecStop(l) \/ Launch!Inspect(l) \/ Launch!Detach(l)
              \/ Launch!WaitRun(l) \/ Launch!TimeOut(l)
         \/ Launch!Clean(l) \/ Launch!ReapKilled(l) \/ Launch!Observe(l) \/ Launch!Drained(l)
              \/ Launch!Post(l)
         \/ Launch!LinkReceipt(l)
  PROVE  OwnerInv'
  <1> USE Noted, AdvanceStep DEF Advances, OwnerInv, FunctionInv, Launch!Fails, Launch!Goto,
                                 Launch!Keep, Owns, Launch!report
  <1>0. "repeat" \in DOMAIN run[l]
    BY DEF OwnerInv, FunctionInv
  <1>1. CASE Launch!WaitExecStop(l)
    BY <1>0, <1>1 DEF Launch!WaitExecStop
  <1>2. CASE Launch!Inspect(l)
    BY <1>0, <1>2 DEF Launch!Inspect
  <1>3. CASE Launch!Detach(l)
    BY <1>0, <1>3 DEF Launch!Detach
  <1>4. CASE Launch!WaitRun(l)
    BY <1>0, <1>4 DEF Launch!WaitRun
  <1>5. CASE Launch!TimeOut(l)
    BY <1>0, <1>5 DEF Launch!TimeOut
  <1>6. CASE Launch!Clean(l)
    BY <1>0, <1>6 DEF Launch!Clean
  <1>7. CASE Launch!ReapKilled(l)
    BY <1>0, <1>7 DEF Launch!ReapKilled
  <1>8. CASE Launch!Observe(l)
    <2>1. /\ run' = [run EXCEPT ![l] = [run[l] EXCEPT !.observed = TRUE]]
          /\ at[l] = "drain" /\ UNCHANGED <<at, marker, spawned>>
      BY <1>8 DEF Launch!Observe
    <2> QED BY <1>0, <2>1
  <1>9. CASE Launch!Drained(l)
    BY <1>0, <1>9 DEF Launch!Drained
  <1>10. CASE Launch!Post(l)
    <2>1. \/ run' = [run EXCEPT ![l] = [run[l] EXCEPT !.control = TRUE,
                                                     !.validation = Launch!Validation(Launch!Repeat(l))]]
          \/ run' = [run EXCEPT ![l] = [run[l] EXCEPT !.control = TRUE, !.why = "validation"]]
          \/ run' = [run EXCEPT ![l] = [run[l] EXCEPT !.why = "control"]]
      BY <1>10 DEF Launch!Post
    <2>2. at[l] = "post" /\ at' = [at EXCEPT ![l] = "r_stage"] /\ UNCHANGED <<marker, spawned>>
      BY <1>10 DEF Launch!Post
    <2>3. CASE run' = [run EXCEPT ![l] = [run[l] EXCEPT !.control = TRUE,
                                                        !.validation = Launch!Validation(Launch!Repeat(l))]]
      BY <1>0, <2>2, <2>3
    <2>4. CASE run' = [run EXCEPT ![l] = [run[l] EXCEPT !.control = TRUE, !.why = "validation"]]
      BY <1>0, <2>2, <2>4
    <2>5. CASE run' = [run EXCEPT ![l] = [run[l] EXCEPT !.why = "control"]]
      BY <1>0, <2>2, <2>5
    <2> QED BY <2>1, <2>3, <2>4, <2>5
  <1>11. CASE Launch!LinkReceipt(l)
    BY <1>11 DEF Launch!LinkReceipt, Launch!Unpublished
  <1> QED BY <1>1, <1>2, <1>3, <1>4, <1>5, <1>6, <1>7, <1>8, <1>9, <1>10, <1>11

LEMMA OtherSteps ==
  ASSUME OwnerInv, NEW l \in Launchers, Launch!Interrupt(l) \/ Launch!Kill(l)
           \/ Launch!Exits(l) \/ Launch!Evaluator(l)
  PROVE  OwnerInv'
  <1> USE Noted, AdvanceStep DEF Advances, OwnerInv, FunctionInv, Launch!Fails, Launch!Refuse,
                                 Launch!Goto, Launch!Keep, Owns, Launch!report
  <1>0. "repeat" \in DOMAIN run[l]
    BY DEF OwnerInv, FunctionInv
  <1>1. CASE Launch!Interrupt(l)
    BY <1>0, <1>1 DEF Launch!Interrupt, Launch!Before, Launch!Guarded, Launch!Late, Launch!Receipt
  <1>2. CASE Launch!Kill(l)
    BY <1>2 DEF Launch!Kill
  <1>3. CASE Launch!Exits(l) \/ Launch!Evaluator(l)
    BY <1>3, OwnerStays DEF Launch!Exits, Launch!Evaluator, Launch!ChildExec, Launch!Fork,
                            Launch!Evaluate, Launch!Exit, Launch!HeirExits
  <1> QED BY <1>1, <1>2, <1>3

LEMMA OwnerInit == Launch!Init => OwnerInv
  <1> SUFFICES ASSUME Launch!Init PROVE OwnerInv
    OBVIOUS
  <1>1. "repeat" \in DOMAIN Launch!NoRun
    BY DEF Launch!NoRun
  <1> QED BY <1>1 DEF Launch!Init, OwnerInv, FunctionInv, MarkerInv, Owns

LEMMA OwnerStep ==
  ASSUME Launch!LaunchAssumption, OwnerInv, [Launch!Next]_Launch!vars
  PROVE  OwnerInv'
  <1>1. ASSUME NEW l \in Launchers, Launch!Start(l) \/ Launch!Step(l) \/ Launch!Evaluator(l)
                 \/ Launch!TimeOut(l)
                                   \/ Launch!Interrupt(l) \/ Launch!Kill(l) \/ Launch!Exits(l)
        PROVE  OwnerInv'
    BY <1>1, StartStep, LinkStep, SpawnStep, BeforeSteps, RunSteps, OtherSteps DEF Launch!Step
  <1>2. CASE Launch!Change \/ UNCHANGED Launch!vars
    BY <1>2, OwnerStays DEF Launch!Change, Launch!vars, Launch!report
  <1>3. ~Launch!Reboot
    BY DEF Launch!Reboot, Launch!LaunchAssumption
  <1> QED BY <1>1, <1>2, <1>3 DEF Launch!Next

LEMMA OwnersDiffer == OwnerInv => Launch!EvaluatedOnce
  BY DEF OwnerInv, MarkerInv, Launch!EvaluatedOnce

-----------------------------------------------------------------------------
(* The values of the variables, what a launch has behind it where it is,   *)
(* and what its receipt says.                                              *)

(* What a launch notes. *)
Fields == {"repeat", "contract", "runtime", "prior", "why", "inspected", "code", "killed",
           "observed", "echild", "control", "validation"}
Contracts == (0 .. 2) \X (0 .. 2)
Places == {"idle"} \cup Launch!Before \cup Launch!Guarded \cup Launch!Late
         \cup Launch!Receipt \cup Launch!Ended
Outputs == {"none", "staged", "a", "b", "bad"}
Children == {"none", "setup", "held", "running", "zero", "bad", "gone"}
Heirs == {"none", "alive", "unreaped", "adopted", "orphan", "zombie", "reaped", "gone"}

ValueInv ==
  /\ world \in [Launch!Controls -> 0 .. 2]
  /\ output \in [Launch!Repeats -> Outputs]
  /\ litter \subseteq Launchers
  /\ at \in [Launchers -> Places]
  /\ child \in [Launchers -> Children]
  /\ heir \in [Launchers -> Heirs]
  /\ DOMAIN receipt = Launch!Repeats
  /\ \A l \in Launchers : DOMAIN run[l] = Fields /\ run[l].contract \in Contracts
  /\ launch_faults \in 0 .. MaxLaunchFaults

(* Before its evaluator, a launch has noted nothing of one.                *)
Unspawned == Launch!Before \cup {"idle", "spawn"}
NewInv(l) ==
  at[l] \in Unspawned =>
    /\ child[l] = "none" /\ heir[l] = "none"
    /\ ~run[l].inspected /\ run[l].code = "none" /\ ~run[l].observed

(* The evaluator and its descendant.                                       *)
ChildInv(l) ==
  /\ child[l] # "none" => spawned[l] = Launch!Repeat(l) /\ Launch!Repeat(l) \in Launch!Repeats
  /\ child[l] = "running" \/ at[l] = "detach" => run[l].inspected
  /\ run[l].code = "zero" => child[l] = "gone"
  /\ at[l] = "dead" => child[l] \in {"none", "setup", "gone"}
  /\ child[l] = "none" => heir[l] = "none"
  /\ heir[l] \in {"alive", "unreaped"} => child[l] = "running"
  /\ heir[l] = "orphan" => at[l] \in Launch!Ended
  /\ heir[l] = "reaped" => run[l].observed

(* Nothing of it is left when the outputs are validated.                   *)
Cleared(l) == child[l] = "gone" /\ heir[l] \in {"none", "gone"}
ClearedInv(l) ==
  /\ at[l] = "post" => Cleared(l)
  /\ at[l] \in Launch!Receipt /\ run[l].why = "none" =>
       Cleared(l) /\ run[l].validation[Launch!Repeat(l)] \in {"a", "b"}

(* The receipts of the earlier repeats are those the launch has compared.  *)
Agrees(l) ==
  \A j \in 1 .. Launch!Repeat(l) - 1 :
    /\ receipt[j] # Launch!Absent /\ receipt[j].status = "validated"
    /\ receipt[j].contract = run[l].contract /\ receipt[j].runtime = run[l].runtime
    /\ j > 1 => receipt[j].prior = receipt[j - 1].validation
SeriesInv(l) ==
  /\ at[l] \in {"revalidate", "reload"} =>
       \A j \in DOMAIN run[l].prior : run[l].prior[j][1] = run[l].runtime
  /\ at[l] \in {"stage", "link", "settle", "spawn"} \/ child[l] # "none" => Agrees(l)

RowInv(l) == NewInv(l) /\ ChildInv(l) /\ ClearedInv(l) /\ SeriesInv(l)

(* A receipt is the last thing a launch writes.                            *)
Settled == {"r_settle", "done", "failed", "dead"}
ReceiptInv ==
  \A k \in Launch!Repeats : receipt[k] # Launch!Absent =>
    LET l == receipt[k].by
    IN /\ l \in Launchers /\ at[l] \in Settled /\ receipt[k].contract \in Contracts
       /\ receipt[k].status = "validated" =>
            spawned[l] = k /\ Cleared(l) /\ receipt[k].validation[k] \in {"a", "b"}

LaunchInv ==
  /\ ValueInv /\ ReceiptInv
  /\ \A l \in Launchers : RowInv(l)

Typed ==
  /\ at \in [Launchers -> Places] /\ child \in [Launchers -> Children]
  /\ heir \in [Launchers -> Heirs]

(* Launch l goes to p with the notes q, its child c and the descendant h.  *)
Moves(l, p, q, c, h) ==
  /\ Typed'
  /\ at'[l] = p /\ run'[l] = q /\ child'[l] = c /\ heir'[l] = h
  /\ \A m \in Launchers \ {l} : /\ at'[m] = at[m] /\ run'[m] = run[m]
                                /\ child'[m] = child[m] /\ heir'[m] = heir[m]
  /\ UNCHANGED <<receipt, spawned>>

Notes(l, q) ==
  DOMAIN q = Fields /\ q.repeat = run[l].repeat /\ q.contract = run[l].contract

(* The invariant of a launch holds where it goes.                          *)
Fits(l, p, q, c, h) ==
  /\ p \in Unspawned =>
       c = "none" /\ h = "none" /\ ~q.inspected /\ q.code = "none" /\ ~q.observed
  /\ c # "none" => child[l] # "none"
  /\ c = "running" \/ p = "detach" => q.inspected
  /\ q.code = "zero" => c = "gone"
  /\ p = "dead" => c \in {"none", "setup", "gone"}
  /\ c = "none" => h = "none"
  /\ h \in {"alive", "unreaped"} => c = "running"
  /\ h = "orphan" => p \in Launch!Ended
  /\ h = "reaped" => q.observed
  /\ p = "post" => c = "gone" /\ h \in {"none", "gone"}
  /\ p \in Launch!Receipt /\ q.why = "none" =>
       c = "gone" /\ h \in {"none", "gone"} /\ q.validation[q.repeat] \in {"a", "b"}
  /\ p \in {"revalidate", "reload"} => \A j \in DOMAIN q.prior : q.prior[j][1] = q.runtime
  /\ p \in {"stage", "link", "settle", "spawn"} \/ c # "none" =>
       q.runtime = run[l].runtime /\ Agrees(l)
  /\ at[l] \in Settled =>
       p \in Settled /\ (Cleared(l) => c = "gone" /\ h \in {"none", "gone"})

(* What is left of ValueInv.                                               *)
World ==
  /\ world \in [Launch!Controls -> 0 .. 2] /\ output \in [Launch!Repeats -> Outputs]
  /\ litter \subseteq Launchers /\ launch_faults \in 0 .. MaxLaunchFaults

LEMMA RowMoves ==
  ASSUME OwnerInv, LaunchInv, NEW l \in Launchers, NEW p, NEW q, NEW c, NEW h,
         Moves(l, p, q, c, h), Notes(l, q), Fits(l, p, q, c, h)
  PROVE  RowInv(l)'
  <1>1. Launch!Repeat(l)' = Launch!Repeat(l) /\ run'[l] = q /\ at'[l] = p /\ child'[l] = c
          /\ heir'[l] = h
    BY DEF Moves, Notes, Launch!Repeat
  <1>2. NewInv(l)' /\ ChildInv(l)' /\ ClearedInv(l)'
    BY <1>1 DEF Moves, Fits, Notes, LaunchInv, RowInv, NewInv, ChildInv, ClearedInv, Cleared,
                Launch!Repeat
  <1>3. ASSUME Agrees(l), q.runtime = run[l].runtime PROVE Agrees(l)'
    BY <1>1, <1>3 DEF Agrees, Moves, Notes
  <1>4. SeriesInv(l)'
    BY <1>1, <1>3 DEF SeriesInv, Fits
  <1> QED BY <1>2, <1>4 DEF RowInv

LEMMA RowStays ==
  ASSUME OwnerInv, LaunchInv, NEW l \in Launchers, NEW p, NEW q, NEW c, NEW h,
         Moves(l, p, q, c, h), NEW m \in Launchers \ {l}
  PROVE  RowInv(m)'
  <1>1. /\ run'[m] = run[m] /\ at'[m] = at[m] /\ child'[m] = child[m] /\ heir'[m] = heir[m]
        /\ spawned'[m] = spawned[m] /\ receipt' = receipt
    BY DEF Moves
  <1>2. RowInv(m)
    BY DEF LaunchInv
  <1>3. Agrees(m) => Agrees(m)'
    BY <1>1 DEF Agrees, Launch!Repeat
  <1>4. SeriesInv(m)'
    BY <1>1, <1>2, <1>3 DEF SeriesInv, RowInv
  <1> QED BY <1>1, <1>2, <1>4 DEF RowInv, NewInv, ChildInv, ClearedInv, Cleared, Launch!Repeat

LEMMA ReceiptsStay ==
  ASSUME LaunchInv, NEW l \in Launchers, NEW p, NEW q, NEW c, NEW h,
         Moves(l, p, q, c, h), Fits(l, p, q, c, h)
  PROVE  ReceiptInv'
  BY DEF LaunchInv, ReceiptInv, Moves, Fits, Cleared

(* One launch moves; the others, and the receipts, stay.                   *)
LEMMA MoveStep ==
  ASSUME OwnerInv, LaunchInv, NEW l \in Launchers, NEW p, NEW q, NEW c, NEW h,
         Moves(l, p, q, c, h), Notes(l, q), Fits(l, p, q, c, h), World'
  PROVE  LaunchInv'
  <1>1. ValueInv'
    BY DEF Moves, Notes, World, LaunchInv, ValueInv, Typed
  <1>2. ReceiptInv'
    BY ReceiptsStay
  <1>3. ASSUME NEW m \in Launchers PROVE RowInv(m)'
    BY <1>3, RowMoves, RowStays
  <1> QED BY <1>1, <1>2, <1>3 DEF LaunchInv
-----------------------------------------------------------------------------
(* What an action changes of its launch.                                   *)

Sets(l, p, q, c, h) ==
  /\ at' = [at EXCEPT ![l] = p] \/ (UNCHANGED at /\ p = at[l])
  /\ run' = [run EXCEPT ![l] = q] \/ (UNCHANGED run /\ q = run[l])
  /\ child' = [child EXCEPT ![l] = c] \/ (UNCHANGED child /\ c = child[l])
  /\ heir' = [heir EXCEPT ![l] = h] \/ (UNCHANGED heir /\ h = heir[l])
  /\ p \in Places /\ c \in Children /\ h \in Heirs
  /\ UNCHANGED <<receipt, spawned>>

LEMMA SetsStep ==
  ASSUME OwnerInv, LaunchInv, NEW l \in Launchers, NEW p, NEW q, NEW c, NEW h,
         Sets(l, p, q, c, h), Notes(l, q), Fits(l, p, q, c, h), World'
  PROVE  LaunchInv'
  <1>1. Moves(l, p, q, c, h)
    BY DEF Sets, Moves, Typed, LaunchInv, ValueInv, OwnerInv, FunctionInv
  <1> QED BY <1>1, MoveStep

LEMMA SameNotes == ASSUME LaunchInv, NEW l \in Launchers PROVE Notes(l, run[l])
  BY DEF LaunchInv, ValueInv, Notes

LEMMA Local ==
  ASSUME LaunchInv, NEW l \in Launchers
  PROVE  /\ NewInv(l) /\ ChildInv(l) /\ ClearedInv(l) /\ SeriesInv(l) /\ DOMAIN run[l] = Fields
         /\ at[l] \in Places /\ child[l] \in Children /\ heir[l] \in Heirs
  BY DEF LaunchInv, ValueInv, RowInv

(* What the world holds, the outputs, the staging files and the faults.    *)
LEMMA WorldStep == ASSUME Launch!LaunchAssumption, LaunchInv, Launch!Next PROVE World'
  <1> USE DEF Launch!LaunchAssumption, Launch!LaunchAssumption, LaunchInv, ValueInv,
              Launch!Fault, Launch!report, Launch!Goto
  <1>1. ASSUME NEW l \in Launchers, Launch!Start(l) \/ Launch!Inventory(l)
                 \/ Launch!Preflight(l) \/ Launch!Revalidate(l)
                                   \/ Launch!Reload(l) \/ Launch!Spawn(l)
                                        \/ Launch!WaitExecStop(l)
        PROVE  World'
    BY <1>1 DEF World, Launch!Start, Launch!Inventory, Launch!Preflight, Launch!Revalidate,
                Launch!Reload, Launch!Spawn, Launch!WaitExecStop
  <1>2. ASSUME NEW l \in Launchers, Launch!Stage(l) \/ Launch!Link(l) \/ Launch!LinkReceipt(l)
                 \/ Launch!Settle(l)
        PROVE  World'
    BY <1>2 DEF World, Launch!Stage, Launch!Link, Launch!LinkReceipt, Launch!Settle
  <1>3. ASSUME NEW l \in Launchers, Launch!Inspect(l) \/ Launch!Detach(l) \/ Launch!WaitRun(l)
                 \/ Launch!Clean(l)
                                   \/ Launch!ReapKilled(l) \/ Launch!Observe(l)
                                        \/ Launch!Drained(l) \/ Launch!Post(l)
        PROVE  World'
    BY <1>3 DEF World, Launch!Inspect, Launch!Detach, Launch!WaitRun, Launch!Clean,
                Launch!ReapKilled, Launch!Observe, Launch!Drained, Launch!Post
  <1>4. ASSUME NEW l \in Launchers, Launch!ChildExec(l) \/ Launch!Fork(l) \/ Launch!Exit(l)
                 \/ Launch!HeirExits(l)
                                   \/ Launch!TimeOut(l) \/ Launch!Interrupt(l)
                                        \/ Launch!Kill(l) \/ Launch!Exits(l)
        PROVE  World'
    BY <1>4 DEF World, Launch!ChildExec, Launch!Fork, Launch!Exit, Launch!HeirExits,
                Launch!TimeOut, Launch!Interrupt, Launch!Kill, Launch!Exits
  <1>5. ASSUME NEW l \in Launchers, Launch!Evaluate(l) PROVE World'
    BY <1>5 DEF World, Launch!Evaluate, Outputs
  <1>6. CASE Launch!Change
    <2>1. world' \in [Launch!Controls -> 0 .. 2]
      BY <1>6 DEF Launch!Change
    <2>2. output' \in [Launch!Repeats -> Outputs]
      BY <1>6 DEF Launch!Change, Outputs
    <2> QED BY <1>6, <2>1, <2>2 DEF World, Launch!Change
  <1>7. ~Launch!Reboot
    BY DEF Launch!Reboot
  <1> QED BY <1>1, <1>2, <1>3, <1>4, <1>5, <1>6, <1>7
     DEF Launch!Next, Launch!Step, Launch!Evaluator
-----------------------------------------------------------------------------
(* Until the evaluator is started.                                         *)

LEMMA StaysHere ==
  ASSUME OwnerInv, LaunchInv, NEW l \in Launchers, NEW p, p \in Places,
         at' = [at EXCEPT ![l] = p], UNCHANGED <<run, child, heir, receipt, spawned>>,
         Fits(l, p, run[l], child[l], heir[l]), World'
  PROVE  LaunchInv'
  <1>1. Sets(l, p, run[l], child[l], heir[l])
    BY Local DEF Sets
  <1> QED BY <1>1, SameNotes, SetsStep

LEMMA RefuseStep ==
  ASSUME OwnerInv, LaunchInv, NEW l \in Launchers, at[l] \in Launch!Before,
           at' = [at EXCEPT ![l] = "refused"],
         UNCHANGED <<run, child, heir, receipt, spawned>>, World'
  PROVE  LaunchInv'
  <1>1. Fits(l, "refused", run[l], child[l], heir[l])
    BY Local DEF NewInv, Unspawned, Launch!Before, Fits, Launch!Receipt, Settled, Launch!Ended
  <1> QED BY <1>1, StaysHere DEF Places, Launch!Ended

(* Whatever fails from here on, the launch says why.                       *)
Failing(l, p, why, c) ==
  /\ at[l] \in Launch!Guarded \cup Launch!Late /\ why # "none" /\ p \in {"clean", "r_stage"}
  /\ at' = [at EXCEPT ![l] = p] /\ run' = [run EXCEPT ![l] = [run[l] EXCEPT !.why = why]]
  /\ child' = [child EXCEPT ![l] = c] \/ (UNCHANGED child /\ c = child[l])
  /\ c = child[l] \/ (c = "gone" /\ child[l] = "bad")
  /\ UNCHANGED <<heir, receipt, spawned>>

LEMMA FailStep ==
  ASSUME OwnerInv, LaunchInv, NEW l \in Launchers, NEW p, NEW why, NEW c, Failing(l, p, why, c),
           World'
  PROVE  LaunchInv'
  <1> DEFINE q == [run[l] EXCEPT !.why = why]
  <1>1. /\ DOMAIN q = Fields /\ q.why = why /\ q.repeat = run[l].repeat
        /\ q.contract = run[l].contract /\ q.runtime = run[l].runtime
        /\ q.inspected = run[l].inspected /\ q.code = run[l].code
        /\ q.observed = run[l].observed
    BY Local DEF Fields
  <1>2. run' = [run EXCEPT ![l] = q]
    BY DEF Failing
  <1> HIDE DEF q
  <1>3. Sets(l, p, q, c, heir[l]) /\ Notes(l, q)
    BY <1>1, <1>2, Local DEF Failing, Sets, Notes, Places, Launch!Late, Launch!Receipt, Children
  <1>4. Fits(l, p, q, c, heir[l])
    BY <1>1, Local DEF Failing, ChildInv, SeriesInv, Unspawned, Launch!Before, Fits,
                       Launch!Receipt, Settled, Launch!Guarded, Launch!Late, Launch!Ended
  <1> QED BY <1>3, <1>4, SetsStep

LEMMA StartKeeps ==
  ASSUME OwnerInv, LaunchInv, NEW l \in Launchers, Launch!Start(l), World'
  PROVE  LaunchInv'
  <1>1. /\ at[l] = "idle" /\ at' = [at EXCEPT ![l] = "inventory"]
        /\ UNCHANGED <<child, heir, receipt, spawned>>
    BY DEF Launch!Start, Launch!Goto, Launch!report, Launch!processes
  <1>2. PICK k \in Launch!Repeats : run' = [run EXCEPT ![l] = [Launch!NoRun EXCEPT !.repeat = k,
                                                                    !.contract = Launch!Contract]]
    BY DEF Launch!Start, Launch!Keep
  <1> DEFINE q == [Launch!NoRun EXCEPT !.repeat = k, !.contract = Launch!Contract]
  <1>3. /\ DOMAIN q = Fields /\ q.contract = Launch!Contract /\ ~q.inspected /\ q.code = "none"
        /\ ~q.observed
    BY DEF Launch!NoRun, Fields
  <1>4. Launch!Contract \in Contracts
    BY DEF LaunchInv, ValueInv, Launch!Contract, Contracts, Launch!Controls, Launch!Recorded
  <1>5. run'[l] = q
    BY <1>2 DEF OwnerInv, FunctionInv
  <1> HIDE DEF q
  <1>6. ValueInv'
    BY <1>1, <1>2, <1>3, <1>4, <1>5
       DEF World, LaunchInv, ValueInv, Places, Launch!Before, OwnerInv, FunctionInv
  <1>7. ASSUME NEW m \in Launchers \ {l} PROVE RowInv(m)'
    <2>1. UNCHANGED <<run[m], at[m], child[m], heir[m], spawned[m], receipt>> /\ RowInv(m)
      BY <1>1, <1>2, <1>7 DEF LaunchInv, ValueInv, OwnerInv, FunctionInv
    <2>2. Agrees(m) => Agrees(m)'
      BY <2>1 DEF Agrees, Launch!Repeat
    <2> QED BY <2>1, <2>2 DEF RowInv, NewInv, ChildInv, ClearedInv, SeriesInv, Cleared,
                              Launch!Repeat
  <1>8. RowInv(l)'
    <2>1. at'[l] = "inventory" /\ child'[l] = "none" /\ heir'[l] = "none"
      BY <1>1, Local DEF NewInv, Unspawned, LaunchInv, ValueInv
    <2> QED BY <2>1, <1>3, <1>5 DEF RowInv, NewInv, ChildInv, ClearedInv, SeriesInv,
                                    Launch!Receipt
  <1>9. ReceiptInv'
    BY <1>1 DEF LaunchInv, ValueInv, ReceiptInv, Settled, Cleared
  <1> QED BY <1>6, <1>7, <1>8, <1>9 DEF LaunchInv

(* Exactly the earlier records, each agreeing with the one before it.      *)
LEMMA NamespaceAgrees ==
  ASSUME Launch!LaunchAssumption, LaunchInv, NEW l \in Launchers,
           Launch!Repeat(l) \in Launch!Repeats,
         Launch!Namespace(Launch!Repeat(l), run[l].contract),
         Launch!Bindings(Launch!Repeat(l)) = run[l].prior,
         \A j \in DOMAIN run[l].prior : run[l].prior[j][1] = run[l].runtime
  PROVE  Agrees(l)
  <1> SUFFICES ASSUME NEW j \in 1 .. Launch!Repeat(l) - 1
               PROVE  /\ receipt[j] # Launch!Absent /\ receipt[j].status = "validated"
                      /\ receipt[j].contract = run[l].contract
                      /\ receipt[j].runtime = run[l].runtime
                      /\ j > 1 => receipt[j].prior = receipt[j - 1].validation
    BY DEF Agrees
  <1>1. j \in Launch!Repeats /\ j < Launch!Repeat(l)
    BY DEF Launch!Repeats, Launch!LaunchAssumption, Launch!LaunchAssumption
  <1>2. Launch!RecordExact(j, run[l].contract)
    BY <1>1 DEF Launch!Namespace
  <1>3. /\ receipt[j] # Launch!Absent /\ receipt[j].status = "validated"
        /\ receipt[j].contract[1] = run[l].contract[1]
        /\ receipt[j].contract[2] = run[l].contract[2]
        /\ receipt[j].prior = IF j = 1 THEN <<>> ELSE receipt[j - 1].validation
    BY <1>2 DEF Launch!RecordExact, Launch!DetailsExact, Launch!PreflightExact
  <1>4. receipt[j].contract \in Contracts /\ run[l].contract \in Contracts
    BY <1>1, <1>3 DEF LaunchInv, ValueInv, ReceiptInv
  <1>5. receipt[j].contract = run[l].contract
    BY <1>3, <1>4 DEF Contracts
  <1>6. j \in DOMAIN run[l].prior
          /\ run[l].prior[j] = <<receipt[j].runtime, receipt[j].validation>>
    BY DEF Launch!Bindings
  <1>7. receipt[j].runtime = run[l].runtime
    BY <1>6
  <1> QED BY <1>3, <1>5, <1>7

LEMMA BeforeKeep ==
  ASSUME Launch!LaunchAssumption, OwnerInv, LaunchInv, NEW l \in Launchers, World',
         Launch!Inventory(l) \/ Launch!Preflight(l) \/ Launch!Revalidate(l) \/ Launch!Reload(l)
  PROVE  LaunchInv'
  <1>0. UNCHANGED <<child, heir, receipt, spawned>>
    BY DEF Launch!Inventory, Launch!Preflight, Launch!Revalidate, Launch!Reload,
           Launch!report, Launch!processes
  <1>1. ASSUME at[l] \in Launch!Before, Launch!Refuse(l) PROVE LaunchInv'
    BY <1>0, <1>1, RefuseStep DEF Launch!Refuse, Launch!Goto
  <1>2. ASSUME Launch!Inventory(l), ~Launch!Refuse(l) PROVE LaunchInv'
    <2> DEFINE q == [run[l] EXCEPT !.prior = Launch!Bindings(Launch!Repeat(l))]
    <2>1. /\ at[l] = "inventory" /\ at' = [at EXCEPT ![l] = "preflight"]
          /\ run' = [run EXCEPT ![l] = q]
      BY <1>2 DEF Launch!Inventory, Launch!Goto, Launch!Keep
    <2>2. /\ DOMAIN q = Fields /\ q.repeat = run[l].repeat /\ q.contract = run[l].contract
          /\ q.inspected = run[l].inspected /\ q.code = run[l].code
          /\ q.observed = run[l].observed
      BY Local DEF Fields
    <2> HIDE DEF q
    <2>3. Sets(l, "preflight", q, child[l], heir[l]) /\ Notes(l, q)
      BY <1>0, <2>1, <2>2, Local DEF Sets, Notes, Places, Launch!Before
    <2>4. Fits(l, "preflight", q, child[l], heir[l])
      BY <2>1, <2>2, Local DEF NewInv, Unspawned, Launch!Before, Fits, Launch!Receipt,
                               Settled, Launch!Ended
    <2> QED BY <2>3, <2>4, SetsStep
  <1>3. ASSUME Launch!Preflight(l), ~Launch!Refuse(l) PROVE LaunchInv'
    <2> DEFINE q == [run[l] EXCEPT !.runtime = world["runtime"]]
    <2>1. /\ at[l] = "preflight" /\ at' = [at EXCEPT ![l] = "revalidate"]
          /\ run' = [run EXCEPT ![l] = q]
          /\ \A j \in DOMAIN run[l].prior : run[l].prior[j][1] = world["runtime"]
      BY <1>3 DEF Launch!Preflight, Launch!Goto, Launch!Keep
    <2>2. /\ DOMAIN q = Fields /\ q.repeat = run[l].repeat /\ q.contract = run[l].contract
          /\ q.inspected = run[l].inspected /\ q.code = run[l].code
          /\ q.observed = run[l].observed /\ q.prior = run[l].prior
          /\ q.runtime = world["runtime"]
      BY Local DEF Fields
    <2> HIDE DEF q
    <2>3. Sets(l, "revalidate", q, child[l], heir[l]) /\ Notes(l, q)
      BY <1>0, <2>1, <2>2, Local DEF Sets, Notes, Places, Launch!Before
    <2>4. Fits(l, "revalidate", q, child[l], heir[l])
      BY <2>1, <2>2, Local DEF NewInv, Unspawned, Launch!Before, Fits, Launch!Receipt,
                               Settled, Launch!Ended
    <2> QED BY <2>3, <2>4, SetsStep
  <1>4. ASSUME Launch!Revalidate(l), ~Launch!Refuse(l) PROVE LaunchInv'
    <2>1. at[l] = "revalidate" /\ at' = [at EXCEPT ![l] = "reload"] /\ UNCHANGED run
      BY <1>4 DEF Launch!Revalidate, Launch!Goto
    <2>2. Fits(l, "reload", run[l], child[l], heir[l])
      BY <2>1, Local DEF NewInv, SeriesInv, Unspawned, Launch!Before, Fits, Launch!Receipt,
                         Settled, Launch!Ended
    <2> QED BY <1>0, <2>1, <2>2, StaysHere DEF Places, Launch!Before
  <1>5. ASSUME Launch!Reload(l), ~Launch!Refuse(l) PROVE LaunchInv'
    <2>1. /\ at[l] = "reload" /\ at' = [at EXCEPT ![l] = "stage"] /\ UNCHANGED run
          /\ Launch!Namespace(Launch!Repeat(l), run[l].contract)
               /\ Launch!Bindings(Launch!Repeat(l)) = run[l].prior
      BY <1>5 DEF Launch!Reload, Launch!Goto
    <2>2. Launch!Repeat(l) \in Launch!Repeats
      BY <2>1 DEF OwnerInv, MarkerInv
    <2>3. Agrees(l)
      BY <2>1, <2>2, Local, NamespaceAgrees DEF SeriesInv
    <2>4. Fits(l, "stage", run[l], child[l], heir[l])
      BY <2>1, <2>3, Local DEF NewInv, Unspawned, Launch!Before, Fits, Launch!Receipt,
                               Settled, Launch!Ended
    <2> QED BY <1>0, <2>1, <2>4, StaysHere DEF Places, Launch!Before
  <1>6. Launch!Refuse(l) => at[l] \in Launch!Before
    BY DEF Launch!Inventory, Launch!Preflight, Launch!Revalidate, Launch!Reload, Launch!Before
  <1> QED BY <1>1, <1>2, <1>3, <1>4, <1>5, <1>6

(* Publication of the marker and of the receipt.                           *)
LEMMA StageKeeps ==
  ASSUME OwnerInv, LaunchInv, NEW l \in Launchers, Launch!Stage(l), World' PROVE LaunchInv'
  <1>1. PICK p \in {Launch!After(at[l]), IF at[l] = "stage" THEN "refused" ELSE "failed"} :
          at' = [at EXCEPT ![l] = p]
    BY DEF Launch!Stage, Launch!Goto, Launch!Unpublished
  <1>2. at[l] \in {"stage", "r_stage"} /\ UNCHANGED <<run, child, heir, receipt, spawned>>
    BY DEF Launch!Stage, Launch!processes
  <1>3. \/ at[l] = "stage" /\ p \in {"link", "refused"}
        \/ at[l] = "r_stage" /\ p \in {"r_link", "failed"}
    BY <1>1, <1>2 DEF Launch!After
  <1>4. Fits(l, p, run[l], child[l], heir[l])
    <2>1. CASE at[l] = "stage"
      BY <1>3, <2>1, Local DEF NewInv, SeriesInv, Unspawned, Launch!Before, Fits,
                               Launch!Receipt, Settled, Launch!Ended
    <2>2. CASE at[l] = "r_stage"
      BY <1>3, <2>2, Local DEF ChildInv, ClearedInv, SeriesInv, Cleared, Launch!Repeat,
                               Unspawned, Launch!Before, Fits, Launch!Receipt, Settled,
                               Launch!Ended
    <2> QED BY <1>2, <2>1, <2>2
  <1> QED BY <1>1, <1>2, <1>3, <1>4, StaysHere DEF Places, Launch!Before, Launch!Receipt,
                                                   Launch!Ended

LEMMA SettleKeeps ==
  ASSUME OwnerInv, LaunchInv, NEW l \in Launchers, Launch!Settle(l), World' PROVE LaunchInv'
  <1>1. PICK p \in Places : at' = [at EXCEPT ![l] = p]
                            /\ \/ at[l] = "settle" /\ p \in {"spawn", "refused"}
                               \/ at[l] = "r_settle" /\ p \in {"done", "failed"}
    BY DEF Launch!Settle, Launch!Goto, Launch!Unpublished, Places, Launch!Guarded, Launch!Ended
  <1>2. UNCHANGED <<run, child, heir, receipt, spawned>>
    BY DEF Launch!Settle, Launch!processes
  <1>3. Fits(l, p, run[l], child[l], heir[l])
    <2>1. CASE at[l] = "settle"
      BY <1>1, <2>1, Local DEF NewInv, SeriesInv, Unspawned, Launch!Before, Fits,
                               Launch!Receipt, Settled, Launch!Ended
    <2>2. CASE at[l] = "r_settle"
      BY <1>1, <2>2, Local DEF ChildInv, ClearedInv, SeriesInv, Cleared, Unspawned,
                               Launch!Before, Fits, Launch!Receipt, Settled, Launch!Ended
    <2> QED BY <1>1, <2>1, <2>2
  <1> QED BY <1>1, <1>2, <1>3, StaysHere

LEMMA LinkKeeps ==
  ASSUME OwnerInv, LaunchInv, NEW l \in Launchers, Launch!Link(l), World' PROVE LaunchInv'
  <1>1. PICK p \in {"settle", "refused"} : at' = [at EXCEPT ![l] = p]
    BY DEF Launch!Link, Launch!Goto, Launch!Unpublished
  <1>2. at[l] = "link" /\ UNCHANGED <<run, child, heir, receipt, spawned>>
    BY DEF Launch!Link, Launch!processes
  <1>3. Fits(l, p, run[l], child[l], heir[l])
    BY <1>2, Local DEF NewInv, SeriesInv, Unspawned, Launch!Before, Fits, Launch!Receipt,
                       Settled, Launch!Ended
  <1> QED BY <1>1, <1>2, <1>3, StaysHere DEF Places, Launch!Before, Launch!Ended

(* A receipt has a name of its own, and says of its launch what is so.     *)
LEMMA LinkReceiptKeeps ==
  ASSUME Launch!LaunchAssumption, OwnerInv, LaunchInv, NEW l \in Launchers,
           Launch!LinkReceipt(l), World'
  PROVE  LaunchInv'
  <1> DEFINE k == Launch!Repeat(l)
             new == [by |-> l, status |-> Launch!Status(l), contract |-> run[l].contract,
                     runtime |-> run[l].runtime, inspected |-> run[l].inspected,
                     code |-> run[l].code, killed |-> run[l].killed,
                     observed |-> run[l].observed, echild |-> run[l].echild,
                     control |-> run[l].control,
                     prior |-> IF Launch!Repeat(l) = 1
                               THEN <<>> ELSE run[l].prior[Launch!Repeat(l) - 1][2],
                     validation |-> run[l].validation]
  <1>0. at[l] = "r_link" /\ k \in Launch!Repeats
    BY DEF Launch!LinkReceipt, OwnerInv, MarkerInv
  <1>1. CASE receipt[k] # Launch!Absent
    <2>1. at' = [at EXCEPT ![l] = "failed"] /\ UNCHANGED <<run, child, heir, receipt, spawned>>
      BY <1>0, <1>1 DEF Launch!LinkReceipt, Launch!Goto, Launch!Unpublished, Launch!processes
    <2>2. Fits(l, "failed", run[l], child[l], heir[l])
      BY <1>0, Local DEF ChildInv, SeriesInv, Unspawned, Launch!Before, Fits, Launch!Receipt,
                         Settled, Launch!Ended
    <2> QED BY <2>1, <2>2, StaysHere DEF Places, Launch!Ended
  <1>2. CASE receipt[k] = Launch!Absent
    <2>1. /\ at' = [at EXCEPT ![l] = "r_settle"] /\ receipt' = [receipt EXCEPT ![k] = new]
          /\ UNCHANGED <<run, child, heir, spawned>>
      BY <1>2 DEF Launch!LinkReceipt, Launch!Goto, Launch!processes
    <2>2. /\ new.by = l /\ new.status = Launch!Status(l) /\ new.contract = run[l].contract
          /\ new.validation = run[l].validation
      OBVIOUS
    <2> HIDE DEF new
    <2>3. receipt'[k] = new /\ \A j \in Launch!Repeats : receipt[j] # Launch!Absent
            => receipt'[j] = receipt[j]
      BY <1>0, <1>2, <2>1 DEF LaunchInv, ValueInv
    <2>4. ValueInv'
      BY <2>1 DEF World, LaunchInv, ValueInv, Places, Launch!Receipt
    <2>5. ReceiptInv'
      <3> SUFFICES ASSUME NEW i \in Launch!Repeats, receipt'[i] # Launch!Absent, NEW m,
                            m = receipt'[i].by
                   PROVE  /\ m \in Launchers /\ at'[m] \in Settled
                          /\ receipt'[i].contract \in Contracts
                          /\ receipt'[i].status = "validated" =>
                               /\ spawned'[m] = i
                               /\ child'[m] = "gone" /\ heir'[m] \in {"none", "gone"}
                               /\ receipt'[i].validation[i] \in {"a", "b"}
        BY DEF ReceiptInv, Cleared
      <3>1. CASE i = k
        <4>1. /\ receipt'[i].by = l /\ at'[l] = "r_settle"
              /\ receipt'[i].contract \in Contracts
          BY <2>1, <2>2, <2>3, <3>1 DEF LaunchInv, ValueInv
        <4>2. ASSUME Launch!Status(l) = "validated"
              PROVE  spawned[l] = k /\ Cleared(l) /\ run[l].validation[k] \in {"a", "b"}
          BY <1>0, <4>2, Local DEF Launch!Status, ClearedInv, ChildInv, Cleared,
                                   Launch!Receipt, Launch!Repeat
        <4> QED BY <2>1, <2>2, <2>3, <3>1, <4>1, <4>2 DEF Cleared, Settled
      <3>2. CASE i # k
        <4>1. receipt'[i] = receipt[i]
          BY <2>1, <3>2 DEF LaunchInv, ValueInv
        <4>2. /\ m = receipt[i].by /\ m \in Launchers /\ at[m] \in Settled
                   /\ receipt[i].contract \in Contracts
              /\ receipt[i].status = "validated" =>
                   spawned[m] = i /\ Cleared(m) /\ receipt[i].validation[i] \in {"a", "b"}
          BY <4>1 DEF LaunchInv, ReceiptInv
        <4>3. at'[m] = at[m]
          BY <1>0, <2>1, <4>2 DEF Settled, LaunchInv, ValueInv
        <4> QED BY <2>1, <4>1, <4>2, <4>3 DEF Cleared
      <3> QED BY <3>1, <3>2
    <2>6. ASSUME NEW m \in Launchers PROVE RowInv(m)'
      <3>1. ASSUME Agrees(m), Launch!Repeat(m) \in Launch!Repeats PROVE Agrees(m)'
        <4> SUFFICES ASSUME NEW j \in 1 .. Launch!Repeat(m) - 1
                     PROVE  receipt'[j] = receipt[j]
                              /\ (j > 1 => receipt'[j - 1] = receipt[j - 1])
          BY <2>1, <3>1 DEF Agrees, Launch!Repeat
        <4>1. j \in Launch!Repeats /\ receipt[j] # Launch!Absent
          BY <3>1 DEF Agrees, Launch!Repeats, Launch!LaunchAssumption, Launch!LaunchAssumption
        <4>2. ASSUME j > 1 PROVE j - 1 \in Launch!Repeats /\ receipt[j - 1] # Launch!Absent
          BY <3>1, <4>2 DEF Agrees, Launch!Repeats, Launch!LaunchAssumption,
                            Launch!LaunchAssumption
        <4> QED BY <2>3, <4>1, <4>2
      <3>2. at[m] # "idle" => Launch!Repeat(m) \in Launch!Repeats
        BY DEF OwnerInv, MarkerInv
      <3>3. SeriesInv(m)'
        BY <1>0, <2>1, <3>1, <3>2, Local
           DEF SeriesInv, ChildInv, LaunchInv, ValueInv
      <3>4. NewInv(m)' /\ ChildInv(m)' /\ ClearedInv(m)'
        BY <1>0, <2>1, Local DEF NewInv, ChildInv, ClearedInv, Unspawned, Launch!Before,
                                 Launch!Receipt, Cleared, Launch!Repeat, Launch!Ended,
                                 LaunchInv, ValueInv
      <3> QED BY <3>3, <3>4 DEF RowInv
    <2> QED BY <2>4, <2>5, <2>6 DEF LaunchInv
  <1> QED BY <1>1, <1>2

LEMMA SpawnKeeps ==
  ASSUME OwnerInv, LaunchInv, NEW l \in Launchers, Launch!Spawn(l), World' PROVE LaunchInv'
  <1>1. /\ at[l] = "spawn" /\ at' = [at EXCEPT ![l] = "exec"]
        /\ child' = [child EXCEPT ![l] = "setup"]
        /\ spawned' = [spawned EXCEPT ![l] = Launch!Repeat(l)]
        /\ UNCHANGED <<run, heir, receipt>>
    BY DEF Launch!Spawn, Launch!Goto, Launch!report
  <1>2. ValueInv'
    BY <1>1 DEF World, LaunchInv, ValueInv, Places, Launch!Guarded, Children
  <1>3. ASSUME NEW m \in Launchers PROVE Agrees(m)' = Agrees(m)
    BY <1>1 DEF Agrees, Launch!Repeat
  <1>4. ASSUME NEW m \in Launchers \ {l} PROVE RowInv(m)'
    <2>1. UNCHANGED <<run[m], at[m], child[m], heir[m], spawned[m], receipt>> /\ RowInv(m)
      BY <1>1, <1>4 DEF LaunchInv, ValueInv, OwnerInv, FunctionInv
    <2> QED BY <1>3, <2>1 DEF RowInv, NewInv, ChildInv, ClearedInv, SeriesInv, Cleared,
                              Launch!Repeat
  <1>5. RowInv(l)'
    <2>1. /\ at'[l] = "exec" /\ child'[l] = "setup" /\ spawned'[l] = Launch!Repeat(l)
          /\ heir'[l] = "none" /\ run'[l] = run[l] /\ run[l].code = "none"
      BY <1>1, Local DEF NewInv, Unspawned, LaunchInv, ValueInv, OwnerInv, FunctionInv
    <2>2. Launch!Repeat(l) \in Launch!Repeats /\ Agrees(l)
      BY <1>1, Local DEF OwnerInv, MarkerInv, SeriesInv
    <2> QED BY <2>1, <2>2, <1>3 DEF RowInv, NewInv, ChildInv, ClearedInv, SeriesInv,
                                    Launch!Receipt, Unspawned, Launch!Before, Launch!Repeat
  <1>6. ReceiptInv'
    <2>1. \A m \in Launchers : at[m] \in Settled => m # l
      BY <1>1 DEF Settled
    <2> QED BY <1>1, <2>1 DEF LaunchInv, ValueInv, ReceiptInv, Cleared, OwnerInv, FunctionInv
  <1> QED BY <1>2, <1>4, <1>5, <1>6 DEF LaunchInv

-----------------------------------------------------------------------------
(* The evaluator runs.                                                     *)

LEMMA WaitKeeps ==
  ASSUME OwnerInv, LaunchInv, NEW l \in Launchers, Launch!WaitExecStop(l) \/ Launch!TimeOut(l)
           \/ Launch!Detach(l), World'
  PROVE  LaunchInv'
  <1>1. UNCHANGED <<heir, receipt, spawned>>
    BY DEF Launch!WaitExecStop, Launch!TimeOut, Launch!Detach, Launch!report, Launch!processes
  <1>2. ASSUME NEW why \in {"setup", "timeout", "detach"}, Launch!Fails(l, why),
               NEW c \in {child[l], "gone"}, at[l] \in Launch!Guarded,
               child' = [child EXCEPT ![l] = c] \/ (UNCHANGED child /\ c = child[l]),
               c = child[l] \/ (c = "gone" /\ child[l] = "bad")
        PROVE  LaunchInv'
    <2>1. Failing(l, "clean", why, c)
      BY <1>1, <1>2 DEF Launch!Fails, Launch!Goto, Launch!Keep, Failing
    <2> QED BY <2>1, FailStep
  <1>3. CASE Launch!TimeOut(l)
    BY <1>2, <1>3 DEF Launch!TimeOut, Launch!processes, Launch!Guarded
  <1>4. CASE Launch!WaitExecStop(l)
    <2>1. CASE child[l] = "bad"
      BY <1>2, <1>4, <2>1 DEF Launch!WaitExecStop, Launch!Guarded
    <2>2. CASE child[l] # "bad"
      <3>1. at[l] = "exec" /\ at' = [at EXCEPT ![l] = "inspect"] /\ UNCHANGED <<run, child>>
        BY <1>4, <2>2 DEF Launch!WaitExecStop, Launch!Goto
      <3>2. Fits(l, "inspect", run[l], child[l], heir[l])
        BY <3>1, Local DEF ChildInv, SeriesInv, Unspawned, Launch!Before, Fits,
                           Launch!Receipt, Settled, Launch!Ended
      <3> QED BY <1>1, <3>1, <3>2, StaysHere DEF Places, Launch!Guarded
    <2> QED BY <2>1, <2>2
  <1>5. CASE Launch!Detach(l)
    <2>1. CASE child[l] # "held"
      BY <1>2, <1>5, <2>1 DEF Launch!Detach, Launch!Guarded
    <2>2. CASE child[l] = "held"
      <3>1. /\ at[l] = "detach" /\ at' = [at EXCEPT ![l] = "run"] /\ UNCHANGED run
            /\ child' = [child EXCEPT ![l] = "running"]
        BY <1>5, <2>2 DEF Launch!Detach, Launch!Goto
      <3>2. Sets(l, "run", run[l], "running", heir[l])
        BY <1>1, <3>1, Local DEF Sets, Places, Launch!Guarded, Children
      <3>3. Fits(l, "run", run[l], "running", heir[l])
        BY <2>2, <3>1, Local DEF ChildInv, SeriesInv, Unspawned, Launch!Before, Fits,
                                 Launch!Receipt, Settled, Launch!Ended
      <3> QED BY <3>2, <3>3, SameNotes, SetsStep
    <2> QED BY <2>1, <2>2
  <1> QED BY <1>3, <1>4, <1>5

LEMMA InspectKeeps ==
  ASSUME OwnerInv, LaunchInv, NEW l \in Launchers, Launch!Inspect(l), World' PROVE LaunchInv'
  <1>1. at[l] = "inspect" /\ UNCHANGED <<child, heir, receipt, spawned>>
    BY DEF Launch!Inspect, Launch!report, Launch!processes
  <1>2. CASE Launch!Fails(l, "inspection")
    <2>1. Failing(l, "clean", "inspection", child[l])
      BY <1>1, <1>2 DEF Launch!Fails, Launch!Goto, Launch!Keep, Launch!Guarded, Failing
    <2> QED BY <2>1, FailStep
  <1>3. CASE ~Launch!Fails(l, "inspection")
    <2> DEFINE q == [run[l] EXCEPT !.inspected = TRUE]
    <2>1. at' = [at EXCEPT ![l] = "detach"] /\ run' = [run EXCEPT ![l] = q]
      BY <1>3 DEF Launch!Inspect, Launch!Goto, Launch!Keep
    <2>2. /\ DOMAIN q = Fields /\ q.repeat = run[l].repeat /\ q.contract = run[l].contract
          /\ q.runtime = run[l].runtime /\ q.code = run[l].code /\ q.inspected
          /\ q.observed = run[l].observed
      BY Local DEF Fields
    <2> HIDE DEF q
    <2>3. Sets(l, "detach", q, child[l], heir[l]) /\ Notes(l, q)
      BY <1>1, <2>1, <2>2, Local DEF Sets, Notes, Places, Launch!Guarded
    <2>4. Fits(l, "detach", q, child[l], heir[l])
      BY <1>1, <2>2, Local DEF ChildInv, SeriesInv, Unspawned, Launch!Before, Fits,
                               Launch!Receipt, Settled, Launch!Ended
    <2> QED BY <2>3, <2>4, SetsStep
  <1> QED BY <1>2, <1>3

(* The direct child is reaped, by itself or killed.                        *)
LEMMA ReapKeeps ==
  ASSUME OwnerInv, LaunchInv, NEW l \in Launchers, Launch!WaitRun(l)
           \/ Launch!ReapKilled(l), World'
  PROVE  LaunchInv'
  <1>1. at[l] \in {"run", "reap"} /\ at' = [at EXCEPT ![l] = "drain"]
        /\ UNCHANGED <<heir, receipt, spawned>>
    BY DEF Launch!WaitRun, Launch!ReapKilled, Launch!Goto, Launch!report
  <1>2. CASE UNCHANGED <<run, child>>
    <2>1. Fits(l, "drain", run[l], child[l], heir[l])
      BY <1>1, Local DEF ChildInv, SeriesInv, Unspawned, Launch!Before, Fits, Launch!Receipt,
                         Settled, Launch!Ended
    <2> QED BY <1>1, <1>2, <2>1, StaysHere DEF Places, Launch!Late
  <1>3. CASE ~UNCHANGED <<run, child>>
    <2> DEFINE q == [run[l] EXCEPT !.code = child[l]]
    <2>1. /\ child[l] \in {"zero", "bad"} /\ child' = [child EXCEPT ![l] = "gone"]
          /\ run' = [run EXCEPT ![l] = q]
      BY <1>3 DEF Launch!WaitRun, Launch!ReapKilled, Launch!Reap, Launch!Keep
    <2>2. /\ DOMAIN q = Fields /\ q.repeat = run[l].repeat /\ q.contract = run[l].contract
          /\ q.runtime = run[l].runtime /\ q.inspected = run[l].inspected
          /\ q.observed = run[l].observed
      BY Local DEF Fields
    <2> HIDE DEF q
    <2>3. Sets(l, "drain", q, "gone", heir[l]) /\ Notes(l, q)
      BY <1>1, <2>1, <2>2, Local DEF Sets, Notes, Places, Launch!Late, Children
    <2>4. Fits(l, "drain", q, "gone", heir[l])
      BY <1>1, <2>1, <2>2, Local DEF ChildInv, SeriesInv, Unspawned, Launch!Before, Fits,
                                     Launch!Receipt, Settled, Launch!Ended
    <2> QED BY <2>3, <2>4, SetsStep
  <1> QED BY <1>2, <1>3

LEMMA CleanKeeps ==
  ASSUME OwnerInv, LaunchInv, NEW l \in Launchers, Launch!Clean(l), World' PROVE LaunchInv'
  <1>1. at[l] = "clean" /\ UNCHANGED <<receipt, spawned>>
    BY DEF Launch!Clean, Launch!report
  <1>2. CASE child[l] \in {"none", "gone"}
    <2>1. at' = [at EXCEPT ![l] = "drain"] /\ UNCHANGED <<run, child, heir>>
      BY <1>2 DEF Launch!Clean, Launch!Goto, Launch!processes
    <2>2. Fits(l, "drain", run[l], child[l], heir[l])
      BY <1>1, Local DEF ChildInv, SeriesInv, Unspawned, Launch!Before, Fits, Launch!Receipt,
                         Settled, Launch!Ended
    <2> QED BY <1>1, <2>1, <2>2, StaysHere DEF Places, Launch!Late
  <1>3. CASE child[l] \notin {"none", "gone"}
    <2> DEFINE q == [run[l] EXCEPT !.killed = TRUE]
               c == IF child[l] \in {"zero", "bad"} THEN child[l] ELSE "bad"
    <2>1. /\ at' = [at EXCEPT ![l] = "reap"] /\ run' = [run EXCEPT ![l] = q]
          /\ child' = [child EXCEPT ![l] = c] /\ heir' = [heir EXCEPT ![l] = Launch!Orphan(l)]
      BY <1>3 DEF Launch!Clean, Launch!Goto, Launch!Keep, LaunchInv, ValueInv
    <2>2. /\ DOMAIN q = Fields /\ q.repeat = run[l].repeat /\ q.contract = run[l].contract
          /\ q.runtime = run[l].runtime /\ q.code = run[l].code
          /\ q.inspected = run[l].inspected /\ q.observed = run[l].observed
      BY Local DEF Fields
    <2>3. \/ heir[l] = "alive" /\ Launch!Orphan(l) = "adopted"
          \/ heir[l] = "unreaped" /\ Launch!Orphan(l) = "zombie"
          \/ heir[l] \notin {"alive", "unreaped"} /\ Launch!Orphan(l) = heir[l]
      BY <1>1 DEF Launch!Orphan
    <2>4. c \in {"zero", "bad"}
      OBVIOUS
    <2> HIDE DEF q, c
    <2>5. Sets(l, "reap", q, c, Launch!Orphan(l)) /\ Notes(l, q)
      BY <1>1, <2>1, <2>2, <2>3, <2>4, Local DEF Sets, Notes, Places, Launch!Late, Children, Heirs
    <2>6. Fits(l, "reap", q, c, Launch!Orphan(l))
      BY <1>1, <1>3, <2>2, <2>3, <2>4, Local DEF ChildInv, SeriesInv, Unspawned,
                                                 Launch!Before, Fits, Launch!Receipt, Settled,
                                                 Launch!Ended
    <2> QED BY <2>5, <2>6, SetsStep
  <1> QED BY <1>2, <1>3

LEMMA ObserveKeeps ==
  ASSUME OwnerInv, LaunchInv, NEW l \in Launchers, Launch!Observe(l), World' PROVE LaunchInv'
  <1> DEFINE q == [run[l] EXCEPT !.observed = TRUE]
             h == IF heir[l] = "adopted" THEN "zombie" ELSE "reaped"
  <1>1. /\ at[l] = "drain" /\ heir[l] \in {"adopted", "zombie"}
        /\ run' = [run EXCEPT ![l] = q] /\ heir' = [heir EXCEPT ![l] = h]
        /\ UNCHANGED <<at, child, receipt, spawned>>
    BY DEF Launch!Observe, Launch!Keep, Launch!report, LaunchInv, ValueInv
  <1>2. /\ DOMAIN q = Fields /\ q.repeat = run[l].repeat /\ q.contract = run[l].contract
        /\ q.runtime = run[l].runtime /\ q.code = run[l].code
        /\ q.inspected = run[l].inspected /\ q.observed
    BY Local DEF Fields
  <1>3. h \in {"zombie", "reaped"}
    OBVIOUS
  <1> HIDE DEF q, h
  <1>4. Sets(l, at[l], q, child[l], h) /\ Notes(l, q)
    BY <1>1, <1>2, <1>3, Local DEF Sets, Notes, Heirs
  <1>5. Fits(l, at[l], q, child[l], h)
    BY <1>1, <1>2, <1>3, Local DEF ChildInv, SeriesInv, Unspawned, Launch!Before, Fits,
                                   Launch!Receipt, Settled, Launch!Ended
  <1> QED BY <1>4, <1>5, SetsStep

(* ECHILD, with nothing observed and an exit code of zero, means that      *)
(* nothing is left.                                                        *)
LEMMA DrainedKeeps ==
  ASSUME OwnerInv, LaunchInv, NEW l \in Launchers, Launch!Drained(l), World' PROVE LaunchInv'
  <1>1. at[l] = "drain" /\ UNCHANGED <<child, heir, receipt, spawned>>
    BY DEF Launch!Drained, Launch!report, Launch!processes
  <1>2. CASE ~Launch!Ready(l)
    <2>1. run' = [run EXCEPT ![l] = [run[l] EXCEPT !.why = "cleanup"]]
      BY <1>2 DEF Launch!Drained, Launch!Keep
    <2>2. run'[l].why = "cleanup"
      BY <2>1, Local DEF Fields, OwnerInv, FunctionInv
    <2>3. at' = [at EXCEPT ![l] = "r_stage"]
      BY <2>2 DEF Launch!Drained, Launch!Goto
    <2>4. Failing(l, "r_stage", "cleanup", child[l])
      BY <1>1, <2>1, <2>3 DEF Launch!Late, Failing
    <2> QED BY <2>4, FailStep
  <1>3. CASE Launch!Ready(l)
    <2> DEFINE q == [run[l] EXCEPT !.echild = TRUE, !.why = Launch!Outcome(l)]
    <2>1. run' = [run EXCEPT ![l] = q]
      BY <1>3 DEF Launch!Drained, Launch!Keep
    <2>2. /\ DOMAIN q = Fields /\ q.repeat = run[l].repeat /\ q.contract = run[l].contract
          /\ q.runtime = run[l].runtime /\ q.code = run[l].code
          /\ q.inspected = run[l].inspected /\ q.observed = run[l].observed
          /\ q.why = Launch!Outcome(l)
      BY Local DEF Fields
    <2>3. run'[l] = q
      BY <2>1 DEF OwnerInv, FunctionInv
    <2> HIDE DEF q
    <2>4. PICK p \in {"post", "r_stage"} : /\ at' = [at EXCEPT ![l] = p]
                                           /\ p = "r_stage" => q.why # "none"
      BY <2>3 DEF Launch!Drained, Launch!Goto
    <2>5. p = "post" => q.why = "none"
      BY <2>3, <2>4, Local DEF Launch!Drained, Launch!Goto, LaunchInv, ValueInv
    <2>6. q.why = "none" => ~run[l].observed /\ run[l].code = "zero"
      BY <2>2 DEF Launch!Outcome
    <2>7. q.why = "none" => child[l] = "gone" /\ heir[l] \in {"none", "gone"}
      BY <1>1, <1>3, <2>6, Local DEF Launch!Ready, ChildInv, Launch!Ended, Heirs
    <2>8. Sets(l, p, q, child[l], heir[l]) /\ Notes(l, q)
      BY <1>1, <2>1, <2>2, <2>4, Local DEF Sets, Notes, Places, Launch!Late, Launch!Receipt
    <2>9. Fits(l, p, q, child[l], heir[l])
      BY <1>1, <2>2, <2>4, <2>5, <2>7, Local DEF ChildInv, SeriesInv, Unspawned,
                                                 Launch!Before, Fits, Launch!Receipt, Settled,
                                                 Launch!Ended
    <2> QED BY <2>8, <2>9, SetsStep
  <1> QED BY <1>2, <1>3

LEMMA PostKeeps ==
  ASSUME OwnerInv, LaunchInv, NEW l \in Launchers, Launch!Post(l), World' PROVE LaunchInv'
  <1>1. /\ at[l] = "post" /\ at' = [at EXCEPT ![l] = "r_stage"]
        /\ UNCHANGED <<child, heir, receipt, spawned>>
    BY DEF Launch!Post, Launch!Goto, Launch!report, Launch!processes
  <1>2. Launch!Repeat(l) \in Launch!Repeats
    BY <1>1 DEF OwnerInv, MarkerInv
  <1>3. ASSUME run' = [run EXCEPT ![l] = [run[l] EXCEPT !.why = "control"]] PROVE LaunchInv'
    <2>1. Failing(l, "r_stage", "control", child[l])
      BY <1>1, <1>3 DEF Launch!Late, Failing
    <2> QED BY <2>1, FailStep
  <1>4. ASSUME run' = [run EXCEPT ![l] = [run[l] EXCEPT !.control = TRUE, !.why = "validation"]]
        PROVE  LaunchInv'
    <2> DEFINE q == [run[l] EXCEPT !.control = TRUE, !.why = "validation"]
    <2>1. /\ DOMAIN q = Fields /\ q.repeat = run[l].repeat /\ q.contract = run[l].contract
          /\ q.runtime = run[l].runtime /\ q.code = run[l].code
          /\ q.inspected = run[l].inspected /\ q.observed = run[l].observed
          /\ q.why = "validation"
      BY Local DEF Fields
    <2>2. run' = [run EXCEPT ![l] = q]
      BY <1>4
    <2> HIDE DEF q
    <2>3. Sets(l, "r_stage", q, child[l], heir[l]) /\ Notes(l, q)
      BY <1>1, <2>1, <2>2, Local DEF Sets, Notes, Places, Launch!Receipt
    <2>4. Fits(l, "r_stage", q, child[l], heir[l])
      BY <1>1, <2>1, Local DEF ChildInv, SeriesInv, Unspawned, Launch!Before, Fits,
                               Launch!Receipt, Settled, Launch!Ended
    <2> QED BY <2>3, <2>4, SetsStep
  <1>5. ASSUME Launch!Validates(Launch!Repeat(l)),
               run' = [run EXCEPT ![l] = [run[l] EXCEPT !.control = TRUE,
                                                        !.validation = Launch!Validation(Launch!Repeat(l))]]
        PROVE  LaunchInv'
    <2> DEFINE q == [run[l] EXCEPT !.control = TRUE,
        !.validation = Launch!Validation(Launch!Repeat(l))]
    <2>1. /\ DOMAIN q = Fields /\ q.repeat = run[l].repeat /\ q.contract = run[l].contract
          /\ q.runtime = run[l].runtime /\ q.code = run[l].code
          /\ q.inspected = run[l].inspected /\ q.observed = run[l].observed
          /\ q.validation = Launch!Validation(Launch!Repeat(l))
      BY Local DEF Fields
    <2>2. run' = [run EXCEPT ![l] = q]
      BY <1>5
    <2> HIDE DEF q
    <2>3. q.validation[q.repeat] \in {"a", "b"}
      <3>1. Launch!Repeat(l) \in 1 .. Launch!Repeat(l)
        BY <1>2 DEF Launch!Repeats
      <3>2. output[Launch!Repeat(l)] \in {"a", "b"}
        BY <1>5, <3>1 DEF Launch!Validates
      <3> QED BY <2>1, <3>1, <3>2 DEF Launch!Validation, Launch!Repeat
    <2>4. Sets(l, "r_stage", q, child[l], heir[l]) /\ Notes(l, q)
      BY <1>1, <2>1, <2>2, Local DEF Sets, Notes, Places, Launch!Receipt
    <2>5. Fits(l, "r_stage", q, child[l], heir[l])
      BY <1>1, <2>1, <2>3, Local DEF ChildInv, ClearedInv, Cleared, SeriesInv, Unspawned,
                                     Launch!Before, Fits, Launch!Receipt, Settled,
                                     Launch!Ended
    <2> QED BY <2>4, <2>5, SetsStep
  <1> QED BY <1>3, <1>4, <1>5 DEF Launch!Post, Launch!Keep

-----------------------------------------------------------------------------
(* The evaluator and what it leaves, faults, and the whole step.           *)

LEMMA EvaluatorKeeps ==
  ASSUME OwnerInv, LaunchInv, NEW l \in Launchers, Launch!Evaluator(l), World' PROVE LaunchInv'
  <1>1. UNCHANGED <<at, run, receipt, spawned>>
    BY DEF Launch!Evaluator, Launch!ChildExec, Launch!Fork, Launch!Evaluate, Launch!Exit,
           Launch!HeirExits, Launch!report
  <1>2. ASSUME NEW c \in Children, NEW h \in Heirs,
               child' = [child EXCEPT ![l] = c] \/ (UNCHANGED child /\ c = child[l]),
               heir' = [heir EXCEPT ![l] = h] \/ (UNCHANGED heir /\ h = heir[l]),
               Fits(l, at[l], run[l], c, h)
        PROVE  LaunchInv'
    <2>1. Sets(l, at[l], run[l], c, h)
      BY <1>1, <1>2, Local DEF Sets
    <2> QED BY <1>2, <2>1, SameNotes, SetsStep
  <1> USE Local DEF NewInv, ChildInv, ClearedInv, SeriesInv, Cleared, Launch!Repeat,
                    Unspawned, Launch!Before, Fits, Launch!Receipt, Settled, Launch!Ended
  <1>3. CASE Launch!ChildExec(l)
    <2>1. PICK c \in {"held", "bad", "gone"} :
            child' = [child EXCEPT ![l] = c] /\ (at[l] = "dead" => c = "gone")
      BY <1>3 DEF Launch!ChildExec
    <2>2. child[l] = "setup" /\ UNCHANGED heir
      BY <1>3 DEF Launch!ChildExec
    <2>3. Fits(l, at[l], run[l], c, heir[l])
      BY <2>1, <2>2
    <2> QED BY <1>2, <2>1, <2>2, <2>3 DEF Children
  <1>4. CASE Launch!Fork(l)
    <2>1. child[l] = "running" /\ heir' = [heir EXCEPT ![l] = "alive"] /\ UNCHANGED child
      BY <1>4 DEF Launch!Fork
    <2>2. Fits(l, at[l], run[l], child[l], "alive")
      BY <2>1
    <2> QED BY <1>2, <2>1, <2>2 DEF Heirs
  <1>5. CASE Launch!Evaluate(l)
    <2>1. UNCHANGED <<child, heir>>
      BY <1>5 DEF Launch!Evaluate, Launch!processes
    <2>2. Fits(l, at[l], run[l], child[l], heir[l])
      OBVIOUS
    <2> QED BY <1>2, <2>1, <2>2
  <1>6. CASE Launch!Exit(l)
    <2>1. PICK c \in {"zero", "bad"} : child' = [child EXCEPT ![l] = c]
      BY <1>6 DEF Launch!Exit
    <2>2. child[l] = "running" /\ heir' = [heir EXCEPT ![l] = Launch!Orphan(l)] /\ at[l] # "dead"
      BY <1>6 DEF Launch!Exit
    <2>3. \/ heir[l] = "alive" /\ Launch!Orphan(l) = "adopted"
          \/ heir[l] = "unreaped" /\ Launch!Orphan(l) = "zombie"
          \/ heir[l] \notin {"alive", "unreaped"} /\ Launch!Orphan(l) = heir[l]
      BY <2>2 DEF Launch!Orphan
    <2>4. Fits(l, at[l], run[l], c, Launch!Orphan(l))
      BY <2>1, <2>2, <2>3
    <2>5. c \in Children /\ Launch!Orphan(l) \in Heirs
      BY <2>3 DEF Children, Heirs
    <2> QED BY <1>2, <2>1, <2>2, <2>4, <2>5
  <1>7. CASE Launch!HeirExits(l)
    <2>1. PICK h \in {"gone", "unreaped", "zombie"} :
            /\ heir' = [heir EXCEPT ![l] = h]
            /\ h = "unreaped" => heir[l] = "alive"
      BY <1>7 DEF Launch!HeirExits
    <2>2. heir[l] \in {"alive", "adopted", "orphan"} /\ UNCHANGED child
      BY <1>7 DEF Launch!HeirExits
    <2>3. Fits(l, at[l], run[l], child[l], h)
      BY <2>1, <2>2
    <2> QED BY <1>2, <2>1, <2>2, <2>3 DEF Heirs
  <1> QED BY <1>3, <1>4, <1>5, <1>6, <1>7 DEF Launch!Evaluator

LEMMA InterruptKeeps ==
  ASSUME OwnerInv, LaunchInv, NEW l \in Launchers, Launch!Interrupt(l), World' PROVE LaunchInv'
  <1>1. UNCHANGED <<child, heir, receipt, spawned>>
    BY DEF Launch!Interrupt, Launch!processes
  <1>2. CASE at[l] \in Launch!Before /\ Launch!Refuse(l)
    BY <1>1, <1>2, RefuseStep DEF Launch!Refuse, Launch!Goto
  <1>3. CASE at[l] \in Launch!Guarded \cup {"drain"} /\ Launch!Fails(l, "interrupt")
    <2>1. Failing(l, "clean", "interrupt", child[l])
      BY <1>1, <1>3 DEF Failing, Launch!Fails, Launch!Goto, Launch!Keep, Launch!Late
    <2> QED BY <2>1, FailStep
  <1>4. CASE /\ at[l] \in Launch!Late \cup {"exec"}
             /\ Launch!Keep(l, [run[l] EXCEPT !.why = "interrupt"]) /\ Launch!Goto(l, "r_stage")
    <2>1. Failing(l, "r_stage", "interrupt", child[l])
      BY <1>1, <1>4 DEF Failing, Launch!Goto, Launch!Keep, Launch!Guarded
    <2> QED BY <2>1, FailStep
  <1>5. CASE at[l] \in Launch!Receipt /\ Launch!Goto(l, "failed") /\ UNCHANGED run
    <2>1. Fits(l, "failed", run[l], child[l], heir[l])
      BY <1>5, Local DEF ChildInv, SeriesInv, Cleared, Unspawned, Launch!Before, Fits,
                         Launch!Receipt, Settled, Launch!Ended
    <2> QED BY <1>1, <1>5, <2>1, StaysHere DEF Launch!Goto, Places, Launch!Ended
  <1> QED BY <1>2, <1>3, <1>4, <1>5 DEF Launch!Interrupt

LEMMA KillKeeps ==
  ASSUME OwnerInv, LaunchInv, NEW l \in Launchers, Launch!Kill(l) \/ Launch!Exits(l), World'
  PROVE  LaunchInv'
  <1>1. UNCHANGED <<run, receipt, spawned>>
    BY DEF Launch!Kill, Launch!Exits, Launch!report
  <1>2. PICK c \in {child[l], "gone"} : /\ child' = [child EXCEPT ![l] = c]
                                        /\ Launch!Kill(l) => c \in {"none", "setup", "gone"}
                                        /\ c = "none" <=> child[l] = "none"
    <2>1. CASE Launch!Kill(l)
      BY <2>1, Local DEF Launch!Kill, Launch!Leaves, Children, LaunchInv, ValueInv
    <2>2. CASE Launch!Exits(l)
      <3>1. child[l] # "none"
        BY <2>2, Local DEF Launch!Exits, ChildInv
      <3> QED BY <2>2, <3>1 DEF Launch!Exits, Launch!Kill
    <2> QED BY <2>1, <2>2
  <1>3. PICK h \in {heir[l], "orphan", "gone"} :
          /\ heir' = [heir EXCEPT ![l] = h]
          /\ h = "orphan" => heir[l] \in {"alive", "adopted"}
          /\ h \in {"orphan", "none", "gone"} /\ (h = "none" <=> heir[l] = "none")
    BY DEF Launch!Kill, Launch!Leaves, Launch!Exits, LaunchInv, ValueInv
  <1>4. PICK p \in {"dead", at[l]} :
          /\ p \in Launch!Ended /\ (p # at[l] => p = "dead" /\ at[l] \notin Launch!Ended)
          /\ at' = [at EXCEPT ![l] = p] \/ (UNCHANGED at /\ p = at[l])
          /\ p = "dead" => Launch!Kill(l)
    BY DEF Launch!Kill, Launch!Exits, Launch!Goto, Launch!Ended
  <1>5. Launch!Exits(l) => child[l] # "none"
    BY Local DEF Launch!Exits, ChildInv
  <1>6. Fits(l, p, run[l], c, h)
    BY <1>2, <1>3, <1>4, <1>5, Local DEF ChildInv, SeriesInv, Cleared, Unspawned,
                                         Launch!Before, Fits, Launch!Receipt, Settled,
                                         Launch!Ended
  <1>7. Sets(l, p, run[l], c, h)
    BY <1>1, <1>2, <1>3, <1>4, Local DEF Sets, Places, Children, Heirs
  <1> QED BY <1>6, <1>7, SameNotes, SetsStep

LEMMA LaunchKept ==
  ASSUME LaunchInv, World', UNCHANGED <<at, run, child, heir, receipt, spawned>>
  PROVE  LaunchInv'
  <1>1. ASSUME NEW l \in Launchers PROVE RowInv(l)'
    BY Local DEF RowInv, NewInv, ChildInv, ClearedInv, SeriesInv, Cleared, Launch!Repeat, Agrees
  <1>2. ValueInv' /\ ReceiptInv'
    BY DEF LaunchInv, ValueInv, ReceiptInv, World, Cleared
  <1> QED BY <1>1, <1>2 DEF LaunchInv

LEMMA LaunchInit == ASSUME Launch!LaunchAssumption, Launch!Init PROVE LaunchInv
  <1>1. DOMAIN Launch!NoRun = Fields /\ Launch!NoRun.contract \in Contracts
          /\ ~Launch!NoRun.inspected
        /\ Launch!NoRun.code = "none" /\ ~Launch!NoRun.observed
    BY DEF Launch!NoRun, Fields, Contracts
  <1>2. ValueInv
    <2>1. world \in [Launch!Controls -> 0 .. 2] /\ output \in [Launch!Repeats -> Outputs]
            /\ litter \subseteq Launchers
      BY DEF Launch!Init, Outputs
    <2>2. at \in [Launchers -> Places] /\ child \in [Launchers -> Children]
          /\ heir \in [Launchers -> Heirs]
      BY DEF Launch!Init, Places, Children, Heirs
    <2>3. launch_faults \in 0 .. MaxLaunchFaults
      BY DEF Launch!Init, Launch!LaunchAssumption, Launch!LaunchAssumption
    <2> QED BY <1>1, <2>1, <2>2, <2>3 DEF Launch!Init, ValueInv
  <1>3. ReceiptInv
    BY DEF Launch!Init, ReceiptInv
  <1>4. ASSUME NEW l \in Launchers PROVE RowInv(l)
    <2>1. at[l] = "idle" /\ child[l] = "none" /\ heir[l] = "none" /\ run[l] = Launch!NoRun
      BY DEF Launch!Init
    <2> QED BY <1>1, <2>1 DEF RowInv, NewInv, ChildInv, ClearedInv, SeriesInv, Launch!Receipt
  <1> QED BY <1>2, <1>3, <1>4 DEF LaunchInv

LEMMA LaunchStep ==
  ASSUME Launch!LaunchAssumption, OwnerInv, LaunchInv, [Launch!Next]_Launch!vars
  PROVE  LaunchInv'
  <1>1. CASE UNCHANGED Launch!vars
    <2>1. World'
      BY <1>1 DEF Launch!vars, LaunchInv, ValueInv, World, Launch!report
    <2> QED BY <1>1, <2>1, LaunchKept DEF Launch!vars, Launch!report, Launch!processes
  <1>2. CASE Launch!Next
    <2>1. World'
      BY <1>2, WorldStep
    <2>2. ASSUME NEW l \in Launchers, Launch!Step(l) PROVE LaunchInv'
      BY <2>1, <2>2, BeforeKeep, StageKeeps, LinkKeeps, LinkReceiptKeeps, SettleKeeps, SpawnKeeps,
         WaitKeeps, InspectKeeps, ReapKeeps, CleanKeeps, ObserveKeeps, DrainedKeeps, PostKeeps
         DEF Launch!Step
    <2>3. ASSUME NEW l \in Launchers, Launch!Start(l) \/ Launch!Evaluator(l)
                   \/ Launch!TimeOut(l) \/ Launch!Interrupt(l)
                                      \/ Launch!Kill(l) \/ Launch!Exits(l)
          PROVE  LaunchInv'
      BY <2>1, <2>3, StartKeeps, EvaluatorKeeps, WaitKeeps, InterruptKeeps, KillKeeps
    <2>4. CASE Launch!Change
      BY <2>1, <2>4, LaunchKept DEF Launch!Change, Launch!report, Launch!processes
    <2>5. ~Launch!Reboot
      BY DEF Launch!Reboot, Launch!LaunchAssumption
    <2> QED BY <1>2, <2>2, <2>3, <2>4, <2>5 DEF Launch!Next
  <1> QED BY <1>1, <1>2

(* What the properties say, from the invariants.                           *)
LEMMA LaunchPromises ==
  ASSUME Launch!LaunchAssumption, OwnerInv, LaunchInv
  PROVE  Launch!TypeOK /\ Launch!SeriesAgrees /\ Launch!ValidatedIsContained
  <1>1. Launch!TypeOK
    <2>1. ASSUME NEW l \in Launchers, child[l] # "none"
          PROVE  spawned[l] = Launch!Repeat(l) /\ Launch!Repeat(l) \in Launch!Repeats
                   /\ marker[Launch!Repeat(l)] # Launch!Absent
      <3>1. spawned[l] = Launch!Repeat(l) /\ Launch!Repeat(l) \in Launch!Repeats
        BY <2>1, Local DEF ChildInv
      <3>2. marker[Launch!Repeat(l)].by = l
        BY <3>1 DEF OwnerInv, MarkerInv, Launch!Repeats
      <3> QED BY <3>1, <3>2, AbsentNamesNobody
    <2> QED BY <2>1 DEF LaunchInv, ValueInv, Launch!TypeOK, Places, Outputs, Children, Heirs
  <1>2. Launch!SeriesAgrees
    <2>1. ASSUME NEW l \in Launchers, child[l] # "none"
          PROVE Agrees(l) /\ spawned[l] = Launch!Repeat(l)
      BY <2>1, Local DEF SeriesInv, ChildInv
    <2> QED BY <2>1 DEF Launch!SeriesAgrees, Agrees
  <1>3. Launch!ValidatedIsContained
    <2> SUFFICES ASSUME NEW k \in Launch!Repeats, receipt[k] # Launch!Absent,
                          receipt[k].status = "validated",
                        NEW l, l = receipt[k].by
                 PROVE  /\ spawned[l] = k /\ marker[k].by = l
                        /\ child[l] = "gone" /\ heir[l] \in {"none", "gone"}
                        /\ receipt[k].validation[k] \in {"a", "b"}
      BY DEF Launch!ValidatedIsContained
    <2>1. l \in Launchers /\ spawned[l] = k /\ Cleared(l)
          /\ receipt[k].validation[k] \in {"a", "b"}
      BY DEF LaunchInv, ReceiptInv
    <2>2. marker[k].by = l
      BY <2>1 DEF OwnerInv, MarkerInv, Launch!Repeats
    <2> QED BY <2>1, <2>2 DEF Cleared
  <1> QED BY <1>1, <1>2, <1>3

(* An evaluator runs after its inspection.                                 *)
LEMMA InspectedStep ==
  ASSUME Launch!LaunchAssumption, LaunchInv, [Launch!Next]_Launch!vars
  PROVE  Launch!RunsInspectedStep
  <1> SUFFICES ASSUME NEW l \in Launchers, child'[l] = "running" PROVE run[l].inspected
    BY DEF Launch!RunsInspectedStep
  <1>1. CASE child[l] = "running"
    BY <1>1, Local DEF ChildInv
  <1>2. CASE child[l] # "running"
    <2>1. ASSUME NEW m \in Launchers, Launch!Detach(m) PROVE run[l].inspected
      BY <1>2, <2>1, Local DEF Launch!Detach, ChildInv, LaunchInv, ValueInv
    <2>2. ASSUME NEW m \in Launchers, Launch!Spawn(m) \/ Launch!WaitExecStop(m)
                   \/ Launch!WaitRun(m) \/ Launch!Clean(m)
                                      \/ Launch!ReapKilled(m)
          PROVE  FALSE
      BY <1>2, <2>2, Local DEF Launch!Spawn, Launch!WaitExecStop, Launch!WaitRun,
                               Launch!Clean, Launch!ReapKilled, Launch!Reap, Launch!processes,
                               LaunchInv, ValueInv
    <2>3. ASSUME NEW m \in Launchers, Launch!Evaluator(m) \/ Launch!Kill(m) \/ Launch!Exits(m)
          PROVE FALSE
      BY <1>2, <2>3, Local DEF Launch!Evaluator, Launch!ChildExec, Launch!Fork,
                               Launch!Evaluate, Launch!Exit, Launch!HeirExits, Launch!Kill,
                               Launch!Leaves, Launch!Exits, Launch!processes, LaunchInv,
                               ValueInv
    <2>4. ASSUME NEW m \in Launchers, Launch!Start(m) \/ Launch!Inventory(m)
                   \/ Launch!Preflight(m) \/ Launch!Revalidate(m)
                                      \/ Launch!Reload(m) \/ Launch!Stage(m) \/ Launch!Link(m)
                                           \/ Launch!LinkReceipt(m)
          PROVE  FALSE
      BY <1>2, <2>4 DEF Launch!Start, Launch!Inventory, Launch!Preflight, Launch!Revalidate,
                        Launch!Reload, Launch!Stage, Launch!Link, Launch!LinkReceipt,
                        Launch!processes
    <2>5. ASSUME NEW m \in Launchers, Launch!Settle(m) \/ Launch!Inspect(m)
                   \/ Launch!TimeOut(m) \/ Launch!Observe(m)
                                      \/ Launch!Drained(m) \/ Launch!Post(m)
                                           \/ Launch!Interrupt(m)
          PROVE  FALSE
      BY <1>2, <2>5 DEF Launch!Settle, Launch!Inspect, Launch!TimeOut, Launch!Observe,
                        Launch!Drained, Launch!Post, Launch!Interrupt, Launch!processes
    <2>6. ~Launch!Change /\ ~(UNCHANGED Launch!vars)
      BY <1>2 DEF Launch!Change, Launch!vars, Launch!processes
    <2>7. ~Launch!Reboot
      BY DEF Launch!LaunchAssumption, Launch!Reboot
    <2> QED BY <2>1, <2>2, <2>3, <2>4, <2>5, <2>6, <2>7 DEF Launch!Next, Launch!Step
  <1> QED BY <1>1, <1>2

-----------------------------------------------------------------------------
(* The attestation of a runtime.                                           *)

(* An attestation records every object once.                               *)

Result == {"objects", "edges", "tree"}
ResultInv ==
  /\ DOMAIN result = 1 .. 2 /\ DOMAIN disk = Paths
  /\ \A r \in 1 .. 2 : DOMAIN result[r] = Result

AttestationInv == Attestation!TypeOK /\ ResultInv

LEMMA AttestationInit ==
  ASSUME Attestation!ContentAssumption, Attestation!Init
  PROVE  AttestationInv
  <1>1. DOMAIN Attestation!NoResult = Result /\ Attestation!NoResult.objects = {}
    BY DEF Attestation!NoResult, Result
  <1>2. DOMAIN result = 1 .. 2 /\ \A r \in 1 .. 2 : result[r] = Attestation!NoResult
    BY DEF Attestation!Init
  <1> QED BY <1>1, <1>2 DEF Attestation!Init, Attestation!ContentAssumption, AttestationInv,
                            Attestation!TypeOK, ResultInv

(* The objects of the round are kept, or gain one that was not known.      *)
LEMMA RecordsOnce ==
  ASSUME AttestationInv, NEW new, DOMAIN result' = 1 .. 2,
         \A r \in 1 .. 2 : DOMAIN result'[r] = Result,
         \A r \in 1 .. 2 : r # round => result'[r].objects = result[r].objects,
         \/ result'[round].objects = result[round].objects
         \/ result'[round].objects = result[round].objects \cup {new}
              /\ ~Attestation!Known(new.id.resolved)
  PROVE  \A r \in 1 .. 2 : \A o, q \in result'[r].objects : o.id.resolved = q.id.resolved => o = q
  BY DEF AttestationInv, Attestation!TypeOK, Attestation!Known

LEMMA AttestationStep ==
  ASSUME Attestation!ContentAssumption, AttestationInv, [Attestation!Next]_Attestation!vars
  PROVE  AttestationInv'
  <1>1. CASE UNCHANGED Attestation!vars
    BY <1>1 DEF Attestation!vars, Attestation!world, Attestation!work, AttestationInv,
                Attestation!TypeOK, ResultInv
  <1>2. CASE Attestation!Edit
    <2>1. PICK p \in Paths : disk[p] < Len(Content[p]) /\ disk' = [disk EXCEPT ![p] = @ + 1]
      BY <1>2 DEF Attestation!Edit
    <2>2. \A q \in Paths : disk'[q] \in 0 .. Len(Content[q])
      BY <2>1 DEF AttestationInv, Attestation!TypeOK, ResultInv, Attestation!ContentAssumption
    <2> QED BY <1>2, <2>1, <2>2 DEF Attestation!Edit, Attestation!work, AttestationInv,
                                    Attestation!TypeOK, ResultInv,
                                    Attestation!ContentAssumption
  <1>3. CASE Attestation!NextLink \/ Attestation!EndOfLinks \/ Attestation!LinksRefused
               \/ Attestation!_hash_open_file
    BY <1>3 DEF Attestation!NextLink, Attestation!EndOfLinks, Attestation!LinksRefused,
                Attestation!_hash_open_file, Attestation!Goto, Attestation!Refuse,
                Attestation!world, Attestation!work, AttestationInv, Attestation!TypeOK,
                ResultInv
  <1>4. CASE Attestation!Need \/ Attestation!EndOfNeeds \/ Attestation!ListTree
               \/ Attestation!EndRound
    BY <1>4 DEF Attestation!Need, Attestation!EndOfNeeds, Attestation!ListTree,
                Attestation!EndRound, Attestation!Goto, Attestation!Refuse, Attestation!world,
                Attestation!work, AttestationInv, Attestation!TypeOK, ResultInv
  <1>5. CASE Attestation!Resolve
    <2>1. /\ DOMAIN result' = 1 .. 2 /\ \A r \in 1 .. 2 : DOMAIN result'[r] = Result
          /\ \A r \in 1 .. 2 : result'[r].objects = result[r].objects
      BY <1>5 DEF Attestation!Resolve, AttestationInv, Attestation!TypeOK, ResultInv, Result
    <2> QED BY <1>5, <2>1 DEF Attestation!Resolve, Attestation!Goto, Attestation!world,
                              AttestationInv, Attestation!TypeOK, ResultInv
  <1>6. CASE Attestation!HashEntry
    <2>1. /\ DOMAIN result' = 1 .. 2 /\ \A r \in 1 .. 2 : DOMAIN result'[r] = Result
          /\ \A r \in 1 .. 2 : result'[r].objects = result[r].objects
      BY <1>6 DEF Attestation!HashEntry, AttestationInv, Attestation!TypeOK, ResultInv, Result
    <2> QED BY <1>6, <2>1 DEF Attestation!HashEntry, Attestation!Goto, Attestation!world,
                              AttestationInv, Attestation!TypeOK, ResultInv
  <1>7. CASE Attestation!Parse
    <2> DEFINE new == [id |-> Head(queue),
                 needs |-> Attestation!At(Attestation!Follow(Head(queue).file, disk), disk).needs]
    <2>1. new.id = Head(queue)
      OBVIOUS
    <2>2. \/ UNCHANGED result
          \/ /\ ~Attestation!Known(Head(queue).resolved)
             /\ result' = [result EXCEPT ![round].objects = @ \cup {new}]
      BY <1>7 DEF Attestation!Parse
    <2> HIDE DEF new
    <2>3. /\ DOMAIN result' = 1 .. 2 /\ \A r \in 1 .. 2 : DOMAIN result'[r] = Result
          /\ \A r \in 1 .. 2 : r # round => result'[r].objects = result[r].objects
          /\ \/ result'[round].objects = result[round].objects
             \/ /\ result'[round].objects = result[round].objects \cup {new}
                /\ ~Attestation!Known(new.id.resolved)
      BY <2>1, <2>2 DEF AttestationInv, Attestation!TypeOK, ResultInv, Result
    <2>4. \A r \in 1 .. 2 : \A o, q \in result'[r].objects : o.id.resolved = q.id.resolved
            => o = q
      BY <2>3, RecordsOnce
    <2> QED BY <1>7, <2>3, <2>4 DEF Attestation!Parse, Attestation!Goto, Attestation!Refuse,
                                    Attestation!world, AttestationInv, Attestation!TypeOK,
                                    ResultInv
  <1> QED BY <1>1, <1>2, <1>3, <1>4, <1>5, <1>6, <1>7 DEF Attestation!Next, Attestation!Attest

-----------------------------------------------------------------------------
(* What an attestation found, between two moments: a version it read of a  *)
(* path came after the first and before the second.                        *)

IsDisk(d) == \A p \in Paths : d[p] \in 0 .. Len(Content[p])
Later(d, e) == \A p \in Paths : d[p] <= e[p]
HadVersion(p, v, lo, hi) ==
  p \in Paths /\ v \in 1 .. Len(Content[p]) /\ lo[p] <= v /\ v <= hi[p]
NamesIn(s) == {s[i] : i \in DOMAIN s}

(* The links that were followed from a path lead from one to the next, and *)
(* in the end to where the attestation is.                                 *)
Hops == [path : Paths, version : Nat]
To(l) == Content[l.path][l.version].link
PathsOf(links) == {l.path : l \in NamesIn(links)}
Chained(path, links, current, lo, hi) ==
  /\ path \in Paths /\ current \in Paths /\ links \in Seq(Hops)
  /\ \A l \in NamesIn(links) : HadVersion(l.path, l.version, lo, hi) /\ To(l) \in Paths
  /\ path \in PathsOf(links) \cup {current}
  /\ \A l \in NamesIn(links) : To(l) \in PathsOf(links) \cup {current}
  /\ \A S \in SUBSET Paths :
       path \in S /\ (\A l \in NamesIn(links) : l.path \in S => To(l) \in S) => current \in S

(* A file was read where the links ended; if none of them has changed, the *)
(* path it was resolved to is that of the file.                            *)
IsFile(p, v) == Content[p][v].link = Attestation!NoPath
Unmoved(id, d) ==
  d[id.file] = id.version /\ \A l \in NamesIn(id.links) : d[l.path] = l.version
Attested(id, lo, hi) ==
  /\ Chained(id.path, id.links, id.file, lo, hi)
  /\ HadVersion(id.file, id.version, lo, hi) /\ IsFile(id.file, id.version)
  /\ id.resolved \in Paths /\ (Unmoved(id, hi) => id.resolved = id.file)

(* A path was found in a directory, when no earlier one had the name.      *)
FoundFirst(p, lo, hi) ==
  /\ p \in Paths /\ hi[p] # 0 /\ p = <<p[1], p[2]>> /\ p[1] \in 1 .. LastDir
  /\ \A j \in 1 .. LastDir : <<j, p[2]>> \in Paths /\ lo[<<j, p[2]>>] # 0 => p[1] <= j

Recorded(R, lo, hi) ==
  /\ \A o \in R.objects :
       /\ Attested(o.id, lo, hi) /\ o.needs \in Seq(STRING)
       /\ hi[o.id.file] = o.id.version => o.needs = Content[o.id.file][o.id.version].needs
  /\ \A e \in R.edges :
       /\ Attested(e.to, lo, hi) /\ FoundFirst(e.to.path, lo, hi)
       /\ \E o \in R.objects : o.id.resolved = e.from /\ e.to.path[2] \in NamesIn(o.needs)
  /\ \A t \in R.tree : /\ t = [path |-> t.path, version |-> t.version] /\ t.path \in Tree
                       /\ HadVersion(t.path, t.version, lo, hi)

(* Every object was reached from the executable's.                         *)
Connected(R) ==
  \A S \in SUBSET Paths :
    /\ \A o \in R.objects : o.id.path = Root => o.id.resolved \in S
    /\ \A e \in R.edges : e.from \in S => e.to.resolved \in S
    => \A o \in R.objects : o.id.resolved \in S

Is(R, path) == \E o \in R.objects : o.id.resolved = path
HasEdge(R, from, name) == \E e \in R.edges : e.from = from /\ e.to.path[2] = name

(* What the attestation is at.                                             *)
Asking == {"link", "hash", "resolve"}
AsksInv(R, lo, hi) ==
  /\ DOMAIN asked = {"path", "current", "links"}
  /\ attestation_pc \in Asking => Chained(asked.path, asked.links, asked.current, lo, hi)
  /\ attestation_pc \notin Asking => asked.path = Attestation!NoPath
  /\ attestation_pc = "resolve" => /\ HadVersion(asked.current, digest, lo, hi)
                                   /\ IsFile(asked.current, digest)
  /\ attestation_pc \in Asking /\ parsing.of = Attestation!NoPath =>
       asked.path = Root /\ R.objects = {} /\ R.edges = {} /\ queue = <<>>
  /\ attestation_pc \in Asking /\ parsing.of # Attestation!NoPath =>
       /\ FoundFirst(asked.path, lo, hi)
       /\ \E o \in R.objects : o.id.resolved = parsing.of /\ asked.path[2] \in NamesIn(o.needs)

ParsesInv(R) ==
  /\ DOMAIN parsing = {"of", "needs"} /\ parsing.needs \in Seq(STRING)
  /\ attestation_pc \in {"parse", "tree"} => parsing.of = Attestation!NoPath
  /\ attestation_pc = "needs" => parsing.of # Attestation!NoPath
  /\ parsing.of # Attestation!NoPath =>
       \E o \in R.objects : /\ o.id.resolved = parsing.of
                            /\ NamesIn(parsing.needs) \subseteq NamesIn(o.needs)

Identities == [path : Paths, resolved : Paths, links : Seq(Hops), file : Paths, version : Nat]
QueueInv(R, lo, hi) ==
  /\ queue \in Seq(Identities)
  /\ \A q \in NamesIn(queue) : /\ Attested(q, lo, hi)
                               /\ q.path = Root \/ \E e \in R.edges : e.to.resolved = q.resolved
  /\ \A e \in R.edges : \/ Is(R, e.to.resolved)
                        \/ \E q \in NamesIn(queue) : q.resolved = e.to.resolved
  /\ \/ attestation_pc \in Asking /\ parsing.of = Attestation!NoPath
     \/ \E o \in R.objects : o.id.path = Root
     \/ /\ attestation_pc = "parse" /\ R.objects = {}
        /\ queue # <<>> /\ Head(queue).path = Root

CoversInv(R) ==
  \A o \in R.objects : \A name \in NamesIn(o.needs) :
    \/ HasEdge(R, o.id.resolved, name)
    \/ /\ parsing.of = o.id.resolved
       /\ \/ name \in NamesIn(parsing.needs)
          \/ attestation_pc \in Asking /\ asked.path[2] = name

Hashed(R, p) == \E t \in R.tree : t.path = p
ListsInv(R, lo, hi) ==
  /\ \A p \in listed : p \in Tree /\ hi[p] # 0
  /\ attestation_pc # "tree" => listed = {}
  /\ attestation_pc = "tree" =>
       queue = <<>> /\ \A p \in Tree : lo[p] # 0 => p \in listed \/ Hashed(R, p)

Working(R, lo, hi) == /\ Recorded(R, lo, hi) /\ Connected(R)
                      /\ AsksInv(R, lo, hi) /\ ParsesInv(R) /\ QueueInv(R, lo, hi)
                      /\ CoversInv(R) /\ ListsInv(R, lo, hi)

(* An attestation that has ended.                                          *)
Complete(R, lo, hi) ==
  /\ Recorded(R, lo, hi) /\ Connected(R)
  /\ \E o \in R.objects : o.id.path = Root
  /\ \A e \in R.edges : Is(R, e.to.resolved)
  /\ \A o \in R.objects : \A name \in NamesIn(o.needs) : HasEdge(R, o.id.resolved, name)
  /\ \A p \in Tree : lo[p] # 0 => Hashed(R, p)

AgreeInv ==
  /\ IsDisk(disk) /\ IsDisk(between) /\ Later(Installed, between) /\ Later(between, disk)
  /\ verdict # "refused" => Working(result[round], between, disk)
  /\ round = 1 => between = Installed /\ result[2] = Attestation!NoResult
  /\ round = 2 => Complete(result[1], Installed, between)
  /\ verdict = "accepted" =>
       round = 2 /\ attestation_pc = "tree" /\ listed = {} /\ result[1] = result[2]

(* The versions of a path are links and files of these.                    *)
LEMMA DiskContent ==
  ASSUME Attestation!ContentAssumption, NEW p \in Paths, NEW v \in 1 .. Len(Content[p])
  PROVE  /\ Content[p][v].link \in Paths \cup {Attestation!NoPath}
         /\ Content[p][v].needs \in Seq(STRING)
  <1>1. Content[p] \in Seq([link : Paths \cup {Attestation!NoPath}, needs : Seq(STRING)])
    BY DEF Attestation!ContentAssumption
  <1>2. \A S : \A s \in Seq(S) : \A i \in 1 .. Len(s) : s[i] \in S
    OBVIOUS
  <1>3. Content[p][v] \in [link : Paths \cup {Attestation!NoPath}, needs : Seq(STRING)]
    BY <1>1, <1>2
  <1> QED BY <1>3

LEMMA FollowType ==
  ASSUME Attestation!ContentAssumption, NEW d, IsDisk(d), NEW p \in Paths
  PROVE  Attestation!Follow(p, d) \in Paths
  <1>1. ASSUME NEW x \in Attestation!Links(d) PROVE Attestation!At(x, d).link \in Paths
    <2>1. /\ x \in Paths /\ d[x] # 0
          /\ Attestation!At(x, d).link # Attestation!NoPath
      BY <1>1 DEF Attestation!Links, Attestation!IsLink, Attestation!Exists
    <2>2. d[x] \in 1 .. Len(Content[x])
      <3>1. d[x] \in 0 .. Len(Content[x])
        BY <2>1 DEF IsDisk
      <3> QED BY <2>1, <3>1
    <2> QED BY <2>1, <2>2, DiskContent DEF Attestation!At
  <1>2. Attestation!Passed(p, d) \subseteq Attestation!Links(d)
    BY DEF Attestation!Passed
  <1> QED BY <1>1, <1>2 DEF Attestation!Follow

(* If no link has changed since, the file is where the links still lead.   *)
LEMMA FollowChain ==
  ASSUME Attestation!ContentAssumption, NEW d, IsDisk(d), NEW lo, NEW hi,
         NEW path, NEW links, NEW file, Chained(path, links, file, lo, hi),
         d[file] # 0, Attestation!At(file, d).link = Attestation!NoPath,
         \A l \in NamesIn(links) : d[l.path] = l.version
  PROVE  Attestation!Follow(path, d) = file
  <1> DEFINE L == Attestation!Links(d)
             P == Attestation!Passed(path, d)
             ends == {Attestation!At(x, d).link : x \in P} \ L
  <1>1. \A l \in NamesIn(links) :
          /\ l.path \in L /\ Attestation!At(l.path, d).link = To(l) /\ To(l) \in Paths
    <2> SUFFICES ASSUME NEW l \in NamesIn(links)
                 PROVE  /\ l.path \in L /\ Attestation!At(l.path, d).link = To(l)
                        /\ To(l) \in Paths
      OBVIOUS
    <2>1. d[l.path] = l.version /\ l.path \in Paths /\ l.version # 0 /\ To(l) \in Paths
      BY DEF Chained, HadVersion
    <2> QED BY <2>1 DEF Attestation!Links, Attestation!IsLink, Attestation!Exists, To,
                        Attestation!At, Attestation!ContentAssumption
  <1>2. file \in Paths /\ file \notin L
    BY DEF Chained, Attestation!Links, Attestation!IsLink
  <1>3. P \subseteq L /\ L \subseteq Paths
    BY DEF Attestation!Passed, Attestation!Links
  <1>4. CASE path \notin L
    <2>1. path \in {path} /\ {path} \in SUBSET Paths
      BY DEF Chained
    <2>2. \A l \in NamesIn(links) : l.path \notin {path}
      BY <1>1, <1>4
    <2>3. file \in {path}
      BY <2>1, <2>2 DEF Chained
    <2> QED BY <1>4, <2>3 DEF Attestation!Follow
  <1>5. CASE path \in L
    <2>1. path \in P
      BY <1>5 DEF Attestation!Passed
    <2>2. ASSUME NEW y \in P, Attestation!At(y, d).link \in L
          PROVE  Attestation!At(y, d).link \in P
      BY <2>2 DEF Attestation!Passed
    <2>3. file \in ends
      <3> DEFINE T == P \cup {t \in {To(l) : l \in NamesIn(links)} : t \in ends}
      <3>1. T \in SUBSET Paths /\ path \in T
        BY <1>1, <1>3, <2>1
      <3>2. ASSUME NEW l \in NamesIn(links), l.path \in T PROVE To(l) \in T
        <4>1. l.path \in P
          BY <1>1, <3>2
        <4> QED BY <1>1, <2>2, <4>1
      <3>3. file \in T
        <4> HIDE DEF T
        <4> QED BY <3>1, <3>2 DEF Chained
      <3> QED BY <1>2, <1>3, <3>3
    <2>4. ASSUME NEW e \in ends PROVE e = file
      <3>1. PathsOf(links) \subseteq L
        BY <1>1 DEF PathsOf
      <3>2. path \in PathsOf(links)
        BY <1>2, <1>5 DEF Chained
      <3>3. \A y \in PathsOf(links) : Attestation!At(y, d).link \in PathsOf(links) \cup {file}
        BY <1>1 DEF Chained, PathsOf
      <3>4. P \subseteq PathsOf(links)
        <4>1. PathsOf(links) \in SUBSET L
          BY <3>1
        <4>2. \A y \in PathsOf(links) : Attestation!At(y, d).link \in L
                => Attestation!At(y, d).link \in PathsOf(links)
          BY <1>2, <3>3
        <4> QED BY <3>2, <4>1, <4>2 DEF Attestation!Passed
      <3> QED BY <2>4, <3>1, <3>3, <3>4
    <2>5. ends = {file}
      BY <2>3, <2>4
    <2> QED BY <1>5, <2>5 DEF Attestation!Follow
  <1> QED BY <1>4, <1>5

LEMMA SearchFinds ==
  ASSUME Attestation!ContentAssumption, NEW name, NEW d, IsDisk(d), NEW p,
         p = Attestation!_elf_search(name, d), p # Attestation!NoPath
  PROVE  /\ p[2] = name /\ FoundFirst(p, d, d)
  <1> DEFINE first == {i \in Attestation!Candidates(name, d) :
                         \A j \in Attestation!Candidates(name, d) : i <= j}
             i == CHOOSE i \in first : TRUE
  <1>1. first # {} /\ p = <<i, name>>
    BY DEF Attestation!_elf_search
  <1>2. i \in first
    BY <1>1
  <1>3. p[1] = i /\ p[2] = name
    BY <1>1
  <1>4. i \in 1 .. LastDir /\ p \in Paths /\ d[p] # 0
    BY <1>1, <1>2 DEF Attestation!Candidates, Attestation!Exists
  <1>5. ASSUME NEW j \in 1 .. LastDir, <<j, name>> \in Paths /\ d[<<j, name>>] # 0
        PROVE  i <= j
    BY <1>2, <1>5 DEF Attestation!Candidates, Attestation!Exists
  <1> HIDE DEF i, first
  <1> QED BY <1>1, <1>3, <1>4, <1>5 DEF FoundFirst

(* Found before and after a moment, a path is what the loader finds then.  *)
LEMMA SearchExact ==
  ASSUME Attestation!ContentAssumption, NEW d, NEW lo, NEW hi, NEW p,
         FoundFirst(p, lo, d), FoundFirst(p, d, hi)
  PROVE  Attestation!_elf_search(p[2], d) = p
  <1> DEFINE name == p[2]
             first == {i \in Attestation!Candidates(name, d) :
                         \A j \in Attestation!Candidates(name, d) : i <= j}
  <1>1. /\ p \in Paths /\ d[p] # 0 /\ p = <<p[1], name>> /\ p[1] \in 1 .. LastDir
        /\ \A j \in 1 .. LastDir : <<j, name>> \in Paths /\ d[<<j, name>>] # 0 => p[1] <= j
    BY DEF FoundFirst
  <1> HIDE DEF name
  <1>2. p[1] \in first
    BY <1>1 DEF Attestation!Candidates, Attestation!Exists
  <1>3. \A i \in first : i = p[1]
    BY <1>1, <1>2 DEF Attestation!Candidates, Attestation!ContentAssumption
  <1>4. Attestation!_elf_search(name, d) = <<p[1], name>>
    BY <1>2, <1>3 DEF Attestation!_elf_search
  <1> QED BY <1>1, <1>4 DEF name

LEMMA WorkedComplete ==
  ASSUME Attestation!ContentAssumption, NEW R, NEW lo, NEW hi, Working(R, lo, hi),
         attestation_pc = "tree", listed = {}
  PROVE  Complete(R, lo, hi)
  <1>1. parsing.of = Attestation!NoPath /\ queue = <<>>
    BY DEF Working, ParsesInv, ListsInv
  <1>2. \A o \in R.objects : o.id.resolved # Attestation!NoPath
    BY DEF Working, Recorded, Attested, Attestation!ContentAssumption
  <1>3. \E o \in R.objects : o.id.path = Root
    BY <1>1 DEF Working, QueueInv, Asking
  <1>4. \A e \in R.edges : Is(R, e.to.resolved)
    BY <1>1 DEF Working, QueueInv, NamesIn
  <1>5. \A o \in R.objects : \A name \in NamesIn(o.needs) : HasEdge(R, o.id.resolved, name)
    BY <1>1, <1>2 DEF Working, CoversInv
  <1> QED BY <1>3, <1>4, <1>5 DEF Complete, Working, ListsInv

(* A path attested before and after a moment is what it was then.          *)
LEMMA AttestedThen ==
  ASSUME Attestation!ContentAssumption, NEW d, IsDisk(d), NEW lo, NEW hi, NEW id,
         Attested(id, lo, d), Attested(id, d, hi)
  PROVE  /\ d[id.file] = id.version /\ id.resolved = id.file /\ id.file \in Paths
         /\ d[id.file] # 0 /\ Attestation!At(id.file, d).link = Attestation!NoPath
         /\ Attestation!Follow(id.path, d) = id.file
  <1>1. ASSUME NEW p, NEW v, HadVersion(p, v, lo, d), HadVersion(p, v, d, hi)
        PROVE  d[p] = v
    <2>1. d[p] \in 0 .. Len(Content[p]) /\ v \in 1 .. Len(Content[p]) /\ Len(Content[p]) \in Nat
      BY <1>1 DEF HadVersion, IsDisk, Attestation!ContentAssumption
    <2>2. v <= d[p] /\ d[p] <= v
      BY <1>1 DEF HadVersion
    <2> QED BY <2>1, <2>2
  <1>2. d[id.file] = id.version /\ id.version # 0
    <2>1. HadVersion(id.file, id.version, lo, d) /\ HadVersion(id.file, id.version, d, hi)
      BY DEF Attested
    <2>2. id.version \in 1 .. Len(Content[id.file]) /\ id.file \in Paths
      BY <2>1 DEF HadVersion
    <2> QED BY <1>1, <2>1, <2>2 DEF Attestation!ContentAssumption
  <1>3. \A l \in NamesIn(id.links) : d[l.path] = l.version
    <2> TAKE l \in NamesIn(id.links)
    <2>1. HadVersion(l.path, l.version, lo, d) /\ HadVersion(l.path, l.version, d, hi)
      BY DEF Attested, Chained
    <2> QED BY <1>1, <2>1
  <1>4. id.resolved = id.file
    BY <1>2, <1>3 DEF Attested, Unmoved
  <1>5. Attestation!At(id.file, d).link = Attestation!NoPath
    BY <1>2 DEF Attested, IsFile, Attestation!At
  <1>6. id.file \in Paths /\ Chained(id.path, id.links, id.file, lo, d)
    BY DEF Attested, Chained
  <1> QED BY <1>2, <1>3, <1>4, <1>5, <1>6, FollowChain

Exact(R, d) ==
  /\ {o.id.resolved : o \in R.objects} = Attestation!Objects(d)
  /\ \A o \in R.objects : /\ o.id.file = o.id.resolved /\ o.id.version = d[o.id.file]
                          /\ o.needs = Attestation!At(o.id.file, d).needs
  /\ \A o \in R.objects : \A name \in Attestation!NeedsOf(o.id.resolved, d) :
       \E e \in R.edges : /\ e.from = o.id.resolved
                          /\ e.to.path = Attestation!_elf_search(name, d)
                          /\ e.to.resolved = Attestation!Found(name, d)
  /\ R.tree = {[path |-> p, version |-> d[p]] : p \in {q \in Tree : Attestation!Exists(q, d)}}

LEMMA CompleteExact ==
  ASSUME Attestation!ContentAssumption, NEW d, IsDisk(d), NEW lo, NEW hi, NEW R,
         Complete(R, lo, d), Complete(R, d, hi)
  PROVE  Exact(R, d)
  <1> DEFINE Loaded == {o.id.resolved : o \in R.objects}
  <1>1. \A o \in R.objects : Attested(o.id, lo, d) /\ Attested(o.id, d, hi)
    BY DEF Complete, Recorded
  <1>2. \A o \in R.objects :
          /\ d[o.id.file] = o.id.version /\ o.id.resolved = o.id.file /\ o.id.file \in Paths
          /\ d[o.id.file] # 0 /\ Attestation!At(o.id.file, d).link = Attestation!NoPath
          /\ Attestation!Follow(o.id.path, d) = o.id.file
    BY <1>1, AttestedThen
  <1>3. \A o \in R.objects : /\ o.needs = Attestation!At(o.id.file, d).needs
                             /\ NamesIn(o.needs) = Attestation!NeedsOf(o.id.resolved, d)
    <2> TAKE o \in R.objects
    <2>1. o.needs = Attestation!At(o.id.file, d).needs
      BY <1>2 DEF Complete, Recorded, Attestation!At
    <2> QED BY <1>2, <2>1 DEF Attestation!NeedsOf, NamesIn
  <1>4. \A e \in R.edges :
          /\ Attestation!_elf_search(e.to.path[2], d) = e.to.path
          /\ e.to.resolved = Attestation!Found(e.to.path[2], d)
    <2> TAKE e \in R.edges
    <2>1. /\ Attested(e.to, lo, d) /\ Attested(e.to, d, hi)
          /\ FoundFirst(e.to.path, lo, d) /\ FoundFirst(e.to.path, d, hi)
      BY DEF Complete, Recorded
    <2>2. Attestation!_elf_search(e.to.path[2], d) = e.to.path
      BY <2>1, SearchExact
    <2>3. e.to.resolved = Attestation!Follow(e.to.path, d)
      BY <2>1, AttestedThen
    <2> QED BY <2>2, <2>3 DEF Attestation!Found
  <1>5. ASSUME NEW o \in R.objects, NEW name \in NamesIn(o.needs)
        PROVE  \E e \in R.edges : /\ e.from = o.id.resolved
                                  /\ e.to.path = Attestation!_elf_search(name, d)
                                  /\ e.to.resolved = Attestation!Found(name, d)
                                  /\ Is(R, e.to.resolved)
    <2>1. PICK e \in R.edges : e.from = o.id.resolved /\ e.to.path[2] = name
      BY <1>5 DEF Complete, HasEdge
    <2>2. Is(R, e.to.resolved)
      BY <2>1 DEF Complete
    <2> QED BY <1>4, <2>1, <2>2
  <1>6. Loaded \subseteq Attestation!Files(d)
    BY <1>2 DEF Attestation!Files, Attestation!Exists, Attestation!IsLink
  <1>7. Attestation!Closed(Loaded, d)
    <2>1. Attestation!Follow(Root, d) \in Loaded
      BY <1>2 DEF Complete
    <2>2. ASSUME NEW p \in Loaded, NEW name \in Attestation!NeedsOf(p, d)
          PROVE  Attestation!Found(name, d) \in Loaded
      <3>1. PICK o \in R.objects : o.id.resolved = p
        BY <2>2
      <3>2. name \in NamesIn(o.needs)
        BY <1>3, <2>2, <3>1
      <3>3. Is(R, Attestation!Found(name, d))
        BY <1>5, <3>2
      <3> QED BY <3>3 DEF Is
    <2> QED BY <2>1, <2>2 DEF Attestation!Closed
  <1>8. ASSUME NEW S \in SUBSET Attestation!Files(d), Attestation!Closed(S, d)
        PROVE  Loaded \subseteq S
    <2>1. S \in SUBSET Paths
      BY <1>8 DEF Attestation!Files
    <2>2. ASSUME NEW o \in R.objects, o.id.path = Root PROVE o.id.resolved \in S
      BY <1>2, <1>8, <2>2 DEF Attestation!Closed
    <2>3. ASSUME NEW e \in R.edges, e.from \in S PROVE e.to.resolved \in S
      <3>1. PICK o \in R.objects : o.id.resolved = e.from /\ e.to.path[2] \in NamesIn(o.needs)
        BY DEF Complete, Recorded
      <3>2. e.to.path[2] \in Attestation!NeedsOf(e.from, d)
        BY <1>3, <3>1
      <3> QED BY <1>4, <1>8, <2>3, <3>2 DEF Attestation!Closed
    <2>4. Connected(R)
      BY DEF Complete
    <2> QED BY <2>1, <2>2, <2>3, <2>4 DEF Connected
  <1>9. Loaded = Attestation!Objects(d)
    BY <1>6, <1>7, <1>8 DEF Attestation!Objects
  <1>10. R.tree = {[path |-> p, version |-> d[p]] : p \in {q \in Tree : Attestation!Exists(q, d)}}
    <2>1. ASSUME NEW t \in R.tree
          PROVE  t.path \in Tree /\ d[t.path] # 0 /\ t = [path |-> t.path, version |-> d[t.path]]
      <3>1. /\ t.path \in Tree /\ t = [path |-> t.path, version |-> t.version]
            /\ HadVersion(t.path, t.version, lo, d) /\ HadVersion(t.path, t.version, d, hi)
        BY <2>1 DEF Complete, Recorded
      <3>2. /\ t.version \in 1 .. Len(Content[t.path]) /\ Len(Content[t.path]) \in Nat
            /\ d[t.path] \in 0 .. Len(Content[t.path])
        BY <3>1 DEF HadVersion, IsDisk, Attestation!ContentAssumption
      <3>3. d[t.path] = t.version
        BY <3>1, <3>2 DEF HadVersion
      <3> QED BY <3>1, <3>2, <3>3
    <2>2. ASSUME NEW p \in Tree, d[p] # 0 PROVE [path |-> p, version |-> d[p]] \in R.tree
      <3>1. PICK t \in R.tree : t.path = p
        BY <2>2 DEF Complete, Hashed
      <3> QED BY <2>1, <3>1
    <2> QED BY <2>1, <2>2 DEF Attestation!Exists
  <1> HIDE DEF Loaded
  <1>11. \A o \in R.objects : \A name \in Attestation!NeedsOf(o.id.resolved, d) :
           \E e \in R.edges : /\ e.from = o.id.resolved
                              /\ e.to.path = Attestation!_elf_search(name, d)
                              /\ e.to.resolved = Attestation!Found(name, d)
    BY <1>3, <1>5
  <1> QED BY <1>2, <1>3, <1>9, <1>10, <1>11 DEF Exact, Loaded

LEMMA AgreePromises ==
  ASSUME Attestation!ContentAssumption, AgreeInv
  PROVE  Attestation!AcceptedIsExact
  <1> SUFFICES ASSUME verdict = "accepted"
               PROVE  Exact(result[1], between)
    BY DEF Attestation!AcceptedIsExact, Exact
  <1>1. /\ round = 2 /\ attestation_pc = "tree" /\ listed = {} /\ result[1] = result[2]
        /\ IsDisk(between) /\ Complete(result[1], Installed, between)
        /\ Working(result[2], between, disk)
    BY DEF AgreeInv
  <1>2. Complete(result[2], between, disk)
    BY <1>1, WorkedComplete
  <1> QED BY <1>1, <1>2, CompleteExact

-----------------------------------------------------------------------------
(* What was found stays found as the disk changes.                         *)

LEMMA FoundLater ==
  ASSUME Attestation!ContentAssumption, NEW lo, NEW hi, IsDisk(hi),
         NEW next, IsDisk(next), Later(hi, next)
  PROVE  /\ \A p, v : HadVersion(p, v, lo, hi) => HadVersion(p, v, lo, next)
         /\ \A p, links, q : Chained(p, links, q, lo, hi) => Chained(p, links, q, lo, next)
         /\ \A id : Attested(id, lo, hi) => Attested(id, lo, next)
         /\ \A p : FoundFirst(p, lo, hi) => FoundFirst(p, lo, next)
         /\ \A R : Recorded(R, lo, hi) => Recorded(R, lo, next)
  <1>1. \A p \in Paths : /\ hi[p] \in Nat /\ next[p] \in Nat /\ hi[p] <= next[p]
                         /\ Len(Content[p]) \in Nat
    BY DEF IsDisk, Later, Attestation!ContentAssumption
  <1>2. ASSUME NEW p, NEW v, HadVersion(p, v, lo, hi)
        PROVE  HadVersion(p, v, lo, next) /\ (next[p] = v => hi[p] = v)
    <2>1. p \in Paths /\ v \in 1 .. Len(Content[p]) /\ v <= hi[p] /\ lo[p] <= v
      BY <1>2 DEF HadVersion
    <2>2. v \in Nat /\ hi[p] \in Nat /\ next[p] \in Nat /\ hi[p] <= next[p]
      BY <1>1, <2>1
    <2>3. v <= next[p] /\ (next[p] = v => hi[p] = v)
      BY <2>1, <2>2
    <2> QED BY <2>1, <2>3 DEF HadVersion
  <1>3. \A p, links, q : Chained(p, links, q, lo, hi) => Chained(p, links, q, lo, next)
    BY <1>2 DEF Chained
  <1>4. ASSUME NEW id, Attested(id, lo, hi)
        PROVE  Attested(id, lo, next)
    <2>1. Chained(id.path, id.links, id.file, lo, next)
      BY <1>3, <1>4 DEF Attested
    <2>2. /\ HadVersion(id.file, id.version, lo, next)
          /\ next[id.file] = id.version => hi[id.file] = id.version
      BY <1>2, <1>4 DEF Attested
    <2>3. \A l \in NamesIn(id.links) : next[l.path] = l.version => hi[l.path] = l.version
      BY <1>2, <1>4 DEF Attested, Chained
    <2>4. Unmoved(id, next) => Unmoved(id, hi)
      BY <2>2, <2>3 DEF Unmoved
    <2> QED BY <1>4, <2>1, <2>2, <2>4 DEF Attested
  <1>5. ASSUME NEW p, FoundFirst(p, lo, hi)
        PROVE  FoundFirst(p, lo, next)
    <2>1. p \in Paths /\ hi[p] # 0
      BY <1>5 DEF FoundFirst
    <2>2. next[p] # 0
      BY <1>1, <2>1
    <2> QED BY <1>5, <2>2 DEF FoundFirst
  <1>6. ASSUME NEW R, Recorded(R, lo, hi)
        PROVE  Recorded(R, lo, next)
    <2>1. ASSUME NEW o \in R.objects
          PROVE  /\ Attested(o.id, lo, next) /\ o.needs \in Seq(STRING)
                 /\ next[o.id.file] = o.id.version
                      => o.needs = Content[o.id.file][o.id.version].needs
      <3>1. Attested(o.id, lo, hi)
        BY <1>6 DEF Recorded
      <3>2. HadVersion(o.id.file, o.id.version, lo, hi)
        BY <3>1 DEF Attested
      <3>3. next[o.id.file] = o.id.version => hi[o.id.file] = o.id.version
        BY <1>2, <3>2
      <3> QED BY <1>4, <1>6, <3>1, <3>3 DEF Recorded
    <2>2. \A e \in R.edges : Attested(e.to, lo, next) /\ FoundFirst(e.to.path, lo, next)
      BY <1>4, <1>5, <1>6 DEF Recorded
    <2> QED BY <1>2, <1>6, <2>1, <2>2 DEF Recorded
  <1> QED BY <1>2, <1>3, <1>4, <1>5, <1>6

LEMMA WorkingLater ==
  ASSUME Attestation!ContentAssumption, NEW R, NEW lo, NEW hi, IsDisk(hi),
         NEW next, IsDisk(next), Later(hi, next), Working(R, lo, hi)
  PROVE  Working(R, lo, next)
  <1>1. Recorded(R, lo, next) /\ Connected(R) /\ ParsesInv(R) /\ CoversInv(R)
    BY FoundLater DEF Working
  <1>2. AsksInv(R, lo, hi) => AsksInv(R, lo, next)
    BY FoundLater DEF AsksInv
  <1>3. QueueInv(R, lo, hi) => QueueInv(R, lo, next)
    BY FoundLater DEF QueueInv
  <1>4. ASSUME ListsInv(R, lo, hi) PROVE ListsInv(R, lo, next)
    <2>1. \A p \in listed : p \in Tree /\ next[p] # 0
      <3> TAKE p \in listed
      <3>1. p \in Tree /\ p \in Paths /\ hi[p] # 0
        BY <1>4 DEF ListsInv, Attestation!ContentAssumption
      <3>2. hi[p] \in Nat /\ next[p] \in Nat /\ hi[p] <= next[p]
        BY <3>1 DEF IsDisk, Later, Attestation!ContentAssumption
      <3> QED BY <3>1, <3>2
    <2> QED BY <1>4, <2>1 DEF ListsInv
  <1> QED BY <1>1, <1>2, <1>3, <1>4 DEF Working

WorkVars == <<attestation_pc, asked, digest, queue, parsing, listed>>
LEMMA WorkingSame ==
  ASSUME UNCHANGED WorkVars, NEW R, NEW lo, NEW hi, Working(R, lo, hi)
  PROVE  Working(R, lo, hi)'
  BY DEF WorkVars, Working, AsksInv, ParsesInv, QueueInv, CoversInv, ListsInv, Asking

(* A step that attests on leaves the disk, and the round before this one.  *)
LEMMA AgreeKept ==
  ASSUME Attestation!ContentAssumption, AgreeInv, round \in 1 .. 2,
         UNCHANGED <<disk, between, round>>, verdict = "none", verdict' # "accepted",
         \A k \in 1 .. 2 : k # round => result'[k] = result[k],
         NEW R, R = result'[round], verdict' # "refused" => Working(R, between, disk)'
  PROVE  AgreeInv'
  <1>1. verdict' # "refused" => Working(result[round], between, disk)'
    BY DEF Working, AsksInv, ParsesInv, QueueInv, CoversInv, ListsInv, Asking
  <1>2. round = 1 => result'[2] = result[2]
    OBVIOUS
  <1>3. round = 2 => result'[1] = result[1]
    OBVIOUS
  <1>4. round = 2 => Complete(result[1], Installed, between)'
    BY <1>3 DEF AgreeInv
  <1> QED BY <1>1, <1>2, <1>4 DEF AgreeInv

LEMMA OneMore ==
  ASSUME NEW S, NEW s \in Seq(S), NEW x \in S
  PROVE  Append(s, x) \in Seq(S) /\ NamesIn(Append(s, x)) = NamesIn(s) \cup {x}
  <1>1. /\ Append(s, x) \in Seq(S) /\ DOMAIN Append(s, x) = 1 .. Len(s) + 1
        /\ DOMAIN s = 1 .. Len(s) /\ Len(s) \in Nat
        /\ \A i \in 1 .. Len(s) : Append(s, x)[i] = s[i]
        /\ Append(s, x)[Len(s) + 1] = x
    OBVIOUS
  <1>2. 1 .. Len(s) + 1 = 1 .. Len(s) \cup {Len(s) + 1}
    BY <1>1
  <1> QED BY <1>1, <1>2 DEF NamesIn

LEMMA OneLess ==
  ASSUME NEW S, NEW s \in Seq(S), s # <<>>
  PROVE  /\ Head(s) \in S /\ Tail(s) \in Seq(S)
         /\ NamesIn(s) = {Head(s)} \cup NamesIn(Tail(s))
  <1>1. /\ DOMAIN s = 1 .. Len(s) /\ Len(s) \in Nat /\ Len(s) >= 1
        /\ Head(s) = s[1] /\ Head(s) \in S /\ Tail(s) \in Seq(S)
        /\ DOMAIN Tail(s) = 1 .. Len(s) - 1
        /\ \A i \in 1 .. Len(s) - 1 : Tail(s)[i] = s[i + 1]
    OBVIOUS
  <1>2. ASSUME NEW x \in NamesIn(s) PROVE x = Head(s) \/ x \in NamesIn(Tail(s))
    <2>1. PICK i \in 1 .. Len(s) : x = s[i]
      BY <1>1 DEF NamesIn
    <2>2. CASE i = 1
      BY <1>1, <2>1, <2>2
    <2>3. CASE i # 1
      <3>1. i - 1 \in 1 .. Len(s) - 1 /\ (i - 1) + 1 = i
        BY <1>1, <2>1, <2>3
      <3>2. Tail(s)[i - 1] = x
        BY <1>1, <2>1, <3>1
      <3> QED BY <1>1, <3>1, <3>2 DEF NamesIn
    <2> QED BY <2>2, <2>3
  <1>3. ASSUME NEW x \in NamesIn(Tail(s)) PROVE x \in NamesIn(s)
    <2>1. PICK i \in 1 .. Len(s) - 1 : x = s[i + 1]
      BY <1>1 DEF NamesIn
    <2>2. i + 1 \in 1 .. Len(s)
      BY <1>1, <2>1
    <2> QED BY <1>1, <2>1, <2>2 DEF NamesIn
  <1>4. Head(s) \in NamesIn(s)
    BY <1>1 DEF NamesIn
  <1> QED BY <1>1, <1>2, <1>3, <1>4

LEMMA WorkTypes ==
  ASSUME Attestation!ContentAssumption, AgreeInv, AttestationInv
  PROVE  /\ round \in 1 .. 2
         /\ verdict # "refused" => Working(result[round], between, disk)
         /\ IsDisk(disk) /\ IsDisk(between)
         /\ \A p \in Paths : /\ disk[p] \in Nat /\ between[p] \in Nat /\ between[p] <= disk[p]
                             /\ Len(Content[p]) \in Nat /\ disk[p] <= Len(Content[p])
         /\ \A p \in Paths : disk[p] # 0 => HadVersion(p, disk[p], between, disk)
         /\ Attestation!NoPath \notin Paths /\ Root \in Paths
  <1>1. \A p \in Paths : /\ disk[p] \in Nat /\ between[p] \in Nat /\ between[p] <= disk[p]
                         /\ Len(Content[p]) \in Nat /\ disk[p] <= Len(Content[p])
    BY DEF AgreeInv, IsDisk, Later, Attestation!ContentAssumption
  <1>2. \A p \in Paths : disk[p] # 0 => HadVersion(p, disk[p], between, disk)
    BY <1>1 DEF HadVersion
  <1> QED BY <1>1, <1>2 DEF AgreeInv, AttestationInv, Attestation!TypeOK,
                            Attestation!ContentAssumption

(* Another link is followed.                                               *)
LEMMA ChainStep ==
  ASSUME NEW path, NEW links, NEW current, NEW lo, NEW hi,
         Chained(path, links, current, lo, hi),
         NEW here, here = [path |-> current, version |-> hi[current]],
         HadVersion(here.path, here.version, lo, hi), here.version \in Nat, To(here) \in Paths
  PROVE  Chained(path, Append(links, here), To(here), lo, hi)
  <1> DEFINE more == Append(links, here)
  <1>1. /\ links \in Seq(Hops) /\ here \in Hops /\ path \in Paths /\ current \in Paths
        /\ here.path = current
    BY DEF Chained, Hops
  <1>2. more \in Seq(Hops) /\ NamesIn(more) = NamesIn(links) \cup {here}
    BY <1>1, OneMore
  <1> HIDE DEF more
  <1>3. PathsOf(more) = PathsOf(links) \cup {current}
    BY <1>1, <1>2 DEF PathsOf
  <1>4. \A l \in NamesIn(more) : HadVersion(l.path, l.version, lo, hi) /\ To(l) \in Paths
    BY <1>2 DEF Chained
  <1>5. path \in PathsOf(more) /\ \A l \in NamesIn(more) : To(l) \in PathsOf(more) \cup {To(here)}
    BY <1>2, <1>3 DEF Chained
  <1>6. ASSUME NEW S \in SUBSET Paths, path \in S,
               \A l \in NamesIn(more) : l.path \in S => To(l) \in S
        PROVE  To(here) \in S
    <2>1. current \in S
      BY <1>2, <1>6 DEF Chained
    <2> QED BY <1>1, <1>2, <1>6, <2>1
  <1>7. Chained(path, more, To(here), lo, hi)
    BY <1>1, <1>2, <1>4, <1>5, <1>6 DEF Chained
  <1> QED BY <1>7 DEF more

LEMMA NextLinkAgrees ==
  ASSUME Attestation!ContentAssumption, AgreeInv, AttestationInv, Attestation!NextLink
  PROVE  AgreeInv'
  <1> DEFINE R == result[round]
             here == [path |-> asked.current, version |-> disk[asked.current]]
  <1>1. /\ attestation_pc = "link" /\ attestation_pc' = "link" /\ verdict = "none"
        /\ verdict' = "none" /\ UNCHANGED <<disk, between, round, result>>
        /\ UNCHANGED <<queue, parsing, listed>>
    BY DEF Attestation!NextLink, Attestation!Goto, Attestation!world
  <1>2. /\ asked' = [asked EXCEPT !.current = Attestation!At(here.path, disk).link,
                                  !.links = Append(@, here)]
        /\ Attestation!IsLink(asked.current, disk)
    BY DEF Attestation!NextLink
  <1>3. /\ Working(R, between, disk)
        /\ Chained(asked.path, asked.links, asked.current, between, disk)
    BY <1>1, WorkTypes DEF Working, AsksInv, Asking
  <1>4. asked.current \in Paths /\ disk[asked.current] # 0 /\ disk[asked.current] \in Nat
    BY <1>2, <1>3, WorkTypes DEF Chained, Attestation!IsLink, Attestation!Exists
  <1>5. /\ here.path = asked.current /\ here.version = disk[asked.current]
        /\ To(here) = Attestation!At(here.path, disk).link
        /\ HadVersion(here.path, here.version, between, disk)
    BY <1>4, WorkTypes DEF To, Attestation!At
  <1>6. To(here) \in Paths
    <2>1. here.version \in 1 .. Len(Content[here.path]) /\ here.path \in Paths
      BY <1>5 DEF HadVersion
    <2>2. To(here) # Attestation!NoPath
      BY <1>2, <1>5 DEF Attestation!IsLink
    <2> QED BY <2>1, <2>2, DiskContent DEF To
  <1>7. Chained(asked.path, Append(asked.links, here), To(here), between, disk)
    BY <1>3, <1>4, <1>5, <1>6, ChainStep
  <1>8. DOMAIN asked = {"path", "current", "links"}
    BY <1>3 DEF Working, AsksInv
  <1>9. /\ asked'.path = asked.path /\ asked'.current = To(here)
        /\ asked'.links = Append(asked.links, here)
    BY <1>2, <1>5, <1>8
  <1> HIDE DEF here
  <1>10. R' = R
    BY <1>1
  <1> HIDE DEF R
  <1>11. AsksInv(R, between, disk)'
    <2>1. AsksInv(R, between, disk) /\ DOMAIN asked' = DOMAIN asked
      BY <1>2, <1>3 DEF Working
    <2> QED BY <1>1, <1>7, <1>9, <1>10, <2>1 DEF AsksInv, Asking
  <1>12. /\ ParsesInv(R)' /\ QueueInv(R, between, disk)' /\ ListsInv(R, between, disk)'
         /\ CoversInv(R)'
    BY <1>1, <1>3, <1>9, <1>10 DEF Working, ParsesInv, QueueInv, CoversInv, ListsInv, Asking
  <1>13. Working(R, between, disk)'
    BY <1>1, <1>3, <1>10, <1>11, <1>12 DEF Working
  <1> QED BY <1>1, <1>10, <1>13, AgreeKept, WorkTypes DEF R

(* The steps that read and record nothing.                                 *)
LEMMA PassAgrees ==
  ASSUME Attestation!ContentAssumption, AgreeInv, AttestationInv,
         \/ Attestation!EndOfLinks \/ Attestation!LinksRefused
         \/ Attestation!_hash_open_file \/ Attestation!EndOfNeeds
  PROVE  AgreeInv'
  <1> DEFINE R == result[round]
  <1>1. /\ verdict = "none" /\ verdict' # "accepted"
        /\ UNCHANGED <<disk, between, round, result, asked, queue, listed>>
    BY DEF Attestation!EndOfLinks, Attestation!LinksRefused, Attestation!_hash_open_file,
           Attestation!EndOfNeeds, Attestation!Goto, Attestation!Refuse, Attestation!world,
           Attestation!work
  <1>2. R' = R /\ Working(R, between, disk)
    BY <1>1, WorkTypes
  <1> HIDE DEF R
  <1>3. CASE verdict' = "refused"
    BY <1>1, <1>3, AgreeKept, WorkTypes
  <1>4. CASE Attestation!EndOfLinks
    <2>1. attestation_pc = "link" /\ attestation_pc' = "hash" /\ UNCHANGED <<digest, parsing>>
      BY <1>4 DEF Attestation!EndOfLinks, Attestation!Goto, Attestation!work
    <2>2. Working(R, between, disk)'
      BY <1>1, <1>2, <2>1 DEF Working, AsksInv, ParsesInv, QueueInv, CoversInv, ListsInv, Asking
    <2> QED BY <1>1, <1>2, <2>2, AgreeKept, WorkTypes DEF R
  <1>5. CASE Attestation!_hash_open_file /\ verdict' # "refused"
    <2>1. /\ attestation_pc = "hash" /\ attestation_pc' = "resolve" /\ UNCHANGED parsing
          /\ digest' = disk[asked.current]
          /\ disk[asked.current] # 0 /\ ~Attestation!IsLink(asked.current, disk)
      BY <1>5 DEF Attestation!_hash_open_file, Attestation!Goto, Attestation!Refuse,
                  Attestation!Exists
    <2>2. Chained(asked.path, asked.links, asked.current, between, disk)
      BY <1>2, <2>1 DEF Working, AsksInv, Asking
    <2>3. HadVersion(asked.current, digest', between, disk) /\ IsFile(asked.current, digest')
      BY <2>1, <2>2, WorkTypes DEF Chained, IsFile, Attestation!IsLink, Attestation!At,
                                   Attestation!Exists
    <2>4. AsksInv(R, between, disk)'
      BY <1>1, <1>2, <2>1, <2>2, <2>3 DEF Working, AsksInv, Asking
    <2>5. Working(R, between, disk)'
      BY <1>1, <1>2, <2>1, <2>4 DEF Working, ParsesInv, QueueInv, CoversInv, ListsInv, Asking
    <2> QED BY <1>1, <1>2, <2>5, AgreeKept, WorkTypes DEF R
  <1>6. CASE Attestation!EndOfNeeds
    <2>1. /\ attestation_pc = "needs" /\ attestation_pc' = "parse" /\ UNCHANGED digest
          /\ parsing.needs = <<>> /\ parsing' = Attestation!NotParsing
      BY <1>6 DEF Attestation!EndOfNeeds, Attestation!Goto
    <2>2. /\ parsing'.of = Attestation!NoPath /\ parsing'.needs = <<>>
          /\ DOMAIN parsing' = {"of", "needs"} /\ NamesIn(<<>>) = {}
      BY <2>1 DEF Attestation!NotParsing, NamesIn
    <2>3. ParsesInv(R)'
      BY <2>1, <2>2 DEF ParsesInv
    <2>4. CoversInv(R)'
      BY <1>2, <2>1, <2>2 DEF Working, CoversInv, Asking
    <2>5. AsksInv(R, between, disk)' /\ ListsInv(R, between, disk)'
      BY <1>1, <1>2, <2>1 DEF Working, AsksInv, ListsInv, Asking
    <2>6. QueueInv(R, between, disk)'
      BY <1>1, <1>2, <2>1 DEF Working, QueueInv, Asking
    <2>7. Working(R, between, disk)'
      BY <1>1, <1>2, <2>3, <2>4, <2>5, <2>6 DEF Working
    <2> QED BY <1>1, <1>2, <2>7, AgreeKept, WorkTypes DEF R
  <1>7. Attestation!LinksRefused => verdict' = "refused"
    BY DEF Attestation!LinksRefused, Attestation!Refuse
  <1> QED BY <1>3, <1>4, <1>5, <1>6, <1>7

(* The next need is found in a directory, or nowhere.                      *)
LEMMA NeedAgrees ==
  ASSUME Attestation!ContentAssumption, AgreeInv, AttestationInv, Attestation!Need
  PROVE  AgreeInv'
  <1> DEFINE R == result[round]
             name == Head(parsing.needs)
             found == Attestation!_elf_search(name, disk)
  <1>1. /\ verdict = "none" /\ verdict' # "accepted" /\ attestation_pc = "needs"
        /\ UNCHANGED <<disk, between, round, result, digest, queue, listed>>
        /\ parsing.needs # <<>> /\ parsing' = [parsing EXCEPT !.needs = Tail(@)]
        /\ \/ verdict' = "refused" /\ UNCHANGED attestation_pc
           \/ /\ found # Attestation!NoPath /\ attestation_pc' = "link"
              /\ asked' = Attestation!Asking(found)
    BY DEF Attestation!Need, Attestation!Goto, Attestation!Refuse, Attestation!world
  <1>2. R' = R /\ Working(R, between, disk)
    BY <1>1, WorkTypes
  <1> HIDE DEF R, name, found
  <1>3. /\ parsing.needs \in Seq(STRING) /\ DOMAIN parsing = {"of", "needs"}
        /\ parsing.of # Attestation!NoPath
    BY <1>1, <1>2 DEF Working, ParsesInv
  <1>4. /\ parsing'.of = parsing.of /\ parsing'.needs = Tail(parsing.needs)
        /\ DOMAIN parsing' = {"of", "needs"}
    BY <1>1, <1>3
  <1>5. /\ parsing'.needs \in Seq(STRING)
        /\ NamesIn(parsing.needs) = {name} \cup NamesIn(parsing'.needs)
    BY <1>1, <1>3, <1>4, OneLess DEF name
  <1>6. PICK o \in R.objects :
          o.id.resolved = parsing.of /\ NamesIn(parsing.needs) \subseteq NamesIn(o.needs)
    BY <1>2, <1>3 DEF Working, ParsesInv
  <1>7. ParsesInv(R)'
    <2>1. attestation_pc' \notin {"parse", "tree"}
      BY <1>1
    <2>2. o \in R'.objects /\ NamesIn(parsing'.needs) \subseteq NamesIn(o.needs)
      BY <1>2, <1>5, <1>6
    <2> QED BY <1>2, <1>3, <1>4, <1>5, <1>6, <2>1, <2>2 DEF ParsesInv
  <1>8. CASE verdict' = "refused"
    BY <1>1, <1>8, AgreeKept, WorkTypes
  <1>9. CASE /\ found # Attestation!NoPath /\ attestation_pc' = "link"
             /\ asked' = Attestation!Asking(found)
    <2>1. /\ asked'.path = found /\ asked'.current = found /\ asked'.links = <<>>
          /\ DOMAIN asked' = {"path", "current", "links"}
      BY <1>9 DEF Attestation!Asking
    <2>2. found[2] = name /\ FoundFirst(found, disk, disk)
      BY <1>9, SearchFinds, WorkTypes DEF found
    <2>3. FoundFirst(found, between, disk)
      <3>1. ASSUME NEW j \in 1 .. LastDir, <<j, name>> \in Paths, between[<<j, name>>] # 0
            PROVE  found[1] <= j
        <4>1. disk[<<j, name>>] # 0
          <5> DEFINE p == <<j, name>>
          <5>1. p \in Paths /\ between[p] # 0 /\ between[p] \in Nat /\ disk[p] \in Nat
                /\ between[p] <= disk[p]
            BY <3>1, WorkTypes
          <5> HIDE DEF p
          <5>2. disk[p] # 0
            BY <5>1
          <5> QED BY <5>2 DEF p
        <4> QED BY <2>2, <3>1, <4>1 DEF FoundFirst
      <3> QED BY <2>2, <3>1 DEF FoundFirst
    <2>4. Chained(found, <<>>, found, between, disk)
      BY <2>3 DEF FoundFirst, Chained, NamesIn, PathsOf
    <2>5. AsksInv(R, between, disk)'
      BY <1>1, <1>2, <1>3, <1>4, <1>5, <1>6, <1>9, <2>1, <2>2, <2>3, <2>4 DEF AsksInv, Asking
    <2>6. CoversInv(R)'
      BY <1>2, <1>4, <1>5, <1>9, <2>1, <2>2, <1>1 DEF Working, CoversInv, Asking
    <2>7. QueueInv(R, between, disk)'
      BY <1>1, <1>2, <1>3, <1>4, <1>9 DEF Working, QueueInv, Asking
    <2>8. ListsInv(R, between, disk)'
      BY <1>1, <1>2, <1>9 DEF Working, ListsInv
    <2>9. Working(R, between, disk)'
      BY <1>1, <1>2, <1>7, <2>5, <2>6, <2>7, <2>8 DEF Working
    <2> QED BY <1>1, <1>2, <2>9, AgreeKept, WorkTypes DEF R
  <1> QED BY <1>1, <1>8, <1>9

(* What was hashed is resolved, and recorded as what another needs.        *)
LEMMA ResolveAgrees ==
  ASSUME Attestation!ContentAssumption, AgreeInv, AttestationInv, Attestation!Resolve
  PROVE  AgreeInv'
  <1> DEFINE R == result[round]
             id == Attestation!Identity
             new == [from |-> parsing.of, to |-> id]
  <1>0. PICK N : N = result'[round]
    OBVIOUS
  <1>1. /\ verdict = "none" /\ verdict' = "none" /\ attestation_pc = "resolve"
        /\ attestation_pc' = IF parsing.of = Attestation!NoPath THEN "parse" ELSE "needs"
        /\ UNCHANGED <<disk, between, round, parsing, listed>>
        /\ asked' = Attestation!NotAsked
        /\ queue' = IF Attestation!Known(id.resolved) THEN queue ELSE Append(queue, id)
        /\ result' = IF parsing.of = Attestation!NoPath THEN result
                     ELSE [result EXCEPT ![round].edges = @ \cup {new}]
    BY DEF Attestation!Resolve, Attestation!Goto, Attestation!world, Attestation!Edge
  <1>2. Working(R, between, disk) /\ round \in 1 .. 2 /\ IsDisk(disk)
    BY <1>1, WorkTypes
  <1>3. /\ id.path = asked.path /\ id.links = asked.links /\ id.file = asked.current
        /\ id.version = digest /\ id.resolved = Attestation!Follow(asked.path, disk)
        /\ id = [path |-> id.path, resolved |-> id.resolved, links |-> id.links,
                 file |-> id.file, version |-> id.version]
    BY DEF Attestation!Identity
  <1>4. Attestation!Known(id.resolved) = Is(R, id.resolved)
    BY DEF Attestation!Known, Is
  <1> HIDE DEF id
  <1>5. /\ Chained(id.path, id.links, id.file, between, disk)
        /\ HadVersion(id.file, id.version, between, disk) /\ IsFile(id.file, id.version)
    BY <1>1, <1>2, <1>3 DEF Working, AsksInv, Asking
  <1>6. Attested(id, between, disk)
    <2>1. id.path \in Paths
      BY <1>5 DEF Chained
    <2>2. id.resolved \in Paths
      BY <1>2, <1>3, <2>1, FollowType
    <2>3. ASSUME Unmoved(id, disk) PROVE id.resolved = id.file
      <3>1. disk[id.file] = id.version /\ \A l \in NamesIn(id.links) : disk[l.path] = l.version
        BY <2>3 DEF Unmoved
      <3>2. disk[id.file] # 0 /\ Attestation!At(id.file, disk).link = Attestation!NoPath
        BY <1>5, <3>1, WorkTypes DEF HadVersion, IsFile, Attestation!At
      <3> QED BY <1>2, <1>3, <1>5, <3>1, <3>2, FollowChain
    <2> QED BY <1>5, <2>2, <2>3 DEF Attested
  <1>7. id \in Identities
    <2>1. /\ id.path \in Paths /\ id.resolved \in Paths /\ id.file \in Paths
          /\ id.links \in Seq(Hops)
      BY <1>5, <1>6 DEF Attested, Chained
    <2>2. id.version \in Nat
      BY <1>5, WorkTypes DEF HadVersion
    <2> QED BY <1>3, <2>1, <2>2 DEF Identities
  <1>8. /\ queue' \in Seq(Identities)
        /\ NamesIn(queue') = IF Is(R, id.resolved) THEN NamesIn(queue)
                             ELSE NamesIn(queue) \cup {id}
    <2>1. queue \in Seq(Identities)
      BY <1>2 DEF Working, QueueInv
    <2>2. Append(queue, id) \in Seq(Identities)
      BY <1>7, <2>1
    <2>3. NamesIn(Append(queue, id)) = NamesIn(queue) \cup {id}
      BY <1>7, <2>1, OneMore
    <2> QED BY <1>1, <1>4, <2>1, <2>2, <2>3
  <1>9. /\ N.objects = R.objects /\ N.tree = R.tree
        /\ N.edges = IF parsing.of = Attestation!NoPath THEN R.edges ELSE R.edges \cup {new}
        /\ \A k \in 1 .. 2 : k # round => result'[k] = result[k]
    <2>1. DOMAIN result = 1 .. 2 /\ DOMAIN R = Result
      BY <1>2 DEF AttestationInv, ResultInv
    <2> HIDE DEF new
    <2> QED BY <1>0, <1>1, <1>2, <2>1 DEF Result
  <1>10. new.from = parsing.of /\ new.to = id
    OBVIOUS
  <1>11. asked'.path = Attestation!NoPath /\ DOMAIN asked' = {"path", "current", "links"}
    BY <1>1 DEF Attestation!NotAsked, Attestation!Asking
  <1> HIDE DEF R, new
  <1>12. parsing.of # Attestation!NoPath =>
           /\ FoundFirst(id.path, between, disk)
           /\ \E o \in R.objects :
                o.id.resolved = parsing.of /\ id.path[2] \in NamesIn(o.needs)
    BY <1>1, <1>2, <1>3 DEF Working, AsksInv, Asking
  <1>13. parsing.of = Attestation!NoPath => 
           id.path = Root /\ R.objects = {} /\ R.edges = {} /\ queue = <<>>
    BY <1>1, <1>2, <1>3 DEF Working, AsksInv, Asking
  <1>14. Recorded(N, between, disk)
    BY <1>2, <1>6, <1>9, <1>10, <1>12 DEF Working, Recorded
  <1>15. Connected(N)
    BY <1>2, <1>9 DEF Working, Connected
  <1>16. AsksInv(N, between, disk)'
    BY <1>1, <1>11 DEF AsksInv, Asking
  <1>17. ParsesInv(N)'
    BY <1>1, <1>2, <1>9 DEF Working, ParsesInv
  <1>18. CoversInv(N)'
    <2>1. ASSUME NEW o \in R.objects, NEW name \in NamesIn(o.needs)
          PROVE  \/ HasEdge(N, o.id.resolved, name)
                 \/ parsing.of = o.id.resolved /\ name \in NamesIn(parsing.needs)
      <3>1. CASE HasEdge(R, o.id.resolved, name)
        BY <1>9, <3>1 DEF HasEdge
      <3>2. CASE parsing.of = o.id.resolved /\ asked.path[2] = name
        <4>1. parsing.of # Attestation!NoPath
          BY <1>2, <3>2, WorkTypes DEF Working, Recorded, Attested
        <4>2. new \in N.edges /\ new.from = o.id.resolved /\ new.to.path[2] = name
          BY <1>3, <1>9, <1>10, <3>2, <4>1
        <4> QED BY <4>2 DEF HasEdge
      <3> QED BY <1>2, <2>1, <3>1, <3>2 DEF Working, CoversInv
    <2> QED BY <1>1, <1>9, <2>1 DEF CoversInv
  <1>19. ListsInv(N, between, disk)'
    BY <1>1, <1>2 DEF Working, ListsInv
  <1>20. QueueInv(N, between, disk)'
    <2>1. ASSUME NEW q \in NamesIn(queue')
          PROVE  /\ Attested(q, between, disk)
                 /\ q.path = Root \/ \E e \in N.edges : e.to.resolved = q.resolved
      <3>1. CASE q \in NamesIn(queue)
        BY <1>2, <1>9, <3>1 DEF Working, QueueInv
      <3>2. CASE q = id
        BY <1>6, <1>9, <1>10, <1>13, <3>2
      <3> QED BY <1>8, <2>1, <3>1, <3>2
    <2>2. ASSUME NEW e \in N.edges
          PROVE  Is(N, e.to.resolved) \/ \E q \in NamesIn(queue') : q.resolved = e.to.resolved
      <3>1. CASE e \in R.edges
        BY <1>2, <1>8, <1>9, <3>1 DEF Working, QueueInv, Is
      <3>2. CASE e = new
        BY <1>8, <1>9, <1>10, <3>2 DEF Is
      <3> QED BY <1>9, <2>2, <3>1, <3>2
    <2>3. CASE parsing.of = Attestation!NoPath
      <3>1. ~Is(R, id.resolved) /\ queue' = Append(<<>>, id)
        BY <1>1, <1>4, <1>13, <2>3 DEF Is
      <3>2. queue' # <<>> /\ Head(queue') = id
        BY <1>7, <3>1
      <3>3. N.objects = {} /\ attestation_pc' = "parse" /\ Head(queue').path = Root
        BY <1>1, <1>9, <1>13, <2>3, <3>2
      <3> QED BY <1>1, <1>8, <2>1, <2>2, <3>2, <3>3 DEF QueueInv
    <2>4. CASE parsing.of # Attestation!NoPath
      <3>1. \E o \in N.objects : o.id.path = Root
        BY <1>1, <1>2, <1>9, <2>4 DEF Working, QueueInv, Asking
      <3> QED BY <1>1, <1>8, <2>1, <2>2, <3>1 DEF QueueInv
    <2> QED BY <2>3, <2>4
  <1>21. Working(N, between, disk)'
    BY <1>1, <1>14, <1>15, <1>16, <1>17, <1>18, <1>19, <1>20 DEF Working
  <1> QED BY <1>1, <1>2, <1>9, <1>21, <1>0, AgreeKept

(* The object at the head of the queue is recorded, unless it is known.    *)
LEMMA ParseAgrees ==
  ASSUME Attestation!ContentAssumption, AgreeInv, AttestationInv, Attestation!Parse
  PROVE  AgreeInv'
  <1> DEFINE R == result[round]
             id == Head(queue)
             file == Attestation!Follow(id.file, disk)
             needs == Attestation!At(file, disk).needs
             new == [id |-> id, needs |-> needs]
  <1>0. PICK N : N = result'[round]
    OBVIOUS
  <1>1. /\ verdict = "none" /\ verdict' # "accepted" /\ attestation_pc = "parse"
        /\ UNCHANGED <<disk, between, round, asked, digest, listed>>
        /\ queue # <<>> /\ queue' = Tail(queue)
        /\ \/ verdict' = "refused" /\ UNCHANGED result
           \/ /\ Attestation!Known(id.resolved) /\ verdict' = "none"
              /\ UNCHANGED <<result, parsing, attestation_pc>>
           \/ /\ ~Attestation!Known(id.resolved) /\ verdict' = "none"
              /\ disk[file] # 0 /\ attestation_pc' = "needs"
              /\ parsing' = [of |-> id.resolved, needs |-> needs]
              /\ result' = [result EXCEPT ![round].objects = @ \cup {new}]
    BY DEF Attestation!Parse, Attestation!Goto, Attestation!Refuse, Attestation!world,
           Attestation!Exists
  <1>2. Working(R, between, disk) /\ round \in 1 .. 2 /\ IsDisk(disk)
    BY <1>1, WorkTypes
  <1>3. Attestation!Known(id.resolved) = Is(R, id.resolved)
    BY DEF Attestation!Known, Is
  <1>4. /\ id \in Identities /\ queue' \in Seq(Identities)
        /\ NamesIn(queue) = {id} \cup NamesIn(queue')
    BY <1>1, <1>2, OneLess DEF Working, QueueInv
  <1>5. /\ Attested(id, between, disk)
        /\ id.path = Root \/ \E e \in R.edges : e.to.resolved = id.resolved
        /\ \A q \in NamesIn(queue') :
             /\ Attested(q, between, disk)
             /\ q.path = Root \/ \E e \in R.edges : e.to.resolved = q.resolved
    BY <1>2, <1>4 DEF Working, QueueInv
  <1>6. parsing.of = Attestation!NoPath /\ asked.path = Attestation!NoPath
    BY <1>1, <1>2 DEF Working, ParsesInv, AsksInv, Asking
  <1>7. \A o \in R.objects : \A name \in NamesIn(o.needs) : HasEdge(R, o.id.resolved, name)
    BY <1>1, <1>2, <1>6, WorkTypes DEF Working, CoversInv, Recorded, Attested, Asking
  <1>8. CASE verdict' = "refused"
    <2>1. \A k \in 1 .. 2 : k # round => result'[k] = result[k]
      BY <1>1, <1>8
    <2> QED BY <1>0, <1>1, <1>2, <1>8, <2>1, AgreeKept
  <1>9. CASE /\ Attestation!Known(id.resolved) /\ UNCHANGED <<result, parsing, attestation_pc>>
    <2>1. N = R
      BY <1>0, <1>9
    <2> HIDE DEF R, id, file, needs, new
    <2>2. Is(R, id.resolved) /\ R.objects # {}
      BY <1>3, <1>9 DEF Is
    <2>3. \A e \in R.edges : \/ Is(R, e.to.resolved)
                             \/ \E q \in NamesIn(queue') : q.resolved = e.to.resolved
      BY <1>2, <1>4, <2>2 DEF Working, QueueInv
    <2>4. \E o \in R.objects : o.id.path = Root
      BY <1>1, <1>2, <2>2 DEF Working, QueueInv, Asking
    <2>5. QueueInv(N, between, disk)'
      BY <1>1, <1>4, <1>5, <2>1, <2>3, <2>4 DEF QueueInv
    <2>6. /\ AsksInv(N, between, disk)' /\ ListsInv(N, between, disk)'
          /\ ParsesInv(N)' /\ CoversInv(N)'
      BY <1>1, <1>2, <1>9, <2>1 DEF Working, AsksInv, ParsesInv, CoversInv, ListsInv, Asking
    <2>7. Working(N, between, disk)'
      BY <1>1, <1>2, <2>1, <2>5, <2>6 DEF Working
    <2> QED BY <1>0, <1>1, <1>2, <1>9, <2>7, AgreeKept
  <1>10. CASE /\ ~Attestation!Known(id.resolved) /\ disk[file] # 0 /\ attestation_pc' = "needs"
              /\ parsing' = [of |-> id.resolved, needs |-> needs]
              /\ result' = [result EXCEPT ![round].objects = @ \cup {new}]
    <2>1. /\ id.file \in Paths /\ id.resolved \in Paths
          /\ HadVersion(id.file, id.version, between, disk) /\ IsFile(id.file, id.version)
      BY <1>5 DEF Attested, Chained
    <2>2. file \in Paths
      BY <1>2, <2>1, FollowType
    <2>3. needs \in Seq(STRING)
      <3>1. disk[file] \in 1 .. Len(Content[file])
        BY <1>10, <2>2, WorkTypes
      <3> QED BY <2>2, <3>1, DiskContent DEF Attestation!At
    <2>4. disk[id.file] = id.version => needs = Content[id.file][id.version].needs
      <3> SUFFICES ASSUME disk[id.file] = id.version
                   PROVE  needs = Content[id.file][id.version].needs
        OBVIOUS
      <3>1. id.file \notin Attestation!Links(disk)
        BY <2>1 DEF Attestation!Links, Attestation!IsLink, Attestation!At, IsFile
      <3>2. file = id.file
        BY <3>1 DEF Attestation!Follow
      <3> QED BY <3>2 DEF Attestation!At
    <2>5. new.id = id /\ new.needs = needs
      OBVIOUS
    <2>6. parsing'.of = id.resolved /\ parsing'.needs = needs /\ DOMAIN parsing' = {"of", "needs"}
      BY <1>10
    <2>7. /\ N.objects = R.objects \cup {new} /\ N.edges = R.edges /\ N.tree = R.tree
          /\ \A k \in 1 .. 2 : k # round => result'[k] = result[k]
      <3>1. DOMAIN result = 1 .. 2 /\ DOMAIN R = Result
        BY <1>2 DEF AttestationInv, ResultInv
      <3> HIDE DEF new
      <3> QED BY <1>0, <1>10, <1>2, <3>1 DEF Result
    <2> HIDE DEF R, id, file, needs, new
    <2>8. Recorded(N, between, disk)
      <3>1. \A o \in N.objects :
              /\ Attested(o.id, between, disk) /\ o.needs \in Seq(STRING)
              /\ disk[o.id.file] = o.id.version
                   => o.needs = Content[o.id.file][o.id.version].needs
        BY <1>2, <1>5, <2>3, <2>4, <2>5, <2>7 DEF Working, Recorded
      <3>2. \A e \in N.edges :
              /\ Attested(e.to, between, disk) /\ FoundFirst(e.to.path, between, disk)
              /\ \E o \in N.objects : o.id.resolved = e.from /\ e.to.path[2] \in NamesIn(o.needs)
        BY <1>2, <2>7 DEF Working, Recorded
      <3> QED BY <1>2, <2>7, <3>1, <3>2 DEF Working, Recorded
    <2>9. Connected(N)
      <3> SUFFICES ASSUME NEW S \in SUBSET Paths,
                          \A o \in N.objects : o.id.path = Root => o.id.resolved \in S,
                          \A e \in N.edges : e.from \in S => e.to.resolved \in S
                   PROVE  \A o \in N.objects : o.id.resolved \in S
        BY DEF Connected
      <3>1. \A o \in R.objects : o.id.resolved \in S
        BY <1>2, <2>7 DEF Working, Connected
      <3>2. id.resolved \in S
        <4>1. CASE id.path = Root
          BY <2>5, <2>7, <4>1
        <4>2. CASE \E e \in R.edges : e.to.resolved = id.resolved
          <5>1. PICK e \in R.edges : e.to.resolved = id.resolved
            BY <4>2
          <5>2. e.from \in S
            BY <1>2, <3>1 DEF Working, Recorded
          <5> QED BY <2>7, <5>1, <5>2
        <4> QED BY <1>5, <4>1, <4>2
      <3> QED BY <2>5, <2>7, <3>1, <3>2
    <2>10. AsksInv(N, between, disk)'
      BY <1>1, <1>2, <1>6, <1>10 DEF Working, AsksInv, Asking
    <2>11. ParsesInv(N)'
      BY <1>10, <2>1, <2>3, <2>5, <2>6, <2>7, WorkTypes DEF ParsesInv
    <2>12. QueueInv(N, between, disk)'
      <3>1. Is(N, id.resolved) /\ \A path : Is(R, path) => Is(N, path)
        BY <2>5, <2>7 DEF Is
      <3>2. \A e \in N.edges : \/ Is(N, e.to.resolved)
                               \/ \E q \in NamesIn(queue') : q.resolved = e.to.resolved
        BY <1>2, <1>4, <2>7, <3>1 DEF Working, QueueInv
      <3>3. \E o \in N.objects : o.id.path = Root
        BY <1>1, <1>2, <1>6, <2>5, <2>7 DEF Working, QueueInv, Asking, id
      <3> QED BY <1>1, <1>4, <1>5, <2>7, <3>2, <3>3 DEF QueueInv
    <2>13. CoversInv(N)'
      <3>1. \A path, name : HasEdge(R, path, name) => HasEdge(N, path, name)
        BY <2>7 DEF HasEdge
      <3> QED BY <1>7, <2>5, <2>6, <2>7, <3>1 DEF CoversInv
    <2>14. ListsInv(N, between, disk)'
      BY <1>1, <1>2, <1>10 DEF Working, ListsInv
    <2>15. Working(N, between, disk)'
      BY <1>1, <2>8, <2>9, <2>10, <2>11, <2>12, <2>13, <2>14 DEF Working
    <2> QED BY <1>0, <1>1, <1>2, <2>7, <2>15, AgreeKept
  <1> QED BY <1>1, <1>8, <1>9, <1>10

LEMMA TreeAgrees ==
  ASSUME Attestation!ContentAssumption, AgreeInv, AttestationInv,
         Attestation!ListTree \/ Attestation!HashEntry
  PROVE  AgreeInv'
  <1> DEFINE R == result[round]
  <1>0. PICK N : N = result'[round]
    OBVIOUS
  <1>1. /\ verdict = "none" /\ verdict' = "none" /\ attestation_pc' = "tree"
        /\ UNCHANGED <<disk, between, round, asked, digest, queue, parsing>>
    BY DEF Attestation!ListTree, Attestation!HashEntry, Attestation!Goto, Attestation!world
  <1>2. Working(R, between, disk) /\ round \in 1 .. 2
    BY <1>1, WorkTypes
  <1>3. CASE Attestation!ListTree
    <2>1. /\ attestation_pc = "parse" /\ queue = <<>> /\ UNCHANGED result
          /\ listed' = {p \in Tree : disk[p] # 0}
      BY <1>3 DEF Attestation!ListTree, Attestation!Goto, Attestation!Exists
    <2>2. N = R
      BY <1>0, <2>1
    <2> HIDE DEF R
    <2>3. ListsInv(N, between, disk)'
      <3>1. ASSUME NEW p \in Tree, between[p] # 0 PROVE disk[p] # 0
        <4>1. p \in Paths
          BY DEF Attestation!ContentAssumption
        <4>2. between[p] \in Nat /\ disk[p] \in Nat /\ between[p] <= disk[p]
          BY <4>1, WorkTypes
        <4> QED BY <3>1, <4>2
      <3> QED BY <1>1, <2>1, <3>1 DEF ListsInv
    <2>4. /\ AsksInv(N, between, disk)' /\ QueueInv(N, between, disk)'
          /\ ParsesInv(N)' /\ CoversInv(N)'
      BY <1>1, <1>2, <2>1, <2>2 DEF Working, AsksInv, ParsesInv, CoversInv, QueueInv, Asking
    <2>5. Working(N, between, disk)'
      BY <1>1, <1>2, <2>2, <2>3, <2>4 DEF Working
    <2> QED BY <1>0, <1>1, <1>2, <2>1, <2>5, AgreeKept
  <1>4. CASE Attestation!HashEntry
    <2>1. PICK p \in listed :
            /\ listed' = listed \ {p} /\ attestation_pc = "tree"
            /\ result' = [result EXCEPT ![round].tree =
                            @ \cup {[path |-> p, version |-> disk[p]]}]
      BY <1>4 DEF Attestation!HashEntry, Attestation!Goto
    <2> DEFINE new == [path |-> p, version |-> disk[p]]
    <2>2. p \in Tree /\ p \in Paths /\ disk[p] # 0
      BY <1>2 DEF Working, ListsInv, Attestation!ContentAssumption
    <2>3. /\ new.path = p /\ new = [path |-> new.path, version |-> new.version]
          /\ HadVersion(new.path, new.version, between, disk)
      BY <2>2, WorkTypes
    <2>4. /\ N.objects = R.objects /\ N.edges = R.edges /\ N.tree = R.tree \cup {new}
          /\ \A k \in 1 .. 2 : k # round => result'[k] = result[k]
      <3>1. DOMAIN result = 1 .. 2 /\ DOMAIN R = Result
        BY <1>2 DEF AttestationInv, ResultInv
      <3>2. result' = [result EXCEPT ![round].tree = @ \cup {new}]
        BY <2>1
      <3> HIDE DEF new
      <3> QED BY <1>0, <1>2, <3>1, <3>2 DEF Result
    <2> HIDE DEF R, new
    <2>5. Recorded(N, between, disk)
      BY <1>2, <2>2, <2>3, <2>4 DEF Working, Recorded
    <2>6. Connected(N)
      BY <1>2, <2>4 DEF Working, Connected
    <2>7. ListsInv(N, between, disk)'
      <3>1. \A q : Hashed(R, q) => Hashed(N, q)
        BY <2>4 DEF Hashed
      <3>2. Hashed(N, p)
        BY <2>3, <2>4 DEF Hashed
      <3> QED BY <1>1, <1>2, <2>1, <3>1, <3>2 DEF Working, ListsInv
    <2>8. AsksInv(N, between, disk)' /\ ParsesInv(N)'
      BY <1>1, <1>2, <2>1, <2>4 DEF Working, AsksInv, ParsesInv, Asking
    <2>9. CoversInv(N)'
      BY <1>1, <1>2, <2>1, <2>4 DEF Working, CoversInv, HasEdge, Asking
    <2>10. QueueInv(N, between, disk)'
      BY <1>1, <1>2, <2>1, <2>4 DEF Working, QueueInv, Is, Asking
    <2>11. Working(N, between, disk)'
      BY <1>1, <2>5, <2>6, <2>7, <2>8, <2>9, <2>10 DEF Working
    <2> QED BY <1>0, <1>1, <1>2, <2>4, <2>11, AgreeKept
  <1> QED BY <1>3, <1>4

(* An attestation starts with the executable, and nothing recorded.        *)
LEMMA WorkingStarts ==
  ASSUME Attestation!ContentAssumption, NEW lo, NEW hi,
         attestation_pc = "link", asked = Attestation!Asking(Root), queue = <<>>,
         parsing.of = Attestation!NoPath, parsing.needs \in Seq(STRING),
         DOMAIN parsing = {"of", "needs"}, listed = {}
  PROVE  Working(Attestation!NoResult, lo, hi)
  <1> DEFINE R == Attestation!NoResult
  <1>1. R.objects = {} /\ R.edges = {} /\ R.tree = {}
    BY DEF Attestation!NoResult
  <1>2. /\ asked.path = Root /\ asked.current = Root /\ asked.links = <<>>
        /\ DOMAIN asked = {"path", "current", "links"} /\ Root \in Paths
    BY DEF Attestation!Asking, Attestation!ContentAssumption
  <1> HIDE DEF R
  <1>3. Chained(Root, <<>>, Root, lo, hi)
    BY <1>2 DEF Chained, NamesIn, PathsOf
  <1>4. Recorded(R, lo, hi) /\ Connected(R) /\ CoversInv(R)
    BY <1>1 DEF Recorded, Connected, CoversInv
  <1>5. AsksInv(R, lo, hi) /\ ParsesInv(R) /\ ListsInv(R, lo, hi)
    BY <1>1, <1>2, <1>3 DEF AsksInv, ParsesInv, ListsInv, Asking
  <1>6. QueueInv(R, lo, hi)
    BY <1>1 DEF QueueInv, NamesIn, Asking
  <1>7. Working(R, lo, hi)
    BY <1>4, <1>5, <1>6 DEF Working
  <1> QED BY <1>7 DEF R

LEMMA EndRoundAgrees ==
  ASSUME Attestation!ContentAssumption, AgreeInv, AttestationInv, Attestation!EndRound
  PROVE  AgreeInv'
  <1>1. /\ verdict = "none" /\ attestation_pc = "tree" /\ listed = {}
        /\ UNCHANGED <<disk, digest, queue, parsing, listed, result>>
    BY DEF Attestation!EndRound, Attestation!world
  <1>2. Working(result[round], between, disk) /\ IsDisk(disk) /\ IsDisk(between)
    BY <1>1, WorkTypes
  <1>3. Complete(result[round], between, disk)
    BY <1>1, <1>2, WorkedComplete
  <1>4. CASE /\ round = 1 /\ round' = 2 /\ between' = disk /\ attestation_pc' = "link"
             /\ asked' = Attestation!Asking(Root) /\ UNCHANGED verdict
    <2>1. Complete(result[1], Installed, disk) /\ Later(Installed, disk) /\ Later(disk, disk)
      <3>1. between = Installed
        BY <1>4 DEF AgreeInv
      <3> QED BY <1>2, <1>3, <1>4, <3>1 DEF AgreeInv, Later, IsDisk, Attestation!ContentAssumption
    <2>2. queue = <<>> /\ parsing.of = Attestation!NoPath
      BY <1>1, <1>2 DEF Working, ListsInv, ParsesInv
    <2>3. parsing.needs \in Seq(STRING) /\ DOMAIN parsing = {"of", "needs"}
      BY <1>2 DEF Working, ParsesInv
    <2>4. Working(Attestation!NoResult, disk, disk)'
      <3> DEFINE R == Attestation!NoResult
      <3>1. R.objects = {} /\ R.edges = {} /\ R.tree = {}
        BY DEF Attestation!NoResult
      <3>2. /\ asked'.path = Root /\ asked'.current = Root /\ asked'.links = <<>>
            /\ DOMAIN asked' = {"path", "current", "links"} /\ Root \in Paths
        BY <1>4 DEF Attestation!Asking, Attestation!ContentAssumption
      <3> HIDE DEF R
      <3>3. Chained(Root, <<>>, Root, disk, disk)
        BY <3>2 DEF Chained, NamesIn, PathsOf
      <3>4. Recorded(R, disk, disk) /\ Connected(R) /\ CoversInv(R)'
        BY <3>1 DEF Recorded, Connected, CoversInv
      <3>5. AsksInv(R, disk, disk)' /\ ParsesInv(R)' /\ ListsInv(R, disk, disk)'
        BY <1>1, <1>4, <2>2, <2>3, <3>1, <3>2, <3>3 DEF AsksInv, ParsesInv, ListsInv, Asking
      <3>6. QueueInv(R, disk, disk)'
        BY <1>1, <1>4, <2>2, <3>1 DEF QueueInv, NamesIn, Asking
      <3>7. Working(R, disk, disk)'
        BY <1>1, <3>4, <3>5, <3>6 DEF Working
      <3> QED BY <3>7 DEF R
    <2>5. result'[2] = Attestation!NoResult
      BY <1>1, <1>4 DEF AgreeInv
    <2> QED BY <1>1, <1>2, <1>4, <2>1, <2>4, <2>5 DEF AgreeInv
  <1>5. CASE /\ round = 2
             /\ verdict' = (IF Attestation!SameRuntime THEN "accepted" ELSE "refused")
             /\ UNCHANGED <<round, between, attestation_pc, asked>>
    <2>1. Working(result[round], between, disk)'
      BY <1>1, <1>2, <1>5, WorkingSame DEF WorkVars
    <2> QED BY <1>1, <1>5, <2>1 DEF AgreeInv, Attestation!SameRuntime
  <1> QED BY <1>4, <1>5 DEF Attestation!EndRound

LEMMA EditAgrees ==
  ASSUME Attestation!ContentAssumption, AgreeInv, AttestationInv, Attestation!Edit
  PROVE  AgreeInv'
  <1>1. PICK p \in Paths : disk[p] < Len(Content[p]) /\ disk' = [disk EXCEPT ![p] = @ + 1]
    BY DEF Attestation!Edit
  <1>2. UNCHANGED <<round, WorkVars, result, between, verdict>>
    BY DEF Attestation!Edit, Attestation!work, WorkVars
  <1>3. PICK next : next = disk'
    OBVIOUS
  <1>4. IsDisk(next) /\ Later(disk, next) /\ Later(between, next)
    <2>1. \A q \in Paths : next[q] = IF q = p THEN disk[q] + 1 ELSE disk[q]
      BY <1>1, <1>3 DEF AttestationInv, ResultInv
    <2> QED BY <1>1, <2>1, WorkTypes DEF IsDisk, Later
  <1>5. verdict # "refused" => Working(result[round], between, next)
    BY <1>4, WorkingLater, WorkTypes
  <1>6. \A R, lo : Working(R, lo, next) => Working(R, lo, next)'
    BY <1>2, WorkingSame
  <1>7. verdict' # "refused" => Working(result[round], between, disk)'
    BY <1>2, <1>3, <1>5, <1>6
  <1>8. round' = 2 => Complete(result[1], Installed, between)'
    BY <1>2 DEF AgreeInv
  <1> QED BY <1>2, <1>3, <1>4, <1>7, <1>8 DEF AgreeInv, WorkVars

LEMMA AgreeInit ==
  ASSUME Attestation!ContentAssumption, Attestation!Init
  PROVE  AgreeInv
  <1>1. /\ disk = Installed /\ between = Installed /\ round = 1 /\ attestation_pc = "link"
        /\ asked = Attestation!Asking(Root) /\ queue = <<>> /\ listed = {}
        /\ result = <<Attestation!NoResult, Attestation!NoResult>> /\ verdict = "none"
        /\ parsing = Attestation!NotParsing
    BY DEF Attestation!Init
  <1>2. /\ parsing.of = Attestation!NoPath /\ parsing.needs \in Seq(STRING)
        /\ DOMAIN parsing = {"of", "needs"}
    BY <1>1 DEF Attestation!NotParsing
  <1>3. Working(Attestation!NoResult, between, disk)
    BY <1>1, <1>2, WorkingStarts
  <1>4. result[1] = Attestation!NoResult /\ result[2] = Attestation!NoResult
    BY <1>1
  <1>5. IsDisk(Installed) /\ Later(Installed, Installed)
    BY DEF IsDisk, Later, Attestation!ContentAssumption
  <1> QED BY <1>1, <1>3, <1>4, <1>5 DEF AgreeInv

LEMMA AgreeStep ==
  ASSUME Attestation!ContentAssumption, AgreeInv, AttestationInv,
         [Attestation!Next]_Attestation!vars
  PROVE  AgreeInv'
  <1>1. CASE UNCHANGED Attestation!vars
    <2>1. UNCHANGED <<disk, round, result, between, verdict>> /\ UNCHANGED WorkVars
      BY <1>1 DEF Attestation!vars, Attestation!world, Attestation!work, WorkVars
    <2>2. verdict' # "refused" => Working(result[round], between, disk)'
      BY <2>1, WorkingSame, WorkTypes
    <2> QED BY <2>1, <2>2 DEF AgreeInv, WorkVars
  <1>2. CASE Attestation!Edit
    BY <1>2, EditAgrees
  <1>3. CASE Attestation!Attest
    BY <1>3, NextLinkAgrees, PassAgrees, ResolveAgrees, ParseAgrees, NeedAgrees, TreeAgrees,
       EndRoundAgrees DEF Attestation!Attest
  <1> QED BY <1>1, <1>2, <1>3 DEF Attestation!Next

-----------------------------------------------------------------------------
(* The four together.                                                      *)

SuiteInv == /\ ContainedInv /\ CommandInv /\ OwnerInv /\ LaunchInv
            /\ AttestationInv /\ AgreeInv

(* A step is one of the component that runs; the others stay.              *)
LEMMA UnitSteps ==
  ASSUME [SuiteNext]_all
  PROVE  /\ unit' = unit
         /\ [Contained!Next]_Contained!vars /\ [Command!Next]_Command!vars
         /\ [Launch!Next]_Launch!vars /\ [Attestation!Next]_Attestation!vars
  <1> USE DEF Still, Contained!vars, Contained!tree, Contained!files,
              Contained!history, Command!vars, Command!processes, Command!capture,
              Command!notes, Launch!vars, Launch!report, Launch!processes, Attestation!vars,
              Attestation!world, Attestation!work
  <1>1. CASE UNCHANGED all
    BY <1>1 DEF all
  <1>2. CASE SuiteNext
    <2>1. unit' = unit /\ Still
      BY <1>2 DEF SuiteNext
    <2>2. CASE unit = "contained" /\ Contained!Next
      BY <2>1, <2>2
    <2>3. CASE unit = "command" /\ Command!Next
      BY <2>1, <2>3
    <2>4. CASE unit = "launch" /\ Launch!Next
      BY <2>1, <2>4
    <2>5. CASE unit = "attestation" /\ Attestation!Next
      BY <2>1, <2>5
    <2> QED BY <1>2, <2>2, <2>3, <2>4, <2>5 DEF SuiteNext
  <1> QED BY <1>1, <1>2

LEMMA SuiteInitInv == ASSUME SuiteInit PROVE SuiteInv
  <1>1. Contained!Init /\ Command!Init /\ Launch!Init /\ Attestation!Init
    BY DEF SuiteInit
  <1>2. ContainedInv
    BY <1>1, ContainedInit, ParametersAssumption
  <1>3. CommandInv /\ AttestationInv /\ AgreeInv
    BY <1>1, CommandInit, AttestationInit, AgreeInit, ParametersAssumption
  <1>4. OwnerInv /\ LaunchInv
    BY <1>1, OwnerInit, LaunchInit, ParametersAssumption
  <1> QED BY <1>2, <1>3, <1>4 DEF SuiteInv

LEMMA SuiteInvStep == ASSUME SuiteInv, [SuiteNext]_all PROVE SuiteInv'
  <1>1. /\ [Contained!Next]_Contained!vars /\ [Command!Next]_Command!vars
        /\ [Launch!Next]_Launch!vars /\ [Attestation!Next]_Attestation!vars
    BY UnitSteps
  <1>2. ContainedInv'
    BY <1>1, ContainedStep, ParametersAssumption DEF SuiteInv
  <1>3. CommandInv'
    BY <1>1, CommandInvStep, ParametersAssumption DEF SuiteInv
  <1>4. OwnerInv' /\ LaunchInv'
    BY <1>1, OwnerStep, LaunchStep, ParametersAssumption DEF SuiteInv
  <1>5. AttestationInv' /\ AgreeInv'
    BY <1>1, AttestationStep, AgreeStep, ParametersAssumption DEF SuiteInv
  <1> QED BY <1>2, <1>3, <1>4, <1>5 DEF SuiteInv

(* Every component satisfies its invariant in every state, for every value *)
(* of the constants.                                                       *)
THEOREM SuiteInvariance == SuiteSpec => []SuiteInv
  <1>1. SuiteInit => SuiteInv
    BY SuiteInitInv
  <1>2. SuiteInv /\ [SuiteNext]_all => SuiteInv'
    BY SuiteInvStep
  <1> QED BY <1>1, <1>2, PTL DEF SuiteSpec

(* The variables of every component have their types, with what its module *)
(* says of them together: whoever has an evaluator has consumed a repeat,  *)
(* and an attestation records every object once.                           *)
THEOREM TypeCorrect == SuiteSpec => []TypeOK
  <1>1. ASSUME SuiteInv PROVE Contained!TypeOK /\ Command!TypeOK /\ Launch!TypeOK
    BY <1>1, ContainedPromises, CommandPromises, LaunchPromises,
             ParametersAssumption DEF SuiteInv
  <1>2. SuiteInv => TypeOK
    BY <1>1 DEF TypeOK, SuiteInv, AttestationInv
  <1> QED BY <1>2, SuiteInvariance, PTL

(* An accepted record, and a receipt that says validated, mean that        *)
(* nothing of the command is left, however deep it forked, whatever group  *)
(* it moved to and however many launches there were; ECHILD is noted only  *)
(* when that is so (_drain_descendants, the drain of _launch_repeat).      *)
THEOREM ContainedCorrect == SuiteSpec => []AcceptedIsContained
  <1>1. ASSUME SuiteInv PROVE Launch!ValidatedIsContained
    BY <1>1, LaunchPromises, ParametersAssumption DEF SuiteInv
  <1>2. ASSUME SuiteInv PROVE Contained!AcceptedIsContained /\ Contained!EchildIsTerminal
    BY <1>2, ContainedPromises, ParametersAssumption DEF SuiteInv
  <1>3. SuiteInv => AcceptedIsContained
    BY <1>1, <1>2 DEF AcceptedIsContained
  <1> QED BY <1>3, SuiteInvariance, PTL

(* One record path runs its command at most once, and one repeat of a      *)
(* series its evaluator, whatever interrupts, kills, power losses and      *)
(* other launches come in between (_write_record, the marker's os.link).   *)
THEOREM OnceCorrect == SuiteSpec => []RunsOnce
  <1>1. ASSUME SuiteInv PROVE Contained!RunsOnce
    BY <1>1, ContainedPromises, ParametersAssumption DEF SuiteInv
  <1>2. SuiteInv => RunsOnce
    BY <1>1, OwnersDiffer DEF RunsOnce, SuiteInv
  <1> QED BY <1>2, SuiteInvariance, PTL

(* An accepted command has seen one runtime, the attested one, all along;  *)
(* and two attestations that agree describe what the loader would find in  *)
(* the directories at the moment between them: every object and no other,  *)
(* its bytes, where each of its needs is, and the tree (_attest_request    *)
(* before, just before and after; attest_elf_closure, _tree_identity).     *)
THEOREM ExactCorrect == SuiteSpec => []AcceptedIsExact
  <1>1. ASSUME SuiteInv PROVE Contained!AcceptedIsExact /\ Attestation!AcceptedIsExact
    BY <1>1, ContainedPromises, AgreePromises, ParametersAssumption DEF SuiteInv
  <1>2. SuiteInv => AcceptedIsExact
    BY <1>1 DEF AcceptedIsExact
  <1> QED BY <1>2, SuiteInvariance, PTL

(* A calibration command that returns is complete: its group is gone and   *)
(* the digests of both streams cover every byte, for pipes of any size and *)
(* outputs of any length.  However it ends, one it left behind was         *)
(* noticed, and is reported unless a signal replaces the report            *)
(* (_execute_argv, _stop_process_group).                                   *)
THEOREM ReturnedCorrect == SuiteSpec => []ReturnedIsComplete
  <1>1. SuiteInv => ReturnedIsComplete
    BY CommandPromises DEF ReturnedIsComplete, SuiteInv
  <1> QED BY <1>1, SuiteInvariance, PTL

(* An evaluator starts only when every earlier repeat has a receipt that   *)
(* says validated, under the contract and the runtime of this launch, and  *)
(* each receipt states the validation of the one before it                 *)
(* (_validate_previous_record), for a series of any length.                *)
THEOREM SeriesCorrect == SuiteSpec => []SeriesAgrees
  <1>1. SuiteInv => SeriesAgrees
    BY LaunchPromises, ParametersAssumption DEF SeriesAgrees, SuiteInv
  <1> QED BY <1>1, SuiteInvariance, PTL

(* The evaluator leaves its exec stop only after the inspection, or dead   *)
(* (_run_traced_process).                                                  *)
THEOREM InspectedCorrect == SuiteSpec => RunsInspected
  <1>1. ASSUME SuiteInv, [SuiteNext]_all PROVE Launch!RunsInspectedStep
    BY <1>1, UnitSteps, InspectedStep, ParametersAssumption DEF SuiteInv
  <1>2. SuiteInv /\ [SuiteNext]_all => (unit = "launch" => Launch!RunsInspectedStep)
    BY <1>1
  <1> QED BY <1>2, SuiteInvariance, PTL DEF SuiteSpec, RunsInspected
=============================================================================
