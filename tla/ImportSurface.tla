------------------------------ MODULE ImportSurface ------------------------------
(***************************************************************************)
(* The Python import surface of the llama.cpp checkout                     *)
(* (convert_code_gguf._assert_llama_python_import_surface): a walk notes   *)
(* the status of every directory and entry and refuses what could be       *)
(* imported instead of the sources; it is done twice and both must agree.  *)
(* A status is the time of the last change.                                *)
(***************************************************************************)
EXTENDS Integers, Sequences

CONSTANTS Directories,  \* in the order the walk visits them
          Sources,      \* names that belong in a directory
          Forbidden,    \* names of extension modules or sourceless bytecode
          MaxEdits

Dirs == {Directories[i] : i \in DOMAIN Directories}
DirectoryAssumption == Directories \in Seq(Dirs) /\ Directories # <<>>
Paths == Dirs \X (Sources \cup Forbidden)
Absent == -1

VARIABLES entry,    \* change time of each path, or absent
          changed,  \* change time of each directory
          edits,
          round, at,  \* the walk, and the directory it is in
          names,    \* names listed there and still to be looked at
          walked,   \* statuses noted in each walk
          clean,    \* the surface was clean when the second walk began
          verdict

world == <<entry, changed, edits>>
vars == <<world, round, at, names, walked, clean, verdict>>

Present(p) == entry[p] # Absent
Clean == \A d \in Dirs, n \in Forbidden : ~Present(<<d, n>>)

Init == /\ entry \in {[p \in Paths |-> IF p \in there THEN 0 ELSE Absent] :
                        there \in {Dirs \X Sources, {p \in Paths : p[1] = Directories[1]}}}
        /\ changed = [d \in Dirs |-> 0] /\ edits = 0
        /\ round = 1 /\ at = 0 /\ names = {} /\ walked = <<{}, {}>>
        /\ clean = FALSE /\ verdict = "none"

(* Entries are written in place, created and removed.                      *)
Edit == /\ edits < MaxEdits /\ verdict = "none" /\ edits' = edits + 1
        /\ \E p \in Paths :
             \/ /\ Present(p) /\ entry' = [entry EXCEPT ![p] = edits + 1]
                /\ UNCHANGED changed
             \/ /\ entry' = [entry EXCEPT ![p] = IF Present(p) THEN Absent ELSE edits + 1]
                /\ changed' = [changed EXCEPT ![p[1]] = edits + 1]
        /\ UNCHANGED <<round, at, names, walked, clean, verdict>>

Note(status) == walked' = [walked EXCEPT ![round] = @ \cup {status}]

(* The next directory is listed, then its status noted.                    *)
Itself == "."
NameAssumption == Itself \notin Forbidden
Enter == /\ verdict = "none" /\ names = {} /\ at < Len(Directories) /\ at' = at + 1
         /\ names' = {Itself} \cup {n \in Sources \cup Forbidden :
                                      Present(<<Directories[at + 1], n>>)}
         /\ clean' = IF round = 2 /\ at = 0 THEN Clean ELSE clean
         /\ UNCHANGED <<world, round, walked, verdict>>
NoteDirectory == /\ Itself \in names /\ names' = names \ {Itself}
                 /\ Note([of |-> <<Directories[at], Itself>>, time |-> changed[Directories[at]]])
                 /\ UNCHANGED <<world, round, at, clean, verdict>>

(* A forbidden name, or one that is gone, refuses.                         *)
Accepted(p) == p[2] \notin Forbidden /\ Present(p)
Look == /\ verdict = "none" /\ Itself \notin names
        /\ \E n \in names :
             LET p == <<Directories[at], n>>
             IN /\ names' = names \ {n} /\ Note([of |-> p, time |-> entry[p]])
                /\ verdict' = IF Accepted(p) THEN "none" ELSE "refused"
        /\ UNCHANGED <<world, round, at, clean>>

(* Mutant: the second walk only looks for forbidden names.                 *)
AnyWalk == TRUE
SameWalk == walked[1] = walked[2]
EndWalk == /\ verdict = "none" /\ names = {} /\ at = Len(Directories)
           /\ \/ /\ round = 1 /\ round' = 2 /\ at' = 0 /\ UNCHANGED verdict
              \/ /\ round = 2 /\ verdict' = (IF SameWalk THEN "accepted" ELSE "refused")
                 /\ UNCHANGED <<round, at>>
           /\ UNCHANGED <<world, names, walked, clean>>

Walk == Enter \/ NoteDirectory \/ Look \/ EndWalk
Next == Edit \/ Walk
Spec == Init /\ [][Next]_vars

-----------------------------------------------------------------------------
(* An accepted surface held nothing forbidden at one instant, when the     *)
(* second walk began, whatever appeared and went while both ran (the two   *)
(* snapshots agree).                                                       *)
AcceptedIsClean == verdict = "accepted" => clean
=============================================================================
