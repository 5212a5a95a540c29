----------------------------- MODULE LibraryClosure -----------------------------
(***************************************************************************)
(* Attestation of the llama.cpp runtime                                    *)
(* (convert_code_gguf._runtime_library_closure): the names in build/bin,   *)
(* every symbolic link, every executable and every library, each file read *)
(* chunk by chunk between two looks at its status, then all of it a second *)
(* time, then the status of the directories, while somebody may be writing *)
(* in the directory.  A chunk is the contract's or it is not; a status is  *)
(* the time of the last change.                                            *)
(***************************************************************************)
EXTENDS Integers, Sequences

CONSTANTS Links,     \* symbolic links and files of the contract, in its order
          Files,
          MaxEdits

Entries(s) == {s[i] : i \in DOMAIN s}
NamesAssumption == /\ Links \in Seq(Entries(Links)) /\ Files \in Seq(Entries(Files))
                   /\ "none" \notin Entries(Files)   \* it stands for no file
                   /\ MaxEdits \in Nat
Chunks == 1..2

VARIABLES restores,   \* a write in place may bring the contract's bytes back
          file,       \* contents and change time of each file
          link,       \* target and change time of each link
          directory,  \* whether build/bin holds an extra name, and its change time
          edits,      \* changes so far, the clock
          at, step,   \* the reader's place in its plan and within a file
          known,      \* status of the directory and links, as first seen
          held,       \* status and contents of the file being read
          whole,      \* that file was the contract's at one instant since its status was read
          seen,       \* how it was for every file attested so far
          instant,    \* everything was the contract's when the second pass began
          verdict

world == <<restores, file, link, directory, edits>>
reader == <<at, step, known, held, seen, instant, verdict>>
vars == <<world, reader, whole>>

Whole(f) == \A i \in Chunks : file[f].chunks[i]
NotHeld == [of |-> "none", time |-> 0, chunks |-> <<>>]

(* The plan; the second half repeats the first.                            *)
Task(what, names) == [i \in 1..Len(names) |-> [do |-> what, of |-> names[i]]]
Once(what) == <<[do |-> what, of |-> "none"]>>
FirstPass == Once("status") \o Once("names") \o Task("link", Links) \o Task("file", Files)
SecondPass == Once("again") \o Task("file", Files) \o Task("relink", Links)
              \o Once("names") \o Once("restatus")
Plan == FirstPass \o SecondPass

Init == /\ restores \in BOOLEAN
        /\ file \in [Entries(Files) -> [chunks : [Chunks -> BOOLEAN], time : {0}]]
        /\ link = [l \in Entries(Links) |-> [pinned |-> TRUE, time |-> 0]]
        /\ directory = [extra |-> FALSE, time |-> 0]
        /\ edits = 0 /\ at = 1 /\ step = "none"
        /\ known = [time |-> 0, links |-> <<>>] /\ held = NotHeld
        /\ whole = FALSE /\ seen = <<>> /\ instant = FALSE /\ verdict = "none"

-----------------------------------------------------------------------------
(* The writer.                                                             *)

Touched(record) == [record EXCEPT !.time = edits + 1]
Write(f, i, pinned) ==
  /\ pinned => restores
  /\ file' = [file EXCEPT ![f] = Touched([@ EXCEPT !.chunks[i] = pinned])]
  /\ UNCHANGED <<link, directory>>
(* A rename over an entry, or of a new one, also touches the directory.    *)
Install(f, pinned) ==
  /\ file' = [file EXCEPT ![f] = Touched([@ EXCEPT !.chunks = [i \in Chunks |-> pinned]])]
  /\ directory' = Touched(directory) /\ UNCHANGED link
Relink(l) == /\ link' = [link EXCEPT ![l] = Touched([link[l] EXCEPT !.pinned = ~@])]
             /\ directory' = Touched(directory) /\ UNCHANGED file
Rename == /\ directory' = Touched([directory EXCEPT !.extra = ~@]) /\ UNCHANGED <<file, link>>

Edit == /\ edits < MaxEdits /\ verdict = "none" /\ edits' = edits + 1
        /\ \/ \E f \in Entries(Files), pinned \in BOOLEAN :
                 Install(f, pinned) \/ \E i \in Chunks : Write(f, i, pinned)
           \/ \E l \in Entries(Links) : Relink(l)
           \/ Rename
        /\ UNCHANGED <<restores, reader>>
        /\ whole' = (whole \/ (held # NotHeld /\ Whole(held.of)'))

-----------------------------------------------------------------------------
(* The reader.                                                             *)

Doing(what) == verdict = "none" /\ at <= Len(Plan) /\ Plan[at].do = what
This == Plan[at].of

(* The last task done accepts; anything that is not the contract's, or has *)
(* moved, refuses.                                                         *)
Advance(accepted) ==
  /\ at' = IF accepted THEN at + 1 ELSE at
  /\ verdict' = IF ~accepted THEN "refused"
                ELSE IF at = Len(Plan) THEN "accepted" ELSE "none"
  /\ UNCHANGED world

StatDirectory == /\ Doing("status") /\ Advance(TRUE)
                 /\ known' = [known EXCEPT !.time = directory.time]
                 /\ UNCHANGED <<step, held, whole, seen, instant>>
Names == ~directory.extra
List == Doing("names") /\ Advance(Names) /\ UNCHANGED <<step, known, held, whole, seen, instant>>
ListAgain ==
  /\ Doing("again") /\ Advance(Names)
  /\ instant' = /\ \A f \in Entries(Files) : Whole(f)
                /\ \A l \in Entries(Links) : link[l].pinned
                /\ Names
  /\ UNCHANGED <<step, known, held, whole, seen>>
StatLink == /\ Doing("link") /\ Advance(link[This].pinned)
            /\ known' = [known EXCEPT !.links = Append(@, link[This])]
            /\ UNCHANGED <<step, held, whole, seen, instant>>
StatLinkAgain == /\ Doing("relink")
                 /\ \E i \in DOMAIN Links : Links[i] = This /\ Advance(link[This] = known.links[i])
                 /\ UNCHANGED <<step, known, held, whole, seen, instant>>
(* Mutant: the directory's status is not compared.                         *)
AnyDirectory == TRUE
SameDirectory == directory.time = known.time
StatDirectoryAgain == /\ Doing("restatus") /\ Advance(SameDirectory)
                      /\ UNCHANGED <<step, known, held, whole, seen, instant>>

(* One file: its status, its chunks, its status by descriptor and by name. *)
Open == /\ Doing("file") /\ step = "none" /\ step' = "read"
        /\ held' = [of |-> This, time |-> file[This].time, chunks |-> <<>>]
        /\ whole' = Whole(This)
        /\ UNCHANGED <<world, at, known, seen, instant, verdict>>
Read == /\ step = "read" /\ Len(held.chunks) < 2 /\ verdict = "none"
        /\ held' = [held EXCEPT !.chunks = Append(@, file[held.of].chunks[Len(@) + 1])]
        /\ UNCHANGED <<world, at, step, known, whole, seen, instant, verdict>>
Digested == \A i \in Chunks : held.chunks[i]
(* Mutant: only the digest is compared.                                    *)
DigestOnly == TRUE
Unmoved == file[held.of].time = held.time
Close == /\ step = "read" /\ Len(held.chunks) = 2 /\ verdict = "none"
         /\ LET accepted == Digested /\ Unmoved
            IN /\ Advance(accepted)
               /\ seen' = IF accepted THEN Append(seen, whole) ELSE seen
         /\ step' = "none" /\ held' = NotHeld /\ whole' = FALSE
         /\ UNCHANGED <<known, instant>>

Inspect == \/ StatDirectory \/ List \/ ListAgain \/ StatLink \/ StatLinkAgain
           \/ StatDirectoryAgain \/ Open \/ Read \/ Close
Next == Edit \/ Inspect
Spec == Init /\ [][Next]_vars

-----------------------------------------------------------------------------
TypeOK == /\ restores \in BOOLEAN /\ edits \in 0..MaxEdits
          /\ \A f \in Entries(Files) : file[f].time \in 0..edits
          /\ \A l \in Entries(Links) : link[l].time \in 0..edits
          /\ directory.time \in 0..edits
          /\ at \in 1..Len(Plan) + 1 /\ step \in {"none", "read"}
          /\ whole \in BOOLEAN /\ instant \in BOOLEAN
          /\ verdict \in {"none", "accepted", "refused"}
          /\ step = "read" <=> held # NotHeld
          /\ verdict = "accepted" => Len(seen) = 2 * Len(Files)

(* A file whose digest was accepted held those bytes at one instant while  *)
(* it was read, whatever was written in place meanwhile (the status before *)
(* and after).                                                             *)
SeenWhole == \A i \in DOMAIN seen : seen[i]

(* An accepted runtime was, all of it, the contract's at one instant: when *)
(* the second pass began.  Bytes that a write in place took away and       *)
(* brought back would be missed; a rename, which the directory shows, and  *)
(* a link that was put back are not.                                       *)
AcceptedAtOnce == verdict = "accepted" /\ ~restores => instant
=============================================================================
