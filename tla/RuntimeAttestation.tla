--------------------------- MODULE RuntimeAttestation ---------------------------
(***************************************************************************)
(* Attestation of the runtime a contained command uses                     *)
(* (code_conversion_runtime.attest_runtime): the executable's symbolic     *)
(* links and bytes, the libraries it needs, found in the loader's          *)
(* directories, those they need in turn, and the files of a module tree,   *)
(* each read on its own while any may be replaced.  It is done before the  *)
(* command and again, and both must agree.  A path is a directory's number *)
(* and a name; its content is known by a version, and no version comes     *)
(* back.                                                                   *)
(***************************************************************************)
EXTENDS Naturals, Sequences

CONSTANTS Paths, Root,
          Content,   \* of each path the versions to come, as [link, needs]
          Present,   \* version of each path at first, 0 for none
          LastDir,   \* number of the last directory the loader searches
          Tree,      \* paths in the module tree
          MaxEdits

NoPath == <<0, "none">>
ContentAssumption ==
  /\ Root \in Paths /\ NoPath \notin Paths /\ DOMAIN Present = Paths /\ MaxEdits \in Nat
  /\ LastDir \in Nat /\ Tree \subseteq Paths
  /\ \A p \in Paths : /\ Content[p] \in Seq([link : Paths \cup {NoPath}, needs : Seq(STRING)])
                        /\ Present[p] \in 0 .. Len(Content[p])

VARIABLES disk,      \* version each path has
          edits,
          round,     \* first or second attestation
          pc,
          asked,     \* path being attested, the path its links have led to, links followed
          digest,    \* version that was hashed there
          queue,     \* identities of the objects still to be parsed
          parsing,   \* object whose needs are being resolved, and those left
          result,    \* objects, edges and tree entries of each round
          listed,    \* tree entries listed and not yet hashed
          between,   \* the disk when the first attestation had ended
          verdict

world == <<disk, edits>>
work == <<asked, digest, queue, parsing, listed>>
vars == <<world, round, pc, work, result, between, verdict>>

Exists(p, d) == d[p] # 0
At(p, d) == Content[p][d[p]]
IsLink(p, d) == Exists(p, d) /\ At(p, d).link # NoPath

(* The path that p's links lead to.  The links passed are the smallest set *)
(* that holds p and whatever link one of them leads to.                    *)
Links(d) == {p \in Paths : IsLink(p, d)}
Passed(p, d) ==
  {x \in Links(d) : \A S \in SUBSET Links(d) :
                      p \in S /\ (\A y \in S : At(y, d).link \in Links(d) => At(y, d).link \in S)
                      => x \in S}
Follow(p, d) == LET ends == {At(x, d).link : x \in Passed(p, d)} \ Links(d)
                IN IF p \in Links(d) /\ ends # {} THEN CHOOSE q \in ends : TRUE ELSE p

(* The first of the loader's directories that has the name.                *)
Candidates(name, d) == {i \in 1..LastDir : <<i, name>> \in Paths /\ Exists(<<i, name>>, d)}
_elf_search(name, d) ==
  LET first == {i \in Candidates(name, d) : \A j \in Candidates(name, d) : i <= j}
  IN IF first = {} THEN NoPath ELSE <<CHOOSE i \in first : TRUE, name>>

Asking(path) == [path |-> path, current |-> path, links |-> <<>>]
NotAsked == Asking(NoPath)
NotParsing == [of |-> NoPath, needs |-> <<>>]
NoResult == [objects |-> {}, edges |-> {}, tree |-> {}]

Init == /\ disk = Present /\ edits = 0 /\ round = 1
        /\ pc = "link" /\ asked = Asking(Root) /\ digest = 0
        /\ queue = <<>> /\ parsing = NotParsing /\ listed = {}
        /\ result = <<NoResult, NoResult>> /\ between = Present /\ verdict = "none"

Edit == /\ edits < MaxEdits /\ edits' = edits + 1
        /\ \E p \in Paths : disk[p] < Len(Content[p]) /\ disk' = [disk EXCEPT ![p] = @ + 1]
        /\ UNCHANGED <<round, pc, work, result, between, verdict>>

Goto(from, to) == pc = from /\ verdict = "none" /\ pc' = to /\ UNCHANGED verdict
Refuse(from) == pc = from /\ verdict = "none" /\ verdict' = "refused" /\ UNCHANGED pc

-----------------------------------------------------------------------------
(* attest_file: the chain of links, the bytes, then realpath of the path   *)
(* that was asked for.                                                     *)

Looped == asked.current \in {asked.links[i].path : i \in DOMAIN asked.links}
NextLink == /\ Goto("link", "link") /\ IsLink(asked.current, disk) /\ ~Looped
            /\ LET here == [path |-> asked.current, version |-> disk[asked.current]]
               IN asked' = [asked EXCEPT !.current = At(here.path, disk).link,
                                         !.links = Append(@, here)]
            /\ UNCHANGED <<world, round, digest, queue, parsing, listed, result, between>>
EndOfLinks == /\ Goto("link", "hash")
              /\ Exists(asked.current, disk) /\ ~IsLink(asked.current, disk)
              /\ UNCHANGED <<world, round, work, result, between>>
LinksRefused == /\ Refuse("link") /\ (Exists(asked.current, disk) => Looped)
                /\ UNCHANGED <<world, round, work, result, between>>

_hash_open_file ==
  /\ pc = "hash"
  /\ IF Exists(asked.current, disk) /\ ~IsLink(asked.current, disk)
     THEN Goto("hash", "resolve") /\ digest' = disk[asked.current]
     ELSE Refuse("hash") /\ UNCHANGED digest
  /\ UNCHANGED <<world, round, asked, queue, parsing, listed, result, between>>

(* The object a path was resolved to is parsed later, unless it is known;  *)
(* what needs it has an edge to it.                                        *)
Identity == [path |-> asked.path, resolved |-> Follow(asked.path, disk), links |-> asked.links,
             file |-> asked.current, version |-> digest]
Known(path) == \E o \in result[round].objects : o.id.resolved = path
Edge(id) == [from |-> parsing.of, to |-> id]
Resolve ==
  /\ Goto("resolve", IF parsing.of = NoPath THEN "parse" ELSE "needs")
  /\ queue' = IF Known(Identity.resolved) THEN queue ELSE Append(queue, Identity)
  /\ result' = IF parsing.of = NoPath THEN result
               ELSE [result EXCEPT ![round].edges = @ \cup {Edge(Identity)}]
  /\ asked' = NotAsked /\ digest' = 0
  /\ UNCHANGED <<world, round, parsing, listed, between>>

-----------------------------------------------------------------------------
(* attest_elf_closure: one object after another.                           *)

(* The bytes are read a second time, by the path that was hashed.          *)
Parse ==
  LET id == Head(queue)
      file == Follow(id.file, disk)
  IN /\ pc = "parse" /\ queue # <<>> /\ queue' = Tail(queue)
     /\ \/ /\ Known(id.resolved) /\ Goto("parse", "parse") /\ UNCHANGED <<parsing, result>>
        \/ /\ ~Known(id.resolved) /\ Exists(file, disk) /\ Goto("parse", "needs")
           /\ parsing' = [of |-> id.resolved, needs |-> At(file, disk).needs]
           /\ result' = [result EXCEPT ![round].objects =
                           @ \cup {[id |-> id, needs |-> At(file, disk).needs]}]
        \/ /\ ~Known(id.resolved) /\ ~Exists(file, disk) /\ Refuse("parse")
           /\ UNCHANGED <<parsing, result>>
     /\ UNCHANGED <<world, round, asked, digest, listed, between>>

Need == LET found == _elf_search(Head(parsing.needs), disk)
        IN /\ pc = "needs" /\ parsing.needs # <<>> /\ parsing' = [parsing EXCEPT !.needs = Tail(@)]
           /\ IF found = NoPath THEN Refuse("needs") /\ UNCHANGED asked
              ELSE Goto("needs", "link") /\ asked' = Asking(found)
           /\ UNCHANGED <<world, round, digest, queue, listed, result, between>>
EndOfNeeds == /\ parsing.needs = <<>> /\ Goto("needs", "parse") /\ parsing' = NotParsing
              /\ UNCHANGED <<world, round, asked, digest, queue, listed, result, between>>

(* _tree_identity: the directory is listed, then each entry hashed.        *)
ListTree == /\ queue = <<>> /\ Goto("parse", "tree")
            /\ listed' = {p \in Tree : Exists(p, disk)}
            /\ UNCHANGED <<world, round, asked, digest, queue, parsing, result, between>>
HashEntry == /\ Goto("tree", "tree")
             /\ \E p \in listed : /\ listed' = listed \ {p}
                                  /\ result' = [result EXCEPT ![round].tree =
                                       @ \cup {[path |-> p, version |-> disk[p]]}]
             /\ UNCHANGED <<world, round, asked, digest, queue, parsing, between>>

(* The attestations are compared by their digests.                         *)
(* Mutant: the second is not compared with the first.                      *)
AnyRuntime == TRUE
SameRuntime == result[1] = result[2]
EndRound == /\ listed = {} /\ pc = "tree" /\ verdict = "none"
            /\ \/ /\ round = 1 /\ round' = 2 /\ between' = disk /\ pc' = "link"
                  /\ asked' = Asking(Root) /\ UNCHANGED verdict
               \/ /\ round = 2 /\ verdict' = (IF SameRuntime THEN "accepted" ELSE "refused")
                  /\ UNCHANGED <<round, between, pc, asked>>
            /\ UNCHANGED <<world, digest, queue, parsing, listed, result>>

Attest == \/ NextLink \/ EndOfLinks \/ LinksRefused \/ _hash_open_file \/ Resolve
          \/ Parse \/ Need \/ EndOfNeeds \/ ListTree \/ HashEntry \/ EndRound
Next == Edit \/ Attest
Fairness == WF_vars(Attest)
Spec == Init /\ [][Next]_vars /\ Fairness

-----------------------------------------------------------------------------
(* What a disk's runtime is, by definition: the smallest set of objects    *)
(* that holds the executable and whatever one of them needs.               *)
NeedsOf(p, d) == {At(p, d).needs[i] : i \in DOMAIN At(p, d).needs}
Found(name, d) == Follow(_elf_search(name, d), d)
Closed(S, d) == /\ Follow(Root, d) \in S
                /\ \A p \in S : \A name \in NeedsOf(p, d) : Found(name, d) \in S
Files(d) == {p \in Paths : Exists(p, d) /\ ~IsLink(p, d)}
Objects(d) == {p \in Files(d) : \A S \in SUBSET Files(d) : Closed(S, d) => p \in S}

TypeOK == /\ \A p \in Paths : disk[p] \in 0..Len(Content[p])
          /\ edits \in 0..MaxEdits /\ round \in 1..2
          /\ pc \in {"link", "hash", "resolve", "parse", "needs", "tree"}
          /\ listed \subseteq Tree /\ verdict \in {"none", "accepted", "refused"}
          /\ \A r \in 1..2 : \A o, q \in result[r].objects : o.id.resolved = q.id.resolved => o = q

(* Two attestations that agree describe one runtime, that of the disk      *)
(* between them: every object the loader reaches and no other, each with   *)
(* the bytes it had and the needs those bytes state, each need resolved as *)
(* the loader would, and the tree (attest_elf_closure, _tree_identity).    *)
AcceptedIsExact ==
  verdict = "accepted" =>
    LET d == between
        r == result[1]
    IN /\ {o.id.resolved : o \in r.objects} = Objects(d)
       /\ \A o \in r.objects : /\ o.id.file = o.id.resolved /\ o.id.version = d[o.id.file]
                               /\ o.needs = At(o.id.file, d).needs
       /\ \A o \in r.objects : \A name \in NeedsOf(o.id.resolved, d) :
            \E e \in r.edges : /\ e.from = o.id.resolved /\ e.to.path = _elf_search(name, d)
                               /\ e.to.resolved = Found(name, d)
       /\ r.tree = {[path |-> p, version |-> d[p]] : p \in {q \in Tree : Exists(q, d)}}

(* An attestation ends, cyclic needs or not.                               *)
Ends == <>(verdict # "none")
=============================================================================
