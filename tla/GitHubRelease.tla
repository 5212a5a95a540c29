---------------------------- MODULE GitHubRelease ----------------------------
(***************************************************************************)
(* The publication of one round's files as an immutable GitHub release     *)
(* (github_release.py), and the fetch that proves it (backend.py).  A      *)
(* cycle of the controller that finds the round's signed manifest fetches  *)
(* first, and publishes only if that fails (controller.py, _submit); a     *)
(* request whose answer was lost may still be carried out by GitHub later. *)
(* GitHub's part is external: it is modelled from the answers the code     *)
(* expects.                                                                *)
(***************************************************************************)
EXTENDS Integers, FiniteSets

CONSTANTS Names,         \* the files of the signed manifest
          Contents,      \* what a file can hold; all have the same size
          Signed,        \* the contents the signed manifest names
          Ids,           \* release identities (a bound)
          MaxFaults,     \* bound on lost requests, crashes and changed files
          ReportsDigest  \* whether GitHub states the digest of an asset

ReleaseAssumption ==
  /\ IsFiniteSet(Ids) /\ 0 \notin Ids
  /\ Signed \in [Names -> Contents]
  /\ MaxFaults \in Nat
  /\ ReportsDigest \in BOOLEAN

VARIABLES releases,  \* the releases of the tag, by identity
          setting,   \* whether the repository publishes immutable releases
          disabled,  \* history: whether an owner turned that off
          late,      \* requests without an answer that GitHub may still apply
          disk,      \* the files of the artifact directory
          pc,        \* what the publisher does next
          run,       \* the local variables of publish
          faults,    \* spurious failures so far
          snapshots  \* history: every file set that was prepared as a whole

vars == <<releases, setting, disabled, late, disk, pc, run, faults, snapshots>>
github == <<releases, setting>>

Steps == {"prepare", "immutability", "lookup", "listing", "create", "draft", "upload",
          "complete", "publish", "final", "fetch"}

NoId == 0
NoAsset == [state |-> "absent"]
(* An interrupted upload can leave an asset that is not `uploaded'. *)
Starter == [state |-> "starter"]
Uploaded(c) == [state |-> "uploaded", content |-> c]
Assets == {NoAsset, Starter} \cup {Uploaded(c) : c \in Contents}

Empty == [n \in Names |-> NoAsset]
Exactly(files) == [n \in Names |-> Uploaded(files[n])]

Known == DOMAIN releases
Public == {i \in Known : ~releases[i].draft}
Drafts == Known \ Public

-----------------------------------------------------------------------------
(* What GitHub does with a request.                                        *)

Creates == [kind |-> "create"]
Uploads(i, n, c) == [kind |-> "upload", id |-> i, name |-> n, content |-> c]
Publishes(i) == [kind |-> "publish", id |-> i]

(* A new draft; a tag may have several. *)
Created(i) == [j \in Known \cup {i} |->
                 IF j = i THEN [draft |-> TRUE, immutable |-> FALSE, assets |-> Empty]
                 ELSE releases[j]]

(* An asset name can be taken once, and never in an immutable release. *)
Takes(i, n) == releases[i].assets[n] = NoAsset /\ ~releases[i].immutable

(* A tag names at most one public release. *)
CanPublish(i) == releases[i].draft /\ Public = {}

Published(i) == [releases EXCEPT ![i].draft = FALSE, ![i].immutable = setting]

(* GitHub carries out request q, if it can. *)
Apply(q) ==
  CASE q.kind = "create" ->
         /\ \E i \in Ids \ Known : releases' = Created(i)
    [] q.kind = "upload" ->
         /\ Takes(q.id, q.name)
         /\ \E a \in {Uploaded(q.content), Starter} :
              releases' = [releases EXCEPT ![q.id].assets[q.name] = a]
    [] q.kind = "publish" -> CanPublish(q.id) /\ releases' = Published(q.id)

-----------------------------------------------------------------------------
(* How a step of the publisher ends.                                       *)

Fault == faults < MaxFaults /\ faults' = faults + 1

Idle == pc' = "idle" /\ UNCHANGED run

(* A request that only reads fails, or the process dies before it. *)
Interrupted == Fault /\ Idle /\ UNCHANGED <<github, late>>

(* The answer of request q is lost: it was applied, is applied later, or   *)
(* never.                                                                  *)
Lost(q) == Fault /\ Idle /\ late' = late \cup {q} /\ UNCHANGED github

(* A refusal that follows from what was read; the next cycle tries again.  *)
Refused(why) == /\ pc' = "idle" /\ run' = [run EXCEPT !.why = why]
                /\ UNCHANGED <<github, late, faults>>

Goes(step) == pc' = step /\ UNCHANGED <<run, github, late, faults>>

At(step) == pc = step /\ UNCHANGED <<disabled, disk, snapshots>>

-----------------------------------------------------------------------------
(* One cycle: _submit with verify_source, upload, _upload_github, publish. *)

(* Mutant: only the manifest is fetched back, not the files it names. *)
ManifestFetched == Public # {}

(* verify_source: every file is downloaded and compared with the manifest, *)
(* and nothing is asked about the release that they come from.             *)
Fetched == \E i \in Public : releases[i].assets = Exactly(Signed)

(* _submit of a later cycle: the manifest is reused, and a release that    *)
(* verify_source accepts is not published again.  Any failure of the probe *)
(* leads to the upload.                                                    *)
Probe == /\ At("idle") /\ snapshots # {}
         /\ \/ Fetched /\ Goes("proved")
            \/ ~Fetched /\ Goes("prepare")
            \/ Fault /\ pc' = "prepare" /\ UNCHANGED <<run, github, late>>

(* _prepare_assets: the files are opened, hashed and kept open.  The first *)
(* cycle gets here without a probe.                                        *)
Prepare == /\ pc = "prepare" \/ (pc = "idle" /\ snapshots = {})
           /\ pc' = "immutability"
           /\ run' = [files |-> disk, id |-> NoId, todo |-> {}, why |-> "none"]
           /\ snapshots' = snapshots \cup {disk}
           /\ UNCHANGED <<github, disabled, late, disk, faults>>

(* Mutant: the setting is read and assumed to be on. *)
SettingAssumed == /\ At("immutability")
                  /\ Goes("lookup") \/ Interrupted

(* _verify_public_repository and _enable_and_verify_immutability.          *)
Immutability ==
  /\ At("immutability")
  /\ \/ setting' = TRUE /\ pc' = "lookup" /\ UNCHANGED <<run, releases, late, faults>>
     \/ Interrupted

(* _find_release by tag: drafts are not found this way.                    *)
Lookup == /\ At("lookup")
          /\ \/ Interrupted
             \/ /\ Public # {}
                /\ \E i \in Public : run' = [run EXCEPT !.id = i]
                /\ pc' = "final"
                /\ UNCHANGED <<github, late, faults>>
             \/ Public = {} /\ Goes("listing")

(* _find_release by listing: two releases of the tag are ambiguous.        *)
Listing == /\ At("listing")
           /\ \/ Interrupted
              \/ Cardinality(Known) > 1 /\ Refused("ambiguous")
              \/ Known = {} /\ Goes("create")
              \/ \E i \in Known :
                   /\ Known = {i}
                   /\ run' = [run EXCEPT !.id = i]
                   /\ pc' = IF releases[i].draft THEN "draft" ELSE "final"
                   /\ UNCHANGED <<github, late, faults>>

Create == /\ At("create")
          /\ \/ Lost(Creates) \/ Interrupted
             \/ \E i \in Ids \ Known :
                  /\ releases' = Created(i)
                  /\ run' = [run EXCEPT !.id = i]
                  /\ pc' = "draft"
                  /\ UNCHANGED <<setting, late, faults>>

(* Mutant: an asset is recognised by its name and state. *)
MatchesByName(a, c) == a.state = "uploaded"

(* _verify_asset: uploaded, of the expected size, and of the expected      *)
(* digest when one is stated.                                              *)
Matches(a, c) == a.state = "uploaded" /\ (ReportsDigest => a.content = c)

(* _verify_asset_set. *)
Present(i) == {n \in Names : releases[i].assets[n] # NoAsset}
AssetsMatch(i) ==
  \A n \in Present(i) : Matches(releases[i].assets[n], run.files[n])
Complete(i) == AssetsMatch(i) /\ Present(i) = Names

(* Mutant: assets already there are uploaded again. *)
DraftReuploaded == /\ At("draft")
                   /\ \/ Interrupted
                      \/ ~AssetsMatch(run.id) /\ Refused("mismatch")
                      \/ /\ AssetsMatch(run.id)
                         /\ run' = [run EXCEPT !.todo = Names]
                         /\ pc' = "upload"
                         /\ UNCHANGED <<github, late, faults>>

(* The draft may hold assets of an earlier attempt, which are kept.        *)
Draft == /\ At("draft")
         /\ \/ Interrupted
            \/ ~AssetsMatch(run.id) /\ Refused("mismatch")
            \/ /\ AssetsMatch(run.id)
               /\ run' = [run EXCEPT !.todo = Names \ Present(run.id)]
               /\ pc' = "upload"
               /\ UNCHANGED <<github, late, faults>>

(* _upload: the open file must still be the one that was hashed, before    *)
(* and after.  A file rewritten in between is refused, but GitHub has it.  *)
Upload(n) ==
  /\ pc = "upload" /\ n \in run.todo
  /\ \/ disk[n] # run.files[n] /\ Refused("changed") /\ UNCHANGED disk
     \/ /\ disk[n] = run.files[n]
        /\ \/ (Interrupted \/ Lost(Uploads(run.id, n, disk[n]))) /\ UNCHANGED disk
           \/ ~Takes(run.id, n) /\ Refused("taken") /\ UNCHANGED disk
           \/ /\ Takes(run.id, n)
              /\ releases' = [releases EXCEPT ![run.id].assets[n] = Uploaded(disk[n])]
              /\ run' = [run EXCEPT !.todo = @ \ {n}]
              /\ UNCHANGED <<pc, setting, late, disk, faults>>
           \/ /\ Takes(run.id, n)
              /\ Fault
              /\ \E c \in Contents \ {disk[n]} :
                   /\ disk' = [disk EXCEPT ![n] = c]
                   /\ releases' = [releases EXCEPT ![run.id].assets[n] = Uploaded(c)]
              /\ pc' = "idle" /\ run' = [run EXCEPT !.why = "changed"]
              /\ UNCHANGED <<setting, late>>
  /\ UNCHANGED <<disabled, snapshots>>

Uploading == pc = "upload" /\ run.todo = {} /\ At("upload") /\ Goes("complete")

(* The whole set is listed again before it becomes public.                 *)
CheckComplete == /\ At("complete")
                 /\ \/ Interrupted
                    \/ Complete(run.id) /\ Goes("publish")
                    \/ ~Complete(run.id) /\ Refused("mismatch")

PublishDraft == /\ At("publish")
                /\ \/ Lost(Publishes(run.id)) \/ Interrupted
                   \/ ~CanPublish(run.id) /\ Refused("taken")
                   \/ /\ CanPublish(run.id)
                      /\ releases' = Published(run.id)
                      /\ pc' = "final"
                      /\ UNCHANGED <<run, setting, late, faults>>

(* The public release must be immutable and exact.                         *)
Final == /\ At("final")
         /\ \/ Interrupted
            \/ releases[run.id].immutable /\ Complete(run.id) /\ Goes("fetch")
            \/ ~(releases[run.id].immutable /\ Complete(run.id)) /\ Refused("published")

(* The attempt's own upload is verified the same way.                      *)
VerifySource == /\ At("fetch")
                /\ \/ Interrupted
                   \/ Fetched /\ Goes("proved")
                   \/ ~Fetched /\ Refused("source")

-----------------------------------------------------------------------------
(* The world around the publisher.                                         *)

(* GitHub carries out a request nobody waits for, or never does.           *)
Late(q) == /\ q \in late
           /\ \/ Apply(q)
              \/ UNCHANGED releases
           /\ late' = late \ {q}
           /\ UNCHANGED <<setting, disabled, disk, pc, run, faults, snapshots>>

(* A file of the artifact directory is rewritten in place.                 *)
Rewrite(n) == /\ Fault
              /\ \E c \in Contents \ {disk[n]} : disk' = [disk EXCEPT ![n] = c]
              /\ UNCHANGED <<github, disabled, late, pc, run, snapshots>>

(* An owner turns immutable releases off.                                  *)
Disable == /\ setting /\ Fault
           /\ setting' = FALSE /\ disabled' = TRUE
           /\ UNCHANGED <<releases, late, disk, pc, run, snapshots>>

-----------------------------------------------------------------------------
Init == /\ releases = [i \in {} |-> NoAsset]
        /\ setting \in BOOLEAN
        /\ disabled = FALSE
        /\ late = {}
        /\ disk = Signed
        /\ pc = "idle"
        /\ run = [files |-> disk, id |-> NoId, todo |-> {}, why |-> "none"]
        /\ faults = 0
        /\ snapshots = {}

Publisher == \/ Probe \/ Prepare \/ Immutability \/ Lookup \/ Listing \/ Create \/ Draft
             \/ (\E n \in Names : Upload(n)) \/ Uploading
             \/ CheckComplete \/ PublishDraft \/ Final \/ VerifySource

Settle == \E q \in late : Late(q)

Next == \/ Publisher \/ Settle \/ Disable
        \/ \E n \in Names : Rewrite(n)

Spec == Init /\ [][Next]_vars

(* The controller tries again every cycle, and GitHub settles a request.   *)
Fairness == WF_vars(Publisher) /\ WF_vars(Settle)
FairSpec == Spec /\ Fairness

-----------------------------------------------------------------------------
(* Properties.                                                             *)

(* The type of every variable; every step past the lookup has a release.   *)
TypeOK ==
  /\ Known \subseteq Ids
  /\ \A i \in Known : releases[i] \in
       [draft : BOOLEAN, immutable : BOOLEAN, assets : [Names -> Assets]]
  /\ setting \in BOOLEAN /\ disabled \in BOOLEAN
  /\ disk \in [Names -> Contents]
  /\ pc \in Steps \cup {"idle", "proved"}
  /\ run.files \in [Names -> Contents] /\ run.id \in Ids \cup {NoId}
  /\ run.todo \subseteq Names
  /\ pc \in {"draft", "upload", "complete", "publish", "final", "fetch"} => run.id \in Known
  /\ faults \in 0..MaxFaults

(* The file set the public release of the tag holds. *)
PublicAssets == IF Public = {} THEN Empty
                ELSE releases[CHOOSE i \in Public : TRUE].assets

Prepared == {Exactly(s) : s \in snapshots}
Tag == INSTANCE WriteOnce WITH
         Values <- {Exactly(s) : s \in [Names -> Contents]}, Absent <- Empty,
         prepared <- Prepared, cell <- PublicAssets

(* The tag, seen from outside, goes from nothing to one file set that was  *)
(* prepared as a whole, and stays there: a draft pieced together by several *)
(* attempts never becomes public incomplete or mixed (publish,             *)
(* _verify_asset_set), whichever requests arrive late.                     *)
PublishedAtOnce == Tag!Spec

(* What verify_source accepted, in whichever cycle, is public and is what  *)
(* the manifest signs, even when GitHub states no digests.  It is immutable *)
(* unless an owner turned the setting off: publish turns it on before      *)
(* anything can become public, but between that and the publication nobody *)
(* looks, and the release a refused attempt left is accepted by the probe  *)
(* of the next cycle.                                                      *)
ProvedIsSigned ==
  pc = "proved" => \E i \in Public : /\ releases[i].assets = Exactly(Signed)
                                     /\ releases[i].immutable \/ disabled

(* What no later attempt can repair, since nothing is ever deleted or      *)
(* overwritten: two releases of the tag, an asset that is not the file, or *)
(* a file that is not the signed one.                                      *)
Unrepairable ==
  \/ Cardinality(Known) > 1 /\ Public = {}
  \/ \E i \in Known, n \in Names :
       releases[i].assets[n] \notin {NoAsset, Uploaded(Signed[n])}
  \/ disk # Signed

(* However an attempt is cut, the release is completed in the end, or one  *)
(* of those reasons keeps it from being completed.                         *)
EventuallyProved == <>(pc = "proved") \/ <>[]Unrepairable

(* README: an interrupted draft is recoverable.  A draft interrupted while *)
(* GitHub received an asset, or whose creation came after the next attempt *)
(* had looked for it, is refused by every later attempt.                   *)
DraftIsRecoverable ==
  disk = Signed /\ run.files = Signed => run.why \notin {"ambiguous", "mismatch"}

=============================================================================
