---------------------------- MODULE CodePublication ----------------------------
(***************************************************************************)
(* Publication of a code provenance payload                                *)
(* (publish_code_provenance.py): an export links the payload into place    *)
(* for the operator to read, and a publication sends the payload whose     *)
(* digest the operator authorized to a W&B run named by its content, reads *)
(* it back, and renames it to the hotkey as the commit marker.  A payload  *)
(* is known by the version of the inputs it is built from.                 *)
(***************************************************************************)
EXTENDS Integers

CONSTANTS Versions,   \* versions of the inputs, and so of the payload
          Processes,  \* invocations of the script
          MaxFaults,  \* bound on errors, interrupts, kills and power losses
          MaxEdits    \* bound on changes of the inputs and of the payload file

Torn == "torn"

PublicationAssumption ==
  Torn \notin Versions /\ "nobody" \notin Processes /\ MaxFaults \in Nat /\ MaxEdits \in Nat

NoFile == [content |-> Torn, by |-> "nobody", synced |-> FALSE, linked |-> FALSE, there |-> FALSE]
Application == {"logs", "summary", "mt_artifact_digest"}

VARIABLES inputs,   \* version of the inputs on disk
          file,     \* the payload file
          remote,   \* the W&B run of each version's deterministic ID
          late,     \* IDs with a rename that was sent and not yet applied
          action,   \* what each process was started to do
          digest,   \* payload digest given to each process as authorized
          pc,       \* what each process does next
          held,     \* payload each process validated
          state,    \* publication_state of each process
          report,   \* how each process ended
          writers,  \* processes whose client.init each run accepted
          faults, edits

process == <<action, digest, pc, held, state, report>>
service == <<remote, late, writers>>
bounds == <<faults, edits>>
vars == <<inputs, file, process, service, bounds>>

Fault == faults < MaxFaults /\ faults' = faults + 1
At(p, place) == pc[p] = place
Goto(p, place) == pc' = [pc EXCEPT ![p] = place]
Note(p, s) == state' = [state EXCEPT ![p] = s]
Keep == UNCHANGED <<inputs, action, digest, edits>>

(* A step of p that only moves it, and its refusal.                        *)
Step(p, from, to) == /\ At(p, from) /\ Goto(p, to)
                     /\ UNCHANGED <<file, held, state, report, service, faults>> /\ Keep
Ends(p, place, claim) == /\ Goto(p, place) /\ report' = [report EXCEPT ![p] = claim]
Refuse(p) == /\ Ends(p, "ended", "refused")
             /\ UNCHANGED <<file, held, state, service>> /\ Keep

Running(v) == remote[v].name # "none" /\ remote[v].status = "running"
NewRun == [name |-> "pending", status |-> "running", sent |-> {}, items |-> {}]

Init == /\ inputs \in Versions
        /\ \/ file = NoFile
           \/ \E v \in Versions : file = [content |-> v, by |-> "nobody", synced |-> TRUE,
                                          linked |-> TRUE, there |-> TRUE]
        /\ remote = [v \in Versions |-> [NewRun EXCEPT !.name = "none"]]
        /\ late = {} /\ writers = [v \in Versions |-> {}]
        /\ action \in [Processes -> {"export", "publish"}]
        /\ digest \in [Processes -> Versions]
        /\ pc = [p \in Processes |-> "start"]
        /\ held = [p \in Processes |-> Torn]
        /\ state = [p \in Processes |-> "none"]
        /\ report = [p \in Processes |-> "none"]
        /\ faults = 0 /\ edits = 0

-----------------------------------------------------------------------------
(* The operator, who may change the inputs and the payload file.           *)

Edit == /\ edits < MaxEdits /\ edits' = edits + 1
        /\ \/ \E v \in Versions \ {inputs} : inputs' = v /\ UNCHANGED file
           \/ /\ \E v \in Versions : file' = [content |-> v, by |-> "nobody", synced |-> TRUE,
                                              linked |-> TRUE, there |-> TRUE]
              /\ UNCHANGED inputs
        /\ UNCHANGED <<process, service, faults>>

-----------------------------------------------------------------------------
(* Both actions validate the inputs, and again before they use the payload *)
(* they built.                                                             *)

Validate(p) == /\ At(p, "start") /\ Goto(p, "validated")
               /\ held' = [held EXCEPT ![p] = inputs]
               /\ UNCHANGED <<file, state, report, service, faults>> /\ Keep

_revalidated_payload_bytes(p) ==
    \/ /\ inputs = held[p]
       /\ Step(p, "validated", IF action[p] = "export" THEN "exporting" ELSE "authorizing")
    \/ /\ At(p, "validated") /\ inputs # held[p] /\ Refuse(p) /\ UNCHANGED faults

-----------------------------------------------------------------------------
(* Export.                                                                 *)

Stage(p) == Step(p, "exporting", "unsynced")
SyncStaged(p) == Step(p, "unsynced", "staged")

(* Mutant: the destination is replaced.                                    *)
RenameOver(p) == /\ At(p, "staged") /\ Goto(p, "linked")
                 /\ file' = [content |-> held[p], by |-> p, synced |-> TRUE, linked |-> FALSE,
                             there |-> TRUE]
                 /\ UNCHANGED <<held, state, report, service, faults>> /\ Keep

(* Mutant: the payload is linked while it may still be in memory only.     *)
LinkUnsynced(p) ==
    \/ /\ pc[p] \in {"unsynced", "staged"} /\ ~file.there /\ Goto(p, "linked")
       /\ file' = [content |-> held[p], by |-> p, synced |-> At(p, "staged"), linked |-> FALSE,
                   there |-> TRUE]
       /\ UNCHANGED <<held, state, report, service, faults>> /\ Keep
    \/ /\ At(p, "staged") /\ file.there /\ Refuse(p) /\ UNCHANGED faults

Link(p) ==
    \/ /\ At(p, "staged") /\ ~file.there /\ Goto(p, "linked")
       /\ file' = [content |-> held[p], by |-> p, synced |-> TRUE, linked |-> FALSE, there |-> TRUE]
       /\ UNCHANGED <<held, state, report, service, faults>> /\ Keep
    \/ /\ At(p, "staged") /\ file.there /\ Refuse(p) /\ UNCHANGED faults

(* The link is checked against the staged file: another file in its place  *)
(* is left there.                                                          *)
CheckLinked(p) ==
    \/ file.by = p /\ Step(p, "linked", "checked")
    \/ /\ At(p, "linked") /\ file.by # p /\ Ends(p, "ended", "export_uncertain")
       /\ UNCHANGED <<file, held, state, service, faults>> /\ Keep

(* Mutant: the directory is not synced.                                    *)
SkipDirectory(p) == Step(p, "checked", "exported")

_fsync_directory(p) ==
    /\ At(p, "checked") /\ Goto(p, "exported")
    /\ file' = [file EXCEPT !.linked = TRUE]
    /\ UNCHANGED <<held, state, report, service, faults>> /\ Keep

Exported(p) == /\ At(p, "exported") /\ Ends(p, "ended", "exported")
               /\ UNCHANGED <<file, held, state, service, faults>> /\ Keep

(* An error in an export is reported by how far the export had come.       *)
ExportFails(p) ==
    /\ Fault
    /\ \/ /\ pc[p] \in {"exporting", "unsynced", "staged"} /\ Refuse(p)
       \/ /\ pc[p] \in {"linked", "checked", "exported"}
          /\ Ends(p, "ended", IF At(p, "exported") THEN "export_postcommit" ELSE "export_uncertain")
          /\ UNCHANGED <<file, held, state, service>> /\ Keep

-----------------------------------------------------------------------------
(* Authorization: the file must hold the payload, and its digest must be   *)
(* the one given.                                                          *)

(* Mutant: the digest given is not compared.                               *)
AuthorizeFile(p) ==
    \/ file.there /\ file.content = held[p] /\ Step(p, "authorizing", "authorized")
    \/ /\ At(p, "authorizing") /\ ~(file.there /\ file.content = held[p])
       /\ Refuse(p) /\ UNCHANGED faults

authorize_payload(p) ==
    LET exact == file.there /\ file.content = held[p] /\ digest[p] = held[p]
    IN  \/ exact /\ Step(p, "authorizing", "authorized")
        \/ At(p, "authorizing") /\ ~exact /\ Refuse(p) /\ UNCHANGED faults

(* Everything before client.init: the payload, the environment, the private *)
(* root and the settings.                                                  *)
(* Mutant: the ID is not marked as consumed before client.init.            *)
SetUpUnmarked(p) == \/ Step(p, "authorized", "init")
                    \/ At(p, "authorized") /\ Fault /\ Refuse(p)

SetUp(p) == \/ /\ At(p, "authorized") /\ Goto(p, "init") /\ Note(p, "pending_failed")
               /\ UNCHANGED <<file, held, report, service, faults>> /\ Keep
            \/ At(p, "authorized") /\ Fault /\ Refuse(p)

-----------------------------------------------------------------------------
(* The W&B run.                                                            *)

Serve(p, v, r, place) == /\ remote' = [remote EXCEPT ![v] = r] /\ Goto(p, place)
                         /\ UNCHANGED <<file, held, state, report, late>> /\ Keep

(* Mutant: a run that exists is resumed.                                   *)
ResumeRun(p) ==
    LET v == held[p]
    IN  /\ At(p, "init")
        /\ Serve(p, v, IF remote[v].name = "none" THEN NewRun
                       ELSE [remote[v] EXCEPT !.status = "running"], "logs")
        /\ writers' = [writers EXCEPT ![v] = @ \cup {p}] /\ UNCHANGED faults

(* resume="never": the service refuses an ID it has; an error may hide the *)
(* creation.                                                               *)
InitRun(p) ==
    LET v == held[p]
    IN  /\ At(p, "init")
        /\ \/ /\ remote[v].name = "none" /\ Serve(p, v, NewRun, "logs")
              /\ writers' = [writers EXCEPT ![v] = @ \cup {p}] /\ UNCHANGED faults
           \/ /\ remote[v].name = "none" /\ Fault /\ Serve(p, v, NewRun, "teardown")
              /\ writers' = [writers EXCEPT ![v] = @ \cup {p}]
           \/ /\ remote[v].name # "none" /\ Serve(p, v, remote[v], "teardown")
              /\ UNCHANGED <<writers, faults>>
           \/ Fault /\ Serve(p, v, remote[v], "teardown") /\ UNCHANGED writers

Next_item == [logs |-> "summary", summary |-> "mt_artifact_digest", mt_artifact_digest |-> "finish"]

(* The logs, the summary and last the artifact's digest are handed to the  *)
(* SDK.                                                                    *)
Send(p) == /\ pc[p] \in Application
           /\ Serve(p, held[p], [remote[held[p]] EXCEPT !.sent = @ \cup {pc[p]}], Next_item[pc[p]])
           /\ UNCHANGED <<writers, faults>>

(* The SDK delivers what it was given, in any order.                       *)
Deliver == \E v \in Versions :
    /\ \E i \in remote[v].sent : remote' = [remote EXCEPT ![v].items = @ \cup {i}]
    /\ UNCHANGED <<inputs, file, process, late, writers, bounds>>

(* finish(0) waits for what was sent, unless an error loses it.            *)
Finish(p) ==
    LET r == remote[held[p]]
    IN  /\ At(p, "finish")
        /\ \/ r.items = r.sent /\ UNCHANGED faults
           \/ Fault
        /\ Serve(p, held[p], [r EXCEPT !.status = "finished"], "readback")
        /\ UNCHANGED writers

(* An error while the run is written: it is finished as failed, if that    *)
(* can be done.                                                            *)
WritingFails(p) ==
    /\ pc[p] \in Application \cup {"finish"} /\ Fault
    /\ \E status \in {remote[held[p]].status, "failed"}
                     \cup (IF At(p, "finish") THEN {"finished"} ELSE {}) :
         Serve(p, held[p], [remote[held[p]] EXCEPT !.status = status], "teardown")
    /\ UNCHANGED writers

-----------------------------------------------------------------------------
(* Readback: the run with its configuration and summary, then the history. *)

Summarized(v) == remote[v].status = "finished" /\ {"summary", "mt_artifact_digest"} \subseteq remote[v].items
(* Mutant: the history is not read back.                                   *)
ScanNothing(v) == TRUE

Scanned(v) == "logs" \in remote[v].items

ReadRun(p) ==
    LET v == held[p]
    IN  /\ At(p, "readback")
        /\ Step(p, "readback", IF Summarized(v) /\ remote[v].name = "pending"
                               THEN "history" ELSE "teardown")

ReadHistory(p) == /\ At(p, "history")
                  /\ Step(p, "history", IF Scanned(held[p]) THEN "rename" ELSE "teardown")

ReadbackFails(p) == /\ pc[p] \in {"readback", "history"} /\ Fault /\ Goto(p, "teardown")
                    /\ UNCHANGED <<file, held, state, report, service>> /\ Keep

-----------------------------------------------------------------------------
(* The commit marker.                                                      *)

Named(v) == [remote EXCEPT ![v].name = "hotkey"]

(* The update is acknowledged, or raises having been applied, lost or      *)
(* delayed.                                                                *)
Rename(p) ==
    LET v == held[p]
    IN  /\ At(p, "rename") /\ Keep /\ UNCHANGED <<file, held, report, writers>>
        /\ \/ /\ remote' = Named(v) /\ Goto(p, "acknowledged")
              /\ UNCHANGED <<state, late, faults>>
           \/ /\ Fault /\ Goto(p, "resolve") /\ Note(p, "outcome_uncertain")
              /\ \/ remote' = Named(v) /\ UNCHANGED late
                 \/ late' = late \cup {v} /\ UNCHANGED remote
                 \/ UNCHANGED <<remote, late>>

RenameArrives == \E v \in late : /\ remote' = Named(v) /\ late' = late \ {v}
                                 /\ UNCHANGED <<inputs, file, process, writers, bounds>>

Acknowledged(p) == /\ At(p, "acknowledged") /\ Goto(p, "verify") /\ Note(p, "committed")
                   /\ UNCHANGED <<file, held, report, service, faults>> /\ Keep

(* Mutant: an update that raised is taken as applied.                      *)
ResolveAsApplied(p) == /\ At(p, "resolve") /\ Goto(p, "teardown") /\ Note(p, "committed")
                       /\ UNCHANGED <<file, held, report, service, faults>> /\ Keep

(* The run read back after an update that raised: its name decides, unless *)
(* the readback is not exact.                                              *)
Resolve(p) ==
    LET v == held[p]
        exact == Summarized(v) /\ Scanned(v)
    IN  /\ At(p, "resolve")
        /\ \/ /\ exact /\ remote[v].name = "hotkey" /\ Note(p, "committed")
              /\ Goto(p, "published") /\ UNCHANGED faults
           \/ /\ exact /\ remote[v].name = "pending" /\ Note(p, "pending_failed")
              /\ Goto(p, "teardown") /\ UNCHANGED faults
           \/ ~exact /\ Goto(p, "teardown") /\ UNCHANGED <<state, faults>>
           \/ Fault /\ Goto(p, "teardown") /\ UNCHANGED state
        /\ UNCHANGED <<file, held, report, service>> /\ Keep

(* The second readback, after an acknowledged update.                      *)
Verify(p) ==
    LET v == held[p]
        exact == Summarized(v) /\ Scanned(v) /\ remote[v].name = "hotkey"
    IN  /\ At(p, "verify")
        /\ \/ Step(p, "verify", IF exact THEN "published" ELSE "teardown")
           \/ /\ Fault /\ Goto(p, "teardown")
              /\ UNCHANGED <<file, held, state, report, service>> /\ Keep

(* An interrupt outside of a call: between the acknowledgement and its     *)
(* note, or anywhere in the readbacks.                                     *)
Interrupt(p) == /\ pc[p] \in {"acknowledged", "rename", "resolve", "published"} /\ Fault
                /\ Goto(p, "teardown")
                /\ UNCHANGED <<file, held, state, report, service>> /\ Keep

-----------------------------------------------------------------------------
(* Teardown, the environment restored, and the report: an error there does *)
(* not hide what is known of the run.                                      *)

Terminal(s) == IF s = "committed" THEN "postcommit" ELSE s

Report(p) == /\ \/ At(p, "published") /\ Ends(p, "ended", "committed") /\ UNCHANGED faults
                \/ At(p, "published") /\ Fault /\ Ends(p, "ended", "postcommit")
                \/ At(p, "teardown") /\ Ends(p, "ended", Terminal(state[p])) /\ UNCHANGED faults
             /\ UNCHANGED <<file, held, state, service>> /\ Keep

-----------------------------------------------------------------------------
(* The machine.                                                            *)

Live(p) == pc[p] \notin {"ended", "dead"}

Kill(p) == /\ Live(p) /\ Fault /\ Goto(p, "dead")
           /\ UNCHANGED <<file, held, state, report, service>> /\ Keep

(* What is not on disk may be lost.                                        *)
PowerLoss == /\ Fault /\ \E p \in Processes : Live(p)
             /\ pc' = [p \in Processes |-> IF Live(p) THEN "dead" ELSE pc[p]]
             /\ file' \in {[file EXCEPT !.linked = file.there,
                                        !.content = IF file.synced THEN @ ELSE Torn]}
                          \cup (IF file.linked THEN {} ELSE {NoFile})
             /\ UNCHANGED <<inputs, action, digest, held, state, report, service, edits>>

Export(p) == Stage(p) \/ SyncStaged(p) \/ Link(p) \/ CheckLinked(p) \/ _fsync_directory(p)
             \/ Exported(p)
Publish(p) == authorize_payload(p) \/ SetUp(p) \/ InitRun(p) \/ Send(p) \/ Finish(p) \/ ReadRun(p)
              \/ ReadHistory(p) \/ Rename(p) \/ Acknowledged(p) \/ Resolve(p) \/ Verify(p) \/ Report(p)
Goes(p) == Validate(p) \/ _revalidated_payload_bytes(p) \/ Export(p) \/ Publish(p)
Fails(p) == ExportFails(p) \/ WritingFails(p) \/ ReadbackFails(p) \/ Interrupt(p) \/ Kill(p)

Next == \/ \E p \in Processes : Goes(p) \/ Fails(p)
        \/ Deliver \/ RenameArrives \/ Edit \/ PowerLoss

Spec == Init /\ [][Next]_vars

-----------------------------------------------------------------------------
(* Properties.                                                             *)

(* Every variable keeps its type; a publication_state is held exactly from *)
(* client.init on (publish_code_provenance.py:3476), a report belongs to a *)
(* process that ended, and a run holds only what was sent to it.           *)
TypeOK ==
    /\ inputs \in Versions /\ late \subseteq Versions
    /\ file.content \in Versions \cup {Torn} /\ file.by \in Processes \cup {"nobody"}
    /\ \A v \in Versions : /\ remote[v].name \in {"none", "pending", "hotkey"}
                           /\ remote[v].status \in {"running", "finished", "failed"}
                           /\ remote[v].items \subseteq remote[v].sent
                           /\ remote[v].sent \subseteq Application
                           /\ (writers[v] = {}) = (remote[v].name = "none")
    /\ \A p \in Processes :
         /\ held[p] \in Versions \cup {Torn}
         /\ (report[p] # "none") = (pc[p] = "ended")
         /\ \A v \in Versions : p \in writers[v] => held[p] = v /\ state[p] # "none"
         /\ state[p] \in {"none", "pending_failed", "outcome_uncertain", "committed"}
    /\ faults \in 0..MaxFaults /\ edits \in 0..MaxEdits

(* The hotkey's name, the commit marker, is only ever on a finished run    *)
(* with every log, the summary and the artifact's digest of the authorized *)
(* payload, whatever the SDK lost or delayed (readback before the rename,  *)
(* :3509-3522).                                                            *)
MarkedIsExact == \A v \in Versions : remote[v].name = "hotkey" =>
                     remote[v].status = "finished" /\ remote[v].items = Application

(* A publication reported as committed, its postcommit errors included,    *)
(* has the marker on a run it created itself (:3523-3609).                 *)
CommittedIsMarked == \A p \in Processes : report[p] \in {"committed", "postcommit"} =>
                         remote[held[p]].name = "hotkey" /\ writers[held[p]] = {p}

(* A run whose marker was put by an acknowledged or resolved update is     *)
(* never reported as failed or uncertain by the process that committed it, *)
(* whatever fails afterwards (:3588-3609).                                 *)
CommitIsKept == \A p \in Processes : state[p] = "committed" /\ pc[p] = "ended" =>
                    report[p] \in {"committed", "postcommit"}

(* A deterministic run ID is consumed by one publication: no replay of the *)
(* payload writes into its run, however the first one ended (resume="never", *)
(* :2913, :3476-3507).                                                     *)
NeverReplayed == \A v \in Versions : \A p, q \in writers[v] : p = q

(* A run is created only for the digest given as authorized, from inputs   *)
(* that had that content (authorize_payload, :3183-3203).                  *)
CreatedIsAuthorized == \A v \in Versions : \A p \in writers[v] : digest[p] = v

(* The payload file is complete whenever it is there, after a power loss   *)
(* too (:3090-3140).                                                       *)
ExportedIsComplete == file.there => file.content # Torn

(* The steps that the next property allows. *)
NeverReplacedStep == \A p \in Processes : file.there /\ file'.by = p => file.by = p

(* An export never replaces a file that is there (os.link, :3126).         *)
NeverReplaced == [][NeverReplacedStep]_vars

(* What an export reports holds of the disk: reported as exported, the     *)
(* file survives a power loss; refused, it left nothing (:3142-3164).      *)
ExportIsReported ==
    \A p \in Processes :
      /\ report[p] \in {"exported", "export_postcommit"} /\ edits = 0 => file.by = p /\ file.linked
      /\ report[p] = "refused" => file.by # p

(* "The deterministic run ID was consumed but the hotkey marker was not    *)
(* committed" (WandbPendingFailedError, :195).                             *)
PendingFailedIsUnmarked == \A p \in Processes : report[p] = "pending_failed" =>
                               remote[held[p]].name # "hotkey"
=============================================================================
