--------------------------- MODULE ExportVerification ---------------------------
(***************************************************************************)
(* Verification of a conversion export (verify_code_conversion_export):    *)
(* the trust files are read by path, held open, validated and closed; then *)
(* the export's files and the trust files are held open, the signature is  *)
(* checked over the descriptors, the receipts and the model are read from  *)
(* them, and the status of each descriptor, of its name and of its         *)
(* directories is compared again and again, while somebody may be writing. *)
(*                                                                         *)
(* A file is of a job, or is malformed: the worker spec of a job pins the  *)
(* trust files and the outputs of that job, its receipts name that spec    *)
(* and that model.  A signature is of one message by one key.  A status is *)
(* the time of the last change; a check whose reads all find the times     *)
(* that were noted happens at one instant, for no time comes back.         *)
(***************************************************************************)
EXTENDS Naturals, Sequences

CONSTANTS Jobs, MaxEdits

JobAssumption == Jobs # {} /\ MaxEdits \in Nat

Trust == <<"spec", "manifest", "key", "verifier", "evidence">>
Export == <<"conversion", "model", "message", "signature">>
Malformed == 0
Entries(s) == {s[i] : i \in DOMAIN s}
Files == Entries(Trust) \cup Entries(Export)
Group(f) == IF f \in Entries(Trust) THEN Trust ELSE Export
Contents(f) == IF f = "signature" THEN [of : Jobs, by : Jobs]
               ELSE Jobs \cup {Malformed}

VARIABLES inodes,    \* of each name, the files it has been given, the last one its own
          times,     \* last change of the trust and of the export directory
          edits,
          at,        \* what is left of the plan
          initial,   \* the spec as read by path
          noted,     \* status of the name that is being opened
          held,      \* file, status and digest of every open descriptor
          preflight, \* digests of the trust files that the preflight accepted
          signed,    \* what the signature was checked over
          read,      \* receipts and model as parsed
          instant,   \* everything was in place and of one job when the last round began
          verdict

world == <<inodes, times, edits>>
work == <<initial, noted, held, preflight, signed, read>>
vars == <<world, at, work, instant, verdict>>

Current(f) == inodes[f][Len(inodes[f])]
Bytes(f) == Current(f).bytes
Genuine(job, f) == IF f = "signature" THEN [of |-> job, by |-> job] ELSE job
NotHeld == [file |-> 0, time |-> 0, directory |-> 0, bytes |-> 0]

-----------------------------------------------------------------------------
(* The plan of verify_export.                                              *)

Task(what, names) == [i \in 1..Len(names) |-> [do |-> what, of |-> names[i]]]
Once(what) == <<[do |-> what, of |-> "none"]>>
_open_bound_group(names) ==
  [i \in 1..2 * Len(names) |-> [do |-> IF i % 2 = 1 THEN "stat" ELSE "open",
                                of |-> names[(i + 1) \div 2]]]
_preflight_context == Once("initial") \o _open_bound_group(Trust) \o Once("pinned")
                      \o Task("recheck", Trust) \o Once("close")
Round == Task("rehash", Trust \o Export)
_bind_export == _open_bound_group(Export) \o Task("rehash", Export)
LastRound(parsed) == parsed \o Once("last") \o Round
Parsed == Task("read", <<"message", "conversion", "model">>) \o Once("receipts")
verify_export == _preflight_context \o _bind_export \o _open_bound_group(Trust) \o Once("same")
                 \o Round \o Once("signature") \o Round
                 \o LastRound(Parsed)

(* Jobs are alike; at first everything is of one.                          *)
FirstJob == CHOOSE job \in Jobs : TRUE
Init == /\ inodes = [f \in Files |-> <<[bytes |-> Genuine(FirstJob, f), time |-> 0]>>]
        /\ times = [g \in {Trust, Export} |-> 0] /\ edits = 0 /\ at = verify_export
        /\ initial = [f \in {"spec", "manifest"} |-> Malformed]
        /\ noted = NotHeld /\ held = [f \in Files |-> NotHeld]
        /\ preflight = [f \in Entries(Trust) |-> 0] /\ signed = <<>>
        /\ read = [f \in Entries(Export) |-> Malformed]
        /\ instant = FALSE /\ verdict = "none"

-----------------------------------------------------------------------------
(* The writer: a file is written in place or replaced, or its directory is *)
(* exchanged for another with the files of one job.                        *)

Now == edits + 1
Gone(s) == [s EXCEPT ![Len(s)].time = Now]
New(bytes) == [bytes |-> bytes, time |-> Now]

Edit ==
  /\ edits < MaxEdits /\ verdict = "none" /\ edits' = Now
  /\ \/ \E f \in Files : \E bytes \in Contents(f) \ {Bytes(f)} :
          \/ /\ inodes' = [inodes EXCEPT ![f][Len(inodes[f])] = New(bytes)] /\ UNCHANGED times
          \/ /\ inodes' = [inodes EXCEPT ![f] = Append(Gone(@), New(bytes))]
             /\ times' = [times EXCEPT ![Group(f)] = Now]
     \/ \E g \in {Trust, Export}, job \in Jobs :
          /\ inodes' = [f \in Files |-> IF f \in Entries(g)
                                        THEN Append(inodes[f], New(Genuine(job, f)))
                                        ELSE inodes[f]]
          /\ times' = [times EXCEPT ![g] = Now]
  /\ UNCHANGED <<at, work, instant, verdict>>

-----------------------------------------------------------------------------
(* The verifier.                                                           *)

Doing(what) == verdict = "none" /\ at[1].do = what
This == at[1].of

(* Every descriptor is closed when the verification ends, either way.      *)
(* Mutant: only the trust files are closed.                                *)
KeepsExport(h) == [f \in Files |-> IF f \in Entries(Trust) THEN NotHeld ELSE h[f]]
Closed(h) == [f \in Files |-> NotHeld]
Advance(accepted, h) ==
  /\ at' = IF accepted /\ Len(at) > 1 THEN Tail(at) ELSE at
  /\ verdict' = IF ~accepted THEN "refused"
                ELSE IF Len(at) = 1 THEN "accepted" ELSE "none"
  /\ held' = IF verdict' = "none" THEN h ELSE Closed(h)
  /\ UNCHANGED world

(* The spec and the manifest, by path; templates are refused here.         *)
_validate_worker_spec(bytes) == bytes # Malformed
_validate_input_manifest(bytes) == bytes # Malformed
Initial == /\ Doing("initial") /\ initial' = [f \in {"spec", "manifest"} |-> Bytes(f)]
           /\ Advance(/\ _validate_worker_spec(Bytes("spec"))
                      /\ _validate_input_manifest(Bytes("manifest")), held)
           /\ UNCHANGED <<noted, preflight, signed, read, instant>>

(* A name's status, then its file, if it still has that status.            *)
Seen(f) == [file |-> Len(inodes[f]), time |-> Current(f).time,
            directory |-> times[Group(f)], bytes |-> 0]
Stat == /\ Doing("stat") /\ Advance(TRUE, held) /\ noted' = Seen(This)
        /\ UNCHANGED <<initial, preflight, signed, read, instant>>
_open_bound_file ==
  /\ Doing("open")
  /\ Advance(noted = Seen(This), [held EXCEPT ![This] = [noted EXCEPT !.bytes = Bytes(This)]])
  /\ noted' = NotHeld
  /\ UNCHANGED <<initial, preflight, signed, read, instant>>

(* The file behind a descriptor, whether or not a name still leads to it.  *)
Behind(f) == inodes[f][held[f].file]

(* Mutant: only the descriptor is looked at, not its name and directories. *)
DescriptorOnly(f) == Behind(f).time = held[f].time
_recheck_bound_file(f) ==
  /\ Behind(f).time = held[f].time
  /\ held[f].file = Len(inodes[f]) /\ held[f].directory = times[Group(f)]
Recheck == /\ Doing("recheck") /\ Advance(_recheck_bound_file(This), held)
           /\ UNCHANGED <<initial, noted, preflight, signed, read, instant>>
_rehash_bound_file(f) == Behind(f).bytes = held[f].bytes /\ _recheck_bound_file(f)
Rehash == /\ Doing("rehash") /\ Advance(_rehash_bound_file(This), held)
          /\ UNCHANGED <<initial, noted, preflight, signed, read, instant>>

(* The spec and the manifest, parsed from their descriptors, are as they   *)
(* were read by path, and the spec pins the other trust files.             *)
Reparsed == \A f \in {"spec", "manifest"} : Behind(f).bytes = initial[f]
_validate_static_verifier_elf == Behind("verifier").bytes # Malformed
_validate_runner_preflight_evidence == Behind("evidence").bytes = initial["spec"]
PinnedBySpec == /\ Reparsed
                /\ \A f \in Entries(Trust) : held[f].bytes = initial["spec"]
                /\ _validate_static_verifier_elf /\ _validate_runner_preflight_evidence
Pinned == /\ Doing("pinned") /\ Advance(PinnedBySpec, held)
          /\ preflight' = [f \in Entries(Trust) |-> held[f].bytes]
          /\ UNCHANGED <<initial, noted, signed, read, instant>>
Close == /\ Doing("close") /\ Advance(TRUE, Closed(held))
         /\ UNCHANGED <<initial, noted, preflight, signed, read, instant>>

(* The trust files opened now are those that the preflight accepted.       *)
(* Mutant: what was opened is not compared with the preflight.             *)
AnyTrust == TRUE
SameTrust == /\ \A f \in Entries(Trust) : held[f].bytes = preflight[f]
             /\ Reparsed /\ _validate_static_verifier_elf /\ _validate_runner_preflight_evidence
Same == /\ Doing("same") /\ Advance(SameTrust, held)
        /\ UNCHANGED <<initial, noted, preflight, signed, read, instant>>

(* The pinned verifier reads the descriptors; it may also fail or time out.*)
Verifies == Behind("signature").bytes = [of |-> Behind("message").bytes,
                                         by |-> Behind("key").bytes]
CommandSignatureVerifier ==
  /\ Doing("signature") /\ \E answers \in BOOLEAN : Advance(answers /\ Verifies, held)
  /\ signed' = [message |-> Behind("message").bytes, key |-> Behind("key").bytes]
  /\ UNCHANGED <<initial, noted, preflight, read, instant>>

(* The receipts and the model are parsed from their descriptors.           *)
_bound_bytes == /\ Doing("read") /\ Advance(TRUE, held)
                /\ read' = [read EXCEPT ![This] = Behind(This).bytes]
                /\ UNCHANGED <<initial, noted, preflight, signed, instant>>
(* The worker receipt names what was hashed when the files were opened.    *)
_validate_worker_receipt ==
  /\ read["message"] = preflight["spec"]
  /\ \A f \in {"conversion", "model"} : held[f].bytes = read["message"]
_static_gguf_identity_bound == read["model"] # Malformed
_validate_conversion_receipts == /\ read["conversion"] = preflight["spec"]
                                 /\ read["model"] = read["conversion"]
Receipts == /\ Doing("receipts")
            /\ Advance(/\ _validate_worker_receipt /\ _static_gguf_identity_bound
                       /\ _validate_conversion_receipts, held)
            /\ UNCHANGED <<initial, noted, preflight, signed, read, instant>>

(* The last round begins.                                                  *)
Last == /\ Doing("last") /\ Advance(TRUE, held)
        /\ instant' = \E job \in Jobs : \A f \in Files : Bytes(f) = Genuine(job, f)
        /\ UNCHANGED <<initial, noted, preflight, signed, read>>

Verify == \/ Initial \/ Stat \/ _open_bound_file \/ Recheck \/ Rehash \/ Pinned \/ Close \/ Same
          \/ CommandSignatureVerifier \/ _bound_bytes \/ Receipts \/ Last
Next == Edit \/ Verify
Spec == Init /\ [][Next]_vars

-----------------------------------------------------------------------------
(* Every descriptor is closed once the verification has ended.             *)
TypeOK == /\ \A f \in Files : \A i \in DOMAIN inodes[f] :
               inodes[f][i].bytes \in Contents(f) /\ inodes[f][i].time \in 0..edits
          /\ \A g \in {Trust, Export} : times[g] \in 0..edits
          /\ edits \in 0..MaxEdits /\ at # <<>>
          /\ \A f \in DOMAIN initial : initial[f] \in Contents(f)
          /\ \A f \in Files : held[f].file \in 0..Len(inodes[f])
          /\ instant \in BOOLEAN /\ verdict \in {"none", "accepted", "refused"}
          /\ verdict # "none" => \A f \in Files : held[f] = NotHeld

(* An accepted receipt is the one whose signature was checked, with the    *)
(* key that the worker spec pins, and names the model that was read.       *)
AcceptedIsSigned ==
  verdict = "accepted" => /\ signed = [message |-> read["message"], key |-> initial["spec"]]
                          /\ \A f \in Entries(Export) \ {"signature"} : read[f] = initial["spec"]

(* At one instant while an accepted export was verified, the trust files   *)
(* and the export's files were all of one job and were in place, by name,  *)
(* whatever was written, replaced or exchanged (_recheck_export_binding).  *)
AcceptedAtOnce == verdict = "accepted" => instant
=============================================================================
