---------------------------- MODULE CodeProvenance ----------------------------
(***************************************************************************)
(* What a publication of code provenance accepts                           *)
(* (publish_code_provenance.validate_publication): it reads a training     *)
(* run, a load specification, an artifact, the receipts of a conversion    *)
(* and the diagnostics, one file after another, while any of them may be   *)
(* exchanged for one of another conversion or run.  A file is known by the *)
(* conversion it came from, and two conversions may have made one artifact.*)
(***************************************************************************)
EXTENDS TrainingLineage_proofs

CONSTANTS Conversions,  \* numbers of the conversions there have been
          Made,         \* run, kind and artifact of each, as [run, kind, artifact]
          Diagnoses,    \* GGUF diagnostics, as [artifact, run]
          MaxEdits      \* bound on the files exchanged while a validation runs

MadeAssumption ==
  /\ Made \in [Conversions -> [run : Runs, artifact : Nat,
                               kind : {"generic", "calibrated", "auxiliary", "pipeline"}]]
  /\ Diagnoses \subseteq [artifact : Nat, run : Runs] /\ MaxEdits \in Nat

VARIABLES files,    \* conversion the load specification, artifact and receipts are of
          hf,       \* run the HF diagnostic is of
          gguf,     \* the GGUF diagnostic
          request,  \* what each validation was asked
          phase,    \* what each validation reads next
          seen,     \* what it has read
          verdict, edits

vars == <<disk, loader, files, hf, gguf, request, phase, seen, verdict, edits>>

Files == {"load_spec", "artifact", "receipt", "calibration"}
Artifacts == {Made[b].artifact : b \in Conversions}
Requests == [expected : Artifacts, calibration : BOOLEAN, replay : BOOLEAN, diagnostics : BOOLEAN]
Unseen == [metadata |-> 0, metrics |-> 0, load_spec |-> 0, artifact |-> 0, receipt |-> 0,
           calibration |-> 0, hf |-> 0, gguf |-> [artifact |-> 0, run |-> 0]]
Order == {"start", "lineage", "metadata", "metrics", "load_spec", "artifact", "receipt",
          "conversion", "diagnostics", "gguf", "ended"}

(* Only the calibrated conversions and the calibration pipeline make       *)
(* Q4_K_M here, and the load specification says which it is.               *)
Quantization(b) == IF Made[b].kind = "generic" THEN "Q8_0" ELSE "Q4_K_M"
Profile(b) == ProfileOf[Made[b].run]

At(p, place) == phase[p] = place
Goto(p, place) == phase' = [phase EXCEPT ![p] = place]
World == UNCHANGED <<disk, files, hf, gguf, request, edits>>

(* Everything is of one conversion, which has been diagnosed with its run, *)
(* when the operator names its artifact.                                   *)
Init == /\ \E b \in Conversions :
             /\ files = [f \in Files |-> b] /\ hf = Made[b].run
             /\ run = [part \in Parts |-> Made[b].run] /\ data = Profile(b)
             /\ gguf = [artifact |-> Made[b].artifact, run |-> Made[b].run] /\ gguf \in Diagnoses
             /\ request \in [Readers -> {q \in Requests : q.expected = Made[b].artifact}]
        /\ stage = [p \in Readers |-> "idle"] /\ lineage = [p \in Readers |-> Nothing]
        /\ phase = [p \in Readers |-> "start"]
        /\ seen = [p \in Readers |-> Unseen]
        /\ verdict = [p \in Readers |-> "none"] /\ edits = 0

Edit == /\ edits < MaxEdits /\ edits' = edits + 1
        /\ \/ Replace /\ UNCHANGED <<files, hf, gguf>>
           \/ \E f \in Files : \E b \in Conversions \ {files[f]} :
                 files' = [files EXCEPT ![f] = b] /\ UNCHANGED <<disk, hf, gguf>>
           \/ hf' \in Runs \ {hf} /\ UNCHANGED <<disk, files, gguf>>
           \/ gguf' \in Diagnoses \ {gguf} /\ UNCHANGED <<disk, files, hf>>
        /\ UNCHANGED <<loader, request, phase, seen, verdict>>

(* A step that reads one file: what it read is judged at once, or later.   *)
See(p, place, field, value, accepted, next) ==
  /\ At(p, place) /\ seen' = [seen EXCEPT ![p][field] = value] /\ World /\ UNCHANGED loader
  /\ \/ accepted /\ Goto(p, next) /\ UNCHANGED verdict
     \/ ~accepted /\ Goto(p, "ended") /\ verdict' = [verdict EXCEPT ![p] = "refused"]

Start(p) == /\ At(p, "start") /\ StartLoad(p) /\ Goto(p, "lineage")
            /\ World /\ UNCHANGED <<seen, verdict>>
Load(p) == At(p, "lineage") /\ LoadStep(p) /\ World /\ UNCHANGED <<phase, seen, verdict>>
Loaded(p) == /\ At(p, "lineage") /\ World /\ UNCHANGED <<loader, seen>>
             /\ \/ stage[p] = "loaded" /\ Goto(p, "metadata") /\ UNCHANGED verdict
                \/ /\ stage[p] = "refused" /\ Goto(p, "ended")
                   /\ verdict' = [verdict EXCEPT ![p] = "refused"]

(* The metadata is read again: it must be what was deeply validated, and   *)
(* what the lineage's receipt identifies.                                  *)
(* Mutant: it is only compared with the receipt.                           *)
AsIdentified(p, r) == r = lineage[p].receipt
MetadataAgrees(p, r) == r = lineage[p].metadata /\ r = lineage[p].receipt
(* The lineage's profile and the metadata's must be the same one.          *)
ContractAgrees(p, r) == ProfileOf[r] = lineage[p].data
SeeMetadata(p) == LET r == run["metadata"]
                  IN See(p, "metadata", "metadata", r,
                         MetadataAgrees(p, r) /\ ContractAgrees(p, r), "metrics")
MetricsAgree(p, r) == r = lineage[p].metrics
SeeMetrics(p) == LET r == run["metrics"]
                 IN See(p, "metrics", "metrics", r, MetricsAgree(p, r), "load_spec")

SeeLoadSpec(p) == See(p, "load_spec", "load_spec", files["load_spec"], TRUE, "artifact")
(* The artifact has the digest the operator gave, and the file type of the *)
(* load specification.                                                     *)
ArtifactAgrees(p, b) == /\ Made[b].artifact = request[p].expected
                        /\ Quantization(b) = Quantization(seen[p].load_spec)
SeeArtifact(p) == LET b == files["artifact"]
                  IN See(p, "artifact", "artifact", b, ArtifactAgrees(p, b), "receipt")

(* The schema decides what the receipt may be: a conversion of the         *)
(* lineage's profile, and of a current one only the calibrated kind.  The  *)
(* pipeline writes no conversion receipt.                                  *)
SchemaAgrees(p, b) ==
  /\ Profile(b) = lineage[p].data
  /\ \/ /\ Made[b].kind = "generic" /\ lineage[p].data # "current"
        /\ ~request[p].replay /\ Quantization(seen[p].load_spec) # "Q4_K_M"
        /\ request[p].calibration => lineage[p].data = "historical"
     \/ Made[b].kind \in {"calibrated", "auxiliary"} /\ request[p].calibration /\ request[p].replay
SeeReceipt(p) == LET b == files["receipt"]
                 IN See(p, "receipt", "receipt", b, SchemaAgrees(p, b), "conversion")

(* The source, artifact and load specification of a conversion receipt.    *)
Binds(p, b) == /\ Made[b].run = lineage[p].metadata
               /\ Made[b].artifact = Made[seen[p].artifact].artifact
               /\ Quantization(b) = Quantization(seen[p].load_spec)

(* A generic receipt names the calibration it was made with, and none is;  *)
(* a legacy calibration receipt that binds the run and artifact is         *)
(* therefore refused by the conversion receipt it comes with.              *)
LegacyBinds(p, c) == Made[c].kind = "pipeline" /\ Binds(p, c)
CalibrationOf(b) == IF Made[b].kind = "generic" THEN 0 ELSE b
GenericAgrees(p, b, given) ==
  /\ Binds(p, b) /\ given = CalibrationOf(b)
  /\ given # 0 => LegacyBinds(p, given)

(* The calibrated receipts must be of one conversion: the digest, the      *)
(* commands with their times, and the replay are compared across them.  A  *)
(* current one passes all of it and is refused at the end.                 *)
(* Mutant: each receipt is checked against the artifact and not against    *)
(* the other.                                                              *)
EachReceipt(p, b, c) == Binds(p, b) /\ Binds(p, c) /\ lineage[p].data # "current"
CalibratedAgrees(p, b, c) == /\ Binds(p, b) /\ Binds(p, c) /\ c = CalibrationOf(b)
                             /\ lineage[p].data # "current"
ConversionAgrees(p, c) == LET b == seen[p].receipt
                          IN IF Made[b].kind = "generic" THEN GenericAgrees(p, b, c)
                             ELSE CalibratedAgrees(p, b, c)
SeeCalibration(p) == LET c == IF request[p].calibration THEN files["calibration"] ELSE 0
                     IN See(p, "conversion", "calibration", c, ConversionAgrees(p, c),
                            "diagnostics")

(* The HF diagnostic is of the lineage's run; the GGUF one of its whole    *)
(* lineage and of the artifact.                                            *)
SeeHf(p) == See(p, "diagnostics", "hf", IF request[p].diagnostics THEN hf ELSE 0,
                request[p].diagnostics => hf = lineage[p].metadata, "gguf")
(* Mutant: the GGUF diagnostic may be of another run's lineage.            *)
OfArtifact(p, d) == d.artifact = Made[seen[p].artifact].artifact
GgufAgrees(p, d) == /\ d.artifact = Made[seen[p].artifact].artifact
                    /\ d.run = lineage[p].metadata
SeeGguf(p) ==
  /\ At(p, "gguf") /\ Goto(p, "ended") /\ World /\ UNCHANGED loader
  /\ seen' = [seen EXCEPT ![p].gguf = IF request[p].diagnostics THEN gguf ELSE @]
  /\ verdict' = [verdict EXCEPT ![p] = IF request[p].diagnostics => GgufAgrees(p, gguf)
                                       THEN "accepted" ELSE "refused"]

Validate(p) == \/ Start(p) \/ Load(p) \/ Loaded(p) \/ SeeMetadata(p) \/ SeeMetrics(p)
               \/ SeeLoadSpec(p) \/ SeeArtifact(p) \/ SeeReceipt(p) \/ SeeCalibration(p)
               \/ SeeHf(p) \/ SeeGguf(p)
Next == Edit \/ \E p \in Readers : Validate(p)
Spec == Init /\ [][Next]_vars

-----------------------------------------------------------------------------
TypeOK == /\ LineageTypeOK /\ files \in [Files -> Conversions]
          /\ hf \in Runs /\ gguf \in Diagnoses /\ request \in [Readers -> Requests]
          /\ phase \in [Readers -> Order] /\ edits \in 0..MaxEdits
          /\ verdict \in [Readers -> {"none", "accepted", "refused"}]
          /\ \A p \in Readers : verdict[p] # "none" <=> phase[p] = "ended"

Accepted(p) == verdict[p] = "accepted"

(* Everything an accepted publication says of the training is said of one  *)
(* run, the one the published artifact was converted from, whatever was    *)
(* exchanged between two reads.                                            *)
AcceptedIsOneRun ==
  \A p \in Readers : Accepted(p) =>
    /\ OneRun(lineage[p])
    /\ {lineage[p].receipt, seen[p].metadata, seen[p].metrics, Made[seen[p].receipt].run}
         = {lineage[p].metadata}

(* The receipts are of one conversion, it made the artifact the operator   *)
(* named, and that of a current run is never published.                    *)
AcceptedIsOneConversion ==
  \A p \in Readers : Accepted(p) =>
    LET b == seen[p].receipt
    IN /\ Made[b].artifact = request[p].expected
       /\ Made[seen[p].artifact].artifact = request[p].expected
       /\ seen[p].calibration = CalibrationOf(b) /\ Profile(b) # "current"

(* The diagnostics published with an artifact are of that artifact, and of *)
(* the run it was converted from.                                          *)
DiagnosticsAreOfIt ==
  \A p \in Readers : Accepted(p) /\ request[p].diagnostics =>
    /\ seen[p].gguf.artifact = request[p].expected
    /\ {seen[p].hf, seen[p].gguf.run} = {Made[seen[p].receipt].run}
=============================================================================
