---------------------------- MODULE TrainingLineage ----------------------------
(***************************************************************************)
(* The lineage of a training run as the later stages load it               *)
(* (evaluate_code_gguf.load_training_lineage and                           *)
(* evaluate_code._load_training_run): a prepared dataset and the files the *)
(* trainer left, read one after another while somebody may be putting      *)
(* another run in their place.  A file is known by the run it came from; a *)
(* run that was replaced does not come back.  The prepared datasets and    *)
(* corpora are pinned by digest, so one is known by its profile.           *)
(***************************************************************************)
EXTENDS Naturals

CONSTANTS Readers,   \* processes that load the lineage
          LastRun,   \* training runs, numbered in the order they replace each other
          ProfileOf  \* profile of the dataset each run was trained on

Runs == 1..LastRun
Profiles == {"current", "historical", "normalized"}
Parts == {"metadata", "merged", "metrics"}

RunAssumption == LastRun \in Nat \ {0} /\ ProfileOf \in [Runs -> Profiles]

VARIABLES run,      \* run each part on disk belongs to
          data,     \* profile of the prepared dataset on disk
          stage,    \* what each reader's loader reads next
          lineage   \* what each reader's loader has read

disk == <<run, data>>
loader == <<stage, lineage>>

Stages == {"idle", "manifest", "header", "metadata", "merged", "metrics", "receipt",
           "loaded", "refused"}
Nothing == [data |-> "none", header |-> 0, metadata |-> 0, merged |-> 0, metrics |-> 0,
            receipt |-> 0]
Lineages == [data : Profiles \cup {"none"}, header : 0..LastRun, metadata : 0..LastRun,
             merged : 0..LastRun, metrics : 0..LastRun, receipt : 0..LastRun]

LineageInit == /\ run = [part \in Parts |-> 1] /\ data = ProfileOf[1]
               /\ stage = [p \in Readers |-> "idle"]
               /\ lineage = [p \in Readers |-> Nothing]

(* A later run takes the place of a part, another dataset that of the      *)
(* dataset; nothing keeps them together.                                   *)
Replace == \/ \E part \in Parts : \E r \in run[part] + 1..LastRun :
                 run' = [run EXCEPT ![part] = r] /\ UNCHANGED data
           \/ data' \in {ProfileOf[r] : r \in Runs} \ {data} /\ UNCHANGED run

StartLoad(p) == /\ stage' = [stage EXCEPT ![p] = "manifest"]
                /\ lineage' = [lineage EXCEPT ![p] = Nothing]

Read(p, field, value) == lineage' = [lineage EXCEPT ![p][field] = value]
Stage(p, from, to) == stage[p] = from /\ stage' = [stage EXCEPT ![p] = to]

(* The manifest's schema chooses the loader; the dataset behind it is      *)
(* replayed against its pinned source corpus.                              *)
ReadManifest(p) == Stage(p, "manifest", "header") /\ Read(p, "data", data)

(* The header check: the metadata's schema must be the chosen loader's,    *)
(* and its dataset the one just read.                                      *)
HeaderAccepted(profile, r) == ProfileOf[r] = profile
ReadHeader(p) == /\ Read(p, "header", run["metadata"])
                 /\ Stage(p, "header", IF HeaderAccepted(lineage[p].data, run["metadata"])
                                       THEN "metadata" ELSE "refused")

(* The deep validation reads the metadata again, then the trees, then the  *)
(* metrics, and only then compares them.                                   *)
ReadMetadata(p) == Stage(p, "metadata", "merged") /\ Read(p, "metadata", run["metadata"])
ReadMerged(p) == Stage(p, "merged", "metrics") /\ Read(p, "merged", run["merged"])

DatasetBinds(l) == ProfileOf[l.metadata] = l.data
(* Mutant: the merged tree is not compared with the metadata.              *)
AnyTree(l, r) == l.metadata = r /\ DatasetBinds(l)
MetadataBinds(l, r) == DatasetBinds(l) /\ l.metadata = r /\ l.metadata = l.merged
ReadMetrics(p) == /\ Read(p, "metrics", run["metrics"])
                  /\ Stage(p, "metrics", IF MetadataBinds(lineage[p], run["metrics"])
                                         THEN "receipt" ELSE "refused")

(* The receipt is the metadata's identity, from one more read.  Only the   *)
(* v4 and v6 loaders compare it with what was validated.                   *)
ReceiptAccepted(l, r) == l.data # "historical" => r = l.metadata
ReadReceipt(p) == /\ Read(p, "receipt", run["metadata"])
                  /\ Stage(p, "receipt", IF ReceiptAccepted(lineage[p], run["metadata"])
                                         THEN "loaded" ELSE "refused")

LoadStep(p) == \/ ReadManifest(p) \/ ReadHeader(p) \/ ReadMetadata(p) \/ ReadMerged(p)
               \/ ReadMetrics(p) \/ ReadReceipt(p)

(* A loader that was refused, or whose lineage was taken, rests.           *)
Rest(p) == stage' = [stage EXCEPT ![p] = "idle"] /\ UNCHANGED lineage

LineageTypeOK == /\ run \in [Parts -> Runs] /\ data \in Profiles
                 /\ stage \in [Readers -> Stages] /\ lineage \in [Readers -> Lineages]

(* The parts of a lineage are of one run, of the dataset's profile.        *)
OneRun(l) == /\ l.metadata \in Runs /\ l.metadata = l.merged /\ l.metadata = l.metrics
             /\ ProfileOf[l.metadata] = l.data

(* What one load promises whichever files were replaced while it ran: the  *)
(* metadata, merged tree and metrics of a single run of the dataset's      *)
(* profile (_load_training_run).  The receipt is not part of it.           *)
LoadedIsOneRun == \A p \in Readers : stage[p] = "loaded" => OneRun(lineage[p])
=============================================================================
