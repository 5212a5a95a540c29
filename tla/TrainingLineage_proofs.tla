------------------------ MODULE TrainingLineage_proofs ------------------------
(***************************************************************************)
(* Lemmas about a load of the lineage, for any number of readers and of    *)
(* training runs, whatever is replaced between two reads.  The modules     *)
(* whose stages load a lineage build their invariants on LineageInv.       *)
(***************************************************************************)
EXTENDS TrainingLineage, TLAPS

(* What a load has read was on disk then, and is replaced by a later run   *)
(* only; the comparisons between the reads leave one run.                  *)
Reads(p) ==
  LET l == lineage[p]
  IN  /\ l.metadata <= run["metadata"] /\ l.merged <= run["merged"] /\ l.receipt <= run["metadata"]
      /\ stage[p] \in {"header", "metadata", "merged", "metrics", "receipt", "loaded"} =>
           l.data \in Profiles
      /\ stage[p] \in {"merged", "metrics", "receipt", "loaded"} => l.metadata \in Runs
      /\ stage[p] = "receipt" => OneRun(l)
      /\ stage[p] = "loaded" => OneRun(l) /\ l.receipt \in Runs /\ l.metadata <= l.receipt

LineageInv == LineageTypeOK /\ \A p \in Readers : Reads(p)

(* A read fills one field of the reader's lineage.                         *)
Filled(p, to, dat, header, metadata, merged, metrics, receipt) ==
  /\ stage' \in [Readers -> Stages] /\ lineage' \in [Readers -> Lineages]
  /\ \A q \in Readers \ {p} : stage'[q] = stage[q] /\ lineage'[q] = lineage[q]
  /\ stage'[p] = to /\ lineage'[p].data = dat /\ lineage'[p].header = header
  /\ lineage'[p].metadata = metadata /\ lineage'[p].merged = merged
  /\ lineage'[p].metrics = metrics /\ lineage'[p].receipt = receipt

LEMMA Assigned ==
  ASSUME LineageTypeOK, NEW p \in Readers, NEW to \in Stages, NEW l \in Lineages,
         stage' = [stage EXCEPT ![p] = to], lineage' = [lineage EXCEPT ![p] = l]
  PROVE  Filled(p, to, l.data, l.header, l.metadata, l.merged, l.metrics, l.receipt)
  BY DEF LineageTypeOK, Filled

LEMMA ReadFills ==
  ASSUME LineageTypeOK, NEW p \in Readers, LoadStep(p)
  PROVE  LET l == lineage[p]
         IN  \/ /\ stage[p] = "manifest"
                /\ Filled(p, "header", data, l.header, l.metadata, l.merged, l.metrics, l.receipt)
             \/ /\ stage[p] = "header"
                /\ \E to \in {"metadata", "refused"} :
                     Filled(p, to, l.data, run["metadata"], l.metadata, l.merged, l.metrics,
                            l.receipt)
             \/ /\ stage[p] = "metadata"
                /\ Filled(p, "merged", l.data, l.header, run["metadata"], l.merged, l.metrics,
                          l.receipt)
             \/ /\ stage[p] = "merged"
                /\ Filled(p, "metrics", l.data, l.header, l.metadata, run["merged"], l.metrics,
                          l.receipt)
             \/ /\ stage[p] = "metrics"
                /\ \E to \in {"receipt", "refused"} :
                     /\ Filled(p, to, l.data, l.header, l.metadata, l.merged, run["metrics"],
                               l.receipt)
                     /\ to = "receipt" => MetadataBinds(l, run["metrics"])
             \/ /\ stage[p] = "receipt"
                /\ \E to \in {"loaded", "refused"} :
                     Filled(p, to, l.data, l.header, l.metadata, l.merged, l.metrics,
                            run["metadata"])
  <1> DEFINE l == lineage[p]
  <1>1. l \in Lineages /\ stage[p] \in Stages /\ data \in Profiles /\ run \in [Parts -> Runs]
    BY DEF LineageTypeOK
  <1>2. /\ run["metadata"] \in 0..LastRun /\ run["merged"] \in 0..LastRun
        /\ run["metrics"] \in 0..LastRun
    BY <1>1 DEF Parts, Runs
  <1> HIDE DEF l
  <1>3. CASE ReadManifest(p)
    <2> DEFINE m == [l EXCEPT !["data"] = data]
    <2>1. /\ m \in Lineages /\ m.data = data /\ m.header = l.header /\ m.metadata = l.metadata
          /\ m.merged = l.merged /\ m.metrics = l.metrics /\ m.receipt = l.receipt
      BY <1>1 DEF Lineages
    <2>2. lineage' = [lineage EXCEPT ![p] = m] /\ stage' = [stage EXCEPT ![p] = "header"]
      BY <1>3 DEF ReadManifest, Read, Stage, LineageTypeOK, l
    <2> HIDE DEF m
    <2>3. Filled(p, "header", m.data, m.header, m.metadata, m.merged, m.metrics, m.receipt)
      BY <2>1, <2>2, Assigned DEF Stages
    <2> QED BY <1>3, <2>1, <2>3 DEF ReadManifest, Stage, l
  <1>4. CASE ReadHeader(p)
    <2> DEFINE m == [l EXCEPT !["header"] = run["metadata"]]
    <2>1. /\ m \in Lineages /\ m.data = l.data /\ m.header = run["metadata"]
          /\ m.metadata = l.metadata /\ m.merged = l.merged /\ m.metrics = l.metrics
          /\ m.receipt = l.receipt
      BY <1>1, <1>2 DEF Lineages
    <2>2. PICK to \in {"metadata", "refused"} : stage' = [stage EXCEPT ![p] = to]
      BY <1>4 DEF ReadHeader, Stage
    <2>3. lineage' = [lineage EXCEPT ![p] = m] /\ to \in Stages
      BY <1>4 DEF ReadHeader, Read, Stages, l
    <2> HIDE DEF m
    <2>4. Filled(p, to, m.data, m.header, m.metadata, m.merged, m.metrics, m.receipt)
      BY <2>1, <2>2, <2>3, Assigned
    <2> QED BY <1>4, <2>1, <2>4 DEF ReadHeader, Stage, l
  <1>5. CASE ReadMetadata(p)
    <2> DEFINE m == [l EXCEPT !["metadata"] = run["metadata"]]
    <2>1. /\ m \in Lineages /\ m.data = l.data /\ m.header = l.header
          /\ m.metadata = run["metadata"] /\ m.merged = l.merged /\ m.metrics = l.metrics
          /\ m.receipt = l.receipt
      BY <1>1, <1>2 DEF Lineages
    <2>2. lineage' = [lineage EXCEPT ![p] = m] /\ stage' = [stage EXCEPT ![p] = "merged"]
      BY <1>5 DEF ReadMetadata, Read, Stage, l
    <2> HIDE DEF m
    <2>3. Filled(p, "merged", m.data, m.header, m.metadata, m.merged, m.metrics, m.receipt)
      BY <2>1, <2>2, Assigned DEF Stages
    <2> QED BY <1>5, <2>1, <2>3 DEF ReadMetadata, Stage, l
  <1>6. CASE ReadMerged(p)
    <2> DEFINE m == [l EXCEPT !["merged"] = run["merged"]]
    <2>1. /\ m \in Lineages /\ m.data = l.data /\ m.header = l.header
          /\ m.metadata = l.metadata /\ m.merged = run["merged"] /\ m.metrics = l.metrics
          /\ m.receipt = l.receipt
      BY <1>1, <1>2 DEF Lineages
    <2>2. lineage' = [lineage EXCEPT ![p] = m] /\ stage' = [stage EXCEPT ![p] = "metrics"]
      BY <1>6 DEF ReadMerged, Read, Stage, l
    <2> HIDE DEF m
    <2>3. Filled(p, "metrics", m.data, m.header, m.metadata, m.merged, m.metrics, m.receipt)
      BY <2>1, <2>2, Assigned DEF Stages
    <2> QED BY <1>6, <2>1, <2>3 DEF ReadMerged, Stage, l
  <1>7. CASE ReadMetrics(p)
    <2> DEFINE m == [l EXCEPT !["metrics"] = run["metrics"]]
    <2>1. /\ m \in Lineages /\ m.data = l.data /\ m.header = l.header
          /\ m.metadata = l.metadata /\ m.merged = l.merged /\ m.metrics = run["metrics"]
          /\ m.receipt = l.receipt
      BY <1>1, <1>2 DEF Lineages
    <2>2. PICK to \in {"receipt", "refused"} :
            /\ stage' = [stage EXCEPT ![p] = to]
            /\ to = "receipt" => MetadataBinds(l, run["metrics"])
      BY <1>7 DEF ReadMetrics, Stage, l
    <2>3. lineage' = [lineage EXCEPT ![p] = m] /\ to \in Stages
      BY <1>7 DEF ReadMetrics, Read, Stages, l
    <2> HIDE DEF m
    <2>4. Filled(p, to, m.data, m.header, m.metadata, m.merged, m.metrics, m.receipt)
      BY <2>1, <2>2, <2>3, Assigned
    <2> QED BY <1>7, <2>1, <2>2, <2>4 DEF ReadMetrics, Stage, l
  <1>8. CASE ReadReceipt(p)
    <2> DEFINE m == [l EXCEPT !["receipt"] = run["metadata"]]
    <2>1. /\ m \in Lineages /\ m.data = l.data /\ m.header = l.header
          /\ m.metadata = l.metadata /\ m.merged = l.merged /\ m.metrics = l.metrics
          /\ m.receipt = run["metadata"]
      BY <1>1, <1>2 DEF Lineages
    <2>2. PICK to \in {"loaded", "refused"} : stage' = [stage EXCEPT ![p] = to]
      BY <1>8 DEF ReadReceipt, Stage
    <2>3. lineage' = [lineage EXCEPT ![p] = m] /\ to \in Stages
      BY <1>8 DEF ReadReceipt, Read, Stages, l
    <2> HIDE DEF m
    <2>4. Filled(p, to, m.data, m.header, m.metadata, m.merged, m.metrics, m.receipt)
      BY <2>1, <2>2, <2>3, Assigned
    <2> QED BY <1>8, <2>1, <2>4 DEF ReadReceipt, Stage, l
  <1> QED BY <1>3, <1>4, <1>5, <1>6, <1>7, <1>8 DEF LoadStep, l

LEMMA NothingType ==
  ASSUME RunAssumption
  PROVE  /\ Nothing \in Lineages /\ Nothing.data = "none" /\ Nothing.metadata = 0
         /\ Nothing.merged = 0 /\ Nothing.receipt = 0
  BY DEF Nothing, Lineages, RunAssumption

(* What the invariant says of p's load is kept if p does not read.         *)
LEMMA LoadStays ==
  ASSUME LineageInv, NEW p \in Readers, stage'[p] = stage[p], lineage'[p] = lineage[p],
         run' \in [Parts -> Runs], \A part \in Parts : run[part] <= run'[part], RunAssumption
  PROVE  Reads(p)'
  <1> DEFINE l == lineage[p]
  <1>1. /\ l.metadata \in Nat /\ l.merged \in Nat /\ l.receipt \in Nat
    BY DEF LineageInv, LineageTypeOK, Lineages
  <1>2. /\ run["metadata"] \in Nat /\ run["merged"] \in Nat
        /\ run'["metadata"] \in Nat /\ run'["merged"] \in Nat
        /\ run["metadata"] <= run'["metadata"] /\ run["merged"] <= run'["merged"]
    BY DEF LineageInv, LineageTypeOK, Parts, Runs
  <1>3. Reads(p)
    BY DEF LineageInv
  <1>4. l.metadata <= run'["metadata"] /\ l.merged <= run'["merged"] /\ l.receipt <= run'["metadata"]
    BY <1>1, <1>2, <1>3 DEF Reads
  <1> QED BY <1>3, <1>4 DEF Reads, OneRun

(* A part that is not replaced is of the same run. *)
LEMMA SameRun ==
  ASSUME LineageInv, RunAssumption, UNCHANGED disk
  PROVE  /\ run \in [Parts -> Runs] /\ run' \in [Parts -> Runs] /\ run' = run
         /\ data \in Profiles /\ data' = data /\ \A part \in Parts : run[part] <= run'[part]
         /\ run["metadata"] \in Nat /\ run["merged"] \in Nat /\ run["metrics"] \in Nat
         /\ run["metadata"] \in Runs /\ run["merged"] \in Runs /\ run["metrics"] \in Runs
  <1>1. run \in [Parts -> Runs] /\ data \in Profiles /\ run' = run /\ data' = data
    BY DEF LineageInv, LineageTypeOK, disk
  <1>2. \A part \in Parts : run[part] \in Runs /\ run[part] \in Nat
    BY <1>1 DEF Runs, RunAssumption
  <1>3. \A part \in Parts : run[part] <= run'[part]
    BY <1>1, <1>2
  <1> QED BY <1>1, <1>2, <1>3 DEF Parts

LEMMA LoadKeeps ==
  ASSUME LineageInv, RunAssumption, NEW p \in Readers, LoadStep(p), UNCHANGED disk
  PROVE  LineageInv'
  <1> DEFINE l == lineage[p]
             m == lineage'[p]
  <1>1. /\ l \in Lineages /\ l.metadata \in Nat /\ l.merged \in Nat /\ l.receipt \in Nat
        /\ run' = run
    BY SameRun DEF LineageInv, LineageTypeOK, Lineages
  <1>2. \A q \in Readers \ {p} : stage'[q] = stage[q] /\ lineage'[q] = lineage[q]
    BY ReadFills DEF LineageInv, Filled
  <1>3. \A q \in Readers \ {p} : Reads(q)'
    BY <1>2, SameRun, LoadStays
  <1>4. Reads(p)
    BY DEF LineageInv
  <1>5. m.metadata <= run["metadata"] /\ m.merged <= run["merged"] /\ m.receipt <= run["metadata"]
    BY <1>1, <1>4, SameRun, ReadFills DEF LineageInv, Filled, Reads
  <1>6. stage'[p] \in {"header", "metadata", "merged", "metrics", "receipt", "loaded"}
          => m.data \in Profiles
    BY <1>4, SameRun, ReadFills DEF LineageInv, Filled, Reads
  <1>7. stage'[p] \in {"merged", "metrics", "receipt", "loaded"} => m.metadata \in Runs
    BY <1>4, SameRun, ReadFills DEF LineageInv, Filled, Reads, OneRun
  <1>8. stage'[p] = "receipt" => OneRun(m)
    BY <1>4, SameRun, ReadFills DEF LineageInv, Filled, Reads, OneRun, MetadataBinds, DatasetBinds
  <1>9. stage'[p] = "loaded" => OneRun(m) /\ m.receipt \in Runs /\ m.metadata <= m.receipt
    BY <1>4, SameRun, ReadFills DEF LineageInv, Filled, Reads, OneRun
  <1>10. Reads(p)'
    BY <1>1, <1>5, <1>6, <1>7, <1>8, <1>9 DEF Reads, OneRun
  <1>11. LineageTypeOK'
    BY SameRun, ReadFills DEF LineageInv, LineageTypeOK, Filled
  <1> QED BY <1>3, <1>10, <1>11 DEF LineageInv

LEMMA StartKeeps ==
  ASSUME LineageInv, RunAssumption, NEW p \in Readers, StartLoad(p), UNCHANGED disk
  PROVE  LineageInv' /\ stage'[p] = "manifest" /\ lineage'[p] = Nothing
  <1>1. Filled(p, "manifest", "none", Nothing.header, 0, 0, Nothing.metrics, 0)
    BY NothingType, Assigned DEF StartLoad, LineageInv, Stages
  <1>2. \A q \in Readers \ {p} : Reads(q)'
    BY <1>1, SameRun, LoadStays DEF Filled
  <1>3. Reads(p)'
    BY <1>1, SameRun DEF Filled, Reads
  <1>4. LineageTypeOK'
    BY <1>1, SameRun DEF LineageTypeOK, Filled
  <1>5. stage'[p] = "manifest" /\ lineage'[p] = Nothing
    BY DEF StartLoad, LineageInv, LineageTypeOK
  <1> QED BY <1>2, <1>3, <1>4, <1>5 DEF LineageInv

LEMMA RestKeeps ==
  ASSUME LineageInv, RunAssumption, NEW p \in Readers, Rest(p), UNCHANGED disk
  PROVE  LineageInv'
  <1>1. /\ UNCHANGED lineage /\ stage' = [stage EXCEPT ![p] = "idle"]
        /\ stage \in [Readers -> Stages] /\ lineage \in [Readers -> Lineages]
    BY DEF LineageInv, LineageTypeOK, Rest
  <1>2. \A q \in Readers \ {p} : Reads(q)'
    BY <1>1, SameRun, LoadStays
  <1>3. Reads(p)'
    BY <1>1, SameRun DEF LineageInv, Reads
  <1>4. LineageTypeOK'
    BY <1>1, SameRun DEF LineageTypeOK, Stages
  <1> QED BY <1>2, <1>3, <1>4 DEF LineageInv

LEMMA StillKeeps ==
  ASSUME LineageInv, UNCHANGED <<disk, loader>> PROVE LineageInv'
  BY DEF LineageInv, LineageTypeOK, Reads, disk, loader, OneRun

(* A part is only ever replaced by one of a later run.                     *)
LEMMA ReplaceGrows ==
  ASSUME LineageInv, RunAssumption, Replace
  PROVE  /\ run' \in [Parts -> Runs] /\ data' \in Profiles
         /\ \A part \in Parts : run[part] <= run'[part]
  <1>1. run \in [Parts -> Runs] /\ data \in Profiles /\ LastRun \in Nat /\ ProfileOf \in [Runs -> Profiles]
    BY DEF LineageInv, LineageTypeOK, RunAssumption
  <1>2. ASSUME NEW part \in Parts, NEW r \in run[part] + 1..LastRun,
               run' = [run EXCEPT ![part] = r], UNCHANGED data
        PROVE  /\ run' \in [Parts -> Runs] /\ data' \in Profiles
               /\ \A q \in Parts : run[q] <= run'[q]
    <2>1. run[part] \in Runs /\ r \in Runs /\ run[part] <= r
      BY <1>1, <1>2 DEF Runs
    <2>2. \A q \in Parts : run[q] \in Nat /\ run[q] <= run[q]
      BY <1>1 DEF Runs
    <2> QED BY <1>1, <1>2, <2>1, <2>2
  <1>3. ASSUME data' \in {ProfileOf[r] : r \in Runs} \ {data}, UNCHANGED run
        PROVE  /\ run' \in [Parts -> Runs] /\ data' \in Profiles
               /\ \A q \in Parts : run[q] <= run'[q]
    BY <1>1, <1>3 DEF Runs
  <1> QED BY <1>2, <1>3 DEF Replace

LEMMA ReplaceKeeps ==
  ASSUME LineageInv, RunAssumption, Replace, UNCHANGED loader PROVE LineageInv'
  <1>1. /\ run' \in [Parts -> Runs] /\ data' \in Profiles
        /\ \A part \in Parts : run[part] <= run'[part]
    BY ReplaceGrows
  <1>2. UNCHANGED <<stage, lineage>>
    BY DEF loader
  <1>3. \A q \in Readers : Reads(q)'
    BY <1>1, <1>2, LoadStays
  <1> QED BY <1>1, <1>2, <1>3 DEF LineageInv, LineageTypeOK
=============================================================================
