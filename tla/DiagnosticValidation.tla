-------------------------- MODULE DiagnosticValidation --------------------------
(***************************************************************************)
(* What a validation of the diagnostic's repeats accepts                   *)
(* (validate_code_gguf_diagnostic.validate_declared_diagnostic): a         *)
(* declared experiment names a training run, the conversions of it, an     *)
(* artifact and a runtime, and the repeats are to be evaluations of these, *)
(* made one after the other.  Every file is read once, while any of them   *)
(* may be exchanged.  A receipt or artifact is known by its conversion,    *)
(* the files of a repeat by their evaluation.  Refusing changes nothing,   *)
(* so where the code refuses at once a step here may do so a little later. *)
(***************************************************************************)
EXTENDS TrainingLineage_proofs, Sequences

CONSTANTS Conversions,  \* numbers of the conversions there have been
          Made,         \* run and artifact of each, as [run, artifact]
          Evaluated,    \* artifact, run, runtime, output, start and finish of each
                        \* evaluation there has been, and whether it passes the gates
          Specs,        \* the experiments an operator may declare
          LastRepeat,   \* repeats of the diagnostic
          LastRuntime,  \* signed runtimes, numbered
          MaxEdits      \* bound on the files exchanged while a validation runs

Repeats == 1..LastRepeat
Runtimes == 1..LastRuntime
Artifacts == {Made[c].artifact : c \in Conversions}
Evaluations == DOMAIN Evaluated

(* An evaluation takes time: it loads a model between its two clocks.      *)
EvaluationAssumption ==
  /\ Made \in [Conversions -> [run : Runs, artifact : Nat \ {0}]]
  /\ Evaluated \in [Evaluations -> [artifact : Nat, run : Runs, runtime : Runtimes, output : Nat,
                                    start : Nat, finish : Nat, passes : BOOLEAN]]
  /\ \A e \in Evaluations : Evaluated[e].start < Evaluated[e].finish
  /\ 0 \notin Conversions /\ 0 \notin Evaluations
  /\ {LastRepeat, LastRuntime} \subseteq Nat \ {0} /\ MaxEdits \in Nat

(* The historical experiment is one file, known by its digest, with two    *)
(* bundles.  The normalized and the current one are what the operator      *)
(* observed, which need not belong together; a normalized one has no       *)
(* calibration.                                                            *)
HistoricalSpec(r, first, second) ==
  [profile |-> "historical", run |-> r, bundles |-> <<first, second>>,
   calibrations |-> <<first, second>>, artifact |-> Made[first].artifact, runtime |-> 1]
NormalizedSpec(r, c, a, n) ==
  [profile |-> "normalized", run |-> r, bundles |-> <<c>>, calibrations |-> <<0>>,
   artifact |-> a, runtime |-> n]
CurrentSpec(r, c, calibration, a, n) ==
  [profile |-> "current", run |-> r, bundles |-> <<c>>, calibrations |-> <<calibration>>,
   artifact |-> a, runtime |-> n]
HistoricalSpecs == {HistoricalSpec(r, b, c) : r \in Runs, b \in Conversions, c \in Conversions}
NormalizedSpecs == {NormalizedSpec(r, c, a, n) :
                      r \in Runs, c \in Conversions, a \in Artifacts, n \in Runtimes}
CurrentSpecs == {CurrentSpec(r, c, k, a, n) :
                   r \in Runs, c \in Conversions, k \in Conversions, a \in Artifacts, n \in Runtimes}

SpecAssumption == Specs \subseteq HistoricalSpecs \cup NormalizedSpecs \cup CurrentSpecs

VARIABLES source,   \* what is wrong with the checked-out tools
          bundle,   \* conversion the files of each bundle are of
          runtime,  \* the installed runtime
          results,  \* evaluation the results of each repeat are of; 0 when absent
          summary,  \* evaluation the summary of each repeat is of; 0 when absent
          partial,  \* repeats with a staging directory beside their root
          spec, through,  \* what each validation was asked
          phase,    \* where each validation is
          seen,     \* what it has read
          verdict, edits

world == <<disk, source, bundle, runtime, results, summary, partial>>
asked == <<spec, through>>
vars == <<world, loader, asked, phase, seen, verdict, edits>>

Defects == {"checkout", "bytes", "unadvertised", "shadow"}
Files == {"receipt", "calibration", "artifact"}
Bundles == {1, 2}
Unseen == [receipt |-> [b \in Bundles |-> 0], calibration |-> [b \in Bundles |-> 0],
           artifact |-> [b \in Bundles |-> 0], runtime |-> 0,
           results |-> [k \in Repeats |-> 0], summary |-> [k \in Repeats |-> 0]]

(* What a validation reads, in order.  The current one reads the lineage   *)
(* before the bundle, and the calibration before the conversion.           *)
HistoricalBegin ==
  << <<"tools", 0>>, <<"receipt", 1>>, <<"calibration", 1>>, <<"artifact", 1>>, <<"receipt", 2>>,
     <<"calibration", 2>>, <<"artifact", 2>>, <<"load", 0>>, <<"lineage", 0>>, <<"runtime", 0>>,
     <<"roots", 0>> >>
NormalizedBegin ==
  << <<"tools", 0>>, <<"receipt", 1>>, <<"artifact", 1>>, <<"load", 0>>, <<"lineage", 0>>,
     <<"runtime", 0>>, <<"roots", 0>> >>
CurrentBegin ==
  << <<"tools", 0>>, <<"load", 0>>, <<"lineage", 0>>, <<"calibration", 1>>, <<"receipt", 1>>,
     <<"artifact", 1>>, <<"runtime", 0>>, <<"roots", 0>> >>
Begin(p) == CASE spec[p].profile = "historical" -> HistoricalBegin
              [] spec[p].profile = "normalized" -> NormalizedBegin
              [] spec[p].profile = "current" -> CurrentBegin

(* The steps after the beginning are the results and the summary of each   *)
(* repeat asked for, and what is common to them.                           *)
Length(p) == Len(Begin(p)) + 2 * through[p] + 1
Place(p) ==
  LET i == phase[p] - Len(Begin(p))
  IN IF i <= 0 THEN Begin(p)[phase[p]]
     ELSE IF phase[p] = Length(p) THEN <<"aggregate", 0>>
     ELSE <<IF i % 2 = 1 THEN "results" ELSE "summary", (i + 1) \div 2>>

At(p, place) == verdict[p] = "none" /\ Place(p) = place
World == UNCHANGED <<world, asked, edits>>

Pass(p, accepted) ==
  IF ~accepted THEN verdict' = [verdict EXCEPT ![p] = "refused"] /\ UNCHANGED phase
  ELSE IF phase[p] = Length(p)
  THEN verdict' = [verdict EXCEPT ![p] = "accepted"] /\ UNCHANGED phase
  ELSE phase' = [phase EXCEPT ![p] = @ + 1] /\ UNCHANGED verdict
Check(p, place, accepted) == /\ At(p, place) /\ Pass(p, accepted)
                             /\ World /\ UNCHANGED <<loader, seen>>

(* The run and the roots of the repeats are whole, but need not be those   *)
(* that were declared, nor the roots in the order they were made.          *)
Init == /\ \E s \in Specs :
             /\ spec = [p \in Readers |-> s]
             /\ bundle = [b \in DOMAIN s.bundles |-> [f \in Files |-> s.bundles[b]]]
             /\ runtime = s.runtime
        /\ \E r \in Runs : run = [part \in Parts |-> r] /\ data = ProfileOf[r]
        /\ source = {} /\ partial = {}
        /\ results \in [Repeats -> Evaluations \cup {0}] /\ summary = results
        /\ through \in [Readers -> Repeats]
        /\ stage = [p \in Readers |-> "idle"] /\ lineage = [p \in Readers |-> Nothing]
        /\ phase = [p \in Readers |-> 1]
        /\ seen = [p \in Readers |-> Unseen]
        /\ verdict = [p \in Readers |-> "none"] /\ edits = 0

Exchange ==
  \/ Replace /\ UNCHANGED <<source, bundle, runtime, results, summary, partial>>
  \/ /\ source = {} /\ source' \in {{d} : d \in Defects}
     /\ UNCHANGED <<disk, bundle, runtime, results, summary, partial>>
  \/ /\ \E b \in DOMAIN bundle, f \in Files, c \in Conversions :
          c # bundle[b][f] /\ bundle' = [bundle EXCEPT ![b][f] = c]
     /\ UNCHANGED <<disk, source, runtime, results, summary, partial>>
  \/ /\ runtime' \in Runtimes \ {runtime}
     /\ UNCHANGED <<disk, source, bundle, results, summary, partial>>
  \/ /\ \E k \in Repeats, e \in Evaluations \cup {0} :
          \/ e # results[k] /\ results' = [results EXCEPT ![k] = e] /\ UNCHANGED summary
          \/ e # summary[k] /\ summary' = [summary EXCEPT ![k] = e] /\ UNCHANGED results
     /\ UNCHANGED <<disk, source, bundle, runtime, partial>>
  \/ /\ \E k \in Repeats \ partial : partial' = partial \cup {k}
     /\ UNCHANGED <<disk, source, bundle, runtime, results, summary>>
Edit == /\ edits < MaxEdits /\ edits' = edits + 1 /\ Exchange
        /\ \E p \in Readers : verdict[p] = "none"
        /\ UNCHANGED <<loader, asked, phase, seen, verdict>>

(* The tools are imported from a checkout that must be clean, at the       *)
(* declared commit and with the declared bytes; the later experiments also *)
(* want a commit the remote advertises and no module in another form.      *)
(* Between this and the import the checkout is taken to stay.              *)
HistoricalTools == source \cap {"checkout", "bytes"} = {}
NormalizedTools == source \cap Defects = {}
CurrentTools == source = {}
Tools(p) == Check(p, <<"tools", 0>>,
                  CASE spec[p].profile = "historical" -> HistoricalTools
                    [] spec[p].profile = "normalized" -> NormalizedTools
                    [] spec[p].profile = "current" -> CurrentTools)

See(p, place, field, value, accepted) ==
  /\ At(p, place) /\ Pass(p, accepted) /\ World /\ UNCHANGED loader
  /\ seen' = [seen EXCEPT ![p][field][place[2]] = value]

SeeReceipts(p) ==
  \E b \in DOMAIN bundle :
    \/ See(p, <<"receipt", b>>, "receipt", bundle[b]["receipt"], TRUE)
    \/ See(p, <<"calibration", b>>, "calibration", bundle[b]["calibration"], TRUE)

(* The receipts of a bundle are the declared ones, are of the declared run *)
(* and of each other, and their artifact is the declared one, as hashed.   *)
HistoricalBundle(s, b, receipt, calibration, artifact) ==
  /\ receipt = s.bundles[b] /\ calibration = s.calibrations[b] /\ calibration = receipt
  /\ Made[receipt].run = s.run
  /\ {Made[receipt].artifact, Made[calibration].artifact, artifact} = {s.artifact}
NormalizedBundle(s, receipt, artifact) ==
  /\ receipt = s.bundles[1] /\ Made[receipt].run = s.run
  /\ Made[receipt].artifact = s.artifact /\ artifact = s.artifact
(* The current one compares the run with the lineage it has just loaded.   *)
CurrentBundle(s, l, receipt, calibration, artifact) ==
  /\ receipt = s.bundles[1] /\ calibration = s.calibrations[1] /\ calibration = receipt
  /\ Made[receipt].run = l.metadata /\ Made[receipt].run = l.merged
  /\ {Made[receipt].artifact, Made[calibration].artifact, artifact} = {s.artifact}
BundleAgrees(p, b, artifact) ==
  LET s == spec[p]
      receipt == seen[p].receipt[b]
      calibration == seen[p].calibration[b]
  IN CASE s.profile = "historical" -> HistoricalBundle(s, b, receipt, calibration, artifact)
       [] s.profile = "normalized" -> NormalizedBundle(s, receipt, artifact)
       [] s.profile = "current" -> CurrentBundle(s, lineage[p], receipt, calibration, artifact)
(* The two bundles of the historical experiment have one artifact.         *)
SameArtifact(p, b, artifact) == b = 2 => artifact = seen[p].artifact[1]
SeeArtifact(p) ==
  \E b \in DOMAIN bundle :
    LET artifact == Made[bundle[b]["artifact"]].artifact
    IN See(p, <<"artifact", b>>, "artifact", artifact,
           BundleAgrees(p, b, artifact) /\ SameArtifact(p, b, artifact))

(* The lineage is loaded with the loader of the profile; what it loaded is *)
(* compared with the declared run.                                         *)
Load(p) == /\ At(p, <<"load", 0>>) /\ World /\ UNCHANGED seen
           /\ StartLoad(p) /\ Pass(p, TRUE)
Loading(p) == /\ At(p, <<"lineage", 0>>) /\ LoadStep(p)
              /\ World /\ UNCHANGED <<phase, seen, verdict>>

(* Mutant: any complete run of the profile will do.                        *)
AnyLineage(s, l) == l.data = "historical"
HistoricalLineage(s, l) == l.data = "historical" /\ {l.receipt, l.merged} = {s.run}
NormalizedLineage(s, l) == l.data = "normalized" /\ {l.receipt, l.merged} = {s.run}
CurrentLineage(s, l) == l.data = "current" /\ {l.receipt, l.metrics, l.merged} = {s.run}
LineageAgrees(p) == CASE spec[p].profile = "historical" -> HistoricalLineage(spec[p], lineage[p])
                      [] spec[p].profile = "normalized" -> NormalizedLineage(spec[p], lineage[p])
                      [] spec[p].profile = "current" -> CurrentLineage(spec[p], lineage[p])
Lineage(p) == /\ stage[p] \in {"loaded", "refused"}
              /\ Check(p, <<"lineage", 0>>, stage[p] = "loaded" /\ LineageAgrees(p))

RuntimeAgrees(s, n) == n = s.runtime
SeeRuntime(p) == /\ At(p, <<"runtime", 0>>) /\ Pass(p, RuntimeAgrees(spec[p], runtime))
                 /\ seen' = [seen EXCEPT ![p].runtime = runtime] /\ World /\ UNCHANGED loader

(* No root of a repeat has a staging directory beside it, and those of the *)
(* later repeats do not exist yet.                                         *)
NoStaging == partial = {}
NoLaterRoot(p) == \A k \in through[p] + 1..LastRepeat : results[k] = 0 /\ summary[k] = 0
Roots(p) == Check(p, <<"roots", 0>>, NoStaging /\ NoLaterRoot(p))

(* The results are read before the summary, which states their digest, and *)
(* whose bindings must be the validation's own.                            *)
SeeResults(p) == \E k \in Repeats :
                    See(p, <<"results", k>>, "results", results[k], results[k] # 0)
GatesHold(e) == Evaluated[e].passes
(* Mutant: the summary's digest of the results is not looked at.           *)
AnyResults(p, k, e) == /\ e # 0 /\ Evaluated[e].artifact = seen[p].artifact[1]
                       /\ Evaluated[e].run = lineage[p].metadata
                       /\ Evaluated[e].runtime = seen[p].runtime /\ GatesHold(e)
SummaryAgrees(p, k, e) == /\ e # 0 /\ e = seen[p].results[k]
                          /\ Evaluated[e].artifact = seen[p].artifact[1]
                          /\ Evaluated[e].run = lineage[p].metadata
                          /\ Evaluated[e].runtime = seen[p].runtime /\ GatesHold(e)
SeeSummary(p) == \E k \in Repeats :
                    See(p, <<"summary", k>>, "summary", summary[k], SummaryAgrees(p, k, summary[k]))

(* The repeats gave the same outputs, each after the one before it.        *)
SameOutputs(p) == \A j, k \in 1..through[p] :
                     Evaluated[seen[p].summary[j]].output = Evaluated[seen[p].summary[k]].output
InTurn(p) == \A k \in 2..through[p] : Evaluated[seen[p].summary[k - 1]].finish
                                        <= Evaluated[seen[p].summary[k]].start
RepeatsAgree(p) == SameOutputs(p) /\ InTurn(p)
Aggregate(p) == Check(p, <<"aggregate", 0>>, RepeatsAgree(p))

Validate(p) == \/ Tools(p) \/ SeeReceipts(p) \/ SeeArtifact(p) \/ Load(p) \/ Loading(p)
               \/ Lineage(p) \/ SeeRuntime(p) \/ Roots(p) \/ SeeResults(p) \/ SeeSummary(p)
               \/ Aggregate(p)
Next == Edit \/ \E p \in Readers : Validate(p)
Spec == Init /\ [][Next]_vars

-----------------------------------------------------------------------------
TypeOK == /\ LineageTypeOK /\ source \subseteq Defects
          /\ \A b \in DOMAIN bundle : bundle[b] \in [Files -> Conversions]
          /\ runtime \in Runtimes /\ partial \subseteq Repeats /\ edits \in 0..MaxEdits
          /\ {results, summary} \subseteq [Repeats -> Evaluations \cup {0}]
          /\ \A p \in Readers : phase[p] \in 1..Length(p)
          /\ verdict \in [Readers -> {"none", "accepted", "refused"}]
          /\ spec \in [Readers -> Specs]

(* Accepted repeats are evaluations of their own, none a copy of another,  *)
(* each begun after the one before it and with the same outputs; and the   *)
(* results and summary of one are of one evaluation, whatever was put in   *)
(* their place during the validation (_validate_repeat, _aggregate).       *)
RepeatsAreDistinct ==
  \A p \in Readers : verdict[p] = "accepted" =>
    \A k \in 1..through[p] :
      /\ seen[p].results[k] = seen[p].summary[k] /\ seen[p].results[k] \in Evaluations
      /\ \A j \in 1..k - 1 : /\ seen[p].results[j] # seen[p].results[k]
                             /\ Evaluated[seen[p].results[j]].output
                                  = Evaluated[seen[p].results[k]].output

(* What was evaluated is the artifact that was hashed, the conversion      *)
(* whose receipt was read made it from the very run whose lineage was      *)
(* loaded, and that run is a whole one (_validate_conversion_bundle,       *)
(* _prepare_context and their two variants).                               *)
RepeatsAreOfOneRun ==
  \A p \in Readers : verdict[p] = "accepted" =>
    /\ OneRun(lineage[p])
    /\ \A b \in DOMAIN bundle : Made[seen[p].receipt[b]] =
         [run |-> lineage[p].metadata, artifact |-> seen[p].artifact[b]]
    /\ \A k \in 1..through[p] :
         /\ Evaluated[seen[p].results[k]].artifact = seen[p].artifact[1]
         /\ Evaluated[seen[p].results[k]].run = lineage[p].metadata
=============================================================================
