------------------------ MODULE CodeConversion_proofs ------------------------
(***************************************************************************)
(* Proofs of what a conversion promises of its bundle, for any number of   *)
(* converters, training runs, builds of the tools and faults, whatever is  *)
(* replaced while a conversion runs.  A part on disk is only ever replaced *)
(* by one of a later run, so what a converter reads between two readings   *)
(* of the same run is of that run: this is what its second identification  *)
(* of every input rests on.                                                *)
(***************************************************************************)
EXTENDS CodeConversion, TrainingLineage_proofs

-----------------------------------------------------------------------------
(* The invariant.                                                          *)

Working == {"converted", "imatrix", "quantize", "quantized", "final", "compare", "publish"}
Equipped == Working \cup {"staged", "convert", "verify"}
Identified == Equipped \cup {"tools"}

(* What p identified first was on disk then: one run, whose receipt may    *)
(* already be that of a later one, and a pinned build.                     *)
FirstInv(p) ==
  LET l == initial[p].lineage
      t == initial[p].tools
  IN  /\ phase[p] \in Identified =>
           /\ OneRun(l) /\ l.receipt \in Runs /\ l.metadata <= l.receipt
           /\ l.receipt <= run["metadata"] /\ l.merged <= run["merged"]
           /\ l.data = "current" <=> kind[p] = "auxiliary"
      /\ phase[p] \in Equipped => t \in Pinned /\ t \in 1..LastTools /\ t <= tools

(* What p has made since was made of what was on disk after that.          *)
WorkInv(p) ==
  phase[p] \in Working =>
    /\ work[p].runs # {} /\ work[p].tools # {}
    /\ \A r \in work[p].runs : initial[p].lineage.merged <= r /\ r <= run["merged"]
    /\ \A t \in work[p].tools : initial[p].tools <= t /\ t <= tools

(* The second load reads later still, so that once it is found equal to    *)
(* the first there was one run all the time.                               *)
SecondInv(p) ==
  LET l == initial[p].lineage
  IN  /\ phase[p] = "final" =>
           /\ stage[p] \in {"merged", "metrics", "receipt", "loaded"} =>
                l.receipt <= lineage[p].metadata
           /\ stage[p] \in {"metrics", "receipt", "loaded"} =>
                \A r \in work[p].runs : r <= lineage[p].merged
      /\ phase[p] \in {"compare", "publish"} =>
           l.receipt = l.metadata /\ work[p].runs = {l.merged}

(* A command's own bytes come only with a fault, which never comes twice,  *)
(* so that two rounds with the same bytes have none.                       *)
NoiseInv(p) ==
  /\ work[p].noise <= faults /\ kept[p].model.noise <= faults
  /\ Repeating(p) /\ phase[p] \in Working =>
       work[p].noise = 0 \/ kept[p].model.noise < work[p].noise
  /\ Calibrated(p) /\ phase[p] \in {"final", "compare", "publish"} => work[p].noise = 0

DoneInv(p) == phase[p] = "verify" \/ outcome[p] = "converted" => bundle.by = p

OwnInv(p) == /\ FirstInv(p) /\ WorkInv(p) /\ SecondInv(p) /\ NoiseInv(p) /\ DoneInv(p)
             /\ p \in staging => phase[p] \in Holding \cup {"cut", "killed"}

BundleInv == BundleIsExact /\ CalibratedIsReproduced /\ CurrentIsCalibrated

Inv == /\ TypeOK /\ LineageInv /\ BundleInv
       /\ \A p \in Converters : OwnInv(p)

(* The types of the variables of the converters; the loader's are above.   *)
Initials == [lineage : Lineages, tools : 0..LastTools]
Keeps == [f16 : Products, model : Products]
Outcomes == {"none", "converted", "refused"}

(* A step of p leaves the world and the other converters as they are, and  *)
(* counts its fault, if it is one.                                         *)
Frame(p) ==
  /\ UNCHANGED <<disk, tools, pinned, kind>>
  /\ faults' \in 0..MaxFaults /\ faults <= faults'
  /\ \A q \in Converters \ {p} :
       /\ phase'[q] = phase[q] /\ initial'[q] = initial[q] /\ work'[q] = work[q]
       /\ kept'[q] = kept[q] /\ outcome'[q] = outcome[q]
       /\ stage'[q] = stage[q] /\ lineage'[q] = lineage[q] /\ (q \in staging' <=> q \in staging)
  /\ phase' \in [Converters -> Phases] /\ initial' \in [Converters -> Initials]
  /\ work' \in [Converters -> Products] /\ kept' \in [Converters -> Keeps]
  /\ outcome' \in [Converters -> Outcomes] /\ staging' \subseteq Converters
  /\ outcome'[p] # "none" <=> phase'[p] \in {"ended", "cut"}

(* What an invariant says of numbers that are read from records.           *)
LEMMA Numbers ==
  ASSUME ConversionAssumption, TypeOK, NEW p \in Converters
  PROVE  /\ tools \in Nat /\ faults \in Nat /\ run["metadata"] \in Nat /\ run["merged"] \in Nat
         /\ run["metadata"] \in Runs /\ run["merged"] \in Runs
         /\ initial[p] \in Initials /\ initial[p].tools \in Nat /\ initial[p].lineage \in Lineages
         /\ initial[p].lineage.metadata \in Nat /\ initial[p].lineage.merged \in Nat
         /\ initial[p].lineage.receipt \in Nat
         /\ work[p] \in Products /\ work[p].runs \subseteq Nat /\ work[p].tools \subseteq Nat
         /\ work[p].noise \in Nat /\ kept[p] \in Keeps /\ kept[p].model \in Products
         /\ kept[p].model.noise \in Nat /\ kept[p].f16 \in Products
         /\ lineage[p] \in Lineages /\ lineage[p].metadata \in Nat /\ lineage[p].merged \in Nat
         /\ stage[p] \in Stages /\ phase[p] \in Phases /\ kind[p] \in Kinds /\ p \in Readers
  <1>1. run["metadata"] \in Runs /\ run["merged"] \in Runs /\ Runs \subseteq Nat /\ p \in Readers
    BY DEF TypeOK, LineageTypeOK, Parts, Runs, ConversionAssumption
  <1>2. lineage[p] \in Lineages /\ stage[p] \in Stages
    BY <1>1 DEF TypeOK, LineageTypeOK
  <1>3. /\ tools \in Nat /\ faults \in Nat /\ initial[p] \in Initials /\ work[p] \in Products
        /\ kept[p] \in Keeps /\ phase[p] \in Phases /\ kind[p] \in Kinds
    BY DEF TypeOK, Initials, Keeps, ConversionAssumption
  <1>4. \A l \in Lineages : l.metadata \in Nat /\ l.merged \in Nat /\ l.receipt \in Nat
    BY DEF Lineages
  <1>5. \A w \in Products : w.noise \in Nat /\ w.runs \subseteq Nat /\ w.tools \subseteq Nat
    BY DEF Products, Runs
  <1>6. initial[p].lineage \in Lineages /\ initial[p].tools \in Nat
    BY <1>3 DEF Initials
  <1>7. kept[p].f16 \in Products /\ kept[p].model \in Products
    BY <1>3 DEF Keeps
  <1> QED BY <1>1, <1>2, <1>3, <1>4, <1>5, <1>6, <1>7

(* The invariant of a converter that does not move: the world only goes    *)
(* forward.                                                                *)
LEMMA OthersKeep ==
  ASSUME ConversionAssumption, TypeOK, NEW q \in Converters, OwnInv(q),
         run'["metadata"] \in Nat, run'["merged"] \in Nat,
         run["metadata"] <= run'["metadata"], run["merged"] <= run'["merged"],
         tools' \in Nat, tools <= tools', faults' \in Nat, faults <= faults', kind' = kind,
         phase'[q] = phase[q], initial'[q] = initial[q], work'[q] = work[q],
         kept'[q] = kept[q], outcome'[q] = outcome[q], stage'[q] = stage[q],
         lineage'[q] = lineage[q], q \in staging' <=> q \in staging,
         bundle' = bundle \/ bundle = NoBundle
  PROVE  OwnInv(q)'
  <1>1. FirstInv(q)'
    BY Numbers DEF OwnInv, FirstInv, OneRun
  <1>2. WorkInv(q)'
    BY Numbers DEF OwnInv, WorkInv
  <1>3. SecondInv(q)'
    BY DEF OwnInv, SecondInv
  <1>4. NoiseInv(q)'
    BY Numbers DEF OwnInv, NoiseInv, Repeating, Calibrated
  <1>5. DoneInv(q)'
    BY DEF OwnInv, DoneInv, NoBundle, ConversionAssumption
  <1>6. (q \in staging => phase[q] \in Holding \cup {"cut", "killed"})'
    BY DEF OwnInv
  <1> QED BY <1>1, <1>2, <1>3, <1>4, <1>5, <1>6 DEF OwnInv

(* Only p's load is touched by a step of p. *)
LEMMA LoaderFrame ==
  ASSUME ConversionAssumption, LineageInv, NEW p \in Converters,
         \/ StartLoad(p) \/ LoadStep(p) \/ Rest(p) \/ UNCHANGED loader
  PROVE  \A q \in Converters \ {p} : stage'[q] = stage[q] /\ lineage'[q] = lineage[q]
  <1>1. Readers = Converters /\ LineageTypeOK
    BY DEF ConversionAssumption, LineageInv
  <1>2. CASE StartLoad(p)
    BY <1>1, <1>2 DEF StartLoad, LineageTypeOK
  <1>3. CASE LoadStep(p)
    BY <1>1, <1>3, ReadFills DEF Filled
  <1>4. CASE Rest(p)
    BY <1>1, <1>4 DEF Rest, LineageTypeOK
  <1>5. CASE UNCHANGED loader
    BY <1>5 DEF loader
  <1> QED BY <1>2, <1>3, <1>4, <1>5

(* What a step of p has to keep of its invariant. *)
Kept(p) == Frame(p) /\ OwnInv(p)' /\ BundleInv' /\ (bundle' = bundle \/ bundle = NoBundle)

LEMMA BundleSame == ASSUME BundleInv, UNCHANGED bundle PROVE BundleInv'
  BY DEF BundleInv, BundleIsExact, CalibratedIsReproduced, CurrentIsCalibrated, OneRun

(* A step of p to another phase, with what it has then identified, made    *)
(* and kept.                                                               *)
Moves(p, to, i, w, k) ==
  /\ phase[p] \notin {"ended", "cut"} /\ to \in Phases \ {"ended", "cut"} /\ phase' = [phase EXCEPT ![p] = to]
  /\ World /\ UNCHANGED outcome
  /\ UNCHANGED faults \/ Fault
  /\ i \in Initials /\ initial' = [initial EXCEPT ![p] = i]
  /\ w \in Products /\ work' = [work EXCEPT ![p] = w]
  /\ k \in Keeps /\ kept' = [kept EXCEPT ![p] = k]
  /\ staging' \in {staging, staging \cup {p}, staging \ {p}}
  /\ StartLoad(p) \/ LoadStep(p) \/ Rest(p) \/ UNCHANGED loader

LEMMA MoveFrame ==
  ASSUME ConversionAssumption, Inv, NEW p \in Converters, NEW to, NEW i, NEW w, NEW k,
         Moves(p, to, i, w, k)
  PROVE  /\ Frame(p) /\ phase'[p] = to /\ initial'[p] = i /\ work'[p] = w /\ kept'[p] = k
         /\ outcome'[p] = "none" /\ outcome[p] = "none"
  <1>1. TypeOK /\ LineageInv
    BY DEF Inv
  <1>2. faults' \in 0..MaxFaults /\ faults <= faults'
    BY <1>1 DEF Moves, TypeOK, Fault, ConversionAssumption
  <1>3. /\ phase' = [phase EXCEPT ![p] = to] /\ UNCHANGED <<disk, tools, pinned, kind, outcome>>
        /\ phase[p] \notin {"ended", "cut"} /\ to \in Phases \ {"ended", "cut"}
    BY DEF Moves, World
  <1>4. phase'[p] = to /\ outcome[p] = "none" /\ outcome'[p] = "none"
    BY <1>1, <1>3 DEF TypeOK
  <1>5. \A q \in Converters \ {p} : stage'[q] = stage[q] /\ lineage'[q] = lineage[q]
    BY <1>1, LoaderFrame DEF Moves
  <1>6. \A q \in Converters \ {p} :
            /\ phase'[q] = phase[q] /\ outcome'[q] = outcome[q] /\ (q \in staging' <=> q \in staging)
    BY <1>1, <1>3 DEF Moves, TypeOK
  <1>7. \A q \in Converters \ {p} :
            /\ initial'[q] = initial[q] /\ work'[q] = work[q] /\ kept'[q] = kept[q]
    BY <1>1 DEF Moves, TypeOK
  <1>8. /\ phase' \in [Converters -> Phases] /\ outcome' \in [Converters -> Outcomes]
        /\ staging' \subseteq Converters
    BY <1>1, <1>3 DEF Moves, TypeOK, Outcomes
  <1>9. /\ initial' \in [Converters -> Initials] /\ work' \in [Converters -> Products]
        /\ kept' \in [Converters -> Keeps]
        /\ initial'[p] = i /\ work'[p] = w /\ kept'[p] = k
    BY <1>1 DEF Moves, TypeOK, Initials, Keeps
  <1> QED BY <1>2, <1>3, <1>4, <1>5, <1>6, <1>7, <1>8, <1>9 DEF Frame

(* A step that makes nothing. *)
LEMMA Held ==
  ASSUME TypeOK, NEW p \in Converters
  PROVE  /\ phase = [phase EXCEPT ![p] = phase[p]]
         /\ initial = [initial EXCEPT ![p] = initial[p]] /\ initial[p] \in Initials
         /\ work = [work EXCEPT ![p] = work[p]] /\ work[p] \in Products
         /\ kept = [kept EXCEPT ![p] = kept[p]] /\ kept[p] \in Keeps
  BY DEF TypeOK, Initials, Keeps

(* A refusal and whatever else leaves the try keeps what others made. *)
LEMMA EndsKeeps ==
  ASSUME ConversionAssumption, Inv, NEW p \in Converters, NEW place \in {"ended", "cut"},
         phase' = [phase EXCEPT ![p] = place], outcome' = [outcome EXCEPT ![p] = "refused"],
         World, UNCHANGED <<held, bundle>>,
         staging' \in {staging, staging \ {p}}, place = "ended" => p \notin staging',
         UNCHANGED faults \/ Fault,
         StartLoad(p) \/ LoadStep(p) \/ Rest(p) \/ UNCHANGED loader
  PROVE  Kept(p)
  <1>1. TypeOK /\ LineageInv /\ BundleInv /\ OwnInv(p)
    BY DEF Inv
  <1>2. faults' \in 0..MaxFaults /\ faults <= faults' /\ faults' \in Nat
    BY <1>1 DEF TypeOK, Fault, ConversionAssumption
  <1>3. UNCHANGED <<disk, tools, pinned, kind, initial, work, kept, bundle>>
    BY DEF World, held
  <1>4. phase'[p] = place /\ outcome'[p] = "refused"
    BY <1>1 DEF TypeOK
  <1>5. Frame(p)
    <2>1. \A q \in Converters \ {p} : stage'[q] = stage[q] /\ lineage'[q] = lineage[q]
      BY <1>1, LoaderFrame
    <2>2. \A q \in Converters \ {p} :
            /\ phase'[q] = phase[q] /\ initial'[q] = initial[q] /\ work'[q] = work[q]
            /\ kept'[q] = kept[q] /\ outcome'[q] = outcome[q] /\ (q \in staging' <=> q \in staging)
      BY <1>1, <1>3 DEF TypeOK
    <2>3. /\ phase' \in [Converters -> Phases] /\ outcome' \in [Converters -> Outcomes]
          /\ staging' \subseteq Converters
      BY <1>1, <1>3 DEF TypeOK, Phases, Outcomes
    <2>4. /\ initial' \in [Converters -> Initials] /\ work' \in [Converters -> Products]
          /\ kept' \in [Converters -> Keeps]
      BY <1>1, <1>3 DEF TypeOK, Initials, Keeps
    <2> QED BY <1>2, <1>3, <1>4, <2>1, <2>2, <2>3, <2>4 DEF Frame
  <1>6. FirstInv(p)' /\ WorkInv(p)' /\ SecondInv(p)'
    BY <1>4 DEF FirstInv, WorkInv, SecondInv, Identified, Equipped, Working
  <1>7. NoiseInv(p)'
    BY <1>1, <1>2, <1>3, <1>4, Numbers DEF OwnInv, NoiseInv, Working
  <1>8. DoneInv(p)' /\ (p \in staging => phase[p] \in Holding \cup {"cut", "killed"})'
    BY <1>4 DEF DoneInv
  <1> QED BY <1>1, <1>3, <1>5, <1>6, <1>7, <1>8, BundleSame DEF OwnInv, Kept

(* A refusal ends p or leaves its staging directory to be removed. *)
LEMMA RefuseKeeps ==
  ASSUME ConversionAssumption, Inv, NEW p \in Converters, Refuse(p),
         UNCHANGED faults \/ Fault,
         StartLoad(p) \/ LoadStep(p) \/ Rest(p) \/ UNCHANGED loader
  PROVE  Kept(p)
  <1>1. TypeOK /\ BundleInv /\ OwnInv(p)
    BY DEF Inv
  <1>2. World /\ UNCHANGED <<initial, work, kept, staging, bundle>> /\ UNCHANGED held
    BY DEF Refuse, held
  <1>3. CASE phase[p] \in Untried /\ Ends(p)
    <2>1. p \notin staging'
      BY <1>1, <1>2, <1>3 DEF OwnInv, Untried, Holding, Trying
    <2> QED BY <1>2, <1>3, <2>1, EndsKeeps DEF Ends, Goto
  <1>4. CASE phase[p] \in Trying /\ Goto(p, "cleanup") /\ UNCHANGED outcome
    <2>1. /\ Frame(p) /\ phase'[p] = "cleanup" /\ initial'[p] = initial[p] /\ work'[p] = work[p]
          /\ kept'[p] = kept[p] /\ outcome'[p] = "none"
      <3>1. Moves(p, "cleanup", initial[p], work[p], kept[p])
        BY <1>1, <1>2, <1>4, Held DEF Moves, Goto, Phases, Holding, Trying
      <3> QED BY <3>1, MoveFrame
    <2>2. faults <= faults' /\ faults' \in Nat
      BY <1>1 DEF TypeOK, Fault, ConversionAssumption
    <2>3. FirstInv(p)' /\ WorkInv(p)' /\ SecondInv(p)' /\ DoneInv(p)'
      BY <2>1 DEF FirstInv, WorkInv, SecondInv, DoneInv, Identified, Equipped, Working
    <2>4. NoiseInv(p)'
      BY <1>1, <2>1, <2>2, Numbers DEF OwnInv, NoiseInv, Working
    <2>5. (p \in staging => phase[p] \in Holding \cup {"cut", "killed"})'
      BY <2>1 DEF Holding
    <2> QED BY <1>1, <1>2, <2>1, <2>3, <2>4, <2>5, BundleSame DEF OwnInv, Kept
  <1> QED BY <1>3, <1>4 DEF Refuse

-----------------------------------------------------------------------------
(* The steps, one by one.                                                  *)

LEMMA StartStep ==
  ASSUME ConversionAssumption, Inv, NEW p \in Converters, Start(p) PROVE Kept(p)
  <1>1. TypeOK /\ BundleInv /\ OwnInv(p)
    BY DEF Inv
  <1>2. CASE Refuse(p)
    BY <1>2, RefuseKeeps DEF Start
  <1>3. CASE Goto(p, "initial")
    <2>1. /\ World /\ UNCHANGED <<held, staging, bundle, outcome, faults>> /\ StartLoad(p)
          /\ phase[p] = "start"
      BY <1>1, <1>3 DEF Start, At, Refuse, Ends, Goto, TypeOK
    <2>2. /\ Frame(p) /\ phase'[p] = "initial" /\ work'[p] = work[p] /\ kept'[p] = kept[p]
          /\ outcome'[p] = "none"
      <3>1. Moves(p, "initial", initial[p], work[p], kept[p])
        BY <1>1, <1>3, <2>1, Held DEF Moves, Goto, held, Phases, Untried, Holding, Trying
      <3> QED BY <3>1, MoveFrame
    <2>3. FirstInv(p)' /\ WorkInv(p)' /\ SecondInv(p)' /\ DoneInv(p)'
      BY <2>2 DEF FirstInv, WorkInv, SecondInv, DoneInv, Identified, Equipped, Working
    <2>4. NoiseInv(p)'
      BY <1>1, <2>1, <2>2 DEF OwnInv, NoiseInv, Working
    <2> QED BY <1>1, <2>1, <2>2, <2>3, <2>4, BundleSame DEF OwnInv, Kept, Untried, Holding, Trying
  <1> QED BY <1>2, <1>3 DEF Start

LEMMA LoadOwn ==
  ASSUME ConversionAssumption, Inv, NEW p \in Converters, Load(p) PROVE Kept(p)
  <1> DEFINE l == initial[p].lineage
  <1>1. TypeOK /\ LineageInv /\ BundleInv /\ OwnInv(p) /\ p \in Readers
    BY DEF Inv, ConversionAssumption
  <1>2. /\ LoadStep(p) /\ World /\ UNCHANGED <<phase, held, staging, bundle, outcome, faults>>
        /\ phase[p] \in {"initial", "final"}
    BY DEF Load
  <1>3. /\ Frame(p) /\ phase'[p] = phase[p] /\ initial'[p] = initial[p] /\ work'[p] = work[p]
        /\ kept'[p] = kept[p] /\ outcome'[p] = outcome[p]
    <2>1. Moves(p, phase[p], initial[p], work[p], kept[p])
      BY <1>1, <1>2, Held DEF Moves, held, Phases, Untried, Holding, Trying
    <2>2. outcome[p] = "none"
      BY <1>1, <1>2 DEF TypeOK
    <2> QED BY <2>1, <2>2, MoveFrame
  <1>4. UNCHANGED <<run, tools, kind, faults>>
    BY <1>2 DEF World, disk
  <1>5. FirstInv(p)'
    BY <1>1, <1>3, <1>4 DEF OwnInv, FirstInv, OneRun
  <1>6. WorkInv(p)'
    BY <1>1, <1>3, <1>4 DEF OwnInv, WorkInv
  <1>7. SecondInv(p)'
    <2>1. CASE phase[p] = "final"
      <3>1. /\ l.receipt <= run["metadata"] /\ \A r \in work[p].runs : r <= run["merged"]
        BY <1>1, <2>1 DEF OwnInv, FirstInv, WorkInv, Identified, Equipped, Working
      <3>2. stage'[p] \in {"merged", "metrics", "receipt", "loaded"}
              => l.receipt <= lineage'[p].metadata
        BY <1>1, <1>2, <2>1, <3>1, ReadFills DEF OwnInv, SecondInv, LineageInv, Filled
      <3>3. stage'[p] \in {"metrics", "receipt", "loaded"}
              => \A r \in work[p].runs : r <= lineage'[p].merged
        BY <1>1, <1>2, <2>1, <3>1, ReadFills DEF OwnInv, SecondInv, LineageInv, Filled
      <3> QED BY <1>3, <2>1, <3>2, <3>3 DEF SecondInv
    <2>2. CASE phase[p] = "initial"
      BY <1>3, <2>2 DEF SecondInv
    <2> QED BY <1>2, <2>1, <2>2
  <1>8. NoiseInv(p)'
    BY <1>1, <1>3, <1>4 DEF OwnInv, NoiseInv, Repeating, Calibrated
  <1>9. DoneInv(p)' /\ (p \in staging => phase[p] \in Holding \cup {"cut", "killed"})'
    BY <1>1, <1>2, <1>3 DEF OwnInv, DoneInv
  <1> QED BY <1>1, <1>2, <1>3, <1>5, <1>6, <1>7, <1>8, <1>9, BundleSame DEF OwnInv, Kept

LEMMA LoadedStep ==
  ASSUME ConversionAssumption, Inv, NEW p \in Converters, Loaded(p) PROVE Kept(p)
  <1> DEFINE l == lineage[p]
             i == [initial[p] EXCEPT !.lineage = l]
  <1>1. TypeOK /\ LineageInv /\ BundleInv /\ OwnInv(p) /\ p \in Readers
    BY DEF Inv, ConversionAssumption
  <1>2. CASE Refuse(p)
    BY <1>2, RefuseKeeps DEF Loaded
  <1>3. CASE Move(p, "initial", "tools")
    <2>1. /\ World /\ UNCHANGED <<work, kept, staging, bundle, outcome, faults>> /\ Rest(p)
          /\ Goto(p, "tools") /\ phase[p] = "initial" /\ stage[p] = "loaded"
          /\ LineageAccepted(l) /\ SchemaAllowed(l.data, kind[p])
          /\ initial' = [initial EXCEPT ![p] = i]
      BY <1>1, <1>3 DEF Loaded, Move, At, Refuse, Ends, Goto, TypeOK
    <2>2. i \in Initials /\ i.lineage = l
      BY <1>1, Numbers DEF Initials
    <2> HIDE DEF i
    <2>3. /\ Frame(p) /\ phase'[p] = "tools" /\ initial'[p] = i /\ work'[p] = work[p]
          /\ kept'[p] = kept[p] /\ outcome'[p] = "none"
      <3>1. Moves(p, "tools", i, work[p], kept[p])
        BY <1>1, <2>1, <2>2, Held DEF Moves, Goto, Phases, Untried, Holding, Trying
      <3> QED BY <3>1, MoveFrame
    <2>4. /\ OneRun(l) /\ l.receipt \in Runs /\ l.metadata <= l.receipt
          /\ l.receipt <= run["metadata"] /\ l.merged <= run["merged"]
      BY <1>1, <2>1 DEF LineageInv, Reads
    <2>5. FirstInv(p)'
      BY <2>1, <2>2, <2>3, <2>4 DEF FirstInv, SchemaAllowed, OneRun, World, disk, Equipped, Working
    <2>6. WorkInv(p)' /\ SecondInv(p)' /\ DoneInv(p)'
      BY <2>3 DEF WorkInv, SecondInv, DoneInv, Working
    <2>7. NoiseInv(p)'
      BY <1>1, <2>1, <2>3 DEF OwnInv, NoiseInv, Working
    <2> QED BY <1>1, <2>1, <2>3, <2>5, <2>6, <2>7, BundleSame DEF OwnInv, Kept, Untried, Holding, Trying
  <1> QED BY <1>2, <1>3 DEF Loaded

LEMMA ToolsStep ==
  ASSUME ConversionAssumption, Inv, NEW p \in Converters, IdentifyTools(p) PROVE Kept(p)
  <1> DEFINE i == [initial[p] EXCEPT !.tools = tools]
  <1>1. TypeOK /\ LineageInv /\ BundleInv /\ OwnInv(p)
    BY DEF Inv
  <1>2. CASE Refuse(p)
    BY <1>2, RefuseKeeps DEF IdentifyTools
  <1>3. CASE Goto(p, "staged") /\ initial' = [initial EXCEPT ![p].tools = tools]
    <2>1. /\ World /\ UNCHANGED <<loader, work, kept, bundle, outcome, faults>>
          /\ phase[p] = "tools" /\ tools \in Pinned /\ staging' = staging \cup {p}
          /\ initial' = [initial EXCEPT ![p] = i]
      BY <1>1, <1>3 DEF IdentifyTools, At, Refuse, Ends, Goto, TypeOK, ToolsAccepted
    <2>2. i \in Initials /\ i.lineage = initial[p].lineage /\ i.tools = tools
      <3>1. tools \in 0..LastTools /\ initial[p] \in Initials
        BY <1>1, Numbers DEF TypeOK, ConversionAssumption
      <3> QED BY <3>1 DEF Initials
    <2> HIDE DEF i
    <2>3. /\ Frame(p) /\ phase'[p] = "staged" /\ initial'[p] = i /\ work'[p] = work[p]
          /\ kept'[p] = kept[p] /\ outcome'[p] = "none"
      <3>1. Moves(p, "staged", i, work[p], kept[p])
        BY <1>1, <1>3, <2>1, <2>2, Held DEF Moves, Goto, Phases, Untried, Holding, Trying
      <3> QED BY <3>1, MoveFrame
    <2>4. FirstInv(p)'
      BY <1>1, <2>1, <2>2, <2>3, Numbers
         DEF OwnInv, FirstInv, OneRun, World, disk, Identified, Equipped, Working, TypeOK
    <2>5. WorkInv(p)' /\ SecondInv(p)' /\ DoneInv(p)'
      BY <2>3 DEF WorkInv, SecondInv, DoneInv, Working
    <2>6. NoiseInv(p)'
      BY <1>1, <2>1, <2>3 DEF OwnInv, NoiseInv, Working
    <2> QED BY <1>1, <2>1, <2>3, <2>4, <2>5, <2>6, BundleSame DEF OwnInv, Kept, Untried, Holding, Trying
  <1> QED BY <1>2, <1>3 DEF IdentifyTools

LEMMA TryStep ==
  ASSUME ConversionAssumption, Inv, NEW p \in Converters, Try(p) PROVE Kept(p)
  <1>1. TypeOK /\ BundleInv /\ OwnInv(p)
    BY DEF Inv
  <1>2. /\ phase[p] = "staged" /\ Goto(p, "convert") /\ World
        /\ UNCHANGED <<loader, initial, work, kept, staging, bundle, outcome, faults>>
    BY DEF Try, Move, At, held
  <1>3. /\ Frame(p) /\ phase'[p] = "convert" /\ initial'[p] = initial[p] /\ work'[p] = work[p]
        /\ kept'[p] = kept[p] /\ outcome'[p] = "none"
    <2>1. Moves(p, "convert", initial[p], work[p], kept[p])
      BY <1>1, <1>2, Held DEF Moves, Goto, Phases, Holding, Trying
    <2> QED BY <2>1, MoveFrame
  <1>4. FirstInv(p)'
    BY <1>1, <1>2, <1>3 DEF OwnInv, FirstInv, OneRun, World, disk, Identified, Equipped, Working
  <1>5. WorkInv(p)' /\ SecondInv(p)' /\ DoneInv(p)'
    BY <1>3 DEF WorkInv, SecondInv, DoneInv, Working
  <1>6. NoiseInv(p)'
    BY <1>1, <1>2, <1>3 DEF OwnInv, NoiseInv, Working
  <1>7. (p \in staging => phase[p] \in Holding \cup {"cut", "killed"})'
    BY <1>3 DEF Holding, Trying
  <1> QED BY <1>1, <1>2, <1>3, <1>4, <1>5, <1>6, <1>7, BundleSame DEF OwnInv, Kept

(* What a command leaves: the product it was to make, or one with bytes of *)
(* its own, by the fault that is counted.                                  *)
LEMMA MadeProduct ==
  ASSUME ConversionAssumption, Inv, NEW p \in Converters, NEW from \in Phases \ {"ended", "cut"},
         NEW to \in Phases \ {"ended", "cut"}, NEW product \in Products, Made(p, from, to, product)
  PROVE  \E w \in Products :
           /\ Frame(p) /\ phase[p] = from /\ phase'[p] = to /\ initial'[p] = initial[p]
           /\ work'[p] = w /\ kept'[p] = kept[p] /\ outcome'[p] = "none"
           /\ UNCHANGED <<disk, tools, kind, bundle, staging>>
           /\ w.runs = product.runs /\ w.tools = product.tools
           /\ \/ faults' = faults /\ w.noise = product.noise
              \/ faults' = faults + 1 /\ w.noise = faults + 1
  <1>1. TypeOK /\ faults \in 0..MaxFaults /\ MaxFaults \in Nat
    BY DEF Inv, TypeOK, ConversionAssumption
  <1>2. PICK n \in Noises : /\ faults' = faults + (IF n = 0 THEN 0 ELSE 1)
                            /\ work' = [work EXCEPT ![p] = [product EXCEPT
                                 !.noise = IF n = 0 THEN product.noise ELSE n]]
    BY DEF Made
  <1> DEFINE noise == IF n = 0 THEN product.noise ELSE n
             w == [product EXCEPT !.noise = noise]
  <1>3. \/ faults' = faults /\ n = 0 /\ noise = product.noise
        \/ Fault /\ faults' = faults + 1 /\ noise = faults + 1
    BY <1>1, <1>2 DEF Noises, Fault
  <1>4. noise \in 0..MaxFaults
    BY <1>1, <1>3 DEF Fault, Products
  <1> HIDE DEF noise
  <1>5. w \in Products /\ w.runs = product.runs /\ w.tools = product.tools /\ w.noise = noise
    BY <1>4 DEF Products
  <1>6. work' = [work EXCEPT ![p] = w]
    BY <1>2 DEF noise
  <1> HIDE DEF w
  <1>7. /\ phase[p] = from /\ Goto(p, to) /\ World /\ UNCHANGED <<staging, bundle, outcome>>
        /\ UNCHANGED <<loader, initial, kept>>
    BY DEF Made, Move, At
  <1>8. Moves(p, to, initial[p], w, kept[p])
    BY <1>1, <1>3, <1>5, <1>6, <1>7, Held DEF Moves, Goto
  <1> QED BY <1>3, <1>5, <1>7, <1>8, MoveFrame DEF World, disk

LEMMA ConvertStartsStep ==
  ASSUME ConversionAssumption, Inv, NEW p \in Converters, ConvertStarts(p) PROVE Kept(p)
  <1> DEFINE product == [runs |-> {run["merged"]}, tools |-> {tools}, noise |-> 0]
  <1>1. TypeOK /\ BundleInv /\ OwnInv(p)
    BY DEF Inv
  <1>2. /\ product \in Products /\ product.runs = {run["merged"]} /\ product.tools = {tools}
        /\ product.noise = 0
    BY <1>1, Numbers DEF Products, TypeOK, ConversionAssumption
  <1>3. Made(p, "convert", "converted", product)
    BY DEF ConvertStarts
  <1> HIDE DEF product
  <1>4. PICK w \in Products :
           /\ Frame(p) /\ phase[p] = "convert" /\ phase'[p] = "converted"
           /\ initial'[p] = initial[p] /\ work'[p] = w /\ kept'[p] = kept[p]
           /\ outcome'[p] = "none" /\ UNCHANGED <<disk, tools, kind, bundle, staging>>
           /\ w.runs = product.runs /\ w.tools = product.tools
           /\ \/ faults' = faults /\ w.noise = product.noise
              \/ faults' = faults + 1 /\ w.noise = faults + 1
    BY <1>2, <1>3, MadeProduct DEF Phases, Untried, Holding, Trying
  <1>5. FirstInv(p)'
    BY <1>1, <1>4 DEF OwnInv, FirstInv, OneRun, disk, Identified, Equipped, Working
  <1>6. WorkInv(p)'
    <2>1. initial[p].lineage.merged <= run["merged"] /\ initial[p].tools <= tools
      BY <1>1, <1>4 DEF OwnInv, FirstInv, Identified, Equipped
    <2>2. run["merged"] <= run["merged"] /\ tools <= tools
      BY <1>1, Numbers
    <2>3. UNCHANGED <<run, tools>>
      BY <1>4 DEF disk
    <2> QED BY <1>2, <1>4, <2>1, <2>2, <2>3 DEF WorkInv
  <1>7. SecondInv(p)' /\ DoneInv(p)'
    BY <1>4 DEF SecondInv, DoneInv
  <1>8. NoiseInv(p)'
    BY <1>1, <1>2, <1>4, Numbers DEF OwnInv, NoiseInv
  <1> QED BY <1>1, <1>4, <1>5, <1>6, <1>7, <1>8, BundleSame DEF OwnInv, Kept, Untried, Holding, Trying

LEMMA WithToolsStep ==
  ASSUME ConversionAssumption, Inv, NEW p \in Converters, Imatrix(p) \/ Quantize(p)
  PROVE  Kept(p)
  <1>1. TypeOK /\ BundleInv /\ OwnInv(p)
    BY DEF Inv
  <1>2. /\ WithTools(p) \in Products /\ WithTools(p).runs = work[p].runs
        /\ WithTools(p).tools = work[p].tools \cup {tools} /\ WithTools(p).noise = work[p].noise
    <2>1. work[p] \in Products /\ tools \in 1..LastTools
      BY <1>1, Held DEF TypeOK
    <2> QED BY <2>1 DEF WithTools, Products
  <1>3. PICK from \in {"imatrix", "quantize"}, to \in {"quantize", "quantized"} :
          Made(p, from, to, WithTools(p))
    BY DEF Imatrix, Quantize
  <1>4. PICK w \in Products :
           /\ Frame(p) /\ phase[p] = from /\ phase'[p] = to
           /\ initial'[p] = initial[p] /\ work'[p] = w /\ kept'[p] = kept[p]
           /\ outcome'[p] = "none" /\ UNCHANGED <<disk, tools, kind, bundle, staging>>
           /\ w.runs = WithTools(p).runs /\ w.tools = WithTools(p).tools
           /\ \/ faults' = faults /\ w.noise = WithTools(p).noise
              \/ faults' = faults + 1 /\ w.noise = faults + 1
    <2>1. from \in Phases \ {"ended"} /\ to \in Phases \ {"ended"}
      BY <1>3 DEF Phases, Untried, Holding, Trying
    <2> QED BY <1>2, <1>3, <2>1, MadeProduct
  <1>5. phase[p] \in Working /\ phase'[p] \in Working /\ phase'[p] \in {"quantize", "quantized"}
    BY <1>3, <1>4 DEF Working
  <1>6. FirstInv(p)'
    BY <1>1, <1>4, <1>5 DEF OwnInv, FirstInv, OneRun, disk, Identified, Equipped
  <1>7. WorkInv(p)'
    <2>1. initial[p].tools <= tools /\ tools <= tools
      BY <1>1, <1>5, Numbers DEF OwnInv, FirstInv, Identified, Equipped
    <2> QED BY <1>1, <1>2, <1>4, <1>5, <2>1 DEF OwnInv, WorkInv, disk
  <1>8. SecondInv(p)' /\ DoneInv(p)'
    BY <1>4, <1>5 DEF SecondInv, DoneInv
  <1>9. NoiseInv(p)'
    BY <1>1, <1>2, <1>4, <1>5, Numbers DEF OwnInv, NoiseInv, Repeating
  <1> QED BY <1>1, <1>4, <1>5, <1>6, <1>7, <1>8, <1>9, BundleSame DEF OwnInv, Kept, Untried, Holding, Trying

LEMMA ConvertEndsStep ==
  ASSUME ConversionAssumption, Inv, NEW p \in Converters, ConvertEnds(p) PROVE Kept(p)
  <1> DEFINE f16 == [work[p] EXCEPT !.runs = @ \cup {run["merged"]}]
             next == IF Calibrated(p) THEN "imatrix" ELSE "quantize"
             k == [kept[p] EXCEPT !.f16 = f16]
  <1>1. TypeOK /\ BundleInv /\ OwnInv(p)
    BY DEF Inv
  <1>2. CASE Refuse(p)
    BY <1>2, RefuseKeeps DEF ConvertEnds
  <1>3. CASE Move(p, "converted", next) /\ work' = [work EXCEPT ![p] = f16]
             /\ kept' = [kept EXCEPT ![p].f16 = f16] /\ UNCHANGED initial
    <2>1. /\ UNCHANGED <<loader, faults, bundle, outcome, staging>> /\ World
          /\ Goto(p, next) /\ phase[p] = "converted" /\ next \in {"imatrix", "quantize"}
      BY <1>3 DEF ConvertEnds, Move, At
    <2>2. /\ f16 \in Products /\ f16.runs = work[p].runs \cup {run["merged"]}
          /\ f16.tools = work[p].tools /\ f16.noise = work[p].noise
      <3>1. work[p] \in Products /\ run["merged"] \in Runs
        BY <1>1, Numbers
      <3> QED BY <3>1 DEF Products
    <2> HIDE DEF f16, next
    <2>3. k \in Keeps /\ k.model = kept[p].model /\ kept' = [kept EXCEPT ![p] = k]
      <3>1. kept[p] \in Keeps
        BY <1>1, Held
      <3> QED BY <1>3, <2>2, <3>1 DEF Keeps
    <2> HIDE DEF k
    <2>4. /\ Frame(p) /\ phase'[p] = next /\ initial'[p] = initial[p] /\ work'[p] = f16
          /\ kept'[p] = k /\ outcome'[p] = "none"
      <3>1. Moves(p, next, initial[p], f16, k)
        BY <1>1, <1>3, <2>1, <2>2, <2>3, Held DEF Moves, Goto, Phases, Untried, Holding, Trying
      <3> QED BY <3>1, MoveFrame
    <2>5. UNCHANGED <<run, tools, kind, faults>>
      BY <2>1 DEF World, disk
    <2>6. FirstInv(p)'
      BY <1>1, <2>1, <2>4, <2>5 DEF OwnInv, FirstInv, OneRun, Identified, Equipped, Working
    <2>7. WorkInv(p)'
      <3>1. initial[p].lineage.merged <= run["merged"] /\ run["merged"] <= run["merged"]
        BY <1>1, <2>1, Numbers DEF OwnInv, FirstInv, Identified, Equipped, Working
      <3> QED BY <1>1, <2>1, <2>2, <2>4, <2>5, <3>1 DEF OwnInv, WorkInv, Working
    <2>8. SecondInv(p)' /\ DoneInv(p)'
      BY <2>1, <2>4 DEF SecondInv, DoneInv
    <2>9. NoiseInv(p)'
      BY <1>1, <2>1, <2>2, <2>3, <2>4, <2>5 DEF OwnInv, NoiseInv, Repeating, Calibrated, Working
    <2> QED BY <1>1, <2>1, <2>4, <2>6, <2>7, <2>8, <2>9, BundleSame DEF OwnInv, Kept, Untried, Holding, Trying
  <1> QED BY <1>2, <1>3 DEF ConvertEnds

LEMMA QuantizedStep ==
  ASSUME ConversionAssumption, Inv, NEW p \in Converters, Quantized(p) PROVE Kept(p)
  <1>1. TypeOK /\ BundleInv /\ OwnInv(p)
    BY DEF Inv
  <1>2. CASE Refuse(p) /\ UNCHANGED loader
    BY <1>2, RefuseKeeps DEF Quantized
  <1>3. CASE /\ ~Repeating(p) /\ Move(p, "quantized", "convert")
             /\ kept' = [kept EXCEPT ![p].model = work[p]]
             /\ UNCHANGED <<loader, initial, work>>
    <2> DEFINE k == [kept[p] EXCEPT !.model = work[p]]
    <2>1. /\ UNCHANGED <<faults, bundle, outcome, staging>> /\ World
          /\ Goto(p, "convert") /\ phase[p] = "quantized"
      BY <1>3 DEF Quantized, Move, At
    <2>2. k \in Keeps /\ k.model = work[p] /\ kept' = [kept EXCEPT ![p] = k]
      BY <1>1, <1>3, Held DEF Keeps
    <2> HIDE DEF k
    <2>3. /\ Frame(p) /\ phase'[p] = "convert" /\ initial'[p] = initial[p] /\ work'[p] = work[p]
          /\ kept'[p] = k /\ outcome'[p] = "none"
      <3>1. Moves(p, "convert", initial[p], work[p], k)
        BY <1>1, <1>3, <2>1, <2>2, Held DEF Moves, Goto, Phases, Untried, Holding, Trying
      <3> QED BY <3>1, MoveFrame
    <2>4. FirstInv(p)'
      BY <1>1, <2>1, <2>3 DEF OwnInv, FirstInv, OneRun, World, disk, Identified, Equipped, Working
    <2>5. WorkInv(p)' /\ SecondInv(p)' /\ DoneInv(p)'
      BY <2>3 DEF WorkInv, SecondInv, DoneInv, Working
    <2>6. NoiseInv(p)'
      BY <1>1, <2>1, <2>2, <2>3 DEF OwnInv, NoiseInv, Working
    <2> QED BY <1>1, <2>1, <2>3, <2>4, <2>5, <2>6, BundleSame DEF OwnInv, Kept, Untried, Holding, Trying
  <1>4. CASE /\ Calibrated(p) => Repeating(p)
             /\ Agrees(p, kept[p].model) /\ Move(p, "quantized", "final") /\ StartLoad(p)
             /\ UNCHANGED held
    <2>1. /\ UNCHANGED <<faults, bundle, outcome, staging, initial, work, kept>> /\ World
          /\ Goto(p, "final") /\ phase[p] = "quantized"
      BY <1>4 DEF Quantized, Move, At, held
    <2>2. /\ Frame(p) /\ phase'[p] = "final" /\ initial'[p] = initial[p] /\ work'[p] = work[p]
          /\ kept'[p] = kept[p] /\ outcome'[p] = "none"
      <3>1. Moves(p, "final", initial[p], work[p], kept[p])
        BY <1>1, <1>4, <2>1, Held DEF Moves, Goto, Phases, Untried, Holding, Trying
      <3> QED BY <3>1, MoveFrame
    <2>3. UNCHANGED <<run, tools, kind, faults>>
      BY <2>1 DEF World, disk
    <2>4. FirstInv(p)'
      BY <1>1, <2>1, <2>2, <2>3 DEF OwnInv, FirstInv, OneRun, Identified, Equipped, Working
    <2>5. WorkInv(p)'
      BY <1>1, <2>1, <2>2, <2>3 DEF OwnInv, WorkInv, Working
    <2>6. SecondInv(p)' /\ DoneInv(p)'
      <3>1. stage'[p] = "manifest"
        BY <1>4, <1>1 DEF StartLoad, TypeOK, LineageTypeOK, ConversionAssumption
      <3> QED BY <2>2, <3>1 DEF SecondInv, DoneInv
    <2>7. NoiseInv(p)'
      <3>1. /\ work[p].noise <= faults /\ kept[p].model.noise <= faults
            /\ Repeating(p) => work[p].noise = 0 \/ kept[p].model.noise < work[p].noise
        BY <1>1, <2>1 DEF OwnInv, NoiseInv, Working
      <3>2. Calibrated(p) => work[p] = kept[p].model
        BY <1>4 DEF Agrees
      <3>3. Calibrated(p) => work[p].noise = 0
        BY <1>1, <1>4, <3>1, <3>2, Numbers
      <3> QED BY <2>2, <2>3, <3>1, <3>3 DEF NoiseInv, Repeating, Calibrated
    <2> QED BY <1>1, <2>1, <2>2, <2>4, <2>5, <2>6, <2>7, BundleSame DEF OwnInv, Kept, Untried, Holding, Trying
  <1> QED BY <1>2, <1>3, <1>4 DEF Quantized

LEMMA ReloadedStep ==
  ASSUME ConversionAssumption, Inv, NEW p \in Converters, Reloaded(p) PROVE Kept(p)
  <1> DEFINE l == initial[p].lineage
  <1>1. TypeOK /\ LineageInv /\ BundleInv /\ OwnInv(p)
    BY DEF Inv
  <1>2. CASE Refuse(p)
    BY <1>2, RefuseKeeps DEF Reloaded
  <1>3. CASE Move(p, "final", "compare") /\ UNCHANGED held /\ SameLineage(p)
    <2>1. /\ UNCHANGED <<faults, bundle, outcome, staging, initial, work, kept>> /\ World
          /\ Goto(p, "compare") /\ phase[p] = "final" /\ Rest(p) /\ stage[p] = "loaded"
          /\ lineage[p] = l
      BY <1>3 DEF Reloaded, Move, At, held, SameLineage
    <2>2. /\ Frame(p) /\ phase'[p] = "compare" /\ initial'[p] = initial[p] /\ work'[p] = work[p]
          /\ kept'[p] = kept[p] /\ outcome'[p] = "none"
      <3>1. Moves(p, "compare", initial[p], work[p], kept[p])
        BY <1>1, <2>1, Held DEF Moves, Goto, Phases, Untried, Holding, Trying
      <3> QED BY <3>1, MoveFrame
    <2>3. UNCHANGED <<run, tools, kind, faults>>
      BY <2>1 DEF World, disk
    <2>4. FirstInv(p)'
      BY <1>1, <2>1, <2>2, <2>3 DEF OwnInv, FirstInv, OneRun, Identified, Equipped, Working
    <2>5. WorkInv(p)'
      BY <1>1, <2>1, <2>2, <2>3 DEF OwnInv, WorkInv, Working
    <2>6. SecondInv(p)'
      <3>1. l.metadata <= l.receipt /\ l.receipt <= l.metadata
        BY <1>1, <2>1 DEF OwnInv, FirstInv, SecondInv, Identified, Equipped, Working
      <3>2. l.receipt = l.metadata
        BY <1>1, <3>1, Numbers
      <3>3. /\ work[p].runs # {}
            /\ \A r \in work[p].runs : l.merged <= r /\ r <= l.merged
        BY <1>1, <2>1 DEF OwnInv, WorkInv, SecondInv, Working
      <3>4. \A r \in work[p].runs : r = l.merged
        BY <1>1, <3>3, Numbers
      <3>5. work[p].runs = {l.merged}
        BY <3>3, <3>4
      <3> QED BY <2>2, <3>2, <3>5 DEF SecondInv
    <2>7. NoiseInv(p)' /\ DoneInv(p)'
      BY <1>1, <2>1, <2>2, <2>3 DEF OwnInv, NoiseInv, DoneInv, Repeating, Calibrated, Working
    <2> QED BY <1>1, <2>1, <2>2, <2>4, <2>5, <2>6, <2>7, BundleSame DEF OwnInv, Kept, Untried, Holding, Trying
  <1> QED BY <1>2, <1>3 DEF Reloaded

LEMMA CompareStep ==
  ASSUME ConversionAssumption, Inv, NEW p \in Converters, Compare(p) PROVE Kept(p)
  <1>1. TypeOK /\ LineageInv /\ BundleInv /\ OwnInv(p)
    BY DEF Inv
  <1>2. CASE Refuse(p)
    BY <1>2, RefuseKeeps DEF Compare
  <1>3. CASE Move(p, "compare", "publish") /\ UNCHANGED held
    <2>1. /\ UNCHANGED <<loader, faults, bundle, outcome, staging, initial, work, kept>> /\ World
          /\ Goto(p, "publish") /\ phase[p] = "compare"
      BY <1>3 DEF Compare, Move, At, held
    <2>2. /\ Frame(p) /\ phase'[p] = "publish" /\ initial'[p] = initial[p] /\ work'[p] = work[p]
          /\ kept'[p] = kept[p] /\ outcome'[p] = "none"
      <3>1. Moves(p, "publish", initial[p], work[p], kept[p])
        BY <1>1, <2>1, Held DEF Moves, Goto, Phases, Untried, Holding, Trying
      <3> QED BY <3>1, MoveFrame
    <2>3. UNCHANGED <<run, tools, kind, faults>>
      BY <2>1 DEF World, disk
    <2>4. FirstInv(p)'
      BY <1>1, <2>1, <2>2, <2>3 DEF OwnInv, FirstInv, OneRun, Identified, Equipped, Working
    <2>5. WorkInv(p)' /\ SecondInv(p)'
      BY <1>1, <2>1, <2>2, <2>3 DEF OwnInv, WorkInv, SecondInv, Working
    <2>6. NoiseInv(p)' /\ DoneInv(p)'
      BY <1>1, <2>1, <2>2, <2>3 DEF OwnInv, NoiseInv, DoneInv, Repeating, Calibrated, Working
    <2> QED BY <1>1, <2>1, <2>2, <2>4, <2>5, <2>6, BundleSame DEF OwnInv, Kept, Untried, Holding, Trying
  <1> QED BY <1>2, <1>3 DEF Compare

LEMMA PublishStep ==
  ASSUME ConversionAssumption, Inv, NEW p \in Converters, Publish(p) PROVE Kept(p)
  <1> DEFINE l == initial[p].lineage
  <1>1. TypeOK /\ LineageInv /\ BundleInv /\ OwnInv(p)
    BY DEF Inv
  <1>2. CASE Refuse(p)
    BY <1>2, RefuseKeeps DEF Publish
  <1>3. CASE /\ SameTools(p) /\ RenameNoReplace(p) /\ Goto(p, "verify")
             /\ bundle' = [by |-> p, model |-> work[p], receipt |-> Receipt(p)]
             /\ staging' = staging \ {p} /\ World /\ UNCHANGED <<held, outcome>>
    <2>1. /\ UNCHANGED <<loader, faults, initial, work, kept>> /\ phase[p] = "publish"
          /\ tools = initial[p].tools /\ bundle = NoBundle
      BY <1>3 DEF Publish, At, held, SameTools, RenameNoReplace
    <2>2. /\ Frame(p) /\ phase'[p] = "verify" /\ initial'[p] = initial[p] /\ work'[p] = work[p]
          /\ kept'[p] = kept[p] /\ outcome'[p] = "none"
      <3>1. Moves(p, "verify", initial[p], work[p], kept[p])
        BY <1>1, <1>3, <2>1, Held DEF Moves, Goto, Phases, Untried, Holding, Trying
      <3> QED BY <3>1, MoveFrame
    <2>3. UNCHANGED <<run, tools, kind, faults>>
      BY <1>3, <2>1 DEF World, disk
    <2>4. FirstInv(p)'
      BY <1>1, <2>1, <2>2, <2>3 DEF OwnInv, FirstInv, OneRun, Identified, Equipped, Working
    <2>5. WorkInv(p)' /\ SecondInv(p)'
      BY <2>2 DEF WorkInv, SecondInv, Working
    <2>6. NoiseInv(p)' /\ DoneInv(p)'
      BY <1>1, <1>3, <2>2, <2>3 DEF OwnInv, NoiseInv, DoneInv, Working
    <2>7. /\ OneRun(l) /\ l.receipt = l.metadata /\ work[p].runs = {l.merged}
          /\ l.data = "current" <=> kind[p] = "auxiliary"
          /\ initial[p].tools \in Pinned /\ (Calibrated(p) => work[p].noise = 0)
      BY <1>1, <2>1 DEF OwnInv, FirstInv, SecondInv, NoiseInv, Identified, Equipped, Working
    <2>8. work[p].tools = {initial[p].tools}
      <3>1. /\ work[p].tools # {}
            /\ \A t \in work[p].tools : initial[p].tools <= t /\ t <= initial[p].tools
        BY <1>1, <2>1 DEF OwnInv, WorkInv, Working
      <3>2. \A t \in work[p].tools : t = initial[p].tools
        BY <1>1, <3>1, Numbers
      <3> QED BY <3>1, <3>2
    <2>9. /\ bundle'.model = work[p] /\ bundle'.receipt.lineage = l
          /\ bundle'.receipt.tools = initial[p].tools /\ bundle'.receipt.kind = kind[p]
      BY <1>3 DEF Receipt
    <2>10. BundleInv'
      BY <2>7, <2>8, <2>9 DEF BundleInv, BundleIsExact, CalibratedIsReproduced, CurrentIsCalibrated,
           OneRun, Calibrated
    <2>11. p \notin staging'
      BY <1>3
    <2> QED BY <2>1, <2>2, <2>4, <2>5, <2>6, <2>10, <2>11 DEF OwnInv, Kept
  <1> QED BY <1>2, <1>3 DEF Publish

LEMMA VerifyStep ==
  ASSUME ConversionAssumption, Inv, NEW p \in Converters, Verify(p) PROVE Kept(p)
  <1>1. TypeOK /\ LineageInv /\ BundleInv /\ OwnInv(p)
    BY DEF Inv
  <1>2. /\ phase[p] = "verify" /\ phase' = [phase EXCEPT ![p] = "ended"] /\ World
        /\ UNCHANGED <<loader, initial, work, kept, staging, bundle>>
        /\ UNCHANGED faults \/ Fault
    BY DEF Verify, At, Goto, held
  <1>3. PICK o \in {"converted", "refused"} : outcome' = [outcome EXCEPT ![p] = o]
    BY DEF Verify
  <1>4. phase'[p] = "ended" /\ outcome'[p] = o
    BY <1>1, <1>2, <1>3 DEF TypeOK
  <1>5. faults' \in 0..MaxFaults /\ faults <= faults'
    BY <1>1, <1>2 DEF TypeOK, Fault, ConversionAssumption
  <1>6. Frame(p)
    <2>1. \A q \in Converters \ {p} : stage'[q] = stage[q] /\ lineage'[q] = lineage[q]
      BY <1>1, <1>2, LoaderFrame
    <2>2. \A q \in Converters \ {p} :
            /\ phase'[q] = phase[q] /\ initial'[q] = initial[q] /\ work'[q] = work[q]
            /\ kept'[q] = kept[q] /\ outcome'[q] = outcome[q] /\ (q \in staging' <=> q \in staging)
      BY <1>1, <1>2, <1>3 DEF TypeOK
    <2>3. /\ phase' \in [Converters -> Phases] /\ outcome' \in [Converters -> Outcomes]
          /\ staging' \subseteq Converters
      BY <1>1, <1>2, <1>3 DEF TypeOK, Phases, Outcomes
    <2>4. /\ initial' \in [Converters -> Initials] /\ work' \in [Converters -> Products]
          /\ kept' \in [Converters -> Keeps]
      BY <1>1, <1>2 DEF TypeOK, Initials, Keeps
    <2> QED BY <1>2, <1>3, <1>4, <1>5, <2>1, <2>2, <2>3, <2>4 DEF Frame, World
  <1>7. FirstInv(p)' /\ WorkInv(p)' /\ SecondInv(p)'
    BY <1>4 DEF FirstInv, WorkInv, SecondInv, Identified, Equipped, Working
  <1>8. NoiseInv(p)'
    BY <1>1, <1>2, <1>4, <1>5, Numbers DEF OwnInv, NoiseInv, Working, TypeOK
  <1>9. DoneInv(p)' /\ p \notin staging'
    BY <1>1, <1>2 DEF OwnInv, DoneInv, Untried, Holding, Trying
  <1> QED BY <1>1, <1>2, <1>6, <1>7, <1>8, <1>9, BundleSame DEF OwnInv, Kept

LEMMA KillStep ==
  ASSUME ConversionAssumption, Inv, NEW p \in Converters, Kill(p) PROVE Kept(p)
  <1>1. TypeOK /\ LineageInv /\ BundleInv /\ OwnInv(p)
    BY DEF Inv
  <1>2. /\ phase[p] \in {"initial", "tools"} \cup Holding /\ Fault /\ Goto(p, "killed") /\ World /\ Rest(p)
        /\ UNCHANGED <<initial, work, kept, staging, bundle, outcome>>
    BY DEF Kill, held
  <1>3. /\ Frame(p) /\ phase'[p] = "killed" /\ initial'[p] = initial[p] /\ work'[p] = work[p]
        /\ kept'[p] = kept[p] /\ outcome'[p] = "none"
    <2>1. Moves(p, "killed", initial[p], work[p], kept[p])
      BY <1>1, <1>2, Held DEF Moves, Goto, Phases, Untried, Holding, Trying
    <2> QED BY <2>1, MoveFrame
  <1>4. faults <= faults' /\ faults' \in Nat
    BY <1>1, <1>2 DEF TypeOK, Fault, ConversionAssumption
  <1>5. FirstInv(p)' /\ WorkInv(p)' /\ SecondInv(p)' /\ DoneInv(p)'
    BY <1>3 DEF FirstInv, WorkInv, SecondInv, DoneInv, Identified, Equipped, Working
  <1>6. NoiseInv(p)'
    BY <1>1, <1>3, <1>4, Numbers DEF OwnInv, NoiseInv, Working
  <1> QED BY <1>1, <1>2, <1>3, <1>5, <1>6, BundleSame DEF OwnInv, Kept

LEMMA EndStep ==
  ASSUME ConversionAssumption, Inv, NEW p \in Converters, RemoveStaging(p) \/ CutShort(p)
  PROVE  Kept(p)
  <1>1. CASE RemoveStaging(p)
    <2>1. /\ phase' = [phase EXCEPT ![p] = "ended"] /\ staging' = staging \ {p}
          /\ outcome' = [outcome EXCEPT ![p] = "refused"]
          /\ World /\ UNCHANGED loader /\ UNCHANGED <<held, bundle>> /\ UNCHANGED faults
      BY <1>1 DEF RemoveStaging, Ends, Goto
    <2> QED BY <2>1, EndsKeeps
  <1>2. CASE CutShort(p)
    <2>1. /\ phase' = [phase EXCEPT ![p] = "cut"] /\ staging' = staging
          /\ outcome' = [outcome EXCEPT ![p] = "refused"]
          /\ World /\ UNCHANGED loader /\ UNCHANGED <<held, bundle>> /\ Fault
      BY <1>2 DEF CutShort, Goto
    <2> QED BY <2>1, EndsKeeps
  <1> QED BY <1>1, <1>2

(* The other steps of p refuse. *)
LEMMA RefusalStep ==
  ASSUME ConversionAssumption, Inv, NEW p \in Converters,
         \/ LoadRefused(p) \/ RowsRefused(p) \/ CommandFails(p) \/ F16Refused(p)
         \/ MatrixRefused(p) \/ ModelRefused(p) \/ ReceiptsRefused(p) \/ Interrupt(p)
  PROVE  Kept(p)
  <1>1. /\ Refuse(p) /\ (UNCHANGED faults \/ Fault)
        /\ StartLoad(p) \/ LoadStep(p) \/ Rest(p) \/ UNCHANGED loader
    BY DEF LoadRefused, RowsRefused, CommandFails, F16Refused, MatrixRefused, ModelRefused,
         ReceiptsRefused, Interrupt, Refused
  <1> QED BY <1>1, RefuseKeeps

Steps(p) == \/ Convert(p) \/ CommandFails(p) \/ F16Refused(p) \/ MatrixRefused(p)
            \/ ModelRefused(p) \/ ReceiptsRefused(p) \/ Interrupt(p) \/ CutShort(p)
            \/ Kill(p)

LEMMA OwnStep ==
  ASSUME ConversionAssumption, Inv, NEW p \in Converters, Steps(p) PROVE Kept(p)
  BY StartStep, LoadOwn, LoadedStep, ToolsStep, ConvertStartsStep, WithToolsStep, ConvertEndsStep,
     QuantizedStep, ReloadedStep, CompareStep, PublishStep, VerifyStep, KillStep, EndStep, RefusalStep,
     TryStep
     DEF Steps, Convert

(* Whichever step p takes, the loads keep their invariant. *)
LEMMA LineageStep ==
  ASSUME ConversionAssumption, Inv, NEW p \in Converters, Steps(p) PROVE LineageInv'
  <1>1. LineageInv /\ RunAssumption /\ p \in Readers
    BY DEF Inv, ConversionAssumption
  <1>2. UNCHANGED disk
    BY OwnStep DEF Kept, Frame
  <1>3. StartLoad(p) \/ LoadStep(p) \/ Rest(p) \/ UNCHANGED loader
    BY DEF Steps, Convert, Start, Load, LoadRefused, Loaded, IdentifyTools, ConvertStarts, Made,
         RowsRefused, ConvertEnds, Imatrix, Quantize, Quantized, Reloaded, Compare, Publish,
         Verify, CommandFails, F16Refused, MatrixRefused, ModelRefused, ReceiptsRefused, Refused,
         Interrupt, Kill, CutShort, RemoveStaging, Try
  <1> QED BY <1>1, <1>2, <1>3, StartKeeps, LoadKeeps, RestKeeps, StillKeeps

LEMMA InitInv == ASSUME ConversionAssumption, Init PROVE Inv
  <1>1. LineageInv
    <2>1. run = [part \in Parts |-> 1] /\ 1 \in Runs /\ data = ProfileOf[1]
      BY DEF Init, LineageInit, ConversionAssumption, RunAssumption, Runs
    <2>2. run["metadata"] = 1 /\ run["merged"] = 1
      BY <2>1 DEF Parts
    <2>3. LineageTypeOK
      BY <2>1, NothingType DEF Init, LineageInit, LineageTypeOK, ConversionAssumption,
           RunAssumption, Stages
    <2>4. \A p \in Readers : Reads(p)
      BY <2>1, <2>2, NothingType DEF Init, LineageInit, Reads, ConversionAssumption
    <2> QED BY <2>3, <2>4 DEF LineageInv
  <1>2. NoProduct \in Products /\ NoProduct.noise = 0
    BY DEF NoProduct, Products, ConversionAssumption
  <1>3. TypeOK
    BY <1>1, <1>2, NothingType DEF Init, LineageInv, TypeOK, ConversionAssumption, Phases, Untried
  <1>4. BundleInv
    BY DEF Init, BundleInv, BundleIsExact, CalibratedIsReproduced, CurrentIsCalibrated
  <1>5. ASSUME NEW p \in Converters PROVE OwnInv(p)
    <2>1. /\ phase[p] = "start" /\ work[p] = NoProduct /\ kept[p].model = NoProduct
          /\ outcome[p] = "none" /\ staging = {} /\ faults = 0
      BY DEF Init
    <2> QED BY <1>2, <2>1 DEF OwnInv, FirstInv, WorkInv, SecondInv, NoiseInv, DoneInv, Identified,
              Equipped, Working
  <1> QED BY <1>1, <1>3, <1>4, <1>5 DEF Inv

LEMMA InvStep == ASSUME ConversionAssumption, Inv, [Next]_vars PROVE Inv'
  <1>1. TypeOK /\ LineageInv /\ BundleInv /\ RunAssumption
    BY DEF Inv, ConversionAssumption
  <1>2. ASSUME NEW p \in Converters, Steps(p) PROVE Inv'
    <2>1. Kept(p) /\ LineageInv'
      BY <1>2, OwnStep, LineageStep
    <2>2. TypeOK'
      <3>1. \A q \in Converters : outcome'[q] # "none" <=> phase'[q] \in {"ended", "cut"}
        BY <1>1, <2>1 DEF Kept, Frame, TypeOK
      <3> QED BY <1>1, <2>1, <3>1 DEF Kept, Frame, TypeOK, LineageInv, Initials, Keeps, Outcomes
    <2>3. ASSUME NEW q \in Converters PROVE OwnInv(q)'
      <3>1. CASE q = p
        BY <2>1, <3>1 DEF Kept
      <3>2. CASE q # p
        <4>1. OwnInv(q) /\ UNCHANGED <<run, tools, kind>> /\ faults <= faults' /\ faults' \in Nat
          BY <1>1, <2>1, <2>2 DEF Inv, Kept, Frame, disk, TypeOK, ConversionAssumption
        <4>2. /\ run["metadata"] \in Nat /\ run["merged"] \in Nat /\ tools \in Nat
              /\ run["metadata"] <= run["metadata"] /\ run["merged"] <= run["merged"]
              /\ tools <= tools
          BY <1>1, Numbers
        <4>3. /\ phase'[q] = phase[q] /\ initial'[q] = initial[q] /\ work'[q] = work[q]
              /\ kept'[q] = kept[q] /\ outcome'[q] = outcome[q] /\ stage'[q] = stage[q]
              /\ lineage'[q] = lineage[q] /\ (q \in staging' <=> q \in staging)
              /\ bundle' = bundle \/ bundle = NoBundle
          BY <2>1, <3>2 DEF Kept, Frame
        <4> QED BY <1>1, <4>1, <4>2, <4>3, OthersKeep
      <3> QED BY <3>1, <3>2
    <2> QED BY <2>1, <2>2, <2>3 DEF Inv, Kept
  <1>3. CASE Edit
    <2>1. /\ UNCHANGED <<loader, kind, phase, initial, work, kept, staging, bundle, outcome, faults>>
          /\ tools \in Nat /\ tools <= tools' /\ tools' \in 1..LastTools /\ pinned' \in BOOLEAN
      <3>1. tools \in 1..LastTools /\ pinned \in BOOLEAN /\ LastTools \in Nat
        BY <1>1 DEF TypeOK, ConversionAssumption
      <3>2. UNCHANGED <<loader, kind, phase, initial, work, kept, staging, bundle, outcome, faults>>
        BY <1>3 DEF Edit, converters, held
      <3>3. tools' = tools \/ (tools < LastTools /\ tools' = tools + 1)
        BY <1>3 DEF Edit
      <3>4. tools \in Nat /\ tools <= tools' /\ tools' \in 1..LastTools
        BY <3>1, <3>3
      <3>5. pinned' = pinned \/ pinned' \in BOOLEAN
        <4>1. (~pinned) \in BOOLEAN
          OBVIOUS
        <4> QED BY <1>3, <4>1 DEF Edit
      <3>6. pinned' \in BOOLEAN
        BY <3>1, <3>5
      <3> QED BY <3>2, <3>4, <3>6
    <2>2. LineageInv' /\ run["metadata"] <= run'["metadata"] /\ run["merged"] <= run'["merged"]
      <3>1. CASE Replace
        BY <1>1, <2>1, <3>1, ReplaceKeeps, ReplaceGrows DEF Parts
      <3>2. CASE UNCHANGED disk
        BY <1>1, <2>1, <3>2, StillKeeps, SameRun DEF Parts
      <3> QED BY <1>3, <3>1, <3>2 DEF Edit
    <2>3. TypeOK'
      BY <1>1, <2>1, <2>2 DEF TypeOK, LineageInv
    <2>4. /\ run'["metadata"] \in Nat /\ run'["merged"] \in Nat /\ tools' \in Nat
          /\ faults' \in Nat /\ faults <= faults'
      BY <1>1, <2>1, <2>2 DEF LineageInv, LineageTypeOK, Parts, Runs, TypeOK, ConversionAssumption
    <2>5. ASSUME NEW q \in Converters PROVE OwnInv(q)'
      <3>1. /\ phase'[q] = phase[q] /\ initial'[q] = initial[q] /\ work'[q] = work[q]
            /\ kept'[q] = kept[q] /\ outcome'[q] = outcome[q] /\ stage'[q] = stage[q]
            /\ lineage'[q] = lineage[q] /\ (q \in staging' <=> q \in staging)
            /\ bundle' = bundle /\ kind' = kind
        BY <2>1 DEF loader
      <3>2. OwnInv(q)
        BY DEF Inv
      <3> QED BY <1>1, <2>1, <2>2, <2>4, <3>1, <3>2, OthersKeep
    <2>6. BundleInv'
      BY <1>1, <2>1, BundleSame
    <2> QED BY <2>2, <2>3, <2>5, <2>6 DEF Inv
  <1>4. CASE UNCHANGED vars
    BY <1>4 DEF Inv, vars, held, disk, loader, TypeOK, LineageInv, LineageTypeOK, Reads, OneRun,
         BundleInv, BundleIsExact, CalibratedIsReproduced, CurrentIsCalibrated, OwnInv, FirstInv,
         WorkInv, SecondInv, NoiseInv, DoneInv, Repeating, Calibrated
  <1> QED BY <1>2, <1>3, <1>4 DEF Next, Steps

-----------------------------------------------------------------------------
(* What the invariant says of the properties.                              *)

LEMMA Promises ==
  ASSUME ConversionAssumption, Inv
  PROVE  /\ TypeOK /\ LoadedIsOneRun /\ BundleIsExact /\ CalibratedIsReproduced
         /\ CurrentIsCalibrated /\ ReturnedIsThere /\ StagingRemoved
  <1>1. LoadedIsOneRun
    BY DEF Inv, LineageInv, Reads, LoadedIsOneRun
  <1>2. ReturnedIsThere
    BY DEF Inv, OwnInv, DoneInv, ReturnedIsThere
  <1>3. StagingRemoved
    BY DEF Inv, OwnInv, TypeOK, StagingRemoved
  <1> QED BY <1>1, <1>2, <1>3 DEF Inv, BundleInv

(* RENAME_NOREPLACE, for any number of racing converters. *)
LEMMA StaysStep ==
  ASSUME ConversionAssumption, Inv, [Next]_vars PROVE BundleStaysStep
  <1>1. ASSUME NEW p \in Converters, Steps(p) PROVE bundle' = bundle \/ bundle = NoBundle
    BY <1>1, OwnStep DEF Kept
  <1>2. CASE Edit \/ UNCHANGED vars
    BY <1>2 DEF Edit, converters, vars, BundleStaysStep
  <1> QED BY <1>1, <1>2 DEF Next, Steps, BundleStaysStep

(* The invariant, in every state of every conversion.                      *)
THEOREM Invariance == ASSUME ConversionAssumption PROVE Spec => []Inv
  <1>1. Init => Inv
    BY InitInv
  <1>2. Inv /\ [Next]_vars => Inv'
    BY InvStep
  <1> QED BY <1>1, <1>2, PTL DEF Spec

(* A published model is of the one whole training run and the one pinned   *)
(* build that its receipt names, whichever parts of the run and whichever  *)
(* tools were replaced while it was made (_same_identity before the        *)
(* rename).                                                                *)
THEOREM BundleCorrect == ASSUME ConversionAssumption PROVE Spec => []BundleIsExact
  <1>1. Inv => BundleIsExact
    BY Promises
  <1> QED BY <1>1, Invariance, PTL

(* A calibrated bundle has no bytes that a repetition would not produce    *)
(* (the determinism replay), for any number of misbehaving commands.       *)
THEOREM ReproducedCorrect == ASSUME ConversionAssumption PROVE Spec => []CalibratedIsReproduced
  <1>1. Inv => CalibratedIsReproduced
    BY Promises
  <1> QED BY <1>1, Invariance, PTL

(* Of any number of converters with one output the first publishes, and    *)
(* its bundle stays (RENAME_NOREPLACE).                                    *)
THEOREM BundleStaysCorrect == ASSUME ConversionAssumption PROVE Spec => BundleStays
  <1>1. Inv /\ [Next]_vars => [BundleStaysStep]_bundle
    BY StaysStep
  <1> QED BY <1>1, Invariance, PTL DEF Spec, BundleStays
=============================================================================
