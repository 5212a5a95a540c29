---------------------------- MODULE CodeConversion ----------------------------
(***************************************************************************)
(* Conversion of a trained run to a GGUF bundle (convert_code_gguf.py):    *)
(* the lineage, the llama.cpp tools and the calibration rows are           *)
(* identified, the merged tree is converted and quantized in a private     *)
(* staging directory, a calibrated conversion is repeated from the start   *)
(* and must come out the same, everything is identified once more and the  *)
(* staging directory is renamed into place.  The converter reads the       *)
(* merged tree while somebody may be replacing it, so a product is known   *)
(* by the runs and the tools that went into it, and by its noise: bytes    *)
(* that neither determines.                                                *)
(***************************************************************************)
EXTENDS TrainingLineage

CONSTANTS Converters, LastTools,
          Pinned,    \* the builds whose bytes are those of the pinned contract
          MaxFaults

(* A lineage is loaded by the converters, and "nobody" is none of them.     *)
ConversionAssumption ==
  /\ RunAssumption /\ Readers = Converters
  /\ LastTools \in Nat \ {0} /\ MaxFaults \in Nat /\ "nobody" \notin Converters

VARIABLES tools,     \* build of the llama.cpp tools on disk
          pinned,    \* the calibration rows on disk are the pinned ones
          kind,      \* what each converter was asked for
          phase,     \* what each converter does next
          initial,   \* lineage and tools each converter identified first
          work,      \* product of the round each converter is in
          kept,      \* F16 and model of its primary round
          staging,   \* whose staging directory exists
          bundle,    \* the output bundle
          outcome, faults

held == <<initial, work, kept>>
vars == <<disk, loader, tools, pinned, kind, phase, held, staging, bundle, outcome, faults>>
converters == <<kind, phase, held, staging, bundle, outcome, faults>>

(* An auxiliary calibration takes its pool from a dataset of its own.       *)
Kinds == {"generic", "calibrated", "auxiliary"}
Calibrated(p) == kind[p] # "generic"
NoProduct == [runs |-> {}, tools |-> {}, noise |-> 0]
Products == [runs : SUBSET Runs, tools : SUBSET (1..LastTools), noise : 0..MaxFaults]
NoBundle == [by |-> "nobody"]

(* Before the staging directory is made; in the try that removes it.       *)
Untried == {"start", "initial", "tools"}
Trying == {"convert", "converted", "imatrix", "quantize", "quantized", "final", "compare",
           "publish"}
Holding == {"staged", "cleanup"} \cup Trying
Phases == {"verify", "ended", "cut", "killed"} \cup Untried \cup Holding

Fault == faults < MaxFaults /\ faults' = faults + 1
At(p, place) == phase[p] = place
Goto(p, place) == phase' = [phase EXCEPT ![p] = place]

Init == /\ LineageInit
        /\ tools = 1 /\ pinned = TRUE /\ faults = 0
        /\ kind \in [Converters -> Kinds]
        /\ phase = [p \in Converters |-> "start"]
        /\ initial = [p \in Converters |-> [lineage |-> Nothing, tools |-> 0]]
        /\ work = [p \in Converters |-> NoProduct]
        /\ kept = [p \in Converters |-> [f16 |-> NoProduct, model |-> NoProduct]]
        /\ staging = {} /\ bundle = NoBundle
        /\ outcome = [p \in Converters |-> "none"]

(* The world around the converters: parts of the run, the tools and the    *)
(* calibration rows are replaced.                                          *)
Edit == /\ \/ Replace /\ UNCHANGED <<tools, pinned>>
           \/ tools < LastTools /\ tools' = tools + 1 /\ UNCHANGED <<disk, pinned>>
           \/ pinned' = ~pinned /\ UNCHANGED <<disk, tools>>
        /\ UNCHANGED <<loader, converters>>

World == UNCHANGED <<disk, tools, pinned, kind>>

(* Every refusal of a conversion that has not published: in the try, the   *)
(* finally clause has yet to remove the staging directory.                 *)
Ends(p) == Goto(p, "ended") /\ outcome' = [outcome EXCEPT ![p] = "refused"]
Refuse(p) == /\ \/ phase[p] \in Trying /\ Goto(p, "cleanup") /\ UNCHANGED outcome
                \/ phase[p] \in Untried /\ Ends(p)
             /\ World /\ UNCHANGED <<held, staging, bundle>>

(* shutil.rmtree of the directory, if nothing cuts it short.               *)
RemoveStaging(p) == /\ At(p, "cleanup") /\ Ends(p) /\ staging' = staging \ {p}
                    /\ World /\ UNCHANGED <<loader, held, bundle, faults>>

Move(p, from, to) == /\ At(p, from) /\ Goto(p, to)
                     /\ World /\ UNCHANGED <<staging, bundle, outcome>>

(* _validate_request: the arguments, and an output nobody has made.        *)
Start(p) == /\ At(p, "start") /\ UNCHANGED faults
            /\ \/ bundle = NoBundle /\ StartLoad(p) /\ Goto(p, "initial")
                  /\ World /\ UNCHANGED <<held, staging, bundle, outcome>>
               \/ bundle # NoBundle /\ Refuse(p) /\ UNCHANGED loader

(* Both loads of the lineage, one read at a time.                          *)
Load(p) == phase[p] \in {"initial", "final"} /\ LoadStep(p) /\ World /\ UNCHANGED <<
           phase, held, staging, bundle, outcome, faults>>
(* Mutant: a refused lineage is loaded again.                              *)
Retries(p) == /\ phase[p] \in {"initial", "final"} /\ stage[p] = "refused" /\ StartLoad(p)
              /\ World /\ UNCHANGED <<phase, held, staging, bundle, outcome, faults>>
LoadRefused(p) == /\ phase[p] \in {"initial", "final"} /\ stage[p] = "refused"
                  /\ Refuse(p) /\ Rest(p) /\ UNCHANGED faults

(* What the profile allows: a current run is converted only with the       *)
(* auxiliary calibration rows, the others only without them.               *)
(* Mutant: calibrated is enough for a current run.                         *)
AnyCalibration(profile, k) == profile = "current" => k # "generic"
SchemaAllowed(profile, k) == (profile = "current") <=> (k = "auxiliary")
(* The loaded lineage is checked once more; that its receipt is the        *)
(* metadata that was validated, for a current run only.                    *)
CurrentAccepted(l) == l.receipt = l.metadata
LineageAccepted(l) == l.data \in Profiles /\ (l.data = "current" => CurrentAccepted(l))
Loaded(p) == /\ At(p, "initial") /\ stage[p] = "loaded" /\ Rest(p) /\ UNCHANGED faults
             /\ LET l == lineage[p]
                       accepted == LineageAccepted(l) /\ SchemaAllowed(l.data, kind[p])
                IN \/ /\ accepted
                      /\ Move(p, "initial", "tools")
                      /\ initial' = [initial EXCEPT ![p].lineage = l]
                      /\ UNCHANGED <<work, kept>>
                   \/ ~accepted /\ Refuse(p)

(* The rows a calibration needs, replayed from their pinned corpora.       *)
Material(p) == Calibrated(p) => pinned

ToolsAccepted(p) == tools \in Pinned

(* The tools and rows are identified and the staging directory is made;    *)
(* the try that removes it begins behind a stat.                           *)
IdentifyTools(p) == /\ At(p, "tools") /\ UNCHANGED <<loader, faults>>
                    /\ \/ /\ Material(p) /\ ToolsAccepted(p) /\ Goto(p, "staged")
                          /\ initial' = [initial EXCEPT ![p].tools = tools]
                          /\ staging' = staging \cup {p}
                          /\ World /\ UNCHANGED <<work, kept, bundle, outcome>>
                       \/ ~(Material(p) /\ ToolsAccepted(p)) /\ Refuse(p)
Try(p) == Move(p, "staged", "convert") /\ UNCHANGED <<loader, held, faults>>

-----------------------------------------------------------------------------
(* The commands.  One that adds bytes of its own is a fault.               *)

Noises == {0} \cup (IF faults < MaxFaults THEN {faults + 1} ELSE {})
Made(p, from, to, product) ==
  /\ Move(p, from, to) /\ UNCHANGED <<loader, initial, kept>>
  /\ \E n \in Noises : /\ faults' = faults + (IF n = 0 THEN 0 ELSE 1)
                       /\ work' = [work EXCEPT ![p] = [product EXCEPT
                            !.noise = IF n = 0 THEN product.noise ELSE n]]

(* The converter reads the merged tree from its first file to its last; a  *)
(* calibrated round has just replayed the calibration rows.                *)
ConvertStarts(p) == /\ Material(p)
                    /\ Made(p, "convert", "converted",
                            [runs |-> {run["merged"]}, tools |-> {tools}, noise |-> 0])
RowsRefused(p) == At(p, "convert") /\ ~Material(p) /\ Refuse(p) /\ UNCHANGED <<loader, faults>>

(* Whether p is repeating its conversion, and whether the product so far   *)
(* is the one of the primary round.                                        *)
Repeating(p) == kept[p].model # NoProduct
(* Mutant: the replay's products are not compared.                         *)
Unchecked(p, primary) == TRUE
Agrees(p, primary) == Repeating(p) => work[p] = primary

ConvertEnds(p) == /\ At(p, "converted") /\ UNCHANGED <<loader, faults>>
                  /\ LET f16 == [work[p] EXCEPT !.runs = @ \cup {run["merged"]}]
                         next == IF Calibrated(p) THEN "imatrix" ELSE "quantize"
                     IN \/ /\ Repeating(p) => f16 = kept[p].f16
                           /\ Move(p, "converted", next)
                           /\ work' = [work EXCEPT ![p] = f16]
                           /\ kept' = [kept EXCEPT ![p].f16 = f16]
                           /\ UNCHANGED initial
                        \/ Repeating(p) /\ f16 # kept[p].f16 /\ Refuse(p)

WithTools(p) == [work[p] EXCEPT !.tools = @ \cup {tools}]
Imatrix(p) == Made(p, "imatrix", "quantize", WithTools(p))
Quantize(p) == Made(p, "quantize", "quantized", WithTools(p))

(* The model is identified.  A calibrated conversion starts its replay, or *)
(* ends it if the replay's model is the primary one; then the receipts are *)
(* written and the lineage is loaded again.                                *)
Quantized(p) == /\ At(p, "quantized") /\ UNCHANGED faults
                /\ \/ /\ Calibrated(p) /\ ~Repeating(p) /\ Move(p, "quantized", "convert")
                      /\ kept' = [kept EXCEPT ![p].model = work[p]]
                      /\ UNCHANGED <<loader, initial, work>>
                   \/ /\ Calibrated(p) => Repeating(p)
                      /\ Agrees(p, kept[p].model)
                      /\ Move(p, "quantized", "final") /\ StartLoad(p)
                      /\ UNCHANGED held
                   \/ ~Agrees(p, kept[p].model) /\ Refuse(p) /\ UNCHANGED loader

(* A product that is not the GGUF it should be: the F16's type, the        *)
(* importance matrix's entries, the model's header and tensors.            *)
Refused(p, place) == At(p, place) /\ Fault /\ Refuse(p) /\ UNCHANGED loader
F16Refused(p) == Refused(p, "imatrix")
MatrixRefused(p) == Calibrated(p) /\ Refused(p, "quantize")
ModelRefused(p) == Refused(p, "quantized")

(* A staged receipt that does not read back as it was written, or a        *)
(* staging directory that holds anything else.                             *)
ReceiptsRefused(p) == Refused(p, "compare")

(* A command that fails, or alters an input of its own that is checked     *)
(* again after it.                                                         *)
CommandFails(p) == /\ phase[p] \in {"converted", "imatrix", "quantize"}
                   /\ Fault /\ Refuse(p) /\ UNCHANGED loader

-----------------------------------------------------------------------------
(* The second identification, and the publication.                         *)

(* Mutant: the second lineage is not compared with the first.              *)
AnyLineage(p) == TRUE
SameLineage(p) == lineage[p] = initial[p].lineage
Reloaded(p) == /\ At(p, "final") /\ stage[p] = "loaded" /\ Rest(p) /\ UNCHANGED faults
               /\ LET accepted == LineageAccepted(lineage[p]) /\ SameLineage(p)
                  IN \/ accepted /\ Move(p, "final", "compare") /\ UNCHANGED held
                     \/ ~accepted /\ Refuse(p)

(* The tools are identified twice more, the second time just before the    *)
(* rename.                                                                 *)
SameTools(p) == tools = initial[p].tools
Compare(p) == /\ At(p, "compare") /\ UNCHANGED <<loader, faults>>
              /\ \/ SameTools(p) /\ Material(p) /\ Move(p, "compare", "publish")
                    /\ UNCHANGED held
                 \/ ~(SameTools(p) /\ Material(p)) /\ Refuse(p)

Receipt(p) == [lineage |-> initial[p].lineage, tools |-> initial[p].tools, kind |-> kind[p]]
(* Mutant: rename(2), which replaces what it finds.                        *)
Overwrites(p) == TRUE
RenameNoReplace(p) == bundle = NoBundle
Publish(p) == /\ At(p, "publish") /\ UNCHANGED <<loader, faults>>
              /\ \/ /\ SameTools(p) /\ RenameNoReplace(p) /\ Goto(p, "verify")
                    /\ bundle' = [by |-> p, model |-> work[p], receipt |-> Receipt(p)]
                    /\ staging' = staging \ {p}
                    /\ World /\ UNCHANGED <<held, outcome>>
                 \/ ~(SameTools(p) /\ RenameNoReplace(p)) /\ Refuse(p)

(* What was published is read again.  A failure here is reported, and the  *)
(* bundle stays.                                                           *)
Verify(p) == /\ At(p, "verify") /\ Goto(p, "ended")
             /\ \/ outcome' = [outcome EXCEPT ![p] = "converted"] /\ UNCHANGED faults
                \/ outcome' = [outcome EXCEPT ![p] = "refused"] /\ Fault
             /\ World /\ UNCHANGED <<loader, held, staging, bundle>>

(* An exception unwinds like a refusal.  Before the try nothing removes    *)
(* the directory, and an error or an interrupt of the finally clause, or   *)
(* a staging directory it does not recognise, leaves it or a part of it.   *)
(* A kill leaves everything.                                               *)
Interrupt(p) == /\ phase[p] \in {"initial", "tools"} \cup Trying
                /\ Fault /\ Refuse(p) /\ Rest(p)
CutShort(p) == /\ phase[p] \in {"staged", "cleanup"} /\ Fault /\ Goto(p, "cut")
               /\ outcome' = [outcome EXCEPT ![p] = "refused"]
               /\ World /\ UNCHANGED <<loader, held, staging, bundle>>
Kill(p) == /\ phase[p] \in {"initial", "tools"} \cup Holding /\ Fault /\ Goto(p, "killed")
           /\ World /\ Rest(p) /\ UNCHANGED <<held, staging, bundle, outcome>>

Convert(p) == \/ Start(p) \/ Load(p) \/ LoadRefused(p) \/ Loaded(p) \/ IdentifyTools(p)
              \/ Try(p) \/ ConvertStarts(p) \/ RowsRefused(p) \/ ConvertEnds(p) \/ Imatrix(p)
              \/ Quantize(p) \/ Quantized(p) \/ Reloaded(p) \/ Compare(p) \/ Publish(p)
              \/ Verify(p) \/ RemoveStaging(p)

Next == \/ Edit
        \/ \E p \in Converters : \/ Convert(p) \/ CommandFails(p) \/ F16Refused(p)
                                \/ MatrixRefused(p) \/ ModelRefused(p) \/ ReceiptsRefused(p)
                                \/ Interrupt(p) \/ CutShort(p) \/ Kill(p)

Fairness == \A p \in Converters : WF_vars(Convert(p))
Spec == Init /\ [][Next]_vars /\ Fairness

-----------------------------------------------------------------------------
TypeOK == /\ LineageTypeOK /\ tools \in 1..LastTools /\ pinned \in BOOLEAN
          /\ kind \in [Converters -> Kinds] /\ phase \in [Converters -> Phases]
          /\ initial \in [Converters -> [lineage : Lineages, tools : 0..LastTools]]
          /\ work \in [Converters -> Products]
          /\ kept \in [Converters -> [f16 : Products, model : Products]]
          /\ staging \subseteq Converters
          /\ outcome \in [Converters -> {"none", "converted", "refused"}]
          /\ faults \in 0..MaxFaults
          /\ \A p \in Converters : outcome[p] # "none" <=> phase[p] \in {"ended", "cut"}

(* Whichever parts of the run and whichever tools were replaced while it   *)
(* was made, a published model comes from the one training run and the one *)
(* pinned build its receipt names, and that run is whole (_same_identity   *)
(* of the lineage and of the toolchain, before the rename).                *)
BundleIsExact ==
  bundle # NoBundle =>
    LET r == bundle.receipt
    IN /\ OneRun(r.lineage) /\ r.lineage.receipt = r.lineage.metadata
       /\ bundle.model.runs = {r.lineage.merged} /\ bundle.model.tools = {r.tools}
       /\ r.tools \in Pinned

(* A calibrated bundle holds nothing that a repetition would not produce,  *)
(* however its commands misbehaved (the determinism replay).               *)
CalibratedIsReproduced ==
  bundle # NoBundle => (bundle.receipt.kind # "generic" => bundle.model.noise = 0)

(* A bundle of a current run was calibrated on the auxiliary rows.         *)
CurrentIsCalibrated ==
  bundle # NoBundle => (bundle.receipt.kind = "auxiliary"
                        <=> ProfileOf[bundle.receipt.lineage.metadata] = "current")

(* The steps that the next property allows. *)
BundleStaysStep == bundle # NoBundle => bundle' = bundle

(* Of two converters with one output only the first publishes, and nothing *)
(* replaces what it published (RENAME_NOREPLACE).                          *)
BundleStays == [][BundleStaysStep]_bundle

(* A staging directory belongs to a converter still between making it and  *)
(* removing it, or to one that was killed there, or cut short before the   *)
(* try or in the removal (the finally clause).                             *)
StagingRemoved == \A p \in staging : phase[p] \in Holding \cup {"cut", "killed"}

(* A conversion that returned has left its own bundle (convert's result    *)
(* after _publish_directory_noreplace).                                    *)
ReturnedIsThere == \A p \in Converters : outcome[p] = "converted" => bundle.by = p

(* Every conversion ends, refused or not, unless it is killed (the bounded *)
(* commands of _bounded_conversion_command).                               *)
ConversionEnds == \A p \in Converters : <>(phase[p] \in {"ended", "cut", "killed"})
=============================================================================
