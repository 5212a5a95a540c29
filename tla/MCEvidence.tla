----------------------------- MODULE MCEvidence ------------------------------
(* Two calibrations, two evaluations, three training runs with six         *)
(* conversions, and experiments that need not be what was done.            *)
EXTENDS Evidence, TLC

CONSTANTS one, p1, p2

(* Two calibrations, or two evaluations, are alike. *)
Alike == Permutations({p1, p2})
MCProfiled == <<"historical", "historical">>

(* Three runs: one converted generically and with calibrations that agree, *)
(* one like it, and one with an auxiliary calibration.  A diagnostic may   *)
(* name a run that its artifact was not converted from:                    *)
(* evaluate_code_gguf.py does not compare the two.                         *)
Bundle(of, kind, made) == [run |-> of, kind |-> kind, artifact |-> made]
Diagnosis(made, of) == [artifact |-> made, run |-> of]
MCProvided ==
  [readers |-> {one}, runs |-> 3, profiles |-> <<"historical", "historical", "current">>,
   made |-> <<Bundle(1, "generic", 1), Bundle(1, "calibrated", 2), Bundle(1, "calibrated", 2),
              Bundle(2, "generic", 3), Bundle(3, "auxiliary", 4), Bundle(1, "pipeline", 2)>>,
   diagnoses |-> {Diagnosis(1, 1), Diagnosis(2, 1), Diagnosis(2, 2), Diagnosis(3, 2),
                  Diagnosis(4, 3)},
   edits |-> 1]

MCBuild == [links |-> <<"link">>, files |-> <<"server", "library">>, edits |-> 2]
MCSurface == [directories |-> <<"root", "package">>, sources |-> {"module.py"},
              forbidden |-> {"module.so"}, edits |-> 3]
MCExported == [jobs |-> {1, 2}, edits |-> 2]

(* Two historical runs, a normalized and a current one, and a diagnostic   *)
(* of each profile, which need not declare what was done.  Two evaluations *)
(* of a run of each profile agree; a third of the first run gave other     *)
(* outputs, and a fourth has the lineage of the second.                    *)
Repeat(r, out, start, finish) ==
  [artifact |-> 1, run |-> r, runtime |-> 1, output |-> out, start |-> start,
   finish |-> finish, passes |-> TRUE]
Conversion(r, made) == [run |-> r, artifact |-> made]
Declared(profile, r, bundles, calibrations) ==
  [profile |-> profile, run |-> r, bundles |-> bundles, calibrations |-> calibrations,
   artifact |-> 1, runtime |-> 1]
MCDiagnosed ==
  [readers |-> {one}, runs |-> 4,
   profiles |-> <<"historical", "historical", "normalized", "current">>,
   made |-> <<Conversion(1, 1), Conversion(1, 1), Conversion(3, 1), Conversion(4, 1)>>,
   evaluated |-> <<Repeat(1, 1, 1, 3), Repeat(1, 1, 4, 5), Repeat(1, 2, 4, 5),
                   Repeat(2, 1, 4, 5), Repeat(3, 1, 1, 3), Repeat(3, 1, 4, 5),
                   Repeat(4, 1, 1, 3), Repeat(4, 1, 4, 5)>>,
   specs |-> {Declared("historical", 1, <<1, 2>>, <<1, 2>>),
              Declared("normalized", 3, <<1>>, <<0>>), Declared("normalized", 3, <<3>>, <<0>>),
              Declared("current", 4, <<4>>, <<4>>)},
   repeats |-> 2, runtimes |-> 2, edits |-> 1]

(* Bounds.  A diagnostic's validation begins with a run of the profile     *)
(* that was declared, and with evaluations of such runs; of another        *)
(* profile is only what is exchanged while it reads.  While several        *)
(* calibrations run their inputs stay.  A malformed file of an export is   *)
(* the only change, or is put right by the second.                         *)
OfProfile(r, p) == Diagnosed.profiles[r] = spec[p].profile
BeginsDeclared ==
  \A p \in Diagnosed.readers :
    /\ \A part \in DOMAIN run : OfProfile(run[part], p)
    /\ \A k \in DOMAIN results :
         results[k] # 0 => OfProfile(Diagnosed.evaluated[results[k]].run, p)
InputsStay == \/ \A i \in DOMAIN version : version[i] = 0
              \/ \E r \in Calibrations : \A s \in Calibrations \ {r} : Waiting(s)
MalformedAlone ==
  edits < 2 \/ \A f \in Export!Files \ {"signature"} : Export!Bytes(f) # Export!Malformed

MCSpec == /\ SuiteInit /\ (unit = "validation" => BeginsDeclared)
          /\ [][/\ SuiteNext
                /\ unit = "calibration" => InputsStay'
                /\ unit = "export" => MalformedAlone']_all
=============================================================================
