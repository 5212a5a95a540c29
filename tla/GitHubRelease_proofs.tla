------------------------ MODULE GitHubRelease_proofs ------------------------
(***************************************************************************)
(* Proofs of the safety of a release, for every set of files and of        *)
(* contents, any number of draft releases, attempts, lost requests and     *)
(* changed files.                                                          *)
(***************************************************************************)
EXTENDS GitHubRelease, TLAPS

Releases == [draft : BOOLEAN, immutable : BOOLEAN, assets : [Names -> Assets]]

(* A request on its way is about a draft that is known.                    *)
Requests == {Creates} \cup {Publishes(i) : i \in Known}
            \cup {Uploads(i, n, c) : i \in Known, n \in Names, c \in Contents}
LateInv == late \subseteq Requests

(* A tag has one public release, and only a public release is immutable.   *)
PublicInv == /\ \A i, j \in Public : i = j
             /\ \A i \in Known : releases[i].immutable => i \in Public

(* The attempt under way prepared its files.                               *)
AttemptInv == /\ snapshots \subseteq [Names -> Contents]
              /\ pc \notin {"idle", "prepare", "proved"} => run.files \in snapshots

(* GitHub only hears of an attempt once the setting was turned on, and a   *)
(* release that became public without it did so after an owner turned it   *)
(* off again.                                                              *)
Before == {"idle", "prepare", "immutability", "proved"}
SettingInv == /\ pc \notin Before \/ Known # {} \/ late # {} => setting \/ disabled
              /\ \A i \in Public : releases[i].immutable \/ disabled

(* The local variables have their types; from the draft on there is one.   *)
Reasons == {"none", "ambiguous", "mismatch", "changed", "taken", "published", "source"}
Runs == [files : [Names -> Contents], id : Ids \cup {NoId}, todo : SUBSET Names, why : Reasons]
RunInv == run \in Runs
Placed == {"draft", "upload", "complete", "publish", "final", "fetch"}

Inv == RunInv /\ TypeOK /\ LateInv /\ PublicInv /\ AttemptInv /\ SettingInv
       /\ ProvedIsSigned

-----------------------------------------------------------------------------
(* What a step can do to the releases.                                     *)

Creation == \E i \in Ids \ Known : releases' = Created(i)
Upload1 == \E i \in Known, n \in Names, a \in Assets :
             Takes(i, n) /\ releases' = [releases EXCEPT ![i].assets[n] = a]
Publication == \E i \in Known : CanPublish(i) /\ releases' = Published(i)

(* Releases stay, their assets and their being public stay, an immutable   *)
(* one does not change at all, and a public one is added only if there was *)
(* none.                                                                   *)
Grows ==
  /\ Known \subseteq Known' /\ Known' \subseteq Ids
  /\ \A i \in Known' : releases'[i] \in Releases
  /\ \A i \in Known, n \in Names :
       releases[i].assets[n] # NoAsset => releases'[i].assets[n] = releases[i].assets[n]
  /\ \A i \in Known : releases[i].immutable => releases'[i] = releases[i]
  /\ \/ Public' = Public
     \/ \E i \in Known : /\ Public = {} /\ Public' = {i}
                         /\ releases'[i].assets = releases[i].assets
  /\ \A i \in Known' : releases'[i].immutable => i \in Public'

LEMMA StaysGrows == ASSUME TypeOK, PublicInv, UNCHANGED releases PROVE Grows
  BY DEF TypeOK, PublicInv, Grows, Known, Public, Drafts, Releases

LEMMA CreationGrows == ASSUME TypeOK, PublicInv, Creation PROVE Grows
  <1>1. PICK i \in Ids \ Known : releases' = Created(i)
    BY DEF Creation
  <1>2. Known' = Known \cup {i} /\ \A j \in Known : releases'[j] = releases[j]
    BY <1>1 DEF Created, Known
  <1>3. releases'[i] = [draft |-> TRUE, immutable |-> FALSE, assets |-> Empty]
    BY <1>1 DEF Created
  <1>4. releases'[i] \in Releases /\ releases'[i].draft /\ ~releases'[i].immutable
    BY <1>3 DEF Releases, Empty, Assets
  <1>5. Public' = Public
    BY <1>1, <1>2, <1>4 DEF Public, Known
  <1> QED BY <1>1, <1>2, <1>4, <1>5 DEF TypeOK, PublicInv, Grows, Releases

LEMMA UploadGrows == ASSUME TypeOK, PublicInv, Upload1 PROVE Grows
  <1>1. PICK i \in Known, n \in Names, a \in Assets :
          Takes(i, n) /\ releases' = [releases EXCEPT ![i].assets[n] = a]
    BY DEF Upload1
  <1> DEFINE r == releases[i]
  <1>2. Known' = Known /\ \A j \in Known \ {i} : releases'[j] = releases[j]
    BY <1>1 DEF Known
  <1>3. releases'[i] = [r EXCEPT !.assets = [r.assets EXCEPT ![n] = a]]
    BY <1>1 DEF Known
  <1>4. r \in Releases
    BY DEF TypeOK, Releases
  <1>5. /\ releases'[i].draft = r.draft /\ releases'[i].immutable = r.immutable
        /\ releases'[i].assets = [r.assets EXCEPT ![n] = a]
        /\ releases'[i] \in Releases
    BY <1>3, <1>4 DEF Releases
  <1>6. Public' = Public
    BY <1>2, <1>5 DEF Public
  <1>7. r.assets[n] = NoAsset /\ ~r.immutable
    BY <1>1 DEF Takes
  <1>8. \A m \in Names : r.assets[m] # NoAsset => releases'[i].assets[m] = r.assets[m]
    BY <1>4, <1>5, <1>7 DEF Releases
  <1> QED BY <1>2, <1>4, <1>5, <1>6, <1>7, <1>8 DEF TypeOK, PublicInv, Grows, Releases

LEMMA PublicationGrows == ASSUME TypeOK, PublicInv, Publication PROVE Grows
  <1>1. PICK i \in Known : CanPublish(i) /\ releases' = Published(i)
    BY DEF Publication
  <1> DEFINE r == releases[i]
  <1>2. Known' = Known /\ \A j \in Known \ {i} : releases'[j] = releases[j]
    BY <1>1 DEF Known, Published
  <1>3. releases'[i] = [[r EXCEPT !.draft = FALSE] EXCEPT !.immutable = setting]
    BY <1>1 DEF Known, Published
  <1>4. r \in Releases /\ setting \in BOOLEAN
    BY DEF TypeOK, Releases
  <1>5. /\ ~releases'[i].draft /\ releases'[i].assets = r.assets
        /\ releases'[i] \in Releases
    BY <1>3, <1>4 DEF Releases
  <1>6. Public = {}
    BY <1>1 DEF CanPublish
  <1>7. Public' = {i}
    BY <1>2, <1>5, <1>6 DEF Public
  <1>8. \A j \in Known : ~releases[j].immutable
    BY <1>6 DEF PublicInv
  <1> QED BY <1>2, <1>4, <1>5, <1>6, <1>7, <1>8 DEF TypeOK, Grows, Releases

LEMMA LateChanges ==
  ASSUME TypeOK, LateInv, NEW q \in late, Late(q)
  PROVE  UNCHANGED releases \/ Creation \/ Upload1 \/ Publication
  <1>1. q \in Requests
    BY DEF LateInv
  <1>2. CASE UNCHANGED releases
    BY <1>2
  <1>3. CASE Apply(q)
    <2>1. CASE q = Creates
      BY <1>3, <2>1 DEF Apply, Creates, Creation
    <2>2. ASSUME NEW i \in Known, q = Publishes(i) PROVE Publication
      BY <1>3, <2>2 DEF Apply, Publishes, Publication
    <2>3. ASSUME NEW i \in Known, NEW n \in Names, NEW c \in Contents, q = Uploads(i, n, c)
          PROVE  Upload1
      <3>1. q.kind = "upload" /\ q.id = i /\ q.name = n /\ q.content = c
        BY <2>3 DEF Uploads
      <3>2. Takes(i, n)
            /\ \E a \in {Uploaded(c), Starter} : releases' = [releases EXCEPT ![i].assets[n] = a]
        BY <1>3, <3>1 DEF Apply
      <3>3. Uploaded(c) \in Assets /\ Starter \in Assets
        BY DEF Assets
      <3> QED BY <3>2, <3>3 DEF Upload1
    <2> QED BY <1>1, <2>1, <2>2, <2>3 DEF Requests
  <1> QED BY <1>2, <1>3 DEF Late

LEMMA StepChanges ==
  ASSUME TypeOK, LateInv, [Next]_vars
  PROVE  UNCHANGED releases \/ Creation \/ Upload1 \/ Publication
  <1>1. CASE Create
    BY <1>1 DEF Create, Creation, Lost, Interrupted, github
  <1>2. ASSUME NEW n \in Names, Upload(n)
        PROVE  UNCHANGED releases \/ Upload1
    <2>1. pc = "upload" /\ run.id \in Known
      BY <1>2 DEF Upload, TypeOK
    <2>2. \A c \in Contents : Uploaded(c) \in Assets
      BY DEF Assets
    <2>3. disk[n] \in Contents
      BY DEF TypeOK
    <2>4. UNCHANGED releases \/ \E c \in Contents :
            Takes(run.id, n) /\ releases' = [releases EXCEPT ![run.id].assets[n] = Uploaded(c)]
      BY <1>2, <2>3 DEF Upload, Refused, Interrupted, Lost, github
    <2> QED BY <2>1, <2>2, <2>4 DEF Upload1
  <1>3. CASE PublishDraft
    BY <1>3 DEF PublishDraft, Publication, At, Lost, Interrupted, Refused, github, TypeOK
  <1>4. CASE Settle
    BY <1>4, LateChanges DEF Settle
  <1>5. CASE \/ Probe \/ Prepare \/ Immutability \/ Lookup \/ Listing \/ Draft \/ Uploading
             \/ CheckComplete \/ Final \/ VerifySource \/ Disable
             \/ (\E n \in Names : Rewrite(n)) \/ UNCHANGED vars
    BY <1>5 DEF Probe, Prepare, Immutability, Lookup, Listing, Draft, Uploading, CheckComplete,
                Final, VerifySource, Disable, Rewrite, Interrupted, Lost, Refused, Goes,
                github, vars
  <1> QED BY <1>1, <1>2, <1>3, <1>4, <1>5 DEF Next, Publisher

LEMMA StepGrows == ASSUME TypeOK, LateInv, PublicInv, [Next]_vars PROVE Grows
  BY StepChanges, StaysGrows, CreationGrows, UploadGrows, PublicationGrows

(* A request on its way stays a request about a known draft.               *)
LEMMA RequestsStay == ASSUME Known \subseteq Known', NEW q \in Requests PROVE q \in Requests'
  BY DEF Requests, Known

-----------------------------------------------------------------------------
(* The values of the variables.                                            *)

LEMMA InitInv == ASSUME ReleaseAssumption, Init PROVE Inv
  <1>1. Known = {} /\ Public = {}
    BY DEF Init, Known, Public
  <1>2. pc = "idle" /\ run.files = disk /\ run.id = NoId /\ run.todo = {}
    BY DEF Init
  <1>3. RunInv
    BY DEF Init, RunInv, Runs, Reasons, ReleaseAssumption
  <1>4. TypeOK
    <2>1. disk \in [Names -> Contents] /\ run.todo \subseteq Names /\ faults \in 0..MaxFaults
      BY <1>2 DEF Init, ReleaseAssumption
    <2>2. setting \in BOOLEAN /\ disabled \in BOOLEAN
      BY DEF Init
    <2> QED BY <1>1, <1>2, <2>1, <2>2 DEF TypeOK
  <1>5. PublicInv
    BY <1>1 DEF PublicInv
  <1>6. LateInv /\ AttemptInv /\ SettingInv /\ ProvedIsSigned
    BY <1>1, <1>2 DEF Init, LateInv, AttemptInv, SettingInv, Before, ProvedIsSigned
  <1> QED BY <1>3, <1>4, <1>5, <1>6 DEF Inv

(* What a step of the publisher leaves of its local variables.             *)
LocalTypes == /\ RunInv
              /\ pc \in Steps \cup {"idle", "proved"}
              /\ pc \in Placed => run.id \in Known
              /\ snapshots \subseteq [Names -> Contents]
              /\ pc \notin {"idle", "prepare", "proved"} => run.files \in snapshots

LEMMA FaultType == ASSUME ReleaseAssumption, TypeOK, Fault PROVE faults' \in 0..MaxFaults
  BY DEF ReleaseAssumption, TypeOK, Fault

LEMMA StepTypes ==
  ASSUME ReleaseAssumption, Inv, [Next]_vars
  PROVE  setting' \in BOOLEAN /\ disk' \in [Names -> Contents] /\ faults' \in 0..MaxFaults
  <1> USE FaultType DEF Inv
  <1>0. CASE Probe
    BY <1>0 DEF Probe, TypeOK, At, Goes, github
  <1>1. CASE Prepare
    BY <1>1 DEF Prepare, TypeOK, github
  <1>2. CASE Immutability
    BY <1>2 DEF Immutability, TypeOK, At, Interrupted, github
  <1>3. CASE Lookup
    BY <1>3 DEF Lookup, TypeOK, At, Interrupted, Goes, github
  <1>4. CASE Listing
    BY <1>4 DEF Listing, TypeOK, At, Interrupted, Goes, Refused, github
  <1>5. CASE Create
    BY <1>5 DEF Create, TypeOK, At, Interrupted, Lost, github
  <1>6. CASE Draft
    BY <1>6 DEF Draft, TypeOK, At, Interrupted, Refused, github
  <1>7. ASSUME NEW n \in Names, Upload(n)
        PROVE setting' \in BOOLEAN /\ disk' \in [Names -> Contents] /\ faults' \in 0..MaxFaults
    <2>1. setting' = setting /\ (UNCHANGED faults \/ Fault)
      BY <1>7 DEF Upload, Interrupted, Lost, Refused, github
    <2>2. UNCHANGED disk \/ \E c \in Contents : disk' = [disk EXCEPT ![n] = c]
      BY <1>7 DEF Upload
    <2> QED BY <2>1, <2>2 DEF TypeOK
  <1>8. CASE Uploading
    BY <1>8 DEF Uploading, TypeOK, At, Goes, github
  <1>9. CASE CheckComplete
    BY <1>9 DEF CheckComplete, TypeOK, At, Interrupted, Goes, Refused, github
  <1>10. CASE PublishDraft
    BY <1>10 DEF PublishDraft, TypeOK, At, Interrupted, Lost, Refused, github
  <1>11. CASE Final
    BY <1>11 DEF Final, TypeOK, At, Interrupted, Goes, Refused, github
  <1>12. CASE VerifySource
    BY <1>12 DEF VerifySource, TypeOK, At, Interrupted, Goes, Refused, github
  <1>13. CASE Settle
    BY <1>13 DEF Settle, Late, TypeOK
  <1>14. CASE Disable
    BY <1>14 DEF Disable, TypeOK
  <1>15. ASSUME NEW n \in Names, Rewrite(n)
         PROVE setting' \in BOOLEAN /\ disk' \in [Names -> Contents] /\ faults' \in 0..MaxFaults
    BY <1>15 DEF Rewrite, TypeOK, github
  <1>16. CASE UNCHANGED vars
    BY <1>16 DEF vars, TypeOK
  <1> QED BY <1>0, <1>1, <1>2, <1>3, <1>4, <1>5, <1>6, <1>7, <1>8, <1>9, <1>10, <1>11, <1>12,
             <1>13, <1>14, <1>15, <1>16 DEF Next, Publisher

(* An owner's turning the setting off is remembered.                       *)
LEMMA DisabledStays ==
  ASSUME TypeOK, [Next]_vars PROVE disabled' \in BOOLEAN /\ (disabled => disabled')
  BY DEF TypeOK, Next, Publisher, Probe, Prepare, Immutability, Lookup, Listing, Create, Draft,
         Upload, Uploading, CheckComplete, PublishDraft, Final, VerifySource, Settle, Late,
         Disable, Rewrite, At, vars

(* The attempt's local variables.                                          *)
LEMMA LocalStep ==
  ASSUME ReleaseAssumption, Inv, [Next]_vars PROVE LocalTypes'
  <1>1. Known \subseteq Known' /\ Known \subseteq Ids /\ disk \in [Names -> Contents]
    BY StepGrows DEF Inv, Grows, TypeOK
  <1>2. LocalTypes
    BY DEF Inv, TypeOK, AttemptInv, LocalTypes, Placed
  <1> USE <1>1, <1>2 DEF LocalTypes, RunInv, Runs, Reasons, Placed, Steps
  <1>0. CASE Probe
    BY <1>0 DEF Probe, At, Goes
  <1>3. CASE Prepare
    BY <1>3 DEF Prepare
  <1>4. CASE Immutability
    BY <1>4 DEF Immutability, At, Interrupted, Idle
  <1>5. CASE Lookup
    BY <1>5 DEF Lookup, At, Interrupted, Idle, Goes, Public
  <1>6. CASE Listing
    BY <1>6 DEF Listing, At, Interrupted, Idle, Goes, Refused
  <1>7. CASE Create
    <2>1. ASSUME NEW i \in Ids \ Known, releases' = Created(i) PROVE i \in Known'
      BY <2>1 DEF Created, Known
    <2> QED BY <1>7, <2>1 DEF Create, At, Interrupted, Idle, Lost
  <1>8. CASE Draft
    BY <1>8 DEF Draft, At, Interrupted, Idle, Refused
  <1>9. ASSUME NEW n \in Names, Upload(n) PROVE LocalTypes'
    <2>1. UNCHANGED snapshots
      BY <1>9 DEF Upload
    <2>2. CASE pc' = "idle"
      <3>1. UNCHANGED run \/ run' = [run EXCEPT !.why = "changed"]
                          \/ run' = [run EXCEPT !.why = "taken"]
        BY <1>9, <2>2 DEF Upload, Interrupted, Idle, Lost, Refused
      <3> QED BY <2>1, <2>2, <3>1
    <2>3. CASE pc' # "idle"
      <3>1. pc' = pc /\ run' = [run EXCEPT !.todo = @ \ {n}]
        BY <1>9, <2>3 DEF Upload, Interrupted, Idle, Lost, Refused
      <3> QED BY <2>1, <3>1
    <2> QED BY <2>2, <2>3
  <1>10. CASE Uploading
    BY <1>10 DEF Uploading, At, Goes
  <1>11. CASE CheckComplete
    BY <1>11 DEF CheckComplete, At, Interrupted, Idle, Goes, Refused
  <1>12. CASE PublishDraft
    BY <1>12 DEF PublishDraft, At, Interrupted, Idle, Lost, Refused
  <1>13. CASE Final
    BY <1>13 DEF Final, At, Interrupted, Idle, Goes, Refused
  <1>14. CASE VerifySource
    BY <1>14 DEF VerifySource, At, Interrupted, Idle, Goes, Refused
  <1>15. CASE Settle
    BY <1>15 DEF Settle, Late
  <1>16. CASE Disable \/ (\E n \in Names : Rewrite(n)) \/ UNCHANGED vars
    BY <1>16 DEF Disable, Rewrite, vars
  <1> QED BY <1>0, <1>3, <1>4, <1>5, <1>6, <1>7, <1>8, <1>9, <1>10, <1>11, <1>12, <1>13, <1>14,
             <1>15, <1>16 DEF Next, Publisher

(* Only a draft that is known gets a request.                              *)
LEMMA LateStep == ASSUME ReleaseAssumption, Inv, [Next]_vars PROVE LateInv'
  <1>1. late \subseteq Requests' /\ Creates \in Requests'
    BY StepGrows, RequestsStay DEF Inv, LateInv, Grows, Requests
  <1>2. late' \subseteq late \/ \E q \in Requests : late' = late \cup {q}
    <2>1. CASE Create
      BY <2>1 DEF Create, Lost, Interrupted, Requests
    <2>2. ASSUME NEW n \in Names, Upload(n)
          PROVE  late' \subseteq late \/ \E q \in Requests : late' = late \cup {q}
      <3>1. run.id \in Known /\ disk[n] \in Contents
        BY <2>2 DEF Upload, Inv, TypeOK
      <3>2. Uploads(run.id, n, disk[n]) \in Requests
        BY <3>1 DEF Requests
      <3> QED BY <2>2, <3>2 DEF Upload, Lost, Interrupted, Refused
    <2>3. CASE PublishDraft
      <3>1. Publishes(run.id) \in Requests
        BY <2>3 DEF PublishDraft, At, Inv, TypeOK, Requests
      <3> QED BY <2>3, <3>1 DEF PublishDraft, Lost, Interrupted, Refused
    <2>4. CASE \/ Probe \/ Prepare \/ Immutability \/ Lookup \/ Listing \/ Draft \/ Uploading
               \/ CheckComplete \/ Final \/ VerifySource \/ Disable \/ Settle
               \/ (\E n \in Names : Rewrite(n)) \/ UNCHANGED vars
      BY <2>4 DEF Probe, Prepare, Immutability, Lookup, Listing, Draft, Uploading, CheckComplete,
                  Final, VerifySource, Disable, Rewrite, Settle, Late, Interrupted, Refused,
                  Goes, vars
    <2> QED BY <2>1, <2>2, <2>3, <2>4 DEF Next, Publisher
  <1> QED BY <1>1, <1>2, StepGrows, RequestsStay DEF Inv, LateInv, Grows

-----------------------------------------------------------------------------
(* The public release.                                                     *)

LEMMA PublicStep == ASSUME Inv, [Next]_vars PROVE PublicInv'
  <1>1. Grows
    BY StepGrows DEF Inv
  <1>2. \A i, j \in Public' : i = j
    BY <1>1 DEF Grows, Inv, PublicInv
  <1> QED BY <1>1, <1>2 DEF Grows, PublicInv

LEMMA KeptPublic ==
  ASSUME TypeOK, UNCHANGED releases \/ Creation \/ Upload1
  PROVE  Public' = Public
  <1>1. CASE UNCHANGED releases
    BY <1>1 DEF Public, Known
  <1>2. ASSUME NEW i \in Ids \ Known, releases' = Created(i) PROVE Public' = Public
    <2>1. Known' = Known \cup {i} /\ \A j \in Known : releases'[j] = releases[j]
      BY <1>2 DEF Created, Known
    <2>2. releases'[i].draft
      BY <1>2 DEF Created
    <2> QED BY <1>2, <2>1, <2>2 DEF Public
  <1>3. ASSUME NEW i \in Known, NEW n \in Names, NEW a \in Assets,
               releases' = [releases EXCEPT ![i].assets[n] = a]
        PROVE  Public' = Public
    <2>1. releases[i] \in Releases
      BY DEF TypeOK, Releases
    <2>2. Known' = Known /\ \A j \in Known \ {i} : releases'[j] = releases[j]
      BY <1>3 DEF Known
    <2>3. releases'[i] = [releases[i] EXCEPT !.assets = [releases[i].assets EXCEPT ![n] = a]]
      BY <1>3 DEF Known
    <2>4. releases'[i].draft = releases[i].draft
      BY <2>1, <2>3 DEF Releases
    <2> QED BY <2>2, <2>4 DEF Public
  <1> QED BY <1>1, <1>2, <1>3 DEF Creation, Upload1

LEMMA NewPublic ==
  ASSUME TypeOK, NEW i \in Known, releases' = Published(i) PROVE Public' \subseteq Public \cup {i}
  <1>1. Known' = Known /\ \A j \in Known \ {i} : releases'[j] = releases[j]
    BY DEF Known, Published
  <1> QED BY <1>1 DEF Public

(* GitHub hears of an attempt only after its Immutability step.            *)
LEMMA EnsuredStep ==
  ASSUME Inv, [Next]_vars, pc' \notin Before \/ Known' # {} \/ late' # {}
  PROVE  setting' \/ disabled'
  <1>1. CASE pc \notin Before \/ Known # {} \/ late # {}
    <2>1. setting \/ disabled
      BY <1>1 DEF Inv, SettingInv
    <2>2. setting' = setting \/ setting' = TRUE \/ disabled' = TRUE
      BY DEF Next, Publisher, Probe, Prepare, Immutability, Lookup, Listing, Create, Draft,
             Upload, Uploading, CheckComplete, PublishDraft, Final, VerifySource, Settle, Late,
             Disable, Rewrite, At, Interrupted, Lost, Refused, Goes, github, vars
    <2> QED BY <2>1, <2>2, DisabledStays DEF Inv
  <1>2. CASE Immutability /\ ~Interrupted
    BY <1>2 DEF Immutability
  <1>3. CASE pc \in Before /\ Known = {} /\ late = {} /\ ~(Immutability /\ ~Interrupted)
    <2>1. UNCHANGED <<releases, late>> /\ pc' \in Before
      BY <1>3 DEF Before, Next, Publisher, Probe, Prepare, Immutability, Lookup, Listing, Create,
             Draft, Upload, Uploading, CheckComplete, PublishDraft, Final, VerifySource, Settle,
             Disable, Rewrite, At, Interrupted, Idle, Lost, Refused, Goes, github, vars
    <2> QED BY <1>3, <2>1 DEF Known
  <1> QED BY <1>1, <1>2, <1>3

(* What becomes public takes the setting of that moment.                   *)
LEMMA ImmutableStep ==
  ASSUME Inv, [Next]_vars, NEW i \in Public' PROVE releases'[i].immutable \/ disabled'
  <1>1. CASE i \in Public
    <2>1. i \in Known /\ (releases[i].immutable \/ disabled)
      BY <1>1 DEF Inv, SettingInv, Public
    <2> QED BY <2>1, StepGrows, DisabledStays DEF Inv, Grows
  <1>2. CASE i \notin Public
    <2>1. ~(UNCHANGED releases \/ Creation \/ Upload1)
      BY <1>2, KeptPublic DEF Inv
    <2>2. PICK j \in Known : releases' = Published(j)
      BY <2>1, StepChanges DEF Inv, Publication
    <2>3. i = j
      BY <1>2, <2>2, NewPublic DEF Inv
    <2>4. releases[j] \in Releases /\ setting \in BOOLEAN
      BY DEF Inv, TypeOK, Releases
    <2>5. releases'[i] = [[releases[i] EXCEPT !.draft = FALSE] EXCEPT !.immutable = setting]
      BY <2>2, <2>3 DEF Known, Published
    <2>6. releases'[i].immutable = setting
      BY <2>3, <2>4, <2>5 DEF Releases
    <2>7. setting \/ disabled
      BY <2>2 DEF Inv, SettingInv
    <2> QED BY <2>6, <2>7, DisabledStays DEF Inv
  <1> QED BY <1>1, <1>2

(* What was fetched stays as it was, and the probe of a later cycle and    *)
(* the attempt's own verification ask for the same.                        *)
LEMMA ProvedStep == ASSUME Inv, SettingInv', [Next]_vars PROVE ProvedIsSigned'
  <1> SUFFICES ASSUME pc' = "proved"
               PROVE  \E i \in Public' : releases'[i].assets = Exactly(Signed)
    BY DEF ProvedIsSigned, SettingInv, Exactly
  <1>1. Grows
    BY StepGrows DEF Inv
  <1>2. PICK i \in Public : releases[i].assets = Exactly(Signed)
    <2>1. CASE pc = "proved"
      BY <2>1 DEF Inv, ProvedIsSigned
    <2>2. CASE VerifySource \/ Probe
      BY <2>2 DEF VerifySource, Probe, Fetched, Interrupted, Idle, Refused, Goes
    <2> QED BY <2>1, <2>2 DEF Next, Publisher, Prepare, Immutability, Lookup, Listing, Create,
          Draft, Upload, Uploading, CheckComplete, PublishDraft, Final, Settle, Late,
          Disable, Rewrite, At, Interrupted, Idle, Refused, Lost, Goes, vars
  <1>3. i \in Known /\ i \in Public'
    BY <1>1, <1>2 DEF Grows, Public
  <1>4. \A n \in Names : releases[i].assets[n] # NoAsset
    BY <1>2 DEF Exactly, Uploaded, NoAsset
  <1>5. \A n \in Names : releases'[i].assets[n] = releases[i].assets[n]
    BY <1>1, <1>3, <1>4 DEF Grows
  <1>6. releases[i] \in Releases /\ releases'[i] \in Releases
    BY <1>1, <1>3 DEF Inv, TypeOK, Grows, Releases
  <1>7. releases[i].assets \in [Names -> Assets] /\ releases'[i].assets \in [Names -> Assets]
    BY <1>6 DEF Releases
  <1>8. releases'[i].assets = releases[i].assets
    BY <1>5, <1>7
  <1> QED BY <1>2, <1>3, <1>8

LEMMA InvStep == ASSUME ReleaseAssumption, Inv, [Next]_vars PROVE Inv'
  <1>1. Grows /\ LocalTypes' /\ LateInv' /\ PublicInv'
    BY StepGrows, LocalStep, LateStep, PublicStep DEF Inv
  <1>2. setting' \in BOOLEAN /\ disk' \in [Names -> Contents] /\ faults' \in 0..MaxFaults
    BY StepTypes
  <1>3. TypeOK'
    <2>1. disabled' \in BOOLEAN
      BY DisabledStays DEF Inv
    <2> QED BY <1>1, <1>2, <2>1 DEF TypeOK, Grows, LocalTypes, RunInv, Runs, Placed, Releases
  <1>4. AttemptInv'
    BY <1>1 DEF LocalTypes, AttemptInv
  <1>5. SettingInv'
    BY EnsuredStep, ImmutableStep DEF SettingInv, Before
  <1>6. ProvedIsSigned'
    BY <1>5, ProvedStep
  <1> QED BY <1>1, <1>3, <1>4, <1>5, <1>6 DEF Inv, LocalTypes

(* Every state of a publication satisfies the invariant. *)
THEOREM Invariance == ASSUME ReleaseAssumption PROVE Spec => []Inv
  <1> QED BY InitInv, InvStep, PTL DEF Spec

(* The variables have their types, for any number of drafts and attempts. *)
THEOREM TypeCorrect == ASSUME ReleaseAssumption PROVE Spec => []TypeOK
  <1>1. Inv => TypeOK
    BY DEF Inv
  <1> QED BY <1>1, Invariance, PTL

(* A release that verify_source accepted, after the attempt's own upload   *)
(* or in the probe of a later cycle, is public and what the manifest       *)
(* signs, whichever files were rewritten and requests delayed, and whether *)
(* or not GitHub states digests; it is immutable unless an owner turned    *)
(* that setting off (_submit, verify_source,                               *)
(* _enable_and_verify_immutability).                                       *)
THEOREM ProvedCorrect == ASSUME ReleaseAssumption PROVE Spec => []ProvedIsSigned
  <1>1. Inv => ProvedIsSigned
    BY DEF Inv
  <1> QED BY <1>1, Invariance, PTL

-----------------------------------------------------------------------------
(* The tag is written once.  Everything below assumes that GitHub states   *)
(* the digests of the assets.                                              *)

(* A release holds a file set that was prepared as a whole.                *)
Full(i) == \E s \in snapshots : releases[i].assets = Exactly(s)

(* What is public, about to be, or asked to be, is full.                   *)
FullInv == /\ \A i \in Public : Full(i)
           /\ pc = "publish" => Full(run.id)
           /\ \A i \in Known : Publishes(i) \in late => Full(i)

LEMMA FullStays ==
  ASSUME Inv, [Next]_vars, NEW i \in Known, Full(i)
  PROVE  Full(i)' /\ releases'[i].assets = releases[i].assets
  <1>1. PICK s \in snapshots : releases[i].assets = Exactly(s)
    BY DEF Full
  <1>2. Grows /\ i \in Known' /\ snapshots \subseteq snapshots'
    <2>1. snapshots \subseteq snapshots'
      BY DEF Next, Publisher, Probe, Prepare, Immutability, Lookup, Listing, Create,
          Draft, Upload, Uploading, CheckComplete, PublishDraft, Final, VerifySource, Settle,
          Late, Disable, Rewrite, At, vars
    <2> QED BY <2>1, StepGrows DEF Inv, Grows
  <1>3. \A n \in Names : releases[i].assets[n] = Uploaded(s[n]) /\ Uploaded(s[n]) # NoAsset
    BY <1>1 DEF Exactly, Uploaded, NoAsset
  <1>4. \A n \in Names : releases'[i].assets[n] = releases[i].assets[n]
    BY <1>2, <1>3 DEF Grows
  <1>5. releases[i] \in Releases /\ releases'[i] \in Releases
    BY <1>2 DEF Inv, TypeOK, Grows, Releases
  <1>6. releases[i].assets \in [Names -> Assets] /\ releases'[i].assets \in [Names -> Assets]
    BY <1>5 DEF Releases
  <1>7. releases'[i].assets = releases[i].assets
    BY <1>4, <1>6
  <1>8. Exactly(s)' = Exactly(s)
    BY DEF Exactly, Uploaded
  <1> QED BY <1>1, <1>2, <1>7 DEF Full, Exactly, Uploaded

(* A complete draft holds the files of the attempt (_verify_asset_set).    *)
LEMMA CompleteIsFull ==
  ASSUME ReportsDigest, Inv, pc = "complete", Complete(run.id)
  PROVE  Full(run.id)
  <1>1. run.id \in Known /\ run.files \in snapshots /\ run.files \in [Names -> Contents]
    BY DEF Inv, TypeOK, AttemptInv
  <1>2. releases[run.id] \in Releases
    BY <1>1 DEF Inv, TypeOK, Releases
  <1>3. ASSUME NEW n \in Names PROVE releases[run.id].assets[n] = Uploaded(run.files[n])
    <2> DEFINE a == releases[run.id].assets[n]
    <2>1. a \in Assets
      BY <1>2 DEF Releases
    <2>2. a.state = "uploaded" /\ a.content = run.files[n]
      BY DEF Complete, AssetsMatch, Matches, Present
    <2>3. a # NoAsset /\ a # Starter
      BY <2>2 DEF NoAsset, Starter
    <2>4. PICK c \in Contents : a = Uploaded(c)
      BY <2>1, <2>3 DEF Assets
    <2> QED BY <2>2, <2>4 DEF Uploaded
  <1>4. releases[run.id].assets = Exactly(run.files)
    BY <1>2, <1>3 DEF Releases, Exactly
  <1> QED BY <1>1, <1>4 DEF Full

(* Which release becomes public is full.                                   *)
LEMMA PublishedIsFull ==
  ASSUME Inv, FullInv, [Next]_vars, NEW i \in Public', i \notin Public
  PROVE  i \in Known /\ Full(i)
  <1>1. ASSUME NEW j \in Known, releases' = Published(j) PROVE i = j
    BY <1>1, NewPublic DEF Inv
  <1>2. ~(UNCHANGED releases \/ Creation \/ Upload1)
    BY KeptPublic DEF Inv
  <1>3. CASE PublishDraft
    <2>1. run.id \in Known /\ Full(run.id) /\ releases' = Published(run.id)
      BY <1>2, <1>3 DEF PublishDraft, At, Lost, Interrupted, Refused, github, Inv, TypeOK, FullInv
    <2> QED BY <1>1, <2>1
  <1>4. ASSUME NEW q \in late, Late(q) PROVE i \in Known /\ Full(i)
    <2>1. Apply(q) /\ q \in Requests
      BY <1>2, <1>4 DEF Late, Inv, LateInv
    <2>2. ASSUME q = Creates PROVE FALSE
      BY <1>2, <2>1, <2>2 DEF Apply, Creates, Creation
    <2>3. ASSUME NEW j \in Known, NEW n \in Names, NEW c \in Contents, q = Uploads(j, n, c)
          PROVE  FALSE
      <3>1. q.kind = "upload" /\ q.id = j /\ q.name = n /\ q.content = c
        BY <2>3 DEF Uploads
      <3>2. Takes(j, n)
            /\ \E a \in {Uploaded(c), Starter} : releases' = [releases EXCEPT ![j].assets[n] = a]
        BY <2>1, <3>1 DEF Apply
      <3>3. Uploaded(c) \in Assets /\ Starter \in Assets
        BY DEF Assets
      <3> QED BY <1>2, <3>2, <3>3 DEF Upload1
    <2>4. PICK j \in Known : q = Publishes(j)
      BY <2>1, <2>2, <2>3 DEF Requests
    <2>5. releases' = Published(j) /\ Full(j)
      BY <1>4, <2>1, <2>4 DEF Apply, Publishes, FullInv
    <2> QED BY <1>1, <2>4, <2>5
  <1>5. CASE \/ Probe \/ Prepare \/ Immutability \/ Lookup \/ Listing \/ Draft \/ Uploading
             \/ CheckComplete \/ Final \/ VerifySource \/ Disable
             \/ (\E n \in Names : Rewrite(n)) \/ UNCHANGED vars
    BY <1>2, <1>5 DEF Probe, Prepare, Immutability, Lookup, Listing, Draft, Uploading, CheckComplete,
                Final, VerifySource, Disable, Rewrite, Interrupted, Lost, Refused, Goes,
                github, vars
  <1>6. CASE Create
    BY <1>2, <1>6 DEF Create, Creation, Lost, Interrupted, github
  <1>7. ASSUME NEW n \in Names, Upload(n) PROVE FALSE
    <2>1. pc = "upload" /\ run.id \in Known /\ disk[n] \in Contents
      BY <1>7 DEF Upload, Inv, TypeOK
    <2>2. \A c \in Contents : Uploaded(c) \in Assets
      BY DEF Assets
    <2>3. UNCHANGED releases \/ \E c \in Contents :
            Takes(run.id, n) /\ releases' = [releases EXCEPT ![run.id].assets[n] = Uploaded(c)]
      BY <1>7, <2>1 DEF Upload, Refused, Interrupted, Lost, github
    <2> QED BY <1>2, <2>1, <2>2, <2>3 DEF Upload1
  <1> QED BY <1>3, <1>4, <1>5, <1>6, <1>7 DEF Next, Publisher, Settle

(* Only a complete draft is asked to be published.                         *)
LEMMA AskedIsFull ==
  ASSUME Inv, FullInv, [Next]_vars, NEW i \in Known', Publishes(i) \in late'
  PROVE  i \in Known /\ Full(i)
  <1>1. CASE Publishes(i) \in late
    <2>1. Publishes(i).kind = "publish" /\ Publishes(i).id = i /\ Publishes(i) \in Requests
      BY <1>1 DEF Publishes, Inv, LateInv
    <2>2. i \in Known
      <3>1. Publishes(i) # Creates
            /\ \A j \in Known, n \in Names, c \in Contents : Publishes(i) # Uploads(j, n, c)
        BY <2>1 DEF Creates, Uploads
      <3>2. PICK j \in Known : Publishes(i) = Publishes(j)
        BY <2>1, <3>1 DEF Requests
      <3>3. Publishes(j).id = j
        BY DEF Publishes
      <3> QED BY <2>1, <3>2, <3>3
    <2> QED BY <1>1, <2>2 DEF FullInv
  <1>2. CASE Publishes(i) \notin late
    <2>1. Publishes(i).kind = "publish" /\ Publishes(i).id = i
      BY DEF Publishes
    <2>2. CASE PublishDraft
      <3>1. Publishes(i) = Publishes(run.id)
        BY <1>2, <2>2 DEF PublishDraft, Lost, Interrupted, Refused
      <3>2. i = run.id
        BY <2>1, <3>1 DEF Publishes
      <3> QED BY <2>2, <3>2 DEF PublishDraft, At, Inv, TypeOK, FullInv
    <2>3. CASE Create
      <3>1. Publishes(i) # Creates
        BY <2>1 DEF Creates
      <3> QED BY <1>2, <2>3, <3>1 DEF Create, Lost, Interrupted
    <2>4. ASSUME NEW n \in Names, Upload(n) PROVE FALSE
      <3>1. Publishes(i) # Uploads(run.id, n, disk[n])
        BY <2>1 DEF Uploads
      <3> QED BY <1>2, <2>4, <3>1 DEF Upload, Lost, Interrupted, Refused
    <2>5. CASE \/ Probe \/ Prepare \/ Immutability \/ Lookup \/ Listing \/ Draft \/ Uploading
               \/ CheckComplete \/ Final \/ VerifySource \/ Disable \/ Settle
               \/ (\E n \in Names : Rewrite(n)) \/ UNCHANGED vars
      BY <1>2, <2>5 DEF Probe, Prepare, Immutability, Lookup, Listing, Draft, Uploading, CheckComplete,
                  Final, VerifySource, Disable, Rewrite, Settle, Late, Interrupted, Refused,
                  Goes, vars
    <2> QED BY <2>2, <2>3, <2>4, <2>5 DEF Next, Publisher
  <1> QED BY <1>1, <1>2

LEMMA FullStep == ASSUME ReportsDigest, Inv, FullInv, [Next]_vars PROVE FullInv'
  <1>1. \A i \in Public : i \in Known
    BY DEF Public
  <1>2. \A i \in Public' : Full(i)'
    BY <1>1, PublishedIsFull, FullStays DEF FullInv
  <1>3. ASSUME pc' = "publish" PROVE Full(run.id)'
    <2>1. CASE CheckComplete
      <3>1. Complete(run.id) /\ pc = "complete" /\ UNCHANGED run
        BY <1>3, <2>1 DEF CheckComplete, At, Interrupted, Idle, Refused, Goes
      <3>2. Full(run.id) /\ run.id \in Known
        BY <3>1, CompleteIsFull DEF Inv, TypeOK
      <3> QED BY <3>1, <3>2, FullStays DEF Full
    <2>2. CASE pc = "publish" /\ UNCHANGED run
      <3>1. Full(run.id) /\ run.id \in Known
        BY <2>2 DEF FullInv, Inv, TypeOK
      <3> QED BY <2>2, <3>1, FullStays DEF Full
    <2> QED BY <1>3, <2>1, <2>2 DEF Next, Publisher, Probe, Prepare, Immutability, Lookup, Listing,
          Create, Draft, Upload, Uploading, PublishDraft, Final, VerifySource, Settle, Late,
          Disable, Rewrite, At, Interrupted, Idle, Refused, Lost, Goes, vars
  <1>4. ASSUME NEW i \in Known', Publishes(i) \in late' PROVE Full(i)'
    BY <1>4, AskedIsFull, FullStays
  <1> QED BY <1>2, <1>3, <1>4 DEF FullInv, Publishes

LEMMA OnlyPublic == ASSUME NEW i, Public = {i} PROVE PublicAssets = releases[i].assets
  BY DEF PublicAssets

(* What the tag shows is written once, and as a whole.                     *)
LEMMA TagStep ==
  ASSUME Inv, FullInv, [Next]_vars
  PROVE  [Tag!Next]_<<Prepared, PublicAssets>>
  <1>1. Grows
    BY StepGrows DEF Inv
  <1>2. \A i \in Public : Public = {i}
    BY DEF Inv, PublicInv
  <1>3. CASE Prepare
    <2>1. snapshots' = snapshots \cup {disk} /\ UNCHANGED releases /\ disk \in [Names -> Contents]
      BY <1>3 DEF Prepare, github, Inv, TypeOK
    <2>2. Prepared' = Prepared \cup {Exactly(disk)}
      BY <2>1 DEF Prepared, Exactly, Uploaded
    <2>3. PublicAssets' = PublicAssets
      BY <2>1 DEF PublicAssets, Public, Known, Empty
    <2> QED BY <2>1, <2>2, <2>3 DEF Tag!Next, Tag!Prepare
  <1>4. CASE ~Prepare
    <2>1. UNCHANGED snapshots
      BY <1>4 DEF Next, Publisher, Probe, Immutability, Lookup, Listing, Create,
          Draft, Upload, Uploading, CheckComplete, PublishDraft, Final, VerifySource, Settle,
          Late, Disable, Rewrite, At, vars
    <2>2. Prepared' = Prepared
      BY <2>1 DEF Prepared, Exactly, Uploaded
    <2>3. CASE Public' = Public
      <3>1. CASE Public = {}
        BY <2>2, <2>3, <3>1 DEF PublicAssets, Empty
      <3>2. ASSUME NEW i \in Public PROVE PublicAssets' = PublicAssets
        <4>1. Public = {i} /\ Public' = {i} /\ i \in Known /\ Full(i)
          BY <1>2, <2>3, <3>2 DEF Public, FullInv
        <4>2. PublicAssets = releases[i].assets
          BY <4>1, OnlyPublic
        <4>3. PublicAssets' = releases'[i].assets
          BY <4>1 DEF PublicAssets
        <4> QED BY <4>1, <4>2, <4>3, FullStays
      <3> QED BY <2>2, <3>1, <3>2
    <2>4. ASSUME NEW i \in Known, Public = {}, Public' = {i},
                 releases'[i].assets = releases[i].assets
          PROVE  Tag!Publish
      <3>1. Full(i)
        BY <2>4, PublishedIsFull
      <3>2. PublicAssets' = releases'[i].assets
        BY <2>4 DEF PublicAssets
      <3>3. PublicAssets = Empty
        BY <2>4 DEF PublicAssets
      <3> QED BY <2>2, <2>4, <3>1, <3>2, <3>3 DEF Tag!Publish, Full, Prepared
    <2> QED BY <1>1, <2>3, <2>4 DEF Grows, Tag!Next
  <1> QED BY <1>3, <1>4

(* The same, of the prepared sets and of the tag's assets themselves.      *)
LEMMA WrittenOnce ==
  ASSUME Inv, FullInv, [Next]_vars
  PROVE  \/ UNCHANGED <<Prepared, PublicAssets>>
         \/ /\ \E v \in {Exactly(s) : s \in [Names -> Contents]} : Prepared' = Prepared \cup {v}
            /\ UNCHANGED PublicAssets
         \/ /\ PublicAssets = Empty /\ PublicAssets' \in Prepared
            /\ UNCHANGED Prepared
  BY TagStep DEF Tag!Next, Tag!Prepare, Tag!Publish

LEMMA InitFull == ASSUME Init PROVE Prepared = {} /\ PublicAssets = Empty /\ FullInv
  <1>1. Known = {} /\ Public = {} /\ snapshots = {} /\ pc = "idle"
    BY DEF Init, Known, Public
  <1> QED BY <1>1 DEF FullInv, PublicAssets, Prepared

(* The tag goes from nothing to one file set that was prepared as a whole, *)
(* and stays there, however many attempts were cut, drafts left over and   *)
(* requests delayed, where GitHub states the digests of assets (publish,   *)
(* _verify_asset_set).                                                     *)
THEOREM PublishedAtOnceCorrect ==
  ASSUME ReleaseAssumption, ReportsDigest PROVE Spec => PublishedAtOnce
  <1>1. Init => Tag!Init /\ FullInv
    BY InitFull DEF Tag!Init
  <1>2. Inv /\ FullInv /\ [Next]_vars => FullInv'
    BY FullStep
  <1> QED BY <1>1, <1>2, TagStep, Invariance, PTL DEF Spec, PublishedAtOnce, Tag!Spec
=============================================================================
