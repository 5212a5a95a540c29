----------------------- MODULE UpstreamObserver_proofs -----------------------
(***************************************************************************)
(* Proofs of the safety of UpstreamObserver, for every set of commits,     *)
(* every history, and any number of faults.                                *)
(***************************************************************************)
EXTENDS UpstreamObserver, TLAPS

Stores == [view : Files, durable : Files]

-----------------------------------------------------------------------------
(* What a step does to the status document.                                *)

(* A write of x, however it ends. *)
LEMMA WriteStep ==
  ASSUME store \in Stores, NEW x \in Document, NEW next, NEW onError,
         Write(x, next, onError)
  PROVE  /\ store' \in Stores
         /\ store'.view.status \in {status, x}
         /\ store'.durable.status \in {store.durable.status, store'.view.status}
         /\ faults' \in {faults, faults + 1}
         /\ \/ pc' = next /\ store'.view.status = x /\ store'.durable.status = x
            \/ pc' = onError
  <1>1. ASSUME NEW o, store' = Directory!Replace(store, "status", x, o)
        PROVE  /\ store' \in Stores
               /\ store'.view.status \in {status, x}
               /\ store'.durable.status \in {store.durable.status, store'.view.status}
               /\ o = "done" => store'.view.status = x /\ store'.durable.status = x
    BY <1>1 DEF Directory!Replace, Stores, Files, status
  <1>2. CASE /\ store' = Directory!Replace(store, "status", x, "done")
             /\ pc' = next
             /\ UNCHANGED faults
    BY <1>1, <1>2
  <1>3. CASE /\ Fault
             /\ \E o \in Directory!Outcomes :
                  store' = Directory!Replace(store, "status", x, o)
             /\ pc' = onError
    BY <1>1, <1>3 DEF Fault
  <1> QED BY <1>2, <1>3 DEF Write

LEMMA Ages ==
  ASSUME NEW a \in 0 .. Stale
  PROVE  OneOlder(a) \in 0 .. Stale /\ (OneOlder(a) <= MaxAge => OneOlder(a) = a + 1)
  BY ObserverAssumption DEF OneOlder, Stale

(* The clock changes only ages. *)
LEMMA OlderDocument ==
  ASSUME NEW files \in Files
  PROVE  LET old == files.status
             new == Older(files).status
         IN /\ Older(files) \in Files
            /\ new.ok = old.ok /\ new.head = old.head /\ new.latched = old.latched
            /\ new.age = OneOlder(old.age)
  BY Ages DEF Files, Document, Older

LEMMA Documents ==
  ASSUME NEW head \in Commits \cup {NoCommit}, NEW b \in BOOLEAN
  PROVE  /\ Observed(head, b) \in Document /\ LatchDocument(head) \in Document
         /\ CheckError(b) \in Document /\ NoDocument \in Document
         /\ Observed(head, b).latched = b /\ LatchDocument(head).latched
         /\ CheckError(b).latched = b
         /\ ~LatchDocument(head).ok /\ ~CheckError(b).ok /\ ~NoDocument.ok
         /\ Observed(head, b).ok => head = Audited
         /\ Observed(head, b).age = 0
  <1>1. 0 \in 0 .. Stale /\ Stale \in 0 .. Stale
    BY ObserverAssumption DEF Stale
  <1>2. (head = Audited /\ ~b) \in BOOLEAN
    OBVIOUS
  <1>3. Observed(head, b) \in Document
    BY <1>1, <1>2 DEF Document, Observed
  <1>4. /\ LatchDocument(head) \in Document /\ CheckError(b) \in Document
        /\ NoDocument \in Document
    BY <1>1 DEF Document, LatchDocument, CheckError, NoDocument
  <1> QED BY <1>3, <1>4 DEF Observed, LatchDocument, CheckError, NoDocument

(* The document a step of a poll writes. *)
Payload == Observed(poll.advertised, poll.keptByObserve \/ poll.detected)
Latched == LatchDocument(poll.advertised)
Failed == CheckError(poll.keptByPoll \/ poll.detected)

LEMMA PollDocuments ==
  ASSUME TypeOK
  PROVE  /\ store \in Stores
         /\ Payload \in Document /\ Latched \in Document /\ Failed \in Document
         /\ Payload.latched = (poll.keptByObserve \/ poll.detected)
         /\ Failed.latched = (poll.keptByPoll \/ poll.detected)
         /\ Latched.latched /\ ~Latched.ok /\ ~Failed.ok
         /\ Payload.ok => poll.advertised = Audited
         /\ Payload.age = 0
  <1>1. /\ poll.advertised \in Commits \cup {NoCommit}
        /\ (poll.keptByObserve \/ poll.detected) \in BOOLEAN
        /\ (poll.keptByPoll \/ poll.detected) \in BOOLEAN
    BY DEF TypeOK, Poll
  <1> QED BY <1>1, Documents DEF TypeOK, Stores, Payload, Latched, Failed

-----------------------------------------------------------------------------
(* Types.                                                                  *)

LEMMA TypeStep == TypeOK /\ [Next]_vars => TypeOK'
  <1> SUFFICES ASSUME TypeOK, [Next]_vars PROVE TypeOK'
    OBVIOUS
  <1> USE DEF Polling, Listed, outside
  <1>d. /\ store \in Stores
        /\ Payload \in Document /\ Latched \in Document /\ Failed \in Document
    BY PollDocuments
  <1>g. ASSUME GitFails, pc \in Polling PROVE TypeOK'
    BY <1>g DEF GitFails, Fault, TypeOK
  <1>1. CASE BeginPoll
    <2>1. PICK a \in {status.latched, FALSE}, b \in {status.latched, FALSE} :
            poll' = [NoPoll EXCEPT !.keptByPoll = a, !.keptByObserve = b]
      BY <1>1 DEF BeginPoll
    <2>2. a \in BOOLEAN /\ b \in BOOLEAN
      BY <1>d DEF Stores, Files, Document, status
    <2>3. poll' \in Poll
      BY <2>1, <2>2 DEF NoPoll, Poll
    <2>4. faults' \in {faults, faults + 1}
      BY <1>1 DEF BeginPoll, Fault
    <2> QED BY <1>1, <2>3, <2>4 DEF BeginPoll, TypeOK
  <1>2. CASE List
    <2>1. 0 \in 0 .. MaxPoll
      BY ObserverAssumption
    <2> QED BY <1>2, <2>1, <1>g DEF List, TypeOK, Poll
  <1>3. CASE Fetch
    BY <1>3, <1>g DEF Fetch, TypeOK, Poll
  <1>4. CASE Latch
    <2>1. Write(Latched, "update", "error")
      BY <1>4 DEF Latch, Latched
    <2>2. /\ store' \in Stores /\ faults' \in {faults, faults + 1}
          /\ pc' \in {"update", "error"}
      BY <1>d, <2>1, WriteStep
    <2> QED BY <1>4, <2>2 DEF Latch, TypeOK, Stores
  <1>5. CASE Update
    BY <1>5, <1>g DEF Update, TypeOK, Poll, Fault
  <1>6. CASE Confirm
    <2>1. CASE Write(Payload, "idle", "error") /\ UNCHANGED <<outside, poll, elapsed>>
      <3>1. /\ store' \in Stores /\ faults' \in {faults, faults + 1}
            /\ pc' \in {"idle", "error"}
        BY <1>d, <2>1, WriteStep
      <3> QED BY <2>1, <3>1 DEF TypeOK, Stores
    <2> QED BY <1>6, <1>g, <2>1 DEF Confirm, Payload
  <1>7. CASE Error
    <2>1. Write(Failed, "idle", "down")
      BY <1>7 DEF Error, Failed
    <2>2. /\ store' \in Stores /\ faults' \in {faults, faults + 1}
          /\ pc' \in {"idle", "down"}
      BY <1>d, <2>1, WriteStep
    <2> QED BY <1>7, <2>2 DEF Error, TypeOK, Stores
  <1>8. CASE Restart \/ Crash
    BY <1>8 DEF Restart, Crash, Fault, TypeOK
  <1>9. CASE PowerLoss
    BY <1>9 DEF PowerLoss, Fault, TypeOK
  <1>10. CASE Archive
    <2>1. NoDocument \in Document
      BY Documents
    <2> QED BY <1>10, <2>1 DEF Archive, TypeOK, Files
  <1>11. CASE Push
    BY <1>11, ObserverAssumption DEF Push, TypeOK
  <1>12. CASE Tick
    <2>1. store' \in Stores
      BY <1>12, <1>d, OlderDocument DEF Tick, Stores
    <2>2. elapsed' \in 0 .. MaxPoll
      BY <1>12, ObserverAssumption DEF Tick, TypeOK
    <2>3. since' \in 0 .. MaxAge + MaxPoll + 1
      BY <1>12, ObserverAssumption DEF Tick, TypeOK
    <2> QED BY <1>12, <2>1, <2>2, <2>3 DEF Tick, TypeOK, Stores
  <1>13. CASE UNCHANGED vars
    BY <1>13 DEF vars, TypeOK
  <1> QED BY <1>1, <1>2, <1>3, <1>4, <1>5, <1>6, <1>7, <1>8, <1>9, <1>10, <1>11,
             <1>12, <1>13 DEF Next, PollStep

LEMMA TypeInit == Init => TypeOK
  <1>1. [status |-> NoDocument] \in Files
    BY Documents DEF Files
  <1>2. NoPoll \in Poll
    BY DEF NoPoll, Poll
  <1>3. 0 \in 0 .. MaxPoll /\ 0 \in 0 .. MaxAge + MaxPoll + 1
    BY ObserverAssumption
  <1>4. Audited \in Commits /\ MaxPoll \in Nat
    BY ObserverAssumption
  <1> SUFFICES ASSUME Init PROVE TypeOK
    OBVIOUS
  <1>5. store \in [view : Files, durable : Files]
    BY <1>1 DEF Init
  <1>6. pc \in Polling \cup {"idle", "down"} /\ pc \notin Listed
    BY DEF Init, Listed
  <1>7. /\ main \in Commits /\ ref \in Commits \cup {NoCommit}
        /\ elapsed \in 0 .. MaxPoll /\ since \in 0 .. MaxAge + MaxPoll + 1
        /\ faults \in Int
    BY <1>3, <1>4 DEF Init
  <1>8. unreviewed \in BOOLEAN /\ poll \in Poll
    BY <1>2 DEF Init
  <1> QED BY <1>5, <1>6, <1>7, <1>8 DEF TypeOK

(* The variables have their types in every state of the observer. *)
THEOREM TypeCorrect == Spec => []TypeOK
  BY TypeInit, TypeStep, PTL DEF Spec

-----------------------------------------------------------------------------
(* The rewrite latch.                                                      *)

LEMMA RewriteStep ==
  ASSUME ReadFaults = FALSE, TypeOK, RewriteInv, [Next]_vars
  PROVE  RewriteInv'
  <1> USE DEF Polling, outside
  <1>d. /\ store \in Stores
        /\ Payload \in Document /\ Latched \in Document /\ Failed \in Document
        /\ Payload.latched = (poll.keptByObserve \/ poll.detected)
        /\ Failed.latched = (poll.keptByPoll \/ poll.detected)
        /\ Latched.latched
    BY PollDocuments
  <1>g. ASSUME GitFails, pc \in Polling PROVE RewriteInv'
    BY <1>g DEF GitFails, RewriteInv, RewriteIsRemembered
  <1>1. CASE BeginPoll
    <2>1. /\ poll' = [NoPoll EXCEPT !.keptByPoll = status.latched,
                                    !.keptByObserve = status.latched]
          /\ UNCHANGED <<store, unreviewed>> /\ pc' = "list"
      BY <1>1 DEF BeginPoll
    <2>2. /\ poll'.keptByPoll = status.latched /\ poll'.keptByObserve = status.latched
          /\ ~poll'.detected
      BY <2>1 DEF NoPoll
    <2> QED BY <2>1, <2>2 DEF RewriteInv, RewriteIsRemembered, status
  <1>2. CASE List
    <2>1. poll'.keptByPoll = poll.keptByPoll /\ poll'.keptByObserve = poll.keptByObserve
          /\ poll'.detected = poll.detected
      BY <1>2 DEF List, GitFails, TypeOK, Poll
    <2> QED BY <1>2, <2>1, <1>g DEF List, RewriteInv, RewriteIsRemembered
  <1>3. CASE Fetch
    <2>1. CASE pc' = "error" /\ UNCHANGED <<store, poll, unreviewed>> /\ pc = "fetch"
      BY <2>1 DEF RewriteInv, RewriteIsRemembered
    <2>2. CASE LET rewrite == ~FastForward(poll.cached, poll.advertised)
               IN /\ poll' = [poll EXCEPT !.detected = rewrite]
                  /\ pc' = IF rewrite THEN "latch" ELSE "update"
                  /\ UNCHANGED <<outside, store>>
      <3>1. /\ poll'.keptByPoll = poll.keptByPoll
            /\ poll'.keptByObserve = poll.keptByObserve
            /\ poll'.detected = (pc' = "latch")
            /\ pc' \in {"latch", "update"}
        BY <2>2 DEF TypeOK, Poll
      <3>2. ~poll.detected
        BY <1>3 DEF Fetch, RewriteInv
      <3> QED BY <1>3, <2>2, <3>1, <3>2 DEF Fetch, RewriteInv, RewriteIsRemembered
    <2> QED BY <1>3, <2>1, <2>2 DEF Fetch, GitFails
  <1>4. CASE Latch
    <2>1. Write(Latched, "update", "error") /\ pc = "latch"
      BY <1>4 DEF Latch, Latched
    <2>2. /\ store'.view.status \in {status, Latched}
          /\ store'.durable.status \in {store.durable.status, store'.view.status}
          /\ \/ /\ pc' = "update"
                /\ store'.view.status = Latched /\ store'.durable.status = Latched
             \/ pc' = "error"
      BY <1>d, <2>1, WriteStep
    <2> QED BY <1>4, <1>d, <2>1, <2>2 DEF Latch, RewriteInv, RewriteIsRemembered, status
  <1>5. CASE Update
    BY <1>5, <1>g DEF Update, RewriteInv, RewriteIsRemembered
  <1>6. CASE Confirm
    <2>1. CASE Write(Payload, "idle", "error") /\ UNCHANGED <<outside, poll, elapsed>>
      <3>1. /\ store'.view.status \in {status, Payload}
            /\ store'.durable.status \in {store.durable.status, store'.view.status}
            /\ pc' \in {"idle", "error"}
        BY <1>d, <2>1, WriteStep
      <3> QED BY <1>6, <1>d, <2>1, <3>1 DEF Confirm, RewriteInv, RewriteIsRemembered, status
    <2> QED BY <1>6, <1>g, <2>1 DEF Confirm, Payload
  <1>7. CASE Error
    <2>1. Write(Failed, "idle", "down") /\ pc = "error"
      BY <1>7 DEF Error, Failed
    <2>2. /\ store'.view.status \in {status, Failed}
          /\ store'.durable.status \in {store.durable.status, store'.view.status}
          /\ pc' \in {"idle", "down"}
      BY <1>d, <2>1, WriteStep
    <2> QED BY <1>7, <1>d, <2>1, <2>2 DEF Error, RewriteInv, RewriteIsRemembered, status
  <1>8. CASE Restart \/ Crash \/ Push \/ UNCHANGED vars
    BY <1>8 DEF Restart, Crash, Push, vars, RewriteInv, RewriteIsRemembered
  <1>9. CASE PowerLoss
    BY <1>9 DEF PowerLoss, RewriteInv, RewriteIsRemembered
  <1>10. CASE Archive
    BY <1>10 DEF Archive, RewriteInv, RewriteIsRemembered
  <1>12. CASE Tick
    <2>1. /\ store'.view.status.latched = store.view.status.latched
          /\ store'.durable.status.latched = store.durable.status.latched
      BY <1>12, <1>d, OlderDocument DEF Tick, Stores
    <2> QED BY <1>12, <2>1 DEF Tick, RewriteInv, RewriteIsRemembered
  <1> QED BY <1>1, <1>2, <1>3, <1>4, <1>5, <1>6, <1>7, <1>8, <1>9, <1>10, <1>12
          DEF Next, PollStep

LEMMA RewriteInit == Init => RewriteInv
  BY DEF Init, RewriteInv, RewriteIsRemembered, Polling

(* When the prior status can be read, a rewrite of upstream history that   *)
(* has been taken over is on record until the operator archives it,        *)
(* whatever is killed, fails or loses power in between (observe,           *)
(* upstream_observer.py:294-341; poll_once, 443-460).                      *)
THEOREM RewriteRemembered == ReadFaults = FALSE /\ Spec => []RewriteIsRemembered
  <1> SUFFICES ASSUME ReadFaults = FALSE PROVE Spec => []RewriteIsRemembered
    OBVIOUS
  <1>1. Init => TypeOK /\ RewriteInv
    BY TypeInit, RewriteInit
  <1>2. TypeOK /\ RewriteInv /\ [Next]_vars => (TypeOK /\ RewriteInv)'
    BY TypeStep, RewriteStep
  <1>3. RewriteInv => RewriteIsRemembered
    BY DEF RewriteInv
  <1> QED BY <1>1, <1>2, <1>3, PTL DEF Spec

-----------------------------------------------------------------------------
(* How old an admission can be.                                            *)

RecentDocument(doc) == doc.ok /\ Fresh(doc) => since <= MaxPoll + doc.age

LEMMA RecencyStep == TypeOK /\ RecencyInv /\ [Next]_vars => RecencyInv'
  <1> SUFFICES ASSUME TypeOK, RecencyInv, [Next]_vars PROVE RecencyInv'
    OBVIOUS
  <1> USE DEF Polling, Listed, outside
  <1>d. /\ store \in Stores
        /\ Payload \in Document /\ Latched \in Document /\ Failed \in Document
        /\ ~Latched.ok /\ ~Failed.ok
        /\ Payload.ok => poll.advertised = Audited
        /\ Payload.age = 0
    BY PollDocuments
  <1>t. /\ since \in Nat /\ elapsed \in 0 .. MaxPoll /\ elapsed \in Nat
        /\ MaxPoll \in Nat /\ MaxAge \in Nat
    BY ObserverAssumption DEF TypeOK
  <1>r. /\ RecentDocument(status) /\ RecentDocument(store.durable.status)
        /\ RecentDocument(Latched) /\ RecentDocument(Failed)
    BY <1>d DEF RecencyInv, RecentDocument, status
  <1>w. ASSUME NEW x \in Document, RecentDocument(x), NEW next, NEW onError,
               Write(x, next, onError), UNCHANGED <<outside, poll, elapsed>>,
               next \in Listed \/ onError \in Listed => pc \in Listed
        PROVE  RecencyInv'
    <2>1. /\ store'.view.status \in {status, x}
          /\ store'.durable.status \in {store.durable.status, store'.view.status}
          /\ pc' \in {next, onError}
      BY <1>d, <1>w, WriteStep
    <2>2. RecentDocument(store'.view.status) /\ RecentDocument(store'.durable.status)
      BY <1>r, <1>w, <2>1
    <2> QED BY <1>w, <2>1, <2>2 DEF RecencyInv, RecentDocument, Fresh
  <1>1. CASE BeginPoll
    BY <1>1 DEF BeginPoll, RecencyInv, Fresh
  <1>2. CASE List
    <2>1. CASE GitFails
      BY <2>1 DEF GitFails, RecencyInv, Fresh
    <2>2. CASE /\ poll' = [poll EXCEPT !.cached = ref, !.advertised = main]
               /\ elapsed' = 0
               /\ UNCHANGED <<outside, store, faults>>
      <3>1. poll'.advertised = main
        BY <2>2 DEF TypeOK, Poll
      <3> QED BY <2>2, <3>1 DEF RecencyInv, Fresh
    <2> QED BY <1>2, <2>1, <2>2 DEF List
  <1>3. CASE Fetch
    <2>1. poll'.advertised = poll.advertised
      BY <1>3 DEF Fetch, GitFails, TypeOK, Poll
    <2> QED BY <1>3, <2>1 DEF Fetch, GitFails, RecencyInv, Fresh
  <1>4. CASE Latch
    BY <1>4, <1>d, <1>r, <1>w DEF Latch, Latched
  <1>5. CASE Update
    BY <1>5 DEF Update, GitFails, RecencyInv, Fresh
  <1>6. CASE Confirm
    <2>1. CASE GitFails
      BY <2>1 DEF GitFails, RecencyInv, Fresh
    <2>2. CASE Write(Payload, "idle", "error") /\ UNCHANGED <<outside, poll, elapsed>>
      <3>1. RecentDocument(Payload)
        BY <1>6, <1>d, <1>t DEF Confirm, RecencyInv, RecentDocument
      <3> QED BY <1>d, <1>w, <2>2, <3>1
    <2> QED BY <1>6, <2>1, <2>2 DEF Confirm, Payload
  <1>7. CASE Error
    BY <1>7, <1>d, <1>r, <1>w DEF Error, Failed
  <1>8. CASE Restart \/ Crash \/ UNCHANGED vars
    BY <1>8 DEF Restart, Crash, vars, RecencyInv, Fresh
  <1>9. CASE PowerLoss
    BY <1>9 DEF PowerLoss, RecencyInv, Fresh
  <1>10. CASE Archive
    <2>1. ~NoDocument.ok
      BY DEF NoDocument
    <2> QED BY <1>10, <2>1 DEF Archive, RecencyInv, Fresh
  <1>11. CASE Push
    <2>1. since' = since \/ since' = 0
      BY <1>11 DEF Push
    <2>2. /\ store.view.status.age \in Nat /\ store.durable.status.age \in Nat
      BY <1>d, <1>t DEF Stores, Files, Document, Stale
    <2> QED BY <1>11, <1>t, <2>1, <2>2 DEF Push, RecencyInv, Fresh
  <1>12. CASE Tick
    <2>1. since' \in {since, since + 1} /\ (main = Audited => since' = since)
      BY <1>12 DEF Tick
    <2>2. ASSUME NEW files \in Files, RecentDocument(files.status)
          PROVE  Older(files).status.ok /\ Older(files).status.age <= MaxAge
                   => since' <= MaxPoll + Older(files).status.age
      <3> DEFINE new == Older(files).status
      <3>1. /\ new.ok = files.status.ok /\ new.age = OneOlder(files.status.age)
            /\ files.status.age \in 0 .. Stale
        BY <2>2, OlderDocument DEF Files, Document
      <3>2. new.age <= MaxAge => new.age = files.status.age + 1
        BY <3>1, Ages
      <3>3. files.status.age \in Nat
        BY <3>1, <1>t DEF Stale
      <3> HIDE DEF new
      <3>4. new.ok /\ new.age <= MaxAge => since' <= MaxPoll + new.age
        BY <1>t, <2>1, <2>2, <3>1, <3>2, <3>3 DEF RecentDocument, Fresh
      <3> QED BY <3>4 DEF new
    <2>3. \A old \in {store.view, store.durable} :
            Older(old).status.ok /\ Older(old).status.age <= MaxAge
              => since' <= MaxPoll + Older(old).status.age
      BY <1>d, <1>r, <2>2 DEF Stores, status
    <2>4. pc \in Listed /\ poll.advertised = Audited => since' <= elapsed'
      BY <1>12, <1>t, <2>1 DEF Tick, RecencyInv
    <2> QED BY <1>12, <2>1, <2>3, <2>4 DEF Tick, RecencyInv, Fresh
  <1> QED BY <1>1, <1>2, <1>3, <1>4, <1>5, <1>6, <1>7, <1>8, <1>9, <1>10, <1>11,
             <1>12 DEF Next, PollStep

LEMMA RecencyInit == Init => RecencyInv
  BY DEF Init, RecencyInv, NoDocument, Listed

(* No document of the state directory, the durable one included, admits a  *)
(* write when the public branch left the audited commit longer ago than    *)
(* the maximum age and the timeouts of one poll (upstream_gate.py:141-228; *)
(* upstream_observer.py:265-422).                                          *)
THEOREM AdmissionRecent == Spec => []AdmittedIsRecent
  <1>1. Init => TypeOK /\ RecencyInv
    BY TypeInit, RecencyInit
  <1>2. TypeOK /\ RecencyInv /\ [Next]_vars => (TypeOK /\ RecencyInv)'
    BY TypeStep, RecencyStep
  <1>3. TypeOK /\ RecencyInv => AdmittedIsRecent
    BY ObserverAssumption DEF TypeOK, Files, Document, Stale, RecencyInv,
       AdmittedIsRecent, GateOpen, Fresh
  <1> QED BY <1>1, <1>2, <1>3, PTL DEF Spec
=============================================================================
