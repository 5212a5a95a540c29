-------------------------- MODULE UpstreamObserver --------------------------
(***************************************************************************)
(* The upstream observer (upstream_observer.py) over its own state         *)
(* directory and the tracking ref origin/main of its checkout, and the     *)
(* gate (upstream_gate.py) that admits a chain write only on its document. *)
(*                                                                         *)
(* Time is an age: every document gets older with the clock, up to the     *)
(* first age the gate refuses.  A fault is a git command, a file operation *)
(* or a host that fails; MaxFaults bounds them.                            *)
(***************************************************************************)
EXTENDS Integers

CONSTANTS Commits,     \* commits the public main branch may point to
          Ancestors,   \* pairs <<a, c>>: a is c or an ancestor of it
          Audited,     \* AUDITED_UPSTREAM_HEAD
          NoCommit,    \* no commit listed, or no origin/main yet
          MaxAge,      \* oldest document the gate admits
          MaxPoll,     \* the timeouts of the git commands after ls-remote
          ReadFaults,  \* a read of the prior status may fail
          MaxFaults    \* bound on faults

ASSUME ObserverAssumption ==
  /\ Audited \in Commits /\ NoCommit \notin Commits
  /\ MaxAge \in Nat /\ MaxPoll \in Nat /\ MaxFaults \in Int
  /\ ReadFaults \in BOOLEAN

(* The state directory is the one of the controller. *)
Directory == INSTANCE StateStore WITH NoMarker <- NoCommit

VARIABLES main,        \* where the public main branch points
          ref,         \* refs/remotes/origin/main of the checkout
          store,       \* status.json, as read and as a power loss leaves it
          pc,          \* what the observer does next
          poll,        \* what the current poll has read
          elapsed,     \* time since its ls-remote
          since,       \* history: time since main was the audited commit
          unreviewed,  \* history: origin/main was rewritten and no operator
                       \* has archived the status since
          faults

outside == <<main, ref, since, unreviewed>>
vars == <<main, ref, store, pc, poll, elapsed, since, unreviewed, faults>>

status == store.view.status

Polling == {"list", "fetch", "latch", "update", "confirm", "error"}
(* Steps of a poll after its ls-remote. *)
Listed == {"fetch", "latch", "update", "confirm"}

Stale == MaxAge + 1
OneOlder(age) == IF age < Stale THEN age + 1 ELSE age

-----------------------------------------------------------------------------
(* Documents, of the fields the gate and the next poll decide on. *)

NoDocument == [ok |-> FALSE, head |-> NoCommit, latched |-> FALSE, age |-> Stale]

(* The payload of a completed observation. *)
Observed(head, latched) ==
  [ok |-> head = Audited /\ ~latched, head |-> head, latched |-> latched, age |-> 0]
(* The latch that is written before origin/main moves. *)
LatchDocument(head) == [ok |-> FALSE, head |-> head, latched |-> TRUE, age |-> 0]
(* check_error: no verdict of an earlier poll is kept, but the latch is. *)
CheckError(latched) ==
  [ok |-> FALSE, head |-> NoCommit, latched |-> latched, age |-> 0]

(* Mutant: any current document is good enough. *)
AnyAge(doc) == TRUE

(* _require_fresh_timestamp. *)
Fresh(doc) == doc.age <= MaxAge

(* verify_upstream_observer_status. *)
GateOpen(doc) == doc.ok /\ doc.head = Audited /\ ~doc.latched /\ Fresh(doc)

-----------------------------------------------------------------------------
(* One poll. *)

NoPoll == [keptByPoll |-> FALSE, keptByObserve |-> FALSE, detected |-> FALSE,
           cached |-> NoCommit, advertised |-> NoCommit]

Fault == faults < MaxFaults /\ faults' = faults + 1

(* A git command fails, times out or prints something malformed. *)
GitFails == /\ Fault
            /\ pc' = "error"
            /\ UNCHANGED <<outside, store, poll, elapsed>>

(* StateStore.write; a failure may come after the status was replaced. *)
Write(doc, next, onError) ==
  \/ /\ store' = Directory!Replace(store, "status", doc, "done")
     /\ pc' = next
     /\ UNCHANGED faults
  \/ /\ Fault
     /\ \E o \in Directory!Outcomes :
          store' = Directory!Replace(store, "status", doc, o)
     /\ pc' = onError

(* poll_once and observe read the prior status one after the other; a      *)
(* status that cannot be read counts as empty.                             *)
BeginPoll ==
  /\ pc = "idle"
  /\ \E a, b \in {status.latched, FALSE} :
       /\ poll' = [NoPoll EXCEPT !.keptByPoll = a, !.keptByObserve = b]
       /\ IF a = status.latched /\ b = status.latched
            THEN UNCHANGED faults
            ELSE ReadFaults /\ Fault
  /\ pc' = "list"
  /\ UNCHANGED <<outside, store, elapsed>>

(* Mutant: the cached origin/main is believed instead of asking. *)
ListCached ==
  /\ pc = "list"
  /\ \/ GitFails
     \/ /\ poll' = [poll EXCEPT !.cached = ref, !.advertised = ref]
        /\ elapsed' = 0
        /\ pc' = "confirm"
        /\ UNCHANGED <<outside, store, faults>>

(* The cached origin/main, then ls-remote. *)
List ==
  /\ pc = "list"
  /\ \/ GitFails
     \/ /\ poll' = [poll EXCEPT !.cached = ref, !.advertised = main]
        /\ elapsed' = 0
        /\ pc' = IF ref = main THEN "confirm" ELSE "fetch"
        /\ UNCHANGED <<outside, store, faults>>

(* merge-base --is-ancestor, asked only when there was an origin/main. *)
FastForward(old, new) == old = NoCommit \/ <<old, new>> \in Ancestors

(* Mutant: the rewrite is recorded only by the payload of the poll. *)
FetchUnlatched ==
  /\ pc = "fetch"
  /\ \/ GitFails
     \/ /\ poll' = [poll EXCEPT !.detected = ~FastForward(poll.cached, poll.advertised)]
        /\ pc' = IF main = poll.advertised THEN "update" ELSE "error"
        /\ UNCHANGED <<outside, store, elapsed, faults>>

(* The candidate is fetched into a ref of its own and must be the commit   *)
(* that was advertised; main may have moved since.                         *)
Fetch ==
  /\ pc = "fetch"
  /\ \/ GitFails
     \/ /\ main # poll.advertised
        /\ pc' = "error"
        /\ UNCHANGED <<outside, store, poll, elapsed, faults>>
     \/ /\ main = poll.advertised
        /\ LET rewrite == ~FastForward(poll.cached, poll.advertised)
           IN /\ poll' = [poll EXCEPT !.detected = rewrite]
              /\ pc' = IF rewrite THEN "latch" ELSE "update"
        /\ UNCHANGED <<outside, store, elapsed, faults>>

Latch == /\ pc = "latch"
         /\ Write(LatchDocument(poll.advertised), "update", "error")
         /\ UNCHANGED <<outside, poll, elapsed>>

(* update-ref; it may have moved the ref and be reported as failed. *)
Update ==
  /\ pc = "update"
  /\ \/ GitFails
     \/ /\ ref' = poll.advertised
        /\ unreviewed' = (unreviewed \/ poll.detected)
        /\ \/ pc' = "confirm" /\ UNCHANGED faults
           \/ pc' = "error" /\ Fault
        /\ UNCHANGED <<main, store, poll, elapsed, since>>

(* The constants and the difference to the audited commit, and the payload. *)
Confirm ==
  /\ pc = "confirm"
  /\ \/ GitFails
     \/ /\ Write(Observed(poll.advertised, poll.keptByObserve \/ poll.detected),
                 "idle", "error")
        /\ UNCHANGED <<outside, poll, elapsed>>

(* The handler of poll_once; when even this write fails the process ends. *)
Error == /\ pc = "error"
         /\ Write(CheckError(poll.keptByPoll \/ poll.detected), "idle", "down")
         /\ UNCHANGED <<outside, poll, elapsed>>

-----------------------------------------------------------------------------
(* The world around it. *)

(* Supervisor starts it at boot and restarts it whenever it ends. *)
Restart == /\ pc = "down"
           /\ pc' = "idle"
           /\ UNCHANGED <<outside, store, poll, elapsed, faults>>

Crash == /\ pc # "down"
         /\ Fault
         /\ pc' = "down"
         /\ UNCHANGED <<outside, store, poll, elapsed>>

PowerLoss == /\ Fault
             /\ \E v \in {store.view, store.durable} :
                  store' = [view |-> v, durable |-> v]
             /\ pc' = "down"
             /\ UNCHANGED <<outside, poll, elapsed>>

(* An operator who has reviewed a rewrite archives the status between two  *)
(* polls.                                                                  *)
Archive == /\ pc \in {"idle", "down"}
           /\ status.latched
           /\ LET v == [status |-> NoDocument]
              IN store' = [view |-> v, durable |-> v]
           /\ unreviewed' = FALSE
           /\ UNCHANGED <<main, ref, pc, poll, elapsed, since, faults>>

(* The public branch moves, forward or not. *)
Push == /\ main' \in Commits \ {main}
        /\ since' = IF main' = Audited THEN 0 ELSE since
        /\ UNCHANGED <<ref, store, pc, poll, elapsed, unreviewed, faults>>

Older(files) == [status |-> [files.status EXCEPT !.age = OneOlder(files.status.age)]]

(* A poll that has listed the branch ends within its timeouts. *)
Tick == /\ pc \in Listed => elapsed < MaxPoll
        /\ elapsed' = IF pc \in Listed THEN elapsed + 1 ELSE 0
        /\ store' = [view |-> Older(store.view), durable |-> Older(store.durable)]
        /\ since' = IF main = Audited \/ since > MaxAge + MaxPoll THEN since ELSE since + 1
        /\ UNCHANGED <<main, ref, pc, poll, unreviewed, faults>>

-----------------------------------------------------------------------------
Init == /\ main = Audited
        /\ ref \in {Audited, NoCommit}
        /\ store = [view |-> [status |-> NoDocument], durable |-> [status |-> NoDocument]]
        /\ pc = "down"
        /\ poll = NoPoll
        /\ elapsed = 0
        /\ since = 0
        /\ unreviewed = FALSE
        /\ faults = 0

PollStep == List \/ Fetch \/ Latch \/ Update \/ Confirm \/ Error

Next == \/ BeginPoll \/ PollStep
        \/ Restart \/ Crash \/ PowerLoss \/ Archive \/ Push \/ Tick

Spec == Init /\ [][Next]_vars

(* The clock runs, and a poll that has begun ends; that another one begins *)
(* is not assumed.                                                         *)
FairSpec == Spec /\ WF_vars(Tick) /\ WF_vars(PollStep)

-----------------------------------------------------------------------------
(* Properties.                                                             *)

Document == [ok : BOOLEAN, head : Commits \cup {NoCommit}, latched : BOOLEAN,
             age : 0 .. Stale]
Files == [status : Document]
Poll == [keptByPoll : BOOLEAN, keptByObserve : BOOLEAN, detected : BOOLEAN,
         cached : Commits \cup {NoCommit}, advertised : Commits \cup {NoCommit}]

(* The type of every variable; a poll past its ls-remote knows a commit,   *)
(* and its git commands are within their timeouts.                         *)
TypeOK == /\ main \in Commits
          /\ ref \in Commits \cup {NoCommit}
          /\ store \in [view : Files, durable : Files]
          /\ pc \in Polling \cup {"idle", "down"}
          /\ poll \in Poll
          /\ pc \in Listed => poll.advertised \in Commits
          /\ elapsed \in 0 .. MaxPoll
          /\ since \in 0 .. MaxAge + MaxPoll + 1
          /\ unreviewed \in BOOLEAN
          /\ faults \in Int

(* Once origin/main has been moved to a commit that does not descend from  *)
(* the one it held, the latch is on disk and survives a power loss, through *)
(* kills, failed polls and failed writes, until the operator archives it.  *)
RewriteIsRemembered ==
  unreviewed => store.view.status.latched /\ store.durable.status.latched

(* Whenever the gate admits a write, the public branch was the audited     *)
(* commit at most the maximum age and one poll ago, also when a power loss *)
(* has just brought an older document back.                                *)
AdmittedIsRecent ==
  \A files \in {store.view, store.durable} :
    GateOpen(files.status) => since <= MaxAge + MaxPoll

(* When the public branch leaves the audited commit for good, the gate     *)
(* closes for good, even if the observer never runs again.                 *)
DriftClosesTheGate == <>[](main # Audited) => <>[]~GateOpen(status)
-----------------------------------------------------------------------------
(* The inductive invariants behind the two safety properties.              *)

(* A poll under way still knows of the rewrite, and the ref is moved only  *)
(* with the latch on disk.                                                 *)
RewriteInv ==
  /\ RewriteIsRemembered
  /\ pc \in Polling /\ unreviewed =>
       (poll.keptByPoll /\ poll.keptByObserve) \/ poll.detected
  /\ pc = "update" /\ poll.detected =>
       store.view.status.latched /\ store.durable.status.latched
  /\ pc = "latch" => poll.detected
  /\ pc \in {"list", "fetch"} => ~poll.detected

(* A green document, and a poll that saw the audited commit, are recent.   *)
RecencyInv ==
  /\ main = Audited => since = 0
  /\ pc \in Listed /\ poll.advertised = Audited => since <= elapsed
  /\ \A files \in {store.view, store.durable} :
       LET doc == files.status
       IN doc.ok /\ Fresh(doc) => since <= MaxPoll + doc.age

=============================================================================
