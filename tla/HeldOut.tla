------------------------------- MODULE HeldOut -------------------------------
(***************************************************************************)
(* The once-only governance of a held-out stress campaign                  *)
(* (internal/stress/heldout_*.go): a permit with a validity window is      *)
(* reserved at most once, its live batch runs inside the window, and the   *)
(* partition is sealed at most once.  Reservations and seals are exclusive *)
(* publications (module ExclusiveFile), used here through what they        *)
(* promise (module WriteOnce).                                             *)
(*                                                                         *)
(* Several permits may be built for one partition, several runners may use *)
(* one permit, and a stored receipt may be loaded by anyone.  The digests  *)
(* that tie a document to its parents are modelled by the parents.         *)
(***************************************************************************)
EXTENDS Naturals

CONSTANTS
    Runner,        \* processes that reserve, run and seal
    Permit,        \* permits issued
    Partition,     \* frozen partitions
    PartitionOf,   \* the partition of each permit
    Window,        \* validity of each permit: issued and expires
    Cell,          \* held-out cells with their admission: eligible,
    Admission,     \*    ineligible or unsupported
    MaxTime,       \* bound: clock
    MaxLosses,     \* bound: power losses
    NoDocument     \* nothing is stored, nothing is held

(* A permit's receipt and a partition's seal, as they are stored.          *)
Receipts == [permit : Permit, by : Runner, at : 0 .. MaxTime]
Seals    == [permit : Permit, by : Runner, receipt : Receipts, at : 0 .. MaxTime]

ASSUME HeldOutAssumption ==
    /\ PartitionOf \in [Permit -> Partition]
    /\ Permit \cap Partition = {}
    /\ Admission \in [Cell -> {"eligible", "ineligible", "unsupported"}]
    /\ MaxTime \in Nat /\ MaxLosses \in Nat
    /\ Window \in [Permit -> [issued : Nat, expires : Nat]]
    /\ NoDocument \notin Permit \cup Receipts \cup Seals

VARIABLES
    clock,
    store,         \* the documents under their keys: WriteOnce's value
    told,          \* acknowledged documents: WriteOnce's claimed
    job,           \* what each runner is doing and holds
    outages        \* history: power losses so far

heldOutVars == <<clock, store, told, job, outages>>

Register == INSTANCE WriteOnce WITH
                Name <- Permit \cup Partition, Document <- {}, NoFile <- NoDocument,
                value <- store, claimed <- told

(* HeldOutExecutionPermit.ValidateAt.                                      *)
ValidateAt(k, t) == Window[k].issued <= t /\ t < Window[k].expires

(* What the report shows per held-out cell, and what the execution ledger  *)
(* accepts: every eligible cell executed, every other one not.             *)
Report == [Cell -> {"executed", "not_run", "unsupported"}]

LedgerAccepts(report) ==
    \A c \in Cell : report[c] = CASE Admission[c] = "eligible" -> "executed"
                                  [] Admission[c] = "ineligible" -> "not_run"
                                  [] OTHER -> "unsupported"

(* A runner's permit, the time it noted last (of the reservation, of the   *)
(* start, of the completion) and the receipt it holds.                     *)
Idle == [state |-> "idle", permit |-> NoDocument, noted |-> 0, receipt |-> NoDocument]

HeldOutInit ==
    /\ clock = 0 /\ Register!WriteOnceInit
    /\ job = [r \in Runner |-> Idle] /\ outages = 0

Become(r, j) == job' = [job EXCEPT ![r] = j]

Tick ==
    /\ clock < MaxTime /\ clock' = clock + 1
    /\ UNCHANGED <<store, told, job, outages>>

(* Reserve reads the clock and re-verifies the permit and its parents:     *)
(* this takes time.                                                        *)
ReserveVerify(r, k) ==
    /\ job[r].state = "idle" /\ ValidateAt(k, clock)
    /\ Become(r, [Idle EXCEPT !.state = "verified", !.permit = k])
    /\ UNCHANGED <<clock, store, told, outages>>

(* Mutant: the time of the reservation is not checked again.               *)
ReserveStampUnchecked(r) ==
    /\ job[r].state = "verified"
    /\ Become(r, [job[r] EXCEPT !.state = "stamped", !.noted = clock])
    /\ UNCHANGED <<clock, store, told, outages>>

(* Mutant: the time of the reservation is rounded up.                      *)
ReserveStampRoundedUp(r) ==
    /\ job[r].state = "verified"
    /\ Become(r, IF ValidateAt(job[r].permit, clock)
                 THEN [job[r] EXCEPT !.state = "stamped", !.noted = clock + 1] ELSE Idle)
    /\ UNCHANGED <<clock, store, told, outages>>

(* The clock is read again and the permit checked at that time.            *)
ReserveStamp(r) ==
    /\ job[r].state = "verified"
    /\ Become(r, IF ValidateAt(job[r].permit, clock)
                 THEN [job[r] EXCEPT !.state = "stamped", !.noted = clock] ELSE Idle)
    /\ UNCHANGED <<clock, store, told, outages>>

Receipt(r) == [permit |-> job[r].permit, by |-> r, at |-> job[r].noted]

(* Mutant: a stored reservation is replaced.                               *)
ReserveReplace(r) ==
    /\ job[r].state = "stamped"
    /\ Become(r, [job[r] EXCEPT !.state = "publishing", !.receipt = Receipt(r)])
    /\ store' = [store EXCEPT ![job[r].permit] = Receipt(r)]
    /\ UNCHANGED <<clock, told, outages>>

(* The receipt is linked under the permit's key, or the key is taken       *)
(* ("already reserved") or the publication fails before the link.          *)
ReservePublish(r) ==
    /\ job[r].state = "stamped"
    /\ \/ /\ Become(r, [job[r] EXCEPT !.state = "publishing", !.receipt = Receipt(r)])
          /\ Register!Decide(job[r].permit, Receipt(r))
       \/ Become(r, Idle) /\ UNCHANGED <<store, told>>
    /\ UNCHANGED <<clock, outages>>

(* Reserve returns the receipt, or an error although it is stored.         *)
ReserveReturn(r) ==
    /\ job[r].state = "publishing"
    /\ \/ /\ Become(r, [job[r] EXCEPT !.state = "reserved"])
          /\ Register!Claim(job[r].permit, job[r].receipt)
       \/ Become(r, Idle) /\ UNCHANGED <<store, told>>
    /\ UNCHANGED <<clock, outages>>

(* Load hands the stored receipt to whoever holds the permit.              *)
Load(r, k) ==
    /\ job[r].state = "idle"
    /\ store[k] # NoDocument /\ ValidateAt(k, store[k].at)
    /\ Become(r, [state |-> "reserved", permit |-> k, noted |-> store[k].at, receipt |-> store[k]])
    /\ UNCHANGED <<clock, store, told, outages>>

(* executeHeldOutLiveBatchAt before the batch.                             *)
ExecuteStart(r) ==
    /\ job[r].state = "reserved"
    /\ clock >= job[r].receipt.at /\ ValidateAt(job[r].permit, clock)
    /\ Become(r, [job[r] EXCEPT !.state = "executing", !.noted = clock])
    /\ UNCHANGED <<clock, store, told, outages>>

(* Mutant: neither the evidence nor the seal look at the completion time.  *)
EvidenceAtStart(r, report) == job[r].noted <= clock /\ LedgerAccepts(report)

(* HeldOutLiveBatchEvidence, complete and inside the permit's window.      *)
Evidence(r, report) ==
    job[r].noted <= clock /\ ValidateAt(job[r].permit, clock) /\ LedgerAccepts(report)

(* The batch returned: without valid evidence nothing can be sealed.       *)
ExecuteFinish(r) ==
    /\ job[r].state = "executing"
    /\ \E report \in Report :
          Become(r, IF Evidence(r, report)
                    THEN [job[r] EXCEPT !.state = "evidenced", !.noted = clock] ELSE Idle)
    /\ UNCHANGED <<clock, store, told, outages>>

SealOf(r) == [permit |-> job[r].permit, by |-> r, receipt |-> job[r].receipt, at |-> job[r].noted]

(* HeldOutRunSealV2Parents.Validate: the receipt, which is the caller's,   *)
(* is one of this permit and of its window.                                *)
ParentsValid(r) ==
    job[r].receipt.permit = job[r].permit /\ ValidateAt(job[r].permit, job[r].receipt.at)

(* HeldOutRunSealStore.Seal: the parents are checked and the seal is       *)
(* published exclusively under the partition's key.                        *)
SealPublish(r) ==
    /\ job[r].state = "evidenced"
    /\ \/ /\ ParentsValid(r)
          /\ Become(r, [job[r] EXCEPT !.state = "sealing"])
          /\ Register!Decide(PartitionOf[job[r].permit], SealOf(r))
       \/ Become(r, Idle) /\ UNCHANGED <<store, told>>
    /\ UNCHANGED <<clock, outages>>

SealReturn(r) ==
    /\ job[r].state = "sealing"
    /\ Become(r, Idle)
    /\ Register!Claim(PartitionOf[job[r].permit], SealOf(r)) \/ UNCHANGED <<store, told>>
    /\ UNCHANGED <<clock, outages>>

(* A runner dies and starts again with nothing but the store.              *)
RunnerCrash(r) ==
    /\ job[r] # Idle /\ Become(r, Idle)
    /\ UNCHANGED <<clock, store, told, outages>>

Outage ==
    /\ outages < MaxLosses /\ outages' = outages + 1
    /\ \E lost \in SUBSET (Permit \cup Partition) : Register!Forget(lost)
    /\ job' = [r \in Runner |-> Idle]
    /\ UNCHANGED clock

HeldOutNext ==
    \/ Tick \/ Outage
    \/ \E r \in Runner :
          \/ \E k \in Permit : ReserveVerify(r, k) \/ Load(r, k)
          \/ ReserveStamp(r) \/ ReservePublish(r) \/ ReserveReturn(r)
          \/ ExecuteStart(r) \/ ExecuteFinish(r)
          \/ SealPublish(r) \/ SealReturn(r) \/ RunnerCrash(r)

HeldOutSpec == HeldOutInit /\ [][HeldOutNext]_heldOutVars

------------------------------------------------------------------------------

(* Every variable of the campaign keeps its shape.                         *)
HeldOutTypeOK ==
    /\ clock \in 0..MaxTime /\ outages \in 0..MaxLosses
    /\ DOMAIN store = Permit \cup Partition /\ DOMAIN told = Permit \cup Partition
    /\ \A r \in Runner :
          /\ job[r].state \in {"idle", "verified", "stamped", "publishing", "reserved",
                              "executing", "evidenced", "sealing"}
          /\ job[r].permit \in Permit \cup {NoDocument} /\ job[r].noted \in 0..MaxTime

(* "At most one contender within that authority may succeed": one runner   *)
(* at most is told that it reserved a permit, and one that it sealed a     *)
(* partition, across crashes and power losses.                             *)
OneContenderSucceeds ==
    \A n \in Permit \cup Partition : \A d, e \in told[n] : d.by = e.by

(* A stored receipt carries a time inside its permit's window, although    *)
(* the verification before it may outlast the window.                      *)
ReservedInWindow == \A k \in Permit : store[k] # NoDocument => ValidateAt(k, store[k].at)

(* A seal stands on a permit of its own partition and on a live batch that *)
(* completed after the reservation and before the permit expired.          *)
SealedInWindow ==
    \A x \in Partition : store[x] # NoDocument =>
        /\ PartitionOf[store[x].permit] = x
        /\ store[x].receipt.at <= store[x].at
        /\ ValidateAt(store[x].permit, store[x].at)

(* A seal names the receipt that is stored for its permit, although Seal   *)
(* never looks it up: a receipt whose publisher was told of success stays, *)
(* and one that was not can only be lost to a power loss.                  *)
SealBindsStoredReceipt ==
    \A x \in Partition : store[x] # NoDocument =>
        LET k == store[x].permit
        IN  outages = 0 \/ store[x].receipt \in told[k] => store[k] = store[x].receipt

(* A permit is used once, inside its window, and its seal stands on the    *)
(* stored receipt, over rivals, slow steps, crashes and power losses.      *)
HeldOutSound ==
    /\ HeldOutTypeOK
    /\ OneContenderSucceeds
    /\ ReservedInWindow /\ SealedInWindow
    /\ SealBindsStoredReceipt
==============================================================================
