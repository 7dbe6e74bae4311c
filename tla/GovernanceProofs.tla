-------------------------- MODULE GovernanceProofs ---------------------------
(***************************************************************************)
(* The governance of evidence, for any number of actors, crashes and power *)
(* losses: the held-out campaign (HeldOut), the blinded review             *)
(* (ReviewLedger) and the owner inspection (InspectionJournal and          *)
(* InspectionVerdict); and what the modules promise about files in the     *)
(* specification that MCArtifacts composes of them.                        *)
(***************************************************************************)
EXTENDS MCArtifacts, PublicationProofs, FiniteSetTheorems

------------------------------------------------------------------------------
(* The held-out campaign.                                                  *)

Holding == {"publishing", "reserved", "executing", "evidenced", "sealing"}

Job == [state : {"idle", "verified", "stamped"} \cup Holding, permit : Permit \cup {NoDocument},
        noted : 0 .. MaxTime, receipt : Receipts \cup {NoDocument}]

(* What a runner holds is worth what it says: a time inside the window, a  *)
(* receipt of its permit, stored unless a power loss took it.              *)
JobOK(j) ==
    /\ j.state # "idle" => j.permit \in Permit
    /\ j.state = "stamped" => ValidateAt(j.permit, j.noted)
    /\ j.state \in Holding =>
          /\ j.receipt \in Receipts /\ j.receipt.permit = j.permit
          /\ ValidateAt(j.permit, j.receipt.at)
          /\ outages = 0 => store[j.permit] = j.receipt
    /\ j.state \in {"executing", "evidenced", "sealing"} => j.receipt.at <= j.noted
    /\ j.state \in {"evidenced", "sealing"} => ValidateAt(j.permit, j.noted)

(* A stored document is what its writer was allowed to write.              *)
ReceiptOK(k) ==
    store[k] # NoDocument =>
        store[k] \in Receipts /\ store[k].permit = k /\ ValidateAt(k, store[k].at)

SealOK(x) ==
    store[x] # NoDocument =>
        /\ store[x] \in Seals
        /\ PartitionOf[store[x].permit] = x
        /\ store[x].receipt.at <= store[x].at
        /\ ValidateAt(store[x].permit, store[x].at)
        /\ outages = 0 => store[store[x].permit] = store[x].receipt

HeldOutInv ==
    /\ clock \in 0 .. MaxTime /\ outages \in 0 .. MaxLosses
    /\ DOMAIN store = Permit \cup Partition /\ DOMAIN told = Permit \cup Partition
    /\ store = [n \in DOMAIN store |-> store[n]] /\ told = [n \in DOMAIN told |-> told[n]]
    /\ job \in [Runner -> Job]
    /\ \A n \in Permit \cup Partition : told[n] \subseteq {store[n]} \ {NoDocument}
    /\ \A k \in Permit : ReceiptOK(k)
    /\ \A x \in Partition : SealOK(x)
    /\ \A r \in Runner : JobOK(job[r])

LEMMA HeldOutInitHolds ==
    ASSUME HeldOutInit PROVE HeldOutInv
<1> USE HeldOutAssumption DEF HeldOutInit, Register!WriteOnceInit
<1>1. Idle \in Job
  BY DEF Idle, Job
<1>2. JobOK(Idle)
  BY DEF Idle, JobOK, Holding
<1>. QED BY <1>1, <1>2 DEF HeldOutInv, ReceiptOK, SealOK

(* A step of one runner that stores nothing.                               *)
LEMMA RunnerMoves ==
    ASSUME HeldOutInv, NEW r \in Runner, NEW j \in Job, JobOK(j), Become(r, j),
           UNCHANGED <<clock, store, outages>>,
           told' = told \/ \E n \in Permit \cup Partition :
               store[n] # NoDocument /\ told' = [told EXCEPT ![n] = told[n] \cup {store[n]}]
    PROVE  HeldOutInv'
<1>1. job' \in [Runner -> Job] /\ \A q \in Runner : JobOK(job[q])'
  <2>1. ASSUME NEW q \in Runner PROVE JobOK(job[q])'
    BY <2>1 DEF HeldOutInv, JobOK, Become
  <2>. QED BY <2>1 DEF HeldOutInv, Become
<1>2. /\ \A k \in Permit : ReceiptOK(k)'
      /\ \A x \in Partition : SealOK(x)'
  BY DEF HeldOutInv, ReceiptOK, SealOK
<1>3. /\ DOMAIN told' = Permit \cup Partition /\ told' = [n \in DOMAIN told' |-> told'[n]]
      /\ \A n \in Permit \cup Partition : told'[n] \subseteq {store[n]} \ {NoDocument}
  BY DEF HeldOutInv
<1>. QED BY <1>1, <1>2, <1>3 DEF HeldOutInv

(* A step of one runner that decides a document under a free name.         *)
LEMMA RunnerDecides ==
    ASSUME HeldOutInv, NEW r \in Runner, NEW j \in Job, Become(r, j),
           NEW n \in Permit \cup Partition, NEW d,
           Register!Decide(n, d), UNCHANGED <<clock, outages>>,
           JobOK(j)', n \in Permit => ReceiptOK(n)', n \in Partition => SealOK(n)'
    PROVE  HeldOutInv'
<1>1. /\ store[n] = NoDocument /\ store'[n] = d /\ told' = told
      /\ \A m \in (Permit \cup Partition) \ {n} : store'[m] = store[m]
      /\ DOMAIN store' = Permit \cup Partition /\ store' = [m \in DOMAIN store' |-> store'[m]]
  BY DEF HeldOutInv, Register!Decide
<1>2. NoDocument \notin Receipts
  BY HeldOutAssumption
<1>3. ASSUME NEW q \in Runner PROVE JobOK(job[q])'
  <2>1. CASE q = r
    BY <2>1 DEF HeldOutInv, JobOK, Become
  <2>2. CASE q # r
    <3>1. job'[q] = job[q] /\ JobOK(job[q])
      BY <2>2 DEF HeldOutInv, Become
    <3>2. job[q].permit \in Permit /\ outages = 0 /\ job[q].state \in Holding => job[q].permit # n
      BY <1>1, <1>2, <3>1 DEF JobOK
    <3>3. job[q].state \in Holding => job[q].permit \in Permit
      BY <3>1 DEF JobOK, Holding
    <3>. QED BY <1>1, <3>1, <3>2, <3>3 DEF JobOK
  <2>. QED BY <2>1, <2>2
<1>4. job' \in [Runner -> Job]
  BY DEF HeldOutInv, Become
<1>5. ASSUME NEW k \in Permit PROVE ReceiptOK(k)'
  BY <1>1 DEF HeldOutInv, ReceiptOK
<1>6. ASSUME NEW x \in Partition PROVE SealOK(x)'
  <2>1. CASE x = n
    BY <2>1
  <2>2. CASE x # n
    <3>1. SealOK(x) /\ store'[x] = store[x]
      BY <1>1, <2>2 DEF HeldOutInv
    <3>2. store[x] # NoDocument =>
            (store[x].permit \in Permit /\ (outages = 0 => store'[store[x].permit] = store[store[x].permit]))
      BY <1>1, <1>2, <3>1 DEF SealOK, Seals
    <3>. QED BY <3>1, <3>2 DEF SealOK
  <2>. QED BY <2>1, <2>2
<1>7. \A m \in Permit \cup Partition : told'[m] \subseteq {store'[m]} \ {NoDocument}
  BY <1>1 DEF HeldOutInv
<1>. QED BY <1>1, <1>3, <1>4, <1>5, <1>6, <1>7 DEF HeldOutInv

LEMMA IdleHolds ==
    ASSUME HeldOutAssumption PROVE Idle \in Job /\ JobOK(Idle)
BY DEF Idle, Job, JobOK, Holding

LEMMA ReservingKeeps ==
    ASSUME HeldOutInv, NEW r \in Runner,
           \/ \E k \in Permit : ReserveVerify(r, k)
           \/ ReserveStamp(r) \/ ReservePublish(r) \/ ReserveReturn(r)
    PROVE  HeldOutInv'
<1>0. /\ job[r] \in Job /\ JobOK(job[r]) /\ clock \in 0 .. MaxTime
      /\ Idle \in Job /\ JobOK(Idle)
  BY IdleHolds, HeldOutAssumption DEF HeldOutInv
<1>1. ASSUME NEW k \in Permit, ReserveVerify(r, k) PROVE HeldOutInv'
  <2> DEFINE j == [Idle EXCEPT !.state = "verified", !.permit = k]
  <2>1. j.state = "verified" /\ j.permit = k
    BY DEF Idle
  <2>2. j \in Job /\ JobOK(j)
    BY <1>0, <2>1 DEF Idle, Job, JobOK, Holding
  <2>. QED BY <1>1, <2>2, RunnerMoves DEF ReserveVerify
<1>2. CASE ReserveStamp(r)
  <2> DEFINE j == [job[r] EXCEPT !.state = "stamped", !.noted = clock]
  <2>1. /\ job[r].state = "verified" /\ job[r].permit \in Permit
        /\ UNCHANGED <<clock, store, told, outages>>
        /\ Become(r, IF ValidateAt(job[r].permit, clock) THEN j ELSE Idle)
    BY <1>0, <1>2 DEF ReserveStamp, JobOK
  <2>2. j \in Job /\ j.state = "stamped" /\ j.noted = clock /\ j.permit = job[r].permit
    BY <1>0 DEF Job
  <2>3. ValidateAt(job[r].permit, clock) => JobOK(j)
    BY <2>1, <2>2 DEF JobOK, Holding
  <2>. QED BY <1>0, <2>1, <2>2, <2>3, RunnerMoves
<1>3. CASE ReservePublish(r)
  <2>1. /\ job[r].state = "stamped" /\ job[r].permit \in Permit
        /\ ValidateAt(job[r].permit, job[r].noted) /\ UNCHANGED <<clock, outages>>
    BY <1>0, <1>3 DEF ReservePublish, JobOK
  <2>6. /\ Receipt(r) \in Receipts /\ Receipt(r).permit = job[r].permit
        /\ Receipt(r).at = job[r].noted
    BY <1>0, <2>1 DEF Receipt, Receipts, Job
  <2>2. PICK k \in Permit, d \in Receipts :
            k = job[r].permit /\ d = Receipt(r) /\ d.permit = k /\ ValidateAt(k, d.at)
    BY <2>1, <2>6
  <2> DEFINE next == [job[r] EXCEPT !.state = "publishing", !.receipt = Receipt(r)]
  <2>7. next \in Job /\ next.state = "publishing" /\ next.permit = k /\ next.receipt = d
    BY <1>0, <2>2 DEF Job, Holding
  <2>3. PICK j \in Job : j = next /\ j.state = "publishing" /\ j.permit = k /\ j.receipt = d
    BY <2>7
  <2>4. \/ Become(r, j) /\ Register!Decide(k, d)
        \/ Become(r, Idle) /\ UNCHANGED <<store, told>>
    BY <1>3, <2>2, <2>3 DEF ReservePublish
  <2>5. CASE Become(r, j) /\ Register!Decide(k, d)
    <3>1. store'[k] = d
      BY <2>2, <2>5 DEF HeldOutInv, Register!Decide
    <3>2. JobOK(j)'
      BY <2>2, <2>3, <3>1 DEF JobOK
    <3>3. ReceiptOK(k)'
      BY <2>2, <3>1 DEF ReceiptOK
    <3>4. k \notin Partition
      BY <2>2, HeldOutAssumption
    <3>. QED BY <2>1, <2>2, <2>5, <3>2, <3>3, <3>4, RunnerDecides
  <2>. QED BY <1>0, <2>1, <2>4, <2>5, RunnerMoves
<1>4. CASE ReserveReturn(r)
  <2> DEFINE j == [job[r] EXCEPT !.state = "reserved"]
  <2>1. /\ job[r].state = "publishing" /\ job[r].permit \in Permit
        /\ UNCHANGED <<clock, outages>>
        /\ \/ Become(r, j) /\ Register!Claim(job[r].permit, job[r].receipt)
           \/ Become(r, Idle) /\ UNCHANGED <<store, told>>
    BY <1>0, <1>4 DEF ReserveReturn, JobOK
  <2>2. j \in Job
    BY <1>0 DEF Job, Holding
  <2>3. j.state = "reserved" /\ j.permit = job[r].permit /\ j.receipt = job[r].receipt
    BY <1>0 DEF Job
  <2>4. JobOK(j) /\ job[r].receipt # NoDocument
    BY <1>0, <2>1, <2>3, HeldOutAssumption DEF JobOK, Holding
  <2>5. CASE Become(r, j) /\ Register!Claim(job[r].permit, job[r].receipt)
    BY <2>1, <2>2, <2>4, <2>5, RunnerMoves DEF Register!Claim
  <2>. QED BY <1>0, <2>1, <2>5, RunnerMoves
<1>. QED BY <1>1, <1>2, <1>3, <1>4

LEMMA SealingKeeps ==
    ASSUME HeldOutInv, NEW r \in Runner,
           \/ \E k \in Permit : Load(r, k)
           \/ ExecuteStart(r) \/ ExecuteFinish(r) \/ SealPublish(r) \/ SealReturn(r)
           \/ RunnerCrash(r)
    PROVE  HeldOutInv'
<1>0. /\ job[r] \in Job /\ JobOK(job[r]) /\ clock \in 0 .. MaxTime
      /\ Idle \in Job /\ JobOK(Idle)
  BY IdleHolds, HeldOutAssumption DEF HeldOutInv
<1>1. ASSUME NEW k \in Permit, Load(r, k) PROVE HeldOutInv'
  <2> DEFINE j == [state |-> "reserved", permit |-> k, noted |-> store[k].at, receipt |-> store[k]]
  <2>1. store[k] \in Receipts /\ store[k].permit = k /\ ValidateAt(k, store[k].at)
    BY <1>1 DEF Load, HeldOutInv, ReceiptOK
  <2>2. j \in Job
    BY <2>1 DEF Job, Holding, Receipts
  <2>3. JobOK(j)
    BY <2>1 DEF JobOK
  <2>. QED BY <1>1, <2>2, <2>3, RunnerMoves DEF Load
<1>2. CASE ExecuteStart(r)
  <2> DEFINE j == [job[r] EXCEPT !.state = "executing", !.noted = clock]
  <2>1. /\ job[r].state = "reserved" /\ job[r].receipt.at <= clock
        /\ Become(r, j) /\ UNCHANGED <<clock, store, told, outages>>
    BY <1>0, <1>2, HeldOutAssumption DEF ExecuteStart, JobOK, Holding, Receipts
  <2>2. /\ j \in Job /\ j.state = "executing" /\ j.noted = clock
        /\ j.permit = job[r].permit /\ j.receipt = job[r].receipt
    BY <1>0 DEF Job, Holding
  <2>3. JobOK(j)
    BY <1>0, <2>1, <2>2 DEF JobOK, Holding
  <2>. QED BY <2>1, <2>2, <2>3, RunnerMoves
<1>3. CASE ExecuteFinish(r)
  <2> DEFINE j == [job[r] EXCEPT !.state = "evidenced", !.noted = clock]
  <2>1. /\ job[r].state = "executing" /\ UNCHANGED <<clock, store, told, outages>>
        /\ \/ Become(r, j) /\ job[r].noted <= clock /\ ValidateAt(job[r].permit, clock)
           \/ Become(r, Idle)
    BY <1>3 DEF ExecuteFinish, Evidence
  <2>2. /\ j \in Job /\ j.state = "evidenced" /\ j.noted = clock
        /\ j.permit = job[r].permit /\ j.receipt = job[r].receipt
    BY <1>0 DEF Job, Holding
  <2>3. job[r].noted <= clock => job[r].receipt.at <= clock
    BY <1>0, <2>1, HeldOutAssumption DEF JobOK, Job, Holding, Receipts
  <2>4. job[r].noted <= clock /\ ValidateAt(job[r].permit, clock) => JobOK(j)
    BY <1>0, <2>1, <2>2, <2>3 DEF JobOK, Holding
  <2>. QED BY <1>0, <2>1, <2>2, <2>4, RunnerMoves
<1>4. CASE SealPublish(r)
  <2>1. /\ job[r].state = "evidenced" /\ job[r].permit \in Permit /\ UNCHANGED <<clock, outages>>
        /\ job[r].receipt \in Receipts /\ job[r].receipt.at <= job[r].noted
        /\ ValidateAt(job[r].permit, job[r].noted)
    BY <1>0, <1>4 DEF SealPublish, JobOK, Holding
  <2>2. /\ SealOf(r) \in Seals /\ SealOf(r).permit = job[r].permit
        /\ SealOf(r).receipt = job[r].receipt /\ SealOf(r).at = job[r].noted
    BY <1>0, <2>1 DEF SealOf, Seals, Job
  <2>3. PICK x \in Partition, d \in Seals :
            /\ x = PartitionOf[job[r].permit] /\ d = SealOf(r)
            /\ d.permit = job[r].permit /\ d.receipt = job[r].receipt /\ d.at = job[r].noted
    BY <2>1, <2>2, HeldOutAssumption
  <2> DEFINE next == [job[r] EXCEPT !.state = "sealing"]
  <2>4. /\ next \in Job /\ next.state = "sealing" /\ next.permit = job[r].permit
        /\ next.receipt = job[r].receipt /\ next.noted = job[r].noted
    BY <1>0 DEF Job, Holding
  <2>5. PICK j \in Job :
            /\ j = next /\ j.state = "sealing" /\ j.permit = job[r].permit
            /\ j.receipt = job[r].receipt /\ j.noted = job[r].noted
    BY <2>4
  <2>6. CASE Become(r, j) /\ Register!Decide(x, d)
    <3>1. JobOK(j)
      BY <1>0, <2>1, <2>5 DEF JobOK, Holding
    <3>2. /\ store'[x] = d
          /\ \A k \in Permit : store'[k] = store[k]
      BY <2>6, HeldOutAssumption DEF HeldOutInv, Register!Decide
    <3>3. JobOK(j)'
      BY <2>1, <2>5, <3>1, <3>2 DEF JobOK
    <3>4. d.permit \in Permit /\ PartitionOf[d.permit] = x /\ d.receipt.at <= d.at
          /\ ValidateAt(d.permit, d.at)
      BY <2>1, <2>3
    <3>5. outages = 0 => store[d.permit] = d.receipt
      BY <1>0, <2>1, <2>3 DEF JobOK, Holding
    <3>6. SealOK(x)'
      BY <2>1, <3>2, <3>4, <3>5 DEF SealOK
    <3>7. x \notin Permit
      BY HeldOutAssumption
    <3>. QED BY <2>1, <2>6, <3>3, <3>6, <3>7, RunnerDecides
  <2>7. \/ Become(r, j) /\ Register!Decide(x, d)
        \/ Become(r, Idle) /\ UNCHANGED <<store, told>>
    BY <1>4, <2>3, <2>5 DEF SealPublish
  <2>. QED BY <1>0, <2>1, <2>6, <2>7, RunnerMoves
<1>5. CASE SealReturn(r)
  <2>1. /\ job[r].permit \in Permit /\ Become(r, Idle) /\ UNCHANGED <<clock, outages>>
        /\ Register!Claim(PartitionOf[job[r].permit], SealOf(r)) \/ UNCHANGED <<store, told>>
    BY <1>0, <1>5 DEF SealReturn, JobOK
  <2>2. job[r].receipt \in Receipts
    BY <1>0, <1>5 DEF SealReturn, JobOK, Holding
  <2>3. SealOf(r) \in Seals
    BY <1>0, <2>1, <2>2 DEF SealOf, Seals, Job
  <2>4. SealOf(r) # NoDocument /\ PartitionOf[job[r].permit] \in Permit \cup Partition
    BY <2>1, <2>3, HeldOutAssumption
  <2>. QED BY <1>0, <2>1, <2>4, RunnerMoves DEF Register!Claim
<1>6. CASE RunnerCrash(r)
  BY <1>0, <1>6, RunnerMoves DEF RunnerCrash
<1>. QED BY <1>1, <1>2, <1>3, <1>4, <1>5, <1>6

LEMMA HeldOutStepKeeps ==
    ASSUME HeldOutInv, [HeldOutNext]_heldOutVars
    PROVE  HeldOutInv'
<1>1. CASE Tick
  BY <1>1, HeldOutAssumption DEF Tick, HeldOutInv, ReceiptOK, SealOK, JobOK
<1>2. CASE Outage
  <2>1. Idle \in Job /\ JobOK(Idle)'
    BY HeldOutAssumption DEF Idle, Job, JobOK, Holding
  <2>2. outages' \in 0 .. MaxLosses /\ outages' # 0 /\ clock' = clock
        /\ job' = [r \in Runner |-> Idle]
    BY <1>2, HeldOutAssumption DEF Outage, HeldOutInv
  <2>3. PICK lost \in SUBSET (Permit \cup Partition) : Register!Forget(lost)
    BY <1>2 DEF Outage
  <2>4. /\ told' = told /\ store' = [n \in Permit \cup Partition |->
                                        IF n \in lost THEN NoDocument ELSE store[n]]
        /\ \A n \in lost : told[n] = {}
    BY <2>3 DEF Register!Forget
  <2>5. \A n \in Permit \cup Partition : told'[n] \subseteq {store'[n]} \ {NoDocument}
    BY <2>4 DEF HeldOutInv
  <2>6. \A k \in Permit : ReceiptOK(k)'
    BY <2>4 DEF HeldOutInv, ReceiptOK
  <2>7. \A x \in Partition : SealOK(x)'
    BY <2>2, <2>4 DEF HeldOutInv, SealOK
  <2>. QED BY <2>1, <2>2, <2>4, <2>5, <2>6, <2>7 DEF HeldOutInv
<1>3. CASE UNCHANGED heldOutVars
  BY <1>3 DEF heldOutVars, HeldOutInv, ReceiptOK, SealOK, JobOK
<1>. QED BY <1>1, <1>2, <1>3, ReservingKeeps, SealingKeeps DEF HeldOutNext

(* The inductive invariant of a campaign (heldout_reservation.go,          *)
(* heldout_live_batch.go, heldout_run_seal.go).                            *)
THEOREM HeldOutInvariant == HeldOutSpec => []HeldOutInv
<1>. QED BY HeldOutInitHolds, HeldOutStepKeeps, PTL DEF HeldOutSpec

(* A permit is used by one contender at most, inside its window, and the   *)
(* seal of its partition stands on the receipt that is stored for it, for  *)
(* any number of runners, permits, crashes and power losses.               *)
THEOREM CampaignIsSound == HeldOutSpec => []HeldOutSound
<1>1. HeldOutInv => HeldOutSound
  <2> SUFFICES ASSUME HeldOutInv PROVE HeldOutSound
    OBVIOUS
  <2>1. HeldOutTypeOK
    BY DEF HeldOutInv, HeldOutTypeOK, Job, Holding
  <2>2. OneContenderSucceeds
    BY DEF HeldOutInv, OneContenderSucceeds
  <2>3. ReservedInWindow /\ SealedInWindow
    BY DEF HeldOutInv, ReservedInWindow, SealedInWindow, ReceiptOK, SealOK
  <2>4. SealBindsStoredReceipt
    <3> SUFFICES ASSUME NEW x \in Partition, store[x] # NoDocument, NEW k, k = store[x].permit,
                        outages = 0 \/ store[x].receipt \in told[k]
                 PROVE  store[k] = store[x].receipt
      BY DEF SealBindsStoredReceipt
    <3>1. SealOK(x) /\ k \in Permit
      BY DEF HeldOutInv, SealOK, Seals
    <3>2. told[k] \subseteq {store[k]}
      BY <3>1 DEF HeldOutInv
    <3>. QED BY <3>1, <3>2 DEF SealOK
  <2>. QED BY <2>1, <2>2, <2>3, <2>4 DEF HeldOutSound
<1>. QED BY <1>1, HeldOutInvariant, PTL

------------------------------------------------------------------------------
(* The blinded review.                                                     *)

(* Documents as their builders leave them.  A primary assignment covers    *)
(* the bundle, a tie-break has a reviewer of its own.                      *)
AssignmentOK(a) ==
    /\ a.slot \in 1 .. 3 /\ a.reviewer \in Invited[a.slot]
    /\ a.packets \subseteq Packet /\ a.at \in 0 .. now
    /\ a.slot # 3 => a.packets = Packet

BatchOK(b) ==
    /\ b.assignment \in assignments /\ b.labels \in [b.assignment.packets -> Outcome]
    /\ b.at \in 0 .. now

(* A reveal and a ledger rest on one checked sequence of batches.          *)
SequenceOK(left, right, tie) ==
    /\ left \in batches /\ right \in batches /\ tie \in batches \cup {NoTieBreak}
    /\ ReviewSequence(left, right, tie)

RevealOK(v) ==
    /\ v.at \in 0 .. now
    /\ v.pair = <<v.pair[1], v.pair[2]>> /\ SequenceOK(v.pair[1], v.pair[2], v.tie)
    /\ v.at > LatestCommit(v.pair[1], v.pair[2], v.tie)

LedgerOK(l) ==
    /\ l.reveal \in reveals /\ l.reveal.pair = l.pair /\ l.reveal.tie = l.tie
    /\ l.resolution = ResolveLabels(l.pair[1], l.pair[2], l.tie)

ReviewInv ==
    /\ now \in 0 .. MaxNow
    /\ \A a \in assignments : AssignmentOK(a)
    /\ \A b \in batches : BatchOK(b)
    /\ \A v \in reveals : RevealOK(v)
    /\ \A l \in ledgers : LedgerOK(l)

(* What was true of a document stays true while documents are only added.  *)
LEMMA DocumentsStay ==
    ASSUME ReviewInv, now' \in 0 .. MaxNow, now <= now',
           assignments \subseteq assignments', batches \subseteq batches',
           reveals \subseteq reveals', ledgers \subseteq ledgers'
    PROVE  /\ \A a \in assignments : AssignmentOK(a)'
           /\ \A b \in batches : BatchOK(b)'
           /\ \A v \in reveals : RevealOK(v)'
           /\ \A l \in ledgers : LedgerOK(l)'
<1>1. \A t \in 0 .. now : t \in 0 .. now'
  BY ReviewAssumption DEF ReviewInv
<1>2. ASSUME NEW a \in assignments PROVE AssignmentOK(a)'
  BY <1>1 DEF ReviewInv, AssignmentOK
<1>3. ASSUME NEW b \in batches PROVE BatchOK(b)'
  BY <1>1 DEF ReviewInv, BatchOK
<1>4. ASSUME NEW v \in reveals PROVE RevealOK(v)'
  BY <1>1 DEF ReviewInv, RevealOK, SequenceOK
<1>5. ASSUME NEW l \in ledgers PROVE LedgerOK(l)'
  BY DEF ReviewInv, LedgerOK
<1>. QED BY <1>2, <1>3, <1>4, <1>5

LEMMA ReviewStepKeeps ==
    ASSUME ReviewInv, [ReviewNext]_reviewVars
    PROVE  ReviewInv'
<1>0. now \in 0 .. MaxNow /\ MaxNow \in Nat
  BY ReviewAssumption DEF ReviewInv
<1>1. CASE PassTime
  BY <1>0, <1>1, DocumentsStay DEF PassTime, ReviewInv
<1>2. ASSUME NEW slot, NEW u, NEW packets \in SUBSET Packet, Assign(slot, u, packets),
             slot \in 1 .. 3, u \in Invited[slot], slot # 3 => packets = Packet
      PROVE  ReviewInv'
  <2> DEFINE a == [slot |-> slot, reviewer |-> u, packets |-> packets, at |-> now]
  <2>1. assignments' = assignments \cup {a} /\ UNCHANGED <<now, batches, reveals, ledgers>>
    BY <1>2 DEF Assign
  <2>2. AssignmentOK([slot |-> slot, reviewer |-> u, packets |-> packets, at |-> now])'
    BY <1>0, <1>2, <2>1 DEF AssignmentOK
  <2>. QED BY <1>0, <2>1, <2>2, DocumentsStay DEF ReviewInv
<1>3. ASSUME NEW slot \in {1, 2}, NEW u \in Invited[slot], AssignPrimary(slot, u)
      PROVE  ReviewInv'
  BY <1>2, <1>3 DEF AssignPrimary
<1>4. ASSUME NEW left \in batches, NEW right \in batches, NEW u \in Invited[3],
             AssignTieBreak(u, left, right)
      PROVE  ReviewInv'
  BY <1>2, <1>4 DEF AssignTieBreak, Disagreement
<1>5. ASSUME NEW a \in assignments, NEW labels \in [a.packets -> Outcome], Commit(a, labels)
      PROVE  ReviewInv'
  <2> DEFINE b == [assignment |-> a, labels |-> labels, at |-> now]
  <2>1. batches' = batches \cup {b} /\ UNCHANGED <<now, assignments, reveals, ledgers>>
    BY <1>5 DEF Commit
  <2>2. BatchOK([assignment |-> a, labels |-> labels, at |-> now])'
    BY <1>0, <1>5, <2>1 DEF BatchOK
  <2>. QED BY <1>0, <2>1, <2>2, DocumentsStay DEF ReviewInv
<1>6. ASSUME NEW left \in batches, NEW right \in batches, NEW tie \in batches \cup {NoTieBreak},
             Reveal(left, right, tie)
      PROVE  ReviewInv'
  <2> DEFINE v == [pair |-> <<left, right>>, tie |-> tie, at |-> now]
  <2>1. reveals' = reveals \cup {v} /\ UNCHANGED <<now, assignments, batches, ledgers>>
    BY <1>6 DEF Reveal
  <2>2. RevealOK([pair |-> <<left, right>>, tie |-> tie, at |-> now])'
    BY <1>0, <1>6, <2>1 DEF RevealOK, SequenceOK, Reveal
  <2>. QED BY <1>0, <2>1, <2>2, DocumentsStay DEF ReviewInv
<1>7. ASSUME NEW left \in batches, NEW right \in batches, NEW tie \in batches \cup {NoTieBreak},
             NEW reveal \in reveals, BuildLedger(left, right, tie, reveal)
      PROVE  ReviewInv'
  <2> DEFINE l == [pair |-> <<left, right>>, tie |-> tie, reveal |-> reveal,
                   resolution |-> ResolveLabels(left, right, tie)]
  <2>1. ledgers' = ledgers \cup {l} /\ UNCHANGED <<now, assignments, batches, reveals>>
    BY <1>7 DEF BuildLedger
  <2>2. \A m : LedgerOK(m)' <=> LedgerOK(m)
    BY <2>1 DEF LedgerOK
  <2>3. LedgerOK(l)
    BY <1>7 DEF LedgerOK, BuildLedger, RevealBinds
  <2>. QED BY <1>0, <2>1, <2>2, <2>3, DocumentsStay DEF ReviewInv
<1>8. CASE UNCHANGED reviewVars
  BY <1>0, <1>8, DocumentsStay DEF reviewVars, ReviewInv
<1>. QED BY <1>1, <1>3, <1>4, <1>5, <1>6, <1>7, <1>8 DEF ReviewNext

(* The inductive invariant of a review (outcome/review.go).                *)
THEOREM ReviewInvariant == ReviewSpec => []ReviewInv
<1>1. ReviewInit => ReviewInv
  BY ReviewAssumption DEF ReviewInit, ReviewInv
<1>. QED BY <1>1, ReviewStepKeeps, PTL DEF ReviewSpec

LEMMA CardinalityOfPair ==
    ASSUME NEW x, NEW y, x # y
    PROVE  IsFiniteSet({x, y}) /\ Cardinality({x, y}) = 2
<1>1. {x, y} = {x} \cup {y} /\ y \notin {x}
  OBVIOUS
<1>2. IsFiniteSet({x}) /\ Cardinality({x}) = 1
  BY FS_Singleton
<1>3. IsFiniteSet({x} \cup {y}) /\ Cardinality({x} \cup {y}) = 1 + 1
  BY <1>1, <1>2, FS_AddElement
<1>. QED BY <1>1, <1>3

LEMMA CardinalityOfTriple ==
    ASSUME NEW x, NEW y, NEW z, x # y, x # z, y # z
    PROVE  Cardinality({x, y, z}) = 3
<1>1. {x, y, z} = {x, y} \cup {z} /\ z \notin {x, y}
  OBVIOUS
<1>2. IsFiniteSet({x, y}) /\ Cardinality({x, y}) = 2
  BY CardinalityOfPair
<1>. QED BY <1>1, <1>2, FS_AddElement

(* What anyone can assemble from the documents of a review is one blinded  *)
(* decision, for any bundle, number of batches, reveals and ledgers: the   *)
(* labels precede the reveal, and different reviewers voted for the one    *)
(* outcome it has.                                                         *)
THEOREM ReviewIsSound == ReviewSpec => []ReviewSound
<1>1. ASSUME ReviewInv, NEW l \in ledgers
      PROVE  /\ \A b \in Bound(l) : b.at < l.reveal.at
             /\ Cardinality({b.assignment.reviewer : b \in Bound(l)}) = Cardinality(Bound(l))
             /\ \A p \in Packet \ Disagreement(l.pair[1], l.pair[2]) : l.resolution[p] = l.pair[1].labels[p]
             /\ l.tie # NoTieBreak => \A p \in Packet : l.resolution[p] # Unresolved
  <2> DEFINE left == l.pair[1]
             right == l.pair[2]
             tie == l.tie
  <2>1. /\ RevealOK(l.reveal) /\ l.reveal.pair = l.pair /\ l.reveal.tie = tie
        /\ l.resolution = ResolveLabels(left, right, tie)
    BY <1>1 DEF ReviewInv, LedgerOK
  <2>2. /\ left \in batches /\ right \in batches /\ tie \in batches \cup {NoTieBreak}
        /\ ReviewSequence(left, right, tie) /\ l.reveal.at > LatestCommit(left, right, tie)
    BY <2>1 DEF RevealOK, SequenceOK
  <2>3. ASSUME NEW b \in batches
        PROVE  /\ b.at \in Nat /\ b.assignment.slot \in 1 .. 3
               /\ b.assignment.reviewer \in Invited[b.assignment.slot]
               /\ b.labels \in [b.assignment.packets -> Outcome]
               /\ b.assignment.slot # 3 => b.assignment.packets = Packet
    BY <1>1, <2>3, ReviewAssumption DEF ReviewInv, BatchOK, AssignmentOK
  <2>4. /\ left.assignment.slot = 1 /\ right.assignment.slot = 2
        /\ left.assignment.reviewer # right.assignment.reviewer
        /\ tie # NoTieBreak => tie.assignment.slot = 3 /\ tie.assignment.packets = Disagreement(left, right)
    BY <2>2 DEF ReviewSequence, PrimaryPair
  <2>5. \A b \in Bound(l) : b.at < l.reveal.at
    <3>1. left.at \in Nat /\ right.at \in Nat /\ (tie # NoTieBreak => tie.at \in Nat) /\ l.reveal.at \in Nat
      BY <1>1, <2>1, <2>2, <2>3, ReviewAssumption DEF RevealOK, ReviewInv
    <3>. QED BY <2>2, <3>1 DEF Bound, LatestCommit, Later
  <2>6. Cardinality({b.assignment.reviewer : b \in Bound(l)}) = Cardinality(Bound(l))
    <3>1. left # right
      BY <2>4
    <3>2. CASE tie = NoTieBreak
      <4>1. /\ Bound(l) = {left, right}
            /\ {b.assignment.reviewer : b \in Bound(l)} = {left.assignment.reviewer, right.assignment.reviewer}
        BY <3>2 DEF Bound
      <4>2. Cardinality({left, right}) = 2
        BY <3>1, CardinalityOfPair
      <4>3. Cardinality({left.assignment.reviewer, right.assignment.reviewer}) = 2
        <5>1. left.assignment.reviewer # right.assignment.reviewer
          BY <2>4
        <5>. QED BY ONLY <5>1, CardinalityOfPair
      <4>. QED BY <4>1, <4>2, <4>3
    <3>3. CASE tie # NoTieBreak
      <4>1. /\ Bound(l) = {left, right, tie}
            /\ {b.assignment.reviewer : b \in Bound(l)} =
                  {left.assignment.reviewer, right.assignment.reviewer, tie.assignment.reviewer}
        BY <3>3 DEF Bound
      <4>2. left # tie /\ right # tie
        BY <2>4, <3>3
      <4>3. /\ left.assignment.reviewer \in Invited[1] /\ right.assignment.reviewer \in Invited[2]
            /\ tie.assignment.reviewer \in Invited[3]
        BY <2>2, <2>3, <2>4, <3>3
      <4>4. /\ left.assignment.reviewer # tie.assignment.reviewer
            /\ right.assignment.reviewer # tie.assignment.reviewer
        BY <4>3, ReviewAssumption
      <4>5. Cardinality({left, right, tie}) = 3
        BY <3>1, <4>2, CardinalityOfTriple
      <4>6. Cardinality({left.assignment.reviewer, right.assignment.reviewer, tie.assignment.reviewer}) = 3
        <5>1. left.assignment.reviewer # right.assignment.reviewer
          BY <2>4
        <5>2. PICK x, y, z : /\ x = left.assignment.reviewer /\ y = right.assignment.reviewer
                             /\ z = tie.assignment.reviewer
          OBVIOUS
        <5>3. x # y /\ x # z /\ y # z
          BY <4>4, <5>1, <5>2
        <5>4. Cardinality({x, y, z}) = 3
          BY ONLY <5>3, CardinalityOfTriple
        <5>. QED BY <5>2, <5>4
      <4>. QED BY <4>1, <4>5, <4>6
    <3>. QED BY <3>2, <3>3
  <2>7. \A p \in Packet \ Disagreement(left, right) : l.resolution[p] = left.labels[p]
    BY <2>1 DEF ResolveLabels, Disagreement
  <2>8. ASSUME tie # NoTieBreak, NEW p \in Packet PROVE l.resolution[p] # Unresolved
    <3>1. left.labels[p] \in Outcome
      BY <2>2, <2>3, <2>4
    <3>2. p \in tie.assignment.packets => tie.labels[p] \in Outcome
      BY <2>2, <2>3, <2>8
    <3>3. left.labels[p] # right.labels[p] => p \in tie.assignment.packets
      BY <2>4, <2>8 DEF Disagreement
    <3>. QED BY <2>1, <2>8, <3>1, <3>2, <3>3, ReviewAssumption DEF ResolveLabels
  <2>. QED BY <2>5, <2>6, <2>7, <2>8
<1>2. ASSUME ReviewInv PROVE ReviewTypeOK
  BY <1>2, ReviewAssumption DEF ReviewInv, ReviewTypeOK, AssignmentOK, BatchOK
<1>3. ASSUME ReviewInv PROVE LedgersAgree
  BY <1>3 DEF ReviewInv, LedgersAgree, LedgerOK
<1>4. ReviewInv => ReviewSound
  BY <1>1, <1>2, <1>3 DEF ReviewSound, LabelsPrecedeReveal, ResolvedByVote
<1>. QED BY <1>4, ReviewInvariant, PTL

------------------------------------------------------------------------------
(* The inspection journal.                                                 *)

(* A snapshot of the journal is a prefix of it.  What a clerk is about to  *)
(* publish was built from one; what it confirmed stands on one.            *)
Length == Cardinality(DOMAIN files)

BuiltFrom(w, m) == \E t \in Target, a \in Assessment : w = Event(Prefix(files, m), t, a)

Grounded(c) ==
    \E n \in DOMAIN files :
        ReadyToFinalize(Prefix(files, n)) /\ c = BuildCompletion(Prefix(files, n), c.at)

ClerkOK(p) ==
    /\ jpc[p] \in {"built", "staged"} =>
          \E m \in 0 .. Length : m < MaxEvents /\ BuiltFrom(work[p], m)
    /\ jpc[p] \in {"confirmed", "recorded"} => Grounded(work[p])
    /\ jpc[p] = "recorded" => RecordOf(work[p]) \in records

JournalInv ==
    /\ JournalTypeOK
    /\ files = [n \in DOMAIN files |-> files[n]] /\ work = [p \in Clerk |-> work[p]]
    /\ ChainIntact
    /\ completion # Nothing => Grounded(completion) /\ RecordOf(completion) \in records
    /\ \A p \in strays : jpc[p] \in {"staged", "linked", "dead"}
    /\ \A p \in Clerk : ClerkOK(p)

LEMMA LengthOfChain ==
    ASSUME ChainIntact, DOMAIN files \subseteq 1 .. MaxEvents
    PROVE  /\ IsFiniteSet(DOMAIN files) /\ Length \in 0 .. MaxEvents
           /\ DOMAIN files = 1 .. Length
<1>1. IsFiniteSet(1 .. MaxEvents) /\ Cardinality(1 .. MaxEvents) = MaxEvents
  BY JournalAssumption, FS_Interval
<1>2. IsFiniteSet(DOMAIN files) /\ Length <= MaxEvents
  BY <1>1, FS_Subset DEF Length
<1>3. Length \in Nat
  BY <1>2, FS_CardinalityType DEF Length
<1>. QED BY <1>2, <1>3, JournalAssumption DEF ChainIntact, Contiguous, Length

LEMMA PrefixLength ==
    ASSUME NEW ev, NEW m \in Nat
    PROVE  Cardinality(DOMAIN Prefix(ev, m)) = m
<1>1. DOMAIN Prefix(ev, m) = 1 .. m
  BY DEF Prefix
<1>2. Cardinality(1 .. m) = m
  BY FS_Interval
<1>. QED BY <1>1, <1>2

(* The whole journal is a prefix of itself.                                *)
LEMMA WholeIsPrefix ==
    ASSUME JournalInv
    PROVE  Prefix(files, Length) = files
BY LengthOfChain DEF JournalInv, JournalTypeOK, Prefix

(* An event added at the end leaves every earlier snapshot as it was, and  *)
(* with it everything that was built from one.                             *)
LEMMA SnapshotsStay ==
    ASSUME JournalInv, DOMAIN files \subseteq DOMAIN files',
           \A n \in DOMAIN files : files'[n] = files[n]
    PROVE  /\ \A m \in 0 .. Length : Prefix(files', m) = Prefix(files, m)
           /\ \A c : Grounded(c) => Grounded(c)'
           /\ \A w : \A m \in 0 .. Length : BuiltFrom(w, m) => BuiltFrom(w, m)'
<1>1. DOMAIN files = 1 .. Length /\ Length \in Nat
  BY LengthOfChain DEF JournalInv, JournalTypeOK
<1>2. ASSUME NEW m \in 0 .. Length PROVE Prefix(files', m) = Prefix(files, m)
  <2>1. 1 .. m \subseteq DOMAIN files
    BY <1>1
  <2>. QED BY <2>1 DEF Prefix
<1>3. ASSUME NEW c, Grounded(c) PROVE Grounded(c)'
  <2>1. PICK n \in DOMAIN files :
            ReadyToFinalize(Prefix(files, n)) /\ c = BuildCompletion(Prefix(files, n), c.at)
    BY <1>3 DEF Grounded
  <2>2. Prefix(files', n) = Prefix(files, n) /\ n \in DOMAIN files'
    BY <1>1, <1>2
  <2>. QED BY <2>1, <2>2 DEF Grounded
<1>4. ASSUME NEW w, NEW m \in 0 .. Length, BuiltFrom(w, m) PROVE BuiltFrom(w, m)'
  BY <1>2, <1>4 DEF BuiltFrom
<1>. QED BY <1>2, <1>3, <1>4

(* A step of one clerk that publishes no event and no receipt.             *)
LEMMA ClerkMoves ==
    ASSUME JournalInv, NEW p \in Clerk, JournalTypeOK', work' = [q \in Clerk |-> work'[q]],
           UNCHANGED <<files, completion>>, records \subseteq records',
           strays' \subseteq strays \cup {p}, p \in strays' => jpc'[p] \in {"staged", "linked", "dead"},
           \A q \in Clerk \ {p} : jpc'[q] = jpc[q] /\ work'[q] = work[q],
           ClerkOK(p)'
    PROVE  JournalInv'
<1>1. ASSUME NEW q \in Clerk, q # p PROVE ClerkOK(q)'
  BY <1>1 DEF JournalInv, ClerkOK, Grounded, BuiltFrom, Length
<1>2. ChainIntact' /\ (completion' # Nothing => Grounded(completion)' /\ RecordOf(completion') \in records')
  BY DEF JournalInv, ChainIntact, Grounded
<1>3. \A q \in strays' : jpc'[q] \in {"staged", "linked", "dead"}
  BY DEF JournalInv, JournalTypeOK
<1>. QED BY <1>1, <1>2, <1>3 DEF JournalInv

LEMMA RecordingKeeps ==
    ASSUME JournalInv, NEW p \in Clerk,
           \/ \E t \in Target, a \in Assessment : RecordLoad(p, t, a)
           \/ RecordStage(p) \/ RecordSettle(p) \/ ClerkCrash(p)
    PROVE  JournalInv'
<1>0. /\ JournalTypeOK /\ ClerkOK(p) /\ Length \in 0 .. MaxEvents
      /\ work = [q \in Clerk |-> work[q]]
  BY LengthOfChain DEF JournalInv, JournalTypeOK
<1> USE DEF Go
<1>1. ASSUME NEW t \in Target, NEW a \in Assessment, RecordLoad(p, t, a) PROVE JournalInv'
  <2>1. JournalTypeOK'
    BY <1>0, <1>1 DEF RecordLoad, JournalTypeOK
  <2>2. /\ jpc'[p] = "built" /\ work'[p] = Event(files, t, a) /\ Length < MaxEvents
        /\ UNCHANGED <<files, strays, records, completion>>
    BY <1>0, <1>1 DEF RecordLoad, JournalTypeOK, Length
  <2>3. BuiltFrom(work'[p], Length)
    BY <2>2, WholeIsPrefix DEF BuiltFrom
  <2>4. ClerkOK(p)'
    BY <1>0, <2>2, <2>3 DEF ClerkOK, BuiltFrom, Length
  <2>5. p \notin strays
    BY <1>1 DEF RecordLoad, LoadEvents
  <2>. QED BY <1>0, <1>1, <2>1, <2>4, <2>5, ClerkMoves DEF RecordLoad, JournalTypeOK
<1>2. CASE RecordStage(p)
  <2>1. JournalTypeOK'
    BY <1>0, <1>2 DEF RecordStage, JournalTypeOK
  <2>2. /\ UNCHANGED <<files, records, completion>> /\ jpc[p] = "built"
        /\ \/ jpc'[p] = "staged" /\ work' = work
           \/ jpc'[p] = "idle" /\ strays' = strays
    BY <1>0, <1>2 DEF RecordStage, JournalTypeOK
  <2>3. ClerkOK(p)'
    BY <1>0, <2>2 DEF ClerkOK, BuiltFrom, Length
  <2>4. p \notin strays
    BY <2>2 DEF JournalInv
  <2>. QED BY <1>0, <1>2, <2>1, <2>2, <2>3, <2>4, ClerkMoves DEF RecordStage, JournalTypeOK
<1>3. CASE RecordSettle(p)
  <2>1. JournalTypeOK'
    BY <1>0, <1>3 DEF RecordSettle, JournalTypeOK
  <2>2. jpc'[p] = "idle" /\ p \notin strays'
    BY <1>0, <1>3 DEF RecordSettle, JournalTypeOK
  <2>3. ClerkOK(p)'
    BY <2>2 DEF ClerkOK
  <2>. QED BY <1>0, <1>3, <2>1, <2>2, <2>3, ClerkMoves DEF RecordSettle, JournalTypeOK
<1>4. CASE ClerkCrash(p)
  <2>1. JournalTypeOK'
    BY <1>0, <1>4 DEF ClerkCrash, JournalTypeOK
  <2>2. jpc'[p] = "dead"
    BY <1>0, <1>4 DEF ClerkCrash, JournalTypeOK
  <2>3. ClerkOK(p)'
    BY <2>2 DEF ClerkOK
  <2>. QED BY <1>0, <1>4, <2>1, <2>2, <2>3, ClerkMoves DEF ClerkCrash, JournalTypeOK
<1>. QED BY <1>1, <1>2, <1>3, <1>4

(* The link: it succeeds only under the number after the last, so the      *)
(* event was built from the whole journal.                                 *)
LEMMA LinkingKeeps ==
    ASSUME JournalInv, NEW p \in Clerk, RecordLink(p)
    PROVE  JournalInv'
<1>0. /\ JournalTypeOK /\ ClerkOK(p) /\ ChainIntact
      /\ Length \in 0 .. MaxEvents /\ DOMAIN files = 1 .. Length /\ MaxEvents \in Nat
      /\ work = [q \in Clerk |-> work[q]] /\ files = [n \in 1 .. Length |-> files[n]]
  BY LengthOfChain, JournalAssumption DEF JournalInv, JournalTypeOK
<1>1. /\ jpc[p] = "staged" /\ jpc' = [jpc EXCEPT ![p] = "linked"]
      /\ UNCHANGED <<strays, records, completion, work>>
  BY DEF RecordLink, Go
<1>2. jpc'[p] = "linked" /\ \A q \in Clerk \ {p} : jpc'[q] = jpc[q]
  BY <1>0, <1>1 DEF JournalTypeOK
<1>3. ClerkOK(p)'
  BY <1>2 DEF ClerkOK
<1>4. CASE UNCHANGED files
  <2>1. JournalTypeOK'
    BY <1>0, <1>1, <1>4 DEF JournalTypeOK
  <2>. QED BY <1>0, <1>1, <1>2, <1>3, <1>4, <2>1, ClerkMoves
<1>5. CASE /\ work[p].sequence \notin DOMAIN files
           /\ files' = [n \in DOMAIN files \cup {work[p].sequence} |->
                          IF n = work[p].sequence THEN work[p] ELSE files[n]]
  <2>1. PICK m \in 0 .. Length, t \in Target, a \in Assessment :
            m < MaxEvents /\ work[p] = Event(Prefix(files, m), t, a)
    BY <1>0, <1>1 DEF ClerkOK, BuiltFrom
  <2>2. work[p].sequence = m + 1
    <3>1. Cardinality(DOMAIN Prefix(files, m)) = m
      BY <1>0, PrefixLength
    <3>. QED BY <2>1, <3>1 DEF Event
  <2>3. m = Length
    BY <1>0, <1>5, <2>2
  <2>4. PICK e : e = work[p] /\ e = Event(files, t, a)
    BY <2>1, <2>3, WholeIsPrefix
  <2>5. PICK k \in Nat : k = Length /\ k < MaxEvents
    BY <1>0, <2>1, <2>3
  <2>6. /\ e.sequence = k + 1 /\ e.target = t /\ e.assessment = a
        /\ e.previous = (IF k + 1 = 1 THEN Genesis ELSE files[k]) /\ e.supersedes = Latest(files, t)
    BY <2>4, <2>5 DEF Event, Length
  <2>7. /\ DOMAIN files' = 1 .. k + 1 /\ files'[k + 1] = e
        /\ \A n \in 1 .. k : files'[n] = files[n]
        /\ files' = [n \in DOMAIN files' |-> files'[n]]
    BY <1>0, <1>5, <2>4, <2>5, <2>6
  <2>8. /\ \A n \in 0 .. k : Prefix(files', n) = Prefix(files, n)
        /\ \A c : Grounded(c) => Grounded(c)'
        /\ \A w : \A n \in 0 .. k : BuiltFrom(w, n) => BuiltFrom(w, n)'
    BY <1>0, <2>5, <2>7, SnapshotsStay
  <2>9. Length' = k + 1 /\ Contiguous(files')
    <3>1. Cardinality(1 .. k + 1) = k + 1
      BY FS_Interval
    <3>. QED BY <2>7, <3>1 DEF Length, Contiguous
  <2>10. VerifyJournal(files')
    <3> SUFFICES ASSUME NEW n \in 1 .. k + 1
                 PROVE  /\ files'[n].sequence = n
                        /\ files'[n].previous = IF n = 1 THEN Genesis ELSE files'[n - 1]
                        /\ files'[n].supersedes = Latest(Prefix(files', n - 1), files'[n].target)
      BY <2>7 DEF VerifyJournal
    <3>1. Prefix(files', n - 1) = Prefix(files, n - 1)
      BY <2>8
    <3>2. CASE n \in 1 .. k
      <4>1. /\ files[n].sequence = n
            /\ files[n].previous = IF n = 1 THEN Genesis ELSE files[n - 1]
            /\ files[n].supersedes = Latest(Prefix(files, n - 1), files[n].target)
        BY <1>0, <2>5, <3>2 DEF ChainIntact, VerifyJournal
      <4>2. files'[n] = files[n] /\ (n # 1 => files'[n - 1] = files[n - 1])
        BY <2>7, <3>2
      <4>. QED BY <3>1, <4>1, <4>2
    <3>3. CASE n = k + 1
      <4>1. Prefix(files, k) = files
        BY <2>5, WholeIsPrefix
      <4>2. k + 1 # 1 => files'[k] = files[k]
        BY <2>7
      <4>3. files'[n] = e /\ n - 1 = k
        BY <2>7, <3>3
      <4>. QED BY <2>6, <3>1, <3>3, <4>1, <4>2, <4>3
    <3>. QED BY <3>2, <3>3
  <2>11. JournalTypeOK'
    <3>1. DOMAIN files' \subseteq 1 .. MaxEvents
      BY <1>0, <2>5, <2>7
    <3>2. \A n \in DOMAIN files' : files'[n].target \in Target /\ files'[n].assessment \in Assessment
      BY <1>0, <2>5, <2>6, <2>7 DEF JournalTypeOK
    <3>. QED BY <1>0, <1>1, <3>1, <3>2 DEF JournalTypeOK
  <2>12. ASSUME NEW q \in Clerk, q # p PROVE ClerkOK(q)'
    <3>1. ClerkOK(q) /\ jpc'[q] = jpc[q] /\ work'[q] = work[q] /\ records' = records
      BY <1>1, <1>2, <2>12 DEF JournalInv
    <3>2. ASSUME jpc[q] \in {"built", "staged"}
          PROVE  \E n \in 0 .. Length' : n < MaxEvents /\ BuiltFrom(work[q], n)'
      BY <1>1, <2>5, <2>8, <2>9, <3>1, <3>2 DEF ClerkOK
    <3>. QED BY <2>8, <3>1, <3>2 DEF ClerkOK
  <2>13. completion' # Nothing => Grounded(completion)' /\ RecordOf(completion') \in records'
    BY <1>1, <2>8 DEF JournalInv
  <2>14. \A q \in strays' : jpc'[q] \in {"staged", "linked", "dead"}
    BY <1>0, <1>1, <1>2 DEF JournalInv, JournalTypeOK
  <2>. QED BY <1>0, <1>1, <1>3, <2>7, <2>9, <2>10, <2>11, <2>12, <2>13, <2>14
           DEF JournalInv, ChainIntact
<1>. QED BY <1>4, <1>5 DEF RecordLink

LEMMA FinalizingKeeps ==
    ASSUME JournalInv, NEW p \in Clerk,
           \/ \E at \in InspectedAt : FinalizePlan(p, at) \/ FinalizeLoad(p, at)
           \/ FinalizeRecord(p) \/ FinalizeComplete(p)
    PROVE  JournalInv'
<1>0. /\ JournalTypeOK /\ ClerkOK(p) /\ ChainIntact
      /\ Length \in 0 .. MaxEvents /\ DOMAIN files = 1 .. Length
      /\ work = [q \in Clerk |-> work[q]]
  BY LengthOfChain DEF JournalInv, JournalTypeOK
<1> USE DEF Go
<1>1. ASSUME NEW at \in InspectedAt, FinalizePlan(p, at) PROVE JournalInv'
  <2>1. UNCHANGED <<files, strays, records, completion, jpc, work>>
    BY <1>1 DEF FinalizePlan
  <2>. QED BY <2>1 DEF JournalInv, JournalTypeOK, ChainIntact, ClerkOK, Grounded, BuiltFrom, Length
<1>2. ASSUME NEW at \in InspectedAt, FinalizeLoad(p, at) PROVE JournalInv'
  <2>1. JournalTypeOK'
    BY <1>0, <1>2 DEF FinalizeLoad, JournalTypeOK
  <2>2. /\ jpc'[p] = "confirmed" /\ work'[p] = BuildCompletion(files, at)
        /\ ReadyToFinalize(files) /\ p \notin strays
        /\ UNCHANGED <<files, strays, records, completion>>
    BY <1>0, <1>2 DEF FinalizeLoad, JournalTypeOK, LoadEvents
  <2>3. Length \in DOMAIN files
    <3>1. PICK t \in Target : Latest(files, t) # Nothing
      BY <2>2, JournalAssumption DEF ReadyToFinalize, Answered
    <3>2. DOMAIN files # {}
      BY <3>1 DEF Latest
    <3>. QED BY <1>0, <3>2
  <2>4. work'[p].at = at
    BY <2>2 DEF BuildCompletion
  <2>5. Grounded(work'[p])
    BY <2>2, <2>3, <2>4, WholeIsPrefix DEF Grounded
  <2>6. ClerkOK(p)'
    BY <2>2, <2>5 DEF ClerkOK, Grounded
  <2>. QED BY <1>0, <1>2, <2>1, <2>2, <2>6, ClerkMoves DEF FinalizeLoad, JournalTypeOK
<1>3. CASE FinalizeRecord(p)
  <2>1. JournalTypeOK'
    BY <1>0, <1>3 DEF FinalizeRecord, JournalTypeOK
  <2>2. /\ jpc[p] = "confirmed" /\ UNCHANGED <<files, strays, completion>> /\ records \subseteq records'
        /\ \/ jpc'[p] = "recorded" /\ work' = work /\ RecordOf(work[p]) \in records'
           \/ jpc'[p] = "idle"
    BY <1>0, <1>3 DEF FinalizeRecord, JournalTypeOK
  <2>3. ClerkOK(p)'
    BY <1>0, <2>2 DEF ClerkOK, Grounded
  <2>4. p \notin strays
    BY <2>2 DEF JournalInv
  <2>. QED BY <1>0, <1>3, <2>1, <2>2, <2>3, <2>4, ClerkMoves DEF FinalizeRecord, JournalTypeOK
<1>4. CASE FinalizeComplete(p)
  <2>1. JournalTypeOK'
    BY <1>0, <1>4 DEF FinalizeComplete, JournalTypeOK
  <2>2. /\ jpc[p] = "recorded" /\ jpc'[p] = "idle" /\ UNCHANGED <<files, strays, records>>
        /\ completion' \in {completion, work[p]}
        /\ \A q \in Clerk \ {p} : jpc'[q] = jpc[q] /\ work'[q] = work[q]
        /\ work' = [q \in Clerk |-> work'[q]]
    BY <1>0, <1>4 DEF FinalizeComplete, JournalTypeOK
  <2>3. Grounded(work[p]) /\ RecordOf(work[p]) \in records
    BY <1>0, <2>2 DEF ClerkOK
  <2>4. completion' # Nothing => Grounded(completion') /\ RecordOf(completion') \in records'
    BY <2>2, <2>3 DEF JournalInv
  <2>5. ASSUME NEW q \in Clerk PROVE ClerkOK(q)'
    BY <2>2 DEF JournalInv, ClerkOK, Grounded, BuiltFrom, Length
  <2>6. \A q \in strays' : jpc'[q] \in {"staged", "linked", "dead"}
    BY <1>0, <2>2 DEF JournalInv, JournalTypeOK
  <2>7. ChainIntact' /\ files' = [n \in DOMAIN files' |-> files'[n]]
    BY <2>2 DEF JournalInv, ChainIntact
  <2>8. Grounded(completion)' <=> Grounded(completion')
    BY <2>2 DEF Grounded
  <2>. QED BY <2>1, <2>2, <2>4, <2>5, <2>6, <2>7, <2>8 DEF JournalInv
<1>. QED BY <1>1, <1>2, <1>3, <1>4

(* The inductive invariant of an inspection: what is being published was   *)
(* built from a prefix of the journal (pilot_inspection_journal.go).       *)
THEOREM JournalInvariant == JournalSpec => []JournalInv
<1>1. JournalInit => JournalInv
  <2> SUFFICES ASSUME JournalInit PROVE JournalInv
    OBVIOUS
  <2>1. DOMAIN files = {} /\ files = [n \in DOMAIN files |-> files[n]]
    BY DEF JournalInit
  <2>2. Cardinality({}) = 0 /\ {} = 1 .. 0
    BY FS_EmptySet
  <2>3. ChainIntact
    BY <2>1, <2>2 DEF ChainIntact, Contiguous, VerifyJournal
  <2>. QED BY <2>1, <2>3 DEF JournalInit, JournalInv, JournalTypeOK, ClerkOK
<1>2. JournalInv /\ [JournalNext]_journalVars => JournalInv'
  <2> SUFFICES ASSUME JournalInv, [JournalNext]_journalVars PROVE JournalInv'
    OBVIOUS
  <2>1. CASE UNCHANGED journalVars
    BY <2>1 DEF journalVars, JournalInv, JournalTypeOK, ChainIntact, ClerkOK, Grounded, BuiltFrom, Length
  <2>. QED BY <2>1, RecordingKeeps, LinkingKeeps, FinalizingKeeps DEF JournalNext
<1>. QED BY <1>1, <1>2, PTL DEF JournalSpec

(* The chain stays without a gap and loadable, and a receipt is what a     *)
(* complete prefix of it yields, with its record published, for any number *)
(* of clerks, targets and events and wherever they die.                    *)
THEOREM InspectionIsSound == JournalSpec => []JournalSound
<1>1. JournalInv => JournalSound
  <2> SUFFICES ASSUME JournalInv PROVE JournalSound
    OBVIOUS
  <2>1. RefusedOnlyByStrays
    BY DEF JournalInv, RefusedOnlyByStrays, LoadEvents, ChainIntact
  <2>2. ReceiptIsGrounded
    BY DEF JournalInv, ReceiptIsGrounded, Grounded
  <2>. QED BY <2>1, <2>2 DEF JournalInv, JournalSound
<1>. QED BY <1>1, JournalInvariant, PTL

(* What OverallStatus counts: a status is reached by one subject.          *)
LEMMA StatusIsWorst ==
    ASSUME NEW latest, NEW subjects, IsFiniteSet(subjects)
    PROVE  LET some(d) == \E s \in subjects : SubjectDisposition(latest, s) = d
           IN  OverallStatus(latest, subjects) =
                  IF some("revision_required") THEN "revision_required"
                  ELSE IF some("unresolved") THEN "unresolved" ELSE "passed"
<1> DEFINE of(d) == {s \in subjects : SubjectDisposition(latest, s) = d}
<1>1. ASSUME NEW d PROVE (Cardinality(of(d)) > 0) <=> (of(d) # {})
  <2>1. IsFiniteSet(of(d)) /\ Cardinality(of(d)) \in Nat
    BY FS_Subset, FS_CardinalityType
  <2>2. (Cardinality(of(d)) = 0) <=> (of(d) = {})
    BY <2>1, FS_EmptySet
  <2>. QED BY <2>1, <2>2
<1>2. (of("revision_required") # {}) <=> \E s \in subjects : SubjectDisposition(latest, s) = "revision_required"
  OBVIOUS
<1>3. (of("unresolved") # {}) <=> \E s \in subjects : SubjectDisposition(latest, s) = "unresolved"
  OBVIOUS
<1>. QED BY <1>1, <1>2, <1>3 DEF OverallStatus

(* The receipt is exactly as strict as the assessments taken together, for *)
(* any subjects, dimensions and answers (BuildPilotInspectionCompletion).  *)
THEOREM VerdictIsStrict ==
    ASSUME NEW T, IsFiniteSet(T), NEW latest \in [T -> {"passed", "failed", "indeterminate"}],
           NEW core, IsFiniteSet(core)
    PROVE  VerdictIsConservative(latest, core)
<1> DEFINE subjects == {t[1] : t \in DOMAIN latest}
           rest == subjects \ core
           worst(S, d) == \E s \in S : SubjectDisposition(latest, s) = d
           status(S) == IF worst(S, "revision_required") THEN "revision_required"
                        ELSE IF worst(S, "unresolved") THEN "unresolved" ELSE "passed"
           all == {latest[t] : t \in DOMAIN latest}
<1>1. IsFiniteSet(rest)
  <2>1. IsFiniteSet(subjects)
    <3> DEFINE f == [t \in T |-> t[1]]
    <3>1. f \in Surjection(T, subjects)
      BY DEF Surjection
    <3>. QED BY <3>1, FS_Surjection
  <2>. QED BY <2>1, FS_Difference
<1>2. /\ Verdict(latest, core).overall = CombineStatuses(OverallStatus(latest, core), OverallStatus(latest, rest))
      /\ Verdict(latest, core).reasons = [x \in core |-> Reasons(latest, x)]
  BY DEF Verdict
<1>3. OverallStatus(latest, core) = status(core) /\ OverallStatus(latest, rest) = status(rest)
  BY <1>1, StatusIsWorst
<1>4. worst(core, "revision_required") \/ worst(rest, "revision_required") <=> "failed" \in all
  BY DEF SubjectDisposition, Disposition
<1>5. worst(core, "revision_required") \/ worst(rest, "revision_required")
        \/ worst(core, "unresolved") \/ worst(rest, "unresolved") <=> ~(all \subseteq {"passed"})
  BY DEF SubjectDisposition, Disposition
<1>6. ASSUME NEW x \in core
      PROVE  (Reasons(latest, x) = {}) <=> (SubjectDisposition(latest, x) = "accepted")
  BY DEF SubjectDisposition, Disposition, Reasons
<1>. QED BY <1>2, <1>3, <1>4, <1>5, <1>6 DEF VerdictIsConservative, CombineStatuses

------------------------------------------------------------------------------
(* The composed specification: a behaviour of it is one of each part.      *)

LEMMA PairIsFinite ==
    ASSUME NEW x, NEW y PROVE IsFiniteSet({x, y})
<1>1. IsFiniteSet({} \cup {x})
  BY FS_EmptySet, FS_AddElement
<1>2. IsFiniteSet(({} \cup {x}) \cup {y})
  BY <1>1, FS_AddElement
<1>3. ({} \cup {x}) \cup {y} = {x, y}
  OBVIOUS
<1>. QED BY <1>2, <1>3

LEMMA SixQuestions == IsFiniteSet(Questions) /\ IsFiniteSet({"packet", "other"})
<1>1. IsFiniteSet({"packet", "other"}) /\ IsFiniteSet({"rubric", "omission"})
  BY PairIsFinite
<1>2. IsFiniteSet({"packet", "other"} \cup {"sentinel"})
  BY <1>1, FS_AddElement
<1>3. {"packet", "other"} \cup {"sentinel"} = {"packet", "other", "sentinel"}
  OBVIOUS
<1>. QED BY <1>1, <1>2, <1>3, FS_Product DEF Questions

(* The receipt's verdict is as strict as all the assessments together, for *)
(* each of the inputs that MCArtifacts enumerates.                         *)
THEOREM ReceiptStaysStrict == ArtifactSpec => []ReceiptIsStrict
<1> DEFINE Answers == answers \in [Questions -> {"passed", "failed", "indeterminate"}]
<1>1. ArtifactInit => Answers
  BY DEF ArtifactInit, Unanswered
<1>2. Answers /\ [ArtifactNext]_<<artifactVars, part, answers>> => Answers'
  BY DEF ArtifactNext
<1>3. Answers => ReceiptIsStrict
  BY SixQuestions, VerdictIsStrict DEF ReceiptIsStrict
<1>. QED BY <1>1, <1>2, <1>3, PTL DEF ArtifactSpec

LEMMA ArtifactsPublish == ArtifactSpec => ExclusiveSpec
<1>1. ArtifactInit => ExclusiveInit
  BY DEF ArtifactInit
<1>2. [ArtifactNext]_<<artifactVars, part, answers>> => [ExclusiveNext]_exclusiveVars
  BY DEF ArtifactNext, artifactVars
<1>. QED BY <1>1, <1>2, PTL DEF ArtifactSpec, ExclusiveSpec

LEMMA ArtifactsCreateRoot == ArtifactSpec => CacheRootSpec
<1>1. ArtifactInit => CacheRootInit
  BY DEF ArtifactInit
<1>2. [ArtifactNext]_<<artifactVars, part, answers>> => [CacheRootNext]_cacheRootVars
  BY DEF ArtifactNext, artifactVars
<1>. QED BY <1>1, <1>2, PTL DEF ArtifactSpec, CacheRootSpec

(* A published file and the identity of a cache root are write-once        *)
(* registers: PublishSensitiveExclusive and CreateCacheRoot decide once,   *)
(* and tell what was decided.                                              *)
THEOREM ArtifactsAreDecidedOnce == ArtifactSpec => DecidedOnce
BY ArtifactsPublish, ArtifactsCreateRoot, ExclusiveRefinesWriteOnce, CacheRootRefinesWriteOnce, PTL
   DEF DecidedOnce
=============================================================================
