------------------------ MODULE VerificationRunProofs ------------------------
(***************************************************************************)
(* What a verification run reports is what happened, for any number of     *)
(* runs, batch sizes, workers and runtimes.                                *)
(***************************************************************************)
EXTENDS VerificationRun, FiniteSetTheorems, WellFoundedInduction, TLAPS

Stage == {"idle", "open", "opening", "dispatch", "rows", "close", "done"}

(* The shape of the state, run by run.                                     *)
ShapeInv ==
    /\ pc \in [Run -> Stage] /\ err \in [Run -> BOOLEAN] /\ cleanupOK \in [Run -> BOOLEAN]
    /\ DOMAIN item = Run /\ DOMAIN row = Run
    /\ life \in [Run -> SUBSET {"open", "execution", "cleanup", "audit"}]
    /\ itemAudit \in [Run -> SUBSET Nat] /\ closed \in [Run -> Nat \X Nat]
    /\ \A r \in Run : item[r] \in [Items(r) -> ItemState] /\ row[r] \in [Items(r) -> Status]

(* What has been recorded of a run at each place it can be.                *)
BeforeClose(r) ==
    pc[r] \in {"idle", "open", "opening", "dispatch"} =>
        /\ life[r] \subseteq {"open"} /\ (pc[r] = "dispatch" => life[r] = {"open"})
        /\ closed[r][1] = 0

BeforeRows(r) ==
    pc[r] \in {"idle", "open", "opening", "dispatch", "rows"} => \A i \in Items(r) : row[r][i] = "none"

AfterClose(r) ==
    pc[r] \in {"rows", "close"} =>
        /\ closed[r][1] = 1
        /\ "open" \in life[r]
        /\ "execution" \in life[r] <=> AllComplete(r)
        /\ "cleanup" \in life[r] <=> cleanupOK[r]

AfterRows(r) ==
    pc[r] = "close" =>
        /\ \A i \in Items(r) : row[r][i] \in {"lost", status(r, i)}
        /\ itemAudit[r] = {i \in Items(r) : row[r][i] # "lost"}

StageInv == \A r \in Run : BeforeClose(r) /\ BeforeRows(r) /\ AfterClose(r) /\ AfterRows(r)

RunInv == ShapeInv /\ StageInv /\ RowsTruthful /\ SuccessIsWhole

(* The invariant of one run, and what it depends on.                       *)
RunPart(r) ==
    /\ BeforeClose(r) /\ BeforeRows(r) /\ AfterClose(r) /\ AfterRows(r)
    /\ \A i \in Items(r) :
          /\ row[r][i] # "none" => closed[r][1] = 1
          /\ row[r][i] = "decision_complete" => item[r][i] = "complete" /\ "cleanup" \in life[r]
    /\ "execution" \in life[r] => AllComplete(r)
    /\ pc[r] = "done" /\ ~err[r] =>
          /\ life[r] = {"open", "execution", "cleanup", "audit"}
          /\ itemAudit[r] = Items(r)
          /\ \A i \in Items(r) : row[r][i] = "decision_complete"

LEMMA RunInvParts == RunInv <=> ShapeInv /\ \A r \in Run : RunPart(r)
BY DEF RunInv, StageInv, RowsTruthful, SuccessIsWhole, RunPart

LEMMA RunPartKept ==
    ASSUME NEW r \in Run, RunPart(r),
           pc'[r] = pc[r], item'[r] = item[r], life'[r] = life[r], itemAudit'[r] = itemAudit[r],
           row'[r] = row[r], cleanupOK'[r] = cleanupOK[r], closed'[r] = closed[r], err'[r] = err[r]
    PROVE  RunPart(r)'
BY DEF RunPart, BeforeClose, BeforeRows, AfterClose, AfterRows, AllComplete, status, Items

LEMMA RunInitInv == RunInit => RunInv
<1> SUFFICES ASSUME RunInit PROVE RunInv
  OBVIOUS
<1>1. ShapeInv
  BY DEF RunInit, ShapeInv, Stage, ItemState, Status
<1>2. ASSUME NEW r \in Run PROVE RunPart(r)
  BY DEF RunInit, RunPart, BeforeClose, BeforeRows, AfterClose, AfterRows
<1> QED
  BY <1>1, <1>2, RunInvParts

(* The shape is kept by every step of a run, and the other runs' parts of  *)
(* the state are left alone.                                               *)
Others(r) ==
    \A s \in Run \ {r} :
        /\ pc'[s] = pc[s] /\ item'[s] = item[s] /\ life'[s] = life[s] /\ itemAudit'[s] = itemAudit[s]
        /\ row'[s] = row[s] /\ cleanupOK'[s] = cleanupOK[s] /\ closed'[s] = closed[s] /\ err'[s] = err[s]

LEMMA StepSuffices ==
    ASSUME RunInv, NEW r \in Run, ShapeInv', Others(r), RunPart(r)' PROVE RunInv'
<1>1. ASSUME NEW s \in Run PROVE RunPart(s)'
  <2>1. CASE s = r
    BY <2>1
  <2>2. CASE s # r
    BY <2>2, RunInvParts, RunPartKept DEF Others
  <2> QED
    BY <2>1, <2>2
<1>2. ShapeInv' /\ (\A s \in Run : RunPart(s)') => RunInv'
  BY DEF RunInv, StageInv, RowsTruthful, SuccessIsWhole, RunPart
<1> QED
  BY <1>1, <1>2

LEMMA OpeningInv ==
    ASSUME RunInv, NEW r \in Run,
           \/ Execute(r) \/ acquireRuntimeSlot(r) \/ GiveUpWaiting(r)
           \/ OpenFails(r) \/ OpenRuntime(r) \/ OpenWithoutRunner(r)
    PROVE  RunInv'
<1>0. ShapeInv /\ RunPart(r)
  BY RunInvParts
<1> USE DEF ShapeInv, Stage, Others, Fail
<1>1. CASE Execute(r) \/ acquireRuntimeSlot(r)
  <2>1. ShapeInv' /\ Others(r)
    BY <1>0, <1>1 DEF Execute, acquireRuntimeSlot
  <2>2. RunPart(r)'
    BY <1>0, <1>1 DEF Execute, acquireRuntimeSlot, RunPart, BeforeClose, BeforeRows, AfterClose, AfterRows, AllComplete, Items
  <2> QED
    BY <2>1, <2>2, StepSuffices
<1>2. CASE GiveUpWaiting(r) \/ OpenFails(r)
  <2>1. ShapeInv' /\ Others(r)
    BY <1>0, <1>2 DEF GiveUpWaiting, OpenFails
  <2>2. RunPart(r)'
    BY <1>0, <1>2 DEF GiveUpWaiting, OpenFails, RunPart, BeforeClose, BeforeRows, AfterClose, AfterRows, AllComplete, Items
  <2> QED
    BY <2>1, <2>2, StepSuffices
<1>3. CASE OpenRuntime(r)
  <2>1. ShapeInv' /\ Others(r)
    BY <1>0, <1>3 DEF OpenRuntime
  <2>2. RunPart(r)'
    BY <1>0, <1>3 DEF OpenRuntime, RunPart, BeforeClose, BeforeRows, AfterClose, AfterRows, AllComplete, Items
  <2> QED
    BY <2>1, <2>2, StepSuffices
<1>4. CASE OpenWithoutRunner(r)
  <2>1. ShapeInv' /\ Others(r)
    BY <1>0, <1>4 DEF OpenWithoutRunner
  <2>2. RunPart(r)'
    BY <1>0, <1>4 DEF OpenWithoutRunner, RunPart, BeforeClose, BeforeRows, AfterClose, AfterRows, AllComplete, Items
  <2> QED
    BY <2>1, <2>2, StepSuffices
<1> QED
  BY <1>1, <1>2, <1>3, <1>4

(* Items change only while the run dispatches, when nothing is recorded.   *)
LEMMA ItemInv ==
    ASSUME RunInv, NEW r \in Run, NEW i \in Items(r), NEW from \in ItemState, NEW to \in ItemState,
           SetItem(r, i, from, to)
    PROVE  RunInv'
<1>0. ShapeInv /\ RunPart(r)
  BY RunInvParts
<1>1. ShapeInv' /\ Others(r)
  BY <1>0 DEF SetItem, ShapeInv, Others, Items
<1>2. RunPart(r)'
  BY <1>0 DEF ShapeInv, SetItem, RunPart, BeforeClose, BeforeRows, AfterClose, AfterRows, AllComplete, Items
<1> QED
  BY <1>1, <1>2, StepSuffices

LEMMA ClosingInv ==
    ASSUME RunInv, NEW r \in Run, closeRuntimeResources(r) \/ writeRunAudit(r) \/ closeRuntimeAudit(r)
    PROVE  RunInv'
<1>0. ShapeInv /\ RunPart(r)
  BY RunInvParts
<1>n. Items(r) \subseteq Nat
  BY RunAssumption DEF Items
<1>1. CASE closeRuntimeResources(r)
  <2>1. ShapeInv' /\ Others(r)
    BY <1>0, <1>1 DEF closeRuntimeResources, ShapeInv, Stage, Others, ExecutionStage
  <2>2. RunPart(r)'
    BY <1>0, <1>1 DEF closeRuntimeResources, ShapeInv, ExecutionStage, RunPart, BeforeClose, BeforeRows,
                      AfterClose, AfterRows, AllComplete, Items
  <2> QED
    BY <2>1, <2>2, StepSuffices
<1>2. CASE writeRunAudit(r)
  <2>1. ShapeInv' /\ Others(r)
    BY <1>0, <1>n, <1>2 DEF writeRunAudit, ShapeInv, Stage, Others, status, Status, Items
  <2>2. RunPart(r)'
    BY <1>0, <1>2 DEF writeRunAudit, ShapeInv, RunPart, BeforeClose, BeforeRows,
                      AfterClose, AfterRows, AllComplete, status, Items
  <2> QED
    BY <2>1, <2>2, StepSuffices
<1>3. CASE closeRuntimeAudit(r)
  <2>1. ShapeInv' /\ Others(r)
    BY <1>0, <1>3 DEF closeRuntimeAudit, ShapeInv, Stage, Others, Failed
  <2>2. PICK ok \in BOOLEAN :
           /\ life'[r] = IF ok THEN life[r] \cup {"audit"} ELSE life[r] \ {"audit"}
           /\ itemAudit'[r] = IF ok THEN itemAudit[r] ELSE {}
           /\ err'[r] = Failed(r, ~ok)
    BY <1>0, <1>3 DEF closeRuntimeAudit, ShapeInv
  <2>3. /\ pc[r] = "close" /\ pc'[r] = "done" /\ item' = item /\ row' = row /\ cleanupOK' = cleanupOK
        /\ closed'[r][1] = closed[r][1]
    BY <1>0, <1>3 DEF closeRuntimeAudit, ShapeInv
  <2>4. ASSUME ~err'[r] PROVE ok /\ AllComplete(r) /\ cleanupOK[r] /\ \A i \in Items(r) : row[r][i] # "lost"
    BY <2>2, <2>4 DEF Failed
  <2>5. ASSUME ~err'[r]
        PROVE  /\ life'[r] = {"open", "execution", "cleanup", "audit"}
               /\ itemAudit'[r] = Items(r)
               /\ \A i \in Items(r) : row'[r][i] = "decision_complete"
    <3>0. /\ life[r] \subseteq {"open", "execution", "cleanup", "audit"}
          /\ {"open", "execution", "cleanup"} \subseteq life[r]
      BY <1>0, <2>3, <2>4, <2>5 DEF ShapeInv, RunPart, AfterClose
    <3>1. life'[r] = {"open", "execution", "cleanup", "audit"}
      BY <3>0, <2>2, <2>4, <2>5
    <3>2. itemAudit'[r] = {i \in Items(r) : row[r][i] # "lost"}
      BY <1>0, <2>2, <2>3, <2>4, <2>5 DEF RunPart, AfterRows
    <3>3. \A i \in Items(r) : row[r][i] = status(r, i)
      BY <1>0, <2>3, <2>4, <2>5 DEF RunPart, AfterRows
    <3>4. \A i \in Items(r) : row'[r][i] = "decision_complete"
      BY <2>3, <2>4, <2>5, <3>3 DEF status, AllComplete
    <3> QED
      BY <2>4, <2>5, <3>1, <3>2, <3>4
  <2>6. (BeforeClose(r) /\ BeforeRows(r) /\ AfterClose(r) /\ AfterRows(r))'
    BY <2>3 DEF BeforeClose, BeforeRows, AfterClose, AfterRows
  <2>7. \A stage \in {"execution", "cleanup"} : stage \in life'[r] <=> stage \in life[r]
    BY <2>2
  <2>8. (AllComplete(r))' <=> AllComplete(r)
    BY <2>3 DEF AllComplete, Items
  <2>9. RunPart(r)
    BY <1>0
  <2>10. /\ \A i \in Items(r) :
               /\ row'[r][i] # "none" => closed'[r][1] = 1
               /\ row'[r][i] = "decision_complete" => item'[r][i] = "complete" /\ "cleanup" \in life'[r]
         /\ "execution" \in life'[r] => (AllComplete(r))'
    BY <2>3, <2>7, <2>8, <2>9 DEF RunPart
  <2>11. RunPart(r)'
    BY <2>5, <2>6, <2>10 DEF RunPart, Items
  <2> QED
    BY <2>1, <2>11, StepSuffices
<1> QED
  BY <1>1, <1>2, <1>3

(* What run r may do next, whoever drives it.                              *)
RunActs(r) == Execute(r) \/ acquireRuntimeSlot(r) \/ GiveUpWaiting(r) \/ RunStep(r)

(* Contexts end, and nothing else happens to the runs.                     *)
ContextsOnly == UNCHANGED <<slots, pc, item, life, itemAudit, row, cleanupOK, closed, err>>

LEMMA RunActsInv == ASSUME RunInv, NEW r \in Run, RunActs(r) PROVE RunInv'
<1>1. ASSUME NEW i \in Items(r), ItemStep(r, i) PROVE RunInv'
  BY <1>1, ItemInv DEF ItemStep, Spawn, Begin, SkipItem, FailItem, EndItem, PaceItem, CutPace, ItemState
<1> QED
  BY <1>1, OpeningInv, ClosingInv DEF RunStep, RunActs

LEMMA ContextsInv == ASSUME RunInv, ContextsOnly PROVE RunInv'
<1>1. ShapeInv'
  BY DEF ContextsOnly, RunInv, ShapeInv, Items
<1>2. ASSUME NEW s \in Run PROVE RunPart(s)'
  BY RunInvParts, RunPartKept DEF ContextsOnly
<1>3. ShapeInv' /\ (\A s \in Run : RunPart(s)') => RunInv'
  BY DEF RunInv, StageInv, RowsTruthful, SuccessIsWhole, RunPart
<1> QED
  BY <1>1, <1>2, <1>3

LEMMA RunNextParts ==
    ASSUME [RunNext]_runVars
    PROVE  \/ \E r \in Run : RunActs(r)
           \/ ContextsOnly /\ (cancelled' = cancelled \/ \E r \in Run : cancelled' = cancelled \cup {r})
BY DEF RunNext, RunActs, RunCancelled, AllDone, runVars, ContextsOnly

LEMMA RunStepInv == RunInv /\ [RunNext]_runVars => RunInv'
BY RunNextParts, RunActsInv, ContextsInv

LEMMA RunInvariant == RunSpec => []RunInv
BY RunInitInv, RunStepInv, PTL DEF RunSpec

(* A run's rows and its result claim no success that was not had, whatever *)
(* failed, was cancelled or was lost on the way, for any number of runs.   *)
THEOREM RunReportsAreTruthful == RunSpec => []ReportsTruthful
<1>1. RunInv => ReportsTruthful
  BY DEF RunInv, ReportsTruthful
<1> QED
  BY <1>1, RunInvariant, PTL

(* What a step does to the items of stopped batches, whoever drives runs.  *)
LEMMA StoppedStaysStopped ==
    ASSUME RunInv, (\E r \in Run : RunActs(r)) \/ ContextsOnly
    PROVE  [\A r \in Batch : \A i \in Items(r) :
               groupDone(r) /\ item'[r][i] = "running" => item[r][i] = "running"]_runVars
<1> SUFFICES ASSUME NEW r \in Batch, NEW i \in Items(r), groupDone(r), item'[r][i] = "running"
             PROVE  item[r][i] = "running"
  OBVIOUS
<1>0. r \in Run /\ ShapeInv
  BY RunAssumption DEF RunInv
<1>1. ASSUME NEW s \in Run, NEW j \in Items(s), ItemStep(s, j) PROVE item[r][i] = "running"
  <2>1. PICK from \in ItemState, to \in ItemState :
           SetItem(s, j, from, to) /\ (to = "running" => (s \in Batch => ~groupDone(s)))
    BY <1>1 DEF ItemStep, Spawn, Begin, SkipItem, FailItem, EndItem, PaceItem, CutPace, ItemState
  <2>2. item' = [item EXCEPT ![s][j] = to]
    BY <2>1 DEF SetItem
  <2>3. CASE s = r /\ j = i
    BY <1>0, <2>1, <2>2, <2>3 DEF ShapeInv
  <2>4. CASE s # r \/ j # i
    BY <1>0, <2>2, <2>4 DEF ShapeInv
  <2> QED
    BY <2>3, <2>4
<1>2. CASE item' = item
  BY <1>2
<1> QED
  BY <1>1, <1>2 DEF RunActs, RunStep, Execute, acquireRuntimeSlot, GiveUpWaiting, OpenFails,
     OpenRuntime, OpenWithoutRunner, closeRuntimeResources, writeRunAudit, closeRuntimeAudit, ContextsOnly

(* A batch dispatches no item once one has failed or its caller cancelled. *)
THEOREM RunStopsDispatching == RunSpec => NoDispatchAfterStop
<1>1. RunInv /\ [RunNext]_runVars
        => [\A r \in Batch : \A i \in Items(r) :
               groupDone(r) /\ item'[r][i] = "running" => item[r][i] = "running"]_runVars
  BY RunNextParts, StoppedStaysStopped
<1> QED
  BY <1>1, RunInvariant, PTL DEF RunSpec, NoDispatchAfterStop

------------------------------------------------------------------------------
(* Resources: runtime slots, the runtime and sink of a run, its workers.   *)

Holding == {r \in Run : pc[r] \in {"opening", "dispatch"}}

(* How often the runtime and the sink of a run were closed, by its place.  *)
ClosedPart(r) ==
    /\ pc[r] \in {"idle", "open", "opening", "dispatch"} => closed[r] = <<0, 0>>
    /\ pc[r] \in {"rows", "close"} => closed[r] = <<1, 0>>
    /\ pc[r] = "done" => closed[r] = <<1, 1>> \/ (closed[r] = <<0, 0>> /\ "open" \notin life[r])
    /\ pc[r] \in {"idle", "open", "opening"} => life[r] = {}

WorkersPart(r) == r \in Batch => Cardinality(Busy(r)) <= MaxWorkers

SlotInv == slots = Cardinality(Holding) /\ slots <= MaxRuntimes

ResourceInv ==
    /\ SlotInv /\ cancelled \subseteq Run
    /\ \A r \in Run : ClosedPart(r) /\ WorkersPart(r) /\ itemAudit[r] \subseteq Items(r)

LEMMA BusyFinite ==
    ASSUME NEW r \in Run PROVE IsFiniteSet(Items(r)) /\ IsFiniteSet(Busy(r)) /\ Cardinality(Busy(r)) \in Nat
<1>1. Size[r] \in Int /\ 1 \in Int
  BY RunAssumption
<1>2. IsFiniteSet(Items(r))
  BY <1>1, FS_Interval DEF Items
<1>3. Busy(r) \subseteq Items(r)
  BY DEF Busy
<1> QED
  BY <1>2, <1>3, FS_Subset, FS_CardinalityType

LEMMA HoldingFinite == IsFiniteSet(Holding) /\ Cardinality(Holding) \in Nat
<1>1. Holding \subseteq Run
  BY DEF Holding
<1> QED
  BY <1>1, RunAssumption, FS_Subset, FS_CardinalityType

(* The slot count follows the set of holders.                              *)
LEMMA SlotTaken ==
    ASSUME SlotInv, NEW r \in Run, r \notin Holding, Holding' = Holding \cup {r},
           slots < MaxRuntimes, slots' = slots + 1
    PROVE  SlotInv'
<1>1. Cardinality(Holding \cup {r}) = Cardinality(Holding) + 1
  BY HoldingFinite, FS_AddElement
<1>2. Cardinality(Holding') = Cardinality(Holding) + 1
  BY <1>1
<1> QED
  BY <1>2, HoldingFinite, RunAssumption DEF SlotInv

LEMMA SlotReturned ==
    ASSUME SlotInv, NEW r \in Run, r \in Holding, Holding' = Holding \ {r}, slots' = slots - 1
    PROVE  SlotInv'
<1>1. Cardinality(Holding \ {r}) = Cardinality(Holding) - 1
  BY HoldingFinite, FS_RemoveElement
<1>2. Cardinality(Holding') = Cardinality(Holding) - 1
  BY <1>1
<1> QED
  BY <1>2, HoldingFinite, RunAssumption DEF SlotInv

LEMMA SlotKept ==
    ASSUME SlotInv, Holding' = Holding, slots' = slots
    PROVE  SlotInv'
BY DEF SlotInv

LEMMA ResourceInitInv == RunInit => ResourceInv
<1> SUFFICES ASSUME RunInit PROVE ResourceInv
  OBVIOUS
<1>1. Holding = {}
  BY DEF RunInit, Holding
<1>2. SlotInv
  BY <1>1, FS_EmptySet, RunAssumption DEF SlotInv, RunInit
<1>3. ASSUME NEW r \in Run PROVE ClosedPart(r) /\ WorkersPart(r) /\ itemAudit[r] \subseteq Items(r)
  <2>1. Busy(r) = {}
    BY DEF Busy, RunInit
  <2>2. WorkersPart(r)
    BY <2>1, FS_EmptySet, RunAssumption DEF WorkersPart
  <2>3. ClosedPart(r) /\ itemAudit[r] \subseteq Items(r)
    BY DEF ClosedPart, RunInit
  <2> QED
    BY <2>2, <2>3
<1>4. cancelled \subseteq Run
  BY DEF RunInit
<1> QED
  BY <1>2, <1>3, <1>4 DEF ResourceInv

(* The parts of the other runs are left alone.                             *)
LEMMA ResourceSuffices ==
    ASSUME ResourceInv, NEW r \in Run, Others(r), cancelled' = cancelled,
           SlotInv', ClosedPart(r)', WorkersPart(r)', itemAudit'[r] \subseteq Items(r)
    PROVE  ResourceInv'
<1>1. ASSUME NEW s \in Run, s # r
      PROVE  ClosedPart(s)' /\ WorkersPart(s)' /\ itemAudit'[s] \subseteq Items(s)
  <2>1. Busy(s)' = Busy(s)
    BY <1>1 DEF Others, Busy, Items
  <2>2. ClosedPart(s) /\ WorkersPart(s) /\ itemAudit[s] \subseteq Items(s)
    BY DEF ResourceInv
  <2> QED
    BY <1>1, <2>1, <2>2 DEF Others, ClosedPart, WorkersPart
<1>2. \A s \in Run : ClosedPart(s)' /\ WorkersPart(s)' /\ itemAudit'[s] \subseteq Items(s)
  BY <1>1
<1>3. cancelled' \subseteq Run
  BY DEF ResourceInv
<1> QED
  BY <1>2, <1>3 DEF ResourceInv, Items

LEMMA ItemResources ==
    ASSUME RunInv, ResourceInv, NEW r \in Run, NEW i \in Items(r), ItemStep(r, i)
    PROVE  ResourceInv'
<1>1. PICK from \in ItemState, to \in ItemState :
         /\ SetItem(r, i, from, to)
         /\ to \in {"spawned", "running", "pacing"} /\ from \notin {"spawned", "running", "pacing"}
               => (r \in Batch => Cardinality(Busy(r)) < MaxWorkers)
  BY DEF ItemStep, Spawn, Begin, SkipItem, FailItem, EndItem, PaceItem, CutPace, ItemState
<1>2. ShapeInv
  BY DEF RunInv
<1>3. Others(r) /\ cancelled' = cancelled
  BY <1>1, <1>2 DEF SetItem, ShapeInv, Others
<1>4. /\ item'[r][i] = to /\ item[r][i] = from
      /\ \A j \in Items(r) \ {i} : item'[r][j] = item[r][j]
  BY <1>1, <1>2 DEF SetItem, ShapeInv
<1>5. SlotInv'
  BY <1>1, SlotKept DEF SetItem, Holding, ResourceInv
<1>6. ClosedPart(r)' /\ itemAudit'[r] \subseteq Items(r)
  BY <1>1 DEF SetItem, ClosedPart, ResourceInv
<1>7. WorkersPart(r)'
  <2>1. CASE to \in {"spawned", "running", "pacing"}
    <3>1. Busy(r)' = Busy(r) \cup {i}
      BY <1>4, <2>1 DEF Busy, Items
    <3>2. from \in {"spawned", "running", "pacing"} => i \in Busy(r)
      BY <1>4 DEF Busy
    <3>3. Cardinality(Busy(r)') = IF i \in Busy(r) THEN Cardinality(Busy(r)) ELSE Cardinality(Busy(r)) + 1
      BY <3>1, BusyFinite, FS_AddElement
    <3>4. WorkersPart(r)
      BY DEF ResourceInv
    <3> QED
      BY <1>1, <2>1, <3>2, <3>3, <3>4, BusyFinite, RunAssumption DEF WorkersPart
  <2>2. CASE to \notin {"spawned", "running", "pacing"}
    <3>1. Busy(r)' \subseteq Busy(r)
      BY <1>4, <2>2 DEF Busy, Items
    <3>2. Cardinality(Busy(r)') \in Nat /\ Cardinality(Busy(r)') <= Cardinality(Busy(r))
      BY <3>1, BusyFinite, FS_Subset, FS_CardinalityType
    <3>3. WorkersPart(r)
      BY DEF ResourceInv
    <3> QED
      BY <3>2, <3>3, BusyFinite, RunAssumption DEF WorkersPart
  <2> QED
    BY <2>1, <2>2
<1> QED
  BY <1>3, <1>5, <1>6, <1>7, ResourceSuffices

LEMMA PlaceResources ==
    ASSUME RunInv, ResourceInv, NEW r \in Run,
           \/ Execute(r) \/ acquireRuntimeSlot(r) \/ GiveUpWaiting(r)
           \/ OpenFails(r) \/ OpenRuntime(r) \/ OpenWithoutRunner(r)
           \/ closeRuntimeResources(r) \/ writeRunAudit(r) \/ closeRuntimeAudit(r)
    PROVE  ResourceInv'
<1>0. ShapeInv /\ ClosedPart(r) /\ WorkersPart(r) /\ SlotInv /\ itemAudit[r] \subseteq Items(r)
  BY DEF RunInv, ResourceInv
<1>1. UNCHANGED <<item, cancelled>>
  BY DEF Execute, acquireRuntimeSlot, GiveUpWaiting, OpenFails, OpenRuntime, OpenWithoutRunner,
         closeRuntimeResources, writeRunAudit, closeRuntimeAudit
<1>2. WorkersPart(r)'
  BY <1>0, <1>1 DEF WorkersPart, Busy, Items
<1>3. itemAudit'[r] \subseteq Items(r)
  BY <1>0 DEF ShapeInv, Execute, acquireRuntimeSlot, GiveUpWaiting, OpenFails, OpenRuntime, OpenWithoutRunner,
         closeRuntimeResources, writeRunAudit, closeRuntimeAudit
<1>4. Others(r)
  BY <1>0 DEF ShapeInv, Others, Fail, Execute, acquireRuntimeSlot, GiveUpWaiting, OpenFails, OpenRuntime,
         OpenWithoutRunner, closeRuntimeResources, writeRunAudit, closeRuntimeAudit
<1>5. SlotInv'
  <2>1. CASE acquireRuntimeSlot(r)
    <3>1. r \notin Holding /\ Holding' = Holding \cup {r}
      BY <1>0, <2>1 DEF acquireRuntimeSlot, Holding, ShapeInv
    <3> QED
      BY <1>0, <2>1, <3>1, SlotTaken DEF acquireRuntimeSlot
  <2>2. CASE OpenFails(r) \/ OpenWithoutRunner(r) \/ closeRuntimeResources(r)
    <3>1. r \in Holding /\ Holding' = Holding \ {r}
      BY <1>0, <2>2 DEF OpenFails, OpenWithoutRunner, closeRuntimeResources, Fail, Holding, ShapeInv
    <3> QED
      BY <1>0, <2>2, <3>1, SlotReturned DEF OpenFails, OpenWithoutRunner, closeRuntimeResources
  <2>3. CASE \/ Execute(r) \/ GiveUpWaiting(r) \/ OpenRuntime(r)
             \/ writeRunAudit(r) \/ closeRuntimeAudit(r)
    <3>1. Holding' = Holding /\ slots' = slots
      BY <1>0, <2>3 DEF Execute, GiveUpWaiting, OpenRuntime, writeRunAudit, closeRuntimeAudit, Fail, Holding, ShapeInv
    <3> QED
      BY <1>0, <3>1, SlotKept
  <2> QED
    BY <2>1, <2>2, <2>3
<1>6. ClosedPart(r)'
  <2>1. CASE \/ Execute(r) \/ acquireRuntimeSlot(r) \/ GiveUpWaiting(r) \/ OpenFails(r)
    BY <1>0, <2>1 DEF Execute, acquireRuntimeSlot, GiveUpWaiting, OpenFails, Fail, ShapeInv, ClosedPart
  <2>2. CASE OpenRuntime(r) \/ OpenWithoutRunner(r)
    BY <1>0, <2>2 DEF OpenRuntime, OpenWithoutRunner, Fail, ShapeInv, ClosedPart
  <2>3. CASE closeRuntimeResources(r) \/ closeRuntimeAudit(r)
    BY <1>0, <2>3 DEF closeRuntimeResources, closeRuntimeAudit, ShapeInv, ClosedPart
  <2>4. CASE writeRunAudit(r)
    BY <1>0, <2>4 DEF writeRunAudit, ShapeInv, ClosedPart
  <2> QED
    BY <2>1, <2>2, <2>3, <2>4
<1> QED
  BY <1>1, <1>2, <1>3, <1>4, <1>5, <1>6, ResourceSuffices

LEMMA RunActsResources == ASSUME RunInv, ResourceInv, NEW r \in Run, RunActs(r) PROVE ResourceInv'
BY ItemResources, PlaceResources DEF RunActs, RunStep

LEMMA ContextsResources ==
    ASSUME ResourceInv, ContextsOnly, cancelled' \subseteq Run PROVE ResourceInv'
<1>1. Holding' = Holding /\ slots' = slots
  BY DEF ContextsOnly, Holding
<1>2. \A r \in Run : Busy(r)' = Busy(r)
  BY DEF ContextsOnly, Busy, Items
<1>3. SlotInv'
  BY <1>1, SlotKept DEF ResourceInv
<1>4. \A r \in Run : ClosedPart(r)' /\ WorkersPart(r)' /\ itemAudit'[r] \subseteq Items(r)
  BY <1>2 DEF ContextsOnly, ResourceInv, ClosedPart, WorkersPart
<1> QED
  BY <1>3, <1>4 DEF ResourceInv, Items

LEMMA ResourceStepInv == RunInv /\ ResourceInv /\ [RunNext]_runVars => ResourceInv'
<1> SUFFICES ASSUME RunInv, ResourceInv, [RunNext]_runVars PROVE ResourceInv'
  OBVIOUS
<1>1. cancelled \subseteq Run
  BY DEF ResourceInv
<1> QED
  BY <1>1, RunNextParts, RunActsResources, ContextsResources

LEMMA ResourcesFollow == RunInv /\ ResourceInv => RunTypeOK /\ ResourcesExact
<1> SUFFICES ASSUME RunInv, ResourceInv PROVE RunTypeOK /\ ResourcesExact
  OBVIOUS
<1>1. slots \in 0 .. MaxRuntimes
  BY HoldingFinite, RunAssumption DEF ResourceInv, SlotInv
<1>2. RunTypeOK
  BY <1>1 DEF RunTypeOK, RunInv, ShapeInv, Stage, ResourceInv, WorkersPart
<1>3. ResourcesExact
  BY DEF ResourcesExact, RunInv, ShapeInv, Stage, ResourceInv, SlotInv, Holding, ClosedPart
<1> QED
  BY <1>2, <1>3

(* Every path through a run gives its runtime slot back exactly once, the  *)
(* slots in use never exceed runtimeSlots, and a runtime that was opened   *)
(* is closed exactly once, its audit sink after it.                        *)
THEOREM RunResourcesAreExact == RunSpec => [](RunTypeOK /\ ResourcesExact)
<1>1. RunInv /\ ResourceInv => RunTypeOK /\ ResourcesExact
  BY ResourcesFollow
<1> QED
  BY <1>1, RunInvariant, ResourceInitInv, ResourceStepInv, PTL DEF RunSpec

------------------------------------------------------------------------------
(* Every run goes on, and comes to its end.                                *)

LEMMA LeastItem ==
    ASSUME NEW S \in SUBSET Nat, S # {} PROVE \E i \in S : \A j \in S : ~ (j < i)
<1>1. \E i \in S : \A j \in S : <<j, i>> \notin OpToRel(<, Nat)
  BY NatLessThanWellFounded, WFMin
<1> QED
  BY <1>1 DEF OpToRel

(* A run whose items are not all over has one that can move.               *)
LEMMA ItemsGoOn ==
    ASSUME ShapeInv, NEW r \in Run
    PROVE  ItemReady(r) \/ \A i \in Items(r) : item[r][i] \in {"complete", "failed"}
<1>1. SUFFICES ASSUME Busy(r) = {}, NEW k \in Items(r), item[r][k] \notin {"complete", "failed"}
               PROVE  ItemReady(r)
  BY DEF ItemReady
<1>2. Items(r) \subseteq Nat /\ \A i \in Items(r) : \A j \in 1 .. i - 1 : j \in Items(r) /\ j < i
  BY RunAssumption DEF Items
<1>3. item[r][k] = "waiting"
  BY <1>1 DEF ShapeInv, ItemState, Busy
<1>4. PICK i \in Standing(r, {"waiting"}) : \A j \in Standing(r, {"waiting"}) : ~ (j < i)
  BY <1>2, <1>3, LeastItem DEF Standing
<1>5. \A j \in 1 .. i - 1 : item[r][j] # "waiting"
  BY <1>2, <1>4 DEF Standing
<1>6. Cardinality(Busy(r)) < MaxWorkers
  BY <1>1, FS_EmptySet, RunAssumption
<1> QED
  BY <1>4, <1>5, <1>6 DEF ItemReady, Standing

LEMMA SomeRunGoesOn == RunInv /\ ResourceInv => RunsNeverStuck
<1> SUFFICES ASSUME RunInv, ResourceInv, NEW r \in Run, pc[r] \notin {"idle", "done"}
             PROVE  RunsNeverStuck
  BY DEF RunsNeverStuck
<1>1. ShapeInv
  BY DEF RunInv
<1>2. CASE pc[r] # "open"
  BY <1>1, <1>2, ItemsGoOn DEF ShapeInv, Stage, RunsNeverStuck
<1>3. CASE pc[r] = "open" /\ slots < MaxRuntimes
  BY <1>3 DEF RunsNeverStuck
<1>4. CASE slots >= MaxRuntimes
  <2>1. Holding # {}
    BY <1>4, FS_EmptySet, RunAssumption DEF ResourceInv, SlotInv
  <2>2. PICK s \in Run : pc[s] \in {"opening", "dispatch"}
    BY <2>1 DEF Holding
  <2> QED
    BY <1>1, <2>2, ItemsGoOn DEF RunsNeverStuck
<1>5. slots \in Nat
  BY HoldingFinite DEF ResourceInv, SlotInv
<1> QED
  BY <1>2, <1>3, <1>4, <1>5, RunAssumption

(* No run waits for a slot that nobody gives back, for any number of runs, *)
(* items, workers and runtimes.                                            *)
THEOREM RunsGoOn == RunSpec => []RunsNeverStuck
BY SomeRunGoesOn, RunInvariant, ResourceInitInv, ResourceStepInv, PTL DEF RunSpec

Place == [idle |-> 6, open |-> 5, opening |-> 4, dispatch |-> 3, rows |-> 2, close |-> 1, done |-> 0]

LEMMA StandingFinite ==
    ASSUME NEW r \in Run, NEW S
    PROVE  IsFiniteSet(Standing(r, S)) /\ Cardinality(Standing(r, S)) \in Nat
BY BusyFinite, FS_Subset, FS_CardinalityType DEF Standing

(* An item that leaves some states for good stands in fewer of them.       *)
LEMMA StandingShrinks ==
    ASSUME ShapeInv, NEW r \in Run, NEW i \in Items(r), NEW from, NEW to, SetItem(r, i, from, to),
           NEW S, to \in S => from \in S
    PROVE  /\ Cardinality(Standing(r, S)') \in Nat
           /\ Cardinality(Standing(r, S)') <= Cardinality(Standing(r, S))
           /\ from \in S /\ to \notin S => Cardinality(Standing(r, S)') < Cardinality(Standing(r, S))
<1>1. /\ item'[r][i] = to /\ item[r][i] = from
      /\ \A j \in Items(r) \ {i} : item'[r][j] = item[r][j]
  BY DEF SetItem, ShapeInv
<1>2. Standing(r, S)' = IF from \in S /\ to \notin S THEN Standing(r, S) \ {i} ELSE Standing(r, S)
  BY <1>1 DEF Standing, Items
<1>3. from \in S => i \in Standing(r, S)
  BY <1>1 DEF Standing
<1>4. CASE from \in S /\ to \notin S
  <2>1. Cardinality(Standing(r, S) \ {i}) = Cardinality(Standing(r, S)) - 1
    BY <1>3, <1>4, StandingFinite, FS_RemoveElement
  <2>2. IsFiniteSet(Standing(r, S) \ {i}) /\ Cardinality(Standing(r, S) \ {i}) \in Nat
    BY StandingFinite, FS_RemoveElement, FS_CardinalityType
  <2> QED
    BY <1>2, <1>4, <2>1, <2>2, StandingFinite
<1>5. CASE ~ (from \in S /\ to \notin S)
  BY <1>2, <1>5, StandingFinite
<1> QED
  BY <1>4, <1>5

LEMMA ItemAdvances ==
    ASSUME ShapeInv, NEW r \in Run, NEW i \in Items(r), ItemStep(r, i)
    PROVE  StepsOf(r)' < StepsOf(r)
<1> DEFINE W == {"waiting"}
           S == {"waiting", "spawned"}
           R == {"waiting", "spawned", "running"}
           P == {"waiting", "spawned", "running", "pacing"}
<1>1. PICK from, to :
         /\ SetItem(r, i, from, to)
         /\ \/ from = "waiting" /\ to = "spawned"
            \/ from = "spawned" /\ to \in {"running", "failed"}
            \/ from = "running" /\ to \in {"failed", "pacing", "complete"}
            \/ from = "pacing" /\ to \in {"complete", "failed"}
  BY DEF ItemStep, Spawn, Begin, SkipItem, FailItem, EndItem, PaceItem, CutPace
<1>2. pc'[r] = pc[r] /\ Place[pc[r]] \in Nat
  BY <1>1 DEF SetItem, Place
<1>3. /\ Cardinality(Standing(r, W)') \in Nat /\ Cardinality(Standing(r, S)') \in Nat
      /\ Cardinality(Standing(r, R)') \in Nat /\ Cardinality(Standing(r, P)') \in Nat
      /\ Cardinality(Standing(r, W)') <= Cardinality(Standing(r, W))
      /\ Cardinality(Standing(r, S)') <= Cardinality(Standing(r, S))
      /\ Cardinality(Standing(r, R)') <= Cardinality(Standing(r, R))
      /\ Cardinality(Standing(r, P)') <= Cardinality(Standing(r, P))
  BY <1>1, StandingShrinks
<1>4. \/ Cardinality(Standing(r, W)') < Cardinality(Standing(r, W))
      \/ Cardinality(Standing(r, S)') < Cardinality(Standing(r, S))
      \/ Cardinality(Standing(r, R)') < Cardinality(Standing(r, R))
      \/ Cardinality(Standing(r, P)') < Cardinality(Standing(r, P))
  BY <1>1, StandingShrinks
<1>5. /\ Cardinality(Standing(r, W)) \in Nat /\ Cardinality(Standing(r, S)) \in Nat
      /\ Cardinality(Standing(r, R)) \in Nat /\ Cardinality(Standing(r, P)) \in Nat
  BY StandingFinite
<1> HIDE DEF W, S, R, P
<1>6. /\ StepsOf(r) = Cardinality(Standing(r, W)) + Cardinality(Standing(r, S)) + Cardinality(Standing(r, R))
                      + Cardinality(Standing(r, P)) + Place[pc[r]]
      /\ StepsOf(r)' = Cardinality(Standing(r, W)') + Cardinality(Standing(r, S)') + Cardinality(Standing(r, R)')
                      + Cardinality(Standing(r, P)') + Place[pc'[r]]
  BY DEF StepsOf, Place, W, S, R, P
<1> QED
  BY <1>2, <1>3, <1>4, <1>5, <1>6

LEMMA PlaceAdvances ==
    ASSUME ShapeInv, NEW r \in Run,
           \/ Execute(r) \/ acquireRuntimeSlot(r) \/ GiveUpWaiting(r)
           \/ OpenFails(r) \/ OpenRuntime(r) \/ OpenWithoutRunner(r)
           \/ closeRuntimeResources(r) \/ writeRunAudit(r) \/ closeRuntimeAudit(r)
    PROVE  StepsOf(r)' < StepsOf(r)
<1>1. Place[pc'[r]] < Place[pc[r]] /\ Place[pc'[r]] \in Nat /\ Place[pc[r]] \in Nat
  BY DEF ShapeInv, Stage, Place, Fail, Execute, acquireRuntimeSlot, GiveUpWaiting, OpenFails, OpenRuntime,
         OpenWithoutRunner, closeRuntimeResources, writeRunAudit, closeRuntimeAudit
<1>2. item' = item
  BY DEF Execute, acquireRuntimeSlot, GiveUpWaiting, OpenFails, OpenRuntime, OpenWithoutRunner,
         closeRuntimeResources, writeRunAudit, closeRuntimeAudit
<1>3. \A states : Standing(r, states)' = Standing(r, states)
  BY <1>2 DEF Standing, Items
<1>4. \A states : Cardinality(Standing(r, states)) \in Nat
  BY StandingFinite
<1> QED
  BY <1>1, <1>3, <1>4 DEF StepsOf, Place

LEMMA OthersKeepSteps ==
    ASSUME NEW s \in Run, item'[s] = item[s], pc'[s] = pc[s] PROVE StepsOf(s)' = StepsOf(s)
BY DEF StepsOf, Standing, Items

LEMMA RunActsAdvance ==
    ASSUME ShapeInv, NEW r \in Run, RunActs(r)
    PROVE  StepsOf(r)' < StepsOf(r) /\ cancelled' = cancelled /\ \A s \in Run \ {r} : StepsOf(s)' = StepsOf(s)
<1>1. StepsOf(r)' < StepsOf(r)
  BY ItemAdvances, PlaceAdvances DEF RunActs, RunStep
<1>2. cancelled' = cancelled /\ \A s \in Run \ {r} : item'[s] = item[s] /\ pc'[s] = pc[s]
  <2>1. CASE \E i \in Items(r) : ItemStep(r, i)
    BY <2>1 DEF ShapeInv, ItemStep, Spawn, Begin, SkipItem, FailItem, EndItem, PaceItem, CutPace, SetItem
  <2>2. CASE \/ Execute(r) \/ acquireRuntimeSlot(r) \/ GiveUpWaiting(r) \/ OpenFails(r) \/ OpenRuntime(r)
             \/ OpenWithoutRunner(r) \/ closeRuntimeResources(r) \/ writeRunAudit(r) \/ closeRuntimeAudit(r)
    BY <2>2 DEF ShapeInv, Fail, Execute, acquireRuntimeSlot, GiveUpWaiting, OpenFails, OpenRuntime,
         OpenWithoutRunner, closeRuntimeResources, writeRunAudit, closeRuntimeAudit
  <2> QED
    BY <2>1, <2>2 DEF RunActs, RunStep
<1> QED
  BY <1>1, <1>2, OthersKeepSteps

LEMMA StepsAreNumbers ==
    ASSUME NEW r \in Run
    PROVE  (ShapeInv => StepsOf(r) \in Nat) /\ (ShapeInv' => StepsOf(r)' \in Nat)
<1>1. ASSUME ShapeInv PROVE StepsOf(r) \in Nat
  <2>1. \A states : Cardinality(Standing(r, states)) \in Nat
    BY StandingFinite
  <2>2. Place[pc[r]] \in Nat
    BY <1>1 DEF ShapeInv, Stage, Place
  <2> QED
    BY <2>1, <2>2 DEF StepsOf, Place
<1>2. ASSUME ShapeInv' PROVE StepsOf(r)' \in Nat
  <2>1. \A states : Standing(r, states)' \subseteq Items(r)
    BY DEF Standing, Items
  <2>2. \A states : Cardinality(Standing(r, states)') \in Nat
    BY <2>1, BusyFinite, FS_Subset, FS_CardinalityType
  <2>3. Place[pc'[r]] \in Nat
    BY <1>2 DEF ShapeInv, Stage, Place
  <2> QED
    BY <2>2, <2>3 DEF StepsOf, Place
<1> QED
  BY <1>1, <1>2

(* What a step does to what is left to do, whoever drives the runs.        *)
LEMMA StepsShrink ==
    ASSUME ShapeInv, ShapeInv', (\E r \in Run : RunActs(r)) \/ ContextsOnly
    PROVE  [/\ cancelled' = cancelled => \E r \in Run : StepsOf(r)' < StepsOf(r)
            /\ \A r \in Run : StepsOf(r)' <= StepsOf(r)]_runVars
<1>0. \A r \in Run : StepsOf(r) \in Nat
  BY StepsAreNumbers
<1>1. ASSUME NEW r \in Run, RunActs(r)
      PROVE  StepsOf(r)' < StepsOf(r) /\ \A s \in Run : StepsOf(s)' <= StepsOf(s)
  <2>1. StepsOf(r)' < StepsOf(r) /\ \A s \in Run \ {r} : StepsOf(s)' = StepsOf(s)
    BY <1>1, RunActsAdvance
  <2>2. StepsOf(r)' \in Nat
    BY StepsAreNumbers
  <2> QED
    BY <1>0, <2>1, <2>2
<1>2. CASE ContextsOnly
  <2>1. \A s \in Run : StepsOf(s)' = StepsOf(s)
    BY <1>2, OthersKeepSteps DEF ContextsOnly
  <2>2. cancelled' = cancelled => UNCHANGED runVars
    BY <1>2 DEF ContextsOnly, runVars
  <2> QED
    BY <1>0, <2>1, <2>2
<1> QED
  BY <1>1, <1>2

LEMMA FewSteps == ASSUME ShapeInv, NEW r \in Run PROVE StepsOf(r) <= 4 * Size[r] + 6
<1>1. Size[r] \in Nat /\ Cardinality(Items(r)) = Size[r]
  <2>1. Size[r] \in Nat \ {0} /\ 1 \in Int
    BY RunAssumption
  <2> QED
    BY <2>1, FS_Interval DEF Items
<1>2. \A states : Cardinality(Standing(r, states)) \in Nat /\ Cardinality(Standing(r, states)) <= Size[r]
  BY <1>1, StandingFinite, BusyFinite, FS_Subset DEF Standing
<1>3. Place[pc[r]] \in 0 .. 6
  BY DEF ShapeInv, Stage, Place
<1> QED
  BY <1>1, <1>2, <1>3 DEF StepsOf, Place

(* A run of n items is over after 4 n + 6 steps of its own at most, and    *)
(* nothing that happens to others gives it more.                           *)
THEOREM RunsComeToAnEnd == RunSpec => RunsAdvance /\ [](\A r \in Run : StepsOf(r) <= 4 * Size[r] + 6)
<1>1. RunInv /\ [RunNext]_runVars
        => [/\ cancelled' = cancelled => \E r \in Run : StepsOf(r)' < StepsOf(r)
            /\ \A r \in Run : StepsOf(r)' <= StepsOf(r)]_runVars
  BY RunNextParts, StepsShrink, RunStepInv DEF RunInv
<1>2. RunInv => \A r \in Run : StepsOf(r) <= 4 * Size[r] + 6
  BY FewSteps DEF RunInv
<1> QED
  BY <1>1, <1>2, RunInvariant, PTL DEF RunSpec, RunsAdvance
==============================================================================
