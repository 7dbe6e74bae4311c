--------------------------- MODULE VerificationRun ---------------------------
(***************************************************************************)
(* The life of a verification run in internal/verification: Execute        *)
(* (service.go) and ExecuteBatch (batch.go) from opening a runtime to the  *)
(* closed audit sink, over the production runtime with its runtimeSlots    *)
(* (production.go) and the run rows of audit.go.                           *)
(*                                                                         *)
(* Runs of one service share runtimeSlots.  A batch dispatches its items   *)
(* in goroutines of an errgroup: at most MaxWorkers at a time, the first   *)
(* error ends the group's context.  A run of Execute has one item and no   *)
(* group.  What an item does (the modes, their scoring calls) is a success *)
(* or a failure.  The runs modelled are those with a valid, authorised     *)
(* plan and a configured audit log.                                        *)
(***************************************************************************)
EXTENDS Naturals, FiniteSets

CONSTANTS
    Run,         \* calls of Execute and ExecuteBatch
    Batch,       \* those of ExecuteBatch
    Size,        \* [Run -> number of items]
    MaxRuntimes, \* cfg.MaxWorkers, capacity of runtimeSlots
    MaxWorkers,  \* limit of the errgroup
    Paced        \* MinDispatchIntervalSeconds > 0

ASSUME RunAssumption ==
    /\ IsFiniteSet(Run) /\ Batch \subseteq Run
    /\ Size \in [Run -> Nat \ {0}] /\ \A r \in Run \ Batch : Size[r] = 1
    /\ MaxRuntimes \in Nat \ {0} /\ MaxWorkers \in Nat \ {0} /\ Paced \in BOOLEAN

VARIABLES
    slots,      \* tokens in runtimeSlots
    cancelled,  \* runs whose caller's context has ended
    pc,         \* where each run is
    item,       \* [Run -> [index -> state of the item]]
    life,       \* Lifecycle: the stages recorded as complete
    itemAudit,  \* items whose own Lifecycle.Audit is complete
    row,        \* [Run -> [index -> status of the run row, or why it is missing]]
    cleanupOK,  \* runtime.Close returned no error
    closed,     \* history: [Run -> calls of Close and CloseAudit]
    err         \* the run returned an error

runVars == <<slots, cancelled, pc, item, life, itemAudit, row, cleanupOK, closed, err>>

Items(r) == 1 .. Size[r]

(* The errgroup's context: ended by the caller or by the first error.      *)
groupDone(r) == r \in cancelled \/ \E i \in Items(r) : item[r][i] = "failed"

Busy(r) == {i \in Items(r) : item[r][i] \in {"spawned", "running", "pacing"}}

SetItem(r, i, from, to) ==
    /\ pc[r] = "dispatch" /\ item[r][i] = from
    /\ item' = [item EXCEPT ![r][i] = to]
    /\ UNCHANGED <<slots, cancelled, pc, life, itemAudit, row, cleanupOK, closed, err>>

-----------------------------------------------------------------------------
RunInit ==
    /\ slots = 0 /\ cancelled = {}
    /\ pc = [r \in Run |-> "idle"]
    /\ item = [r \in Run |-> [i \in Items(r) |-> "waiting"]]
    /\ life = [r \in Run |-> {}] /\ itemAudit = [r \in Run |-> {}]
    /\ row = [r \in Run |-> [i \in Items(r) |-> "none"]]
    /\ cleanupOK = [r \in Run |-> FALSE]
    /\ closed = [r \in Run |-> <<0, 0>>]
    /\ err = [r \in Run |-> FALSE]

(* Execute or ExecuteBatch is called with a valid, authorised plan.        *)
Execute(r) ==
    /\ pc[r] = "idle"
    /\ pc' = [pc EXCEPT ![r] = "open"]
    /\ UNCHANGED <<slots, cancelled, item, life, itemAudit, row, cleanupOK, closed, err>>

Fail(r) == pc' = [pc EXCEPT ![r] = "done"] /\ err' = [err EXCEPT ![r] = TRUE]

acquireRuntimeSlot(r) ==
    /\ pc[r] = "open" /\ slots < MaxRuntimes
    /\ slots' = slots + 1
    /\ pc' = [pc EXCEPT ![r] = "opening"]
    /\ UNCHANGED <<cancelled, item, life, itemAudit, row, cleanupOK, closed, err>>

GiveUpWaiting(r) ==
    /\ pc[r] = "open" /\ r \in cancelled
    /\ Fail(r)
    /\ UNCHANGED <<slots, cancelled, item, life, itemAudit, row, cleanupOK, closed>>

(* Mutant: a runtime that fails to open keeps its slot.                    *)
OpenFailsKeepingSlot(r) ==
    /\ pc[r] = "opening" /\ Fail(r)
    /\ UNCHANGED <<slots, cancelled, item, life, itemAudit, row, cleanupOK, closed>>

(* openProductionRuntime closes what it had opened before it returns.      *)
OpenFails(r) ==
    /\ pc[r] = "opening" /\ Fail(r)
    /\ slots' = slots - 1
    /\ UNCHANGED <<cancelled, item, life, itemAudit, row, cleanupOK, closed>>

OpenRuntime(r) ==
    /\ pc[r] = "opening"
    /\ pc' = [pc EXCEPT ![r] = "dispatch"]
    /\ life' = [life EXCEPT ![r] = {"open"}]
    /\ UNCHANGED <<slots, cancelled, item, itemAudit, row, cleanupOK, closed, err>>

(* A runtime opened without a runner is closed again, both parts of it.    *)
OpenWithoutRunner(r) ==
    /\ pc[r] = "opening" /\ Fail(r)
    /\ slots' = slots - 1
    /\ \E stages \in SUBSET {"cleanup", "audit"} : life' = [life EXCEPT ![r] = stages]
    /\ cleanupOK' = [cleanupOK EXCEPT ![r] = "cleanup" \in life'[r]]
    /\ closed' = [closed EXCEPT ![r] = <<1, 1>>]
    /\ UNCHANGED <<cancelled, item, itemAudit, row>>

-----------------------------------------------------------------------------
(* Items.                                                                  *)

(* Mutant: a group without a limit.                                        *)
SpawnUnlimited(r, i) ==
    /\ \A j \in 1 .. i - 1 : item[r][j] # "waiting"
    /\ SetItem(r, i, "waiting", "spawned")

(* group.Go, in index order, blocks while MaxWorkers goroutines run.       *)
Spawn(r, i) ==
    /\ r \in Batch => Cardinality(Busy(r)) < MaxWorkers
    /\ \A j \in 1 .. i - 1 : item[r][j] # "waiting"
    /\ SetItem(r, i, "waiting", "spawned")

(* Mutant: an item is dispatched without looking at the group's context.   *)
BeginUnchecked(r, i) == SetItem(r, i, "spawned", "running")

Begin(r, i) ==
    /\ r \in Batch => ~groupDone(r)
    /\ SetItem(r, i, "spawned", "running")

SkipItem(r, i) == r \in Batch /\ groupDone(r) /\ SetItem(r, i, "spawned", "failed")

FailItem(r, i) == SetItem(r, i, "running", "failed")

(* A batch that is paced holds its worker for the interval, except after   *)
(* its last item.                                                          *)
EndItem(r, i) ==
    SetItem(r, i, "running", IF r \in Batch /\ Paced /\ i < Size[r] THEN "pacing" ELSE "complete")

PaceItem(r, i) == SetItem(r, i, "pacing", "complete")

(* The interval is cut short: the item counts as failed.                   *)
CutPace(r, i) == groupDone(r) /\ SetItem(r, i, "pacing", "failed")

ItemStep(r, i) ==
    \/ Spawn(r, i) \/ Begin(r, i) \/ SkipItem(r, i)
    \/ FailItem(r, i) \/ EndItem(r, i) \/ PaceItem(r, i) \/ CutPace(r, i)

-----------------------------------------------------------------------------
(* Closing.                                                                *)

AllComplete(r) == \A i \in Items(r) : item[r][i] = "complete"

(* group.Wait, or dispatch: Execution is complete if no item failed.       *)
ExecutionStage(r) == IF AllComplete(r) THEN {"execution"} ELSE {}

(* closeRuntimeResources: Close gives the runtime slot back even when the  *)
(* provider fails to close.                                                *)
closeRuntimeResources(r) ==
    /\ pc[r] = "dispatch"
    /\ \A i \in Items(r) : item[r][i] \in {"complete", "failed"}
    /\ pc' = [pc EXCEPT ![r] = "rows"]
    /\ slots' = slots - 1
    /\ \E ok \in BOOLEAN :
          /\ cleanupOK' = [cleanupOK EXCEPT ![r] = ok]
          /\ life' = [life EXCEPT ![r] = @ \cup ExecutionStage(r) \cup (IF ok THEN {"cleanup"} ELSE {})]
    /\ closed' = [closed EXCEPT ![r][1] = @ + 1]
    /\ UNCHANGED <<cancelled, item, itemAudit, row, err>>

(* Mutant: the row's status leaves the cleanup out.                        *)
statusOfExecution(r, i) == IF item[r][i] # "complete" THEN "execution_failed" ELSE "decision_complete"

(* The status a run row is written with.                                   *)
status(r, i) ==
    IF item[r][i] # "complete" THEN "execution_failed"
    ELSE IF ~cleanupOK[r] THEN "cleanup_failed" ELSE "decision_complete"

(* Any of the rows may fail to be written; the others still are.           *)
writeRunAudit(r) ==
    /\ pc[r] = "rows"
    /\ pc' = [pc EXCEPT ![r] = "close"]
    /\ \E lost \in SUBSET Items(r) :
          /\ row' = [row EXCEPT ![r] = [i \in Items(r) |-> IF i \in lost THEN "lost" ELSE status(r, i)]]
          /\ itemAudit' = [itemAudit EXCEPT ![r] = Items(r) \ lost]
          /\ life' = [life EXCEPT ![r] = IF lost = {} THEN @ \cup {"audit"} ELSE @]
    /\ UNCHANGED <<slots, cancelled, item, cleanupOK, closed, err>>

(* Mutant: the errors of the audit rows are not joined.                    *)
FailedIgnoringRows(r, closeFailed) == ~AllComplete(r) \/ ~cleanupOK[r] \/ closeFailed

(* errors.Join of everything that went wrong.                              *)
Failed(r, closeFailed) ==
    \/ ~AllComplete(r) \/ ~cleanupOK[r] \/ closeFailed
    \/ \E i \in Items(r) : row[r][i] = "lost"

(* closeRuntimeAudit sets Audit by whether the sink closed, whatever it    *)
(* was; a batch takes the items' states back when the sink fails to close. *)
closeRuntimeAudit(r) ==
    /\ pc[r] = "close"
    /\ pc' = [pc EXCEPT ![r] = "done"]
    /\ \E ok \in BOOLEAN :
          /\ life' = [life EXCEPT ![r] = IF ok THEN @ \cup {"audit"} ELSE @ \ {"audit"}]
          /\ itemAudit' = IF ok THEN itemAudit ELSE [itemAudit EXCEPT ![r] = {}]
          /\ err' = [err EXCEPT ![r] = Failed(r, ~ok)]
    /\ closed' = [closed EXCEPT ![r][2] = @ + 1]
    /\ UNCHANGED <<slots, cancelled, item, row, cleanupOK>>

-----------------------------------------------------------------------------
RunCancelled(r) ==
    /\ r \notin cancelled /\ pc[r] # "done"
    /\ cancelled' = cancelled \cup {r}
    /\ UNCHANGED <<slots, pc, item, life, itemAudit, row, cleanupOK, closed, err>>

RunStep(r) ==
    \/ OpenFails(r) \/ OpenRuntime(r) \/ OpenWithoutRunner(r)
    \/ \E i \in Items(r) : ItemStep(r, i)
    \/ closeRuntimeResources(r) \/ writeRunAudit(r) \/ closeRuntimeAudit(r)

AllDone == (\A r \in Run : pc[r] \in {"idle", "done"}) /\ UNCHANGED runVars

RunNext ==
    \/ \E r \in Run : Execute(r) \/ acquireRuntimeSlot(r) \/ GiveUpWaiting(r) \/ RunStep(r) \/ RunCancelled(r)
    \/ AllDone

RunSpec == RunInit /\ [][RunNext]_runVars

(* Dispatch returns (the budget's deadline bounds every wait of a scoring  *)
(* call), timers fire, and Go queues the senders blocked on runtimeSlots.  *)
RunFairness ==
    \A r \in Run :
        /\ WF_runVars(RunStep(r))
        /\ SF_runVars(acquireRuntimeSlot(r) \/ GiveUpWaiting(r))

-----------------------------------------------------------------------------
(* Properties.                                                             *)

ItemState == {"waiting", "spawned", "running", "pacing", "complete", "failed"}

Status == {"none", "lost", "execution_failed", "cleanup_failed", "decision_complete"}

(* Type correctness; the errgroup never runs more than its limit.          *)
RunTypeOK ==
    /\ slots \in 0 .. MaxRuntimes /\ cancelled \subseteq Run
    /\ \A r \in Run :
          /\ pc[r] \in {"idle", "open", "opening", "dispatch", "rows", "close", "done"}
          /\ item[r] \in [Items(r) -> ItemState] /\ row[r] \in [Items(r) -> Status]
          /\ r \in Batch => Cardinality(Busy(r)) <= MaxWorkers
          /\ life[r] \subseteq {"open", "execution", "cleanup", "audit"}
          /\ itemAudit[r] \subseteq Items(r)
          /\ cleanupOK[r] \in BOOLEAN /\ err[r] \in BOOLEAN

(* Every path through a run, failed opens and failed closes included,      *)
(* gives its runtime slot back exactly once, and a run that was opened     *)
(* closes its provider and its audit sink exactly once, the sink last.     *)
ResourcesExact ==
    /\ slots = Cardinality({r \in Run : pc[r] \in {"opening", "dispatch"}})
    /\ \A r \in Run :
          /\ closed[r][2] <= closed[r][1] /\ closed[r][1] <= 1
          /\ pc[r] = "done" /\ "open" \in life[r] => closed[r] = <<1, 1>>

(* A run row is only written once the runtime is closed, and what it says  *)
(* of the item and of the cleanup is what happened: nothing that fails     *)
(* later can make a decision_complete row wrong.                           *)
RowsTruthful ==
    \A r \in Run : \A i \in Items(r) :
        /\ row[r][i] # "none" => closed[r][1] = 1
        /\ row[r][i] = "decision_complete" => item[r][i] = "complete" /\ "cleanup" \in life[r]

(* A run without an error executed every item, cleaned up, and has every   *)
(* row in the audit log; an execution recorded as complete has no failed,  *)
(* skipped or interrupted item.                                            *)
SuccessIsWhole ==
    \A r \in Run :
        /\ "execution" \in life[r] => AllComplete(r)
        /\ pc[r] = "done" /\ ~err[r] =>
              /\ life[r] = {"open", "execution", "cleanup", "audit"}
              /\ itemAudit[r] = Items(r)
              /\ \A i \in Items(r) : row[r][i] = "decision_complete"

(* Once an item has failed or the caller has cancelled, a batch dispatches *)
(* nothing more: undispatched items spend no budget.                       *)
NoDispatchAfterStop ==
    [][\A r \in Batch : \A i \in Items(r) :
          groupDone(r) /\ item'[r][i] = "running" => item[r][i] = "running"]_runVars

(* An item of r can move: its goroutine runs, or group.Go has room for it. *)
ItemReady(r) ==
    \/ Busy(r) # {}
    \/ \E i \in Items(r) : /\ item[r][i] = "waiting" /\ \A j \in 1 .. i - 1 : item[r][j] # "waiting"
                          /\ r \in Batch => Cardinality(Busy(r)) < MaxWorkers

(* Runs wait for one another only at the service's runtime slots, and then *)
(* not all of them: whoever holds a slot can go on without another one.    *)
RunsNeverStuck ==
    (\E r \in Run : pc[r] \notin {"idle", "done"}) =>
        \E r \in Run :
            \/ pc[r] = "open" /\ (slots < MaxRuntimes \/ r \in cancelled)
            \/ pc[r] \in {"opening", "rows", "close"}
            \/ pc[r] = "dispatch" /\ (ItemReady(r) \/ \A i \in Items(r) : item[r][i] \in {"complete", "failed"})

(* Steps a run may still take.                                             *)
Standing(r, states) == {i \in Items(r) : item[r][i] \in states}

StepsOf(r) ==
    LET place == [idle |-> 6, open |-> 5, opening |-> 4, dispatch |-> 3, rows |-> 2, close |-> 1, done |-> 0]
    IN  Cardinality(Standing(r, {"waiting"})) + Cardinality(Standing(r, {"waiting", "spawned"}))
        + Cardinality(Standing(r, {"waiting", "spawned", "running"}))
        + Cardinality(Standing(r, {"waiting", "spawned", "running", "pacing"})) + place[pc[r]]

(* A run of n items is over after 4 n + 6 steps of its own, however its    *)
(* items fail or its caller cancels: only those steps and the ends of      *)
(* contexts happen to runs, and no run gets more to do.                    *)
RunsAdvance ==
    [][/\ cancelled' = cancelled => \E r \in Run : StepsOf(r)' < StepsOf(r)
       /\ \A r \in Run : StepsOf(r)' <= StepsOf(r)]_runVars

(* Every run that is called returns: a failed item, a cancelled caller or  *)
(* a failed close leaves no other run waiting for a runtime slot for ever, *)
(* and no run goes round.                                                  *)
RunsEnd == <>[](\A r \in Run : pc[r] \in {"idle", "done"}) /\ RunsAdvance

(* docs/documentation.md: the lifecycle carries the "successful run-row    *)
(* write state", so a run whose Audit stage is complete has its rows.      *)
AuditStageHonest ==
    \A r \in Run : pc[r] = "done" /\ "audit" \in life[r] => \A i \in Items(r) : row[r][i] # "lost"

(* What a run reports is what happened: its rows claim no success that was *)
(* not had, and the caller hears of every failure, those of cleanup, of    *)
(* audit rows and of the sink's close included.                            *)
ReportsTruthful == RowsTruthful /\ SuccessIsWhole
=============================================================================
