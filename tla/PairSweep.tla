------------------------------ MODULE PairSweep ------------------------------
(***************************************************************************)
(* The concurrent evaluation of a selection's work items (pairs, bracket   *)
(* matches or single trajectories) and its failure policy:                 *)
(* runPairSweep, recoverFailedPairs and reportPairFailures of              *)
(* internal/mode/pairwise.go, as their three callers run them.             *)
(* adaptivePairsConcurrent and evaluateTournamentRound look at the         *)
(* caller's context before they publish (ChecksContext = TRUE);            *)
(* RunAbsoluteSelection does not (ChecksContext = FALSE).                  *)
(*                                                                         *)
(* One goroutine per item waits for one of MaxWorkers semaphore slots or   *)
(* for the end of the sweep's context.  The tail of a goroutine after      *)
(* evaluate returns runs under the sweep's mutex and is one step.          *)
(***************************************************************************)
EXTENDS Naturals, FiniteSets

CONSTANTS
    Pair,            \* work items
    Selection,       \* sets of items a run may be given
    MaxWorkers,      \* capacity of the semaphore
    FailureBudget,   \* pairFailureBudget
    ChecksContext    \* the caller re-checks its context before publishing

ASSUME SweepAssumption ==
    /\ IsFiniteSet(Pair) /\ Selection \subseteq SUBSET Pair
    /\ MaxWorkers \in Nat \ {0} /\ FailureBudget \in Nat \ {0}
    /\ ChecksContext \in BOOLEAN

VARIABLES
    items,      \* the selection of this run
    phase,      \* which part of the caller runs
    task,       \* goroutine of each item in the current sweep
    stopped,    \* this sweep's own context was cancelled by stop()
    cancelled,  \* the caller's context is done
    fatal,      \* the sweep met a route-level failure
    failed,     \* the failed map
    result,     \* items whose result evaluate stored
    outcome,    \* what the caller returned
    evals,      \* history: evaluations begun per item
    flunked     \* history: items for which an item-local error was recorded

sweepVars == <<items, phase, task, stopped, cancelled, fatal, failed, result, outcome, evals, flunked>>

TaskState == {"absent", "waiting", "running", "returned"}

Running == {p \in Pair : task[p] = "running"}

runDone == stopped \/ cancelled     \* runCtx.Err() # nil

SweepInit ==
    /\ items \in Selection
    /\ phase = "sweep"
    /\ task = [p \in Pair |-> IF p \in items THEN "waiting" ELSE "absent"]
    /\ stopped = FALSE /\ cancelled = FALSE /\ fatal = FALSE
    /\ failed = {} /\ result = {} /\ outcome = "none"
    /\ evals = [p \in Pair |-> 0] /\ flunked = {}

Sweeping == phase \in {"sweep", "recover"}

(* The semaphore is free and the context is live: evaluate begins.         *)
Begin(p) ==
    /\ Sweeping /\ task[p] = "waiting"
    /\ ~runDone /\ Cardinality(Running) < MaxWorkers
    /\ task' = [task EXCEPT ![p] = "running"]
    /\ evals' = [evals EXCEPT ![p] = @ + 1]
    /\ UNCHANGED <<items, phase, stopped, cancelled, fatal, failed, result, outcome, flunked>>

(* Mutant: the select watches stop() but not the caller's context.         *)
SkipOnStopOnly(p) ==
    /\ Sweeping /\ task[p] = "waiting" /\ stopped
    /\ task' = [task EXCEPT ![p] = "returned"]
    /\ UNCHANGED <<items, phase, stopped, cancelled, fatal, failed, result, outcome, evals, flunked>>

(* The context is done, seen by the select or by the check after it.       *)
Skip(p) ==
    /\ Sweeping /\ task[p] = "waiting" /\ runDone
    /\ task' = [task EXCEPT ![p] = "returned"]
    /\ UNCHANGED <<items, phase, stopped, cancelled, fatal, failed, result, outcome, evals, flunked>>

Return(p) ==
    /\ Sweeping /\ task[p] = "running"
    /\ task' = [task EXCEPT ![p] = "returned"]
    /\ UNCHANGED <<items, phase, cancelled, outcome, evals>>

Succeed(p) ==
    /\ Return(p)
    /\ result' = result \cup {p}
    /\ failed' = failed \ {p}
    /\ UNCHANGED <<stopped, fatal, flunked>>

(* evaluate returned the error of the sweep's own shutdown: not recorded.  *)
Aborted(p) ==
    /\ Return(p) /\ runDone
    /\ UNCHANGED <<stopped, fatal, failed, result, flunked>>

(* Mutant: a fatal error is noted but does not stop the sweep.             *)
FailFatallyOnly(p) ==
    /\ Return(p)
    /\ fatal' = TRUE
    /\ UNCHANGED <<stopped, failed, result, flunked>>

FailFatally(p) ==
    /\ Return(p)
    /\ fatal' = TRUE /\ stopped' = TRUE
    /\ UNCHANGED <<failed, result, flunked>>

(* Mutant: failures are collected without a budget.                        *)
FailLocallyUnbounded(p) ==
    /\ Return(p)
    /\ failed' = failed \cup {p}
    /\ flunked' = flunked \cup {p}
    /\ UNCHANGED <<stopped, fatal, result>>

FailLocally(p) ==
    /\ Return(p)
    /\ failed' = failed \cup {p}
    /\ stopped' = (stopped \/ Cardinality(failed') >= FailureBudget)
    /\ flunked' = flunked \cup {p}
    /\ UNCHANGED <<fatal, result>>

Quiescent == \A p \in Pair : task[p] \in {"absent", "returned"}     \* wg.Wait

(* recoverFailedPairs declines: nothing failed, the caller gave up, or a   *)
(* sweep of at least FailureBudget items failed entirely.                  *)
NoRecovery ==
    \/ failed = {} \/ cancelled
    \/ Cardinality(failed) >= Cardinality(items) /\ Cardinality(items) >= FailureBudget

(* Mutant: the fatal error is not returned to the caller.                  *)
EndFatallySilently ==
    /\ Sweeping /\ Quiescent /\ fatal
    /\ phase' = "done"
    /\ UNCHANGED <<items, task, stopped, cancelled, fatal, failed, result, outcome, evals, flunked>>

EndFatally ==
    /\ Sweeping /\ Quiescent /\ fatal
    /\ phase' = "done" /\ outcome' = "fatal"
    /\ UNCHANGED <<items, task, stopped, cancelled, fatal, failed, result, evals, flunked>>

EndSweep ==
    /\ phase = "sweep" /\ Quiescent /\ ~fatal /\ NoRecovery
    /\ phase' = "report"
    /\ UNCHANGED <<items, task, stopped, cancelled, fatal, failed, result, outcome, evals, flunked>>

(* Mutant: what failed in recovery is recovered again.                     *)
StartRecoveryAgain ==
    /\ Sweeping /\ Quiescent /\ ~fatal /\ ~NoRecovery
    /\ phase' = "recover"
    /\ task' = [p \in Pair |-> IF p \in failed THEN "waiting" ELSE "absent"]
    /\ failed' = {} /\ stopped' = FALSE
    /\ UNCHANGED <<items, cancelled, fatal, result, outcome, evals, flunked>>

(* The recovery sweep runs the failed items again under a fresh context.   *)
StartRecovery ==
    /\ phase = "sweep" /\ Quiescent /\ ~fatal /\ ~NoRecovery
    /\ phase' = "recover"
    /\ task' = [p \in Pair |-> IF p \in failed THEN "waiting" ELSE "absent"]
    /\ failed' = {} /\ stopped' = FALSE
    /\ UNCHANGED <<items, cancelled, fatal, result, outcome, evals, flunked>>

(* Every retried item either failed again or is deleted from failed.       *)
EndRecovery ==
    /\ phase = "recover" /\ Quiescent /\ ~fatal
    /\ phase' = "report"
    /\ UNCHANGED <<items, task, stopped, cancelled, fatal, failed, result, outcome, evals, flunked>>

(* Mutant: no look at the caller's context before publishing.              *)
ReportUnchecked ==
    /\ phase = "report"
    /\ phase' = "done"
    /\ outcome' = IF failed # {} THEN "failed" ELSE "published"
    /\ UNCHANGED <<items, task, stopped, cancelled, fatal, failed, result, evals, flunked>>

(* reportPairFailures, then the context check of the callers that have it. *)
Report ==
    /\ phase = "report"
    /\ phase' = "done"
    /\ outcome' = CASE failed # {} -> "failed"
                    [] failed = {} /\ ChecksContext /\ cancelled -> "cancelled"
                    [] OTHER -> "published"
    /\ UNCHANGED <<items, task, stopped, cancelled, fatal, failed, result, evals, flunked>>

CallerCancels ==
    /\ ~cancelled /\ phase # "done"
    /\ cancelled' = TRUE
    /\ UNCHANGED <<items, phase, task, stopped, fatal, failed, result, outcome, evals, flunked>>

ItemStep(p) ==
    Begin(p) \/ Skip(p) \/ Succeed(p) \/ Aborted(p) \/ FailFatally(p) \/ FailLocally(p)

CallerStep == EndFatally \/ EndSweep \/ StartRecovery \/ EndRecovery \/ Report

SweepNext == CallerCancels \/ CallerStep \/ \E p \in Pair : ItemStep(p)

SweepSpec == SweepInit /\ [][SweepNext]_sweepVars

(* Goroutines run on and every evaluation ends: each provider request has  *)
(* a deadline and a bounded number of retries.                             *)
SweepFairness == WF_sweepVars(CallerStep) /\ \A p \in Pair : WF_sweepVars(ItemStep(p))

SweepFairSpec == SweepSpec /\ SweepFairness

-----------------------------------------------------------------------------
(* Properties.                                                             *)

(* Type correctness of the sweep's state; a caller that is done has        *)
(* returned something.                                                     *)
SweepTypeOK ==
    /\ items \in Selection /\ phase \in {"sweep", "recover", "report", "done"}
    /\ task \in [Pair -> TaskState]
    /\ stopped \in BOOLEAN /\ cancelled \in BOOLEAN /\ fatal \in BOOLEAN
    /\ failed \subseteq Pair /\ result \subseteq Pair /\ flunked \subseteq Pair
    /\ outcome \in {"none", "fatal", "failed", "cancelled", "published"}
    /\ evals \in [Pair -> Nat]
    /\ outcome = "none" <=> phase # "done"

(* "The run fails as a whole so no partial benchmark result is published"  *)
(* (pairwise.go, reportPairFailures): a published selection has a result   *)
(* for every item.                                                         *)
PublishedComplete == outcome = "published" => result = items

(* As long as a selection is no larger than the failure budget, what is    *)
(* published has a result for every item, whatever failed, was retried or  *)
(* was cancelled on the way.                                               *)
SmallPublishedComplete == Cardinality(items) <= FailureBudget => PublishedComplete

(* An error recorded for an item is never lost: what is published includes *)
(* a result for every item that ever failed item-locally, whatever the     *)
(* recovery sweep and the caller's cancellation did meanwhile.             *)
NoFailureSwallowed == outcome = "published" => flunked \subseteq result

(* A sweep stops scheduling after one worker wave: at most MaxWorkers - 1  *)
(* failures arrive beyond the failure budget.                              *)
FailuresBounded == Cardinality(failed) <= FailureBudget + MaxWorkers - 1

(* "exactly one more sweep" (recoverFailedPairs): an item is evaluated at  *)
(* most twice, and twice only after it failed item-locally the first time. *)
OneRetry == \A p \in Pair : evals[p] <= (IF p \in flunked THEN 2 ELSE 1)

(* A route-level failure ends the run: nothing is published after it and   *)
(* no further evaluation begins in the sweep that met it.                  *)
FatalIsFinal ==
    [][/\ fatal => evals' = evals
       /\ fatal /\ outcome' # outcome => outcome' = "fatal"]_sweepVars

(* No goroutine waits for one that waits for it: as long as the caller has *)
(* not returned, an item can move or wg.Wait has nothing left to wait for. *)
NeverStuck ==
    outcome = "none" =>
        \/ phase = "report" \/ Quiescent
        \/ \E p \in Pair : \/ task[p] = "running"
                           \/ task[p] = "waiting" /\ (runDone \/ Cardinality(Running) < MaxWorkers)

(* Steps a selection may still take, cancellation and recovery included.   *)
StepsLeft ==
    LET caller == [sweep |-> 2 * Cardinality(items) + 3, recover |-> 2, report |-> 1, done |-> 0]
    IN  2 * Cardinality({p \in Pair : task[p] = "waiting"}) + Cardinality(Running)
        + caller[phase] + (IF cancelled THEN 0 ELSE 1)

(* A selection of n items is over after 4 n + 4 steps at most: no failure, *)
(* retry or cancellation makes it go round.                                *)
SweepAdvances == [][StepsLeft' < StepsLeft]_sweepVars

(* Every selection run ends with an outcome.                               *)
RunEnds == <>(outcome # "none")

(* The discipline of a sweep under every interleaving with its caller's    *)
(* cancellation: recorded errors are never lost, an item is retried once   *)
(* at most, failures stay within one worker wave of the budget, and nobody *)
(* waits for ever.                                                         *)
SweepSound == SweepTypeOK /\ NoFailureSwallowed /\ OneRetry /\ FailuresBounded /\ NeverStuck
=============================================================================
