--------------------------- MODULE PairSweepProofs ---------------------------
(***************************************************************************)
(* The failure policy of a sweep holds for any selection, any number of    *)
(* workers and any failure budget.                                         *)
(***************************************************************************)
EXTENDS PairSweep, FiniteSetTheorems, TLAPS

Small == Cardinality(items) <= FailureBudget

(* What the sets of items have to do with the goroutines: an item runs     *)
(* once per sweep, and again only after an item-local error.               *)
TaskInv ==
    /\ failed \subseteq items /\ result \subseteq items /\ flunked \subseteq items
    /\ \A p \in Pair : task[p] # "absent" => p \in items
    /\ \A p \in Pair : task[p] \in {"waiting", "running"} => p \notin failed
    /\ phase = "sweep" => /\ flunked = failed
                          /\ \A p \in items : task[p] # "absent"
                          /\ \A p \in Pair : evals[p] <= IF task[p] = "waiting" THEN 0 ELSE 1
    /\ phase = "recover" => \A p \in Pair : task[p] = "waiting" => evals[p] <= 1 /\ p \in flunked

(* A sweep that met a fatal error is stopped and never gets to its report. *)
FatalInv == (fatal => stopped) /\ (phase = "report" => ~fatal)

(* Failures and the failures that may still come.                          *)
CountInv ==
    /\ Cardinality(Running) <= MaxWorkers
    /\ ~stopped => Cardinality(failed) < FailureBudget
    /\ stopped => fatal \/ Cardinality(failed) >= FailureBudget
    /\ Cardinality(failed) + Cardinality(Running) <= FailureBudget + MaxWorkers - 1

(* Where an item without a result is: it has a goroutine, or there is a    *)
(* reason not to publish.                                                  *)
CoverInv ==
    /\ phase = "sweep" => \A p \in items : task[p] = "returned" => p \in result \cup failed \/ cancelled \/ stopped
    /\ phase = "recover" =>
          /\ \A p \in flunked : p \in result \cup failed \/ task[p] \in {"waiting", "running"} \/ cancelled \/ stopped
          /\ Small => items \subseteq result \cup flunked
    /\ phase = "report" => failed # {} \/ cancelled \/ (flunked \subseteq result /\ (Small => items \subseteq result))
    /\ outcome = "published" /\ ChecksContext => flunked \subseteq result /\ (Small => items \subseteq result)

SweepInv == SweepTypeOK /\ TaskInv /\ OneRetry /\ FatalInv /\ CountInv /\ CoverInv

LEMMA ItemSets ==
    ASSUME NEW S \in SUBSET Pair
    PROVE  /\ IsFiniteSet(S) /\ Cardinality(S) \in Nat
           /\ Cardinality(S) = 0 <=> S = {}
           /\ \A p : /\ IsFiniteSet(S \cup {p}) /\ IsFiniteSet(S \ {p})
                     /\ Cardinality(S \cup {p}) = IF p \in S THEN Cardinality(S) ELSE Cardinality(S) + 1
                     /\ Cardinality(S \ {p}) = IF p \in S THEN Cardinality(S) - 1 ELSE Cardinality(S)
           /\ \A T \in SUBSET S : Cardinality(T) <= Cardinality(S)
<1>1. IsFiniteSet(S)
  BY SweepAssumption, FS_Subset
<1>2. Cardinality(S) \in Nat /\ (Cardinality(S) = 0 <=> S = {})
  BY <1>1, FS_CardinalityType, FS_EmptySet
<1>3. \A T \in SUBSET S : Cardinality(T) <= Cardinality(S)
  BY <1>1, FS_Subset
<1> QED
  BY <1>1, <1>2, <1>3, FS_AddElement, FS_RemoveElement

LEMMA SweepInitInv == SweepInit => SweepInv
<1> SUFFICES ASSUME SweepInit PROVE SweepInv
  OBVIOUS
<1>1. items \in Selection /\ items \subseteq Pair
  BY SweepAssumption DEF SweepInit
<1>2. SweepTypeOK
  BY <1>1 DEF SweepInit, SweepTypeOK, TaskState
<1>3. TaskInv /\ OneRetry /\ FatalInv
  BY <1>1 DEF SweepInit, TaskInv, OneRetry, FatalInv
<1>4. Running = {}
  BY DEF SweepInit, Running
<1>5. CountInv
  BY <1>4, FS_EmptySet, SweepAssumption DEF SweepInit, CountInv
<1>6. CoverInv
  BY <1>1 DEF SweepInit, CoverInv
<1> QED
  BY <1>2, <1>3, <1>5, <1>6 DEF SweepInv

-----------------------------------------------------------------------------
(* Types and bookkeeping.                                                  *)

LEMMA ItemTypes == ASSUME SweepInv, NEW p \in Pair, ItemStep(p) PROVE SweepTypeOK'
<1> USE DEF SweepInv, SweepTypeOK, Return, TaskState
<1>1. CASE Begin(p)
  BY <1>1 DEF Begin
<1>2. CASE Skip(p)
  BY <1>2 DEF Skip
<1>3. CASE Succeed(p)
  BY <1>3 DEF Succeed
<1>4. CASE Aborted(p)
  BY <1>4 DEF Aborted
<1>5. CASE FailFatally(p)
  BY <1>5 DEF FailFatally
<1>6. CASE FailLocally(p)
  BY <1>6 DEF FailLocally
<1> QED
  BY <1>1, <1>2, <1>3, <1>4, <1>5, <1>6 DEF ItemStep

LEMMA ItemTasks == ASSUME SweepInv, NEW p \in Pair, ItemStep(p) PROVE TaskInv' /\ OneRetry' /\ FatalInv'
<1> USE DEF SweepInv, SweepTypeOK, TaskInv, OneRetry, FatalInv, Return, Sweeping
<1>1. CASE Begin(p)
  <2>1. TaskInv'
    BY <1>1 DEF Begin
  <2>2. OneRetry'
    BY <1>1 DEF Begin
  <2>3. FatalInv'
    BY <1>1 DEF Begin
  <2> QED
    BY <2>1, <2>2, <2>3
<1>2. CASE Skip(p)
  BY <1>2 DEF Skip
<1>3. CASE Succeed(p)
  BY <1>3 DEF Succeed
<1>4. CASE Aborted(p)
  BY <1>4 DEF Aborted
<1>5. CASE FailFatally(p)
  BY <1>5 DEF FailFatally
<1>6. CASE FailLocally(p)
  BY <1>6 DEF FailLocally
<1> QED
  BY <1>1, <1>2, <1>3, <1>4, <1>5, <1>6 DEF ItemStep

(* How a step of an item moves the number of running items.                *)
LEMMA ItemCounts == ASSUME SweepInv, NEW p \in Pair, ItemStep(p) PROVE CountInv'
<1> USE DEF SweepInv, CountInv
<1>0. Running \in SUBSET Pair /\ failed \in SUBSET Pair /\ task \in [Pair -> TaskState]
  BY DEF Running, SweepTypeOK
<1>a. /\ Cardinality(Running) \in Nat /\ Cardinality(failed) \in Nat
      /\ FailureBudget \in Nat \ {0} /\ MaxWorkers \in Nat \ {0}
  BY <1>0, ItemSets, SweepAssumption
<1>r. ASSUME Return(p)
      PROVE  /\ Cardinality(Running') = Cardinality(Running) - 1
             /\ p \notin failed /\ Cardinality(failed \cup {p}) = Cardinality(failed) + 1
  <2>1. p \in Running /\ Running' = Running \ {p}
    BY <1>r, <1>0 DEF Return, Running
  <2>2. p \notin failed
    BY <1>r DEF Return, TaskInv
  <2> QED
    BY <2>1, <2>2, <1>0, ItemSets
<1>1. CASE Begin(p)
  <2>1. p \notin Running /\ Running' = Running \cup {p}
    BY <1>1, <1>0 DEF Begin, Running
  <2>2. Cardinality(Running') = Cardinality(Running) + 1
    BY <2>1, <1>0, ItemSets
  <2> QED
    BY <1>1, <1>a, <2>2 DEF Begin, runDone
<1>2. CASE Skip(p)
  <2>1. Running' = Running
    BY <1>2, <1>0 DEF Skip, Running
  <2> QED
    BY <1>2, <2>1 DEF Skip
<1>3. CASE Succeed(p)
  <2>1. failed' = failed
    BY <1>3, <1>r DEF Succeed
  <2> QED
    BY <1>3, <1>r, <1>a, <2>1 DEF Succeed
<1>4. CASE Aborted(p)
  BY <1>4, <1>r, <1>a DEF Aborted
<1>5. CASE FailFatally(p)
  BY <1>5, <1>r, <1>a DEF FailFatally
<1>6. CASE FailLocally(p)
  <2>1. Cardinality(failed') = Cardinality(failed) + 1
    BY <1>6, <1>r DEF FailLocally
  <2>2. fatal' = fatal /\ (stopped' <=> stopped \/ Cardinality(failed') >= FailureBudget)
    BY <1>6 DEF FailLocally
  <2> QED
    BY <1>6, <1>r, <1>a, <2>1, <2>2 DEF FailLocally
<1> QED
  BY <1>1, <1>2, <1>3, <1>4, <1>5, <1>6 DEF ItemStep

LEMMA ItemCovers == ASSUME SweepInv, NEW p \in Pair, ItemStep(p) PROVE CoverInv'
<1> USE DEF SweepInv, CoverInv, SweepTypeOK, Sweeping, Return, Small
<1>1. CASE Begin(p)
  BY <1>1 DEF Begin
<1>2. CASE Skip(p)
  BY <1>2 DEF Skip, runDone
<1>3. CASE Succeed(p)
  BY <1>3 DEF Succeed
<1>4. CASE Aborted(p)
  BY <1>4 DEF Aborted, runDone
<1>5. CASE FailFatally(p)
  BY <1>5 DEF FailFatally
<1>6. CASE FailLocally(p)
  BY <1>6 DEF FailLocally
<1> QED
  BY <1>1, <1>2, <1>3, <1>4, <1>5, <1>6 DEF ItemStep

-----------------------------------------------------------------------------
(* The caller's steps.                                                     *)

LEMMA StartRecoveryInv == SweepInv /\ StartRecovery => SweepInv'
<1> SUFFICES ASSUME SweepInv, StartRecovery PROVE SweepInv'
  OBVIOUS
<1> USE DEF SweepInv
<1>1. SweepTypeOK'
  BY DEF StartRecovery, SweepTypeOK, TaskState
<1>2. TaskInv' /\ OneRetry' /\ FatalInv'
  BY DEF StartRecovery, SweepTypeOK, TaskInv, OneRetry, FatalInv
<1>3. CountInv'
  <2>1. Running' = {} /\ failed' = {} /\ stopped' = FALSE
    BY DEF StartRecovery, Running
  <2>2. Cardinality(Running') = 0 /\ Cardinality(failed') = 0
    BY <2>1, FS_EmptySet
  <2> QED
    BY <2>1, <2>2, SweepAssumption DEF CountInv
<1>4. Small => ~stopped
  <2>1. items \in SUBSET Pair /\ failed \in SUBSET items
    BY SweepAssumption DEF SweepTypeOK, TaskInv
  <2>2. Cardinality(failed) \in Nat /\ Cardinality(items) \in Nat /\ Cardinality(failed) <= Cardinality(items)
    BY <2>1, ItemSets
  <2>3. Cardinality(failed) < Cardinality(items) \/ Cardinality(items) < FailureBudget
    BY <2>2, SweepAssumption DEF StartRecovery, NoRecovery
  <2> QED
    BY <2>2, <2>3, SweepAssumption DEF StartRecovery, CountInv, Small
<1>5. Small => items \subseteq result \cup flunked
  BY <1>4, SweepAssumption DEF StartRecovery, NoRecovery, Quiescent, CoverInv, TaskInv, SweepTypeOK
<1>6. CoverInv'
  BY <1>5 DEF StartRecovery, CoverInv, TaskInv, SweepTypeOK, Small
<1> QED
  BY <1>1, <1>2, <1>3, <1>6

(* Where the caller reports, either it has a reason not to publish or      *)
(* nothing is missing.                                                     *)
LEMMA ReportReached ==
    ASSUME SweepInv, EndSweep \/ EndRecovery
    PROVE  failed # {} \/ cancelled \/ (flunked \subseteq result /\ (Small => items \subseteq result))
<1> SUFFICES ASSUME failed = {}, ~cancelled
             PROVE  flunked \subseteq result /\ (Small => items \subseteq result)
  OBVIOUS
<1> USE DEF SweepInv
<1>1. ~fatal /\ Quiescent
  BY DEF EndSweep, EndRecovery
<1>2. ~stopped
  <2>1. Cardinality(failed) = 0
    BY FS_EmptySet
  <2> QED
    BY <1>1, <2>1, SweepAssumption DEF CountInv
<1>3. items \subseteq Pair
  BY SweepAssumption DEF SweepTypeOK
<1>4. CASE EndSweep
  BY <1>1, <1>2, <1>3, <1>4 DEF EndSweep, Quiescent, CoverInv, TaskInv
<1>5. CASE EndRecovery
  BY <1>1, <1>2, <1>3, <1>5 DEF EndRecovery, Quiescent, CoverInv, TaskInv
<1> QED
  BY <1>4, <1>5

LEMMA CallerStepInv == SweepInv /\ (CallerStep \/ CallerCancels \/ UNCHANGED sweepVars) => SweepInv'
<1> SUFFICES ASSUME SweepInv, CallerStep \/ CallerCancels \/ UNCHANGED sweepVars PROVE SweepInv'
  OBVIOUS
<1> DEFINE Kept == /\ SweepTypeOK /\ TaskInv /\ OneRetry /\ CountInv
           Same == UNCHANGED <<items, task, stopped, fatal, failed, result, evals, flunked>>
<1>k. ASSUME Same PROVE OneRetry' /\ CountInv'
  BY <1>k DEF SweepInv, OneRetry, CountInv, Running
<1>1. CASE StartRecovery
  BY <1>1, StartRecoveryInv
<1>2. CASE EndSweep \/ EndRecovery
  <2>1. SweepTypeOK' /\ TaskInv' /\ FatalInv'
    BY <1>2 DEF EndSweep, EndRecovery, SweepInv, SweepTypeOK, TaskInv, FatalInv
  <2>2. CoverInv'
    BY <1>2, ReportReached DEF EndSweep, EndRecovery, SweepInv, SweepTypeOK, CoverInv, Small
  <2>3. Same
    BY <1>2 DEF EndSweep, EndRecovery
  <2> QED
    BY <2>1, <2>2, <2>3, <1>k DEF SweepInv
<1>3. CASE EndFatally
  <2>1. SweepTypeOK' /\ TaskInv' /\ FatalInv'
    BY <1>3 DEF EndFatally, SweepInv, SweepTypeOK, TaskInv, FatalInv
  <2>2. CoverInv'
    BY <1>3 DEF EndFatally, CoverInv
  <2>3. Same
    BY <1>3 DEF EndFatally
  <2> QED
    BY <2>1, <2>2, <2>3, <1>k DEF SweepInv
<1>4. CASE Report
  <2>1. SweepTypeOK' /\ TaskInv' /\ FatalInv'
    BY <1>4 DEF Report, SweepInv, SweepTypeOK, TaskInv, FatalInv
  <2>2. CoverInv'
    BY <1>4 DEF Report, SweepInv, CoverInv, Small
  <2>3. Same
    BY <1>4 DEF Report
  <2> QED
    BY <2>1, <2>2, <2>3, <1>k DEF SweepInv
<1>5. CASE CallerCancels \/ UNCHANGED sweepVars
  <2>0. Same /\ phase' = phase /\ outcome' = outcome /\ (cancelled => cancelled') /\ cancelled' \in BOOLEAN
    BY <1>5 DEF CallerCancels, sweepVars, SweepInv, SweepTypeOK
  <2>1. SweepTypeOK' /\ TaskInv' /\ FatalInv'
    BY <2>0 DEF SweepInv, SweepTypeOK, TaskInv, FatalInv
  <2>2. CoverInv'
    BY <2>0 DEF SweepInv, CoverInv, Small
  <2> QED
    BY <2>0, <2>1, <2>2, <1>k DEF SweepInv
<1> QED
  BY <1>1, <1>2, <1>3, <1>4, <1>5 DEF CallerStep

LEMMA SweepStepInv == SweepInv /\ [SweepNext]_sweepVars => SweepInv'
<1> SUFFICES ASSUME SweepInv, [SweepNext]_sweepVars PROVE SweepInv'
  OBVIOUS
<1>1. ASSUME NEW p \in Pair, ItemStep(p) PROVE SweepInv'
  BY <1>1, ItemTypes, ItemTasks, ItemCounts, ItemCovers DEF SweepInv
<1> QED
  BY <1>1, CallerStepInv DEF SweepNext

LEMMA SweepInvariant == SweepSpec => []SweepInv
BY SweepInitInv, SweepStepInv, PTL DEF SweepSpec

(* A caller that looks at its context before it publishes swallows no      *)
(* recorded failure; items are retried once at most and failures stay      *)
(* within one worker wave of the budget, for any number of workers.        *)
THEOREM SweepIsSound == ChecksContext => (SweepSpec => []SweepSound)
<1> SUFFICES ASSUME ChecksContext PROVE SweepSpec => []SweepSound
  OBVIOUS
<1>1. SweepInv => SweepSound
  <2> SUFFICES ASSUME SweepInv PROVE SweepSound
    OBVIOUS
  <2>1. NoFailureSwallowed
    BY DEF SweepInv, CoverInv, NoFailureSwallowed
  <2>2. FailuresBounded
    <3>1. Running \in SUBSET Pair /\ failed \in SUBSET Pair
      BY DEF Running, SweepInv, SweepTypeOK
    <3>2. Cardinality(Running) \in Nat /\ Cardinality(failed) \in Nat
      BY <3>1, ItemSets
    <3> QED
      BY <3>2, SweepAssumption DEF SweepInv, CountInv, FailuresBounded
  <2>3. NeverStuck
    <3>1. ~Quiescent /\ Running = {} => \E p \in Pair : task[p] = "waiting"
      BY DEF Quiescent, Running, SweepInv, SweepTypeOK, TaskState
    <3>2. Running = {} => Cardinality(Running) < MaxWorkers
      BY FS_EmptySet, SweepAssumption
    <3> QED
      BY <3>1, <3>2 DEF NeverStuck, Running
  <2> QED
    BY <2>1, <2>2, <2>3 DEF SweepInv, SweepSound
<1> QED
  BY <1>1, SweepInvariant, PTL

(* What such a caller publishes of a selection no larger than the failure  *)
(* budget is complete.                                                     *)
THEOREM SmallSelectionsAreWhole == ChecksContext => (SweepSpec => []SmallPublishedComplete)
<1> SUFFICES ASSUME ChecksContext PROVE SweepSpec => []SmallPublishedComplete
  OBVIOUS
<1>1. SweepInv => SmallPublishedComplete
  BY DEF SweepInv, CoverInv, TaskInv, SmallPublishedComplete, PublishedComplete, Small
<1> QED
  BY <1>1, SweepInvariant, PTL

(* After a route-level failure no evaluation begins and nothing but that   *)
(* failure is returned, whether the caller looks at its context or not.    *)
THEOREM FatalEndsTheRun == SweepSpec => FatalIsFinal
<1>1. ASSUME SweepInv, [SweepNext]_sweepVars, fatal
      PROVE  evals' = evals /\ (outcome' # outcome => outcome' = "fatal")
  <2>1. stopped /\ phase # "report"
    BY <1>1 DEF SweepInv, FatalInv
  <2>2. ASSUME NEW p \in Pair, ItemStep(p) PROVE UNCHANGED <<evals, outcome>>
    BY <2>1, <2>2 DEF ItemStep, Begin, Skip, Succeed, Aborted, FailFatally, FailLocally, Return, runDone
  <2>3. CASE CallerStep
    BY <1>1, <2>1, <2>3 DEF CallerStep, EndFatally, EndSweep, StartRecovery, EndRecovery, Report
  <2>4. CASE CallerCancels \/ UNCHANGED sweepVars
    BY <2>4 DEF CallerCancels, sweepVars
  <2> QED
    BY <1>1, <2>2, <2>3, <2>4 DEF SweepNext
<1>2. SweepInv /\ [SweepNext]_sweepVars
        => [/\ fatal => evals' = evals
            /\ fatal /\ outcome' # outcome => outcome' = "fatal"]_sweepVars
  BY <1>1
<1> QED
  BY <1>2, SweepInvariant, PTL DEF SweepSpec, FatalIsFinal

-----------------------------------------------------------------------------
(* Every step uses up one of a bounded number of steps.                    *)

Waiting == {p \in Pair : task[p] = "waiting"}

CallerLeft == [sweep |-> 2 * Cardinality(items) + 3, recover |-> 2, report |-> 1, done |-> 0]

CancelLeft == IF cancelled THEN 0 ELSE 1

LEMMA StepsLeftSum ==
    /\ StepsLeft = 2 * Cardinality(Waiting) + Cardinality(Running) + CallerLeft[phase] + CancelLeft
    /\ StepsLeft' = 2 * Cardinality(Waiting') + Cardinality(Running') + CallerLeft'[phase'] + CancelLeft'
BY DEF StepsLeft, Waiting, CallerLeft, CancelLeft

LEMMA CountsAreNumbers ==
    ASSUME SweepTypeOK
    PROVE  /\ Cardinality(Waiting) \in Nat /\ Cardinality(Running) \in Nat
           /\ Cardinality(items) \in Nat /\ CallerLeft[phase] \in Nat /\ CancelLeft \in Nat
<1>1. Waiting \in SUBSET Pair /\ Running \in SUBSET Pair /\ items \in SUBSET Pair
  BY SweepAssumption DEF Waiting, Running, SweepTypeOK
<1>2. Cardinality(Waiting) \in Nat /\ Cardinality(Running) \in Nat /\ Cardinality(items) \in Nat
  BY <1>1, ItemSets
<1>. QED
  BY <1>2 DEF CallerLeft, CancelLeft, SweepTypeOK

LEMMA ItemAdvances ==
    ASSUME SweepInv, NEW p \in Pair, ItemStep(p) PROVE StepsLeft' < StepsLeft
<1>0. Waiting \in SUBSET Pair /\ Running \in SUBSET Pair /\ task \in [Pair -> TaskState]
  BY DEF Waiting, Running, SweepInv, SweepTypeOK
<1>1. CallerLeft'[phase'] = CallerLeft[phase] /\ CancelLeft' = CancelLeft
  BY DEF ItemStep, Begin, Skip, Succeed, Aborted, FailFatally, FailLocally, Return, CallerLeft, CancelLeft
<1>2. \/ Waiting' = Waiting \ {p} /\ p \in Waiting /\ Running' = Running \cup {p} /\ p \notin Running
      \/ Waiting' = Waiting \ {p} /\ p \in Waiting /\ Running' = Running
      \/ Waiting' = Waiting /\ Running' = Running \ {p} /\ p \in Running
  <2>1. CASE Begin(p)
    BY <1>0, <2>1 DEF Begin, Waiting, Running
  <2>2. CASE Skip(p)
    BY <1>0, <2>2 DEF Skip, Waiting, Running
  <2>3. CASE Return(p)
    BY <1>0, <2>3 DEF Return, Waiting, Running
  <2> QED
    BY <2>1, <2>2, <2>3 DEF ItemStep, Succeed, Aborted, FailFatally, FailLocally
<1>3. 2 * Cardinality(Waiting') + Cardinality(Running') < 2 * Cardinality(Waiting) + Cardinality(Running)
  BY <1>0, <1>2, ItemSets
<1>4. Waiting' \in SUBSET Pair /\ Running' \in SUBSET Pair
  BY <1>0, <1>2
<1>5. Cardinality(Waiting') \in Nat /\ Cardinality(Running') \in Nat
  BY <1>4, ItemSets
<1>. QED
  BY <1>1, <1>3, <1>5, StepsLeftSum, CountsAreNumbers DEF SweepInv

LEMMA CallerAdvances ==
    ASSUME SweepInv, CallerStep \/ CallerCancels PROVE StepsLeft' < StepsLeft
<1> USE DEF SweepInv
<1>1. CASE CallerCancels
  <2>1. Waiting' = Waiting /\ Running' = Running /\ CallerLeft'[phase'] = CallerLeft[phase]
    BY <1>1 DEF CallerCancels, Waiting, Running, CallerLeft
  <2>2. CancelLeft = 1 /\ CancelLeft' = 0
    BY <1>1 DEF CallerCancels, CancelLeft
  <2> QED
    BY <2>1, <2>2, StepsLeftSum, CountsAreNumbers
<1>2. CASE EndFatally \/ EndSweep \/ EndRecovery \/ Report
  <2>1. Waiting' = Waiting /\ Running' = Running /\ CancelLeft' = CancelLeft /\ items' = items
    BY <1>2 DEF EndFatally, EndSweep, EndRecovery, Report, Waiting, Running, CancelLeft
  <2>2. /\ phase \in {"sweep", "recover", "report"}
        /\ phase' = IF phase = "report" THEN "done" ELSE phase'
        /\ phase' = "report" \/ phase' = "done"
        /\ phase = "report" => phase' = "done"
    BY <1>2 DEF EndFatally, EndSweep, EndRecovery, Report, Sweeping
  <2>3. CallerLeft'[phase'] < CallerLeft[phase] /\ CallerLeft'[phase'] \in Nat
    BY <2>1, <2>2, CountsAreNumbers DEF CallerLeft
  <2> QED
    BY <2>1, <2>3, StepsLeftSum, CountsAreNumbers
<1>3. CASE StartRecovery
  <2>1. /\ Waiting' = failed /\ Running' = {} /\ CancelLeft' = CancelLeft
        /\ phase = "sweep" /\ phase' = "recover" /\ Waiting = {} /\ Running = {}
    BY <1>3 DEF StartRecovery, Waiting, Running, CancelLeft, Quiescent, SweepTypeOK
  <2>2. items \in SUBSET Pair /\ failed \in SUBSET items
    BY SweepAssumption DEF SweepTypeOK, TaskInv
  <2>3. Cardinality(failed) <= Cardinality(items) /\ Cardinality(failed) \in Nat
    BY <2>2, ItemSets
  <2>4. Cardinality({}) = 0
    BY FS_EmptySet
  <2>5. CallerLeft[phase] = 2 * Cardinality(items) + 3 /\ CallerLeft'[phase'] = 2
    BY <2>1 DEF CallerLeft
  <2> QED
    BY <2>1, <2>3, <2>4, <2>5, StepsLeftSum, CountsAreNumbers
<1>. QED
  BY <1>1, <1>2, <1>3 DEF CallerStep

(* A selection is over after a bounded number of steps, whatever fails, is *)
(* retried or is cancelled: each step leaves fewer.                        *)
THEOREM SelectionsEnd == SweepSpec => SweepAdvances
<1>1. SweepInv /\ [SweepNext]_sweepVars => [StepsLeft' < StepsLeft]_sweepVars
  BY ItemAdvances, CallerAdvances DEF SweepNext
<1> QED
  BY <1>1, SweepInvariant, PTL DEF SweepSpec, SweepAdvances

(* ... 4 n + 4 of them for a selection of n items.                         *)
THEOREM SelectionsAreShort == SweepSpec => [](StepsLeft \in Nat /\ StepsLeft <= 4 * Cardinality(items) + 4)
<1> DEFINE Short == StepsLeft \in Nat /\ StepsLeft <= 4 * Cardinality(items) + 4
<1>1. SweepInit => Short
  <2> SUFFICES ASSUME SweepInit PROVE Short
    OBVIOUS
  <2>1. SweepTypeOK
    BY SweepInitInv DEF SweepInv
  <2>2. Waiting = items /\ Running = {} /\ CallerLeft[phase] = 2 * Cardinality(items) + 3 /\ CancelLeft = 1
    BY SweepAssumption DEF SweepInit, Waiting, Running, CallerLeft, CancelLeft
  <2> QED
    BY <2>1, <2>2, StepsLeftSum, CountsAreNumbers, FS_EmptySet
<1>2. SweepInv /\ SweepInv' /\ Short /\ [SweepNext]_sweepVars => Short'
  <2> SUFFICES ASSUME SweepInv, SweepInv', Short, [SweepNext]_sweepVars PROVE Short'
    OBVIOUS
  <2>1. Cardinality(items) \in Nat /\ items' = items
    BY CountsAreNumbers
       DEF SweepInv, SweepNext, ItemStep, Begin, Skip, Succeed, Aborted, FailFatally, FailLocally, Return,
           CallerStep, EndFatally, EndSweep, StartRecovery, EndRecovery, Report, CallerCancels, sweepVars
  <2>2. StepsLeft' \in Nat
    <3>1. SweepTypeOK'
      BY DEF SweepInv
    <3>2. /\ Cardinality(Waiting') \in Nat /\ Cardinality(Running') \in Nat
          /\ CallerLeft'[phase'] \in Nat /\ CancelLeft' \in Nat
      <4>1. Waiting' \in SUBSET Pair /\ Running' \in SUBSET Pair
        BY DEF Waiting, Running
      <4>2. CallerLeft'[phase'] \in Nat /\ CancelLeft' \in Nat
        BY <2>1, <3>1 DEF CallerLeft, CancelLeft, SweepTypeOK
      <4> QED
        BY <4>1, <4>2, ItemSets
    <3> QED
      BY <3>2, StepsLeftSum
  <2>3. CASE SweepNext
    BY <2>1, <2>2, <2>3, ItemAdvances, CallerAdvances DEF SweepNext
  <2>4. CASE UNCHANGED sweepVars
    BY <2>1, <2>4 DEF sweepVars, StepsLeft, Running
  <2> QED
    BY <2>3, <2>4
<1> QED
  BY <1>1, <1>2, SweepInvariant, PTL DEF SweepSpec
==============================================================================
