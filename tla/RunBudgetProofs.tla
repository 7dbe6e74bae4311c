--------------------------- MODULE RunBudgetProofs ---------------------------
(* Proofs about RunBudget for every number of workers, every limit and     *)
(* every set of reservations and reports.                                  *)
EXTENDS RunBudget, FiniteSetTheorems, TLAPS

(* Usage arithmetic: charges keep the type, and a rollback undoes exactly  *)
(* the charge it follows (Reserve, ReserveCall and AcquireAttempt when     *)
(* persistLocked fails), except for the raised peak.                       *)
LEMMA UsageEqual ==
    ASSUME NEW u \in Usage, NEW v \in Usage,
           u.calls = v.calls, u.attempts = v.attempts, u.peak = v.peak, u.spent = v.spent
    PROVE  u = v
  BY DEF Usage

(* ReserveCall's charge moves the call count and nothing else.             *)
LEMMA ChargeCallFields ==
    ASSUME NEW u \in Usage
    PROVE  /\ ChargeCall(u) \in Usage
           /\ ChargeCall(u).calls = u.calls + 1
           /\ ChargeCall(u).attempts = u.attempts
           /\ ChargeCall(u).peak = u.peak
           /\ ChargeCall(u).spent = u.spent
  BY DEF Usage, ChargeCall

(* Undoing a call takes one call back and nothing else.                    *)
LEMMA RollbackCallFields ==
    ASSUME NEW u \in Usage, u.calls > 0
    PROVE  /\ RollbackCall(u) \in Usage
           /\ RollbackCall(u).calls = u.calls - 1
           /\ RollbackCall(u).attempts = u.attempts
           /\ RollbackCall(u).peak = u.peak
           /\ RollbackCall(u).spent = u.spent
  BY DEF Usage, RollbackCall

(* Charging a call and undoing it leaves the snapshot as it was.           *)
LEMMA CallArithmetic ==
    ASSUME NEW u \in Usage
    PROVE  RollbackCall(ChargeCall(u)) = u
<1> DEFINE c == ChargeCall(u)
<1>1. c \in Usage /\ c.calls = u.calls + 1 /\ c.calls > 0
  BY ChargeCallFields DEF Usage
<1>2. c.attempts = u.attempts /\ c.peak = u.peak /\ c.spent = u.spent
  BY ChargeCallFields
<1> HIDE DEF c
<1>3. /\ RollbackCall(c) \in Usage /\ RollbackCall(c).calls = u.calls
      /\ RollbackCall(c).attempts = u.attempts
      /\ RollbackCall(c).peak = u.peak /\ RollbackCall(c).spent = u.spent
  BY <1>1, <1>2, RollbackCallFields DEF Usage
<1>4. RollbackCall(c) = u
  BY <1>3, UsageEqual
<1>5. QED
  BY <1>4 DEF c

(* Sums and differences of amounts are taken metric by metric.             *)
LEMMA MetricArithmetic ==
    ASSUME NEW f \in [Metric -> Int], NEW g \in [Metric -> Int]
    PROVE  /\ Plus(f, g) \in [Metric -> Int]
           /\ Minus(f, g) \in [Metric -> Int]
           /\ Minus(Plus(f, g), g) = f
  BY DEF Plus, Minus

(* reserveAttemptLocked adds an attempt and its reservation.               *)
LEMMA ChargeAttemptFields ==
    ASSUME NEW u \in Usage, NEW r \in [Metric -> Nat]
    PROVE  /\ ChargeAttempt(u, r) \in Usage
           /\ ChargeAttempt(u, r).calls = u.calls
           /\ ChargeAttempt(u, r).attempts = u.attempts + 1
           /\ ChargeAttempt(u, r).peak = u.peak
           /\ ChargeAttempt(u, r).spent = Plus(u.spent, r)
<1>1. Plus(u.spent, r) \in [Metric -> Int]
  BY MetricArithmetic DEF Usage
<1>2. QED
  BY <1>1 DEF Usage, ChargeAttempt

(* rollbackAttemptLocked takes both back.                                  *)
LEMMA RollbackAttemptFields ==
    ASSUME NEW u \in Usage, u.attempts > 0, NEW r \in [Metric -> Nat]
    PROVE  /\ RollbackAttempt(u, r) \in Usage
           /\ RollbackAttempt(u, r).calls = u.calls
           /\ RollbackAttempt(u, r).attempts = u.attempts - 1
           /\ RollbackAttempt(u, r).peak = u.peak
           /\ RollbackAttempt(u, r).spent = Minus(u.spent, r)
<1>1. Minus(u.spent, r) \in [Metric -> Int]
  BY MetricArithmetic DEF Usage
<1>2. QED
  BY <1>1 DEF Usage, RollbackAttempt

(* The peak moves to the larger of itself and the active count.            *)
LEMMA RaisePeakFields ==
    ASSUME NEW u \in Usage, NEW n \in Int
    PROVE  /\ RaisePeak(u, n) \in Usage
           /\ RaisePeak(u, n).calls = u.calls
           /\ RaisePeak(u, n).attempts = u.attempts
           /\ RaisePeak(u, n).spent = u.spent
           /\ RaisePeak(u, n).peak = IF n > u.peak THEN n ELSE u.peak
<1>1. (IF n > u.peak THEN n ELSE u.peak) \in Nat
  BY DEF Usage
<1>2. QED
  BY <1>1 DEF Usage, RaisePeak

(* AcquireAttempt's failed persist undoes all but the raised peak.         *)
LEMMA AcquireRollback ==
    ASSUME NEW u \in Usage, NEW r \in [Metric -> Nat], NEW n \in Int
    PROVE  RollbackAttempt(RaisePeak(ChargeAttempt(u, r), n), r) = RaisePeak(u, n)
<1> DEFINE b == ChargeAttempt(u, r)
           c == RaisePeak(b, n)
           v == RaisePeak(u, n)
           back == RollbackAttempt(c, r)
<1>1. /\ b \in Usage /\ b.calls = u.calls /\ b.attempts = u.attempts + 1
      /\ b.peak = u.peak /\ b.spent = Plus(u.spent, r)
  BY ChargeAttemptFields
<1> HIDE DEF b
<1>2. /\ c \in Usage /\ c.calls = u.calls /\ c.attempts = u.attempts + 1
      /\ c.spent = Plus(u.spent, r)
      /\ c.peak = IF n > u.peak THEN n ELSE u.peak
  BY <1>1, RaisePeakFields
<1>3. /\ v \in Usage /\ v.calls = u.calls /\ v.attempts = u.attempts
      /\ v.spent = u.spent /\ v.peak = IF n > u.peak THEN n ELSE u.peak
  BY RaisePeakFields
<1> HIDE DEF c, v
<1>4. u.attempts \in Nat /\ u.spent \in [Metric -> Int]
  BY DEF Usage
<1>5. Minus(c.spent, r) = u.spent
  BY <1>2, <1>4, MetricArithmetic
<1>6. /\ back \in Usage /\ back.calls = u.calls /\ back.attempts = u.attempts
      /\ back.peak = c.peak /\ back.spent = u.spent
  BY <1>2, <1>4, <1>5, RollbackAttemptFields
<1> HIDE DEF back
<1>7. back = v
  BY <1>2, <1>3, <1>6, UsageEqual
<1>8. QED
  BY <1>7 DEF back, v, c, b

(* Reserve's charge and its rollback cancel out.                           *)
LEMMA AttemptArithmetic ==
    ASSUME NEW u \in Usage, NEW r \in [Metric -> Nat]
    PROVE  RollbackAttempt(ChargeAttempt(u, r), r) = u
<1> DEFINE c == ChargeAttempt(u, r)
           back == RollbackAttempt(c, r)
<1>1. /\ c \in Usage /\ c.calls = u.calls /\ c.attempts = u.attempts + 1
      /\ c.peak = u.peak /\ c.spent = Plus(u.spent, r)
  BY ChargeAttemptFields
<1> HIDE DEF c
<1>2. u.attempts \in Nat /\ u.spent \in [Metric -> Int]
  BY DEF Usage
<1>3. Minus(c.spent, r) = u.spent
  BY <1>1, <1>2, MetricArithmetic
<1>4. /\ back \in Usage /\ back.calls = u.calls /\ back.attempts = u.attempts
      /\ back.peak = u.peak /\ back.spent = u.spent
  BY <1>1, <1>2, <1>3, RollbackAttemptFields
<1> HIDE DEF back
<1>5. back = u
  BY <1>4, UsageEqual
<1>6. QED
  BY <1>5 DEF back, c

(* reconcileAttemptLocked changes the amounts, not the counts.             *)
LEMMA ReconcileFields ==
    ASSUME NEW u \in Usage, NEW r \in [Metric -> Nat], NEW a \in Actual
    PROVE  /\ Charge(r, a) \in [Metric -> Nat]
           /\ ReconcileAttempt(u, r, a) \in Usage
           /\ ReconcileAttempt(u, r, a).calls = u.calls
           /\ ReconcileAttempt(u, r, a).attempts = u.attempts
           /\ ReconcileAttempt(u, r, a).peak = u.peak
           /\ ReconcileAttempt(u, r, a).spent = Plus(Minus(u.spent, r), Charge(r, a))
<1>1. a \in ActualReport
  BY BudgetAssumption
<1>2. ASSUME NEW m \in Metric
      PROVE  (IF Usable(a) /\ m \in a.known THEN a.amount[m] ELSE r[m]) \in Nat
  BY <1>1 DEF Usable, ActualReport
<1>3. Charge(r, a) \in [Metric -> Nat]
  BY <1>2 DEF Charge
<1>4. Plus(Minus(u.spent, r), Charge(r, a)) \in [Metric -> Int]
  BY <1>3, MetricArithmetic DEF Usage
<1>5. QED
  BY <1>3, <1>4 DEF ReconcileAttempt, Usage

(* What persistLocked writes is a well-formed state file.                  *)
LEMMA PersistFields ==
    ASSUME NEW begin \in Nat, NEW u \in Usage
    PROVE  [exists |-> TRUE, started |-> begin, usage |-> u] \in Disk
  BY DEF Disk

(* Every step keeps memory, file and history well typed.                   *)
LEMMA TypeInductive == TypeOK /\ [Next]_vars => TypeOK'
<1> SUFFICES ASSUME TypeOK, [Next]_vars PROVE TypeOK'
  OBVIOUS
<1> USE BudgetAssumption DEF TypeOK
<1>0. ZeroUsage \in Usage /\ NoReservation \in [Metric -> Nat]
  BY DEF ZeroUsage, NoReservation, Usage
<1>1. CASE OpenFresh
  BY <1>0, <1>1, PersistFields DEF OpenFresh, Persist
<1>2. CASE OpenRestored
  <2>1. disk.usage \in Usage /\ disk.started \in Nat
    BY DEF Disk
  <2>2. disk.usage.spent \in [Metric -> Int]
    BY <2>1 DEF Usage
  <2>3. QED
    BY <1>2, <2>1, <2>2 DEF OpenRestored
<1>3. CASE Crash
  <2>1. res' \in [Worker -> [Metric -> Nat]] /\ pc' \in [Worker -> {"idle", "waiting", "slotted", "active", "releasing"}]
    BY <1>0, <1>3 DEF Crash
  <2>2. up' \in BOOLEAN
    BY <1>3 DEF Crash
  <2>3. usage' \in Usage /\ started' \in Nat /\ active' \in Int /\ slots' \in Int
    BY <1>0, <1>3 DEF Crash
  <2>4. UNCHANGED <<disk, clock, granted, dispatched, settled, overrun, firstStart>>
    BY <1>3 DEF Crash, history
  <2>5. QED
    BY <2>1, <2>2, <2>3, <2>4
<1>4. CASE Tick
  BY <1>4 DEF Tick, memory, history
<1>5. ASSUME NEW w \in Worker, ReserveCall(w) PROVE TypeOK'
  <2>1. ChargeCall(usage) \in Usage /\ RollbackCall(ChargeCall(usage)) = usage
    BY ChargeCallFields, CallArithmetic
  <2>2. usage' \in Usage /\ granted' \in Nat
    BY <1>5, <2>1 DEF ReserveCall
  <2>3. disk' \in Disk
    BY <1>5, <2>2, PersistFields DEF ReserveCall, Persist, PersistFails
  <2>4. UNCHANGED <<up, started, active, slots, pc, res, clock,
                    dispatched, settled, overrun, firstStart>>
    BY <1>5 DEF ReserveCall
  <2>5. QED
    BY <2>2, <2>3, <2>4
<1>6. ASSUME NEW w \in Worker, NEW r \in Reservation, Reserve(w, r) PROVE TypeOK'
  <2> DEFINE called == ChargeCall(usage)
             charged == ChargeAttempt(called, r)
  <2>1. called \in Usage /\ charged \in Usage /\ RollbackCall(RollbackAttempt(charged, r)) = usage
    BY ChargeCallFields, ChargeAttemptFields, CallArithmetic, AttemptArithmetic
  <2>2. Plus(settled, r) \in [Metric -> Int]
    BY MetricArithmetic
  <2>3. usage' \in Usage /\ granted' \in Nat /\ dispatched' \in Nat /\ settled' \in [Metric -> Int]
    BY <1>6, <2>1, <2>2 DEF Reserve
  <2>4. disk' \in Disk
    BY <1>6, <2>1, PersistFields DEF Reserve, Persist, PersistFails
  <2>5. UNCHANGED <<up, started, active, slots, pc, res, clock, overrun, firstStart>>
    BY <1>6 DEF Reserve
  <2>6. QED
    BY <2>3, <2>4, <2>5
<1>7. ASSUME NEW w \in Worker, NEW r \in Reservation, AcquireAttempt(w, r) PROVE TypeOK'
  BY <1>7 DEF AcquireAttempt, At, history
<1>8. ASSUME NEW w \in Worker, WaitDone(w) PROVE TypeOK'
  BY <1>8 DEF WaitDone, TakeSlot, At, history
<1>9. ASSUME NEW w \in Worker, WaitCancelled(w) PROVE TypeOK'
  BY <1>9 DEF WaitCancelled, At, history
<1>10. ASSUME NEW w \in Worker, ReserveAttempt(w) PROVE TypeOK'
  <2> DEFINE charged == RaisePeak(ChargeAttempt(usage, res[w]), active + 1)
  <2>1. res[w] \in [Metric -> Nat] /\ active + 1 \in Int
    OBVIOUS
  <2>2. charged \in Usage
    BY <2>1, ChargeAttemptFields, RaisePeakFields
  <2>2a. RollbackAttempt(charged, res[w]) \in Usage
    BY <2>1, RaisePeakFields, AcquireRollback
  <2>3. usage' \in Usage /\ dispatched' \in Nat /\ active' \in Int
    BY <1>10, <2>2, <2>2a DEF ReserveAttempt
  <2>4. pc' \in [Worker -> {"idle", "waiting", "slotted", "active", "releasing"}]
    BY <1>10 DEF ReserveAttempt, At
  <2>5. disk' \in Disk
    BY <1>10, <2>2, PersistFields DEF ReserveAttempt, Persist, PersistFails
  <2>6. UNCHANGED <<up, started, slots, res, clock, granted, settled, overrun, firstStart>>
    BY <1>10 DEF ReserveAttempt
  <2>7. QED
    BY <2>3, <2>4, <2>5, <2>6
<1>11. ASSUME NEW w \in Worker, RefuseAttempt(w) PROVE TypeOK'
  BY <1>11 DEF RefuseAttempt, At, history
<1>12. ASSUME NEW w \in Worker, NEW a \in Actual, Release(w, a) PROVE TypeOK'
  <2> DEFINE c == Charge(res[w], a)
             rec == ReconcileAttempt(usage, res[w], a)
  <2>1. c \in [Metric -> Nat] /\ rec \in Usage
    BY ReconcileFields
  <2> HIDE DEF c, rec
  <2>2. Plus(settled, c) \in [Metric -> Int]
    BY <2>1, MetricArithmetic
  <2>3. Plus(overrun, Excess(c, res[w])) \in [Metric -> Nat]
    BY <2>1 DEF Plus, Excess
  <2>4. usage' \in Usage /\ active' \in Int
    BY <1>12, <2>1 DEF Release, rec
  <2>5. settled' \in [Metric -> Int] /\ overrun' \in [Metric -> Nat]
    BY <1>12, <2>2, <2>3 DEF Release, c
  <2>6. disk' \in Disk
    BY <1>12, <2>4, PersistFields DEF Release, Persist, PersistFails
  <2>7. pc' \in [Worker -> {"idle", "waiting", "slotted", "active", "releasing"}]
    BY <1>12 DEF Release, At
  <2>8. UNCHANGED <<up, started, slots, res, clock, granted, dispatched, firstStart>>
    BY <1>12 DEF Release
  <2>9. QED
    BY <2>4, <2>5, <2>6, <2>7, <2>8
<1>13. ASSUME NEW w \in Worker, ReleaseSlot(w) PROVE TypeOK'
  BY <1>13 DEF ReleaseSlot, GiveSlot, At, history
<1>14. CASE UNCHANGED vars
  BY <1>14 DEF vars, memory, history
<1>15. QED
  BY <1>1, <1>2, <1>3, <1>4, <1>5, <1>6, <1>7, <1>8, <1>9, <1>10, <1>11, <1>12,
     <1>13, <1>14 DEF Next, WorkerStep

(* The budget's memory, its state file and the history always have their   *)
(* types: no operation leaves a field of the snapshot undefined.           *)
THEOREM TypeCorrect == Spec => []TypeOK
<1>1. Init => TypeOK
  <2>1. ZeroUsage \in Usage /\ NoReservation \in [Metric -> Nat] /\ NoReservation \in [Metric -> Int]
    BY DEF ZeroUsage, NoReservation, Usage
  <2>2. [exists |-> FALSE, started |-> 0, usage |-> ZeroUsage] \in Disk
    BY <2>1 DEF Disk
  <2>3. ASSUME Init PROVE TypeOK
    <3>1. pc \in [Worker -> {"idle", "waiting", "slotted", "active", "releasing"}]
      BY <2>3 DEF Init
    <3>2. res \in [Worker -> [Metric -> Nat]]
      BY <2>1, <2>3 DEF Init
    <3>3. /\ usage \in Usage /\ disk \in Disk
          /\ settled \in [Metric -> Int] /\ overrun \in [Metric -> Nat]
      BY <2>1, <2>2, <2>3 DEF Init
    <3>4. up \in BOOLEAN
      BY <2>3 DEF Init
    <3>5. QED
      BY <2>3, <3>1, <3>2, <3>3, <3>4 DEF Init, TypeOK
  <2>4. QED
    BY <2>3
<1>2. QED
  BY <1>1, TypeInductive, PTL DEF Spec

-----------------------------------------------------------------------------
(* DurableAccounting is inductive once it is known that nothing was        *)
(* granted before the state file exists.                                   *)
AccountingInv ==
    /\ DurableAccounting
    /\ ~disk.exists => granted = 0 /\ dispatched = 0

(* Every step keeps memory, file and grants in agreement.                  *)
LEMMA AccountingInductive == TypeOK /\ AccountingInv /\ [Next]_vars => AccountingInv'
<1> SUFFICES ASSUME TypeOK, AccountingInv, [Next]_vars PROVE AccountingInv'
  OBVIOUS
<1> USE BudgetAssumption DEF AccountingInv, DurableAccounting
<1>0. /\ usage \in Usage /\ res \in [Worker -> [Metric -> Nat]] /\ active \in Int
      /\ granted \in Nat /\ dispatched \in Nat
  BY DEF TypeOK
<1>1. CASE OpenFresh
  BY <1>0, <1>1 DEF OpenFresh, Persist, ZeroUsage
<1>2. CASE OpenRestored
  BY <1>2 DEF OpenRestored
<1>3. CASE Crash
  BY <1>3 DEF Crash, history
<1>4. CASE Tick
  BY <1>4 DEF Tick, memory, history
<1>5. ASSUME NEW w \in Worker, ReserveCall(w) PROVE AccountingInv'
  <2> DEFINE c == ChargeCall(usage)
  <2>1. c.calls = usage.calls + 1 /\ c.attempts = usage.attempts
    BY <1>0, ChargeCallFields
  <2>2. RollbackCall(c) = usage
    BY <1>0, CallArithmetic
  <2>3. up /\ Bounded(usage.calls + 1, MaxCalls)
    BY <1>5 DEF ReserveCall, CallFits
  <2> HIDE DEF c
  <2>4. CASE usage' = c /\ Persist(started, usage') /\ granted' = granted + 1
    BY <1>5, <2>1, <2>3, <2>4 DEF ReserveCall, Persist
  <2>5. CASE usage' = RollbackCall(c) /\ PersistFails /\ UNCHANGED granted
    BY <1>5, <2>2, <2>3, <2>5 DEF ReserveCall, PersistFails
  <2>6. QED
    BY <1>5, <2>4, <2>5 DEF ReserveCall, c
<1>6. ASSUME NEW w \in Worker, NEW r \in Reservation, Reserve(w, r) PROVE AccountingInv'
  <2> DEFINE b == ChargeCall(usage)
             c == ChargeAttempt(b, r)
  <2>1. b \in Usage /\ b.calls = usage.calls + 1 /\ b.attempts = usage.attempts
    BY <1>0, ChargeCallFields
  <2>2. c.calls = usage.calls + 1 /\ c.attempts = usage.attempts + 1
    BY <2>1, ChargeAttemptFields
  <2>3. RollbackCall(RollbackAttempt(c, r)) = usage
    BY <1>0, <2>1, CallArithmetic, AttemptArithmetic
  <2>4. up /\ Bounded(usage.calls + 1, MaxCalls) /\ Bounded(usage.attempts + 1, MaxAttempts)
    BY <1>6, <2>1 DEF Reserve, CallFits, AttemptFits
  <2> HIDE DEF b, c
  <2>5. CASE /\ usage' = c /\ Persist(started, c)
             /\ granted' = granted + 1 /\ dispatched' = dispatched + 1
    BY <1>6, <2>2, <2>4, <2>5 DEF Reserve, Persist
  <2>6. CASE /\ usage' = RollbackCall(RollbackAttempt(c, r)) /\ PersistFails
             /\ UNCHANGED <<granted, dispatched>>
    BY <1>6, <2>3, <2>4, <2>6 DEF Reserve, PersistFails
  <2>7. QED
    BY <1>6, <2>5, <2>6 DEF Reserve, b, c
<1>7. ASSUME NEW w \in Worker, NEW r \in Reservation, AcquireAttempt(w, r) PROVE AccountingInv'
  BY <1>7 DEF AcquireAttempt, At, history
<1>8. ASSUME NEW w \in Worker, WaitDone(w) PROVE AccountingInv'
  BY <1>8 DEF WaitDone, At, history
<1>9. ASSUME NEW w \in Worker, WaitCancelled(w) PROVE AccountingInv'
  BY <1>9 DEF WaitCancelled, At, history
<1>10. ASSUME NEW w \in Worker, ReserveAttempt(w) PROVE AccountingInv'
  <2> DEFINE c == RaisePeak(ChargeAttempt(usage, res[w]), active + 1)
             v == RaisePeak(usage, active + 1)
  <2>1. res[w] \in [Metric -> Nat] /\ active + 1 \in Int
    BY <1>0
  <2>2. c.calls = usage.calls /\ c.attempts = usage.attempts + 1
    <3>1. /\ ChargeAttempt(usage, res[w]) \in Usage
          /\ ChargeAttempt(usage, res[w]).calls = usage.calls
          /\ ChargeAttempt(usage, res[w]).attempts = usage.attempts + 1
      BY <1>0, <2>1, ChargeAttemptFields
    <3>2. QED
      BY <2>1, <3>1, RaisePeakFields
  <2>3. RollbackAttempt(c, res[w]) = v /\ v.calls = usage.calls /\ v.attempts = usage.attempts
    BY <1>0, <2>1, AcquireRollback, RaisePeakFields
  <2>4. Bounded(usage.attempts + 1, MaxAttempts)
    BY <1>10 DEF ReserveAttempt, AttemptFits
  <2> HIDE DEF c, v
  <2>5. CASE usage' = c /\ Persist(started, c) /\ dispatched' = dispatched + 1 /\ up
    BY <1>10, <2>2, <2>4, <2>5 DEF ReserveAttempt, Persist
  <2>6. CASE usage' = RollbackAttempt(c, res[w]) /\ PersistFails /\ UNCHANGED dispatched /\ up
    BY <1>10, <2>3, <2>6 DEF ReserveAttempt, PersistFails
  <2>7. QED
    BY <1>10, <2>5, <2>6 DEF ReserveAttempt, At, c
<1>11. ASSUME NEW w \in Worker, RefuseAttempt(w) PROVE AccountingInv'
  BY <1>11 DEF RefuseAttempt, At, history
<1>12. ASSUME NEW w \in Worker, NEW a \in Actual, Release(w, a) PROVE AccountingInv'
  <2> DEFINE c == ReconcileAttempt(usage, res[w], a)
  <2>1. c.calls = usage.calls /\ c.attempts = usage.attempts
    BY <1>0, ReconcileFields
  <2> HIDE DEF c
  <2>2. up /\ usage' = c /\ UNCHANGED <<up, granted, dispatched>>
    BY <1>12 DEF Release, At, c
  <2>3. CASE Persist(started, usage')
    BY <2>1, <2>2, <2>3 DEF Persist
  <2>4. CASE PersistFails
    BY <2>1, <2>2, <2>4 DEF PersistFails
  <2>5. QED
    BY <1>12, <2>3, <2>4 DEF Release
<1>13. ASSUME NEW w \in Worker, ReleaseSlot(w) PROVE AccountingInv'
  BY <1>13 DEF ReleaseSlot, At, history
<1>14. CASE UNCHANGED vars
  BY <1>14 DEF vars, memory, history
<1>15. QED
  BY <1>1, <1>2, <1>3, <1>4, <1>5, <1>6, <1>7, <1>8, <1>9, <1>10, <1>11, <1>12,
     <1>13, <1>14 DEF Next, WorkerStep

(* A restart cannot reset the budget: for any number of workers, crashes   *)
(* and failed writes, the state file accounts for every call and attempt   *)
(* granted over all lives of the process, and neither limit is exceeded.   *)
THEOREM AccountingIsDurable == Spec => []DurableAccounting
<1>1. Init => AccountingInv
  BY BudgetAssumption DEF Init, AccountingInv, DurableAccounting, ZeroUsage, Bounded
<1>2. AccountingInv => DurableAccounting
  BY DEF AccountingInv
<1>3. QED
  BY <1>1, <1>2, AccountingInductive, TypeCorrect, PTL DEF Spec

-----------------------------------------------------------------------------
(* ConcurrencyExact is inductive together with the fact that no worker is  *)
(* inside the budget while the process is down.                            *)
ConcurrencyInv ==
    /\ ConcurrencyExact
    /\ ~up => \A w \in Worker : pc[w] = "idle"

(* How the two worker sets move with one worker's program counter.         *)
LEMMA WorkerSets ==
    ASSUME pc \in [Worker -> {"idle", "waiting", "slotted", "active", "releasing"}]
    PROVE  /\ IsFiniteSet(Holding) /\ IsFiniteSet(InFlight)
           /\ Cardinality(Holding) \in Nat /\ Cardinality(InFlight) \in Nat
           /\ \A w \in Worker : pc[w] = "slotted" => Cardinality(InFlight) + 1 <= Cardinality(Holding)
           /\ Cardinality(InFlight) <= Cardinality(Holding)
<1>1. Holding \subseteq Worker /\ InFlight \subseteq Holding
  BY DEF Holding, InFlight
<1>2. IsFiniteSet(Holding) /\ IsFiniteSet(InFlight)
  BY <1>1, BudgetAssumption, FS_Subset
<1>3. Cardinality(Holding) \in Nat /\ Cardinality(InFlight) \in Nat
  BY <1>2, FS_CardinalityType
<1>4. ASSUME NEW w \in Worker, pc[w] = "slotted"
      PROVE  Cardinality(InFlight) + 1 <= Cardinality(Holding)
  <2>1. w \notin InFlight /\ InFlight \cup {w} \subseteq Holding
    BY <1>1, <1>4 DEF Holding, InFlight
  <2>2. Cardinality(InFlight \cup {w}) = Cardinality(InFlight) + 1
    BY <1>2, <2>1, FS_AddElement
  <2>3. Cardinality(InFlight \cup {w}) <= Cardinality(Holding)
    BY <1>2, <2>1, FS_Subset
  <2>4. QED
    BY <2>2, <2>3
<1>5. Cardinality(InFlight) <= Cardinality(Holding)
  BY <1>1, <1>2, FS_Subset
<1>6. QED
  BY <1>2, <1>3, <1>4, <1>5

(* With no worker inside an attempt both worker sets are empty.            *)
LEMMA AllIdle ==
    ASSUME \A w \in Worker : pc[w] = "idle"
    PROVE  Holding = {} /\ InFlight = {} /\ Cardinality(Holding) = 0 /\ Cardinality(InFlight) = 0
<1>1. Holding = {} /\ InFlight = {}
  BY DEF Holding, InFlight
<1>2. QED
  BY <1>1, FS_EmptySet

(* Every step keeps slots and active count exact.                          *)
LEMMA ConcurrencyInductive == TypeOK /\ ConcurrencyInv /\ [Next]_vars => ConcurrencyInv'
<1> SUFFICES ASSUME TypeOK, ConcurrencyInv, [Next]_vars PROVE ConcurrencyInv'
  OBVIOUS
<1> USE BudgetAssumption DEF ConcurrencyInv, ConcurrencyExact
<1> DEFINE PC == {"idle", "waiting", "slotted", "active", "releasing"}
<1>0. /\ usage \in Usage /\ res \in [Worker -> [Metric -> Nat]] /\ active \in Int /\ slots \in Int
      /\ pc \in [Worker -> PC] /\ usage.peak \in Nat
  BY DEF TypeOK, Usage
<1>a. /\ IsFiniteSet(Holding) /\ IsFiniteSet(InFlight)
      /\ Cardinality(Holding) \in Nat /\ Cardinality(InFlight) \in Nat
      /\ \A w \in Worker : pc[w] = "slotted" => Cardinality(InFlight) + 1 <= Cardinality(Holding)
      /\ Cardinality(InFlight) <= Cardinality(Holding)
  BY <1>0, WorkerSets
<1>b. (\A w \in Worker : pc'[w] = "idle") => Cardinality(Holding') = 0 /\ Cardinality(InFlight') = 0
  <2>1. (\A w \in Worker : pc'[w] = "idle") => Holding' = {} /\ InFlight' = {}
    BY DEF Holding, InFlight
  <2>2. QED
    BY <2>1, FS_EmptySet
<1>1. CASE OpenFresh
  <2>1. pc' = pc /\ \A w \in Worker : pc'[w] = "idle"
    BY <1>1 DEF OpenFresh
  <2>2. up' = TRUE /\ active' = 0 /\ slots' = 0 /\ usage'.peak = 0
    BY <1>1 DEF OpenFresh, ZeroUsage
  <2>3. QED
    BY <1>b, <2>1, <2>2
<1>2. CASE OpenRestored
  <2>1. pc' = pc /\ \A w \in Worker : pc'[w] = "idle"
    BY <1>2 DEF OpenRestored
  <2>2. up' = TRUE /\ active' = 0 /\ slots' = 0 /\ usage' = disk.usage
    BY <1>2 DEF OpenRestored
  <2>3. disk.usage.peak \in Nat /\ (MaxConcurrent > 0 => disk.usage.peak <= MaxConcurrent)
    BY <1>2 DEF OpenRestored, Restorable, Bounded, TypeOK, Disk, Usage
  <2>4. QED
    BY <1>b, <2>1, <2>2, <2>3
<1>3. CASE Crash
  <2>1. \A w \in Worker : pc'[w] = "idle"
    BY <1>3 DEF Crash
  <2>2. up' = FALSE /\ active' = 0 /\ slots' = 0 /\ usage'.peak = 0
    BY <1>3 DEF Crash, ZeroUsage
  <2>3. QED
    BY <1>b, <2>1, <2>2
<1>c. ASSUME UNCHANGED <<up, active, slots, pc>>, usage'.peak = usage.peak PROVE ConcurrencyInv'
  BY <1>c DEF Holding, InFlight
<1>4. CASE Tick
  BY <1>4, <1>c DEF Tick, memory
<1>5. ASSUME NEW w \in Worker, ReserveCall(w) PROVE ConcurrencyInv'
  <2>1. ChargeCall(usage).peak = usage.peak /\ RollbackCall(ChargeCall(usage)) = usage
    BY <1>0, ChargeCallFields, CallArithmetic
  <2>2. QED
    BY <1>5, <1>c, <2>1 DEF ReserveCall
<1>6. ASSUME NEW w \in Worker, NEW r \in Reservation, Reserve(w, r) PROVE ConcurrencyInv'
  <2>1. ChargeCall(usage) \in Usage /\ ChargeCall(usage).peak = usage.peak
    BY <1>0, ChargeCallFields
  <2>2. ChargeAttempt(ChargeCall(usage), r).peak = usage.peak
    BY <2>1, ChargeAttemptFields
  <2>3. RollbackCall(RollbackAttempt(ChargeAttempt(ChargeCall(usage), r), r)) = usage
    BY <1>0, <2>1, CallArithmetic, AttemptArithmetic
  <2>4. QED
    BY <1>6, <1>c, <2>2, <2>3 DEF Reserve
<1>7. ASSUME NEW w \in Worker, NEW r \in Reservation, AcquireAttempt(w, r) PROVE ConcurrencyInv'
  <2>1. Holding' = Holding /\ InFlight' = InFlight
    BY <1>0, <1>7 DEF AcquireAttempt, At, Holding, InFlight
  <2>2. QED
    BY <1>7, <2>1 DEF AcquireAttempt, At
<1>8. ASSUME NEW w \in Worker, WaitDone(w) PROVE ConcurrencyInv'
  <2>1. Holding' = Holding \cup {w} /\ w \notin Holding /\ InFlight' = InFlight
    BY <1>0, <1>8 DEF WaitDone, At, Holding, InFlight
  <2>2. Cardinality(Holding') = Cardinality(Holding) + 1
    BY <1>a, <2>1, FS_AddElement
  <2>3. QED
    BY <1>0, <1>8, <2>1, <2>2 DEF WaitDone, At, TakeSlot
<1>9. ASSUME NEW w \in Worker, WaitCancelled(w) PROVE ConcurrencyInv'
  <2>1. Holding' = Holding /\ InFlight' = InFlight
    BY <1>0, <1>9 DEF WaitCancelled, At, Holding, InFlight
  <2>2. QED
    BY <1>9, <2>1 DEF WaitCancelled, At
<1>10. ASSUME NEW w \in Worker, ReserveAttempt(w) PROVE ConcurrencyInv'
  <2> DEFINE c == RaisePeak(ChargeAttempt(usage, res[w]), active + 1)
             v == RaisePeak(usage, active + 1)
  <2>1. /\ res[w] \in [Metric -> Nat] /\ active + 1 \in Int
        /\ up /\ pc[w] = "slotted"
    BY <1>0, <1>10 DEF ReserveAttempt, At
  <2>2. c.peak = (IF active + 1 > usage.peak THEN active + 1 ELSE usage.peak)
    <3>1. ChargeAttempt(usage, res[w]) \in Usage /\ ChargeAttempt(usage, res[w]).peak = usage.peak
      BY <1>0, <2>1, ChargeAttemptFields
    <3>2. QED
      BY <2>1, <3>1, RaisePeakFields
  <2>3. /\ RollbackAttempt(c, res[w]) = v
        /\ v.peak = (IF active + 1 > usage.peak THEN active + 1 ELSE usage.peak)
    BY <1>0, <2>1, AcquireRollback, RaisePeakFields
  <2> HIDE DEF c, v
  <2>4. active + 1 <= Cardinality(Holding)
    BY <1>a, <2>1
  <2>5. CASE At(w, "slotted", "active") /\ usage' = c /\ active' = active + 1
    <3>1. Holding' = Holding /\ InFlight' = InFlight \cup {w} /\ w \notin InFlight
      BY <1>0, <2>5 DEF At, Holding, InFlight
    <3>2. Cardinality(InFlight') = Cardinality(InFlight) + 1
      BY <1>a, <3>1, FS_AddElement
    <3>3. UNCHANGED <<up, slots>> /\ up
      BY <1>10, <2>1 DEF ReserveAttempt
    <3>4. QED
      BY <1>0, <1>a, <2>2, <2>4, <2>5, <3>1, <3>2, <3>3
  <2>6. CASE At(w, "slotted", "releasing") /\ usage' = RollbackAttempt(c, res[w]) /\ UNCHANGED active
    <3>1. Holding' = Holding /\ InFlight' = InFlight
      BY <1>0, <2>6 DEF At, Holding, InFlight
    <3>2. UNCHANGED <<up, slots>> /\ up
      BY <1>10, <2>1 DEF ReserveAttempt
    <3>3. QED
      BY <1>0, <1>a, <2>3, <2>4, <2>6, <3>1, <3>2
  <2>7. QED
    BY <1>10, <2>5, <2>6 DEF ReserveAttempt, c
<1>11. ASSUME NEW w \in Worker, RefuseAttempt(w) PROVE ConcurrencyInv'
  <2>1. Holding' = Holding /\ InFlight' = InFlight
    BY <1>0, <1>11 DEF RefuseAttempt, At, Holding, InFlight
  <2>2. QED
    BY <1>11, <2>1 DEF RefuseAttempt, At
<1>12. ASSUME NEW w \in Worker, NEW a \in Actual, Release(w, a) PROVE ConcurrencyInv'
  <2>1. Holding' = Holding /\ InFlight' = InFlight \ {w} /\ w \in InFlight
    BY <1>0, <1>12 DEF Release, At, Holding, InFlight
  <2>2. Cardinality(InFlight') = Cardinality(InFlight) - 1
    BY <1>a, <2>1, FS_RemoveElement
  <2>3. usage'.peak = usage.peak
    BY <1>0, <1>12, ReconcileFields DEF Release
  <2>4. active' = active - 1 /\ UNCHANGED <<up, slots>> /\ up
    BY <1>12 DEF Release, At
  <2>5. QED
    BY <1>0, <1>a, <2>1, <2>2, <2>3, <2>4
<1>13. ASSUME NEW w \in Worker, ReleaseSlot(w) PROVE ConcurrencyInv'
  <2>1. Holding' = Holding \ {w} /\ w \in Holding /\ InFlight' = InFlight
    BY <1>0, <1>13 DEF ReleaseSlot, At, Holding, InFlight
  <2>2. Cardinality(Holding') = Cardinality(Holding) - 1
    BY <1>a, <2>1, FS_RemoveElement
  <2>3. QED
    BY <1>0, <1>13, <2>1, <2>2 DEF ReleaseSlot, At, GiveSlot
<1>14. CASE UNCHANGED vars
  BY <1>14, <1>c DEF vars, memory
<1>15. QED
  BY <1>1, <1>2, <1>3, <1>4, <1>5, <1>6, <1>7, <1>8, <1>9, <1>10, <1>11, <1>12,
     <1>13, <1>14 DEF Next, WorkerStep

(* No interleaving of waits, cancellations, refusals, failed writes and    *)
(* releases leaks or duplicates a slot, and the attempts in flight never   *)
(* exceed MaxConcurrent, for any number of goroutines.                     *)
THEOREM ConcurrencyIsExact == Spec => []ConcurrencyExact
<1>1. Init => ConcurrencyInv
  <2>1. Init => \A w \in Worker : pc[w] = "idle"
    BY DEF Init
  <2>2. Init => Cardinality(Holding) = 0 /\ Cardinality(InFlight) = 0
    BY <2>1, AllIdle
  <2>3. QED
    BY <2>1, <2>2, BudgetAssumption DEF Init, ConcurrencyInv, ConcurrencyExact, ZeroUsage
<1>2. ConcurrencyInv => ConcurrencyExact
  BY DEF ConcurrencyInv
<1>3. QED
  BY <1>1, <1>2, ConcurrencyInductive, TypeCorrect, PTL DEF Spec

-----------------------------------------------------------------------------
(* The reservations in flight, counted unit by unit.                       *)
Units(S, m) == UNION {{w} \X (1 .. res[w][m]) : w \in S}

(* A reservation that joins the set adds its own units.                    *)
LEMMA UnitsCount ==
    ASSUME TypeOK, NEW m \in Metric, NEW S \in SUBSET Worker
    PROVE  /\ IsFiniteSet(Units(S, m)) /\ Cardinality(Units(S, m)) \in Nat
           /\ \A w \in Worker \ S :
                 Cardinality(Units(S \cup {w}, m)) = Cardinality(Units(S, m)) + res[w][m]
<1>1. ASSUME NEW w \in Worker
      PROVE  IsFiniteSet({w} \X (1 .. res[w][m])) /\ Cardinality({w} \X (1 .. res[w][m])) = res[w][m]
  <2>1. PICK n \in Nat : n = res[w][m]
    BY DEF TypeOK
  <2>2. IsFiniteSet(1 .. n) /\ Cardinality(1 .. n) = n
    <3>1. IsFiniteSet(1 .. n) /\ Cardinality(1 .. n) = IF 1 > n THEN 0 ELSE n - 1 + 1
      BY ONLY FS_Interval, n \in Nat
    <3>. QED BY <3>1
  <2>3. IsFiniteSet({w}) /\ Cardinality({w}) = 1
    BY FS_Singleton
  <2>4. IsFiniteSet({w} \X (1 .. n)) /\ Cardinality({w} \X (1 .. n)) = 1 * n
    BY <2>2, <2>3, FS_Product
  <2>. QED BY <2>1, <2>4
<1>2. IsFiniteSet(Units(S, m))
  <2> DEFINE f == [w \in S |-> {w} \X (1 .. res[w][m])]
             parts == {{w} \X (1 .. res[w][m]) : w \in S}
  <2>1. IsFiniteSet(S)
    BY BudgetAssumption, FS_Subset
  <2>2. f \in Surjection(S, parts)
    BY DEF Surjection
  <2>3. IsFiniteSet(parts)
    BY <2>1, <2>2, FS_Surjection
  <2>4. \A part \in parts : IsFiniteSet(part)
    BY <1>1
  <2>. QED BY <2>3, <2>4, FS_UNION DEF Units
<1>3. ASSUME NEW w \in Worker \ S
      PROVE  Cardinality(Units(S \cup {w}, m)) = Cardinality(Units(S, m)) + res[w][m]
  <2> DEFINE mine == {w} \X (1 .. res[w][m])
  <2>1. Units(S \cup {w}, m) = Units(S, m) \cup mine /\ Units(S, m) \cap mine = {}
    BY DEF Units
  <2>2. IsFiniteSet(mine) /\ Cardinality(mine) = res[w][m] /\ res[w][m] \in Nat
    BY <1>1 DEF TypeOK
  <2> HIDE DEF mine
  <2>3. Cardinality(Units(S, m) \cup mine)
          = Cardinality(Units(S, m)) + Cardinality(mine) - Cardinality(Units(S, m) \cap mine)
    BY <1>2, <2>2, FS_Union
  <2>4. Cardinality(Units(S, m) \cap mine) = 0
    BY <2>1, FS_EmptySet
  <2>5. Cardinality(Units(S, m)) \in Nat
    BY <1>2, FS_CardinalityType
  <2>6. Cardinality(Units(S, m) \cup mine) = Cardinality(Units(S, m)) + res[w][m]
    BY <2>2, <2>3, <2>4, <2>5
  <2>. QED BY <2>1, <2>6
<1>. QED BY <1>2, <1>3, FS_CardinalityType

(* Every step moves spent and settled by the same amount, except that an   *)
(* attempt takes its reservation in with it and leaves with its charge.    *)
BalanceInv ==
    /\ ChargesBalance
    /\ ~up => \A w \in Worker : pc[w] = "idle"
    /\ ~disk.exists => ~up /\ settled = NoReservation

LEMMA BalanceInductive == TypeOK /\ BalanceInv /\ [Next]_vars => BalanceInv'
<1> SUFFICES ASSUME TypeOK, BalanceInv, [Next]_vars PROVE BalanceInv'
  OBVIOUS
<1> USE BudgetAssumption
<1>0. /\ usage \in Usage /\ res \in [Worker -> [Metric -> Nat]] /\ active \in Int
      /\ settled \in [Metric -> Int] /\ usage.spent \in [Metric -> Int]
      /\ pc \in [Worker -> {"idle", "waiting", "slotted", "active", "releasing"}]
  BY DEF TypeOK, Usage
<1>a. ASSUME NEW m \in Metric
      PROVE  /\ Reserved(m) = Units(InFlight, m) /\ InFlight \in SUBSET Worker
             /\ Cardinality(Reserved(m)) \in Nat /\ settled[m] \in Int /\ usage.spent[m] \in Int
             /\ up => usage.spent[m] = settled[m] + Cardinality(Reserved(m))
  <2>1. Reserved(m) = Units(InFlight, m) /\ InFlight \in SUBSET Worker
    BY DEF Reserved, Units, InFlight
  <2>. QED BY <1>0, <2>1, UnitsCount DEF BalanceInv, ChargesBalance
<1>b. ASSUME UNCHANGED up, disk.exists => disk'.exists, up,
             \A m \in Metric : usage'.spent[m] = settled'[m] + Cardinality(Reserved(m)')
      PROVE  BalanceInv'
  BY <1>b DEF BalanceInv, ChargesBalance, Reserved, InFlight
<1>c. ASSUME InFlight' = InFlight, \A v \in InFlight : res'[v] = res[v], NEW m \in Metric
      PROVE  Reserved(m)' = Reserved(m)
  BY <1>c DEF Reserved
(* A step that neither starts nor ends an attempt.                         *)
<1>d. ASSUME UNCHANGED up, disk.exists => disk'.exists, up, InFlight' = InFlight,
             \A v \in InFlight : res'[v] = res[v],
             \A m \in Metric : \E d \in Int : usage'.spent[m] = usage.spent[m] + d /\ settled'[m] = settled[m] + d
      PROVE  BalanceInv'
  <2>1. ASSUME NEW m \in Metric PROVE usage'.spent[m] = settled'[m] + Cardinality(Reserved(m)')
    BY <1>a, <1>c, <1>d
  <2>. QED BY <1>b, <1>d, <2>1
<1>e. ASSUME UNCHANGED <<up, settled>>, disk.exists => disk'.exists, up, usage'.spent = usage.spent,
             InFlight' = InFlight, \A v \in InFlight : res'[v] = res[v]
      PROVE  BalanceInv'
  <2>1. \A m \in Metric : usage'.spent[m] = usage.spent[m] + 0 /\ settled'[m] = settled[m] + 0
    BY <1>a, <1>e
  <2>. QED BY <1>d, <1>e, <2>1
<1>f. ASSUME \A v \in Worker : pc'[v] = "idle", NEW m \in Metric PROVE Cardinality(Reserved(m)') = 0
  <2>1. Reserved(m)' = {}
    BY <1>f DEF Reserved, InFlight
  <2>. QED BY <2>1, FS_EmptySet
<1>1. CASE OpenFresh
  <2>1. /\ \A v \in Worker : pc'[v] = "idle"
        /\ up' /\ disk'.exists /\ settled' = NoReservation /\ usage' = ZeroUsage
    BY <1>1 DEF OpenFresh, Persist, BalanceInv
  <2>2. ChargesBalance'
    BY <1>f, <2>1 DEF ChargesBalance, ZeroUsage, NoReservation
  <2>. QED BY <2>1, <2>2 DEF BalanceInv
<1>2. CASE OpenRestored
  <2>1. /\ \A v \in Worker : pc'[v] = "idle"
        /\ up' /\ disk'.exists /\ settled' = disk.usage.spent /\ usage' = disk.usage
        /\ disk.usage.spent \in [Metric -> Int]
    BY <1>2 DEF OpenRestored, BalanceInv, TypeOK, Disk, Usage
  <2>2. ChargesBalance'
    BY <1>f, <2>1 DEF ChargesBalance
  <2>. QED BY <2>1, <2>2 DEF BalanceInv
<1>3. CASE Crash
  <2>1. /\ \A v \in Worker : pc'[v] = "idle"
        /\ up /\ ~up' /\ UNCHANGED <<disk, settled>>
    BY <1>3 DEF Crash, history
  <2>. QED BY <2>1 DEF BalanceInv, ChargesBalance
<1>4. CASE Tick \/ UNCHANGED vars
  <2>1. UNCHANGED <<up, usage, pc, res, disk, settled>>
    BY <1>4 DEF Tick, memory, history, vars
  <2>. QED BY <2>1 DEF BalanceInv, ChargesBalance, Reserved, InFlight
<1>5. ASSUME NEW w \in Worker, ReserveCall(w) PROVE BalanceInv'
  <2>1. ChargeCall(usage).spent = usage.spent /\ RollbackCall(ChargeCall(usage)) = usage
    BY <1>0, ChargeCallFields, CallArithmetic
  <2>. QED BY <1>5, <1>e, <2>1 DEF ReserveCall, Persist, PersistFails, InFlight
<1>6. ASSUME NEW w \in Worker, NEW r \in Reservation, Reserve(w, r) PROVE BalanceInv'
  <2> DEFINE b == ChargeCall(usage)
             c == ChargeAttempt(b, r)
  <2>1. b \in Usage /\ b.spent = usage.spent
    BY <1>0, ChargeCallFields
  <2>2. c.spent = Plus(usage.spent, r) /\ RollbackCall(RollbackAttempt(c, r)) = usage
    BY <1>0, <2>1, ChargeAttemptFields, CallArithmetic, AttemptArithmetic
  <2> HIDE DEF b, c
  <2>3. up /\ UNCHANGED <<up, pc, res>> /\ (disk.exists => disk'.exists) /\ InFlight' = InFlight
    BY <1>6 DEF Reserve, Persist, PersistFails, InFlight
  <2>4. CASE usage' = c /\ settled' = Plus(settled, r)
    <3>1. ASSUME NEW m \in Metric
          PROVE  r[m] \in Int /\ usage'.spent[m] = usage.spent[m] + r[m] /\ settled'[m] = settled[m] + r[m]
      BY <2>2, <2>4 DEF Plus
    <3>. QED BY <1>d, <2>3, <3>1
  <2>5. CASE usage' = RollbackCall(RollbackAttempt(c, r)) /\ UNCHANGED settled
    BY <1>e, <2>2, <2>3, <2>5
  <2>. QED BY <1>6, <2>4, <2>5 DEF Reserve, b, c
<1>7. ASSUME NEW w \in Worker, NEW r \in Reservation, AcquireAttempt(w, r) PROVE BalanceInv'
  <2>1. InFlight' = InFlight /\ \A v \in InFlight : res'[v] = res[v]
    BY <1>0, <1>7 DEF AcquireAttempt, At, InFlight
  <2>. QED BY <1>7, <1>e, <2>1 DEF AcquireAttempt, At, history
<1>8. ASSUME NEW w \in Worker, WaitDone(w) \/ WaitCancelled(w) \/ RefuseAttempt(w) \/ ReleaseSlot(w)
      PROVE  BalanceInv'
  <2>1. InFlight' = InFlight /\ up /\ UNCHANGED <<up, usage, res, disk, settled>>
    BY <1>0, <1>8 DEF WaitDone, WaitCancelled, RefuseAttempt, ReleaseSlot, At, InFlight, history
  <2>. QED BY <1>e, <2>1
<1>9. ASSUME NEW w \in Worker, ReserveAttempt(w) PROVE BalanceInv'
  <2> DEFINE b == ChargeAttempt(usage, res[w])
             c == RaisePeak(b, active + 1)
             v == RaisePeak(usage, active + 1)
  <2>1. res[w] \in [Metric -> Nat] /\ active + 1 \in Int
    BY <1>0
  <2>2. b \in Usage /\ b.spent = Plus(usage.spent, res[w])
    BY <1>0, <2>1, ChargeAttemptFields
  <2>3. c.spent = Plus(usage.spent, res[w])
    BY <2>1, <2>2, RaisePeakFields
  <2>4. RollbackAttempt(c, res[w]) = v /\ v.spent = usage.spent
    BY <1>0, <2>1, AcquireRollback, RaisePeakFields
  <2> HIDE DEF b, c, v
  <2>5. up /\ UNCHANGED <<up, res, settled>> /\ (disk.exists => disk'.exists) /\ pc[w] = "slotted"
    BY <1>9 DEF ReserveAttempt, At, Persist, PersistFails
  <2>6. CASE At(w, "slotted", "active") /\ usage' = c
    <3>1. InFlight' = InFlight \cup {w} /\ w \notin InFlight
      BY <1>0, <2>6 DEF At, InFlight
    <3>2. ASSUME NEW m \in Metric PROVE usage'.spent[m] = settled'[m] + Cardinality(Reserved(m)')
      <4>1. Reserved(m)' = Units(InFlight \cup {w}, m)
        BY <2>5, <3>1 DEF Reserved, Units
      <4>2. Cardinality(Units(InFlight \cup {w}, m)) = Cardinality(Units(InFlight, m)) + res[w][m]
        BY <1>a, <3>1, UnitsCount
      <4>3. usage'.spent[m] = usage.spent[m] + res[w][m] /\ res[w][m] \in Nat
        BY <2>1, <2>3, <2>6 DEF Plus
      <4>4. Reserved(m) = Units(InFlight, m) /\ usage.spent[m] = settled[m] + Cardinality(Reserved(m))
            /\ Cardinality(Reserved(m)) \in Nat /\ settled[m] \in Int
        BY <1>a, <2>5
      <4>. QED BY <2>5, <4>1, <4>2, <4>3, <4>4
    <3>. QED BY <1>b, <2>5, <3>2
  <2>7. CASE At(w, "slotted", "releasing") /\ usage' = RollbackAttempt(c, res[w])
    <3>1. InFlight' = InFlight
      BY <1>0, <2>7 DEF At, InFlight
    <3>. QED BY <1>e, <2>4, <2>5, <2>7, <3>1
  <2>. QED BY <1>9, <2>6, <2>7 DEF ReserveAttempt, b, c
<1>10. ASSUME NEW w \in Worker, NEW a \in Actual, Release(w, a) PROVE BalanceInv'
  <2> DEFINE c == Charge(res[w], a)
             rec == ReconcileAttempt(usage, res[w], a)
  <2>1. c \in [Metric -> Nat] /\ rec.spent = Plus(Minus(usage.spent, res[w]), c) /\ res[w] \in [Metric -> Nat]
    BY <1>0, ReconcileFields
  <2> HIDE DEF c, rec
  <2>2. /\ up /\ UNCHANGED <<up, res>> /\ (disk.exists => disk'.exists)
        /\ usage' = rec /\ settled' = Plus(settled, c)
    BY <1>10 DEF Release, At, Persist, PersistFails, c, rec
  <2>3. InFlight = InFlight' \cup {w} /\ w \notin InFlight' /\ InFlight' \in SUBSET Worker
    BY <1>0, <1>10 DEF Release, At, InFlight
  <2>4. ASSUME NEW m \in Metric PROVE usage'.spent[m] = settled'[m] + Cardinality(Reserved(m)')
    <3>1. PICK S \in SUBSET Worker : S = InFlight' /\ w \notin S
      BY <2>3
    <3>2. Reserved(m)' = Units(S, m) /\ Reserved(m) = Units(S \cup {w}, m)
      BY <1>a, <2>2, <2>3, <3>1 DEF Reserved, Units
    <3>3. /\ Cardinality(Units(S \cup {w}, m)) = Cardinality(Units(S, m)) + res[w][m]
          /\ Cardinality(Units(S, m)) \in Nat
      BY <3>1, UnitsCount
    <3>4. usage'.spent[m] = usage.spent[m] - res[w][m] + c[m] /\ settled'[m] = settled[m] + c[m]
          /\ res[w][m] \in Nat /\ c[m] \in Nat
      BY <1>0, <2>1, <2>2 DEF Plus, Minus
    <3>5. usage.spent[m] = settled[m] + Cardinality(Reserved(m)) /\ settled[m] \in Int
      BY <1>a, <2>2
    <3>. QED BY <3>2, <3>3, <3>4, <3>5
  <2>. QED BY <1>b, <2>2, <2>4
<1>. QED BY <1>1, <1>2, <1>3, <1>4, <1>5, <1>6, <1>7, <1>8, <1>9, <1>10 DEF Next, WorkerStep

(* What is charged is what attempts in flight have reserved plus what the  *)
(* others were finally charged, for any number of goroutines and any       *)
(* reports, crashes and failed writes (reconcileAttemptLocked).            *)
THEOREM ChargesAreBalanced == Spec => []ChargesBalance
<1>1. Init => BalanceInv
  BY DEF Init, BalanceInv, ChargesBalance
<1>2. BalanceInv => ChargesBalance
  BY DEF BalanceInv
<1>. QED BY <1>1, <1>2, BalanceInductive, TypeCorrect, PTL DEF Spec

-----------------------------------------------------------------------------
(* OverrunOnlyByReports is inductive as it stands.                         *)
LEMMA OverrunInductive == TypeOK /\ OverrunOnlyByReports /\ [Next]_vars => OverrunOnlyByReports'
<1> SUFFICES ASSUME TypeOK, OverrunOnlyByReports, [Next]_vars,
                    NEW m \in Metric, Limit[m] > 0
             PROVE  /\ disk'.usage.spent[m] <= Limit[m] + overrun'[m]
                    /\ usage'.spent[m] <= Limit[m] + overrun'[m]
  BY DEF OverrunOnlyByReports
<1> USE BudgetAssumption
<1>0. /\ usage \in Usage /\ res \in [Worker -> [Metric -> Nat]] /\ active \in Int
      /\ usage.spent \in [Metric -> Int] /\ overrun \in [Metric -> Nat] /\ Limit \in [Metric -> Nat]
  BY DEF TypeOK, Usage
<1>a. /\ disk.usage.spent[m] <= Limit[m] + overrun[m] /\ disk.usage.spent[m] \in Int
      /\ usage.spent[m] <= Limit[m] + overrun[m] /\ usage.spent[m] \in Int
      /\ overrun[m] \in Nat /\ Limit[m] \in Nat
  BY DEF OverrunOnlyByReports, TypeOK, Disk, Usage
<1> DEFINE Goal == /\ disk'.usage.spent[m] <= Limit[m] + overrun'[m]
                   /\ usage'.spent[m] <= Limit[m] + overrun'[m]
<1>b. ASSUME UNCHANGED overrun, disk' = disk, usage'.spent = usage.spent PROVE Goal
  BY <1>a, <1>b
<1>1. CASE OpenFresh
  BY <1>1, <1>a DEF OpenFresh, Persist, ZeroUsage
<1>2. CASE OpenRestored
  BY <1>2, <1>a DEF OpenRestored
<1>3. CASE Crash
  BY <1>3, <1>a DEF Crash, history, ZeroUsage
<1>4. CASE Tick
  BY <1>4, <1>b DEF Tick, memory, history
<1>5. ASSUME NEW w \in Worker, ReserveCall(w) PROVE Goal
  <2>1. ChargeCall(usage).spent = usage.spent /\ RollbackCall(ChargeCall(usage)) = usage
    BY <1>0, ChargeCallFields, CallArithmetic
  <2>2. UNCHANGED overrun /\ usage'.spent = usage.spent
    BY <1>5, <2>1 DEF ReserveCall
  <2>3. CASE Persist(started, usage')
    BY <1>a, <2>2, <2>3 DEF Persist
  <2>4. CASE PersistFails
    BY <1>b, <2>2, <2>4 DEF PersistFails
  <2>5. QED
    BY <1>5, <2>3, <2>4 DEF ReserveCall
<1>6. ASSUME NEW w \in Worker, NEW r \in Reservation, Reserve(w, r) PROVE Goal
  <2> DEFINE b == ChargeCall(usage)
             c == ChargeAttempt(b, r)
  <2>0. r \in [Metric -> Nat]
    OBVIOUS
  <2>1. b \in Usage /\ b.spent = usage.spent
    BY <1>0, ChargeCallFields
  <2>2. c.spent = Plus(usage.spent, r)
    BY <2>0, <2>1, ChargeAttemptFields
  <2>3. RollbackCall(RollbackAttempt(c, r)) = usage
    BY <1>0, <2>0, <2>1, CallArithmetic, AttemptArithmetic
  <2>4. usage.spent[m] + r[m] <= Limit[m]
    BY <1>6, <2>1 DEF Reserve, AttemptFits, Bounded
  <2>5. c.spent[m] <= Limit[m]
    BY <2>2, <2>4 DEF Plus
  <2> HIDE DEF b, c
  <2>6. UNCHANGED overrun
    BY <1>6 DEF Reserve
  <2>7. CASE usage' = c /\ Persist(started, c)
    <3>1. c.spent[m] <= Limit[m] + overrun[m]
      <4>1. c.spent[m] \in Int
        BY <1>0, <2>0, <2>2 DEF Plus
      <4>2. QED
        BY <1>a, <2>5, <4>1
    <3>2. QED
      BY <2>6, <2>7, <3>1 DEF Persist
  <2>8. CASE usage' = RollbackCall(RollbackAttempt(c, r)) /\ PersistFails
    BY <1>b, <2>3, <2>6, <2>8 DEF PersistFails
  <2>9. QED
    BY <1>6, <2>7, <2>8 DEF Reserve, b, c
<1>7. ASSUME NEW w \in Worker, NEW r \in Reservation, AcquireAttempt(w, r) PROVE Goal
  BY <1>7, <1>b DEF AcquireAttempt, history
<1>8. ASSUME NEW w \in Worker, WaitDone(w) PROVE Goal
  BY <1>8, <1>b DEF WaitDone, history
<1>9. ASSUME NEW w \in Worker, WaitCancelled(w) PROVE Goal
  BY <1>9, <1>b DEF WaitCancelled, history
<1>10. ASSUME NEW w \in Worker, ReserveAttempt(w) PROVE Goal
  <2> DEFINE b == ChargeAttempt(usage, res[w])
             c == RaisePeak(b, active + 1)
             v == RaisePeak(usage, active + 1)
  <2>1. res[w] \in [Metric -> Nat] /\ active + 1 \in Int
    BY <1>0
  <2>2. b \in Usage /\ b.spent = Plus(usage.spent, res[w])
    BY <1>0, <2>1, ChargeAttemptFields
  <2>3. c.spent = Plus(usage.spent, res[w])
    BY <2>1, <2>2, RaisePeakFields
  <2>4. RollbackAttempt(c, res[w]) = v /\ v.spent = usage.spent
    BY <1>0, <2>1, AcquireRollback, RaisePeakFields
  <2>5. usage.spent[m] + res[w][m] <= Limit[m]
    BY <1>10 DEF ReserveAttempt, AttemptFits, Bounded
  <2>6. c.spent[m] <= Limit[m] + overrun[m]
    BY <1>0, <1>a, <2>1, <2>3, <2>5 DEF Plus
  <2> HIDE DEF b, c, v
  <2>7. UNCHANGED overrun
    BY <1>10 DEF ReserveAttempt
  <2>8. CASE usage' = c /\ Persist(started, c)
    BY <2>6, <2>7, <2>8 DEF Persist
  <2>9. CASE usage' = RollbackAttempt(c, res[w]) /\ PersistFails
    BY <1>b, <2>4, <2>7, <2>9 DEF PersistFails
  <2>10. QED
    BY <1>10, <2>8, <2>9 DEF ReserveAttempt, b, c
<1>11. ASSUME NEW w \in Worker, RefuseAttempt(w) PROVE Goal
  BY <1>11, <1>b DEF RefuseAttempt, history
<1>12. ASSUME NEW w \in Worker, NEW a \in Actual, Release(w, a) PROVE Goal
  <2> DEFINE ch == Charge(res[w], a)
             c == ReconcileAttempt(usage, res[w], a)
  <2>1. ch \in [Metric -> Nat] /\ c.spent = Plus(Minus(usage.spent, res[w]), ch)
    BY <1>0, ReconcileFields
  <2> HIDE DEF ch, c
  <2>2. usage' = c /\ overrun' = Plus(overrun, Excess(ch, res[w]))
    BY <1>12 DEF Release, ch, c
  <2>3. res[w][m] \in Nat /\ ch[m] \in Nat
    BY <1>0, <2>1
  <2>4. c.spent[m] = (usage.spent[m] - res[w][m]) + ch[m]
    BY <2>1 DEF Plus, Minus
  <2>5. overrun'[m] = overrun[m] + (IF ch[m] > res[w][m] THEN ch[m] - res[w][m] ELSE 0)
    BY <2>2 DEF Plus, Excess
  <2>6. c.spent[m] <= Limit[m] + overrun'[m] /\ overrun[m] <= overrun'[m] /\ overrun'[m] \in Nat
    BY <1>a, <2>3, <2>4, <2>5
  <2>7. CASE Persist(started, usage')
    BY <2>2, <2>6, <2>7 DEF Persist
  <2>8. CASE PersistFails
    BY <1>a, <2>2, <2>6, <2>8 DEF PersistFails
  <2>9. QED
    BY <1>12, <2>7, <2>8 DEF Release
<1>13. ASSUME NEW w \in Worker, ReleaseSlot(w) PROVE Goal
  BY <1>13, <1>b DEF ReleaseSlot, history
<1>14. CASE UNCHANGED vars
  BY <1>14, <1>b DEF vars, memory, history
<1>15. QED
  BY <1>1, <1>2, <1>3, <1>4, <1>5, <1>6, <1>7, <1>8, <1>9, <1>10, <1>11, <1>12,
     <1>13, <1>14 DEF Next, WorkerStep

(* However many workers reserve at once, and across restarts, a token or   *)
(* cost limit is passed by no more than providers reported beyond their    *)
(* own reservations.                                                       *)
THEOREM OverrunIsReported == Spec => []OverrunOnlyByReports
<1>1. Init => OverrunOnlyByReports
  BY BudgetAssumption DEF Init, OverrunOnlyByReports, ZeroUsage, NoReservation
<1>2. QED
  BY <1>1, OverrunInductive, TypeCorrect, PTL DEF Spec

-----------------------------------------------------------------------------
(* The start of the run.  The state file keeps the time it was first       *)
(* written and an open budget counts from it.                              *)

StartInv ==
    /\ disk.exists => disk.started = firstStart
    /\ up => disk.exists /\ started = firstStart

(* A step that writes no file, or writes it with the start it has, and     *)
(* leaves started alone keeps the start.                                   *)
LEMMA StartKept ==
    ASSUME StartInv, up, UNCHANGED <<up, started, firstStart>>,
           disk' = disk \/ \E u : Persist(started, u)
    PROVE  StartInv'
BY DEF StartInv, Persist

(* Every step keeps the start of the run.                                  *)
LEMMA StartInductive == StartInv /\ [Next]_vars => StartInv'
<1> SUFFICES ASSUME StartInv, [Next]_vars PROVE StartInv'
  OBVIOUS
<1>1. CASE OpenFresh
  BY <1>1 DEF OpenFresh, Persist, StartInv
<1>2. CASE OpenRestored
  BY <1>2 DEF OpenRestored, StartInv
<1>3. CASE Crash
  BY <1>3 DEF Crash, StartInv, history
<1>4. CASE Tick \/ UNCHANGED vars
  BY <1>4 DEF Tick, StartInv, memory, history, vars
<1>5. ASSUME NEW w \in Worker, WorkerStep(w) PROVE StartInv'
  <2>1. up /\ UNCHANGED <<up, started, firstStart>>
    BY <1>5 DEF WorkerStep, At, ReserveCall, Reserve, AcquireAttempt, WaitDone, WaitCancelled,
       ReserveAttempt, RefuseAttempt, Release, ReleaseSlot, history
  <2>2. disk' = disk \/ \E u : Persist(started, u)
    BY <1>5 DEF WorkerStep, ReserveCall, Reserve, AcquireAttempt, WaitDone, WaitCancelled,
       ReserveAttempt, RefuseAttempt, Release, ReleaseSlot, PersistFails
  <2> QED
    BY <2>1, <2>2, StartKept
<1> QED
  BY <1>1, <1>2, <1>3, <1>4, <1>5 DEF Next

(* The invariant of the start holds of every behaviour.                    *)
LEMMA StartIsKept == Spec => []StartInv
<1>1. Init => StartInv
  BY DEF Init, StartInv
<1> QED
  BY <1>1, StartInductive, PTL DEF Spec

(* A step that grants a call or dispatches an attempt is within the        *)
(* deadline of the first start.                                            *)
LEMMA GrantsInTime ==
    ASSUME TypeOK, StartInv, Next, dispatched' # dispatched \/ granted' # granted
    PROVE  up /\ checkDeadline /\ started = firstStart
<1>1. PICK w \in Worker : \/ ReserveCall(w) \/ ReserveAttempt(w)
                          \/ \E r \in Reservation : Reserve(w, r)
  BY DEF Next, WorkerStep, OpenFresh, OpenRestored, Crash, Tick, AcquireAttempt, WaitDone,
     WaitCancelled, RefuseAttempt, Release, ReleaseSlot, history
<1>2. up /\ checkDeadline
  BY <1>1 DEF ReserveCall, ReserveAttempt, Reserve, CallFits, AttemptFits, At
<1> QED
  BY <1>2 DEF StartInv

(* Nothing is granted or dispatched once MaxDuration has passed since the  *)
(* run first started, over any number of restarts and for any limits.      *)
THEOREM DeadlineIsFromFirstStart == Spec => DeadlineSurvivesRestart
<1>1. TypeOK /\ StartInv /\ [Next]_vars =>
        [(dispatched' > dispatched \/ granted' > granted) /\ MaxDuration > 0
            => clock < firstStart + MaxDuration]_vars
  <2> SUFFICES ASSUME TypeOK, StartInv, Next, dispatched' > dispatched \/ granted' > granted,
                      MaxDuration > 0
               PROVE  clock < firstStart + MaxDuration
    OBVIOUS
  <2>1. dispatched' # dispatched \/ granted' # granted
    BY DEF TypeOK
  <2> QED
    BY <2>1, GrantsInTime DEF checkDeadline
<1> QED
  BY <1>1, TypeCorrect, StartIsKept, PTL DEF Spec, DeadlineSurvivesRestart

-----------------------------------------------------------------------------
(* Refinement of AttemptQuota.  Every step of the budget is a step of the  *)
(* quota under calls <- granted, sent <- dispatched, open <- InFlight,     *)
(* late <- Late, or leaves these alone.                                    *)

QuotaInv == TypeOK /\ DurableAccounting /\ ConcurrencyExact /\ StartInv

QuotaUnchanged ==
    /\ granted' = granted /\ dispatched' = dispatched
    /\ InFlight' = InFlight /\ Late' = Late

(* A worker's step is never the one that makes the run late.               *)
LEMMA WorkersAreNotLate ==
    ASSUME QuotaInv, NEW w \in Worker, WorkerStep(w)
    PROVE  Late' = Late
<1>1. up /\ UNCHANGED <<firstStart, clock>>
  BY DEF WorkerStep, At, ReserveCall, Reserve, AcquireAttempt, WaitDone, WaitCancelled,
     ReserveAttempt, RefuseAttempt, Release, ReleaseSlot, history
<1>2. disk' = disk \/ \E u : Persist(started, u)
  BY DEF WorkerStep, ReserveCall, Reserve, AcquireAttempt, WaitDone, WaitCancelled,
     ReserveAttempt, RefuseAttempt, Release, ReleaseSlot, PersistFails
<1>3. disk.exists /\ disk'.exists
  BY <1>1, <1>2 DEF QuotaInv, StartInv, Persist
<1> QED
  BY <1>1, <1>3 DEF Late

(* A budget that is within its deadline is not late.                       *)
LEMMA InTime ==
    ASSUME QuotaInv, up, checkDeadline
    PROVE  ~Late
BY BudgetAssumption DEF QuotaInv, TypeOK, StartInv, checkDeadline, Late

(* Each step of a worker is a step of the quota.                           *)
LEMMA WorkerRefines ==
    ASSUME QuotaInv, NEW w \in Worker, WorkerStep(w)
    PROVE  Quota!Next \/ QuotaUnchanged
<1> USE BudgetAssumption
<1>0. /\ Late' = Late
      /\ pc \in [Worker -> {"idle", "waiting", "slotted", "active", "releasing"}]
      /\ granted \in Nat /\ dispatched \in Nat
  BY WorkersAreNotLate DEF QuotaInv, TypeOK
<1>1. CASE ReserveCall(w)
  <2>1. up /\ CallFits(usage) /\ usage.calls = granted
    BY <1>1 DEF ReserveCall, QuotaInv, DurableAccounting
  <2>2. Quota!MayCall
    BY <1>0, <2>1, InTime DEF CallFits, Bounded, Quota!MayCall
  <2>3. UNCHANGED <<dispatched, pc>> /\ granted' \in {granted, granted + 1}
    BY <1>1 DEF ReserveCall
  <2> QED
    BY <1>0, <2>2, <2>3 DEF Quota!Next, Quota!Grant, QuotaUnchanged, InFlight
<1>2. ASSUME NEW r \in Reservation, Reserve(w, r) PROVE Quota!Next \/ QuotaUnchanged
  <2>1. /\ up /\ CallFits(usage) /\ AttemptFits(ChargeCall(usage), r)
        /\ usage.calls = granted /\ usage.attempts = dispatched
    BY <1>2 DEF Reserve, QuotaInv, DurableAccounting
  <2>2. ChargeCall(usage).attempts = usage.attempts
    BY ChargeCallFields DEF QuotaInv, TypeOK
  <2>3. Quota!MayCall /\ Quota!MaySend
    BY <1>0, <2>1, <2>2, InTime DEF CallFits, AttemptFits, Bounded, Quota!MayCall, Quota!MaySend
  <2>4. /\ UNCHANGED pc
        /\ \/ granted' = granted + 1 /\ dispatched' = dispatched + 1
           \/ granted' = granted /\ dispatched' = dispatched
    BY <1>2 DEF Reserve
  <2> QED
    BY <1>0, <2>3, <2>4 DEF Quota!Next, Quota!SendUntracked, QuotaUnchanged, InFlight
<1>3. CASE ReserveAttempt(w)
  <2>1. /\ up /\ pc[w] = "slotted" /\ AttemptFits(usage, res[w])
        /\ usage.attempts = dispatched /\ granted' = granted
    BY <1>3 DEF ReserveAttempt, At, QuotaInv, DurableAccounting
  <2>2. Quota!MaySend
    BY <1>0, <2>1, InTime DEF AttemptFits, Bounded, Quota!MaySend
  <2>3. Quota!SlotFree
    <3>1. Cardinality(InFlight) \in Nat /\ Cardinality(InFlight) + 1 <= Cardinality(Holding)
          /\ Cardinality(Holding) \in Nat
      BY <1>0, <2>1, WorkerSets
    <3>2. MaxConcurrent > 0 => Cardinality(Holding) <= MaxConcurrent
      BY <2>1 DEF QuotaInv, ConcurrencyExact
    <3>3. Quota!Cardinality(InFlight) = Cardinality(InFlight)
      BY DEF Quota!Cardinality, Cardinality
    <3> QED
      BY <3>1, <3>2, <3>3 DEF Quota!SlotFree
  <2>4. CASE At(w, "slotted", "active") /\ dispatched' = dispatched + 1
    <3>1. w \notin InFlight /\ InFlight' = InFlight \cup {w}
      BY <1>0, <2>4 DEF At, InFlight
    <3> QED
      BY <1>0, <2>1, <2>2, <2>3, <2>4, <3>1 DEF Quota!Next, Quota!Send
  <2>5. CASE At(w, "slotted", "releasing") /\ UNCHANGED dispatched
    <3>1. InFlight' = InFlight
      BY <1>0, <2>5 DEF At, InFlight
    <3> QED
      BY <1>0, <2>1, <2>5, <3>1 DEF QuotaUnchanged
  <2> QED
    BY <1>3, <2>4, <2>5 DEF ReserveAttempt
<1>4. ASSUME NEW a \in Actual, Release(w, a) PROVE Quota!Next \/ QuotaUnchanged
  <2>1. w \in InFlight /\ InFlight' = InFlight \ {w}
    BY <1>0, <1>4 DEF Release, At, InFlight
  <2> QED
    BY <1>0, <1>4, <2>1 DEF Release, Quota!Next, Quota!Finish
<1>5. ASSUME NEW r \in Reservation, AcquireAttempt(w, r) PROVE QuotaUnchanged
  BY <1>0, <1>5 DEF AcquireAttempt, At, history, QuotaUnchanged, InFlight
<1>6. CASE WaitDone(w) \/ WaitCancelled(w) \/ RefuseAttempt(w) \/ ReleaseSlot(w)
  BY <1>0, <1>6 DEF WaitDone, WaitCancelled, RefuseAttempt, ReleaseSlot, At, history,
     QuotaUnchanged, InFlight
<1> QED
  BY <1>1, <1>2, <1>3, <1>4, <1>5, <1>6 DEF WorkerStep

(* Each step of the budget is a step of the quota.                         *)
LEMMA StepRefines ==
    ASSUME QuotaInv, [Next]_vars
    PROVE  [Quota!Next]_Quota!quotaVars
<1> SUFFICES Quota!Next \/ QuotaUnchanged
  BY DEF QuotaUnchanged, Quota!quotaVars
<1> USE BudgetAssumption
<1>0. /\ pc \in [Worker -> {"idle", "waiting", "slotted", "active", "releasing"}]
      /\ clock \in Nat /\ firstStart \in Nat
      /\ Late \in BOOLEAN /\ Late' \in BOOLEAN
  BY DEF QuotaInv, TypeOK, Late
<1>1. CASE OpenFresh
  <2>1. ~Late /\ ~Late'
    BY <1>0, <1>1 DEF OpenFresh, Late, Persist
  <2> QED
    BY <1>0, <1>1, <2>1 DEF OpenFresh, QuotaUnchanged, InFlight
<1>2. CASE OpenRestored
  BY <1>2 DEF OpenRestored, QuotaUnchanged, InFlight, Late
<1>3. CASE Crash
  <2>1. InFlight' = {}
    BY <1>3 DEF Crash, InFlight
  <2>2. Late' = Late
    BY <1>3 DEF Crash, Late, history
  <2> QED
    BY <1>3, <2>1, <2>2 DEF Crash, history, Quota!Next, Quota!LoseAll
<1>4. CASE Tick
  <2>1. InFlight' = InFlight /\ granted' = granted /\ dispatched' = dispatched
    BY <1>4 DEF Tick, memory, history, InFlight
  <2>2. Late => Late'
    BY <1>0, <1>4 DEF Tick, history, Late
  <2> QED
    BY <1>0, <2>1, <2>2 DEF Quota!Next, Quota!BecomeLate, QuotaUnchanged
<1>5. CASE UNCHANGED vars
  BY <1>5 DEF vars, memory, history, QuotaUnchanged, InFlight, Late
<1>6. ASSUME NEW w \in Worker, WorkerStep(w) PROVE Quota!Next \/ QuotaUnchanged
  BY <1>6, WorkerRefines
<1> QED
  BY <1>1, <1>2, <1>3, <1>4, <1>5, <1>6 DEF Next

(* The budget implements the abstract quota: for any number of workers and *)
(* any limits, whoever pays sees bounded counters that crashes never reset,*)
(* bounded concurrency and one deadline.                                   *)
THEOREM BudgetRefinesQuota == Spec => ImplementsQuota
<1>1. Init => Quota!Init
  <2>1. Init => InFlight = {} /\ ~Late
    BY DEF Init, InFlight, Late
  <2> QED
    BY <2>1 DEF Init, Quota!Init
<1>2. QuotaInv /\ [Next]_vars => [Quota!Next]_Quota!quotaVars
  BY StepRefines
<1>3. Spec => []QuotaInv
  BY TypeCorrect, AccountingIsDurable, ConcurrencyIsExact, StartIsKept, PTL DEF QuotaInv
<1> QED
  BY <1>1, <1>2, <1>3, PTL DEF Spec, ImplementsQuota, Quota!Spec
=============================================================================
