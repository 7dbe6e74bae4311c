------------------------------ MODULE RunBudget ------------------------------
(***************************************************************************)
(* The hard run budget of internal/mode/budget.go: a mutex-protected       *)
(* record of what a run has used, a channel of MaxConcurrent attempt       *)
(* slots, and a state file that survives the process.  Worker goroutines   *)
(* reserve logical calls, acquire one attempt per outbound request and     *)
(* release it with the usage the provider reported.  The process may crash *)
(* at any point and be started again on the same state file.               *)
(*                                                                         *)
(* A critical section under b.mu is one step.  Its last act is             *)
(* persistLocked, whose only visible effect on the file is the final       *)
(* rename, so a crash inside the section is a crash before or after it.    *)
(* Slots are taken before the lock and given back after it: those are      *)
(* steps of their own.                                                     *)
(***************************************************************************)
EXTENDS Integers, FiniteSets

CONSTANTS
    Worker,          \* goroutines that share the budget
    MaxCalls,        \* BudgetLimits; a limit of 0 is no limit
    MaxAttempts,
    MaxConcurrent,
    MaxDuration,
    Limit,           \* [Metric -> Nat]: input tokens, output tokens, cost
    Reservation,     \* reservations a caller may ask for
    Actual,          \* usage reports a provider attempt may end with
    Horizon          \* bound: last tick of the wall clock

Metric == {"input", "output", "cost"}

(* AttemptActual: observed is UsageObserved, known the metrics the report  *)
(* carries a value for (CostUSD is a pointer and may be nil).              *)
ActualReport == [observed : BOOLEAN, known : SUBSET Metric, amount : [Metric -> Int]]

ASSUME BudgetAssumption ==
    /\ IsFiniteSet(Worker)
    /\ MaxCalls \in Nat /\ MaxAttempts \in Nat
    /\ MaxConcurrent \in Nat /\ MaxDuration \in Nat
    /\ Limit \in [Metric -> Nat]
    /\ Reservation \subseteq [Metric -> Nat]
    /\ Actual \subseteq ActualReport
    /\ \A a \in Actual : {"input", "output"} \subseteq a.known
    /\ Horizon \in Nat

VARIABLES
    up,           \* the process is running with the budget open
    usage,        \* b.usage
    started,      \* b.started
    active,       \* b.active
    slots,        \* tokens in the channel b.attempts
    pc,           \* where each worker is in AcquireAttempt / release
    res,          \* the reservation each worker passed to AcquireAttempt
    disk,         \* the state file
    clock,        \* wall clock
    granted,      \* history: logical calls ever granted on this state file
    dispatched,   \* history: attempts ever handed to the provider
    settled,      \* history: charge of every attempt that is no longer active
    overrun,      \* history: usage reported beyond what had been reserved
    firstStart    \* history: when the state file was first written

memory  == <<up, usage, started, active, slots, pc, res>>
history == <<granted, dispatched, settled, overrun, firstStart>>
vars    == <<memory, disk, clock, history>>

-----------------------------------------------------------------------------
(* Usage arithmetic.                                                       *)

Usage == [calls : Nat, attempts : Nat, peak : Nat, spent : [Metric -> Int]]

ZeroUsage == [calls |-> 0, attempts |-> 0, peak |-> 0, spent |-> [m \in Metric |-> 0]]

NoReservation == [m \in Metric |-> 0]

Plus(f, g)  == [m \in Metric |-> f[m] + g[m]]

Minus(f, g) == [m \in Metric |-> f[m] - g[m]]

(* The part of each charge that its reservation did not cover.             *)
Excess(charge, r) == [m \in Metric |-> IF charge[m] > r[m] THEN charge[m] - r[m] ELSE 0]

Bounded(n, limit) == limit > 0 => n <= limit

checkDeadline == MaxDuration > 0 => clock < started + MaxDuration

CallFits(u) == checkDeadline /\ Bounded(u.calls + 1, MaxCalls)

ChargeCall(u) == [u EXCEPT !.calls = @ + 1]

(* Mutant: a failed persist undone twice.                                  *)
RollbackCallTwice(u) == [u EXCEPT !.calls = @ - 2]

RollbackCall(u) == [u EXCEPT !.calls = @ - 1]

(* Mutant: compares what is used, not what is used plus what is asked.     *)
AttemptFitsIgnoringRequest(u, r) ==
    /\ checkDeadline
    /\ Bounded(u.attempts + 1, MaxAttempts)
    /\ \A m \in Metric : Bounded(u.spent[m], Limit[m])

AttemptFits(u, r) ==
    /\ checkDeadline
    /\ Bounded(u.attempts + 1, MaxAttempts)
    /\ \A m \in Metric : Bounded(u.spent[m] + r[m], Limit[m])

ChargeAttempt(u, r) ==
    [calls |-> u.calls, attempts |-> u.attempts + 1, peak |-> u.peak, spent |-> Plus(u.spent, r)]

RollbackAttempt(u, r) ==
    [calls |-> u.calls, attempts |-> u.attempts - 1, peak |-> u.peak, spent |-> Minus(u.spent, r)]

RaisePeak(u, n) == [u EXCEPT !.peak = IF n > @ THEN n ELSE @]

(* A report replaces the reservation of the metrics it carries; a report   *)
(* with a negative amount is rejected whole.                               *)
Usable(a) == a.observed /\ \A m \in a.known : a.amount[m] >= 0

Charge(r, a) == [m \in Metric |-> IF Usable(a) /\ m \in a.known THEN a.amount[m] ELSE r[m]]

(* Mutant: adds the report without taking the reservation back.            *)
ReconcileOnTop(u, r, a) == [u EXCEPT !.spent = Plus(@, Charge(r, a))]

ReconcileAttempt(u, r, a) ==
    [u EXCEPT !.spent = Plus(Minus(@, r), Charge(r, a))]

(* validateRestoredBudget                                                  *)
Restorable(u) ==
    /\ \A m \in Metric : u.spent[m] >= 0 /\ Bounded(u.spent[m], Limit[m])
    /\ Bounded(u.calls, MaxCalls)
    /\ Bounded(u.attempts, MaxAttempts)
    /\ Bounded(u.peak, MaxConcurrent)

(* persistLocked: the rename replaces the file, or the file is untouched.  *)
Persist(begin, u) == disk' = [exists |-> TRUE, started |-> begin, usage |-> u]

PersistFails == disk' = disk

-----------------------------------------------------------------------------
(* Slot channel: nil when MaxConcurrent is 0.                              *)

(* Mutant: a channel with one slot too many.                               *)
TakeSlotOffByOne ==
    /\ MaxConcurrent > 0 => slots <= MaxConcurrent
    /\ slots' = IF MaxConcurrent > 0 THEN slots + 1 ELSE slots

TakeSlot ==
    /\ MaxConcurrent > 0 => slots < MaxConcurrent
    /\ slots' = IF MaxConcurrent > 0 THEN slots + 1 ELSE slots

GiveSlot == slots' = IF MaxConcurrent > 0 THEN slots - 1 ELSE slots

At(w, from, to) == up /\ pc[w] = from /\ pc' = [pc EXCEPT ![w] = to]

-----------------------------------------------------------------------------
Init ==
    /\ up = FALSE
    /\ usage = ZeroUsage /\ started = 0 /\ active = 0 /\ slots = 0
    /\ pc = [w \in Worker |-> "idle"]
    /\ res = [w \in Worker |-> NoReservation]
    /\ disk = [exists |-> FALSE, started |-> 0, usage |-> ZeroUsage]
    /\ clock = 0
    /\ granted = 0 /\ dispatched = 0 /\ firstStart = 0
    /\ settled = NoReservation /\ overrun = NoReservation

(* NewPersistentRunBudget without a state file: the run starts now.        *)
OpenFresh ==
    /\ ~up /\ ~disk.exists
    /\ up' = TRUE
    /\ usage' = ZeroUsage /\ started' = clock /\ active' = 0 /\ slots' = 0
    /\ Persist(clock, ZeroUsage)
    /\ firstStart' = clock
    /\ UNCHANGED <<pc, res, clock, granted, dispatched, settled, overrun>>

(* Mutant: the usage of the file is not taken over.                        *)
OpenRestoredEmpty ==
    /\ ~up /\ disk.exists /\ Restorable(disk.usage)
    /\ up' = TRUE
    /\ usage' = ZeroUsage /\ started' = disk.started /\ active' = 0 /\ slots' = 0
    /\ settled' = NoReservation
    /\ UNCHANGED <<pc, res, disk, clock, granted, dispatched, overrun, firstStart>>

(* Mutant: the deadline counts from the restart.                           *)
OpenRestoredNow ==
    /\ ~up /\ disk.exists /\ Restorable(disk.usage)
    /\ up' = TRUE
    /\ usage' = disk.usage /\ started' = clock /\ active' = 0 /\ slots' = 0
    /\ settled' = disk.usage.spent
    /\ UNCHANGED <<pc, res, disk, clock, granted, dispatched, overrun, firstStart>>

(* NewPersistentRunBudget on an existing state file: start time and usage  *)
(* are the file's, no attempt is in flight.                                *)
OpenRestored ==
    /\ ~up /\ disk.exists /\ Restorable(disk.usage)
    /\ up' = TRUE
    /\ usage' = disk.usage /\ started' = disk.started /\ active' = 0 /\ slots' = 0
    /\ settled' = disk.usage.spent
    /\ UNCHANGED <<pc, res, disk, clock, granted, dispatched, overrun, firstStart>>

ReserveCall(w) ==
    /\ up /\ pc[w] = "idle" /\ CallFits(usage)
    /\ \/ /\ usage' = ChargeCall(usage)
          /\ Persist(started, usage')
          /\ granted' = granted + 1
       \/ /\ usage' = RollbackCall(ChargeCall(usage))
          /\ PersistFails
          /\ UNCHANGED granted
    /\ UNCHANGED <<up, started, active, slots, pc, res, clock,
                   dispatched, settled, overrun, firstStart>>

(* Reserve charges a call and an attempt at once, reserves no output and   *)
(* has no release: its charge is final.                                    *)
Reserve(w, r) ==
    /\ up /\ pc[w] = "idle" /\ r["output"] = 0
    /\ CallFits(usage) /\ AttemptFits(ChargeCall(usage), r)
    /\ LET charged == ChargeAttempt(ChargeCall(usage), r)
       IN \/ /\ usage' = charged
             /\ Persist(started, charged)
             /\ granted' = granted + 1
             /\ dispatched' = dispatched + 1
             /\ settled' = Plus(settled, r)
          \/ /\ usage' = RollbackCall(RollbackAttempt(charged, r))
             /\ PersistFails
             /\ UNCHANGED <<granted, dispatched, settled>>
    /\ UNCHANGED <<up, started, active, slots, pc, res, clock, overrun, firstStart>>

-----------------------------------------------------------------------------
(* AcquireAttempt: wait for a slot, then charge under the lock.            *)

AcquireAttempt(w, r) ==
    /\ At(w, "idle", "waiting")
    /\ res' = [res EXCEPT ![w] = r]
    /\ UNCHANGED <<up, usage, started, active, slots, disk, clock, history>>

WaitDone(w) ==
    /\ At(w, "waiting", "slotted")
    /\ TakeSlot
    /\ UNCHANGED <<up, usage, started, active, res, disk, clock, history>>

WaitCancelled(w) ==
    /\ At(w, "waiting", "idle")
    /\ UNCHANGED <<up, usage, started, active, slots, res, disk, clock, history>>

ReserveAttempt(w) ==
    /\ AttemptFits(usage, res[w])
    /\ LET charged == RaisePeak(ChargeAttempt(usage, res[w]), active + 1)
       IN \/ /\ At(w, "slotted", "active")
             /\ usage' = charged
             /\ active' = active + 1
             /\ Persist(started, charged)
             /\ dispatched' = dispatched + 1
          \/ /\ At(w, "slotted", "releasing")
             /\ usage' = RollbackAttempt(charged, res[w])
             /\ PersistFails
             /\ UNCHANGED <<active, dispatched>>
    /\ UNCHANGED <<up, started, slots, res, clock, granted, settled, overrun, firstStart>>

(* Mutant: a refused attempt returns without releaseSlot.                  *)
RefuseAttemptKeepingSlot(w) ==
    /\ At(w, "slotted", "idle")
    /\ ~AttemptFits(usage, res[w])
    /\ UNCHANGED <<up, usage, started, active, slots, res, disk, clock, history>>

RefuseAttempt(w) ==
    /\ At(w, "slotted", "releasing")
    /\ ~AttemptFits(usage, res[w])
    /\ UNCHANGED <<up, usage, started, active, slots, res, disk, clock, history>>

(* The release closure: b.active--, reconcile an observed report, persist. *)
(* A failed persist is reported but not undone.                            *)
Release(w, a) ==
    /\ At(w, "active", "releasing")
    /\ active' = active - 1
    /\ usage' = ReconcileAttempt(usage, res[w], a)
    /\ Persist(started, usage') \/ PersistFails
    /\ settled' = Plus(settled, Charge(res[w], a))
    /\ overrun' = Plus(overrun, Excess(Charge(res[w], a), res[w]))
    /\ UNCHANGED <<up, started, slots, res, clock, granted, dispatched, firstStart>>

ReleaseSlot(w) ==
    /\ At(w, "releasing", "idle")
    /\ GiveSlot
    /\ UNCHANGED <<up, usage, started, active, res, disk, clock, history>>

-----------------------------------------------------------------------------
(* Environment.                                                            *)

Crash ==
    /\ up
    /\ up' = FALSE
    /\ pc' = [w \in Worker |-> "idle"]
    /\ res' = [w \in Worker |-> NoReservation]
    /\ usage' = ZeroUsage /\ started' = 0 /\ active' = 0 /\ slots' = 0
    /\ UNCHANGED <<disk, clock, history>>

Tick ==
    /\ clock < Horizon
    /\ clock' = clock + 1
    /\ UNCHANGED <<memory, disk, history>>

WorkerStep(w) ==
    \/ ReserveCall(w)
    \/ \E r \in Reservation : Reserve(w, r) \/ AcquireAttempt(w, r)
    \/ WaitDone(w) \/ WaitCancelled(w)
    \/ ReserveAttempt(w) \/ RefuseAttempt(w)
    \/ \E a \in Actual : Release(w, a)
    \/ ReleaseSlot(w)

Next ==
    \/ OpenFresh \/ OpenRestored \/ Crash \/ Tick
    \/ \E w \in Worker : WorkerStep(w)

Spec == Init /\ [][Next]_vars

(* A provider attempt ends (every request carries a deadline), a goroutine *)
(* past a blocking operation runs on, and Go queues the senders blocked on *)
(* a channel, so a slot that keeps becoming free reaches every waiter.     *)
Fairness ==
    \A w \in Worker :
        /\ WF_vars(\E a \in Actual : Release(w, a))
        /\ WF_vars(ReleaseSlot(w))
        /\ WF_vars(ReserveAttempt(w) \/ RefuseAttempt(w))
        /\ SF_vars(WaitDone(w))

FairSpec == Spec /\ Fairness

-----------------------------------------------------------------------------
(* Properties.                                                             *)

Disk == [exists : BOOLEAN, started : Nat, usage : Usage]

(* Type correctness of the budget's memory, file and history.              *)
TypeOK ==
    /\ up \in BOOLEAN
    /\ usage \in Usage
    /\ started \in Nat /\ active \in Int /\ slots \in Int
    /\ pc \in [Worker -> {"idle", "waiting", "slotted", "active", "releasing"}]
    /\ res \in [Worker -> [Metric -> Nat]]
    /\ disk \in Disk
    /\ clock \in Nat
    /\ granted \in Nat /\ dispatched \in Nat /\ firstStart \in Nat
    /\ settled \in [Metric -> Int] /\ overrun \in [Metric -> Nat]

Holding == {w \in Worker : pc[w] \in {"slotted", "active", "releasing"}}

InFlight == {w \in Worker : pc[w] = "active"}

(* The channel holds one token per worker between taking and giving back   *)
(* its slot, b.active counts exactly the attempts in flight, and neither   *)
(* they nor the recorded peak ever exceed MaxConcurrent (AcquireAttempt).  *)
ConcurrencyExact ==
    /\ active = Cardinality(InFlight)
    /\ MaxConcurrent > 0 => /\ slots = Cardinality(Holding)
                            /\ slots <= MaxConcurrent
                            /\ usage.peak <= MaxConcurrent
    /\ up => active <= usage.peak

(* A restart cannot reset the budget: on disk, and in memory while the     *)
(* process runs, the file accounts for every logical call and every        *)
(* attempt ever granted, so neither limit is exceeded over all lives of    *)
(* the process (reserve, persist, rollback and restore together).          *)
DurableAccounting ==
    /\ disk.usage.calls = granted /\ disk.usage.attempts = dispatched
    /\ up => usage.calls = granted /\ usage.attempts = dispatched
    /\ Bounded(granted, MaxCalls) /\ Bounded(dispatched, MaxAttempts)

(* The units of a metric that attempts in flight hold reserved.            *)
Reserved(m) == UNION {{w} \X (1 .. res[w][m]) : w \in InFlight}

(* What is charged is the reservation of every attempt in flight plus the  *)
(* final charge of every other attempt: its report when one was observed,  *)
(* its full reservation otherwise (reconcileAttemptLocked).                *)
ChargesBalance ==
    up => \A m \in Metric : usage.spent[m] = settled[m] + Cardinality(Reserved(m))

(* A hard limit is passed only by what providers reported beyond their     *)
(* reservations: concurrent reservations alone never pass it.              *)
OverrunOnlyByReports ==
    \A m \in Metric : Limit[m] > 0 =>
        /\ disk.usage.spent[m] <= Limit[m] + overrun[m]
        /\ usage.spent[m] <= Limit[m] + overrun[m]

(* No attempt is dispatched once MaxDuration has passed since the state    *)
(* file was first written, however often the process was restarted.        *)
DeadlineSurvivesRestart ==
    [][(dispatched' > dispatched \/ granted' > granted) /\ MaxDuration > 0
          => clock < firstStart + MaxDuration]_vars

(* The budget implements the abstract quota: calls and attempts are handed *)
(* out from crash-proof bounded counters, with bounded concurrency and a   *)
(* deadline that counts from the first start of the run.                   *)
Late == disk.exists /\ MaxDuration > 0 /\ clock >= firstStart + MaxDuration

Quota == INSTANCE AttemptQuota
             WITH calls <- granted, sent <- dispatched, open <- InFlight, late <- Late

ImplementsQuota == Quota!Spec

(* Every AcquireAttempt that waits for a slot leaves the wait: no path out *)
(* of AcquireAttempt or its release keeps a slot.                          *)
WaiterServed == \A w \in Worker : pc[w] = "waiting" ~> pc[w] # "waiting"

=============================================================================
