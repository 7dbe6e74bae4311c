------------------------------ MODULE ScoreCall ------------------------------
(***************************************************************************)
(* One scoring call, Runner.Score of internal/mode/common.go, with the     *)
(* provider's retry loop (internal/provider/openai.go) and the response    *)
(* cache (internal/cache/disk.go) it drives.  Scorers of one run share the *)
(* cache, the worker limiter, the caller's context and the run budget; of  *)
(* the budget this module sees what AttemptQuota promises.                 *)
(*                                                                         *)
(* A scorer looks its request up in the cache; on a miss it reserves a     *)
(* logical call, takes a worker slot, and lets the provider send attempts, *)
(* each bracketed by BeforeAttempt and AfterAttempt.  The worker slot is   *)
(* held over backoff waits.  A response without strict score evidence is   *)
(* asked for again, as a new logical call, ExtractionRetries times.        *)
(* Handing the worker slot back is merged with the step that ends the      *)
(* provider call: nothing of the scorer's own happens between them.        *)
(***************************************************************************)
EXTENDS Naturals, FiniteSets

CONSTANTS
    Scorer,              \* calls of Score running in one runner
    Key,                 \* request fingerprints
    KeyOf,               \* [Scorer -> Key]
    MaxWorkers,          \* capacity of the provider limiter
    MaxRetries,          \* provider retries per logical call
    TransportRetries,    \* of these, how many may follow a transport error
    ExtractionRetries,   \* fullVerifierExtractionRetries
    MaxCalls, MaxAttempts, MaxConcurrent    \* BudgetLimits

ASSUME ScoreAssumption ==
    /\ IsFiniteSet(Scorer) /\ KeyOf \in [Scorer -> Key]
    /\ MaxWorkers \in Nat \ {0} /\ MaxRetries \in Nat \ {0}
    /\ TransportRetries \in Nat /\ ExtractionRetries \in Nat
    /\ MaxCalls \in Nat /\ MaxAttempts \in Nat /\ MaxConcurrent \in Nat

VARIABLES
    calls, sent, open, late,   \* the run budget, see AttemptQuota
    limiter,      \* tokens in the channel r.providerLimiter
    cancelled,    \* the caller's context has ended
    cache,        \* evidence of the response filed under each key
    pc,           \* where each scorer is
    extraction,   \* extractionAttempt
    attempt,      \* attempt, the provider's loop counter
    resp,         \* evidence of the response the scorer last received
    outcome,      \* how Score returned
    sentOf,       \* history: attempts the scorer has sent
    audited,      \* provider_attempt rows written for the scorer
    rejected      \* history: responses whose evidence was rejected

Quota == INSTANCE AttemptQuota WITH Worker <- Scorer

quota == <<calls, sent, open, late>>
local == <<pc, extraction, attempt, resp, outcome, sentOf, audited, rejected>>
vars  == <<quota, limiter, cancelled, cache, local>>

Evidence == {"none", "weak", "strict"}

(* callCtx: the caller's context, cut short at the budget's deadline.      *)
ctxDone == cancelled \/ late

(* Where a scorer holds a worker slot.                                     *)
HasWorker == {s \in Scorer : pc[s] \in {"before", "inflight", "backoff"}}

Goto(s, from, to) == pc[s] = from /\ pc' = [pc EXCEPT ![s] = to]

End(s, how) == pc' = [pc EXCEPT ![s] = "done"] /\ outcome' = [outcome EXCEPT ![s] = how]

-----------------------------------------------------------------------------
Init ==
    /\ Quota!Init
    /\ limiter = 0 /\ cancelled = FALSE
    /\ cache \in [Key -> Evidence]
    /\ pc = [s \in Scorer |-> "start"]
    /\ resp = [s \in Scorer |-> "none"]
    /\ outcome = [s \in Scorer |-> "none"]
    /\ extraction = [s \in Scorer |-> 0] /\ attempt = [s \in Scorer |-> 0]
    /\ sentOf = [s \in Scorer |-> 0] /\ audited = [s \in Scorer |-> 0]
    /\ rejected = [s \in Scorer |-> 0]

(* Mutant: an entry is used without checking its evidence.                 *)
UnverifiedHit(k) == cache[k] # "none"

(* decodeEntry and scoresExtractable: an entry whose evidence does not     *)
(* pass is a miss.                                                         *)
Hit(k) == cache[k] = "strict"

(* The response is returned once the observer and the audit log have it.   *)
CacheHit(s) ==
    /\ pc[s] = "start" /\ Hit(KeyOf[s])
    /\ resp' = [resp EXCEPT ![s] = cache[KeyOf[s]]]
    /\ \E how \in {"cached", "ioError"} : End(s, how)
    /\ UNCHANGED <<quota, limiter, cancelled, cache, extraction, attempt, sentOf, audited, rejected>>

(* Also with an entry on file: the cache may be disabled or the read fail. *)
CacheMiss(s) ==
    /\ pc[s] = "start"
    /\ \/ pc' = [pc EXCEPT ![s] = "reserve"] /\ UNCHANGED outcome
       \/ End(s, "costCap")
    /\ UNCHANGED <<quota, limiter, cancelled, cache, extraction, attempt, resp, sentOf, audited, rejected>>

-----------------------------------------------------------------------------
(* A logical call and a worker slot.                                       *)

ReserveCall(s) ==
    /\ Goto(s, "reserve", "limiter")
    /\ Quota!Grant
    /\ attempt' = [attempt EXCEPT ![s] = 0]
    /\ UNCHANGED <<limiter, cancelled, cache, extraction, resp, outcome, sentOf, audited, rejected>>

RefuseCall(s) ==
    /\ pc[s] = "reserve"
    /\ \/ ~Quota!MayCall /\ End(s, "overBudget")
       \/ Quota!MayCall /\ End(s, "ioError")
    /\ UNCHANGED <<quota, limiter, cancelled, cache, extraction, attempt, resp, sentOf, audited, rejected>>

acquireProviderSlot(s) ==
    /\ Goto(s, "limiter", "before")
    /\ limiter < MaxWorkers /\ limiter' = limiter + 1
    /\ UNCHANGED <<quota, cancelled, cache, extraction, attempt, resp, outcome, sentOf, audited, rejected>>

(* Mutant: the context ending in a wait returns past release().            *)
GiveUpKeepingWorker(s) ==
    /\ ctxDone /\ pc[s] \in {"limiter", "before", "backoff"}
    /\ End(s, "cancelled")
    /\ UNCHANGED <<quota, limiter, cancelled, cache, extraction, attempt, resp, sentOf, audited, rejected>>

(* The context ends a wait: for a worker, for an attempt slot, in backoff. *)
GiveUp(s) ==
    /\ ctxDone /\ pc[s] \in {"limiter", "before", "backoff"}
    /\ limiter' = IF s \in HasWorker THEN limiter - 1 ELSE limiter
    /\ End(s, "cancelled")
    /\ UNCHANGED <<quota, cancelled, cache, extraction, attempt, resp, sentOf, audited, rejected>>

-----------------------------------------------------------------------------
(* The provider's attempts.                                                *)

BeforeAttempt(s) ==
    /\ Goto(s, "before", "inflight")
    /\ Quota!Send(s)
    /\ sentOf' = [sentOf EXCEPT ![s] = @ + 1]
    /\ UNCHANGED <<limiter, cancelled, cache, extraction, attempt, resp, outcome, audited, rejected>>

(* AcquireAttempt fails once it has a slot: the quota is used up, a token  *)
(* or cost limit is reached, or the budget cannot be persisted.            *)
RefuseAttempt(s) ==
    /\ pc[s] = "before" /\ Quota!SlotFree
    /\ \/ End(s, "refused")
       \/ Quota!MaySend /\ End(s, "ioError")
    /\ limiter' = limiter - 1
    /\ UNCHANGED <<quota, cancelled, cache, extraction, attempt, resp, sentOf, audited, rejected>>

(* Mutant: the attempt is not released to the budget.                      *)
EndsUnreleased(s) == pc[s] = "inflight" /\ UNCHANGED quota

(* The attempt is over; with it the scorer's part in the budget.           *)
Ends(s) == pc[s] = "inflight" /\ Quota!Finish(s)

Audit(s) == audited' = [audited EXCEPT ![s] = @ + 1]

(* Mutant: a failed release returns before the attempt is audited.         *)
CompletionFailsSilently(s) ==
    /\ Ends(s)
    /\ End(s, "overrun") \/ End(s, "ioError")
    /\ limiter' = limiter - 1
    /\ UNCHANGED <<cancelled, cache, extraction, attempt, resp, sentOf, audited, rejected>>

(* AfterAttempt fails, whatever the provider answered: an overrun, a       *)
(* budget that cannot be persisted or a row that cannot be written.        *)
CompletionFails(s) ==
    /\ Ends(s)
    /\ \/ End(s, "overrun") /\ Audit(s)
       \/ End(s, "ioError") /\ (Audit(s) \/ UNCHANGED audited)
    /\ limiter' = limiter - 1
    /\ UNCHANGED <<cancelled, cache, extraction, attempt, resp, sentOf, rejected>>

Respond(s) ==
    /\ Ends(s) /\ Audit(s)
    /\ Goto(s, "inflight", "judge")
    /\ \E e \in {"weak", "strict"} : resp' = [resp EXCEPT ![s] = e]
    /\ limiter' = limiter - 1
    /\ UNCHANGED <<cancelled, cache, extraction, attempt, outcome, sentOf, rejected>>

(* A terminal error class, a malformed or inexact response, an ended       *)
(* context, or a retryable error with no try left.                         *)
FailAttempt(s) ==
    /\ Ends(s) /\ Audit(s)
    /\ End(s, "failed")
    /\ limiter' = limiter - 1
    /\ UNCHANGED <<cancelled, cache, extraction, attempt, resp, sentOf, rejected>>

(* A transport error or a retryable class: back off while tries are left.  *)
RetryAttempt(s, tries) ==
    /\ Ends(s) /\ Audit(s)
    /\ attempt[s] < tries
    /\ Goto(s, "inflight", "backoff")
    /\ UNCHANGED <<limiter, cancelled, cache, extraction, attempt, resp, outcome, sentOf, rejected>>

(* Mutant: the attempts of a call are not counted.                         *)
BackoffDoneUncounted(s) ==
    /\ Goto(s, "backoff", "before")
    /\ UNCHANGED <<quota, limiter, cancelled, cache, extraction, attempt, resp, outcome, sentOf, audited, rejected>>

(* After a transport error the loop may be used up before TransportRetries *)
(* are: it is then left with the last error.                               *)
BackoffDone(s) ==
    /\ pc[s] = "backoff"
    /\ attempt' = [attempt EXCEPT ![s] = @ + 1]
    /\ \/ /\ attempt[s] < MaxRetries
          /\ pc' = [pc EXCEPT ![s] = "before"]
          /\ UNCHANGED <<limiter, outcome>>
       \/ /\ attempt[s] >= MaxRetries
          /\ End(s, "failed")
          /\ limiter' = limiter - 1
    /\ UNCHANGED <<quota, cancelled, cache, extraction, resp, sentOf, audited, rejected>>

-----------------------------------------------------------------------------
(* Judging the response.                                                   *)

(* Strict evidence: observe, cache, audit, each of which may fail.         *)
Accept(s) ==
    /\ pc[s] = "judge" /\ resp[s] = "strict"
    /\ \/ /\ cache' = [cache EXCEPT ![KeyOf[s]] = resp[s]]
          /\ \E how \in {"ok", "ioError"} : End(s, how)
       \/ /\ UNCHANGED cache        \* no cache, or it cannot be written
          /\ \E how \in {"ok", "ioError"} : End(s, how)
    /\ UNCHANGED <<quota, limiter, cancelled, extraction, attempt, resp, sentOf, audited, rejected>>

Reject(s) ==
    /\ pc[s] = "judge" /\ resp[s] = "weak"
    /\ rejected' = [rejected EXCEPT ![s] = @ + 1]
    /\ UNCHANGED <<quota, limiter, cancelled, attempt, resp, sentOf, audited>>

(* Mutant: the response is cached before its evidence is judged.           *)
RetryExtractionCached(s) ==
    /\ Reject(s)
    /\ extraction[s] < ExtractionRetries
    /\ extraction' = [extraction EXCEPT ![s] = @ + 1]
    /\ cache' = [cache EXCEPT ![KeyOf[s]] = resp[s]]
    /\ pc' = [pc EXCEPT ![s] = "reserve"] /\ UNCHANGED outcome

(* Mutant: one retry too many.                                             *)
RetryExtractionOnceMore(s) ==
    /\ Reject(s)
    /\ extraction[s] <= ExtractionRetries
    /\ extraction' = [extraction EXCEPT ![s] = @ + 1]
    /\ pc' = [pc EXCEPT ![s] = "reserve"] /\ UNCHANGED <<cache, outcome>>

(* Mutant: a retry sends its attempts on the call already reserved.        *)
RetryExtractionUncharged(s) ==
    /\ Reject(s)
    /\ extraction[s] < ExtractionRetries
    /\ extraction' = [extraction EXCEPT ![s] = @ + 1]
    /\ pc' = [pc EXCEPT ![s] = "limiter"] /\ UNCHANGED <<cache, outcome>>

RetryExtraction(s) ==
    /\ Reject(s)
    /\ extraction[s] < ExtractionRetries
    /\ \/ /\ Goto(s, "judge", "reserve")
          /\ extraction' = [extraction EXCEPT ![s] = @ + 1]
          /\ UNCHANGED outcome
       \/ End(s, "ioError") /\ UNCHANGED extraction
    /\ UNCHANGED cache

(* Mutant: gives up one retry early.                                       *)
FailExtractionEarly(s) ==
    /\ Reject(s)
    /\ extraction[s] + 1 >= ExtractionRetries
    /\ End(s, "evidence")
    /\ UNCHANGED <<cache, extraction>>

FailExtraction(s) ==
    /\ Reject(s)
    /\ extraction[s] >= ExtractionRetries
    /\ \E how \in {"evidence", "ioError"} : End(s, how)
    /\ UNCHANGED <<cache, extraction>>

-----------------------------------------------------------------------------
CallerCancels ==
    /\ ~cancelled /\ cancelled' = TRUE
    /\ UNCHANGED <<quota, limiter, cache, local>>

DeadlinePasses == Quota!BecomeLate /\ UNCHANGED <<limiter, cancelled, cache, local>>

AttemptEnds(s) ==
    \/ CompletionFails(s) \/ Respond(s) \/ FailAttempt(s)
    \/ RetryAttempt(s, TransportRetries) \/ RetryAttempt(s, MaxRetries)

LocalStep(s) ==
    \/ CacheHit(s) \/ CacheMiss(s) \/ ReserveCall(s) \/ RefuseCall(s)
    \/ AttemptEnds(s) \/ BackoffDone(s)
    \/ Accept(s) \/ RetryExtraction(s) \/ FailExtraction(s)

ScorerStep(s) ==
    \/ LocalStep(s) \/ acquireProviderSlot(s) \/ GiveUp(s)
    \/ BeforeAttempt(s) \/ RefuseAttempt(s)

AllDone == (\A s \in Scorer : pc[s] = "done") /\ UNCHANGED vars

Next == (\E s \in Scorer : ScorerStep(s)) \/ CallerCancels \/ DeadlinePasses \/ AllDone

Spec == Init /\ [][Next]_vars

(* A scorer that can run on does, an attempt ends (the HTTP client has a   *)
(* timeout) and a backoff wait elapses.  Go queues the senders blocked on  *)
(* a channel, so a slot that keeps becoming free reaches every waiter.     *)
Fairness ==
    \A s \in Scorer :
        /\ WF_vars(LocalStep(s))
        /\ SF_vars(acquireProviderSlot(s) \/ GiveUp(s))
        /\ SF_vars(BeforeAttempt(s) \/ RefuseAttempt(s))

FairSpec == Spec /\ Fairness

-----------------------------------------------------------------------------
(* Properties.                                                             *)

Place == {"start", "reserve", "limiter", "before", "inflight", "backoff", "judge", "done"}

How == {"none", "cached", "ok", "costCap", "overBudget", "refused", "cancelled",
        "overrun", "failed", "evidence", "ioError"}

(* Type correctness of the scorers' state, and the provider's loop counter *)
(* stays within maxRetries until the loop is left.                         *)
TypeOK ==
    /\ calls \in Nat /\ sent \in Nat /\ open \subseteq Scorer /\ late \in BOOLEAN
    /\ limiter \in 0 .. MaxWorkers /\ cancelled \in BOOLEAN
    /\ cache \in [Key -> Evidence] /\ resp \in [Scorer -> Evidence]
    /\ pc \in [Scorer -> Place] /\ outcome \in [Scorer -> How]
    /\ extraction \in [Scorer -> 0 .. ExtractionRetries]
    /\ attempt \in [Scorer -> 0 .. MaxRetries + 1]
    /\ sentOf \in [Scorer -> Nat] /\ audited \in [Scorer -> Nat] /\ rejected \in [Scorer -> Nat]

(* Every path out of the provider call, error returns included, hands back *)
(* the worker slot and the attempt slot exactly once: the limiter holds    *)
(* one token per scorer between acquireProviderSlot and release, and the   *)
(* budget one open attempt per scorer waiting on the wire.                 *)
SlotsExact ==
    /\ limiter = Cardinality(HasWorker)
    /\ open = {s \in Scorer : pc[s] = "inflight"}

(* Score returns only responses with strict evidence, from the provider or *)
(* from a cache file another scorer or an earlier version wrote, and a     *)
(* fresh one is an answer beyond all the answers that were rejected.       *)
StrictEvidence ==
    \A s \in Scorer :
        /\ outcome[s] \in {"ok", "cached"} => resp[s] = "strict"
        /\ outcome[s] = "ok" => sentOf[s] > rejected[s]

(* The cache is only ever written with strict evidence, so a good entry is *)
(* never replaced by the rejected answer of a concurrent scorer of the key.*)
OnlyStrictIsCached ==
    [][\A k \in Key : cache'[k] # cache[k] => cache'[k] = "strict"]_vars

(* An evidence failure is earned: the model was asked the full number of   *)
(* times, each answer was rejected, and each was a logical call of its own.*)
EarnedEvidenceFailure ==
    \A s \in Scorer : outcome[s] = "evidence" => rejected[s] = ExtractionRetries + 1

(* The audit log has one provider_attempt row per outbound attempt that    *)
(* has ended; only a failed write, which fails the call, leaves one out.   *)
AttemptsAudited ==
    \A s \in Scorer :
        \/ audited[s] + (IF s \in open THEN 1 ELSE 0) = sentOf[s]
        \/ outcome[s] = "ioError" /\ audited[s] + 1 = sentOf[s]

(* resolveLimits derives max attempts as calls times the provider's tries: *)
(* a scorer that was granted its call is then never refused an attempt for *)
(* the count alone, whatever the other scorers retry.                      *)
AttemptHeadroom ==
    MaxCalls > 0 /\ MaxAttempts >= MaxCalls * (MaxRetries + 1)
        => \A s \in Scorer : pc[s] = "before" => sent < MaxAttempts

(* A scorer that can do nothing until another one moves: the channel it    *)
(* sends to is full and its context has not ended.                         *)
Blocked(s) ==
    /\ ~ctxDone
    /\ \/ pc[s] = "limiter" /\ limiter >= MaxWorkers
       \/ pc[s] = "before" /\ ~Quota!SlotFree

(* Worker slots are held over the wait for an attempt slot and over        *)
(* backoff, attempt slots only on the wire: the scorers never all wait for *)
(* one another.                                                            *)
NoCircularWait ==
    (\E s \in Scorer : pc[s] # "done") => \E s \in Scorer : pc[s] # "done" /\ ~Blocked(s)

(* The two retry loops together send no more than the product of their     *)
(* limits, whatever fails in between.                                      *)
RetriesBounded ==
    \A s \in Scorer : sentOf[s] <= (ExtractionRetries + 1) * (MaxRetries + 1)

(* Steps a scorer may still take; what others do is no reason for more.    *)
StepsLeft(s) ==
    LET loop == 3 * (MaxRetries + 1 - attempt[s])
        call == 3 * (MaxRetries + 1)
        rest == [start |-> call + 7, reserve |-> call + 6, limiter |-> call + 5, before |-> loop + 4,
                 inflight |-> loop + 3, backoff |-> loop + 2, judge |-> 1, done |-> 0]
    IN  (ExtractionRetries - extraction[s]) * (call + 7) + rest[pc[s]]

(* No retry loop runs on: every step of a scorer leaves it fewer steps,    *)
(* and no step of others, of the caller or of the clock gives it more.     *)
ScoresAdvance ==
    [][\A s \in Scorer :
          /\ ScorerStep(s) => StepsLeft(s)' < StepsLeft(s)
          /\ StepsLeft(s)' <= StepsLeft(s)]_vars

(* Every scoring call returns: nobody waits for ever for a worker or an    *)
(* attempt slot, and no retry loop runs on.                                *)
ScoresEnd == \A s \in Scorer : <>(pc[s] = "done")

(* docs/spec.md: limits "default to the conservative worst case", so with  *)
(* max calls at the planned number of calls only the deadline refuses one. *)
DefaultBudgetSuffices == \A s \in Scorer : outcome[s] = "overBudget" => late
=============================================================================
