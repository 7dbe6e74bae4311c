--------------------------- MODULE ScoringProofs -----------------------------
(***************************************************************************)
(* Proofs about scoring calls (ScoreCall), for any number of scorers,      *)
(* keys, slots, retries and limits, and about the response files behind    *)
(* their cache (CacheStore), for any number of processes and routes.  Both *)
(* invariants have one part per scorer, Set or Clear, so each action is    *)
(* proved on the one that takes it and leaves the others' parts alone.     *)
(***************************************************************************)
EXTENDS MCScoring, FiniteSetTheorems, SequenceTheorems, WellFoundedInduction, TLAPS

(* Types of the variables the argument reads.                              *)
Typed ==
    /\ open \subseteq Scorer
    /\ cache \in [Key -> Evidence] /\ resp \in [Scorer -> Evidence]
    /\ pc \in [Scorer -> Place] /\ outcome \in [Scorer -> How]
    /\ extraction \in [Scorer -> Nat] /\ sentOf \in [Scorer -> Nat]
    /\ audited \in [Scorer -> Nat] /\ rejected \in [Scorer -> Nat]

(* A scorer has an outcome when it is done, and an open attempt when it is *)
(* in flight; the answers it rejected are behind the attempts it sent.     *)
Sound(s) ==
    /\ outcome[s] # "none" => pc[s] = "done"
    /\ s \in open <=> pc[s] = "inflight"
    /\ rejected[s] <= sentOf[s]
    /\ pc[s] \in {"inflight", "judge"} => rejected[s] < sentOf[s]
    /\ outcome[s] \in {"ok", "cached"} => resp[s] = "strict"
    /\ outcome[s] = "ok" => rejected[s] < sentOf[s]

(* extractionAttempt counts the answers rejected so far.                   *)
Earned(s) ==
    /\ extraction[s] <= ExtractionRetries
    /\ pc[s] # "done" => rejected[s] = extraction[s]
    /\ outcome[s] = "evidence" => rejected[s] = ExtractionRetries + 1

Audited(s) ==
    /\ pc[s] = "inflight" => audited[s] + 1 = sentOf[s]
    /\ pc[s] # "inflight" =>
          \/ audited[s] = sentOf[s]
          \/ outcome[s] = "ioError" /\ audited[s] + 1 = sentOf[s]

ScorerInv(s) == Sound(s) /\ Earned(s) /\ Audited(s)

IInv == Typed /\ \A s \in Scorer : ScorerInv(s)

(* Every step of a scorer preserves the invariant.                         *)
LEMMA ScorerStepKeepsIInv ==
    ASSUME IInv, NEW s \in Scorer, ScorerStep(s)
    PROVE  IInv'
<1> USE ScoreAssumption
    DEF IInv, Typed, ScorerInv, Sound, Earned, Audited, Evidence, Place, How, Goto, End
<1>1. CASE CacheHit(s)
  BY <1>1 DEF CacheHit, Hit, quota
<1>2. CASE CacheMiss(s)
  BY <1>2 DEF CacheMiss, quota
<1>3. CASE ReserveCall(s)
  BY <1>3 DEF ReserveCall, Quota!Grant
<1>4. CASE RefuseCall(s)
  BY <1>4 DEF RefuseCall, quota
<1>5. CASE acquireProviderSlot(s)
  BY <1>5 DEF acquireProviderSlot, quota
<1>6. CASE GiveUp(s)
  BY <1>6 DEF GiveUp, quota
<1>7. CASE BeforeAttempt(s)
  BY <1>7 DEF BeforeAttempt, Quota!Send
<1>8. CASE RefuseAttempt(s)
  BY <1>8 DEF RefuseAttempt, quota
<1>9. CASE CompletionFails(s)
  BY <1>9 DEF CompletionFails, Ends, Audit, Quota!Finish
<1>10. CASE Respond(s)
  BY <1>10 DEF Respond, Ends, Audit, Quota!Finish
<1>11. CASE FailAttempt(s)
  BY <1>11 DEF FailAttempt, Ends, Audit, Quota!Finish
<1>12. ASSUME NEW n, RetryAttempt(s, n) PROVE IInv'
  BY <1>12 DEF RetryAttempt, Ends, Audit, Quota!Finish
<1>13. CASE BackoffDone(s)
  BY <1>13 DEF BackoffDone, quota
<1>14. CASE Accept(s)
  BY <1>14 DEF Accept, quota
<1>15. CASE RetryExtraction(s)
  BY <1>15 DEF RetryExtraction, Reject, quota
<1>16. CASE FailExtraction(s)
  BY <1>16 DEF FailExtraction, Reject, quota
<1> HIDE DEF IInv
<1> QED
  BY <1>1, <1>2, <1>3, <1>4, <1>5, <1>6, <1>7, <1>8, <1>9, <1>10, <1>11, <1>12, <1>13,
     <1>14, <1>15, <1>16 DEF ScorerStep, LocalStep, AttemptEnds

LEMMA InvInit ==
    ASSUME Init PROVE IInv
BY ScoreAssumption DEF Init, Quota!Init, IInv, Typed, ScorerInv, Sound, Earned, Audited, Evidence, Place, How

LEMMA StepKeepsIInv ==
    ASSUME IInv, [Next]_vars PROVE IInv'
<1> USE DEF IInv, Typed, ScorerInv, Sound, Earned, Audited
<1>1. CASE CallerCancels
  BY <1>1 DEF CallerCancels, quota, local
<1>2. CASE DeadlinePasses
  BY <1>2 DEF DeadlinePasses, Quota!BecomeLate, local
<1>3. CASE UNCHANGED vars
  BY <1>3 DEF vars, quota, local
<1> HIDE DEF IInv
<1>4. ASSUME NEW s \in Scorer, ScorerStep(s) PROVE IInv'
  BY <1>4, ScorerStepKeepsIInv
<1> QED
  BY <1>1, <1>2, <1>3, <1>4 DEF Next, AllDone

(* The invariant holds of every behaviour.                                 *)
THEOREM Invariance == Spec => []IInv
BY InvInit, StepKeepsIInv, PTL DEF Spec

(* Score returns only strict evidence, for any number of scorers that      *)
(* share keys, any stale cache content and any retry limits.               *)
THEOREM EvidenceIsStrict == Spec => []StrictEvidence
<1>1. IInv => StrictEvidence
  BY DEF IInv, Typed, ScorerInv, Sound, StrictEvidence
<1> QED
  BY <1>1, Invariance, PTL

(* A typed evidence failure means ExtractionRetries + 1 rejected answers.  *)
THEOREM EvidenceFailureIsEarned == Spec => []EarnedEvidenceFailure
<1>1. IInv => EarnedEvidenceFailure
  BY DEF IInv, ScorerInv, Earned, EarnedEvidenceFailure
<1> QED
  BY <1>1, Invariance, PTL

(* Every attempt that has ended has its audit row, or its write failed the *)
(* call.                                                                   *)
THEOREM AuditIsComplete == Spec => []AttemptsAudited
<1>1. IInv => AttemptsAudited
  BY DEF IInv, Typed, ScorerInv, Sound, Audited, AttemptsAudited
<1> QED
  BY <1>1, Invariance, PTL

-----------------------------------------------------------------------------
(* The cache.  Only Accept writes it, and only what it judged strict.      *)

LEMMA StepKeepsCacheStrict ==
    ASSUME IInv, [Next]_vars, NEW k \in Key, cache'[k] # cache[k]
    PROVE  cache'[k] = "strict"
<1>1. ASSUME NEW s \in Scorer, Accept(s) PROVE cache'[k] = "strict"
  BY <1>1, ScoreAssumption DEF Accept, IInv, Typed
<1>2. ASSUME NEW s \in Scorer, ScorerStep(s), ~Accept(s) PROVE cache' = cache
  BY <1>2 DEF ScorerStep, LocalStep, AttemptEnds, CacheHit, CacheMiss, ReserveCall, RefuseCall,
     acquireProviderSlot, GiveUp, BeforeAttempt, RefuseAttempt, CompletionFails, Respond,
     FailAttempt, RetryAttempt, BackoffDone, RetryExtraction, FailExtraction
<1>3. CallerCancels \/ DeadlinePasses \/ UNCHANGED vars => cache' = cache
  BY DEF CallerCancels, DeadlinePasses, vars
<1> QED
  BY <1>1, <1>2, <1>3 DEF Next, AllDone

(* A cache entry only ever changes into strict evidence.                   *)
THEOREM CacheStaysStrict == Spec => OnlyStrictIsCached
<1>1. IInv /\ [Next]_vars => [\A k \in Key : cache'[k] # cache[k] => cache'[k] = "strict"]_vars
  BY StepKeepsCacheStrict
<1> QED
  BY <1>1, Invariance, PTL DEF Spec, OnlyStrictIsCached

-----------------------------------------------------------------------------
(* Slots.  The limiter counts the scorers between acquireProviderSlot and  *)
(* release; every action adds or removes at most the scorer that takes it. *)

LimiterExact == limiter \in Nat /\ limiter = Cardinality(HasWorker) /\ limiter <= MaxWorkers

LEMMA WorkerCount ==
    /\ IsFiniteSet(HasWorker) /\ Cardinality(HasWorker) \in Nat
    /\ \A s \in Scorer \ HasWorker :
          Cardinality(HasWorker \cup {s}) = Cardinality(HasWorker) + 1
    /\ \A s \in HasWorker : Cardinality(HasWorker \ {s}) = Cardinality(HasWorker) - 1
<1>1. IsFiniteSet(HasWorker)
  BY ScoreAssumption, FS_Subset DEF HasWorker
<1> QED
  BY <1>1, FS_CardinalityType, FS_AddElement, FS_RemoveElement

(* Every step of a scorer keeps the limiter exact.                         *)
LEMMA ScorerStepKeepsLimiter ==
    ASSUME IInv, LimiterExact, NEW s \in Scorer, ScorerStep(s)
    PROVE  LimiterExact'
<1> USE DEF Goto, End
<1>1. pc \in [Scorer -> Place]
  BY DEF IInv, Typed
<1>2. ASSUME limiter' = limiter, HasWorker' = HasWorker PROVE LimiterExact'
  BY <1>2 DEF LimiterExact
<1>3. ASSUME limiter' = limiter - 1, s \in HasWorker, HasWorker' = HasWorker \ {s} PROVE LimiterExact'
  <2>1. Cardinality(HasWorker \ {s}) \in Nat
    BY WorkerCount, FS_CardinalityType, FS_Subset
  <2> QED
    BY <1>3, <2>1, WorkerCount, ScoreAssumption DEF LimiterExact
<1>4. CASE acquireProviderSlot(s)
  <2>1. s \notin HasWorker /\ HasWorker' = HasWorker \cup {s}
    BY <1>1, <1>4 DEF acquireProviderSlot, HasWorker
  <2> QED
    BY <1>4, <2>1, WorkerCount, ScoreAssumption DEF LimiterExact, acquireProviderSlot
<1>5. CASE GiveUp(s)
  <2>1. CASE s \in HasWorker
    BY <1>1, <1>3, <1>5, <2>1 DEF GiveUp, HasWorker
  <2>2. CASE s \notin HasWorker
    BY <1>1, <1>2, <1>5, <2>2 DEF GiveUp, HasWorker
  <2> QED
    BY <2>1, <2>2
<1>6. CASE CacheHit(s) \/ CacheMiss(s) \/ ReserveCall(s) \/ RefuseCall(s)
  BY <1>1, <1>2, <1>6 DEF CacheHit, CacheMiss, ReserveCall, RefuseCall, HasWorker
<1>7. CASE BeforeAttempt(s)
  BY <1>1, <1>2, <1>7 DEF BeforeAttempt, HasWorker
<1>8. CASE RefuseAttempt(s) \/ CompletionFails(s) \/ Respond(s) \/ FailAttempt(s)
  BY <1>1, <1>3, <1>8 DEF RefuseAttempt, CompletionFails, Respond, FailAttempt, Ends, HasWorker
<1>9. ASSUME NEW n, RetryAttempt(s, n) PROVE LimiterExact'
  BY <1>1, <1>2, <1>9 DEF RetryAttempt, Ends, HasWorker
<1>10. CASE BackoffDone(s)
  BY <1>1, <1>2, <1>3, <1>10 DEF BackoffDone, HasWorker
<1>11. CASE Accept(s) \/ RetryExtraction(s) \/ FailExtraction(s)
  BY <1>1, <1>2, <1>11 DEF Accept, RetryExtraction, FailExtraction, Reject, HasWorker
<1> QED
  BY <1>4, <1>5, <1>6, <1>7, <1>8, <1>9, <1>10, <1>11 DEF ScorerStep, LocalStep, AttemptEnds

LEMMA LimiterInit ==
    ASSUME Init PROVE LimiterExact
<1>1. HasWorker = {}
  BY DEF Init, HasWorker
<1> QED
  BY <1>1, FS_EmptySet, ScoreAssumption DEF Init, LimiterExact

LEMMA StepKeepsLimiter ==
    ASSUME IInv, LimiterExact, [Next]_vars PROVE LimiterExact'
<1>1. CallerCancels \/ DeadlinePasses \/ UNCHANGED vars => limiter' = limiter /\ pc' = pc
  BY DEF CallerCancels, DeadlinePasses, vars, local
<1>2. limiter' = limiter /\ pc' = pc /\ LimiterExact => LimiterExact'
  BY DEF LimiterExact, HasWorker
<1> QED
  BY <1>1, <1>2, ScorerStepKeepsLimiter DEF Next, AllDone

(* Worker and attempt slots are handed back exactly once on every path,    *)
(* for any number of scorers and any limits.                               *)
THEOREM SlotsAreExact == Spec => []SlotsExact
<1>1. IInv /\ LimiterExact => SlotsExact
  BY DEF IInv, Typed, ScorerInv, Sound, LimiterExact, SlotsExact
<1> QED
  BY <1>1, LimiterInit, StepKeepsLimiter, Invariance, PTL DEF Spec

-----------------------------------------------------------------------------
(* Headroom.  The tries a scorer has still to make in the call it was      *)
(* granted are pairs of a set, which is counted.                           *)

Calling(s) == pc[s] \in {"limiter", "before", "inflight", "backoff"}

TriesOf(s) ==
    {i \in 0 .. MaxRetries :
        \/ pc[s] \in {"limiter", "before"} /\ attempt[s] <= i
        \/ pc[s] \in {"inflight", "backoff"} /\ attempt[s] < i}

Tries == {t \in Scorer \X (0 .. MaxRetries) : t[2] \in TriesOf(t[1])}

PerCall == MaxRetries + 1

(* Every granted call brings PerCall tries: those made, those to make, and *)
(* those it will not make any more.                                        *)
Headroom ==
    /\ calls \in Nat /\ sent \in Nat /\ late \in BOOLEAN /\ cancelled \in BOOLEAN
    /\ attempt \in [Scorer -> 0 .. MaxRetries + 1]
    /\ \A s \in Scorer : Calling(s) => attempt[s] <= MaxRetries
    /\ sent + Cardinality(Tries) <= calls * PerCall
    /\ MaxCalls > 0 => calls <= MaxCalls

LEMMA TriesAreFinite ==
    /\ IsFiniteSet(Tries) /\ Cardinality(Tries) \in Nat
    /\ \A T \in SUBSET Tries : IsFiniteSet(T) /\ Cardinality(T) <= Cardinality(Tries)
                                /\ Cardinality(T) \in Nat
<1>1. IsFiniteSet(Scorer) /\ IsFiniteSet(0 .. MaxRetries)
  BY ScoreAssumption, FS_Interval
<1>2. IsFiniteSet(Scorer \X (0 .. MaxRetries))
  BY <1>1, FS_Product
<1>3. IsFiniteSet(Tries)
  BY <1>2, FS_Subset DEF Tries
<1>. QED BY <1>3, FS_Subset, FS_CardinalityType

(* A step that adds no try and sends no attempt.                           *)
LEMMA FewerTries ==
    ASSUME Headroom, Tries' \subseteq Tries, UNCHANGED <<calls, sent>>
    PROVE  sent' + Cardinality(Tries') <= calls' * PerCall
<1>1. Cardinality(Tries') <= Cardinality(Tries) /\ Cardinality(Tries') \in Nat
  BY TriesAreFinite
<1>2. calls * PerCall \in Nat
  BY ScoreAssumption DEF Headroom, PerCall
<1>. QED BY <1>1, <1>2, TriesAreFinite DEF Headroom

LEMMA GrantAddsTries ==
    ASSUME IInv, Headroom, NEW s \in Scorer, ReserveCall(s)
    PROVE  Headroom'
<1>0. /\ pc \in [Scorer -> Place] /\ attempt \in [Scorer -> 0 .. MaxRetries + 1]
      /\ calls \in Nat /\ sent \in Nat /\ MaxRetries \in Nat
  BY ScoreAssumption DEF IInv, Typed, Headroom
<1>1. /\ pc[s] = "reserve" /\ pc' = [pc EXCEPT ![s] = "limiter"]
      /\ attempt' = [attempt EXCEPT ![s] = 0]
      /\ calls' = calls + 1 /\ (MaxCalls > 0 => calls < MaxCalls)
      /\ UNCHANGED <<sent, late, cancelled>>
  BY DEF ReserveCall, Goto, Quota!Grant, Quota!MayCall
<1> DEFINE new == {s} \X (0 .. MaxRetries)
<1>2. Tries' \subseteq Tries \cup new
  <2>1. ASSUME NEW t \in Scorer, t # s PROVE pc'[t] = pc[t] /\ attempt'[t] = attempt[t]
    BY <1>0, <1>1, <2>1
  <2>2. ASSUME NEW t \in Scorer, t # s PROVE TriesOf(t)' = TriesOf(t)
    BY <2>1, <2>2 DEF TriesOf
  <2>. QED BY <2>2 DEF Tries
<1>3. IsFiniteSet(new) /\ Cardinality(new) = PerCall
  <2>1. IsFiniteSet(0 .. MaxRetries) /\ Cardinality(0 .. MaxRetries) = PerCall
    <3>1. MaxRetries \in Int /\ ~(0 > MaxRetries) /\ MaxRetries - 0 + 1 = MaxRetries + 1
      BY <1>0
    <3>2. /\ IsFiniteSet(0 .. MaxRetries)
          /\ Cardinality(0 .. MaxRetries) = IF 0 > MaxRetries THEN 0 ELSE MaxRetries - 0 + 1
      BY ONLY <3>1, FS_Interval
    <3>. QED BY <3>1, <3>2 DEF PerCall
  <2>2. IsFiniteSet({s}) /\ Cardinality({s}) = 1
    BY FS_Singleton
  <2>. QED BY <1>0, <2>1, <2>2, FS_Product DEF PerCall
<1>4. /\ IsFiniteSet(Tries \cup new) /\ Cardinality(Tries \cup new) <= Cardinality(Tries) + PerCall
  <2>1. IsFiniteSet(Tries \cap new)
    BY TriesAreFinite
  <2>2. Cardinality(Tries \cap new) \in Nat
    BY <2>1, FS_CardinalityType
  <2>3. /\ IsFiniteSet(Tries \cup new)
        /\ Cardinality(Tries \cup new) = Cardinality(Tries) + Cardinality(new) - Cardinality(Tries \cap new)
    BY <1>3, TriesAreFinite, FS_Union
  <2>. QED BY <1>0, <1>3, <2>2, <2>3, TriesAreFinite DEF PerCall
<1>5. Cardinality(Tries') <= Cardinality(Tries) + PerCall /\ Cardinality(Tries') \in Nat
  <2>1. /\ Cardinality(Tries') <= Cardinality(Tries \cup new) /\ IsFiniteSet(Tries')
        /\ Cardinality(Tries \cup new) \in Nat
    BY <1>2, <1>4, FS_Subset, FS_CardinalityType
  <2>2. Cardinality(Tries') \in Nat
    BY <2>1, FS_CardinalityType
  <2>. QED BY <1>0, <1>4, <2>1, <2>2, TriesAreFinite DEF PerCall
<1>6. (calls + 1) * PerCall = calls * PerCall + PerCall /\ calls * PerCall \in Nat /\ PerCall \in Nat
  BY <1>0 DEF PerCall
<1>7. sent' + Cardinality(Tries') <= calls' * PerCall
  BY <1>0, <1>1, <1>5, <1>6, TriesAreFinite DEF Headroom
<1>8. attempt' \in [Scorer -> 0 .. MaxRetries + 1] /\ \A t \in Scorer : Calling(t)' => attempt'[t] <= MaxRetries
  BY <1>0, <1>1 DEF Headroom, Calling
<1>9. MaxCalls > 0 => calls' <= MaxCalls
  BY <1>0, <1>1, ScoreAssumption
<1>. QED BY <1>0, <1>1, <1>7, <1>8, <1>9 DEF Headroom

(* An attempt is sent for the try it is.                                   *)
LEMMA AttemptUsesTry ==
    ASSUME IInv, Headroom, NEW s \in Scorer, BeforeAttempt(s)
    PROVE  Headroom'
<1>0. /\ pc \in [Scorer -> Place] /\ attempt \in [Scorer -> 0 .. MaxRetries + 1]
      /\ calls \in Nat /\ sent \in Nat /\ MaxRetries \in Nat
  BY ScoreAssumption DEF IInv, Typed, Headroom
<1>1. /\ pc[s] = "before" /\ pc' = [pc EXCEPT ![s] = "inflight"]
      /\ sent' = sent + 1 /\ UNCHANGED <<calls, late, cancelled, attempt>>
  BY DEF BeforeAttempt, Goto, Quota!Send
<1>2. attempt[s] \in 0 .. MaxRetries
  BY <1>0, <1>1 DEF Headroom, Calling
<1> DEFINE try == <<s, attempt[s]>>
<1>3. try \in Tries
  <2>1. attempt[s] \in TriesOf(s)
    <3>1. attempt[s] <= attempt[s] /\ pc[s] \in {"limiter", "before"}
      BY <1>1, <1>2
    <3>. QED BY <1>2, <3>1 DEF TriesOf
  <2>2. try[1] = s /\ try[2] = attempt[s]
    OBVIOUS
  <2>. QED BY <1>2, <2>1, <2>2 DEF Tries
<1>4. Tries' \subseteq Tries \ {try}
  <2>1. ASSUME NEW t \in Scorer, t # s PROVE TriesOf(t)' = TriesOf(t)
    BY <1>0, <1>1, <2>1 DEF TriesOf
  <2>2. TriesOf(s)' \subseteq TriesOf(s) \ {attempt[s]}
    BY <1>0, <1>1 DEF TriesOf
  <2>. QED BY <2>1, <2>2 DEF Tries
<1>5. Cardinality(Tries') + 1 <= Cardinality(Tries) /\ Cardinality(Tries') \in Nat
  <2>1. /\ IsFiniteSet(Tries \ {try}) /\ Cardinality(Tries \ {try}) = Cardinality(Tries) - 1
    BY <1>3, TriesAreFinite, FS_RemoveElement
  <2>2. /\ Cardinality(Tries') <= Cardinality(Tries \ {try}) /\ IsFiniteSet(Tries')
    BY <1>4, <2>1, FS_Subset
  <2>3. Cardinality(Tries') \in Nat
    BY <2>2, FS_CardinalityType
  <2>. QED BY <2>1, <2>2, <2>3, TriesAreFinite
<1>6. calls * PerCall \in Nat
  BY <1>0 DEF PerCall
<1>7. sent' + Cardinality(Tries') <= calls' * PerCall
  BY <1>0, <1>1, <1>5, <1>6, TriesAreFinite DEF Headroom
<1>8. \A t \in Scorer : Calling(t)' => attempt'[t] <= MaxRetries
  BY <1>0, <1>1 DEF Headroom, Calling
<1>. QED BY <1>0, <1>1, <1>7, <1>8 DEF Headroom

(* The steps of a scorer that neither are granted a call nor send.         *)
LEMMA OthersKeepHeadroom ==
    ASSUME IInv, Headroom, NEW s \in Scorer,
           UNCHANGED <<calls, sent, late, cancelled>>,
           \A t \in Scorer \ {s} : pc'[t] = pc[t] /\ attempt'[t] = attempt[t],
           attempt' \in [Scorer -> 0 .. MaxRetries + 1],
           Calling(s)' => attempt'[s] <= MaxRetries,
           TriesOf(s)' \subseteq TriesOf(s)
    PROVE  Headroom'
<1>1. Tries' \subseteq Tries
  <2>1. ASSUME NEW t \in Scorer, t # s PROVE TriesOf(t)' = TriesOf(t)
    BY <2>1 DEF TriesOf
  <2>. QED BY <2>1 DEF Tries
<1>2. \A t \in Scorer : Calling(t)' => attempt'[t] <= MaxRetries
  BY DEF Headroom, Calling
<1>. QED BY <1>1, <1>2, FewerTries DEF Headroom

LEMMA ScorerStepKeepsHeadroom ==
    ASSUME IInv, Headroom, NEW s \in Scorer, ScorerStep(s)
    PROVE  Headroom'
<1>0. /\ pc \in [Scorer -> Place] /\ attempt \in [Scorer -> 0 .. MaxRetries + 1]
      /\ MaxRetries \in Nat /\ (Calling(s) => attempt[s] <= MaxRetries)
  BY ScoreAssumption DEF IInv, Typed, Headroom
<1> USE DEF Goto, End
<1>1. CASE CacheHit(s) \/ CacheMiss(s) \/ RefuseCall(s)
  BY <1>0, <1>1, OthersKeepHeadroom DEF CacheHit, CacheMiss, RefuseCall, quota, Calling, TriesOf
<1>2. CASE acquireProviderSlot(s) \/ GiveUp(s) \/ RefuseAttempt(s)
  BY <1>0, <1>2, OthersKeepHeadroom DEF acquireProviderSlot, GiveUp, RefuseAttempt, quota, Calling, TriesOf
<1>3. CASE CompletionFails(s) \/ Respond(s) \/ FailAttempt(s)
  BY <1>0, <1>3, OthersKeepHeadroom
     DEF CompletionFails, Respond, FailAttempt, Ends, Quota!Finish, Calling, TriesOf
<1>4. ASSUME NEW n, RetryAttempt(s, n) PROVE Headroom'
  BY <1>0, <1>4, OthersKeepHeadroom DEF RetryAttempt, Ends, Quota!Finish, Calling, TriesOf
<1>5. CASE BackoffDone(s)
  <2>1. /\ pc[s] = "backoff" /\ attempt' = [attempt EXCEPT ![s] = @ + 1]
        /\ UNCHANGED <<calls, sent, late, cancelled>>
        /\ \/ attempt[s] < MaxRetries /\ pc' = [pc EXCEPT ![s] = "before"]
           \/ attempt[s] >= MaxRetries /\ pc' = [pc EXCEPT ![s] = "done"]
    BY <1>5 DEF BackoffDone, quota
  <2>2. attempt[s] \in 0 .. MaxRetries
    BY <1>0, <2>1 DEF Calling
  <2>3. attempt' \in [Scorer -> 0 .. MaxRetries + 1] /\ attempt'[s] = attempt[s] + 1
    BY <1>0, <2>1, <2>2
  <2>4. TriesOf(s)' \subseteq TriesOf(s) /\ (Calling(s)' => attempt'[s] <= MaxRetries)
    BY <1>0, <2>1, <2>2, <2>3 DEF TriesOf, Calling
  <2>. QED BY <1>0, <2>1, <2>3, <2>4, OthersKeepHeadroom
<1>6. CASE Accept(s) \/ RetryExtraction(s) \/ FailExtraction(s)
  BY <1>0, <1>6, OthersKeepHeadroom
     DEF Accept, RetryExtraction, FailExtraction, Reject, quota, Calling, TriesOf
<1>. QED BY <1>1, <1>2, <1>3, <1>4, <1>5, <1>6, GrantAddsTries, AttemptUsesTry
         DEF ScorerStep, LocalStep, AttemptEnds

LEMMA HeadroomSuffices ==
    ASSUME Headroom PROVE AttemptHeadroom
<1> SUFFICES ASSUME MaxCalls > 0, MaxAttempts >= MaxCalls * PerCall,
                    NEW s \in Scorer, pc[s] = "before"
             PROVE  sent < MaxAttempts
  BY DEF AttemptHeadroom, PerCall
<1>0. MaxCalls \in Nat /\ MaxRetries \in Nat /\ MaxAttempts \in Nat /\ calls \in Nat /\ sent \in Nat
  BY ScoreAssumption DEF Headroom
<1>1. <<s, attempt[s]>> \in Tries
  <2>1. attempt[s] \in 0 .. MaxRetries
    BY <1>0 DEF Headroom, Calling
  <2>2. attempt[s] \in TriesOf(s)
    <3>1. attempt[s] <= attempt[s] /\ pc[s] \in {"limiter", "before"}
      BY <1>0, <2>1
    <3>. QED BY <2>1, <3>1 DEF TriesOf
  <2>3. <<s, attempt[s]>>[1] = s /\ <<s, attempt[s]>>[2] = attempt[s]
    OBVIOUS
  <2>. QED BY <2>1, <2>2, <2>3 DEF Tries
<1>2. Cardinality(Tries) >= 1
  <2>1. Cardinality(Tries \ {<<s, attempt[s]>>}) = Cardinality(Tries) - 1
    BY <1>1, TriesAreFinite, FS_RemoveElement
  <2>2. Cardinality(Tries \ {<<s, attempt[s]>>}) \in Nat
    BY TriesAreFinite
  <2>. QED BY <2>1, <2>2, TriesAreFinite
<1>3. calls * PerCall <= MaxCalls * PerCall
  <2>1. PICK d \in Nat : MaxCalls = calls + d
    <3>1. MaxCalls - calls \in Nat /\ MaxCalls = calls + (MaxCalls - calls)
      BY <1>0 DEF Headroom
    <3>. QED BY <3>1
  <2>2. (calls + d) * PerCall = calls * PerCall + d * PerCall /\ d * PerCall \in Nat /\ calls * PerCall \in Nat
    BY <1>0 DEF PerCall
  <2>. QED BY <2>1, <2>2
<1>4. calls * PerCall \in Nat /\ MaxCalls * PerCall \in Nat
  BY <1>0 DEF PerCall
<1>. QED BY <1>0, <1>2, <1>3, <1>4, TriesAreFinite DEF Headroom

LEMMA StepKeepsHeadroom ==
    ASSUME IInv, Headroom, [Next]_vars PROVE Headroom'
<1>1. CASE CallerCancels \/ DeadlinePasses \/ UNCHANGED vars
  <2>1. UNCHANGED <<calls, sent, pc, attempt>> /\ late' \in BOOLEAN /\ cancelled' \in BOOLEAN
    BY <1>1 DEF CallerCancels, DeadlinePasses, Quota!BecomeLate, vars, quota, local, Headroom
  <2>2. Tries' = Tries /\ \A s \in Scorer : Calling(s)' = Calling(s)
    BY <2>1 DEF Tries, TriesOf, Calling
  <2>. QED BY <2>1, <2>2, FewerTries DEF Headroom
<1>. QED BY <1>1, ScorerStepKeepsHeadroom DEF Next, AllDone

-----------------------------------------------------------------------------
(* Retries.  A scorer moves along few edges, each of which uses something  *)
(* up: a try, a round of extraction, or the scorer itself.                 *)

Counted == <<pc, attempt, extraction, sentOf>>

Stays(s) == attempt'[s] = attempt[s] /\ extraction'[s] = extraction[s] /\ sentOf'[s] = sentOf[s]

Edge(s, from, to) == pc[s] = from /\ pc'[s] = to

Leaves(s) ==
    /\ pc[s] # "done" /\ pc'[s] = "done"
    /\ extraction'[s] = extraction[s] /\ sentOf'[s] = sentOf[s]

Moves(s) ==
    \/ Leaves(s)
    \/ Edge(s, "start", "reserve") /\ Stays(s)
    \/ /\ Edge(s, "reserve", "limiter") /\ attempt'[s] = 0
       /\ extraction'[s] = extraction[s] /\ sentOf'[s] = sentOf[s]
    \/ Edge(s, "limiter", "before") /\ Stays(s)
    \/ /\ Edge(s, "before", "inflight") /\ sentOf'[s] = sentOf[s] + 1
       /\ attempt'[s] = attempt[s] /\ extraction'[s] = extraction[s]
    \/ Edge(s, "inflight", "judge") /\ Stays(s)
    \/ Edge(s, "inflight", "backoff") /\ Stays(s)
    \/ /\ Edge(s, "backoff", "before") /\ attempt'[s] = attempt[s] + 1
       /\ extraction'[s] = extraction[s] /\ sentOf'[s] = sentOf[s]
    \/ /\ Edge(s, "judge", "reserve") /\ extraction[s] < ExtractionRetries
       /\ extraction'[s] = extraction[s] + 1
       /\ attempt'[s] = attempt[s] /\ sentOf'[s] = sentOf[s]

LEMMA ScorerMoves ==
    ASSUME IInv, Headroom, NEW s \in Scorer, ScorerStep(s)
    PROVE  /\ Moves(s)
           /\ \A t \in Scorer \ {s} : pc'[t] = pc[t] /\ Stays(t)
<1>0. /\ pc \in [Scorer -> Place] /\ attempt \in [Scorer -> 0 .. MaxRetries + 1]
      /\ extraction \in [Scorer -> Nat] /\ sentOf \in [Scorer -> Nat]
  BY DEF IInv, Typed, Headroom
<1> DEFINE Goal == Moves(s) /\ \A t \in Scorer \ {s} : pc'[t] = pc[t] /\ Stays(t)
<1> USE DEF Goto, End, Moves, Stays, Edge, Leaves
<1>1. CASE CacheHit(s) \/ CacheMiss(s) \/ RefuseCall(s)
  BY <1>0, <1>1 DEF CacheHit, CacheMiss, RefuseCall
<1>2. CASE ReserveCall(s) \/ acquireProviderSlot(s)
  BY <1>0, <1>2 DEF ReserveCall, acquireProviderSlot
<1>3. CASE GiveUp(s) \/ RefuseAttempt(s)
  BY <1>0, <1>3 DEF GiveUp, RefuseAttempt
<1>4. CASE BeforeAttempt(s)
  BY <1>0, <1>4 DEF BeforeAttempt
<1>5. CASE CompletionFails(s) \/ Respond(s) \/ FailAttempt(s)
  BY <1>0, <1>5 DEF CompletionFails, Respond, FailAttempt, Ends
<1>6. ASSUME NEW n, RetryAttempt(s, n) PROVE Goal
  BY <1>0, <1>6 DEF RetryAttempt, Ends
<1>7. CASE BackoffDone(s)
  BY <1>0, <1>7 DEF BackoffDone
<1>8. CASE Accept(s) \/ RetryExtraction(s) \/ FailExtraction(s)
  BY <1>0, <1>8 DEF Accept, RetryExtraction, FailExtraction, Reject
<1>. QED BY <1>1, <1>2, <1>3, <1>4, <1>5, <1>6, <1>7, <1>8 DEF ScorerStep, LocalStep, AttemptEnds

(* Attempts of the rounds that are over, and of the round under way.       *)
Before(s) == extraction[s] * PerCall

Within(s) ==
    IF pc[s] \in {"start", "reserve", "limiter"} THEN 0
    ELSE IF pc[s] = "before" THEN attempt[s]
    ELSE IF pc[s] \in {"inflight", "backoff"} THEN attempt[s] + 1
    ELSE PerCall

SentOK(s) == sentOf[s] <= Before(s) + Within(s)

LEMMA ScorerStepKeepsSent ==
    ASSUME IInv, Headroom, \A t \in Scorer : SentOK(t), NEW s \in Scorer, ScorerStep(s)
    PROVE  \A t \in Scorer : SentOK(t)'
<1>0. /\ pc \in [Scorer -> Place] /\ attempt \in [Scorer -> 0 .. MaxRetries + 1]
      /\ extraction \in [Scorer -> Nat] /\ sentOf \in [Scorer -> Nat]
      /\ MaxRetries \in Nat /\ PerCall \in Nat /\ PerCall = MaxRetries + 1
      /\ (Calling(s) => attempt[s] <= MaxRetries)
  BY ScoreAssumption DEF IInv, Typed, Headroom, PerCall
<1>1. Moves(s) /\ \A t \in Scorer \ {s} : pc'[t] = pc[t] /\ Stays(t)
  BY ScorerMoves
<1>2. ASSUME NEW t \in Scorer, t # s PROVE SentOK(t)'
  BY <1>1, <1>2 DEF SentOK, Before, Within, Stays, PerCall
<1>3. Before(s) \in Nat
  BY <1>0 DEF Before
<1>4. extraction'[s] = extraction[s] => Before(s)' = Before(s)
  BY DEF Before, PerCall
<1>5. extraction'[s] = extraction[s] + 1 => Before(s)' = Before(s) + PerCall
  BY <1>0 DEF Before, PerCall
<1>6. SentOK(s)
  OBVIOUS
<1>7. PerCall' = PerCall
  BY DEF PerCall
<1>8. SentOK(s)'
  BY <1>0, <1>1, <1>3, <1>4, <1>5, <1>6, <1>7 DEF SentOK, Within, Moves, Leaves, Stays, Edge, Calling, Place
<1>. QED BY <1>2, <1>8

LEMMA SentIsBounded ==
    ASSUME IInv, Headroom, \A s \in Scorer : SentOK(s) PROVE RetriesBounded
<1> SUFFICES ASSUME NEW s \in Scorer PROVE sentOf[s] <= (ExtractionRetries + 1) * PerCall
  BY DEF RetriesBounded, PerCall
<1>0. /\ attempt[s] \in Nat /\ extraction[s] \in Nat /\ sentOf[s] \in Nat
      /\ MaxRetries \in Nat /\ PerCall \in Nat /\ PerCall = MaxRetries + 1
      /\ (Calling(s) => attempt[s] <= MaxRetries)
      /\ ExtractionRetries \in Nat /\ extraction[s] <= ExtractionRetries
  BY ScoreAssumption DEF IInv, Typed, Headroom, PerCall, ScorerInv, Earned
<1>1. Within(s) \in Nat /\ Within(s) <= PerCall
  BY <1>0 DEF Within, Calling
<1>2. PICK d \in Nat : ExtractionRetries = extraction[s] + d
  <2>1. ExtractionRetries - extraction[s] \in Nat
        /\ ExtractionRetries = extraction[s] + (ExtractionRetries - extraction[s])
    BY <1>0
  <2>. QED BY <2>1
<1>3. /\ (extraction[s] + d + 1) * PerCall = Before(s) + d * PerCall + PerCall
      /\ d * PerCall \in Nat /\ Before(s) \in Nat
  BY <1>0 DEF Before
<1>4. sentOf[s] <= Before(s) + Within(s)
  BY DEF SentOK
<1>5. sentOf[s] <= Before(s) + d * PerCall + PerCall
  BY <1>0, <1>1, <1>3, <1>4
<1>. QED BY <1>2, <1>3, <1>5

(* The steps of the rounds to come, and of the round under way.            *)
Round == 3 * (MaxRetries + 1)

Rounds(s) == (ExtractionRetries - extraction[s]) * (Round + 7)

Loop(s) == 3 * (MaxRetries + 1 - attempt[s])

StepsAt(s) ==
    /\ pc[s] = "start"    => StepsLeft(s) = Rounds(s) + (Round + 7)
    /\ pc[s] = "reserve"  => StepsLeft(s) = Rounds(s) + (Round + 6)
    /\ pc[s] = "limiter"  => StepsLeft(s) = Rounds(s) + (Round + 5)
    /\ pc[s] = "before"   => StepsLeft(s) = Rounds(s) + (Loop(s) + 4)
    /\ pc[s] = "inflight" => StepsLeft(s) = Rounds(s) + (Loop(s) + 3)
    /\ pc[s] = "backoff"  => StepsLeft(s) = Rounds(s) + (Loop(s) + 2)
    /\ pc[s] = "judge"    => StepsLeft(s) = Rounds(s) + 1
    /\ pc[s] = "done"     => StepsLeft(s) = Rounds(s) + 0

LEMMA StepsOfRound ==
    ASSUME NEW s \in Scorer
    PROVE  StepsAt(s) /\ StepsAt(s)'
<1>1. StepsAt(s)
  BY DEF StepsAt, StepsLeft, Rounds, Loop, Round
<1>2. StepsAt(s)'
  BY DEF StepsAt, StepsLeft, Rounds, Loop, Round
<1>. QED BY <1>1, <1>2

LEMMA ScorerStepAdvances ==
    ASSUME IInv, Headroom, IInv', Headroom', NEW s \in Scorer, ScorerStep(s)
    PROVE  /\ StepsLeft(s)' < StepsLeft(s)
           /\ \A t \in Scorer \ {s} : StepsLeft(t)' = StepsLeft(t)
<1>0. /\ pc[s] \in Place /\ attempt[s] \in 0 .. MaxRetries + 1 /\ attempt'[s] \in 0 .. MaxRetries + 1
      /\ extraction[s] \in Nat /\ MaxRetries \in Nat /\ ExtractionRetries \in Nat
      /\ extraction[s] <= ExtractionRetries
  BY ScoreAssumption DEF IInv, Typed, Headroom, ScorerInv, Earned
<1>1. Moves(s) /\ \A t \in Scorer \ {s} : pc'[t] = pc[t] /\ Stays(t)
  BY ScorerMoves
<1>2. ASSUME NEW t \in Scorer, t # s PROVE StepsLeft(t)' = StepsLeft(t)
  BY <1>1, <1>2 DEF StepsLeft, Stays
<1>3. StepsAt(s) /\ StepsAt(s)'
  BY StepsOfRound
<1>5. Rounds(s) \in Int /\ Round \in Nat /\ Round = 3 * (MaxRetries + 1) /\ Round' = Round
  <2>1. ExtractionRetries - extraction[s] \in Nat /\ Round \in Nat
    BY <1>0 DEF Round
  <2>. QED BY <2>1 DEF Rounds, Round
<1>6. extraction'[s] = extraction[s] => Rounds(s)' = Rounds(s)
  BY DEF Rounds, Round
<1>7. extraction'[s] = extraction[s] + 1 => Rounds(s)' + (Round + 7) = Rounds(s) /\ Rounds(s)' \in Int
  <2>1. PICK k \in Int : k = ExtractionRetries - extraction[s]
    BY <1>0
  <2>2. (k - 1) * (Round + 7) + (Round + 7) = k * (Round + 7) /\ (k - 1) * (Round + 7) \in Int
    BY <1>5
  <2>3. extraction'[s] = extraction[s] + 1 => ExtractionRetries - extraction'[s] = k - 1
    BY <1>0, <2>1
  <2>. QED BY <2>1, <2>2, <2>3 DEF Rounds, Round
<1>8. /\ Loop(s) \in Nat /\ Loop(s) = 3 * (MaxRetries + 1 - attempt[s])
      /\ Loop(s)' \in Nat /\ Loop(s)' = 3 * (MaxRetries + 1 - attempt'[s])
  BY <1>0 DEF Loop
<1>9. ASSUME Edge(s, "judge", "reserve"), extraction'[s] = extraction[s] + 1
      PROVE  StepsLeft(s)' < StepsLeft(s)
  BY <1>3, <1>5, <1>7, <1>9 DEF StepsAt, Edge
<1>10. ASSUME Rounds(s)' = Rounds(s), ~Edge(s, "judge", "reserve")
       PROVE  StepsLeft(s)' < StepsLeft(s)
  <2>1. CASE Leaves(s)
    BY <1>0, <1>3, <1>5, <1>8, <1>10, <2>1 DEF StepsAt, Leaves, Place
  <2>2. CASE Edge(s, "reserve", "limiter") /\ attempt'[s] = 0
    BY <1>3, <1>5, <1>10, <2>2 DEF StepsAt, Edge
  <2>3. CASE Edge(s, "limiter", "before")
    <3>1. Loop(s)' <= Round
      BY <1>0, <1>5, <1>8
    <3>. QED BY <1>3, <1>5, <1>8, <1>10, <2>3, <3>1 DEF StepsAt, Edge
  <2>4. CASE Edge(s, "backoff", "before") /\ attempt'[s] = attempt[s] + 1
    <3>1. Loop(s)' + 3 = Loop(s)
      BY <1>0, <1>8, <2>4
    <3>. QED BY <1>3, <1>5, <1>8, <1>10, <2>4, <3>1 DEF StepsAt, Edge
  <2>5. CASE /\ attempt'[s] = attempt[s]
             /\ \/ Edge(s, "start", "reserve") \/ Edge(s, "before", "inflight")
                \/ Edge(s, "inflight", "judge") \/ Edge(s, "inflight", "backoff")
    <3>1. Loop(s)' = Loop(s)
      BY <1>8, <2>5
    <3>. QED BY <1>3, <1>5, <1>8, <1>10, <2>5, <3>1 DEF StepsAt, Edge
  <2>. QED BY <1>1, <1>10, <2>1, <2>2, <2>3, <2>4, <2>5 DEF Moves, Stays
<1>11. \/ Rounds(s)' = Rounds(s) /\ ~Edge(s, "judge", "reserve")
       \/ Edge(s, "judge", "reserve") /\ extraction'[s] = extraction[s] + 1
  BY <1>1, <1>6 DEF Moves, Leaves, Stays, Edge
<1>. QED BY <1>2, <1>9, <1>10, <1>11

LEMMA StepsAreCounted ==
    ASSUME IInv, Headroom, IInv', Headroom', NEW s \in Scorer
    PROVE  StepsLeft(s) \in Int /\ StepsLeft(s)' \in Int
<1>0. /\ pc[s] \in Place /\ attempt[s] \in 0 .. MaxRetries + 1 /\ extraction[s] \in Nat
      /\ pc'[s] \in Place /\ attempt'[s] \in 0 .. MaxRetries + 1 /\ extraction'[s] \in Nat
      /\ MaxRetries \in Nat /\ ExtractionRetries \in Nat
  BY ScoreAssumption DEF IInv, Typed, Headroom
<1>1. /\ Round \in Nat /\ Round' \in Nat /\ Loop(s) \in Int /\ Loop(s)' \in Int
      /\ ExtractionRetries - extraction[s] \in Int /\ ExtractionRetries - extraction'[s] \in Int
  BY <1>0 DEF Round, Loop
<1>2. Rounds(s) \in Int /\ Rounds(s)' \in Int
  BY <1>1 DEF Rounds
<1>3. StepsAt(s) /\ StepsAt(s)'
  BY StepsOfRound
<1>. QED BY <1>0, <1>1, <1>2, <1>3 DEF StepsAt, Place

LEMMA StepAdvances ==
    ASSUME IInv, Headroom, IInv', Headroom', [Next]_vars, NEW s \in Scorer
    PROVE  /\ ScorerStep(s) => StepsLeft(s)' < StepsLeft(s)
           /\ StepsLeft(s)' <= StepsLeft(s)
<1>0. StepsLeft(s) \in Int /\ StepsLeft(s)' \in Int
  BY StepsAreCounted
<1>1. ScorerStep(s) => StepsLeft(s)' < StepsLeft(s)
  BY ScorerStepAdvances
<1>2. CASE \E t \in Scorer : ScorerStep(t)
  <2>1. PICK t \in Scorer : ScorerStep(t)
    BY <1>2
  <2>2. t # s => StepsLeft(s)' = StepsLeft(s)
    BY <2>1, ScorerStepAdvances
  <2>. QED BY <1>0, <1>1, <2>1, <2>2
<1>3. CASE CallerCancels \/ DeadlinePasses \/ UNCHANGED vars
  <2>1. UNCHANGED <<pc, attempt, extraction>>
    BY <1>3 DEF CallerCancels, DeadlinePasses, vars, local
  <2>2. StepsLeft(s)' = StepsLeft(s)
    BY <2>1 DEF StepsLeft
  <2>. QED BY <1>0, <1>1, <2>2
<1>. QED BY <1>2, <1>3 DEF Next, AllDone

LEMMA StepKeepsSent ==
    ASSUME IInv, Headroom, \A s \in Scorer : SentOK(s), [Next]_vars
    PROVE  \A s \in Scorer : SentOK(s)'
<1>1. CASE CallerCancels \/ DeadlinePasses \/ UNCHANGED vars
  BY <1>1 DEF CallerCancels, DeadlinePasses, vars, local, SentOK, Before, Within, PerCall
<1>. QED BY <1>1, ScorerStepKeepsSent DEF Next, AllDone

LEMMA SentInit ==
    ASSUME Init PROVE \A s \in Scorer : SentOK(s)
<1> SUFFICES ASSUME NEW s \in Scorer PROVE SentOK(s)
  OBVIOUS
<1>1. sentOf[s] = 0 /\ extraction[s] = 0 /\ Within(s) = 0 /\ PerCall \in Nat
  BY ScoreAssumption DEF Init, Within, PerCall
<1>. QED BY <1>1 DEF SentOK, Before

(* Whoever waits for a worker slot waits for one that holds it; whoever    *)
(* holds one and waits for an attempt slot, for one on the wire, which     *)
(* waits for nobody.                                                       *)
LEMMA NobodyWaitsInACircle ==
    ASSUME IInv, LimiterExact PROVE NoCircularWait
<1> SUFFICES ASSUME NEW s \in Scorer, pc[s] # "done", \A t \in Scorer : pc[t] = "done" \/ Blocked(t)
             PROVE  FALSE
  BY DEF NoCircularWait
<1>1. \E t \in Scorer : pc[t] = "before"
  <2>1. CASE pc[s] = "before"
    BY <2>1
  <2>2. CASE pc[s] = "limiter"
    <3>1. Cardinality(HasWorker) # 0
      BY <2>2, ScoreAssumption DEF Blocked, LimiterExact
    <3>2. HasWorker # {}
      BY <3>1, FS_EmptySet
    <3>3. PICK t \in Scorer : pc[t] \in {"before", "inflight", "backoff"}
      BY <3>2 DEF HasWorker
    <3>4. Blocked(t)
      BY <3>3
    <3>. QED BY <3>3, <3>4 DEF Blocked
  <2>. QED BY <2>1, <2>2 DEF Blocked
<1>2. PICK t \in Scorer : pc[t] = "before"
  BY <1>1
<1>3. ~Quota!SlotFree
  BY <1>2 DEF Blocked
<1>4. Cardinality(open) # 0
  <2>0. Quota!Cardinality(open) = Cardinality(open)
    BY DEF Quota!Cardinality, Cardinality
  <2>1. MaxConcurrent > 0 /\ ~(Cardinality(open) < MaxConcurrent)
    BY <1>3, <2>0 DEF Quota!SlotFree
  <2>2. MaxConcurrent > 0 => 0 < MaxConcurrent
    BY ScoreAssumption
  <2>. QED BY <2>1, <2>2
<1>5. open # {}
  BY <1>4, FS_EmptySet
<1>6. PICK u \in Scorer : pc[u] = "inflight"
  BY <1>5 DEF IInv, Typed, ScorerInv, Sound
<1>7. Blocked(u)
  BY <1>6
<1>. QED BY <1>6, <1>7 DEF Blocked

-----------------------------------------------------------------------------
(* The response files.                                                     *)

SetRecord ==
    [state : {"idle", "made", "staged", "found", "resolved", "renamed",
              "stored", "unsynced", "failed", "dead"},
     at : Nat, to : Nat, since : Nat]

ClearRecord ==
    [state : {"idle", "listed", "seen", "buried", "cleared", "failed", "dead"},
     routes : SUBSET Route, stored : SUBSET Setter]

StoreShape ==
    /\ routeOf \in [Setter -> Route] /\ made \in Nat
    /\ shelf \in [Route -> Nat] /\ burials \in [Route -> Nat]
    /\ entry \in [Directory -> SUBSET Setter] /\ draft \in [Directory -> SUBSET Setter]
    /\ grave \in [Directory -> SUBSET Clearer] /\ gone \subseteq Directory
    /\ set \in [Setter -> SetRecord] /\ clear \in [Clearer -> ClearRecord]

(* A directory is on the shelf of one route or in a grave; a response on a *)
(* shelf was stored for its route.                                         *)
Shelves ==
    /\ \A r \in Route : shelf[r] # 0 => shelf[r] \in Directory \ gone /\ grave[shelf[r]] = {}
    /\ \A r, q \in Route : shelf[r] # 0 /\ shelf[r] = shelf[q] => r = q
    /\ \A d \in Directory : grave[d] = {} => \E r \in Route : shelf[r] = d
    /\ \A d \in gone : entry[d] = {}
    /\ \A r \in Route : shelf[r] # 0 => \A s \in entry[shelf[r]] : routeOf[s] = r

(* What a Set has looked up is still so while its route is not cleared.    *)
SetOK(s) ==
    /\ set[s].state \in {"idle", "made", "staged", "found"} => set[s].since = 0
    /\ set[s].state \in {"staged", "found", "resolved"} => set[s].at \in Directory
    /\ set[s].state \in {"resolved", "renamed", "stored"} => set[s].since <= burials[routeOf[s]]
    /\ set[s].state = "resolved" =>
          /\ set[s].to \in Directory
          /\ \A r \in Route : shelf[r] = set[s].to => r = routeOf[s]
          /\ burials[routeOf[s]] = set[s].since => shelf[routeOf[s]] = set[s].to
    /\ set[s].state \in {"renamed", "stored"} =>
          (burials[routeOf[s]] = set[s].since => s \in Visible(routeOf[s]))

(* A tombstone that is still there belongs to a Clear that is removing it  *)
(* or ended on the way.                                                    *)
TombOK(c) ==
    \A d \in Directory \ gone :
        c \in grave[d] => clear[c].state \in {"buried", "failed", "dead"}

(* What was stored when a Clear began is unreadable, except in the routes  *)
(* it has still to clear.                                                  *)
ClearOK(c) ==
    /\ clear[c].state \in {"seen", "buried"} => clear[c].routes # {}
    /\ clear[c].state = "cleared" => clear[c].routes = {}
    /\ \A s \in clear[c].stored : set[s].state = "stored"
    /\ clear[c].state \in {"listed", "seen", "buried", "cleared"} =>
          \A s \in clear[c].stored : s \in Visible(routeOf[s]) =>
              /\ routeOf[s] \in clear[c].routes
              /\ clear[c].state = "buried" => routeOf[s] # Current(c)

StoreInv ==
    /\ StoreShape /\ Shelves
    /\ \A s \in Setter : SetOK(s)
    /\ \A c \in Clearer : TombOK(c)
    /\ \A c \in Clearer : ClearOK(c)

(* A nonempty set of numbers has a least one.                              *)
LEMMA LeastExists ==
    ASSUME NEW T \in SUBSET Nat, T # {}
    PROVE  \E x \in T : \A y \in T : x <= y
<1>1. PICK x \in T : \A y \in T : ~(<<y, x>> \in OpToRel(<, Nat))
  BY NatLessThanWellFounded, WFMin
<1>2. ASSUME NEW y \in T PROVE x <= y
  <2>1. ~(y < x)
    BY <1>1 DEF OpToRel
  <2>. QED BY <2>1
<1>. QED BY <1>2

LEMMA AppendShape ==
    ASSUME NEW n \in Nat, NEW S, NEW f \in [1 .. n -> S], NEW x \in S
    PROVE  /\ Append(f, x) \in [1 .. n + 1 -> S]
           /\ \A i \in 1 .. n : Append(f, x)[i] = f[i]
           /\ Append(f, x)[n + 1] = x
<1>1. f \in Seq(S)
  BY SeqDef
<1>2. Len(f) = n
  BY <1>1, LenProperties
<1>3. /\ Append(f, x) \in Seq(S) /\ Len(Append(f, x)) = n + 1
      /\ \A i \in 1 .. n : Append(f, x)[i] = f[i]
      /\ Append(f, x)[n + 1] = x
  BY <1>1, <1>2, AppendProperties
<1>. QED BY <1>3, LenProperties

Lowest(routes) == CHOOSE r \in routes : \A other \in routes : r <= other

LEMMA CurrentIsRoute ==
    ASSUME StoreShape, NEW c \in Clearer
    PROVE  /\ Current(c) = Lowest(clear[c].routes)
           /\ clear[c].routes # {} => Current(c) \in clear[c].routes /\ Current(c) \in Route
<1>1. clear[c].routes \in SUBSET Route /\ clear[c].routes \in SUBSET Nat
  BY CacheStoreAssumption DEF StoreShape, ClearRecord
<1>2. CASE clear[c].routes # {}
  <2>1. \E r \in clear[c].routes : \A other \in clear[c].routes : r <= other
    BY <1>1, <1>2, LeastExists
  <2>. QED BY <1>1, <2>1 DEF Current, Lowest
<1>. QED BY <1>2 DEF Current, Lowest

(* A Set that moves on, and leaves the responses and the shelves alone.    *)
LEMMA SetMovesOn ==
    ASSUME StoreInv, NEW s \in Setter, set[s].state # "stored",
           set'[s] \in SetRecord, set' = [set EXCEPT ![s] = set'[s]], SetOK(s)',
           draft' \in [Directory -> SUBSET Setter],
           UNCHANGED <<routeOf, shelf, made, entry, grave, gone, clear, burials>>
    PROVE  StoreInv'
<1>1. StoreShape'
  BY DEF StoreInv, StoreShape, Directory
<1>2. Shelves'
  BY DEF StoreInv, Shelves, Directory
<1>3. ASSUME NEW t \in Setter PROVE SetOK(t)'
  <2>1. CASE t = s
    BY <2>1
  <2>2. CASE t # s
    <3>1. set'[t] = set[t]
      BY <2>2 DEF StoreInv, StoreShape
    <3>. QED BY <3>1 DEF StoreInv, SetOK, Visible, Directory
  <2>. QED BY <2>1, <2>2
<1>4. ASSUME NEW c \in Clearer PROVE TombOK(c)'
  BY DEF StoreInv, TombOK, Directory
<1>5. ASSUME NEW c \in Clearer PROVE ClearOK(c)'
  <2>1. clear[c].stored \subseteq Setter
    BY DEF StoreInv, StoreShape, ClearRecord
  <2>2. \A t \in clear[c].stored : set'[t] = set[t]
    BY <2>1 DEF StoreInv, StoreShape, ClearOK
  <2>. QED BY <2>2 DEF StoreInv, ClearOK, Visible, Current
<1>. QED BY <1>1, <1>2, <1>3, <1>4, <1>5 DEF StoreInv

(* A Clear that moves on, and leaves the disk alone.                       *)
LEMMA ClearMovesOn ==
    ASSUME StoreInv, NEW c \in Clearer,
           clear'[c] \in ClearRecord, clear' = [clear EXCEPT ![c] = clear'[c]],
           TombOK(c)', ClearOK(c)',
           UNCHANGED <<routeOf, disk, set>>
    PROVE  StoreInv'
<1> USE DEF disk
<1>1. StoreShape'
  BY DEF StoreInv, StoreShape, Directory
<1>2. Shelves'
  BY DEF StoreInv, Shelves, Directory
<1>3. ASSUME NEW s \in Setter PROVE SetOK(s)'
  BY DEF StoreInv, SetOK, Visible, Directory
<1>4. ASSUME NEW d \in Clearer PROVE TombOK(d)' /\ ClearOK(d)'
  <2>1. CASE d # c
    <3>1. clear'[d] = clear[d]
      BY <2>1 DEF StoreInv, StoreShape
    <3>2. TombOK(d)'
      BY <3>1 DEF StoreInv, TombOK, Directory
    <3>3. ClearOK(d)'
      BY <3>1 DEF StoreInv, ClearOK, Visible, Current
    <3>. QED BY <3>2, <3>3
  <2>. QED BY <2>1
<1>. QED BY <1>1, <1>2, <1>3, <1>4 DEF StoreInv

(* A Set that ends, or whose record is replaced: the rest of the disk      *)
(* stays as it is.                                                         *)
LEMMA SetEnds ==
    ASSUME StoreInv, NEW s \in Setter, set[s].state # "stored",
           NEW state \in {"failed", "unsynced", "dead"}, EndSet(s, state),
           draft' \in [Directory -> SUBSET Setter],
           UNCHANGED <<routeOf, shelf, made, entry, grave, gone, clear, burials>>
    PROVE  StoreInv'
<1>1. set'[s] = [state |-> state, at |-> 0, to |-> 0, since |-> 0]
  BY DEF EndSet, Fresh, StoreInv, StoreShape
<1>2. set' = [set EXCEPT ![s] = set'[s]] /\ set'[s] \in SetRecord
  BY <1>1 DEF EndSet, Fresh, SetRecord, StoreInv, StoreShape
<1>3. SetOK(s)'
  BY <1>1 DEF SetOK
<1>. QED BY <1>2, <1>3, SetMovesOn

LEMMA ToSetShape ==
    ASSUME StoreShape, NEW s \in Setter, NEW state \in {"made", "found", "renamed"},
           ToSet(s, state)
    PROVE  /\ set' = [set EXCEPT ![s] = set'[s]] /\ set'[s] \in SetRecord
           /\ set'[s].state = state /\ set'[s].at = set[s].at
           /\ set'[s].to = set[s].to /\ set'[s].since = set[s].since
BY DEF ToSet, StoreShape, SetRecord

LEMMA FailSetKeeps ==
    ASSUME StoreInv, NEW s \in Setter, set[s].state # "stored", FailSet(s), UNCHANGED routeOf
    PROVE  StoreInv'
<1>1. draft' \in [Directory -> SUBSET Setter]
  BY DEF FailSet, DropDraft, StoreInv, StoreShape
<1>. QED BY <1>1, SetEnds DEF FailSet

(* The second branch of MakeDirectory: a new directory on an empty shelf.  *)
LEMMA NewDirectoryKeeps ==
    ASSUME StoreInv, NEW s \in Setter, set[s].state = "idle", shelf[routeOf[s]] = 0,
           ToSet(s, "made"), made' = made + 1, shelf' = [shelf EXCEPT ![routeOf[s]] = made + 1],
           entry' = Append(entry, {}), draft' = Append(draft, {}), grave' = Append(grave, {}),
           UNCHANGED <<routeOf, gone, clear, burials>>
    PROVE  StoreInv'
<1> USE DEF Directory
<1>0. StoreShape /\ made \in Nat /\ routeOf[s] \in Route
  BY DEF StoreInv, StoreShape
<1>1. /\ set' = [set EXCEPT ![s] = set'[s]] /\ set'[s] \in SetRecord
      /\ set'[s].state = "made" /\ set'[s].since = set[s].since
  BY ONLY ToSet(s, "made"), <1>0, ToSetShape
<1>2. /\ entry' \in [Directory' -> SUBSET Setter] /\ entry'[made + 1] = {}
      /\ \A d \in Directory : entry'[d] = entry[d]
  <2>1. entry \in [1 .. made -> SUBSET Setter] /\ {} \in SUBSET Setter
    BY <1>0 DEF StoreShape
  <2>2. Append(entry, {}) \in [1 .. made + 1 -> SUBSET Setter]
    BY ONLY <1>0, <2>1, AppendShape
  <2>3. ASSUME NEW d \in 1 .. made PROVE Append(entry, {})[d] = entry[d]
    BY ONLY <1>0, <2>1, AppendShape
  <2>4. Append(entry, {})[made + 1] = {}
    BY ONLY <1>0, <2>1, AppendShape
  <2>. QED BY <2>2, <2>3, <2>4
<1>3. draft' \in [Directory' -> SUBSET Setter]
  <2>1. draft \in [1 .. made -> SUBSET Setter] /\ {} \in SUBSET Setter
    BY <1>0 DEF StoreShape
  <2>2. Append(draft, {}) \in [1 .. made + 1 -> SUBSET Setter]
    BY ONLY <1>0, <2>1, AppendShape
  <2>. QED BY <2>2
<1>4. /\ grave' \in [Directory' -> SUBSET Clearer] /\ grave'[made + 1] = {}
      /\ \A d \in Directory : grave'[d] = grave[d]
  <2>1. grave \in [1 .. made -> SUBSET Clearer] /\ {} \in SUBSET Clearer
    BY <1>0 DEF StoreShape
  <2>2. Append(grave, {}) \in [1 .. made + 1 -> SUBSET Clearer]
    BY ONLY <1>0, <2>1, AppendShape
  <2>3. ASSUME NEW d \in 1 .. made PROVE Append(grave, {})[d] = grave[d]
    BY ONLY <1>0, <2>1, AppendShape
  <2>4. Append(grave, {})[made + 1] = {}
    BY ONLY <1>0, <2>1, AppendShape
  <2>. QED BY <2>2, <2>3, <2>4
<1>5. shelf' \in [Route -> Nat] /\ shelf'[routeOf[s]] = made + 1
      /\ \A r \in Route : r # routeOf[s] => shelf'[r] = shelf[r]
  BY <1>0 DEF StoreShape
<1>6. StoreShape'
  <2>1. set' \in [Setter -> SetRecord]
    BY <1>0, <1>1 DEF StoreShape
  <2>2. made' \in Nat /\ gone' \subseteq Directory'
    BY <1>0 DEF StoreShape
  <2>. QED BY <1>0, <2>1, <2>2, <1>2, <1>3, <1>4, <1>5 DEF StoreShape
<1>7. Shelves'
  <2>1. ASSUME NEW r \in Route, shelf'[r] # 0
        PROVE  /\ shelf'[r] \in Directory' \ gone' /\ grave'[shelf'[r]] = {}
               /\ \A t \in entry'[shelf'[r]] : routeOf'[t] = r
    BY <1>0, <1>2, <1>4, <1>5, <2>1 DEF StoreInv, StoreShape, Shelves
  <2>2. ASSUME NEW r \in Route, NEW q \in Route, shelf'[r] # 0, shelf'[r] = shelf'[q] PROVE r = q
    BY <1>0, <1>5, <2>2 DEF StoreInv, Shelves
  <2>3. ASSUME NEW d \in Directory', grave'[d] = {} PROVE \E r \in Route : shelf'[r] = d
    <3>1. CASE d = made + 1
      BY <3>1, <1>0, <1>5
    <3>2. CASE d # made + 1
      <4>1. d \in Directory /\ grave[d] = {}
        BY <3>2, <1>0, <1>4, <2>3
      <4>2. PICK r \in Route : shelf[r] = d
        BY <4>1 DEF StoreInv, Shelves
      <4>3. r # routeOf[s]
        BY <4>1, <4>2, <1>0
      <4>. QED BY <4>2, <4>3, <1>5
    <3>. QED BY <3>1, <3>2
  <2>4. \A d \in gone' : entry'[d] = {}
    BY <1>0, <1>2 DEF StoreInv, StoreShape, Shelves
  <2>. QED BY <2>1, <2>2, <2>3, <2>4 DEF Shelves
<1>8. ASSUME NEW r \in Route PROVE Visible(r)' = Visible(r)
  BY <1>0, <1>2, <1>5 DEF Visible, StoreInv, Shelves
<1>9. ASSUME NEW t \in Setter PROVE SetOK(t)'
  <2>1. CASE t = s
    BY <2>1, <1>1 DEF StoreInv, SetOK
  <2>2. CASE t # s
    <3>1. set'[t] = set[t] /\ routeOf[t] \in Route /\ set[t] \in SetRecord
      BY <2>2, <1>0, <1>1 DEF StoreShape
    <3>2. set'[t].state = "resolved" =>
            /\ set'[t].to \in Directory'
            /\ \A r \in Route : shelf'[r] = set'[t].to => r = routeOf'[t]
            /\ burials'[routeOf'[t]] = set'[t].since => shelf'[routeOf'[t]] = set'[t].to
      BY <1>0, <1>5, <3>1 DEF StoreInv, SetOK
    <3>. QED BY <1>0, <1>8, <3>1, <3>2 DEF StoreInv, SetOK
  <2>. QED BY <2>1, <2>2
<1>10. ASSUME NEW c \in Clearer PROVE TombOK(c)'
  BY <1>0, <1>4 DEF StoreInv, TombOK
<1>11. ASSUME NEW c \in Clearer PROVE ClearOK(c)'
  <2>1. \A t \in clear[c].stored : t \in Setter /\ set'[t] = set[t] /\ routeOf[t] \in Route
    BY <1>0, <1>1 DEF StoreInv, StoreShape, ClearOK, ClearRecord
  <2>. QED BY <2>1, <1>8 DEF StoreInv, ClearOK, Current
<1>. QED BY <1>6, <1>7, <1>9, <1>10, <1>11 DEF StoreInv

LEMMA MakeDirectoryKeeps ==
    ASSUME StoreInv, NEW s \in Setter, MakeDirectory(s), UNCHANGED routeOf
    PROVE  StoreInv'
<1>1. CASE ToSet(s, "made") /\ UNCHANGED <<disk, clear, kills>>
  <2>0. StoreShape /\ ToSet(s, "made")
    BY <1>1 DEF StoreInv
  <2>1. /\ set' = [set EXCEPT ![s] = set'[s]] /\ set'[s] \in SetRecord
        /\ set'[s].state = "made" /\ set'[s].since = set[s].since
    BY ONLY <2>0, ToSetShape
  <2>2. SetOK(s)'
    BY <2>1 DEF StoreInv, SetOK, MakeDirectory
  <2>3. draft' \in [Directory -> SUBSET Setter]
    BY <1>1 DEF StoreInv, StoreShape, disk
  <2>. QED BY <1>1, <2>1, <2>2, <2>3, SetMovesOn DEF MakeDirectory, disk
<1>2. CASE FailSet(s)
  BY <1>2, FailSetKeeps DEF MakeDirectory
<1>. QED BY <1>1, <1>2, NewDirectoryKeeps DEF MakeDirectory

LEMMA StageEntryKeeps ==
    ASSUME StoreInv, NEW s \in Setter, StageEntry(s), UNCHANGED routeOf
    PROVE  StoreInv'
<1>0. StoreShape /\ routeOf[s] \in Route /\ set[s].state # "stored"
  BY DEF StoreInv, StoreShape, StageEntry
<1>1. CASE /\ shelf[routeOf[s]] # 0
           /\ set' = [set EXCEPT ![s] = [state |-> "staged", at |-> shelf[routeOf[s]], to |-> 0, since |-> 0]]
           /\ draft' = [draft EXCEPT ![shelf[routeOf[s]]] = @ \cup {s}]
           /\ UNCHANGED <<shelf, made, entry, grave, gone, clear, burials, kills>>
  <2>1. set'[s] = [state |-> "staged", at |-> shelf[routeOf[s]], to |-> 0, since |-> 0]
    BY <1>0, <1>1 DEF StoreShape
  <2>2. set' = [set EXCEPT ![s] = set'[s]] /\ set'[s] \in SetRecord
    BY <1>0, <1>1, <2>1 DEF StoreShape, SetRecord
  <2>3. shelf[routeOf[s]] \in Directory
    BY <1>0, <1>1 DEF StoreInv, Shelves
  <2>4. SetOK(s)'
    BY <1>1, <2>1, <2>3 DEF SetOK, Directory
  <2>5. draft' \in [Directory -> SUBSET Setter]
    BY <1>0, <1>1 DEF StoreShape
  <2>. QED BY <1>0, <1>1, <2>2, <2>4, <2>5, SetMovesOn
<1>. QED BY <1>0, <1>1, FailSetKeeps DEF StageEntry

LEMMA ResolveCandidateKeeps ==
    ASSUME StoreInv, NEW s \in Setter, ResolveCandidate(s), UNCHANGED routeOf
    PROVE  StoreInv'
<1>0. StoreShape /\ set[s].state = "staged"
  BY DEF StoreInv, ResolveCandidate
<1>1. CASE ToSet(s, "found") /\ UNCHANGED <<disk, clear, kills>>
  <2>1. /\ set' = [set EXCEPT ![s] = set'[s]] /\ set'[s] \in SetRecord
        /\ set'[s].state = "found" /\ set'[s].at = set[s].at /\ set'[s].since = set[s].since
    BY ONLY <1>0, <1>1, ToSetShape
  <2>2. SetOK(s)'
    BY <1>0, <1>1, <2>1 DEF StoreInv, SetOK, Directory, disk
  <2>3. draft' \in [Directory -> SUBSET Setter]
    BY <1>0, <1>1 DEF StoreShape, disk
  <2>. QED BY <1>0, <1>1, <2>1, <2>2, <2>3, SetMovesOn DEF disk
<1>. QED BY <1>0, <1>1, FailSetKeeps DEF ResolveCandidate

LEMMA ResolveTargetKeeps ==
    ASSUME StoreInv, NEW s \in Setter, ResolveTarget(s), UNCHANGED routeOf
    PROVE  StoreInv'
<1>0. StoreShape /\ routeOf[s] \in Route /\ set[s].state = "found"
  BY DEF StoreInv, StoreShape, ResolveTarget
<1>1. CASE /\ shelf[routeOf[s]] # 0
           /\ set' = [set EXCEPT ![s] = [state |-> "resolved", at |-> set[s].at, to |-> shelf[routeOf[s]],
                                         since |-> burials[routeOf[s]]]]
           /\ UNCHANGED <<disk, clear, kills>>
  <2>1. set'[s] = [state |-> "resolved", at |-> set[s].at, to |-> shelf[routeOf[s]],
                   since |-> burials[routeOf[s]]]
    BY <1>0, <1>1 DEF StoreShape
  <2>2. set' = [set EXCEPT ![s] = set'[s]] /\ set'[s] \in SetRecord
    BY <1>0, <1>1, <2>1 DEF StoreShape, SetRecord
  <2>3. /\ shelf[routeOf[s]] \in Directory /\ set[s].at \in Directory
        /\ \A r \in Route : shelf[r] = shelf[routeOf[s]] => r = routeOf[s]
    BY <1>0, <1>1 DEF StoreInv, Shelves, SetOK
  <2>4. SetOK(s)'
    BY <1>0, <1>1, <2>1, <2>3 DEF SetOK, Directory, StoreShape, disk
  <2>5. draft' \in [Directory -> SUBSET Setter]
    BY <1>0, <1>1 DEF StoreShape, disk
  <2>. QED BY <1>0, <1>1, <2>2, <2>4, <2>5, SetMovesOn DEF disk
<1>. QED BY <1>0, <1>1, FailSetKeeps DEF ResolveTarget

LEMMA SyncEntryKeeps ==
    ASSUME StoreInv, NEW s \in Setter, SyncEntry(s), UNCHANGED routeOf
    PROVE  StoreInv'
<1>0. StoreShape /\ set[s].state = "renamed" /\ UNCHANGED <<disk, clear, kills>>
  BY DEF StoreInv, SyncEntry
<1>1. draft' \in [Directory -> SUBSET Setter]
  BY <1>0 DEF StoreShape, disk
<1>2. CASE set' = [set EXCEPT ![s] = [state |-> "stored", at |-> 0, to |-> 0, since |-> set[s].since]]
  <2>1. set'[s] = [state |-> "stored", at |-> 0, to |-> 0, since |-> set[s].since]
    BY <1>0, <1>2 DEF StoreShape
  <2>2. set' = [set EXCEPT ![s] = set'[s]] /\ set'[s] \in SetRecord
    BY <1>0, <1>2, <2>1 DEF StoreShape, SetRecord
  <2>3. SetOK(s)'
    BY <1>0, <2>1 DEF StoreInv, SetOK, Visible, disk
  <2>. QED BY <1>0, <1>1, <2>2, <2>3, SetMovesOn DEF disk
<1>3. CASE EndSet(s, "unsynced")
  BY <1>0, <1>1, <1>3, SetEnds DEF disk
<1>. QED BY <1>2, <1>3 DEF SyncEntry

(* The rename puts the response into the directory that was looked up,     *)
(* wherever that directory is by then.                                     *)
LEMMA RenameKeeps ==
    ASSUME StoreInv, NEW s \in Setter, set[s].state = "resolved",
           set[s].to \notin gone, ToSet(s, "renamed"),
           draft' = [draft EXCEPT ![set[s].at] = @ \ {s}],
           entry' = [entry EXCEPT ![set[s].to] = @ \cup {s}],
           UNCHANGED <<routeOf, shelf, made, grave, gone, clear, burials>>
    PROVE  StoreInv'
<1> USE DEF Directory
<1>0. /\ StoreShape /\ routeOf[s] \in Route /\ set[s] \in SetRecord
      /\ set[s].to \in Directory /\ set[s].at \in Directory
  BY DEF StoreInv, StoreShape, SetOK
<1>1. /\ set' = [set EXCEPT ![s] = set'[s]] /\ set'[s] \in SetRecord
      /\ set'[s].state = "renamed" /\ set'[s].since = set[s].since
  BY ONLY ToSet(s, "renamed"), <1>0, ToSetShape
<1>2. /\ entry' \in [Directory -> SUBSET Setter]
      /\ entry'[set[s].to] = entry[set[s].to] \cup {s}
      /\ \A d \in Directory : d # set[s].to => entry'[d] = entry[d]
  BY <1>0 DEF StoreShape
<1>3. StoreShape'
  <2>1. set' \in [Setter -> SetRecord]
    BY <1>0, <1>1 DEF StoreShape
  <2>2. draft' \in [Directory -> SUBSET Setter]
    BY <1>0 DEF StoreShape
  <2>. QED BY <1>0, <1>2, <2>1, <2>2 DEF StoreShape
<1>4. Shelves'
  <2>1. ASSUME NEW r \in Route, shelf[r] # 0 PROVE \A t \in entry'[shelf[r]] : routeOf[t] = r
    BY <1>0, <1>2, <2>1 DEF StoreInv, Shelves, SetOK
  <2>2. \A d \in gone : entry'[d] = {}
    BY <1>0, <1>2 DEF StoreInv, Shelves, StoreShape
  <2>. QED BY <2>1, <2>2 DEF StoreInv, Shelves
<1>5. ASSUME NEW r \in Route
      PROVE  Visible(r) \subseteq Visible(r)' /\ Visible(r)' \subseteq Visible(r) \cup {s}
  BY <1>0, <1>2 DEF Visible, StoreInv, Shelves
<1>6. ASSUME NEW t \in Setter PROVE SetOK(t)'
  <2>1. CASE t = s
    <3>1. burials[routeOf[s]] = set[s].since => s \in Visible(routeOf[s])'
      BY <1>0, <1>2 DEF StoreInv, SetOK, Visible
    <3>. QED BY <1>0, <1>1, <2>1, <3>1 DEF StoreInv, SetOK
  <2>2. CASE t # s
    <3>1. set'[t] = set[t] /\ routeOf[t] \in Route
      BY <2>2, <1>0, <1>1 DEF StoreShape
    <3>. QED BY <1>5, <3>1 DEF StoreInv, SetOK
  <2>. QED BY <2>1, <2>2
<1>7. ASSUME NEW c \in Clearer PROVE TombOK(c)'
  BY DEF StoreInv, TombOK
<1>8. ASSUME NEW c \in Clearer PROVE ClearOK(c)'
  <2>1. \A t \in clear[c].stored : t \in Setter /\ t # s /\ set'[t] = set[t] /\ routeOf[t] \in Route
    BY <1>0, <1>1 DEF StoreInv, StoreShape, ClearOK, ClearRecord
  <2>. QED BY <2>1, <1>5 DEF StoreInv, ClearOK, Current
<1>. QED BY <1>3, <1>4, <1>6, <1>7, <1>8 DEF StoreInv

LEMMA RenameEntryKeeps ==
    ASSUME StoreInv, NEW s \in Setter, RenameEntry(s), UNCHANGED routeOf
    PROVE  StoreInv'
BY RenameKeeps, FailSetKeeps DEF RenameEntry

LEMMA ClearEnds ==
    ASSUME StoreShape, NEW c \in Clearer, NEW state \in {"failed", "dead"}, EndClear(c, state)
    PROVE  /\ clear' = [clear EXCEPT ![c] = clear'[c]] /\ clear'[c] \in ClearRecord
           /\ clear'[c].state = state /\ clear'[c].stored = {}
<1>1. clear'[c] = [state |-> state, routes |-> {}, stored |-> {}]
  BY DEF EndClear, Unasked, StoreShape
<1>. QED BY <1>1 DEF EndClear, Unasked, ClearRecord, StoreShape

LEMMA ToClearShape ==
    ASSUME StoreShape, NEW c \in Clearer, NEW state \in {"seen", "buried", "cleared"}, ToClear(c, state)
    PROVE  /\ clear' = [clear EXCEPT ![c] = clear'[c]] /\ clear'[c] \in ClearRecord
           /\ clear'[c].state = state /\ clear'[c].routes = clear[c].routes
           /\ clear'[c].stored = clear[c].stored
BY DEF ToClear, StoreShape, ClearRecord

(* What NextRoute does, whatever was removed before it.                    *)
LEMMA NextRouteShape ==
    ASSUME StoreShape, NEW c \in Clearer, NextRoute(c)
    PROVE  /\ clear' = [clear EXCEPT ![c] = clear'[c]] /\ clear'[c] \in ClearRecord
           /\ \/ /\ clear'[c].state = "listed" /\ clear'[c].stored = clear[c].stored
                 /\ clear'[c].routes = clear[c].routes \ {Current(c)}
              \/ clear'[c].state = "failed" /\ clear'[c].stored = {}
<1>1. CASE clear' = [clear EXCEPT ![c] = [state |-> "listed", routes |-> clear[c].routes \ {Current(c)},
                                         stored |-> clear[c].stored]]
  <2>1. clear'[c] = [state |-> "listed", routes |-> clear[c].routes \ {Current(c)},
                     stored |-> clear[c].stored]
    BY <1>1 DEF StoreShape
  <2>2. clear'[c] \in ClearRecord
    BY <2>1 DEF StoreShape, ClearRecord
  <2>3. clear' = [clear EXCEPT ![c] = clear'[c]]
    BY <1>1, <2>1 DEF StoreShape
  <2>4. clear'[c].state = "listed"
    BY ONLY <2>1
  <2>5. clear'[c].stored = clear[c].stored
    BY ONLY <2>1
  <2>6. clear'[c].routes = clear[c].routes \ {Current(c)}
    BY ONLY <2>1
  <2>. QED BY <2>2, <2>3, <2>4, <2>5, <2>6
<1>2. CASE EndClear(c, "failed")
  BY <1>2, ClearEnds
<1>. QED BY <1>1, <1>2 DEF NextRoute

LEMMA ListRoutesKeeps ==
    ASSUME StoreInv, NEW c \in Clearer, ListRoutes(c), UNCHANGED routeOf
    PROVE  StoreInv'
<1>0. StoreShape /\ clear[c].state = "idle" /\ UNCHANGED <<disk, set, kills>>
  BY DEF StoreInv, ListRoutes
<1>1. clear'[c] = [state  |-> "listed",
                   routes |-> {r \in Route : shelf[r] # 0 \/ burials[r] > 0},
                   stored |-> {s \in Setter : set[s].state = "stored"}]
  BY <1>0 DEF ListRoutes, StoreShape
<1>2. clear' = [clear EXCEPT ![c] = clear'[c]] /\ clear'[c] \in ClearRecord
  <2>1. clear' = [clear EXCEPT ![c] = clear'[c]]
    BY <1>0, <1>1 DEF ListRoutes, StoreShape
  <2>. QED BY <1>1, <2>1 DEF ClearRecord
<1>3. TombOK(c)'
  BY <1>0, <1>1 DEF StoreInv, TombOK, Directory, disk
<1>4. ClearOK(c)'
  BY <1>0, <1>1 DEF ClearOK, Visible, StoreShape, disk
<1>. QED BY <1>0, <1>2, <1>3, <1>4, ClearMovesOn

LEMMA LookUpKeeps ==
    ASSUME StoreInv, NEW c \in Clearer, LookUp(c), UNCHANGED routeOf
    PROVE  StoreInv'
<1>0. /\ StoreShape /\ clear[c].state = "listed" /\ clear[c].routes # {}
      /\ UNCHANGED <<disk, set, kills>> /\ clear[c].stored \subseteq Setter
  BY DEF StoreInv, LookUp, StoreShape, ClearRecord
<1>1. \A d \in Directory \ gone : c \notin grave[d]
  BY <1>0 DEF StoreInv, TombOK
<1>2. TombOK(c)'
  BY <1>0, <1>1 DEF TombOK, Directory, disk
<1>3. \A r \in Route : Visible(r)' = Visible(r)
  BY <1>0 DEF Visible, disk
<1>4. /\ \A s \in clear[c].stored : set'[s].state = "stored"
      /\ \A s \in clear[c].stored : s \in Visible(routeOf[s])' => routeOf[s] \in clear[c].routes
  BY <1>0, <1>3 DEF StoreInv, ClearOK, StoreShape
<1>5. CASE shelf[Current(c)] # 0 /\ ToClear(c, "seen")
  <2>1. /\ clear' = [clear EXCEPT ![c] = clear'[c]] /\ clear'[c] \in ClearRecord
        /\ clear'[c].state = "seen" /\ clear'[c].routes = clear[c].routes
        /\ clear'[c].stored = clear[c].stored
    BY ONLY <1>0, <1>5, ToClearShape
  <2>2. ClearOK(c)'
    BY <1>0, <1>4, <2>1 DEF ClearOK
  <2>. QED BY <1>0, <1>2, <2>1, <2>2, ClearMovesOn
<1>6. CASE shelf[Current(c)] = 0 /\ NextRoute(c)
  <2>1. /\ clear' = [clear EXCEPT ![c] = clear'[c]] /\ clear'[c] \in ClearRecord
        /\ \/ /\ clear'[c].state = "listed" /\ clear'[c].stored = clear[c].stored
              /\ clear'[c].routes = clear[c].routes \ {Current(c)}
           \/ clear'[c].state = "failed" /\ clear'[c].stored = {}
    BY ONLY <1>0, <1>6, NextRouteShape
  <2>2. \A s \in clear[c].stored : s \in Visible(routeOf[s])' => routeOf[s] # Current(c)
    BY <1>0, <1>3, <1>6 DEF Visible, StoreShape
  <2>3. ClearOK(c)'
    BY <1>0, <1>4, <2>1, <2>2 DEF ClearOK
  <2>. QED BY <1>0, <1>2, <2>1, <2>3, ClearMovesOn
<1>. QED BY <1>5, <1>6 DEF LookUp

LEMMA ClearReturnsKeeps ==
    ASSUME StoreInv, NEW c \in Clearer, ClearReturns(c), UNCHANGED routeOf
    PROVE  StoreInv'
<1>0. /\ StoreShape /\ clear[c].state = "listed" /\ clear[c].routes = {}
      /\ UNCHANGED <<disk, set, kills>> /\ ToClear(c, "cleared")
  BY DEF StoreInv, ClearReturns
<1>1. /\ clear' = [clear EXCEPT ![c] = clear'[c]] /\ clear'[c] \in ClearRecord
      /\ clear'[c].state = "cleared" /\ clear'[c].routes = clear[c].routes
      /\ clear'[c].stored = clear[c].stored
  BY ONLY <1>0, ToClearShape
<1>2. TombOK(c)'
  BY <1>0 DEF StoreInv, TombOK, Directory, disk
<1>3. ClearOK(c)'
  BY <1>0, <1>1 DEF StoreInv, ClearOK, Visible, disk
<1>. QED BY <1>0, <1>1, <1>2, <1>3, ClearMovesOn

(* A Clear that ends with an error or dies; a tombstone of it may remain.  *)
LEMMA ClearGivesUp ==
    ASSUME StoreInv, NEW c \in Clearer, NEW state \in {"failed", "dead"}, EndClear(c, state),
           UNCHANGED <<routeOf, disk, set>>
    PROVE  StoreInv'
<1>1. /\ clear' = [clear EXCEPT ![c] = clear'[c]] /\ clear'[c] \in ClearRecord
      /\ clear'[c].state = state /\ clear'[c].stored = {}
  BY ClearEnds DEF StoreInv
<1>2. TombOK(c)' /\ ClearOK(c)'
  BY <1>1 DEF TombOK, ClearOK
<1>. QED BY <1>1, <1>2, ClearMovesOn

LEMMA DiesKeeps ==
    ASSUME StoreInv, Dies, UNCHANGED routeOf
    PROVE  StoreInv'
<1>1. ASSUME NEW s \in Setter, SetUnderWay(s), EndSet(s, "dead"), UNCHANGED <<disk, clear>>
      PROVE  StoreInv'
  <2>1. set[s].state # "stored" /\ draft' \in [Directory -> SUBSET Setter]
    BY <1>1 DEF SetUnderWay, StoreInv, StoreShape, disk
  <2>. QED BY <1>1, <2>1, SetEnds DEF disk
<1>2. ASSUME NEW c \in Clearer, EndClear(c, "dead"), UNCHANGED <<disk, set>>
      PROVE  StoreInv'
  BY <1>2, ClearGivesUp
<1>. QED BY <1>1, <1>2 DEF Dies

(* The directory of a route leaves its shelf for the grave of a Clear.     *)
LEMMA BuryKeeps ==
    ASSUME StoreInv, NEW c \in Clearer, Bury(c), UNCHANGED routeOf
    PROVE  StoreInv'
<1>0. PICK r \in Route :
         /\ StoreShape /\ clear[c].state = "seen"
         /\ r = Current(c) /\ r = Lowest(clear[c].routes)
         /\ UNCHANGED <<made, entry, draft, gone, set, kills>>
  <2>1. StoreShape /\ clear[c].state = "seen" /\ clear[c].routes # {}
    BY DEF StoreInv, Bury, ClearOK
  <2>. QED BY <2>1, CurrentIsRoute DEF Bury
<1>1. CASE EndClear(c, "failed") /\ UNCHANGED <<shelf, grave, burials>>
  BY <1>0, <1>1, ClearGivesUp DEF disk
<1>2. CASE /\ shelf[r] # 0 /\ ToClear(c, "buried")
           /\ grave' = [grave EXCEPT ![shelf[r]] = {c}]
           /\ shelf' = [shelf EXCEPT ![r] = 0] /\ burials' = [burials EXCEPT ![r] = @ + 1]
  <2>1. /\ clear' = [clear EXCEPT ![c] = clear'[c]] /\ clear'[c] \in ClearRecord
        /\ clear'[c].state = "buried" /\ clear'[c].routes = clear[c].routes
        /\ clear'[c].stored = clear[c].stored
    BY ONLY <1>0, <1>2, ToClearShape
  <2>2. /\ shelf[r] \in Directory \ gone /\ grave[shelf[r]] = {}
        /\ \A q \in Route : shelf[q] = shelf[r] => q = r
    BY <1>0, <1>2 DEF StoreInv, Shelves
  <2>3. /\ shelf' \in [Route -> Nat] /\ shelf'[r] = 0
        /\ \A q \in Route : q # r => shelf'[q] = shelf[q]
    BY <1>0, <1>2 DEF StoreShape
  <2>4. /\ grave' \in [Directory -> SUBSET Clearer] /\ grave'[shelf[r]] = {c}
        /\ \A d \in Directory : d # shelf[r] => grave'[d] = grave[d]
    BY <1>0, <1>2, <2>2 DEF StoreShape
  <2>5. /\ burials' \in [Route -> Nat] /\ burials'[r] = burials[r] + 1
        /\ \A q \in Route : q # r => burials'[q] = burials[q]
    BY <1>0, <1>2 DEF StoreShape
  <2>6. StoreShape'
    <3>1. clear' \in [Clearer -> ClearRecord]
      BY <1>0, <2>1 DEF StoreShape
    <3>. QED BY <1>0, <2>3, <2>4, <2>5, <3>1 DEF StoreShape, Directory
  <2>7. Shelves'
    <3>1. ASSUME NEW q \in Route, shelf'[q] # 0
          PROVE  /\ shelf'[q] \in Directory \ gone /\ grave'[shelf'[q]] = {}
                 /\ \A s \in entry[shelf'[q]] : routeOf[s] = q
                 /\ \A p \in Route : shelf'[q] = shelf'[p] => q = p
      BY <1>0, <2>2, <2>3, <2>4, <3>1 DEF StoreInv, Shelves
    <3>2. ASSUME NEW d \in Directory, grave'[d] = {} PROVE \E q \in Route : shelf'[q] = d
      <4>1. d # shelf[r] /\ grave[d] = {}
        BY <2>4, <3>2
      <4>2. PICK q \in Route : shelf[q] = d
        BY <4>1 DEF StoreInv, Shelves
      <4>. QED BY <4>1, <4>2, <2>3
    <3>3. \A d \in gone : entry[d] = {}
      BY DEF StoreInv, Shelves
    <3>. QED BY <1>0, <3>1, <3>2, <3>3 DEF Shelves, Directory
  <2>8. /\ Visible(r)' = {}
        /\ \A q \in Route : q # r => Visible(q)' = Visible(q)
    BY <1>0, <2>3 DEF Visible
  <2>9. ASSUME NEW s \in Setter PROVE SetOK(s)'
    <3>0. routeOf[s] \in Route /\ set[s] \in SetRecord /\ burials[routeOf[s]] \in Nat /\ set[s].since \in Nat
      BY <1>0 DEF StoreShape, SetRecord
    <3>1. CASE routeOf[s] = r
      <4>1. set[s].state \in {"resolved", "renamed", "stored"} =>
              set[s].since <= burials'[r] /\ burials'[r] # set[s].since
        BY <3>0, <3>1, <2>5 DEF StoreInv, SetOK
      <4>2. set[s].state = "resolved" =>
              \A q \in Route : shelf'[q] = set[s].to => q = routeOf[s]
        BY <3>0, <2>3 DEF StoreInv, SetOK, Directory
      <4>. QED BY <1>0, <3>1, <4>1, <4>2 DEF StoreInv, SetOK, Directory
    <3>2. CASE routeOf[s] # r
      <4>1. set[s].state = "resolved" =>
              \A q \in Route : shelf'[q] = set[s].to => q = routeOf[s]
        BY <3>0, <2>3 DEF StoreInv, SetOK, Directory
      <4>. QED BY <1>0, <3>0, <3>2, <4>1, <2>3, <2>5, <2>8 DEF StoreInv, SetOK, Directory
    <3>. QED BY <3>1, <3>2
  <2>10. ASSUME NEW o \in Clearer PROVE TombOK(o)'
    <3>1. CASE o = c
      BY <2>1, <3>1 DEF TombOK
    <3>2. CASE o # c
      <4>1. clear'[o] = clear[o]
        BY <1>0, <2>1, <3>2 DEF StoreShape
      <4>. QED BY <1>0, <3>2, <4>1, <2>4 DEF StoreInv, TombOK, Directory
    <3>. QED BY <3>1, <3>2
  <2>11. ASSUME NEW o \in Clearer PROVE ClearOK(o)'
    <3>a. clear[o].stored \subseteq Setter
      BY <1>0 DEF StoreShape, ClearRecord
    <3>b. \A s \in clear[o].stored : routeOf[s] \in Route
      BY <1>0, <3>a DEF StoreShape
    <3>0. /\ clear[o].stored \subseteq Setter
          /\ \A s \in clear[o].stored : routeOf[s] \in Route
          /\ \A s \in clear[o].stored : s \in Visible(routeOf[s])' =>
                routeOf[s] # r /\ s \in Visible(routeOf[s])
      BY <1>0, <2>8, <3>a, <3>b
    <3>1. CASE o = c
      <4>1. Current(c)' = r
        BY <1>0, <2>1, <2>6 DEF Current
      <4>. QED BY <1>0, <2>1, <3>0, <3>1, <4>1 DEF StoreInv, ClearOK
    <3>2. CASE o # c
      <4>1. clear'[o] = clear[o]
        BY <1>0, <2>1, <3>2 DEF StoreShape
      <4>. QED BY <1>0, <3>0, <3>2, <4>1 DEF StoreInv, ClearOK, Current
    <3>. QED BY <3>1, <3>2
  <2>. QED BY <2>6, <2>7, <2>9, <2>10, <2>11 DEF StoreInv
<1>. QED BY <1>0, <1>1, <1>2 DEF Bury

(* Whatever RemoveAll takes is taken from the tombstone of the Clear, and  *)
(* nothing is left of it when the Clear goes on.                           *)
LEMMA RemovalKeeps ==
    ASSUME StoreInv, NEW c \in Clearer, clear[c].state = "buried",
           entry' \in [Directory -> SUBSET Setter], draft' \in [Directory -> SUBSET Setter],
           \A d \in Directory \ Tomb(c) : entry'[d] = entry[d],
           gone' \in SUBSET Directory, \A d \in gone' \ gone : d \in Tomb(c),
           gone \subseteq gone', \A d \in gone' : entry'[d] = {},
           clear' = [clear EXCEPT ![c] = clear'[c]], clear'[c] \in ClearRecord,
           \/ /\ clear'[c].state = "listed" /\ clear'[c].stored = clear[c].stored
              /\ clear'[c].routes = clear[c].routes \ {Current(c)} /\ Tomb(c) \subseteq gone'
           \/ clear'[c].state = "failed" /\ clear'[c].stored = {},
           UNCHANGED <<routeOf, shelf, made, grave, set, burials>>
    PROVE  StoreInv'
<1> USE DEF Directory
<1>0. StoreShape
  BY DEF StoreInv
<1>1. StoreShape'
  <2>1. clear' \in [Clearer -> ClearRecord]
    BY <1>0 DEF StoreShape
  <2>. QED BY <1>0, <2>1 DEF StoreShape
<1>2. ASSUME NEW r \in Route, shelf[r] # 0
      PROVE  shelf[r] \in Directory \ gone' /\ shelf[r] \notin Tomb(c) /\ entry'[shelf[r]] = entry[shelf[r]]
  BY <1>2 DEF StoreInv, Shelves, Tomb
<1>3. Shelves'
  <2>1. ASSUME NEW r \in Route, shelf[r] # 0
        PROVE  /\ shelf[r] \in Directory \ gone' /\ grave[shelf[r]] = {}
               /\ \A s \in entry'[shelf[r]] : routeOf[s] = r
    BY <1>2, <2>1 DEF StoreInv, Shelves
  <2>2. /\ \A r, q \in Route : shelf[r] # 0 /\ shelf[r] = shelf[q] => r = q
        /\ \A d \in Directory : grave[d] = {} => \E r \in Route : shelf[r] = d
    BY DEF StoreInv, Shelves
  <2>. QED BY <2>1, <2>2 DEF Shelves
<1>4. ASSUME NEW r \in Route PROVE Visible(r)' = Visible(r)
  BY <1>2 DEF Visible
<1>5. ASSUME NEW s \in Setter PROVE SetOK(s)'
  <2>1. routeOf[s] \in Route
    BY <1>0 DEF StoreShape
  <2>. QED BY <1>4, <2>1 DEF StoreInv, SetOK
<1>6. ASSUME NEW o \in Clearer PROVE TombOK(o)'
  <2>1. CASE o = c
    <3>1. CASE Tomb(c) \subseteq gone'
      BY <2>1, <3>1 DEF TombOK, Tomb
    <3>2. CASE clear'[c].state = "failed"
      BY <2>1, <3>2 DEF TombOK
    <3>. QED BY <3>1, <3>2
  <2>2. CASE o # c
    <3>1. clear'[o] = clear[o]
      BY <1>0, <2>2 DEF StoreShape
    <3>. QED BY <3>1 DEF StoreInv, TombOK
  <2>. QED BY <2>1, <2>2
<1>7. ASSUME NEW o \in Clearer PROVE ClearOK(o)'
  <2>a. clear[o].stored \subseteq Setter
    BY <1>0 DEF StoreShape, ClearRecord
  <2>b. \A s \in clear[o].stored : Visible(routeOf[s])' = Visible(routeOf[s])
    BY <1>0, <1>4, <2>a DEF StoreShape
  <2>1. CASE o = c
    <3>1. CASE clear'[c].state = "failed" /\ clear'[c].stored = {}
      BY <2>1, <3>1 DEF ClearOK
    <3>2. CASE /\ clear'[c].state = "listed" /\ clear'[c].stored = clear[c].stored
               /\ clear'[c].routes = clear[c].routes \ {Current(c)}
      BY <2>1, <3>2, <2>b DEF StoreInv, ClearOK
    <3>. QED BY <3>1, <3>2
  <2>2. CASE o # c
    <3>1. clear'[o] = clear[o]
      BY <1>0, <2>2 DEF StoreShape
    <3>. QED BY <3>1, <2>b DEF StoreInv, ClearOK, Current
  <2>. QED BY <2>1, <2>2
<1>. QED BY <1>1, <1>3, <1>5, <1>6, <1>7 DEF StoreInv

LEMMA RemoveTombKeeps ==
    ASSUME StoreInv, NEW c \in Clearer, RemoveTomb(c), UNCHANGED routeOf
    PROVE  StoreInv'
<1>0. /\ StoreShape /\ Shelves /\ clear[c].state = "buried" /\ Tomb(c) \in SUBSET Directory
      /\ UNCHANGED <<shelf, made, grave, set, burials>>
  BY DEF StoreInv, RemoveTomb, Tomb
<1>1. CASE RemoveDirectories(Tomb(c)) /\ NextRoute(c)
  <2> HIDE DEF Tomb
  <2>1. /\ clear' = [clear EXCEPT ![c] = clear'[c]] /\ clear'[c] \in ClearRecord
        /\ \/ /\ clear'[c].state = "listed" /\ clear'[c].stored = clear[c].stored
              /\ clear'[c].routes = clear[c].routes \ {Current(c)}
           \/ clear'[c].state = "failed" /\ clear'[c].stored = {}
    BY ONLY <1>0, <1>1, NextRouteShape
  <2>2. /\ entry' \in [Directory -> SUBSET Setter] /\ draft' \in [Directory -> SUBSET Setter]
        /\ \A d \in Directory \ Tomb(c) : entry'[d] = entry[d]
        /\ \A d \in Tomb(c) : entry'[d] = {}
    BY <1>0, <1>1 DEF RemoveDirectories, StoreShape
  <2>3. gone' = gone \cup Tomb(c) /\ gone \subseteq Directory
    BY <1>0, <1>1 DEF RemoveDirectories, StoreShape
  <2>4. \A d \in gone' : entry'[d] = {}
    BY <1>0, <2>2, <2>3 DEF Shelves
  <2>5. gone' \in SUBSET Directory /\ Tomb(c) \subseteq gone' /\ gone \subseteq gone'
        /\ \A d \in gone' \ gone : d \in Tomb(c)
    BY <1>0, <2>3
  <2>. QED BY <1>0, <2>1, <2>2, <2>4, <2>5, RemovalKeeps
<1>2. CASE RemovePartly(Tomb(c)) /\ EndClear(c, "failed")
  <2>1. /\ clear' = [clear EXCEPT ![c] = clear'[c]] /\ clear'[c] \in ClearRecord
        /\ clear'[c].state = "failed" /\ clear'[c].stored = {}
    BY ONLY <1>0, <1>2, ClearEnds
  <2>2. PICK kept \in [Tomb(c) -> SUBSET Setter] :
           entry' = [d \in Directory |-> IF d \in Tomb(c) THEN entry[d] \cap kept[d] ELSE entry[d]]
    BY <1>2 DEF RemovePartly
  <2>3. /\ entry' \in [Directory -> SUBSET Setter]
        /\ \A d \in Directory \ Tomb(c) : entry'[d] = entry[d]
        /\ \A d \in Directory : entry'[d] \subseteq entry[d]
    BY <1>0, <2>2 DEF StoreShape
  <2>4. gone' = gone /\ draft' = draft
    BY <1>2 DEF RemovePartly
  <2>5. draft' \in [Directory -> SUBSET Setter] /\ gone' \in SUBSET Directory
    BY <1>0, <2>4 DEF StoreShape
  <2>6. \A d \in gone' : entry'[d] = {}
    BY <1>0, <2>3, <2>4 DEF Shelves, StoreShape
  <2>. QED BY <1>0, <2>1, <2>3, <2>4, <2>5, <2>6, RemovalKeeps
<1>. QED BY <1>1, <1>2 DEF RemoveTomb

LEMMA StoreStepKeeps ==
    ASSUME StoreInv, [StoreNext]_storeVars
    PROVE  StoreInv'
<1>1. CASE StoreStep /\ UNCHANGED routeOf
  BY <1>1, DiesKeeps, MakeDirectoryKeeps, StageEntryKeeps, ResolveCandidateKeeps,
     ResolveTargetKeeps, RenameEntryKeeps, SyncEntryKeeps, ListRoutesKeeps, LookUpKeeps,
     BuryKeeps, RemoveTombKeeps, ClearReturnsKeeps
     DEF StoreStep
<1>2. CASE UNCHANGED storeVars
  <2> USE <1>2 DEF storeVars, Directory
  <2>1. StoreShape' /\ Shelves'
    BY DEF StoreInv, StoreShape, Shelves
  <2>2. ASSUME NEW s \in Setter PROVE SetOK(s)'
    BY DEF StoreInv, SetOK, Visible
  <2>3. ASSUME NEW c \in Clearer PROVE TombOK(c)' /\ ClearOK(c)'
    BY DEF StoreInv, TombOK, ClearOK, Visible, Current
  <2>. QED BY <2>1, <2>2, <2>3 DEF StoreInv
<1>. QED BY <1>1, <1>2 DEF StoreNext, AllReturned

LEMMA StoreInitHolds ==
    ASSUME StoreInit PROVE StoreInv
<1> USE DEF StoreInit, Directory
<1>1. StoreShape
  <2>1. routeOf \in [Setter -> Route]
    BY CacheStoreAssumption
  <2>2. /\ made \in Nat /\ shelf \in [Route -> Nat] /\ burials \in [Route -> Nat]
        /\ gone \subseteq Directory /\ Directory = {}
    OBVIOUS
  <2>3. /\ entry \in [Directory -> SUBSET Setter] /\ draft \in [Directory -> SUBSET Setter]
        /\ grave \in [Directory -> SUBSET Clearer]
    BY <2>2
  <2>4. set \in [Setter -> SetRecord]
    BY DEF SetRecord, Fresh
  <2>5. clear \in [Clearer -> ClearRecord]
    BY DEF ClearRecord, Unasked
  <2>. QED BY <2>1, <2>2, <2>3, <2>4, <2>5 DEF StoreShape
<1>2. Shelves
  BY DEF Shelves
<1>3. ASSUME NEW s \in Setter PROVE SetOK(s)
  BY DEF SetOK, Fresh
<1>4. ASSUME NEW c \in Clearer PROVE TombOK(c) /\ ClearOK(c)
  <2>1. TombOK(c)
    BY DEF TombOK
  <2>2. clear[c].state = "idle" /\ clear[c].stored = {}
    BY DEF Unasked
  <2>. QED BY <2>1, <2>2 DEF ClearOK
<1>. QED BY <1>1, <1>2, <1>3, <1>4 DEF StoreInv

(* Where every directory is, and what each Set and each Clear may rely on, *)
(* for any number of processes and routes and at any step of any of them.  *)
THEOREM StoreInvariant == StoreSpec => []StoreInv
BY StoreInitHolds, StoreStepKeeps, PTL DEF StoreSpec

LEMMA StoreInvIsTyped ==
    ASSUME StoreInv PROVE StoreTypeOK
<1>1. StoreShape /\ Shelves
  BY DEF StoreInv
<1>2. \A r \in Route : shelf[r] \in {0} \cup (Directory \ gone)
  BY <1>1 DEF Shelves
<1>3. \A d \in Directory : entry[d] \subseteq Setter /\ draft[d] \subseteq Setter
  BY <1>1 DEF StoreShape
<1>4. \A d \in Directory : grave[d] # {} => \A r \in Route : shelf[r] # d
  <2>1. ASSUME NEW r \in Route, shelf[r] \in Directory PROVE grave[shelf[r]] = {}
    <3>1. shelf[r] # 0
      BY <2>1 DEF Directory
    <3>. QED BY <1>1, <3>1 DEF Shelves
  <2>. QED BY <2>1
<1>5. \A s \in Setter : SetUnderWay(s) \/ set[s].state \in {"idle", "stored", "unsynced", "failed", "dead"}
  BY <1>1 DEF StoreShape, SetRecord, SetUnderWay
<1>6. \A c \in Clearer : ClearUnderWay(c) \/ clear[c].state \in {"idle", "cleared", "failed", "dead"}
  BY <1>1 DEF StoreShape, ClearRecord, ClearUnderWay
<1>. QED BY <1>2, <1>3, <1>4, <1>5, <1>6 DEF StoreTypeOK

LEMMA StoreInvIsExact ==
    ASSUME StoreInv PROVE ClearExact
<1>1. ClearSparesNewer
  BY DEF StoreInv, SetOK, ClearSparesNewer
<1>2. ASSUME NEW c \in Clearer, clear[c].state = "cleared",
             NEW d \in Directory, NEW s \in entry[d] \cap clear[c].stored
      PROVE  \E other \in grave[d] : clear[other].state # "cleared"
  <2>1. d \notin gone
    BY DEF StoreInv, Shelves
  <2>2. CASE grave[d] = {}
    <3>1. PICK r \in Route : shelf[r] = d
      BY <2>2 DEF StoreInv, Shelves
    <3>2. d # 0
      BY DEF StoreInv, StoreShape, Directory
    <3>3. routeOf[s] = r
      BY <3>1, <3>2 DEF StoreInv, Shelves
    <3>4. s \in Visible(routeOf[s])
      BY <3>1, <3>2, <3>3 DEF Visible
    <3>. QED BY <1>2, <3>4 DEF StoreInv, ClearOK
  <2>3. CASE grave[d] # {}
    <3>1. PICK other \in grave[d] : other \in Clearer
      BY <2>3 DEF StoreInv, StoreShape
    <3>2. clear[other].state \in {"buried", "failed", "dead"}
      BY <2>1, <3>1 DEF StoreInv, TombOK
    <3>. QED BY <3>2
  <2>. QED BY <2>2, <2>3
<1>3. ClearIsComplete
  BY <1>2 DEF ClearIsComplete
<1>. QED BY <1>1, <1>3 DEF ClearExact

(* A Clear that returns nil (clear.go) leaves nothing readable that was    *)
(* stored when it began, in any route, and a response whose Set returned   *)
(* nil stays readable until its route is cleared again.                    *)
THEOREM ClearIsExact == StoreSpec => [](StoreTypeOK /\ ClearExact)
BY StoreInvariant, StoreInvIsTyped, StoreInvIsExact, PTL

(* What the steps of each process do to the readable responses.            *)
LEMMA MakingShowsNothing ==
    ASSUME StoreInv, NEW s \in Setter, MakeDirectory(s), NEW r \in Route
    PROVE  Visible(r)' = Visible(r)
<1>0. routeOf[s] \in Route /\ made \in Nat /\ StoreShape /\ shelf \in [Route -> Nat]
  BY DEF StoreInv, StoreShape
<1>1. CASE /\ shelf[routeOf[s]] = 0 /\ shelf' = [shelf EXCEPT ![routeOf[s]] = made + 1]
           /\ entry' = Append(entry, {})
  <2>0. entry \in [1 .. made -> SUBSET Setter] /\ {} \in SUBSET Setter
    BY <1>0 DEF StoreShape, Directory
  <2>1. CASE r = routeOf[s]
    <3>1. shelf'[r] = made + 1 /\ made + 1 # 0
      BY <1>0, <1>1, <2>1
    <3>2. Append(entry, {})[made + 1] = {}
      BY ONLY <1>0, <2>0, AppendShape
    <3>. QED BY <1>1, <2>1, <3>1, <3>2 DEF Visible
  <2>2. CASE r # routeOf[s] /\ shelf[r] = 0
    BY <1>0, <1>1, <2>2 DEF Visible
  <2>3. CASE r # routeOf[s] /\ shelf[r] # 0
    <3>1. shelf'[r] = shelf[r] /\ shelf[r] \in 1 .. made
      BY <1>0, <1>1, <2>3 DEF StoreInv, Shelves, Directory
    <3>2. Append(entry, {})[shelf[r]] = entry[shelf[r]]
      BY ONLY <1>0, <2>0, <3>1, AppendShape
    <3>. QED BY <1>1, <3>1, <3>2 DEF Visible
  <2>. QED BY <2>1, <2>2, <2>3
<1>2. CASE UNCHANGED <<shelf, entry>>
  BY <1>2 DEF Visible
<1>. QED BY <1>1, <1>2 DEF MakeDirectory, FailSet, disk

LEMMA RenameShowsOne ==
    ASSUME StoreInv, NEW s \in Setter, set[s].state = "resolved",
           entry' = [entry EXCEPT ![set[s].to] = @ \cup {s}], UNCHANGED <<shelf, routeOf>>
    PROVE  \/ /\ \A r \in Route : r # routeOf[s] => Visible(r)' = Visible(r)
              /\ Visible(routeOf[s])' = Visible(routeOf[s]) \cup {s}
           \/ /\ set[s].since < burials[routeOf[s]]
              /\ \A r \in Route : Visible(r)' = Visible(r)
<1>0. /\ routeOf[s] \in Route /\ set[s].to \in Directory /\ set[s].to # 0
      /\ entry \in [Directory -> SUBSET Setter]
      /\ set[s].since \in Nat /\ burials[routeOf[s]] \in Nat
      /\ set[s].since <= burials[routeOf[s]]
  BY DEF StoreInv, StoreShape, SetOK, SetRecord, Directory
<1>1. ASSUME NEW r \in Route, shelf[r] # set[s].to PROVE Visible(r)' = Visible(r)
  BY <1>0, <1>1 DEF Visible
<1>2. \A r \in Route : shelf[r] = set[s].to => r = routeOf[s]
  BY DEF StoreInv, SetOK
<1>3. CASE shelf[routeOf[s]] = set[s].to
  <2>1. Visible(routeOf[s])' = Visible(routeOf[s]) \cup {s}
    BY <1>0, <1>3 DEF Visible
  <2>2. \A r \in Route : r # routeOf[s] => shelf[r] # set[s].to
    BY <1>2
  <2>. QED BY <1>1, <2>1, <2>2
<1>4. CASE shelf[routeOf[s]] # set[s].to
  <2>1. set[s].since # burials[routeOf[s]]
    BY <1>4 DEF StoreInv, SetOK
  <2>. QED BY <1>0, <1>1, <1>2, <1>4, <2>1
<1>. QED BY <1>3, <1>4

LEMMA BuryingHidesAll ==
    ASSUME StoreInv, NEW c \in Clearer, shelf' = [shelf EXCEPT ![Current(c)] = 0], entry' = entry,
           Current(c) \in Route, NEW r \in Route
    PROVE  Visible(r)' = IF r = Current(c) THEN {} ELSE Visible(r)
BY DEF Visible, StoreInv, StoreShape

LEMMA RemovalHidesNothing ==
    ASSUME StoreInv, NEW c \in Clearer, RemoveTomb(c), NEW r \in Route
    PROVE  Visible(r)' = Visible(r)
<1>1. shelf' = shelf
  BY DEF RemoveTomb
<1>2. CASE shelf[r] # 0
  <2>1. shelf[r] \in Directory \ Tomb(c)
    BY <1>2 DEF StoreInv, Shelves, Tomb
  <2>2. entry'[shelf[r]] = entry[shelf[r]]
    <3>1. CASE RemoveDirectories(Tomb(c))
      BY <2>1, <3>1 DEF RemoveDirectories
    <3>2. CASE RemovePartly(Tomb(c))
      BY <2>1, <3>2 DEF RemovePartly
    <3>. QED BY <3>1, <3>2 DEF RemoveTomb
  <2>. QED BY <1>1, <2>2 DEF Visible
<1>. QED BY <1>1, <1>2 DEF Visible

(* AtomicCache's variables under the mapping of CacheStore.                *)
Readable == [r \in Route |-> Visible(r)]
Stage    == [s \in Setter |-> Writing(s)]
Aimed    == [s \in Setter |-> set[s].since]
Stance   == [c \in Clearer |-> Wiping(c)]
Acked    == [c \in Clearer |-> clear[c].stored]

LEMMA NothingReadable ==
    ASSUME UNCHANGED <<shelf, entry>> PROVE UNCHANGED Readable
BY DEF Readable, Visible

LEMMA SetStands ==
    ASSUME UNCHANGED set PROVE UNCHANGED <<Stage, Aimed>>
BY DEF Stage, Aimed, Writing

LEMMA ClearStands ==
    ASSUME UNCHANGED clear PROVE UNCHANGED <<Stance, Acked>>
BY DEF Stance, Acked, Wiping, ClearUnderWay

(* One Set moves to another state, with its lookup or without.             *)
LEMMA StageMoves ==
    ASSUME StoreInv, NEW s \in Setter, set' = [set EXCEPT ![s] = set'[s]]
    PROVE  /\ Stage' = [Stage EXCEPT ![s] = Writing(s)']
           /\ Aimed' = [Aimed EXCEPT ![s] = set'[s].since]
           /\ Stage[s] = Writing(s) /\ Aimed[s] = set[s].since
           /\ (Writing(s)' = Writing(s) => Stage' = Stage)
           /\ (set'[s].since = set[s].since => Aimed' = Aimed)
<1>1. ASSUME NEW t \in Setter, t # s PROVE set'[t] = set[t]
  BY <1>1 DEF StoreInv, StoreShape
<1>2. ASSUME NEW t \in Setter, t # s PROVE Writing(t)' = Writing(t)
  BY <1>1, <1>2 DEF Writing
<1>. QED BY <1>1, <1>2 DEF Stage, Aimed

LEMMA StanceMoves ==
    ASSUME StoreInv, NEW c \in Clearer, clear' = [clear EXCEPT ![c] = clear'[c]]
    PROVE  /\ Stance' = [Stance EXCEPT ![c] = Wiping(c)']
           /\ Acked' = [Acked EXCEPT ![c] = clear'[c].stored]
           /\ Stance[c] = Wiping(c) /\ Acked[c] = clear[c].stored
           /\ (Wiping(c)' = Wiping(c) => Stance' = Stance)
           /\ (clear'[c].stored = clear[c].stored => Acked' = Acked)
<1>1. ASSUME NEW d \in Clearer, d # c PROVE clear'[d] = clear[d]
  BY <1>1 DEF StoreInv, StoreShape
<1>2. ASSUME NEW d \in Clearer, d # c PROVE Wiping(d)' = Wiping(d)
  BY <1>1, <1>2 DEF Wiping, ClearUnderWay
<1>. QED BY <1>1, <1>2 DEF Stance, Acked

Mapped == <<routeOf, Readable, burials, Stage, Aimed, Stance, Acked>>

LEMMA MappedStutters ==
    ASSUME UNCHANGED Mapped PROVE UNCHANGED Atomic!cacheVars
BY DEF Mapped, Readable, Stage, Aimed, Stance, Acked, Atomic!cacheVars

(* A Set whose lookup is not its own yet, or that ends without success.    *)
LEMMA SetAdvances ==
    ASSUME StoreInv, NEW s \in Setter, NEW state \in {"made", "found"}, NEW from \in {"idle", "staged"},
           set[s].state = from, ToSet(s, state),
           UNCHANGED <<routeOf, burials, Readable, Stance, Acked>>
    PROVE  UNCHANGED Atomic!cacheVars
<1>1. /\ set[s] \in SetRecord /\ set' = [set EXCEPT ![s] = set'[s]]
      /\ set'[s].state = state /\ set'[s].since = set[s].since
  BY DEF ToSet, StoreInv, StoreShape, SetRecord
<1>2. Writing(s)' = Writing(s)
  BY <1>1 DEF Writing
<1>3. UNCHANGED <<Stage, Aimed>>
  BY <1>1, <1>2, StageMoves
<1>. QED BY <1>3, MappedStutters DEF Mapped

LEMMA SetEndsOver ==
    ASSUME StoreInv, NEW s \in Setter, NEW state \in {"failed", "unsynced", "dead"},
           set[s].state \in {"idle", "made", "staged", "found", "resolved", "renamed"},
           EndSet(s, state),
           UNCHANGED <<routeOf, burials, Readable, Stance, Acked>>
    PROVE  Atomic!WriterEnds(s)
<1>1. /\ set' = [set EXCEPT ![s] = set'[s]]
      /\ set'[s].state = state /\ set'[s].since = 0
  BY DEF EndSet, Fresh, StoreInv, StoreShape
<1>2. Writing(s) \in {"new", "aimed", "put"} /\ Writing(s)' = "over"
  BY <1>1 DEF Writing
<1>3. Stage' = [Stage EXCEPT ![s] = "over"] /\ Stage[s] \in {"new", "aimed", "put"}
      /\ Aimed' = [Aimed EXCEPT ![s] = 0]
  BY <1>1, <1>2, StageMoves
<1>. QED BY <1>3 DEF Atomic!WriterEnds, Atomic!Writes, Readable, Stage, Aimed, Stance, Acked

LEMMA ClearEndsOver ==
    ASSUME StoreInv, NEW c \in Clearer, NEW state \in {"failed", "dead"},
           ClearUnderWay(c), EndClear(c, state),
           UNCHANGED <<routeOf, burials, Readable, Stage, Aimed>>
    PROVE  Atomic!WiperEnds(c)
<1>1. /\ clear' = [clear EXCEPT ![c] = clear'[c]]
      /\ clear'[c].state = state /\ clear'[c].stored = {}
  BY DEF EndClear, Unasked, StoreInv, StoreShape
<1>2. Wiping(c) = "asked" /\ Wiping(c)' = "over"
  BY <1>1 DEF Wiping, ClearUnderWay
<1>3. /\ Stance' = [Stance EXCEPT ![c] = "over"] /\ Stance[c] = "asked"
      /\ Acked' = [Acked EXCEPT ![c] = {}]
  BY <1>1, <1>2, StanceMoves
<1>. QED BY <1>3 DEF Atomic!WiperEnds, Atomic!Wipes, Readable, Stage, Aimed, Stance, Acked

(* A Clear between its first and its last call.                            *)
LEMMA ClearAdvances ==
    ASSUME StoreInv, NEW c \in Clearer, ClearUnderWay(c),
           clear' = [clear EXCEPT ![c] = clear'[c]],
           clear'[c].state \in {"listed", "seen", "buried"}, clear'[c].stored = clear[c].stored
    PROVE  UNCHANGED <<Stance, Acked>>
<1>1. Wiping(c)' = Wiping(c)
  BY DEF Wiping, ClearUnderWay
<1>. QED BY <1>1, StanceMoves

LEMMA NextRouteAdvances ==
    ASSUME StoreInv, NEW c \in Clearer, ClearUnderWay(c), NextRoute(c)
    PROVE  UNCHANGED <<Stance, Acked>> \/ EndClear(c, "failed")
<1>1. CASE clear' = [clear EXCEPT ![c] = [state |-> "listed", routes |-> clear[c].routes \ {Current(c)},
                                          stored |-> clear[c].stored]]
  <2>1. /\ clear' = [clear EXCEPT ![c] = clear'[c]]
        /\ clear'[c].state = "listed" /\ clear'[c].stored = clear[c].stored
    BY <1>1 DEF StoreInv, StoreShape
  <2>. QED BY <2>1, ClearAdvances
<1>. QED BY <1>1 DEF NextRoute

LEMMA RenameImplements ==
    ASSUME StoreInv, NEW s \in Setter, RenameEntry(s), UNCHANGED routeOf
    PROVE  Atomic!AtomicNext
<1>1. UNCHANGED <<burials, Stance, Acked>> /\ set[s].state = "resolved" /\ shelf' = shelf
  BY ClearStands DEF RenameEntry, FailSet
<1>2. CASE FailSet(s)
  <2>1. UNCHANGED Readable /\ EndSet(s, "failed")
    BY <1>2, NothingReadable DEF FailSet
  <2>2. Atomic!WriterEnds(s)
    BY ONLY <1>1, <2>1, SetEndsOver, StoreInv, s \in Setter, UNCHANGED routeOf
  <2>. QED BY <2>2 DEF Atomic!AtomicNext
<1>3. CASE ToSet(s, "renamed") /\ entry' = [entry EXCEPT ![set[s].to] = @ \cup {s}]
  <2>1. /\ set' = [set EXCEPT ![s] = set'[s]]
        /\ set'[s].state = "renamed" /\ set'[s].since = set[s].since
    BY <1>3 DEF ToSet, StoreInv, StoreShape, SetRecord
  <2>2. Writing(s) = "aimed" /\ Writing(s)' = "put"
    BY <1>1, <2>1 DEF Writing
  <2>3. /\ Stage[s] = "aimed" /\ Stage' = [Stage EXCEPT ![s] = "put"]
        /\ Aimed' = Aimed /\ Aimed[s] = set[s].since
    BY <2>1, <2>2, StageMoves
  <2>4. routeOf[s] \in Route
    BY DEF StoreInv, StoreShape
  <2>5. \/ Readable' = [Readable EXCEPT ![routeOf[s]] = Readable[routeOf[s]] \cup {s}]
        \/ Aimed[s] < burials[routeOf[s]] /\ Readable' = Readable
    <3>1. \/ /\ \A r \in Route : r # routeOf[s] => Visible(r)' = Visible(r)
             /\ Visible(routeOf[s])' = Visible(routeOf[s]) \cup {s}
          \/ /\ set[s].since < burials[routeOf[s]]
             /\ \A r \in Route : Visible(r)' = Visible(r)
      BY <1>1, <1>3, RenameShowsOne
    <3>. QED BY <2>3, <2>4, <3>1 DEF Readable
  <2>6. Atomic!Put(s)
    BY <1>1, <2>3, <2>5 DEF Atomic!Put, Atomic!Writes, Readable, Stage, Aimed, Stance, Acked
  <2>. QED BY <2>6 DEF Atomic!AtomicNext
<1>. QED BY <1>2, <1>3 DEF RenameEntry

LEMMA SetStepImplements ==
    ASSUME StoreInv, NEW s \in Setter, UNCHANGED routeOf,
           \/ MakeDirectory(s) \/ StageEntry(s) \/ ResolveCandidate(s) \/ ResolveTarget(s)
           \/ SyncEntry(s)
    PROVE  [Atomic!AtomicNext]_(Atomic!cacheVars)
<1>1. UNCHANGED <<burials, Stance, Acked>> /\ clear' = clear
  BY ClearStands
     DEF MakeDirectory, StageEntry, ResolveCandidate, ResolveTarget, SyncEntry, FailSet, disk
<1>2. UNCHANGED Readable
  <2>1. CASE MakeDirectory(s)
    BY <2>1, MakingShowsNothing DEF Readable
  <2>2. CASE UNCHANGED <<shelf, entry>>
    BY <2>2, NothingReadable
  <2>. QED BY <2>1, <2>2 DEF StageEntry, ResolveCandidate, ResolveTarget, SyncEntry, FailSet, disk
<1>3. set[s].state \in {"idle", "made", "staged", "found", "renamed"}
  BY DEF MakeDirectory, StageEntry, ResolveCandidate, ResolveTarget, SyncEntry
<1>4. CASE EndSet(s, "failed") \/ EndSet(s, "unsynced")
  <2>1. Atomic!WriterEnds(s)
    BY <1>1, <1>2, <1>3, <1>4, SetEndsOver
  <2>. QED BY <2>1 DEF Atomic!AtomicNext
<1>5. CASE \/ set[s].state = "idle" /\ ToSet(s, "made")
           \/ set[s].state = "staged" /\ ToSet(s, "found")
  BY <1>1, <1>2, <1>5, SetAdvances
<1>6. CASE /\ set[s].state = "made"
           /\ set' = [set EXCEPT ![s] = [state |-> "staged", at |-> shelf[routeOf[s]], to |-> 0, since |-> 0]]
  <2>1. /\ set' = [set EXCEPT ![s] = set'[s]]
        /\ set'[s].state = "staged" /\ set'[s].since = 0
    BY <1>6 DEF StoreInv, StoreShape
  <2>2. Writing(s)' = Writing(s)
    BY <1>6, <2>1 DEF Writing
  <2>3. set[s].since = 0
    BY <1>6 DEF StoreInv, SetOK
  <2>4. UNCHANGED <<Stage, Aimed>>
    BY <2>1, <2>2, <2>3, StageMoves
  <2>. QED BY <1>1, <1>2, <2>4, MappedStutters DEF Mapped
<1>7. CASE /\ set[s].state = "found"
           /\ set' = [set EXCEPT ![s] = [state |-> "resolved", at |-> set[s].at, to |-> shelf[routeOf[s]],
                                         since |-> burials[routeOf[s]]]]
  <2>1. /\ set' = [set EXCEPT ![s] = set'[s]]
        /\ set'[s].state = "resolved" /\ set'[s].since = burials[routeOf[s]]
    BY <1>7 DEF StoreInv, StoreShape
  <2>2. Writing(s) = "new" /\ Writing(s)' = "aimed"
    BY <1>7, <2>1 DEF Writing
  <2>3. /\ Stage[s] = "new" /\ Stage' = [Stage EXCEPT ![s] = "aimed"]
        /\ Aimed' = [Aimed EXCEPT ![s] = burials[routeOf[s]]]
    BY <2>1, <2>2, StageMoves
  <2>4. Atomic!Aim(s)
    BY <1>1, <1>2, <2>3 DEF Atomic!Aim, Atomic!Writes, Readable, Stage, Aimed, Stance, Acked
  <2>. QED BY <2>4 DEF Atomic!AtomicNext
<1>8. CASE /\ set[s].state = "renamed"
           /\ set' = [set EXCEPT ![s] = [state |-> "stored", at |-> 0, to |-> 0, since |-> set[s].since]]
  <2>1. /\ set' = [set EXCEPT ![s] = set'[s]]
        /\ set'[s].state = "stored" /\ set'[s].since = set[s].since
    BY <1>8 DEF StoreInv, StoreShape
  <2>2. Writing(s) = "put" /\ Writing(s)' = "told"
    BY <1>8, <2>1 DEF Writing
  <2>3. /\ Stage[s] = "put" /\ Stage' = [Stage EXCEPT ![s] = "told"] /\ Aimed' = Aimed
    BY <2>1, <2>2, StageMoves
  <2>4. Atomic!TellWriter(s)
    BY <1>1, <1>2, <2>3 DEF Atomic!TellWriter, Atomic!Writes, Readable, Stage, Aimed, Stance, Acked
  <2>. QED BY <2>4 DEF Atomic!AtomicNext
<1>. QED BY <1>4, <1>5, <1>6, <1>7, <1>8
         DEF MakeDirectory, StageEntry, ResolveCandidate, ResolveTarget, SyncEntry, FailSet

LEMMA ClearStepImplements ==
    ASSUME StoreInv, NEW c \in Clearer, UNCHANGED routeOf,
           ListRoutes(c) \/ LookUp(c) \/ Bury(c) \/ RemoveTomb(c) \/ ClearReturns(c)
    PROVE  [Atomic!AtomicNext]_(Atomic!cacheVars)
<1>0. UNCHANGED <<Stage, Aimed>> /\ set' = set
  BY SetStands DEF ListRoutes, LookUp, Bury, RemoveTomb, ClearReturns, disk
<1>1. CASE ListRoutes(c)
  <2>1. /\ clear' = [clear EXCEPT ![c] = clear'[c]] /\ clear[c].state = "idle"
        /\ clear'[c].state = "listed"
        /\ clear'[c].stored = {s \in Setter : set[s].state = "stored"}
    BY <1>1 DEF ListRoutes, StoreInv, StoreShape
  <2>2. Wiping(c) = "idle" /\ Wiping(c)' = "asked"
    BY <2>1 DEF Wiping, ClearUnderWay
  <2>3. {s \in Setter : set[s].state = "stored"} = {s \in Setter : Stage[s] = "told"}
    BY DEF Stage, Writing
  <2>4. /\ Stance[c] = "idle" /\ Stance' = [Stance EXCEPT ![c] = "asked"]
        /\ Acked' = [Acked EXCEPT ![c] = {s \in Setter : Stage[s] = "told"}]
    BY <2>1, <2>2, <2>3, StanceMoves
  <2>5. UNCHANGED <<Readable, burials>>
    BY <1>1, NothingReadable DEF ListRoutes, disk
  <2>6. Atomic!Begin(c)
    BY <1>0, <2>4, <2>5 DEF Atomic!Begin, Atomic!Wipes, Readable, Stage, Aimed, Stance, Acked
  <2>. QED BY <2>6 DEF Atomic!AtomicNext
<1>2. CASE LookUp(c) \/ RemoveTomb(c)
  <2>1. UNCHANGED <<Readable, burials>>
    <3>1. CASE LookUp(c)
      BY <3>1, NothingReadable DEF LookUp, disk
    <3>2. CASE RemoveTomb(c)
      BY <3>2, RemovalHidesNothing DEF RemoveTomb, Readable
    <3>. QED BY <1>2, <3>1, <3>2
  <2>2. ClearUnderWay(c)
    BY <1>2 DEF LookUp, RemoveTomb, ClearUnderWay
  <2>3. CASE EndClear(c, "failed")
    <3>1. Atomic!WiperEnds(c)
      BY <1>0, <2>1, <2>2, <2>3, ClearEndsOver
    <3>. QED BY <3>1 DEF Atomic!AtomicNext
  <2>4. CASE ToClear(c, "seen")
    <3>1. /\ clear' = [clear EXCEPT ![c] = clear'[c]]
          /\ clear'[c].state = "seen" /\ clear'[c].stored = clear[c].stored
      BY <2>4 DEF ToClear, StoreInv, StoreShape, ClearRecord
    <3>2. UNCHANGED <<Stance, Acked>>
      BY <2>2, <3>1, ClearAdvances
    <3>. QED BY <1>0, <2>1, <3>2, MappedStutters DEF Mapped
  <2>5. CASE NextRoute(c)
    <3>1. CASE UNCHANGED <<Stance, Acked>>
      BY <1>0, <2>1, <3>1, MappedStutters DEF Mapped
    <3>. QED BY <2>2, <2>3, <2>5, <3>1, NextRouteAdvances
  <2>. QED BY <1>2, <2>3, <2>4, <2>5 DEF LookUp, RemoveTomb
<1>3. CASE Bury(c) /\ EndClear(c, "failed") /\ UNCHANGED <<shelf, entry, burials>>
  <2>1. UNCHANGED Readable /\ ClearUnderWay(c)
    BY <1>3, NothingReadable DEF Bury, ClearUnderWay
  <2>2. Atomic!WiperEnds(c)
    BY <1>0, <1>3, <2>1, ClearEndsOver
  <2>. QED BY <2>2 DEF Atomic!AtomicNext
<1>4. CASE /\ clear[c].state = "seen" /\ ToClear(c, "buried") /\ entry' = entry
           /\ shelf' = [shelf EXCEPT ![Current(c)] = 0]
           /\ burials' = [burials EXCEPT ![Current(c)] = @ + 1]
  <2>1. clear[c].routes # {} /\ Current(c) \in Route
    BY <1>4, CurrentIsRoute DEF StoreInv, ClearOK
  <2>2. /\ clear' = [clear EXCEPT ![c] = clear'[c]]
        /\ clear'[c].state = "buried" /\ clear'[c].stored = clear[c].stored
    BY <1>4 DEF ToClear, StoreInv, StoreShape, ClearRecord
  <2>3. ClearUnderWay(c) /\ Stance[c] = "asked"
    BY <1>4 DEF ClearUnderWay, Stance, Wiping
  <2>4. UNCHANGED <<Stance, Acked>>
    BY <2>2, <2>3, ClearAdvances
  <2>5. PICK r \in Route : r = Current(c)
    BY <2>1
  <2>6. Readable' = [Readable EXCEPT ![r] = {}]
    <3>1. ASSUME NEW q \in Route PROVE Visible(q)' = IF q = r THEN {} ELSE Visible(q)
      BY <1>4, <2>1, <2>5, BuryingHidesAll
    <3>. QED BY <3>1 DEF Readable
  <2>7. burials' = [burials EXCEPT ![r] = burials[r] + 1]
    BY <1>4, <2>5
  <2>8. Atomic!Wipe(r)
    BY <1>0, <2>3, <2>4, <2>6, <2>7 DEF Atomic!Wipe, Readable, Stage, Aimed, Stance, Acked
  <2>. QED BY <2>8 DEF Atomic!AtomicNext
<1>5. CASE ClearReturns(c)
  <2>1. /\ clear' = [clear EXCEPT ![c] = clear'[c]]
        /\ clear'[c].state = "cleared" /\ clear'[c].stored = clear[c].stored
        /\ clear[c].state = "listed" /\ clear[c].routes = {}
    BY <1>5 DEF ClearReturns, ToClear, StoreInv, StoreShape, ClearRecord
  <2>2. Wiping(c) = "asked" /\ Wiping(c)' = "told"
    BY <2>1 DEF Wiping, ClearUnderWay
  <2>3. /\ Stance[c] = "asked" /\ Stance' = [Stance EXCEPT ![c] = "told"] /\ Acked' = Acked
        /\ Acked[c] = clear[c].stored
    BY <2>1, <2>2, StanceMoves
  <2>4. UNCHANGED <<Readable, burials>>
    BY <1>5, NothingReadable DEF ClearReturns, disk
  <2>5. ASSUME NEW s \in Acked[c] PROVE s \notin Readable[routeOf[s]]
    <3>1. s \in clear[c].stored /\ s \in Setter /\ routeOf[s] \in Route
      BY <2>3 DEF StoreInv, StoreShape, ClearRecord
    <3>2. s \notin Visible(routeOf[s])
      BY <2>1, <3>1 DEF StoreInv, ClearOK
    <3>. QED BY <3>1, <3>2 DEF Readable
  <2>6. Atomic!TellWiper(c)
    BY <1>0, <2>3, <2>4, <2>5 DEF Atomic!TellWiper, Atomic!Wipes, Readable, Stage, Aimed, Stance, Acked
  <2>. QED BY <2>6 DEF Atomic!AtomicNext
<1>. QED BY <1>1, <1>2, <1>3, <1>4, <1>5 DEF Bury

LEMMA DeathImplements ==
    ASSUME StoreInv, Dies, UNCHANGED routeOf
    PROVE  Atomic!AtomicNext
<1>1. UNCHANGED <<burials, Readable>>
  BY NothingReadable DEF Dies, disk
<1>2. ASSUME NEW s \in Setter, SetUnderWay(s), EndSet(s, "dead"), UNCHANGED clear
      PROVE  Atomic!AtomicNext
  <2>1. UNCHANGED <<Stance, Acked>>
    BY <1>2, ClearStands
  <2>2. Atomic!WriterEnds(s)
    BY <1>1, <1>2, <2>1, SetEndsOver DEF SetUnderWay
  <2>. QED BY <2>2 DEF Atomic!AtomicNext
<1>3. ASSUME NEW c \in Clearer, ClearUnderWay(c), EndClear(c, "dead"), UNCHANGED set
      PROVE  Atomic!AtomicNext
  <2>1. UNCHANGED <<Stage, Aimed>>
    BY <1>3, SetStands
  <2>2. Atomic!WiperEnds(c)
    BY <1>1, <1>3, <2>1, ClearEndsOver
  <2>. QED BY <2>2 DEF Atomic!AtomicNext
<1>. QED BY <1>2, <1>3 DEF Dies

LEMMA StoreInitImplements ==
    ASSUME StoreInit PROVE Atomic!AtomicInit
<1>1. routeOf \in [Setter -> Route]
  BY CacheStoreAssumption DEF StoreInit
<1>2. Readable = [r \in Route |-> {}] /\ burials = [r \in Route |-> 0]
  BY DEF StoreInit, Readable, Visible
<1>3. Stage = [s \in Setter |-> "new"] /\ Aimed = [s \in Setter |-> 0]
  BY DEF StoreInit, Stage, Aimed, Writing, Fresh
<1>4. Stance = [c \in Clearer |-> "idle"] /\ Acked = [c \in Clearer |-> {}]
  <2>1. ASSUME NEW c \in Clearer PROVE clear[c].state = "idle" /\ clear[c].stored = {}
    BY DEF StoreInit, Unasked
  <2>2. ASSUME NEW c \in Clearer PROVE Wiping(c) = "idle"
    BY <2>1 DEF Wiping, ClearUnderWay
  <2>. QED BY <2>1, <2>2 DEF Stance, Acked
<1>. QED BY <1>1, <1>2, <1>3, <1>4 DEF Atomic!AtomicInit, Readable, Stage, Aimed, Stance, Acked

LEMMA StoreStepImplements ==
    ASSUME StoreInv, [StoreNext]_storeVars
    PROVE  [Atomic!AtomicNext]_(Atomic!cacheVars)
<1>1. CASE StoreStep /\ UNCHANGED routeOf
  BY <1>1, DeathImplements, SetStepImplements, RenameImplements, ClearStepImplements DEF StoreStep
<1>2. CASE UNCHANGED storeVars
  <2>1. UNCHANGED <<shelf, entry, set, clear, routeOf, burials>>
    BY <1>2 DEF storeVars
  <2>. QED BY <2>1, NothingReadable, SetStands, ClearStands, MappedStutters DEF Mapped
<1>. QED BY <1>1, <1>2 DEF StoreNext, AllReturned

(* The response files of the cache (disk.go, clear.go) implement the store *)
(* its callers rely on, for any number of processes and routes: responses  *)
(* appear one by one, a route is emptied in one step, and a Clear is told  *)
(* of success when what was acknowledged before it is unreadable.          *)
THEOREM StoreRefinesCache == StoreSpec => StoresAtomically
<1>1. StoreInit => Atomic!AtomicInit
  BY StoreInitImplements
<1>2. StoreInv /\ [StoreNext]_storeVars => [Atomic!AtomicNext]_(Atomic!cacheVars)
  BY StoreStepImplements
<1>. QED BY <1>1, <1>2, StoreInvariant, PTL DEF StoreSpec, StoresAtomically, Atomic!AtomicSpec

-----------------------------------------------------------------------------
(* Both parts in one specification, as MCScoring composes them.            *)

ScoringInv == IInv /\ LimiterExact /\ Headroom /\ (\A s \in Scorer : SentOK(s)) /\ StoreInv

LEMMA HeadroomInit ==
    ASSUME Init PROVE Headroom
<1>1. Tries = {}
  BY DEF Init, Tries, TriesOf
<1>2. Cardinality(Tries) = 0
  BY <1>1, FS_EmptySet
<1>3. calls = 0 /\ sent = 0 /\ late = FALSE /\ cancelled = FALSE
  BY DEF Init, Quota!Init
<1>4. attempt \in [Scorer -> 0 .. MaxRetries + 1] /\ \A s \in Scorer : ~Calling(s)
  BY ScoreAssumption DEF Init, Calling
<1>5. sent + Cardinality(Tries) <= calls * PerCall
  <2>1. PerCall \in Nat
    BY ScoreAssumption DEF PerCall
  <2>. QED BY <1>2, <1>3, <2>1
<1>6. MaxCalls > 0 => calls <= MaxCalls
  BY <1>3, ScoreAssumption
<1>. QED BY <1>3, <1>4, <1>5, <1>6 DEF Headroom

(* Every step of a scoring call brings it nearer its end, and nothing else *)
(* takes it further from it: the retry loops of openai.go and of Score end *)
(* for any limits, so a call that does not return is one that waits.       *)
THEOREM RetriesEnd == Spec => ScoresAdvance
<1>1. Init => IInv /\ Headroom
  BY InvInit, HeadroomInit
<1>2. IInv /\ Headroom /\ [Next]_vars => (IInv /\ Headroom)'
  BY StepKeepsIInv, StepKeepsHeadroom
<1>3. IInv /\ Headroom /\ (IInv /\ Headroom)' /\ [Next]_vars =>
          [\A s \in Scorer :
              /\ ScorerStep(s) => StepsLeft(s)' < StepsLeft(s)
              /\ StepsLeft(s)' <= StepsLeft(s)]_vars
  BY StepAdvances
<1>. QED BY <1>1, <1>2, <1>3, PTL DEF Spec, ScoresAdvance

LEMMA ScoringInvIsSound ==
    ASSUME ScoringInv PROVE ScoringSound
<1>1. TypeOK
  <2>1. extraction \in [Scorer -> 0 .. ExtractionRetries]
    BY ScoreAssumption DEF ScoringInv, IInv, Typed, ScorerInv, Earned
  <2>2. limiter \in 0 .. MaxWorkers
    BY ScoreAssumption DEF ScoringInv, LimiterExact
  <2>. QED BY <2>1, <2>2 DEF ScoringInv, IInv, Typed, Headroom, TypeOK
<1>2. StoreTypeOK /\ AttemptHeadroom
  BY StoreInvIsTyped, HeadroomSuffices DEF ScoringInv
<1>3. RetriesBounded /\ NoCircularWait
  BY SentIsBounded, NobodyWaitsInACircle DEF ScoringInv
<1>. QED BY <1>1, <1>2, <1>3 DEF ScoringSound

(* The counters of a scoring call stay in range, whoever is granted a call *)
(* is never short of attempts under the derived limits, retries send at    *)
(* most the product of their limits, scorers never all wait for one        *)
(* another, and no directory of the store has two names.                   *)
THEOREM ScoringIsSound == ScoringSpec => []ScoringSound
<1>1. ScoringInit => ScoringInv
  BY InvInit, LimiterInit, HeadroomInit, SentInit, StoreInitHolds DEF ScoringInit, ScoringInv
<1>2. ASSUME ScoringInv, [ScoringNext]_<<vars, storeVars, part>> PROVE ScoringInv'
  <2>1. ASSUME [Next]_vars PROVE (IInv /\ LimiterExact /\ Headroom)' /\ \A s \in Scorer : SentOK(s)'
    BY <1>2, <2>1, StepKeepsIInv, StepKeepsLimiter, StepKeepsHeadroom, StepKeepsSent DEF ScoringInv
  <2>2. ASSUME [StoreNext]_storeVars PROVE StoreInv'
    BY <1>2, <2>2, StoreStepKeeps DEF ScoringInv
  <2>3. [Next]_vars /\ [StoreNext]_storeVars
    BY <1>2 DEF ScoringNext
  <2>. QED BY <2>1, <2>2, <2>3 DEF ScoringInv
<1>. QED BY <1>1, <1>2, ScoringInvIsSound, PTL DEF ScoringSpec
==============================================================================
