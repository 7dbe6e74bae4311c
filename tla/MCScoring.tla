------------------------------ MODULE MCScoring ------------------------------
(* Scoring calls and the response files behind their cache.  A behaviour   *)
(* is one of ScoreCall or one of CacheStore: part says which, the          *)
(* variables of the other stay as they are.                                *)
EXTENDS MCScoreCall, CacheStore, TLC

CONSTANTS g1, g2

MCSetter == {g1, g2}

(* Two requests to one route, and one to each of two routes.               *)
MCRequests == {g1 :> 1 @@ g2 :> 1, g1 :> 1 @@ g2 :> 2}

VARIABLE part

ScoringInit ==
    /\ part \in {"score", "store"}
    /\ Init /\ (part # "score" => \A k \in Key : cache[k] = "none")
    /\ StoreInit /\ (part # "store" => \A s \in Setter : routeOf[s] = 1)

ScoringNext ==
    \/ part = "score" /\ Next /\ UNCHANGED <<storeVars, part>>
    \/ part = "store" /\ StoreNext /\ UNCHANGED <<vars, part>>

ScoringSpec ==
    /\ ScoringInit /\ [][ScoringNext]_<<vars, storeVars, part>>
    /\ part = "store" \/ Fairness

(* Every scoring call returns (Runner.Score: retries, waits and backoff    *)
(* are bounded, whatever the other calls of the run do), and every step it *)
(* takes brings it nearer.                                                 *)
CallsReturn == (part = "score" => ScoresEnd) /\ ScoresAdvance

(* The counters of scoring calls and the directories of the store stay in  *)
(* range: no retry loop overshoots (openai.go and the extraction loop of   *)
(* Score), the attempts of granted calls fit, nobody waits in a circle, a  *)
(* directory has one name.                                                 *)
ScoringSound == TypeOK /\ StoreTypeOK /\ AttemptHeadroom /\ RetriesBounded /\ NoCircularWait
=============================================================================
