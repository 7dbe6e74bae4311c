----------------------------- MODULE MCScoreCall -----------------------------
(* Instances of ScoreCall for TLC: scorers that share a request key, which *)
(* is how two goroutines come to race for one cache entry.                 *)
EXTENDS ScoreCall

CONSTANTS s1, s2, k1

MCScorer == {s1, s2}
MCKey    == {k1}
MCKeyOf  == [s \in MCScorer |-> k1]
=============================================================================
