---------------------------- MODULE AttemptQuota -----------------------------
(***************************************************************************)
(* What a run budget promises to whoever pays for a run, with no mention   *)
(* of locks, slots or files: at most MaxCalls logical calls are ever       *)
(* granted and at most MaxAttempts requests ever sent, at most             *)
(* MaxConcurrent requests are open at a time, and nothing is granted or    *)
(* sent once the run is late.  A crash loses the requests that were open,  *)
(* never the counts.  A limit of 0 is no limit.                            *)
(*                                                                         *)
(* RunBudget implements this specification; ScoreCall is built on it.      *)
(***************************************************************************)
EXTENDS Naturals, FiniteSets

CONSTANTS Worker, MaxCalls, MaxAttempts, MaxConcurrent

VARIABLES
    calls,  \* logical calls ever granted
    sent,   \* requests ever sent
    open,   \* workers with a request in flight
    late    \* the run's deadline has passed

quotaVars == <<calls, sent, open, late>>

Init == calls = 0 /\ sent = 0 /\ open = {} /\ late = FALSE

MayCall == ~late /\ (MaxCalls > 0 => calls < MaxCalls)

MaySend == ~late /\ (MaxAttempts > 0 => sent < MaxAttempts)

SlotFree == MaxConcurrent > 0 => Cardinality(open) < MaxConcurrent

Grant == MayCall /\ calls' = calls + 1 /\ UNCHANGED <<sent, open, late>>

Send(w) ==
    /\ MaySend /\ SlotFree /\ w \notin open
    /\ sent' = sent + 1 /\ open' = open \cup {w} /\ UNCHANGED <<calls, late>>

(* A call granted and sent at once, which its sender does not hold open.   *)
SendUntracked ==
    MayCall /\ MaySend /\ calls' = calls + 1 /\ sent' = sent + 1 /\ UNCHANGED <<open, late>>

Finish(w) == w \in open /\ open' = open \ {w} /\ UNCHANGED <<calls, sent, late>>

LoseAll == open' = {} /\ UNCHANGED <<calls, sent, late>>

BecomeLate == ~late /\ late' = TRUE /\ UNCHANGED <<calls, sent, open>>

Next ==
    \/ \E w \in Worker : Send(w) \/ Finish(w)
    \/ Grant \/ SendUntracked \/ LoseAll \/ BecomeLate

Spec == Init /\ [][Next]_quotaVars
=============================================================================
