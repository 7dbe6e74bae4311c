------------------------------- MODULE MCSweep -------------------------------
(* What the workers of a selection wait for: a place in the sweep, and a   *)
(* slot of the run's budget.  A behaviour is one of PairSweep or one of    *)
(* RunBudget: part says which, the variables of the other stay as they are.*)
EXTENDS PairSweep, MCRunBudget

VARIABLE part

WorkersInit ==
    /\ part \in {"sweep", "slots"}
    /\ SweepInit /\ (part # "sweep" => items = Pair)
    /\ Init

WorkersNext ==
    \/ part = "sweep" /\ SweepNext /\ UNCHANGED <<vars, part>>
    \/ part = "slots" /\ Next /\ UNCHANGED <<sweepVars, part>>

WorkersSpec ==
    /\ WorkersInit /\ [][WorkersNext]_<<sweepVars, vars, part>>
    /\ \/ part = "sweep" /\ SweepFairness
       \/ part = "slots" /\ Fairness

(* Every selection run ends with an outcome (wg.Wait of runPairSweep       *)
(* returns, recovery included), after a bounded number of steps.           *)
SelectionEnds == (part = "sweep" => RunEnds) /\ SweepAdvances
=============================================================================
