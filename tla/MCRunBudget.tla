----------------------------- MODULE MCRunBudget -----------------------------
(* Small instances of RunBudget.  Input tokens are limited and reported,   *)
(* cost is optional in a report, output is unlimited and zero.             *)
EXTENDS RunBudget, TLC

Amounts(i, c) == [m \in Metric |-> CASE m = "input" -> i [] m = "cost" -> c [] OTHER -> 0]

MCLimit == Amounts(3, 0)
MCReservation == {Amounts(1, 1), Amounts(2, 0)}
MCActual ==
    { [observed |-> FALSE, known |-> Metric, amount |-> NoReservation],
      [observed |-> TRUE, known |-> Metric, amount |-> NoReservation],
      [observed |-> TRUE, known |-> Metric \ {"cost"}, amount |-> Amounts(2, 0)],
      [observed |-> TRUE, known |-> Metric, amount |-> Amounts(0, -1)] }

(* Reports that tell the two-worker liveness instance apart.               *)
LiveActual == { [observed |-> FALSE, known |-> Metric, amount |-> NoReservation] }

Symmetry == Permutations(Worker)
=============================================================================
