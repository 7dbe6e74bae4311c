-------------------------- MODULE InspectionVerdict --------------------------
(***************************************************************************)
(* How an owner inspection condenses its assessments: from the latest      *)
(* assessment of every dimension of every subject to one disposition per   *)
(* subject, to a status of the core packets and of the scarcity subjects,  *)
(* and to the combined status of the completion receipt                    *)
(* (internal/relation/pilot_inspection.go and pilot_inspection_journal.go).*)
(*                                                                         *)
(* latest is a function from targets <<subject, dimension>>.               *)
(***************************************************************************)
EXTENDS Naturals, FiniteSets

(* pilotInspectionDisposition and pilotInspectionAssessmentDisposition: a  *)
(* failure outweighs an indeterminate answer, wherever it stands.          *)
Disposition(assessments) ==
    IF "failed" \in assessments THEN "revision_required"
    ELSE IF "indeterminate" \in assessments THEN "unresolved"
    ELSE "accepted"

SubjectDisposition(latest, s) == Disposition({latest[t] : t \in {u \in DOMAIN latest : u[1] = s}})

(* pilotInspectionReasons: the dimensions that did not pass.               *)
Reasons(latest, s) == {t[2] : t \in {u \in DOMAIN latest : u[1] = s /\ latest[u] # "passed"}}

(* pilotInspectionCounts and pilotInspectionOverallStatus.                 *)
OverallStatus(latest, subjects) ==
    LET count(d) == Cardinality({s \in subjects : SubjectDisposition(latest, s) = d})
    IN  IF count("revision_required") > 0 THEN "revision_required"
        ELSE IF count("unresolved") > 0 THEN "unresolved" ELSE "passed"

(* Mutant: the scarcity status is only looked at when the core passed.     *)
CombineCoreFirst(left, right) == IF left # "passed" THEN left ELSE right

(* combinePilotInspectionStatuses.                                         *)
CombineStatuses(left, right) ==
    IF "revision_required" \in {left, right} THEN "revision_required"
    ELSE IF "unresolved" \in {left, right} THEN "unresolved" ELSE "passed"

(* BuildPilotInspectionCompletion: the statuses of the receipt, and the    *)
(* consistency completion.Validate demands of its summaries.               *)
Verdict(latest, core) ==
    LET subjects == {t[1] : t \in DOMAIN latest}
        c == OverallStatus(latest, core)
        s == OverallStatus(latest, subjects \ core)
    IN  [core |-> c, scarcity |-> s, overall |-> CombineStatuses(c, s),
         reasons |-> [x \in core |-> Reasons(latest, x)]]

(* The receipt is exactly as strict as the assessments taken together,     *)
(* whichever subject they fall on: it passes only when all pass, and one   *)
(* failure asks for a revision whatever else is undecided.  A packet is    *)
(* accepted exactly when it carries no reason.                             *)
VerdictIsConservative(latest, core) ==
    LET v == Verdict(latest, core)
        all == {latest[t] : t \in DOMAIN latest}
    IN  /\ v.overall = "passed" <=> all \subseteq {"passed"}
        /\ v.overall = "revision_required" <=> "failed" \in all
        /\ \A x \in core : v.reasons[x] = {} <=> SubjectDisposition(latest, x) = "accepted"
==============================================================================
