---------------------------- MODULE ReviewLedger -----------------------------
(***************************************************************************)
(* The commit-reveal review of outcome labels (internal/outcome/review.go):*)
(* two primary reviewers commit label batches, a third breaks their ties,  *)
(* then the private mapping is revealed and an adjudication ledger binds   *)
(* one chain of documents.                                                 *)
(*                                                                         *)
(* Every document is sealed by its digest and names its parents by theirs; *)
(* a digest is modelled by the document.  The builders are pure: nothing   *)
(* but the documents' own checks stops a reviewer from committing a second *)
(* batch for an assignment, before or after a reveal, or anyone from       *)
(* assembling a ledger from documents that do not belong together.  Every  *)
(* document carries the time it was built at.                              *)
(***************************************************************************)
EXTENDS Naturals, FiniteSets

CONSTANTS
    Packet,         \* packets of the bundle
    Outcome,        \* PrimaryOutcome of a label
    Invited,        \* the qualified reviewers invited for each slot: one and
                    \*    two need the primary role, three the tie-break role
    Unresolved,     \* StateIndeterminate of an unresolved disagreement
    NoTieBreak,     \* no tie-break batch
    MaxNow,         \* bound: time
    MaxBatches,     \* bound: committed batches
    MaxReveals,     \* bound: reveals
    MaxLedgers      \* bound: ledgers

ASSUME ReviewAssumption ==
    /\ DOMAIN Invited = 1 .. 3 /\ Invited[3] \cap (Invited[1] \cup Invited[2]) = {}
    /\ Unresolved \notin Outcome
    /\ MaxNow \in Nat /\ MaxBatches \in Nat
    /\ MaxReveals \in Nat /\ MaxLedgers \in Nat

VARIABLES
    now,
    assignments,    \* [slot, reviewer, packets, at]
    batches,        \* [assignment, labels, at]
    reveals,        \* [pair, tie, at]
    ledgers         \* [pair, tie, reveal, resolution]

reviewVars == <<now, assignments, batches, reveals, ledgers>>

ReviewInit ==
    /\ now = 0 /\ assignments = {} /\ batches = {}
    /\ reveals = {} /\ ledgers = {}

(* disagreementPacketIDs.                                                  *)
Disagreement(left, right) == {p \in Packet : left.labels[p] # right.labels[p]}

(* validatePrimaryReviewPair: full coverage, distinct slots, distinct      *)
(* reviewers.  A pair is written with slot one first.                      *)
PrimaryPair(left, right) ==
    /\ left.assignment.slot = 1 /\ right.assignment.slot = 2
    /\ left.assignment.reviewer # right.assignment.reviewer

(* Mutant: the packets of the tie-break are not compared.                  *)
AnyTieBreak(left, right, tie) == PrimaryPair(left, right) /\ (tie # NoTieBreak => tie.assignment.slot = 3)

(* validateReviewSequence.                                                 *)
ReviewSequence(left, right, tie) ==
    /\ PrimaryPair(left, right)
    /\ tie # NoTieBreak => /\ tie.assignment.slot = 3
                           /\ tie.assignment.packets = Disagreement(left, right)

Later(x, y) == IF x.at > y.at THEN x.at ELSE y.at

(* latestBatchCommit.                                                      *)
LatestCommit(left, right, tie) ==
    IF tie = NoTieBreak THEN Later(left, right)
    ELSE IF tie.at > Later(left, right) THEN tie.at ELSE Later(left, right)

PassTime ==
    /\ now < MaxNow /\ now' = now + 1
    /\ UNCHANGED <<assignments, batches, reveals, ledgers>>

Assign(slot, u, packets) ==
    /\ assignments' = assignments \cup {[slot |-> slot, reviewer |-> u, packets |-> packets, at |-> now]}
    /\ UNCHANGED <<now, batches, reveals, ledgers>>

(* BuildPrimaryAssignment; one per slot, at the start, bounds the model: a *)
(* batch binds its own assignment and no other.                            *)
AssignPrimary(slot, u) ==
    /\ now = 0 /\ \A a \in assignments : a.slot # slot
    /\ Assign(slot, u, Packet)

(* BuildTieBreakAssignment: the pair's disagreements, strictly after both  *)
(* commitments.  One per set of packets bounds the model.                  *)
AssignTieBreak(u, left, right) ==
    /\ PrimaryPair(left, right) /\ Disagreement(left, right) # {}
    /\ \A a \in assignments : a.slot = 3 => a.packets # Disagreement(left, right)
    /\ now > Later(left, right)
    /\ Assign(3, u, Disagreement(left, right))

(* Mutant: a batch may label packets outside its assignment.               *)
CommitAnyPackets(a, labels) ==
    /\ Cardinality(batches) < MaxBatches
    /\ \E more \in [Packet -> Outcome] :
          batches' = batches \cup {[assignment |-> a, labels |-> more, at |-> now]}
    /\ UNCHANGED <<now, assignments, reveals, ledgers>>

(* BuildLabelBatch covers the assignment's packets exactly.  A further     *)
(* batch for the assignment is one with other labels; the last tick of the *)
(* model is left to reveals and ledgers.                                   *)
Commit(a, labels) ==
    /\ Cardinality(batches) < MaxBatches /\ now < MaxNow
    /\ \A b \in batches : b.assignment = a => b.labels # labels
    /\ batches' = batches \cup {[assignment |-> a, labels |-> labels, at |-> now]}
    /\ UNCHANGED <<now, assignments, reveals, ledgers>>

(* Mutant: the reveal may carry the time of the latest commitment.         *)
RevealAtCommit(left, right, tie) ==
    /\ Cardinality(reveals) < MaxReveals
    /\ ReviewSequence(left, right, tie) /\ now >= LatestCommit(left, right, tie)
    /\ reveals' = reveals \cup {[pair |-> <<left, right>>, tie |-> tie, at |-> now]}
    /\ UNCHANGED <<now, assignments, batches, ledgers>>

(* BuildMappingReveal, strictly after the latest commitment.               *)
Reveal(left, right, tie) ==
    /\ Cardinality(reveals) < MaxReveals
    /\ ReviewSequence(left, right, tie) /\ now > LatestCommit(left, right, tie)
    /\ reveals' = reveals \cup {[pair |-> <<left, right>>, tie |-> tie, at |-> now]}
    /\ UNCHANGED <<now, assignments, batches, ledgers>>

(* Mutant: the tie-break digests are not compared.                         *)
RevealBindsPair(reveal, left, right, tie) == reveal.pair = <<left, right>>

(* validateRevealAgainstSequence.                                          *)
RevealBinds(reveal, left, right, tie) == reveal.pair = <<left, right>> /\ reveal.tie = tie

(* BuildRubricAmbiguityAnalysis and validateRubricAmbiguityForLedger: the  *)
(* pair can be analysed at any time strictly between its commitments and   *)
(* the reveal; there must have been one.                                   *)
AnalysisBinds(left, right, reveal) ==
    \E t \in 0 .. MaxNow : Later(left, right) < t /\ t < reveal.at

(* resolveReviewBundle and ResolveLabels.                                  *)
ResolveLabels(left, right, tie) ==
    [p \in Packet |-> IF left.labels[p] = right.labels[p] THEN left.labels[p]
                      ELSE IF tie = NoTieBreak THEN Unresolved
                      ELSE IF p \in tie.assignment.packets THEN tie.labels[p] ELSE Unresolved]

(* A tie-break label for agreeing primaries is an error.                   *)
Resolvable(left, right, tie) ==
    tie # NoTieBreak => tie.assignment.packets \subseteq Disagreement(left, right)

(* BuildAdjudicationLedger.  The blinding analysis it also binds is made   *)
(* from the reveal, between the reveal and the completion.                 *)
BuildLedger(left, right, tie, reveal) ==
    /\ Cardinality(ledgers) < MaxLedgers
    /\ ReviewSequence(left, right, tie) /\ RevealBinds(reveal, left, right, tie)
    /\ AnalysisBinds(left, right, reveal)
    /\ now >= reveal.at /\ Resolvable(left, right, tie)
    /\ ledgers' = ledgers \cup {[pair |-> <<left, right>>, tie |-> tie, reveal |-> reveal,
                                 resolution |-> ResolveLabels(left, right, tie)]}
    /\ UNCHANGED <<now, assignments, batches, reveals>>

ReviewNext ==
    \/ PassTime
    \/ \E slot \in {1, 2} : \E u \in Invited[slot] : AssignPrimary(slot, u)
    \/ \E a \in assignments : \E labels \in [a.packets -> Outcome] : Commit(a, labels)
    \/ \E left, right \in batches :
          \/ \E u \in Invited[3] : AssignTieBreak(u, left, right)
          \/ \E tie \in batches \cup {NoTieBreak} :
                \/ Reveal(left, right, tie)
                \/ \E reveal \in reveals : BuildLedger(left, right, tie, reveal)

ReviewSpec == ReviewInit /\ [][ReviewNext]_reviewVars

-----------------------------------------------------------------------------
Bound(l) == {l.pair[1], l.pair[2]} \cup (IF l.tie = NoTieBreak THEN {} ELSE {l.tie})

(* Every document of the review keeps its shape.                           *)
ReviewTypeOK ==
    /\ now \in 0 .. MaxNow
    /\ \A a \in assignments : a.slot \in 1 .. 3 /\ a.packets \subseteq Packet /\ a.at <= now
    /\ \A b \in batches : b.assignment \in assignments /\ b.labels \in [b.assignment.packets -> Outcome]

(* No label that a ledger counts was committed when, or after, the mapping *)
(* that ledger binds was revealed, although reviewers may commit further   *)
(* batches for their assignments at any time.                              *)
LabelsPrecedeReveal == \A l \in ledgers : \A b \in Bound(l) : b.at < l.reveal.at

(* One reveal, one outcome: ledgers assembled from the same reveal, by     *)
(* anyone and from whatever batches exist, resolve every packet alike.     *)
LedgersAgree ==
    \A l, m \in ledgers : l.reveal = m.reveal => l.resolution = m.resolution

(* A ledger rests on different reviewers, never overrules two that agree,  *)
(* and leaves nothing unresolved once a third was used, also when a        *)
(* primary reviewer committed anew after the tie-break was assigned.       *)
ResolvedByVote ==
    \A l \in ledgers :
        /\ Cardinality({b.assignment.reviewer : b \in Bound(l)}) = Cardinality(Bound(l))
        /\ \A p \in Packet \ Disagreement(l.pair[1], l.pair[2]) :
              l.resolution[p] = l.pair[1].labels[p]
        /\ l.tie # NoTieBreak => \A p \in Packet : l.resolution[p] # Unresolved

(* What anyone can assemble from the documents of a review is one blinded  *)
(* decision: labels before the reveal, one outcome, reached by vote.       *)
ReviewSound == ReviewTypeOK /\ LabelsPrecedeReveal /\ LedgersAgree /\ ResolvedByVote
=============================================================================
