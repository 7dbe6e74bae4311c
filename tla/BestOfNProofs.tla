---------------------------- MODULE BestOfNProofs ----------------------------
(***************************************************************************)
(* A Best-of-N run is sound for any number of attempts, any number of      *)
(* processes that resume it, and any number of changes of the repository.  *)
(***************************************************************************)
EXTENDS BestOfN, TLAPS

Artefact == ({"empty", "patch", "altered"} \X Index) \cup {None}
Artefacts == [Index -> Artefact]
Change   == [by : Selecting \cup {None}, what : Artefact, during : SUBSET Selecting]
ChoiceOf == [state  : {"idle", "planned", "selected", "checked", "applied", "ended"},
             apply  : BOOLEAN,
             judged : Artefacts \cup {None},
             winner : Index \cup {None}]

(* The attempts' side of the run, fully typed.                             *)
AttemptTypes ==
    /\ attempt \in [Index -> {"waiting", "running", "ended", "captured", "done", "failed"}]
    /\ worktrees \subseteq Index /\ retained \subseteq worktrees
    /\ failure \in Index \cup {None}
    /\ phase \in {"attempting", "attempted", "failed", "returned"}

FileTypes ==
    /\ artifact \in Artefacts /\ produced \in Artefacts /\ manifest \in Artefacts \cup {None}
    /\ flags \in [parallel : BOOLEAN, keep : BOOLEAN, apply : BOOLEAN, offline : BOOLEAN]

(* A worktree exists while its attempt is at work, and one that could not  *)
(* be removed belongs to a failed attempt; a failure is remembered.        *)
AttemptInv ==
    \A a \in Index :
        /\ attempt[a] \in {"running", "ended", "captured"} => a \in worktrees
        /\ a \in retained => attempt[a] = "failed"
        /\ attempt[a] = "failed" => failure # None

(* Nothing is judged before every attempt is over.                         *)
ManifestInv ==
    /\ phase \in {"attempted", "returned"} => \A a \in Index : attempt[a] = "done"
    /\ manifest # None => phase = "returned" /\ manifest = produced
    /\ \A p \in Selecting : choice[p].judged # None => phase = "returned" /\ choice[p].judged = produced

(* A process that is about to patch was allowed to, has a winner, and was  *)
(* between its comparison and git apply at every change made since.        *)
ChoiceInv ==
    /\ choice \in [Selecting -> ChoiceOf] /\ tree \in Seq(Change)
    /\ \A p \in Selecting :
          /\ choice[p].apply => flags.apply
          /\ choice[p].state \in {"selected", "checked"} => choice[p].apply /\ choice[p].winner \in Index
          /\ choice[p].state = "checked" => \A j \in DOMAIN tree : p \in tree[j].during

BonInv ==
    /\ AttemptTypes /\ FileTypes /\ AttemptInv /\ WorktreesAccounted
    /\ ManifestInv /\ ChoiceInv /\ PatchFollowsComparison


LEMMA BonInitInv == BonInit => BonInv
<1> SUFFICES ASSUME BonInit PROVE BonInv
  OBVIOUS
<1>1. AttemptTypes /\ FileTypes
  BY DEF BonInit, AttemptTypes, FileTypes, Artefacts, Artefact
<1>2. AttemptInv /\ WorktreesAccounted /\ ManifestInv
  BY DEF BonInit, AttemptInv, WorktreesAccounted, ManifestInv
<1>3. ChoiceInv /\ PatchFollowsComparison
  BY DEF BonInit, ChoiceInv, PatchFollowsComparison, ChoiceOf
<1> QED
  BY <1>1, <1>2, <1>3 DEF BonInv

(* What an attempt does leaves the repository and the selections alone.    *)
LEMMA DestinationKept ==
    ASSUME BonInv, UNCHANGED <<flags, tree, choice>>
    PROVE  ChoiceInv' /\ PatchFollowsComparison'
BY DEF BonInv, ChoiceInv, PatchFollowsComparison

LEMMA AttemptStepInv ==
    ASSUME BonInv, NEW a \in Index,
           \/ StartAttempt(a) \/ EndCommand(a) \/ AbortAttempt(a)
           \/ CaptureDiff(a) \/ FinishAttempt(a) \/ AlterArtifact(a)
    PROVE  BonInv'
<1> USE DEF BonInv
<1>0. UNCHANGED <<flags, tree, choice, manifest, phase>>
  BY DEF StartAttempt, EndCommand, AbortAttempt, CaptureDiff, FinishAttempt, AlterArtifact
<1>1. ChoiceInv' /\ PatchFollowsComparison'
  BY <1>0, DestinationKept
<1>2. CASE StartAttempt(a)
  <2>1. AttemptTypes' /\ AttemptInv' /\ WorktreesAccounted'
    BY <1>2, BestOfNAssumption DEF StartAttempt, ToAttempt, FailAttempt, AttemptTypes, AttemptInv, WorktreesAccounted, Index
  <2>2. FileTypes'
    BY <1>2 DEF StartAttempt, FileTypes
  <2>3. ManifestInv'
    BY <1>2 DEF StartAttempt, ManifestInv
  <2> QED
    BY <1>1, <2>1, <2>2, <2>3
<1>3. CASE EndCommand(a)
  <2>1. AttemptTypes' /\ AttemptInv' /\ WorktreesAccounted'
    BY <1>3 DEF EndCommand, ToAttempt, AttemptTypes, AttemptInv, WorktreesAccounted
  <2>2. FileTypes'
    BY <1>3 DEF EndCommand, FileTypes
  <2>3. ManifestInv'
    BY <1>3 DEF EndCommand, ManifestInv, ToAttempt
  <2> QED
    BY <1>1, <2>1, <2>2, <2>3
<1>4. CASE AbortAttempt(a)
  <2>1. AttemptTypes' /\ AttemptInv' /\ WorktreesAccounted'
    BY <1>4, BestOfNAssumption DEF AbortAttempt, FailAttempt, RemoveWorktree, AttemptTypes, AttemptInv, WorktreesAccounted, Index
  <2>2. FileTypes'
    BY <1>4 DEF AbortAttempt, FileTypes
  <2>3. ManifestInv'
    BY <1>4 DEF AbortAttempt, ManifestInv
  <2> QED
    BY <1>1, <2>1, <2>2, <2>3
<1>5. CASE CaptureDiff(a)
  <2>1. AttemptTypes' /\ AttemptInv' /\ WorktreesAccounted'
    BY <1>5 DEF CaptureDiff, ToAttempt, AttemptTypes, AttemptInv, WorktreesAccounted
  <2>2. FileTypes'
    <3>1. PICK diff \in {"empty", "patch"} :
             /\ artifact' = [artifact EXCEPT ![a] = <<diff, a>>]
             /\ produced' = [produced EXCEPT ![a] = <<diff, a>>]
      BY <1>5 DEF CaptureDiff
    <3>2. <<diff, a>> \in Artefact
      BY DEF Artefact
    <3> QED
      BY <1>5, <3>1, <3>2 DEF CaptureDiff, FileTypes, Artefacts
  <2>3. phase \notin {"attempted", "returned"}
    BY <1>5 DEF CaptureDiff, ToAttempt, ManifestInv
  <2>4. ManifestInv'
    BY <1>0, <2>3 DEF ManifestInv
  <2> QED
    BY <1>1, <2>1, <2>2, <2>4
<1>6. CASE FinishAttempt(a)
  <2>1. AttemptTypes' /\ AttemptInv' /\ WorktreesAccounted'
    BY <1>6, BestOfNAssumption
    DEF FinishAttempt, ToAttempt, FailAttempt, RemoveWorktree, AttemptTypes, AttemptInv, WorktreesAccounted, Index
  <2>2. FileTypes'
    BY <1>6 DEF FinishAttempt, FileTypes
  <2>3. ManifestInv'
    BY <1>6 DEF FinishAttempt, ManifestInv
  <2> QED
    BY <1>1, <2>1, <2>2, <2>3
<1>7. CASE AlterArtifact(a)
  <2>1. AttemptTypes' /\ AttemptInv' /\ WorktreesAccounted' /\ ManifestInv'
    BY <1>7 DEF AlterArtifact, AttemptTypes, AttemptInv, WorktreesAccounted, ManifestInv
  <2>2. FileTypes'
    BY <1>7 DEF AlterArtifact, FileTypes, Artefacts, Artefact
  <2> QED
    BY <1>1, <2>1, <2>2
<1> QED
  BY <1>2, <1>3, <1>4, <1>5, <1>6, <1>7

LEMMA RunStepInv ==
    ASSUME BonInv, Interrupt \/ EndAttempts \/ WriteManifest \/ UNCHANGED bonVars
    PROVE  BonInv'
<1> USE DEF BonInv
<1>1. CASE Interrupt \/ UNCHANGED bonVars
  BY <1>1, DestinationKept
  DEF Interrupt, attemptVars, bonVars, AttemptTypes, FileTypes, AttemptInv, WorktreesAccounted, ManifestInv
<1>2. CASE EndAttempts
  <2>1. AttemptTypes' /\ FileTypes' /\ AttemptInv' /\ WorktreesAccounted'
    BY <1>2 DEF EndAttempts, attemptVars, AttemptTypes, FileTypes, AttemptInv, WorktreesAccounted
  <2>2. phase' = "attempted" => \A a \in Index : attempt[a] = "done"
    BY <1>2 DEF EndAttempts, AttemptInv
  <2>3. ManifestInv'
    BY <1>2, <2>2 DEF EndAttempts, attemptVars, ManifestInv
  <2>4. ChoiceInv' /\ PatchFollowsComparison'
    BY <1>2, DestinationKept DEF EndAttempts
  <2> QED
    BY <2>1, <2>3, <2>4
<1>3. CASE WriteManifest
  <2>1. AttemptTypes' /\ AttemptInv' /\ WorktreesAccounted' /\ FileTypes'
    BY <1>3 DEF WriteManifest, attemptVars, AttemptTypes, AttemptInv, WorktreesAccounted, FileTypes
  <2>2. \/ phase' = "failed" /\ UNCHANGED <<manifest, choice>>
        \/ phase' = "returned" /\ manifest' = produced /\ UNCHANGED choice
        \/ /\ phase' = "returned" /\ manifest' = produced
           /\ choice' = [choice EXCEPT ![Offline] =
                [state |-> "planned", apply |-> flags.apply, judged |-> produced, winner |-> None]]
    BY <1>3 DEF WriteManifest
  <2>3. phase = "attempted" /\ UNCHANGED <<flags, tree, attempt, produced>>
    BY <1>3 DEF WriteManifest, attemptVars
  <2>4. Offline \in Selecting
    BY DEF Selecting
  <2>5. ManifestInv'
    BY <2>2, <2>3, <2>4 DEF ManifestInv, ChoiceInv
  <2>6. ChoiceInv'
    BY <2>2, <2>3, <2>4 DEF ChoiceInv, ChoiceOf, FileTypes
  <2>7. PatchFollowsComparison'
    BY <2>3 DEF PatchFollowsComparison
  <2> QED
    BY <2>1, <2>5, <2>6, <2>7
<1> QED
  BY <1>1, <1>2, <1>3

(* A selection leaves the attempts and the manifest alone.                 *)
LEMMA AttemptSideKept ==
    ASSUME BonInv, UNCHANGED selectionOnly
    PROVE  /\ AttemptTypes' /\ FileTypes' /\ AttemptInv' /\ WorktreesAccounted'
           /\ (\A p \in Selecting : choice'[p].judged # None =>
                  phase = "returned" /\ choice'[p].judged = produced) => ManifestInv'
BY DEF BonInv, selectionOnly, attemptVars, AttemptTypes, FileTypes, AttemptInv, WorktreesAccounted, ManifestInv

(* What a process may make of its choice while it changes nothing else.    *)
LEMMA ChoiceSuffices ==
    ASSUME BonInv, NEW p \in Selecting, NEW c \in ChoiceOf,
           UNCHANGED <<selectionOnly, tree>>, Choose(p, c),
           c.judged # None => phase = "returned" /\ c.judged = produced,
           c.apply => flags.apply,
           c.state \in {"selected", "checked"} => c.apply /\ c.winner \in Index,
           c.state = "checked" => tree = <<>>
    PROVE  BonInv'
<1> USE DEF BonInv
<1>1. choice' \in [Selecting -> ChoiceOf] /\ choice'[p] = c /\ \A q \in Selecting \ {p} : choice'[q] = choice[q]
  BY DEF Choose, ChoiceInv
<1>2. UNCHANGED <<flags, tree, phase, produced>>
  BY DEF selectionOnly, attemptVars
<1>3. AttemptTypes' /\ FileTypes' /\ AttemptInv' /\ WorktreesAccounted' /\ ManifestInv'
  <2>1. \A q \in Selecting : choice'[q].judged # None => phase = "returned" /\ choice'[q].judged = produced
    BY <1>1 DEF ManifestInv
  <2> QED
    BY <2>1, AttemptSideKept
<1>4. ChoiceInv'
  BY <1>1, <1>2 DEF ChoiceInv
<1>5. PatchFollowsComparison'
  BY <1>2 DEF PatchFollowsComparison
<1> QED
  BY <1>3, <1>4, <1>5

LEMMA SelectionStepInv ==
    ASSUME BonInv, NEW p \in Selecting, Resume(p) \/ Select(p) \/ CheckDestination(p)
    PROVE  BonInv'
<1> USE DEF BonInv
<1>0. /\ choice[p] \in ChoiceOf
      /\ choice[p].judged # None => phase = "returned" /\ choice[p].judged = produced
      /\ choice[p].apply => flags.apply
      /\ choice[p].state = "selected" => choice[p].apply /\ choice[p].winner \in Index
  BY DEF ChoiceInv, ManifestInv
<1>1. CASE Resume(p)
  <2>1. UNCHANGED <<selectionOnly, tree>>
    BY <1>1 DEF Resume
  <2>2. CASE /\ artifact = manifest
             /\ \E apply \in {FALSE, flags.apply} :
                   Choose(p, [choice[p] EXCEPT !.state = "planned", !.apply = apply, !.judged = artifact])
    <3>1. PICK apply \in {FALSE, flags.apply} :
             Choose(p, [choice[p] EXCEPT !.state = "planned", !.apply = apply, !.judged = artifact])
      BY <2>2
    <3> DEFINE c == [choice[p] EXCEPT !.state = "planned", !.apply = apply, !.judged = artifact]
    <3>2. artifact = produced /\ phase = "returned"
      BY <1>1, <2>2 DEF Resume, ManifestInv
    <3>3. c \in ChoiceOf /\ c.state = "planned" /\ c.apply = apply /\ c.judged = artifact
      BY <1>0 DEF ChoiceOf, FileTypes
    <3>4. apply => flags.apply
      OBVIOUS
    <3> HIDE DEF c
    <3>5. Choose(p, c)
      BY <3>1 DEF c
    <3> QED
      BY <2>1, <3>2, <3>3, <3>4, <3>5, ChoiceSuffices
  <2>3. CASE Choose(p, [choice[p] EXCEPT !.state = "ended"])
    <3> DEFINE c == [choice[p] EXCEPT !.state = "ended"]
    <3>1. c \in ChoiceOf /\ c.state = "ended" /\ c.apply = choice[p].apply /\ c.judged = choice[p].judged
      BY <1>0 DEF ChoiceOf
    <3>2. Choose(p, c)
      BY <2>3
    <3> HIDE DEF c
    <3> QED
      BY <1>0, <2>1, <3>1, <3>2, ChoiceSuffices
  <2> QED
    BY <1>1, <2>2, <2>3 DEF Resume
<1>2. CASE Select(p)
  <2>1. UNCHANGED <<selectionOnly, tree>>
    BY <1>2 DEF Select
  <2>2. PICK w \in Index \cup {None} :
           Choose(p, [choice[p] EXCEPT !.winner = w,
                        !.state = IF choice[p].apply /\ w # None THEN "selected" ELSE "ended"])
    BY <1>2 DEF Select
  <2> DEFINE s == IF choice[p].apply /\ w # None THEN "selected" ELSE "ended"
             c == [choice[p] EXCEPT !.winner = w, !.state = s]
  <2>3. s \in {"selected", "ended"} /\ (s = "selected" => choice[p].apply /\ w \in Index)
    OBVIOUS
  <2>4. Choose(p, c)
    BY <2>2
  <2> HIDE DEF s
  <2>5. c \in ChoiceOf /\ c.state = s /\ c.winner = w /\ c.apply = choice[p].apply /\ c.judged = choice[p].judged
    BY <1>0, <2>3 DEF ChoiceOf
  <2> HIDE DEF c
  <2> QED
    BY <1>0, <2>1, <2>3, <2>4, <2>5, ChoiceSuffices
<1>3. CASE CheckDestination(p)
  <2>1. UNCHANGED <<selectionOnly, tree>> /\ choice[p].state = "selected"
    BY <1>3 DEF CheckDestination
  <2> DEFINE s == IF choice[p].judged[choice[p].winner][1] = "patch" /\ tree = <<>> THEN "checked" ELSE "ended"
             c == [choice[p] EXCEPT !.state = s]
  <2>2. s \in {"checked", "ended"} /\ (s = "checked" => tree = <<>>)
    OBVIOUS
  <2>3. Choose(p, c)
    BY <1>3 DEF CheckDestination
  <2> HIDE DEF s
  <2>4. /\ c \in ChoiceOf /\ c.state = s /\ c.winner = choice[p].winner
        /\ c.apply = choice[p].apply /\ c.judged = choice[p].judged
    BY <1>0, <2>2 DEF ChoiceOf
  <2> HIDE DEF c
  <2> QED
    BY <1>0, <2>1, <2>2, <2>3, <2>4, ChoiceSuffices
<1> QED
  BY <1>1, <1>2, <1>3

(* A change on top of the repository, made by git apply or by its user.    *)
LEMMA ChangeAppended ==
    ASSUME BonInv, NEW x \in Change, tree' = Append(tree, x), x.during = Committed,
           choice' \in [Selecting -> ChoiceOf], UNCHANGED flags,
           \A q \in Selecting : /\ choice'[q].apply = choice[q].apply
                                /\ choice'[q].winner = choice[q].winner
                                /\ choice'[q].state \in {choice[q].state, "applied", "ended"},
           x.by # None => x.by \in Selecting /\ choice[x.by].state = "checked"
    PROVE  ChoiceInv' /\ PatchFollowsComparison'
<1> USE DEF BonInv
<1>1. /\ tree \in Seq(Change) /\ tree' \in Seq(Change) /\ Len(tree) \in Nat
      /\ DOMAIN tree = 1 .. Len(tree) /\ DOMAIN tree' = 1 .. (Len(tree) + 1)
      /\ tree'[Len(tree) + 1] = x /\ \A j \in 1 .. Len(tree) : tree'[j] = tree[j]
  BY DEF ChoiceInv
<1>2. ChoiceInv'
  <2> SUFFICES ASSUME NEW q \in Selecting
               PROVE  /\ choice'[q].apply => flags.apply
                      /\ choice'[q].state \in {"selected", "checked"} => choice'[q].apply /\ choice'[q].winner \in Index
                      /\ choice'[q].state = "checked" => \A j \in DOMAIN tree' : q \in tree'[j].during
    BY <1>1 DEF ChoiceInv
  <2>1. /\ choice'[q].apply => flags.apply
        /\ choice'[q].state \in {"selected", "checked"} => choice'[q].apply /\ choice'[q].winner \in Index
    BY DEF ChoiceInv
  <2>2. ASSUME choice'[q].state = "checked", NEW j \in DOMAIN tree' PROVE q \in tree'[j].during
    <3>1. choice[q].state = "checked" /\ q \in Committed
      BY <2>2 DEF Committed
    <3>2. CASE j \in 1 .. Len(tree)
      BY <1>1, <3>1, <3>2 DEF ChoiceInv
    <3>3. CASE j = Len(tree) + 1
      BY <1>1, <3>1, <3>3
    <3> QED
      BY <1>1, <2>2, <3>2, <3>3
  <2> QED
    BY <2>1, <2>2
<1>3. PatchFollowsComparison'
  <2> SUFFICES ASSUME NEW i \in DOMAIN tree', tree'[i].by # None
               PROVE  flags.apply /\ \A j \in 1 .. (i - 1) : tree'[i].by \in tree'[j].during
    BY DEF PatchFollowsComparison
  <2>1. CASE i \in 1 .. Len(tree)
    BY <1>1, <2>1 DEF PatchFollowsComparison
  <2>2. CASE i = Len(tree) + 1
    <3>1. x.by \in Selecting /\ choice[x.by].state = "checked" /\ tree'[i] = x
      BY <1>1, <2>2
    <3>2. flags.apply /\ \A j \in 1 .. Len(tree) : x.by \in tree[j].during
      BY <1>1, <3>1 DEF ChoiceInv
    <3>3. \A j \in 1 .. (i - 1) : j \in 1 .. Len(tree) /\ tree'[j] = tree[j]
      BY <1>1, <2>2
    <3> QED
      BY <3>1, <3>2, <3>3
  <2> QED
    BY <1>1, <2>1, <2>2
<1> QED
  BY <1>2, <1>3

LEMMA ApplyStepInv ==
    ASSUME BonInv, NEW p \in Selecting, ApplyPatch(p)
    PROVE  BonInv'
<1> USE DEF BonInv
<1>1. UNCHANGED selectionOnly /\ UNCHANGED flags /\ choice[p].state = "checked" /\ choice[p] \in ChoiceOf
  BY DEF ApplyPatch, selectionOnly, ChoiceInv
<1>2. CASE Choose(p, [choice[p] EXCEPT !.state = "ended"]) /\ UNCHANGED tree
  <2> DEFINE c == [choice[p] EXCEPT !.state = "ended"]
  <2>1. c \in ChoiceOf /\ c.state = "ended" /\ c.apply = choice[p].apply /\ c.judged = choice[p].judged
    BY <1>1 DEF ChoiceOf
  <2>2. Choose(p, c)
    BY <1>2
  <2>3. /\ choice[p].judged # None => phase = "returned" /\ choice[p].judged = produced
        /\ choice[p].apply => flags.apply
    BY DEF ChoiceInv, ManifestInv
  <2> HIDE DEF c
  <2> QED
    BY <1>1, <1>2, <2>1, <2>2, <2>3, ChoiceSuffices
<1>3. CASE \E state \in {"applied", "ended"} :
              /\ Choose(p, [choice[p] EXCEPT !.state = state])
              /\ tree' = Append(tree, [by |-> p, what |-> artifact[choice[p].winner], during |-> Committed])
  <2>1. PICK state \in {"applied", "ended"} :
              /\ Choose(p, [choice[p] EXCEPT !.state = state])
              /\ tree' = Append(tree, [by |-> p, what |-> artifact[choice[p].winner], during |-> Committed])
    BY <1>3
  <2> DEFINE c == [choice[p] EXCEPT !.state = state]
             x == [by |-> p, what |-> artifact[choice[p].winner], during |-> Committed]
  <2>2. /\ c \in ChoiceOf /\ c.state = state /\ c.apply = choice[p].apply
        /\ c.judged = choice[p].judged /\ c.winner = choice[p].winner
    BY <1>1 DEF ChoiceOf
  <2>3. choice' = [choice EXCEPT ![p] = c]
    BY <2>1 DEF Choose
  <2>4. artifact[choice[p].winner] \in Artefact
    BY <1>1 DEF ChoiceInv, FileTypes, Artefacts
  <2>5. x \in Change /\ x.by = p /\ x.during = Committed
    BY <2>4 DEF Change, Committed
  <2>6. tree' = Append(tree, x)
    BY <2>1
  <2> HIDE DEF c, x
  <2>7. choice' \in [Selecting -> ChoiceOf] /\ choice'[p] = c /\ \A q \in Selecting \ {p} : choice'[q] = choice[q]
    BY <2>2, <2>3 DEF ChoiceInv
  <2>8. \A q \in Selecting : /\ choice'[q].apply = choice[q].apply /\ choice'[q].winner = choice[q].winner
                             /\ choice'[q].judged = choice[q].judged
                             /\ choice'[q].state \in {choice[q].state, "applied", "ended"}
    BY <2>2, <2>7
  <2>9. ChoiceInv' /\ PatchFollowsComparison'
    BY <1>1, <2>5, <2>6, <2>7, <2>8, ChangeAppended
  <2>10. \A q \in Selecting : choice'[q].judged # None => phase = "returned" /\ choice'[q].judged = produced
    BY <2>8 DEF ManifestInv
  <2> QED
    BY <1>1, <2>9, <2>10, AttemptSideKept
<1> QED
  BY <1>2, <1>3 DEF ApplyPatch

LEMMA EditStepInv ==
    ASSUME BonInv, UserEdits
    PROVE  BonInv'
<1> USE DEF BonInv
<1>1. UNCHANGED selectionOnly /\ UNCHANGED <<flags, choice>>
  BY DEF UserEdits, selectionOnly
<1>2. AttemptTypes' /\ FileTypes' /\ AttemptInv' /\ WorktreesAccounted' /\ ManifestInv'
  BY <1>1, AttemptSideKept DEF ManifestInv
<1>3. CASE tree' = Append(tree, [by |-> None, what |-> None, during |-> Committed])
  <2> DEFINE x == [by |-> None, what |-> None, during |-> Committed]
  <2>1. x \in Change /\ x.by = None /\ x.during = Committed
    BY DEF Change, Committed, Artefact
  <2>2. tree' = Append(tree, x)
    BY <1>3
  <2> HIDE DEF x
  <2>3. choice' \in [Selecting -> ChoiceOf]
    BY <1>1 DEF ChoiceInv
  <2> QED
    BY <1>1, <1>2, <2>1, <2>2, <2>3, ChangeAppended
<1>4. CASE tree # <<>> /\ tree' = SubSeq(tree, 1, Len(tree) - 1)
  <2>1. /\ tree' \in Seq(Change) /\ Len(tree) \in Nat \ {0} /\ DOMAIN tree = 1 .. Len(tree)
        /\ DOMAIN tree' = 1 .. (Len(tree) - 1)
        /\ \A j \in 1 .. (Len(tree) - 1) : tree'[j] = tree[j]
    BY <1>4 DEF ChoiceInv
  <2>2. ChoiceInv'
    BY <1>1, <2>1 DEF ChoiceInv
  <2>3. PatchFollowsComparison'
    BY <1>1, <2>1 DEF PatchFollowsComparison
  <2> QED
    BY <1>2, <2>2, <2>3
<1> QED
  BY <1>3, <1>4 DEF UserEdits

LEMMA BonStepInv == BonInv /\ [BonNext]_bonVars => BonInv'
<1> SUFFICES ASSUME BonInv, [BonNext]_bonVars PROVE BonInv'
  OBVIOUS
<1>1. CASE \E a \in Index : \/ StartAttempt(a) \/ EndCommand(a) \/ AbortAttempt(a)
                            \/ CaptureDiff(a) \/ FinishAttempt(a) \/ AlterArtifact(a)
  BY <1>1, AttemptStepInv
<1>2. CASE Interrupt \/ EndAttempts \/ WriteManifest \/ UNCHANGED bonVars
  BY <1>2, RunStepInv
<1>3. CASE UserEdits
  BY <1>3, EditStepInv
<1>4. CASE \E p \in Resumer : Resume(p)
  BY <1>4, SelectionStepInv DEF Selecting
<1>5. CASE \E p \in Selecting : Select(p) \/ CheckDestination(p) \/ ApplyPatch(p)
  BY <1>5, SelectionStepInv, ApplyStepInv
<1> QED
  BY <1>1, <1>2, <1>3, <1>4, <1>5 DEF BonNext

(* A Best-of-N run leaves no forgotten worktree on any error path, judges  *)
(* exactly what its attempts produced, and refuses to patch a repository   *)
(* that had changed when applyBonDiff compared it, whoever resumes it and  *)
(* whatever is edited meanwhile.  What changes between that comparison and *)
(* git apply is outside of this theorem.                                   *)
THEOREM BestOfNIsSound == BonSpec => []BonSound
<1>1. BonInv => BonSound
  BY DEF BonInv, BonSound, BonTypeOK, AttemptTypes, ChoiceInv, ChoiceOf, ManifestInv, JudgedAsProduced
<1> QED
  BY <1>1, BonInitInv, BonStepInv, PTL DEF BonSpec
==============================================================================
