------------------------------- MODULE BestOfN -------------------------------
(***************************************************************************)
(* evalwitness bon (cmd/evalwitness/bon*.go): an agent command is run in   *)
(* several worktrees, side by side or one after the other, its diffs are   *)
(* captured, a manifest is written, and the run itself (offline) or a      *)
(* later --resume-run selects a winner and may apply its diff to the       *)
(* repository the user goes on working in.                                 *)
(*                                                                         *)
(* The repository is the sequence of changes made to it since the run      *)
(* recorded it; its digest is that sequence.  Diff and transcript of an    *)
(* attempt are one artefact, and a digest of it is the artefact.           *)
(***************************************************************************)
EXTENDS Naturals, Sequences

CONSTANTS
    Attempts,     \* number of attempts
    Resumer,      \* processes started with --resume-run
    Offline,      \* the run itself, as the process that selects
    None,         \* no artefact, no manifest, no winner, no failure
    MaxChanges    \* bound: changes of the repository

ASSUME BestOfNAssumption ==
    Attempts \in Nat \ {0, 1} /\ MaxChanges \in Nat /\ Offline \notin Resumer /\ None \notin 1 .. Attempts

VARIABLES
    flags,        \* parallel, keep, apply, offline
    tree,         \* changes of the repository
    worktrees,    \* attempts whose worktree exists
    artifact,     \* the files of each attempt in the run directory
    attempt,      \* how far each attempt is
    retained,     \* attempts whose own error names their worktree
    failure,      \* the attempt whose error runBonAttempts returns
    interrupted,  \* the run's context ended
    phase,        \* how far runBon is
    manifest,     \* run.json
    choice,       \* what each selecting process does and knows
    produced      \* history: what each attempt's command left behind

bonVars == <<flags, tree, worktrees, artifact, attempt, retained, failure, interrupted,
             phase, manifest, choice, produced>>

Index     == 1 .. Attempts
Selecting == Resumer \cup {Offline}

(* The context of the attempts: the group's one ends with the first error. *)
ctxErr == interrupted \/ (flags.parallel /\ failure # None)

BonInit ==
    /\ flags \in [parallel : BOOLEAN, keep : BOOLEAN, apply : BOOLEAN, offline : BOOLEAN]
    /\ tree = <<>> /\ worktrees = {} /\ retained = {}
    /\ artifact = [a \in Index |-> None] /\ produced = [a \in Index |-> None]
    /\ attempt = [a \in Index |-> "waiting"]
    /\ failure = None /\ interrupted = FALSE /\ phase = "attempting" /\ manifest = None
    /\ choice = [p \in Selecting |->
                    [state |-> "idle", apply |-> FALSE, judged |-> None, winner |-> None]]

attemptVars == <<worktrees, artifact, attempt, retained, failure, produced>>

ToAttempt(a, from, to) == attempt[a] = from /\ attempt' = [attempt EXCEPT ![a] = to]

(* errgroup keeps the first error; one after the other there is only one.  *)
FailAttempt(a) ==
    /\ attempt' = [attempt EXCEPT ![a] = "failed"]
    /\ failure' = IF failure = None THEN a ELSE failure

(* Mutant: an attempt names a worktree that is gone.                       *)
RemoveAndReport(a) ==
    \/ flags.keep /\ UNCHANGED <<worktrees, retained>>
    \/ ~flags.keep /\ worktrees' = worktrees \ {a} /\ retained' \in {retained, retained \cup {a}}

(* removeWorktree: what cannot be removed is named by this attempt's error.*)
RemoveWorktree(a) ==
    \/ flags.keep /\ UNCHANGED <<worktrees, retained>>
    \/ ~flags.keep /\ worktrees' = worktrees \ {a} /\ UNCHANGED retained
    \/ ~flags.keep /\ retained' = retained \cup {a} /\ UNCHANGED worktrees

(* git worktree add, which does not look at the context.                   *)
StartAttempt(a) ==
    /\ phase = "attempting"
    /\ flags.parallel \/ \A b \in 1 .. (a - 1) : attempt[b] = "done"
    /\ \/ /\ ToAttempt(a, "waiting", "running")
          /\ worktrees' = worktrees \cup {a} /\ UNCHANGED failure
       \/ attempt[a] = "waiting" /\ FailAttempt(a) /\ UNCHANGED worktrees
    /\ UNCHANGED <<flags, tree, artifact, retained, interrupted, phase, manifest, choice, produced>>

(* The command ended, by itself or by its own timeout, before the context. *)
EndCommand(a) ==
    /\ ~ctxErr /\ ToAttempt(a, "running", "ended")
    /\ UNCHANGED <<flags, tree, worktrees, artifact, retained, failure, interrupted, phase,
                   manifest, choice, produced>>

(* Mutant: the error paths leave the worktree behind.                      *)
AbortLeavingWorktree(a) ==
    /\ attempt[a] \in {"running", "ended"} /\ FailAttempt(a)
    /\ UNCHANGED <<flags, tree, worktrees, artifact, retained, interrupted, phase, manifest,
                   choice, produced>>

(* The command could not be run, the context ended it, its diff could not  *)
(* be taken or an artefact not be written.                                 *)
AbortAttempt(a) ==
    /\ attempt[a] \in {"running", "ended"} /\ FailAttempt(a) /\ RemoveWorktree(a)
    /\ UNCHANGED <<flags, tree, artifact, interrupted, phase, manifest, choice, produced>>

(* The diff against the source, possibly empty, is written and synced.     *)
CaptureDiff(a) ==
    /\ ToAttempt(a, "ended", "captured")
    /\ \E diff \in {"empty", "patch"} :
          /\ artifact' = [artifact EXCEPT ![a] = <<diff, a>>]
          /\ produced' = [produced EXCEPT ![a] = <<diff, a>>]
    /\ UNCHANGED <<flags, tree, worktrees, retained, failure, interrupted, phase, manifest, choice>>

(* The worktree goes; if it does not, the attempt fails.                   *)
FinishAttempt(a) ==
    /\ attempt[a] = "captured" /\ RemoveWorktree(a)
    /\ IF retained' = retained THEN ToAttempt(a, "captured", "done") /\ UNCHANGED failure
       ELSE FailAttempt(a)
    /\ UNCHANGED <<flags, tree, artifact, interrupted, phase, manifest, choice, produced>>

(* runBonAttempts returns: g.Wait, or the end or first error of the loop.  *)
EndAttempts ==
    /\ phase = "attempting"
    /\ \/ \A a \in Index : attempt[a] \in {"done", "failed"}
       \/ ~flags.parallel /\ failure # None
    /\ phase' = IF failure = None THEN "attempted" ELSE "failed"
    /\ UNCHANGED <<flags, tree, attemptVars, interrupted, manifest, choice>>

(* The selection is planned and run.json written, with the digests of what *)
(* is in memory.  A live run stops here; an offline one selects.           *)
WriteManifest ==
    /\ phase = "attempted"
    /\ \/ phase' = "failed" /\ UNCHANGED <<manifest, choice>>
       \/ /\ phase' = "returned" /\ manifest' = produced
          /\ IF flags.offline
             THEN choice' = [choice EXCEPT ![Offline] =
                    [state |-> "planned", apply |-> flags.apply, judged |-> produced, winner |-> None]]
             ELSE UNCHANGED choice
    /\ UNCHANGED <<flags, tree, attemptVars, interrupted>>

Choose(p, c) == choice' = [choice EXCEPT ![p] = c]
selectionOnly == <<flags, attemptVars, interrupted, phase, manifest>>

(* Mutant: the artefacts are loaded without their digests.                 *)
ResumeUnverified(p) ==
    /\ choice[p].state = "idle" /\ manifest # None
    /\ \E apply \in {FALSE, flags.apply} :
          Choose(p, IF tree = <<>>
                    THEN [choice[p] EXCEPT !.state = "planned", !.apply = apply, !.judged = artifact]
                    ELSE [choice[p] EXCEPT !.state = "ended"])
    /\ UNCHANGED <<selectionOnly, tree>>

(* runBonResume up to Execute: the artefacts are the manifest's, --apply   *)
(* was authorised, the repository is as recorded.  Anything else, and a    *)
(* changed configuration or plan, is refused.                              *)
Resume(p) ==
    /\ choice[p].state = "idle" /\ manifest # None
    /\ \/ /\ artifact = manifest /\ tree = <<>>
          /\ \E apply \in {FALSE, flags.apply} :
                Choose(p, [choice[p] EXCEPT !.state = "planned", !.apply = apply, !.judged = artifact])
       \/ Choose(p, [choice[p] EXCEPT !.state = "ended"])
    /\ UNCHANGED <<selectionOnly, tree>>

(* Execute: a winner, an abstention or an error; without --apply the       *)
(* result is printed.                                                      *)
Select(p) ==
    /\ choice[p].state = "planned"
    /\ \E w \in Index \cup {None} :
          Choose(p, [choice[p] EXCEPT !.winner = w,
                                      !.state = IF choice[p].apply /\ w # None THEN "selected" ELSE "ended"])
    /\ UNCHANGED <<selectionOnly, tree>>

(* Mutant: the repository is not compared again after the selection.       *)
TrustDestination(p) ==
    /\ choice[p].state = "selected"
    /\ Choose(p, [choice[p] EXCEPT !.state = IF choice[p].judged[choice[p].winner][1] = "patch"
                                             THEN "checked" ELSE "ended"])
    /\ UNCHANGED <<selectionOnly, tree>>

(* applyBonDiff: no empty diff, and the repository as it was recorded.     *)
CheckDestination(p) ==
    /\ choice[p].state = "selected"
    /\ Choose(p, [choice[p] EXCEPT !.state =
                    IF choice[p].judged[choice[p].winner][1] = "patch" /\ tree = <<>>
                    THEN "checked" ELSE "ended"])
    /\ UNCHANGED <<selectionOnly, tree>>

(* Whoever has checked the repository and not applied yet.                 *)
Committed == {p \in Selecting : choice[p].state = "checked"}

(* git apply reads the diff again, and refuses one that does not fit, as   *)
(* it does one that is there already.  An index that was changed meanwhile *)
(* makes it an error although the diff is applied.                         *)
ApplyPatch(p) ==
    LET patch == artifact[choice[p].winner]
        fits  == \A i \in DOMAIN tree : tree[i].what # patch
    IN  /\ choice[p].state = "checked"
        /\ \/ /\ fits /\ tree' = Append(tree, [by |-> p, what |-> patch, during |-> Committed])
              /\ \E state \in {"applied", "ended"} : Choose(p, [choice[p] EXCEPT !.state = state])
           \/ Choose(p, [choice[p] EXCEPT !.state = "ended"]) /\ UNCHANGED tree
        /\ UNCHANGED selectionOnly

(* Somebody edits the repository, or takes an edit back.                   *)
UserEdits ==
    /\ \/ /\ Len(tree) < MaxChanges
          /\ tree' = Append(tree, [by |-> None, what |-> None, during |-> Committed])
       \/ /\ tree # <<>> /\ tree[Len(tree)].by = None
          /\ tree' = SubSeq(tree, 1, Len(tree) - 1)
    /\ UNCHANGED <<selectionOnly, choice>>

(* Somebody changes a file of the run directory.                           *)
AlterArtifact(a) ==
    /\ phase = "returned" /\ artifact[a] # <<"altered", a>>
    /\ artifact' = [artifact EXCEPT ![a] = <<"altered", a>>]
    /\ UNCHANGED <<flags, tree, worktrees, attempt, retained, failure, interrupted, phase,
                   manifest, choice, produced>>

Interrupt ==
    /\ phase = "attempting" /\ ~interrupted /\ interrupted' = TRUE
    /\ UNCHANGED <<flags, tree, attemptVars, phase, manifest, choice>>

BonNext ==
    \/ Interrupt \/ EndAttempts \/ WriteManifest \/ UserEdits
    \/ \E a \in Index :
          \/ StartAttempt(a) \/ EndCommand(a) \/ AbortAttempt(a)
          \/ CaptureDiff(a) \/ FinishAttempt(a) \/ AlterArtifact(a)
    \/ \E p \in Resumer : Resume(p)
    \/ \E p \in Selecting : Select(p) \/ CheckDestination(p) \/ ApplyPatch(p)

BonSpec == BonInit /\ [][BonNext]_bonVars

------------------------------------------------------------------------------

(* Every variable keeps its shape.                                         *)
BonTypeOK ==
    /\ attempt \in [Index -> {"waiting", "running", "ended", "captured", "done", "failed"}]
    /\ worktrees \subseteq Index /\ retained \subseteq worktrees
    /\ failure \in Index \cup {None}
    /\ phase \in {"attempting", "attempted", "failed", "returned"}
    /\ \A p \in Selecting :
          choice[p].state \in {"idle", "planned", "selected", "checked", "applied", "ended"}

(* Unless they are kept, worktrees exist only while their attempt runs, or *)
(* where removing them failed: no error path and no interruption forgets   *)
(* one (the test of cancellation covers one path of one attempt).          *)
WorktreesAccounted ==
    ~flags.keep => \A a \in worktrees \ retained : attempt[a] \in {"running", "ended", "captured"}

(* A manifest exists only if every attempt was captured and cleaned up,    *)
(* and it tells what the attempts' commands left, whatever has happened    *)
(* to the files since; a selection is made on exactly that.                *)
JudgedAsProduced ==
    /\ manifest # None => manifest = produced /\ \A a \in Index : attempt[a] = "done"
    /\ \A p \in Selecting : choice[p].judged # None => choice[p].judged = produced

(* A change of the repository made before applyBonDiff compares it stops   *)
(* the patch: whatever lies below a patch was written between its          *)
(* process's comparison and git apply.  Less than docs/spec.md promises of *)
(* --apply: see DestinationChangeFailsClosed.                              *)
PatchFollowsComparison ==
    \A i \in DOMAIN tree : tree[i].by # None =>
        /\ flags.apply
        /\ \A j \in 1 .. (i - 1) : tree[i].by \in tree[j].during

(* The changes made by a process that returned without an error.           *)
Succeeded == {i \in DOMAIN tree : tree[i].by # None /\ choice[tree[i].by].state = "applied"}

(* docs/spec.md on --apply: "Any conflict, concurrent destination change,  *)
(* artifact mismatch, abstention, tie, or cleanup error fails closed".     *)
(* Who succeeds has patched the recorded repository and nothing else: no   *)
(* edit by the user and no other process's patch lies below it             *)
(* (applyBonDiff).  This does NOT hold: UserEdits after CheckDestination,  *)
(* or another ApplyPatch, is followed by an ApplyPatch that succeeds.      *)
DestinationChangeFailsClosed == \A i \in Succeeded : i = 1

(* Of the same sentence, the artifact mismatch: who succeeds has applied   *)
(* the diff it judged.  This does NOT hold: git apply opens the file again *)
(* without its digest, so AlterArtifact may come between the two.          *)
ArtifactMismatchFailsClosed ==
    \A i \in Succeeded : LET c == choice[tree[i].by] IN tree[i].what = c.judged[c.winner]

(* "Cleanup errors report the retained path": the error of a failed run    *)
(* names every worktree that could not be removed.                         *)
RetainedReported == phase = "failed" => retained \subseteq {failure}

(* A Best-of-N run leaves no forgotten worktree, judges what its attempts  *)
(* produced, and patches no repository that had changed when it looked.    *)
BonSound == BonTypeOK /\ WorktreesAccounted /\ JudgedAsProduced /\ PatchFollowsComparison
==============================================================================
