---------------------------- MODULE ReplayCapture ----------------------------
(***************************************************************************)
(* The capture of live calls into a replay fixture: CapturingProvider of   *)
(* internal/replay/replay.go.  Several processes may capture to one path.  *)
(* Each stages a candidate file beside the target; a call's record is      *)
(* written under the capture's mutex; Close, which holds that mutex        *)
(* throughout, checks the candidate and renames it over the target.        *)
(*                                                                         *)
(* A file is [by, recs]: the inode, named by the capture that wrote it,    *)
(* and its records.  A SHA-256 digest of a file is its records, so two     *)
(* digests are equal exactly when the contents are.  A crash of the        *)
(* machine keeps what was synced and may or may not keep the rest.         *)
(***************************************************************************)
EXTENDS Naturals, Sequences

CONSTANTS
    Capture,    \* captures opened on the one path
    Call,       \* calls each capture makes
    Key,        \* fixtureKey: request fingerprint and sampling slot
    Original,   \* files the target may be before the first capture
    Crashes     \* bound: power losses

ASSUME CaptureAssumption ==
    Crashes \in Nat /\ Key # {} /\ Capture \cap {"none", "torn", "original"} = {}

VARIABLES
    target,     \* the file at the path, as processes see it
    disk,       \* the file at the path that a power loss leaves for certain
    synced,     \* captures whose candidate was fsynced
    overwrite,  \* the overwrite flag of each capture
    cpc,        \* how far each capture is
    digest,     \* originalDigest and originalExisted
    handle,     \* the original opened for copying
    candidate,  \* records staged by each capture
    sticky,     \* the buffered writer holds an error
    call,       \* state of each call
    askedKey,   \* fixture key of each call
    verified,   \* history: the target that verifyOriginalUnchanged accepted
    renamer,    \* history: the capture that renamed last
    losses      \* history: power losses so far

captureVars == <<target, disk, synced, overwrite, cpc, digest, handle, candidate,
                 sticky, call, askedKey, verified, renamer, losses>>

Absent == [by |-> "none", recs |-> <<>>]
Torn   == [by |-> "torn", recs |-> <<>>]

KeysOf(recs) == {recs[n].key : n \in DOMAIN recs}

(* LoadReplay: every line decodes and validates, and no key appears twice. *)
LoadReplay(f) ==
    /\ f.by # "torn"
    /\ \A m, n \in DOMAIN f.recs : f.recs[m].key = f.recs[n].key => m = n

(* fileDigest: existence and content, whatever the inode.                  *)
fileDigest(f) == [exists |-> f.by # "none", recs |-> f.recs]

fixtureEntry == [key : Key, by : Capture \cup {"original"}]

File == [by : Capture \cup {"none", "torn", "original"}, recs : Seq(fixtureEntry)]

(* The path is free, or it holds a fixture that loads.                     *)
ASSUME OriginalAssumption ==
    \A f \in Original : f = Absent \/ (f \in File /\ f.by = "original" /\ LoadReplay(f))

Closing  == {"flushed", "checked", "verified", "renamed"}
Returned == {"published", "unsynced", "retained"}     \* Close has returned

CaptureInit ==
    /\ target \in Original /\ disk = target
    /\ synced = {} /\ overwrite \in [Capture -> BOOLEAN]
    /\ cpc = [c \in Capture |-> "start"]
    /\ digest = [c \in Capture |-> fileDigest(Absent)]
    /\ handle = [c \in Capture |-> Absent]
    /\ candidate = [c \in Capture |-> <<>>]
    /\ sticky = [c \in Capture |-> FALSE]
    /\ call = [c \in Capture |-> [i \in Call |-> "idle"]]
    /\ askedKey = [c \in Capture |-> [i \in Call |-> CHOOSE k \in Key : TRUE]]
    /\ verified = [c \in Capture |-> Absent]
    /\ renamer = "none" /\ losses = 0

MoveTo(c, from, to) == cpc[c] = from /\ cpc' = [cpc EXCEPT ![c] = to]

(* wrapCapture creates the candidate and notes the target's digest.        *)
WrapDigest(c) ==
    /\ MoveTo(c, "start", IF overwrite[c] THEN "ready" ELSE "digested")
    /\ digest' = [digest EXCEPT ![c] = fileDigest(target)]
    /\ UNCHANGED <<target, disk, synced, overwrite, handle, candidate, sticky, call,
                   askedKey, verified, renamer, losses>>

(* Append: the original is opened; the handle keeps its inode.             *)
WrapOpen(c) ==
    /\ MoveTo(c, "digested", IF target.by = "none" THEN "ready" ELSE "opened")
    /\ handle' = [handle EXCEPT ![c] = target]
    /\ UNCHANGED <<target, disk, synced, overwrite, digest, candidate, sticky, call,
                   askedKey, verified, renamer, losses>>

(* Append: the path is loaded and checked, and the opened inode is copied. *)
WrapCopy(c) ==
    /\ MoveTo(c, "opened", IF LoadReplay(target) THEN "ready" ELSE "refused")
    /\ candidate' = IF LoadReplay(target)
                    THEN [candidate EXCEPT ![c] = handle[c].recs] ELSE candidate
    /\ UNCHANGED <<target, disk, synced, overwrite, digest, handle, sticky, call,
                   askedKey, verified, renamer, losses>>

(* CapturingProvider.Score hands the request to the inner provider.        *)
Ask(c, i) ==
    /\ cpc[c] \in {"ready"} \cup Closing \cup Returned
    /\ call[c][i] = "idle"
    /\ call' = [call EXCEPT ![c][i] = "asked"]
    /\ \E k \in Key : askedKey' = [askedKey EXCEPT ![c][i] = k]
    /\ UNCHANGED <<target, disk, synced, overwrite, cpc, digest, handle, candidate,
                   sticky, verified, renamer, losses>>

Answer(c, i, state) ==
    /\ call[c][i] = "asked"
    /\ call' = [call EXCEPT ![c][i] = state]
    /\ UNCHANGED <<target, disk, synced, overwrite, cpc, digest, handle, askedKey,
                   verified, renamer, losses>>

(* Mutant: the record is written without looking at closed.                *)
RecordWhenever(c, i) ==
    /\ cpc[c] \in {"ready"} \cup Returned /\ ~sticky[c]
    /\ Answer(c, i, "acked")
    /\ candidate' = [candidate EXCEPT ![c] = Append(@, [key |-> askedKey[c][i], by |-> c])]
    /\ UNCHANGED sticky

(* The lock is free and the capture open: the record joins the candidate.  *)
Record(c, i) ==
    /\ cpc[c] = "ready" /\ ~sticky[c]
    /\ Answer(c, i, "acked")
    /\ candidate' = [candidate EXCEPT ![c] = Append(@, [key |-> askedKey[c][i], by |-> c])]
    /\ UNCHANGED sticky

(* The inner call, the identity check or the entry's validation failed, or *)
(* the buffered writer did: that error stays in the writer.                *)
RecordFails(c, i) ==
    /\ Answer(c, i, "failed")
    /\ \/ UNCHANGED sticky
       \/ cpc[c] = "ready" /\ sticky' = [sticky EXCEPT ![c] = TRUE]
    /\ UNCHANGED candidate

(* The call got the lock after Close: "capture is closed".                 *)
RecordRefused(c, i) ==
    /\ cpc[c] \in Returned
    /\ Answer(c, i, "failed")
    /\ UNCHANGED <<candidate, sticky>>

(* Close sets closed and flushes; a sticky writer error is reported here.  *)
CloseFlush(c) ==
    /\ \/ MoveTo(c, "ready", "flushed") /\ ~sticky[c]
       \/ MoveTo(c, "ready", "retained")
    /\ UNCHANGED <<target, disk, synced, overwrite, digest, handle, candidate, sticky,
                   call, askedKey, verified, renamer, losses>>

(* Mutant: the candidate is published as it was staged.                    *)
CloseUnchecked(c) ==
    /\ MoveTo(c, "flushed", "checked")
    /\ synced' = synced \cup {c}
    /\ UNCHANGED <<target, disk, overwrite, digest, handle, candidate, sticky, call,
                   askedKey, verified, renamer, losses>>

(* Mutant: the candidate is closed without a sync.                         *)
CloseCheckUnsynced(c) ==
    /\ \/ MoveTo(c, "flushed", "checked") /\ LoadReplay([by |-> c, recs |-> candidate[c]])
       \/ MoveTo(c, "flushed", "retained")
    /\ UNCHANGED <<target, disk, synced, overwrite, digest, handle, candidate, sticky, call,
                   askedKey, verified, renamer, losses>>

(* The candidate is synced, closed, and loaded as a replay would load it.  *)
CloseCheck(c) ==
    /\ \/ /\ MoveTo(c, "flushed", "checked")
          /\ LoadReplay([by |-> c, recs |-> candidate[c]])
          /\ synced' = synced \cup {c}
       \/ /\ MoveTo(c, "flushed", "retained")
          /\ synced' \in {synced, synced \cup {c}}
    /\ UNCHANGED <<target, disk, overwrite, digest, handle, candidate, sticky, call,
                   askedKey, verified, renamer, losses>>

(* Mutant: only the existence of the target is compared.                   *)
CloseVerifyExists(c) ==
    /\ MoveTo(c, "checked", IF fileDigest(target).exists = digest[c].exists
                            THEN "verified" ELSE "retained")
    /\ verified' = [verified EXCEPT ![c] = target]
    /\ UNCHANGED <<target, disk, synced, overwrite, digest, handle, candidate, sticky,
                   call, askedKey, renamer, losses>>

(* verifyOriginalUnchanged.                                                *)
CloseVerify(c) ==
    /\ MoveTo(c, "checked", IF fileDigest(target) = digest[c] THEN "verified" ELSE "retained")
    /\ verified' = [verified EXCEPT ![c] = target]
    /\ UNCHANGED <<target, disk, synced, overwrite, digest, handle, candidate, sticky,
                   call, askedKey, renamer, losses>>

CloseRename(c) ==
    /\ \/ /\ MoveTo(c, "verified", "renamed")
          /\ target' = [by |-> c, recs |-> candidate[c]]
          /\ renamer' = c
       \/ MoveTo(c, "verified", "retained") /\ UNCHANGED <<target, renamer>>
    /\ UNCHANGED <<disk, synced, overwrite, digest, handle, candidate, sticky, call,
                   askedKey, verified, losses>>

(* The directory is synced, or that fails and Close reports it although    *)
(* the candidate is already the target.                                    *)
CloseSync(c) ==
    /\ \/ MoveTo(c, "renamed", "published") /\ disk' = target
       \/ MoveTo(c, "renamed", "unsynced") /\ UNCHANGED disk
    /\ UNCHANGED <<target, synced, overwrite, digest, handle, candidate, sticky, call,
                   askedKey, verified, renamer, losses>>

(* Power loss: the directory keeps the old entry or the new one; a file    *)
(* whose data was not synced is torn.  Every process is gone.              *)
PowerLoss ==
    /\ losses < Crashes /\ losses' = losses + 1
    /\ \E f \in {disk, IF target.by \in Capture \ synced THEN Torn ELSE target} :
          target' = f /\ disk' = f
    /\ cpc' = [c \in Capture |-> IF cpc[c] \in Returned \cup {"start", "refused"}
                                 THEN cpc[c] ELSE "dead"]
    /\ call' = [c \in Capture |-> [i \in Call |->
                    IF call[c][i] = "asked" THEN "failed" ELSE call[c][i]]]
    /\ UNCHANGED <<synced, overwrite, digest, handle, candidate, sticky, askedKey,
                   verified, renamer>>

CaptureNext ==
    \/ PowerLoss
    \/ \E c \in Capture :
          \/ WrapDigest(c) \/ WrapOpen(c) \/ WrapCopy(c)
          \/ CloseFlush(c) \/ CloseCheck(c) \/ CloseVerify(c) \/ CloseRename(c) \/ CloseSync(c)
          \/ \E i \in Call : Ask(c, i) \/ Record(c, i) \/ RecordFails(c, i) \/ RecordRefused(c, i)

CaptureSpec == CaptureInit /\ [][CaptureNext]_captureVars

------------------------------------------------------------------------------

(* Every variable of the capture keeps its type, and a capture that passed *)
(* its check has its candidate on disk.                                    *)
CaptureTypeOK ==
    /\ target \in File /\ disk \in File /\ synced \subseteq Capture
    /\ overwrite \in [Capture -> BOOLEAN] /\ sticky \in [Capture -> BOOLEAN]
    /\ cpc \in [Capture -> {"start", "digested", "opened", "ready", "refused", "dead"}
                           \cup Closing \cup Returned]
    /\ digest \in [Capture -> [exists : BOOLEAN, recs : Seq(fixtureEntry)]]
    /\ handle \in [Capture -> File] /\ verified \in [Capture -> File]
    /\ candidate \in [Capture -> Seq(fixtureEntry)]
    /\ call \in [Capture -> [Call -> {"idle", "asked", "acked", "failed"}]]
    /\ askedKey \in [Capture -> [Call -> Key]]
    /\ renamer \in Capture \cup {"none"} /\ losses \in 0..Crashes
    /\ \A c \in Capture : cpc[c] \in {"checked", "verified", "renamed", "published"} => c \in synced

(* Whatever interleaves and whenever the power fails, the file at the path *)
(* is one that LoadReplay accepts: never torn, never with a key twice,     *)
(* although a repeated call or an append can stage a repeated key.         *)
TargetLoads == LoadReplay(target)

AckedKeys(c) == {askedKey[c][i] : i \in {j \in Call : call[c][j] = "acked"}}

(* When Close has returned nil and nobody renamed after it, the record of  *)
(* every call that Score acknowledged is in the fixture, also after a      *)
(* power loss.                                                             *)
AcknowledgedSurvives ==
    \A c \in Capture : cpc[c] = "published" /\ renamer = c => AckedKeys(c) \subseteq KeysOf(target.recs)

(* A capture that appends, and copied the file it had digested, never      *)
(* drops a record that was in the target when it verified it: what it      *)
(* misses was published between that check and its rename, never before.   *)
(* (wrapCapture opens the file after digesting it and compares nothing: if *)
(* two renames change the target and change it back meanwhile, the         *)
(* verification passes although the copy lacks the target's records.)      *)
AppendKeepsRecords ==
    [][\A c \in Capture :
          /\ target'.by = c /\ target # target'
          /\ ~overwrite[c] /\ fileDigest(handle[c]) = digest[c] /\ target = verified[c]
          => KeysOf(target.recs) \subseteq KeysOf(target'.recs)]_captureVars

(* Concurrent changes of the target are rejected: once an append capture's *)
(* Close returned nil, its records stay, as long as every capture appends. *)
ConcurrentChangeRejected ==
    (\A d \in Capture : ~overwrite[d]) /\ losses = 0 =>
        \A c \in Capture : cpc[c] = "published" => AckedKeys(c) \subseteq KeysOf(target.recs)

(* The fixture at the path always loads, and holds what Score acknowledged *)
(* once Close returned nil, over rival captures and power losses.          *)
CaptureSound == CaptureTypeOK /\ TargetLoads /\ AcknowledgedSurvives
==============================================================================
