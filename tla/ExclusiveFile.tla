---------------------------- MODULE ExclusiveFile ----------------------------
(***************************************************************************)
(* PublishSensitiveExclusive of internal/safety/cache_file.go, down to the *)
(* system calls: several processes publish to one path.  Each creates a    *)
(* temporary file, fills and syncs it, links it to the path, syncs the     *)
(* directory and removes the temporary name.  Every step may fail, any     *)
(* process may die and the power may fail between any two of them.         *)
(*                                                                         *)
(* An inode is named by the publisher that created it.                     *)
(***************************************************************************)
EXTENDS Naturals

CONSTANTS
    Publisher,   \* processes that publish to the path
    NoFile,      \* the path has no entry
    PowerCuts    \* bound: power losses

ASSUME ExclusiveAssumption ==
    /\ NoFile \notin Publisher
    /\ PowerCuts \in Nat

VARIABLES
    entry,       \* the inode at the path, as processes see it
    durable,     \* the inode at the path that a power loss leaves for certain
    whole,       \* publishers whose inode has all its data on disk
    temps,       \* publishers whose temporary name is in the directory
    ppc,         \* how far each publisher is
    cuts         \* history: power losses so far

exclusiveVars == <<entry, durable, whole, temps, ppc, cuts>>

Running == {"created", "filled", "linked", "synced", "failing"}

ExclusiveInit ==
    /\ entry = NoFile /\ durable = NoFile /\ whole = {} /\ temps = {}
    /\ ppc = [p \in Publisher |-> "idle"] /\ cuts = 0

Step(p, from, to) == ppc[p] = from /\ ppc' = [ppc EXCEPT ![p] = to]

(* The root is opened, the directory made, and createAtomicCandidate finds *)
(* a free temporary name; any of it may fail.                              *)
Create(p) ==
    /\ \/ Step(p, "idle", "created") /\ temps' = temps \cup {p}
       \/ Step(p, "idle", "refused") /\ UNCHANGED temps
    /\ UNCHANGED <<entry, durable, whole, cuts>>

(* Mutant: the data is written and not synced.                             *)
FillUnsynced(p) ==
    /\ Step(p, "created", "filled") \/ Step(p, "created", "failing")
    /\ UNCHANGED <<entry, durable, whole, temps, cuts>>

(* writeAndSyncSensitive: mode, data, fsync, close.                        *)
Fill(p) ==
    /\ \/ Step(p, "created", "filled") /\ whole' = whole \cup {p}
       \/ Step(p, "created", "failing") /\ UNCHANGED whole
    /\ UNCHANGED <<entry, durable, temps, cuts>>

(* Mutant: the candidate is renamed over the path, as PublishSensitive     *)
(* does.                                                                   *)
LinkReplace(p) ==
    /\ \/ Step(p, "filled", "linked") /\ entry' = p
       \/ Step(p, "filled", "failing") /\ UNCHANGED entry
    /\ UNCHANGED <<durable, whole, temps, cuts>>

(* root.Link succeeds only where the path has no entry yet.                *)
Link(p) ==
    /\ \/ Step(p, "filled", "linked") /\ entry = NoFile /\ entry' = p
       \/ Step(p, "filled", "failing") /\ UNCHANGED entry
    /\ UNCHANGED <<durable, whole, temps, cuts>>

(* Mutant: the link is reported without syncing the directory.             *)
SkipSyncDirectory(p) ==
    /\ Step(p, "linked", "synced")
    /\ UNCHANGED <<entry, durable, whole, temps, cuts>>

(* syncRootDirectory; when it fails the error is reported although the     *)
(* document is already at its path.                                        *)
SyncDirectory(p) ==
    /\ \/ Step(p, "linked", "synced") /\ durable' = entry
       \/ Step(p, "linked", "failing") /\ UNCHANGED durable
    /\ UNCHANGED <<entry, whole, temps, cuts>>

(* The deferred calls remove the temporary name, ignoring an error, and    *)
(* close the root: that error replaces a success.                          *)
Return(p) ==
    /\ \/ Step(p, "synced", "acked") \/ Step(p, "synced", "failed") \/ Step(p, "failing", "failed")
    /\ temps' \in {temps, temps \ {p}}
    /\ UNCHANGED <<entry, durable, whole, cuts>>

ProcessCrash(p) ==
    /\ ppc[p] \in Running
    /\ ppc' = [ppc EXCEPT ![p] = "dead"]
    /\ UNCHANGED <<entry, durable, whole, temps, cuts>>

(* The directory keeps the entry it was synced with or the later one; a    *)
(* removed temporary name may come back, an unsynced one may be gone.      *)
PowerCut ==
    /\ cuts < PowerCuts /\ cuts' = cuts + 1
    /\ \E e \in {durable, entry} : entry' = e /\ durable' = e
    /\ temps' \in SUBSET {p \in Publisher : ppc[p] \notin {"idle", "refused"}}
    /\ ppc' = [p \in Publisher |-> IF ppc[p] \in Running THEN "dead" ELSE ppc[p]]
    /\ UNCHANGED whole

ExclusiveNext ==
    \/ PowerCut
    \/ \E p \in Publisher :
          Create(p) \/ Fill(p) \/ Link(p) \/ SyncDirectory(p) \/ Return(p) \/ ProcessCrash(p)

ExclusiveSpec == ExclusiveInit /\ [][ExclusiveNext]_exclusiveVars

------------------------------------------------------------------------------

(* Every variable of the publication keeps its type.                       *)
ExclusiveTypeOK ==
    /\ entry \in Publisher \cup {NoFile} /\ durable \in Publisher \cup {NoFile}
    /\ whole \subseteq Publisher /\ temps \subseteq Publisher
    /\ ppc \in [Publisher -> Running \cup {"idle", "refused", "acked", "failed", "dead"}]
    /\ cuts \in Nat

(* A reader of the path never meets a partly written document, also after  *)
(* a power loss: what is linked was filled and synced before.              *)
EntryIsWhole == entry # NoFile => entry \in whole

(* A publisher that was told of success finds its own document at the path *)
(* for ever, whatever the others do and whenever the power fails; so at    *)
(* most one publisher is told of success.                                  *)
SuccessIsDurable == \A p \in Publisher : ppc[p] \in {"synced", "acked"} => entry = p /\ durable = p

(* A published name leads to one whole document, and for good once its     *)
(* publisher was told (PublishSensitiveExclusive).                         *)
PublicationSound == EntryIsWhole /\ SuccessIsDurable

(* What the directory holds durably is what processes see.                 *)
DurableIsVisible == durable # NoFile => durable = entry

(* The inductive invariant behind the refinement.                          *)
ExclusiveInv ==
    /\ ExclusiveTypeOK /\ EntryIsWhole /\ SuccessIsDurable /\ DurableIsVisible
    /\ \A p \in Publisher : ppc[p] = "filled" => p \in whole
    /\ \A p \in Publisher : ppc[p] = "linked" => entry = p

Once == INSTANCE WriteOnce WITH
            Name <- {"path"}, Document <- Publisher,
            value <- [n \in {"path"} |-> entry],
            claimed <- [n \in {"path"} |-> {p \in Publisher : ppc[p] = "acked"}]

(* The publication implements the write-once register its callers rely on. *)
PublishesOnce == Once!WriteOnceSpec
==============================================================================
