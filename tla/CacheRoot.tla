------------------------------ MODULE CacheRoot ------------------------------
(***************************************************************************)
(* How several processes claim one directory as their cache root:          *)
(* CreateCacheRoot of internal/safety/cache_root.go.  A marker file holds  *)
(* the root's identity; a lock file created with O_EXCL covers writing it. *)
(* The random identity is named by the process that drew it.               *)
(***************************************************************************)
EXTENDS Naturals, FiniteSets

CONSTANTS
    Creator,     \* processes that call CreateCacheRoot
    NoRoot,      \* no marker, no root
    Kills        \* bound: processes that die

ASSUME CacheRootAssumption == Kills \in Nat /\ NoRoot \notin Creator

VARIABLES
    foreign,     \* the directory holds something that is not ours
    marker,      \* the identity in the marker file
    lock,        \* the lock file exists
    staged,      \* creators whose temporary marker is in the directory
    kpc,         \* how far each creator is
    root,        \* the identity each creator returned
    killed       \* history: creators that died

cacheRootVars == <<foreign, marker, lock, staged, kpc, root, killed>>

CacheRootInit ==
    /\ foreign \in BOOLEAN /\ marker = NoRoot /\ lock = FALSE /\ staged = {}
    /\ kpc = [c \in Creator |-> "start"] /\ root = [c \in Creator |-> NoRoot] /\ killed = {}

Advance(c, from, to) == kpc[c] = from /\ kpc' = [kpc EXCEPT ![c] = to]

(* Returning a root, with its identity.                                    *)
ReturnRoot(c, from, id) == Advance(c, from, "opened") /\ root' = [root EXCEPT ![c] = id]

(* OpenCacheRoot: a readable marker names the root.                        *)
OpenExisting(c) ==
    /\ IF marker # NoRoot THEN ReturnRoot(c, "start", marker)
       ELSE Advance(c, "start", "unowned") /\ UNCHANGED root
    /\ UNCHANGED <<foreign, marker, lock, staged, killed>>

(* cacheRootInitializationState: anything but a lock or a temporary marker *)
(* makes the directory foreign, unless it can be opened now; a lock or a   *)
(* temporary marker means that somebody else is at it.                     *)
Inspect(c) ==
    /\ IF foreign \/ marker # NoRoot THEN Advance(c, "unowned", "reopen")
       ELSE Advance(c, "unowned", IF lock \/ staged # {} THEN "busy" ELSE "allowed")
    /\ UNCHANGED <<foreign, marker, lock, staged, root, killed>>

Reopen(c) ==
    /\ IF marker # NoRoot THEN ReturnRoot(c, "reopen", marker)
       ELSE Advance(c, "reopen", "refused") /\ UNCHANGED root
    /\ UNCHANGED <<foreign, marker, lock, staged, killed>>

(* publishCacheRootMarker: the lock file is created, or "concurrent        *)
(* mutation".  When closing it fails it is removed, if that succeeds.      *)
TakeLock(c) ==
    /\ \/ Advance(c, "allowed", "busy") /\ UNCHANGED lock
       \/ ~lock /\ Advance(c, "allowed", "locked") /\ lock' = TRUE
       \/ ~lock /\ Advance(c, "allowed", "failed") /\ UNCHANGED lock
       \/ ~lock /\ Advance(c, "allowed", "stuck") /\ lock' = TRUE
    /\ UNCHANGED <<foreign, marker, staged, root, killed>>

(* Mutant: the marker is not looked for again under the lock.              *)
LookNotAgain(c) ==
    /\ Advance(c, "locked", "writing")
    /\ UNCHANGED <<foreign, marker, lock, staged, root, killed>>

(* Under the lock the marker is looked for again; it names the root.  With *)
(* anything in the directory but the lock the creation stops.              *)
LookAgain(c) ==
    /\ IF marker # NoRoot THEN Advance(c, "locked", "unlock_opened") /\ root' = [root EXCEPT ![c] = marker]
       ELSE /\ Advance(c, "locked", IF foreign \/ staged # {} THEN "unlock_failed" ELSE "writing")
            /\ UNCHANGED root
    /\ UNCHANGED <<foreign, marker, lock, staged, killed>>

(* writeAtomic: the temporary marker; a failed write removes it.           *)
Stage(c) ==
    /\ \/ Advance(c, "writing", "staged") /\ staged' = staged \cup {c}
       \/ Advance(c, "writing", "unlock_failed") /\ staged' \in {staged, staged \cup {c}}
    /\ UNCHANGED <<foreign, marker, lock, root, killed>>

(* The rename; it may fail, and after it a failed directory sync is still  *)
(* reported as an error.                                                   *)
Publish(c) ==
    /\ \/ /\ marker' = c /\ staged' = staged \ {c}
          /\ \/ Advance(c, "staged", "unlock_opened") /\ root' = [root EXCEPT ![c] = c]
             \/ Advance(c, "staged", "unlock_failed") /\ UNCHANGED root
       \/ /\ Advance(c, "staged", "unlock_failed")
          /\ staged' \in {staged, staged \ {c}} /\ UNCHANGED <<marker, root>>
    /\ UNCHANGED <<foreign, lock, killed>>

(* Mutant: the lock file stays when the creation failed.                   *)
UnlockOnSuccess(c) ==
    /\ \/ Advance(c, "unlock_opened", "opened") /\ lock' = FALSE /\ UNCHANGED root
       \/ Advance(c, "unlock_failed", "failed") /\ UNCHANGED <<lock, root>>
    /\ UNCHANGED <<foreign, marker, staged, killed>>

(* The deferred removal of the lock; failing, it turns a success into an   *)
(* error and leaves the lock.                                              *)
Unlock(c) ==
    /\ \/ Advance(c, "unlock_opened", "opened") /\ lock' = FALSE /\ UNCHANGED root
       \/ Advance(c, "unlock_failed", "failed") /\ lock' = FALSE /\ UNCHANGED root
       \/ /\ Advance(c, "unlock_opened", "stuck") \/ Advance(c, "unlock_failed", "stuck")
          /\ root' = [root EXCEPT ![c] = NoRoot] /\ UNCHANGED lock
    /\ UNCHANGED <<foreign, marker, staged, killed>>

Underway == {"locked", "writing", "staged", "unlock_opened", "unlock_failed"}

(* A process dies; its lock and its temporary marker stay.                 *)
Kill(c) ==
    /\ kpc[c] \in Underway /\ Cardinality(killed) < Kills
    /\ killed' = killed \cup {c}
    /\ kpc' = [kpc EXCEPT ![c] = "dead"] /\ root' = [root EXCEPT ![c] = NoRoot]
    /\ UNCHANGED <<foreign, marker, lock, staged>>

CacheRootNext ==
    \E c \in Creator :
        \/ OpenExisting(c) \/ Inspect(c) \/ Reopen(c) \/ TakeLock(c) \/ LookAgain(c)
        \/ Stage(c) \/ Publish(c) \/ Unlock(c) \/ Kill(c)

CacheRootSpec == CacheRootInit /\ [][CacheRootNext]_cacheRootVars

------------------------------------------------------------------------------

(* Every variable of the creation keeps its type.                          *)
CacheRootTypeOK ==
    /\ foreign \in BOOLEAN /\ lock \in BOOLEAN
    /\ marker \in Creator \cup {NoRoot} /\ root \in [Creator -> Creator \cup {NoRoot}]
    /\ staged \subseteq Creator /\ killed \subseteq Creator
    /\ kpc \in [Creator -> Underway \cup {"start", "unowned", "reopen", "allowed", "opened", "busy",
                                         "refused", "failed", "stuck", "dead"}]

(* Racing creators agree: whoever holds a root holds the identity that is  *)
(* in the marker, for good; a foreign directory is never claimed.          *)
OneIdentity ==
    /\ \A c \in Creator : root[c] # NoRoot => root[c] = marker
    /\ foreign => marker = NoRoot

(* A lock or a temporary marker, which turns every later creator away, is  *)
(* that of a rival under way, or was left by one that died or could not    *)
(* remove its own files; a creation that fails cleans up after itself.     *)
LeftoversHaveOwner ==
    /\ lock => \E c \in Creator : kpc[c] \in Underway \cup {"dead", "stuck"}
    /\ \A c \in staged : kpc[c] \in {"staged", "unlock_failed", "failed", "stuck", "dead"}

(* The identity of a directory is a write-once register: a creation that   *)
(* writes the marker decides it, and every CreateCacheRoot that returns a  *)
(* root was told the identity that was decided, which stays.               *)
Identity == INSTANCE WriteOnce WITH
                Name <- {"root"}, Document <- Creator, NoFile <- NoRoot,
                value <- [n \in {"root"} |-> marker],
                claimed <- [n \in {"root"} |-> {root[c] : c \in {d \in Creator : kpc[d] = "opened"}}]

RootIsWrittenOnce == Identity!WriteOnceSpec

(* One root, one identity, and no creator is turned away without a reason. *)
RootSound == CacheRootTypeOK /\ OneIdentity /\ LeftoversHaveOwner

(* The lock covers its holder and nobody else; nobody writes a marker      *)
(* where there is one already; a creator that succeeds has an identity.    *)
LockInv ==
    /\ \A c, d \in Creator : kpc[c] \in Underway /\ kpc[d] \in Underway => c = d
    /\ \A c \in Creator : kpc[c] \in Underway => lock
    /\ \A c \in Creator : kpc[c] \in {"writing", "staged"} => marker = NoRoot /\ ~foreign
    /\ \A c \in Creator : kpc[c] \in {"unlock_opened", "opened"} => root[c] # NoRoot

CacheRootInv == CacheRootTypeOK /\ OneIdentity /\ LeftoversHaveOwner /\ LockInv
==============================================================================
