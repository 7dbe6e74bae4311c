------------------------------ MODULE CacheStore -----------------------------
(***************************************************************************)
(* The response files of the cache (internal/cache/disk.go and clear.go    *)
(* over safety.PublishSensitive): processes that store responses while     *)
(* other processes run "evalwitness cache clear --scope responses".        *)
(* operationMu orders them within a process only; between processes they   *)
(* meet in the file system, where a path is looked up anew by every call.  *)
(*                                                                         *)
(* A directory is a number; shelf tells which one is a route's "responses" *)
(* now.  Every setter stores one response of its own.                      *)
(***************************************************************************)
EXTENDS Naturals, Sequences

CONSTANTS
    Setter, Clearer,   \* processes
    Route,             \* routes, numbered in the order ReadDir lists them
    Requests,          \* the routes the setters' requests may go to
    MaxKills           \* bound: processes that die

ASSUME CacheStoreAssumption ==
    Route \subseteq Nat /\ Requests \subseteq [Setter -> Route] /\ MaxKills \in Nat

VARIABLES
    routeOf,     \* the route of each setter's request
    shelf,       \* directory named responses of each route, 0 for none
    made,        \* directories ever made
    entry,       \* responses in each directory
    draft,       \* candidates of unfinished Sets in each directory
    grave,       \* the clear whose tombstone names a directory
    gone,        \* directories that were removed
    set,         \* progress of each Set
    clear,       \* progress of each Clear
    burials,     \* history: how often each route was cleared
    kills        \* how many processes died

storeVars == <<routeOf, shelf, made, entry, draft, grave, gone, set, clear, burials, kills>>

Directory == 1 .. made

(* at and to are the directories looked up for the candidate and for the   *)
(* target; since (history) is burials when the latter was.                 *)
Fresh   == [state |-> "idle", at |-> 0, to |-> 0, since |-> 0]

(* The routes still to clear; what was stored when it began (history).     *)
Unasked == [state |-> "idle", routes |-> {}, stored |-> {}]

StoreInit ==
    /\ routeOf \in Requests
    /\ shelf = [r \in Route |-> 0] /\ burials = [r \in Route |-> 0]
    /\ made = 0 /\ kills = 0 /\ gone = {}
    /\ entry = <<>> /\ draft = <<>> /\ grave = <<>>
    /\ set = [s \in Setter |-> Fresh] /\ clear = [c \in Clearer |-> Unasked]

ToSet(s, state)   == set' = [set EXCEPT ![s].state = state]
ToClear(c, state) == clear' = [clear EXCEPT ![c].state = state]

(* A process that has ended without success: where it was does not matter. *)
EndSet(s, state)   == set' = [set EXCEPT ![s] = [Fresh EXCEPT !.state = state]]
EndClear(c, state) == clear' = [clear EXCEPT ![c] = [Unasked EXCEPT !.state = state]]

disk == <<shelf, made, entry, draft, grave, gone, burials>>

(* root.Remove(temporaryPath), which finds the candidate by its path.      *)
DropDraft(s) ==
    LET d == shelf[routeOf[s]]
    IN  draft' = IF d = 0 THEN draft ELSE [draft EXCEPT ![d] = @ \ {s}]

FailSet(s) ==
    /\ EndSet(s, "failed") /\ DropDraft(s)
    /\ UNCHANGED <<shelf, made, entry, grave, gone, clear, burials, kills>>

(* EnsureRouteIdentity and MkdirAll.                                       *)
MakeDirectory(s) ==
    /\ set[s].state = "idle"
    /\ \/ /\ shelf[routeOf[s]] # 0 /\ ToSet(s, "made")
          /\ UNCHANGED <<disk, clear, kills>>
       \/ /\ shelf[routeOf[s]] = 0 /\ ToSet(s, "made")
          /\ made' = made + 1 /\ shelf' = [shelf EXCEPT ![routeOf[s]] = made + 1]
          /\ entry' = Append(entry, {}) /\ draft' = Append(draft, {}) /\ grave' = Append(grave, {})
          /\ UNCHANGED <<gone, clear, burials, kills>>
       \/ FailSet(s)

(* createAtomicCandidate and its content, synced.                          *)
StageEntry(s) ==
    /\ set[s].state = "made"
    /\ \/ /\ shelf[routeOf[s]] # 0
          /\ set' = [set EXCEPT ![s] = [state |-> "staged", at |-> shelf[routeOf[s]], to |-> 0, since |-> 0]]
          /\ draft' = [draft EXCEPT ![shelf[routeOf[s]]] = @ \cup {s}]
          /\ UNCHANGED <<shelf, made, entry, grave, gone, clear, burials, kills>>
       \/ FailSet(s)

(* root.Rename opens the candidate's directory, then the target's.         *)
ResolveCandidate(s) ==
    /\ set[s].state = "staged"
    /\ \/ /\ shelf[routeOf[s]] = set[s].at /\ ToSet(s, "found")
          /\ UNCHANGED <<disk, clear, kills>>
       \/ FailSet(s)

ResolveTarget(s) ==
    /\ set[s].state = "found"
    /\ \/ /\ shelf[routeOf[s]] # 0
          /\ set' = [set EXCEPT ![s] = [state |-> "resolved", at |-> set[s].at, to |-> shelf[routeOf[s]],
                                        since |-> burials[routeOf[s]]]]
          /\ UNCHANGED <<disk, clear, kills>>
       \/ FailSet(s)

RenameEntry(s) ==
    /\ set[s].state = "resolved"
    /\ \/ /\ s \in draft[set[s].at] /\ set[s].to \notin gone /\ ToSet(s, "renamed")
          /\ draft' = [draft EXCEPT ![set[s].at] = @ \ {s}]
          /\ entry' = [entry EXCEPT ![set[s].to] = @ \cup {s}]
          /\ UNCHANGED <<shelf, made, grave, gone, clear, burials, kills>>
       \/ FailSet(s)

(* syncRootDirectory: an error leaves the response where it is.            *)
SyncEntry(s) ==
    /\ set[s].state = "renamed"
    /\ \/ /\ shelf[routeOf[s]] # 0
          /\ set' = [set EXCEPT ![s] = [state |-> "stored", at |-> 0, to |-> 0, since |-> set[s].since]]
       \/ EndSet(s, "unsynced")
    /\ UNCHANGED <<disk, clear, kills>>

(* ownedRouteDirectories.                                                  *)
ListRoutes(c) ==
    /\ clear[c].state = "idle"
    /\ clear' = [clear EXCEPT ![c] =
                   [state  |-> "listed",
                    routes |-> {r \in Route : shelf[r] # 0 \/ burials[r] > 0},
                    stored |-> {s \in Setter : set[s].state = "stored"}]]
    /\ UNCHANGED <<disk, set, kills>>

Current(c) == CHOOSE r \in clear[c].routes : \A other \in clear[c].routes : r <= other

(* The route is done; its directory is synced, or that fails.              *)
NextRoute(c) ==
    \/ clear' = [clear EXCEPT ![c] = [state |-> "listed", routes |-> clear[c].routes \ {Current(c)},
                                      stored |-> clear[c].stored]]
    \/ EndClear(c, "failed")

(* Lstat: there is something to remove, or there is not.                   *)
LookUp(c) ==
    /\ clear[c].state = "listed" /\ clear[c].routes # {}
    /\ IF shelf[Current(c)] # 0 THEN ToClear(c, "seen") ELSE NextRoute(c)
    /\ UNCHANGED <<disk, set, kills>>

(* Mutant: the directory is emptied where it is.                           *)
BuryInPlace(c) ==
    /\ clear[c].state = "seen" /\ shelf[Current(c)] # 0 /\ ToClear(c, "buried")
    /\ grave' = [grave EXCEPT ![shelf[Current(c)]] = {c}]
    /\ UNCHANGED <<shelf, burials, made, entry, draft, gone, set, kills>>

(* renameToTombstone: another clear may have been faster.                  *)
Bury(c) ==
    LET r == Current(c)
    IN  /\ clear[c].state = "seen"
        /\ \/ /\ shelf[r] # 0 /\ ToClear(c, "buried")
              /\ grave' = [grave EXCEPT ![shelf[r]] = {c}]
              /\ shelf' = [shelf EXCEPT ![r] = 0] /\ burials' = [burials EXCEPT ![r] = @ + 1]
           \/ EndClear(c, "failed") /\ UNCHANGED <<shelf, grave, burials>>
        /\ UNCHANGED <<made, entry, draft, gone, set, kills>>

(* A tombstone of c that is still there.                                   *)
Tomb(c) == {d \in Directory \ gone : c \in grave[d]}

RemoveDirectories(ds) ==
    /\ gone' = gone \cup ds
    /\ entry' = [d \in Directory |-> IF d \in ds THEN {} ELSE entry[d]]
    /\ draft' = [d \in Directory |-> IF d \in ds THEN {} ELSE draft[d]]

(* Some of it is removed before an error.                                  *)
RemovePartly(ds) ==
    /\ \E kept \in [ds -> SUBSET Setter] :
          entry' = [d \in Directory |-> IF d \in ds THEN entry[d] \cap kept[d] ELSE entry[d]]
    /\ UNCHANGED <<gone, draft>>

(* Mutant: what cannot be removed is passed over.                          *)
RemoveWhatGoes(c) ==
    /\ clear[c].state = "buried"
    /\ NextRoute(c) /\ (RemoveDirectories(Tomb(c)) \/ RemovePartly(Tomb(c)))
    /\ UNCHANGED <<shelf, made, grave, set, burials, kills>>

(* Mutant: RemoveAll is given the path instead of the tombstone.           *)
RemoveByPath(c) ==
    LET ds == {shelf[Current(c)]} \ {0}
    IN  /\ clear[c].state = "buried"
        /\ \/ RemoveDirectories(ds) /\ NextRoute(c)
           \/ RemovePartly(ds) /\ EndClear(c, "failed")
        /\ UNCHANGED <<shelf, made, grave, set, burials, kills>>

(* measureOwnedPath and RemoveAll; a file that comes or goes meanwhile     *)
(* makes either fail.                                                      *)
RemoveTomb(c) ==
    /\ clear[c].state = "buried"
    /\ \/ RemoveDirectories(Tomb(c)) /\ NextRoute(c)
       \/ RemovePartly(Tomb(c)) /\ EndClear(c, "failed")
    /\ UNCHANGED <<shelf, made, grave, set, burials, kills>>

ClearReturns(c) ==
    /\ clear[c].state = "listed" /\ clear[c].routes = {} /\ ToClear(c, "cleared")
    /\ UNCHANGED <<disk, set, kills>>

SetUnderWay(s)   == set[s].state \in {"made", "staged", "found", "resolved", "renamed"}
ClearUnderWay(c) == clear[c].state \in {"listed", "seen", "buried"}

Dies ==
    /\ kills < MaxKills /\ kills' = kills + 1 /\ UNCHANGED disk
    /\ \/ \E s \in Setter : SetUnderWay(s) /\ EndSet(s, "dead") /\ UNCHANGED clear
       \/ \E c \in Clearer : ClearUnderWay(c) /\ EndClear(c, "dead") /\ UNCHANGED set

StoreStep ==
    \/ Dies
    \/ \E s \in Setter :
          \/ MakeDirectory(s) \/ StageEntry(s) \/ ResolveCandidate(s)
          \/ ResolveTarget(s) \/ RenameEntry(s) \/ SyncEntry(s)
    \/ \E c \in Clearer :
          ListRoutes(c) \/ LookUp(c) \/ Bury(c) \/ RemoveTomb(c) \/ ClearReturns(c)

(* Every process has returned or died.                                     *)
AllReturned ==
    /\ \A s \in Setter : set[s].state \in {"stored", "unsynced", "failed", "dead"}
    /\ \A c \in Clearer : clear[c].state \in {"cleared", "failed", "dead"}
    /\ UNCHANGED storeVars

StoreNext == (StoreStep /\ UNCHANGED routeOf) \/ AllReturned

StoreSpec == StoreInit /\ [][StoreNext]_storeVars

------------------------------------------------------------------------------

Visible(r) == IF shelf[r] = 0 THEN {} ELSE entry[shelf[r]]

(* Every variable keeps its shape, and a directory has one name at most.   *)
StoreTypeOK ==
    /\ \A r \in Route : shelf[r] \in {0} \cup (Directory \ gone)
    /\ \A d \in Directory : entry[d] \subseteq Setter /\ draft[d] \subseteq Setter
    /\ \A d \in Directory : grave[d] # {} => \A r \in Route : shelf[r] # d
    /\ \A s \in Setter : SetUnderWay(s) \/ set[s].state \in {"idle", "stored", "unsynced", "failed", "dead"}
    /\ \A c \in Clearer : ClearUnderWay(c) \/ clear[c].state \in {"idle", "cleared", "failed", "dead"}

(* A Clear that returns nil leaves none of the responses that were stored  *)
(* when it began readable, in any route; and what is left of them on disk  *)
(* lies in the tombstone of another Clear, which is under way, died or     *)
(* returned an error.                                                      *)
ClearIsComplete ==
    \A c \in Clearer : clear[c].state = "cleared" =>
        \A d \in Directory : entry[d] \cap clear[c].stored # {} =>
            \E other \in grave[d] : clear[other].state # "cleared"

(* Set returned nil: the response is readable, unless its route was        *)
(* cleared after the last lookup of its directory.  A Clear never takes    *)
(* what was stored behind its back.                                        *)
ClearSparesNewer ==
    \A s \in Setter :
        set[s].state = "stored" /\ burials[routeOf[s]] = set[s].since => s \in Visible(routeOf[s])

(* What a process has done as AtomicCache tells it: a Set aims when it     *)
(* resolves its target and puts with its rename; a Clear asks throughout.  *)
Writing(s) ==
    CASE set[s].state \in {"idle", "made", "staged", "found"} -> "new"
      [] set[s].state = "resolved" -> "aimed"
      [] set[s].state = "renamed"  -> "put"
      [] set[s].state = "stored"   -> "told"
      [] OTHER                     -> "over"

Wiping(c) ==
    CASE clear[c].state = "idle"    -> "idle"
      [] ClearUnderWay(c)           -> "asked"
      [] clear[c].state = "cleared" -> "told"
      [] OTHER                      -> "over"

Atomic == INSTANCE AtomicCache WITH
              Writer <- Setter, Wiper <- Clearer,
              holds   <- [r \in Route |-> Visible(r)], wipes <- burials,
              writing <- [s \in Setter |-> Writing(s)],
              since   <- [s \in Setter |-> set[s].since],
              wiping  <- [c \in Clearer |-> Wiping(c)],
              asked   <- [c \in Clearer |-> clear[c].stored]

(* "atomically renames only those known descendants before removal"        *)
(* (clear.go): through errors, races and deaths the directories behave as  *)
(* a store whose responses appear one by one and whose routes are emptied  *)
(* in one step each, before the Clear that asked is told so.               *)
StoresAtomically == Atomic!AtomicSpec

(* Clears racing each other, deaths and Sets: what was stored when a Clear *)
(* began is gone when it succeeds, and what is stored behind it stays.     *)
ClearExact == ClearIsComplete /\ ClearSparesNewer
==============================================================================
