----------------------------- MODULE AtomicCache -----------------------------
(***************************************************************************)
(* What the response files of the cache promise the processes that share   *)
(* them, with no mention of directories: a response becomes readable in    *)
(* one step, and a route loses all its responses in one step.  A writer is *)
(* told of success only after its response took effect, which a wipe that  *)
(* came between may have undone; a wiper is told only when nothing of what *)
(* had been acknowledged before it began is readable.                      *)
(*                                                                         *)
(* CacheStore implements this specification.                               *)
(***************************************************************************)
EXTENDS Naturals

CONSTANTS Route, Writer, Wiper

VARIABLES
    routeOf,    \* the route of each writer's response
    holds,      \* readable responses of each route, named by their writers
    wipes,      \* how often each route was wiped
    writing,    \* new, aimed, put, told or over, for each writer
    since,      \* wipes of its route when a writer aimed
    wiping,     \* idle, asked, told or over, for each wiper
    asked       \* what was acknowledged when a wiper began

cacheVars == <<routeOf, holds, wipes, writing, since, wiping, asked>>

AtomicInit ==
    /\ routeOf \in [Writer -> Route]
    /\ holds = [r \in Route |-> {}] /\ wipes = [r \in Route |-> 0]
    /\ writing = [s \in Writer |-> "new"] /\ since = [s \in Writer |-> 0]
    /\ wiping = [c \in Wiper |-> "idle"] /\ asked = [c \in Wiper |-> {}]

Writes(s, from, to) == writing[s] = from /\ writing' = [writing EXCEPT ![s] = to]

Wipes(c, from, to) == wiping[c] = from /\ wiping' = [wiping EXCEPT ![c] = to]

Aim(s) ==
    /\ Writes(s, "new", "aimed")
    /\ since' = [since EXCEPT ![s] = wipes[routeOf[s]]]
    /\ UNCHANGED <<routeOf, holds, wipes, wiping, asked>>

(* A response that was overtaken by a wipe may go with what was wiped.     *)
Put(s) ==
    /\ Writes(s, "aimed", "put")
    /\ \/ holds' = [holds EXCEPT ![routeOf[s]] = holds[routeOf[s]] \cup {s}]
       \/ since[s] < wipes[routeOf[s]] /\ UNCHANGED holds
    /\ UNCHANGED <<routeOf, wipes, since, wiping, asked>>

TellWriter(s) ==
    /\ Writes(s, "put", "told")
    /\ UNCHANGED <<routeOf, holds, wipes, since, wiping, asked>>

WriterEnds(s) ==
    /\ \E from \in {"new", "aimed", "put"} : Writes(s, from, "over")
    /\ since' = [since EXCEPT ![s] = 0]
    /\ UNCHANGED <<routeOf, holds, wipes, wiping, asked>>

Begin(c) ==
    /\ Wipes(c, "idle", "asked")
    /\ asked' = [asked EXCEPT ![c] = {s \in Writer : writing[s] = "told"}]
    /\ UNCHANGED <<routeOf, holds, wipes, writing, since>>

Wipe(r) ==
    /\ \E c \in Wiper : wiping[c] = "asked"
    /\ holds' = [holds EXCEPT ![r] = {}] /\ wipes' = [wipes EXCEPT ![r] = wipes[r] + 1]
    /\ UNCHANGED <<routeOf, writing, since, wiping, asked>>

TellWiper(c) ==
    /\ Wipes(c, "asked", "told")
    /\ \A s \in asked[c] : s \notin holds[routeOf[s]]
    /\ UNCHANGED <<routeOf, holds, wipes, writing, since, asked>>

WiperEnds(c) ==
    /\ Wipes(c, "asked", "over")
    /\ asked' = [asked EXCEPT ![c] = {}]
    /\ UNCHANGED <<routeOf, holds, wipes, writing, since>>

AtomicNext ==
    \/ \E s \in Writer : Aim(s) \/ Put(s) \/ TellWriter(s) \/ WriterEnds(s)
    \/ \E c \in Wiper : Begin(c) \/ TellWiper(c) \/ WiperEnds(c)
    \/ \E r \in Route : Wipe(r)

AtomicSpec == AtomicInit /\ [][AtomicNext]_cacheVars
==============================================================================
