------------------------------ MODULE McpServer ------------------------------
(***************************************************************************)
(* The MCP stdio server of internal/mcp/server.go.  One read loop takes a  *)
(* line at a time, validates it, answers cheap methods itself and starts a *)
(* goroutine per tools/call.  A call registers itself in the in-flight map *)
(* only once its goroutine runs; notifications/cancelled looks the id up   *)
(* there.  Any response may fail to be written; the loop then serves no    *)
(* further line.                                                           *)
(*                                                                         *)
(* A step of the loop is one line.  The client is the environment: it may  *)
(* send any line at any time, so input need not be queued.                 *)
(***************************************************************************)
EXTENDS Naturals, FiniteSets

CONSTANT Id     \* request ids a client may use

Method == {"initialize", "server/discover", "tools/list", "tools/call", "ping",
           "logging/setLevel", "unknown"}

Era == {"legacy", "modern"}

VARIABLES
    loop,       \* Serve: reading, draining (cancelled, in wg.Wait), returned
    state,      \* s.state
    seenIDs,    \* s.seenIDs
    writeErr,   \* s.writeErr # nil
    serveDone,  \* serveCtx is cancelled
    call,       \* the goroutine of each tools/call
    inFlight,   \* s.inFlight: absent, live, or cancelled by the client
    answered,   \* responses written for the accepted request with this id
    revoked     \* history: ids whose call was outstanding when the loop
                \* processed a notifications/cancelled naming them

vars == <<loop, state, seenIDs, writeErr, serveDone, call, inFlight, answered, revoked>>

(* "failed"/"succeeded": handler.Call returned; "replying": about to write *)
Alive == {"spawned", "running", "failed", "succeeded", "replying"}

Init ==
    /\ loop = "reading" /\ state = "preInitialize" /\ seenIDs = {}
    /\ writeErr = FALSE /\ serveDone = FALSE
    /\ call = [i \in Id |-> "none"]
    /\ inFlight = [i \in Id |-> "absent"]
    /\ answered = [i \in Id |-> 0] /\ revoked = {}

(* s.write: silent after an earlier failure.  Closing the input on failure *)
(* only makes the loop notice earlier, which StopReading leaves open.      *)
write(counts) ==
    \/ /\ writeErr
       /\ UNCHANGED <<writeErr, answered>>
    \/ /\ ~writeErr
       /\ answered' = [i \in Id |-> answered[i] + counts[i]]
       /\ UNCHANGED writeErr
    \/ /\ ~writeErr
       /\ writeErr' = TRUE
       /\ UNCHANGED answered

Answer(i) == [j \in Id |-> IF j = i THEN 1 ELSE 0]

NoAnswer == [j \in Id |-> 0]     \* an error that answers no accepted request

-----------------------------------------------------------------------------
(* The read loop.                                                          *)

Reading == loop = "reading" /\ ~writeErr

(* A line that is no request, names an unusable id, carries unsupported    *)
(* protocol metadata or reuses an id is answered with an error.            *)
Reject ==
    /\ Reading
    /\ write(NoAnswer)
    /\ UNCHANGED <<loop, state, seenIDs, serveDone, call, inFlight, revoked>>

(* Mutant: ids are remembered but not compared.                            *)
AcceptAgain(i) == Reading /\ seenIDs' = seenIDs \cup {i}

Accept(i) == Reading /\ i \notin seenIDs /\ seenIDs' = seenIDs \cup {i}

(* Legacy tools/list, tools/call and logging/setLevel wait for Ready.      *)
requireReady(method, era) ==
    method \in {"tools/list", "tools/call", "logging/setLevel"} /\ era = "legacy"
        => state = "ready"

(* Every request the loop answers itself, with a result or an error.       *)
DispatchNow(i, method, era) ==
    /\ Accept(i)
    /\ method # "tools/call" \/ ~requireReady(method, era)
    /\ method = "initialize" => era = "legacy"
    /\ write(Answer(i))
    /\ \/ UNCHANGED state
       \/ method = "initialize" /\ state = "preInitialize" /\ state' = "initializing"
    /\ UNCHANGED <<loop, serveDone, call, inFlight, revoked>>

DispatchCall(i, era) ==
    /\ Accept(i)
    /\ requireReady("tools/call", era)
    /\ call' = [call EXCEPT ![i] = "spawned"]
    /\ UNCHANGED <<loop, state, writeErr, serveDone, inFlight, answered, revoked>>

NotifyInitialized ==
    /\ Reading /\ state = "initializing"
    /\ state' = "ready"
    /\ UNCHANGED <<loop, seenIDs, writeErr, serveDone, call, inFlight, answered, revoked>>

(* cancelInFlight: flags the registered call and cancels its context.      *)
cancelInFlight(i) ==
    inFlight' = IF inFlight[i] = "absent" THEN inFlight ELSE [inFlight EXCEPT ![i] = "cancelled"]

NotifyCancelled(i) ==
    /\ Reading
    /\ cancelInFlight(i)
    /\ revoked' = IF call[i] \in Alive THEN revoked \cup {i} ELSE revoked
    /\ UNCHANGED <<loop, state, seenIDs, writeErr, serveDone, call, answered>>

(* Mutant: Serve waits for the calls without cancelling them.              *)
StopReadingOnly ==
    /\ loop = "reading"
    /\ loop' = "draining"
    /\ UNCHANGED <<state, seenIDs, writeErr, serveDone, call, inFlight, answered, revoked>>

(* End of input, a scan error, a closed input, or the check of writeErr    *)
(* before the next line: cancel() and wait for the calls.                  *)
StopReading ==
    /\ loop = "reading"
    /\ loop' = "draining" /\ serveDone' = TRUE
    /\ UNCHANGED <<state, seenIDs, writeErr, call, inFlight, answered, revoked>>

(* The caller of Serve cancels its context; the loop reads on.             *)
CallerCancels ==
    /\ ~serveDone /\ serveDone' = TRUE
    /\ UNCHANGED <<loop, state, seenIDs, writeErr, call, inFlight, answered, revoked>>

wgWait == \A i \in Id : call[i] \notin Alive

ServeReturns ==
    /\ loop = "draining" /\ wgWait
    /\ loop' = "returned"
    /\ UNCHANGED <<state, seenIDs, writeErr, serveDone, call, inFlight, answered, revoked>>

-----------------------------------------------------------------------------
(* A tools/call goroutine: handleToolCall.                                 *)

Move(i, from, to) == call[i] = from /\ call' = [call EXCEPT ![i] = to]

registerInFlight(i) ==
    /\ Move(i, "spawned", "running")
    /\ inFlight' = [inFlight EXCEPT ![i] = "live"]
    /\ UNCHANGED <<loop, state, seenIDs, writeErr, serveDone, answered, revoked>>

(* Mutant: undecodable parameters end the call without an error response.  *)
RefuseParamsSilently(i) ==
    /\ Move(i, "spawned", "done")
    /\ UNCHANGED <<loop, state, seenIDs, writeErr, serveDone, inFlight, answered, revoked>>

(* Parameters that do not decode are refused before registration.          *)
RefuseParams(i) ==
    /\ Move(i, "spawned", "replying")
    /\ UNCHANGED <<loop, state, seenIDs, writeErr, serveDone, inFlight, answered, revoked>>

(* The tool ends on its own, or because its context is done.               *)
HandlerReturns(i) ==
    /\ Move(i, "running", "succeeded") \/ Move(i, "running", "failed")
    /\ UNCHANGED <<loop, state, seenIDs, writeErr, serveDone, inFlight, answered, revoked>>

(* Mutant: any cancelled context counts as the client's cancellation.      *)
wasCancelledByAnyone(i) ==
    /\ inFlight[i] = "cancelled" \/ serveDone
    /\ Move(i, "failed", "done")
    /\ inFlight' = [inFlight EXCEPT ![i] = "absent"]
    /\ UNCHANGED <<loop, state, seenIDs, writeErr, serveDone, answered, revoked>>

(* Mutant: a cancelled call ends without a reply although it succeeded.    *)
wasCancelledAnyway(i) ==
    /\ inFlight[i] = "cancelled"
    /\ Move(i, "failed", "done") \/ Move(i, "succeeded", "done")
    /\ inFlight' = [inFlight EXCEPT ![i] = "absent"]
    /\ UNCHANGED <<loop, state, seenIDs, writeErr, serveDone, answered, revoked>>

(* wasCancelled: a failed call the client cancelled ends without a reply.  *)
wasCancelled(i) ==
    /\ inFlight[i] = "cancelled"
    /\ Move(i, "failed", "done")
    /\ inFlight' = [inFlight EXCEPT ![i] = "absent"]
    /\ UNCHANGED <<loop, state, seenIDs, writeErr, serveDone, answered, revoked>>

PrepareReply(i) ==
    /\ \/ Move(i, "succeeded", "replying")
       \/ inFlight[i] # "cancelled" /\ Move(i, "failed", "replying")
    /\ UNCHANGED <<loop, state, seenIDs, writeErr, serveDone, inFlight, answered, revoked>>

(* Mutant: the deferred unregisterInFlight is missing.                     *)
ReplyRegistered(i) ==
    /\ Move(i, "replying", "done")
    /\ write(Answer(i))
    /\ UNCHANGED <<loop, state, seenIDs, serveDone, inFlight, revoked>>

(* Mutant: the reply waits for an output that can be written to.           *)
ReplyWhenWritable(i) ==
    /\ ~writeErr
    /\ Move(i, "replying", "done")
    /\ write(Answer(i))
    /\ inFlight' = [inFlight EXCEPT ![i] = "absent"]
    /\ UNCHANGED <<loop, state, seenIDs, serveDone, revoked>>

(* The reply, then the deferred unregisterInFlight.                        *)
Reply(i) ==
    /\ Move(i, "replying", "done")
    /\ write(Answer(i))
    /\ inFlight' = [inFlight EXCEPT ![i] = "absent"]
    /\ UNCHANGED <<loop, state, seenIDs, serveDone, revoked>>

CallStep(i) ==
    \/ registerInFlight(i) \/ RefuseParams(i) \/ HandlerReturns(i)
    \/ wasCancelled(i) \/ PrepareReply(i) \/ Reply(i)

LoopStep ==
    \/ Reject \/ NotifyInitialized \/ StopReading
    \/ \E i \in Id : NotifyCancelled(i)
    \/ \E i \in Id, era \in Era :
          DispatchCall(i, era) \/ \E m \in Method : DispatchNow(i, m, era)

Next == LoopStep \/ CallerCancels \/ ServeReturns \/ \E i \in Id : CallStep(i)

Spec == Init /\ [][Next]_vars

-----------------------------------------------------------------------------
(* Properties.                                                             *)

(* Type correctness of the server's state; a loop that stopped reading has *)
(* cancelled the context of every call.                                    *)
TypeOK ==
    /\ loop \in {"reading", "draining", "returned"}
    /\ state \in {"preInitialize", "initializing", "ready"}
    /\ seenIDs \subseteq Id /\ revoked \subseteq Id
    /\ writeErr \in BOOLEAN /\ serveDone \in BOOLEAN
    /\ call \in [Id -> Alive \cup {"none", "done"}]
    /\ inFlight \in [Id -> {"absent", "live", "cancelled"}]
    /\ answered \in [Id -> Nat]
    /\ loop # "reading" => serveDone

(* An accepted request is answered at most once, and a goroutine exists    *)
(* only for an id that was accepted: reuse of an id can neither start a    *)
(* second call nor have two results under one id (seenIDs in Serve).       *)
AnsweredOnce ==
    \A i \in Id : answered[i] <= 1 /\ (call[i] # "none" \/ answered[i] > 0 => i \in seenIDs)

(* The in-flight map holds exactly the calls between registration and the  *)
(* end of their goroutine, so a late cancellation finds nothing and Serve  *)
(* returns with no call alive and the map empty (register, unregister).    *)
RegistryExact ==
    /\ \A i \in Id : inFlight[i] # "absent" => call[i] \in Alive \ {"spawned"}
    /\ \A i \in Id : call[i] \in {"running", "succeeded", "failed"} => inFlight[i] # "absent"
    /\ loop = "returned" => \A i \in Id : call[i] \notin Alive

(* Silence means something: when no write failed, an accepted request      *)
(* whose work is over is unanswered only if the client revoked it.  The    *)
(* drain at end of input answers the calls it interrupts.                  *)
SilenceOnlyWhenRevoked ==
    \A i \in seenIDs : call[i] \notin Alive /\ answered[i] = 0 => writeErr \/ i \in revoked

(* Every accepted request is eventually resolved: its goroutine ends, and  *)
(* it is answered, revoked or cut off by a broken output.  Ids are not     *)
(* reused, so with finitely many of them that state is final.              *)
CallsResolved ==
    <>[](\A i \in Id :
            /\ call[i] \notin Alive
            /\ i \in seenIDs => answered[i] = 1 \/ i \in revoked \/ writeErr)

(* End of input drains: once Serve stops reading it returns.               *)
ServeEnds == loop = "draining" ~> loop = "returned"

(* "the matching call is cancelled" (docs/spec.md): a call the client      *)
(* revoked before its tool began does not run the tool uncancelled.        *)
RevocationReachesCall ==
    \A i \in revoked : call[i] = "running" => inFlight[i] = "cancelled"
=============================================================================
