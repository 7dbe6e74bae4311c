----------------------------- MODULE McpService ------------------------------
(***************************************************************************)
(* The verification service in its two settings: behind the MCP server,    *)
(* where every tools/call of a scoring tool is one Execute whose context   *)
(* the server cancels (internal/mcp/tools.go, runMCP of                    *)
(* cmd/evalwitness/main.go), and called directly, where the caller owns    *)
(* the contexts and may run batches.  All runs share the service's         *)
(* runtimeSlots.                                                           *)
(***************************************************************************)
EXTENDS McpServer, VerificationRun

CONSTANTS
    Served,     \* ids whose calls name a scoring tool: each may become a run
    Direct      \* the runs of direct callers

ASSUME ServiceAssumption == Served \subseteq Id \cap (Run \ Batch) /\ Direct \subseteq Run

VARIABLE driver      \* who calls the service: mcp or direct

serviceVars == <<vars, runVars, driver>>

ServiceInit == Init /\ RunInit /\ driver \in {"mcp", "direct"}

(* The context of a call ends with the client's cancellation or with the   *)
(* server's; the run below it sees that at once.                           *)
ContextsEnd ==
    /\ cancelled' = cancelled \cup {i \in Served : call'[i] = "running"
                                                  /\ (inFlight'[i] = "cancelled" \/ serveDone')}
    /\ UNCHANGED <<slots, pc, item, life, itemAudit, row, cleanupOK, closed, err>>

(* Mutant: the handler returns as soon as its context has ended and leaves *)
(* the run to itself.                                                      *)
HandlerLeavesRun(i) ==
    i \in Served =>
        \/ pc[i] = "idle"
        \/ i \in cancelled /\ call'[i] = "failed"
        \/ pc[i] = "done" /\ call'[i] = IF err[i] THEN "failed" ELSE "succeeded"

(* ToolHandler.Call: refused arguments or plans and the calibration tool   *)
(* return without a run; after Execute its error decides.                  *)
HandlerMayReturn(i) ==
    i \in Served =>
        \/ pc[i] = "idle"
        \/ pc[i] = "done" /\ call'[i] = IF err[i] THEN "failed" ELSE "succeeded"

Loop ==
    /\ driver = "mcp"
    /\ LoopStep \/ CallerCancels
    /\ ContextsEnd /\ UNCHANGED driver

LoopReturns == driver = "mcp" /\ ServeReturns /\ UNCHANGED <<runVars, driver>>

ServedCall(i) ==
    /\ driver = "mcp" /\ CallStep(i)
    /\ call[i] = "running" => HandlerMayReturn(i)
    /\ ContextsEnd /\ UNCHANGED driver

(* The handler's goroutine calls Execute and runs it.                      *)
ServedExecute(i) ==
    /\ driver = "mcp" /\ call[i] = "running" /\ Execute(i)
    /\ UNCHANGED <<vars, driver>>

ServedRun(i) ==
    /\ driver = "mcp" /\ call[i] = "running"
    /\ acquireRuntimeSlot(i) \/ GiveUpWaiting(i) \/ RunStep(i)
    /\ UNCHANGED <<vars, driver>>

DirectRun(r) ==
    /\ driver = "direct"
    /\ Execute(r) \/ acquireRuntimeSlot(r) \/ GiveUpWaiting(r) \/ RunStep(r) \/ RunCancelled(r)
    /\ UNCHANGED <<vars, driver>>

ServiceNext ==
    \/ Loop \/ LoopReturns
    \/ \E i \in Id : ServedCall(i)
    \/ \E i \in Served : ServedExecute(i) \/ ServedRun(i)
    \/ \E r \in Direct : DirectRun(r)

ServiceSpec == ServiceInit /\ [][ServiceNext]_serviceVars

(* Handlers and goroutines run; runs are scheduled as in VerificationRun;  *)
(* Serve proceeds once it waits.  Nothing forces a client to send a line   *)
(* or to hang up, or a direct caller to call.                              *)
ServiceFairness ==
    /\ \A i \in Id : WF_serviceVars(ServedCall(i) \/ (i \in Served /\ ServedExecute(i)))
    /\ WF_serviceVars(LoopReturns)
    /\ RunFairness

ServiceFairSpec == ServiceSpec /\ ServiceFairness

-----------------------------------------------------------------------------
(* Work that was paid for is not thrown away: once a run has ended without *)
(* an error its call is answered, also when the client's cancellation or   *)
(* the end of the input raced its completion.                              *)
CompletedWorkAnswered ==
    \A i \in Served : pc[i] = "done" /\ ~err[i] /\ call[i] = "done" => answered[i] = 1 \/ writeErr

(* When Serve returns, and main with it, no run is half-way: every runtime *)
(* slot is back and every runtime and audit sink that was opened is        *)
(* closed, whatever cancelled the calls.  Until then the drain waits for   *)
(* no run that waits for another: one that has no slot can give up, also   *)
(* when its call registers after the input has ended.                      *)
DrainReleasesRuns ==
    /\ loop = "returned" =>
          /\ slots = 0
          /\ \A i \in Served : pc[i] \in {"idle", "done"}
                               /\ (pc[i] = "done" /\ "open" \in life[i] => closed[i] = <<1, 1>>)
    /\ loop = "draining" => \A i \in Served : pc[i] = "open" => i \in cancelled

(* The bookkeeping of server and runs agrees with what is going on: one    *)
(* answer per request, a registry of exactly the calls under way, and a    *)
(* runtime slot, runtime and sink per run that holds them, no more, so     *)
(* that no run waits for a slot nobody gives back.                         *)
ServiceSound ==
    TypeOK /\ RunTypeOK /\ AnsweredOnce /\ RegistryExact /\ ResourcesExact /\ RunsNeverStuck
=============================================================================
