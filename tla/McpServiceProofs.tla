--------------------------- MODULE McpServiceProofs --------------------------
(***************************************************************************)
(* The MCP server alone, for any set of request ids, and the verification  *)
(* service behind it: one answer per request, no paid work thrown away, no *)
(* run left behind when the server returns.                                *)
(***************************************************************************)
EXTENDS McpService, VerificationRunProofs

(* An outstanding call is unanswered, and only the client marks an entry   *)
(* of the in-flight map as cancelled.                                      *)
OutstandingInv ==
    \A i \in Id : /\ call[i] \in Alive => answered[i] = 0
                  /\ inFlight[i] = "cancelled" => i \in revoked

ServerInv ==
    /\ TypeOK /\ AnsweredOnce /\ RegistryExact /\ SilenceOnlyWhenRevoked
    /\ OutstandingInv

LEMMA ServerInitInv == Init => ServerInv
<1> SUFFICES ASSUME Init PROVE ServerInv
  OBVIOUS
<1>1. TypeOK
  BY DEF Init, TypeOK, Alive
<1>2. AnsweredOnce /\ RegistryExact /\ SilenceOnlyWhenRevoked /\ OutstandingInv
  BY DEF Init, AnsweredOnce, RegistryExact, SilenceOnlyWhenRevoked, OutstandingInv, Alive
<1> QED
  BY <1>1, <1>2 DEF ServerInv

(* What a response may change: nothing, the broken output, or one answer.  *)
LEMMA WriteAnswers ==
    ASSUME TypeOK, NEW i \in Id, write(Answer(i))
    PROVE  /\ writeErr' \in BOOLEAN /\ (writeErr => writeErr')
           /\ answered' \in [Id -> Nat]
           /\ \A j \in Id \ {i} : answered'[j] = answered[j]
           /\ answered'[i] \in {answered[i], answered[i] + 1}
           /\ answered'[i] = answered[i] => writeErr'
<1>1. CASE UNCHANGED <<writeErr, answered>> /\ writeErr
  BY <1>1 DEF TypeOK
<1>2. CASE answered' = [j \in Id |-> answered[j] + Answer(i)[j]] /\ UNCHANGED writeErr
  BY <1>2 DEF TypeOK, Answer
<1>3. CASE writeErr' = TRUE /\ UNCHANGED answered
  BY <1>3 DEF TypeOK
<1> QED
  BY <1>1, <1>2, <1>3 DEF write

LEMMA WriteNothing ==
    ASSUME TypeOK, write(NoAnswer)
    PROVE  writeErr' \in BOOLEAN /\ (writeErr => writeErr') /\ answered' = answered
<1>1. CASE answered' = [j \in Id |-> answered[j] + NoAnswer[j]] /\ UNCHANGED writeErr
  BY <1>1 DEF TypeOK, NoAnswer
<1>2. CASE writeErr' \in BOOLEAN /\ (writeErr => writeErr') /\ UNCHANGED answered
  BY <1>2
<1> QED
  BY <1>1, <1>2 DEF write, TypeOK

LEMMA LoopStepInv == ServerInv /\ LoopStep => ServerInv'
<1> SUFFICES ASSUME ServerInv, LoopStep PROVE ServerInv'
  OBVIOUS
<1> USE DEF ServerInv
<1>1. CASE Reject
  <2>1. writeErr' \in BOOLEAN /\ (writeErr => writeErr') /\ answered' = answered
    BY <1>1, WriteNothing DEF Reject
  <2> QED
    BY <1>1, <2>1 DEF Reject, TypeOK, AnsweredOnce, RegistryExact, SilenceOnlyWhenRevoked, OutstandingInv
<1>2. CASE NotifyInitialized
  BY <1>2 DEF NotifyInitialized, TypeOK, AnsweredOnce, RegistryExact, SilenceOnlyWhenRevoked, OutstandingInv
<1>3. CASE StopReading
  BY <1>3 DEF StopReading, TypeOK, AnsweredOnce, RegistryExact, SilenceOnlyWhenRevoked, OutstandingInv
<1>4. ASSUME NEW i \in Id, NotifyCancelled(i) PROVE ServerInv'
  <2>1. TypeOK'
    BY <1>4 DEF NotifyCancelled, cancelInFlight, Reading, TypeOK
  <2>2. AnsweredOnce' /\ SilenceOnlyWhenRevoked'
    BY <1>4 DEF NotifyCancelled, TypeOK, AnsweredOnce, SilenceOnlyWhenRevoked
  <2>3. RegistryExact'
    BY <1>4 DEF NotifyCancelled, cancelInFlight, TypeOK, RegistryExact
  <2>4. OutstandingInv'
    BY <1>4 DEF NotifyCancelled, cancelInFlight, TypeOK, RegistryExact, OutstandingInv
  <2> QED
    BY <2>1, <2>2, <2>3, <2>4
<1>5. ASSUME NEW i \in Id, NEW era \in Era, DispatchCall(i, era) PROVE ServerInv'
  <2>0. /\ i \notin seenIDs /\ seenIDs' = seenIDs \cup {i} /\ call' = [call EXCEPT ![i] = "spawned"]
        /\ loop = "reading" /\ call[i] = "none" /\ answered[i] = 0 /\ inFlight[i] = "absent"
        /\ UNCHANGED <<loop, state, writeErr, serveDone, inFlight, answered, revoked>>
    BY <1>5 DEF DispatchCall, Accept, Reading, TypeOK, AnsweredOnce, RegistryExact, Alive
  <2>1. TypeOK'
    BY <2>0 DEF TypeOK, Alive
  <2>2. AnsweredOnce'
    BY <2>0 DEF TypeOK, AnsweredOnce
  <2>3. RegistryExact'
    BY <2>0 DEF TypeOK, RegistryExact, Alive
  <2>4. SilenceOnlyWhenRevoked' /\ OutstandingInv'
    BY <2>0 DEF TypeOK, SilenceOnlyWhenRevoked, OutstandingInv, Alive
  <2> QED
    BY <2>1, <2>2, <2>3, <2>4
<1>6. ASSUME NEW i \in Id, NEW era \in Era, NEW m \in Method, DispatchNow(i, m, era) PROVE ServerInv'
  <2>0. /\ i \notin seenIDs /\ seenIDs' = seenIDs \cup {i}
        /\ call[i] = "none" /\ answered[i] = 0
        /\ state' \in {"preInitialize", "initializing", "ready"}
        /\ UNCHANGED <<loop, serveDone, call, inFlight, revoked>>
    BY <1>6 DEF DispatchNow, Accept, TypeOK, AnsweredOnce
  <2>1. /\ writeErr' \in BOOLEAN /\ (writeErr => writeErr')
        /\ answered' \in [Id -> Nat]
        /\ \A j \in Id \ {i} : answered'[j] = answered[j]
        /\ answered'[i] \in {answered[i], answered[i] + 1}
        /\ answered'[i] = answered[i] => writeErr'
    BY <1>6, WriteAnswers DEF DispatchNow
  <2>2. TypeOK'
    BY <2>0, <2>1 DEF TypeOK
  <2>3. AnsweredOnce'
    BY <2>0, <2>1 DEF TypeOK, AnsweredOnce
  <2>4. RegistryExact' /\ OutstandingInv'
    BY <2>0, <2>1 DEF TypeOK, RegistryExact, OutstandingInv, Alive
  <2>5. SilenceOnlyWhenRevoked'
    BY <2>0, <2>1 DEF TypeOK, SilenceOnlyWhenRevoked
  <2> QED
    BY <2>2, <2>3, <2>4, <2>5
<1> QED
  BY <1>1, <1>2, <1>3, <1>4, <1>5, <1>6 DEF LoopStep

LEMMA CallStepInv == ASSUME NEW i \in Id PROVE ServerInv /\ CallStep(i) => ServerInv'
<1> SUFFICES ASSUME ServerInv, CallStep(i) PROVE ServerInv'
  OBVIOUS
<1> USE DEF ServerInv
<1>1. CASE registerInFlight(i)
  <2>1. TypeOK' /\ AnsweredOnce'
    BY <1>1 DEF registerInFlight, Move, TypeOK, AnsweredOnce, Alive
  <2>2. RegistryExact'
    BY <1>1 DEF registerInFlight, Move, TypeOK, RegistryExact, Alive
  <2>3. SilenceOnlyWhenRevoked' /\ OutstandingInv'
    BY <1>1 DEF registerInFlight, Move, TypeOK, SilenceOnlyWhenRevoked, OutstandingInv, Alive
  <2> QED
    BY <2>1, <2>2, <2>3
<1>2. CASE RefuseParams(i) \/ HandlerReturns(i) \/ PrepareReply(i)
  <2>0. /\ call[i] \in Alive /\ \E to \in Alive \ {"spawned"} : call' = [call EXCEPT ![i] = to]
        /\ call'[i] \in {"running", "succeeded", "failed"} => inFlight[i] # "absent"
        /\ UNCHANGED <<loop, state, seenIDs, writeErr, serveDone, inFlight, answered, revoked>>
    BY <1>2 DEF RefuseParams, HandlerReturns, PrepareReply, Move, TypeOK, RegistryExact, Alive
  <2>1. TypeOK' /\ AnsweredOnce'
    BY <2>0 DEF TypeOK, AnsweredOnce, Alive
  <2>2. RegistryExact'
    BY <2>0 DEF TypeOK, RegistryExact, Alive
  <2>3. SilenceOnlyWhenRevoked' /\ OutstandingInv'
    BY <2>0 DEF TypeOK, SilenceOnlyWhenRevoked, OutstandingInv, Alive
  <2> QED
    BY <2>1, <2>2, <2>3
<1>3. CASE wasCancelled(i)
  <2>1. TypeOK' /\ AnsweredOnce'
    BY <1>3 DEF wasCancelled, Move, TypeOK, AnsweredOnce, Alive
  <2>2. RegistryExact'
    BY <1>3 DEF wasCancelled, Move, TypeOK, RegistryExact, Alive
  <2>3. SilenceOnlyWhenRevoked' /\ OutstandingInv'
    BY <1>3 DEF wasCancelled, Move, TypeOK, SilenceOnlyWhenRevoked, OutstandingInv, Alive
  <2> QED
    BY <2>1, <2>2, <2>3
<1>4. CASE Reply(i)
  <2>0. /\ call[i] = "replying" /\ call' = [call EXCEPT ![i] = "done"]
        /\ inFlight' = [inFlight EXCEPT ![i] = "absent"] /\ answered[i] = 0 /\ i \in seenIDs
        /\ UNCHANGED <<loop, state, seenIDs, serveDone, revoked>>
    BY <1>4 DEF Reply, Move, TypeOK, OutstandingInv, AnsweredOnce, Alive
  <2>1. /\ writeErr' \in BOOLEAN /\ (writeErr => writeErr')
        /\ answered' \in [Id -> Nat]
        /\ \A j \in Id \ {i} : answered'[j] = answered[j]
        /\ answered'[i] \in {answered[i], answered[i] + 1}
        /\ answered'[i] = answered[i] => writeErr'
    BY <1>4, WriteAnswers DEF Reply
  <2>2. TypeOK'
    BY <2>0, <2>1 DEF TypeOK
  <2>3. AnsweredOnce'
    BY <2>0, <2>1 DEF TypeOK, AnsweredOnce
  <2>4. RegistryExact'
    BY <2>0 DEF TypeOK, RegistryExact, Alive
  <2>5. SilenceOnlyWhenRevoked' /\ OutstandingInv'
    BY <2>0, <2>1 DEF TypeOK, SilenceOnlyWhenRevoked, OutstandingInv, Alive
  <2> QED
    BY <2>2, <2>3, <2>4, <2>5
<1> QED
  BY <1>1, <1>2, <1>3, <1>4 DEF CallStep

LEMMA ServerStepInv == ServerInv /\ [Next]_vars => ServerInv'
<1> SUFFICES ASSUME ServerInv, [Next]_vars PROVE ServerInv'
  OBVIOUS
<1>1. CASE CallerCancels
  BY <1>1 DEF CallerCancels, ServerInv, TypeOK, AnsweredOnce, RegistryExact, SilenceOnlyWhenRevoked,
              OutstandingInv
<1>2. CASE ServeReturns
  BY <1>2 DEF ServeReturns, wgWait, ServerInv, TypeOK, AnsweredOnce, RegistryExact,
              SilenceOnlyWhenRevoked, OutstandingInv
<1>3. CASE UNCHANGED vars
  BY <1>3 DEF vars, ServerInv, TypeOK, AnsweredOnce, RegistryExact, SilenceOnlyWhenRevoked,
              OutstandingInv
<1> QED
  BY <1>1, <1>2, <1>3, LoopStepInv, CallStepInv DEF Next

(* The registry and the answers are exact for any set of ids: one answer   *)
(* per accepted request, an in-flight entry for exactly the calls under    *)
(* way, none when Serve has returned.                                      *)
THEOREM ServerIsExact == Spec => []ServerInv
BY ServerInitInv, ServerStepInv, PTL DEF Spec

(* An accepted request stays unanswered only if its client revoked it or   *)
(* the output broke.                                                       *)
THEOREM SilenceIsExplained == Spec => []SilenceOnlyWhenRevoked
<1>1. ServerInv => SilenceOnlyWhenRevoked
  BY DEF ServerInv
<1> QED
  BY <1>1, ServerIsExact, PTL

------------------------------------------------------------------------------
(* The service behind the server.                                          *)

(* What a run behind the server has to do with its call: it works only     *)
(* while the call's handler waits for it, and a call whose run succeeded   *)
(* is on its way to its answer.                                            *)
CallOf(r) ==
    /\ pc[r] # "idle" => r \in Served
    /\ pc[r] \notin {"idle", "done"} => call[r] = "running"
    /\ pc[r] = "done" /\ ~err[r] => call[r] \in {"running", "succeeded", "replying", "done"}
    /\ pc[r] = "done" /\ ~err[r] /\ call[r] = "done" => answered[r] = 1 \/ writeErr

CouplingInv ==
    /\ driver = "direct" => loop = "reading" /\ \A i \in Id : call[i] = "none"
    /\ driver = "mcp" => \A r \in Run : CallOf(r)
    /\ driver \in {"mcp", "direct"}

ServiceInv == ServerInv /\ RunInv /\ ResourceInv /\ CouplingInv

(* The read loop starts calls and touches none that exists; answers are    *)
(* not taken back.                                                         *)
LEMMA LoopEffect ==
    ASSUME ServerInv, LoopStep \/ CallerCancels, NEW i \in Id
    PROVE  /\ call[i] # "none" => call'[i] = call[i]
           /\ answered[i] = 1 \/ writeErr => answered'[i] = 1 \/ writeErr'
<1> USE DEF ServerInv
<1>0. ServerInv'
  BY LoopStepInv, ServerStepInv DEF Next
<1>1. CASE Reject
  BY <1>1, WriteNothing DEF Reject
<1>2. CASE NotifyInitialized \/ StopReading \/ CallerCancels
  BY <1>2 DEF NotifyInitialized, StopReading, CallerCancels
<1>3. ASSUME NEW j \in Id, NotifyCancelled(j) PROVE UNCHANGED <<call, answered, writeErr>>
  BY <1>3 DEF NotifyCancelled
<1>4. ASSUME NEW j \in Id, NEW era \in Era, DispatchCall(j, era)
      PROVE  (call[i] # "none" => call'[i] = call[i]) /\ UNCHANGED <<answered, writeErr>>
  BY <1>4 DEF DispatchCall, Accept, TypeOK, AnsweredOnce
<1>5. ASSUME NEW j \in Id, NEW era \in Era, NEW m \in Method, DispatchNow(j, m, era)
      PROVE  /\ call' = call /\ (writeErr => writeErr')
             /\ answered'[i] \in {answered[i], answered[i] + 1}
  BY <1>5, WriteAnswers DEF DispatchNow
<1>6. answered[i] \in Nat /\ answered'[i] \in Nat /\ answered'[i] <= 1
  BY <1>0 DEF TypeOK, AnsweredOnce
<1> QED
  BY <1>1, <1>2, <1>3, <1>4, <1>5, <1>6 DEF LoopStep

(* A goroutine changes its own call and no other.                          *)
LEMMA CallEffect ==
    ASSUME ServerInv, NEW i \in Id, CallStep(i)
    PROVE  /\ \A j \in Id \ {i} : call'[j] = call[j] /\ answered'[j] = answered[j]
           /\ writeErr => writeErr'
           /\ <<call[i], call'[i]>> \in
                 {<<"spawned", "running">>, <<"spawned", "replying">>, <<"running", "succeeded">>,
                  <<"running", "failed">>, <<"succeeded", "replying">>, <<"failed", "replying">>,
                  <<"failed", "done">>, <<"replying", "done">>}
           /\ call[i] = "replying" => answered'[i] = 1 \/ writeErr'
<1> USE DEF ServerInv
<1>1. CASE Reply(i)
  <2>1. /\ writeErr => writeErr'
        /\ \A j \in Id \ {i} : answered'[j] = answered[j]
        /\ answered'[i] \in {answered[i], answered[i] + 1}
        /\ answered'[i] = answered[i] => writeErr'
    BY <1>1, WriteAnswers DEF Reply
  <2>2. answered[i] = 0
    BY <1>1 DEF Reply, Move, OutstandingInv, Alive
  <2>3. call[i] = "replying" /\ call'[i] = "done" /\ \A j \in Id \ {i} : call'[j] = call[j]
    BY <1>1 DEF Reply, Move, TypeOK
  <2> QED
    BY <2>1, <2>2, <2>3
<1>2. CASE registerInFlight(i) \/ RefuseParams(i) \/ HandlerReturns(i) \/ wasCancelled(i) \/ PrepareReply(i)
  BY <1>2 DEF registerInFlight, RefuseParams, HandlerReturns, wasCancelled, PrepareReply, Move, TypeOK
<1> QED
  BY <1>1, <1>2 DEF CallStep

LEMMA ServiceInitInv == ServiceInit => ServiceInv
<1> SUFFICES ASSUME ServiceInit PROVE ServiceInv
  OBVIOUS
<1>1. CouplingInv
  BY DEF ServiceInit, Init, RunInit, CouplingInv, CallOf
<1> QED
  BY <1>1, ServerInitInv, RunInitInv, ResourceInitInv DEF ServiceInit, ServiceInv

LEMMA ContextsEndInv ==
    ASSUME ServiceInv, ContextsEnd PROVE RunInv' /\ ResourceInv'
<1>1. ContextsOnly
  BY DEF ContextsEnd, ContextsOnly
<1>2. cancelled' \subseteq Run
  BY ServiceAssumption DEF ContextsEnd, ServiceInv, ResourceInv
<1> QED
  BY <1>1, <1>2, ContextsInv, ContextsResources DEF ServiceInv

LEMMA LoopServiceInv == ASSUME ServiceInv, Loop \/ LoopReturns PROVE ServiceInv'
<1>1. CASE Loop
  <2>1. ServerInv'
    BY <1>1, LoopStepInv, ServerStepInv DEF Loop, ServiceInv, Next
  <2>2. RunInv' /\ ResourceInv'
    BY <1>1, ContextsEndInv DEF Loop
  <2>3. ASSUME NEW r \in Run PROVE CallOf(r)'
    <3>1. CallOf(r) /\ pc'[r] = pc[r] /\ err'[r] = err[r]
      BY <1>1 DEF Loop, ContextsEnd, ServiceInv, CouplingInv
    <3>2. CASE pc[r] = "idle"
      BY <3>1, <3>2 DEF CallOf
    <3>3. CASE pc[r] # "idle"
      <4>1. r \in Id /\ r \in Served
        BY <3>1, <3>3, ServiceAssumption DEF CallOf
      <4>2. /\ call[r] # "none" => call'[r] = call[r]
            /\ answered[r] = 1 \/ writeErr => answered'[r] = 1 \/ writeErr'
        BY <1>1, <4>1, LoopEffect DEF Loop, ServiceInv
      <4> QED
        BY <3>1, <3>3, <4>1, <4>2 DEF CallOf
    <3> QED
      BY <3>2, <3>3
  <2>4. CouplingInv'
    BY <1>1, <2>3 DEF Loop, CouplingInv, ServiceInv
  <2> QED
    BY <2>1, <2>2, <2>4 DEF ServiceInv
<1>2. CASE LoopReturns
  <2>1. ServerInv'
    BY <1>2, ServerStepInv DEF LoopReturns, ServiceInv, Next
  <2>2. RunInv' /\ ResourceInv'
    <3>1. ContextsOnly /\ cancelled' = cancelled
      BY <1>2 DEF LoopReturns, runVars, ContextsOnly
    <3> QED
      BY <3>1, ContextsInv, ContextsResources DEF ServiceInv, ResourceInv
  <2>3. CouplingInv'
    BY <1>2 DEF LoopReturns, ServeReturns, runVars, ServiceInv, CouplingInv, CallOf
  <2> QED
    BY <2>1, <2>2, <2>3 DEF ServiceInv
<1> QED
  BY <1>1, <1>2

LEMMA CallServiceInv == ASSUME ServiceInv, NEW i \in Id, ServedCall(i) PROVE ServiceInv'
<1>1. ServerInv'
  BY CallStepInv DEF ServedCall, ServiceInv
<1>2. RunInv' /\ ResourceInv'
  BY ContextsEndInv DEF ServedCall
<1>3. ASSUME NEW r \in Run PROVE CallOf(r)'
  <2>1. CallOf(r) /\ pc'[r] = pc[r] /\ err'[r] = err[r]
    BY DEF ServedCall, ContextsEnd, ServiceInv, CouplingInv
  <2>2. CASE pc[r] = "idle"
    BY <2>1, <2>2 DEF CallOf
  <2>3. CASE pc[r] # "idle" /\ r # i
    <3>1. r \in Id /\ r \in Served
      BY <2>1, <2>3, ServiceAssumption DEF CallOf
    <3>2. call'[r] = call[r] /\ answered'[r] = answered[r] /\ (writeErr => writeErr')
      BY <2>3, <3>1, CallEffect DEF ServedCall, ServiceInv
    <3> QED
      BY <2>1, <3>1, <3>2 DEF CallOf
  <2>4. CASE pc[r] # "idle" /\ r = i
    <3>1. r \in Served
      BY <2>1, <2>4 DEF CallOf
    <3>2. /\ <<call[r], call'[r]>> \in
                 {<<"spawned", "running">>, <<"spawned", "replying">>, <<"running", "succeeded">>,
                  <<"running", "failed">>, <<"succeeded", "replying">>, <<"failed", "replying">>,
                  <<"failed", "done">>, <<"replying", "done">>}
          /\ call[r] = "replying" => answered'[r] = 1 \/ writeErr'
      BY <2>4, CallEffect DEF ServedCall, ServiceInv
    <3>3. call[r] = "running" => pc[r] = "done" /\ call'[r] = IF err[r] THEN "failed" ELSE "succeeded"
      BY <2>4, <3>1 DEF ServedCall, HandlerMayReturn
    <3> QED
      BY <2>1, <2>4, <3>1, <3>2, <3>3 DEF CallOf
  <2> QED
    BY <2>2, <2>3, <2>4
<1>4. CouplingInv'
  BY <1>3 DEF ServedCall, CouplingInv, ServiceInv
<1> QED
  BY <1>1, <1>2, <1>4 DEF ServiceInv

LEMMA ServedRunInv ==
    ASSUME ServiceInv, NEW i \in Served, ServedExecute(i) \/ ServedRun(i) PROVE ServiceInv'
<1>0. i \in Run /\ i \in Id
  BY ServiceAssumption
<1>1. RunActs(i) /\ call[i] = "running" /\ driver = "mcp" /\ UNCHANGED vars /\ UNCHANGED driver
  BY DEF ServedExecute, ServedRun, RunActs
<1>2. ServerInv'
  BY <1>1, ServerStepInv DEF ServiceInv
<1>3. RunInv' /\ ResourceInv'
  BY <1>0, <1>1, RunActsInv, RunActsResources DEF ServiceInv
<1>4. UNCHANGED <<loop, call, answered, writeErr>>
  BY <1>1 DEF vars
<1>5. \A r \in Run \ {i} : pc'[r] = pc[r] /\ err'[r] = err[r]
  <2>1. ShapeInv
    BY DEF ServiceInv, RunInv
  <2>2. CASE \E j \in Items(i) : ItemStep(i, j)
    BY <2>2 DEF ItemStep, Spawn, Begin, SkipItem, FailItem, EndItem, PaceItem, CutPace, SetItem
  <2>3. CASE \/ Execute(i) \/ acquireRuntimeSlot(i) \/ GiveUpWaiting(i) \/ OpenFails(i) \/ OpenRuntime(i)
             \/ OpenWithoutRunner(i) \/ closeRuntimeResources(i) \/ writeRunAudit(i) \/ closeRuntimeAudit(i)
    BY <2>1, <2>3 DEF ShapeInv, Fail, Execute, acquireRuntimeSlot, GiveUpWaiting, OpenFails, OpenRuntime,
         OpenWithoutRunner, closeRuntimeResources, writeRunAudit, closeRuntimeAudit
  <2> QED
    BY <1>1, <2>2, <2>3 DEF RunActs, RunStep
<1>6. \A r \in Run : CallOf(r)'
  <2>1. CallOf(i)'
    BY <1>1, <1>4 DEF CallOf
  <2>2. ASSUME NEW r \in Run \ {i} PROVE CallOf(r)'
    BY <1>1, <1>4, <1>5 DEF CallOf, ServiceInv, CouplingInv
  <2> QED
    BY <2>1, <2>2
<1>7. CouplingInv'
  BY <1>1, <1>6 DEF CouplingInv
<1> QED
  BY <1>2, <1>3, <1>7 DEF ServiceInv

LEMMA DirectRunInv == ASSUME ServiceInv, NEW r \in Direct, DirectRun(r) PROVE ServiceInv'
<1>0. r \in Run
  BY ServiceAssumption
<1>1. driver = "direct" /\ UNCHANGED vars /\ UNCHANGED driver /\ (RunActs(r) \/ RunCancelled(r))
  BY DEF DirectRun, RunActs
<1>2. ServerInv'
  BY <1>1, ServerStepInv DEF ServiceInv
<1>3. RunInv' /\ ResourceInv'
  <2>1. CASE RunActs(r)
    BY <1>0, <2>1, RunActsInv, RunActsResources DEF ServiceInv
  <2>2. CASE RunCancelled(r)
    BY <1>0, <2>2, ContextsInv, ContextsResources DEF RunCancelled, ContextsOnly, ServiceInv, ResourceInv
  <2> QED
    BY <1>1, <2>1, <2>2
<1>4. CouplingInv'
  BY <1>1 DEF vars, CouplingInv, ServiceInv
<1> QED
  BY <1>2, <1>3, <1>4 DEF ServiceInv

LEMMA ServiceStepInv == ServiceInv /\ [ServiceNext]_serviceVars => ServiceInv'
<1> SUFFICES ASSUME ServiceInv, [ServiceNext]_serviceVars PROVE ServiceInv'
  OBVIOUS
<1>1. CASE UNCHANGED serviceVars
  <2>1. UNCHANGED vars /\ UNCHANGED runVars /\ UNCHANGED driver
    BY <1>1 DEF serviceVars
  <2>2. ServerInv'
    BY <2>1, ServerStepInv DEF ServiceInv
  <2>3. RunInv' /\ ResourceInv'
    BY <2>1, RunStepInv, ResourceStepInv DEF ServiceInv
  <2>4. CouplingInv'
    BY <2>1 DEF vars, runVars, CouplingInv, CallOf, ServiceInv
  <2> QED
    BY <2>2, <2>3, <2>4 DEF ServiceInv
<1> QED
  BY <1>1, LoopServiceInv, CallServiceInv, ServedRunInv, DirectRunInv DEF ServiceNext

LEMMA ServiceInvariant == ServiceSpec => []ServiceInv
BY ServiceInitInv, ServiceStepInv, PTL DEF ServiceSpec

(* Server and runs together keep their books, for any set of ids and runs: *)
(* one answer per request, a registry of exactly the calls under way, and  *)
(* a slot, a runtime and a sink per run that holds them, no more.          *)
THEOREM ServiceIsSound == ServiceSpec => []ServiceSound
<1>1. ServiceInv => ServiceSound
  BY ResourcesFollow, SomeRunGoesOn DEF ServiceInv, ServerInv, ServiceSound
<1> QED
  BY <1>1, ServiceInvariant, PTL

(* A run that ended without an error behind a call that is over was        *)
(* answered, unless the output broke: neither a cancellation nor the end   *)
(* of the input that races its completion throws paid work away.           *)
THEOREM PaidWorkIsAnswered == ServiceSpec => []CompletedWorkAnswered
<1>1. ServiceInv => CompletedWorkAnswered
  <2> SUFFICES ASSUME ServiceInv, NEW i \in Served, pc[i] = "done", ~err[i], call[i] = "done"
               PROVE  answered[i] = 1 \/ writeErr
    BY DEF CompletedWorkAnswered
  <2> QED
    BY ServiceAssumption DEF ServiceInv, CouplingInv, CallOf
<1> QED
  BY <1>1, ServiceInvariant, PTL

(* The drain ends the context of every run, of late ones too.              *)
DrainInv == \A i \in Served : call[i] = "running" /\ serveDone => i \in cancelled

LEMMA DrainIsKept == ServiceInv /\ DrainInv /\ [ServiceNext]_serviceVars => DrainInv'
<1> SUFFICES ASSUME ServiceInv, DrainInv, [ServiceNext]_serviceVars PROVE DrainInv'
  OBVIOUS
<1>1. CASE Loop \/ \E i \in Id : ServedCall(i)
  <2>1. ContextsEnd
    BY <1>1 DEF Loop, ServedCall
  <2> QED
    BY <2>1 DEF ContextsEnd, DrainInv
<1>2. CASE LoopReturns \/ UNCHANGED serviceVars
  BY <1>2 DEF LoopReturns, ServeReturns, serviceVars, vars, runVars, DrainInv
<1>3. CASE (\E i \in Served : ServedExecute(i) \/ ServedRun(i)) \/ \E r \in Direct : DirectRun(r)
  <2>1. UNCHANGED vars /\ ((\E r \in Run : RunActs(r)) \/ \E r \in Run : RunCancelled(r))
    BY <1>3, ServiceAssumption DEF ServedExecute, ServedRun, DirectRun, RunActs
  <2>2. cancelled \subseteq cancelled'
    BY <2>1, RunActsAdvance DEF RunCancelled, ServiceInv, RunInv
  <2> QED
    BY <2>1, <2>2 DEF vars, DrainInv
<1> QED
  BY <1>1, <1>2, <1>3 DEF ServiceNext

(* When Serve returns no run is half-way: every runtime slot is back, and  *)
(* every runtime and audit sink that was opened is closed.  While it       *)
(* drains no run waits for a slot without being able to give up.           *)
THEOREM DrainIsComplete == ServiceSpec => []DrainReleasesRuns
<1>1. ServiceInv /\ DrainInv => DrainReleasesRuns
  <2> SUFFICES ASSUME ServiceInv, DrainInv PROVE DrainReleasesRuns
    OBVIOUS
  <2>1. loop # "reading" => driver = "mcp" /\ serveDone
    BY DEF ServiceInv, ServerInv, CouplingInv, TypeOK
  <2>2. ASSUME NEW r \in Run, loop # "reading", pc[r] \notin {"idle", "done"}
        PROVE  call[r] = "running" /\ r \in Served
    BY <2>1, <2>2 DEF ServiceInv, CouplingInv, CallOf
  <2>3. ASSUME loop = "returned", NEW r \in Run PROVE pc[r] \in {"idle", "done"}
    BY <2>2, <2>3, ServiceAssumption DEF ServiceInv, ServerInv, RegistryExact, Alive
  <2>4. ASSUME loop = "returned" PROVE slots = 0
    <3>1. Holding = {}
      BY <2>3, <2>4 DEF Holding
    <3> QED
      BY <3>1, FS_EmptySet DEF ServiceInv, ResourceInv, SlotInv
  <2>5. \A i \in Served : pc[i] = "done" /\ "open" \in life[i] => closed[i] = <<1, 1>>
    BY ServiceAssumption DEF ServiceInv, ResourceInv, ClosedPart
  <2>6. ASSUME loop = "draining", NEW i \in Served, pc[i] = "open" PROVE i \in cancelled
    BY <2>1, <2>2, <2>6, ServiceAssumption DEF DrainInv
  <2> QED
    BY <2>3, <2>4, <2>5, <2>6, ServiceAssumption DEF DrainReleasesRuns
<1>2. ServiceInit => DrainInv
  BY ServiceAssumption DEF ServiceInit, Init, DrainInv
<1> QED
  BY <1>1, <1>2, DrainIsKept, ServiceInvariant, PTL DEF ServiceSpec

(* What the server and the runs promise on their own they also keep when   *)
(* they are put together: silence is explained and reports are truthful.   *)
THEOREM ServiceKeepsPromises == ServiceSpec => [](SilenceOnlyWhenRevoked /\ ReportsTruthful)
<1>1. ServiceInv => SilenceOnlyWhenRevoked /\ ReportsTruthful
  BY DEF ServiceInv, ServerInv, RunInv, ReportsTruthful
<1> QED
  BY <1>1, ServiceInvariant, PTL

LEMMA ServiceEffect ==
    ASSUME [ServiceNext]_serviceVars PROVE (\E r \in Run : RunActs(r)) \/ ContextsOnly
<1>1. CASE Loop \/ LoopReturns \/ (\E i \in Id : ServedCall(i)) \/ UNCHANGED serviceVars
  BY <1>1 DEF Loop, LoopReturns, ServedCall, ContextsEnd, ContextsOnly, serviceVars, runVars
<1>2. CASE \E i \in Served : ServedExecute(i) \/ ServedRun(i)
  BY <1>2, ServiceAssumption DEF ServedExecute, ServedRun, RunActs
<1>3. CASE \E r \in Direct : DirectRun(r)
  BY <1>3, ServiceAssumption DEF DirectRun, RunActs, RunCancelled, ContextsOnly
<1> QED
  BY <1>1, <1>2, <1>3 DEF ServiceNext

(* Behind the server, too, a run dispatches nothing once it was stopped,   *)
(* and every step of a run brings it nearer to its end, while no request,  *)
(* no cancellation and no other run gives it more to do.                   *)
THEOREM ServiceAdvances == ServiceSpec => NoDispatchAfterStop /\ RunsAdvance
<1>1. ServiceInv /\ [ServiceNext]_serviceVars
        => [\A r \in Batch : \A i \in Items(r) :
               groupDone(r) /\ item'[r][i] = "running" => item[r][i] = "running"]_runVars
  BY ServiceEffect, StoppedStaysStopped DEF ServiceInv
<1>2. ServiceInv /\ [ServiceNext]_serviceVars
        => [/\ cancelled' = cancelled => \E r \in Run : StepsOf(r)' < StepsOf(r)
            /\ \A r \in Run : StepsOf(r)' <= StepsOf(r)]_runVars
  BY ServiceEffect, StepsShrink, ServiceStepInv DEF ServiceInv, RunInv
<1> QED
  BY <1>1, <1>2, ServiceInvariant, PTL DEF ServiceSpec, NoDispatchAfterStop, RunsAdvance

==============================================================================
