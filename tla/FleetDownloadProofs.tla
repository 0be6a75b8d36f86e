------------------------- MODULE FleetDownloadProofs -------------------------
(***************************************************************************)
(* download's promises about the caller's on_file, for any fleet: it is an *)
(* operation of the engine, its gates keep an abandoned worker off the     *)
(* sink, and what it reports as fetched has been through the sink.         *)
(***************************************************************************)
EXTENDS FleetDownload, FleetEngineProofs

(* A step of download is a step of the engine or leaves it alone.          *)
LEMMA DownloadStepIsEngineStep ==
  [Next]_vars => [EngineNext]_engineVars
<1> SUFFICES ASSUME [Next]_vars PROVE [EngineNext]_engineVars
  OBVIOUS
<1>1. ASSUME NEW i \in Specs, Worker(i) PROVE [EngineNext]_engineVars
  BY <1>1
  DEF Worker, Begin, Resolve, SessionFails, Leave, NextPath, FetchEnds,
      FetchToGate, FetchToReport, FetchFails, GateSwallows, GateOpens, CallbackReturns, CallbackRaises,
      EngineNext, Ended
<1>2. CASE CallerStep
  BY <1>2 DEF CallerStep, AbandonHost, CloseNextGate, ReturnReport, EngineNext
<1>3. CASE InterruptCaller \/ TimePasses \/ Finished \/ UNCHANGED vars
  BY <1>3 DEF InterruptCaller, TimePasses, Finished, vars, EngineNext
<1> QED BY <1>1, <1>2, <1>3 DEF Next

(* download implements the engine.                                         *)
THEOREM DownloadImplementsEngine == Spec => EngineSpec
<1>1. Init => EngineInit
  BY DEF Init
<1> QED BY <1>1, DownloadStepIsEngineStep, PTL DEF Spec, EngineSpec

(* Without on_file there is no gate to wait for: the engine is prompt, and *)
(* collect mode never reports a result that overran host_timeout.          *)
THEOREM CollectModeKeepsBudget == Spec => []CollectingKeepsBudget
<1>1. [Next]_vars => streaming' = streaming
  BY DEF Next, Worker, Begin, Resolve, SessionFails, Leave, NextPath, FetchEnds,
         FetchToGate, FetchToReport, FetchFails, GateSwallows, GateOpens,
         CallbackReturns, CallbackRaises, CallerStep, AbandonHost, CloseNextGate,
         ReturnReport, InterruptCaller, TimePasses, Finished, vars, workerVars
<1>2. ~streaming /\ [Next]_vars => [PromptNext]_engineVars
  <2> SUFFICES ASSUME ~streaming, [Next]_vars, ~UNCHANGED engineVars PROVE PromptNext
    OBVIOUS
  <2>1. EngineNext
    BY DownloadStepIsEngineStep
  <2>2. ASSUME Tick PROVE main # "abandoning"
    <3>1. CASE TimePasses
      BY <3>1, ~streaming DEF TimePasses, WaitsForGate
    <3>2. age' # age
      BY <2>2 DEF Tick, engineVars
    <3>3. CASE \E i \in Specs : Worker(i)
      BY <3>2, <3>3
      DEF Worker, Begin, Resolve, SessionFails, Leave, NextPath, FetchEnds,
          FetchToGate, FetchToReport, FetchFails, GateSwallows, GateOpens, CallbackReturns,
          CallbackRaises, StartWorker, EndWorker, engineVars
    <3>4. CASE CallerStep \/ InterruptCaller \/ Finished \/ UNCHANGED vars
      BY <3>2, <3>4
      DEF CallerStep, Collect, TimeOut, LeavePool, AbandonHost, Abandon,
          CloseNextGate, ReturnReport, Return, InterruptCaller, Interrupt,
          Finished, vars, engineVars
    <3> QED BY <3>1, <3>3, <3>4 DEF Next
  <2> QED BY <2>1, <2>2 DEF PromptNext
<1>3. Init => EngineInit
  BY DEF Init
<1>4. Spec /\ ~streaming => PromptSpec
  <2>1. ~streaming /\ [Next]_vars => (~streaming)'
    BY <1>1
  <2> QED
    BY <2>1, <1>2, <1>3, PTL DEF Spec, PromptSpec
<1>5. streaming /\ [Next]_vars => streaming'
  BY <1>1
<1>6. streaming \/ BudgetKept => CollectingKeepsBudget
  BY DEF CollectingKeepsBudget
<1> QED
  BY <1>4, <1>5, <1>6, PromptKeepsBudget, PTL DEF Spec

-----------------------------------------------------------------------------
(* Every state of download is well typed.                                  *)
LEMMA DownloadTypeStep == TypeOK /\ EngineTypeOK' /\ [Next]_vars => TypeOK'
<1> SUFFICES ASSUME TypeOK, EngineTypeOK', [Next]_vars PROVE TypeOK'
  OBVIOUS
<1> USE DownloadAssumption DEF TypeOK, Goto, Close
<1>1. ASSUME NEW i \in Specs, Worker(i) PROVE TypeOK'
  <2>1. CASE Begin(i)
    BY <2>1 DEF Begin
  <2>2. CASE Resolve(i)
    BY <2>2 DEF Resolve
  <2>3. CASE SessionFails(i) \/ Leave(i)
    BY <2>3 DEF SessionFails, Leave
  <2>4. CASE NextPath(i)
    BY <2>4 DEF NextPath
  <2>5. CASE FetchToGate(i) \/ FetchFails(i)
    BY <2>5 DEF FetchToGate, FetchFails, FetchEnds
  <2>6. CASE FetchToReport(i)
    BY <2>6 DEF FetchToReport, FetchEnds
  <2>7. CASE GateSwallows(i)
    BY <2>7 DEF GateSwallows
  <2>8. CASE GateOpens(i)
    BY <2>8 DEF GateOpens
  <2>9. CASE CallbackReturns(i) \/ CallbackRaises(i)
    BY <2>9 DEF CallbackReturns, CallbackRaises
  <2> QED
    BY <1>1, <2>1, <2>2, <2>3, <2>4, <2>5, <2>6, <2>7, <2>8, <2>9
    DEF Worker
<1>2. CASE AbandonHost
  <2>1. cursor \in Specs
    BY <1>2, EngineAssumption DEF AbandonHost, Abandon, Settle, EngineTypeOK, Specs
  <2> QED BY <1>2, <2>1 DEF AbandonHost
<1>3. CASE CloseNextGate
  <2>1. shut + 1 \in Specs /\ shut' \in 0..N
    BY <1>3, EngineAssumption DEF CloseNextGate, Specs
  <2> QED BY <1>3, <2>1 DEF CloseNextGate
<1>4. CASE UNCHANGED workerVars
  BY <1>4 DEF workerVars
<1> QED
  BY <1>1, <1>2, <1>3, <1>4
  DEF Next, CallerStep, ReturnReport, InterruptCaller, TimePasses, Finished,
      vars

THEOREM DownloadTypeCorrect == Spec => []TypeOK
<1>1. Init => TypeOK
  BY EngineInvInit, EngineAssumption, DownloadAssumption
  DEF Init, TypeOK, EngineInv, Specs
<1>2. Spec => []EngineTypeOK
  BY DownloadImplementsEngine, EngineTypeCorrect, PTL
<1> QED BY <1>1, <1>2, DownloadTypeStep, PTL DEF Spec

-----------------------------------------------------------------------------
(* The inductive invariant of the gates.  A closed gate has no callback    *)
(* behind it; gates are closed by on_abandon (with the verdict) or by the  *)
(* finally clause (in order, counted by shut), and by nothing else; a      *)
(* worker that ended with its gate open took every path and appended a     *)
(* FileResult only for what went through the sink.                         *)
GateShut(i) == i \in closed => step[i] # "callback"

GateReason(i) ==
  /\ streaming /\ (verdict[i] = "timeout" \/ i <= shut) => i \in closed
  /\ i \in closed => verdict[i] = "timeout" \/ i <= shut
  /\ ~streaming => step[i] \notin {"gate", "callback"}

FinallyOnly ==
  /\ shut > 0 => main \in {"finally", "returned"}
  /\ streaming /\ main = "returned" => shut = N

StepOfThread(i) == step[i] # "idle" <=> thread[i] = "running"

HonestFiles(i) ==
  i \notin closed =>
    /\ streaming => files[i] = sunk[i]
    /\ step[i] \in {"idle", "connect"} /\ thread[i] # "done" => left[i] = 0
    /\ thread[i] = "done" => left[i] = 0

HonestResult(i) ==
  verdict[i] = "result" =>
    /\ thread[i] = "done"
    /\ left[i] = 0
    /\ streaming => files[i] = sunk[i]

FewExtra(i) ==
  /\ extra[i] <= 1
  /\ extra[i] = 1 => i \in closed /\ step[i] # "fetch"

GateInv ==
  /\ FinallyOnly
  /\ \A i \in Specs :
       /\ GateShut(i) /\ GateReason(i) /\ StepOfThread(i)
       /\ HonestFiles(i) /\ HonestResult(i) /\ FewExtra(i)

IInv == TypeOK /\ EngineInv /\ GateInv

LEMMA GateInvInit == Init => IInv
<1> SUFFICES ASSUME Init PROVE IInv
  OBVIOUS
<1>1. EngineInv /\ TypeOK
  BY EngineInvInit, EngineAssumption, DownloadAssumption
  DEF Init, EngineInv, TypeOK, Specs
<1>2. GateInv
  BY EngineAssumption
  DEF Init, EngineInit, GateInv, FinallyOnly, GateShut, GateReason,
      StepOfThread, HonestFiles, HonestResult, FewExtra, Specs
<1> QED BY <1>1, <1>2 DEF IInv

(* A worker's own step.  It changes nothing of the other specs, so each    *)
(* part of the invariant is about the spec that moved.                     *)
LEMMA WorkerKeepsGates ==
  ASSUME IInv, NEW i \in Specs, Worker(i) PROVE GateInv'
<1> USE DEF IInv, TypeOK, EngineInv, EngineTypeOK, GateInv, FinallyOnly,
            GateShut, GateReason, StepOfThread, HonestFiles, HonestResult,
            FewExtra, Goto, Ended, engineVars
<1>1. CASE Begin(i)
  BY <1>1 DEF Begin, StartWorker
<1>2. CASE Resolve(i)
  BY <1>2 DEF Resolve
<1>3. CASE SessionFails(i)
  BY <1>3 DEF SessionFails, EndWorker
<1>4. CASE Leave(i)
  BY <1>4 DEF Leave, EndWorker
<1>5. CASE NextPath(i)
  BY <1>5 DEF NextPath
<1>6. CASE FetchToGate(i)
  BY <1>6 DEF FetchToGate, FetchEnds
<1>7. CASE FetchToReport(i)
  BY <1>7 DEF FetchToReport, FetchEnds
<1>8. CASE FetchFails(i)
  BY <1>8 DEF FetchFails, FetchEnds
<1>9. CASE GateSwallows(i) \/ GateOpens(i)
  BY <1>9 DEF GateSwallows, GateOpens
<1>10. CASE CallbackReturns(i)
  BY <1>10 DEF CallbackReturns
<1>11. CASE CallbackRaises(i)
  BY <1>11 DEF CallbackRaises
<1> QED
  BY <1>1, <1>2, <1>3, <1>4, <1>5, <1>6, <1>7, <1>8, <1>9, <1>10, <1>11
  DEF Worker

LEMMA CallerKeepsGates ==
  ASSUME IInv, CallerStep \/ InterruptCaller \/ TimePasses \/ UNCHANGED vars
  PROVE  GateInv'
<1> USE EngineAssumption
    DEF IInv, TypeOK, EngineInv, EngineTypeOK, VerdictsBeforeCursor,
        GateInv, FinallyOnly, GateShut, GateReason, StepOfThread,
        HonestFiles, HonestResult, FewExtra, Ended, engineVars, workerVars
<1>1. CASE Collect /\ UNCHANGED workerVars
  <2>1. cursor \in Specs /\ verdict[cursor] = "none" /\ shut = 0
    BY <1>1 DEF Collect, Specs
  <2>2. cursor \notin closed
    BY <2>1 DEF Specs
  <2>3. verdict' = [verdict EXCEPT ![cursor] =
                      IF thread[cursor] = "done" THEN "result" ELSE "error"]
    BY <1>1 DEF Collect, Settle
  <2>4. \A i \in Specs : HonestResult(i)'
    BY <1>1, <2>1, <2>2, <2>3 DEF Collect
  <2>5. \A i \in Specs : GateReason(i)'
    BY <1>1, <2>1, <2>2, <2>3 DEF Collect, Specs
  <2> QED BY <1>1, <2>4, <2>5 DEF Collect
<1>2. CASE AbandonHost
  <2>1. cursor \in Specs /\ verdict[cursor] = "none" /\ shut = 0
    BY <1>2 DEF AbandonHost, Abandon, GivenUpInTime, Specs
  <2>2. verdict' = [verdict EXCEPT ![cursor] = "timeout"] /\ main' = "collecting"
    BY <1>2 DEF AbandonHost, Abandon, Settle
  <2>3. CASE streaming
    <3>1. closed' = closed \cup {cursor} /\ step[cursor] # "callback"
      BY <1>2, <2>3 DEF AbandonHost, LockFree, Close
    <3>2. UNCHANGED <<thread, streaming, step, left, files, sunk, shut, extra>>
      BY <1>2 DEF AbandonHost, Abandon
    <3>3. FinallyOnly'
      BY <2>1, <2>2, <3>2
    <3>4. ASSUME NEW i \in Specs PROVE GateShut(i)' /\ GateReason(i)'
      BY <2>1, <2>2, <3>1, <3>2
    <3>5. ASSUME NEW i \in Specs PROVE HonestFiles(i)' /\ HonestResult(i)'
      BY <2>1, <2>2, <3>1, <3>2
    <3>6. ASSUME NEW i \in Specs PROVE StepOfThread(i)' /\ FewExtra(i)'
      BY <3>1, <3>2
    <3> QED BY <3>3, <3>4, <3>5, <3>6
  <2>4. CASE ~streaming
    BY <1>2, <2>1, <2>2, <2>4 DEF AbandonHost, Abandon, Specs
  <2> QED BY <2>3, <2>4
<1>3. CASE CloseNextGate
  BY <1>3 DEF CloseNextGate, LockFree, Close, Specs
<1>4. CASE ReturnReport
  BY <1>4 DEF ReturnReport, Return, Specs
<1>5. CASE (TimeOut \/ LeavePool \/ Interrupt) /\ UNCHANGED workerVars
  BY <1>5 DEF TimeOut, LeavePool, Interrupt, Specs
<1>6. CASE TimePasses
  BY <1>6 DEF TimePasses, Tick
<1>7. CASE UNCHANGED vars
  BY <1>7 DEF vars
<1> QED
  BY <1>1, <1>2, <1>3, <1>4, <1>5, <1>6, <1>7 DEF CallerStep, InterruptCaller

LEMMA IInvStep == IInv /\ [Next]_vars => IInv'
<1> SUFFICES ASSUME IInv, [Next]_vars PROVE IInv'
  OBVIOUS
<1>1. EngineInv'
  BY DownloadStepIsEngineStep, EngineInvStep DEF IInv
<1>2. TypeOK'
  BY <1>1, DownloadTypeStep DEF IInv, EngineInv
<1>3. GateInv'
  BY WorkerKeepsGates, CallerKeepsGates DEF Next, Finished
<1> QED BY <1>1, <1>2, <1>3 DEF IInv

THEOREM DownloadInvariant == Spec => []IInv
  BY GateInvInit, IInvStep, PTL DEF Spec

(* Once a host is reported as timed out, or download has returned, none of *)
(* its callbacks is running, and so none ever starts again.                *)
THEOREM SinkIsQuiet == Spec => []SinkQuiet
<1>1. IInv => SinkQuiet
  BY EngineAssumption
  DEF IInv, TypeOK, EngineInv, EngineTypeOK, GateInv, FinallyOnly, GateShut,
      GateReason, SinkQuiet, Specs
<1> QED BY <1>1, DownloadInvariant, PTL

(* Every FileResult of a collected host has been through the sink, and no  *)
(* path of it was skipped.                                                 *)
THEOREM CollectedIsSunk == Spec => []CollectedMeansSunk
<1>1. IInv => CollectedMeansSunk
  BY DEF IInv, GateInv, HonestResult, CollectedMeansSunk
<1> QED BY <1>1, DownloadInvariant, PTL

(* An abandoned worker finishes at most one RETR after its gate closed.    *)
THEOREM AtMostOneExtraFetch == Spec => []OneExtraFetch
<1>1. IInv => OneExtraFetch
  BY DEF IInv, GateInv, FewExtra, OneExtraFetch
<1> QED BY <1>1, DownloadInvariant, PTL
=============================================================================
