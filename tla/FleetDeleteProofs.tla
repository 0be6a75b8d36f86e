-------------------------- MODULE FleetDeleteProofs --------------------------
(***************************************************************************)
(* delete's promises for any fleet: it is a prompt operation of the        *)
(* engine, it removes nothing outside the login directory, it reports      *)
(* every path, and an abandoned worker removes at most one path more.      *)
(***************************************************************************)
EXTENDS FleetDelete, FleetEngineProofs

(* A worker's step changes nothing of the calling thread's, nor its age.   *)
LEMMA WorkerStepIsEngineStep ==
  ASSUME NEW i \in Specs, Worker(i)
  PROVE  [EngineNext]_engineVars /\ UNCHANGED <<age, main, cursor, verdict>>
BY DEF Worker, Begin, Login, SessionFails, Leave, NextItem, Remove, ProbeSize,
       ProbeCwdRefused, ProbeCwdEntered, ProbeCwdBreaks, CwdHome,
       CwdHomeFails, GiveUp, StartWorker, EndWorker, EngineNext, Ended,
       engineVars

LEMMA DeleteStepIsPrompt == [Next]_vars => [PromptNext]_engineVars
<1> SUFFICES ASSUME [Next]_vars, ~UNCHANGED engineVars PROVE PromptNext
  OBVIOUS
<1>1. EngineNext
  <2>1. CASE \E i \in Specs : Worker(i)
    BY <2>1, WorkerStepIsEngineStep
  <2>2. CASE CallerStep \/ InterruptCaller \/ TimePasses
    BY <2>2
    DEF CallerStep, AbandonHost, StopAll, InterruptCaller, TimePasses,
        EngineNext
  <2>3. CASE Finished \/ UNCHANGED vars
    BY <2>3 DEF Finished, vars
  <2> QED BY <2>1, <2>2, <2>3 DEF Next
<1>2. ASSUME Tick PROVE main # "abandoning"
  <2>1. age' # age
    BY <1>2 DEF Tick, engineVars
  <2>2. CASE \E i \in Specs : Worker(i)
    BY <2>1, <2>2, WorkerStepIsEngineStep
  <2>3. CASE CallerStep \/ InterruptCaller \/ Finished \/ UNCHANGED vars
    BY <2>1, <2>3
    DEF CallerStep, Collect, TimeOut, LeavePool, AbandonHost, Abandon,
        StopAll, Return, InterruptCaller, Interrupt, Finished, vars,
        engineVars
  <2>4. CASE TimePasses
    BY <2>4 DEF TimePasses
  <2> QED BY <2>2, <2>3, <2>4 DEF Next
<1> QED BY <1>1, <1>2 DEF PromptNext

(* delete implements the prompt engine.                                    *)
THEOREM DeleteImplementsPromptEngine == Spec => PromptSpec
<1>1. Init => EngineInit
  BY DEF Init
<1> QED BY <1>1, DeleteStepIsPrompt, PTL DEF Spec, PromptSpec

(* delete never reports the result of a host that overran host_timeout.    *)
THEOREM DeleteKeepsBudget == Spec => []BudgetKept
  BY DeleteImplementsPromptEngine, PromptKeepsBudget, PTL

-----------------------------------------------------------------------------
(* The inductive invariant of the workers.                                 *)
StepOfThread(i) == step[i] # "idle" <=> thread[i] = "running"

AtHome(i) ==
  (thread[i] = "queued" \/ step[i] \notin {"idle", "home"}) => i \notin away

Accounts(i) ==
  /\ settled[i] + left[i] = total[i]
  /\ step[i] \in {"send", "size", "cwd", "home"} => left[i] > 0
  /\ thread[i] = "queued" \/ step[i] = "connect" => settled[i] = 0 /\ left[i] = 0
  /\ thread[i] = "done" /\ i \notin stop => left[i] = 0
  /\ verdict[i] = "result" => thread[i] = "done" /\ left[i] = 0

StopReason(i) == i \in stop => verdict[i] = "timeout" \/ main = "returned"

FewLate(i) ==
  /\ late[i] <= 1
  /\ late[i] = 1 => i \in stop /\ step[i] # "send"

DeleteInv ==
  \A i \in Specs :
    StepOfThread(i) /\ AtHome(i) /\ Accounts(i) /\ StopReason(i) /\ FewLate(i)

IInv == TypeOK /\ EngineInv /\ DeleteInv

LEMMA IInvInit == Init => IInv
<1> SUFFICES ASSUME Init PROVE IInv
  OBVIOUS
<1>1. EngineInv /\ TypeOK
  BY EngineInvInit, DeleteAssumption DEF Init, EngineInv, TypeOK
<1>2. DeleteInv
  BY DEF Init, EngineInit, DeleteInv, StepOfThread, AtHome, Accounts,
         StopReason, FewLate
<1> QED BY <1>1, <1>2 DEF IInv

(* Settling n of the paths left moves them to the report, and only there.  *)
LEMMA Settling ==
  ASSUME TypeOK, NEW i \in Specs, NEW n \in 0..left[i], SettleItems(i, n)
  PROVE  /\ settled' \in [Specs -> Nat]
         /\ left' \in [Specs -> 0..MaxItems]
         /\ left'[i] = left[i] - n
         /\ settled'[i] + left'[i] = settled[i] + left[i]
         /\ \A j \in Specs \ {i} : left'[j] = left[j] /\ settled'[j] = settled[j]
<1> USE DeleteAssumption DEF TypeOK
<1>1. left[i] \in Nat /\ left[i] <= MaxItems /\ n \in Nat /\ settled[i] \in Nat
  OBVIOUS
<1>2. settled[i] + n \in Nat /\ left[i] - n \in 0..MaxItems
  BY <1>1
<1>3. settled' = [settled EXCEPT ![i] = settled[i] + n]
  BY DEF SettleItems
<1>4. left' = [left EXCEPT ![i] = left[i] - n]
  BY DEF SettleItems
<1>5. settled' \in [Specs -> Nat] /\ left' \in [Specs -> 0..MaxItems]
  BY <1>2, <1>3, <1>4
<1>6. settled'[i] = settled[i] + n /\ left'[i] = left[i] - n
  BY <1>3, <1>4
<1>7. \A j \in Specs \ {i} : left'[j] = left[j] /\ settled'[j] = settled[j]
  BY <1>3, <1>4
<1> QED BY <1>1, <1>5, <1>6, <1>7

LEMMA WorkerKeepsInv ==
  ASSUME IInv, EngineTypeOK', NEW i \in Specs, Worker(i)
  PROVE  TypeOK' /\ DeleteInv'
<1> USE DeleteAssumption
    DEF IInv, TypeOK, EngineInv, EngineTypeOK, DeleteInv, StepOfThread,
        AtHome, Accounts, StopReason, FewLate, Goto, Ended, engineVars
<1>1. CASE Begin(i)
  BY <1>1 DEF Begin, StartWorker
<1>2. CASE Login(i)
  BY <1>2 DEF Login
<1>3. CASE SessionFails(i)
  BY <1>3 DEF SessionFails, EndWorker
<1>4. CASE Leave(i)
  BY <1>4 DEF Leave, EndWorker
<1>5. CASE NextItem(i)
  BY <1>5 DEF NextItem
<1>6. CASE Remove(i)
  <2>1. CASE UNCHANGED <<left, settled>>
    BY <1>6, <2>1 DEF Remove
  <2>2. CASE SettleItems(i, 1) /\ step' = [step EXCEPT ![i] = "check"]
    BY <1>6, <2>2, Settling DEF Remove
  <2> QED BY <1>6, <2>1, <2>2 DEF Remove
<1>7. CASE ProbeSize(i)
  <2>1. CASE UNCHANGED <<left, settled>>
    BY <1>7, <2>1 DEF ProbeSize
  <2>2. CASE SettleItems(i, 1) /\ step' = [step EXCEPT ![i] = "check"]
    BY <1>7, <2>2, Settling DEF ProbeSize
  <2> QED BY <1>7, <2>1, <2>2 DEF ProbeSize
<1>8. CASE ProbeCwdRefused(i)
  BY <1>8, Settling DEF ProbeCwdRefused
<1>9. CASE ProbeCwdEntered(i)
  BY <1>9 DEF ProbeCwdEntered
<1>10. CASE ProbeCwdBreaks(i)
  BY <1>10, Settling DEF ProbeCwdBreaks, GiveUp, EndWorker
<1>11. CASE CwdHome(i)
  BY <1>11, Settling DEF CwdHome
<1>12. CASE CwdHomeFails(i)
  BY <1>12, Settling DEF CwdHomeFails, GiveUp, EndWorker
<1> QED
  BY <1>1, <1>2, <1>3, <1>4, <1>5, <1>6, <1>7, <1>8, <1>9, <1>10, <1>11,
     <1>12
  DEF Worker

LEMMA CallerKeepsInv ==
  ASSUME IInv, CallerStep \/ InterruptCaller \/ TimePasses \/ UNCHANGED vars,
         EngineTypeOK'
  PROVE  TypeOK' /\ DeleteInv'
<1> USE DEF IInv, TypeOK, EngineInv, EngineTypeOK, DeleteInv, StepOfThread,
            AtHome, Accounts, StopReason, FewLate, Ended, engineVars,
            workerVars
<1>1. CASE Collect /\ UNCHANGED workerVars
  <2>1. /\ cursor \in Specs
        /\ verdict' = [verdict EXCEPT ![cursor] =
                         IF thread[cursor] = "done" THEN "result" ELSE "error"]
        /\ verdict[cursor] = "none" /\ main = "collecting"
    BY <1>1 DEF Collect, Settle, VerdictsBeforeCursor, Specs
  <2>2. cursor \notin stop
    BY <2>1
  <2> QED BY <1>1, <2>1, <2>2 DEF Collect
<1>2. CASE AbandonHost
  <2>1. /\ cursor \in Specs
        /\ verdict' = [verdict EXCEPT ![cursor] = "timeout"]
        /\ verdict[cursor] = "none" /\ main = "abandoning"
        /\ main' = "collecting"
    BY <1>2
    DEF AbandonHost, Abandon, Settle, VerdictsBeforeCursor, GivenUpInTime,
        Specs
  <2>2. cursor \notin stop
    BY <2>1
  <2> QED BY <1>2, <2>1, <2>2 DEF AbandonHost, Abandon
<1>3. CASE StopAll
  BY <1>3 DEF StopAll, Return
<1>4. CASE (TimeOut \/ LeavePool \/ Interrupt) /\ UNCHANGED workerVars
  BY <1>4 DEF TimeOut, LeavePool, Interrupt
<1>5. CASE TimePasses
  BY <1>5 DEF TimePasses, Tick
<1>6. CASE UNCHANGED vars
  BY <1>6 DEF vars
<1> QED
  BY <1>1, <1>2, <1>3, <1>4, <1>5, <1>6 DEF CallerStep, InterruptCaller

LEMMA IInvStep == IInv /\ [Next]_vars => IInv'
<1> SUFFICES ASSUME IInv, [Next]_vars PROVE IInv'
  OBVIOUS
<1>1. [EngineNext]_engineVars
  BY DeleteStepIsPrompt DEF PromptNext
<1>2. EngineInv'
  BY <1>1, EngineInvStep DEF IInv
<1>3. TypeOK' /\ DeleteInv'
  BY <1>2, WorkerKeepsInv, CallerKeepsInv DEF Next, Finished, EngineInv
<1> QED BY <1>2, <1>3 DEF IInv

THEOREM DeleteInvariant == Spec => []IInv
  BY IInvInit, IInvStep, PTL DEF Spec

(* No DELE or RMD is ever sent from another directory than the login PWD.  *)
THEOREM OnlyRemovesFromHome == Spec => []RemovesFromHome
<1>1. IInv => RemovesFromHome
  BY DEF IInv, DeleteInv, AtHome, RemovesFromHome
<1> QED BY <1>1, DeleteInvariant, PTL

(* Every path of a collected host is in its report, exactly once.          *)
THEOREM ReportIsComplete == Spec => []EveryPathReported
<1>1. IInv => EveryPathReported
  BY DEF IInv, TypeOK, DeleteInv, Accounts, EveryPathReported
<1> QED BY <1>1, DeleteInvariant, PTL

(* An abandoned worker sends at most one more DELE or RMD.                 *)
THEOREM AtMostOneLateRemove == Spec => []OneLateRemove
<1>1. IInv => OneLateRemove
  BY DEF IInv, DeleteInv, FewLate, OneLateRemove
<1> QED BY <1>1, DeleteInvariant, PTL
=============================================================================
