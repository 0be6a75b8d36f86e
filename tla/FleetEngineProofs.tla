-------------------------- MODULE FleetEngineProofs --------------------------
(***************************************************************************)
(* What every operation of the fleet engine guarantees, for any number of  *)
(* specs, any pool size and any host_timeout.                              *)
(***************************************************************************)
EXTENDS FleetEngine, FiniteSetTheorems, TLAPS

(* The inductive invariant: the cursor splits the specs into those with a  *)
(* verdict, all of which have started, and those without; the pool served  *)
(* its queue in order; a spec is given up on only after HostTimeout.       *)
VerdictsBeforeCursor ==
  \A i \in Specs :
    /\ i < cursor => verdict[i] # "none" /\ thread[i] # "queued"
    /\ i >= cursor => verdict[i] = "none"

StartedInOrder ==
  \A i, j \in Specs : i < j /\ thread[j] # "queued" => thread[i] # "queued"

OverTime(i) == thread[i] # "queued" /\ age[i] >= HostTimeout

GivenUpInTime ==
  /\ main = "abandoning" => cursor \in Specs /\ OverTime(cursor)
  /\ \A i \in Specs : verdict[i] = "timeout" => OverTime(i)

EngineInv ==
  EngineTypeOK /\ VerdictsBeforeCursor /\ StartedInOrder /\ GivenUpInTime

LEMMA EngineInvInit == EngineInit => EngineInv
  BY EngineAssumption
  DEF EngineInit, EngineInv, EngineTypeOK, VerdictsBeforeCursor,
      StartedInOrder, GivenUpInTime, Specs, MaxAge

LEMMA EngineInvStep == EngineInv /\ [EngineNext]_engineVars => EngineInv'
<1> SUFFICES ASSUME EngineInv, [EngineNext]_engineVars
             PROVE  EngineInv'
  OBVIOUS
<1> USE EngineAssumption
    DEF EngineInv, EngineTypeOK, VerdictsBeforeCursor, StartedInOrder,
        GivenUpInTime, OverTime, Specs, MaxAge, Ended
<1>1. ASSUME NEW i \in Specs, StartWorker(i) PROVE EngineInv'
  BY <1>1 DEF StartWorker
<1>2. ASSUME NEW i \in Specs, NEW how \in Ended, EndWorker(i, how)
      PROVE  EngineInv'
  BY <1>2 DEF EndWorker
<1>3. CASE Collect
  BY <1>3 DEF Collect, Settle
<1>4. CASE TimeOut
  BY <1>4 DEF TimeOut
<1>5. CASE Abandon
  BY <1>5 DEF Abandon, Settle
<1>6. CASE LeavePool \/ Interrupt \/ Return
  BY <1>6 DEF LeavePool, Interrupt, Return
<1>7. CASE Tick
  BY <1>7 DEF Tick
<1>8. CASE UNCHANGED engineVars
  BY <1>8 DEF engineVars
<1> QED
  BY <1>1, <1>2, <1>3, <1>4, <1>5, <1>6, <1>7, <1>8 DEF EngineNext

THEOREM EngineInvariant == EngineSpec => []EngineInv
  BY EngineInvInit, EngineInvStep, PTL DEF EngineSpec

(* Every state of the engine is well typed.                                *)
THEOREM EngineTypeCorrect == EngineSpec => []EngineTypeOK
<1>1. EngineInv => EngineTypeOK
  BY DEF EngineInv
<1> QED BY <1>1, EngineInvariant, PTL

(* A call that returns its report has started every worker and settled     *)
(* every spec: no session is opened behind the caller's back.              *)
THEOREM NothingQueuedAtReturn == EngineSpec => []NothingLeftQueued
<1>1. EngineInv => NothingLeftQueued
  BY EngineAssumption
  DEF EngineInv, VerdictsBeforeCursor, NothingLeftQueued, Specs
<1> QED BY <1>1, EngineInvariant, PTL

(* Waiting in the pool's queue never counts against host_timeout.          *)
THEOREM WaitIsFree == EngineSpec => []WaitNotCharged
<1>1. EngineInv => WaitNotCharged
  BY DEF EngineInv, GivenUpInTime, OverTime, WaitNotCharged
<1> QED BY <1>1, EngineInvariant, PTL

-----------------------------------------------------------------------------
(* The pool's bound needs only its own guard, and that no thread is handed *)
(* out twice.                                                              *)

LEMMA RunningFinite == IsFiniteSet(Running) /\ Cardinality(Running) \in Nat
<1>1. IsFiniteSet(1..N)
  BY EngineAssumption, FS_Interval
<1>2. Running \subseteq 1..N
  BY DEF Running, Specs
<1> QED BY <1>1, <1>2, FS_Subset, FS_CardinalityType

(* No step makes more than MaxConcurrency workers run at once.             *)
LEMMA PoolBoundStep ==
  EngineTypeOK /\ PoolBound /\ [EngineNext]_engineVars => PoolBound'
<1> SUFFICES ASSUME EngineTypeOK, PoolBound, [EngineNext]_engineVars
             PROVE  PoolBound'
  OBVIOUS
<1>1. ASSUME NEW i \in Specs, StartWorker(i) PROVE PoolBound'
  <2>1. Running' = Running \cup {i}
    BY <1>1 DEF StartWorker, Running, EngineTypeOK
  <2>2. i \notin Running
    BY <1>1 DEF StartWorker, Running
  <2>3. Cardinality(Running \cup {i}) = Cardinality(Running) + 1
    BY <2>2, RunningFinite, FS_AddElement
  <2>4. Cardinality(Running) < MaxConcurrency
    BY <1>1 DEF StartWorker
  <2> QED
    BY <2>1, <2>3, <2>4, RunningFinite, EngineAssumption DEF PoolBound
<1>2. ASSUME NEW i \in Specs, NEW how \in Ended, EndWorker(i, how)
      PROVE  PoolBound'
  <2>1. Running' \subseteq Running
    BY <1>2 DEF EndWorker, Running, EngineTypeOK, Ended
  <2>2. /\ Cardinality(Running') <= Cardinality(Running)
        /\ Cardinality(Running') \in Nat
    BY <2>1, RunningFinite, FS_Subset, FS_CardinalityType
  <2> QED
    BY <2>2, RunningFinite, EngineAssumption DEF PoolBound
<1>3. CASE UNCHANGED thread
  BY <1>3 DEF PoolBound, Running
<1> QED
  BY <1>1, <1>2, <1>3
  DEF EngineNext, Collect, TimeOut, Abandon, LeavePool, Interrupt, Return,
      Tick, engineVars

(* At most MaxConcurrency connections are ever open, abandoned hosts'      *)
(* connections included.                                                   *)
THEOREM PoolNeverOverfull == EngineSpec => []PoolBound
<1>1. EngineInit => PoolBound
  <2> SUFFICES ASSUME EngineInit PROVE PoolBound
    OBVIOUS
  <2>1. Running = {}
    BY DEF EngineInit, Running
  <2> QED BY <2>1, FS_EmptySet, EngineAssumption DEF PoolBound
<1> QED BY <1>1, PoolBoundStep, EngineTypeCorrect, PTL DEF EngineSpec
-----------------------------------------------------------------------------
(* The budget.  Because the pool starts workers in spec order, a later     *)
(* spec has never run longer than an earlier one that is still running; so *)
(* as long as the caller is only ever blocked on the future at the cursor, *)
(* no worker it has yet to look at can outlive host_timeout unnoticed.     *)
LaterIsYounger ==
  \A i, j \in Specs :
    /\ thread[i] = "queued" => age[i] = 0
    /\ i < j /\ thread[i] = "running" => age[j] <= age[i]

UnsettledInBudget ==
  main \in {"collecting", "abandoning"} =>
    \A i \in Specs : i >= cursor => age[i] <= HostTimeout

ResultInBudget ==
  \A i \in Specs :
    verdict[i] = "result" => thread[i] = "done" /\ age[i] <= HostTimeout

BudgetInv == EngineInv /\ LaterIsYounger /\ UnsettledInBudget /\ ResultInBudget

LEMMA BudgetInvInit == EngineInit => BudgetInv
  BY EngineInvInit, EngineAssumption
  DEF BudgetInv, EngineInit, LaterIsYounger, UnsettledInBudget,
      ResultInBudget

(* The step where it matters is Tick: the caller waits for the worker at   *)
(* the cursor, which has not used up its budget (or has not started, and   *)
(* then no later one has either).                                          *)
LEMMA TickKeepsBudget ==
  BudgetInv /\ Tick /\ main # "abandoning" => UnsettledInBudget'
<1> SUFFICES ASSUME BudgetInv, Tick, main = "collecting",
                    NEW j \in Specs, j >= cursor
             PROVE  age'[j] <= HostTimeout
  BY DEF UnsettledInBudget, Tick
<1> USE EngineAssumption DEF BudgetInv, EngineInv, EngineTypeOK, MaxAge
<1>1. cursor \in Specs
  BY DEF Specs
<1>2. age[j] <= HostTimeout
  BY DEF UnsettledInBudget
<1>3. CASE thread[j] # "running"
  BY <1>2, <1>3 DEF Tick
<1>4. CASE thread[j] = "running"
  <2>1. thread[cursor] # "queued"
    BY <1>1, <1>4 DEF StartedInOrder, Specs
  <2>2. thread[cursor] = "running" /\ age[cursor] < HostTimeout
    BY <1>1, <2>1 DEF Tick, CollectorReady, Ended, Specs
  <2>3. age[j] <= age[cursor]
    BY <1>1, <2>2 DEF LaterIsYounger, Specs
  <2>4. age'[j] <= age[j] + 1
    BY DEF Tick
  <2>5. age[j] \in Int /\ age[cursor] \in Int /\ age'[j] \in Int
    BY <1>1 DEF Tick
  <2> QED BY <2>2, <2>3, <2>4, <2>5
<1> QED BY <1>3, <1>4

LEMMA BudgetInvStep == BudgetInv /\ [PromptNext]_engineVars => BudgetInv'
<1> SUFFICES ASSUME BudgetInv, [PromptNext]_engineVars
             PROVE  BudgetInv'
  OBVIOUS
<1>1. EngineInv'
  BY EngineInvStep DEF BudgetInv, PromptNext
<1> USE EngineAssumption
    DEF BudgetInv, EngineInv, EngineTypeOK, Specs, MaxAge, Ended,
        LaterIsYounger, UnsettledInBudget, ResultInBudget
<1>2. ASSUME NEW i \in Specs, StartWorker(i) PROVE BudgetInv'
  <2>1. \A j \in Specs : j >= i => age[j] = 0
    BY <1>2 DEF StartWorker, StartedInOrder
  <2>2. LaterIsYounger'
    BY <1>2, <2>1 DEF StartWorker
  <2>3. UnsettledInBudget' /\ ResultInBudget'
    BY <1>2 DEF StartWorker
  <2> QED BY <1>1, <2>2, <2>3
<1>3. ASSUME NEW i \in Specs, NEW how \in Ended, EndWorker(i, how)
      PROVE  BudgetInv'
  BY <1>1, <1>3 DEF EndWorker
<1>4. CASE Collect
  BY <1>1, <1>4 DEF Collect, Settle
<1>5. CASE TimeOut
  BY <1>1, <1>5 DEF TimeOut
<1>6. CASE Abandon
  BY <1>1, <1>6 DEF Abandon, Settle
<1>7. CASE LeavePool \/ Interrupt \/ Return
  BY <1>1, <1>7 DEF LeavePool, Interrupt, Return
<1>8. CASE Tick /\ main # "abandoning"
  <2>1. UnsettledInBudget'
    BY <1>8, TickKeepsBudget
  <2>2. LaterIsYounger'
    BY <1>8 DEF Tick
  <2>3. ResultInBudget'
    BY <1>8 DEF Tick
  <2> QED BY <1>1, <2>1, <2>2, <2>3
<1>9. CASE UNCHANGED engineVars
  BY <1>1, <1>9 DEF engineVars
<1> QED
  BY <1>2, <1>3, <1>4, <1>5, <1>6, <1>7, <1>8, <1>9
  DEF PromptNext, EngineNext

(* No result of a worker that overran host_timeout is ever reported, for   *)
(* every operation whose on_abandon cannot block.                          *)
THEOREM PromptKeepsBudget == PromptSpec => []BudgetKept
<1>1. BudgetInv => BudgetKept
  BY DEF BudgetInv, ResultInBudget, BudgetKept
<1> QED
  BY <1>1, BudgetInvInit, BudgetInvStep, PTL DEF PromptSpec

(* The prompt operations are engines, so they inherit all of the above.    *)
THEOREM PromptIsEngine == PromptSpec => EngineSpec
<1>1. [PromptNext]_engineVars => [EngineNext]_engineVars
  BY DEF PromptNext
<1> QED BY <1>1, PTL DEF PromptSpec, EngineSpec
=============================================================================
