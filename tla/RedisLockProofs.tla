--------------------------- MODULE RedisLockProofs ---------------------------
(***************************************************************************)
(* Theorems about RedisLock, for any set of runs and any Ttl, MaxLag and   *)
(* MaxFails.                                                               *)
(***************************************************************************)
EXTENDS RedisLock, TLAPS

(* The key is there exactly while it has time to live.                     *)
KeyAlive ==
  /\ owner = NoRun <=> ttl = 0
  /\ owner = NoRun => orphan = 0

(* A run that has not begun has no watchdog.  Once the function is over a  *)
(* watchdog is gone, unless it was in the middle of a renewal.             *)
Lifecycle ==
  \A r \in Runs :
    /\ pc[r] = "idle" => dog[r] = "off" /\ due[r] = 0 /\ fails[r] = 0
    /\ r \in stop => pc[r] \in {"releasing", "over", "dead"}
    /\ dog[r] # "off" => pc[r] = "running" \/ r \in stop
    /\ dog[r] = "waiting" => r \notin stop
    /\ dog[r] = "extending" => due[r] >= Interval
    /\ owner = r => pc[r] # "idle"

(* How long a key has been an orphan, and what a renewal still on its way  *)
(* could add.                                                              *)
OrphanInv ==
  /\ OrphanBounded
  /\ \A r \in Runs :
       owner = r =>
         /\ pc[r] = "running" => orphan = 0
         /\ dog[r] = "extending" => orphan + Interval <= due[r]

IInv == TypeOK /\ KeyAlive /\ Lifecycle /\ OrphanInv

(* A live run that is steady has its watchdog, and its key has lost no     *)
(* more time than its failed attempts and its current wait account for.    *)
HeldInv ==
  \A r \in Runs : pc[r] = "running" /\ Steady(r) =>
    /\ owner = r
    /\ dog[r] # "off"
    /\ ttl + fails[r] * Gap + due[r] >= Ttl

-----------------------------------------------------------------------------

LEMMA TimeFacts ==
  /\ Interval \in Nat \ {0}
  /\ Gap \in Nat
  /\ Gap = Interval + MaxLag
  /\ OrphanCap \in Nat
  /\ OrphanCap = Ttl + MaxLag + 1
BY LockAssumption DEF Interval, Gap, OrphanCap

(* Type correctness, whatever the runs, their watchdogs and Redis do.      *)
LEMMA TypeStep == TypeOK /\ [Next]_vars => TypeOK'
<1> SUFFICES ASSUME TypeOK, [Next]_vars PROVE TypeOK'
  OBVIOUS
<1> USE LockAssumption, TimeFacts DEF TypeOK
<1>1. ASSUME NEW r \in Runs, Run(r) PROVE TypeOK'
  <2>1. CASE Acquire(r)
    BY <2>1 DEF Acquire, Goto, SetKey
  <2>2. CASE Skip(r)
    BY <2>2 DEF Skip, Goto
  <2>3. CASE AcquireErrors(r)
    BY <2>3 DEF AcquireErrors, Goto
  <2>4. CASE AcquireOrphans(r)
    BY <2>4 DEF AcquireOrphans, Goto, SetKey
  <2>5. CASE FnEnds(r)
    BY <2>5 DEF FnEnds, Goto, Quiet
  <2>6. CASE Release(r)
    BY <2>6 DEF Release, Goto, DeleteKey
  <2>7. CASE ReleaseErrors(r)
    BY <2>7 DEF ReleaseErrors, Goto
  <2> QED
    BY <1>1, <2>1, <2>2, <2>3, <2>4, <2>5, <2>6, <2>7 DEF Run
<1>2. ASSUME NEW r \in Runs, Watchdog(r) PROVE TypeOK'
  <2>1. CASE Wake(r)
    BY <2>1 DEF Wake
  <2>2. CASE Extend(r)
    BY <2>2 DEF Extend, Rewait
  <2>3. CASE ExtendNotOwned(r)
    BY <2>3 DEF ExtendNotOwned
  <2>4. CASE ExtendErrors(r)
    BY <2>4 DEF ExtendErrors, Rewait
  <2> QED
    BY <1>2, <2>1, <2>2, <2>3, <2>4 DEF Watchdog
<1>3. ASSUME NEW r \in Runs, Crash(r) PROVE TypeOK'
  BY <1>3 DEF Crash, Goto, Quiet
<1>4. CASE Tick
  <2>1. due' \in [Runs -> 0..Gap]
    BY <1>4 DEF Tick, Renewing
  <2>2. CASE ttl <= 1
    BY <1>4, <2>1, <2>2 DEF Tick, DeleteKey
  <2>3. CASE ~(ttl <= 1)
    BY <1>4, <2>1, <2>3 DEF Tick
  <2> QED
    BY <2>2, <2>3
<1>5. CASE UNCHANGED vars
  BY <1>5 DEF vars
<1> QED
  BY <1>1, <1>2, <1>3, <1>4, <1>5 DEF Next, Finished

(* The parts of the invariant, one lemma each.                             *)
LEMMA KeyStep == TypeOK /\ KeyAlive /\ [Next]_vars => KeyAlive'
<1> SUFFICES ASSUME TypeOK, KeyAlive, [Next]_vars PROVE KeyAlive'
  OBVIOUS
<1> USE LockAssumption, TimeFacts DEF TypeOK, KeyAlive
<1>1. ASSUME NEW r \in Runs, Run(r) PROVE KeyAlive'
  <2>1. CASE Acquire(r)
    BY <2>1 DEF Acquire, Goto, SetKey
  <2>2. CASE Skip(r)
    BY <2>2 DEF Skip, Goto
  <2>3. CASE AcquireErrors(r)
    BY <2>3 DEF AcquireErrors, Goto
  <2>4. CASE AcquireOrphans(r)
    BY <2>4 DEF AcquireOrphans, Goto, SetKey
  <2>5. CASE FnEnds(r)
    BY <2>5 DEF FnEnds, Goto, Quiet
  <2>6. CASE Release(r)
    BY <2>6 DEF Release, Goto, DeleteKey
  <2>7. CASE ReleaseErrors(r)
    BY <2>7 DEF ReleaseErrors, Goto
  <2> QED
    BY <1>1, <2>1, <2>2, <2>3, <2>4, <2>5, <2>6, <2>7 DEF Run
<1>2. ASSUME NEW r \in Runs, Watchdog(r) PROVE KeyAlive'
  <2>1. CASE Wake(r)
    BY <2>1 DEF Wake
  <2>2. CASE Extend(r)
    BY <2>2 DEF Extend, Rewait
  <2>3. CASE ExtendNotOwned(r)
    BY <2>3 DEF ExtendNotOwned
  <2>4. CASE ExtendErrors(r)
    BY <2>4 DEF ExtendErrors, Rewait
  <2> QED
    BY <1>2, <2>1, <2>2, <2>3, <2>4 DEF Watchdog
<1>3. ASSUME NEW r \in Runs, Crash(r) PROVE KeyAlive'
  BY <1>3 DEF Crash, Goto, Quiet
<1>4. CASE Tick
  BY <1>4 DEF Tick, DeleteKey, OwnerGone, Renewing
<1>5. CASE UNCHANGED vars
  BY <1>5 DEF vars
<1> QED
  BY <1>1, <1>2, <1>3, <1>4, <1>5 DEF Next, Finished

LEMMA LifecycleStep == TypeOK /\ Lifecycle /\ [Next]_vars => Lifecycle'
<1> SUFFICES ASSUME TypeOK, Lifecycle, [Next]_vars PROVE Lifecycle'
  OBVIOUS
<1> USE LockAssumption, TimeFacts DEF TypeOK, Lifecycle
<1>1. ASSUME NEW r \in Runs, Run(r) PROVE Lifecycle'
  <2>1. CASE Acquire(r)
    BY <2>1 DEF Acquire, Goto, SetKey
  <2>2. CASE Skip(r)
    BY <2>2 DEF Skip, Goto
  <2>3. CASE AcquireErrors(r)
    BY <2>3 DEF AcquireErrors, Goto
  <2>4. CASE AcquireOrphans(r)
    BY <2>4 DEF AcquireOrphans, Goto, SetKey
  <2>5. CASE FnEnds(r)
    BY <2>5 DEF FnEnds, Goto, Quiet
  <2>6. CASE Release(r)
    BY <2>6 DEF Release, Goto, DeleteKey
  <2>7. CASE ReleaseErrors(r)
    BY <2>7 DEF ReleaseErrors, Goto
  <2> QED
    BY <1>1, <2>1, <2>2, <2>3, <2>4, <2>5, <2>6, <2>7 DEF Run
<1>2. ASSUME NEW r \in Runs, Watchdog(r) PROVE Lifecycle'
  <2>1. CASE Wake(r)
    BY <2>1 DEF Wake
  <2>2. CASE Extend(r)
    BY <2>2 DEF Extend, Rewait
  <2>3. CASE ExtendNotOwned(r)
    BY <2>3 DEF ExtendNotOwned
  <2>4. CASE ExtendErrors(r)
    BY <2>4 DEF ExtendErrors, Rewait
  <2> QED
    BY <1>2, <2>1, <2>2, <2>3, <2>4 DEF Watchdog
<1>3. ASSUME NEW r \in Runs, Crash(r) PROVE Lifecycle'
  BY <1>3 DEF Crash, Goto, Quiet
<1>4. CASE Tick
  BY <1>4 DEF Tick, DeleteKey, OwnerGone, Renewing
<1>5. CASE UNCHANGED vars
  BY <1>5 DEF vars
<1> QED
  BY <1>1, <1>2, <1>3, <1>4, <1>5 DEF Next, Finished

LEMMA OrphanStep ==
  IInv /\ [Next]_vars => OrphanInv'
<1> SUFFICES ASSUME IInv, [Next]_vars PROVE OrphanInv'
  OBVIOUS
<1> USE LockAssumption, TimeFacts DEF TypeOK, IInv, KeyAlive, Lifecycle, OrphanInv, OrphanBounded
<1>1. ASSUME NEW r \in Runs, Run(r) PROVE OrphanInv'
  <2>1. CASE Acquire(r)
    BY <2>1 DEF Acquire, Goto, SetKey
  <2>2. CASE Skip(r)
    BY <2>2 DEF Skip, Goto
  <2>3. CASE AcquireErrors(r)
    BY <2>3 DEF AcquireErrors, Goto
  <2>4. CASE AcquireOrphans(r)
    BY <2>4 DEF AcquireOrphans, Goto, SetKey
  <2>5. CASE FnEnds(r)
    BY <2>5 DEF FnEnds, Goto, Quiet
  <2>6. CASE Release(r)
    BY <2>6 DEF Release, Goto, DeleteKey
  <2>7. CASE ReleaseErrors(r)
    BY <2>7 DEF ReleaseErrors, Goto
  <2> QED
    BY <1>1, <2>1, <2>2, <2>3, <2>4, <2>5, <2>6, <2>7 DEF Run
<1>2. ASSUME NEW r \in Runs, Watchdog(r) PROVE OrphanInv'
  <2>1. CASE Wake(r)
    BY <2>1 DEF Wake
  <2>2. CASE Extend(r)
    BY <2>2 DEF Extend, Rewait
  <2>3. CASE ExtendNotOwned(r)
    BY <2>3 DEF ExtendNotOwned
  <2>4. CASE ExtendErrors(r)
    BY <2>4 DEF ExtendErrors, Rewait
  <2> QED
    BY <1>2, <2>1, <2>2, <2>3, <2>4 DEF Watchdog
<1>3. ASSUME NEW r \in Runs, Crash(r) PROVE OrphanInv'
  BY <1>3 DEF Crash, Goto, Quiet
<1>4. CASE Tick
  BY <1>4 DEF Tick, DeleteKey, OwnerGone, Renewing
<1>5. CASE UNCHANGED vars
  BY <1>5 DEF vars
<1> QED
  BY <1>1, <1>2, <1>3, <1>4, <1>5 DEF Next, Finished

-----------------------------------------------------------------------------

LEMMA InitInvariant == Init => IInv
BY LockAssumption, TimeFacts
   DEF Init, IInv, TypeOK, KeyAlive, Lifecycle, OrphanInv, OrphanBounded

LEMMA Invariant == Spec => []IInv
<1>1. IInv /\ [Next]_vars => IInv'
  BY TypeStep, KeyStep, LifecycleStep, OrphanStep DEF IInv
<1> QED
  BY InitInvariant, <1>1, PTL DEF Spec

(* Every variable stays in its type.                                       *)
THEOREM LockTypeCorrect == Spec => []TypeOK
<1>1. IInv => TypeOK
  BY DEF IInv
<1> QED
  BY Invariant, <1>1, PTL

(* A key outlives its owner's function by Ttl and one renewal's flight     *)
(* time, whatever is killed and whichever calls fail.                      *)
THEOREM OrphansAreBounded == Spec => []OrphanBounded
<1>1. IInv => OrphanBounded
  BY DEF IInv, OrphanInv
<1> QED
  BY Invariant, <1>1, PTL

(* No run ever deletes a key that is not its own.                          *)
THEOREM OwnerDeletes == Spec => OnlyOwnerDeletes
<1> DEFINE Kept == \A r \in Runs :
                     owner = r /\ owner' # r => ttl = 1 \/ pc[r] = "releasing"
<1>1. IInv /\ [Next]_vars => [Kept]_vars
  <2> SUFFICES ASSUME IInv, [Next]_vars, NEW r \in Runs, owner = r, owner' # r
               PROVE  ttl = 1 \/ pc[r] = "releasing"
    OBVIOUS
  <2> USE LockAssumption DEF IInv, TypeOK, KeyAlive
  <2>1. ASSUME NEW s \in Runs, Run(s) PROVE pc[r] = "releasing"
    <3>1. CASE Acquire(s) \/ AcquireOrphans(s)
      BY <3>1 DEF Acquire, AcquireOrphans
    <3>2. CASE Release(s)
      BY <3>2 DEF Release, Goto
    <3>3. CASE Skip(s) \/ AcquireErrors(s) \/ FnEnds(s) \/ ReleaseErrors(s)
      BY <3>3 DEF Skip, AcquireErrors, FnEnds, ReleaseErrors
    <3> QED
      BY <2>1, <3>1, <3>2, <3>3 DEF Run
  <2>2. ASSUME NEW s \in Runs, Watchdog(s) PROVE FALSE
    BY <2>2 DEF Watchdog, Wake, Extend, ExtendNotOwned, ExtendErrors, Rewait
  <2>3. ASSUME NEW s \in Runs, Crash(s) PROVE FALSE
    BY <2>3 DEF Crash
  <2>4. CASE Tick
    BY <2>4 DEF Tick
  <2>5. CASE UNCHANGED vars
    BY <2>5 DEF vars
  <2> QED
    BY <2>1, <2>2, <2>3, <2>4, <2>5 DEF Next, Finished
<1> QED
  BY Invariant, <1>1, PTL DEF Spec, OnlyOwnerDeletes

-----------------------------------------------------------------------------
(* A live run keeps its key for as long as it is steady.                   *)

LEMMA LostTime ==
  ASSUME NEW f \in Nat
  PROVE  /\ f * Gap \in Nat
         /\ (f + 1) * Gap = f * Gap + Gap
BY TimeFacts

LEMMA Monotone ==
  ASSUME NEW m \in Nat, NEW n \in Nat, m <= n
  PROVE  (m + 1) * Gap <= (n + 1) * Gap
<1>1. \A j, k, g \in Nat : j <= k => j * g <= k * g
  OBVIOUS
<1>2. m + 1 \in Nat /\ n + 1 \in Nat /\ m + 1 <= n + 1
  OBVIOUS
<1> QED
  BY <1>1, <1>2, TimeFacts

LEMMA HeldStep == IInv /\ HeldInv /\ [Next]_vars => HeldInv'
<1> SUFFICES ASSUME IInv, HeldInv, [Next]_vars,
                    NEW q \in Runs, pc'[q] = "running", Steady(q)'
             PROVE  /\ owner' = q
                    /\ dog'[q] # "off"
                    /\ ttl' + fails'[q] * Gap + due'[q] >= Ttl
  BY DEF HeldInv
<1> USE LockAssumption, TimeFacts DEF IInv, TypeOK
<1>1. fails[q] \in Nat /\ due[q] \in 0..Gap /\ q # NoRun
  OBVIOUS
<1>2. CASE Acquire(q)
  <2>1. fails'[q] = 0 /\ due'[q] = 0 /\ owner' = q /\ ttl' = Ttl /\ dog'[q] = "waiting"
    BY <1>2 DEF Acquire, Goto, SetKey, Lifecycle
  <2> QED
    BY <2>1
<1>3. CASE ~Acquire(q)
  <2>1. pc[q] = "running"
    <3>1. ASSUME NEW r \in Runs, Run(r) PROVE pc[q] = "running"
      BY <3>1, <1>3 DEF Run, Acquire, Skip, AcquireErrors, AcquireOrphans, FnEnds,
                        Release, ReleaseErrors, Goto
    <3>2. ASSUME NEW r \in Runs, Watchdog(r) PROVE pc[q] = "running"
      BY <3>2 DEF Watchdog, Wake, Extend, ExtendNotOwned, ExtendErrors, Rewait
    <3>3. ASSUME NEW r \in Runs, Crash(r) PROVE pc[q] = "running"
      BY <3>3 DEF Crash, Goto
    <3>4. Tick \/ UNCHANGED vars => pc[q] = "running"
      BY DEF Tick, vars
    <3> QED
      BY <3>1, <3>2, <3>3, <3>4 DEF Next, Finished
  <2>2. q \notin stop
    BY <2>1 DEF Lifecycle
  <2>3. CASE Extend(q)
    BY <1>1, <2>2, <2>3 DEF Extend, Rewait
  <2>4. CASE ~Extend(q)
    <3>1. fails'[q] \in Nat /\ fails[q] <= fails'[q]
      <4>1. ASSUME NEW r \in Runs, Run(r) PROVE fails' = fails
        BY <4>1 DEF Run, Acquire, Skip, AcquireErrors, AcquireOrphans, FnEnds,
                    Release, ReleaseErrors
      <4>2. ASSUME NEW r \in Runs, Watchdog(r)
            PROVE  fails'[q] = fails[q] \/ fails'[q] = fails[q] + 1
        BY <1>1, <2>4, <4>2
           DEF Watchdog, Wake, Extend, ExtendNotOwned, ExtendErrors, Rewait
      <4>3. ASSUME NEW r \in Runs, Crash(r) PROVE fails' = fails
        BY <4>3 DEF Crash
      <4>4. Tick \/ UNCHANGED vars => fails' = fails
        BY DEF Tick, vars
      <4> QED
        BY <1>1, <4>1, <4>2, <4>3, <4>4 DEF Next, Finished
    <3>2. Steady(q)
      <4> HIDE DEF TypeOK
      <4>1. (fails[q] + 1) * Gap <= (fails'[q] + 1) * Gap
        BY <1>1, <3>1, Monotone
      <4>2. (fails'[q] + 1) * Gap < Ttl
        BY DEF Steady
      <4>3. (fails[q] + 1) * Gap \in Nat /\ (fails'[q] + 1) * Gap \in Nat
        BY <1>1, <3>1
      <4> QED
        BY <4>1, <4>2, <4>3 DEF Steady
    <3>3. owner = q /\ dog[q] # "off" /\ ttl + fails[q] * Gap + due[q] >= Ttl
      BY <2>1, <3>2 DEF HeldInv
    <3>4. ASSUME NEW r \in Runs, Run(r)
          PROVE  UNCHANGED <<owner, ttl, fails, due>> /\ dog'[q] = dog[q]
      BY <1>1, <2>1, <3>3, <3>4
         DEF Run, Acquire, Skip, AcquireErrors, AcquireOrphans, FnEnds, Quiet,
             Release, ReleaseErrors, Goto
    <3>5. ASSUME NEW r \in Runs, Crash(r)
          PROVE  UNCHANGED <<owner, ttl, fails, due>> /\ dog'[q] = dog[q]
      BY <1>1, <2>1, <3>3, <3>5 DEF Crash, Quiet, Goto
    <3>6. ASSUME NEW r \in Runs, Wake(r) \/ ExtendNotOwned(r)
          PROVE  UNCHANGED <<owner, ttl, fails, due>> /\ dog'[q] # "off"
      BY <1>1, <3>3, <3>6 DEF Wake, ExtendNotOwned
    <3>7. ASSUME NEW r \in Runs, Extend(r) PROVE FALSE
      BY <1>1, <2>4, <3>3, <3>7 DEF Extend
    <3>8. ASSUME NEW r \in Runs, ExtendErrors(r)
          PROVE  /\ owner' = q /\ dog'[q] # "off"
                 /\ ttl' + fails'[q] * Gap + due'[q] >= Ttl
      <4>1. CASE r = q
        <5>1. owner' = q /\ dog'[q] # "off" /\ fails'[q] = fails[q] + 1 /\ due'[q] = 0
          BY <1>1, <2>2, <3>3, <3>8, <4>1 DEF ExtendErrors, Rewait
        <5>2. ttl' \in Nat /\ ttl' >= ttl
          BY <3>8 DEF ExtendErrors
        <5>3. fails[q] * Gap \in Nat /\ (fails[q] + 1) * Gap = fails[q] * Gap + Gap
          BY <1>1, LostTime
        <5> QED
          BY <1>1, <3>3, <5>1, <5>2, <5>3
      <4>2. CASE r # q
        BY <1>1, <3>3, <3>8, <4>2 DEF ExtendErrors, Rewait
      <4> QED
        BY <4>1, <4>2
    <3>9. CASE Tick
      <4>1. due[q] < Gap /\ due'[q] = due[q] + 1
        BY <1>1, <3>3, <3>9 DEF Tick, Renewing
      <4>2. UNCHANGED <<fails, dog>>
        BY <3>9 DEF Tick
      <4>3. ttl > 1
        BY <1>1, <3>2, <3>3, <4>1, LostTime DEF Steady
      <4>4. owner' = owner /\ ttl' = ttl - 1
        BY <3>9, <4>3 DEF Tick
      <4> QED
        BY <1>1, <3>3, <4>1, <4>2, <4>4, LostTime
    <3>10. CASE UNCHANGED vars
      BY <3>3, <3>10 DEF vars
    <3> QED
      BY <1>1, <2>4, <3>3, <3>4, <3>5, <3>6, <3>7, <3>8, <3>9, <3>10
      DEF Next, Watchdog, Finished
  <2> QED
    BY <2>3, <2>4
<1> QED
  BY <1>2, <1>3

(* A live run holds the lock for as long as it needs, unless more of its   *)
(* renewals fail in a row than fit in the TTL.                             *)
THEOREM SteadyRunKeepsLock == Spec => []SteadyRunHolds
<1>1. Init => HeldInv
  BY DEF Init, HeldInv
<1>2. HeldInv => SteadyRunHolds
  BY DEF HeldInv, SteadyRunHolds
<1> QED
  BY Invariant, HeldStep, <1>1, <1>2, PTL DEF Spec

(* The lock does what it is for: of two runs inside the function at once,  *)
(* one has failed to renew its key that often.                             *)
THEOREM LockExcludes == Spec => []MutualExclusion
<1>1. SteadyRunHolds => MutualExclusion
  BY DEF SteadyRunHolds, MutualExclusion
<1> QED
  BY SteadyRunKeepsLock, <1>1, PTL

(* With enough room in the TTL for every renewal that may fail, no run can *)
(* lose its key: the promise holds as it is written.                       *)
THEOREM LiveRunKeepsLock ==
  ASSUME (MaxFails + 1) * Gap < Ttl PROVE Spec => []LiveRunHolds
<1>1. TypeOK => \A r \in Runs : Steady(r)
  <2> SUFFICES ASSUME TypeOK, NEW r \in Runs PROVE Steady(r)
    OBVIOUS
  <2>1. fails[r] \in Nat /\ fails[r] <= MaxFails
    BY LockAssumption DEF TypeOK
  <2>2. (fails[r] + 1) * Gap <= (MaxFails + 1) * Gap
    BY <2>1, LockAssumption, Monotone
  <2>3. (fails[r] + 1) * Gap \in Nat /\ (MaxFails + 1) * Gap \in Nat
    BY <2>1, LockAssumption, TimeFacts
  <2> QED
    BY <2>2, <2>3, LockAssumption DEF Steady
<1>2. TypeOK /\ SteadyRunHolds => LiveRunHolds
  BY <1>1 DEF SteadyRunHolds, LiveRunHolds
<1> QED
  BY LockTypeCorrect, SteadyRunKeepsLock, <1>2, PTL
=============================================================================
