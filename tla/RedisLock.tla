------------------------------ MODULE RedisLock ------------------------------
(***************************************************************************)
(* redis_lock of api/extension.py: every wrapped job run takes one Redis   *)
(* key with a TTL, a daemon watchdog re-arms the TTL every Interval while  *)
(* the job function runs, and the run deletes the key, owner checked, when *)
(* the function is over.  Each member of Runs is one call of the wrapper,  *)
(* in whatever process: lock_owner_token mints a fresh token per call, so  *)
(* a run's identity is its token.                                          *)
(*                                                                         *)
(* Redis commands and the two Lua scripts of redis.lock.Lock are atomic on *)
(* the server (external).  A call may fail without effect, or have its     *)
(* effect and lose its reply.  Time is discrete: the key's remaining TTL   *)
(* counts down, and a watchdog's attempt to renew is settled at most       *)
(* Interval + MaxLag after the previous one (thread scheduling, the round  *)
(* trip and the client's socket timeout are in MaxLag).                    *)
(***************************************************************************)
EXTENDS Integers, FiniteSets

CONSTANTS Runs,      \* calls of the wrapper
          NoRun,     \* nobody's token
          Ttl,       \* lock_ttl
          MaxLag,    \* most time one renewal takes beyond its interval
          MaxFails   \* most renewals in a row that fail for one run

ASSUME LockAssumption ==
  /\ NoRun \notin Runs
  /\ Ttl \in Nat \ {0}
  /\ MaxLag \in Nat
  /\ MaxFails \in Nat

VARIABLES
  owner,    \* whose token the key holds, NoRun if there is no key
  ttl,      \* the key's remaining time to live
  pc,       \* what each run is doing
  stop,     \* the runs whose stop Event is set
  dog,      \* their watchdogs
  due,      \* time since the watchdog's last renewal was settled
  fails,    \* renewals that have failed since the last one that did not
  orphan    \* how long the key has outlived its owner's function

vars == <<owner, ttl, pc, stop, dog, due, fails, orphan>>

Interval == IF Ttl \div 3 > 1 THEN Ttl \div 3 ELSE 1
Gap == Interval + MaxLag
OrphanCap == Ttl + MaxLag + 1   \* where the history variable saturates

(* So few renewals have failed since the last good one that the next       *)
(* attempt still comes before the TTL has run out.                         *)
Steady(r) == (fails[r] + 1) * Gap < Ttl

TypeOK ==
  /\ owner \in Runs \cup {NoRun}
  /\ ttl \in 0..Ttl
  /\ pc \in [Runs -> {"idle", "running", "releasing", "skipped", "failed", "over", "dead"}]
  /\ stop \subseteq Runs
  /\ dog \in [Runs -> {"off", "waiting", "extending"}]
  /\ due \in [Runs -> 0..Gap]
  /\ fails \in [Runs -> 0..MaxFails]
  /\ orphan \in 0..OrphanCap

Init ==
  /\ owner  = NoRun
  /\ ttl    = 0
  /\ pc     = [r \in Runs |-> "idle"]
  /\ stop   = {}
  /\ dog    = [r \in Runs |-> "off"]
  /\ due    = [r \in Runs |-> 0]
  /\ fails  = [r \in Runs |-> 0]
  /\ orphan = 0

Goto(r, from, to) ==
  /\ pc[r] = from
  /\ pc' = [pc EXCEPT ![r] = to]

-----------------------------------------------------------------------------
(* The key.                                                                *)

SetKey(r) ==
  /\ owner' = r
  /\ ttl' = Ttl
  /\ orphan' = 0

DeleteKey ==
  /\ owner' = NoRun
  /\ ttl' = 0
  /\ orphan' = 0

-----------------------------------------------------------------------------
(* The wrapper.                                                            *)

(* Mutant: SET without NX.                                                 *)
AcquireOver(r) ==
  /\ Goto(r, "idle", "running")
  /\ SetKey(r)
  /\ dog' = [dog EXCEPT ![r] = "waiting"]
  /\ UNCHANGED <<stop, due, fails>>

(* SET NX PX succeeds, the watchdog is started, and the function entered.  *)
Acquire(r) ==
  /\ owner = NoRun
  /\ Goto(r, "idle", "running")
  /\ SetKey(r)
  /\ dog' = [dog EXCEPT ![r] = "waiting"]
  /\ UNCHANGED <<stop, due, fails>>

(* Another token is there: on_skip, and None is returned.                  *)
Skip(r) ==
  /\ owner # NoRun
  /\ Goto(r, "idle", "skipped")
  /\ UNCHANGED <<owner, ttl, stop, dog, due, fails, orphan>>

(* acquire raises without effect.                                          *)
AcquireErrors(r) ==
  /\ Goto(r, "idle", "failed")
  /\ UNCHANGED <<owner, ttl, stop, dog, due, fails, orphan>>

(* The key is set, but the reply is lost or the watchdog thread cannot be  *)
(* started: the exception leaves the wrapper ahead of its try, so nobody   *)
(* renews the key and nobody releases it.  (A client that retries SET NX   *)
(* by itself finds its own token there and takes the run for a skip.)      *)
AcquireOrphans(r) ==
  /\ owner = NoRun
  /\ Goto(r, "idle", "failed") \/ Goto(r, "idle", "skipped")
  /\ SetKey(r)
  /\ UNCHANGED <<stop, dog, due, fails>>

(* The watchdog's next look at the event ends it; a renewal it has already *)
(* begun goes on.                                                          *)
Quiet(r) == dog' = [dog EXCEPT ![r] = IF @ = "waiting" THEN "off" ELSE @]

(* Mutant: the event is set after the release, not ahead of it.            *)
FnEndsUnstopped(r) ==
  /\ Goto(r, "running", "releasing")
  /\ UNCHANGED <<owner, ttl, stop, dog, due, fails, orphan>>

(* The function returns or raises; finally: stop.set().                    *)
FnEnds(r) ==
  /\ Goto(r, "running", "releasing")
  /\ stop' = stop \cup {r}
  /\ Quiet(r)
  /\ UNCHANGED <<owner, ttl, due, fails, orphan>>

(* Mutant: a plain DEL.                                                    *)
ReleaseUnchecked(r) ==
  /\ Goto(r, "releasing", "over")
  /\ DeleteKey
  /\ UNCHANGED <<stop, dog, due, fails>>

(* lock.release(): the script deletes the key only if it holds this run's  *)
(* token (LockNotOwnedError otherwise).                                    *)
Release(r) ==
  /\ Goto(r, "releasing", "over")
  /\ IF owner = r THEN DeleteKey ELSE UNCHANGED <<owner, ttl, orphan>>
  /\ UNCHANGED <<stop, dog, due, fails>>

(* RedisError without effect, swallowed: the key is left to expire.        *)
ReleaseErrors(r) ==
  /\ Goto(r, "releasing", "over")
  /\ UNCHANGED <<owner, ttl, stop, dog, due, fails, orphan>>

(* The process is killed, its daemon watchdog with it; a renewal on its    *)
(* way to the server may still arrive.                                     *)
Crash(r) ==
  /\ Goto(r, "running", "dead") \/ Goto(r, "releasing", "dead")
  /\ stop' = stop \cup {r}
  /\ Quiet(r) \/ dog' = [dog EXCEPT ![r] = "off"]
  /\ UNCHANGED <<owner, ttl, due, fails, orphan>>

-----------------------------------------------------------------------------
(* The watchdog, _renew_until_stopped.                                     *)

Wake(r) ==
  /\ dog[r] = "waiting"
  /\ due[r] >= Interval
  /\ dog' = [dog EXCEPT ![r] = "extending"]
  /\ UNCHANGED <<owner, ttl, pc, stop, due, fails, orphan>>

(* Back to stop.wait(interval), which returns at once if the event is set. *)
Rewait(r) ==
  /\ dog[r] = "extending"
  /\ dog' = [dog EXCEPT ![r] = IF r \in stop THEN "off" ELSE "waiting"]
  /\ due' = [due EXCEPT ![r] = 0]
  /\ UNCHANGED <<owner, pc, stop>>

(* Mutant: extend does not check the owner.                                *)
ExtendUnchecked(r) ==
  /\ owner # NoRun
  /\ Rewait(r)
  /\ ttl' = Ttl
  /\ fails' = [fails EXCEPT ![r] = 0]
  /\ UNCHANGED orphan

(* extend(ttl, replace_ttl=True) on the run's own key.                     *)
Extend(r) ==
  /\ owner = r
  /\ Rewait(r)
  /\ ttl' = Ttl
  /\ fails' = [fails EXCEPT ![r] = 0]
  /\ UNCHANGED orphan

(* LockNotOwnedError: renewal stops for good.                              *)
ExtendNotOwned(r) ==
  /\ owner # r
  /\ dog[r] = "extending"
  /\ dog' = [dog EXCEPT ![r] = "off"]
  /\ UNCHANGED <<owner, ttl, pc, stop, due, fails, orphan>>

(* Any other exception is logged and the next interval tries again; the    *)
(* script may have run for all that.                                       *)
ExtendErrors(r) ==
  /\ r \notin stop => fails[r] < MaxFails
  /\ Rewait(r)
  /\ ttl' = ttl \/ (owner = r /\ ttl' = Ttl)
  /\ fails' = [fails EXCEPT ![r] = IF r \in stop THEN @ ELSE @ + 1]
  /\ UNCHANGED orphan

Watchdog(r) ==
  \/ Wake(r) \/ Extend(r) \/ ExtendNotOwned(r) \/ ExtendErrors(r)

-----------------------------------------------------------------------------
(* Time.  The key expires when its TTL runs out.                           *)

Renewing == {r \in Runs : dog[r] # "off"}
OwnerGone == owner \in Runs /\ pc[owner] # "running"

Tick ==
  /\ ttl > 0 \/ Renewing # {}
  /\ \A r \in Renewing : due[r] < Gap
  /\ due' = [r \in Runs |-> IF dog[r] # "off" THEN due[r] + 1 ELSE due[r]]
  /\ IF ttl <= 1
     THEN DeleteKey
     ELSE /\ ttl' = ttl - 1
          /\ orphan' = IF ~OwnerGone THEN 0
                       ELSE IF orphan < OrphanCap THEN orphan + 1 ELSE orphan
          /\ UNCHANGED owner
  /\ UNCHANGED <<pc, stop, dog, fails>>

Settled == \A r \in Runs : pc[r] \in {"skipped", "failed", "over", "dead"}
Finished == Settled /\ owner = NoRun /\ Renewing = {} /\ UNCHANGED vars

Run(r) ==
  \/ Acquire(r) \/ Skip(r) \/ AcquireErrors(r) \/ AcquireOrphans(r)
  \/ FnEnds(r) \/ Release(r) \/ ReleaseErrors(r)

Next ==
  \/ \E r \in Runs : Run(r) \/ Watchdog(r) \/ Crash(r)
  \/ Tick
  \/ Finished

(* Threads run, job functions end, time passes; a crash need not come.     *)
Fairness ==
  /\ \A r \in Runs : WF_vars(Run(r)) /\ WF_vars(Watchdog(r))
  /\ WF_vars(Tick)

Spec == Init /\ [][Next]_vars
FairSpec == Spec /\ Fairness

-----------------------------------------------------------------------------
(* "A live run holds the lock for as long as it needs", however long the   *)
(* function takes compared with the TTL.                                   *)
LiveRunHolds == \A r \in Runs : pc[r] = "running" => owner = r

(* What of that is so: a live run's key is its own until its renewals have *)
(* failed too often in a row, whatever the other runs and crashes do.      *)
SteadyRunHolds == \A r \in Runs : pc[r] = "running" /\ Steady(r) => owner = r

(* What the lock is for: two runs are inside the job function at once only *)
(* if the renewals of one of them have failed that often.                  *)
MutualExclusion ==
  \A r, s \in Runs :
    pc[r] = "running" /\ pc[s] = "running" /\ Steady(r) /\ Steady(s) => r = s

(* "ttl bounds only how long an orphaned lock outlives a killed process":  *)
(* a key whose owner's function is over (killed, or its release failed)    *)
(* lives Ttl longer at most, plus the flight time of one renewal that was  *)
(* already on its way.                                                     *)
OrphanBounded == orphan + ttl <= Ttl + MaxLag

(* "We never delete the new owner's lock": a key disappears by running out *)
(* or by its own owner's release, even after other runs lost theirs.       *)
OnlyOwnerDeletes ==
  [][\A r \in Runs :
       owner = r /\ owner' # r => ttl = 1 \/ pc[r] = "releasing"]_vars

(* The job is never blocked for good: whatever is lost and whoever dies,   *)
(* the key goes away.                                                      *)
KeyFreed == owner # NoRun ~> owner = NoRun
=============================================================================
