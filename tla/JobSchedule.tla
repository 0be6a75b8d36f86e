----------------------------- MODULE JobSchedule -----------------------------
(* One scheduled job and the heartbeat of the scheduler (api/schedule.py,   *)
(* configure_scheduler of api/extension.py).  The scheduler lives in one    *)
(* uWSGI worker, fires by the clock, and hands both to one thread pool.     *)
(* Every run goes through redis_lock, here one holder of a key with a TTL   *)
(* (its commands, one by one, are in RedisLock); a run dispatched by hand   *)
(* does so in another worker.  APScheduler and uWSGI are external.          *)
EXTENDS Naturals

CONSTANTS
  Every,     \* time between two fires of the job
  LockTtl,   \* lock_ttl
  Renewal,   \* time between two renewals, lock_ttl // 3
  Grace,     \* misfire_grace_time
  Threads,   \* threads of the "default" executor
  BeatEvery, BeatTtl, BeatGrace   \* the same of the heartbeat

ASSUME ScheduleAssumption ==
  /\ Every \in Nat \ {0} /\ Threads \in Nat \ {0}
  /\ LockTtl \in 1..Every
  /\ Renewal \in 1..(LockTtl - 1)
  /\ Grace \in 0..(Every - 1)
  /\ BeatEvery \in Nat \ {0} /\ BeatTtl \in Nat /\ BeatGrace \in Nat
  /\ BeatEvery < BeatTtl

VARIABLES
  up,       \* the scheduler's process is alive
  clock,    \* time since the job's last nominal fire
  due,      \* that fire has not been dispatched yet
  job,      \* the scheduler's instance of the job
  late,     \* how late a queued instance is
  holder,   \* whose the key is
  lease,    \* what is left of its TTL
  unrenewed, \* time since its holder has set it
  skips,    \* runs skipped on it since its holder died
  others,   \* threads that other jobs occupy
  beat, beatLate, beatIn,   \* the heartbeat job, and the time to its next fire
  pulse,    \* what is left of the heartbeat key's TTL
  steady    \* time since the scheduler went down, or since it came up and
            \* then since a heartbeat failed or the pool was full

lockVars == <<holder, lease, unrenewed, skips>>
jobVars == <<clock, due, job, late>>
beatVars == <<beat, beatLate, beatIn, pulse, steady>>
schedVars == <<up, jobVars, lockVars, others, beatVars>>

Live == {"run", "manual"}             \* holders at work
Orphans == {"orphan", "manualOrphan"} \* those that died
LongAgo == BeatTtl + BeatEvery        \* where steady saturates

SchedTypeOK ==
  /\ up \in BOOLEAN /\ due \in BOOLEAN
  /\ clock \in 0..(Every - 1)
  /\ job \in {"none", "queued", "running"}
  /\ late \in 0..(Grace + 1)
  /\ holder \in Live \cup Orphans \cup {"none"}
  /\ lease \in 0..LockTtl
  /\ unrenewed \in 0..Renewal
  /\ skips \in 0..Every
  /\ others \in 0..Threads
  /\ beat \in {"none", "queued"}
  /\ beatLate \in 0..(BeatGrace + 1)
  /\ beatIn \in 0..BeatEvery
  /\ pulse \in 0..BeatTtl
  /\ steady \in 0..LongAgo

SchedInit ==
  /\ up = TRUE /\ due = FALSE
  /\ clock = 0
  /\ job = "none" /\ late = 0
  /\ holder = "none" /\ lease = 0 /\ unrenewed = 0 /\ skips = 0
  /\ others = 0
  /\ beat = "none" /\ beatLate = 0 /\ beatIn = BeatEvery
  /\ pulse = 0 /\ steady = 0

Room == others + (IF job = "running" THEN 1 ELSE 0) < Threads

-----------------------------------------------------------------------------
(* The key *)

SetBy(h) ==
  /\ holder' = h
  /\ lease' = LockTtl
  /\ unrenewed' = 0
  /\ skips' = 0

Freed ==
  /\ holder' = "none"
  /\ lease' = 0 /\ unrenewed' = 0 /\ skips' = 0

LeftBehind(h) ==
  /\ holder' = h
  /\ skips' = 0
  /\ UNCHANGED <<lease, unrenewed>>

\* The watchdog of a live holder re-arms the TTL.
Renew ==
  /\ holder \in Live /\ unrenewed = Renewal
  /\ SetBy(holder)
  /\ UNCHANGED <<up, jobVars, others, beatVars>>

-----------------------------------------------------------------------------
(* The job *)

\* max_instances = 1: an instance that waits or runs refuses the fire.
Fire ==
  /\ due /\ due' = FALSE
  /\ IF job = "none" THEN job' = "queued" /\ late' = 0
     ELSE UNCHANGED <<job, late>>
  /\ UNCHANGED <<up, clock, lockVars, others, beatVars>>

\* A thread takes the queued instance: too late to start, so dropped; or
\* the key is taken, and the run is skipped.
Start ==
  /\ job = "queued" /\ Room
  /\ \/ late > Grace /\ job' = "none" /\ UNCHANGED lockVars
     \/ late <= Grace /\ holder = "none" /\ job' = "running" /\ SetBy("run")
     \/ /\ late <= Grace /\ holder # "none" /\ job' = "none"
        /\ skips' = IF holder \in Orphans THEN skips + 1 ELSE skips
        /\ UNCHANGED <<holder, lease, unrenewed>>
  /\ UNCHANGED <<up, clock, due, late, others, beatVars>>

\* Redis fails the acquire, which may have set the key all the same.
StartFails ==
  /\ job = "queued" /\ Room /\ late <= Grace
  /\ job' = "none"
  /\ \/ UNCHANGED lockVars
     \/ holder = "none" /\ SetBy("orphan")
  /\ UNCHANGED <<up, clock, due, late, others, beatVars>>

\* The job function ends; the release frees the key, or fails.
End ==
  /\ job = "running" /\ job' = "none"
  /\ IF holder = "run" THEN Freed \/ LeftBehind("orphan")
     ELSE UNCHANGED lockVars
  /\ UNCHANGED <<up, clock, due, late, others, beatVars>>

\* run_job, in a worker that serves requests.
ManualStart ==
  /\ holder = "none"
  /\ SetBy("manual")
  /\ UNCHANGED <<up, jobVars, others, beatVars>>

\* The run returns, or uWSGI's harakiri kills its worker.
ManualEnd ==
  /\ holder = "manual"
  /\ Freed \/ LeftBehind("manualOrphan")
  /\ UNCHANGED <<up, jobVars, others, beatVars>>

-----------------------------------------------------------------------------
(* The heartbeat *)

BeatFires ==
  /\ up /\ beatIn = 0
  /\ beatIn' = BeatEvery
  /\ beat' = "queued"
  /\ beatLate' = IF beat = "none" THEN 0 ELSE beatLate
  /\ UNCHANGED <<up, jobVars, lockVars, others, pulse, steady>>

\* write_scheduler_heartbeat, which swallows what Redis raises; or it comes
\* too late and is dropped.
Beats ==
  /\ beat = "queued" /\ Room
  /\ beat' = "none"
  /\ \/ beatLate <= BeatGrace /\ pulse' = BeatTtl /\ UNCHANGED steady
     \/ beatLate <= BeatGrace /\ steady' = 0 /\ UNCHANGED pulse
     \/ beatLate > BeatGrace /\ UNCHANGED <<pulse, steady>>
  /\ UNCHANGED <<up, jobVars, lockVars, others, beatLate, beatIn>>

OtherStarts ==
  /\ up /\ Room /\ others' = others + 1
  /\ UNCHANGED <<up, jobVars, lockVars, beatVars>>

OtherEnds ==
  /\ others > 0 /\ others' = others - 1
  /\ UNCHANGED <<up, jobVars, lockVars, beatVars>>

-----------------------------------------------------------------------------
(* The process *)

\* The scheduler's worker is killed, or recycled once its pool is drained.
Crash ==
  /\ up /\ up' = FALSE
  /\ job' = "none" /\ due' = FALSE
  /\ IF holder = "run" THEN LeftBehind("orphan") ELSE UNCHANGED lockVars
  /\ others' = 0
  /\ beat' = "none" /\ steady' = 0
  /\ UNCHANGED <<clock, late, beatLate, beatIn, pulse>>

\* Mutant: the fires that were missed are made up for.
BootCatchingUp ==
  /\ ~up /\ up' = TRUE /\ due' = TRUE
  /\ beatIn' = BeatEvery /\ steady' = 0
  /\ UNCHANGED <<clock, job, late, lockVars, others, beat, beatLate, pulse>>

\* create_app registers every job anew (replace_existing): its next fire is
\* computed from now on, whatever the job store remembers.
Boot ==
  /\ ~up /\ up' = TRUE
  /\ beatIn' = BeatEvery /\ steady' = 0
  /\ UNCHANGED <<jobVars, lockVars, others, beat, beatLate, pulse>>

\* Nothing that can be done at once waits.
Waiting ==
  /\ ~due /\ (up => beatIn > 0)
  /\ Room => job # "queued" /\ beat # "queued"
  /\ holder \in Live => unrenewed < Renewal

UpTo(n, max) == IF n < max THEN n + 1 ELSE max

\* Mutant: a heartbeat never expires.
FadeNever == pulse
Fade == IF pulse > 0 THEN pulse - 1 ELSE 0

TickKey ==
  IF lease <= 1 THEN Freed
  ELSE /\ lease' = lease - 1
       /\ unrenewed' = IF holder \in Live THEN unrenewed + 1 ELSE unrenewed
       /\ UNCHANGED <<holder, skips>>

SchedTick ==
  /\ Waiting
  /\ clock' = (clock + 1) % Every
  /\ due' = (up /\ clock' = 0)
  /\ late' = IF job = "queued" THEN UpTo(late, Grace + 1) ELSE 0
  /\ TickKey
  /\ beatLate' = IF beat = "queued" THEN UpTo(beatLate, BeatGrace + 1) ELSE 0
  /\ beatIn' = IF up THEN beatIn - 1 ELSE beatIn
  /\ pulse' = Fade
  /\ steady' = IF up /\ ~Room THEN 0 ELSE UpTo(steady, LongAgo)
  /\ UNCHANGED <<up, job, others, beat>>

SchedNext ==
  \/ Renew \/ Fire \/ Start \/ StartFails \/ End \/ ManualStart \/ ManualEnd
  \/ BeatFires \/ Beats \/ OtherStarts \/ OtherEnds
  \/ Crash \/ Boot \/ SchedTick

SchedSpec == SchedInit /\ [][SchedNext]_schedVars

-----------------------------------------------------------------------------
(* Properties *)

\* "A crash costs exactly one run, never two" (schedule.py:122): with a TTL
\* of at most the interval, the key of a run that died makes the scheduler
\* skip one run, however late it starts; one more if it was another worker
\* that died, for then a fire that waits in the queue survives.
OneSkipPerCrash ==
  /\ holder = "orphan" => skips <= 1
  /\ holder = "manualOrphan" => skips <= 2

\* /health is right about the scheduler: once it is dead for the TTL the
\* heartbeat is gone; while it lives there is one, unless the pool it shares
\* with the jobs was full or Redis failed it within one interval.
HealthHonest ==
  /\ ~up /\ steady >= BeatTtl => pulse = 0
  /\ up /\ steady > BeatEvery => pulse > 0
=============================================================================
