--------------------------- MODULE BackgroundJobs ---------------------------
(* The job registry of web_app/jobs.py.  Request threads submit work to a   *)
(* thread pool and poll it: the registry and its eviction are behind a      *)
(* lock, the hand-over to the pool is not.                                  *)
EXTENDS Naturals, FiniteSets, Sequences

CONSTANTS
  Jobs,      \* what is submitted
  Workers,   \* max_workers of the pool
  KeepLast   \* keep_last

ASSUME JobsAssumption ==
  /\ IsFiniteSet(Jobs)
  /\ Workers \in Nat \ {0} /\ KeepLast \in Nat \ {0}

VARIABLES
  open,    \* shutdown has not been called
  work,    \* work[j]: where the submitted callable is
  entry,   \* entry[j]: its Job in the registry, "none" without one
  age,     \* age[j]: how many jobs had been registered before it
  queue    \* the pool's queue

registryVars == <<open, work, entry, age, queue>>

Registered == {j \in Jobs : entry[j] # "none"}
Finished == {"done", "error"}

RegistryTypeOK ==
  /\ open \in BOOLEAN
  /\ work \in [Jobs -> {"new", "registered", "queued", "working", "over", "refused", "escaped"}]
  /\ entry \in [Jobs -> {"none", "running"} \cup Finished]
  /\ age \in [Jobs -> Nat]
  /\ queue \in Seq(Jobs)

RegistryInit ==
  /\ open = TRUE
  /\ work = [j \in Jobs |-> "new"]
  /\ entry = [j \in Jobs |-> "none"]
  /\ age = [j \in Jobs |-> 0]
  /\ queue = <<>>

Submitted == {j \in Jobs : work[j] # "new"}

\* Mutant: the oldest go, whatever they are at.
EvictableAny(e) == {j \in Jobs : e[j] # "none"}

\* Only finished jobs are evicted.
Evictable(e) == {j \in Jobs : e[j] \in Finished}

\* Of those that can be, the oldest go, until keep_last are left.
Evicted(e, j) ==
  Cardinality({i \in Evictable(e) : age[i] < age[j]})
    < Cardinality({i \in Jobs : e[i] # "none"}) - KeepLast

\* submit, under the lock.
Register(j) ==
  /\ work[j] = "new"
  /\ work' = [work EXCEPT ![j] = "registered"]
  /\ age' = [age EXCEPT ![j] = Cardinality(Submitted)]
  /\ LET e == [entry EXCEPT ![j] = "running"]
     IN entry' = [i \in Jobs |-> IF i \in Evictable(e) /\ Evicted(e, i)
                                 THEN "none" ELSE e[i]]
  /\ UNCHANGED <<open, queue>>

\* submit, after the lock: the pool raises once it is shut down.
HandOver(j) ==
  /\ work[j] = "registered"
  /\ IF open THEN /\ work' = [work EXCEPT ![j] = "queued"]
                  /\ queue' = Append(queue, j)
     ELSE work' = [work EXCEPT ![j] = "refused"] /\ UNCHANGED queue
  /\ UNCHANGED <<open, entry, age>>

\* A pool thread takes what was queued first, after the shutdown too.
Take ==
  /\ queue # <<>>
  /\ Cardinality({j \in Jobs : work[j] = "working"}) < Workers
  /\ work' = [work EXCEPT ![Head(queue)] = "working"]
  /\ queue' = Tail(queue)
  /\ UNCHANGED <<open, entry, age>>

\* _run: the callable returns or raises, and its job is filled in if it is
\* still there.
Run(j) ==
  /\ work[j] = "working"
  /\ work' = [work EXCEPT ![j] = "over"]
  /\ \E s \in Finished :
       entry' = [entry EXCEPT ![j] = IF @ = "none" THEN @ ELSE s]
  /\ UNCHANGED <<open, age, queue>>

\* What is no Exception (SystemExit) passes _run and ends in the future.
Escape(j) ==
  /\ work[j] = "working" /\ work' = [work EXCEPT ![j] = "escaped"]
  /\ UNCHANGED <<open, entry, age, queue>>

Shutdown == open /\ open' = FALSE /\ UNCHANGED <<work, entry, age, queue>>

RegistryNext ==
  \/ \E j \in Jobs : Register(j) \/ HandOver(j) \/ Run(j) \/ Escape(j)
  \/ Take \/ Shutdown

RegistrySpec == RegistryInit /\ [][RegistryNext]_registryVars

-----------------------------------------------------------------------------
(* Properties *)

\* What a poll says is so.  A job at work is there and running, however many
\* came after it; what is shown as running is, unless its submit raised or
\* its callable left by SystemExit; and
\* a finished one is forgotten only when keep_last are there without it
\* ("Running jobs are never evicted", jobs.py:132-134).
PollsAreTrue == \A j \in Jobs :
  /\ work[j] \in {"registered", "queued", "working"} => entry[j] = "running"
  /\ entry[j] = "running" =>
       work[j] \in {"registered", "queued", "working", "refused", "escaped"}
  /\ work[j] = "over" /\ entry[j] = "none" => Cardinality(Registered) >= KeepLast
=============================================================================
