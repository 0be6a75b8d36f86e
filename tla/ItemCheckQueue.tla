---------------------------- MODULE ItemCheckQueue ----------------------------
(***************************************************************************)
(* The Redis queue of hourly item checks: ItemCheckQueue and               *)
(* run_check_chunk of airflow_mgmt/scripts/item_check_queue.py, run as     *)
(* parallel chunk tasks by airflow_mgmt/dags/item_check/item_check_dag.py. *)
(* One generation is modelled, from the moment load_generation has filled  *)
(* it.  Every Redis command is one step: the code groups none of them in a *)
(* transaction or a script, so the chunks interleave between any two.      *)
(*                                                                         *)
(* A chunk task that dies (killed, or a Redis error that leaves            *)
(* run_check_chunk) forgets what it had in hand.  Time is only whether an  *)
(* item's lease has run out.                                               *)
(***************************************************************************)
EXTENDS Integers, FiniteSets, Sequences

CONSTANTS Items,        \* the items of the generation
          Chunks,       \* the parallel chunk tasks of one DAG run
          BatchSize,    \* items one chunk claims
          MaxRetries,   \* failures after which an item is given up
          MaxCrashes,   \* bound: chunk tasks that die
          MaxOverruns   \* bound: leases that run out while their chunk works

ASSUME QueueAssumption ==
  /\ IsFiniteSet(Items)
  /\ IsFiniteSet(Chunks)
  /\ BatchSize \in Nat \ {0}
  /\ MaxRetries \in Nat \ {0}
  /\ MaxCrashes \in Nat
  /\ MaxOverruns \in Nat

VARIABLES
  pending,    \* list: items waiting, first come first served
  leased,     \* members of the sorted set `processing`
  expired,    \* those of them whose deadline has passed
  done,       \* set
  failed,     \* set
  retries,    \* hash: failures counted per item
  pc,         \* the Redis command each chunk is about to send
  seen,       \* the expired items its ZRANGEBYSCORE returned
  hand,       \* the items it popped and has not finished with
  crashes,    \* chunk tasks that have died
  overruns,   \* leases that have run out under a working chunk
  checked     \* how often each item's handler call has succeeded

redisVars == <<pending, leased, expired, done, failed, retries>>
chunkVars == <<pc, seen, hand>>
history == <<crashes, overruns, checked>>
vars == <<redisVars, chunkVars, history>>

Elems(s) == {s[k] : k \in 1..Len(s)}
Orderings(S) == {s \in [1..Cardinality(S) -> S] : Elems(s) = S}

TypeOK ==
  /\ pending \in Seq(Items)
  /\ leased \subseteq Items
  /\ expired \subseteq leased
  /\ done \subseteq Items
  /\ failed \subseteq Items
  /\ retries \in [Items -> Nat]
  /\ pc \in [Chunks -> {"off", "scan", "unlease", "requeue", "pop", "lease", "handle",
                        "done.zrem", "done.sadd", "done.hdel",
                        "fail.zrem", "fail.hincrby", "fail.sadd", "fail.rpush"}]
  /\ seen \in [Chunks -> SUBSET Items]
  /\ hand \in [Chunks -> Seq(Items)]
  /\ \A c \in Chunks : hand[c] = <<>> <=> pc[c] \in {"off", "scan", "unlease", "requeue", "pop"}
  /\ crashes \in 0..MaxCrashes
  /\ overruns \in 0..MaxOverruns
  /\ checked \in [Items -> Nat]

(* load_generation: every item once in pending, everything else cleared.   *)
Init ==
  /\ pending  \in Orderings(Items)
  /\ leased   = {}
  /\ expired  = {}
  /\ done     = {}
  /\ failed   = {}
  /\ retries  = [i \in Items |-> 0]
  /\ pc       = [c \in Chunks |-> "off"]
  /\ seen     = [c \in Chunks |-> {}]
  /\ hand     = [c \in Chunks |-> <<>>]
  /\ crashes  = 0
  /\ overruns = 0
  /\ checked  = [i \in Items |-> 0]

Goto(c, from, to) ==
  /\ pc[c] = from
  /\ pc' = [pc EXCEPT ![c] = to]

-----------------------------------------------------------------------------
(* The hourly DAG: max_active_runs = 1, so a run starts its chunk tasks    *)
(* once those of the run before are over.                                  *)
StartRun ==
  /\ \A c \in Chunks : pc[c] = "off"
  /\ pc' = [c \in Chunks |-> "scan"]
  /\ UNCHANGED <<redisVars, seen, hand, history>>

-----------------------------------------------------------------------------
(* reclaim_expired                                                         *)

(* Mutant: claim is called without reclaim_expired.                        *)
ScanNothing(c) ==
  /\ Goto(c, "scan", "pop")
  /\ UNCHANGED <<redisVars, seen, hand, history>>

Scan(c) ==
  /\ Goto(c, "scan", IF expired = {} THEN "pop" ELSE "unlease")
  /\ seen' = [seen EXCEPT ![c] = expired]
  /\ UNCHANGED <<redisVars, hand, history>>

Unlease(c) ==
  /\ Goto(c, "unlease", "requeue")
  /\ leased' = leased \ seen[c]
  /\ expired' = expired \ seen[c]
  /\ UNCHANGED <<pending, done, failed, retries, seen, hand, history>>

(* Mutant: the reclaimed items are not pushed back.                        *)
RequeueNothing(c) ==
  /\ Goto(c, "requeue", "pop")
  /\ seen' = [seen EXCEPT ![c] = {}]
  /\ UNCHANGED <<redisVars, hand, history>>

Requeue(c) ==
  /\ Goto(c, "requeue", "pop")
  /\ \E s \in Orderings(seen[c]) : pending' = pending \o s
  /\ seen' = [seen EXCEPT ![c] = {}]
  /\ UNCHANGED <<leased, expired, done, failed, retries, hand, history>>

-----------------------------------------------------------------------------
(* claim                                                                   *)

Popped == IF Len(pending) < BatchSize THEN Len(pending) ELSE BatchSize

(* An empty pending list ends the chunk: summarize and return.             *)
PopNothing(c) ==
  /\ pending = <<>>
  /\ Goto(c, "pop", "off")
  /\ UNCHANGED <<redisVars, seen, hand, history>>

(* Mutant: LRANGE, with the LTRIM forgotten.                               *)
PopKeeping(c) ==
  /\ pending # <<>>
  /\ Goto(c, "pop", "lease")
  /\ hand' = [hand EXCEPT ![c] = SubSeq(pending, 1, Popped)]
  /\ UNCHANGED <<redisVars, seen, history>>

Pop(c) ==
  /\ pending # <<>>
  /\ Goto(c, "pop", "lease")
  /\ hand' = [hand EXCEPT ![c] = SubSeq(pending, 1, Popped)]
  /\ pending' = SubSeq(pending, Popped + 1, Len(pending))
  /\ UNCHANGED <<leased, expired, done, failed, retries, seen, history>>

(* Mutant: the claimed items get no lease.                                 *)
LeaseNothing(c) ==
  /\ Goto(c, "lease", "handle")
  /\ UNCHANGED <<redisVars, seen, hand, history>>

Lease(c) ==
  /\ Goto(c, "lease", "handle")
  /\ leased' = leased \cup Elems(hand[c])
  /\ expired' = expired \ Elems(hand[c])
  /\ UNCHANGED <<pending, done, failed, retries, seen, hand, history>>

-----------------------------------------------------------------------------
(* The loop over the claimed items: item_handler returns or raises.        *)

Handle(c) ==
  /\ \/ /\ Goto(c, "handle", "done.zrem")
        /\ checked' = [checked EXCEPT ![Head(hand[c])] = @ + 1]
     \/ /\ Goto(c, "handle", "fail.zrem")
        /\ UNCHANGED checked
  /\ UNCHANGED <<redisVars, seen, hand, crashes, overruns>>

(* The item is finished with: the next one, or the end of the chunk.       *)
NextItem(c, from) ==
  /\ Goto(c, from, IF Len(hand[c]) = 1 THEN "off" ELSE "handle")
  /\ hand' = [hand EXCEPT ![c] = Tail(@)]

DropLease(c, from, to) ==
  /\ Goto(c, from, to)
  /\ leased' = leased \ {Head(hand[c])}
  /\ expired' = expired \ {Head(hand[c])}
  /\ UNCHANGED <<pending, done, failed, retries, seen, hand, history>>

(* mark_done                                                               *)
DoneZrem(c) == DropLease(c, "done.zrem", "done.sadd")

DoneSadd(c) ==
  /\ Goto(c, "done.sadd", "done.hdel")
  /\ done' = done \cup {Head(hand[c])}
  /\ UNCHANGED <<pending, leased, expired, failed, retries, seen, hand, history>>

DoneHdel(c) ==
  /\ NextItem(c, "done.hdel")
  /\ retries' = [retries EXCEPT ![Head(hand[c])] = 0]
  /\ UNCHANGED <<pending, leased, expired, done, failed, seen, history>>

(* mark_failed                                                             *)
FailZrem(c) == DropLease(c, "fail.zrem", "fail.hincrby")

(* HINCRBY's reply decides: given up, or back at the end of the list.      *)
FailHincrby(c) ==
  LET n == retries[Head(hand[c])] + 1 IN
  /\ Goto(c, "fail.hincrby", IF n >= MaxRetries THEN "fail.sadd" ELSE "fail.rpush")
  /\ retries' = [retries EXCEPT ![Head(hand[c])] = n]
  /\ UNCHANGED <<pending, leased, expired, done, failed, seen, hand, history>>

FailSadd(c) ==
  /\ NextItem(c, "fail.sadd")
  /\ failed' = failed \cup {Head(hand[c])}
  /\ UNCHANGED <<pending, leased, expired, done, retries, seen, history>>

FailRpush(c) ==
  /\ NextItem(c, "fail.rpush")
  /\ pending' = Append(pending, Head(hand[c]))
  /\ UNCHANGED <<leased, expired, done, failed, retries, seen, history>>

-----------------------------------------------------------------------------
(* What the chunk does not choose.                                         *)

Die(c) ==
  /\ crashes < MaxCrashes
  /\ pc[c] # "off"
  /\ pc' = [pc EXCEPT ![c] = "off"]
  /\ seen' = [seen EXCEPT ![c] = {}]
  /\ hand' = [hand EXCEPT ![c] = <<>>]
  /\ crashes' = crashes + 1
  /\ UNCHANGED <<redisVars, overruns, checked>>

(* lease_seconds have passed since the item was claimed.  Nothing bounds   *)
(* how long a handler runs, so the chunk may still have it in hand.        *)
InHand(i) == \E c \in Chunks : i \in Elems(hand[c])

Expire(i) ==
  /\ i \in leased \ expired
  /\ InHand(i) => overruns < MaxOverruns
  /\ overruns' = IF InHand(i) THEN overruns + 1 ELSE overruns
  /\ expired' = expired \cup {i}
  /\ UNCHANGED <<pending, leased, done, failed, retries, chunkVars, crashes, checked>>

Chunk(c) ==
  \/ Scan(c) \/ Unlease(c) \/ Requeue(c) \/ PopNothing(c) \/ Pop(c) \/ Lease(c)
  \/ Handle(c) \/ DoneZrem(c) \/ DoneSadd(c) \/ DoneHdel(c)
  \/ FailZrem(c) \/ FailHincrby(c) \/ FailSadd(c) \/ FailRpush(c)

Next ==
  \/ StartRun
  \/ \E c \in Chunks : Chunk(c) \/ Die(c)
  \/ \E i \in Items : Expire(i)

(* The DAG keeps being scheduled, tasks run, handlers end, time passes.    *)
Fairness ==
  /\ WF_vars(StartRun)
  /\ \A c \in Chunks : WF_vars(Chunk(c))
  /\ \A i \in Items : WF_vars(Expire(i))

Spec == Init /\ [][Next]_vars
FairSpec == Spec /\ Fairness

-----------------------------------------------------------------------------
(* The items only the chunk c knows about: taken out of one key, not yet   *)
(* put into the next.                                                      *)
Window(c) ==
  {i \in Items :
     \/ pc[c] = "requeue" /\ i \in seen[c]
     \/ pc[c] = "lease" /\ i \in Elems(hand[c])
     \/ pc[c] \in {"done.sadd", "fail.hincrby", "fail.sadd", "fail.rpush"}
        /\ i = Head(hand[c])}

Accounted(i) ==
  \/ i \in Elems(pending)
  \/ i \in leased \cup done \cup failed
  \/ \E c \in Chunks : i \in Window(c)

(* As long as no chunk task has died, every item of the generation is      *)
(* waiting, leased, settled, or on its way between two of these, however   *)
(* the chunks interleave and whichever leases run out.                     *)
NothingLost == crashes = 0 => \A i \in Items : Accounted(i)

(* If leases outlive the work and no task dies, each item is in exactly    *)
(* one place, once: no two chunks ever work on the same item.              *)
Undisturbed == crashes = 0 /\ overruns = 0

Places(i) ==
  LET keys == <<leased, done, failed>> IN
  Cardinality({k \in 1..Len(pending) : pending[k] = i})
  + Cardinality({k \in 1..3 : i \in keys[k]})
  + Cardinality({c \in Chunks : i \in Window(c)})

ExactlyOnePlace == Undisturbed => \A i \in Items : Places(i) = 1

(* "Once each": an item that has been checked is not checked again in its  *)
(* generation, by this chunk, by another or by the next hour's.            *)
CheckedOnce == \A i \in Items : checked[i] <= 1

(* As far as the code goes to see to it: unless a lease has overrun or a   *)
(* task has died.                                                          *)
CheckedOnceInTime == Undisturbed => CheckedOnce

(* What is not lost is checked or given up in the end: the lease of a task *)
(* that died runs out, and a later chunk takes its items over.             *)
SettledUnlessLost ==
  \A i \in Items : <>[](i \in done \cup failed \/ ~Accounted(i))
=============================================================================
