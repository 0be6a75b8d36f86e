----------------------------- MODULE FleetEngine -----------------------------
(***************************************************************************)
(* The fan-out engine of ftp_handler/direct_downloader/fleet_downloader.py *)
(* (FtpFleetDownloader._run_fleet), shared by download, list_dirs,         *)
(* size_dirs, upload, mkdir and delete.  A thread pool of MaxConcurrency   *)
(* threads runs one worker per spec; the calling thread then walks the     *)
(* futures in submission order and gives every one a verdict: its result,  *)
(* its exception, or a timeout once the worker has been running for        *)
(* HostTimeout.  A timed out thread cannot be killed: it keeps its pool    *)
(* thread and keeps running after the verdict.                             *)
(*                                                                         *)
(* What a worker does while it runs is left to the modules that extend     *)
(* this one (FleetDownload, FleetDelete); here a worker only starts and    *)
(* ends.  Time is the age of each running worker, not a clock: the code    *)
(* only ever compares time.monotonic() - start with host_timeout.          *)
(***************************************************************************)
EXTENDS Integers, FiniteSets

CONSTANTS N,               \* number of specs handed to one call
          MaxConcurrency,  \* max_workers of the pool
          HostTimeout      \* host_timeout, in ticks

ASSUME EngineAssumption ==
  /\ N \in Nat
  /\ MaxConcurrency \in Nat \ {0}
  /\ HostTimeout \in Nat

VARIABLES
  thread,   \* state of each spec's future: queued, running, done or raised
  age,      \* how long its worker has run, saturated at MaxAge
  main,     \* what the calling thread is doing
  cursor,   \* the future the calling thread looks at next
  verdict   \* what has been recorded for each spec so far

engineVars == <<thread, age, main, cursor, verdict>>

Specs  == 1..N
MaxAge == HostTimeout + 1   \* any age past host_timeout is as good as this one
Ended  == {"done", "raised"}
Running == {i \in Specs : thread[i] = "running"}

EngineTypeOK ==
  /\ thread \in [Specs -> {"queued", "running"} \cup Ended]
  /\ age \in [Specs -> 0..MaxAge]
  /\ main \in {"collecting", "abandoning", "finally", "returned"}
  /\ cursor \in 1..N+1
  /\ verdict \in [Specs -> {"none", "result", "error", "timeout"}]

(* pool.submit for every spec; nothing has run yet.                        *)
EngineInit ==
  /\ thread  = [i \in Specs |-> "queued"]
  /\ age     = [i \in Specs |-> 0]
  /\ main    = "collecting"
  /\ cursor  = 1
  /\ verdict = [i \in Specs |-> "none"]

-----------------------------------------------------------------------------
(* The pool.  ThreadPoolExecutor serves its queue first in, first out; a   *)
(* thread is free again only when the worker it runs returns, abandoned or *)
(* not.                                                                    *)

(* Mutant: the slot of an abandoned worker is handed out again.            *)
StartWorkerOverAbandoned(i) ==
  /\ thread[i] = "queued"
  /\ \A j \in Specs : j < i => thread[j] # "queued"
  /\ Cardinality({j \in Running : verdict[j] # "timeout"}) < MaxConcurrency
  /\ thread' = [thread EXCEPT ![i] = "running"]
  /\ UNCHANGED <<age, main, cursor, verdict>>

StartWorker(i) ==
  /\ thread[i] = "queued"
  /\ \A j \in Specs : j < i => thread[j] # "queued"
  /\ Cardinality(Running) < MaxConcurrency
  /\ thread' = [thread EXCEPT ![i] = "running"]
  /\ UNCHANGED <<age, main, cursor, verdict>>

EndWorker(i, how) ==
  /\ thread[i] = "running"
  /\ thread' = [thread EXCEPT ![i] = how]
  /\ UNCHANGED <<age, main, cursor, verdict>>

-----------------------------------------------------------------------------
(* The calling thread.                                                     *)

Settle(what) ==
  /\ verdict' = [verdict EXCEPT ![cursor] = what]
  /\ cursor' = cursor + 1

(* future.result() has a result or re-raises what the worker raised.       *)
Collect ==
  /\ main = "collecting"
  /\ cursor \in Specs
  /\ thread[cursor] \in Ended
  /\ Settle(IF thread[cursor] = "done" THEN "result" ELSE "error")
  /\ UNCHANGED <<thread, age, main>>

(* Mutant: the budget is measured from submit, a queued host's wait in it. *)
TimeOutSinceSubmit ==
  /\ main = "collecting"
  /\ cursor \in Specs
  /\ thread[cursor] \in {"queued", "running"}
  /\ \E i \in Running : age[i] >= HostTimeout
  /\ main' = "abandoning"
  /\ UNCHANGED <<thread, age, cursor, verdict>>

(* future.result(timeout=remaining) gives up.  A worker that has not       *)
(* started has no deadline, so the caller waits for it without bound.      *)
TimeOut ==
  /\ main = "collecting"
  /\ cursor \in Specs
  /\ thread[cursor] = "running"
  /\ age[cursor] >= HostTimeout
  /\ main' = "abandoning"
  /\ UNCHANGED <<thread, age, cursor, verdict>>

(* on_abandon(idx) returns, then the failure is appended.                  *)
Abandon ==
  /\ main = "abandoning"
  /\ Settle("timeout")
  /\ main' = "collecting"
  /\ UNCHANGED <<thread, age>>

(* Every future has its verdict: pool.shutdown(wait=False).                *)
LeavePool ==
  /\ main = "collecting"
  /\ cursor = N + 1
  /\ main' = "finally"
  /\ UNCHANGED <<thread, age, cursor, verdict>>

(* An exception reaches the calling thread itself (Ctrl-C, a task timeout  *)
(* raised by a signal handler): the finally clauses run with futures still *)
(* unsettled, and shutdown(wait=False) leaves the queued ones to run.      *)
Interrupt ==
  /\ main \in {"collecting", "abandoning"}
  /\ main' = "finally"
  /\ UNCHANGED <<thread, age, cursor, verdict>>

(* The operation's own finally clause is over: the call returns its        *)
(* report, or re-raises if it was interrupted (cursor # N + 1).            *)
Return ==
  /\ main = "finally"
  /\ main' = "returned"
  /\ UNCHANGED <<thread, age, cursor, verdict>>

-----------------------------------------------------------------------------
(* Time passes for every running worker.  The calling thread is taken to   *)
(* be prompt: no time passes while it could go on with the future at the   *)
(* cursor.  In on_abandon and in the finally clause it may block.          *)

(* Mutant: every wait gets a fresh host_timeout, whatever the host used.   *)
CollectorReadyRearmed ==
  /\ main = "collecting"
  /\ \/ cursor = N + 1
     \/ cursor \in Specs /\ thread[cursor] \in Ended

CollectorReady ==
  /\ main = "collecting"
  /\ \/ cursor = N + 1
     \/ /\ cursor \in Specs
        /\ \/ thread[cursor] \in Ended
           \/ thread[cursor] = "running" /\ age[cursor] >= HostTimeout

Tick ==
  /\ ~CollectorReady
  /\ \E i \in Running : age[i] < MaxAge
  /\ age' = [i \in Specs |-> IF thread[i] = "running" /\ age[i] < MaxAge
                             THEN age[i] + 1 ELSE age[i]]
  /\ UNCHANGED <<thread, main, cursor, verdict>>

(* The call has returned and every thread it left behind has drained.      *)
Drained == main = "returned" /\ \A i \in Specs : thread[i] \in Ended

EngineNext ==
  \/ \E i \in Specs : StartWorker(i)
  \/ \E i \in Specs, how \in Ended : EndWorker(i, how)
  \/ Collect \/ TimeOut \/ Abandon \/ LeavePool \/ Interrupt \/ Return
  \/ Tick

EngineSpec == EngineInit /\ [][EngineNext]_engineVars

(* The operations whose on_abandon cannot block (delete sets an Event;     *)
(* list_dirs, size_dirs, upload and mkdir have none; download without      *)
(* on_file) never spend time in it.                                        *)
PromptNext == EngineNext /\ (Tick => main # "abandoning")
PromptSpec == EngineInit /\ [][PromptNext]_engineVars

-----------------------------------------------------------------------------
(* The pool never runs more workers than max_concurrency, the threads of   *)
(* abandoned hosts included: "at most that many connections are open at    *)
(* once".                                                                  *)
PoolBound == Cardinality(Running) <= MaxConcurrency

(* A call that returns leaves nothing in the pool's queue: no session to a *)
(* host is opened after the caller got its report, and every spec has its  *)
(* verdict.  (An interrupted call makes no such promise.)                  *)
NothingLeftQueued ==
  main = "returned" /\ cursor = N + 1 =>
    \A i \in Specs : thread[i] # "queued" /\ verdict[i] # "none"

(* A host queued behind a full pool is not charged for its wait: only a    *)
(* worker that has itself run for HostTimeout is reported as timed out.    *)
WaitNotCharged ==
  \A i \in Specs : verdict[i] = "timeout" => age[i] >= HostTimeout

(* "A host that has started can't gain extra budget by finishing while we  *)
(* happen to be blocked on an earlier future": no result of a worker that  *)
(* ran past host_timeout is ever taken.                                    *)
BudgetKept ==
  \A i \in Specs : verdict[i] = "result" => age[i] <= HostTimeout
=============================================================================
