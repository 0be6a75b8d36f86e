---------------------------- MODULE FleetDownload ----------------------------
(***************************************************************************)
(* FtpFleetDownloader.download: the engine of FleetEngine running          *)
(* _host_worker for every spec, with the caller's on_file callback behind  *)
(* one _FileGate per spec.  The gate's lock is held for as long as the     *)
(* callback runs, so close() waits for it; the worker reads `closed`       *)
(* without the lock, once per file.                                        *)
(***************************************************************************)
EXTENDS FleetEngine

CONSTANT MaxPaths   \* most paths a spec may resolve to

ASSUME DownloadAssumption == MaxPaths \in Nat

VARIABLES
  streaming,  \* is on_file given, or are the bytes collected?
  step,     \* where each worker is in its loop
  left,     \* resolved paths its loop has not taken yet
  files,    \* how many FileResults its list holds
  sunk,     \* how many callbacks of this spec returned normally
  closed,   \* the specs whose _FileGate is closed
  shut,     \* how many gates download's finally clause has closed
  extra     \* RETRs of this spec that ended after its gate was closed

workerVars == <<streaming, step, left, files, sunk, closed, shut, extra>>
vars == <<engineVars, workerVars>>

TypeOK ==
  /\ EngineTypeOK
  /\ streaming \in BOOLEAN
  /\ step \in [Specs -> {"idle", "connect", "check", "fetch", "gate", "callback"}]
  /\ left \in [Specs -> 0..MaxPaths]
  /\ files \in [Specs -> Nat]
  /\ sunk \in [Specs -> Nat]
  /\ closed \subseteq Specs
  /\ shut \in 0..N
  /\ extra \in [Specs -> Nat]

Init ==
  /\ EngineInit
  /\ streaming \in BOOLEAN
  /\ step   = [i \in Specs |-> "idle"]
  /\ left   = [i \in Specs |-> 0]
  /\ files  = [i \in Specs |-> 0]
  /\ sunk   = [i \in Specs |-> 0]
  /\ closed = {}
  /\ shut   = 0
  /\ extra  = [i \in Specs |-> 0]

-----------------------------------------------------------------------------
(* The worker thread (_timed, _host_worker, _session, _resolve_paths,      *)
(* _fetch_one).                                                            *)

Goto(i, from, to) ==
  /\ step[i] = from
  /\ step' = [step EXCEPT ![i] = to]

Begin(i) ==
  /\ StartWorker(i)
  /\ Goto(i, "idle", "connect")
  /\ UNCHANGED <<streaming, left, files, sunk, closed, shut, extra>>

(* Connected, and every listing expanded or its failure recorded.          *)
Resolve(i) ==
  /\ Goto(i, "connect", "check")
  /\ \E n \in 0..MaxPaths : left' = [left EXCEPT ![i] = n]
  /\ UNCHANGED <<engineVars, streaming, files, sunk, closed, shut, extra>>

(* Mutant: a session that cannot be opened puts its spec back in the queue.*)
SessionRetried(i) ==
  /\ Goto(i, "connect", "idle")
  /\ thread' = [thread EXCEPT ![i] = "queued"]
  /\ UNCHANGED <<age, main, cursor, verdict>>
  /\ UNCHANGED <<streaming, left, files, sunk, closed, shut, extra>>

(* The session cannot be opened: recorded as the host's failure if it is   *)
(* one of _FTP_ERRORS ("done"), raised into the future if it is not.       *)
SessionFails(i) ==
  /\ Goto(i, "connect", "idle")
  /\ \E how \in Ended : EndWorker(i, how)
  /\ UNCHANGED <<streaming, left, files, sunk, closed, shut, extra>>

(* The top of the loop over the paths: nothing left, or the gate was seen  *)
(* closed, and the connection is given back; else the next RETR.           *)
Leave(i) ==
  /\ left[i] = 0 \/ i \in closed
  /\ Goto(i, "check", "idle")
  /\ EndWorker(i, "done")
  /\ UNCHANGED <<streaming, left, files, sunk, closed, shut, extra>>

(* Mutant: the gate is not looked at.                                      *)
NextPathUngated(i) ==
  /\ left[i] > 0
  /\ Goto(i, "check", "fetch")
  /\ left' = [left EXCEPT ![i] = @ - 1]
  /\ UNCHANGED <<engineVars, streaming, files, sunk, closed, shut, extra>>

NextPath(i) ==
  /\ left[i] > 0 /\ i \notin closed
  /\ Goto(i, "check", "fetch")
  /\ left' = [left EXCEPT ![i] = @ - 1]
  /\ UNCHANGED <<engineVars, streaming, files, sunk, closed, shut, extra>>

(* RETR ends.  Streaming mode takes the bytes to the gate, collect mode    *)
(* keeps them; a failed RETR is recorded and skipped.                      *)
FetchEnds(i, to) ==
  /\ Goto(i, "fetch", to)
  /\ extra' = [extra EXCEPT ![i] = IF i \in closed THEN @ + 1 ELSE @]
  /\ UNCHANGED <<engineVars, streaming, left, sunk, closed, shut>>

FetchToGate(i) ==
  /\ streaming
  /\ FetchEnds(i, "gate")
  /\ UNCHANGED files

FetchToReport(i) ==
  /\ ~streaming
  /\ FetchEnds(i, "check")
  /\ files' = [files EXCEPT ![i] = @ + 1]

FetchFails(i) ==
  /\ FetchEnds(i, "check")
  /\ UNCHANGED files

(* Mutant: a file the gate refuses is offered to it again.                 *)
GateRetried(i) ==
  /\ i \in closed
  /\ Goto(i, "gate", "gate")
  /\ UNCHANGED <<engineVars, streaming, left, files, sunk, closed, shut, extra>>

(* _FileGate.__call__: under the lock, a closed gate swallows the file     *)
(* (the worker still appends its FileResult); an open one runs on_file.    *)
GateSwallows(i) ==
  /\ i \in closed
  /\ Goto(i, "gate", "check")
  /\ files' = [files EXCEPT ![i] = @ + 1]
  /\ UNCHANGED <<engineVars, streaming, left, sunk, closed, shut, extra>>

GateOpens(i) ==
  /\ i \notin closed
  /\ Goto(i, "gate", "callback")
  /\ UNCHANGED <<engineVars, streaming, left, files, sunk, closed, shut, extra>>

CallbackReturns(i) ==
  /\ Goto(i, "callback", "check")
  /\ files' = [files EXCEPT ![i] = @ + 1]
  /\ sunk' = [sunk EXCEPT ![i] = @ + 1]
  /\ UNCHANGED <<engineVars, streaming, left, closed, shut, extra>>

CallbackRaises(i) ==
  /\ Goto(i, "callback", "check")
  /\ UNCHANGED <<engineVars, streaming, left, files, sunk, closed, shut, extra>>

Worker(i) ==
  \/ Begin(i) \/ Resolve(i) \/ SessionFails(i) \/ Leave(i) \/ NextPath(i)
  \/ FetchToGate(i) \/ FetchToReport(i) \/ FetchFails(i)
  \/ GateSwallows(i) \/ GateOpens(i) \/ CallbackReturns(i) \/ CallbackRaises(i)

-----------------------------------------------------------------------------
(* The calling thread.  _FileGate.close() needs the lock the callback      *)
(* holds.                                                                  *)

(* Mutants: close() does not take the lock; the gate is one for the call.  *)
LockIgnored(i) == i \in Specs
CloseAll(i) == closed' = closed \cup {i} \cup Specs

LockFree(i) == step[i] # "callback"
Close(i) == closed' = closed \cup {i}

(* on_abandon closes the gate of the abandoned spec, and only that one,    *)
(* before its failure is recorded.                                         *)
AbandonHost ==
  /\ Abandon
  /\ IF streaming THEN LockFree(cursor) /\ Close(cursor)
                  ELSE UNCHANGED closed
  /\ UNCHANGED <<streaming, step, left, files, sunk, shut, extra>>

(* finally: for gate in gates or (): gate.close()                          *)
CloseNextGate ==
  /\ main = "finally"
  /\ streaming /\ shut < N
  /\ LockFree(shut + 1)
  /\ Close(shut + 1)
  /\ shut' = shut + 1
  /\ UNCHANGED <<engineVars, streaming, step, left, files, sunk, extra>>

ReturnReport ==
  /\ streaming => shut = N
  /\ Return
  /\ UNCHANGED workerVars

CallerStep ==
  \/ (Collect \/ TimeOut \/ LeavePool) /\ UNCHANGED workerVars
  \/ AbandonHost
  \/ CloseNextGate
  \/ ReturnReport

InterruptCaller == Interrupt /\ UNCHANGED workerVars

(* The caller is blocked, not just slow, when it waits for a gate's lock.  *)
WaitsForGate ==
  /\ streaming
  /\ \/ main = "abandoning" /\ ~LockFree(cursor)
     \/ main = "finally" /\ shut < N /\ ~LockFree(shut + 1)

TimePasses ==
  /\ main \in {"abandoning", "finally"} => WaitsForGate
  /\ Tick
  /\ UNCHANGED workerVars

Finished == Drained /\ UNCHANGED vars

Next ==
  \/ \E i \in Specs : Worker(i)
  \/ CallerStep
  \/ InterruptCaller
  \/ TimePasses
  \/ Finished

(* Threads are scheduled, time passes, and every blocking call a worker    *)
(* makes (a socket operation bounded by connect_timeout, the caller's own  *)
(* callback) ends; nothing forces an interrupt.                            *)
Fairness ==
  /\ \A i \in Specs : WF_vars(Worker(i))
  /\ WF_vars(CallerStep)
  /\ WF_vars(TimePasses)

Spec == Init /\ [][Next]_vars
FairSpec == Spec /\ Fairness

-----------------------------------------------------------------------------
(* "Once download returns, no on_file is running and none will start", and *)
(* a host reported as timed out can no longer emit a success: whoever has  *)
(* been told a host is over never shares its sink with that host's worker. *)
SinkQuiet ==
  \A i \in Specs :
    (main = "returned" \/ verdict[i] = "timeout") => step[i] # "callback"

(* A result the caller collects is complete and true: every resolved path  *)
(* was taken, and every FileResult in it is a file the sink has seen.      *)
(* Closing the wrong gate, or closing one early, would drop files silently *)
(* and still count them.                                                   *)
CollectedMeansSunk ==
  \A i \in Specs :
    verdict[i] = "result" /\ thread[i] = "done" =>
      /\ left[i] = 0
      /\ streaming => files[i] = sunk[i]

(* "Racing it costs at most one extra file fetched": an abandoned worker   *)
(* ends at most one RETR after its gate was closed.                        *)
OneExtraFetch == \A i \in Specs : extra[i] <= 1

(* What BudgetKept says does hold of a download that collects its bytes:   *)
(* there is no gate to wait for, so the caller takes no result late.       *)
CollectingKeepsBudget == ~streaming => BudgetKept

(* Whatever the hosts do, the call comes back and every thread it used     *)
(* drains: waiting for a gate never becomes waiting for ever.              *)
CallReturns == <>Drained
=============================================================================
