----------------------------- MODULE FleetDelete -----------------------------
(***************************************************************************)
(* FtpFleetDownloader.delete: the engine of FleetEngine running            *)
(* _delete_worker for every spec, with one stop Event per spec.  A refused *)
(* DELE or RMD is settled by probing the path (_remove_or_absent); a probe *)
(* may leave the session in another directory, where the next relative     *)
(* path would name something else.                                         *)
(***************************************************************************)
EXTENDS FleetEngine

CONSTANT MaxItems   \* most paths (files, then dirs) one spec names

ASSUME DeleteAssumption == MaxItems \in Nat

VARIABLES
  step,      \* where each worker is in its loop
  total,     \* how many paths its spec names (0 until it has logged in)
  left,      \* paths not settled yet, the one in hand included
  settled,   \* DeleteResults plus HostFailures recorded for its paths
  pwd,       \* the specs whose login PWD reply ftplib could parse
  away,      \* the specs whose server side CWD has moved, or may have
  stop,      \* the specs whose stop Event is set
  late       \* DELE/RMD commands it sent after the event was set

workerVars == <<step, total, left, settled, pwd, away, stop, late>>
vars == <<engineVars, workerVars>>

TypeOK ==
  /\ EngineTypeOK
  /\ step \in [Specs -> {"idle", "connect", "check", "send", "size", "cwd", "home"}]
  /\ total \in [Specs -> 0..MaxItems]
  /\ left \in [Specs -> 0..MaxItems]
  /\ settled \in [Specs -> Nat]
  /\ pwd \subseteq Specs
  /\ away \subseteq Specs
  /\ stop \subseteq Specs
  /\ late \in [Specs -> Nat]

Init ==
  /\ EngineInit
  /\ step    = [i \in Specs |-> "idle"]
  /\ total   = [i \in Specs |-> 0]
  /\ left    = [i \in Specs |-> 0]
  /\ settled = [i \in Specs |-> 0]
  /\ pwd     = {}
  /\ away    = {}
  /\ stop    = {}
  /\ late    = [i \in Specs |-> 0]

-----------------------------------------------------------------------------
(* The worker thread.                                                      *)

Goto(i, from, to) ==
  /\ step[i] = from
  /\ step' = [step EXCEPT ![i] = to]

Begin(i) ==
  /\ StartWorker(i)
  /\ Goto(i, "idle", "connect")
  /\ UNCHANGED <<total, left, settled, pwd, away, stop, late>>

(* Logged in, and PWD answered: parseable or not.                          *)
Login(i) ==
  /\ Goto(i, "connect", "check")
  /\ \E n \in 0..MaxItems : total' = [total EXCEPT ![i] = n]
                         /\ left'  = [left EXCEPT ![i] = n]
  /\ pwd' \in {pwd, pwd \cup {i}}
  /\ UNCHANGED <<engineVars, settled, away, stop, late>>

(* Mutant: a session that cannot be opened puts its spec back in the queue.*)
SessionRetried(i) ==
  /\ Goto(i, "connect", "idle")
  /\ thread' = [thread EXCEPT ![i] = "queued"]
  /\ UNCHANGED <<age, main, cursor, verdict, total, left, settled, pwd, away, stop, late>>

SessionFails(i) ==
  /\ Goto(i, "connect", "idle")
  /\ \E how \in Ended : EndWorker(i, how)
  /\ UNCHANGED <<total, left, settled, pwd, away, stop, late>>

(* The top of the loop: nothing left, or the stop event was seen set.      *)
Leave(i) ==
  /\ left[i] = 0 \/ i \in stop
  /\ Goto(i, "check", "idle")
  /\ EndWorker(i, "done")
  /\ UNCHANGED <<total, left, settled, pwd, away, stop, late>>

(* Mutant: the stop event is not looked at.                                *)
NextItemUnstopped(i) ==
  /\ left[i] > 0
  /\ Goto(i, "check", "send")
  /\ UNCHANGED <<engineVars, total, left, settled, pwd, away, stop, late>>

NextItem(i) ==
  /\ left[i] > 0 /\ i \notin stop
  /\ Goto(i, "check", "send")
  /\ UNCHANGED <<engineVars, total, left, settled, pwd, away, stop, late>>

SettleItems(i, n) ==
  /\ settled' = [settled EXCEPT ![i] = @ + n]
  /\ left' = [left EXCEPT ![i] = @ - n]

(* DELE or RMD goes out.  A 5xx refusal is probed; any other answer (done, *)
(* a temporary refusal, a dead socket) settles the path one way or other.  *)
Remove(i) ==
  /\ late' = [late EXCEPT ![i] = IF i \in stop THEN @ + 1 ELSE @]
  /\ \/ Goto(i, "send", "size") /\ UNCHANGED <<left, settled>>
     \/ Goto(i, "send", "check") /\ SettleItems(i, 1)
  /\ UNCHANGED <<engineVars, total, pwd, away, stop>>

(* TYPE I and SIZE: a 550 says "not a file", so CWD is tried; any other    *)
(* outcome keeps the refusal.                                              *)
ProbeSize(i) ==
  /\ \/ Goto(i, "size", "cwd") /\ UNCHANGED <<left, settled>>
     \/ Goto(i, "size", "check") /\ SettleItems(i, 1)
  /\ UNCHANGED <<engineVars, total, pwd, away, stop, late>>

(* CWD is refused: the path is gone (550) or the refusal stands.           *)
ProbeCwdRefused(i) ==
  /\ Goto(i, "cwd", "check")
  /\ SettleItems(i, 1)
  /\ UNCHANGED <<engineVars, total, pwd, away, stop, late>>

(* CWD is entered: the path is a directory.                                *)
ProbeCwdEntered(i) ==
  /\ Goto(i, "cwd", "home")
  /\ away' = away \cup {i}
  /\ UNCHANGED <<engineVars, total, left, settled, pwd, stop, late>>

(* Mutant: items[i + 1:] are recorded, the path in hand is not.            *)
GiveUpAfter(i, from) ==
  /\ Goto(i, from, "idle")
  /\ SettleItems(i, left[i] - 1)
  /\ EndWorker(i, "done")
  /\ UNCHANGED <<total, pwd, stop, late>>

(* _CwdLost: every path from this one on is recorded as failed and the     *)
(* loop is left.                                                           *)
GiveUp(i, from) ==
  /\ Goto(i, from, "idle")
  /\ SettleItems(i, left[i])
  /\ EndWorker(i, "done")
  /\ UNCHANGED <<total, pwd, stop, late>>

(* The probe breaks with anything but a refusal; the server may have moved.*)
ProbeCwdBreaks(i) ==
  /\ GiveUp(i, "cwd")
  /\ away' \in {away, away \cup {i}}

(* Mutant: an unknown PWD goes out as "CWD .", which moves nowhere.        *)
CwdHomeBlind(i) ==
  /\ Goto(i, "home", "check")
  /\ away' = IF i \in pwd THEN away \ {i} ELSE away
  /\ SettleItems(i, 1)
  /\ UNCHANGED <<engineVars, total, pwd, stop, late>>

(* _cwd_home: CWD back to the login PWD, if it is known.                   *)
CwdHome(i) ==
  /\ i \in pwd
  /\ Goto(i, "home", "check")
  /\ away' = away \ {i}
  /\ SettleItems(i, 1)
  /\ UNCHANGED <<engineVars, total, pwd, stop, late>>

CwdHomeFails(i) ==
  /\ GiveUp(i, "home")
  /\ UNCHANGED away

Worker(i) ==
  \/ Begin(i) \/ Login(i) \/ SessionFails(i) \/ Leave(i) \/ NextItem(i)
  \/ Remove(i) \/ ProbeSize(i) \/ ProbeCwdRefused(i) \/ ProbeCwdEntered(i)
  \/ ProbeCwdBreaks(i) \/ CwdHome(i) \/ CwdHomeFails(i)

-----------------------------------------------------------------------------
(* The calling thread.  Setting an Event never blocks.                     *)

AbandonHost ==
  /\ Abandon
  /\ stop' = stop \cup {cursor}
  /\ UNCHANGED <<step, total, left, settled, pwd, away, late>>

(* finally: for stop in stops: stop.set()                                  *)
StopAll ==
  /\ Return
  /\ stop' = Specs
  /\ UNCHANGED <<step, total, left, settled, pwd, away, late>>

CallerStep ==
  \/ (Collect \/ TimeOut \/ LeavePool) /\ UNCHANGED workerVars
  \/ AbandonHost
  \/ StopAll

InterruptCaller == Interrupt /\ UNCHANGED workerVars

TimePasses ==
  /\ main \notin {"abandoning", "finally"}
  /\ Tick
  /\ UNCHANGED workerVars

Finished == Drained /\ UNCHANGED vars

Next ==
  \/ \E i \in Specs : Worker(i)
  \/ CallerStep
  \/ InterruptCaller
  \/ TimePasses
  \/ Finished

Spec == Init /\ [][Next]_vars

-----------------------------------------------------------------------------
(* A path is only ever removed from the login directory: no DELE or RMD is *)
(* sent on a session whose CWD is, or may be, elsewhere, where a relative  *)
(* path would name another file and "still read as success".               *)
RemovesFromHome == \A i \in Specs : step[i] \in {"check", "send"} => i \notin away

(* A report that is taken accounts for every path of its spec exactly      *)
(* once, the paths given up after a lost CWD included.                     *)
EveryPathReported ==
  \A i \in Specs : verdict[i] = "result" => settled[i] = total[i]

(* The stop event is read before each path, not while one is being         *)
(* removed: an abandoned worker sends at most one more DELE or RMD.        *)
OneLateRemove == \A i \in Specs : late[i] <= 1

(* "its stop flag makes it send no further DELE/RMD once the caller has    *)
(* been told it failed": once delete() has returned with a timeout for a   *)
(* host, its worker removes nothing more.                                  *)
NoRemoveOnceTold ==
  [][\A i \in Specs :
       main = "returned" /\ verdict[i] = "timeout" => late'[i] = late[i]]_vars
=============================================================================
