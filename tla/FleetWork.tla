------------------------------ MODULE FleetWork ------------------------------
(***************************************************************************)
(* FtpFleetDownloader.list_dirs, size_dirs, upload and mkdir: the engine   *)
(* of FleetEngine running their workers, which no stop event ends.  The    *)
(* call is made directly, or as one batch of the proxy's client: an HTTP   *)
(* request whose process runs the same call, which may be denied, killed   *)
(* by harakiri or recycled, and whose reply may never arrive.  Batches     *)
(* share nothing but the report their results are appended to.             *)
(*                                                                         *)
(* A worker reads replies in the order the server sends them.  A transfer  *)
(* that breaks on its data connection leaves its own reply unread, and     *)
(* every later command is taken to have been answered by the one before.   *)
(***************************************************************************)
EXTENDS FleetEngine

CONSTANTS MaxItems,   \* most listings, files or directories of one spec
          Harakiris   \* request budgets of the deployments, in ticks

ASSUME WorkAssumption ==
  /\ MaxItems \in Nat
  /\ Harakiris \subseteq 1..MaxAge

VARIABLES
  kind,     \* the operation
  request,  \* "direct", or how far the HTTP request has come
  harakiri, \* the budget of the process that serves it, 0 before
  clock,    \* how long it has served it
  alive,    \* that process lives
  heard,    \* what the caller was given
  step,     \* where each worker is
  total,    \* how many items its spec has (0 until it has logged in)
  pos,      \* the item in hand
  good,     \* the items with a result
  bad,      \* the items with a failure
  done,     \* the items made, stored, listed or measured on the server
  line,     \* its control connection
  away      \* the specs whose server side CWD has moved, or may have

httpVars == <<request, harakiri, clock, alive, heard>>
itemVars == <<step, total, pos, good, bad, done, line, away>>
workVars == <<engineVars, kind, httpVars, itemVars>>

Items == 1..MaxItems
Kinds == {"list", "size", "upload", "mkdir"}

\* In step, broken, or one reply behind: the reply that is read next.
Stale == {"transfer", "type", "number", "refusal"}
Lines == {"insync", "broken"} \cup Stale

WorkTypeOK ==
  /\ EngineTypeOK
  /\ kind \in Kinds
  /\ request \in {"direct", "posted", "serving", "replied", "denied", "killed"}
  /\ harakiri \in Harakiris \cup {0}
  /\ clock \in 0..MaxAge
  /\ alive \in BOOLEAN
  /\ heard \in {"nothing", "report", "failure"}
  /\ step \in [Specs -> {"idle", "connect", "resolve", "item", "cwd", "home"}]
  /\ total \in [Specs -> 0..MaxItems]
  /\ pos \in [Specs -> 1..MaxItems+1]
  /\ good \in [Specs -> SUBSET Items]
  /\ bad \in [Specs -> SUBSET Items]
  /\ done \in [Specs -> SUBSET Items]
  /\ line \in [Specs -> Lines]
  /\ away \subseteq Specs

WorkInit ==
  /\ EngineInit
  /\ kind \in Kinds
  /\ request \in {"direct", "posted"}
  /\ harakiri = 0
  /\ clock = 0
  /\ alive = TRUE
  /\ heard = "nothing"
  /\ step = [i \in Specs |-> "idle"]
  /\ total = [i \in Specs |-> 0]
  /\ pos = [i \in Specs |-> 1]
  /\ good = [i \in Specs |-> {}]
  /\ bad = [i \in Specs |-> {}]
  /\ done = [i \in Specs |-> {}]
  /\ line = [i \in Specs |-> "insync"]
  /\ away = {}

\* The process that makes the call has it and lives.
Up == alive /\ request \in {"direct", "serving", "replied"}

-----------------------------------------------------------------------------
(* The worker thread *)

Move(i, from, to) ==
  /\ step[i] = from
  /\ step' = [step EXCEPT ![i] = to]

BeginWork(i) ==
  /\ StartWorker(i)
  /\ Move(i, "idle", "connect")
  /\ UNCHANGED <<total, pos, good, bad, done, line, away>>

\* Logged in; mkdir has asked for the login directory.
OpenSession(i) ==
  /\ Move(i, "connect", IF kind = "size" THEN "resolve" ELSE "item")
  /\ \E n \in 0..MaxItems : total' = [total EXCEPT ![i] = n]
  /\ UNCHANGED <<engineVars, pos, good, bad, done, line, away>>

\* A failure of the session is the only entry its host gets.
OpenFails(i) ==
  /\ Move(i, "connect", "idle")
  /\ \E how \in Ended : EndWorker(i, how)
  /\ UNCHANGED <<total, pos, good, bad, done, line, away>>

\* size_dirs lists the spec's listings, then sends TYPE I (_resolve_paths and
\* _binary_mode); after an unread transfer reply, that of TYPE I is unread.
ResolveAll(i) ==
  /\ Move(i, "resolve", "item")
  /\ \E l \in {"insync", "broken", "type"} : line' = [line EXCEPT ![i] = l]
  /\ UNCHANGED <<engineVars, total, pos, good, bad, done, away>>

InHand(i) == step[i] = "item" /\ pos[i] <= total[i]

\* The item in hand is settled, with a result or a failure.
SettleItem(i, result) ==
  /\ good' = [good EXCEPT ![i] = IF result THEN @ \cup {pos[i]} ELSE @]
  /\ bad' = [bad EXCEPT ![i] = IF result THEN @ ELSE @ \cup {pos[i]}]
  /\ pos' = [pos EXCEPT ![i] = @ + 1]
  /\ step' = [step EXCEPT ![i] = "item"]

Happens(i, yes) ==
  done' = [done EXCEPT ![i] = IF yes THEN @ \cup {pos[i]} ELSE @]

\* NLST or STOR: complete, refused, or broken on the data or on the control
\* connection.  One reply behind, PASV is answered with TYPE's and fails.
Transfer(i) ==
  /\ kind \in {"list", "upload"} /\ InHand(i)
  /\ \E l \in {"insync", "broken", "transfer"}, result, yes \in BOOLEAN :
       /\ result => l = "insync" /\ line[i] = "insync" /\ yes
       /\ yes => line[i] = "insync" /\ (result \/ l # "insync")
       /\ line[i] = "insync" \/ l = line[i]
       /\ line' = [line EXCEPT ![i] = l]
       /\ SettleItem(i, result)
       /\ Happens(i, yes)
  /\ UNCHANGED <<engineVars, total, away>>

\* SIZE, and MDTM if it had a number for an answer.
Measure(i) ==
  /\ kind = "size" /\ InHand(i)
  /\ \/ /\ line[i] = "insync"
        /\ \E l \in {"insync", "broken"}, result \in BOOLEAN :
             /\ line' = [line EXCEPT ![i] = l]
             /\ SettleItem(i, result)
             /\ Happens(i, result)
     \/ /\ line[i] # "insync"
        /\ \E l \in IF line[i] = "broken" THEN {"broken"}
                    ELSE {"number", "refusal", "broken"} :
             line' = [line EXCEPT ![i] = l]
        /\ SettleItem(i, line[i] = "number")
        /\ Happens(i, FALSE)
  /\ UNCHANGED <<engineVars, total, away>>

\* One more prefix of the path exists: the last one, or not.
PrefixExists(i, there) ==
  \/ /\ SettleItem(i, TRUE)
     /\ Happens(i, there)
  \/ /\ step' = [step EXCEPT ![i] = "item"]
     /\ UNCHANGED <<pos, good, bad, done>>

\* MKD of the next prefix.  A 5xx refusal is settled by a CWD into it.
MakePrefix(i) ==
  /\ kind = "mkdir" /\ InHand(i)
  /\ \/ /\ line[i] = "insync" /\ PrefixExists(i, i \notin away)
        /\ UNCHANGED line
     \/ /\ line[i] = "insync" /\ Move(i, "item", "cwd")
        /\ UNCHANGED <<pos, good, bad, done, line>>
     \/ /\ \E l \in {line[i], "broken"} : line' = [line EXCEPT ![i] = l]
        /\ SettleItem(i, FALSE)
        /\ \E yes \in BOOLEAN : Happens(i, yes /\ i \notin away)
  /\ UNCHANGED <<engineVars, total, away>>

ProbeRefused(i) ==
  /\ step[i] = "cwd"
  /\ SettleItem(i, FALSE)
  /\ UNCHANGED <<engineVars, total, done, line, away>>

ProbeEntered(i) ==
  /\ Move(i, "cwd", "home")
  /\ away' = away \cup {i}
  /\ UNCHANGED <<engineVars, total, pos, good, bad, done, line>>

\* _CwdLost: every directory from this one on is recorded as failed.
LoseCwd(i, from) ==
  /\ Move(i, from, "idle")
  /\ EndWorker(i, "done")
  /\ bad' = [bad EXCEPT ![i] = @ \cup (pos[i] .. total[i])]
  /\ UNCHANGED <<total, pos, good, done, line>>

ProbeBreaks(i) ==
  /\ LoseCwd(i, "cwd")
  /\ away' \in {away, away \cup {i}}

\* Mutant: the session is left in the directory that was probed.
StayThere(i) ==
  /\ step[i] = "home"
  /\ PrefixExists(i, TRUE)
  /\ UNCHANGED <<engineVars, total, line, away>>

\* _cwd_home; the probe has shown the prefix to be a directory.
GoHome(i) ==
  /\ step[i] = "home"
  /\ away' = away \ {i}
  /\ PrefixExists(i, TRUE)
  /\ UNCHANGED <<engineVars, total, line>>

\* The CWD back fails, or the PWD reply at login could not be parsed.
GoHomeFails(i) == LoseCwd(i, "home") /\ UNCHANGED away

LeaveWork(i) ==
  /\ pos[i] > total[i]
  /\ Move(i, "item", "idle")
  /\ EndWorker(i, "done")
  /\ UNCHANGED <<total, pos, good, bad, done, line, away>>

WorkStep(i) ==
  \/ BeginWork(i) \/ OpenSession(i) \/ OpenFails(i) \/ ResolveAll(i)
  \/ Transfer(i) \/ Measure(i) \/ MakePrefix(i) \/ ProbeRefused(i)
  \/ ProbeEntered(i) \/ ProbeBreaks(i) \/ GoHome(i) \/ GoHomeFails(i)
  \/ LeaveWork(i)

-----------------------------------------------------------------------------
(* The calling thread, without on_abandon, and time *)

\* A direct call gives its caller the report, or raises if interrupted.
ReturnWork ==
  /\ Return
  /\ heard' = IF request # "direct" THEN heard
              ELSE IF cursor = N + 1 THEN "report" ELSE "failure"

CallingThread ==
  \/ (Collect \/ TimeOut \/ Abandon \/ LeavePool) /\ UNCHANGED heard
  \/ request = "direct" /\ Interrupt /\ UNCHANGED heard
  \/ ReturnWork

\* The pool hands out its threads, and the route its reply, at once.
WorkTime ==
  /\ main \notin {"abandoning", "finally"}
  /\ \A i \in Specs : thread[i] = "queued" =>
       Cardinality(Running) >= MaxConcurrency
  /\ request = "serving" => main # "returned" /\ clock < harakiri
  /\ Tick
  /\ clock' = IF request = "serving" THEN clock + 1 ELSE clock

-----------------------------------------------------------------------------
(* The request of the proxy's client *)

Accept ==
  /\ request = "posted"
  /\ request' \in {"serving", "denied"}
  /\ harakiri' \in Harakiris
  /\ UNCHANGED <<alive, heard>>

Reply ==
  /\ alive /\ request = "serving" /\ main = "returned"
  /\ request' = "replied"
  /\ UNCHANGED <<alive, heard>>

\* uWSGI kills the process of a request that has used up its budget.
Harakiri ==
  /\ alive /\ request = "serving" /\ clock = harakiri
  /\ request' = "killed"
  /\ alive' = FALSE
  /\ UNCHANGED heard

\* uWSGI recycles a process after a request (reload-on-rss, max-requests).
Recycle ==
  /\ alive /\ request = "replied"
  /\ alive' = FALSE
  /\ UNCHANGED <<request, heard>>

Hear ==
  /\ request = "replied" /\ heard = "nothing"
  /\ heard' = "report"
  /\ UNCHANGED <<request, alive>>

\* Mutant: a reply that is no reply counts as one without failures.
HearNothingEmpty ==
  /\ request # "direct" /\ heard = "nothing"
  /\ heard' = "report"
  /\ UNCHANGED <<request, alive>>

\* _post raises: refused, 401, 5xx, late, lost or not JSON.  Every host of
\* the batch is given a failure.
HearNothing ==
  /\ request # "direct" /\ heard = "nothing"
  /\ heard' = "failure"
  /\ UNCHANGED <<request, alive>>

WorkNext ==
  \/ /\ Up
     /\ \/ \E i \in Specs : WorkStep(i) /\ UNCHANGED <<clock, heard>>
        \/ CallingThread /\ UNCHANGED <<clock, itemVars>>
        \/ WorkTime /\ UNCHANGED <<heard, itemVars>>
     /\ UNCHANGED <<kind, request, harakiri, alive>>
  \/ /\ \/ Accept
        \/ (Reply \/ Harakiri \/ Recycle \/ Hear \/ HearNothing)
             /\ UNCHANGED harakiri
     /\ UNCHANGED <<engineVars, kind, clock, itemVars>>

WorkSpec == WorkInit /\ [][WorkNext]_workVars

-----------------------------------------------------------------------------
(* Properties *)

\* A report that is taken has every item of its spec exactly once, given up
\* after a lost CWD or not; and what it has as listed, stored or made was, in
\* the login directory and by an answer to the command that asked for it.
ResultGenuine ==
  /\ \A i \in Specs : verdict[i] = "result" =>
       good[i] \cup bad[i] = 1..total[i] /\ good[i] \cap bad[i] = {}
  /\ kind # "size" => \A i \in Specs : good[i] \subseteq done[i]

\* A FileSize is the size of the file it names (size_dirs, 725-740).
SizeGenuine == \A i \in Specs : good[i] \subseteq done[i]

\* Once the caller has been given something, only a host that it was told has
\* failed is still worked on: alone, or with its batch or an interrupted call.
LateOnlyIfFailed ==
  [][\A i \in Specs : heard # "nothing" /\ done'[i] # done[i] =>
       heard = "failure" \/ verdict[i] = "timeout"]_workVars

\* "the downloader's own backstop fires before uWSGI kills the request"
\* (_downloader_from, flask_proxy.py): with a thread for every host of the
\* batch and a budget above host_timeout, harakiri never strikes.
BackstopFirst ==
  N <= MaxConcurrency /\ harakiri > HostTimeout => request # "killed"
=============================================================================
