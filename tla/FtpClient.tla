------------------------------ MODULE FtpClient ------------------------------
(* The single-server FTP client (core/client.py), used directly or through  *)
(* its twin over HTTP (proxy/proxy_client.py and the single-server routes   *)
(* of proxy/flask_proxy.py).  A caller makes one call after another.  A     *)
(* call is a sequence of FTP commands; the server answers each of them,     *)
(* refuses it, or the connection breaks before or after it had its effect.  *)
(* Through the proxy, the request or its answer may be lost as well, and    *)
(* the call goes on although its caller has given it up.                    *)
EXTENDS Naturals

CONSTANTS
  Calls,   \* the calls made, one after another
  Depth,   \* levels of the path mkdir is called with
  Absent, Old, Half   \* what may be at the path besides a call's own data

ASSUME ClientAssumption ==
  /\ Depth \in Nat \ {0}
  /\ Absent \notin Calls /\ Old \notin Calls /\ Half \notin Calls
  /\ Absent # Old /\ Absent # Half /\ Old # Half

VARIABLES
  via,      \* "direct" or "proxy": which of the two clients is imported
  op,       \* op[c]: the operation, "none" before the call
  pc,       \* pc[c]: the command it sends next
  sess,     \* sess[c]: its control connection
  left,     \* left[c]: levels mkdir has still to make
  target,   \* what is at the path
  temp,     \* temp[c]: its .part file, "none", "part" or "whole"
  named,    \* named[c]: the exception carries temp_path
  err,      \* err[c]: what it returned or raised
  told,     \* told[c]: what its caller saw
  landed, gone   \* history: its data was at the path, its DELE removed it

caller == <<via, op>>
file == <<target, landed, gone>>
clientVars == <<via, op, pc, sess, left, target, temp, named, err, told,
                landed, gone>>

\* overwrite is put(overwrite=True); read is download and list_details.
Ops == {"upload", "put", "overwrite", "replace", "remove", "mkdir", "read"}
Outcomes == {"ok", "exists", "failed", "garbled", "uncertain"}
Steps == {"idle", "login", "check", "stor", "storing", "recheck", "size",
          "dele", "rnto", "rntoOnly", "drop", "mkd", "pwd", "cwd", "back",
          "read", "reading", "done"}

\* A connection: at the login directory, in another one, inside a data
\* transfer, broken, or discarded.
Sessions == {"home", "away", "mid", "broken", "closed"}
Contents == {Absent, Old, Half} \cup Calls

TypeOK ==
  /\ via \in {"direct", "proxy"}
  /\ op \in [Calls -> Ops \cup {"none"}]
  /\ pc \in [Calls -> Steps]
  /\ sess \in [Calls -> Sessions]
  /\ left \in [Calls -> 0..Depth]
  /\ target \in Contents
  /\ temp \in [Calls -> {"none", "part", "whole"}]
  /\ named \in [Calls -> BOOLEAN]
  /\ err \in [Calls -> Outcomes \cup {"none"}]
  /\ told \in [Calls -> Outcomes \cup {"none", "proxyerror"}]
  /\ landed \in [Calls -> BOOLEAN]
  /\ gone \in [Calls -> BOOLEAN]

Init ==
  /\ via \in {"direct", "proxy"}
  /\ op = [c \in Calls |-> "none"]
  /\ pc = [c \in Calls |-> "idle"]
  /\ sess = [c \in Calls |-> "closed"]
  /\ left = [c \in Calls |-> 0]
  /\ target \in {Absent, Old}
  /\ temp = [c \in Calls |-> "none"]
  /\ named = [c \in Calls |-> FALSE]
  /\ err = [c \in Calls |-> "none"]
  /\ told = [c \in Calls |-> "none"]
  /\ landed = [c \in Calls |-> FALSE]
  /\ gone = [c \in Calls |-> FALSE]

-----------------------------------------------------------------------------
(* How a command ends.  A refusal is an FTP reply and had no effect.  After *)
(* an OSError or EOFError, and after a reply that cannot be read, the       *)
(* command may have run.  On a broken connection every command is lost.     *)

Ends(c) == IF sess[c] = "broken" THEN {"lost"}
           ELSE {"ok", "refused", "lost", "garbled"}
Ran(r) == CASE r = "ok" -> {TRUE} [] r = "refused" -> {FALSE}
            [] OTHER -> BOOLEAN

\* The connection after a command that ended with r.
After(c, r) == IF r = "lost" THEN "broken" ELSE sess[c]

Error(r) == IF r = "garbled" THEN "garbled" ELSE "failed"

GoOn(c, p, s) ==
  /\ pc' = [pc EXCEPT ![c] = p]
  /\ sess' = [sess EXCEPT ![c] = s]
  /\ UNCHANGED <<named, err, told>>

\* The call returns or raises o.  On the proxy the connection is closed in
\* the finally clause, and the answer has still to reach the caller.
Finish(c, o, s, n) ==
  /\ pc' = [pc EXCEPT ![c] = "done"]
  /\ sess' = [sess EXCEPT ![c] = IF via = "proxy" THEN "closed" ELSE s]
  /\ err' = [err EXCEPT ![c] = o]
  /\ named' = [named EXCEPT ![c] = n]
  /\ told' = IF via = "direct" THEN [told EXCEPT ![c] = o] ELSE told

\* An exception is on its way through _drop_temp.
Unwind(c, o, s) ==
  /\ pc' = [pc EXCEPT ![c] = "drop"]
  /\ sess' = [sess EXCEPT ![c] = s]
  /\ err' = [err EXCEPT ![c] = o]
  /\ UNCHANGED <<named, told>>

-----------------------------------------------------------------------------
(* The caller, and the proxy between it and the client *)

CallerFree == \A c \in Calls : op[c] = "none" \/ told[c] # "none"

Call(c) ==
  /\ pc[c] = "idle" /\ CallerFree
  /\ \E o \in Ops : op' = [op EXCEPT ![c] = o]
  /\ pc' = [pc EXCEPT ![c] = "login"]
  /\ UNCHANGED <<via, sess, left, target, temp, named, err, told, landed, gone>>

FirstStep(o) ==
  CASE o \in {"upload", "overwrite", "replace"} -> {"stor"}
    [] o = "put" -> {"check"}
    [] o = "remove" -> {"dele"}
    [] o = "read" -> {"read"}
    [] o = "mkdir" -> {"mkd", "pwd"}

\* Connect and log in: __enter__, where a failure closes the socket.  mkdir
\* has the levels below its floor to make, or only the floor to check.
Login(c) ==
  /\ pc[c] = "login"
  /\ \/ \E p \in FirstStep(op[c]) :
          /\ GoOn(c, p, "home")
          /\ \E n \in 0..Depth :
               /\ n = 0 <=> p # "mkd"
               /\ left' = [left EXCEPT ![c] = n]
     \/ Finish(c, "failed", "closed", FALSE) /\ UNCHANGED left
  /\ UNCHANGED <<caller, file, temp>>

\* The answer of the proxy reaches the caller, as the exception it stands for.
Answer(c) ==
  /\ via = "proxy" /\ pc[c] = "done" /\ err[c] # "none" /\ told[c] = "none"
  /\ told' = [told EXCEPT ![c] = err[c]]
  /\ UNCHANGED <<caller, pc, sess, left, temp, named, err, file>>

\* The request is not accepted, its answer is late, lost or not understood.
GiveUp(c) ==
  /\ via = "proxy" /\ pc[c] # "idle" /\ told[c] = "none"
  /\ told' = [told EXCEPT ![c] = "proxyerror"]
  /\ UNCHANGED <<caller, pc, sess, left, temp, named, err, file>>

\* The worker process of the proxy is killed with the request it serves.
WorkerDies(c) ==
  /\ via = "proxy" /\ pc[c] \notin {"idle", "done"}
  /\ pc' = [pc EXCEPT ![c] = "done"]
  /\ sess' = [sess EXCEPT ![c] = "closed"]
  /\ err' = [err EXCEPT ![c] = "none"]
  /\ UNCHANGED <<caller, left, temp, named, told, file>>

-----------------------------------------------------------------------------
(* Storing a file *)

\* _exists: SIZE tells a file from no file (550).  Three places call it:
\* put before its STOR and before its rename, overwrite before its DELE.
Exists(c) ==
  /\ pc[c] \in {"check", "recheck", "size"}
  /\ \E r \in Ends(c) :
       LET present == r = "ok" /\ target # Absent
           absent == r = "ok" /\ target = Absent
       IN \/ /\ absent
             /\ GoOn(c, IF pc[c] = "check" THEN "stor" ELSE "rnto", sess[c])
          \/ present /\ pc[c] = "size" /\ GoOn(c, "dele", sess[c])
          \/ present /\ pc[c] = "check" /\ Finish(c, "exists", sess[c], FALSE)
          \/ present /\ pc[c] = "recheck" /\ Unwind(c, "exists", sess[c])
          \/ /\ r # "ok" /\ pc[c] = "check"
             /\ Finish(c, Error(r), After(c, r), FALSE)
          \/ /\ r # "ok" /\ pc[c] = "recheck"
             /\ Unwind(c, Error(r), After(c, r))
          \/ /\ r = "lost" /\ pc[c] = "size"
             /\ Finish(c, "uncertain", "closed", TRUE)
          \/ /\ r \in {"refused", "garbled"} /\ pc[c] = "size"
             /\ Unwind(c, Error(r), sess[c])
  /\ UNCHANGED <<caller, left, temp, file>>

\* STOR is accepted: to a temporary name, or by upload in place.
Stor(c) ==
  /\ pc[c] = "stor"
  /\ \/ /\ GoOn(c, "storing", "mid")
        /\ IF op[c] = "upload"
           THEN target' = Half /\ UNCHANGED temp
           ELSE temp' = [temp EXCEPT ![c] = "part"] /\ UNCHANGED target
     \/ /\ \E r \in Ends(c) \ {"ok"} :
             IF op[c] = "upload" THEN Finish(c, Error(r), After(c, r), FALSE)
             ELSE Unwind(c, Error(r), After(c, r))
        /\ UNCHANGED <<target, temp>>
  /\ UNCHANGED <<caller, left, landed, gone>>

\* The whole file has arrived.
Stored(c, yes) ==
  IF op[c] = "upload"
  THEN /\ target' = IF yes THEN c ELSE target
       /\ landed' = [landed EXCEPT ![c] = yes]
       /\ UNCHANGED <<temp, gone>>
  ELSE /\ temp' = [temp EXCEPT ![c] = IF yes THEN "whole" ELSE @]
       /\ UNCHANGED file

AfterStor(o) ==
  CASE o = "put" -> "recheck" [] o = "overwrite" -> "size" [] OTHER -> "rnto"

\* The transfer ends: complete, refused on the way, or with the connection.
StorEnds(c) ==
  /\ pc[c] = "storing"
  /\ \E r \in {"ok", "refused", "lost", "garbled"} : \E yes \in Ran(r) :
       /\ Stored(c, yes)
       /\ LET s == IF r = "lost" THEN "broken" ELSE "home"
              o == IF r = "ok" THEN "ok" ELSE Error(r)
          IN IF op[c] = "upload" THEN Finish(c, o, s, FALSE)
             ELSE IF r = "ok" THEN GoOn(c, AfterStor(op[c]), s)
             ELSE Unwind(c, o, s)
  /\ UNCHANGED <<caller, left>>

\* The deadline trips in a block's callback: the connection is discarded.
\* Only put and replace have one.  All blocks may have been sent.
StorTimesOut(c) ==
  /\ pc[c] = "storing" /\ op[c] # "upload"
  /\ \E yes \in BOOLEAN : Stored(c, yes)
  /\ Unwind(c, "failed", "closed")
  /\ UNCHANGED <<caller, left>>

\* DELE of the target, by remove and by put with overwrite.
Dele(c) ==
  /\ pc[c] = "dele"
  /\ \E r \in Ends(c) : \E yes \in Ran(r) :
       /\ target' = IF yes THEN Absent ELSE target
       /\ gone' = [gone EXCEPT ![c] = yes /\ op[c] = "overwrite"]
       /\ \/ op[c] = "remove" /\ Finish(c, IF r = "ok" THEN "ok" ELSE Error(r),
                                        After(c, r), FALSE)
          \/ op[c] # "remove" /\ r = "ok" /\ GoOn(c, "rntoOnly", sess[c])
          \/ op[c] # "remove" /\ r = "refused" /\ Unwind(c, "failed", sess[c])
          \/ /\ op[c] # "remove" /\ r \in {"lost", "garbled"}
             /\ Finish(c, "uncertain", "closed", TRUE)
  /\ UNCHANGED <<caller, left, temp, landed>>

\* Mutants: a lost connection is taken for a refusal; a refusal after the
\* call's own DELE drops the temporary file like any other.
RenamedSurely(c, r) ==
  IF r = "ok" THEN Finish(c, "ok", sess[c], FALSE)
  ELSE Unwind(c, Error(r), After(c, r))

RenamedDropping(c, r) ==
  IF r = "ok" THEN Finish(c, "ok", sess[c], FALSE)
  ELSE IF r = "lost" THEN Finish(c, "uncertain", "closed", TRUE)
  ELSE Unwind(c, Error(r), sess[c])

\* After its own DELE the temporary file is the only copy.
Renamed(c, r) ==
  \/ r = "ok" /\ Finish(c, "ok", sess[c], FALSE)
  \/ r = "lost" /\ Finish(c, "uncertain", "closed", TRUE)
  \/ /\ r \in {"refused", "garbled"}
     /\ IF pc[c] = "rntoOnly" THEN Finish(c, Error(r), sess[c], TRUE)
        ELSE Unwind(c, Error(r), sess[c])

\* RNFR and RNTO.
Rename(c) ==
  /\ pc[c] \in {"rnto", "rntoOnly"}
  /\ \E r \in Ends(c) : \E yes \in Ran(r) :
       /\ target' = IF yes THEN c ELSE target
       /\ temp' = [temp EXCEPT ![c] = IF yes THEN "none" ELSE @]
       /\ landed' = [landed EXCEPT ![c] = yes]
       /\ Renamed(c, r)
  /\ UNCHANGED <<caller, left, gone>>

Names(r) == r # "ok"

\* _drop_temp: the call's own temporary file goes, or is named.
DropTemp(c) ==
  /\ pc[c] = "drop"
  /\ \E r \in IF sess[c] = "closed" THEN {"refused"} ELSE Ends(c) :
       \E yes \in Ran(r) :
         /\ r = "ok" => temp[c] # "none"
         /\ temp' = [temp EXCEPT ![c] = IF yes THEN "none" ELSE @]
         /\ Finish(c, err[c], After(c, r), Names(r))
  /\ UNCHANGED <<caller, left, file>>

-----------------------------------------------------------------------------
(* mkdir, level by level, and reads *)

\* Mutant: one level too many is made.
MkdOneMore(c) ==
  /\ pc[c] = "mkd" /\ "ok" \in Ends(c)
  /\ GoOn(c, "mkd", sess[c])
  /\ left' = [left EXCEPT ![c] = @ - 1]
  /\ UNCHANGED <<caller, temp, file>>

\* An error_perm may mean that the level exists; any other failure is raised.
Mkd(c) ==
  /\ pc[c] = "mkd"
  /\ \/ /\ left[c] > 1 /\ "ok" \in Ends(c)
        /\ GoOn(c, "mkd", sess[c])
        /\ left' = [left EXCEPT ![c] = @ - 1]
     \/ /\ left[c] = 1 /\ "ok" \in Ends(c)
        /\ Finish(c, "ok", sess[c], FALSE)
        /\ UNCHANGED left
     \/ "refused" \in Ends(c) /\ GoOn(c, "pwd", sess[c]) /\ UNCHANGED left
     \/ /\ \E r \in Ends(c) \ {"ok"} : Finish(c, Error(r), After(c, r), FALSE)
        /\ UNCHANGED left
  /\ UNCHANGED <<caller, temp, file>>

\* _is_dir asks where the session is; without an answer it does not move.
Pwd(c) ==
  /\ pc[c] = "pwd"
  /\ \/ "ok" \in Ends(c) /\ GoOn(c, "cwd", sess[c])
     \/ \E r \in Ends(c) : Finish(c, Error(r), After(c, r), FALSE)
  /\ UNCHANGED <<caller, left, temp, file>>

\* Only a clean refusal proves that the session did not move.
Cwd(c) ==
  /\ pc[c] = "cwd"
  /\ \/ "ok" \in Ends(c) /\ GoOn(c, "back", "away")
     \/ "refused" \in Ends(c) /\ Finish(c, "failed", sess[c], FALSE)
     \/ \E r \in Ends(c) \ {"ok"} : Finish(c, Error(r), "closed", FALSE)
  /\ UNCHANGED <<caller, left, temp, file>>

Back(c) ==
  /\ pc[c] = "back"
  /\ \/ /\ left[c] > 1 /\ GoOn(c, "mkd", "home")
        /\ left' = [left EXCEPT ![c] = @ - 1]
     \/ left[c] <= 1 /\ Finish(c, "ok", "home", FALSE) /\ UNCHANGED left
     \/ \E r \in Ends(c) \ {"ok"} :
          Finish(c, Error(r), "closed", FALSE) /\ UNCHANGED left
  /\ UNCHANGED <<caller, temp, file>>

\* RETR and LIST check their caps and the deadline while data arrives.
Read(c) ==
  /\ pc[c] = "read"
  /\ \/ GoOn(c, "reading", "mid")
     \/ \E r \in Ends(c) \ {"ok"} : Finish(c, Error(r), After(c, r), FALSE)
  /\ UNCHANGED <<caller, left, temp, file>>

\* A listing line that cannot be decoded ends it inside the transfer.
ReadEnds(c) ==
  /\ pc[c] = "reading"
  /\ \/ Finish(c, "ok", "home", FALSE)
     \/ Finish(c, "failed", "home", FALSE)
     \/ Finish(c, "failed", "broken", FALSE)
     \/ \E s \in {"home", "mid"} : Finish(c, "garbled", s, FALSE)
  /\ UNCHANGED <<caller, left, temp, file>>

\* Mutant: the connection is kept inside the transfer.
ReadTripsOpen(c) ==
  /\ pc[c] = "reading"
  /\ Finish(c, "failed", "mid", FALSE)
  /\ UNCHANGED <<caller, left, temp, file>>

\* A cap or the deadline trips.
ReadTrips(c) ==
  /\ pc[c] = "reading"
  /\ Finish(c, "failed", "closed", FALSE)
  /\ UNCHANGED <<caller, left, temp, file>>

Next == \E c \in Calls :
  \/ Call(c) \/ Login(c) \/ Answer(c) \/ GiveUp(c) \/ WorkerDies(c)
  \/ Exists(c) \/ Stor(c) \/ StorEnds(c) \/ StorTimesOut(c)
  \/ Dele(c) \/ Rename(c) \/ DropTemp(c)
  \/ Mkd(c) \/ Pwd(c) \/ Cwd(c) \/ Back(c)
  \/ Read(c) \/ ReadEnds(c) \/ ReadTrips(c)

Spec == Init /\ [][Next]_clientVars

-----------------------------------------------------------------------------
(* Properties *)

\* put and replace never leave half a file or another's leftover at the path,
\* an outcome is never followed by an effect and never misstates one: the
\* client implements FilePromise (docstrings of put and replace, 443-543).
Promise == INSTANCE FilePromise WITH
  via <- via, op <- op, target <- target, landed <- landed, told <- told
PromiseKept == Promise!PromiseSpec

\* A call that is over left no temporary file behind, or has named it, unless
\* its answer never came (_drop_temp, 568-575; temp_path in proxy_client.py);
\* and once put(overwrite=True) has deleted the old file, the new one is at the
\* path or still whole under its temporary name, whatever fails (469-472).
CopiesAccounted == \A c \in Calls :
  /\ told[c] \in Outcomes /\ temp[c] # "none" => named[c]
  /\ gone[c] => landed[c] \/ temp[c] = "whole"

\* A connection that a call leaves open is in the login directory and in step
\* with the server, unless a listing could not be decoded (_is_dir, 629-651,
\* and the discards of download, list_details, put and replace).
SessionUsable == \A c \in Calls : pc[c] = "done" =>
  \/ sess[c] \in {"home", "broken", "closed"}
  \/ op[c] = "read" /\ err[c] = "garbled"
=============================================================================
