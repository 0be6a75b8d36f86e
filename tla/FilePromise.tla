----------------------------- MODULE FilePromise -----------------------------
(* What a caller of the single-server client may rely on, for one target   *)
(* path: when a call may still change the file, and what its outcome says  *)
(* of the file.  FtpClient is shown to implement this specification.       *)
EXTENDS Naturals

CONSTANTS Calls, Absent, Old, Half

VARIABLES
  via,      \* "direct" or "proxy"
  op,       \* op[c]: the operation of call c, "none" before it is made
  target,   \* what is at the path: Absent, Old, Half a file, or a call's data
  landed,   \* landed[c]: the data of c has been at the path
  told      \* told[c]: the outcome its caller saw

promiseVars == <<via, op, target, landed, told>>

\* upload overwrites in place; the others go through a temporary name.
Guarded == {"put", "overwrite", "replace"}
Stores == Guarded \cup {"upload"}
Kinds == Stores \cup {"remove", "mkdir", "read"}
Outcomes == {"ok", "exists", "failed", "garbled", "uncertain", "proxyerror"}

PromiseInit ==
  /\ via \in {"direct", "proxy"}
  /\ op = [c \in Calls |-> "none"]
  /\ target \in {Absent, Old}
  /\ landed = [c \in Calls |-> FALSE]
  /\ told = [c \in Calls |-> "none"]

\* Once a call has an outcome it is over, except that a request whose answer
\* never came may still be running on the proxy.
Unsettled(c) == op[c] # "none" /\ told[c] \in {"none", "proxyerror"}

Start(c) ==
  /\ op[c] = "none"
  /\ \E o \in Kinds : op' = [op EXCEPT ![c] = o]
  /\ UNCHANGED <<via, target, landed, told>>

\* put replaces a file only if its caller had given it, or an earlier call, up
\* without an answer.
Overtaken == \E d \in Calls : told[d] = "proxyerror"

Land(c) ==
  /\ op[c] \in Stores /\ ~landed[c]
  /\ op[c] = "put" => target = Absent \/ Overtaken
  /\ target' = c
  /\ landed' = [landed EXCEPT ![c] = TRUE]

Vanish(c) ==
  /\ op[c] \in {"overwrite", "remove"} /\ ~landed[c]
  /\ target' = Absent
  /\ UNCHANGED landed

Spoil(c) ==
  /\ op[c] = "upload" /\ ~landed[c]
  /\ target' = Half
  /\ UNCHANGED landed

Honest(c, o) ==
  /\ o = "ok" /\ op[c] \in Stores => landed'[c]
  /\ o \in {"exists", "failed"} /\ op[c] \in Guarded => ~landed'[c]
  /\ o = "proxyerror" => via = "proxy"

Report(c) ==
  /\ told[c] = "none"
  /\ \E o \in Outcomes : Honest(c, o) /\ told' = [told EXCEPT ![c] = o]

\* A step of a call: an effect on the file, an outcome, or both.
Proceed(c) ==
  /\ Unsettled(c)
  /\ Land(c) \/ Vanish(c) \/ Spoil(c) \/ UNCHANGED <<target, landed>>
  /\ Report(c) \/ UNCHANGED told
  /\ UNCHANGED <<via, op>>

PromiseNext == \E c \in Calls : Start(c) \/ Proceed(c)

PromiseSpec == PromiseInit /\ [][PromiseNext]_promiseVars
=============================================================================
