----------------------------- MODULE MCFtpCalls -----------------------------
(* Small instances of the two ways to call an FTP server, each of them made *)
(* directly or over HTTP: two calls of the single-server client (FtpClient) *)
(* or one fleet call of two hosts with up to two items (FleetWork).  They   *)
(* share nothing, so a behaviour is of one or of the other.                 *)
EXTENDS FtpClient, FleetWork

VARIABLE part   \* "client" or "fleet"

MCInit ==
  /\ part \in {"client", "fleet"}
  /\ Init /\ (part = "fleet" => via = "direct" /\ target = Absent)
  /\ WorkInit /\ (part = "client" => kind = "list" /\ request = "direct")

MCNext ==
  \/ part = "client" /\ Next /\ UNCHANGED <<part, workVars>>
  \/ part = "fleet" /\ WorkNext /\ UNCHANGED <<part, clientVars>>

MCSpec == MCInit /\ [][MCNext]_<<part, clientVars, workVars>>
=============================================================================
