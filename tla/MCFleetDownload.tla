--------------------------- MODULE MCFleetDownload ---------------------------
(* Three specs on two pool threads, in either mode, under fairness: one      *)
(* spec queues behind hosts that may be abandoned while they still hold      *)
(* their thread.  The first has up to two files, the others up to one.       *)
EXTENDS FleetDownload

Uneven == \A i \in Specs \ {1} : left[i] <= 1

MCSpec == Init /\ [][Next /\ Uneven']_vars /\ Fairness
=============================================================================
