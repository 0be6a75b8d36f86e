--------------------------- MODULE MCItemCheckQueue ---------------------------
(* Small generations of ItemCheckQueue: two items, two chunk tasks.        *)
EXTENDS ItemCheckQueue
=============================================================================
