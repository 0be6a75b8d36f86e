---------------------------- MODULE CollectFiles ----------------------------
(* What becomes of the files that the fleet downloader hands to on_file:    *)
(* collect_fleet and the DAG around it, save_to_dir,                        *)
(* save_image_with_sidecar, put_pickle/parquet/bytes_to_minio, each with    *)
(* records indexed after the file.  A run takes every file of the fleet     *)
(* once, the hosts side by side, and may be killed; the next one takes what *)
(* the tools have written since.  That the download calls on_file for       *)
(* nobody it has given up on is FleetDownload's.                            *)
EXTENDS Naturals, Sequences, FiniteSets

CONSTANTS
  Hosts,      \* the tools
  Images,     \* names of images; each has a sidecar, .<image>/cond.txt
  FleetSize,  \* bound on the files of a fleet
  LastWrite   \* bound on what the tools write

ASSUME CollectAssumption ==
  /\ FleetSize \in Nat /\ LastWrite \in Nat \ {0}
  /\ "cond" \notin Images   \* no image is called cond.txt

Files == [host : Hosts, image : Images, part : {"image", "cond"}]

VARIABLES
  sink,      \* which on_file
  fleet,     \* the files to collect
  written,   \* counts what the tools have written
  stock,     \* stored content, by key: of which file and how new
  indexed,   \* indexed[f]: the newest content of f that has records, 0 for none
  carried,   \* carried[h]: the file that host h's worker is at
  awaited,   \* files of the fleet that this run has not come to
  outcome    \* outcome[f]: content last handled, and whether it counts as ok

collectVars == <<sink, fleet, written, stock, indexed, carried, awaited, outcome>>

-----------------------------------------------------------------------------
(* The sinks *)

Disks == {"save_to_dir", "keep_last", "sidecar"}
Sinks == Disks \cup {"collect_fleet", "put_to_minio"}

\* Mutant: records before their source.
StepsIndexFirst == <<"parse", "index", "store">>

Steps ==
  CASE sink = "collect_fleet" -> <<"store", "parse", "index">>
    [] sink = "put_to_minio" -> <<"parse", "store", "index">>
    [] sink \in Disks -> <<"store", "index">>

\* Object keys and local paths.  A path is <image> or .<image>/cond.txt;
\* keep_last=1 leaves its last component under the host, the sidecar layout
\* all of it but no host.
Key(f) ==
  CASE sink = "sidecar" -> <<f.image, f.part>>
    [] sink = "keep_last" -> IF f.part = "cond" THEN <<f.host, "cond">> ELSE <<f.host, f.image>>
    [] OTHER -> <<f.host, f.image, f.part>>

\* What the layouts ask of a fleet: the sidecar one that no image name is on
\* two hosts, keep_last=1 that no file name is twice on a host.
Unambiguous ==
  \A f, g \in fleet : f # g =>
    /\ sink = "sidecar" => f.image # g.image \/ f.host = g.host
    /\ sink = "keep_last" => f.host # g.host \/ f.part = "image" \/ g.part = "image"

Nothing == [of |-> [host |-> "none", image |-> "none", part |-> "none"], content |-> 0]
Idle == [left |-> <<"idle">>]

CollectInit ==
  /\ sink \in Sinks
  /\ fleet \in {s \in SUBSET Files : Cardinality(s) <= FleetSize}
  /\ written = 1
  /\ stock = [k \in {Key(f) : f \in fleet} |-> Nothing]
  /\ indexed = [f \in fleet |-> 0]
  /\ carried = [h \in Hosts |-> Idle]
  /\ awaited = {}
  /\ outcome = [f \in fleet |-> [ok |-> FALSE, content |-> 0]]

-----------------------------------------------------------------------------
(* A run *)

Running == awaited # {} \/ \E h \in Hosts : carried[h] # Idle

StartRun ==
  /\ ~Running /\ awaited' = fleet
  /\ UNCHANGED <<sink, fleet, written, stock, indexed, carried, outcome>>

ToolWrites ==
  /\ written < LastWrite /\ written' = written + 1
  /\ UNCHANGED <<sink, fleet, stock, indexed, carried, awaited, outcome>>

Fetch(h) == \E f \in awaited :
  /\ f.host = h /\ carried[h] = Idle
  /\ awaited' = awaited \ {f}
  /\ \/ /\ carried' = [carried EXCEPT ![h] = [of |-> f, content |-> written, left |-> Steps]]
        /\ outcome' = [outcome EXCEPT ![f] = [ok |-> FALSE, content |-> written]]
     \/ UNCHANGED <<carried, outcome>>   \* RETR fails, or the host is given up
  /\ UNCHANGED <<sink, fleet, written, stock, indexed>>

AtStep(h, step) == carried[h].left # <<>> /\ carried[h].left[1] = step
Onwards(h) == carried' = [carried EXCEPT ![h].left = Tail(@)]
Drop(h) == carried' = [carried EXCEPT ![h] = Idle]

Holds(h, content) ==
  stock' = [stock EXCEPT ![Key(carried[h].of)] = [of |-> carried[h].of, content |-> content]]

Stores(h) ==
  /\ AtStep(h, "store") /\ Holds(h, carried[h].content) /\ Onwards(h)
  /\ UNCHANGED <<sink, fleet, written, indexed, awaited, outcome>>

\* An object is stored whole or not, though its reply may be lost; write_bytes
\* has emptied the file before it fails.
StoreRaises(h) ==
  /\ AtStep(h, "store") /\ Drop(h)
  /\ \/ UNCHANGED stock
     \/ sink \notin Disks /\ Holds(h, carried[h].content)
     \/ sink \in Disks /\ Holds(h, 0)
  /\ UNCHANGED <<sink, fleet, written, indexed, awaited, outcome>>

Parses(h) ==
  /\ AtStep(h, "parse") /\ (Onwards(h) \/ Drop(h))
  /\ UNCHANGED <<sink, fleet, written, stock, indexed, awaited, outcome>>

Indexes(h) == indexed' =
  [indexed EXCEPT ![carried[h].of] = IF @ > carried[h].content THEN @ ELSE carried[h].content]

\* There may be no records, and items that are refused raise nothing.
IndexStep(h) ==
  /\ AtStep(h, "index") /\ (Indexes(h) \/ UNCHANGED indexed)
  /\ Onwards(h) \/ Drop(h)
  /\ UNCHANGED <<sink, fleet, written, stock, awaited, outcome>>

CountsOk(h) ==
  /\ carried[h].left = <<>> /\ Drop(h)
  /\ outcome' = [outcome EXCEPT ![carried[h].of].ok = TRUE]
  /\ UNCHANGED <<sink, fleet, written, stock, indexed, awaited>>

\* dagrun_timeout, or the worker dies; some of the writes to disk are torn.
Killed ==
  /\ Running
  /\ awaited' = {} /\ carried' = [h \in Hosts |-> Idle]
  /\ \/ UNCHANGED stock
     \/ \E h \in Hosts : sink \in Disks /\ AtStep(h, "store") /\ Holds(h, 0)
  /\ UNCHANGED <<sink, fleet, written, indexed, outcome>>

CollectNext ==
  \/ StartRun \/ ToolWrites \/ Killed
  \/ \E h \in Hosts : Fetch(h) \/ Stores(h) \/ StoreRaises(h) \/ Parses(h)
                      \/ IndexStep(h) \/ CountsOk(h)

CollectSpec == CollectInit /\ [][CollectNext]_collectVars

-----------------------------------------------------------------------------
\* Through failures, killed runs and newer content, in a fleet that is
\* unambiguous for the layout: whatever has records in the index has its
\* source in the object store, as new as the records or newer; and what a run
\* counts as ok is stored whole, under a key that no other file has taken.
SourceStored ==
  Unambiguous => \A f \in fleet :
    /\ sink \notin Disks /\ indexed[f] # 0 =>
         stock[Key(f)].of = f /\ stock[Key(f)].content >= indexed[f]
    /\ outcome[f].ok => stock[Key(f)] = [of |-> f, content |-> outcome[f].content]
=============================================================================
