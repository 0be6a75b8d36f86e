------------------------------ MODULE Reindex -------------------------------
(* es_to_os_reindex.py: documents streamed from an Elasticsearch index into *)
(* an OpenSearch index, or through a rollover alias into its write index    *)
(* (README.md of ops_index_mgmt: "its template + write alias"), in chunks,  *)
(* under the ids they have; and run again after it has failed, or for what  *)
(* has changed.  The scroll reads the source as it was when it was opened,  *)
(* and a scroll or a bulk request that fails raises.  Both clusters are     *)
(* external.                                                                *)
EXTENDS Naturals, FiniteSets

CONSTANTS
  Docs,        \* ids in the source
  ChunkSize,   \* bulk_chunk
  Edits,       \* bound on what is written to the source
  LastHead     \* bound on the rollovers of the destination

ASSUME ReindexAssumption ==
  /\ IsFiniteSet(Docs) /\ ChunkSize \in Nat \ {0}
  /\ Edits \in Nat \ {0} /\ LastHead \in Nat \ {0}

VARIABLES
  source,     \* source[d]: the edit it was written by, 0 before it exists
  edits,      \* counts them
  destHead,   \* the write index of the destination
  copies,     \* copies[k][d]: the edit that index k holds of d, 0 for none
  scan,       \* the documents as the scroll has them
  unread,     \* ids it has not yielded
  failed,     \* ids of items refused
  accepted,   \* ids of items accepted
  copying     \* of the run: "idle", "copying", "reported" or "raised"

reindexVars ==
  <<source, edits, destHead, copies, scan, unread, failed, accepted, copying>>

ReindexInit ==
  /\ source \in [Docs -> {0, 1}] /\ edits = 1
  /\ destHead = 1
  /\ copies = [k \in 1..LastHead |-> [d \in Docs |-> 0]]
  /\ scan = [d \in Docs |-> 0]
  /\ unread = {} /\ failed = {} /\ accepted = {}
  /\ copying = "idle"

Scanned == {d \in Docs : scan[d] # 0}

\* count, and the scroll is opened.
Open ==
  /\ copying # "copying" /\ copying' = "copying"
  /\ scan' = source
  /\ unread' = {d \in Docs : source[d] # 0}
  /\ failed' = {} /\ accepted' = {}
  /\ UNCHANGED <<source, edits, destHead, copies>>

Chunks == {c \in SUBSET unread :
  Cardinality(c) = ChunkSize \/ (c = unread /\ c # {} /\ Cardinality(c) < ChunkSize)}

Hold(c) == copies' =
  [copies EXCEPT ![destHead] = [d \in Docs |-> IF d \in c THEN scan[d] ELSE @[d]]]

\* Mutant: the chunk with a refused item is dropped, the item alone counted.
AcceptsDropped(c, refused) == Hold(IF refused = {} THEN c ELSE {})

Accepts(c, refused) == Hold(c \ refused)

\* A chunk, of which items may be refused; that raises with --raise-on-error.
Bulk ==
  /\ copying = "copying"
  /\ \E c \in Chunks : \E refused \in SUBSET c :
       /\ Accepts(c, refused)
       /\ unread' = unread \ c
       /\ failed' = failed \cup refused
       /\ accepted' = accepted \cup (c \ refused)
       /\ copying' = "copying" \/ (refused # {} /\ copying' = "raised")
  /\ UNCHANGED <<source, edits, destHead, scan>>

\* The request, or the scroll, fails, or the process ends; some of the chunk
\* may have been taken.
BulkFails ==
  /\ copying = "copying" /\ copying' = "raised"
  /\ UNCHANGED copies \/ \E c \in Chunks : \E taken \in SUBSET c : Hold(taken)
  /\ UNCHANGED <<source, edits, destHead, scan, unread, failed, accepted>>

ReportCopied ==
  /\ copying = "copying" /\ unread = {} /\ copying' = "reported"
  /\ UNCHANGED <<source, edits, destHead, copies, scan, unread, failed, accepted>>

SourceEdited ==
  /\ edits < Edits /\ edits' = edits + 1
  /\ \E d \in Docs : source' = [source EXCEPT ![d] = edits']
  /\ UNCHANGED <<destHead, copies, scan, unread, failed, accepted, copying>>

DestRollsOver ==
  /\ destHead < LastHead /\ destHead' = destHead + 1
  /\ UNCHANGED <<source, edits, copies, scan, unread, failed, accepted, copying>>

ReindexNext ==
  Open \/ Bulk \/ BulkFails \/ ReportCopied \/ SourceEdited \/ DestRollsOver

ReindexSpec == ReindexInit /\ [][ReindexNext]_reindexVars

-----------------------------------------------------------------------------
Newest(S) == CHOOSE k \in S : \A l \in S : l <= k
Holding(d) == {k \in 1..LastHead : copies[k][d] # 0}

\* After runs that failed or were cut off, edits and rollovers: a report
\* accounts for every document of the scroll once, and what it does not count
\* as failed is in the destination, its newest copy as the scroll had it.
CopiedOrCounted == copying = "reported" =>
  /\ accepted \cup failed = Scanned /\ accepted \cap failed = {}
  /\ \A d \in accepted : Holding(d) # {} /\ copies[Newest(Holding(d))][d] = scan[d]
=============================================================================
