--------------------------- MODULE MemberDirectory ---------------------------
(* refresh_member_directory of member_info_ingest.py: upsert the roster that *)
(* was fetched under one stamp, then delete whoever has not been stamped for *)
(* stale_after.  Runs may overlap and die; what they sent may land after     *)
(* they have.  OpenSearch is external: searches, delete_by_query included,   *)
(* see the index as of the last refresh, and delete_by_query stops at a      *)
(* document that has changed since.                                          *)
EXTENDS Integers, FiniteSets

CONSTANTS
  Members,     \* EMP_NOs
  Refreshes,   \* calls of refresh_member_directory that may overlap
  MinRows,     \* min_rows
  StaleAfter,  \* stale_after
  Flight,      \* longest time from a stamp to the last of its upserts
  LastTime     \* bound on the clock

ASSUME MemberAssumption ==
  /\ MinRows \in Nat \ {0} /\ StaleAfter \in Nat /\ LastTime \in Nat
  /\ Flight \in Nat /\ Flight < StaleAfter

VARIABLES
  time,
  stored,     \* stored[m]: os_inserted of the document of m, NoDoc without one
  seen,       \* seen[m]: the same, as searches see it
  stage,      \* stage[r]
  inFlight,   \* inFlight[r]: members whose upsert is to be sent or to land
  stampOf,    \* stampOf[r]
  pruneBefore, \* pruneBefore[r]
  matched,    \* matched[r]: what is left for the delete_by_query of r
  lastStamp,  \* history: lastStamp[m] is the latest stamp m has been given
  missed      \* history: rosters without m that were taken since, up to 2

memberVars == <<time, stored, seen, stage, inFlight, stampOf, pruneBefore,
                matched, lastStamp, missed>>

NoDoc == -1
\* Mutant: no grace window.
CutoffNow == time

Cutoff == time - StaleAfter

MemberTypeOK ==
  /\ time \in Nat
  /\ stored \in [Members -> Nat \cup {NoDoc}] /\ seen \in [Members -> Nat \cup {NoDoc}]
  /\ lastStamp \in [Members -> Nat \cup {NoDoc}]
  /\ stage \in [Refreshes -> {"returned", "skipped", "raised", "upserting", "pruning", "deleting"}]
  /\ inFlight \in [Refreshes -> SUBSET Members]
  /\ matched \in [Refreshes -> SUBSET [of : Members, stamp : Nat]]
  /\ stampOf \in [Refreshes -> Nat] /\ pruneBefore \in [Refreshes -> Int]
  /\ missed \in [Members -> 0..2]

MemberInit ==
  /\ time = 0
  /\ stored = [m \in Members |-> NoDoc] /\ seen = stored
  /\ stage = [r \in Refreshes |-> "returned"]
  /\ inFlight = [r \in Refreshes |-> {}] /\ matched = inFlight
  /\ stampOf = [r \in Refreshes |-> 0] /\ pruneBefore = stampOf
  /\ lastStamp = stored
  /\ missed = [m \in Members |-> 0]

\* Refreshes of the index are far more frequent than a unit of this clock.
TimePasses ==
  /\ time < LastTime
  /\ \A r \in Refreshes :
       stage[r] = "upserting" \/ inFlight[r] # {} => time < stampOf[r] + Flight
  /\ time' = time + 1 /\ seen' = stored
  /\ UNCHANGED <<stored, stage, inFlight, stampOf, pruneBefore, matched, lastStamp, missed>>

\* The rows with an EMP_NO are those of roster; blanks have none, and count.
Fetched(r) ==
  /\ stage[r] \in {"returned", "skipped", "raised"}
  /\ inFlight[r] = {} /\ matched[r] = {}
  /\ \E roster \in SUBSET Members, blanks \in 0..1 :
       \/ /\ Cardinality(roster) + blanks < MinRows
          /\ stage' = [stage EXCEPT ![r] = "skipped"]
          /\ UNCHANGED <<inFlight, stampOf, missed>>
       \/ /\ Cardinality(roster) + blanks >= MinRows
          /\ stage' = [stage EXCEPT ![r] = "upserting"]
          /\ inFlight' = [inFlight EXCEPT ![r] = roster]
          /\ stampOf' = [stampOf EXCEPT ![r] = time]
          /\ missed' = [m \in Members |->
               IF m \in roster \/ missed[m] = 2 THEN missed[m] ELSE missed[m] + 1]
  /\ UNCHANGED <<time, stored, seen, pruneBefore, matched, lastStamp>>

Upserts(r) == \E m \in inFlight[r] :
  /\ stored' = [stored EXCEPT ![m] = stampOf[r]]
  /\ lastStamp' = [lastStamp EXCEPT ![m] = IF @ > stampOf[r] THEN @ ELSE stampOf[r]]
  /\ missed' = [missed EXCEPT ![m] = 0]
  /\ inFlight' = [inFlight EXCEPT ![r] = @ \ {m}]
  /\ UNCHANGED <<time, seen, stage, stampOf, pruneBefore, matched>>

\* An item error, which the bulk helper only collects; or the request is
\* lost, or not sent any more.
NotUpserted(r) == \E m \in inFlight[r] :
  /\ inFlight' = [inFlight EXCEPT ![r] = @ \ {m}]
  /\ UNCHANGED <<time, stored, seen, stage, stampOf, pruneBefore, matched, lastStamp, missed>>

\* Every request has been answered, each after a refresh of the index; no
\* request is sent for an empty roster.  The pruning is optional.
BulkEnds(r) ==
  /\ stage[r] = "upserting" /\ inFlight[r] = {}
  /\ seen' = stored \/ UNCHANGED seen
  /\ stampOf' = [stampOf EXCEPT ![r] = 0]
  /\ \/ stage' = [stage EXCEPT ![r] = "returned"] /\ UNCHANGED pruneBefore
     \/ /\ stage' = [stage EXCEPT ![r] = "pruning"]
        /\ pruneBefore' = [pruneBefore EXCEPT ![r] = Cutoff]
  /\ UNCHANGED <<time, stored, inFlight, matched, lastStamp, missed>>

MatchesStale(r) ==
  /\ stage[r] = "pruning"
  /\ stage' = [stage EXCEPT ![r] = "deleting"]
  /\ matched' = [matched EXCEPT ![r] =
       {[of |-> m, stamp |-> seen[m]] : m \in {n \in Members : seen[n] \in 0..(pruneBefore[r] - 1)}}]
  /\ UNCHANGED <<time, stored, seen, inFlight, stampOf, pruneBefore, lastStamp, missed>>

Deletes(r) == \E d \in matched[r] :
  /\ stored[d.of] = d.stamp
  /\ stored' = [stored EXCEPT ![d.of] = NoDoc]
  /\ matched' = [matched EXCEPT ![r] = @ \ {d}]
  /\ UNCHANGED <<time, seen, stage, inFlight, stampOf, pruneBefore, lastStamp, missed>>

Conflicts(r) ==
  /\ \E d \in matched[r] : stored[d.of] # d.stamp
  /\ matched' = [matched EXCEPT ![r] = {}]
  /\ stage' = [stage EXCEPT ![r] = "raised"]
  /\ pruneBefore' = [pruneBefore EXCEPT ![r] = 0]
  /\ UNCHANGED <<time, stored, seen, inFlight, stampOf, lastStamp, missed>>

PruneEnds(r) ==
  /\ stage[r] = "deleting" /\ matched[r] = {}
  /\ stage' = [stage EXCEPT ![r] = "returned"]
  /\ pruneBefore' = [pruneBefore EXCEPT ![r] = 0]
  /\ seen' = stored
  /\ UNCHANGED <<time, stored, inFlight, stampOf, matched, lastStamp, missed>>

\* The last try of a request gets no answer, or the process dies; what the
\* server has goes on.
BreaksOff(r) ==
  /\ stage[r] \in {"upserting", "pruning", "deleting"}
  /\ stage' = [stage EXCEPT ![r] = "raised"]
  /\ pruneBefore' = [pruneBefore EXCEPT ![r] = 0]
  /\ UNCHANGED <<time, stored, seen, inFlight, stampOf, matched, lastStamp, missed>>

MemberNext ==
  \/ TimePasses
  \/ \E r \in Refreshes :
       \/ Fetched(r) \/ Upserts(r) \/ NotUpserted(r) \/ BulkEnds(r)
       \/ MatchesStale(r) \/ Deletes(r) \/ Conflicts(r) \/ PruneEnds(r) \/ BreaksOff(r)

MemberSpec == MemberInit /\ [][MemberNext]_memberVars

-----------------------------------------------------------------------------
(* Properties *)

Deleted(m) == stored[m] # NoDoc /\ stored'[m] = NoDoc

\* However runs overlap, die, and have their requests land late: who is
\* deleted has not been given a stamp for the grace window, less the time an
\* upsert may be under way; and when a run reports what it has pruned, nobody
\* is left whose stamp is older than its pruneBefore.
MemberKept ==
  [][/\ \A m \in Members : Deleted(m) => time - lastStamp[m] > StaleAfter - Flight
     /\ \A r \in Refreshes : stage[r] = "deleting" /\ stage'[r] = "returned" =>
          \A m \in Members : stored[m] # NoDoc => stored[m] >= pruneBefore[r]]_memberVars

\* "a transient miss never deletes anyone": nobody is deleted for having been
\* missing from a single roster since the last stamp.
MissedOnceKept == [][\A m \in Members : Deleted(m) => missed[m] # 1]_memberVars
=============================================================================
