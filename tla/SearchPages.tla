----------------------------- MODULE SearchPages -----------------------------
(* _search_all_hits of ops_store/search.py: everything that matches a query, *)
(* page by page with search_after, while documents come, change and go.      *)
(* OpenSearch is external: a page is the first hits beyond a position, of    *)
(* what is in the index then.  An alias may stand for several indices, so    *)
(* that two documents can have the same _id.                                 *)
EXTENDS Integers, Sequences, FiniteSets

CONSTANTS
  Matches,    \* how many documents may match
  Ranks,      \* how many values the field of the caller's sort has
  Batches,    \* values of batch_size
  Limits      \* values of max_rows; NoLimit is None

NoLimit == 0
Documents == 1..Matches

ASSUME SearchAssumption ==
  /\ Matches \in Nat /\ Ranks \in Nat
  /\ Batches \subseteq Nat \ {0} /\ Limits \subseteq Nat

VARIABLES
  rank,       \* rank[d]: its value in the field, 0 while d does not match
  sorting,    \* the caller's sort: "none", "asc" or "desc"
  pageSize, maxRows,
  hits,       \* all_hits, each with the position it was found at
  after,      \* the position of the last hit of the last page
  search,     \* the state of the call
  unchanged   \* history: matching and unchanged since the call

searchVars == <<rank, sorting, pageSize, maxRows, hits, after, search, unchanged>>

\* Documents 1 and 2 have one _id, in two indices behind the alias.
IdOf(d) == IF d = 2 THEN 1 ELSE d

SortValue(d) ==
  CASE sorting = "none" -> 0 [] sorting = "asc" -> rank[d] [] sorting = "desc" -> -rank[d]

\* Mutant: the caller's sort alone.
PositionUntied(d) == <<SortValue(d), 0>>

Position(d) == <<SortValue(d), IdOf(d)>>

Precedes(p, q) == p[1] < q[1] \/ (p[1] = q[1] /\ p[2] < q[2])

SearchInit ==
  /\ rank \in [Documents -> 0..Ranks]
  /\ sorting \in {"none", "asc", "desc"}
  /\ \E batch \in Batches, limit \in Limits :
       /\ maxRows = limit
       /\ pageSize = IF limit = NoLimit \/ batch < limit THEN batch ELSE limit
  /\ hits = <<>> /\ after = <<>> /\ search = "paging"
  /\ unchanged = {d \in Documents : rank[d] # 0}

Matching == {d \in Documents : rank[d] # 0}
Beyond == {d \in Matching : after = <<>> \/ Precedes(after, Position(d))}

\* Two documents under one position come in the order of their indices.
Earlier(d, e) ==
  Precedes(Position(d), Position(e)) \/ (Position(d) = Position(e) /\ d < e)
Place(d) == Cardinality({e \in Beyond : Earlier(e, d)})

\* The hits of the next request, in order.
Page ==
  LET size == Cardinality(Beyond)
      Hit(i) == CHOOSE d \in Beyond : Place(d) = i - 1
  IN [i \in 1..(IF size < pageSize THEN size ELSE pageSize) |->
        [of |-> Hit(i), at |-> Position(Hit(i))]]

Enough(rows) == maxRows # NoLimit /\ Len(rows) >= maxRows

Turn ==
  /\ search = "paging"
  /\ LET page == Page
         found == hits \o page
         last == Len(page) < pageSize \/ Enough(found)
     IN /\ hits' = IF last /\ Enough(found) THEN SubSeq(found, 1, maxRows) ELSE found
        /\ search' = IF last THEN "returned" ELSE search
        /\ after' = IF last THEN after ELSE page[Len(page)].at
  /\ UNCHANGED <<rank, sorting, pageSize, maxRows, unchanged>>

TurnFails ==
  /\ search = "paging" /\ search' = "raised"
  /\ UNCHANGED <<rank, sorting, pageSize, maxRows, hits, after, unchanged>>

\* A document comes, changes or goes; or leaves the window of a range query.
Rewrite == \E d \in Documents, v \in 0..Ranks :
  /\ search = "paging" /\ v # rank[d]
  /\ rank' = [rank EXCEPT ![d] = v]
  /\ unchanged' = unchanged \ {d}
  /\ UNCHANGED <<sorting, pageSize, maxRows, hits, after, search>>

SearchNext == Turn \/ TurnFails \/ Rewrite

SearchSpec == SearchInit /\ [][SearchNext]_searchVars

-----------------------------------------------------------------------------
\* Whatever is written between two pages: the hits come in the caller's
\* order; none that stayed as it was comes twice; and each of those comes, or
\* one under the same _id does, unless max_rows were found before it.
PagedOnce ==
  /\ \A i, j \in 1..Len(hits) : i < j =>
       /\ ~Precedes(hits[j].at, hits[i].at)
       /\ hits[i].of = hits[j].of => hits[i].of \notin unchanged
  /\ search = "returned" => \A d \in unchanged :
       \/ \E i \in 1..Len(hits) : IdOf(hits[i].of) = IdOf(d)
       \/ Enough(hits) /\ Precedes(hits[Len(hits)].at, Position(d))
=============================================================================
