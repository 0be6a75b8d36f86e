---------------------------- MODULE ServiceProofs ----------------------------
(* Proofs about the services: for every value of their constants, what the  *)
(* run of MCServices checks on small ones.                                  *)
EXTENDS RowSweep, UrlShortener, JobSchedule, Reindex, BackgroundJobs,
        Integers, FiniteSetTheorems, TLAPS

(****************************** RowSweep ***********************************)

(* Quotients, as the provers need them.                                    *)
LEMMA DivMono ==
  ASSUME NEW a \in Nat, NEW c \in Nat, NEW b \in Nat \ {0}, a <= c
  PROVE  a \div b \in Nat /\ a \div b <= c \div b
OBVIOUS

LEMMA DivPlus ==
  ASSUME NEW a \in Nat, NEW k \in Nat, NEW b \in Nat \ {0}
  PROVE  (a + b * k) \div b = a \div b + k
OBVIOUS

(* A slot's bound moves with the length of the table, by no more than the  *)
(* table grows.                                                            *)
LEMMA BoundGrows ==
  ASSUME NEW s \in 0..Slots, NEW n \in Nat, NEW k \in Nat
  PROVE  /\ Bound(s, n) \in Nat
         /\ Bound(s, n) <= Bound(s, n + k)
         /\ Bound(s, n + k) <= Bound(s, n) + k
<1>. Slots \in Nat \ {0} /\ s \in Nat BY SweepAssumption
<1>1. s * (n + k) = s * n + s * k /\ s * n \in Nat /\ s * k \in Nat OBVIOUS
<1>2. s * k <= Slots * k OBVIOUS
<1>3. s * (n + k) <= s * n + Slots * k BY <1>1, <1>2
<1>. QED BY <1>1, <1>2, <1>3, DivMono, DivPlus DEF Bound

LEMMA BoundShift ==
  ASSUME NEW s \in 0..Slots, NEW n \in Nat, NEW m \in Nat
  PROVE  /\ Bound(s, n) \in Nat /\ Bound(s, m) \in Nat
         /\ m <= n => Bound(s, m) <= Bound(s, n)
         /\ m >= n => Bound(s, m) <= Bound(s, n) + (m - n)
<1>1. Bound(s, n) \in Nat /\ Bound(s, m) \in Nat
  <2>1. 0 \in Nat OBVIOUS
  <2>. QED BY <2>1, BoundGrows
<1>2. ASSUME m <= n PROVE Bound(s, m) <= Bound(s, n)
  <2>1. n - m \in Nat /\ n = m + (n - m) BY <1>2
  <2>2. Bound(s, m) <= Bound(s, m + (n - m)) BY <2>1, BoundGrows
  <2>. QED BY <2>1, <2>2
<1>3. ASSUME m >= n PROVE Bound(s, m) <= Bound(s, n) + (m - n)
  <2>1. m - n \in Nat /\ m = n + (m - n) BY <1>3
  <2>2. Bound(s, n + (m - n)) <= Bound(s, n) + (m - n) BY <2>1, BoundGrows
  <2>. QED BY <2>1, <2>2
<1>. QED BY <1>1, <1>2, <1>3

(* The first slice begins and the last one ends with the table.            *)
LEMMA BoundEnds ==
  ASSUME NEW n \in Nat
  PROVE  Bound(0, n) = 0 /\ Bound(Slots, n) = n
<1>. Slots \in Nat \ {0} BY SweepAssumption
<1>1. 0 * n = 0 /\ Slots * n = 0 + Slots * n /\ 0 \div Slots = 0 OBVIOUS
<1>2. (0 + Slots * n) \div Slots = 0 \div Slots + n BY DivPlus
<1>. QED BY <1>1, <1>2 DEF Bound

(* A row neither visited nor forgone lies ahead of the slices done: past   *)
(* the margin right after a run, at its far side once the table has        *)
(* changed.  None is left after the last slice.                            *)
Ahead ==
  ~visited /\ ~forgone =>
    /\ slot < Slots
    /\ row >= Bound(slot, rows) + (IF settled THEN -Overlap ELSE Overlap)

SweepInv == SweepTypeOK /\ Ahead

LEMMA SweepInitInv == SweepInit => SweepInv
<1>. SUFFICES ASSUME SweepInit PROVE SweepInv OBVIOUS
<1>1. SweepTypeOK
  <2>1. settled \in BOOLEAN /\ visited \in BOOLEAN /\ forgone \in BOOLEAN
    BY DEF SweepInit
  <2>. QED BY <2>1, SweepAssumption DEF SweepInit, SweepTypeOK
<1>2. rows \in Nat BY DEF SweepInit
<1>3. Bound(0, rows) = 0 BY <1>2, BoundEnds
<1>. QED BY <1>1, <1>3, SweepAssumption DEF SweepInit, SweepInv, Ahead, SweepTypeOK

(* A slice takes every row that lies ahead of its slot, up to its end.     *)
LEMMA SliceTakes ==
  ASSUME SweepInv, slot < Slots, settled, ~visited, ~forgone, ~InSlice
  PROVE  slot + 1 < Slots /\ row >= Bound(slot + 1, rows) + Overlap
<1>. rows \in Nat /\ row \in Nat /\ row < rows /\ slot \in Nat /\ Slots \in Nat
     /\ Overlap \in Nat
  BY SweepAssumption DEF SweepInv, SweepTypeOK
<1>1. Bound(slot, rows) \in Nat /\ Bound(slot + 1, rows) \in Nat
  <2>. slot \in 0..Slots /\ slot + 1 \in 0..Slots /\ 0 \in Nat OBVIOUS
  <2>. QED BY BoundGrows
<1>2. AtLeast(slot, rows) <= row BY <1>1 DEF SweepInv, Ahead, AtLeast
<1>3. row >= Below(slot, rows) BY <1>1, <1>2 DEF InSlice, Below
<1>4. row >= Bound(slot + 1, rows) + Overlap BY <1>1, <1>3 DEF Below
<1>5. slot + 1 # Slots BY <1>4, BoundEnds
<1>. QED BY <1>4, <1>5

(* What Churn rows do to the distance between a row and a bound.           *)
LEMMA DriftBounded ==
  ASSUME SweepTypeOK, SweepTypeOK', Drift, slot \in 0..Slots
  PROVE  row' - Bound(slot, rows') >= row - Bound(slot, rows) - 2 * Overlap
<1>0. /\ rows \in Nat /\ row \in Nat /\ Churn \in Nat /\ Overlap \in Nat
      /\ rows' \in Nat /\ row' \in Nat /\ Churn <= 2 * Overlap
  BY SweepAssumption DEF SweepTypeOK
<1>1. PICK cb, ca, gb, ga \in 0..Churn :
        /\ cb + ca <= Churn /\ gb + ga <= Churn
        /\ row' = row + cb - gb
        /\ rows' = rows + cb + ca - gb - ga
  BY DEF Drift
<1>2. /\ Bound(slot, rows) \in Nat /\ Bound(slot, rows') \in Nat
      /\ rows' <= rows => Bound(slot, rows') <= Bound(slot, rows)
      /\ rows' >= rows => Bound(slot, rows') <= Bound(slot, rows) + (rows' - rows)
  BY <1>0, BoundShift
<1>. QED BY <1>0, <1>1, <1>2

LEMMA SweepNextInv == SweepInv /\ [SweepNext]_sweepVars => SweepInv'
<1>. SUFFICES ASSUME SweepInv, [SweepNext]_sweepVars PROVE SweepInv' OBVIOUS
<1>. SweepTypeOK BY DEF SweepInv
<1>1. CASE RunSlot
  <2>1. SweepTypeOK'
    <3>1. visited' \in BOOLEAN /\ settled' \in BOOLEAN BY <1>1 DEF RunSlot
    <3>. QED BY <1>1, <3>1, SweepAssumption DEF SweepTypeOK, RunSlot
  <2>2. Ahead' BY <1>1, SliceTakes DEF RunSlot, Ahead
  <2>. QED BY <2>1, <2>2 DEF SweepInv
<1>2. CASE MissSlot
  <2>1. SweepTypeOK'
    <3>1. forgone' \in BOOLEAN /\ settled' \in BOOLEAN BY <1>2 DEF MissSlot
    <3>. QED BY <1>2, <3>1, SweepAssumption DEF SweepTypeOK, MissSlot
  <2>2. Ahead' BY <1>2, SliceTakes DEF MissSlot, Ahead
  <2>. QED BY <2>1, <2>2 DEF SweepInv
<1>3. CASE StraySlot
  BY <1>3 DEF StraySlot, SweepInv, SweepTypeOK, Ahead, InSlice
<1>4. CASE Drift
  <2>1. SweepTypeOK'
    <3>1. MaxRows \in Nat /\ Churn \in Nat BY SweepAssumption
    <3>. QED BY <1>4, <3>1 DEF SweepTypeOK, Drift
  <2>2. row' - Bound(slot, rows') >= row - Bound(slot, rows) - 2 * Overlap
    BY <1>4, <2>1, DriftBounded DEF SweepTypeOK
  <2>3. Bound(slot, rows) \in Nat /\ Bound(slot, rows') \in Nat
    <3>1. rows \in Nat /\ rows' \in Nat /\ slot \in 0..Slots /\ 0 \in Nat
      BY <2>1 DEF SweepTypeOK
    <3>. QED BY <3>1, BoundGrows
  <2>4. Ahead'
    BY <1>4, <2>1, <2>2, <2>3, SweepAssumption DEF Drift, SweepInv, Ahead, SweepTypeOK
  <2>. QED BY <2>1, <2>4 DEF SweepInv
<1>5. CASE NextSweep
  <2>1. SweepTypeOK'
    <3>1. visited' \in BOOLEAN /\ forgone' \in BOOLEAN BY <1>5 DEF NextSweep
    <3>. QED BY <1>5, <3>1, SweepAssumption DEF NextSweep, SweepTypeOK
  <2>2. Bound(0, rows) = 0 BY BoundEnds DEF SweepTypeOK
  <2>. QED BY <1>5, <2>1, <2>2, SweepAssumption DEF NextSweep, SweepInv, Ahead, SweepTypeOK
<1>6. CASE UNCHANGED sweepVars
  BY <1>6 DEF sweepVars, SweepInv, SweepTypeOK, Ahead
<1>. QED BY <1>1, <1>2, <1>3, <1>4, <1>5, <1>6 DEF SweepNext

(* Every sweep over every table visits every row that stays, or a run that *)
(* did not come had it, if no more rows come or go between two runs than   *)
(* two margins.                                                            *)
THEOREM SweepVisits == SweepSpec => []RowVisited
<1>1. SweepInv => RowVisited
  BY SweepAssumption DEF SweepInv, SweepTypeOK, Ahead, RowVisited
<1>. QED BY SweepInitInv, SweepNextInv, <1>1, PTL DEF SweepSpec

(**************************** UrlShortener *********************************)

(* What a request knows, by the step that it is at.                        *)

Writes == [at : {"insert"}, url : Urls, code : Codes, alias : BOOLEAN, try : Nat]
Looks == [at : {"get", "lookup", "unknown"}, code : Codes, due : SUBSET Urls]
Bears == [at : {"set", "click", "redirected"}, code : Codes, due : SUBSET Urls, url : Urls]

\* What a request knows agrees with mapping m, and it is due nothing else.
Agrees(q, m) ==
  \/ q.at \in {"idle", "created", "taken", "raised"}
  \/ q \in Writes
  \/ q \in Looks /\ q.due \subseteq {m[q.code]} /\ (q.at = "unknown" => q.due = {})
  \/ q \in Bears /\ q.due \subseteq {m[q.code]} /\ q.url = m[q.code]

LinkInv ==
  /\ mapping \in [Codes -> Urls \cup {NoUrl}]
  /\ cache \in [Codes -> Urls \cup {NoUrl}]
  /\ \A c \in Codes : cache[c] # NoUrl => cache[c] = mapping[c]
  /\ given \subseteq Codes \X Urls
  /\ \A p \in given : mapping[p[1]] = p[2]
  /\ request = [r \in Requests |-> request[r]]
  /\ \A r \in Requests : Agrees(request[r], mapping)

\* What a request knows stays so when codes that were vacant are taken.
LEMMA AgreesStays ==
  ASSUME NEW q, NEW m, NEW n, Agrees(q, m),
         \A c \in Codes : m[c] \in Urls => n[c] = m[c]
  PROVE  Agrees(q, n)
<1>1. ASSUME NEW d \in SUBSET Urls, NEW c \in Codes, d \subseteq {m[c]}
      PROVE  d \subseteq {n[c]}
  <2>1. ASSUME NEW u \in d PROVE u = n[c] BY <1>1
  <2>. QED BY <2>1
<1>2. CASE q.at \in {"idle", "created", "taken", "raised"} BY <1>2 DEF Agrees
<1>3. CASE q \in Writes BY <1>3 DEF Agrees
<1>4. CASE q \in Looks /\ q.due \subseteq {m[q.code]} /\ (q.at = "unknown" => q.due = {})
  <2>1. q.due \in SUBSET Urls /\ q.code \in Codes BY <1>4 DEF Looks
  <2>. QED BY <1>1, <1>4, <2>1 DEF Agrees
<1>5. CASE q \in Bears /\ q.due \subseteq {m[q.code]} /\ q.url = m[q.code]
  <2>1. q.due \in SUBSET Urls /\ q.code \in Codes /\ q.url \in Urls BY <1>5 DEF Bears
  <2>. QED BY <1>1, <1>5, <2>1 DEF Agrees
<1>. QED BY <1>2, <1>3, <1>4, <1>5 DEF Agrees

\* A step of one request that leaves mapping and given alone.
LEMMA RequestKeeps ==
  ASSUME LinkInv, NEW r \in Requests, NEW to, Becomes(r, to), Agrees(to, mapping),
         UNCHANGED <<mapping, given>>,
         cache' \in [Codes -> Urls \cup {NoUrl}],
         \A c \in Codes : cache'[c] # NoUrl => cache'[c] = mapping[c]
  PROVE  LinkInv'
<1>1. request' = [q \in Requests |-> IF q = r THEN to ELSE request[q]]
  BY DEF LinkInv, Becomes
<1>2. ASSUME NEW q \in Requests PROVE Agrees(request'[q], mapping)
  BY <1>1 DEF LinkInv
<1>3. \A q \in Requests : Agrees(request[q], mapping)'
  BY <1>2 DEF Agrees
<1>4. request' = [q \in Requests |-> request'[q]] BY <1>1
<1>. QED BY <1>3, <1>4 DEF LinkInv

LEMMA MovesOn ==
  ASSUME LinkInv, NEW r \in Requests, NEW s, Goes(r, s)
  PROVE  Becomes(r, [request[r] EXCEPT !.at = s])
BY DEF LinkInv, Goes, Becomes

LEMMA LinkInitInv == ShortenerInit => LinkInv
BY DEF ShortenerInit, LinkInv, Agrees

LEMMA LinkNextInv == LinkInv /\ [ShortenerNext]_shortenerVars => LinkInv'
<1>. SUFFICES ASSUME LinkInv, [ShortenerNext]_shortenerVars PROVE LinkInv'
  OBVIOUS
<1>. DEFINE Fine ==
       /\ cache \in [Codes -> Urls \cup {NoUrl}]
       /\ \A c \in Codes : cache[c] # NoUrl => cache[c] = mapping[c]
<1>0. Fine BY DEF LinkInv
<1>1. ASSUME NEW r \in Requests, Shorten(r) PROVE LinkInv'
  <2>1. PICK url \in Urls, code \in Codes, alias \in BOOLEAN :
          Becomes(r, [at |-> "insert", url |-> url, code |-> code, alias |-> alias, try |-> 1])
    BY <1>1 DEF Shorten
  <2>2. Agrees([at |-> "insert", url |-> url, code |-> code, alias |-> alias, try |-> 1], mapping)
    BY DEF Agrees, Writes
  <2>. QED BY <1>0, <1>1, <2>1, <2>2, RequestKeeps DEF Shorten
<1>2. ASSUME NEW r \in Requests, Insert(r) PROVE LinkInv'
  <2>1. request[r].at = "insert" BY <1>2 DEF Insert, Doing
  <2>2. request[r] \in Writes
    <3>1. Agrees(request[r], mapping) BY DEF LinkInv
    <3>. QED BY <2>1, <3>1 DEF Agrees, Looks, Bears
  <2>. DEFINE code == request[r].code
              url == request[r].url
  <2>3. code \in Codes /\ url \in Urls BY <2>2 DEF Writes
  <2>4. mapping' = [mapping EXCEPT ![code] = url] /\ mapping[code] = NoUrl
    BY <1>2 DEF Insert, Vacant
  <2>5. /\ mapping' \in [Codes -> Urls \cup {NoUrl}]
        /\ \A c \in Codes : mapping[c] \in Urls => mapping'[c] = mapping[c]
        /\ mapping'[code] = url
    <3>. HIDE DEF code, url
    <3>. QED BY <2>3, <2>4, ShortenerAssumption DEF LinkInv
  <2>6. \E to : Becomes(r, to) /\ to.at \in {"created", "raised"}
    <3>1. CASE Goes(r, "created")
      <4>1. [request[r] EXCEPT !.at = "created"].at = "created" BY <2>2 DEF Writes
      <4>. QED BY <3>1, <4>1, MovesOn
    <3>2. CASE Raises(r) BY <3>2 DEF Raises
    <3>. QED BY <1>2, <3>1, <3>2 DEF Insert
  <2>7. PICK to : Becomes(r, to) /\ to.at \in {"created", "raised"} BY <2>6
  <2>8. request' = [q \in Requests |-> IF q = r THEN to ELSE request[q]]
    BY <2>7 DEF LinkInv, Becomes
  <2>9. ASSUME NEW q \in Requests PROVE Agrees(request'[q], mapping')
    <3>1. CASE q = r BY <2>7, <2>8, <3>1 DEF Agrees
    <3>2. CASE q # r
      <4>1. Agrees(request[q], mapping) BY DEF LinkInv
      <4>. QED BY <2>5, <2>8, <3>2, <4>1, AgreesStays
    <3>. QED BY <3>1, <3>2
  <2>10. given' \subseteq given \cup {<<code, url>>}
    BY <1>2 DEF Insert
  <2>11. given' \subseteq Codes \X Urls /\ \A p \in given' : mapping'[p[1]] = p[2]
    <3>. HIDE DEF code, url
    <3>1. ASSUME NEW p \in given' PROVE p \in Codes \X Urls /\ mapping'[p[1]] = p[2]
      <4>1. CASE p \in given
        <5>1. p \in Codes \X Urls /\ mapping[p[1]] = p[2] BY <4>1 DEF LinkInv
        <5>2. p[1] \in Codes /\ mapping[p[1]] \in Urls BY <5>1
        <5>. QED BY <5>1, <5>2, <2>5
      <4>2. CASE p = <<code, url>> BY <4>2, <2>3, <2>5
      <4>. QED BY <2>10, <4>1, <4>2
    <3>. QED BY <3>1
  <2>12. cache' \in [Codes -> Urls \cup {NoUrl}]
         /\ \A c \in Codes : cache'[c] # NoUrl => cache'[c] = mapping'[c]
    <3>1. cache' = cache BY <1>2 DEF Insert
    <3>2. \A c \in Codes : cache[c] # NoUrl => cache[c] \in Urls /\ cache[c] = mapping[c]
      BY <1>0
    <3>. QED BY <1>0, <2>5, <3>1, <3>2
  <2>13. request' = [q \in Requests |-> request'[q]] BY <2>8
  <2>14. \A q \in Requests : Agrees(request[q], mapping)' BY <2>9 DEF Agrees
  <2>. QED BY <2>5, <2>11, <2>12, <2>13, <2>14 DEF LinkInv
<1>3. ASSUME NEW r \in Requests, Duplicate(r) PROVE LinkInv'
  <2>2. request[r] \in Writes
    <3>1. Agrees(request[r], mapping) /\ request[r].at = "insert"
      BY <1>3 DEF LinkInv, Duplicate, Doing
    <3>. QED BY <3>1 DEF Agrees, Looks, Bears
  <2>3. \E to : Becomes(r, to) /\ Agrees(to, mapping)
    <3>1. CASE Goes(r, "taken")
      <4>1. [request[r] EXCEPT !.at = "taken"].at = "taken" BY <2>2 DEF Writes
      <4>. QED BY <3>1, <4>1, MovesOn DEF Agrees
    <3>2. CASE Raises(r) BY <3>2 DEF Raises, Agrees
    <3>3. CASE \E code \in Codes :
                 Becomes(r, [request[r] EXCEPT !.code = code, !.try = @ + 1])
      <4>1. PICK code \in Codes : Becomes(r, [request[r] EXCEPT !.code = code, !.try = @ + 1])
        BY <3>3
      <4>. DEFINE q == request[r]
      <4>2. [q EXCEPT !.code = code, !.try = @ + 1] \in Writes
        <5>1. q \in Writes /\ q.try + 1 \in Nat BY <2>2 DEF Writes
        <5>. HIDE DEF q
        <5>. QED BY <5>1 DEF Writes
      <4>. QED BY <4>1, <4>2 DEF Agrees
    <3>. QED BY <1>3, <3>1, <3>2, <3>3 DEF Duplicate
  <2>. QED BY <1>0, <1>3, <2>3, RequestKeeps DEF Duplicate
<1>4. ASSUME NEW r \in Requests, Follow(r) PROVE LinkInv'
  <2>1. PICK code \in Codes :
          Becomes(r, [at |-> "get", code |-> code, due |-> {p[2] : p \in {q \in given : q[1] = code}}])
    BY <1>4 DEF Follow
  <2>. DEFINE owed == {p[2] : p \in {q \in given : q[1] = code}}
  <2>2. owed \in SUBSET Urls /\ owed \subseteq {mapping[code]} BY DEF LinkInv
  <2>. HIDE DEF owed
  <2>3. Agrees([at |-> "get", code |-> code, due |-> owed], mapping)
    BY <2>2 DEF Agrees, Looks
  <2>4. Becomes(r, [at |-> "get", code |-> code, due |-> owed]) BY <2>1 DEF owed
  <2>. QED BY <1>0, <1>4, <2>3, <2>4, RequestKeeps DEF Follow
<1>5. ASSUME NEW r \in Requests, Get(r) PROVE LinkInv'
  <2>1. request[r] \in Looks /\ request[r].due \subseteq {mapping[request[r].code]}
    <3>1. Agrees(request[r], mapping) /\ request[r].at = "get" BY <1>5 DEF LinkInv, Get, Doing
    <3>. QED BY <3>1 DEF Agrees, Writes, Bears
  <2>. DEFINE code == request[r].code
              owed == request[r].due
  <2>2. code \in Codes /\ owed \in SUBSET Urls BY <2>1 DEF Looks
  <2>3. \E to : Becomes(r, to) /\ Agrees(to, mapping)
    <3>1. CASE cache[code] # NoUrl /\ Found(r, "click", cache[code])
      <4>1. cache[code] \in Urls /\ cache[code] = mapping[code] BY <1>0, <2>2, <3>1
      <4>2. Becomes(r, [at |-> "click", code |-> code, due |-> owed, url |-> cache[code]])
        BY <3>1 DEF Found
      <4>. HIDE DEF code, owed
      <4>3. Agrees([at |-> "click", code |-> code, due |-> owed, url |-> cache[code]], mapping)
        <5>1. owed \subseteq {mapping[code]} BY <2>1 DEF code, owed
        <5>. QED BY <2>2, <4>1, <5>1 DEF Agrees, Bears
      <4>. QED BY <4>2, <4>3
    <3>2. CASE Goes(r, "lookup")
      <4>1. [request[r] EXCEPT !.at = "lookup"] \in Looks
            /\ [request[r] EXCEPT !.at = "lookup"].code = code
            /\ [request[r] EXCEPT !.at = "lookup"].due = owed
            /\ [request[r] EXCEPT !.at = "lookup"].at = "lookup"
        BY <2>1 DEF Looks
      <4>2. Agrees([request[r] EXCEPT !.at = "lookup"], mapping) BY <2>1, <4>1 DEF Agrees
      <4>. QED BY <3>2, <4>2, MovesOn
    <3>. QED BY <1>5, <3>1, <3>2 DEF Get
  <2>. QED BY <1>0, <1>5, <2>3, RequestKeeps DEF Get
<1>6. ASSUME NEW r \in Requests, LookUp(r) PROVE LinkInv'
  <2>1. request[r] \in Looks /\ request[r].due \subseteq {mapping[request[r].code]}
    <3>1. Agrees(request[r], mapping) /\ request[r].at = "lookup"
      BY <1>6 DEF LinkInv, LookUp, Doing
    <3>. QED BY <3>1 DEF Agrees, Writes, Bears
  <2>. DEFINE code == request[r].code
              owed == request[r].due
  <2>2. code \in Codes /\ owed \in SUBSET Urls BY <2>1 DEF Looks
  <2>3. \E to : Becomes(r, to) /\ Agrees(to, mapping)
    <3>1. CASE mapping[code] # NoUrl /\ Found(r, "set", mapping[code])
      <4>1. mapping[code] \in Urls BY <2>2, <3>1 DEF LinkInv
      <4>2. Becomes(r, [at |-> "set", code |-> code, due |-> owed, url |-> mapping[code]])
        BY <3>1 DEF Found
      <4>. HIDE DEF code, owed
      <4>3. Agrees([at |-> "set", code |-> code, due |-> owed, url |-> mapping[code]], mapping)
        <5>1. owed \subseteq {mapping[code]} BY <2>1 DEF code, owed
        <5>. QED BY <2>2, <4>1, <5>1 DEF Agrees, Bears
      <4>. QED BY <4>2, <4>3
    <3>2. CASE mapping[code] = NoUrl /\ Goes(r, "unknown")
      <4>1. [request[r] EXCEPT !.at = "unknown"] \in Looks
            /\ [request[r] EXCEPT !.at = "unknown"].code = code
            /\ [request[r] EXCEPT !.at = "unknown"].due = owed
        BY <2>1 DEF Looks
      <4>2. owed = {} BY <2>1, <2>2, <3>2, ShortenerAssumption
      <4>3. Agrees([request[r] EXCEPT !.at = "unknown"], mapping) BY <2>1, <4>1, <4>2 DEF Agrees
      <4>. QED BY <3>2, <4>3, MovesOn
    <3>. QED BY <1>6, <3>1, <3>2 DEF LookUp
  <2>. QED BY <1>0, <1>6, <2>3, RequestKeeps DEF LookUp
<1>7. ASSUME NEW r \in Requests, Set(r) PROVE LinkInv'
  <2>1. /\ request[r] \in Bears /\ request[r].due \subseteq {mapping[request[r].code]}
        /\ request[r].url = mapping[request[r].code]
    <3>1. Agrees(request[r], mapping) /\ request[r].at = "set" BY <1>7 DEF LinkInv, Set, Doing
    <3>. QED BY <3>1 DEF Agrees, Writes, Looks
  <2>. DEFINE code == request[r].code
              url == request[r].url
  <2>2. code \in Codes /\ url \in Urls /\ url = mapping[code] BY <2>1 DEF Bears
  <2>3. \E to : Becomes(r, to) /\ Agrees(to, mapping)
    <3>1. CASE Goes(r, "click")
      <4>1. /\ [request[r] EXCEPT !.at = "click"] \in Bears
            /\ [request[r] EXCEPT !.at = "click"].code = request[r].code
            /\ [request[r] EXCEPT !.at = "click"].due = request[r].due
            /\ [request[r] EXCEPT !.at = "click"].url = request[r].url
        BY <2>1 DEF Bears
      <4>2. Agrees([request[r] EXCEPT !.at = "click"], mapping) BY <2>1, <4>1 DEF Agrees
      <4>. QED BY <3>1, <4>2, MovesOn
    <3>2. CASE Raises(r) BY <3>2 DEF Raises, Agrees
    <3>. QED BY <1>7, <3>1, <3>2 DEF Set
  <2>4. cache' = [cache EXCEPT ![code] = url] BY <1>7 DEF Set
  <2>5. cache' \in [Codes -> Urls \cup {NoUrl}]
        /\ \A c \in Codes : cache'[c] # NoUrl => cache'[c] = mapping[c]
    <3>. HIDE DEF code, url
    <3>. QED BY <1>0, <2>2, <2>4
  <2>. QED BY <1>7, <2>3, <2>5, RequestKeeps DEF Set
<1>8. ASSUME NEW r \in Requests, Click(r) PROVE LinkInv'
  <2>1. /\ request[r] \in Bears /\ request[r].due \subseteq {mapping[request[r].code]}
        /\ request[r].url = mapping[request[r].code]
    <3>1. Agrees(request[r], mapping) /\ request[r].at = "click" BY <1>8 DEF LinkInv, Click, Doing
    <3>. QED BY <3>1 DEF Agrees, Writes, Looks
  <2>2. /\ [request[r] EXCEPT !.at = "redirected"] \in Bears
        /\ [request[r] EXCEPT !.at = "redirected"].code = request[r].code
        /\ [request[r] EXCEPT !.at = "redirected"].due = request[r].due
        /\ [request[r] EXCEPT !.at = "redirected"].url = request[r].url
    BY <2>1 DEF Bears
  <2>3. Agrees([request[r] EXCEPT !.at = "redirected"], mapping) BY <2>1, <2>2 DEF Agrees
  <2>4. Becomes(r, [request[r] EXCEPT !.at = "redirected"]) BY <1>8, MovesOn DEF Click
  <2>. QED BY <1>0, <1>8, <2>3, <2>4, RequestKeeps DEF Click
<1>9. ASSUME NEW r \in Requests, StoreFails(r) PROVE LinkInv'
  <2>1. Becomes(r, [at |-> "raised"]) /\ Agrees([at |-> "raised"], mapping)
    BY <1>9 DEF StoreFails, Raises, Agrees
  <2>. QED BY <1>0, <1>9, <2>1, RequestKeeps DEF StoreFails
<1>10. ASSUME NEW r \in Requests, Answered(r) PROVE LinkInv'
  <2>1. Becomes(r, [at |-> "idle"]) /\ Agrees([at |-> "idle"], mapping)
    BY <1>10 DEF Answered, Agrees
  <2>. QED BY <1>0, <1>10, <2>1, RequestKeeps DEF Answered
<1>11. ASSUME NEW c \in Codes, CacheLoses(c) PROVE LinkInv'
  <2>1. Fine' BY <1>0, <1>11 DEF CacheLoses
  <2>. QED BY <1>11, <2>1 DEF CacheLoses, LinkInv, Agrees
<1>12. CASE UNCHANGED shortenerVars BY <1>12 DEF shortenerVars, LinkInv, Agrees
<1>. QED
  BY <1>1, <1>2, <1>3, <1>4, <1>5, <1>6, <1>7, <1>8, <1>9, <1>10, <1>11, <1>12
  DEF ShortenerNext

\* A code that somebody was told leads to its URL for good, or to an error of
\* a store, for any number of codes, requests and tries.
THEOREM CodesAreKept == ShortenerSpec => []CodeKeepsUrl
<1>1. LinkInv => CodeKeepsUrl
  <2>. SUFFICES ASSUME LinkInv PROVE CodeKeepsUrl
    OBVIOUS
  <2>1. ASSUME NEW p \in given, NEW q \in given, p[1] = q[1] PROVE p = q
    BY <2>1 DEF LinkInv
  <2>2. ASSUME NEW r \in Requests, Doing(r, "redirected")
        PROVE  request[r].due \subseteq {request[r].url}
    BY <2>2 DEF LinkInv, Agrees, Doing, Writes, Looks
  <2>3. ASSUME NEW r \in Requests, Doing(r, "unknown") PROVE request[r].due = {}
    BY <2>3 DEF LinkInv, Agrees, Doing, Writes, Bears
  <2>. QED BY <2>1, <2>2, <2>3 DEF CodeKeepsUrl
<1>. QED BY LinkInitInv, LinkNextInv, <1>1, PTL DEF ShortenerSpec

(***************************** JobSchedule *********************************)

LEMMA ClockTurns ==
  ASSUME NEW c \in 0..(Every - 1)
  PROVE  (c + 1) % Every = IF c + 1 = Every THEN 0 ELSE c + 1
<1>1. Every \in Nat /\ Every > 0 BY ScheduleAssumption
<1>. QED BY <1>1

\* After max skips on an orphaned key no fire is left to be skipped on it;
\* the last of them came from a fire that was due when it was one already.
Spent(max) ==
  /\ skips \in 0..max
  /\ skips = max - 1 /\ (due \/ job = "queued") => lease + clock <= LockTtl
  /\ skips = max => ~due /\ job # "queued" /\ lease + clock <= LockTtl

SkipInv ==
  /\ clock \in 0..(Every - 1) /\ lease \in 0..LockTtl
  /\ late \in Nat /\ skips \in Nat
  /\ due \in BOOLEAN
  /\ due => clock = 0
  /\ job = "queued" => late > Grace \/ (~due /\ late >= clock)
  /\ holder = "orphan" => Spent(1)
  /\ holder = "manualOrphan" => Spent(2)

LEMMA SkipInitInv == SchedInit => SkipInv
<1>. SUFFICES ASSUME SchedInit PROVE SkipInv
  OBVIOUS
<1>1. Every - 1 \in Nat /\ LockTtl \in Nat BY ScheduleAssumption
<1>2. /\ holder = "none" /\ job = "none" /\ ~due /\ due \in BOOLEAN
      /\ clock = 0 /\ lease = 0 /\ late = 0 /\ skips = 0
  BY DEF SchedInit
<1>. QED BY <1>1, <1>2 DEF SkipInv

\* A key set, freed or left behind starts a new account.
LEMMA NewHolder ==
  ASSUME SkipInv, NEW h,
         SetBy(h) \/ Freed \/ LeftBehind(h),
         clock' \in 0..(Every - 1), due' \in BOOLEAN, late' \in Nat,
         due' => clock' = 0,
         job' = "queued" => late' > Grace \/ (~due' /\ late' >= clock'),
         holder' = "orphan" => (~due' /\ job' # "queued") \/ clock' = 0
  PROVE  SkipInv'
<1>1. /\ LockTtl \in Nat /\ LockTtl <= Every /\ Every \in Nat /\ Grace \in Nat
      /\ skips' = 0 /\ lease' \in 0..LockTtl /\ lease' + 0 <= LockTtl
  BY ScheduleAssumption DEF SkipInv, SetBy, Freed, LeftBehind
<1>2. holder' = "orphan" => Spent(1)'
  <2>. SUFFICES ASSUME holder' = "orphan" PROVE Spent(1)'
    OBVIOUS
  <2>1. skips' \in 0..1 /\ skips' # 1 BY <1>1
  <2>2. due' \/ job' = "queued" => lease' + clock' <= LockTtl
    <3>1. CASE ~(due' \/ job' = "queued") BY <3>1
    <3>2. CASE clock' = 0
      <4>1. lease' + 0 <= LockTtl BY <1>1
      <4>. QED BY <3>2, <4>1
    <3>. QED BY <3>1, <3>2
  <2>. QED BY <2>1, <2>2 DEF Spent
<1>3. holder' = "manualOrphan" => Spent(2)' BY <1>1 DEF Spent
<1>. QED BY <1>1, <1>2, <1>3 DEF SkipInv

\* What leaves clock, key and fires alone, or drops a fire.
LEMMA Untouched ==
  ASSUME SkipInv, UNCHANGED <<clock, late, lockVars>>,
         due' \in BOOLEAN, due' => due,
         job' = "queued" => job = "queued"
  PROVE  SkipInv'
<1>1. LockTtl \in Nat BY ScheduleAssumption
<1>2. ASSUME NEW max \in {1, 2}, Spent(max) PROVE Spent(max)'
  BY <1>1, <1>2 DEF Spent, lockVars
<1>3. holder' = "orphan" => Spent(1)' BY <1>2 DEF SkipInv, lockVars
<1>4. holder' = "manualOrphan" => Spent(2)' BY <1>2 DEF SkipInv, lockVars
<1>. QED BY <1>3, <1>4 DEF SkipInv, lockVars

LEMMA StartCounts ==
  ASSUME SkipInv, Start PROVE SkipInv'
<1>0. LockTtl \in Nat /\ Grace \in Nat BY ScheduleAssumption
<1>1. CASE job' = "none" /\ UNCHANGED lockVars
  BY <1>1, Untouched DEF Start, SkipInv
<1>2. CASE holder = "none" /\ job' = "running" /\ SetBy("run")
  BY <1>2, NewHolder DEF Start, SkipInv, SetBy
<1>3. CASE /\ late <= Grace /\ holder # "none" /\ job' = "none"
           /\ skips' = IF holder \in Orphans THEN skips + 1 ELSE skips
           /\ UNCHANGED <<holder, lease, unrenewed>>
  <2>1. ~due /\ UNCHANGED <<clock, due, late>> /\ job = "queued"
    BY <1>0, <1>3 DEF SkipInv, Start
  <2>2. ASSUME NEW max \in {1, 2}, Spent(max), holder \in Orphans PROVE Spent(max)'
    BY <1>0, <1>3, <2>1, <2>2 DEF Spent
  <2>. QED BY <1>0, <1>3, <2>1, <2>2 DEF SkipInv, Orphans
<1>. QED BY <1>1, <1>2, <1>3 DEF Start

LEMMA TickKeeps ==
  ASSUME SkipInv, SchedTick PROVE SkipInv'
<1>0. /\ LockTtl \in Nat /\ Grace \in Nat /\ Every \in Nat \ {0}
      /\ LockTtl <= Every /\ Grace < Every
  BY ScheduleAssumption
<1>1. ~due /\ UNCHANGED job BY DEF SchedTick, Waiting
<1>2. clock' = (IF clock + 1 = Every THEN 0 ELSE clock + 1) /\ due' \in BOOLEAN
      /\ (due' => clock' = 0)
  <2>1. clock \in 0..(Every - 1) BY DEF SkipInv
  <2>. QED BY <2>1, ClockTurns DEF SchedTick
<1>3. late' \in Nat BY <1>0 DEF SchedTick, UpTo, SkipInv
<1>4. job' = "queued" => late' > Grace \/ (~due' /\ late' >= clock')
  <2>. SUFFICES ASSUME job = "queued" PROVE late' > Grace \/ (~due' /\ late' >= clock')
    BY <1>1
  <2>1. late' = UpTo(late, Grace + 1) BY DEF SchedTick
  <2>2. late > Grace \/ late >= clock BY DEF SkipInv
  <2>3. late \in Nat /\ clock \in Nat BY <1>0 DEF SkipInv
  <2>4. CASE clock + 1 = Every BY <1>0, <2>1, <2>2, <2>3, <2>4 DEF UpTo
  <2>5. CASE clock + 1 # Every
    <3>1. ~due'
      <4>1. clock' # 0 BY <1>0, <1>2, <2>3, <2>5
      <4>. QED BY <1>2, <4>1
    <3>. QED BY <1>0, <1>2, <2>1, <2>2, <2>3, <2>5, <3>1 DEF UpTo
  <2>. QED BY <2>4, <2>5
<1>5. CASE lease <= 1
  <2>1. Freed BY <1>5 DEF SchedTick, TickKey
  <2>2. clock' \in 0..(Every - 1) BY <1>0, <1>2 DEF SkipInv
  <2>. QED BY <1>2, <1>3, <1>4, <2>1, <2>2, NewHolder DEF Freed
<1>6. CASE ~(lease <= 1)
  <2>1. lease' = lease - 1 /\ UNCHANGED <<holder, skips>> BY <1>6 DEF SchedTick, TickKey
  <2>2. /\ lease \in 0..LockTtl /\ lease' \in 0..LockTtl
        /\ clock \in 0..(Every - 1) /\ clock' \in 0..(Every - 1)
    BY <1>0, <1>2, <1>6, <2>1 DEF SkipInv
  <2>3. ASSUME NEW max \in {1, 2}, Spent(max) PROVE Spent(max)'
    <3>1. CASE clock + 1 = Every
      <4>1. skips # max BY <1>0, <1>6, <2>2, <2>3, <3>1 DEF Spent
      <4>. QED BY <1>0, <1>2, <2>1, <2>2, <2>3, <3>1, <4>1 DEF Spent
    <3>2. CASE clock + 1 # Every
      <4>1. clock' = clock + 1 /\ ~due'
        BY <1>0, <1>2, <2>2, <3>2
      <4>. QED BY <1>0, <1>1, <2>1, <2>2, <2>3, <4>1 DEF Spent
    <3>. QED BY <3>1, <3>2
  <2>. QED BY <1>2, <1>3, <1>4, <2>1, <2>2, <2>3 DEF SkipInv
<1>. QED BY <1>5, <1>6

LEMMA SkipNextInv == SkipInv /\ [SchedNext]_schedVars => SkipInv'
<1>. SUFFICES ASSUME SkipInv, [SchedNext]_schedVars PROVE SkipInv'
  OBVIOUS
<1>0. LockTtl \in Nat /\ Grace \in Nat BY ScheduleAssumption
<1>1. CASE Renew
  BY <1>1, NewHolder DEF Renew, jobVars, SkipInv, Live, SetBy
<1>2. CASE Fire
  <2>1. clock = 0 /\ due /\ ~due' BY <1>2 DEF Fire, SkipInv
  <2>2. UNCHANGED <<clock, holder, lease, skips>> BY <1>2 DEF Fire, lockVars
  <2>3. late' \in Nat /\ (job' = "queued" => late' > Grace \/ late' >= clock')
    BY <1>0, <1>2, <2>1, <2>2 DEF Fire, SkipInv
  <2>4. ASSUME NEW max \in {1, 2}, Spent(max) PROVE Spent(max)'
    BY <1>0, <2>1, <2>2, <2>4 DEF Spent, SkipInv
  <2>5. due' \in BOOLEAN BY <1>2 DEF Fire
  <2>6. (holder = "orphan" => Spent(1)') /\ (holder = "manualOrphan" => Spent(2)')
    BY <2>4 DEF SkipInv
  <2>. QED BY <2>1, <2>2, <2>3, <2>5, <2>6 DEF SkipInv
<1>3. CASE Start BY <1>3, StartCounts
<1>4. CASE StartFails
  <2>1. CASE UNCHANGED lockVars BY <1>4, <2>1, Untouched DEF StartFails, SkipInv
  <2>2. CASE SetBy("orphan")
    <3>1. ~due BY <1>0, <1>4 DEF StartFails, SkipInv
    <3>. QED BY <1>4, <2>2, <3>1, NewHolder DEF StartFails, SkipInv
  <2>. QED BY <1>4, <2>1, <2>2 DEF StartFails
<1>5. CASE End
  <2>1. CASE UNCHANGED lockVars BY <1>5, <2>1, Untouched DEF End, SkipInv
  <2>2. CASE Freed BY <1>5, <2>2, NewHolder DEF End, SkipInv, Freed
  <2>3. CASE LeftBehind("orphan") BY <1>5, <2>3, NewHolder DEF End, SkipInv
  <2>. QED BY <1>5, <2>1, <2>2, <2>3 DEF End
<1>6. CASE ManualStart BY <1>6, NewHolder DEF ManualStart, jobVars, SkipInv, SetBy
<1>7. CASE ManualEnd
  <2>1. CASE Freed BY <1>7, <2>1, NewHolder DEF ManualEnd, jobVars, SkipInv, Freed
  <2>2. CASE LeftBehind("manualOrphan")
    BY <1>7, <2>2, NewHolder DEF ManualEnd, jobVars, SkipInv, LeftBehind
  <2>. QED BY <1>7, <2>1, <2>2 DEF ManualEnd
<1>8. CASE Crash
  <2>1. CASE LeftBehind("orphan") BY <1>8, <2>1, NewHolder DEF Crash, SkipInv
  <2>2. CASE UNCHANGED lockVars BY <1>8, <2>2, Untouched DEF Crash, SkipInv
  <2>. QED BY <1>8, <2>1, <2>2 DEF Crash
<1>9. CASE BeatFires \/ Beats \/ OtherStarts \/ OtherEnds \/ Boot
  BY <1>9, Untouched
  DEF BeatFires, Beats, OtherStarts, OtherEnds, Boot, jobVars, SkipInv
<1>10. CASE SchedTick BY <1>10, TickKeeps
<1>11. CASE UNCHANGED schedVars BY <1>11, Untouched DEF schedVars, jobVars, SkipInv
<1>. QED
  BY <1>1, <1>2, <1>3, <1>4, <1>5, <1>6, <1>7, <1>8, <1>9, <1>10, <1>11 DEF SchedNext

\* A crash of the scheduler costs one run at most, that of another worker two,
\* for every interval, TTL up to it and grace below it.
THEOREM CrashCostsOneRun == SchedSpec => []OneSkipPerCrash
<1>1. SkipInv => OneSkipPerCrash BY DEF SkipInv, Spent, OneSkipPerCrash
<1>. QED BY SkipInitInv, SkipNextInv, <1>1, PTL DEF SchedSpec

-----------------------------------------------------------------------------
Since == BeatEvery - beatIn

\* While the scheduler lives and neither Redis nor a full pool has disturbed
\* it, the pulse is as old as the last fire of the heartbeat.
BeatInv ==
  /\ up \in BOOLEAN /\ beat \in {"none", "queued"}
  /\ beatLate \in Nat /\ beatIn \in 0..BeatEvery
  /\ pulse \in 0..BeatTtl /\ steady \in 0..LongAgo
  /\ ~up => beat = "none" /\ (pulse = 0 \/ pulse + steady <= BeatTtl)
  /\ beat = "queued" => steady = 0 \/ (beatLate = 0 /\ Since = 0)
  /\ up /\ beat = "none" /\ steady > Since => pulse >= BeatTtl - Since
  /\ up /\ beat = "queued" /\ steady > BeatEvery => pulse >= BeatTtl - BeatEvery

LEMMA BeatInitInv == SchedInit => BeatInv
BY ScheduleAssumption DEF SchedInit, BeatInv, Since, LongAgo

LEMMA BeatNextInv == BeatInv /\ [SchedNext]_schedVars => BeatInv'
<1>. SUFFICES ASSUME BeatInv, [SchedNext]_schedVars PROVE BeatInv'
  OBVIOUS
<1>0. /\ BeatEvery \in Nat \ {0} /\ BeatTtl \in Nat /\ BeatGrace \in Nat
      /\ BeatEvery < BeatTtl
  BY ScheduleAssumption
<1>1. CASE BeatFires BY <1>0, <1>1 DEF BeatFires, BeatInv, Since, LongAgo
<1>2. CASE Beats BY <1>0, <1>2 DEF Beats, BeatInv, Since, LongAgo
<1>3. CASE Crash
  <2>1. /\ up' = FALSE /\ beat' = "none" /\ steady' = 0
        /\ UNCHANGED <<beatLate, beatIn, pulse>>
    BY <1>3 DEF Crash
  <2>2. LongAgo \in Nat BY <1>0 DEF LongAgo
  <2>3. ~up' /\ up' \in BOOLEAN BY <2>1
  <2>4. beat' = "none" /\ steady' = 0 /\ UNCHANGED <<beatLate, beatIn, pulse>> BY <2>1
  <2>. QED BY <1>0, <2>2, <2>3, <2>4 DEF BeatInv, Since
<1>4. CASE Boot BY <1>0, <1>4 DEF Boot, BeatInv, Since, LongAgo
<1>5. CASE SchedTick
  <2>1. UNCHANGED <<up, beat>> /\ (up => beatIn > 0) /\ (up /\ Room => beat = "none")
    BY <1>5 DEF SchedTick, Waiting, BeatInv
  <2>2. /\ beatIn' = IF up THEN beatIn - 1 ELSE beatIn
        /\ pulse' = IF pulse > 0 THEN pulse - 1 ELSE 0
        /\ steady' = IF up /\ ~Room THEN 0 ELSE UpTo(steady, LongAgo)
    BY <1>5 DEF SchedTick, Fade
  <2>3. beatLate' \in Nat BY <1>0, <1>5 DEF SchedTick, UpTo, BeatInv
  <2>4. LongAgo \in Nat /\ LongAgo = BeatTtl + BeatEvery BY <1>0 DEF LongAgo
  <2>5. CASE up /\ ~Room
    BY <1>0, <2>1, <2>2, <2>3, <2>4, <2>5 DEF BeatInv, Since
  <2>6. CASE up /\ Room
    BY <1>0, <2>1, <2>2, <2>3, <2>4, <2>6 DEF BeatInv, Since, UpTo
  <2>7. CASE ~up
    BY <1>0, <2>1, <2>2, <2>3, <2>4, <2>7 DEF BeatInv, Since, UpTo
  <2>. QED BY <2>5, <2>6, <2>7 DEF BeatInv
<1>6. CASE UNCHANGED <<up, beatVars>> BY <1>6 DEF beatVars, BeatInv, Since
<1>. QED
  BY <1>1, <1>2, <1>3, <1>4, <1>5, <1>6
  DEF SchedNext, Renew, Fire, Start, StartFails, End, ManualStart, ManualEnd,
      OtherStarts, OtherEnds, schedVars

\* A dead scheduler is seen once the TTL is over; a live one whose pool had
\* room and whose Redis answered for one interval never looks dead.
THEOREM HealthIsHonest == SchedSpec => []HealthHonest
<1>1. BeatInv => HealthHonest
  BY ScheduleAssumption DEF BeatInv, HealthHonest, Since, LongAgo
<1>. QED BY BeatInitInv, BeatNextInv, <1>1, PTL DEF SchedSpec

(******************************* Reindex ***********************************)

\* The newest copy of d is as the scroll had it.
Copied(d) == \E h \in Holding(d) :
  (\A k \in Holding(d) : k <= h) /\ copies[h][d] = scan[d]

\* While a run copies: what it has seen is unread, failed or accepted; the
\* write index is the last one that holds anything.
CopyInv ==
  /\ source \in [Docs -> Nat] /\ scan \in [Docs -> Nat]
  /\ edits \in Nat
  /\ copies \in [1..LastHead -> [Docs -> Nat]]
  /\ destHead \in 1..LastHead
  /\ \A k \in 1..LastHead : k > destHead => \A d \in Docs : copies[k][d] = 0
  /\ unread \subseteq Docs /\ failed \subseteq Docs /\ accepted \subseteq Docs
  /\ unread \cup failed \cup accepted = Scanned
  /\ unread \cap failed = {} /\ unread \cap accepted = {} /\ accepted \cap failed = {}
  /\ copying = "reported" => unread = {}
  /\ copying \in {"copying", "reported"} => \A d \in accepted : Copied(d)

\* What the write index holds is the newest copy.
LEMMA HeadIsNewest ==
  ASSUME NEW S \in SUBSET Nat, NEW h \in S, \A k \in S : k <= h
  PROVE  Newest(S) = h
<1>1. \E k \in S : \A l \in S : l <= k OBVIOUS
<1>2. Newest(S) \in S /\ \A l \in S : l <= Newest(S) BY <1>1 DEF Newest
<1>3. Newest(S) <= h /\ h <= Newest(S) BY <1>2
<1>4. Newest(S) \in Nat /\ h \in Nat BY <1>2
<1>. QED BY <1>3, <1>4

LEMMA CopyInitInv == ReindexInit => CopyInv
<1>. SUFFICES ASSUME ReindexInit PROVE CopyInv
  OBVIOUS
<1>1. 1 \in 1..LastHead BY ReindexAssumption
<1>2. Scanned = {} BY DEF ReindexInit, Scanned
<1>. QED BY <1>1, <1>2 DEF ReindexInit, CopyInv

\* Writing a part of the scan to the write index keeps the copies well formed,
\* is its newest copy for that part, and leaves all others alone.
LEMMA HoldCopies ==
  ASSUME CopyInv, NEW c \in SUBSET unread, Hold(c), UNCHANGED <<destHead, scan>>
  PROVE  /\ copies' \in [1..LastHead -> [Docs -> Nat]]
         /\ \A k \in 1..LastHead : k > destHead => \A d \in Docs : copies'[k][d] = 0
         /\ \A d \in c : Copied(d)'
         /\ \A d \in Docs \ c : Copied(d) => Copied(d)'
<1>1. LastHead \in Nat /\ destHead \in 1..LastHead /\ c \subseteq Docs
  BY ReindexAssumption DEF CopyInv
<1>. DEFINE line == [d \in Docs |-> IF d \in c THEN scan[d] ELSE copies[destHead][d]]
<1>2. copies' = [copies EXCEPT ![destHead] = line] BY DEF Hold
<1>3. line \in [Docs -> Nat] BY <1>1 DEF CopyInv
<1>4. \A d \in c : line[d] = scan[d] BY <1>1
<1>5. \A d \in Docs \ c : line[d] = copies[destHead][d] OBVIOUS
<1>. HIDE DEF line
<1>6. copies' \in [1..LastHead -> [Docs -> Nat]] BY <1>1, <1>2, <1>3 DEF CopyInv
<1>7. copies'[destHead] = line /\ \A k \in 1..LastHead \ {destHead} : copies'[k] = copies[k]
  BY <1>1, <1>2 DEF CopyInv
<1>8. \A k \in 1..LastHead : k > destHead => \A d \in Docs : copies'[k][d] = 0
  BY <1>1, <1>7 DEF CopyInv
<1>9. ASSUME NEW d \in c PROVE Copied(d)'
  <2>1. d \in Docs /\ scan[d] # 0 /\ scan[d] \in Nat
    <3>1. d \in Scanned BY DEF CopyInv
    <3>. QED BY <3>1, <1>1 DEF Scanned, CopyInv
  <2>2. destHead \in Holding(d)' BY <1>1, <1>4, <1>7, <2>1 DEF Holding
  <2>3. \A k \in Holding(d)' : k <= destHead
    <3>1. ASSUME NEW k \in 1..LastHead, k > destHead PROVE k \notin Holding(d)'
      BY <1>8, <2>1, <3>1 DEF Holding
    <3>2. Holding(d)' \subseteq 1..LastHead BY DEF Holding
    <3>. QED BY <1>1, <3>1, <3>2
  <2>4. copies'[destHead][d] = scan[d] BY <1>4, <1>7
  <2>. QED BY <2>2, <2>3, <2>4 DEF Copied
<1>10. ASSUME NEW d \in Docs \ c, Copied(d) PROVE Copied(d)'
  <2>1. \A k \in 1..LastHead : copies'[k][d] = copies[k][d] BY <1>5, <1>7
  <2>2. Holding(d)' = Holding(d) BY <2>1 DEF Holding
  <2>3. Holding(d) \subseteq 1..LastHead BY DEF Holding
  <2>. QED BY <1>10, <2>1, <2>2, <2>3 DEF Copied
<1>. QED BY <1>6, <1>8, <1>9, <1>10

LEMMA CopyNextInv == CopyInv /\ [ReindexNext]_reindexVars => CopyInv'
<1>. SUFFICES ASSUME CopyInv, [ReindexNext]_reindexVars PROVE CopyInv'
  OBVIOUS
<1>1. CASE Open
  <2>1. unread' = Scanned' /\ accepted' = {} /\ failed' = {} /\ Scanned' \subseteq Docs
    BY <1>1 DEF Open, Scanned
  <2>. QED BY <1>1, <2>1 DEF Open, CopyInv
<1>2. CASE Bulk
  <2>1. PICK c \in Chunks : \E refused \in SUBSET c :
          /\ Accepts(c, refused) /\ unread' = unread \ c
          /\ failed' = failed \cup refused /\ accepted' = accepted \cup (c \ refused)
          /\ copying' \in {"copying", "raised"}
    <3>1. PICK c \in Chunks : \E refused \in SUBSET c :
            /\ Accepts(c, refused) /\ unread' = unread \ c
            /\ failed' = failed \cup refused /\ accepted' = accepted \cup (c \ refused)
            /\ copying' = "copying" \/ (refused # {} /\ copying' = "raised")
      BY <1>2 DEF Bulk
    <3>. QED BY <3>1
  <2>2. PICK refused \in SUBSET c :
          /\ Hold(c \ refused) /\ unread' = unread \ c
          /\ failed' = failed \cup refused /\ accepted' = accepted \cup (c \ refused)
          /\ copying' \in {"copying", "raised"}
    BY <2>1 DEF Accepts
  <2>3. c \subseteq unread /\ UNCHANGED <<source, edits, destHead, scan>> /\ copying = "copying"
    BY <1>2 DEF Bulk, Chunks
  <2>4. /\ copies' \in [1..LastHead -> [Docs -> Nat]]
        /\ \A k \in 1..LastHead : k > destHead => \A d \in Docs : copies'[k][d] = 0
        /\ \A d \in c \ refused : Copied(d)'
        /\ \A d \in Docs \ (c \ refused) : Copied(d) => Copied(d)'
    BY <2>2, <2>3, HoldCopies
  <2>5. Scanned' = Scanned BY <2>3 DEF Scanned
  <2>6. \A d \in accepted' : Copied(d)' BY <2>2, <2>3, <2>4 DEF CopyInv
  <2>7. /\ unread' \subseteq Docs /\ failed' \subseteq Docs /\ accepted' \subseteq Docs
        /\ unread' \cup failed' \cup accepted' = Scanned
        /\ unread' \cap failed' = {} /\ unread' \cap accepted' = {} /\ accepted' \cap failed' = {}
    BY <2>2, <2>3 DEF CopyInv
  <2>. QED BY <2>2, <2>3, <2>4, <2>5, <2>6, <2>7 DEF CopyInv
<1>3. CASE BulkFails
  <2>1. /\ copying' = "raised" /\ UNCHANGED <<source, edits, destHead, scan, unread, failed, accepted>>
    BY <1>3 DEF BulkFails
  <2>2. /\ copies' \in [1..LastHead -> [Docs -> Nat]]
        /\ \A k \in 1..LastHead : k > destHead => \A d \in Docs : copies'[k][d] = 0
    <3>1. CASE UNCHANGED copies BY <3>1 DEF CopyInv
    <3>2. CASE \E c \in Chunks : \E taken \in SUBSET c : Hold(taken)
      <4>1. PICK c \in Chunks : \E taken \in SUBSET c : Hold(taken) BY <3>2
      <4>2. PICK taken \in SUBSET c : Hold(taken) BY <4>1
      <4>3. taken \in SUBSET unread BY <4>2 DEF Chunks
      <4>. QED BY <2>1, <4>2, <4>3, HoldCopies
    <3>. QED BY <1>3, <3>1, <3>2 DEF BulkFails
  <2>3. Scanned' = Scanned BY <2>1 DEF Scanned
  <2>. QED BY <2>1, <2>2, <2>3 DEF CopyInv
<1>4. CASE ReportCopied
  BY <1>4 DEF ReportCopied, CopyInv, Copied, Holding, Scanned
<1>5. CASE SourceEdited
  <2>1. source' \in [Docs -> Nat] /\ edits' \in Nat BY <1>5 DEF SourceEdited, CopyInv
  <2>. QED BY <1>5, <2>1 DEF SourceEdited, CopyInv, Copied, Holding, Scanned
<1>6. CASE DestRollsOver
  <2>1. destHead' = destHead + 1 /\ destHead' \in 1..LastHead
    BY <1>6, ReindexAssumption DEF DestRollsOver, CopyInv
  <2>2. \A k \in 1..LastHead : k > destHead' => k > destHead
    BY <2>1 DEF CopyInv
  <2>. QED BY <1>6, <2>1, <2>2 DEF DestRollsOver, CopyInv, Copied, Holding, Scanned
<1>7. CASE UNCHANGED reindexVars
  BY <1>7 DEF reindexVars, CopyInv, Copied, Holding, Scanned
<1>. QED BY <1>1, <1>2, <1>3, <1>4, <1>5, <1>6, <1>7 DEF ReindexNext

\* A report accounts for every document of the scroll, and what it does not
\* count as failed is in the destination as the scroll had it, for every
\* source and chunk size, after any runs, failures, edits and rollovers.
THEOREM EveryDocumentCounts == ReindexSpec => []CopiedOrCounted
<1>1. CopyInv => CopiedOrCounted
  <2>. SUFFICES ASSUME CopyInv, copying = "reported" PROVE
         /\ accepted \cup failed = Scanned /\ accepted \cap failed = {}
         /\ \A d \in accepted : Holding(d) # {} /\ copies[Newest(Holding(d))][d] = scan[d]
    BY DEF CopiedOrCounted
  <2>1. accepted \cup failed = Scanned /\ accepted \cap failed = {} BY DEF CopyInv
  <2>2. ASSUME NEW d \in accepted
        PROVE  Holding(d) # {} /\ copies[Newest(Holding(d))][d] = scan[d]
    <3>1. PICK h \in Holding(d) : (\A k \in Holding(d) : k <= h) /\ copies[h][d] = scan[d]
      BY DEF CopyInv, Copied
    <3>2. Holding(d) \subseteq Nat BY ReindexAssumption DEF Holding
    <3>3. Newest(Holding(d)) = h BY <3>1, <3>2, HeadIsNewest
    <3>. QED BY <3>1, <3>3
  <2>. QED BY <2>1, <2>2
<1>. QED BY CopyInitInv, CopyNextInv, <1>1, PTL DEF ReindexSpec

(**************************** BackgroundJobs *******************************)

\* What is queued is running for who polls it; no two jobs are of one age.
RegistryInv ==
  /\ work \in [Jobs -> {"new", "registered", "queued", "working", "over", "refused", "escaped"}]
  /\ entry \in [Jobs -> {"none", "running"} \cup Finished]
  /\ age \in [Jobs -> Nat]
  /\ queue \in Seq(Jobs)
  /\ \A k \in 1..Len(queue) : work[queue[k]] = "queued"
  /\ \A k, l \in 1..Len(queue) : queue[k] = queue[l] => k = l
  /\ \A j \in Submitted : age[j] < Cardinality(Submitted)
  /\ \A i, j \in Submitted : age[i] = age[j] => i = j
  /\ \A j \in Jobs : work[j] = "new" => entry[j] = "none"
  /\ PollsAreTrue

\* The oldest of what can be evicted, as many as are younger than a bound,
\* are no more than the bound.
LEMMA OldestCounted ==
  ASSUME NEW a \in [Jobs -> Nat], NEW F \in SUBSET Jobs, NEW n \in Nat,
         \A i, j \in F : a[i] = a[j] => i = j
  PROVE  LET E == {j \in F : Cardinality({i \in F : a[i] < a[j]}) < n}
         IN IsFiniteSet(E) /\ Cardinality(E) <= n
<1>. DEFINE Older(j) == {i \in F : a[i] < a[j]}
            E == {j \in F : Cardinality(Older(j)) < n}
            rank == [j \in E |-> Cardinality(Older(j))]
<1>1. \A j \in F : IsFiniteSet(Older(j)) /\ Cardinality(Older(j)) \in Nat
  BY JobsAssumption, FS_Subset, FS_CardinalityType
<1>2. ASSUME NEW i \in F, NEW j \in F, a[i] < a[j]
      PROVE  Cardinality(Older(i)) < Cardinality(Older(j))
  <2>1. Older(i) \in SUBSET Older(j) /\ i \in Older(j) /\ i \notin Older(i)
    BY <1>2
  <2>2. Older(i) # Older(j) BY <2>1
  <2>3. IsFiniteSet(Older(j)) BY <1>1
  <2>. HIDE DEF Older
  <2>4. /\ Cardinality(Older(i)) <= Cardinality(Older(j))
        /\ Cardinality(Older(i)) # Cardinality(Older(j))
    BY <2>1, <2>2, <2>3, FS_Subset
  <2>5. Cardinality(Older(i)) \in Nat /\ Cardinality(Older(j)) \in Nat BY <1>1
  <2>. QED BY <2>4, <2>5
<1>3. rank \in [E -> 0..(n-1)]
  BY <1>1
<1>4. \A i, j \in E : rank[i] = rank[j] => i = j
  <2>. SUFFICES ASSUME NEW i \in E, NEW j \in E, rank[i] = rank[j], i # j PROVE FALSE
    OBVIOUS
  <2>1. a[i] # a[j] /\ a[i] \in Nat /\ a[j] \in Nat OBVIOUS
  <2>2. a[i] < a[j] \/ a[j] < a[i] BY <2>1
  <2>3. Cardinality(Older(i)) = Cardinality(Older(j)) OBVIOUS
  <2>. QED BY <1>1, <1>2, <2>2, <2>3
<1>5. rank \in Injection(E, 0..(n-1)) BY <1>3, <1>4 DEF Injection, IsInjective
<1>6. IsFiniteSet(0..(n-1)) /\ Cardinality(0..(n-1)) = n
  BY FS_Interval
<1>. QED BY <1>5, <1>6, FS_Injection

LEMMA RegistryInitInv == RegistryInit => RegistryInv
BY DEF RegistryInit, RegistryInv, PollsAreTrue, Submitted, Finished

\* Only what is queued is in the queue.
LEMMA QueueHolds ==
  ASSUME RegistryInv, NEW j \in Jobs, work[j] # "queued"
  PROVE  \A k \in 1..Len(queue) : queue[k] \in Jobs /\ queue[k] # j
<1>1. queue \in Seq(Jobs) /\ \A k \in 1..Len(queue) : work[queue[k]] = "queued"
  BY DEF RegistryInv
<1>. QED BY <1>1

\* Registering evicts down to keep_last and no further, and no job at work.
LEMMA RegisterKeeps ==
  ASSUME RegistryInv, NEW j \in Jobs, Register(j)
  PROVE  RegistryInv'
<1>. DEFINE e == [entry EXCEPT ![j] = "running"]
            R == {i \in Jobs : e[i] # "none"}
            F == Evictable(e)
            E == {i \in F : Evicted(e, i)}
<1>1. /\ work[j] = "new" /\ entry[j] = "none"
      /\ work' = [work EXCEPT ![j] = "registered"]
      /\ age' = [age EXCEPT ![j] = Cardinality(Submitted)]
      /\ entry' = [i \in Jobs |-> IF i \in F /\ Evicted(e, i) THEN "none" ELSE e[i]]
      /\ UNCHANGED <<open, queue>>
  BY DEF Register, RegistryInv
<1>2. Submitted' = Submitted \cup {j} /\ j \notin Submitted
  BY <1>1 DEF Submitted, RegistryInv
<1>3. IsFiniteSet(Submitted) /\ Cardinality(Submitted) \in Nat
      /\ Cardinality(Submitted') = Cardinality(Submitted) + 1
  BY <1>2, JobsAssumption, FS_Subset, FS_CardinalityType, FS_AddElement DEF Submitted
<1>4. age' \in [Jobs -> Nat] /\ \A i \in Submitted : age'[i] = age[i]
  BY <1>1, <1>2, <1>3 DEF RegistryInv
<1>5. age'[j] = Cardinality(Submitted) BY <1>1 DEF RegistryInv
<1>6. \A i \in Submitted' : age'[i] < Cardinality(Submitted)'
  <2>. DEFINE n == Cardinality(Submitted)
  <2>1. \A i \in Submitted : age[i] < n /\ age[i] \in Nat BY DEF RegistryInv, Submitted
  <2>2. n \in Nat /\ Cardinality(Submitted)' = n + 1 BY <1>3
  <2>3. age'[j] = n BY <1>5
  <2>4. \A i \in Submitted : age'[i] < n + 1
    <3>. HIDE DEF n
    <3>. QED BY <1>4, <2>1, <2>2
  <2>5. age'[j] < n + 1 BY <2>2, <2>3
  <2>. QED BY <1>2, <2>2, <2>4, <2>5
<1>7. \A i, k \in Submitted' : age'[i] = age'[k] => i = k
  <2>. SUFFICES ASSUME NEW i \in Submitted', NEW k \in Submitted', age'[i] = age'[k]
                PROVE  i = k
    OBVIOUS
  <2>1. CASE i = j /\ k = j BY <2>1
  <2>2. CASE i # j /\ k # j BY <1>2, <1>4, <2>2 DEF RegistryInv
  <2>3. CASE i = j /\ k # j
    <3>1. k \in Submitted BY <1>2, <2>3
    <3>2. age[k] < Cardinality(Submitted) /\ age[k] \in Nat BY <3>1 DEF RegistryInv, Submitted
    <3>3. age'[k] = age[k] /\ age'[i] = Cardinality(Submitted) BY <1>4, <1>5, <2>3, <3>1
    <3>4. age[k] # Cardinality(Submitted) BY <1>3, <3>2
    <3>. QED BY <3>3, <3>4
  <2>4. CASE i # j /\ k = j
    <3>1. i \in Submitted BY <1>2, <2>4
    <3>2. age[i] < Cardinality(Submitted) /\ age[i] \in Nat BY <3>1 DEF RegistryInv, Submitted
    <3>3. age'[i] = age[i] /\ age'[k] = Cardinality(Submitted) BY <1>4, <1>5, <2>4, <3>1
    <3>4. age[i] # Cardinality(Submitted) BY <1>3, <3>2
    <3>. QED BY <3>3, <3>4
  <2>. QED BY <2>1, <2>2, <2>3, <2>4
<1>8. e \in [Jobs -> {"none", "running"} \cup Finished] /\ F \in SUBSET Jobs
      /\ \A i \in F : e[i] \in Finished /\ i # j
  BY <1>1 DEF RegistryInv, Evictable, Finished
<1>9. F \subseteq Submitted
  BY <1>1, <1>8 DEF Submitted, RegistryInv, Finished
<1>10. IsFiniteSet(R) /\ Cardinality(R) \in Nat /\ KeepLast \in Nat
  BY JobsAssumption, FS_Subset, FS_CardinalityType
<1>11. Registered' = R \ E /\ E \in SUBSET R
  BY <1>1, <1>8 DEF Registered, Finished
<1>12. E = {} \/ Cardinality(Registered') >= KeepLast
  <2>. SUFFICES ASSUME E # {} PROVE Cardinality(Registered') >= KeepLast
    OBVIOUS
  <2>1. DEFINE n == Cardinality(R) - KeepLast
  <2>2. E = {i \in F : Cardinality({k \in F : age[k] < age[i]}) < n}
    BY DEF Evicted
  <2>3. n \in Nat
    <3>1. PICK i \in F : Cardinality({k \in F : age[k] < age[i]}) < n
      BY <2>2
    <3>2. Cardinality({k \in F : age[k] < age[i]}) \in Nat
      BY <1>8, JobsAssumption, FS_Subset, FS_CardinalityType
    <3>. QED BY <1>10, <3>1, <3>2
  <2>4. Cardinality(E) <= n /\ IsFiniteSet(E)
    <3>1. \A i, k \in F : age[i] = age[k] => i = k BY <1>9 DEF RegistryInv
    <3>2. age \in [Jobs -> Nat] BY DEF RegistryInv
    <3>3. F \in SUBSET Jobs BY <1>8
    <3>. HIDE DEF n, F, E
    <3>. QED BY <2>2, <2>3, <3>1, <3>2, <3>3, OldestCounted
  <2>5. Cardinality(R \ E) = Cardinality(R) - Cardinality(E) /\ Cardinality(E) \in Nat
    <3>1. R \cap E = E BY <1>11
    <3>. QED BY <1>10, <2>4, <3>1, FS_Difference, FS_CardinalityType
  <2>. QED BY <1>10, <1>11, <2>4, <2>5
<1>13. E = {} => Registered' = Registered \cup {j}
  <2>1. E = {} => Registered' = R BY <1>11
  <2>2. R = Registered \cup {j} BY <1>1 DEF Registered, RegistryInv
  <2>. QED BY <2>1, <2>2
<1>14. Cardinality(Registered) >= KeepLast => Cardinality(Registered') >= KeepLast
  <2>1. IsFiniteSet(Registered) /\ Cardinality(Registered) \in Nat
    BY JobsAssumption, FS_Subset, FS_CardinalityType DEF Registered
  <2>2. Cardinality(Registered \cup {j}) \in {Cardinality(Registered), Cardinality(Registered) + 1}
    BY <2>1, FS_AddElement
  <2>3. E = {} => Cardinality(Registered') = Cardinality(Registered \cup {j}) BY <1>13
  <2>. DEFINE k == Cardinality(Registered)
              m == Cardinality(Registered \cup {j})
              l == Cardinality(Registered')
  <2>4. k \in Nat /\ (m = k \/ m = k + 1) /\ (E = {} => l = m) BY <2>1, <2>2, <2>3
  <2>5. E = {} \/ l >= KeepLast BY <1>12
  <2>. HIDE DEF k, m, l, E
  <2>6. k >= KeepLast => l >= KeepLast BY <1>10, <2>4, <2>5
  <2>. QED BY <2>6 DEF k, l
<1>15. \A i \in Jobs : i # j => work'[i] = work[i] /\ (entry'[i] = entry[i] \/ i \in E)
  BY <1>1 DEF RegistryInv
<1>16. work'[j] = "registered" /\ entry'[j] = "running"
  BY <1>1, <1>8 DEF RegistryInv
<1>17. \A i \in Jobs : i \in E => entry[i] \in Finished /\ entry'[i] = "none"
  BY <1>1, <1>8 DEF RegistryInv
<1>18. PollsAreTrue'
  <2>. SUFFICES ASSUME NEW i \in Jobs PROVE
         /\ work'[i] \in {"registered", "queued", "working"} => entry'[i] = "running"
         /\ entry'[i] = "running" =>
              work'[i] \in {"registered", "queued", "working", "refused", "escaped"}
         /\ work'[i] = "over" /\ entry'[i] = "none" => Cardinality(Registered') >= KeepLast
    BY DEF PollsAreTrue
  <2>1. CASE i = j BY <1>16, <2>1
  <2>2. CASE i # j /\ i \in E
    BY <1>12, <1>15, <1>17, <2>2 DEF RegistryInv, PollsAreTrue, Finished
  <2>3. CASE i # j /\ i \notin E
    BY <1>14, <1>15, <2>3 DEF RegistryInv, PollsAreTrue
  <2>. QED BY <2>1, <2>2, <2>3
<1>19. /\ work' \in [Jobs -> {"new", "registered", "queued", "working", "over", "refused", "escaped"}]
       /\ entry' \in [Jobs -> {"none", "running"} \cup Finished]
  BY <1>1, <1>8 DEF RegistryInv
<1>20. /\ \A k \in 1..Len(queue') : work'[queue'[k]] = "queued"
       /\ \A k, l \in 1..Len(queue') : queue'[k] = queue'[l] => k = l
       /\ queue' \in Seq(Jobs)
  <2>1. \A k \in 1..Len(queue) : queue[k] \in Jobs /\ queue[k] # j
    BY <1>1 DEF RegistryInv
  <2>. QED BY <1>1, <1>15, <2>1 DEF RegistryInv
<1>21. \A i \in Jobs : work'[i] = "new" => entry'[i] = "none"
  <2>1. \A i \in Jobs : work'[i] = "new" => i # j BY <1>16
  <2>. QED BY <1>15, <1>17, <2>1 DEF RegistryInv
<1>. QED BY <1>4, <1>6, <1>7, <1>18, <1>19, <1>20, <1>21 DEF RegistryInv

LEMMA RegistryNextInv == RegistryInv /\ [RegistryNext]_registryVars => RegistryInv'
<1>. SUFFICES ASSUME RegistryInv, [RegistryNext]_registryVars PROVE RegistryInv'
  OBVIOUS
<1>1. ASSUME NEW j \in Jobs, HandOver(j) PROVE RegistryInv'
  <2>1. work[j] = "registered" /\ UNCHANGED <<open, entry, age>> BY <1>1 DEF HandOver
  <2>2. Submitted' = Submitted
    BY <1>1 DEF HandOver, Submitted, RegistryInv
  <2>3. Registered' = Registered BY <2>1 DEF Registered
  <2>4. CASE open
    <3>1. work' = [work EXCEPT ![j] = "queued"] /\ queue' = Append(queue, j)
      BY <1>1, <2>4 DEF HandOver
    <3>2. /\ queue' \in Seq(Jobs) /\ Len(queue') = Len(queue) + 1 /\ Len(queue) \in Nat
          /\ queue'[Len(queue) + 1] = j
          /\ \A k \in 1..Len(queue) : queue'[k] = queue[k] /\ queue[k] \in Jobs /\ queue[k] # j
      <4>1. \A k \in 1..Len(queue) : queue[k] \in Jobs /\ queue[k] # j BY <2>1, QueueHolds
      <4>2. queue \in Seq(Jobs) BY DEF RegistryInv
      <4>. QED BY <3>1, <4>1, <4>2
    <3>3. \A k \in 1..Len(queue') : k \in 1..Len(queue) \/ k = Len(queue) + 1
      BY <3>2
    <3>4. \A k \in 1..Len(queue') : work'[queue'[k]] = "queued"
      <4>1. \A k \in 1..Len(queue) : work'[queue'[k]] = "queued"
        BY <3>1, <3>2 DEF RegistryInv
      <4>2. work'[queue'[Len(queue) + 1]] = "queued" BY <3>1, <3>2 DEF RegistryInv
      <4>. QED BY <3>3, <4>1, <4>2
    <3>5. \A k, l \in 1..Len(queue') : queue'[k] = queue'[l] => k = l
      <4>1. \A k, l \in 1..Len(queue) : queue[k] = queue[l] => k = l BY DEF RegistryInv
      <4>. QED BY <3>2, <3>3, <4>1
    <3>6. PollsAreTrue' BY <2>1, <2>3, <3>1 DEF RegistryInv, PollsAreTrue
    <3>. QED BY <2>1, <2>2, <3>1, <3>2, <3>4, <3>5, <3>6 DEF RegistryInv
  <2>5. CASE ~open
    <3>1. work' = [work EXCEPT ![j] = "refused"] /\ queue' = queue
      BY <1>1, <2>5 DEF HandOver
    <3>2. \A k \in 1..Len(queue) : queue[k] \in Jobs /\ queue[k] # j
      BY <2>1, QueueHolds
    <3>3. PollsAreTrue' BY <2>1, <2>3, <3>1 DEF RegistryInv, PollsAreTrue
    <3>. QED BY <2>1, <2>2, <3>1, <3>2, <3>3 DEF RegistryInv
  <2>. QED BY <2>4, <2>5
<1>2. ASSUME Take PROVE RegistryInv'
  <2>. DEFINE j == Head(queue)
  <2>1. /\ queue # <<>> /\ work' = [work EXCEPT ![j] = "working"]
        /\ queue' = Tail(queue) /\ UNCHANGED <<open, entry, age>>
    BY <1>2 DEF Take
  <2>2. /\ Len(queue) \in Nat \ {0} /\ j = queue[1] /\ j \in Jobs /\ work[j] = "queued"
        /\ queue' \in Seq(Jobs) /\ Len(queue') = Len(queue) - 1
        /\ \A k \in 1..Len(queue') : queue'[k] = queue[k + 1] /\ k + 1 \in 1..Len(queue)
    BY <2>1 DEF RegistryInv
  <2>3. Submitted' = Submitted /\ Registered' = Registered
    BY <2>1, <2>2 DEF Submitted, Registered, RegistryInv
  <2>4. \A k \in 1..Len(queue') : queue'[k] # j /\ queue'[k] \in Jobs
    <3>1. \A k, l \in 1..Len(queue) : queue[k] = queue[l] => k = l BY DEF RegistryInv
    <3>2. queue \in Seq(Jobs) /\ j = queue[1] /\ Len(queue) \in Nat \ {0} BY <2>2 DEF RegistryInv
    <3>. HIDE DEF j
    <3>3. ASSUME NEW k \in 1..Len(queue') PROVE queue'[k] # j /\ queue'[k] \in Jobs
      <4>1. queue'[k] = queue[k + 1] /\ k + 1 \in 1..Len(queue) /\ k + 1 # 1 BY <2>2
      <4>2. 1 \in 1..Len(queue) BY <3>2
      <4>. QED BY <3>1, <3>2, <4>1, <4>2
    <3>. QED BY <3>3
  <2>5. /\ \A k \in 1..Len(queue') : work'[queue'[k]] = "queued"
        /\ \A k, l \in 1..Len(queue') : queue'[k] = queue'[l] => k = l
    BY <2>1, <2>2, <2>4 DEF RegistryInv
  <2>6. PollsAreTrue' BY <2>1, <2>2, <2>3 DEF RegistryInv, PollsAreTrue
  <2>. QED BY <2>1, <2>2, <2>3, <2>5, <2>6 DEF RegistryInv
<1>3. ASSUME NEW j \in Jobs, Run(j) PROVE RegistryInv'
  <2>1. PICK s \in Finished : entry' = [entry EXCEPT ![j] = IF @ = "none" THEN @ ELSE s]
    BY <1>3 DEF Run
  <2>2. /\ work[j] = "working" /\ entry[j] = "running" /\ UNCHANGED <<open, age, queue>>
        /\ work' = [work EXCEPT ![j] = "over"] /\ entry' = [entry EXCEPT ![j] = s]
    BY <1>3, <2>1 DEF Run, RegistryInv, PollsAreTrue
  <2>3. Submitted' = Submitted /\ Registered' = Registered
    BY <2>1, <2>2 DEF Submitted, Registered, RegistryInv, Finished
  <2>4. \A k \in 1..Len(queue) : queue[k] \in Jobs /\ queue[k] # j
    BY <2>2, QueueHolds
  <2>5. PollsAreTrue' BY <2>2, <2>3 DEF RegistryInv, PollsAreTrue, Finished
  <2>. QED BY <2>2, <2>3, <2>4, <2>5 DEF RegistryInv
<1>4. ASSUME NEW j \in Jobs, Escape(j) PROVE RegistryInv'
  <2>1. /\ work[j] = "working" /\ UNCHANGED <<open, entry, age, queue>>
        /\ work' = [work EXCEPT ![j] = "escaped"]
    BY <1>4 DEF Escape
  <2>2. Submitted' = Submitted /\ Registered' = Registered
    BY <2>1 DEF Submitted, Registered, RegistryInv
  <2>3. \A k \in 1..Len(queue) : queue[k] \in Jobs /\ queue[k] # j
    BY <2>1, QueueHolds
  <2>4. PollsAreTrue' BY <2>1, <2>2 DEF RegistryInv, PollsAreTrue
  <2>. QED BY <2>1, <2>2, <2>3, <2>4 DEF RegistryInv
<1>5. ASSUME Shutdown \/ UNCHANGED registryVars PROVE RegistryInv'
  <2>1. UNCHANGED <<work, entry, age, queue>> BY <1>5 DEF Shutdown, registryVars
  <2>2. Submitted' = Submitted /\ Registered' = Registered
    BY <2>1 DEF Submitted, Registered
  <2>3. PollsAreTrue' BY <2>1, <2>2 DEF RegistryInv, PollsAreTrue
  <2>. QED BY <2>1, <2>2, <2>3 DEF RegistryInv
<1>. QED BY <1>1, <1>2, <1>3, <1>4, <1>5, RegisterKeeps DEF RegistryNext

\* A poll is true, and a finished job is forgotten only when keep_last others
\* are there, for any jobs, any pool and any keep_last.
THEOREM PollsAreHonest == RegistrySpec => []PollsAreTrue
<1>1. RegistryInv => PollsAreTrue BY DEF RegistryInv
<1>. QED BY RegistryInitInv, RegistryNextInv, <1>1, PTL DEF RegistrySpec
=============================================================================
