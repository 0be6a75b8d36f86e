---------------------------- MODULE StoreProofs ----------------------------
(* Proofs about what is kept in OpenSearch and MinIO: for every value of    *)
(* the constants, what the run of MCServices checks on small ones.          *)
EXTENDS HourCoverage, Retention, MemberDirectory, RolloverFamily, SearchPages,
        CollectFiles, Integers, FunctionTheorems, FiniteSetTheorems,
        SequenceTheorems, TLAPS

(**************************** HourCoverage *********************************)

Sparse(cells, h) == Cardinality(At(cells, h)) <= TermSize

LEMMA SparseOrCrowded == \A h : Sparse(truth, h) <=> ~Crowded(h)
<1>. TAKE h
<1>1. At(truth, h) \subseteq Fabs BY DEF At
<1>2. Cardinality(At(truth, h)) \in Nat
  BY <1>1, CoverageAssumption, FS_Subset, FS_CardinalityType
<1>. QED BY <1>2, CoverageAssumption DEF Sparse, Crowded

\* What the answer is worth while the check has it: it tells no more than was
\* held, and all of an hour that was closed and not crowded; and the report is
\* the grid without it.
AnswerInv ==
  /\ hour \in Int /\ here \in Int /\ asked \in Int /\ top \in Int
  /\ phase \in {"asked", "reported"} =>
       /\ buckets \subseteq truth
       /\ \A h \in Closed(asked) : Sparse(truth, h) => At(buckets, h) = At(truth, h)
  /\ phase = "reported" => records = (Known \X Grid(top)) \ buckets

LEMMA AnswerInit == CoverageInit => AnswerInv
BY CoverageAssumption DEF CoverageInit, AnswerInv

LEMMA AnswerNext == AnswerInv /\ [CoverageNext]_coverageVars => AnswerInv'
<1>. SUFFICES ASSUME AnswerInv, [CoverageNext]_coverageVars PROVE AnswerInv' OBVIOUS
<1>1. CASE HourPasses BY <1>1 DEF HourPasses, AnswerInv, Closed, Sparse, At, Grid
<1>2. CASE HourPassesHere BY <1>2 DEF HourPassesHere, AnswerInv, Closed, Sparse, At, Grid
<1>3. CASE \E f \in Fabs : Index(f) BY <1>3 DEF Index, AnswerInv, Closed, Sparse, At, Grid
<1>4. CASE Ask
  <2>1. buckets' \subseteq truth' BY <1>4 DEF Ask
  <2>2. ASSUME NEW h \in Closed(asked'), Sparse(truth, h)'
        PROVE  (At(buckets, h) = At(truth, h))'
    <3>1. h \in Closed(hour) /\ truth' = held BY <1>4, <2>2 DEF Ask
    <3>2. IF Cardinality(At(held, h)) <= TermSize THEN At(buckets', h) = At(held, h)
          ELSE Cardinality(At(buckets', h)) = TermSize
      BY <1>4, <3>1 DEF Ask
    <3>3. Cardinality(At(held, h)) <= TermSize
      BY <2>2, <3>1 DEF Sparse, At
    <3>. QED BY <3>1, <3>2, <3>3 DEF At
  <2>3. phase' = "asked" /\ hour' \in Int /\ here' \in Int /\ asked' \in Int /\ top' \in Int
    BY <1>4 DEF Ask, AnswerInv
  <2>. QED BY <2>1, <2>2, <2>3 DEF AnswerInv, Closed
<1>5. CASE Report BY <1>5 DEF Report, AnswerInv, Closed, Sparse, At, Grid
<1>6. CASE NextCheck BY <1>6 DEF NextCheck, AnswerInv
<1>7. CASE UNCHANGED coverageVars
  BY <1>7 DEF coverageVars, AnswerInv, Closed, Sparse, At, Grid
<1>. QED BY <1>1, <1>2, <1>3, <1>4, <1>5, <1>6, <1>7 DEF CoverageNext

\* Whatever is indexed between the question and the report, and however far
\* the two clocks are apart: of the hours closed on both, every empty cell is
\* reported, and no other of an hour with at most TermSize fabs.
THEOREM GapsAreReported == CoverageSpec => []GapsReported
<1>1. AnswerInv => GapsReported
  <2>. SUFFICES ASSUME AnswerInv, phase = "reported",
                       NEW f \in Known, NEW h \in Closed(asked) \cap Closed(top)
                PROVE  /\ <<f, h>> \notin truth => <<f, h>> \in records
                       /\ <<f, h>> \in records => <<f, h>> \notin truth \/ Crowded(h)
    BY DEF GapsReported
  <2>1. <<f, h>> \in records <=> <<f, h>> \notin buckets
    BY DEF AnswerInv, Grid
  <2>2. f \in Fabs BY CoverageAssumption
  <2>3. ~Crowded(h) => (<<f, h>> \in buckets <=> <<f, h>> \in truth)
    BY <2>2, SparseOrCrowded DEF AnswerInv, At
  <2>4. buckets \subseteq truth BY DEF AnswerInv
  <2>. QED BY <2>1, <2>3, <2>4
<1>. QED BY AnswerInit, AnswerNext, <1>1, PTL DEF CoverageSpec

(***************************** Retention ***********************************)

\* What a purge has found or has at hand lies before the window, whatever is
\* written, as long as every run began with ingestion near enough.
BeforeWindow(d) == d < newest - Window
WindowInv ==
  rule # "age" /\ ~lagged =>
    /\ \A d \in swept \cup days : BeforeWindow(d)
    /\ \A o \in todo : stamp[o] # NoDay /\ BeforeWindow(stamp[o])

\* What the run has removed, is about to or has still to visit is what was
\* overdue, less what errors left.
RunInv ==
  /\ victims \cup todo \subseteq overdue \cup touched
  /\ pc \in {"walking", "removing"} =>
       \A o \in Objects \ (overdue \cup touched) : stamp[o] \notin days
  /\ pc # "idle" /\ ~dry /\ ~errors =>
       \A o \in overdue : o \in victims \cup touched \cup todo \/ stamp[o] \in days
  /\ pc = "walking" \/ (pc = "done" /\ ~dry) => todo = {}
  /\ pc = "done" \/ rule = "age" => days = {}

RetentionInv == RetentionTypeOK /\ WindowInv /\ RunInv

LEMMA RetentionInitInv == RetentionInit => RetentionInv
<1>. SUFFICES ASSUME RetentionInit PROVE RetentionInv OBVIOUS
<1>1. dry \in BOOLEAN /\ errors \in BOOLEAN /\ lagged \in BOOLEAN
  BY DEF RetentionInit
<1>2. RetentionTypeOK
  BY <1>1, RetentionAssumption DEF RetentionInit, RetentionTypeOK, NoDay
<1>. QED BY <1>2 DEF RetentionInit, RetentionInv, WindowInv, RunInv

\* Objects that go are swept from their days, and keep no stamp.
LEMMA GoneSweeps ==
  ASSUME RetentionInv, NEW os \in SUBSET todo, Gone(os)
  PROVE  /\ stamp' \in [Objects -> {NoDay} \cup 0..LastDay]
         /\ \A o \in Objects : stamp'[o] = IF o \in os THEN NoDay ELSE stamp[o]
         /\ swept' \subseteq 0..LastDay /\ victims' \subseteq Objects
         /\ rule # "age" /\ ~lagged => \A d \in swept' : BeforeWindow(d)
         /\ NoDay \notin days
<1>. todo \subseteq Objects /\ stamp \in [Objects -> {NoDay} \cup 0..LastDay]
  BY DEF RetentionInv, RetentionTypeOK
<1>1. /\ stamp' = [o \in Objects |-> IF o \in os THEN NoDay ELSE stamp[o]]
      /\ swept' = (swept \cup {stamp[o] : o \in os}) \ {NoDay}
      /\ victims' = victims \cup os
  BY DEF Gone
<1>2. stamp' \in [Objects -> {NoDay} \cup 0..LastDay] BY <1>1
<1>3. \A o \in Objects : stamp'[o] = IF o \in os THEN NoDay ELSE stamp[o] BY <1>1
<1>4. swept' \subseteq 0..LastDay
  <2>1. \A o \in os : stamp[o] \in {NoDay} \cup 0..LastDay OBVIOUS
  <2>2. swept \subseteq 0..LastDay BY DEF RetentionInv, RetentionTypeOK
  <2>. QED BY <1>1, <2>1, <2>2
<1>5. victims' \subseteq Objects BY <1>1 DEF RetentionInv, RetentionTypeOK
<1>6. rule # "age" /\ ~lagged => \A d \in swept' : BeforeWindow(d)
  BY <1>1 DEF RetentionInv, WindowInv
<1>7. NoDay \notin days BY DEF RetentionInv, RetentionTypeOK, NoDay
<1>. QED BY <1>2, <1>3, <1>4, <1>5, <1>6, <1>7

LEMMA PutKeeps == ASSUME RetentionInv, NEW o \in Objects, Put(o) PROVE RetentionInv'
<1>. RetentionTypeOK /\ WindowInv /\ RunInv BY DEF RetentionInv
<1>1. PICK d \in 0..LastDay :
        /\ stamp' = [stamp EXCEPT ![o] = d]
        /\ newest' = IF d > newest THEN d ELSE newest
        /\ rule # "age" /\ stamp[o] # NoDay => d = stamp[o]
  <2>1. PICK d \in IF rule = "age" THEN {today}
                   ELSE IF stamp[o] # NoDay THEN {stamp[o]} ELSE 0..today :
          stamp' = [stamp EXCEPT ![o] = d] /\ newest' = IF d > newest THEN d ELSE newest
    BY DEF Put
  <2>2. stamp[o] \in {NoDay} \cup 0..LastDay /\ today \in 0..LastDay BY DEF RetentionTypeOK
  <2>3. d \in 0..LastDay BY <2>1, <2>2, RetentionAssumption
  <2>. QED BY <2>1, <2>3
<1>2. RetentionTypeOK'
  <2>1. dry' \in BOOLEAN /\ errors' \in BOOLEAN /\ lagged' \in BOOLEAN
    BY DEF RetentionTypeOK, Put, found
  <2>. QED BY <1>1, <2>1, RetentionAssumption DEF RetentionTypeOK, Put, found, removed
<1>3. newest' >= newest BY <1>1, RetentionAssumption DEF RetentionTypeOK
<1>4. WindowInv'
  <2>. SUFFICES ASSUME rule # "age", ~lagged
                PROVE  /\ \A e \in swept \cup days : e < newest' - Window
                       /\ \A p \in todo : stamp'[p] # NoDay /\ stamp'[p] < newest' - Window
    BY DEF WindowInv, BeforeWindow, Put, found, removed
  <2>1. \A e \in swept \cup days : e \in Int /\ e < newest - Window
    BY DEF WindowInv, BeforeWindow, RetentionTypeOK
  <2>2. \A p \in todo : stamp[p] \in Int /\ stamp[p] # NoDay /\ stamp[p] < newest - Window
    BY DEF WindowInv, BeforeWindow, RetentionTypeOK, NoDay
  <2>3. \A p \in todo : stamp'[p] = stamp[p]
    BY <1>1, <2>2 DEF RetentionTypeOK
  <2>4. newest \in Int /\ newest' \in Int /\ Window \in Int
    BY <1>2, RetentionAssumption DEF RetentionTypeOK
  <2>5. \A e \in swept \cup days : e < newest' - Window BY <1>3, <2>1, <2>4
  <2>6. \A p \in todo : stamp[p] < newest' - Window BY <1>3, <2>2, <2>4
  <2>. QED BY <2>2, <2>3, <2>5, <2>6
<1>5. RunInv' BY <1>1 DEF RunInv, RetentionTypeOK, Put, found, removed
<1>. QED BY <1>2, <1>4, <1>5 DEF RetentionInv

LEMMA BeginKeeps == ASSUME RetentionInv, Begin PROVE RetentionInv'
<1>. RetentionTypeOK /\ WindowInv /\ RunInv BY DEF RetentionInv
<1>1. PICK t \in Todays :
        /\ cutoff' = t - Keep
        /\ overdue' = {o \in Objects : Expired(stamp[o], t - Keep)}
  BY DEF Begin
<1>2. t \in Int /\ t <= today BY DEF Todays, RetentionTypeOK
<1>3. RetentionTypeOK'
  <2>1. dry' \in BOOLEAN /\ errors' \in BOOLEAN /\ lagged' \in BOOLEAN
    BY DEF Begin
  <2>2. days' \subseteq 0..LastDay /\ todo' \subseteq Objects /\ overdue' \subseteq Objects
    BY <1>1 DEF Begin, RetentionTypeOK, Expired, NoDay
  <2>3. cutoff' \in Int BY <1>1, <1>2, RetentionAssumption
  <2>4. pc' \in {"idle", "walking", "removing", "done"} BY DEF Begin
  <2>. QED BY <2>1, <2>2, <2>3, <2>4 DEF RetentionTypeOK, Begin
<1>4. WindowInv'
  <2>. SUFFICES ASSUME rule # "age", ~lagged'
                PROVE  /\ \A d \in swept \cup days' : d < newest - Window
                       /\ todo' = {}
    BY DEF WindowInv, BeforeWindow, Begin
  <2>1. ~lagged /\ ~(today - newest > Slack) BY DEF Begin
  <2>2. \A d \in swept : d < newest - Window BY <2>1 DEF WindowInv, BeforeWindow
  <2>3. ASSUME NEW d \in days' PROVE d < newest - Window
    <3>1. PICK o \in Objects : d = stamp[o] /\ Expired(stamp[o], t - Keep)
      BY <1>1, <2>3 DEF Begin
    <3>2. d \in Int BY <3>1 DEF RetentionTypeOK, NoDay
    <3>3. today \in Int /\ newest \in Int BY DEF RetentionTypeOK
    <3>. QED BY <1>2, <2>1, <3>1, <3>2, <3>3, RetentionAssumption DEF Expired, Slack
  <2>. QED BY <2>2, <2>3 DEF Begin
<1>5. RunInv'
  <2>1. rule # "age" => days' = {stamp[o] : o \in overdue'} /\ todo' = {} /\ pc' = "walking"
    BY DEF Begin
  <2>2. rule = "age" => days' = {} /\ todo' = overdue' /\ pc' \in {"done", "removing"}
                        /\ (pc' = "done" => dry')
    BY DEF Begin
  <2>3. \A o \in Objects \ overdue' : stamp[o] \notin {stamp[p] : p \in overdue'}
    BY <1>1
  <2>4. touched' = {} /\ victims' = {} /\ rule' = rule /\ stamp' = stamp
    BY DEF Begin
  <2>. QED BY <2>1, <2>2, <2>3, <2>4 DEF RunInv
<1>. QED BY <1>3, <1>4, <1>5 DEF RetentionInv

LEMMA VisitKeeps == ASSUME RetentionInv, Visit PROVE RetentionInv'
<1>. RetentionTypeOK /\ WindowInv /\ RunInv BY DEF RetentionInv
<1>1. NextDays \subseteq days BY DEF NextDays
<1>2. RetentionTypeOK'
  <2>1. dry' \in BOOLEAN /\ errors' \in BOOLEAN /\ lagged' \in BOOLEAN
    BY DEF Visit, RetentionTypeOK, found
  <2>. QED BY <2>1 DEF Visit, RetentionTypeOK, found, removed
<1>3. WindowInv'
  BY <1>1 DEF Visit, WindowInv, BeforeWindow, RetentionTypeOK, NoDay, found, removed
<1>4. RunInv'
  BY <1>1 DEF Visit, RunInv, RetentionTypeOK, found, removed
<1>. QED BY <1>2, <1>3, <1>4 DEF RetentionInv

LEMMA RemoveKeeps == ASSUME RetentionInv, Remove PROVE RetentionInv'
<1>. RetentionTypeOK /\ WindowInv /\ RunInv BY DEF RetentionInv
<1>1. PICK left \in SUBSET todo : Gone(todo \ left) /\ errors' = ErrorsSeen(left)
  BY DEF Remove
<1>2. /\ stamp' \in [Objects -> {NoDay} \cup 0..LastDay]
      /\ \A o \in Objects : stamp'[o] = IF o \in todo \ left THEN NoDay ELSE stamp[o]
      /\ swept' \subseteq 0..LastDay /\ victims' \subseteq Objects
      /\ rule # "age" /\ ~lagged => \A d \in swept' : BeforeWindow(d)
      /\ NoDay \notin days
  BY <1>1, GoneSweeps
<1>3. RetentionTypeOK'
  <2>1. dry' \in BOOLEAN /\ errors' \in BOOLEAN /\ lagged' \in BOOLEAN
    BY <1>1 DEF Remove, RetentionTypeOK, found, ErrorsSeen
  <2>. QED BY <1>2, <2>1 DEF Remove, RetentionTypeOK, found
<1>4. WindowInv' BY <1>2 DEF Remove, WindowInv, BeforeWindow, found
<1>5. RunInv'
  <2>1. victims' = victims \cup (todo \ left) BY <1>1 DEF Gone
  <2>2. ~errors' => ~errors /\ left = {} BY <1>1 DEF ErrorsSeen
  <2>3. todo' = {} /\ days' = days /\ rule' = rule /\ dry' = dry /\ pc = "removing"
        /\ overdue' = overdue /\ touched' = touched
        /\ pc' = (IF rule = "age" THEN "done" ELSE "walking")
    BY DEF Remove, found
  <2>4. victims' \cup todo' \subseteq overdue' \cup touched'
    BY <2>1, <2>3 DEF RunInv
  <2>5. \A o \in Objects \ (overdue \cup touched) : stamp'[o] \notin days
    BY <1>2, <2>3 DEF RunInv
  <2>6. ~dry /\ ~errors' =>
          \A o \in overdue : o \in victims' \cup touched \/ stamp'[o] \in days
    BY <1>2, <2>1, <2>2, <2>3 DEF RunInv, RetentionTypeOK
  <2>. QED BY <2>3, <2>4, <2>5, <2>6 DEF RunInv
<1>. QED BY <1>3, <1>4, <1>5 DEF RetentionInv

LEMMA BreaksKeeps == ASSUME RetentionInv, Breaks PROVE RetentionInv'
<1>. RetentionTypeOK /\ WindowInv /\ RunInv BY DEF RetentionInv
<1>1. PICK os \in SUBSET todo : Gone(os) BY DEF Breaks
<1>2. /\ stamp' \in [Objects -> {NoDay} \cup 0..LastDay]
      /\ swept' \subseteq 0..LastDay /\ victims' \subseteq Objects
      /\ rule # "age" /\ ~lagged => \A d \in swept' : BeforeWindow(d)
  BY <1>1, GoneSweeps
<1>3. RetentionTypeOK'
  <2>1. dry' \in BOOLEAN /\ errors' \in BOOLEAN /\ lagged' \in BOOLEAN
    BY DEF Breaks, RetentionTypeOK, found
  <2>. QED BY <1>2, <2>1 DEF Breaks, RetentionTypeOK, found
<1>4. WindowInv' BY <1>2 DEF Breaks, WindowInv, BeforeWindow, found
<1>5. RunInv'
  <2>1. victims' = victims \cup os BY <1>1 DEF Gone
  <2>. QED BY <2>1 DEF Breaks, RunInv, found
<1>. QED BY <1>3, <1>4, <1>5 DEF RetentionInv

LEMMA RetentionNextInv ==
  RetentionInv /\ [RetentionNext]_retentionVars => RetentionInv'
<1>. SUFFICES ASSUME RetentionInv, [RetentionNext]_retentionVars PROVE RetentionInv' OBVIOUS
<1>. RetentionTypeOK /\ WindowInv /\ RunInv BY DEF RetentionInv
<1>1. CASE DayPasses
  <2>1. dry' \in BOOLEAN /\ errors' \in BOOLEAN /\ lagged' \in BOOLEAN
    BY <1>1 DEF DayPasses, RetentionTypeOK, found
  <2>2. RetentionTypeOK'
    BY <1>1, <2>1, RetentionAssumption DEF DayPasses, RetentionTypeOK, found, removed
  <2>. QED BY <1>1, <2>2
         DEF DayPasses, RetentionInv, WindowInv, BeforeWindow, RunInv, found, removed
<1>2. CASE WalkEnds
  <2>1. dry' \in BOOLEAN /\ errors' \in BOOLEAN /\ lagged' \in BOOLEAN
    BY <1>2 DEF WalkEnds, RetentionTypeOK, found
  <2>2. RetentionTypeOK' BY <1>2, <2>1 DEF WalkEnds, RetentionTypeOK, found, removed
  <2>. QED BY <1>2, <2>2
         DEF WalkEnds, RetentionInv, WindowInv, BeforeWindow, RunInv, found, removed
<1>3. CASE Ends
  <2>1. dry' \in BOOLEAN /\ errors' \in BOOLEAN /\ lagged' \in BOOLEAN
    BY <1>3 DEF Ends, RetentionTypeOK, found
  <2>2. RetentionTypeOK' BY <1>3, <2>1 DEF Ends, RetentionTypeOK, found, removed
  <2>. QED BY <1>3, <2>2
         DEF Ends, RetentionInv, WindowInv, BeforeWindow, RunInv, found, removed
<1>4. CASE UNCHANGED retentionVars
  BY <1>4 DEF retentionVars, found, removed, RetentionInv, RetentionTypeOK, WindowInv,
              BeforeWindow, RunInv
<1>. QED BY <1>1, <1>2, <1>3, <1>4, PutKeeps, BeginKeeps, VisitKeeps, RemoveKeeps, BreaksKeeps
     DEF RetentionNext

\* No day that the application still reads is ever swept from, by any of the
\* partition purges, while ingestion keeps up.
THEOREM WindowIsServed == RetentionSpec => []WindowServed
<1>1. RetentionInv => WindowServed
  BY DEF RetentionInv, WindowInv, WindowServed, BeforeWindow
<1>. QED BY RetentionInitInv, RetentionNextInv, <1>1, PTL DEF RetentionSpec

\* A purge removes nothing but what was overdue or has been written since it
\* began, and without an error all that was.
THEOREM PurgeIsExact == RetentionSpec => []PurgeExact
<1>1. RetentionInv => PurgeExact
  BY DEF RetentionInv, RunInv, PurgeExact
<1>. QED BY RetentionInitInv, RetentionNextInv, <1>1, PTL DEF RetentionSpec

(************************** MemberDirectory ********************************)

\* A stamp is under way for no longer than Flight, so that the one stored is
\* never older than the latest by more; what searches still see differs from
\* it only where it has just been stamped, or is gone; and a prune deletes
\* what it has matched, which is stale by the clock.
Recent(t) == t >= time - Flight

StampInv ==
  /\ \A r \in Refreshes : stage[r] = "upserting" \/ inFlight[r] # {} =>
       stampOf[r] <= time /\ Recent(stampOf[r])
  /\ \A m \in Members :
       /\ lastStamp[m] <= time
       /\ stored[m] # NoDoc => stored[m] >= lastStamp[m] - Flight
       /\ seen[m] = stored[m] \/ stored[m] = NoDoc \/ Recent(stored[m])

PruneInv == \A r \in Refreshes :
  /\ stage[r] \in {"pruning", "deleting"} => pruneBefore[r] <= time - StaleAfter
  /\ \A d \in matched[r] : d.stamp < time - StaleAfter
  /\ stage[r] = "deleting" => \A m \in Members :
       \/ stored[m] = NoDoc \/ stored[m] >= pruneBefore[r]
       \/ [of |-> m, stamp |-> stored[m]] \in matched[r]

MemberInv == MemberTypeOK /\ StampInv /\ PruneInv

LEMMA MemberInitInv == MemberInit => MemberInv
BY MemberAssumption
   DEF MemberInit, MemberInv, MemberTypeOK, StampInv, PruneInv, Recent, NoDoc

LEMMA TimePassesKeeps == ASSUME MemberInv, TimePasses PROVE MemberInv'
<1>. MemberTypeOK /\ StampInv /\ PruneInv BY DEF MemberInv
<1>. Flight \in Nat /\ StaleAfter \in Nat BY MemberAssumption
<1>1. MemberTypeOK' BY DEF TimePasses, MemberTypeOK
<1>2. StampInv'
  BY <1>1 DEF TimePasses, StampInv, MemberTypeOK, Recent, NoDoc
<1>3. PruneInv'
  BY <1>1 DEF TimePasses, PruneInv, MemberTypeOK
<1>. QED BY <1>1, <1>2, <1>3 DEF MemberInv

LEMMA FetchedKeeps ==
  ASSUME MemberInv, NEW r \in Refreshes, Fetched(r) PROVE MemberInv'
<1>. MemberTypeOK /\ StampInv /\ PruneInv BY DEF MemberInv
<1>. Flight \in Nat /\ StaleAfter \in Nat BY MemberAssumption
<1>1. /\ stage' \in [Refreshes ->
              {"returned", "skipped", "raised", "upserting", "pruning", "deleting"}]
      /\ inFlight' \in [Refreshes -> SUBSET Members] /\ stampOf' \in [Refreshes -> Nat]
      /\ missed' \in [Members -> 0..2]
      /\ \A q \in Refreshes \ {r} :
           stage'[q] = stage[q] /\ inFlight'[q] = inFlight[q] /\ stampOf'[q] = stampOf[q]
      /\ \/ stage'[r] = "skipped" /\ inFlight'[r] = {}
         \/ stage'[r] = "upserting" /\ stampOf'[r] = time
  BY DEF Fetched, MemberTypeOK
<1>2. /\ UNCHANGED <<time, stored, seen, pruneBefore, matched, lastStamp>>
      /\ matched[r] = {}
  BY DEF Fetched
<1>3. MemberTypeOK' BY <1>1, <1>2 DEF MemberTypeOK
<1>4. StampInv' BY <1>1, <1>2 DEF StampInv, MemberTypeOK, Recent
<1>5. PruneInv' BY <1>1, <1>2 DEF PruneInv, MemberTypeOK
<1>. QED BY <1>3, <1>4, <1>5 DEF MemberInv

LEMMA UpsertsKeeps ==
  ASSUME MemberInv, NEW r \in Refreshes, Upserts(r) PROVE MemberInv'
<1>. MemberTypeOK /\ StampInv /\ PruneInv BY DEF MemberInv
<1>. /\ Flight \in Nat /\ StaleAfter \in Nat /\ Flight < StaleAfter
     /\ time \in Int
  BY MemberAssumption DEF MemberTypeOK
<1>1. PICK m \in inFlight[r] :
        /\ stored' = [stored EXCEPT ![m] = stampOf[r]]
        /\ lastStamp' = [lastStamp EXCEPT ![m] = IF @ > stampOf[r] THEN @ ELSE stampOf[r]]
        /\ missed' = [missed EXCEPT ![m] = 0]
        /\ inFlight' = [inFlight EXCEPT ![r] = @ \ {m}]
        /\ UNCHANGED <<time, seen, stage, stampOf, pruneBefore, matched>>
  BY DEF Upserts
<1>2. m \in Members /\ stampOf[r] \in Int BY DEF MemberTypeOK
<1>3. stampOf[r] <= time /\ stampOf[r] >= time - Flight
  BY DEF StampInv, Recent
<1>4. MemberTypeOK' BY <1>1, <1>2 DEF MemberTypeOK
<1>5. StampInv'
  <2>1. ASSUME NEW n \in Members
        PROVE  /\ lastStamp'[n] <= time
               /\ stored'[n] # NoDoc => stored'[n] >= lastStamp'[n] - Flight
               /\ seen[n] = stored'[n] \/ stored'[n] = NoDoc \/ stored'[n] >= time - Flight
    <3>1. CASE n = m
      <4>1. stored'[n] = stampOf[r] BY <1>1, <3>1 DEF MemberTypeOK
      <4>2. lastStamp'[n] = IF lastStamp[n] > stampOf[r] THEN lastStamp[n] ELSE stampOf[r]
        BY <1>1, <3>1 DEF MemberTypeOK
      <4>3. lastStamp[n] \in Int /\ lastStamp[n] <= time
        BY DEF MemberTypeOK, StampInv, NoDoc
      <4>. QED BY <1>2, <1>3, <4>1, <4>2, <4>3
    <3>2. CASE n # m
      BY <1>1, <3>2 DEF MemberTypeOK, StampInv, Recent
    <3>. QED BY <3>1, <3>2
  <2>2. \A q \in Refreshes : stage'[q] = "upserting" \/ inFlight'[q] # {} =>
          stampOf'[q] <= time' /\ stampOf'[q] >= time' - Flight
    BY <1>1 DEF StampInv, MemberTypeOK, Recent
  <2>. QED BY <1>1, <2>1, <2>2 DEF StampInv, Recent
<1>6. PruneInv'
  <2>1. ASSUME NEW q \in Refreshes, stage[q] = "deleting", NEW n \in Members
        PROVE  \/ stored'[n] = NoDoc \/ stored'[n] >= pruneBefore[q]
               \/ [of |-> n, stamp |-> stored'[n]] \in matched[q]
    <3>1. CASE n = m
      <4>1. stored'[n] = stampOf[r] /\ pruneBefore[q] \in Int /\ pruneBefore[q] <= time - StaleAfter
        BY <1>1, <2>1, <3>1 DEF MemberTypeOK, PruneInv
      <4>. QED BY <1>2, <1>3, <4>1
    <3>2. CASE n # m
      BY <1>1, <2>1, <3>2 DEF MemberTypeOK, PruneInv
    <3>. QED BY <3>1, <3>2
  <2>. QED BY <1>1, <2>1 DEF PruneInv
<1>. QED BY <1>4, <1>5, <1>6 DEF MemberInv

LEMMA MatchesKeeps ==
  ASSUME MemberInv, NEW r \in Refreshes, MatchesStale(r) PROVE MemberInv'
<1>. MemberTypeOK /\ StampInv /\ PruneInv BY DEF MemberInv
<1>. /\ Flight \in Nat /\ StaleAfter \in Nat /\ Flight < StaleAfter
     /\ time \in Int
  BY MemberAssumption DEF MemberTypeOK
<1>1. /\ stage[r] = "pruning" /\ stage' = [stage EXCEPT ![r] = "deleting"]
      /\ matched' = [matched EXCEPT ![r] = {[of |-> m, stamp |-> seen[m]] :
                       m \in {n \in Members : seen[n] \in 0..(pruneBefore[r] - 1)}}]
      /\ UNCHANGED <<time, stored, seen, inFlight, stampOf, pruneBefore, lastStamp, missed>>
  BY DEF MatchesStale
<1>2. MemberTypeOK' BY <1>1 DEF MemberTypeOK
<1>3. StampInv' BY <1>1 DEF StampInv, MemberTypeOK, Recent
<1>4. pruneBefore[r] \in Int /\ pruneBefore[r] <= time - StaleAfter
  BY <1>1 DEF MemberTypeOK, PruneInv
<1>5. \A d \in matched'[r] : d.stamp < time - StaleAfter
  <2>. SUFFICES ASSUME NEW m \in Members, seen[m] \in 0..(pruneBefore[r] - 1)
                PROVE  seen[m] < time - StaleAfter
    BY <1>1 DEF MemberTypeOK
  <2>. QED BY <1>4
<1>6. ASSUME NEW m \in Members
      PROVE  \/ stored[m] = NoDoc \/ stored[m] >= pruneBefore[r]
             \/ [of |-> m, stamp |-> stored[m]] \in matched'[r]
  <2>1. stored[m] \in Int /\ seen[m] \in Int /\ (stored[m] # NoDoc => stored[m] >= 0)
    BY DEF MemberTypeOK, NoDoc
  <2>2. CASE seen[m] = stored[m] /\ stored[m] # NoDoc /\ stored[m] < pruneBefore[r]
    <3>1. seen[m] \in 0..(pruneBefore[r] - 1) BY <1>4, <2>1, <2>2
    <3>. QED BY <1>1, <2>2, <3>1 DEF MemberTypeOK
  <2>3. CASE stored[m] >= time - Flight BY <1>4, <2>1, <2>3
  <2>. QED BY <1>4, <2>1, <2>2, <2>3 DEF StampInv, Recent
<1>7. PruneInv' BY <1>1, <1>5, <1>6 DEF PruneInv, MemberTypeOK
<1>. QED BY <1>2, <1>3, <1>7 DEF MemberInv

LEMMA MemberNextInv == MemberInv /\ [MemberNext]_memberVars => MemberInv'
<1>. SUFFICES ASSUME MemberInv, [MemberNext]_memberVars PROVE MemberInv' OBVIOUS
<1>. MemberTypeOK /\ StampInv /\ PruneInv BY DEF MemberInv
<1>. /\ Flight \in Nat /\ StaleAfter \in Nat /\ Flight < StaleAfter
     /\ time \in Int
  BY MemberAssumption DEF MemberTypeOK
<1>1. ASSUME NEW r \in Refreshes, NotUpserted(r) PROVE MemberInv'
  <2>1. MemberTypeOK' BY <1>1 DEF NotUpserted, MemberTypeOK
  <2>2. StampInv' BY <1>1 DEF NotUpserted, StampInv, MemberTypeOK, Recent
  <2>3. PruneInv' BY <1>1 DEF NotUpserted, PruneInv, MemberTypeOK
  <2>. QED BY <2>1, <2>2, <2>3 DEF MemberInv
<1>2. ASSUME NEW r \in Refreshes, BulkEnds(r) PROVE MemberInv'
  <2>1. MemberTypeOK'
    BY <1>2 DEF BulkEnds, MemberTypeOK, Cutoff
  <2>2. StampInv' BY <1>2 DEF BulkEnds, StampInv, MemberTypeOK, Recent
  <2>3. PruneInv' BY <1>2 DEF BulkEnds, PruneInv, MemberTypeOK, Cutoff
  <2>. QED BY <2>1, <2>2, <2>3 DEF MemberInv
<1>3. ASSUME NEW r \in Refreshes, Deletes(r) PROVE MemberInv'
  <2>1. PICK d \in matched[r] :
          /\ stored[d.of] = d.stamp
          /\ stored' = [stored EXCEPT ![d.of] = NoDoc]
          /\ matched' = [matched EXCEPT ![r] = @ \ {d}]
          /\ UNCHANGED <<time, seen, stage, inFlight, stampOf, pruneBefore, lastStamp, missed>>
    BY <1>3 DEF Deletes
  <2>2. d.of \in Members /\ d = [of |-> d.of, stamp |-> d.stamp] BY DEF MemberTypeOK
  <2>3. MemberTypeOK' BY <2>1, <2>2 DEF MemberTypeOK
  <2>4. StampInv' BY <2>1, <2>2 DEF StampInv, MemberTypeOK, Recent
  <2>5. \A m \in Members : stored'[m] # NoDoc => m # d.of /\ stored'[m] = stored[m]
    BY <2>1, <2>2 DEF MemberTypeOK
  <2>6. \A q \in Refreshes : \A e \in matched[q] : e.of # d.of => e \in matched'[q]
    BY <2>1, <2>2 DEF MemberTypeOK
  <2>7. \A q \in Refreshes : matched'[q] \subseteq matched[q]
    BY <2>1 DEF MemberTypeOK
  <2>8. PruneInv' BY <2>1, <2>5, <2>6, <2>7 DEF PruneInv
  <2>. QED BY <2>3, <2>4, <2>8 DEF MemberInv
<1>4. ASSUME NEW r \in Refreshes, Conflicts(r) PROVE MemberInv'
  <2>1. MemberTypeOK' BY <1>4 DEF Conflicts, MemberTypeOK
  <2>2. StampInv' BY <1>4 DEF Conflicts, StampInv, MemberTypeOK, Recent
  <2>3. PruneInv' BY <1>4 DEF Conflicts, PruneInv, MemberTypeOK
  <2>. QED BY <2>1, <2>2, <2>3 DEF MemberInv
<1>5. ASSUME NEW r \in Refreshes, PruneEnds(r) PROVE MemberInv'
  <2>1. MemberTypeOK' BY <1>5 DEF PruneEnds, MemberTypeOK
  <2>2. StampInv' BY <1>5 DEF PruneEnds, StampInv, MemberTypeOK, Recent
  <2>3. PruneInv' BY <1>5 DEF PruneEnds, PruneInv, MemberTypeOK
  <2>. QED BY <2>1, <2>2, <2>3 DEF MemberInv
<1>6. ASSUME NEW r \in Refreshes, BreaksOff(r) PROVE MemberInv'
  <2>1. MemberTypeOK' BY <1>6 DEF BreaksOff, MemberTypeOK
  <2>2. StampInv' BY <1>6 DEF BreaksOff, StampInv, MemberTypeOK, Recent
  <2>3. PruneInv' BY <1>6 DEF BreaksOff, PruneInv, MemberTypeOK
  <2>. QED BY <2>1, <2>2, <2>3 DEF MemberInv
<1>7. CASE UNCHANGED memberVars
  BY <1>7 DEF memberVars, MemberInv, MemberTypeOK, StampInv, PruneInv, Recent
<1>. QED
  BY <1>1, <1>2, <1>3, <1>4, <1>5, <1>6, <1>7, TimePassesKeeps, FetchedKeeps,
     UpsertsKeeps, MatchesKeeps DEF MemberNext

\* One step deletes only whom the grace window has passed by, and a prune that
\* returns has left nobody behind.
MemberKeptStep ==
  /\ \A m \in Members : Deleted(m) => time - lastStamp[m] > StaleAfter - Flight
  /\ \A r \in Refreshes : stage[r] = "deleting" /\ stage'[r] = "returned" =>
       \A m \in Members : stored[m] # NoDoc => stored[m] >= pruneBefore[r]

LEMMA MemberStep == MemberInv /\ [MemberNext]_memberVars => MemberKeptStep
<1>. SUFFICES ASSUME MemberInv, [MemberNext]_memberVars PROVE MemberKeptStep OBVIOUS
<1>. MemberTypeOK /\ StampInv /\ PruneInv BY DEF MemberInv
<1>. Flight \in Nat /\ StaleAfter \in Nat /\ time \in Int
  BY MemberAssumption DEF MemberTypeOK
<1>1. ASSUME NEW m \in Members, Deleted(m)
      PROVE  time - lastStamp[m] > StaleAfter - Flight
  <2>1. CASE \E r \in Refreshes : Deletes(r)
    <3>0. PICK r \in Refreshes : Deletes(r) BY <2>1
    <3>1. PICK d \in matched[r] :
            stored[d.of] = d.stamp /\ stored' = [stored EXCEPT ![d.of] = NoDoc]
      BY <3>0 DEF Deletes
    <3>2. d.of = m /\ stored[m] < time - StaleAfter
      BY <1>1, <3>1 DEF Deleted, MemberTypeOK, PruneInv
    <3>3. stored[m] \in Int /\ lastStamp[m] \in Int /\ stored[m] >= lastStamp[m] - Flight
      BY <1>1 DEF Deleted, MemberTypeOK, StampInv, NoDoc
    <3>. QED BY <3>2, <3>3
  <2>2. CASE \E r \in Refreshes : Upserts(r)
    <3>1. \A r \in Refreshes : stampOf[r] # NoDoc BY DEF MemberTypeOK, NoDoc
    <3>. QED BY <1>1, <2>2, <3>1 DEF Upserts, Deleted, MemberTypeOK
  <2>3. CASE stored' = stored BY <1>1, <2>3 DEF Deleted
  <2>. QED
    BY <2>1, <2>2, <2>3 DEF MemberNext, TimePasses, Fetched, NotUpserted, BulkEnds,
       MatchesStale, Conflicts, PruneEnds, BreaksOff, memberVars
<1>2. ASSUME NEW r \in Refreshes, stage[r] = "deleting", stage'[r] = "returned"
      PROVE  matched[r] = {}
  BY <1>2 DEF MemberNext, TimePasses, Fetched, Upserts, NotUpserted, BulkEnds, Deletes,
     MatchesStale, Conflicts, PruneEnds, BreaksOff, memberVars, MemberTypeOK
<1>3. ASSUME NEW r \in Refreshes, stage[r] = "deleting", stage'[r] = "returned",
             NEW m \in Members, stored[m] # NoDoc
      PROVE  stored[m] >= pruneBefore[r]
  BY <1>2, <1>3 DEF PruneInv
<1>. QED BY <1>1, <1>3 DEF MemberKeptStep

\* Nobody is deleted who has had a stamp within the grace window, less the
\* time one may be under way, and no prune leaves anyone older than its cutoff.
THEOREM MembersAreKept == MemberSpec => MemberKept
<1>1. MemberInv /\ [MemberNext]_memberVars => [MemberKeptStep]_memberVars
  BY MemberStep
<1>2. MemberSpec => [][MemberKeptStep]_memberVars
  BY MemberInitInv, MemberNextInv, <1>1, PTL DEF MemberSpec
<1>. QED BY <1>2 DEF MemberKept, MemberKeptStep

(**************************** RolloverFamily *******************************)

Dos == {"policy", "template", "look", "create", "mapping"}
Requests == [do : Dos, of : 0..2]

\* What a script has still to send.
Todo(p) == {p[k] : k \in 1..Len(p)}

LEMMA TodoSplits ==
  ASSUME NEW p \in Seq(Requests), p # <<>>
  PROVE  /\ Head(p) \in Requests /\ Tail(p) \in Seq(Requests)
         /\ Todo(p) = {Head(p)} \cup Todo(Tail(p))
<1>1. /\ Len(p) \in Nat \ {0} /\ Head(p) = p[1] /\ Head(p) \in Requests
      /\ Tail(p) \in Seq(Requests) /\ Len(Tail(p)) = Len(p) - 1
      /\ \A k \in 1..(Len(p) - 1) : Tail(p)[k] = p[k + 1]
  BY HeadTailProperties, EmptySeq
<1>2. \A k \in 1..Len(p) : k = 1 \/ (k - 1 \in 1..(Len(p) - 1) /\ p[k] = Tail(p)[k - 1])
  BY <1>1
<1>3. \A k \in 1..(Len(p) - 1) : k + 1 \in 1..Len(p) BY <1>1
<1>4. Todo(Tail(p)) = {Tail(p)[k] : k \in 1..(Len(p) - 1)} BY <1>1 DEF Todo
<1>5. Todo(p) \subseteq {Head(p)} \cup Todo(Tail(p)) BY <1>1, <1>2, <1>4 DEF Todo
<1>6. {Head(p)} \cup Todo(Tail(p)) \subseteq Todo(p)
  <2>1. 1 \in 1..Len(p) BY <1>1
  <2>2. Head(p) \in Todo(p) BY <1>1, <2>1 DEF Todo
  <2>3. Todo(Tail(p)) \subseteq Todo(p) BY <1>1, <1>3, <1>4 DEF Todo
  <2>. QED BY <2>2, <2>3
<1>. QED BY <1>1, <1>5, <1>6

LEMMA TodoEmpty == Todo(<<>>) = {}
<1>1. Len(<<>>) = 0 BY EmptySeq
<1>. QED BY <1>1 DEF Todo

LEMMA TodoJoins ==
  ASSUME NEW p \in Seq(Requests), NEW q \in Seq(Requests)
  PROVE  p \o q \in Seq(Requests) /\ Todo(p \o q) = Todo(p) \cup Todo(q)
<1>1. /\ p \o q \in Seq(Requests) /\ Len(p \o q) = Len(p) + Len(q)
      /\ Len(p) \in Nat /\ Len(q) \in Nat
      /\ \A i \in 1..(Len(p) + Len(q)) :
           (p \o q)[i] = IF i <= Len(p) THEN p[i] ELSE q[i - Len(p)]
  BY ConcatProperties, LenProperties
<1>2. Todo(p \o q) \subseteq Todo(p) \cup Todo(q)
  <2>1. \A i \in 1..(Len(p) + Len(q)) : i \in 1..Len(p) \/ i - Len(p) \in 1..Len(q)
    BY <1>1
  <2>2. \A i \in 1..(Len(p) + Len(q)) : (p \o q)[i] \in Todo(p) \cup Todo(q)
    BY <1>1, <2>1 DEF Todo
  <2>. QED BY <1>1, <2>2 DEF Todo
<1>3. Todo(p) \subseteq Todo(p \o q)
  <2>1. \A i \in 1..Len(p) : i \in 1..(Len(p) + Len(q)) /\ (p \o q)[i] = p[i] BY <1>1
  <2>. QED BY <1>1, <2>1 DEF Todo
<1>4. Todo(q) \subseteq Todo(p \o q)
  <2>1. \A i \in 1..Len(q) :
          /\ Len(p) + i \in 1..(Len(p) + Len(q))
          /\ (p \o q)[Len(p) + i] = q[i]
    <3>. TAKE i \in 1..Len(q)
    <3>1. Len(p) + i \in 1..(Len(p) + Len(q)) /\ ~(Len(p) + i <= Len(p))
          /\ (Len(p) + i) - Len(p) = i
      BY <1>1
    <3>. QED BY <1>1, <3>1
  <2>. QED BY <1>1, <2>1 DEF Todo
<1>. QED BY <1>1, <1>2, <1>3, <1>4

LEMMA AliasesOf ==
  ASSUME family \in Families
  PROVE  family.aliases \in {1..1, 1..2}
BY DEF Families, SemMsrInfo, IdpVer, BeamReso, EbeamTasLotHist, FabInformNotes,
       ToolMaintenancePlan, NetworkFdc, SharpnessMonitor

LEMMA ForEachTodo ==
  ASSUME family \in Families, NEW do \in Dos
  PROVE  /\ ForEach(do) \in Seq(Requests) /\ ForEach(do) # <<>>
         /\ Todo(ForEach(do)) = {Request(do, a) : a \in family.aliases}
<1>1. ASSUME NEW n \in 1..2, family.aliases = 1..n
      PROVE  /\ ForEach(do) \in Seq(Requests) /\ ForEach(do) # <<>>
             /\ Todo(ForEach(do)) = {Request(do, a) : a \in family.aliases}
  <2>1. ForEach(do) \in [1..n -> Requests] BY <1>1 DEF ForEach, Request, Requests
  <2>2. ForEach(do) \in Seq(Requests) BY <2>1, SeqDef
  <2>3. DOMAIN ForEach(do) = 1..n BY <2>1
  <2>4. Len(ForEach(do)) = n
    <3>1. Len(ForEach(do)) \in Nat /\ 1..Len(ForEach(do)) = 1..n BY <2>2, <2>3, LenProperties
    <3>2. n \in 1..Len(ForEach(do)) /\ Len(ForEach(do)) \in 1..n
      <4>1. n \in 1..n BY <1>1
      <4>2. 1 \in 1..Len(ForEach(do)) BY <3>1
      <4>3. Len(ForEach(do)) \in 1..Len(ForEach(do)) BY <3>1, <4>2
      <4>. QED BY <3>1, <4>1, <4>3
    <3>. QED BY <3>1, <3>2
  <2>5. ForEach(do) # <<>> BY <2>4, EmptySeq
  <2>6. \A k \in 1..n : ForEach(do)[k] = Request(do, k) BY <1>1 DEF ForEach
  <2>7. Todo(ForEach(do)) = {ForEach(do)[k] : k \in 1..n} BY <2>4 DEF Todo
  <2>. QED BY <1>1, <2>2, <2>5, <2>6, <2>7
<1>2. \E n \in 1..2 : family.aliases = 1..n BY AliasesOf
<1>. QED BY <1>1, <1>2

\* How the plan of a setup looks at any time, and that of a script which
\* adds a field.
SetupShape(p) ==
  /\ p \in Seq(Requests) /\ p # <<>>
  /\ \A r \in Todo(p) :
       r.do = "policy" \/ (r.do \in {"template", "look", "create"} /\ r.of \in family.aliases)
  /\ \A r \in Todo(Tail(p)) : r.do # "policy"

AddShape(p) ==
  /\ p \in Seq(Requests) /\ p # <<>>
  /\ \A r \in Todo(p) : r.do \in {"template", "mapping"} /\ r.of \in family.aliases
  /\ \A k \in 1..Len(p) : \A l \in 1..Len(p) :
       k < l /\ p[l].do = "template" => p[k].do = "template"

LEMMA SetupPlan ==
  ASSUME family \in Families
  PROVE  /\ SetupShape(Setup) /\ Head(Setup).do = "policy"
         /\ \A a \in family.aliases : Request("look", a) \in Todo(Setup)
<1>. DEFINE P == <<Request("policy", 0)>>
            T == ForEach("template")
            L == ForEach("look")
<1>1. /\ T \in Seq(Requests) /\ Todo(T) = {Request("template", a) : a \in family.aliases}
      /\ L \in Seq(Requests) /\ Todo(L) = {Request("look", a) : a \in family.aliases}
  BY ForEachTodo DEF Dos
<1>2. P \in Seq(Requests) /\ Todo(P) = {Request("policy", 0)} /\ Len(P) = 1 /\ P[1] = Request("policy", 0)
  <2>1. Request("policy", 0) \in Requests BY DEF Request, Requests, Dos
  <2>. QED BY <2>1 DEF Todo
<1>. HIDE DEF P, T, L
<1>3. Setup = P \o T \o L BY DEF Setup, P, T, L
<1>4. /\ P \o T \in Seq(Requests) /\ P \o T \o L \in Seq(Requests)
      /\ Todo(P \o T \o L) = Todo(P) \cup Todo(T) \cup Todo(L)
  <2>1. P \o T \in Seq(Requests) /\ Todo(P \o T) = Todo(P) \cup Todo(T)
    BY <1>1, <1>2, TodoJoins
  <2>2. (P \o T) \o L \in Seq(Requests) /\ Todo((P \o T) \o L) = Todo(P \o T) \cup Todo(L)
    BY <1>1, <2>1, TodoJoins
  <2>. QED BY <2>1, <2>2
<1>5. /\ T \o L \in Seq(Requests) /\ P \o T \o L = P \o (T \o L)
      /\ Todo(T \o L) = Todo(T) \cup Todo(L)
  <2>1. T \o L \in Seq(Requests) /\ Todo(T \o L) = Todo(T) \cup Todo(L)
    BY <1>1, TodoJoins
  <2>2. (P \o T) \o L = P \o (T \o L) BY <1>1, <1>2, ConcatAssociative
  <2>. QED BY <2>1, <2>2
<1>6. Setup # <<>> /\ Head(Setup) = Request("policy", 0) /\ Tail(Setup) = T \o L
  <2>1. \A r \in Requests, q \in Seq(Requests) :
          <<r>> \o q # <<>> /\ Head(<<r>> \o q) = r /\ Tail(<<r>> \o q) = q
    OBVIOUS
  <2>2. Request("policy", 0) \in Requests BY DEF Request, Requests, Dos
  <2>. QED BY <1>3, <1>5, <2>1, <2>2 DEF P
<1>7. SetupShape(Setup)
  <2>1. \A r \in Todo(T) \cup Todo(L) : r.do \in {"template", "look"} /\ r.of \in family.aliases
    BY <1>1 DEF Request
  <2>2. \A r \in Todo(P) : r.do = "policy" BY <1>2 DEF Request
  <2>3. \A r \in Todo(Setup) :
          r.do = "policy" \/ (r.do \in {"template", "look", "create"} /\ r.of \in family.aliases)
    BY <1>3, <1>4, <2>1, <2>2
  <2>4. \A r \in Todo(Tail(Setup)) : r.do # "policy" BY <1>5, <1>6, <2>1
  <2>. QED BY <1>3, <1>4, <1>6, <2>3, <2>4 DEF SetupShape
<1>8. \A a \in family.aliases : Request("look", a) \in Todo(Setup)
  BY <1>1, <1>3, <1>4
<1>9. Head(Setup).do = "policy" BY <1>6 DEF Request
<1>. QED BY <1>7, <1>8, <1>9

LEMMA AddPlan ==
  ASSUME family \in Families
  PROVE  /\ AddShape(AddField)
         /\ \A a \in family.aliases : /\ Request("template", a) \in Todo(AddField)
                                      /\ Request("mapping", a) \in Todo(AddField)
<1>. DEFINE T == ForEach("template")
            M == ForEach("mapping")
<1>1. /\ T \in Seq(Requests) /\ Todo(T) = {Request("template", a) : a \in family.aliases}
      /\ M \in Seq(Requests) /\ Todo(M) = {Request("mapping", a) : a \in family.aliases}
      /\ T # <<>>
  BY ForEachTodo DEF Dos
<1>2. AddField = T \o M BY DEF AddField
<1>. HIDE DEF T, M
<1>3. T \o M \in Seq(Requests) /\ Todo(T \o M) = Todo(T) \cup Todo(M)
  BY <1>1, TodoJoins
<1>4. T \o M # <<>> BY <1>1, ConcatEqualIffEmpty
<1>5. /\ Len(T \o M) = Len(T) + Len(M) /\ Len(T) \in Nat /\ Len(M) \in Nat
      /\ \A i \in 1..(Len(T) + Len(M)) :
           (T \o M)[i] = IF i <= Len(T) THEN T[i] ELSE M[i - Len(T)]
  BY <1>1, ConcatProperties, LenProperties
<1>6. \A i \in 1..Len(T) : T[i].do = "template"
  <2>1. \A r \in Todo(T) : r.do = "template" BY <1>1 DEF Request
  <2>. QED BY <2>1 DEF Todo
<1>7. \A i \in 1..Len(M) : M[i].do = "mapping"
  <2>1. \A r \in Todo(M) : r.do = "mapping" BY <1>1 DEF Request
  <2>. QED BY <2>1 DEF Todo
<1>8. \A i \in 1..Len(T \o M) : (T \o M)[i].do = IF i <= Len(T) THEN "template" ELSE "mapping"
  <2>. TAKE i \in 1..Len(T \o M)
  <2>1. i \in 1..Len(T) \/ (~(i <= Len(T)) /\ i - Len(T) \in 1..Len(M)) BY <1>5
  <2>. QED BY <1>5, <1>6, <1>7, <2>1
<1>9. \A k \in 1..Len(T \o M) : \A l \in 1..Len(T \o M) :
        k < l /\ (T \o M)[l].do = "template" => (T \o M)[k].do = "template"
  <2>. SUFFICES ASSUME NEW k \in 1..Len(T \o M), NEW l \in 1..Len(T \o M),
                       k < l, (T \o M)[l].do = "template"
                PROVE  (T \o M)[k].do = "template"
    OBVIOUS
  <2>1. l <= Len(T) BY <1>8
  <2>2. k <= Len(T) BY <1>5, <2>1
  <2>. QED BY <1>8, <2>2
<1>10. \A r \in Todo(T \o M) : r.do \in {"template", "mapping"} /\ r.of \in family.aliases
  BY <1>1, <1>3 DEF Request
<1>. QED BY <1>1, <1>2, <1>3, <1>4, <1>9, <1>10 DEF AddShape

\* Both shapes last while there is something left to send.
LEMMA ShapesLast ==
  ASSUME NEW p \in Seq(Requests), p # <<>>, Tail(p) # <<>>
  PROVE  /\ SetupShape(p) => SetupShape(Tail(p))
         /\ AddShape(p) => AddShape(Tail(p))
<1>1. /\ Tail(p) \in Seq(Requests) /\ Todo(Tail(p)) \subseteq Todo(p)
      /\ Todo(Tail(Tail(p))) \subseteq Todo(Tail(p))
  BY TodoSplits
<1>2. SetupShape(p) => SetupShape(Tail(p)) BY <1>1 DEF SetupShape
<1>3. ASSUME AddShape(p) PROVE AddShape(Tail(p))
  <2>1. Len(Tail(p)) = Len(p) - 1 /\ Len(p) \in Nat
        /\ \A k \in 1..Len(Tail(p)) : Tail(p)[k] = p[k + 1]
    BY HeadTailProperties, LenProperties
  <2>2. \A k \in 1..Len(Tail(p)) : k + 1 \in 1..Len(p) BY <2>1
  <2>3. \A k \in 1..Len(Tail(p)) : \A l \in 1..Len(Tail(p)) :
          k < l /\ Tail(p)[l].do = "template" => Tail(p)[k].do = "template"
    <3>. SUFFICES ASSUME NEW k \in 1..Len(Tail(p)), NEW l \in 1..Len(Tail(p)),
                         k < l, Tail(p)[l].do = "template"
                  PROVE  Tail(p)[k].do = "template"
      OBVIOUS
    <3>1. k + 1 \in 1..Len(p) /\ l + 1 \in 1..Len(p) /\ k + 1 < l + 1 BY <2>1, <2>2
    <3>2. p[l + 1].do = "template" BY <2>1
    <3>3. p[k + 1].do = "template" BY <1>3, <3>1, <3>2 DEF AddShape
    <3>. QED BY <2>1, <3>3
  <2>. QED BY <1>1, <1>3, <2>3 DEF AddShape
<1>. QED BY <1>2, <1>3

\* Once the live indices are at hand, all templates are done.
LEMMA TemplatesFirst ==
  ASSUME NEW p, AddShape(p), Head(p).do = "mapping"
  PROVE  \A r \in Todo(p) : r.do = "mapping"
<1>1. p \in Seq(Requests) /\ Len(p) \in Nat \ {0} /\ Head(p) = p[1]
  BY HeadTailProperties, EmptySeq DEF AddShape
<1>2. ASSUME NEW l \in 1..Len(p), p[l].do # "mapping" PROVE FALSE
  <2>1. p[l] \in Todo(p) BY DEF Todo
  <2>2. p[l].do = "template" BY <1>2, <2>1 DEF AddShape
  <2>3. l # 1 /\ 1 \in 1..Len(p) /\ 1 < l BY <1>1, <2>2
  <2>. QED BY <1>1, <2>2, <2>3 DEF AddShape
<1>. QED BY <1>2 DEF Todo

States == {"idle", "setup", "adding", "returned", "raised"}

\* The field is declared wherever it can come in next.
Brought(a) == template[a] = 2 /\ field[a][head[a]] # "absent"

\* It has never been parsed; a write index is managed since it exists.
StoreSound ==
  /\ policy \in BOOLEAN
  /\ template \in [Aliases -> 0..2]
  /\ head \in [Aliases -> 0..LastIndex]
  /\ field \in [Aliases -> [Suffixes -> {"none", "absent", "declared"}]]
  /\ managed \in [Aliases -> SUBSET Suffixes]
  /\ \A a \in Aliases : head[a] # 0 =>
       a \in family.aliases /\ head[a] \in managed[a] /\ policy

\* A setup that got past the policy.
Past(s) == state[s] = "setup" /\ Head(plan[s]).do # "policy"

\* What has been done by what a script has still to do.
ScriptOK(s) ==
  /\ plan[s] \in Seq(Requests) /\ release[s] \in {1, 2} /\ state[s] \in States
  /\ state[s] \notin {"setup", "adding"} => plan[s] = <<>>
  /\ state[s] = "setup" =>
       /\ SetupShape(plan[s])
       /\ \A a \in family.aliases : \/ head[a] # 0
                                    \/ Request("look", a) \in Todo(plan[s])
                                    \/ Request("create", a) \in Todo(plan[s])
  /\ Past(s) => policy
  /\ state[s] \in {"adding", "returned"} => \A a \in family.aliases : head[a] # 0
  /\ state[s] = "adding" =>
       /\ AddShape(plan[s]) /\ release[s] = 2
       /\ \A a \in family.aliases :
            /\ Request("template", a) \notin Todo(plan[s]) => template[a] = 2
            /\ Request("mapping", a) \notin Todo(plan[s]) => Brought(a)

FamilyInv ==
  /\ family \in Families
  /\ StoreSound
  /\ plan \in [Scripts -> Seq(Requests)]
  /\ release \in [Scripts -> {1, 2}]
  /\ state \in [Scripts -> States]
  /\ \A s \in Scripts : ScriptOK(s)
  /\ \A s, t \in Scripts : Past(s) =>
       state[t] \notin {"adding", "returned"} /\ (Past(t) => s = t)
  /\ told => /\ \E t \in Scripts : state[t] = "returned"
             /\ \A a \in family.aliases : Brought(a)

\* What a step may do to the store.
Grows ==
  /\ StoreSound'
  /\ policy => policy'
  /\ \A a \in Aliases :
       /\ head[a] # 0 => head'[a] # 0
       /\ \/ template'[a] = template[a]
          \/ \E s \in Scripts : (Past(s) \/ state[s] = "adding") /\ template'[a] = release[s]
       /\ head[a] # 0 /\ Brought(a) => field'[a][head'[a]] # "absent"

LEMMA FamilyAliases == ASSUME family \in Families PROVE family.aliases \subseteq Aliases
BY AliasesOf DEF Aliases

LEMMA FamilyInitInv == FamilyInit => FamilyInv
<1>. SUFFICES ASSUME FamilyInit PROVE FamilyInv
  OBVIOUS
<1>1. /\ family \in Families /\ policy \in BOOLEAN /\ ~told
  BY DEF FamilyInit
<1>2. /\ template \in [Aliases -> 0..2] /\ head \in [Aliases -> 0..LastIndex]
      /\ \A a \in Aliases : head[a] = 0
      /\ field \in [Aliases -> [Suffixes -> {"none", "absent", "declared"}]]
      /\ managed \in [Aliases -> SUBSET Suffixes]
  <2>1. LastIndex \in Nat BY FamilyAssumption
  <2>. QED BY <2>1 DEF FamilyInit
<1>3. /\ plan \in [Scripts -> Seq(Requests)] /\ release \in [Scripts -> {1, 2}]
      /\ state \in [Scripts -> States]
      /\ \A s \in Scripts : plan[s] = <<>> /\ state[s] = "idle"
  <2>1. <<>> \in Seq(Requests) BY EmptySeq
  <2>. QED BY <2>1 DEF FamilyInit, States
<1>4. StoreSound BY <1>1, <1>2 DEF StoreSound
<1>5. \A s \in Scripts : ~Past(s) /\ ScriptOK(s)
  BY <1>3 DEF Past, ScriptOK
<1>. QED BY <1>1, <1>3, <1>4, <1>5 DEF FamilyInv

\* Nobody is past the policy where somebody adds a field or has returned; so
\* what has been brought stays.
LEMMA StaysBrought ==
  ASSUME FamilyInv, Grows, NEW t \in Scripts, state[t] \in {"adding", "returned"},
         NEW a \in family.aliases
  PROVE  /\ head[a] # 0
         /\ template[a] = 2 => template'[a] = 2
         /\ Brought(a) => Brought(a)'
<1>1. a \in Aliases BY FamilyAliases DEF FamilyInv
<1>2. head[a] # 0 BY DEF FamilyInv, ScriptOK
<1>3. template[a] = 2 => template'[a] = 2
  <2>1. \A s \in Scripts : ~Past(s) BY DEF FamilyInv
  <2>2. \A s \in Scripts : state[s] = "adding" => release[s] = 2 BY DEF FamilyInv, ScriptOK
  <2>. QED BY <1>1, <2>1, <2>2 DEF Grows
<1>4. Brought(a) => field'[a][head'[a]] # "absent" BY <1>1, <1>2 DEF Grows
<1>. QED BY <1>2, <1>3, <1>4 DEF Brought

\* A script that takes no part in a step.
LEMMA OthersKeep ==
  ASSUME FamilyInv, Grows, family' = family, NEW t \in Scripts,
         plan'[t] = plan[t], state'[t] = state[t], release'[t] = release[t]
  PROVE  ScriptOK(t)' /\ (Past(t)' <=> Past(t))
<1>1. Past(t)' <=> Past(t) BY DEF Past
<1>2. ScriptOK(t) BY DEF FamilyInv
<1>3. family.aliases \subseteq Aliases BY FamilyAliases DEF FamilyInv
<1>4. Past(t)' => policy' BY <1>1, <1>2 DEF ScriptOK, Grows
<1>5. \A a \in family.aliases : head[a] # 0 => head'[a] # 0 BY <1>3 DEF Grows
<1>6. state[t] = "setup" =>
        /\ SetupShape(plan[t])'
        /\ \A a \in family.aliases : \/ head'[a] # 0
                                     \/ Request("look", a) \in Todo(plan'[t])
                                     \/ Request("create", a) \in Todo(plan'[t])
  BY <1>2, <1>5 DEF ScriptOK, SetupShape
<1>7. state[t] \in {"adding", "returned"} => \A a \in family.aliases : head'[a] # 0
  BY <1>2, <1>5 DEF ScriptOK
<1>8. state[t] = "adding" =>
        /\ AddShape(plan[t])' /\ release'[t] = 2
        /\ \A a \in family.aliases :
             /\ Request("template", a) \notin Todo(plan'[t]) => template'[a] = 2
             /\ Request("mapping", a) \notin Todo(plan'[t]) => Brought(a)'
  <2>. SUFFICES ASSUME state[t] = "adding"
                PROVE  /\ AddShape(plan[t])' /\ release'[t] = 2
                       /\ \A a \in family.aliases :
                            /\ Request("template", a) \notin Todo(plan'[t]) => template'[a] = 2
                            /\ Request("mapping", a) \notin Todo(plan'[t]) => Brought(a)'
    OBVIOUS
  <2>1. AddShape(plan[t])' /\ release'[t] = 2 BY <1>2 DEF ScriptOK, AddShape
  <2>2. \A a \in family.aliases : (template[a] = 2 => template'[a] = 2) /\ (Brought(a) => Brought(a)')
    BY StaysBrought
  <2>. QED BY <1>2, <2>1, <2>2 DEF ScriptOK
<1>. QED BY <1>1, <1>2, <1>4, <1>6, <1>7, <1>8 DEF ScriptOK

\* A step of one script, from what it does to the store and to its own plan.
LEMMA ScriptSteps ==
  ASSUME FamilyInv, Grows, family' = family, NEW s \in Scripts,
         NEW p \in Seq(Requests), NEW q \in States, NEW r \in {1, 2},
         plan' = [plan EXCEPT ![s] = p], state' = [state EXCEPT ![s] = q],
         release' = [release EXCEPT ![s] = r],
         ScriptOK(s)', state[s] # "returned",
         Past(s)' => Past(s) \/ ~policy,
         q \in {"adding", "returned"} => Past(s) \/ \E t \in Scripts : state[t] \in {"adding", "returned"},
         q \in {"adding", "returned"} => ~Past(s)',
         told' => \/ told
                  \/ /\ state[s] = "adding" /\ q = "returned"
                     /\ \A a \in family.aliases : Brought(a)'
  PROVE  FamilyInv'
<1>1. /\ plan' \in [Scripts -> Seq(Requests)] /\ state' \in [Scripts -> States]
      /\ release' \in [Scripts -> {1, 2}] /\ state'[s] = q
      /\ \A t \in Scripts \ {s} :
           plan'[t] = plan[t] /\ state'[t] = state[t] /\ release'[t] = release[t]
  BY DEF FamilyInv
<1>2. \A t \in Scripts \ {s} : ScriptOK(t)' /\ (Past(t)' <=> Past(t))
  BY <1>1, OthersKeep
<1>3. \A t \in Scripts : ScriptOK(t)' BY <1>2
<1>4. ~policy => \A t \in Scripts : ~Past(t) /\ state[t] \notin {"adding", "returned"}
  <2>. SUFFICES ASSUME ~policy, NEW t \in Scripts
                PROVE  ~Past(t) /\ state[t] \notin {"adding", "returned"}
    OBVIOUS
  <2>1. ~Past(t) BY DEF FamilyInv, ScriptOK
  <2>2. 1 \in family.aliases /\ 1 \in Aliases
    <3>1. family.aliases \in {1..1, 1..2} BY AliasesOf DEF FamilyInv
    <3>. QED BY <3>1 DEF Aliases
  <2>3. \A a \in Aliases : head[a] = 0 BY DEF FamilyInv, StoreSound
  <2>. QED BY <2>1, <2>2, <2>3 DEF FamilyInv, ScriptOK
<1>5. ASSUME NEW t \in Scripts, NEW u \in Scripts, Past(t)'
      PROVE  state'[u] \notin {"adding", "returned"} /\ (Past(u)' => t = u)
  <2>1. CASE t = s
    <3>1. q \notin {"adding", "returned"} BY <1>5, <2>1
    <3>2. \A v \in Scripts : v # s => ~Past(v) /\ state[v] \notin {"adding", "returned"}
      BY <1>4, <1>5, <2>1 DEF FamilyInv
    <3>. QED BY <1>1, <1>2, <2>1, <3>1, <3>2
  <2>2. CASE t # s
    <3>1. Past(t) BY <1>2, <1>5, <2>2
    <3>2. \A v \in Scripts : state[v] \notin {"adding", "returned"} /\ (Past(v) => t = v)
      BY <3>1 DEF FamilyInv
    <3>3. ~Past(s) /\ policy BY <1>4, <2>2, <3>1, <3>2
    <3>4. q \notin {"adding", "returned"} BY <3>2, <3>3
    <3>5. ~Past(s)' BY <3>3
    <3>. QED BY <1>1, <1>2, <2>2, <3>2, <3>4, <3>5
  <2>. QED BY <2>1, <2>2
<1>6. told' => /\ \E t \in Scripts : state'[t] = "returned"
               /\ \A a \in family.aliases : Brought(a)'
  <2>1. CASE told
    <3>1. PICK t \in Scripts : state[t] = "returned" BY <2>1 DEF FamilyInv
    <3>2. state'[t] = "returned" BY <1>1, <3>1
    <3>3. \A a \in family.aliases : Brought(a) BY <2>1 DEF FamilyInv
    <3>4. \A a \in family.aliases : Brought(a)' BY <3>1, <3>3, StaysBrought
    <3>. QED BY <3>2, <3>4
  <2>2. CASE ~told BY <1>1, <2>2
  <2>. QED BY <2>1, <2>2
<1>7. family' \in Families /\ StoreSound' BY DEF FamilyInv, Grows
<1>. QED BY <1>1, <1>3, <1>5, <1>6, <1>7 DEF FamilyInv

\* What is at the head of a plan.
LEMMA NextRequest ==
  ASSUME FamilyInv, NEW s \in Scripts, plan[s] # <<>>
  PROVE  /\ plan[s] \in Seq(Requests) /\ Head(plan[s]) \in Requests
         /\ state[s] \in {"setup", "adding"}
         /\ Tail(plan[s]) \in Seq(Requests)
         /\ Todo(plan[s]) = {Head(plan[s])} \cup Todo(Tail(plan[s]))
         /\ Head(plan[s]).do = "policy" \/ Head(plan[s]).of \in family.aliases
         /\ Head(plan[s]).do = "policy" => state[s] = "setup"
         /\ Head(plan[s]).do # "policy" => Past(s) \/ state[s] = "adding"
         /\ Head(plan[s]).do \in {"look", "create"} => Past(s) /\ policy
<1>1. plan[s] \in Seq(Requests) /\ ScriptOK(s) BY DEF FamilyInv
<1>2. state[s] \in {"setup", "adding"} BY <1>1 DEF ScriptOK, States
<1>3. /\ Head(plan[s]) \in Requests /\ Tail(plan[s]) \in Seq(Requests)
      /\ Todo(plan[s]) = {Head(plan[s])} \cup Todo(Tail(plan[s]))
  BY <1>1, TodoSplits
<1>4. CASE state[s] = "setup"
  <2>1. SetupShape(plan[s]) BY <1>1, <1>4 DEF ScriptOK
  <2>2. Head(plan[s]).do = "policy" \/ Head(plan[s]).of \in family.aliases
    BY <1>3, <2>1 DEF SetupShape
  <2>3. Head(plan[s]).do # "policy" => Past(s) /\ policy BY <1>1, <1>4 DEF Past, ScriptOK
  <2>. QED BY <1>1, <1>2, <1>3, <1>4, <2>2, <2>3
<1>5. CASE state[s] = "adding"
  <2>1. AddShape(plan[s]) BY <1>1, <1>5 DEF ScriptOK
  <2>2. Head(plan[s]).do \in {"template", "mapping"} /\ Head(plan[s]).of \in family.aliases
    BY <1>3, <2>1 DEF AddShape
  <2>. QED BY <1>1, <1>2, <1>3, <1>5, <2>2
<1>. QED BY <1>2, <1>4, <1>5

\* An index that comes to be behind an alias of the family once the policy is
\* there.
LEMMA NewIndexSound ==
  ASSUME FamilyInv, family' = family, policy, policy' = policy, template' = template,
         NEW a \in family.aliases, NEW k \in Suffixes, NEW r \in 0..2, NewIndex(a, k, r)
  PROVE  /\ StoreSound' /\ head'[a] = k /\ k # 0
         /\ \A b \in Aliases : b # a => head'[b] = head[b] /\ field'[b] = field[b]
         /\ field'[a][k] = Declares(r)
<1>1. a \in Aliases /\ StoreSound /\ LastIndex \in Nat
  BY FamilyAliases, FamilyAssumption DEF FamilyInv
<1>2. Declares(r) \in {"absent", "declared"} BY DEF Declares
<1>3. head' = [head EXCEPT ![a] = k] /\ field' = [field EXCEPT ![a][k] = Declares(r)]
      /\ managed' = [managed EXCEPT ![a] = @ \cup {k}]
  BY DEF NewIndex
<1>4. k # 0 /\ k \in 0..LastIndex BY <1>1 DEF Suffixes
<1>5. /\ head' \in [Aliases -> 0..LastIndex] /\ head'[a] = k
      /\ \A b \in Aliases : b # a => head'[b] = head[b]
  BY <1>1, <1>3, <1>4 DEF StoreSound
<1>6. /\ field' \in [Aliases -> [Suffixes -> {"none", "absent", "declared"}]]
      /\ field'[a][k] = Declares(r)
      /\ \A b \in Aliases : b # a => field'[b] = field[b]
  BY <1>1, <1>2, <1>3 DEF StoreSound
<1>7. /\ managed' \in [Aliases -> SUBSET Suffixes] /\ k \in managed'[a]
      /\ \A b \in Aliases : b # a => managed'[b] = managed[b]
  BY <1>1, <1>3 DEF StoreSound
<1>8. \A b \in Aliases : head'[b] # 0 =>
        b \in family'.aliases /\ head'[b] \in managed'[b] /\ policy'
  BY <1>1, <1>5, <1>7 DEF StoreSound
<1>9. template' \in [Aliases -> 0..2] /\ policy' \in BOOLEAN BY <1>1 DEF StoreSound
<1>. QED BY <1>4, <1>5, <1>6, <1>7, <1>8, <1>9 DEF StoreSound

LEMMA NothingGrows ==
  ASSUME FamilyInv, family' = family, UNCHANGED store
  PROVE  Grows
<1>1. UNCHANGED <<policy, template, head, field, managed>> BY DEF store
<1>. QED BY <1>1 DEF FamilyInv, Grows, StoreSound, Brought

\* A request that takes effect.
LEMMA EffectGrows ==
  ASSUME FamilyInv, family' = family, NEW s \in Scripts, plan[s] # <<>>,
         Effect(s, Head(plan[s]))
  PROVE  LET r == Head(plan[s]) IN
         /\ Grows
         /\ r.do = "policy" => ~policy /\ policy'
         /\ r.do = "create" => head'[r.of] # 0
         /\ r.do = "template" => template'[r.of] = release[s]
         /\ r.do = "mapping" => template' = template /\ field'[r.of][head'[r.of]] # "absent"
         /\ r.do # "look"
<1>. DEFINE r == Head(plan[s])
            a == r.of
<1>0. /\ StoreSound /\ r \in Requests /\ r.do \in Dos
      /\ r.do = "policy" \/ (a \in family.aliases /\ a \in Aliases)
      /\ r.do # "policy" => Past(s) \/ state[s] = "adding"
      /\ r.do \in {"look", "create"} => policy
      /\ release[s] \in {1, 2}
  BY NextRequest, FamilyAliases DEF FamilyInv, Requests
<1>1. CASE r.do = "policy" /\ PutPolicy(s)
  <2>1. ~policy /\ policy' BY <1>1, Zenon DEF PutPolicy
  <2>2. UNCHANGED <<template, head, field, managed>> BY <1>1 DEF PutPolicy
  <2>3. policy' \in BOOLEAN BY <1>1, Zenon DEF PutPolicy
  <2>4. StoreSound' BY <1>0, <2>1, <2>2, <2>3 DEF StoreSound
  <2>5. Grows BY <2>1, <2>2, <2>4 DEF Grows, Brought
  <2>. QED BY <1>1, <2>1, <2>5
<1>2. CASE r.do = "template" /\ PutTemplate(s, a)
  <2>1. /\ template' = [template EXCEPT ![a] = release[s]]
        /\ UNCHANGED <<policy, head, field, managed>>
    BY <1>2 DEF PutTemplate
  <2>2. template' \in [Aliases -> 0..2] /\ template'[a] = release[s]
        /\ \A b \in Aliases : b # a => template'[b] = template[b]
    BY <1>0, <1>2, <2>1 DEF StoreSound
  <2>3. StoreSound' BY <1>0, <2>1, <2>2 DEF StoreSound
  <2>4. Grows BY <1>0, <1>2, <2>1, <2>2, <2>3 DEF Grows, Brought
  <2>. QED BY <1>2, <2>2, <2>4
<1>3. CASE r.do = "mapping" /\ PutMapping(a)
  <2>1. /\ head[a] # 0 /\ UNCHANGED <<policy, template, head, managed>>
        /\ field' = [field EXCEPT ![a] =
             [k \in Suffixes |-> IF k \in LiveIndices(a) THEN "declared" ELSE "none"]]
    BY <1>3 DEF PutMapping
  <2>2. /\ field' \in [Aliases -> [Suffixes -> {"none", "absent", "declared"}]]
        /\ \A k \in Suffixes : field'[a][k] # "absent"
        /\ \A b \in Aliases : b # a => field'[b] = field[b]
    BY <1>0, <1>3, <2>1 DEF StoreSound
  <2>3. StoreSound' BY <1>0, <2>1, <2>2 DEF StoreSound
  <2>4. field'[a][head'[a]] # "absent"
    <3>1. head'[a] \in Suffixes BY <1>0, <1>3, <2>1 DEF StoreSound
    <3>. QED BY <2>2, <3>1
  <2>5. Grows
    <3>1. \A b \in Aliases : Brought(b) => field'[b][head'[b]] # "absent"
      BY <2>1, <2>2, <2>4 DEF Brought
    <3>. QED BY <2>1, <2>3, <3>1 DEF Grows
  <2>. QED BY <1>3, <2>1, <2>4, <2>5
<1>4. CASE r.do = "create" /\ Create(s, a)
  <2>1. head[a] = 0 /\ NewIndex(a, 1, release[s]) /\ UNCHANGED <<policy, template>>
    BY <1>4 DEF Create
  <2>2. 1 \in Suffixes /\ release[s] \in 0..2
    BY <1>0, FamilyAssumption DEF Suffixes
  <2>3. /\ StoreSound' /\ head'[a] # 0
        /\ \A b \in Aliases : b # a => head'[b] = head[b] /\ field'[b] = field[b]
    BY <1>0, <1>4, <2>1, <2>2, NewIndexSound
  <2>4. Grows BY <2>1, <2>3 DEF Grows, Brought
  <2>. QED BY <1>4, <2>3, <2>4
<1>. QED BY <1>1, <1>2, <1>3, <1>4 DEF Effect

LEMMA RaiseKeeps ==
  ASSUME FamilyInv, Grows, family' = family, NEW s \in Scripts, plan[s] # <<>>,
         Raise(s), UNCHANGED <<release, told>>
  PROVE  FamilyInv'
<1>1. /\ plan' = [plan EXCEPT ![s] = <<>>] /\ state' = [state EXCEPT ![s] = "raised"]
      /\ release' = [release EXCEPT ![s] = release[s]]
      /\ state[s] \in {"setup", "adding"} /\ <<>> \in Seq(Requests) /\ "raised" \in States
      /\ release[s] \in {1, 2}
  BY NextRequest, EmptySeq DEF Raise, FamilyInv, States
<1>2. plan'[s] = <<>> /\ state'[s] = "raised" /\ release'[s] \in {1, 2}
  BY <1>1 DEF FamilyInv
<1>3. ~Past(s)' BY <1>2 DEF Past
<1>4. ScriptOK(s)' BY <1>1, <1>2, <1>3 DEF ScriptOK
<1>5. told' => told OBVIOUS
<1>. HIDE DEF Raise
<1>. QED BY <1>1, <1>3, <1>4, <1>5, ScriptSteps

LEMMA StartKeeps ==
  ASSUME FamilyInv, NEW s \in Scripts, StartSetup(s) \/ StartAdding(s)
  PROVE  FamilyInv'
<1>1. /\ state[s] = "idle" /\ UNCHANGED <<family, store, told>>
  BY DEF StartSetup, StartAdding
<1>2. Grows BY <1>1, NothingGrows
<1>3. told' => told BY <1>1
<1>4. family \in Families /\ UNCHANGED <<policy, template, head, field>>
  BY <1>1 DEF FamilyInv, store
<1>5. CASE StartSetup(s)
  <2>1. PICK r \in {1, 2} : release' = [release EXCEPT ![s] = r]
    BY <1>5 DEF StartSetup
  <2>2. /\ plan' = [plan EXCEPT ![s] = Setup] /\ state' = [state EXCEPT ![s] = "setup"]
    BY <1>5 DEF StartSetup
  <2>3. /\ SetupShape(Setup) /\ Head(Setup).do = "policy"
        /\ \A a \in family.aliases : Request("look", a) \in Todo(Setup)
    BY <1>4, SetupPlan
  <2>4. Setup \in Seq(Requests) /\ "setup" \in States BY <2>3 DEF SetupShape, States
  <2>5. plan'[s] = Setup /\ state'[s] = "setup" /\ release'[s] = r
    BY <2>1, <2>2 DEF FamilyInv
  <2>6. ~Past(s)' BY <2>3, <2>5 DEF Past
  <2>7. SetupShape(plan[s])' BY <1>1, <2>3, <2>5 DEF SetupShape
  <2>8. ScriptOK(s)' BY <1>1, <2>3, <2>4, <2>5, <2>6, <2>7 DEF ScriptOK
  <2>. QED BY <1>1, <1>2, <1>3, <2>1, <2>2, <2>4, <2>6, <2>8, ScriptSteps
<1>6. CASE StartAdding(s)
  <2>1. /\ plan' = [plan EXCEPT ![s] = AddField] /\ state' = [state EXCEPT ![s] = "adding"]
        /\ release' = [release EXCEPT ![s] = 2]
    BY <1>6 DEF StartAdding
  <2>2. PICK t \in Scripts : state[t] = "returned" BY <1>6 DEF StartAdding
  <2>3. /\ AddShape(AddField)
        /\ \A a \in family.aliases : /\ Request("template", a) \in Todo(AddField)
                                     /\ Request("mapping", a) \in Todo(AddField)
    BY <1>4, AddPlan
  <2>4. AddField \in Seq(Requests) /\ "adding" \in States BY <2>3 DEF AddShape, States
  <2>5. plan'[s] = AddField /\ state'[s] = "adding" /\ release'[s] = 2
    BY <2>1 DEF FamilyInv
  <2>6. ~Past(s)' BY <2>5 DEF Past
  <2>7. AddShape(plan[s])' BY <1>1, <2>3, <2>5 DEF AddShape
  <2>8. \A a \in family.aliases : head'[a] # 0 BY <1>4, <2>2 DEF FamilyInv, ScriptOK
  <2>9. ScriptOK(s)' BY <1>1, <2>3, <2>4, <2>5, <2>6, <2>7, <2>8 DEF ScriptOK
  <2>10. \E u \in Scripts : state[u] \in {"adding", "returned"} BY <2>2
  <2>. QED BY <1>1, <1>2, <1>3, <2>1, <2>4, <2>6, <2>9, <2>10, ScriptSteps
<1>. QED BY <1>5, <1>6

\* A request leaves the head of a plan, done.
LEMMA ProceedKeeps ==
  ASSUME FamilyInv, Grows, family' = family, NEW s \in Scripts, plan[s] # <<>>,
         Proceed(s, Tail(plan[s])), release' = release,
         Head(plan[s]).do = "policy" => ~policy /\ policy',
         Head(plan[s]).do \in {"look", "create"} => head'[Head(plan[s]).of] # 0,
         Head(plan[s]).do = "template" => template'[Head(plan[s]).of] = release[s],
         Head(plan[s]).do = "mapping" =>
           template' = template /\ field'[Head(plan[s]).of][head'[Head(plan[s]).of]] # "absent",
         told' => told \/ (state[s] = "adding" /\ Tail(plan[s]) = <<>>)
  PROVE  FamilyInv'
<1>. DEFINE p == plan[s]
            r == Head(p)
            n == Tail(p)
            q == IF n = <<>> THEN "returned" ELSE state[s]
<1>1. /\ p \in Seq(Requests) /\ r \in Requests /\ n \in Seq(Requests)
      /\ state[s] \in {"setup", "adding"} /\ Todo(p) = {r} \cup Todo(n)
      /\ r.do = "policy" => state[s] = "setup"
      /\ r.do # "policy" => Past(s) \/ state[s] = "adding"
  BY NextRequest
<1>2. /\ plan' = [plan EXCEPT ![s] = n] /\ state' = [state EXCEPT ![s] = q]
      /\ release' = [release EXCEPT ![s] = release[s]]
      /\ q \in States /\ release[s] \in {1, 2}
  BY <1>1 DEF Proceed, FamilyInv, States
<1>3. plan'[s] = n /\ state'[s] = q /\ release'[s] = release[s] BY <1>2 DEF FamilyInv
<1>4. ScriptOK(s) /\ family.aliases \subseteq Aliases
  BY FamilyAliases DEF FamilyInv
<1>5. \A a \in family.aliases : head[a] # 0 => head'[a] # 0 BY <1>4 DEF Grows
<1>6. \A b : r = Request("look", b) \/ r = Request("create", b) => head'[b] # 0
  BY DEF Request
<1>7. CASE state[s] = "setup"
  <2>1. /\ SetupShape(p)
        /\ \A a \in family.aliases : head[a] # 0 \/ Request("look", a) \in Todo(p)
                                                 \/ Request("create", a) \in Todo(p)
    BY <1>4, <1>7 DEF ScriptOK
  <2>2. \A a \in family.aliases : head'[a] # 0 \/ Request("look", a) \in Todo(n)
                                               \/ Request("create", a) \in Todo(n)
    BY <1>1, <1>5, <1>6, <2>1
  <2>3. policy'
    <3>1. Past(s) => policy BY <1>4 DEF ScriptOK
    <3>. QED BY <1>1, <1>7, <3>1 DEF Grows
  <2>4. n = <<>> => Past(s)
    <3>. SUFFICES ASSUME n = <<>>, r.do = "policy" PROVE FALSE
      BY <1>1, <1>7
    <3>1. Todo(n) = {} BY TodoEmpty
    <3>2. 1 \in family.aliases /\ 1 \in Aliases
      <4>1. family.aliases \in {1..1, 1..2} BY AliasesOf DEF FamilyInv
      <4>. QED BY <4>1 DEF Aliases
    <3>3. ~policy BY <3>2
    <3>4. head[1] = 0 BY <3>2, <3>3 DEF FamilyInv, StoreSound
    <3>5. \/ Request("look", 1) \in Todo(p)
          \/ Request("create", 1) \in Todo(p)
      BY <2>1, <3>2, <3>4
    <3>6. r = Request("look", 1) \/ r = Request("create", 1) BY <1>1, <3>1, <3>5
    <3>. QED BY <3>6 DEF Request
  <2>5. ~policy \/ Past(s) BY <1>1, <1>7
  <2>6. n # <<>> => SetupShape(n) BY <1>1, <2>1, ShapesLast
  <2>7. n # <<>> => SetupShape(plan[s])' BY <1>3, <2>6 DEF SetupShape
  <2>8. n = <<>> => ~Past(s)' BY <1>3 DEF Past
  <2>9. n = <<>> => \A a \in family.aliases : head'[a] # 0
    <3>1. n = <<>> => Todo(n) = {} BY TodoEmpty
    <3>. QED BY <2>2, <3>1
  <2>10. CASE n = <<>>
    <3>1. plan'[s] = <<>> /\ state'[s] = "returned" BY <1>3, <2>10
    <3>2. ScriptOK(s)' BY <1>1, <1>2, <1>3, <2>8, <2>9, <2>10, <3>1 DEF ScriptOK
    <3>3. told' => told BY <1>7
    <3>4. q = "returned" BY <2>10
    <3>. QED BY <1>1, <1>2, <1>7, <2>4, <2>8, <2>10, <3>2, <3>3, ScriptSteps
  <2>11. CASE n # <<>>
    <3>1. plan'[s] = n /\ state'[s] = "setup" BY <1>3, <1>7, <2>11
    <3>2. ScriptOK(s)' BY <1>1, <1>2, <1>3, <2>2, <2>3, <2>7, <2>11, <3>1 DEF ScriptOK
    <3>3. told' => told BY <1>7
    <3>4. q = "setup" BY <1>7, <2>11
    <3>. QED BY <1>1, <1>2, <1>7, <2>5, <2>11, <3>2, <3>3, <3>4, ScriptSteps
  <2>. QED BY <2>10, <2>11
<1>8. CASE state[s] = "adding"
  <2>1. /\ AddShape(p) /\ release[s] = 2
        /\ \A a \in family.aliases :
             /\ Request("template", a) \notin Todo(p) => template[a] = 2
             /\ Request("mapping", a) \notin Todo(p) => Brought(a)
    BY <1>4, <1>8 DEF ScriptOK
  <2>2. \A a \in family.aliases : /\ head[a] # 0
                                  /\ template[a] = 2 => template'[a] = 2
                                  /\ Brought(a) => Brought(a)'
    BY <1>8, StaysBrought
  <2>3. \A a \in family.aliases : Request("template", a) \notin Todo(n) => template'[a] = 2
    <3>. SUFFICES ASSUME NEW a \in family.aliases, Request("template", a) \notin Todo(n)
                  PROVE  template'[a] = 2
      OBVIOUS
    <3>1. CASE r = Request("template", a) BY <2>1, <3>1 DEF Request
    <3>2. CASE r # Request("template", a) BY <1>1, <2>1, <2>2, <3>2
    <3>. QED BY <3>1, <3>2
  <2>4. \A a \in family.aliases : Request("mapping", a) \notin Todo(n) => Brought(a)'
    <3>. SUFFICES ASSUME NEW a \in family.aliases, Request("mapping", a) \notin Todo(n)
                  PROVE  Brought(a)'
      OBVIOUS
    <3>1. CASE r = Request("mapping", a)
      <4>1. r.do = "mapping" /\ r.of = a BY <3>1 DEF Request
      <4>2. \A x \in Todo(p) : x.do = "mapping" BY <2>1, <4>1, TemplatesFirst
      <4>3. Request("template", a) \notin Todo(p) BY <4>2 DEF Request
      <4>4. template'[a] = 2 BY <2>1, <2>2, <4>3
      <4>5. field'[a][head'[a]] # "absent" BY <4>1
      <4>. QED BY <4>4, <4>5 DEF Brought
    <3>2. CASE r # Request("mapping", a) BY <1>1, <2>1, <2>2, <3>2
    <3>. QED BY <3>1, <3>2
  <2>5. n # <<>> => AddShape(n) BY <1>1, <2>1, ShapesLast
  <2>6. n # <<>> => AddShape(plan[s])' BY <1>3, <2>5 DEF AddShape
  <2>7. \A a \in family.aliases : head'[a] # 0 BY <1>5, <2>2
  <2>8. ~Past(s)' BY <1>3, <1>8 DEF Past
  <2>9. \E t \in Scripts : state[t] \in {"adding", "returned"} BY <1>8
  <2>10. CASE n = <<>>
    <3>1. plan'[s] = <<>> /\ state'[s] = "returned" BY <1>3, <2>10
    <3>2. ScriptOK(s)' BY <1>1, <1>2, <1>3, <2>7, <2>8, <2>10, <3>1 DEF ScriptOK
    <3>3. \A a \in family.aliases : Brought(a)'
      <4>1. Todo(n) = {} BY <2>10, TodoEmpty
      <4>. QED BY <2>4, <4>1
    <3>4. q = "returned" BY <2>10
    <3>. QED BY <1>1, <1>2, <1>8, <2>8, <2>9, <3>2, <3>3, <3>4, ScriptSteps
  <2>11. CASE n # <<>>
    <3>1. plan'[s] = n /\ state'[s] = "adding" BY <1>3, <1>8, <2>11
    <3>2. ScriptOK(s)'
      BY <1>1, <1>2, <1>3, <2>1, <2>3, <2>4, <2>6, <2>7, <2>8, <2>11, <3>1 DEF ScriptOK
    <3>3. told' => told BY <2>11
    <3>4. q = "adding" BY <1>8, <2>11
    <3>. QED BY <1>1, <1>2, <1>8, <2>8, <2>9, <3>2, <3>3, <3>4, ScriptSteps
  <2>. QED BY <2>10, <2>11
<1>. QED BY <1>1, <1>7, <1>8

LEMMA SendKeeps ==
  ASSUME FamilyInv, NEW s \in Scripts, Send(s) PROVE FamilyInv'
<1>1. /\ plan[s] # <<>> /\ Head(plan[s]).do # "look" /\ Effect(s, Head(plan[s]))
      /\ Proceed(s, Tail(plan[s])) /\ family' = family /\ release' = release
  BY DEF Send
<1>2. told' => told \/ (state[s] = "adding" /\ Tail(plan[s]) = <<>>)
  <2>1. told' = (told \/ (state[s] = "adding" /\ Tail(plan[s]) = <<>>)) BY DEF Send
  <2>. QED BY <2>1, Zenon
<1>3. LET r == Head(plan[s]) IN
      /\ Grows
      /\ r.do = "policy" => ~policy /\ policy'
      /\ r.do = "create" => head'[r.of] # 0
      /\ r.do = "template" => template'[r.of] = release[s]
      /\ r.do = "mapping" => template' = template /\ field'[r.of][head'[r.of]] # "absent"
  BY <1>1, EffectGrows
<1>. QED BY <1>1, <1>2, <1>3, ProceedKeeps

LEMMA LookKeeps ==
  ASSUME FamilyInv, NEW s \in Scripts, Look(s) PROVE FamilyInv'
<1>. DEFINE a == Head(plan[s]).of
            p == <<Request("create", a)>> \o Tail(plan[s])
<1>1. /\ plan[s] # <<>> /\ Head(plan[s]).do = "look"
      /\ UNCHANGED <<family, store, release, told>>
  BY DEF Look
<1>2. Grows BY <1>1, NothingGrows
<1>3. /\ Past(s) /\ policy /\ plan[s] \in Seq(Requests) /\ Head(plan[s]) \in Requests
      /\ Tail(plan[s]) \in Seq(Requests) /\ a \in family.aliases
      /\ Todo(plan[s]) = {Head(plan[s])} \cup Todo(Tail(plan[s]))
  BY <1>1, NextRequest
<1>4. UNCHANGED <<policy, template, head, field>> BY <1>1 DEF store
<1>5. CASE head[a] # 0 /\ Proceed(s, Tail(plan[s]))
  BY <1>1, <1>2, <1>4, <1>5, ProceedKeeps
<1>6. CASE Raise(s) BY <1>1, <1>2, <1>6, RaiseKeeps
<1>7. CASE Proceed(s, p)
  <2>1. Request("create", a) \in Requests
    <3>1. a \in 0..2 BY <1>3 DEF Requests
    <3>. QED BY <3>1 DEF Request, Requests, Dos
  <2>2. \A r \in Requests, q \in Seq(Requests) :
          /\ <<r>> \o q \in Seq(Requests) /\ <<r>> \o q # <<>>
          /\ Head(<<r>> \o q) = r /\ Tail(<<r>> \o q) = q
    OBVIOUS
  <2>3. /\ p \in Seq(Requests) /\ p # <<>> /\ Head(p) = Request("create", a)
        /\ Tail(p) = Tail(plan[s])
    BY <1>3, <2>1, <2>2
  <2>. HIDE DEF p
  <2>4. Todo(p) = {Request("create", a)} \cup Todo(Tail(plan[s])) BY <2>3, TodoSplits
  <2>5. state[s] = "setup" BY <1>3 DEF Past
  <2>6. /\ SetupShape(plan[s])
        /\ \A b \in family.aliases : \/ head[b] # 0
                                     \/ Request("look", b) \in Todo(plan[s])
                                     \/ Request("create", b) \in Todo(plan[s])
    BY <2>5 DEF FamilyInv, ScriptOK
  <2>7. SetupShape(p)
    <3>1. \A r \in Todo(p) :
            r.do = "policy" \/ (r.do \in {"template", "look", "create"} /\ r.of \in family.aliases)
      BY <1>3, <2>4, <2>6 DEF SetupShape, Request
    <3>. QED BY <2>3, <2>6, <3>1 DEF SetupShape
  <2>8. \A b \in family.aliases : \/ head[b] # 0
                                  \/ Request("look", b) \in Todo(p)
                                  \/ Request("create", b) \in Todo(p)
    <3>1. \A b : Head(plan[s]) = Request("look", b) => b = a BY DEF Request
    <3>2. \A b : Head(plan[s]) # Request("create", b) BY <1>1 DEF Request
    <3>. QED BY <1>3, <2>4, <2>6, <3>1, <3>2
  <2>9. /\ plan' = [plan EXCEPT ![s] = p] /\ state' = [state EXCEPT ![s] = "setup"]
        /\ release' = [release EXCEPT ![s] = release[s]] /\ release[s] \in {1, 2}
        /\ "setup" \in States
    BY <1>1, <1>7, <2>3, <2>5 DEF Proceed, FamilyInv, States
  <2>10. plan'[s] = p /\ state'[s] = "setup" /\ release'[s] = release[s]
    BY <2>9 DEF FamilyInv
  <2>11. SetupShape(plan[s])' BY <1>1, <2>7, <2>10 DEF SetupShape
  <2>12. ScriptOK(s)'
    BY <1>1, <1>3, <1>4, <2>3, <2>8, <2>9, <2>10, <2>11 DEF ScriptOK
  <2>13. told' => told BY <1>1
  <2>. QED BY <1>1, <1>2, <1>3, <2>3, <2>5, <2>9, <2>12, <2>13, ScriptSteps
<1>. QED BY <1>5, <1>6, <1>7 DEF Look

LEMMA FailsKeeps ==
  ASSUME FamilyInv, NEW s \in Scripts, Denied(s) \/ Fails(s) PROVE FamilyInv'
<1>1. /\ plan[s] # <<>> /\ Raise(s) /\ family' = family /\ UNCHANGED <<release, told>>
      /\ UNCHANGED store \/ Effect(s, Head(plan[s]))
  BY DEF Denied, Fails
<1>2. Grows BY <1>1, NothingGrows, EffectGrows
<1>. QED BY <1>1, <1>2, RaiseKeeps

\* What ISM and the writers do.
LEMMA OutsideKeeps ==
  ASSUME FamilyInv, Grows, UNCHANGED <<family, scripts, told>> PROVE FamilyInv'
<1>1. UNCHANGED <<family, plan, release, state, told>> BY DEF scripts
<1>2. \A t \in Scripts : ScriptOK(t)' /\ (Past(t)' <=> Past(t)) BY <1>1, OthersKeep
<1>3. told' => /\ \E t \in Scripts : state'[t] = "returned"
               /\ \A a \in family'.aliases : Brought(a)'
  <2>1. told' => told BY <1>1
  <2>2. ASSUME told PROVE \A a \in family.aliases : Brought(a)'
    <3>1. PICK t \in Scripts : state[t] = "returned" BY <2>2 DEF FamilyInv
    <3>2. \A a \in family.aliases : Brought(a) BY <2>2 DEF FamilyInv
    <3>. QED BY <3>1, <3>2, StaysBrought
  <2>. QED BY <1>1, <2>1, <2>2 DEF FamilyInv
<1>4. StoreSound' BY DEF Grows
<1>. QED BY <1>1, <1>2, <1>3, <1>4 DEF FamilyInv

LEMMA OutsideGrows ==
  ASSUME FamilyInv, NEW a \in Aliases,
         RollsOver(a) \/ Expires(a) \/ Squat(a) \/ \E e \in Events : Ingest(a, e)
  PROVE  Grows /\ UNCHANGED <<family, scripts, told>>
<1>0. StoreSound /\ LastIndex \in Nat BY FamilyAssumption DEF FamilyInv
<1>1. CASE RollsOver(a)
  <2>1. /\ head[a] \in managed[a] /\ head[a] < LastIndex
        /\ NewIndex(a, head[a] + 1, template[a])
        /\ UNCHANGED <<family, policy, template, scripts, told>>
    BY <1>1 DEF RollsOver
  <2>2. /\ head[a] \in Nat /\ head[a] # 0 /\ head[a] + 1 \in Suffixes
        /\ a \in family.aliases /\ policy /\ template[a] \in 0..2
    BY <1>0, <2>1 DEF StoreSound, Suffixes
  <2>3. /\ StoreSound' /\ head'[a] = head[a] + 1 /\ head'[a] # 0
        /\ \A b \in Aliases : b # a => head'[b] = head[b] /\ field'[b] = field[b]
        /\ field'[a][head'[a]] = Declares(template[a])
    BY <2>1, <2>2, NewIndexSound
  <2>4. Brought(a) => field'[a][head'[a]] # "absent" BY <2>3 DEF Brought, Declares
  <2>5. \A b \in Aliases : head[b] # 0 /\ Brought(b) => field'[b][head'[b]] # "absent"
    BY <2>3, <2>4 DEF Brought
  <2>6. \A b \in Aliases : head[b] # 0 => head'[b] # 0 BY <2>3
  <2>. QED BY <2>1, <2>3, <2>5, <2>6 DEF Grows
<1>2. CASE Expires(a)
  <2>1. PICK k \in managed[a] \ {head[a]} :
          /\ field' = [field EXCEPT ![a][k] = "none"]
          /\ managed' = [managed EXCEPT ![a] = @ \ {k}]
    BY <1>2 DEF Expires
  <2>2. UNCHANGED <<family, policy, template, head, scripts, told>> BY <1>2 DEF Expires
  <2>3. /\ field' \in [Aliases -> [Suffixes -> {"none", "absent", "declared"}]]
        /\ \A b \in Aliases : field'[b][head[b]] = field[b][head[b]]
    BY <1>0, <2>1 DEF StoreSound
  <2>4. /\ managed' \in [Aliases -> SUBSET Suffixes]
        /\ \A b \in Aliases : head[b] \in managed[b] => head[b] \in managed'[b]
    BY <1>0, <2>1 DEF StoreSound
  <2>5. StoreSound' BY <1>0, <2>2, <2>3, <2>4 DEF StoreSound
  <2>6. \A b \in Aliases : Brought(b) => field'[b][head'[b]] # "absent"
    BY <2>2, <2>3 DEF Brought
  <2>. QED BY <2>2, <2>5, <2>6 DEF Grows
<1>3. CASE Squat(a)
  <2>1. UNCHANGED <<family, policy, template, head, field, managed, scripts, told>>
    BY <1>3 DEF Squat
  <2>2. StoreSound' BY <1>0, <2>1 DEF StoreSound
  <2>. QED BY <2>1, <2>2 DEF Grows, Brought
<1>4. ASSUME NEW e \in Events, Ingest(a, e)
      PROVE  Grows /\ UNCHANGED <<family, scripts, told>>
  <2>1. /\ head[a] # 0 /\ UNCHANGED <<family, policy, template, head, managed, scripts, told>>
        /\ \/ UNCHANGED field
           \/ told /\ field' = [field EXCEPT ![a][head[a]] = IF @ = "absent" THEN "parsed" ELSE @]
    BY <1>4 DEF Ingest
  <2>2. field' = field
    <3>1. told => field[a][head[a]] # "absent"
      BY <1>0, <2>1 DEF FamilyInv, StoreSound, Brought
    <3>2. ASSUME field[a][head[a]] # "absent",
                 field' = [field EXCEPT ![a][head[a]] = IF @ = "absent" THEN "parsed" ELSE @]
          PROVE  field' = field
      BY <1>0, <3>2 DEF StoreSound
    <3>. QED BY <2>1, <3>1, <3>2
  <2>3. StoreSound' BY <1>0, <2>1, <2>2 DEF StoreSound
  <2>. QED BY <2>1, <2>2, <2>3 DEF Grows, Brought
<1>. QED BY <1>1, <1>2, <1>3, <1>4

LEMMA FamilyNextInv == FamilyInv /\ [FamilyNext]_familyVars => FamilyInv'
<1>. SUFFICES ASSUME FamilyInv, [FamilyNext]_familyVars PROVE FamilyInv'
  OBVIOUS
<1>1. ASSUME NEW s \in Scripts, Script(s) PROVE FamilyInv'
  BY <1>1, StartKeeps, SendKeeps, LookKeeps, FailsKeeps DEF Script
<1>2. ASSUME NEW a \in Aliases,
             RollsOver(a) \/ Expires(a) \/ Squat(a) \/ \E e \in Events : Ingest(a, e)
      PROVE  FamilyInv'
  BY <1>2, OutsideGrows, OutsideKeeps
<1>3. ASSUME UNCHANGED familyVars PROVE FamilyInv'
  <2>1. UNCHANGED <<family, store, scripts, told>> BY <1>3 DEF familyVars
  <2>. QED BY <2>1, NothingGrows, OutsideKeeps
<1>. QED BY <1>1, <1>2, <1>3 DEF FamilyNext

LEMMA InvIsSound == FamilyInv => FamilySound
<1>. SUFFICES ASSUME FamilyInv PROVE FamilySound
  OBVIOUS
<1>1. \A s \in Scripts : state[s] = "returned" =>
        \A a \in family.aliases : head[a] \in managed[a]
  BY FamilyAliases DEF FamilyInv, ScriptOK, StoreSound
<1>2. \A a \in Aliases, k \in Suffixes : field[a][k] # "parsed"
  <2>1. field \in [Aliases -> [Suffixes -> {"none", "absent", "declared"}]]
    BY DEF FamilyInv, StoreSound
  <2>2. \A a \in Aliases, k \in Suffixes : field[a][k] \in {"none", "absent", "declared"}
    BY <2>1
  <2>. QED BY <2>2
<1>. QED BY <1>1, <1>2 DEF FamilySound

\* A setup that returns leaves every alias with a write index that ISM
\* manages, and a field added ahead of its first document is never parsed, for
\* any number of scripts of either release, any ids and any rollovers.
THEOREM FamiliesAreSound == FamilySpec => []FamilySound
<1>. QED BY FamilyInitInv, FamilyNextInv, InvIsSound, PTL DEF FamilySpec

(****************************** SearchPages ********************************)

Found == [of : Documents, at : Int \X Documents]

SearchTypeOK ==
  /\ rank \in [Documents -> 0..Ranks]
  /\ sorting \in {"none", "asc", "desc"}
  /\ pageSize \in Nat \ {0} /\ maxRows \in Nat
  /\ hits \in Seq(Found)
  /\ unchanged \subseteq Matching

\* The hits are sorted by where they were found, a document that stayed as it
\* was is found where it is, and only once.
InOrder(rows) ==
  \A i, j \in 1..Len(rows) : i < j =>
    /\ ~Precedes(rows[j].at, rows[i].at)
    /\ rows[i].of = rows[j].of => rows[i].of \notin unchanged

WhereFound(rows) == \A i \in 1..Len(rows) :
  /\ rows[i].at[2] = IdOf(rows[i].of)
  /\ rows[i].of \in unchanged => rows[i].at = Position(rows[i].of)

\* The position the next request starts at is that of the last hit, and what
\* stayed as it was up to there has been found, or one at its position.
AtLast ==
  search = "paging" =>
    IF hits = <<>> THEN after = <<>> ELSE after = hits[Len(hits)].at

PassedFound ==
  search = "paging" /\ hits # <<>> => \A d \in unchanged :
    Precedes(after, Position(d)) \/ \E i \in 1..Len(hits) : hits[i].at = Position(d)

PageInv ==
  /\ SearchTypeOK /\ InOrder(hits) /\ WhereFound(hits) /\ AtLast /\ PassedFound /\ PagedOnce

LEMMA PositionTypes ==
  ASSUME SearchTypeOK, NEW d \in Documents
  PROVE  /\ IdOf(d) \in Documents /\ SortValue(d) \in Int
         /\ Position(d) \in Int \X Documents
         /\ Position(d)[1] = SortValue(d) /\ Position(d)[2] = IdOf(d)
<1>1. IdOf(d) \in Documents
  BY SearchAssumption DEF IdOf, Documents
<1>2. SortValue(d) \in Int
  BY SearchAssumption DEF SearchTypeOK, SortValue
<1> QED
  BY <1>1, <1>2 DEF Position

\* Positions are ordered, from the first to the last.
LEMMA PrecedesOrder ==
  ASSUME NEW p \in Int \X Documents, NEW q \in Int \X Documents
  PROVE  /\ ~Precedes(p, p)
         /\ Precedes(p, q) => ~Precedes(q, p)
         /\ Precedes(p, q) \/ Precedes(q, p) \/ p = q
         /\ \A r \in Int \X Documents :
              /\ Precedes(p, q) /\ ~Precedes(r, q) => Precedes(p, r)
              /\ ~Precedes(q, p) /\ Precedes(q, r) => Precedes(p, r)
              /\ ~Precedes(q, p) /\ ~Precedes(r, q) => ~Precedes(r, p)
<1>1. \A s \in Int \X Documents : s[1] \in Int /\ s[2] \in Int /\ s = <<s[1], s[2]>>
  BY DEF Documents
<1> QED
  BY <1>1 DEF Precedes

LEMMA EarlierOrder ==
  ASSUME SearchTypeOK, NEW d \in Documents, NEW e \in Documents
  PROVE  /\ ~Earlier(d, d)
         /\ d # e => Earlier(d, e) \/ Earlier(e, d)
         /\ Earlier(d, e) => ~Precedes(Position(e), Position(d)) /\ d # e
         /\ \A f \in Documents : Earlier(d, e) /\ Earlier(e, f) => Earlier(d, f)
<1>1. \A f \in Documents : Position(f) \in Int \X Documents
  BY PositionTypes
<1>2. \A f \in Documents : f \in Int
  BY DEF Documents
<1>3. /\ ~Precedes(Position(d), Position(d))
      /\ Precedes(Position(d), Position(e)) => ~Precedes(Position(e), Position(d))
      /\ Precedes(Position(d), Position(e)) \/ Precedes(Position(e), Position(d))
           \/ Position(d) = Position(e)
  BY <1>1, PrecedesOrder
<1>4. ASSUME NEW f \in Documents, Earlier(d, e), Earlier(e, f) PROVE Earlier(d, f)
  <2>1. CASE Position(d) = Position(e)
    <3>1. d < e
      BY <1>1, <1>4, <2>1, PrecedesOrder DEF Earlier
    <3>2. CASE Position(e) = Position(f)
      <4>1. e < f
        BY <1>1, <1>4, <3>2, PrecedesOrder DEF Earlier
      <4> QED
        BY <1>2, <2>1, <3>1, <3>2, <4>1 DEF Earlier
    <3> QED
      BY <1>4, <2>1, <3>2 DEF Earlier
  <2>2. CASE Position(d) # Position(e)
    <3>1. Precedes(Position(d), Position(e))
      BY <1>4, <2>2 DEF Earlier
    <3>2. ~Precedes(Position(f), Position(e))
      BY <1>1, <1>4, PrecedesOrder DEF Earlier
    <3>3. Precedes(Position(d), Position(f))
      BY <1>1, <3>1, <3>2, PrecedesOrder
    <3> QED
      BY <3>3 DEF Earlier
  <2> QED
    BY <2>1, <2>2
<1>5. ~Earlier(d, d)
  BY <1>2, <1>3 DEF Earlier
<1>6. d # e => Earlier(d, e) \/ Earlier(e, d)
  BY <1>2, <1>3 DEF Earlier
<1>7. Earlier(d, e) => ~Precedes(Position(e), Position(d)) /\ d # e
  BY <1>3, <1>5 DEF Earlier
<1> QED
  BY <1>4, <1>5, <1>6, <1>7

LEMMA BeyondFinite ==
  Beyond \subseteq Documents /\ IsFiniteSet(Beyond) /\ Cardinality(Beyond) \in Nat
<1>1. IsFiniteSet(Documents)
  BY SearchAssumption, FS_Interval DEF Documents
<1>2. Beyond \subseteq Documents
  BY DEF Beyond, Matching
<1> QED
  BY <1>1, <1>2, FS_Subset, FS_CardinalityType

\* The places of what is beyond a position are 0, 1, 2, ..., in order.
LEMMA PlaceBound ==
  ASSUME SearchTypeOK, NEW d \in Beyond
  PROVE  Place(d) \in 0..Cardinality(Beyond)-1
<1> DEFINE before == {e \in Beyond : Earlier(e, d)}
<1>1. d \in Documents /\ ~Earlier(d, d)
  BY BeyondFinite, EarlierOrder
<1>2. before \subseteq Beyond \ {d}
  BY <1>1
<1>3. IsFiniteSet(Beyond \ {d}) /\ Cardinality(Beyond \ {d}) = Cardinality(Beyond) - 1
  BY BeyondFinite, FS_RemoveElement
<1>4. Cardinality(before) \in Nat /\ Cardinality(before) <= Cardinality(Beyond) - 1
  BY <1>2, <1>3, FS_Subset, FS_CardinalityType
<1> QED
  BY <1>4, BeyondFinite DEF Place

LEMMA PlaceOrder ==
  ASSUME SearchTypeOK, NEW d \in Beyond, NEW e \in Beyond, Earlier(d, e)
  PROVE  Place(d) < Place(e)
<1> DEFINE before(x) == {y \in Beyond : Earlier(y, x)}
<1>1. \A y \in Beyond : Earlier(y, d) => Earlier(y, e)
  BY BeyondFinite, EarlierOrder
<1>2. d \notin before(d)
  BY BeyondFinite, EarlierOrder
<1>3. before(d) \cup {d} \subseteq before(e)
  BY <1>1
<1>4. /\ IsFiniteSet(before(d)) /\ IsFiniteSet(before(e))
      /\ Cardinality(before(d)) \in Nat /\ Cardinality(before(e)) \in Nat
  <2>1. before(d) \subseteq Beyond /\ before(e) \subseteq Beyond
    OBVIOUS
  <2> HIDE DEF before
  <2> QED
    BY <2>1, BeyondFinite, FS_Subset, FS_CardinalityType
<1>5. Cardinality(before(d) \cup {d}) = Cardinality(before(d)) + 1
  <2> HIDE DEF before
  <2> QED
    BY <1>2, <1>4, FS_AddElement
<1>6. Cardinality(before(d) \cup {d}) <= Cardinality(before(e))
  <2> HIDE DEF before
  <2> QED
    BY <1>3, <1>4, FS_Subset
<1>7. Place(d) = Cardinality(before(d)) /\ Place(e) = Cardinality(before(e))
  BY DEF Place
<1> HIDE DEF before
<1> QED
  BY <1>4, <1>5, <1>6, <1>7

LEMMA PlaceTaken ==
  ASSUME SearchTypeOK, NEW k \in 0..Cardinality(Beyond)-1
  PROVE  \E d \in Beyond : Place(d) = k
<1> DEFINE n == Cardinality(Beyond)
           f == [d \in Beyond |-> Place(d)]
<1>1. f \in [Beyond -> 0..n-1]
  BY PlaceBound
<1>2. \A d, e \in Beyond : f[d] = f[e] => d = e
  <2> SUFFICES ASSUME NEW d \in Beyond, NEW e \in Beyond, Place(d) = Place(e), d # e PROVE FALSE
    OBVIOUS
  <2>1. Earlier(d, e) \/ Earlier(e, d)
    BY BeyondFinite, EarlierOrder
  <2>2. Place(d) \in Int
    BY PlaceBound
  <2> QED
    BY <2>1, <2>2, PlaceOrder
<1>3. f \in Injection(Beyond, 0..n-1)
  BY <1>1, <1>2, Fun_IsInj
<1>4. IsFiniteSet(0..n-1) /\ Cardinality(0..n-1) = n
  BY BeyondFinite, FS_Interval
<1>5. f \in Surjection(Beyond, 0..n-1)
  <2> HIDE DEF f
  <2> QED
    BY <1>3, <1>4, FS_Injection
<1>6. \E d \in Beyond : f[d] = k
  BY <1>5 DEF Surjection
<1> QED
  BY <1>6

\* A page is the first documents beyond the position, in order.
LEMMA PageFacts ==
  ASSUME SearchTypeOK
  PROVE  /\ Page \in Seq(Found) /\ Len(Page) \in 0..pageSize
         /\ \A i \in 1..Len(Page) : Page[i].of \in Beyond /\ Page[i].at = Position(Page[i].of)
         /\ \A i, j \in 1..Len(Page) : i < j => Earlier(Page[i].of, Page[j].of)
         /\ \A d \in Beyond : \/ \E i \in 1..Len(Page) : Page[i].of = d
                              \/ Len(Page) = pageSize /\ Earlier(Page[pageSize].of, d)
<1> DEFINE size == Cardinality(Beyond)
           len == IF size < pageSize THEN size ELSE pageSize
           Hit(i) == CHOOSE d \in Beyond : Place(d) = i - 1
<1>1. len \in Nat /\ len <= size /\ len <= pageSize /\ (len = size \/ len = pageSize)
  BY BeyondFinite DEF SearchTypeOK
<1>2. Page = [i \in 1..len |-> [of |-> Hit(i), at |-> Position(Hit(i))]]
  BY DEF Page
<1>3. \A i \in 1..len : Hit(i) \in Beyond /\ Place(Hit(i)) = i - 1
  <2> TAKE i \in 1..len
  <2>1. i - 1 \in 0..size-1
    BY <1>1, BeyondFinite
  <2>2. \E d \in Beyond : Place(d) = i - 1
    BY <2>1, PlaceTaken
  <2> QED
    BY <2>2
<1> HIDE DEF Hit, len
<1>4. \A i \in 1..len : [of |-> Hit(i), at |-> Position(Hit(i))] \in Found
  BY <1>3, BeyondFinite, PositionTypes DEF Found
<1>5. Page \in Seq(Found) /\ Len(Page) = len
  BY <1>1, <1>2, <1>4
<1>6. \A i \in 1..len : Page[i].of = Hit(i) /\ Page[i].at = Position(Hit(i))
  BY <1>2
<1>7. ASSUME NEW i \in 1..len, NEW d \in Beyond, i - 1 < Place(d) PROVE Earlier(Hit(i), d)
  <2>1. Hit(i) \in Beyond /\ Place(Hit(i)) = i - 1 /\ Hit(i) \in Documents /\ d \in Documents
    BY <1>3, BeyondFinite
  <2>2. Place(d) \in Int /\ i \in Int
    BY PlaceBound
  <2>3. Hit(i) # d
    BY <1>7, <2>1, <2>2
  <2>4. ~Earlier(d, Hit(i))
    BY <1>7, <2>1, <2>2, PlaceOrder
  <2> QED
    BY <2>1, <2>3, <2>4, EarlierOrder
<1>8. \A i, j \in 1..len : i < j => Earlier(Hit(i), Hit(j))
  BY <1>1, <1>3, <1>7
<1>9. ASSUME NEW d \in Beyond
      PROVE  \/ \E i \in 1..len : Hit(i) = d
             \/ len = pageSize /\ Earlier(Hit(pageSize), d)
  <2>1. Place(d) \in 0..size-1
    BY PlaceBound
  <2>2. CASE Place(d) < len
    <3>1. Place(d) + 1 \in 1..len
      BY <1>1, <2>1, <2>2
    <3>2. Hit(Place(d) + 1) \in Beyond /\ Place(Hit(Place(d) + 1)) = Place(d)
      BY <1>3, <2>1, <3>1
    <3>3. Hit(Place(d) + 1) = d
      BY <2>1, <3>2, BeyondFinite, EarlierOrder, PlaceOrder
    <3> QED
      BY <3>1, <3>3
  <2>3. CASE ~(Place(d) < len)
    <3>1. len = pageSize /\ len \in 1..len /\ len - 1 < Place(d)
      BY <1>1, <2>1, <2>3, BeyondFinite DEF SearchTypeOK
    <3> QED
      BY <1>7, <3>1
  <2> QED
    BY <2>2, <2>3
<1>10. ASSUME len = pageSize PROVE pageSize \in 1..len
  BY <1>1, <1>10 DEF SearchTypeOK
<1> QED
  BY <1>1, <1>3, <1>5, <1>6, <1>8, <1>9, <1>10

\* After another page, before it is cut to max_rows.
LEMMA FoundFacts ==
  ASSUME PageInv, search = "paging"
  PROVE  LET allHits == hits \o Page
         IN  /\ allHits \in Seq(Found) /\ InOrder(allHits) /\ WhereFound(allHits)
             /\ Len(allHits) = Len(hits) + Len(Page)
             /\ Len(Page) # 0 => allHits[Len(allHits)] = Page[Len(Page)]
             /\ \A d \in unchanged :
                  \/ \E i \in 1..Len(allHits) : allHits[i].at = Position(d)
                  \/ /\ Len(Page) = pageSize
                     /\ Precedes(allHits[Len(allHits)].at, Position(d))
<1> DEFINE allHits == hits \o Page
           h == Len(hits)
           p == Len(Page)
<1>1. SearchTypeOK /\ hits \in Seq(Found) /\ h \in Nat
  BY DEF PageInv, SearchTypeOK
<1>2. Page \in Seq(Found) /\ p \in Nat /\ p <= pageSize
  BY <1>1, PageFacts DEF SearchTypeOK
<1>3. allHits \in Seq(Found) /\ Len(allHits) = h + p
  BY <1>1, <1>2
<1>4. /\ \A i \in 1..h : allHits[i] = hits[i]
      /\ \A i \in 1..h+p : i > h => i - h \in 1..p /\ allHits[i] = Page[i - h]
  BY <1>1, <1>2
<1>5. \A i \in 1..h : hits[i] \in Found /\ hits[i].at \in Int \X Documents
  <2>1. \A r \in Found : r.at \in Int \X Documents
    BY DEF Found
  <2>2. \A i \in 1..h : hits[i] \in Found
    BY <1>1
  <2> QED
    BY <2>1, <2>2
<1>6. \A i \in 1..p : /\ Page[i].of \in Beyond /\ Page[i].of \in Documents
                      /\ Page[i].at = Position(Page[i].of) /\ Page[i].at \in Int \X Documents
  BY <1>1, PageFacts, BeyondFinite, PositionTypes
<1> DEFINE last == hits[h].at
<1>7. ASSUME h # 0
      PROVE  /\ after = last /\ after # <<>> /\ last \in Int \X Documents
             /\ \A i \in 1..h : ~Precedes(last, hits[i].at)
             /\ \A d \in unchanged :
                  Precedes(last, Position(d)) \/ \E i \in 1..h : hits[i].at = Position(d)
  <2>1. h \in 1..h /\ hits # <<>>
    BY <1>1, <1>7
  <2>2. after = last /\ last \in Int \X Documents
    BY <1>5, <2>1 DEF PageInv, AtLast
  <2>3. after # <<>>
    BY <2>2
  <2>4. \A i \in 1..h : ~Precedes(last, hits[i].at)
    <3> SUFFICES ASSUME NEW i \in 1..h PROVE ~Precedes(last, hits[i].at)
      OBVIOUS
    <3>1. CASE i = h
      BY <2>2, <3>1, PrecedesOrder
    <3>2. CASE i < h
      BY <1>1, <2>1, <3>2 DEF PageInv, InOrder
    <3> QED
      BY <1>1, <3>1, <3>2
  <2>5. \A d \in unchanged : Precedes(last, Position(d)) \/ \E i \in 1..h : hits[i].at = Position(d)
    BY <2>1, <2>2 DEF PageInv, PassedFound
  <2> QED
    BY <2>2, <2>3, <2>4, <2>5
<1>8. ASSUME h # 0, NEW d \in Beyond PROVE Precedes(last, Position(d))
  BY <1>7, <1>8 DEF Beyond
<1> HIDE DEF allHits, h, p, last
<1>9. InOrder(allHits)
  <2> SUFFICES ASSUME NEW i \in 1..h+p, NEW j \in 1..h+p, i < j
               PROVE  /\ ~Precedes(allHits[j].at, allHits[i].at)
                      /\ allHits[i].of = allHits[j].of => allHits[i].of \notin unchanged
    BY <1>3 DEF InOrder
  <2>1. CASE j <= h
    <3>1. i \in 1..h /\ j \in 1..h /\ InOrder(hits)
      BY <1>1, <2>1 DEF PageInv
    <3> QED
      BY <1>4, <3>1 DEF InOrder, h
  <2>2. CASE i <= h /\ j > h
    <3>1. i \in 1..h /\ j - h \in 1..p /\ h # 0
      BY <1>1, <1>2, <1>4, <2>2
    <3>2. allHits[i] = hits[i] /\ allHits[j] = Page[j - h]
      BY <1>4, <2>2, <3>1
    <3>3. Precedes(last, allHits[j].at)
      BY <1>6, <1>8, <3>1, <3>2
    <3>4. /\ ~Precedes(last, allHits[i].at) /\ last \in Int \X Documents
          /\ allHits[i].at \in Int \X Documents /\ allHits[j].at \in Int \X Documents
      BY <1>5, <1>6, <1>7, <3>1, <3>2
    <3>5. Precedes(allHits[i].at, allHits[j].at)
      BY <3>3, <3>4, PrecedesOrder
    <3>6. ASSUME allHits[i].of = allHits[j].of, allHits[i].of \in unchanged PROVE FALSE
      <4>1. allHits[i].at = Position(allHits[i].of)
        BY <3>1, <3>2, <3>6 DEF PageInv, WhereFound, h
      <4>2. allHits[j].at = Position(allHits[j].of)
        BY <1>6, <3>1, <3>2
      <4> QED
        BY <3>4, <3>5, <3>6, <4>1, <4>2, PrecedesOrder
    <3> QED
      BY <3>4, <3>5, <3>6, PrecedesOrder
  <2>3. CASE i > h
    <3>1. i - h \in 1..p /\ j - h \in 1..p /\ i - h < j - h
      BY <1>1, <1>2, <1>4, <2>3
    <3>2. allHits[i] = Page[i - h] /\ allHits[j] = Page[j - h]
      BY <1>1, <1>4, <2>3
    <3>3. Earlier(allHits[i].of, allHits[j].of)
      BY <1>1, <3>1, <3>2, PageFacts DEF p
    <3> QED
      BY <1>1, <1>6, <3>1, <3>2, <3>3, EarlierOrder
  <2> QED
    BY <1>1, <2>1, <2>2, <2>3
<1>10. WhereFound(allHits)
  <2> SUFFICES ASSUME NEW i \in 1..h+p
               PROVE  /\ allHits[i].at[2] = IdOf(allHits[i].of)
                      /\ allHits[i].of \in unchanged => allHits[i].at = Position(allHits[i].of)
    BY <1>3 DEF WhereFound
  <2>1. CASE i <= h
    <3>1. i \in 1..h /\ WhereFound(hits)
      BY <1>1, <2>1 DEF PageInv
    <3> QED
      BY <1>4, <3>1 DEF WhereFound, h
  <2>2. CASE i > h
    BY <1>1, <1>4, <1>6, <2>2, PositionTypes
  <2> QED
    BY <1>1, <2>1, <2>2
<1>11. ASSUME p # 0 PROVE allHits[Len(allHits)] = Page[p]
  BY <1>1, <1>2, <1>3, <1>4, <1>11
<1>12. ASSUME NEW d \in unchanged
       PROVE  \/ \E i \in 1..h+p : allHits[i].at = Position(d)
              \/ p = pageSize /\ Precedes(allHits[Len(allHits)].at, Position(d))
  <2>1. d \in Matching /\ d \in Documents
    BY <1>1 DEF SearchTypeOK, Matching
  <2>2. ASSUME NEW i \in 1..h, hits[i].at = Position(d) PROVE i \in 1..h+p /\ allHits[i].at = Position(d)
    BY <1>1, <1>2, <1>4, <2>2
  <2>3. CASE d \in Beyond
    <3>1. CASE \E i \in 1..p : Page[i].of = d
      <4>1. PICK i \in 1..p : Page[i].of = d
        BY <3>1
      <4>2. h + i \in 1..h+p /\ h + i > h /\ (h + i) - h = i
        BY <1>1, <1>2
      <4> QED
        BY <1>4, <1>6, <4>1, <4>2
    <3>2. CASE p = pageSize /\ Earlier(Page[pageSize].of, d)
      <4>1. p \in 1..p /\ p # 0
        BY <1>1, <1>2, <3>2 DEF SearchTypeOK
      <4>2. /\ allHits[Len(allHits)] = Page[p] /\ Page[p].at = Position(Page[p].of)
            /\ allHits[Len(allHits)].at = Position(Page[p].of)
        BY <1>6, <1>11, <4>1
      <4>3. CASE Precedes(Position(Page[p].of), Position(d))
        BY <3>2, <4>2, <4>3
      <4>4. CASE Position(Page[p].of) = Position(d)
        <5>1. Len(allHits) \in 1..h+p
          BY <1>1, <1>2, <1>3, <4>1
        <5> QED
          BY <4>2, <4>4, <5>1
      <4> QED
        BY <3>2, <4>3, <4>4 DEF Earlier
    <3> QED
      BY <1>1, <2>3, <3>1, <3>2, PageFacts DEF p
  <2>4. CASE d \notin Beyond
    <3>1. after # <<>> /\ ~Precedes(after, Position(d))
      BY <2>1, <2>4 DEF Beyond
    <3>2. h # 0
      BY <1>1, <3>1 DEF PageInv, AtLast, h
    <3> QED
      BY <1>7, <2>2, <3>1, <3>2
  <2> QED
    BY <2>3, <2>4
<1> QED
  BY <1>3, <1>9, <1>10, <1>11, <1>12 DEF allHits, h, p

LEMMA TurnTypes ==
  ASSUME PageInv, search = "paging",
         UNCHANGED <<rank, sorting, pageSize, maxRows, unchanged>>, hits' \in Seq(Found)
  PROVE  /\ SearchTypeOK' /\ \A d : Position(d)' = Position(d)
         /\ InOrder(hits)' <=> InOrder(hits')
         /\ WhereFound(hits)' <=> WhereFound(hits')
BY DEF PageInv, SearchTypeOK, Matching, Position, SortValue, InOrder, WhereFound

\* Another page: the last one, cut to max_rows, or not.
LEMMA TurnKeeps == PageInv /\ Turn => PageInv'
<1> SUFFICES ASSUME PageInv, Turn PROVE PageInv'
  OBVIOUS
<1> DEFINE allHits == hits \o Page
           last == Len(Page) < pageSize \/ Enough(allHits)
<1>1. /\ search = "paging" /\ UNCHANGED <<rank, sorting, pageSize, maxRows, unchanged>>
      /\ hits' = IF last /\ Enough(allHits) THEN SubSeq(allHits, 1, maxRows) ELSE allHits
      /\ search' = IF last THEN "returned" ELSE search
      /\ after' = IF last THEN after ELSE Page[Len(Page)].at
  BY DEF Turn
<1>2. /\ allHits \in Seq(Found) /\ InOrder(allHits) /\ WhereFound(allHits)
      /\ Len(allHits) = Len(hits) + Len(Page)
      /\ Len(Page) # 0 => allHits[Len(allHits)] = Page[Len(Page)]
      /\ \A d \in unchanged : \/ \E i \in 1..Len(allHits) : allHits[i].at = Position(d)
                              \/ /\ Len(Page) = pageSize
                                 /\ Precedes(allHits[Len(allHits)].at, Position(d))
  BY <1>1, FoundFacts
<1>3. /\ SearchTypeOK /\ Len(Page) \in Nat /\ Len(Page) <= pageSize /\ Len(hits) \in Nat
      /\ pageSize \in Nat \ {0} /\ maxRows \in Nat /\ Len(allHits) \in Nat
  BY <1>2, PageFacts DEF PageInv, SearchTypeOK
<1> HIDE DEF allHits
<1>4. CASE ~last
  <2>1. hits' = allHits /\ search' = "paging" /\ after' = Page[Len(Page)].at /\ Len(Page) = pageSize
    BY <1>1, <1>3, <1>4
  <2>2. after' = allHits[Len(allHits)].at /\ allHits # <<>>
    BY <1>2, <1>3, <2>1
  <2>3. SearchTypeOK' /\ InOrder(hits)' /\ WhereFound(hits)' /\ \A d : Position(d)' = Position(d)
    BY <1>1, <1>2, <2>1, TurnTypes
  <2>4. AtLast' /\ PassedFound'
    BY <1>1, <1>2, <2>1, <2>2, <2>3 DEF AtLast, PassedFound
  <2>5. PagedOnce'
    BY <2>1, <2>3 DEF PagedOnce, InOrder
  <2> QED
    BY <2>3, <2>4, <2>5 DEF PageInv
<1>5. CASE last
  <2>1. search' = "returned"
    BY <1>1, <1>5
  <2>2. AtLast' /\ PassedFound'
    BY <2>1 DEF AtLast, PassedFound
  <2>3. CASE ~Enough(allHits)
    <3>1. hits' = allHits /\ Len(Page) # pageSize
      BY <1>1, <1>3, <1>5, <2>3
    <3>2. SearchTypeOK' /\ InOrder(hits)' /\ WhereFound(hits)' /\ \A d : Position(d)' = Position(d)
      BY <1>1, <1>2, <3>1, TurnTypes
    <3>3. ASSUME NEW d \in unchanged PROVE \E i \in 1..Len(allHits) : IdOf(allHits[i].of) = IdOf(d)
      <4>1. PICK i \in 1..Len(allHits) : allHits[i].at = Position(d)
        BY <1>2, <3>1
      <4>2. allHits[i].at[2] = IdOf(allHits[i].of) /\ Position(d)[2] = IdOf(d)
        BY <1>2, <1>3, PositionTypes DEF WhereFound, SearchTypeOK, Matching
      <4> QED
        BY <4>1, <4>2
    <3>4. PagedOnce'
      BY <1>1, <3>1, <3>2, <3>3 DEF PagedOnce, InOrder
    <3> QED
      BY <2>2, <3>2, <3>4 DEF PageInv
  <2>4. CASE Enough(allHits)
    <3> DEFINE rows == SubSeq(allHits, 1, maxRows)
    <3>1. maxRows # 0 /\ maxRows <= Len(allHits)
      BY <1>3, <2>4 DEF Enough, NoLimit
    <3>2. /\ rows \in Seq(Found) /\ Len(rows) = maxRows
          /\ \A i \in 1..maxRows : rows[i] = allHits[i] /\ i \in 1..Len(allHits)
      BY <1>2, <1>3, <3>1
    <3>3. hits' = rows
      BY <1>1, <1>5, <2>4
    <3> HIDE DEF rows
    <3>4. InOrder(rows) /\ WhereFound(rows)
      BY <1>2, <3>2 DEF InOrder, WhereFound
    <3>5. SearchTypeOK' /\ InOrder(hits)' /\ WhereFound(hits)' /\ \A d : Position(d)' = Position(d)
      BY <1>1, <3>2, <3>3, <3>4, TurnTypes
    <3>6. ASSUME NEW d \in unchanged
          PROVE  \/ \E i \in 1..maxRows : IdOf(rows[i].of) = IdOf(d)
                 \/ Precedes(rows[maxRows].at, Position(d))
      <4>1. /\ d \in Documents /\ Position(d) \in Int \X Documents /\ Position(d)[2] = IdOf(d)
        BY <1>3, PositionTypes DEF SearchTypeOK, Matching
      <4>2. \A i \in 1..Len(allHits) : allHits[i].at \in Int \X Documents /\ allHits[i].at[2] = IdOf(allHits[i].of)
        <5>1. \A r \in Found : r.at \in Int \X Documents
          BY DEF Found
        <5>2. \A i \in 1..Len(allHits) : allHits[i] \in Found
          BY <1>2
        <5> QED
          BY <1>2, <5>1, <5>2 DEF WhereFound
      <4>3. /\ maxRows \in 1..maxRows /\ maxRows \in 1..Len(allHits) /\ rows[maxRows] = allHits[maxRows]
        BY <1>3, <3>1, <3>2
      <4>4. ASSUME NEW i \in 1..Len(allHits), i > maxRows \/ i = Len(allHits)
            PROVE  ~Precedes(allHits[i].at, allHits[maxRows].at)
        <5>1. CASE i = maxRows
          BY <4>2, <5>1, PrecedesOrder
        <5>2. CASE maxRows < i
          BY <1>2, <4>3, <5>2 DEF InOrder
        <5> QED
          BY <1>3, <3>1, <4>4, <5>1, <5>2
      <4>5. ASSUME NEW i \in 1..Len(allHits), allHits[i].at = Position(d)
            PROVE  \/ \E k \in 1..maxRows : IdOf(rows[k].of) = IdOf(d)
                   \/ Precedes(rows[maxRows].at, Position(d))
        <5>1. CASE i <= maxRows
          <6>1. i \in 1..maxRows /\ rows[i] = allHits[i]
            BY <1>3, <3>2, <5>1
          <6> QED
            BY <4>1, <4>2, <4>5, <6>1
        <5>2. CASE i > maxRows
          <6>1. ~Precedes(Position(d), allHits[maxRows].at)
            BY <4>4, <4>5, <5>2
          <6>2. Precedes(allHits[maxRows].at, Position(d)) \/ allHits[maxRows].at = Position(d)
            BY <4>1, <4>2, <4>3, <6>1, PrecedesOrder
          <6>3. allHits[maxRows].at = Position(d) => IdOf(rows[maxRows].of) = IdOf(d)
            BY <4>1, <4>2, <4>3
          <6> QED
            BY <4>3, <6>2, <6>3
        <5> QED
          BY <1>3, <5>1, <5>2
      <4>6. ASSUME Precedes(allHits[Len(allHits)].at, Position(d))
            PROVE  Precedes(rows[maxRows].at, Position(d))
        <5>1. Len(allHits) \in 1..Len(allHits)
          BY <1>3, <3>1
        <5>2. ~Precedes(allHits[Len(allHits)].at, allHits[maxRows].at)
          BY <4>4, <5>1
        <5> QED
          BY <4>1, <4>2, <4>3, <4>6, <5>1, <5>2, PrecedesOrder
      <4> QED
        BY <1>2, <4>5, <4>6
    <3>7. Enough(rows)
      BY <1>3, <3>1, <3>2 DEF Enough, NoLimit
    <3>8. PagedOnce'
      <4>1. \A d \in unchanged : \/ \E i \in 1..Len(rows) : IdOf(rows[i].of) = IdOf(d)
                                 \/ Enough(rows) /\ Precedes(rows[Len(rows)].at, Position(d))
        BY <3>2, <3>6, <3>7
      <4> QED
        BY <1>1, <3>3, <3>5, <4>1 DEF PagedOnce, InOrder, Enough
    <3> QED
      BY <2>2, <3>5, <3>8 DEF PageInv
  <2> QED
    BY <2>3, <2>4
<1> QED
  BY <1>4, <1>5

LEMMA PageInvInit == SearchInit => PageInv
<1> SUFFICES ASSUME SearchInit PROVE PageInv
  OBVIOUS
<1> USE DEF SearchInit
<1>1. pageSize \in Nat \ {0} /\ maxRows \in Nat
  BY SearchAssumption DEF NoLimit
<1>2. hits \in Seq(Found) /\ unchanged \subseteq Matching
  BY DEF Matching
<1>3. SearchTypeOK
  BY <1>1, <1>2 DEF SearchTypeOK
<1>4. Len(hits) = 0 /\ search = "paging"
  OBVIOUS
<1>5. InOrder(hits) /\ WhereFound(hits) /\ PagedOnce
  BY <1>4 DEF InOrder, WhereFound, PagedOnce
<1>6. AtLast /\ PassedFound
  BY DEF AtLast, PassedFound
<1> QED
  BY <1>3, <1>5, <1>6 DEF PageInv

LEMMA PageInvStep == PageInv /\ [SearchNext]_searchVars => PageInv'
<1> SUFFICES ASSUME PageInv, [SearchNext]_searchVars PROVE PageInv'
  OBVIOUS
<1>1. CASE Turn
  BY <1>1, TurnKeeps
<1>2. CASE TurnFails
  <2>1. SearchTypeOK' /\ InOrder(hits)' /\ WhereFound(hits)'
    BY <1>2 DEF TurnFails, PageInv, SearchTypeOK, InOrder, WhereFound, Matching, Position, SortValue
  <2>2. PagedOnce' /\ AtLast' /\ PassedFound'
    BY <1>2 DEF TurnFails, PageInv, InOrder, PagedOnce, AtLast, PassedFound
  <2> QED
    BY <2>1, <2>2 DEF PageInv
<1>3. CASE Rewrite
  <2>1. PICK d \in Documents, v \in 0..Ranks :
          /\ search = "paging" /\ rank' = [rank EXCEPT ![d] = v]
          /\ unchanged' = unchanged \ {d}
          /\ UNCHANGED <<sorting, pageSize, maxRows, hits, after, search>>
    BY <1>3 DEF Rewrite
  <2>2. SearchTypeOK'
    BY <2>1 DEF PageInv, SearchTypeOK, Matching
  <2>3. \A e \in unchanged' : e \in unchanged /\ Position(e)' = Position(e)
    BY <2>1 DEF PageInv, SearchTypeOK, Matching, Position, SortValue
  <2>4. InOrder(hits)' /\ AtLast'
    BY <2>1, <2>3 DEF PageInv, InOrder, AtLast
  <2>5. WhereFound(hits)'
    BY <2>1, <2>3 DEF PageInv, WhereFound
  <2>6. PassedFound'
    BY <2>1, <2>3 DEF PageInv, PassedFound
  <2>7. PagedOnce'
    BY <2>1, <2>4 DEF PagedOnce, InOrder
  <2> QED
    BY <2>2, <2>4, <2>5, <2>6, <2>7 DEF PageInv
<1>4. CASE UNCHANGED searchVars
  BY <1>4 DEF searchVars, PageInv, SearchTypeOK, InOrder, WhereFound, AtLast, PassedFound, PagedOnce,
    Matching, Position, SortValue, Enough
<1> QED
  BY <1>1, <1>2, <1>3, <1>4 DEF SearchNext

(* Paging with search_after, whatever is written between two requests:      *)
(* what stays as it was comes once and in order, up to max_rows.            *)
THEOREM HitsArePagedOnce == SearchSpec => []PagedOnce
<1>1. PageInv => PagedOnce
  BY DEF PageInv
<1> QED
  BY <1>1, PageInvInit, PageInvStep, PTL DEF SearchSpec

(***************************** CollectFiles ********************************)

\* What is left of the steps of a file, and whether the store lies behind.
Rest ==
  CASE sink = "collect_fleet" ->
         {<<"store", "parse", "index">>, <<"parse", "index">>, <<"index">>, <<>>}
    [] sink = "put_to_minio" ->
         {<<"parse", "store", "index">>, <<"store", "index">>, <<"index">>, <<>>}
    [] sink \in Disks -> {<<"store", "index">>, <<"index">>, <<>>}

PastStore(l) == \A i \in 1..Len(l) : l[i] # "store"

LEMMA RestFacts ==
  ASSUME sink \in Sinks
  PROVE  /\ Steps \in Rest
         /\ ~PastStore(Steps)
         /\ \A l \in Rest : l # <<>> =>
              /\ Tail(l) \in Rest
              /\ PastStore(Tail(l)) <=> PastStore(l) \/ l[1] = "store"
              /\ l[1] = "index" => PastStore(l)
         /\ PastStore(<<>>)
         /\ Idle.left # <<>> /\ Idle.left[1] = "idle"
<1>0. Idle.left # <<>> /\ Idle.left[1] = "idle" /\ PastStore(<<>>) BY DEF Idle, PastStore
<1>1. CASE sink = "collect_fleet"
  <2>1. Steps = <<"store", "parse", "index">> BY <1>1 DEF Steps, Disks
  <2>2. Rest = {<<"store", "parse", "index">>, <<"parse", "index">>, <<"index">>, <<>>}
    BY <1>1 DEF Rest, Disks
  <2>3. /\ Tail(<<"store", "parse", "index">>) = <<"parse", "index">>
        /\ PastStore(<<"parse", "index">>)
    BY DEF PastStore
  <2>4. Tail(<<"parse", "index">>) = <<"index">> /\ PastStore(<<"index">>)
    BY DEF PastStore
  <2>5. Tail(<<"index">>) = <<>> /\ PastStore(<<>>)
    BY DEF PastStore
  <2>. QED BY <1>0, <2>1, <2>2, <2>3, <2>4, <2>5 DEF PastStore
<1>2. CASE sink = "put_to_minio"
  <2>1. Steps = <<"parse", "store", "index">> BY <1>2 DEF Steps, Disks
  <2>2. Rest = {<<"parse", "store", "index">>, <<"store", "index">>, <<"index">>, <<>>}
    BY <1>2 DEF Rest, Disks
  <2>3. Tail(<<"parse", "store", "index">>) = <<"store", "index">>
    BY DEF PastStore
  <2>4. Tail(<<"store", "index">>) = <<"index">> /\ PastStore(<<"index">>)
    BY DEF PastStore
  <2>5. Tail(<<"index">>) = <<>> /\ PastStore(<<>>)
    BY DEF PastStore
  <2>. QED BY <1>0, <2>1, <2>2, <2>3, <2>4, <2>5 DEF PastStore
<1>3. CASE sink \in Disks
  <2>1. Steps = <<"store", "index">> BY <1>3 DEF Steps, Disks
  <2>2. Rest = {<<"store", "index">>, <<"index">>, <<>>}
    BY <1>3 DEF Rest, Disks
  <2>3. Tail(<<"store", "index">>) = <<"index">> /\ PastStore(<<"index">>)
    BY DEF PastStore
  <2>4. Tail(<<"index">>) = <<>> /\ PastStore(<<>>)
    BY DEF PastStore
  <2>. QED BY <1>0, <2>1, <2>2, <2>3, <2>4 DEF PastStore
<1>. QED BY <1>1, <1>2, <1>3 DEF Sinks

\* In a fleet that is unambiguous for its layout no two files share a key.
LEMMA KeysDiffer ==
  ASSUME fleet \subseteq Files, sink \in Sinks, Unambiguous,
         NEW f \in fleet, NEW g \in fleet, Key(f) = Key(g)
  PROVE  f = g
<1>1. /\ f = [host |-> f.host, image |-> f.image, part |-> f.part]
      /\ g = [host |-> g.host, image |-> g.image, part |-> g.part]
      /\ f.part \in {"image", "cond"} /\ g.part \in {"image", "cond"}
      /\ f.image \in Images /\ g.image \in Images
  BY DEF Files
<1>2. CASE sink = "sidecar"
  BY <1>1, <1>2 DEF Key, Unambiguous
<1>3. CASE sink = "keep_last"
  <2>1. f.host = g.host /\ (f.part = "cond" <=> g.part = "cond")
    BY <1>1, <1>3, CollectAssumption DEF Key
  <2>2. f.part = "image" \/ f = g
    BY <1>1, <1>3, <2>1 DEF Unambiguous
  <2>3. f.part = "image" => f.image = g.image /\ f.part = g.part
    BY <1>1, <1>3, <2>1 DEF Key
  <2>. QED BY <1>1, <2>1, <2>2, <2>3
<1>4. CASE sink \notin {"sidecar", "keep_last"}
  BY <1>1, <1>4 DEF Key
<1>. QED BY <1>2, <1>3, <1>4

CollectTypeOK ==
  /\ sink \in Sinks /\ fleet \subseteq Files /\ written \in Nat \ {0}
  /\ stock \in [{Key(f) : f \in fleet} -> [of : Files \cup {Nothing.of}, content : Nat]]
  /\ indexed \in [fleet -> Nat]
  /\ carried \in [Hosts -> [of : fleet, content : Nat, left : Rest] \cup {Idle}]
  /\ awaited \subseteq fleet
  /\ outcome \in [fleet -> [ok : BOOLEAN, content : Nat]]

\* A worker has a file of its own host, as new as any records of it, that does
\* not count yet, and that is stored once the step is past.
CarriedInv == \A h \in Hosts : carried[h] # Idle =>
  /\ carried[h] \in [of : fleet, content : Nat, left : Rest]
  /\ carried[h].of.host = h
  /\ carried[h].content \in 1..written
  /\ indexed[carried[h].of] <= carried[h].content
  /\ outcome[carried[h].of] = [ok |-> FALSE, content |-> carried[h].content]
  /\ Unambiguous /\ PastStore(carried[h].left) =>
       stock[Key(carried[h].of)] = [of |-> carried[h].of, content |-> carried[h].content]

CollectInv ==
  /\ CollectTypeOK /\ CarriedInv
  /\ \A f \in fleet : indexed[f] <= written
  /\ SourceStored

LEMMA CollectInitInv == CollectInit => CollectInv
<1>. SUFFICES ASSUME CollectInit PROVE CollectInv OBVIOUS
<1>1. fleet \subseteq Files /\ sink \in Sinks /\ written = 1 BY DEF CollectInit
<1>2. stock \in [{Key(f) : f \in fleet} -> [of : Files \cup {Nothing.of}, content : Nat]]
  BY DEF CollectInit, Nothing
<1>3. outcome \in [fleet -> [ok : BOOLEAN, content : Nat]]
  BY DEF CollectInit
<1>4. indexed \in [fleet -> Nat] /\ awaited \subseteq fleet BY DEF CollectInit
<1>5. carried \in [Hosts -> [of : fleet, content : Nat, left : Rest] \cup {Idle}]
  BY DEF CollectInit
<1>6. CollectTypeOK BY <1>1, <1>2, <1>3, <1>4, <1>5 DEF CollectTypeOK
<1>. QED BY <1>1, <1>6 DEF CollectInit, CollectInv, CarriedInv, SourceStored

\* What the worker of h has in hand, when it is at a step or through.
LEMMA InHand ==
  ASSUME CollectInv, NEW h \in Hosts,
         carried[h].left = <<>> \/ \E step \in {"store", "parse", "index"} : AtStep(h, step)
  PROVE  /\ carried[h] # Idle
         /\ carried[h] \in [of : fleet, content : Nat, left : Rest]
         /\ \A g \in Hosts \ {h} : carried[g] # Idle => carried[g].of # carried[h].of
<1>1. sink \in Sinks BY DEF CollectInv, CollectTypeOK
<1>2. Idle.left # <<>> /\ Idle.left[1] = "idle" BY <1>1, RestFacts
<1>3. carried[h] # Idle BY <1>2 DEF AtStep
<1>4. CarriedInv BY DEF CollectInv
<1>5. carried[h].of.host = h /\ carried[h] \in [of : fleet, content : Nat, left : Rest]
  BY <1>3, <1>4 DEF CarriedInv
<1>6. \A g \in Hosts : carried[g] # Idle => carried[g].of.host = g
  BY <1>4 DEF CarriedInv
<1>. QED BY <1>3, <1>5, <1>6

\* It goes on, or drops the file.
LEMMA Moves ==
  ASSUME CollectInv, NEW h \in Hosts, carried[h] # Idle,
         (carried[h].left # <<>> /\ Onwards(h)) \/ Drop(h)
  PROVE  /\ carried' \in [Hosts -> [of : fleet, content : Nat, left : Rest] \cup {Idle}]
         /\ \A g \in Hosts \ {h} : carried'[g] = carried[g]
         /\ carried'[h] # Idle =>
              /\ carried'[h] \in [of : fleet, content : Nat, left : Rest]
              /\ carried'[h].of = carried[h].of /\ carried'[h].content = carried[h].content
              /\ PastStore(carried'[h].left) <=>
                   PastStore(carried[h].left) \/ carried[h].left[1] = "store"
<1>1. carried[h] \in [of : fleet, content : Nat, left : Rest]
  BY DEF CollectInv, CarriedInv
<1>2. carried \in [Hosts -> [of : fleet, content : Nat, left : Rest] \cup {Idle}]
  BY DEF CollectInv, CollectTypeOK
<1>3. CASE Drop(h) BY <1>2, <1>3 DEF Drop
<1>4. CASE carried[h].left # <<>> /\ Onwards(h)
  <2>1. carried' = [carried EXCEPT ![h] = [carried[h] EXCEPT !.left = Tail(carried[h].left)]]
    BY <1>4 DEF Onwards
  <2>2. /\ Tail(carried[h].left) \in Rest
        /\ PastStore(Tail(carried[h].left)) <=>
             PastStore(carried[h].left) \/ carried[h].left[1] = "store"
    BY <1>1, <1>4, RestFacts DEF CollectInv, CollectTypeOK
  <2>3. [carried[h] EXCEPT !.left = Tail(carried[h].left)]
          \in [of : fleet, content : Nat, left : Rest]
    BY <1>1, <2>2
  <2>4. carried'[h] = [carried[h] EXCEPT !.left = Tail(carried[h].left)]
    BY <1>2, <2>1
  <2>5. /\ carried'[h].of = carried[h].of /\ carried'[h].content = carried[h].content
        /\ carried'[h].left = Tail(carried[h].left)
    BY <1>1, <2>4
  <2>. QED BY <1>2, <2>1, <2>2, <2>3, <2>4, <2>5
<1>. QED BY <1>3, <1>4

\* What a step of h's worker does to the stored, indexed and counted state of
\* its file keeps the invariant, if it does so for that file.
LEMMA StepKeeps ==
  ASSUME CollectInv, NEW h \in Hosts, carried[h] # Idle,
         (carried[h].left # <<>> /\ Onwards(h)) \/ Drop(h),
         UNCHANGED <<sink, fleet, written, awaited>>,
         NEW s \in [of : Files \cup {Nothing.of}, content : Nat],
         NEW n \in 0..carried[h].content,
         NEW ok \in BOOLEAN,
         stock' = [stock EXCEPT ![Key(carried[h].of)] = s],
         indexed' = [indexed EXCEPT ![carried[h].of] = n],
         outcome' = [outcome EXCEPT ![carried[h].of].ok = ok],
         carried'[h] # Idle => ~ok,
         Unambiguous /\ carried'[h] # Idle /\ PastStore(carried'[h].left) =>
           s = [of |-> carried[h].of, content |-> carried[h].content],
         Unambiguous /\ sink \notin Disks /\ n # 0 => s.of = carried[h].of /\ s.content >= n,
         Unambiguous /\ ok => s = [of |-> carried[h].of, content |-> carried[h].content]
  PROVE  CollectInv'
<1>. DEFINE c == carried[h]
<1>. CollectTypeOK /\ CarriedInv /\ SourceStored /\ \A f \in fleet : indexed[f] <= written
  BY DEF CollectInv
<1>1. /\ c \in [of : fleet, content : Nat, left : Rest]
      /\ c.of.host = h /\ c.content \in 1..written
      /\ outcome[c.of] = [ok |-> FALSE, content |-> c.content]
      /\ \A g \in Hosts \ {h} : carried[g] # Idle => carried[g].of # c.of
  <2>1. \A g \in Hosts : carried[g] # Idle => carried[g].of.host = g BY DEF CarriedInv
  <2>. QED BY <2>1 DEF CarriedInv
<1>2. /\ carried' \in [Hosts -> [of : fleet, content : Nat, left : Rest] \cup {Idle}]
      /\ \A g \in Hosts \ {h} : carried'[g] = carried[g]
      /\ carried'[h] # Idle =>
           /\ carried'[h] \in [of : fleet, content : Nat, left : Rest]
           /\ carried'[h].of = c.of /\ carried'[h].content = c.content
  BY Moves
<1>3. /\ stock' \in [{Key(f) : f \in fleet} -> [of : Files \cup {Nothing.of}, content : Nat]]
      /\ stock'[Key(c.of)] = s
      /\ \A f \in fleet : Key(f) # Key(c.of) => stock'[Key(f)] = stock[Key(f)]
  BY <1>1 DEF CollectTypeOK
<1>4. /\ indexed' \in [fleet -> Nat] /\ indexed'[c.of] = n /\ n <= c.content
      /\ \A f \in fleet : f # c.of => indexed'[f] = indexed[f]
  BY <1>1 DEF CollectTypeOK
<1>5. /\ outcome' \in [fleet -> [ok : BOOLEAN, content : Nat]]
      /\ outcome'[c.of] = [ok |-> ok, content |-> c.content]
      /\ \A f \in fleet : f # c.of => outcome'[f] = outcome[f]
  <2>1. outcome' = [outcome EXCEPT ![c.of] = [outcome[c.of] EXCEPT !.ok = ok]] OBVIOUS
  <2>2. [outcome[c.of] EXCEPT !.ok = ok] = [ok |-> ok, content |-> c.content] BY <1>1
  <2>3. outcome' = [outcome EXCEPT ![c.of] = [ok |-> ok, content |-> c.content]]
    BY <2>1, <2>2
  <2>4. [ok |-> ok, content |-> c.content] \in [ok : BOOLEAN, content : Nat] BY <1>1
  <2>. QED BY <1>1, <2>3, <2>4 DEF CollectTypeOK
<1>6. /\ Unambiguous' <=> Unambiguous
      /\ Rest' = Rest /\ \A f : Key(f)' = Key(f)
      /\ \A l : PastStore(l)' <=> PastStore(l)
  BY DEF Unambiguous, Rest, Key, PastStore
<1>7. CollectTypeOK'
  BY <1>2, <1>3, <1>4, <1>5, <1>6 DEF CollectTypeOK
<1>8. Unambiguous => \A f \in fleet : f # c.of => Key(f) # Key(c.of)
  BY <1>1, KeysDiffer DEF CollectTypeOK
<1>9. ASSUME NEW g \in Hosts, carried'[g] # Idle
      PROVE  /\ carried'[g] \in [of : fleet, content : Nat, left : Rest]
             /\ carried'[g].of.host = g
             /\ carried'[g].content \in 1..written
             /\ indexed'[carried'[g].of] <= carried'[g].content
             /\ outcome'[carried'[g].of] = [ok |-> FALSE, content |-> carried'[g].content]
             /\ Unambiguous /\ PastStore(carried'[g].left) =>
                  stock'[Key(carried'[g].of)]
                    = [of |-> carried'[g].of, content |-> carried'[g].content]
  <2>1. CASE g = h
    <3>1. ~ok BY <1>9, <2>1
    <3>. QED BY <1>1, <1>2, <1>3, <1>4, <1>5, <1>9, <2>1, <3>1
  <2>2. CASE g # h
    <3>1. carried'[g] = carried[g] /\ carried[g] # Idle /\ carried[g].of # c.of
      BY <1>1, <1>2, <1>9, <2>2
    <3>2. /\ carried[g] \in [of : fleet, content : Nat, left : Rest]
          /\ carried[g].of \in fleet
          /\ carried[g].of.host = g
          /\ carried[g].content \in 1..written
          /\ indexed[carried[g].of] <= carried[g].content
          /\ outcome[carried[g].of] = [ok |-> FALSE, content |-> carried[g].content]
          /\ Unambiguous /\ PastStore(carried[g].left) =>
               stock[Key(carried[g].of)] = [of |-> carried[g].of, content |-> carried[g].content]
      BY <3>1 DEF CarriedInv
    <3>3. Unambiguous => stock'[Key(carried[g].of)] = stock[Key(carried[g].of)]
      BY <1>3, <1>8, <3>1, <3>2
    <3>4. indexed'[carried[g].of] = indexed[carried[g].of]
          /\ outcome'[carried[g].of] = outcome[carried[g].of]
      BY <1>4, <1>5, <3>1, <3>2
    <3>. QED BY <3>1, <3>2, <3>3, <3>4
  <2>. QED BY <2>1, <2>2
<1>10. CarriedInv' BY <1>6, <1>9 DEF CarriedInv
<1>11. \A f \in fleet : indexed'[f] <= written BY <1>1, <1>4 DEF CollectTypeOK
<1>12. SourceStored'
  <2>. SUFFICES ASSUME Unambiguous, NEW f \in fleet
                PROVE  /\ sink \notin Disks /\ indexed'[f] # 0 =>
                            stock'[Key(f)].of = f /\ stock'[Key(f)].content >= indexed'[f]
                       /\ outcome'[f].ok =>
                            stock'[Key(f)] = [of |-> f, content |-> outcome'[f].content]
    BY <1>6 DEF SourceStored
  <2>1. CASE f = c.of BY <1>3, <1>4, <1>5, <2>1
  <2>2. CASE f # c.of BY <1>3, <1>4, <1>5, <1>8, <2>2 DEF SourceStored
  <2>. QED BY <2>1, <2>2
<1>. QED BY <1>7, <1>10, <1>11, <1>12 DEF CollectInv

\* Before a step: what is known of the file in hand, and that what a step
\* leaves alone can be read as set to what it was.
LEMMA Before ==
  ASSUME CollectInv, NEW h \in Hosts, carried[h] # Idle
  PROVE  /\ carried[h] \in [of : fleet, content : Nat, left : Rest]
         /\ carried[h].of \in Files
         /\ stock[Key(carried[h].of)] \in [of : Files \cup {Nothing.of}, content : Nat]
         /\ stock = [stock EXCEPT ![Key(carried[h].of)] = stock[Key(carried[h].of)]]
         /\ indexed[carried[h].of] \in 0..carried[h].content
         /\ indexed = [indexed EXCEPT ![carried[h].of] = indexed[carried[h].of]]
         /\ outcome = [outcome EXCEPT ![carried[h].of].ok = FALSE]
         /\ Unambiguous /\ sink \notin Disks /\ indexed[carried[h].of] # 0 =>
              /\ stock[Key(carried[h].of)].of = carried[h].of
              /\ stock[Key(carried[h].of)].content >= indexed[carried[h].of]
         /\ Unambiguous /\ PastStore(carried[h].left) =>
              stock[Key(carried[h].of)] = [of |-> carried[h].of, content |-> carried[h].content]
<1>. CollectTypeOK /\ CarriedInv /\ SourceStored BY DEF CollectInv
<1>. DEFINE f == carried[h].of
<1>1. /\ carried[h] \in [of : fleet, content : Nat, left : Rest] /\ f \in fleet
      /\ indexed[f] <= carried[h].content
      /\ outcome[f] = [ok |-> FALSE, content |-> carried[h].content]
      /\ Unambiguous /\ PastStore(carried[h].left) =>
           stock[Key(f)] = [of |-> f, content |-> carried[h].content]
  BY DEF CarriedInv
<1>2. f \in Files /\ stock[Key(f)] \in [of : Files \cup {Nothing.of}, content : Nat]
  BY <1>1 DEF CollectTypeOK
<1>3. indexed[f] \in 0..carried[h].content BY <1>1 DEF CollectTypeOK
<1>4. stock = [stock EXCEPT ![Key(f)] = stock[Key(f)]]
      /\ indexed = [indexed EXCEPT ![f] = indexed[f]]
  BY <1>1 DEF CollectTypeOK
<1>5. outcome = [outcome EXCEPT ![f].ok = FALSE]
  <2>1. [outcome[f] EXCEPT !.ok = FALSE] = outcome[f]
    <3>1. ASSUME NEW b, NEW k
          PROVE  [[ok |-> b, content |-> k] EXCEPT !.ok = b] = [ok |-> b, content |-> k]
      OBVIOUS
    <3>2. [[ok |-> FALSE, content |-> carried[h].content] EXCEPT !.ok = FALSE]
            = [ok |-> FALSE, content |-> carried[h].content]
      BY <3>1
    <3>. QED BY ONLY <1>1, <3>2
  <2>2. outcome = [outcome EXCEPT ![f] = outcome[f]] BY <1>1 DEF CollectTypeOK
  <2>. QED BY <2>1, <2>2
<1>6. Unambiguous /\ sink \notin Disks /\ indexed[f] # 0 =>
        stock[Key(f)].of = f /\ stock[Key(f)].content >= indexed[f]
  BY <1>1 DEF SourceStored
<1>. QED BY <1>1, <1>2, <1>3, <1>4, <1>5, <1>6

LEMMA StoresKeeps == ASSUME CollectInv, NEW h \in Hosts, Stores(h) PROVE CollectInv'
<1>. DEFINE c == carried[h]
            s == [of |-> c.of, content |-> c.content]
<1>1. c # Idle BY InHand DEF Stores
<1>2. /\ c \in [of : fleet, content : Nat, left : Rest] /\ c.of \in Files
      /\ indexed[c.of] \in 0..c.content
      /\ indexed = [indexed EXCEPT ![c.of] = indexed[c.of]]
      /\ outcome = [outcome EXCEPT ![c.of].ok = FALSE]
  BY <1>1, Before
<1>3. s \in [of : Files \cup {Nothing.of}, content : Nat] BY <1>2
<1>4. /\ stock' = [stock EXCEPT ![Key(c.of)] = s] /\ c.left # <<>> /\ Onwards(h)
      /\ UNCHANGED <<sink, fleet, written, indexed, awaited, outcome>>
  BY DEF Stores, Holds, AtStep
<1>5. s.of = c.of /\ s.content >= indexed[c.of] BY <1>2
<1>. HIDE DEF s
<1>. QED BY <1>1, <1>2, <1>3, <1>4, <1>5, StepKeeps DEF s

LEMMA StoreRaisesKeeps ==
  ASSUME CollectInv, NEW h \in Hosts, StoreRaises(h) PROVE CollectInv'
<1>. DEFINE c == carried[h]
<1>1. c # Idle BY InHand DEF StoreRaises
<1>2. /\ c \in [of : fleet, content : Nat, left : Rest] /\ c.of \in Files
      /\ stock[Key(c.of)] \in [of : Files \cup {Nothing.of}, content : Nat]
      /\ stock = [stock EXCEPT ![Key(c.of)] = stock[Key(c.of)]]
      /\ indexed[c.of] \in 0..c.content
      /\ indexed = [indexed EXCEPT ![c.of] = indexed[c.of]]
      /\ outcome = [outcome EXCEPT ![c.of].ok = FALSE]
      /\ Unambiguous /\ sink \notin Disks /\ indexed[c.of] # 0 =>
           stock[Key(c.of)].of = c.of /\ stock[Key(c.of)].content >= indexed[c.of]
  BY <1>1, Before
<1>3. Drop(h) /\ UNCHANGED <<sink, fleet, written, indexed, awaited, outcome>>
      /\ carried'[h] = Idle
  BY DEF StoreRaises, Drop, CollectInv, CollectTypeOK
<1>4. PICK s \in [of : Files \cup {Nothing.of}, content : Nat] :
        /\ stock' = [stock EXCEPT ![Key(c.of)] = s]
        /\ \/ s = stock[Key(c.of)]
           \/ sink \in Disks
           \/ s = [of |-> c.of, content |-> c.content]
  <2>1. CASE UNCHANGED stock BY <1>2, <2>1
  <2>2. CASE sink \notin Disks /\ Holds(h, c.content)
    <3>1. [of |-> c.of, content |-> c.content] \in [of : Files \cup {Nothing.of}, content : Nat]
      BY <1>2
    <3>. QED BY <2>2, <3>1 DEF Holds
  <2>3. CASE sink \in Disks /\ Holds(h, 0)
    <3>1. [of |-> c.of, content |-> 0] \in [of : Files \cup {Nothing.of}, content : Nat]
      BY <1>2
    <3>. QED BY <2>3, <3>1 DEF Holds
  <2>. QED BY <2>1, <2>2, <2>3 DEF StoreRaises
<1>5. Unambiguous /\ sink \notin Disks /\ indexed[c.of] # 0 =>
        s.of = c.of /\ s.content >= indexed[c.of]
  BY <1>2, <1>4
<1>. QED BY <1>1, <1>2, <1>3, <1>4, <1>5, StepKeeps

LEMMA ParsesKeeps == ASSUME CollectInv, NEW h \in Hosts, Parses(h) PROVE CollectInv'
<1>. DEFINE c == carried[h]
            s == stock[Key(c.of)]
<1>1. c # Idle BY InHand DEF Parses
<1>2. /\ c \in [of : fleet, content : Nat, left : Rest]
      /\ s \in [of : Files \cup {Nothing.of}, content : Nat]
      /\ stock = [stock EXCEPT ![Key(c.of)] = s]
      /\ indexed[c.of] \in 0..c.content
      /\ indexed = [indexed EXCEPT ![c.of] = indexed[c.of]]
      /\ outcome = [outcome EXCEPT ![c.of].ok = FALSE]
      /\ Unambiguous /\ sink \notin Disks /\ indexed[c.of] # 0 =>
           s.of = c.of /\ s.content >= indexed[c.of]
      /\ Unambiguous /\ PastStore(c.left) =>
           s = [of |-> c.of, content |-> c.content]
  BY <1>1, Before
<1>3. /\ c.left # <<>> /\ c.left[1] = "parse" /\ (Onwards(h) \/ Drop(h))
      /\ UNCHANGED <<sink, fleet, written, stock, indexed, awaited, outcome>>
  BY DEF Parses, AtStep
<1>4. /\ (c.left # <<>> /\ Onwards(h)) \/ Drop(h)
      /\ UNCHANGED <<sink, fleet, written, awaited>>
  BY <1>3
<1>5. carried'[h] # Idle /\ PastStore(carried'[h].left) => PastStore(c.left)
  BY <1>1, <1>3, Moves
<1>6. PICK n \in 0..c.content : n = indexed[c.of] BY <1>2
<1>7. /\ stock' = [stock EXCEPT ![Key(c.of)] = s]
      /\ indexed' = [indexed EXCEPT ![c.of] = n]
  BY <1>2, <1>3, <1>6
<1>8. /\ Unambiguous /\ sink \notin Disks /\ n # 0 => s.of = c.of /\ s.content >= n
      /\ Unambiguous /\ carried'[h] # Idle /\ PastStore(carried'[h].left) =>
           s = [of |-> c.of, content |-> c.content]
  BY <1>2, <1>5, <1>6
<1>9. s \in [of : Files \cup {Nothing.of}, content : Nat] BY <1>2
<1>10. PICK ok \in BOOLEAN : ~ok /\ outcome' = [outcome EXCEPT ![c.of].ok = ok]
  <2>1. outcome' = [outcome EXCEPT ![c.of].ok = FALSE] BY <1>2, <1>3
  <2>. QED BY <2>1, Zenon
<1>. HIDE DEF s
<1>. QED BY <1>1, <1>4, <1>6, <1>7, <1>8, <1>9, <1>10, StepKeeps, ZenonT(60)

LEMMA IndexStepKeeps == ASSUME CollectInv, NEW h \in Hosts, IndexStep(h) PROVE CollectInv'
<1>. DEFINE c == carried[h]
            s == stock[Key(c.of)]
<1>1. c # Idle BY InHand DEF IndexStep
<1>2. /\ c \in [of : fleet, content : Nat, left : Rest]
      /\ s \in [of : Files \cup {Nothing.of}, content : Nat]
      /\ stock = [stock EXCEPT ![Key(c.of)] = s]
      /\ indexed[c.of] \in 0..c.content
      /\ indexed = [indexed EXCEPT ![c.of] = indexed[c.of]]
      /\ outcome = [outcome EXCEPT ![c.of].ok = FALSE]
      /\ Unambiguous /\ PastStore(c.left) => s = [of |-> c.of, content |-> c.content]
  BY <1>1, Before
<1>3. /\ c.left # <<>> /\ c.left[1] = "index" /\ (Onwards(h) \/ Drop(h))
      /\ UNCHANGED <<sink, fleet, written, stock, awaited, outcome>>
      /\ Indexes(h) \/ UNCHANGED indexed
  BY DEF IndexStep, AtStep
<1>4. PICK n \in 0..c.content : indexed' = [indexed EXCEPT ![c.of] = n]
  <2>1. CASE UNCHANGED indexed BY <1>2, <2>1
  <2>2. CASE Indexes(h)
    <3>1. (IF indexed[c.of] > c.content THEN indexed[c.of] ELSE c.content) \in 0..c.content
      BY <1>2
    <3>. QED BY <2>2, <3>1 DEF Indexes
  <2>. QED BY <1>3, <2>1, <2>2
<1>5. PastStore(c.left) BY <1>2, <1>3, RestFacts DEF CollectInv, CollectTypeOK
<1>6. Unambiguous => s.of = c.of /\ s.content >= n BY <1>2, <1>4, <1>5
<1>. HIDE DEF s
<1>. QED BY <1>1, <1>2, <1>3, <1>4, <1>5, <1>6, StepKeeps

LEMMA CountsOkKeeps == ASSUME CollectInv, NEW h \in Hosts, CountsOk(h) PROVE CollectInv'
<1>. DEFINE c == carried[h]
            s == stock[Key(c.of)]
<1>1. c # Idle BY InHand DEF CountsOk
<1>2. /\ s \in [of : Files \cup {Nothing.of}, content : Nat]
      /\ stock = [stock EXCEPT ![Key(c.of)] = s]
      /\ indexed[c.of] \in 0..c.content
      /\ indexed = [indexed EXCEPT ![c.of] = indexed[c.of]]
      /\ Unambiguous /\ sink \notin Disks /\ indexed[c.of] # 0 =>
           s.of = c.of /\ s.content >= indexed[c.of]
      /\ Unambiguous /\ PastStore(c.left) => s = [of |-> c.of, content |-> c.content]
  BY <1>1, Before
<1>3. /\ c.left = <<>> /\ Drop(h) /\ outcome' = [outcome EXCEPT ![c.of].ok = TRUE]
      /\ UNCHANGED <<sink, fleet, written, stock, indexed, awaited>>
      /\ carried'[h] = Idle
  BY DEF CountsOk, Drop, CollectInv, CollectTypeOK
<1>4. PastStore(c.left) BY <1>3, RestFacts DEF CollectInv, CollectTypeOK
<1>. HIDE DEF s
<1>. QED BY <1>1, <1>2, <1>3, <1>4, StepKeeps

\* A new run, or newer files on the tools, touch nothing that is kept.
LEMMA StartRunKeeps == ASSUME CollectInv, StartRun PROVE CollectInv'
<1>. DEFINE rest == <<sink, fleet, written, stock, indexed, carried, outcome>>
<1>1. UNCHANGED rest /\ awaited' = fleet BY DEF StartRun
<1>2. /\ Unambiguous' <=> Unambiguous
      /\ Rest' = Rest /\ \A f : Key(f)' = Key(f)
      /\ \A l : PastStore(l)' <=> PastStore(l)
  BY <1>1 DEF Unambiguous, Rest, Key, PastStore
<1>3. CollectTypeOK' BY <1>1, <1>2 DEF CollectInv, CollectTypeOK
<1>4. CarriedInv' BY <1>1, <1>2 DEF CollectInv, CarriedInv
<1>5. SourceStored' BY <1>1, <1>2 DEF CollectInv, SourceStored
<1>. QED BY <1>1, <1>3, <1>4, <1>5 DEF CollectInv

LEMMA ToolWritesKeeps == ASSUME CollectInv, ToolWrites PROVE CollectInv'
<1>. CollectTypeOK /\ CarriedInv /\ SourceStored /\ \A f \in fleet : indexed[f] <= written
  BY DEF CollectInv
<1>1. UNCHANGED <<sink, fleet, stock, indexed, carried, awaited, outcome>>
      /\ written' = written + 1 /\ written \in Nat
  BY DEF ToolWrites, CollectTypeOK
<1>2. /\ Unambiguous' <=> Unambiguous
      /\ Rest' = Rest /\ \A f : Key(f)' = Key(f)
      /\ \A l : PastStore(l)' <=> PastStore(l)
  BY <1>1 DEF Unambiguous, Rest, Key, PastStore
<1>3. CollectTypeOK' BY <1>1, <1>2 DEF CollectTypeOK
<1>4. \A h \in Hosts : carried[h].content \in 1..written => carried[h].content \in 1..(written + 1)
  BY <1>1
<1>5. CarriedInv' BY <1>1, <1>2, <1>4 DEF CarriedInv
<1>6. SourceStored' BY <1>1, <1>2 DEF SourceStored
<1>7. \A f \in fleet : indexed[f] <= written + 1 BY <1>1 DEF CollectTypeOK
<1>. QED BY <1>1, <1>3, <1>5, <1>6, <1>7 DEF CollectInv

LEMMA FetchKeeps == ASSUME CollectInv, NEW h \in Hosts, Fetch(h) PROVE CollectInv'
<1>. CollectTypeOK /\ CarriedInv /\ SourceStored /\ \A f \in fleet : indexed[f] <= written
  BY DEF CollectInv
<1>1. PICK f \in awaited :
        /\ f.host = h /\ carried[h] = Idle /\ awaited' = awaited \ {f}
        /\ \/ /\ carried' = [carried EXCEPT ![h] = [of |-> f, content |-> written, left |-> Steps]]
              /\ outcome' = [outcome EXCEPT ![f] = [ok |-> FALSE, content |-> written]]
           \/ UNCHANGED <<carried, outcome>>
  BY DEF Fetch
<1>2. UNCHANGED <<sink, fleet, written, stock, indexed>> BY DEF Fetch
<1>3. f \in fleet /\ written \in Nat \ {0} BY DEF CollectTypeOK
<1>4. /\ Unambiguous' <=> Unambiguous
      /\ Rest' = Rest /\ \A g : Key(g)' = Key(g)
      /\ \A l : PastStore(l)' <=> PastStore(l)
  BY <1>2 DEF Unambiguous, Rest, Key, PastStore
<1>5. Steps \in Rest /\ ~PastStore(Steps) BY RestFacts DEF CollectTypeOK
<1>6. \A g \in Hosts : carried[g] # Idle => carried[g].of.host = g BY DEF CarriedInv
<1>7. CASE UNCHANGED <<carried, outcome>>
  <2>1. CollectTypeOK' BY <1>1, <1>2, <1>4, <1>7 DEF CollectTypeOK
  <2>2. CarriedInv' BY <1>2, <1>4, <1>7 DEF CarriedInv
  <2>3. SourceStored' BY <1>2, <1>4, <1>7 DEF SourceStored
  <2>. QED BY <1>2, <2>1, <2>2, <2>3 DEF CollectInv
<1>8. CASE /\ carried' = [carried EXCEPT ![h] = [of |-> f, content |-> written, left |-> Steps]]
           /\ outcome' = [outcome EXCEPT ![f] = [ok |-> FALSE, content |-> written]]
  <2>1. [of |-> f, content |-> written, left |-> Steps] \in [of : fleet, content : Nat, left : Rest]
    BY <1>3, <1>5
  <2>2. [ok |-> FALSE, content |-> written] \in [ok : BOOLEAN, content : Nat] BY <1>3
  <2>3. /\ carried' \in [Hosts -> [of : fleet, content : Nat, left : Rest] \cup {Idle}]
        /\ carried'[h] = [of |-> f, content |-> written, left |-> Steps]
        /\ \A g \in Hosts \ {h} : carried'[g] = carried[g]
    BY <1>8, <2>1 DEF CollectTypeOK
  <2>4. /\ outcome' \in [fleet -> [ok : BOOLEAN, content : Nat]]
        /\ outcome'[f] = [ok |-> FALSE, content |-> written]
        /\ \A g \in fleet \ {f} : outcome'[g] = outcome[g]
    BY <1>3, <1>8, <2>2 DEF CollectTypeOK
  <2>5. CollectTypeOK' BY <1>1, <1>2, <1>4, <2>3, <2>4 DEF CollectTypeOK
  <2>6. ASSUME NEW g \in Hosts, carried'[g] # Idle
        PROVE  /\ carried'[g] \in [of : fleet, content : Nat, left : Rest]
               /\ carried'[g].of.host = g
               /\ carried'[g].content \in 1..written
               /\ indexed[carried'[g].of] <= carried'[g].content
               /\ outcome'[carried'[g].of] = [ok |-> FALSE, content |-> carried'[g].content]
               /\ Unambiguous /\ PastStore(carried'[g].left) =>
                    stock[Key(carried'[g].of)]
                      = [of |-> carried'[g].of, content |-> carried'[g].content]
    <3>1. CASE g = h
      <4>1. carried'[g] = [of |-> f, content |-> written, left |-> Steps] BY <2>3, <3>1
      <4>2. carried'[g].of = f /\ carried'[g].content = written /\ carried'[g].left = Steps
        BY <4>1
      <4>. QED BY <1>1, <1>3, <1>5, <2>1, <2>4, <3>1, <4>1, <4>2
    <3>2. CASE g # h
      <4>1. carried'[g] = carried[g] /\ carried[g] # Idle BY <2>3, <2>6, <3>2
      <4>2. /\ carried[g] \in [of : fleet, content : Nat, left : Rest]
            /\ carried[g].of \in fleet /\ carried[g].of.host = g
            /\ carried[g].content \in 1..written
            /\ indexed[carried[g].of] <= carried[g].content
            /\ outcome[carried[g].of] = [ok |-> FALSE, content |-> carried[g].content]
            /\ Unambiguous /\ PastStore(carried[g].left) =>
                 stock[Key(carried[g].of)]
                   = [of |-> carried[g].of, content |-> carried[g].content]
        BY <4>1 DEF CarriedInv
      <4>3. outcome'[carried[g].of] = outcome[carried[g].of] BY <1>1, <2>4, <3>2, <4>2
      <4>. QED BY <4>1, <4>2, <4>3
    <3>. QED BY <3>1, <3>2
  <2>7. CarriedInv' BY <1>2, <1>4, <2>6 DEF CarriedInv
  <2>8. SourceStored'
    <3>. SUFFICES ASSUME Unambiguous, NEW g \in fleet
                  PROVE  /\ sink \notin Disks /\ indexed[g] # 0 =>
                              stock[Key(g)].of = g /\ stock[Key(g)].content >= indexed[g]
                         /\ outcome'[g].ok =>
                              stock[Key(g)] = [of |-> g, content |-> outcome'[g].content]
      BY <1>2, <1>4 DEF SourceStored
    <3>1. CASE g = f
      <4>1. outcome'[g].ok = FALSE BY <2>4, <3>1
      <4>. QED BY <4>1 DEF SourceStored
    <3>2. CASE g # f
      <4>1. outcome'[g] = outcome[g] BY <2>4, <3>2
      <4>. QED BY <4>1 DEF SourceStored
    <3>. QED BY <3>1, <3>2
  <2>. QED BY <1>2, <2>5, <2>7, <2>8 DEF CollectInv
<1>. QED BY <1>1, <1>7, <1>8

\* A kill drops everything in hand; a torn write hits a file on disk that does
\* not count yet.
LEMMA KilledKeeps == ASSUME CollectInv, Killed PROVE CollectInv'
<1>. CollectTypeOK /\ CarriedInv /\ SourceStored /\ \A f \in fleet : indexed[f] <= written
  BY DEF CollectInv
<1>1. /\ awaited' = {} /\ carried' = [h \in Hosts |-> Idle]
      /\ UNCHANGED <<sink, fleet, written, indexed, outcome>>
  BY DEF Killed
<1>2. /\ Unambiguous' <=> Unambiguous
      /\ Rest' = Rest /\ \A f : Key(f)' = Key(f)
  BY <1>1 DEF Unambiguous, Rest, Key
<1>3. CarriedInv' BY <1>1 DEF CarriedInv
<1>4. CASE UNCHANGED stock
  <2>1. CollectTypeOK' BY <1>1, <1>2, <1>4 DEF CollectTypeOK
  <2>2. SourceStored' BY <1>1, <1>2, <1>4 DEF SourceStored
  <2>. QED BY <1>1, <1>3, <2>1, <2>2 DEF CollectInv
<1>5. CASE \E h \in Hosts : sink \in Disks /\ AtStep(h, "store") /\ Holds(h, 0)
  <2>1. PICK h \in Hosts : sink \in Disks /\ AtStep(h, "store") /\ Holds(h, 0) BY <1>5
  <2>. DEFINE f == carried[h].of
  <2>2. carried[h] # Idle BY <2>1, InHand
  <2>3. f \in fleet /\ f \in Files /\ outcome[f].ok = FALSE
    <3>1. carried[h] \in [of : fleet, content : Nat, left : Rest]
          /\ outcome[f] = [ok |-> FALSE, content |-> carried[h].content]
      BY <2>2 DEF CarriedInv
    <3>2. f \in fleet BY <3>1
    <3>3. f \in Files BY <3>2 DEF CollectTypeOK
    <3>4. outcome[f].ok = FALSE BY <3>1
    <3>. QED BY <3>2, <3>3, <3>4
  <2>4. [of |-> f, content |-> 0] \in [of : Files \cup {Nothing.of}, content : Nat] BY <2>3
  <2>5. /\ stock' \in [{Key(g) : g \in fleet} -> [of : Files \cup {Nothing.of}, content : Nat]]
        /\ \A g \in fleet : Key(g) # Key(f) => stock'[Key(g)] = stock[Key(g)]
    BY <2>1, <2>3, <2>4 DEF Holds, CollectTypeOK
  <2>6. CollectTypeOK' BY <1>1, <1>2, <2>5 DEF CollectTypeOK
  <2>7. Unambiguous => \A g \in fleet : g # f => Key(g) # Key(f)
    BY <2>3, KeysDiffer DEF CollectTypeOK
  <2>8. SourceStored'
    <3>. SUFFICES ASSUME Unambiguous, NEW g \in fleet, outcome[g].ok
                  PROVE  stock'[Key(g)] = [of |-> g, content |-> outcome[g].content]
      BY <1>1, <1>2, <2>1 DEF SourceStored
    <3>1. g # f BY <2>3
    <3>. QED BY <2>5, <2>7, <3>1 DEF SourceStored
  <2>. QED BY <1>1, <1>3, <2>6, <2>8 DEF CollectInv
<1>. QED BY <1>4, <1>5 DEF Killed

\* A record in the index always has its source, as new or newer; and what
\* counts as ok is there, whole and under its own key.
THEOREM SourceIsStored == CollectSpec => []SourceStored
<1>1. CollectInv /\ [CollectNext]_collectVars => CollectInv'
  <2>. SUFFICES ASSUME CollectInv, [CollectNext]_collectVars PROVE CollectInv' OBVIOUS
  <2>1. CASE UNCHANGED collectVars
    <3>1. UNCHANGED <<sink, fleet, written, stock, indexed, carried, awaited, outcome>>
      BY <2>1 DEF collectVars
    <3>2. /\ Unambiguous' <=> Unambiguous
          /\ Rest' = Rest /\ \A f : Key(f)' = Key(f)
          /\ \A l : PastStore(l)' <=> PastStore(l)
      BY <3>1 DEF Unambiguous, Rest, Key, PastStore
    <3>3. CollectTypeOK' BY <3>1, <3>2 DEF CollectInv, CollectTypeOK
    <3>4. CarriedInv' BY <3>1, <3>2 DEF CollectInv, CarriedInv
    <3>5. SourceStored' BY <3>1, <3>2 DEF CollectInv, SourceStored
    <3>. QED BY <3>1, <3>3, <3>4, <3>5 DEF CollectInv
  <2>. QED BY <2>1, StartRunKeeps, ToolWritesKeeps, KilledKeeps, FetchKeeps, StoresKeeps,
              StoreRaisesKeeps, ParsesKeeps, IndexStepKeeps, CountsOkKeeps DEF CollectNext
<1>2. CollectInv => SourceStored BY DEF CollectInv
<1>. QED BY CollectInitInv, <1>1, <1>2, PTL DEF CollectSpec
=============================================================================
