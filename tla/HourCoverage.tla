---------------------------- MODULE HourCoverage ----------------------------
(* api/tasks/meas_hist_cdsem_coverage.py: which fab has no document in      *)
(* which of the last closed hours.                                          *)
(* The hours asked for are those of the cluster's clock when it answers,    *)
(* the hours reported those of the task's own clock some time later;        *)
(* documents keep coming.  OpenSearch is external.                          *)
EXTENDS Integers, FiniteSets

CONSTANTS
  Fabs,      \* fabs that have documents
  Known,     \* fabs asked about
  Hours,     \* closed hours looked at
  TermSize,  \* most fabs that one hour's bucket lists
  LastHour   \* bound on the clocks

ASSUME CoverageAssumption ==
  Known \subseteq Fabs /\ IsFiniteSet(Fabs) /\ Hours \in Nat /\ TermSize \in Nat

VARIABLES
  hour, here,   \* the hour by the cluster's clock and by the task's
  held,         \* <<fab, hour>> with a document
  phase,        \* of the check: "idle", "asked" or "reported"
  asked,        \* the cluster's hour when it answered
  buckets,      \* the answer: <<fab, hour>>
  truth,        \* history: what was held then
  top,          \* the task's hour when it built its grid
  records       \* the cells it reports as missing

coverageVars == <<hour, here, held, phase, asked, buckets, truth, top, records>>

CoverageTypeOK ==
  /\ hour \in Hours..LastHour /\ here \in Hours..LastHour
  /\ held \subseteq Fabs \X (0..LastHour)
  /\ phase \in {"idle", "asked", "reported"}
  /\ asked \in Hours..LastHour /\ top \in Hours..LastHour
  /\ buckets \subseteq held /\ truth \subseteq held
  /\ records \subseteq Known \X (0..LastHour)

CoverageInit ==
  /\ hour = Hours /\ here = Hours
  /\ held = {} /\ phase = "idle"
  /\ asked = Hours /\ top = Hours
  /\ buckets = {} /\ truth = {} /\ records = {}

Closed(h) == (h - Hours)..(h - 1)
At(cells, h) == {f \in Fabs : <<f, h>> \in cells}

\* Mutant: the hour in progress is taken for a closed one.
GridWithCurrent(h) == (h - Hours + 1)..h
Grid(h) == Closed(h)

HourPasses ==
  /\ hour < LastHour /\ hour <= here /\ hour' = hour + 1
  /\ UNCHANGED <<here, held, phase, asked, buckets, truth, top, records>>

HourPassesHere ==
  /\ here < LastHour /\ here <= hour /\ here' = here + 1
  /\ UNCHANGED <<hour, held, phase, asked, buckets, truth, top, records>>

\* A document is indexed, for the current hour or late.
Index(f) ==
  /\ \E h \in 0..hour : held' = held \cup {<<f, h>>}
  /\ UNCHANGED <<hour, here, phase, asked, buckets, truth, top, records>>

\* The histogram over the closed hours; an hour lists TermSize fabs at most.
Ask ==
  /\ phase = "idle" /\ phase' = "asked"
  /\ asked' = hour
  /\ truth' = held
  /\ buckets' \in {b \in SUBSET {c \in held : c[2] \in Closed(hour)} :
       \A h \in Closed(hour) :
         IF Cardinality(At(held, h)) <= TermSize THEN At(b, h) = At(held, h)
         ELSE Cardinality(At(b, h)) = TermSize}
  /\ UNCHANGED <<hour, here, held, top, records>>

\* The grid is built once the answer is there.
Report ==
  /\ phase = "asked" /\ phase' = "reported"
  /\ top' = here
  /\ records' = (Known \X Grid(here)) \ buckets
  /\ UNCHANGED <<hour, here, held, asked, buckets, truth>>

NextCheck ==
  /\ phase = "reported" /\ phase' = "idle"
  /\ buckets' = {} /\ truth' = {} /\ records' = {}
  /\ UNCHANGED <<hour, here, held, asked, top>>

CoverageNext ==
  \/ HourPasses \/ HourPassesHere \/ \E f \in Fabs : Index(f)
  \/ Ask \/ Report \/ NextCheck

CoverageSpec == CoverageInit /\ [][CoverageNext]_coverageVars

-----------------------------------------------------------------------------
(* Properties *)

Crowded(h) == Cardinality(At(truth, h)) > TermSize

\* Every empty cell of an hour that both clocks have closed is reported, a
\* dark fab's too, and no other, unless its hour has more fabs than a bucket
\* lists.  Only an hour that has closed on the task's clock alone, between the
\* question and the grid, is reported with every fab it has.
GapsReported == phase = "reported" =>
  \A f \in Known, h \in Closed(asked) \cap Closed(top) :
    /\ <<f, h>> \notin truth => <<f, h>> \in records
    /\ <<f, h>> \in records => <<f, h>> \notin truth \/ Crowded(h)
=============================================================================
