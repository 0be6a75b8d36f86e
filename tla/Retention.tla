------------------------------ MODULE Retention ------------------------------
(* The purges of the object store.  "age" removes the objects not modified  *)
(* since the cutoff (scripts/minio_age_purge.py); the others remove whole   *)
(* date partitions, "partition" (minio_partition_purge.py) and "sem"        *)
(* (hitachi_sem_partition_purge.py) one by one, "helper" (delete_older_than *)
(* of minio_handler/object.py) all in one request.  Objects are written     *)
(* meanwhile.  MinIO and Airflow, which runs a failed task again some other *)
(* day, are external.                                                       *)
EXTENDS Integers

CONSTANTS
  Objects,
  Keep,      \* the retention in days
  Window,    \* days that the reading application goes back
  LastDay    \* bound on the calendar

ASSUME RetentionAssumption == Keep \in Nat /\ Window \in Nat /\ LastDay \in Nat

VARIABLES
  today,     \* the date in Korea, in which partitions are dated
  stamp,     \* stamp[o]: the day of o's partition or last modification
  newest,    \* the newest day ever ingested
  rule, pc, dry,   \* the purge: which one, where, and whether in earnest
  cutoff,
  days,      \* the expired partitions it has found and not yet swept
  todo,      \* the objects it is about to remove
  errors,    \* a removal was answered with an error entry
  overdue, touched,   \* history of the run: what had expired when it began,
                  \* what has been written since,
  victims,        \* and what it has removed
  lagged,    \* history: a run began when ingestion was behind
  swept      \* history: the partitions from which it removed something

found == <<cutoff, overdue, lagged>>
removed == <<victims, swept>>
retentionVars == <<today, stamp, newest, rule, pc, dry, days, todo, errors,
                   touched, found, removed>>

NoDay == -1
Rules == {"age", "partition", "sem", "helper"}

RetentionTypeOK ==
  /\ today \in 0..LastDay /\ newest \in 0..LastDay
  /\ stamp \in [Objects -> {NoDay} \cup 0..LastDay]
  /\ rule \in Rules /\ pc \in {"idle", "walking", "removing", "done"}
  /\ dry \in BOOLEAN /\ errors \in BOOLEAN /\ lagged \in BOOLEAN
  /\ cutoff \in Int
  /\ days \subseteq 0..LastDay /\ swept \subseteq 0..LastDay
  /\ todo \subseteq Objects /\ overdue \subseteq Objects
  /\ touched \subseteq Objects /\ victims \subseteq Objects

RetentionInit ==
  /\ today = 0 /\ newest = 0
  /\ stamp = [o \in Objects |-> NoDay]
  /\ rule \in Rules /\ pc = "idle"
  /\ dry = TRUE /\ errors = FALSE /\ lagged = FALSE
  /\ cutoff = NoDay
  /\ days = {} /\ todo = {} /\ overdue = {} /\ touched = {}
  /\ swept = {} /\ victims = {}

-----------------------------------------------------------------------------
(* The store *)

DayPasses ==
  /\ today < LastDay /\ today' = today + 1
  /\ UNCHANGED <<stamp, newest, rule, pc, dry, days, todo, errors, touched, found, removed>>

\* An object is written: its partition is that of its data, which may be
\* late; its last modification is now, also when it is written again.
Put(o) ==
  /\ \E d \in IF rule = "age" THEN {today}
              ELSE IF stamp[o] # NoDay THEN {stamp[o]} ELSE 0..today :
       /\ stamp' = [stamp EXCEPT ![o] = d]
       /\ newest' = IF d > newest THEN d ELSE newest
  /\ touched' = touched \cup {o}
  /\ UNCHANGED <<today, rule, pc, dry, days, todo, errors, found, removed>>

-----------------------------------------------------------------------------
(* A purge *)

\* The day a run takes for today: date.today() is that of the worker, which
\* may be behind Korea.
Todays == IF rule = "partition" THEN {today - 1, today} ELSE {today}

\* Mutant: the partition of the cutoff goes in any case.
ExpiredInclusive(d, c) == d # NoDay /\ d <= c

\* "sem" removes the partition of the cutoff, the others keep it.
Expired(d, c) == d # NoDay /\ IF rule = "sem" THEN d <= c ELSE d < c

\* How far behind ingestion may be for the window to lie after the cutoff.
Slack == Keep - Window - (IF rule = "sem" THEN 1 ELSE 0)

\* The cutoff is computed and the expired are listed.
Begin ==
  /\ pc = "idle"
  /\ dry' \in BOOLEAN
  /\ \E t \in Todays :
       /\ cutoff' = t - Keep
       /\ overdue' = {o \in Objects : Expired(stamp[o], t - Keep)}
  /\ IF rule = "age" THEN days' = {} /\ todo' = overdue'
     ELSE days' = {stamp[o] : o \in overdue'} /\ todo' = {}
  /\ pc' = IF rule # "age" THEN "walking" ELSE IF dry' THEN "done" ELSE "removing"
  /\ touched' = {} /\ victims' = {} /\ errors' = FALSE
  /\ lagged' = (lagged \/ today - newest > Slack)
  /\ UNCHANGED <<today, stamp, newest, rule, swept>>

\* The partitions listed and removed in one go.
NextDays ==
  IF rule = "helper" THEN days
  ELSE {d \in days : \A e \in days : d <= e}

\* The next partition, or all of them, is listed object by object.
Visit ==
  /\ pc = "walking" /\ days # {}
  /\ days' = days \ NextDays
  /\ IF dry THEN UNCHANGED <<todo, pc>>
     ELSE /\ todo' = {o \in Objects : stamp[o] \in NextDays}
          /\ pc' = "removing"
  /\ UNCHANGED <<today, stamp, newest, rule, dry, errors, touched, found, removed>>

WalkEnds ==
  /\ pc = "walking" /\ days = {} /\ pc' = "done"
  /\ UNCHANGED <<today, stamp, newest, rule, dry, days, todo, errors, touched,
                 found, removed>>

\* These objects go.
Gone(os) ==
  /\ stamp' = [o \in Objects |-> IF o \in os THEN NoDay ELSE stamp[o]]
  /\ swept' = (swept \cup {stamp[o] : o \in os}) \ {NoDay}
  /\ victims' = victims \cup os

\* Mutant: the answer's error entries are not looked at.
ErrorsIgnored(left) == errors
ErrorsSeen(left) == errors \/ left # {}

\* remove_objects: one request, answered with an entry for each object left.
Remove ==
  /\ pc = "removing"
  /\ \E left \in SUBSET todo :
       /\ Gone(todo \ left)
       /\ errors' = ErrorsSeen(left)
  /\ todo' = {}
  /\ pc' = IF rule = "age" THEN "done" ELSE "walking"
  /\ UNCHANGED <<today, newest, rule, dry, days, touched, found>>

\* A request raises or the worker dies: the task has failed, some of the
\* objects at hand may be gone.
Breaks ==
  /\ pc \in {"walking", "removing"}
  /\ \E os \in SUBSET todo : Gone(os)
  /\ pc' = "idle" /\ todo' = {} /\ days' = {}
  /\ UNCHANGED <<today, newest, rule, dry, errors, touched, found>>

\* The task succeeds, or raises if there were errors.
Ends ==
  /\ pc = "done" /\ pc' = "idle"
  /\ UNCHANGED <<today, stamp, newest, rule, dry, days, todo, errors, touched,
                 found, removed>>

RetentionNext ==
  \/ DayPasses \/ \E o \in Objects : Put(o)
  \/ Begin \/ Visit \/ WalkEnds \/ Remove \/ Breaks \/ Ends

RetentionSpec == RetentionInit /\ [][RetentionNext]_retentionVars

-----------------------------------------------------------------------------
(* Properties *)

\* A day that the application still reads, counted back from the newest one
\* ingested and not from today, was never swept, unless ingestion was behind
\* when a purge began ("61 leaves one day of margin", minio_purge_old_pickles
\* _dag.py: none with Keep = Window + 1 if it lags a day).
WindowServed == rule # "age" /\ ~lagged => \A d \in swept : d < newest - Window

\* A purge removes what had expired when it began, all of it if it reports no
\* error, and nothing else but what is written while it walks, lists and
\* removes: an object rewritten between the listing and the removal goes.
PurgeExact ==
  /\ victims \subseteq overdue \cup touched
  /\ pc = "done" /\ ~dry /\ ~errors => overdue \subseteq victims \cup touched
=============================================================================
