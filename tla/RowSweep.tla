------------------------------ MODULE RowSweep ------------------------------
(* The stateless sweeps over a table (scripts/row_cycler.py,                *)
(* scripts/weekly_sweep.py): every run visits one slot's slice of the       *)
(* sorted rows, with a margin on either side.  Between two runs rows are    *)
(* inserted and deleted anywhere.  The model follows one row that stays.    *)
EXTENDS Integers

CONSTANTS
  Slots,     \* runs of one sweep
  Overlap,   \* rows of margin
  Churn,     \* most rows inserted, and most deleted, between two runs
  MaxRows    \* bound on the table

ASSUME SweepAssumption ==
  /\ Slots \in Nat \ {0} /\ Overlap \in Nat /\ Churn \in Nat
  /\ MaxRows \in Nat \ {0}
  /\ Churn <= 2 * Overlap

VARIABLES
  rows,      \* length of the table
  row,       \* the row's position
  slot,      \* the slot of the next run, Slots when the sweep is over
  settled,   \* the table has changed since the last run
  visited,   \* the row has been in a slice of this sweep
  forgone    \* it was in the slice of a run that did not come

sweepVars == <<rows, row, slot, settled, visited, forgone>>

SweepTypeOK ==
  /\ rows \in 1..MaxRows
  /\ row \in 0..(rows - 1)
  /\ slot \in 0..Slots
  /\ settled \in BOOLEAN /\ visited \in BOOLEAN /\ forgone \in BOOLEAN

SweepInit ==
  /\ rows \in 1..MaxRows
  /\ row \in 0..(rows - 1)
  /\ slot = 0
  /\ settled = TRUE /\ visited = FALSE /\ forgone = FALSE

Bound(s, n) == (s * n) \div Slots

\* Mutant: no margin ahead of the slice.
AtLeastNoMargin(s, n) == Bound(s, n)

\* slot_bounds.
AtLeast(s, n) == IF Bound(s, n) - Overlap > 0 THEN Bound(s, n) - Overlap ELSE 0
Below(s, n) ==
  IF Bound(s + 1, n) + Overlap < n THEN Bound(s + 1, n) + Overlap ELSE n

InSlice == AtLeast(slot, rows) <= row /\ row < Below(slot, rows)

\* rows_for_this_run, rows_for_run with the logical date of the run.
RunSlot ==
  /\ slot < Slots /\ settled
  /\ visited' = (visited \/ InSlice)
  /\ slot' = slot + 1 /\ settled' = FALSE
  /\ UNCHANGED <<rows, row, forgone>>

\* A run does not come, or comes so late that the clock puts it in another
\* slot.
MissSlot ==
  /\ slot < Slots /\ settled
  /\ forgone' = (forgone \/ InSlice)
  /\ slot' = slot + 1 /\ settled' = FALSE
  /\ UNCHANGED <<rows, row, visited>>

\* A late run of the slot before, by the wall clock: this one's slice twice.
StraySlot ==
  /\ slot < Slots /\ settled /\ ~visited
  /\ visited' = InSlice
  /\ UNCHANGED <<rows, row, slot, settled, forgone>>

\* Up to Churn rows come and up to Churn go, on either side of the row.
Drift ==
  /\ ~settled /\ settled' = TRUE
  /\ \E comeBefore, comeAfter, goBefore, goAfter \in 0..Churn :
       /\ comeBefore + comeAfter <= Churn /\ goBefore + goAfter <= Churn
       /\ goBefore <= row /\ goAfter < rows - row
       /\ row' = row + comeBefore - goBefore
       /\ rows' = rows + comeBefore + comeAfter - goBefore - goAfter
       /\ rows' <= MaxRows
  /\ UNCHANGED <<slot, visited, forgone>>

\* The next sweep begins, week after week.
NextSweep ==
  /\ slot = Slots /\ settled
  /\ slot' = 0 /\ visited' = FALSE /\ forgone' = FALSE
  /\ UNCHANGED <<rows, row, settled>>

SweepNext == RunSlot \/ MissSlot \/ StraySlot \/ Drift \/ NextSweep

SweepSpec == SweepInit /\ [][SweepNext]_sweepVars

\* At the end of a sweep every row that stayed has been visited, or its visit
\* fell to a run that did not come: a margin of half the rows that come or go
\* between two runs is enough, wherever they do (row_cycler.py:24-29).
RowVisited == slot = Slots => visited \/ forgone
=============================================================================
