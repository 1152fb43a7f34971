------------------------------- MODULE DailyRow -------------------------------
(***************************************************************************)
(* The one row a day that concurrent transactions upsert: the revenue      *)
(* snapshot (app/services/finance_service.py) and the daily report         *)
(* (app/services/report_service.py). Each selects the row of the day,      *)
(* inserts one if there is none, and sets its columns. Nothing is locked   *)
(* before the flush; the date is unique, so of two inserts the second      *)
(* waits for the first and fails if that commits; and SQLAlchemy's UPDATE  *)
(* names only the columns that differ from what the transaction loaded.    *)
(***************************************************************************)
CONSTANTS
  Writers,  \* transactions of the day
  Columns,  \* columns they set
  Values,   \* rows they may want: a set of functions on Columns
  NoRow

VARIABLES
  row,     \* the committed row, or NoRow
  upsert   \* what each writer does

rowVars == <<row, upsert>>

Phases == {"idle", "computed", "loaded", "flushed", "done", "refused", "failed"}
NewUpsert == [phase |-> "idle", wanted |-> NoRow, found |-> NoRow]

Entries == UNION {{v[c] : c \in Columns} : v \in Values}

Rows == [Columns -> Entries] \union {NoRow}  \* what several writers may leave

RowTypeOK ==
  /\ row \in Rows
  /\ upsert \in [Writers -> [phase : Phases, wanted : Values \union {NoRow}, found : Rows]]

RowInit == row = NoRow /\ upsert = [w \in Writers |-> NewUpsert]

\* The columns that the writer's statement sets.
Changed(w) ==
  {c \in Columns : upsert[w].found = NoRow \/ upsert[w].wanted[c] # upsert[w].found[c]}

\* A flushed statement holds the row, or the date of the row to come, until its
\* transaction ends; one that changes nothing is not sent.
Held == \E w \in Writers : upsert[w].phase = "flushed" /\ Changed(w) # {}

\* The values come from outside, before the row is looked for.
Compute(w, v) ==
  /\ upsert[w].phase = "idle"
  /\ upsert' = [upsert EXCEPT ![w].phase = "computed", ![w].wanted = v]
  /\ UNCHANGED row

Load(w) ==
  /\ upsert[w].phase = "computed"
  /\ upsert' = [upsert EXCEPT ![w].phase = "loaded", ![w].found = row]
  /\ UNCHANGED row

Flush(w) ==
  /\ upsert[w].phase = "loaded"
  /\ Held => Changed(w) = {}
  /\ upsert[w].found = NoRow => row = NoRow
  /\ upsert' = [upsert EXCEPT ![w].phase = "flushed"]
  /\ UNCHANGED row

\* An insert that waited for another finds its date taken.
Refuse(w) ==
  /\ upsert[w].phase = "loaded"
  /\ ~Held
  /\ upsert[w].found = NoRow /\ row # NoRow
  /\ upsert' = [upsert EXCEPT ![w].phase = "refused"]
  /\ UNCHANGED row

CommitUpsert(w) ==
  /\ upsert[w].phase = "flushed"
  /\ row' = [c \in Columns |-> IF c \in Changed(w) THEN upsert[w].wanted[c] ELSE row[c]]
  /\ upsert' = [upsert EXCEPT ![w].phase = "done"]

\* The connection or the process is lost: the transaction is rolled back.
FailUpsert(w) ==
  /\ upsert[w].phase \in {"computed", "loaded", "flushed"}
  /\ upsert' = [upsert EXCEPT ![w].phase = "failed"]
  /\ UNCHANGED row

Upserting(w) == Load(w) \/ Flush(w) \/ Refuse(w) \/ CommitUpsert(w)

-----------------------------------------------------------------------------

\* What a writer wants that another has written is not lost: once a transaction
\* ends, or gives way to one that had the date first, the day has its row.
EndedLeavesRow ==
  (\E w \in Writers : upsert[w].phase \in {"done", "refused"}) => row # NoRow

==============================================================================
