------------------------------ MODULE FinanceSync ------------------------------
(***************************************************************************)
(* app/services/finance_service.py: finance tasks poll Stripe and upsert   *)
(* today's RevenueSnapshot, several at a time: the ads-stripe sync, the    *)
(* founder's own tasks and messages delivered again. Stripe answers each   *)
(* poll with what it has by then.                                          *)
(***************************************************************************)
EXTENDS Integers

CONSTANTS
  Polls,      \* polls of one day
  Revenues,   \* monthly sums of the subscriptions, in half cents
  Balances,   \* the balance and the number of subscribers, as one value
  NoSnapshot

ASSUME FinanceAssumption ==
  Revenues \subseteq Nat /\ NoSnapshot \notin [{"mrr", "arr", "rest"} -> Nat \union Balances]

VARIABLES
  snapshot,  \* the committed row of the day
  poll       \* the transaction of each poll

financeVars == <<snapshot, poll>>

SnapshotColumns == {"mrr", "arr", "rest"}

\* Deviation: the year is computed before the cents are cut off.
SnapshotOfExact(r, b) == [mrr |-> r \div 2, arr |-> (12 * r) \div 2, rest |-> b]

\* int() cuts the fraction of a cent off, and the year is twelve such months.
SnapshotOf(r, b) == [mrr |-> r \div 2, arr |-> 12 * (r \div 2), rest |-> b]

Snapshots == {SnapshotOf(r, b) : r \in Revenues, b \in Balances}

Day == INSTANCE DailyRow WITH
  Writers <- Polls, Columns <- SnapshotColumns, Values <- Snapshots, NoRow <- NoSnapshot,
  row <- snapshot, upsert <- poll

FinanceInit == Day!RowInit

\* poll_stripe_snapshot's calls of Stripe; they come before the SELECT.
PollStripe(p) == \E r \in Revenues, b \in Balances : Day!Compute(p, SnapshotOf(r, b))

FinanceNext == \E p \in Polls : PollStripe(p) \/ Day!Upserting(p) \/ Day!FailUpsert(p)

FinanceSpec == FinanceInit /\ [][FinanceNext]_financeVars

FinanceTypeOK == Day!RowTypeOK

-----------------------------------------------------------------------------
(* Properties. *)

\* The columns of one row may come from several polls, each of which sets only
\* what it found different. Still the year the dashboard shows is twelve times
\* its month: polls that differ in one of the two differ in both.
SnapshotConsistent == snapshot # NoSnapshot => snapshot.arr = 12 * snapshot.mrr

==============================================================================
