------------------------------ MODULE DailyCycle ------------------------------
(***************************************************************************)
(* celery_app/tasks/daily_cycle.py. Beat publishes the morning and the     *)
(* evening message once a day; a worker that dies gives its message back,  *)
(* and one that takes longer than the broker's visibility timeout shares   *)
(* it with another. The morning makes tasks for AgentTasks to run, each a  *)
(* committed row and then a message; the evening saves the daily report    *)
(* through DailyRow. An exception in a delivery is logged by Celery, which *)
(* acknowledges the message: the day has lost its cycle.                   *)
(***************************************************************************)
EXTENDS Integers, Sequences

CONSTANTS
  Deliveries,      \* deliveries of each message
  ReportValues,    \* what an evening may have to report
  NoReport,
  MaxCycleFaults   \* bound on faults

ASSUME CycleAssumption == MaxCycleFaults \in Nat

VARIABLES
  ready,      \* deliveries of each message that a worker may take
  morning,    \* where each morning delivery stands
  made,       \* committed task rows by kind
  sent,       \* messages of those tasks by kind
  report,     \* the committed report of the day
  evening,    \* the report's transaction in each evening delivery
  outcome,    \* what became of each evening delivery
  cycleFaults

morningVars == <<morning, made, sent>>
eveningVars == <<report, evening, outcome>>
cycleVars == <<ready, morningVars, eveningVars, cycleFaults>>

\* The always-run agents in the order of the code, after finance.
AlwaysRun == <<"customer_support", "social_media">>
Kinds == {"finance", "customer_support", "social_media"}

Report == INSTANCE DailyRow WITH
  Writers <- Deliveries, Columns <- {"completed", "failed", "summary"},
  Values <- ReportValues, NoRow <- NoReport, row <- report, upsert <- evening

Running == {"starting", "planning", "planned", "creating", "enqueuing", "closing"}

CycleTypeOK ==
  /\ ready \in [{"morning", "evening"} -> 0 .. MaxCycleFaults + 1]
  /\ morning \in [Deliveries -> [phase : Running \union {"waiting", "done", "raised", "lost"},
                                 next : 1 .. Len(AlwaysRun) + 1]]
  /\ made \in [Kinds -> Nat] /\ sent \in [Kinds -> Nat]
  /\ Report!RowTypeOK
  /\ outcome \in [Deliveries -> {"open", "ended", "raised", "lost"}]
  /\ cycleFaults \in 0 .. MaxCycleFaults

CycleInit ==
  /\ ready = [morning |-> 1, evening |-> 1]
  /\ morning = [d \in Deliveries |-> [phase |-> "waiting", next |-> 1]]
  /\ made = [k \in Kinds |-> 0] /\ sent = [k \in Kinds |-> 0]
  /\ Report!RowInit
  /\ outcome = [d \in Deliveries |-> "open"]
  /\ cycleFaults = 0

CycleFault == cycleFaults < MaxCycleFaults /\ cycleFaults' = cycleFaults + 1

Taken(cycle) == ready[cycle] > 0 /\ ready' = [ready EXCEPT ![cycle] = @ - 1]

\* Deviation: the message is acknowledged when it is taken.
GiveBackNothing(cycle) == UNCHANGED ready

GiveBack(cycle) == ready' = [ready EXCEPT ![cycle] = @ + 1]

-----------------------------------------------------------------------------
(* Morning. *)

Moves(d, from, to) == morning[d].phase = from /\ morning' = [morning EXCEPT ![d].phase = to]

TakeMorning(d) ==
  /\ Moves(d, "waiting", "starting") /\ Taken("morning")
  /\ UNCHANGED <<made, sent, eveningVars, cycleFaults>>

\* The finance task is committed. run_agent_task.apply then meets the cycle's
\* own event loop, and keeps the error in its result: nothing runs the task.
CreateFinance(d) ==
  /\ Moves(d, "starting", "planning")
  /\ made' = [made EXCEPT !["finance"] = @ + 1]
  /\ UNCHANGED <<ready, sent, eveningVars, cycleFaults>>

Plan(d) ==
  /\ Moves(d, "planning", "planned")
  /\ UNCHANGED <<ready, made, sent, eveningVars, cycleFaults>>

\* Deviation: the try block takes in the always-run agents as well, so a failed
\* publish skips them.
LogPlanOrEnd(d) ==
  /\ Moves(d, "planned", "creating") \/ Moves(d, "planned", "done")
  /\ UNCHANGED <<ready, made, sent, eveningVars, cycleFaults>>

\* Best effort: whether the feed has it or not, the cycle goes on.
LogPlan(d) ==
  /\ Moves(d, "planned", "creating")
  /\ UNCHANGED <<ready, made, sent, eveningVars, cycleFaults>>

CreateAlwaysRun(d) ==
  /\ Moves(d, "creating", "enqueuing")
  /\ made' = [made EXCEPT ![AlwaysRun[morning[d].next]] = @ + 1]
  /\ UNCHANGED <<ready, sent, eveningVars, cycleFaults>>

EnqueueAlwaysRun(d) ==
  LET n == morning[d].next
  IN  /\ morning[d].phase = "enqueuing"
      /\ sent' = [sent EXCEPT ![AlwaysRun[n]] = @ + 1]
      /\ morning' = [morning EXCEPT ![d] =
           [phase |-> IF n < Len(AlwaysRun) THEN "creating" ELSE "closing", next |-> n + 1]]
      /\ UNCHANGED <<ready, made, eveningVars, cycleFaults>>

\* The engine is disposed of and the message acknowledged.
CloseMorning(d) ==
  /\ Moves(d, "closing", "done")
  /\ UNCHANGED <<ready, made, sent, eveningVars, cycleFaults>>

\* A transaction, the orchestrator or the broker raises; what the activity entry
\* raises is swallowed, LogPlan has it.
MorningRaises(d) ==
  /\ \E phase \in Running \ {"planned"} : Moves(d, phase, "raised")
  /\ CycleFault
  /\ UNCHANGED <<ready, made, sent, eveningVars>>

LoseMorning(d) ==
  /\ \E phase \in Running : Moves(d, phase, "lost")
  /\ CycleFault /\ GiveBack("morning")
  /\ UNCHANGED <<made, sent, eveningVars>>

\* The visibility timeout passes while the worker is at it.
ExpireMorning(d) ==
  /\ morning[d].phase \in Running
  /\ CycleFault /\ GiveBack("morning")
  /\ UNCHANGED <<morningVars, eveningVars>>

-----------------------------------------------------------------------------
(* Evening. *)

\* The context is read, the day's tasks are counted and the orchestrator sums
\* up; all before the report is looked for.
TakeEvening(d) ==
  /\ Taken("evening")
  /\ \E v \in ReportValues : Report!Compute(d, v)
  /\ UNCHANGED <<morningVars, outcome, cycleFaults>>

\* save_evening_summary and the commit; a refused date is an exception.
SaveReport(d) ==
  /\ Report!Upserting(d)
  /\ outcome' = [outcome EXCEPT ![d] = IF evening'[d].phase = "refused" THEN "raised" ELSE @]
  /\ UNCHANGED <<ready, morningVars, cycleFaults>>

\* Best effort again, after the commit.
LogEvening(d) ==
  /\ evening[d].phase = "done" /\ outcome[d] = "open"
  /\ outcome' = [outcome EXCEPT ![d] = "ended"]
  /\ UNCHANGED <<ready, morningVars, report, evening, cycleFaults>>

EveningRaises(d) ==
  /\ Report!FailUpsert(d)
  /\ outcome' = [outcome EXCEPT ![d] = "raised"]
  /\ CycleFault
  /\ UNCHANGED <<ready, morningVars>>

LoseEvening(d) ==
  /\ outcome[d] = "open"
  /\ \/ Report!FailUpsert(d)
     \/ evening[d].phase = "done" /\ UNCHANGED <<report, evening>>
  /\ outcome' = [outcome EXCEPT ![d] = "lost"]
  /\ CycleFault /\ GiveBack("evening")
  /\ UNCHANGED morningVars

ExpireEvening(d) ==
  /\ evening[d].phase # "idle" /\ outcome[d] = "open"
  /\ CycleFault /\ GiveBack("evening")
  /\ UNCHANGED <<morningVars, eveningVars>>

-----------------------------------------------------------------------------

CycleStep(d) ==
  \/ TakeMorning(d) \/ CreateFinance(d) \/ Plan(d) \/ LogPlan(d)
  \/ CreateAlwaysRun(d) \/ EnqueueAlwaysRun(d) \/ CloseMorning(d)

EveningStep(d) == TakeEvening(d) \/ SaveReport(d) \/ LogEvening(d)

CycleNext ==
  \E d \in Deliveries :
    \/ CycleStep(d) \/ MorningRaises(d) \/ LoseMorning(d) \/ ExpireMorning(d)
    \/ EveningStep(d) \/ EveningRaises(d) \/ LoseEvening(d) \/ ExpireEvening(d)

CycleSpec == CycleInit /\ [][CycleNext]_cycleVars

\* A worker of the scheduler queue takes what is ready and goes on with it.
CycleFairness ==
  \A d \in Deliveries : WF_cycleVars(CycleStep(d)) /\ WF_cycleVars(EveningStep(d))

FairCycleSpec == CycleSpec /\ CycleFairness

-----------------------------------------------------------------------------
(* Properties. *)

\* A morning that has begun ends with both always-run agents enqueued, lost
\* workers and expired messages notwithstanding, unless a delivery raised
\* where the code lets the exception out.
MorningEnqueues ==
  (\E d \in Deliveries : morning[d].phase # "waiting")
    ~> \/ \A i \in DOMAIN AlwaysRun : sent[AlwaysRun[i]] > 0
       \/ \E d \in Deliveries : morning[d].phase = "raised"

\* An evening that has begun leaves a report, also when two deliveries race
\* for its date, unless a delivery raised before its commit.
EveningReports ==
  (\E d \in Deliveries : evening[d].phase # "idle")
    ~> \/ report # NoReport
       \/ \E d \in Deliveries : evening[d].phase = "failed" /\ outcome[d] = "raised"

==============================================================================
