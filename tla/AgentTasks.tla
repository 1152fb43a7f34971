------------------------------ MODULE AgentTasks ------------------------------
(***************************************************************************)
(* The agent task queue: a task is created by the API                      *)
(* (app/api/v1/agents.py) or by a scheduler task                           *)
(* (_create_and_run of celery_app/tasks/agent_tasks.py), a Celery message  *)
(* carries its id, and run_agent_task runs the agent, may answer a         *)
(* customer on its own, and saves the outcome. Messages are acknowledged   *)
(* late and rejected back to the queue when the worker is lost             *)
(* (celery_app/celery_config.py), so a task may be run again.              *)
(***************************************************************************)
EXTENDS Integers, FiniteSets

CONSTANTS
  Tasks,      \* task ids
  Manual,     \* those triggered through the API; the others are scheduled
  Support,    \* customer_support tasks of the inbox sweep: scheduled, with a reply_to
  Workers,    \* worker processes
  None,       \* no row
  Limit,      \* DAILY_AUTO_SEND_LIMIT
  MaxFaults   \* bound on lost processes and failing transactions

ASSUME TasksAssumption ==
  Manual \subseteq Tasks /\ Support \subseteq Tasks \ Manual
ASSUME BoundsAssumption == Limit \in Nat /\ MaxFaults \in Nat

VARIABLES
  task,      \* status column of each committed task row
  runs,      \* committed agent_runs rows
  drafts,    \* committed approval_requests rows, by the run that drafted the reply
  message,   \* the broker's copy of each task's message
  dispatch,  \* how far the creation of each task is
  worker,    \* what each worker does
  mails,     \* auto-sent replies, by run
  expired,   \* tasks whose message was put back while a worker had it
  faults     \* faults so far

taskVars == <<task, runs, drafts, message, dispatch, worker, mails, expired, faults>>

Attempts == 1..(MaxFaults + 1)
RunIds == Tasks \X Attempts

ASSUME NoRowAssumption ==
  /\ None \notin Tasks /\ None \notin RunIds
  /\ None \notin {"pending", "in_progress", "completed", "failed", "approved", "rejected"}

Run == [id: RunIds, status: {"running", "completed", "failed"}, autoSent: BOOLEAN]
Idle == [task |-> None, phase |-> "idle", attempt |-> 0, status |-> "running", autoSent |-> FALSE]
Job == [task: Tasks \union {None},
        phase: {"idle", "taken", "running", "deciding", "sending", "saving", "saved"},
        attempt: 0..(MaxFaults + 1), status: {"running", "completed", "failed"},
        autoSent: BOOLEAN]

TasksTypeOK ==
  /\ task \in [Tasks -> {None, "pending", "in_progress", "completed", "failed"}]
  /\ runs \subseteq Run
  /\ drafts \in [RunIds -> {None, "pending", "approved", "rejected"}]
  /\ message \in [Tasks -> {"unsent", "queued", "delivered", "acked", "failed"}]
  /\ dispatch \in [Tasks -> {"new", "half", "done", "dead"}]
  /\ worker \in [Workers -> Job]
  /\ mails \subseteq RunIds
  /\ expired \subseteq Tasks
  /\ faults \in 0..MaxFaults

TasksInit ==
  /\ task = [t \in Tasks |-> None]
  /\ runs = {}
  /\ drafts = [r \in RunIds |-> None]
  /\ message = [t \in Tasks |-> "unsent"]
  /\ dispatch = [t \in Tasks |-> "new"]
  /\ worker = [w \in Workers |-> Idle]
  /\ mails = {}
  /\ expired = {}
  /\ faults = 0

-----------------------------------------------------------------------------
(* Creating and enqueueing. The API enqueues inside the request's            *)
(* transaction, which get_db commits after the handler; the scheduler        *)
(* commits first.                                                            *)

Commits(t) == task' = [task EXCEPT ![t] = "pending"] /\ UNCHANGED message
Enqueues(t) == message' = [message EXCEPT ![t] = "queued"] /\ UNCHANGED task

CreateTask(t) ==
  /\ dispatch[t] = "new"
  /\ dispatch' = [dispatch EXCEPT ![t] = "half"]
  /\ IF t \in Manual THEN Enqueues(t) ELSE Commits(t)
  /\ UNCHANGED <<runs, drafts, worker, mails, faults, expired>>

FinishDispatch(t) ==
  /\ dispatch[t] = "half"
  /\ dispatch' = [dispatch EXCEPT ![t] = "done"]
  /\ IF t \in Manual THEN Commits(t) ELSE Enqueues(t)
  /\ UNCHANGED <<runs, drafts, worker, mails, faults, expired>>

\* The dispatcher dies, or its second half fails.
DispatchFails(t) ==
  /\ dispatch[t] = "half"
  /\ faults < MaxFaults
  /\ dispatch' = [dispatch EXCEPT ![t] = "dead"]
  /\ faults' = faults + 1
  /\ UNCHANGED <<task, runs, drafts, message, worker, mails, expired>>

-----------------------------------------------------------------------------
(* run_agent_task on a worker.                                               *)

Set(w, job) == worker' = [worker EXCEPT ![w] = job]
At(w, phase) == worker[w].phase = phase
TaskOf(w) == worker[w].task
RunOf(w) == <<TaskOf(w), worker[w].attempt>>

\* The broker delivers the message; it is acknowledged when the task returns or
\* raises.
Take(w, t) ==
  /\ At(w, "idle")
  /\ message[t] = "queued"
  /\ message' = [message EXCEPT ![t] = "delivered"]
  /\ Set(w, [Idle EXCEPT !.task = t, !.phase = "taken"])
  /\ UNCHANGED <<task, runs, drafts, dispatch, mails, faults, expired>>

\* The broker's copy goes, whoever it was delivered to last; one it has put back
\* stays. "failed" is acknowledged too, with a failure for its result.
Acknowledge(w, result) ==
  /\ message' = IF message[TaskOf(w)] = "queued" THEN message
                ELSE [message EXCEPT ![TaskOf(w)] = result]
  /\ Set(w, Idle)

PutBack(t) == message' = [message EXCEPT ![t] = IF @ = "delivered" THEN "queued" ELSE @]

\* There is no such row: the task returns.
SkipMissing(w) ==
  /\ At(w, "taken")
  /\ task[TaskOf(w)] = None
  /\ Acknowledge(w, "acked")
  /\ UNCHANGED <<task, runs, drafts, dispatch, mails, faults, expired>>

\* Deviation: a task is started once.
StartPending(w) ==
  LET t == TaskOf(w)
      n == Cardinality({r \in runs : r.id[1] = t}) + 1
  IN  /\ At(w, "taken")
      /\ task[t] = "pending"
      /\ task' = [task EXCEPT ![t] = "in_progress"]
      /\ runs' = runs \union {[id |-> <<t, n>>, status |-> "running", autoSent |-> FALSE]}
      /\ Set(w, [worker[w] EXCEPT !.phase = "running", !.attempt = n])
      /\ UNCHANGED <<drafts, message, dispatch, mails, faults, expired>>

\* Deviation: the run is numbered by the runs there are.
StartSameRun(w) ==
  LET t == TaskOf(w)
      n == Cardinality({r \in runs : r.id[1] = t})
  IN  /\ At(w, "taken")
      /\ task[t] # None
      /\ task' = [task EXCEPT ![t] = "in_progress"]
      /\ runs' = runs \union {[id |-> <<t, n>>, status |-> "running", autoSent |-> FALSE]}
      /\ Set(w, [worker[w] EXCEPT !.phase = "running", !.attempt = n])
      /\ UNCHANGED <<drafts, message, dispatch, mails, faults, expired>>

\* The row, whatever its status, becomes in_progress with a new agent run.
Start(w) ==
  LET t == TaskOf(w)
      n == Cardinality({r \in runs : r.id[1] = t}) + 1
  IN  /\ At(w, "taken")
      /\ task[t] # None
      /\ task' = [task EXCEPT ![t] = "in_progress"]
      /\ runs' = runs \union {[id |-> <<t, n>>, status |-> "running", autoSent |-> FALSE]}
      /\ Set(w, [worker[w] EXCEPT !.phase = "running", !.attempt = n])
      /\ UNCHANGED <<drafts, message, dispatch, mails, faults, expired>>

\* The agent answers or raises; a completed customer reply goes to the policy.
RunAgent(w, status) ==
  /\ At(w, "running")
  /\ Set(w, [worker[w] EXCEPT !.status = status,
               !.phase = IF status = "completed" /\ TaskOf(w) \in Support
                         THEN "deciding" ELSE "saving"])
  /\ UNCHANGED <<task, runs, drafts, message, dispatch, mails, faults, expired>>

\* Auto-sent replies are counted in the output of today's saved runs.
AutoSendsLeft == Cardinality({r \in runs : r.autoSent}) < Limit

\* Deviation: a send that raises asks the founder, whether the mail left or not.
SendReplyAsks(w) ==
  /\ At(w, "sending")
  /\ \/ UNCHANGED <<mails, faults>>
     \/ /\ faults < MaxFaults
        /\ faults' = faults + 1
        /\ mails' = mails \union {RunOf(w)}
  /\ drafts' = [drafts EXCEPT ![RunOf(w)] = "pending"]
  /\ Set(w, [worker[w] EXCEPT !.phase = "saving"])
  /\ UNCHANGED <<task, runs, message, dispatch, expired>>

\* is_safe_to_auto_send: the draft says it is eligible, no denied keyword, and
\* the limit is not reached; otherwise a draft goes to the Founder Inbox, if
\* there is one, or stays in the run's output.
DecideToSend(w) ==
  /\ At(w, "deciding")
  /\ AutoSendsLeft
  /\ Set(w, [worker[w] EXCEPT !.phase = "sending"])
  /\ UNCHANGED <<task, runs, drafts, message, dispatch, mails, faults, expired>>

DraftForFounder(w) ==
  /\ At(w, "deciding")
  /\ drafts' = [drafts EXCEPT ![RunOf(w)] = "pending"]
  /\ Set(w, [worker[w] EXCEPT !.phase = "saving"])
  /\ UNCHANGED <<task, runs, message, dispatch, mails, faults, expired>>

\* No draft, or an exception, which is swallowed.
LeaveDraft(w) ==
  /\ At(w, "deciding")
  /\ Set(w, [worker[w] EXCEPT !.phase = "saving"])
  /\ UNCHANGED <<task, runs, drafts, message, dispatch, mails, faults, expired>>

\* Deviation: the answer to a send is taken for an error, and the task retried.
SendReplyRetry(w) ==
  /\ At(w, "sending")
  /\ mails' = mails \union {RunOf(w)}
  /\ PutBack(TaskOf(w))
  /\ Set(w, Idle)
  /\ UNCHANGED <<task, runs, drafts, dispatch, faults, expired>>

SendReply(w) ==
  /\ At(w, "sending")
  /\ mails' = mails \union {RunOf(w)}
  /\ Set(w, [worker[w] EXCEPT !.phase = "saving", !.autoSent = TRUE])
  /\ UNCHANGED <<task, runs, drafts, message, dispatch, faults, expired>>

\* SendGrid raises, before or after it has taken the mail; the run is saved as a
\* draft. The outcomes cost a fault only when the mail went out.
SendReplyFails(w) ==
  /\ At(w, "sending")
  /\ \/ UNCHANGED <<mails, faults>>
     \/ /\ faults < MaxFaults
        /\ faults' = faults + 1
        /\ mails' = mails \union {RunOf(w)}
  /\ Set(w, [worker[w] EXCEPT !.phase = "saving"])
  /\ UNCHANGED <<task, runs, drafts, message, dispatch, expired>>

\* Deviation: the run's output is saved without what became of the reply.
SavedStatus(r, w) ==
  IF r.id = RunOf(w) THEN [r EXCEPT !.status = worker[w].status] ELSE r

Saved(r, w) ==
  IF r.id = RunOf(w)
  THEN [r EXCEPT !.status = worker[w].status, !.autoSent = worker[w].autoSent]
  ELSE r

\* Deviation: only the task row is saved.
SaveTaskOnly(w) ==
  /\ At(w, "saving")
  /\ task' = [task EXCEPT ![TaskOf(w)] = worker[w].status]
  /\ Set(w, [worker[w] EXCEPT !.phase = "saved"])
  /\ UNCHANGED <<runs, drafts, message, dispatch, mails, faults, expired>>

\* Task status and agent run are saved in one transaction.
Save(w) ==
  /\ At(w, "saving")
  /\ task' = [task EXCEPT ![TaskOf(w)] = worker[w].status]
  /\ runs' = {Saved(r, w) : r \in runs}
  /\ Set(w, [worker[w] EXCEPT !.phase = "saved"])
  /\ UNCHANGED <<drafts, message, dispatch, mails, faults, expired>>

\* The activity entry is best effort; then the task returns.
Return(w) ==
  /\ At(w, "saved")
  /\ Acknowledge(w, "acked")
  /\ UNCHANGED <<task, runs, drafts, dispatch, mails, faults, expired>>

\* The first or the last transaction raises (the database, the Stripe snapshot):
\* no step catches it, Celery records a failure and acknowledges the message.
Abort(w) ==
  /\ worker[w].phase \in {"taken", "saving"}
  /\ faults < MaxFaults
  /\ faults' = faults + 1
  /\ Acknowledge(w, "failed")
  /\ UNCHANGED <<task, runs, drafts, dispatch, mails, expired>>

\* Deviation: the message of a lost worker is gone.
LoseWorkerAndMessage(w) ==
  /\ ~At(w, "idle")
  /\ faults < MaxFaults
  /\ faults' = faults + 1
  /\ Acknowledge(w, "acked")
  /\ UNCHANGED <<task, runs, drafts, dispatch, mails, expired>>

\* The worker process is lost; its message goes back, if the broker has it yet.
LoseWorker(w) ==
  /\ ~At(w, "idle")
  /\ faults < MaxFaults
  /\ faults' = faults + 1
  /\ PutBack(TaskOf(w))
  /\ Set(w, Idle)
  /\ UNCHANGED <<task, runs, drafts, dispatch, mails, expired>>

\* The visibility timeout: the broker puts back a message that is not acknowledged
\* in time, and the worker that has it knows nothing of it.
Expire(t) ==
  /\ message[t] = "delivered"
  /\ faults < MaxFaults
  /\ faults' = faults + 1
  /\ PutBack(t)
  /\ expired' = expired \union {t}
  /\ UNCHANGED <<task, runs, drafts, dispatch, worker, mails>>

WorkerStep(w) ==
  \/ SkipMissing(w) \/ Start(w)
  \/ RunAgent(w, "completed") \/ RunAgent(w, "failed")
  \/ DecideToSend(w) \/ DraftForFounder(w) \/ LeaveDraft(w)
  \/ SendReply(w) \/ SendReplyFails(w)
  \/ Save(w) \/ Return(w)

TasksNext ==
  \/ \E t \in Tasks :
       CreateTask(t) \/ FinishDispatch(t) \/ DispatchFails(t) \/ Expire(t)
  \/ \E w \in Workers :
       \/ \E t \in Tasks : Take(w, t)
       \/ WorkerStep(w)
       \/ Abort(w)
       \/ LoseWorker(w)

TasksSpec == TasksInit /\ [][TasksNext]_taskVars

\* Workers run what they have taken, the broker delivers what is queued, and a
\* dispatcher that has begun goes on or fails. A step of the worker may be the
\* agent's: the model's command line program is assumed to end, which the code
\* does not enforce (no timeout in base_agent's _run_llm_turn).
TasksFairness ==
  /\ \A w \in Workers : WF_taskVars(WorkerStep(w))
  /\ \A t \in Tasks : SF_taskVars(\E w \in Workers : Take(w, t))
  /\ \A t \in Tasks : WF_taskVars(FinishDispatch(t) \/ DispatchFails(t))

FairTasksSpec == TasksSpec /\ TasksFairness

-----------------------------------------------------------------------------
(* Properties. *)

\* A task in progress is not lost: its message is queued or with a worker,
\* unless a transaction raised and the message was given up with a failure, or two
\* workers had it.
InProgressIsHeld ==
  \A t \in Tasks \ expired :
    task[t] = "in_progress" => message[t] \in {"queued", "delivered", "failed"}

\* The task row speaks of the last run: a finished task has the status its last
\* run ended with, a task in progress has a last run that has not ended.
\* Two workers with one task may save in either order.
RowMatchesLastRun ==
  \A t \in Tasks \ expired : task[t] \in {"in_progress", "completed", "failed"} =>
    \E r \in runs :
      /\ r.id[1] = t
      /\ \A q \in runs : q.id[1] = t => q.id[2] <= r.id[2]
      /\ r.status = IF task[t] = "in_progress" THEN "running" ELSE task[t]

\* No run both answers the customer and asks the founder whether to.
SentOrAsked == \A r \in mails : drafts[r] = None

\* A reply that left is on record as sent, with the worker that sent it and then in
\* its saved run, where the daily limit counts it; each fault hides at most one
\* (SendGrid raises after it took the mail, the worker is lost before it saves).
OnRecord(id) ==
  \/ \E r \in runs : r.id = id /\ r.autoSent
  \/ \E w \in Workers : RunOf(w) = id /\ worker[w].autoSent

SentIsRecorded == Cardinality({r \in mails : ~OnRecord(r)}) <= faults

\* A customer gets one automatic reply, and one more for each loss (a worker, an
\* answer of SendGrid, a visibility timeout): the queue with its workers is an
\* at-least-once queue.
Mailed(t) == Cardinality({r \in mails : r[1] = t})
Queue == INSTANCE AtLeastOnce WITH
  Jobs <- Tasks,
  accepted <- {t \in Tasks : message[t] # "unsent"},
  effects <- [t \in Tasks |-> Mailed(t)],
  losses <- faults
ImplementsQueue == Queue!JobsSpec

\* A task whose message finds its row ends, unless a transaction raises.
EnqueuedTaskEnds ==
  \A t \in Tasks :
    (task[t] # None /\ message[t] = "queued")
      ~> (task[t] \in {"completed", "failed"} \/ message[t] = "failed")

\* The circuit breaker of auto_send_policy: no more than Limit replies leave
\* without a human.
AutoSendLimit == Cardinality(mails) <= Limit

\* The documented lifecycle: a created task is pending, then in progress, then
\* completed or failed.
CreatedTaskEnds ==
  \A t \in Tasks : (task[t] = "pending") ~> (task[t] \in {"completed", "failed"})
==============================================================================
