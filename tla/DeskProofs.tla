------------------------------ MODULE DeskProofs ------------------------------
(***************************************************************************)
(* The agent tasks and the Founder Inbox, for any number of tasks,         *)
(* workers, requests and faults.                                           *)
(***************************************************************************)
EXTENDS FounderInbox, FiniteSetTheorems, TLAPS

\* The phases of a worker that has begun a run.
Working == {"running", "deciding", "sending", "saving", "saved"}
\* A worker has the task.
Holds(w, t) == ~At(w, "idle") /\ TaskOf(w) = t

\* The runs of a task, how many there are, and who is about to start another.
RunsOf(t) == {r \in runs : r.id[1] = t}
Starts(t) == Cardinality(RunsOf(t))
Takers(t) == {w \in Workers : At(w, "taken") /\ TaskOf(w) = t}
InQueue(t) == IF message[t] \in {"unsent", "queued"} THEN 1 ELSE 0

\* Nobody has answered the customer in the run, or asked whether to.
Fresh(r) == r \notin mails /\ drafts[r] = None

\* The runs of a task are numbered from 1 without a gap, and there are no traces
\* of a run before it has begun.
RunsNumbered ==
  /\ \A r, q \in runs : r.id = q.id => r = q
  /\ \A t \in Tasks :
       /\ IsFiniteSet(RunsOf(t))
       /\ \A r \in RunsOf(t) : r.id[2] \in 1..Starts(t)
       /\ \A k \in 1..Starts(t) : \E r \in RunsOf(t) : r.id[2] = k
       /\ \A k \in Attempts : k > Starts(t) => Fresh(<<t, k>>)

\* A task is started once, and once more for each fault: what has been started,
\* what is about to be and what is queued comes of one message and its returns.
DeliveriesBounded ==
  \A t \in Tasks :
    /\ IsFiniteSet(Takers(t))
    /\ Starts(t) + Cardinality(Takers(t)) + InQueue(t) <= 1 + faults

\* What a worker has in hand: a task whose message was sent, a run that has begun.
JobOK(w) ==
  ~At(w, "idle") =>
    /\ TaskOf(w) \in Tasks /\ message[TaskOf(w)] # "unsent"
    /\ worker[w].phase \in Working =>
         task[TaskOf(w)] # None /\ worker[w].attempt \in 1..Starts(TaskOf(w))
    /\ worker[w].phase \in Working \ {"running"} => worker[w].status \in {"completed", "failed"}
    /\ worker[w].phase \in {"running", "deciding", "sending"} => Fresh(RunOf(w))

\* Two workers may have one task; they never have one run.
JobsOK ==
  /\ \A w \in Workers : JobOK(w)
  /\ \A w, v \in Workers :
       worker[w].phase \in Working /\ worker[v].phase \in Working /\ RunOf(w) = RunOf(v) => w = v

\* A creation that has begun has done one of its two halves, in the caller's order.
DispatchOK(t) ==
  /\ dispatch[t] = "new" => message[t] = "unsent" /\ task[t] = None
  /\ dispatch[t] = "half" => IF t \in Manual THEN task[t] = None ELSE message[t] = "unsent"

\* A task whose message never came back while a worker had it: one worker has it
\* at a time, the message is its, and the row speaks of the last run.
Undisturbed(t) ==
  /\ \A w \in Workers : Holds(w, t) =>
       /\ message[t] = "delivered"
       /\ worker[w].phase \in Working \ {"saved"} =>
            task[t] = "in_progress" /\ worker[w].attempt = Starts(t)
       /\ At(w, "saved") => task[t] \in {"completed", "failed"}
  /\ \A w, v \in Workers : Holds(w, t) /\ Holds(v, t) => w = v
  /\ task[t] = "in_progress" => message[t] \in {"queued", "delivered", "failed"}
  /\ task[t] \in {"in_progress", "completed", "failed"} =>
       /\ Starts(t) > 0
       /\ \A r \in runs : r.id = <<t, Starts(t)>> =>
            r.status = IF task[t] = "in_progress" THEN "running" ELSE task[t]

DispatchesOK == \A t \in Tasks : DispatchOK(t)
RowsOK == \A t \in Tasks \ expired : Undisturbed(t)

\* All that is known of the queue and its workers.
TasksInv ==
  /\ TasksTypeOK
  /\ RunsNumbered
  /\ DeliveriesBounded
  /\ JobsOK
  /\ DispatchesOK
  /\ RowsOK
  /\ SentOrAsked

\* Requests that have checked a draft, and those about to resolve it.
AtWork(phase, d) == {q \in Requests : decision[q].phase = phase /\ decision[q].draft = d}

\* What a request has read, and that a mail has left before an approval is saved.
DecisionOK(q) ==
  /\ decision[q].phase = "idle" <=> decision[q] = NoDecision
  /\ decision[q].phase # "idle" =>
       /\ decision[q].draft \in RunIds /\ drafts[decision[q].draft] # None
       /\ decision[q].verdict \in {"approved", "rejected"}
  /\ decision[q].phase = "resolving" /\ decision[q].verdict = "approved" =>
       replies[decision[q].draft] > 0

\* The mails of an open draft come from requests about to resolve it and from
\* faults; once it is resolved, only the requests that checked it before may add one.
DraftOK(d) ==
  /\ drafts[d] = None => replies[d] = 0
  /\ drafts[d] = "approved" => replies[d] > 0
  /\ drafts[d] = "pending" => replies[d] <= faults + Cardinality(AtWork("resolving", d))
  /\ drafts[d] \in {"approved", "rejected"} =>
       replies[d] + Cardinality(AtWork("checked", d)) <= faults + Cardinality(Requests)

\* All that is known of the queue and of the inbox.
DeskInv ==
  /\ TasksInv
  /\ decision \in [Requests -> Decision]
  /\ replies \in [RunIds -> Nat]
  /\ \A q \in Requests : DecisionOK(q)
  /\ \A d \in RunIds : DraftOK(d)

-----------------------------------------------------------------------------
(* Counting. *)

\* A set whose members are numbered from 1 to n has n of them.
LEMMA NumberedCount ==
  ASSUME NEW R, NEW n \in Nat,
         \A r \in R : r.id[2] \in 1..n,
         \A k \in 1..n : \E r \in R : r.id[2] = k,
         \A r, q \in R : r.id[2] = q.id[2] => r = q
  PROVE  IsFiniteSet(R) /\ Cardinality(R) = n
<1> DEFINE f == [k \in 1..n |-> CHOOSE r \in R : r.id[2] = k]
<1>1. \A k \in 1..n : f[k] \in R /\ f[k].id[2] = k
  OBVIOUS
<1>2. f \in Bijection(1..n, R)
  <2>1. f \in [1..n -> R]
    BY <1>1
  <2>2. \A a, b \in 1..n : f[a] = f[b] => a = b
    BY <1>1
  <2>3. \A r \in R : \E k \in 1..n : f[k] = r
    BY <1>1
  <2>4. QED
    BY <2>1, <2>2, <2>3 DEF Bijection, Injection, Surjection, IsInjective
<1>3. ExistsBijection(1..n, R)
  BY <1>2 DEF ExistsBijection
<1>4. IsFiniteSet(R)
  BY <1>3, FS_NatBijection
<1>5. QED
  BY <1>3, <1>4, FS_CountingElements

\* Runs and counts that a step leaves alone.
LEMMA StartsTyped ==
  ASSUME RunsNumbered, NEW t \in Tasks
  PROVE  Starts(t) \in Nat
BY FS_CardinalityType DEF RunsNumbered, Starts

LEMMA StartsKept ==
  ASSUME runs' = runs, NEW t
  PROVE  RunsOf(t)' = RunsOf(t) /\ Starts(t)' = Starts(t)
BY DEF RunsOf, Starts

\* What handing a worker another job makes of those about to start a task.
LEMMA TakersAfter ==
  ASSUME worker \in [Workers -> Job], NEW w \in Workers, NEW job,
         worker' = [worker EXCEPT ![w] = job],
         NEW t, IsFiniteSet(Takers(t))
  PROVE  /\ IsFiniteSet(Takers(t)')
         /\ Cardinality(Takers(t)) \in Nat /\ Cardinality(Takers(t)') \in Nat
         /\ w \in Takers(t) => Cardinality(Takers(t)) > 0
         /\ Cardinality(Takers(t)') =
              IF job.phase = "taken" /\ job.task = t
              THEN IF w \in Takers(t) THEN Cardinality(Takers(t)) ELSE Cardinality(Takers(t)) + 1
              ELSE IF w \in Takers(t) THEN Cardinality(Takers(t)) - 1 ELSE Cardinality(Takers(t))
<1>1. Takers(t)' = IF job.phase = "taken" /\ job.task = t THEN Takers(t) \union {w} ELSE Takers(t) \ {w}
  BY DEF Takers, At, TaskOf
<1>2. Cardinality(Takers(t)) \in Nat /\ (w \in Takers(t) => Cardinality(Takers(t)) > 0)
  BY FS_CardinalityType, FS_EmptySet
<1>3. CASE job.phase = "taken" /\ job.task = t
  <2>1. PICK S : S = Takers(t)
    OBVIOUS
  <2>2. Takers(t)' = S \union {w}
    BY <1>1, <1>3, <2>1
  <2>3. w \in S => S \union {w} = S
    OBVIOUS
  <2>4. IsFiniteSet(S \union {w})
        /\ Cardinality(S \union {w}) = IF w \in S THEN Cardinality(S) ELSE Cardinality(S) + 1
    BY <2>1, FS_AddElement
  <2>5. QED
    BY <1>2, <1>3, <2>1, <2>2, <2>4
<1>4. CASE ~(job.phase = "taken" /\ job.task = t)
  <2>1. PICK S : S = Takers(t)
    OBVIOUS
  <2>2. Takers(t)' = S \ {w}
    BY <1>1, <1>4, <2>1
  <2>3. IsFiniteSet(S \ {w})
        /\ Cardinality(S \ {w}) = IF w \in S THEN Cardinality(S) - 1 ELSE Cardinality(S)
    BY <2>1, FS_RemoveElement
  <2>4. QED
    BY <1>2, <1>4, <2>1, <2>2, <2>3
<1>5. QED
  BY <1>3, <1>4

LEMMA TakersKept ==
  ASSUME worker' = worker, NEW t
  PROVE  Takers(t)' = Takers(t)
BY DEF Takers, At, TaskOf

LEMMA RunsNumberedKept ==
  ASSUME RunsNumbered, runs' = runs, mails' = mails, drafts' = drafts
  PROVE  RunsNumbered'
<1>1. \A t \in Tasks : RunsOf(t)' = RunsOf(t) /\ Starts(t)' = Starts(t)
  BY DEF RunsOf, Starts
<1>2. \A r : Fresh(r)' <=> Fresh(r)
  BY DEF Fresh
<1>3. QED
  BY <1>1, <1>2 DEF RunsNumbered

LEMMA UndisturbedKept ==
  ASSUME NEW t \in Tasks, Undisturbed(t), runs' = runs, worker' = worker,
         task'[t] = task[t], message'[t] = message[t]
  PROVE  Undisturbed(t)'
BY StartsKept DEF Undisturbed, Holds, At, TaskOf

\* A worker's step on one task leaves what is said of the others.
LEMMA UndisturbedElsewhere ==
  ASSUME TasksTypeOK, NEW t \in Tasks, Undisturbed(t),
         NEW w \in Workers, NEW job, worker' = [worker EXCEPT ![w] = job],
         At(w, "idle") \/ TaskOf(w) # t, job.phase = "idle" \/ job.task # t,
         RunsOf(t)' = RunsOf(t), task'[t] = task[t], message'[t] = message[t]
  PROVE  Undisturbed(t)'
<1>1. \A v \in Workers : Holds(v, t)' <=> Holds(v, t)
  BY DEF Holds, At, TaskOf, TasksTypeOK
<1>2. \A v \in Workers : Holds(v, t) => worker'[v] = worker[v]
  BY DEF Holds, At, TaskOf, TasksTypeOK
<1>3. Starts(t)' = Starts(t)
  BY DEF Starts
<1>4. \A r \in runs' : r.id = <<t, Starts(t)>> => r \in runs
  BY DEF RunsOf
<1>5. \A v \in Workers : Holds(v, t) => (At(v, "saved")' <=> At(v, "saved"))
  BY <1>2 DEF At
<1>6. QED
  BY <1>1, <1>2, <1>3, <1>4, <1>5 DEF Undisturbed

-----------------------------------------------------------------------------
(* Every action of the task queue. *)

LEMMA DispatchKeepsTasks ==
  ASSUME TasksInv, NEW t \in Tasks, CreateTask(t) \/ FinishDispatch(t)
  PROVE  TasksInv'
<1> USE DEF TasksInv
<1>0. /\ UNCHANGED <<runs, drafts, worker, mails, faults, expired>>
      /\ \A u \in Tasks : u # t => task'[u] = task[u] /\ message'[u] = message[u] /\ dispatch'[u] = dispatch[u]
      /\ \/ task[t] = None /\ task'[t] = "pending" /\ message'[t] = message[t]
         \/ message[t] = "unsent" /\ message'[t] = "queued" /\ task'[t] = task[t]
  BY DEF CreateTask, FinishDispatch, Commits, Enqueues, DispatchesOK, DispatchOK, TasksTypeOK
<1>1. TasksTypeOK'
  BY DEF CreateTask, FinishDispatch, Commits, Enqueues, TasksTypeOK
<1>2. RunsNumbered'
  BY <1>0, RunsNumberedKept
<1>3. DeliveriesBounded'
  <2>1. \A u \in Tasks : InQueue(u)' = InQueue(u)
    BY <1>0 DEF InQueue
  <2>2. QED
    BY <1>0, <2>1, StartsKept, TakersKept DEF DeliveriesBounded
<1>4. JobsOK'
  <2>1. \A u \in Tasks : (message[u] # "unsent" => message'[u] # "unsent")
                         /\ (task[u] # None => task'[u] # None)
    BY <1>0
  <2>2. \A r : Fresh(r)' <=> Fresh(r)
    BY <1>0 DEF Fresh
  <2>3. QED
    BY <1>0, <2>1, <2>2, StartsKept DEF JobsOK, JobOK, At, TaskOf, RunOf
<1>5. DispatchesOK'
  BY <1>0 DEF DispatchesOK, DispatchOK, CreateTask, FinishDispatch, TasksTypeOK, Commits, Enqueues
<1>6. RowsOK'
  <2> SUFFICES ASSUME NEW u \in Tasks, u \notin expired PROVE Undisturbed(u)'
    BY <1>0 DEF RowsOK
  <2>1. Undisturbed(u)
    BY DEF RowsOK
  <2>2. CASE u # t
    BY <1>0, <2>1, <2>2, UndisturbedKept
  <2>3. CASE u = t
    <3>1. \A w \in Workers : Holds(w, t) => message[t] # "unsent"
      BY DEF Holds, JobsOK, JobOK
    <3>2. QED
      BY <1>0, <2>1, <2>3, <3>1, StartsKept, NoRowAssumption DEF Undisturbed, Holds, At, TaskOf, Working
  <2>4. QED
    BY <2>2, <2>3
<1>7. SentOrAsked'
  BY <1>0 DEF SentOrAsked
<1>8. QED
  BY <1>1, <1>2, <1>3, <1>4, <1>5, <1>6, <1>7

LEMMA DispatchFailsKeepsTasks ==
  ASSUME TasksInv, NEW t \in Tasks, DispatchFails(t)
  PROVE  TasksInv'
<1> USE DEF TasksInv
<1>0. /\ UNCHANGED <<task, runs, drafts, message, worker, mails, expired>>
      /\ faults' = faults + 1 /\ faults' \in 0..MaxFaults
  BY BoundsAssumption DEF DispatchFails, TasksTypeOK
<1>1. TasksTypeOK'
  BY <1>0 DEF DispatchFails, TasksTypeOK
<1>2. RunsNumbered'
  BY <1>0, RunsNumberedKept
<1>3. DeliveriesBounded'
  BY <1>0, StartsKept, TakersKept, StartsTyped, FS_CardinalityType
     DEF DeliveriesBounded, InQueue, TasksTypeOK
<1>4. JobsOK'
  BY <1>0, StartsKept DEF JobsOK, JobOK, At, TaskOf, RunOf, Fresh
<1>5. DispatchesOK'
  BY <1>0 DEF DispatchesOK, DispatchOK, DispatchFails, TasksTypeOK
<1>6. RowsOK'
  BY <1>0, UndisturbedKept DEF RowsOK
<1>7. SentOrAsked'
  BY <1>0 DEF SentOrAsked
<1>8. QED
  BY <1>1, <1>2, <1>3, <1>4, <1>5, <1>6, <1>7

\* The fault pays for the delivery that comes back.
LEMMA ExpireKeepsTasks ==
  ASSUME TasksInv, NEW t \in Tasks, Expire(t)
  PROVE  TasksInv'
<1> USE DEF TasksInv
<1>0. /\ UNCHANGED <<task, runs, drafts, dispatch, worker, mails>>
      /\ faults' = faults + 1 /\ faults' \in 0..MaxFaults
      /\ expired' = expired \union {t}
      /\ message[t] = "delivered" /\ message' = [message EXCEPT ![t] = "queued"]
  BY BoundsAssumption DEF Expire, PutBack, TasksTypeOK
<1>1. TasksTypeOK'
  BY <1>0 DEF TasksTypeOK
<1>2. RunsNumbered'
  BY <1>0, RunsNumberedKept
<1>3. DeliveriesBounded'
  <2>1. \A u \in Tasks : InQueue(u)' <= InQueue(u) + 1 /\ InQueue(u) \in Nat /\ InQueue(u)' \in Nat
    BY <1>0 DEF InQueue, TasksTypeOK
  <2>2. \A u \in Tasks : Cardinality(Takers(u)) \in Nat /\ Takers(u)' = Takers(u) /\ IsFiniteSet(Takers(u))
    BY <1>0, TakersKept, FS_CardinalityType DEF DeliveriesBounded
  <2>3. QED
    BY <1>0, <2>1, <2>2, StartsKept, StartsTyped DEF DeliveriesBounded, TasksTypeOK
<1>4. JobsOK'
  <2>1. \A u \in Tasks : message[u] # "unsent" => message'[u] # "unsent"
    BY <1>0 DEF TasksTypeOK
  <2>2. QED
    BY <1>0, <2>1, StartsKept DEF JobsOK, JobOK, At, TaskOf, RunOf, Fresh
<1>5. DispatchesOK'
  BY <1>0 DEF DispatchesOK, DispatchOK, TasksTypeOK
<1>6. RowsOK'
  <2> SUFFICES ASSUME NEW u \in Tasks, u \notin expired, u # t PROVE Undisturbed(u)'
    BY <1>0 DEF RowsOK
  <2>1. Undisturbed(u) /\ message'[u] = message[u]
    BY <1>0 DEF RowsOK, TasksTypeOK
  <2>2. QED
    BY <1>0, <2>1, UndisturbedKept
<1>7. SentOrAsked'
  BY <1>0 DEF SentOrAsked
<1>8. QED
  BY <1>1, <1>2, <1>3, <1>4, <1>5, <1>6, <1>7

LEMMA IdleIsJob ==
  Idle \in Job /\ Idle.task = None /\ Idle.phase = "idle"
BY BoundsAssumption DEF Idle, Job

LEMMA JobTyped ==
  ASSUME NEW i \in Job, NEW t \in Tasks
  PROVE  [i EXCEPT !.task = t, !.phase = "taken"] \in Job
BY DEF Job

LEMMA TakeKeepsTasks ==
  ASSUME TasksInv, NEW w \in Workers, NEW t \in Tasks, Take(w, t)
  PROVE  TasksInv'
<1> USE DEF TasksInv
<1>0. PICK job : job = [Idle EXCEPT !.task = t, !.phase = "taken"]
  OBVIOUS
<1>a. /\ UNCHANGED <<task, runs, drafts, dispatch, mails, faults, expired>>
      /\ At(w, "idle") /\ message[t] = "queued" /\ message' = [message EXCEPT ![t] = "delivered"]
      /\ worker' = [worker EXCEPT ![w] = job]
      /\ job.phase = "taken" /\ job.task = t
  BY <1>0 DEF Take, Set, Idle
<1>c. job \in Job
  BY <1>0, IdleIsJob, JobTyped
<1>b. worker'[w] = job /\ \A v \in Workers : v # w => worker'[v] = worker[v]
  BY <1>a DEF TasksTypeOK
<1>1. TasksTypeOK'
  BY <1>a, <1>c DEF TasksTypeOK
<1>2. RunsNumbered'
  BY <1>a, RunsNumberedKept
<1>3. DeliveriesBounded'
  <2> SUFFICES ASSUME NEW u \in Tasks
               PROVE  /\ IsFiniteSet(Takers(u)')
                      /\ Starts(u)' + Cardinality(Takers(u)') + InQueue(u)' <= 1 + faults'
    BY DEF DeliveriesBounded
  <2>1. IsFiniteSet(Takers(u)) /\ Starts(u) + Cardinality(Takers(u)) + InQueue(u) <= 1 + faults
    BY DEF DeliveriesBounded
  <2>2. w \notin Takers(u)
    BY <1>a DEF Takers, At
  <2>3. IsFiniteSet(Takers(u)')
        /\ Cardinality(Takers(u)) \in Nat /\ Cardinality(Takers(u)') \in Nat
        /\ Cardinality(Takers(u)') = IF u = t THEN Cardinality(Takers(u)) + 1 ELSE Cardinality(Takers(u))
    BY <1>a, <2>1, <2>2, TakersAfter DEF TasksTypeOK
  <2>4. InQueue(u)' = IF u = t THEN InQueue(u) - 1 ELSE InQueue(u)
    BY <1>a DEF InQueue, TasksTypeOK
  <2>5. InQueue(u) \in Nat /\ Starts(u)' = Starts(u) /\ Starts(u) \in Nat /\ faults' = faults
    BY <1>a, StartsKept, StartsTyped DEF InQueue
  <2>6. QED
    BY <2>1, <2>3, <2>4, <2>5 DEF TasksTypeOK
<1>4. JobsOK'
  <2>1. \A u \in Tasks : message[u] # "unsent" => message'[u] # "unsent"
    BY <1>a DEF TasksTypeOK
  <2>2. message'[t] # "unsent"
    BY <1>a DEF TasksTypeOK
  <2>3. \A v \in Workers : JobOK(v)'
    BY <1>a, <1>b, <2>1, <2>2, StartsKept DEF JobsOK, JobOK, At, TaskOf, RunOf, Fresh, Working
  <2>4. QED
    BY <1>a, <1>b, <2>3 DEF JobsOK, TaskOf, RunOf, Working
<1>5. DispatchesOK'
  BY <1>a DEF DispatchesOK, DispatchOK, TasksTypeOK
<1>6. RowsOK'
  <2> SUFFICES ASSUME NEW u \in Tasks, u \notin expired PROVE Undisturbed(u)'
    BY <1>a DEF RowsOK
  <2>1. Undisturbed(u)
    BY DEF RowsOK
  <2>2. CASE u # t
    <3>1. message'[u] = message[u] /\ RunsOf(u)' = RunsOf(u)
      BY <1>a, <2>2 DEF TasksTypeOK, RunsOf
    <3>2. QED
      BY <1>a, <2>1, <2>2, <3>1, UndisturbedElsewhere
  <2>3. CASE u = t
    <3>1. \A v \in Workers : ~Holds(v, t)
      BY <1>a, <2>1, <2>3 DEF Undisturbed
    <3>2. \A v \in Workers : Holds(v, t)' => v = w
      BY <1>b, <3>1 DEF Holds, At, TaskOf
    <3>3. At(w, "taken")' /\ ~At(w, "saved")' /\ worker'[w].phase \notin Working \ {"saved"}
      BY <1>a, <1>b DEF At, Working
    <3>4. message'[t] = "delivered"
      BY <1>a DEF TasksTypeOK
    <3>5. QED
      BY <1>a, <2>1, <2>3, <3>2, <3>3, <3>4, StartsKept DEF Undisturbed
  <2>4. QED
    BY <2>2, <2>3
<1>7. SentOrAsked'
  BY <1>a DEF SentOrAsked
<1>8. QED
  BY <1>1, <1>2, <1>3, <1>4, <1>5, <1>6, <1>7

\* A worker lets go of its task: the message is acknowledged, stays where somebody
\* else's is, or goes back to the queue at the cost of a fault.
LEMMA ReleaseKeepsTasks ==
  ASSUME TasksInv, NEW w \in Workers, NEW t, t = TaskOf(w), ~At(w, "idle"),
         worker' = [worker EXCEPT ![w] = Idle],
         UNCHANGED <<task, runs, drafts, dispatch, mails, expired>>,
         faults' \in 0..MaxFaults,
         NEW m, message' = [message EXCEPT ![t] = m],
         \/ m = message[t] /\ faults' >= faults
         \/ m \in {"acked", "failed"} /\ faults' >= faults
         \/ m = "queued" /\ message[t] = "delivered" /\ faults' = faults + 1,
         task[t] = "in_progress" /\ t \notin expired => m \in {"queued", "delivered", "failed"}
  PROVE  TasksInv'
<1> USE DEF TasksInv
<1>a. t \in Tasks /\ message[t] # "unsent" /\ m # "unsent"
      /\ m \in {"queued", "delivered", "acked", "failed"}
  BY DEF JobsOK, JobOK, TasksTypeOK
<1>b. worker'[w] = Idle /\ (\A v \in Workers : v # w => worker'[v] = worker[v])
      /\ message'[t] = m /\ \A u \in Tasks : u # t => message'[u] = message[u]
  BY <1>a DEF TasksTypeOK
<1>c. At(w, "idle")' /\ worker'[w].phase \notin Working
  BY <1>b, IdleIsJob DEF At, Working
<1>1. TasksTypeOK'
  BY <1>a, IdleIsJob DEF TasksTypeOK
<1>2. RunsNumbered'
  BY RunsNumberedKept
<1>3. DeliveriesBounded'
  <2> SUFFICES ASSUME NEW u \in Tasks
               PROVE  /\ IsFiniteSet(Takers(u)')
                      /\ Starts(u)' + Cardinality(Takers(u)') + InQueue(u)' <= 1 + faults'
    BY DEF DeliveriesBounded
  <2>1. IsFiniteSet(Takers(u)) /\ Starts(u) + Cardinality(Takers(u)) + InQueue(u) <= 1 + faults
    BY DEF DeliveriesBounded
  <2>2. PICK job : job = Idle
    OBVIOUS
  <2>3. worker' = [worker EXCEPT ![w] = job] /\ job.phase # "taken"
    BY <2>2, IdleIsJob
  <2>4. IsFiniteSet(Takers(u)')
        /\ Cardinality(Takers(u)) \in Nat /\ Cardinality(Takers(u)') \in Nat
        /\ Cardinality(Takers(u)') <= Cardinality(Takers(u))
    <3>1. worker \in [Workers -> Job]
      BY DEF TasksTypeOK
    <3>2. /\ IsFiniteSet(Takers(u)')
          /\ Cardinality(Takers(u)) \in Nat /\ Cardinality(Takers(u)') \in Nat
          /\ Cardinality(Takers(u)') =
               IF w \in Takers(u) THEN Cardinality(Takers(u)) - 1 ELSE Cardinality(Takers(u))
      BY <2>1, <2>3, <3>1, TakersAfter
    <3>3. QED
      BY <3>2
  <2>5. InQueue(u)' + faults <= InQueue(u) + faults'
    <3>1. faults \in Nat /\ faults' \in Nat /\ faults' >= faults
      BY DEF TasksTypeOK
    <3>t. InQueue(u) \in Nat /\ InQueue(u)' \in Nat
      BY DEF InQueue
    <3>2. CASE u # t
      <4>1. InQueue(u)' = InQueue(u)
        BY <1>b, <3>2 DEF InQueue
      <4>2. QED
        BY <3>1, <3>t, <4>1
    <3>3. CASE u = t /\ m = "queued" /\ message[t] = "delivered" /\ faults' = faults + 1
      BY <1>b, <3>1, <3>3 DEF InQueue
    <3>4. CASE u = t /\ m \in {message[t], "acked", "failed"}
      <4>1. m # "unsent" /\ message[t] # "unsent" /\ message'[u] = m
        BY <1>a, <1>b, <3>4
      <4>2. InQueue(u)' = 0 \/ InQueue(u)' = InQueue(u)
        BY <3>4, <4>1 DEF InQueue
      <4>3. QED
        BY <3>1, <3>t, <4>2
    <3>5. QED
      BY <3>2, <3>3, <3>4
  <2>6. InQueue(u) \in Nat /\ InQueue(u)' \in Nat /\ Starts(u)' = Starts(u) /\ Starts(u) \in Nat
    BY StartsKept, StartsTyped DEF InQueue
  <2>7. QED
    BY <2>1, <2>4, <2>5, <2>6 DEF TasksTypeOK
<1>4. JobsOK'
  <2>1. \A u \in Tasks : message[u] # "unsent" => message'[u] # "unsent"
    BY <1>a, <1>b
  <2>2. \A v \in Workers : JobOK(v)'
    BY <1>b, <1>c, <2>1, StartsKept DEF JobsOK, JobOK, At, TaskOf, RunOf, Fresh
  <2>3. QED
    BY <1>b, <1>c, <2>2 DEF JobsOK, TaskOf, RunOf
<1>5. DispatchesOK'
  BY <1>a, <1>b DEF DispatchesOK, DispatchOK
<1>6. RowsOK'
  <2> SUFFICES ASSUME NEW u \in Tasks, u \notin expired PROVE Undisturbed(u)'
    BY DEF RowsOK
  <2>1. Undisturbed(u)
    BY DEF RowsOK
  <2>2. CASE u # t
    <3>1. message'[u] = message[u] /\ RunsOf(u)' = RunsOf(u)
      BY <1>b, <2>2 DEF RunsOf
    <3>2. PICK job : job = Idle
      OBVIOUS
    <3>3. worker' = [worker EXCEPT ![w] = job] /\ job.phase = "idle"
      BY <3>2, IdleIsJob
    <3>4. QED
      BY <2>1, <2>2, <3>1, <3>3, UndisturbedElsewhere
  <2>3. CASE u = t
    <3>1. \A v \in Workers : Holds(v, t) => v = w
      BY <2>1, <2>3 DEF Undisturbed, Holds
    <3>2. \A v \in Workers : ~Holds(v, t)'
      BY <1>b, <1>c, <3>1 DEF Holds, At, TaskOf
    <3>3. QED
      BY <1>b, <2>1, <2>3, <3>2, StartsKept DEF Undisturbed
  <2>4. QED
    BY <2>2, <2>3
<1>7. SentOrAsked'
  BY DEF SentOrAsked
<1>8. QED
  BY <1>1, <1>2, <1>3, <1>4, <1>5, <1>6, <1>7

\* The message after an acknowledgement.
LEMMA AcknowledgeMessage ==
  ASSUME TasksTypeOK, NEW w \in Workers, TaskOf(w) \in Tasks, NEW result \in {"acked", "failed"},
         Acknowledge(w, result)
  PROVE  \E m : /\ message' = [message EXCEPT ![TaskOf(w)] = m]
                /\ m = IF message[TaskOf(w)] = "queued" THEN "queued" ELSE result
BY DEF Acknowledge, TasksTypeOK

LEMMA ReleasesKeepTasks ==
  ASSUME TasksInv, NEW w \in Workers,
         SkipMissing(w) \/ Return(w) \/ Abort(w) \/ LoseWorker(w)
  PROVE  TasksInv'
<1> USE DEF TasksInv
<1>0. PICK t : t = TaskOf(w)
  OBVIOUS
<1>1. ~At(w, "idle")
  BY DEF SkipMissing, Return, Abort, LoseWorker, At
<1>2. t \in Tasks
  BY <1>0, <1>1 DEF JobsOK, JobOK
<1>3. CASE SkipMissing(w) \/ Return(w)
  <2>1. Acknowledge(w, "acked") /\ UNCHANGED <<task, runs, drafts, dispatch, mails, faults, expired>>
    BY <1>3 DEF SkipMissing, Return
  <2>2. PICK m : /\ message' = [message EXCEPT ![t] = m]
                 /\ m = IF message[t] = "queued" THEN "queued" ELSE "acked"
    BY <1>0, <1>2, <2>1, AcknowledgeMessage
  <2>3. worker' = [worker EXCEPT ![w] = Idle]
    BY <2>1 DEF Acknowledge, Set
  <2>4. t \notin expired => task[t] # "in_progress"
    BY <1>0, <1>1, <1>2, <1>3, NoRowAssumption
       DEF SkipMissing, Return, RowsOK, Undisturbed, Holds, At
  <2>5. faults' \in 0..MaxFaults /\ faults' >= faults
    BY <2>1 DEF TasksTypeOK
  <2>6. QED
    BY <1>0, <1>1, <2>1, <2>2, <2>3, <2>4, <2>5, ReleaseKeepsTasks
<1>4. CASE Abort(w)
  <2>1. Acknowledge(w, "failed") /\ UNCHANGED <<task, runs, drafts, dispatch, mails, expired>>
    BY <1>4 DEF Abort
  <2>2. PICK m : /\ message' = [message EXCEPT ![t] = m]
                 /\ m = IF message[t] = "queued" THEN "queued" ELSE "failed"
    BY <1>0, <1>2, <2>1, AcknowledgeMessage
  <2>3. worker' = [worker EXCEPT ![w] = Idle]
    BY <2>1 DEF Acknowledge, Set
  <2>5. faults' \in 0..MaxFaults /\ faults' >= faults
    BY <1>4, BoundsAssumption DEF Abort, TasksTypeOK
  <2>6. QED
    BY <1>0, <1>1, <2>1, <2>2, <2>3, <2>5, ReleaseKeepsTasks
<1>5. CASE LoseWorker(w)
  <2>1. PutBack(t) /\ UNCHANGED <<task, runs, drafts, dispatch, mails, expired>>
    BY <1>0, <1>5 DEF LoseWorker
  <2>2. PICK m : /\ message' = [message EXCEPT ![t] = m]
                 /\ m = IF message[t] = "delivered" THEN "queued" ELSE message[t]
    BY <1>2, <2>1 DEF PutBack, TasksTypeOK
  <2>3. worker' = [worker EXCEPT ![w] = Idle]
    BY <1>5 DEF LoseWorker, Set
  <2>4. t \notin expired => message[t] = "delivered"
    BY <1>0, <1>1, <1>2 DEF RowsOK, Undisturbed, Holds
  <2>5. faults' \in 0..MaxFaults /\ faults' = faults + 1 /\ faults' >= faults
    BY <1>5, BoundsAssumption DEF LoseWorker, TasksTypeOK
  <2>6. QED
    BY <1>0, <1>1, <2>1, <2>2, <2>3, <2>4, <2>5, ReleaseKeepsTasks
<1>6. QED
  BY <1>3, <1>4, <1>5

\* A run that begins: its number is the next one, and within the bound, for the
\* worker was counted among those about to start the task.
LEMMA NextRun ==
  ASSUME TasksInv, NEW w \in Workers, Start(w)
  PROVE  /\ TaskOf(w) \in Tasks /\ task[TaskOf(w)] # None
         /\ Starts(TaskOf(w)) \in Nat /\ Starts(TaskOf(w)) + 1 \in Attempts
         /\ Fresh(<<TaskOf(w), Starts(TaskOf(w)) + 1>>)
<1> USE DEF TasksInv
<1>0. PICK t : t = TaskOf(w)
  OBVIOUS
<1>1. At(w, "taken") /\ task[t] # None
  BY <1>0 DEF Start
<1>2. t \in Tasks
  BY <1>0, <1>1 DEF JobsOK, JobOK, At
<1>3. w \in Takers(t)
  BY <1>0, <1>1 DEF Takers
<1>4. IsFiniteSet(Takers(t)) /\ Starts(t) + Cardinality(Takers(t)) + InQueue(t) <= 1 + faults
  BY <1>2 DEF DeliveriesBounded
<1>5. Cardinality(Takers(t)) \in Nat /\ Cardinality(Takers(t)) > 0
  BY <1>3, <1>4, FS_CardinalityType, FS_EmptySet
<1>6. Starts(t) \in Nat /\ InQueue(t) \in Nat /\ faults \in 0..MaxFaults
  BY <1>2, StartsTyped DEF InQueue, TasksTypeOK
<1>7. Starts(t) + 1 \in Attempts
  BY <1>4, <1>5, <1>6, BoundsAssumption DEF Attempts
<1>8. Fresh(<<t, Starts(t) + 1>>)
  BY <1>2, <1>6, <1>7 DEF RunsNumbered
<1>9. QED
  BY <1>0, <1>1, <1>2, <1>6, <1>7, <1>8

LEMMA StartKeepsTasks ==
  ASSUME TasksInv, NEW w \in Workers, Start(w)
  PROVE  TasksInv'
<1> USE DEF TasksInv
<1>0. PICK t, n, run, job :
        /\ t = TaskOf(w) /\ n = Starts(t) + 1
        /\ run = [id |-> <<t, n>>, status |-> "running", autoSent |-> FALSE]
        /\ job = [worker[w] EXCEPT !.phase = "running", !.attempt = n]
  OBVIOUS
<1>a. /\ At(w, "taken") /\ task' = [task EXCEPT ![t] = "in_progress"]
      /\ runs' = runs \union {run} /\ worker' = [worker EXCEPT ![w] = job]
      /\ UNCHANGED <<drafts, message, dispatch, mails, faults, expired>>
  BY <1>0 DEF Start, Set, Starts, RunsOf
<1>b. /\ t \in Tasks /\ task[t] # None /\ Starts(t) \in Nat /\ n \in Attempts /\ n \in Nat
      /\ Fresh(<<t, n>>)
  BY <1>0, NextRun DEF Attempts
<1>c. job \in Job /\ job.task = t /\ job.phase = "running" /\ job.attempt = n
      /\ job.status = worker[w].status
  <2>1. worker[w] \in Job /\ worker[w].task = t
    BY <1>0 DEF TasksTypeOK, TaskOf
  <2>2. n \in 0..(MaxFaults + 1)
    BY <1>b, BoundsAssumption DEF Attempts
  <2>3. QED
    BY <1>0, <2>1, <2>2 DEF Job
<1>d. run \in Run /\ run.id = <<t, n>> /\ run.id[1] = t /\ run.id[2] = n /\ run.status = "running"
  BY <1>0, <1>b DEF Run, RunIds
<1>e. worker'[w] = job /\ (\A v \in Workers : v # w => worker'[v] = worker[v])
      /\ task'[t] = "in_progress" /\ \A u \in Tasks : u # t => task'[u] = task[u]
  BY <1>a, <1>b DEF TasksTypeOK
<1> HIDE DEF TasksInv
<1>f. RunsOf(t)' = RunsOf(t) \union {run} /\ \A u : u # t => RunsOf(u)' = RunsOf(u)
  BY <1>a, <1>d DEF RunsOf
<1>g. run \notin RunsOf(t) /\ \A r \in runs : r.id # run.id
  <2>1. \A r \in RunsOf(t) : r.id[2] \in 1..Starts(t)
    BY <1>b DEF TasksInv, RunsNumbered
  <2>2. \A r \in RunsOf(t) : r.id # <<t, n>>
    BY <1>0, <1>b, <2>1
  <2>3. QED
    BY <1>d, <2>2 DEF RunsOf
<1>h. IsFiniteSet(RunsOf(t)') /\ Starts(t)' = n /\ \A u : u # t => Starts(u)' = Starts(u)
  <2>1. PICK S : S = RunsOf(t)
    OBVIOUS
  <2>2. IsFiniteSet(S) /\ run \notin S /\ Starts(t) = Cardinality(S)
    BY <1>b, <1>g, <2>1 DEF TasksInv, RunsNumbered, Starts
  <2>3. IsFiniteSet(S \union {run}) /\ Cardinality(S \union {run}) = Cardinality(S) + 1
    BY <2>2, FS_AddElement
  <2>4. RunsOf(t)' = S \union {run}
    BY <1>f, <2>1
  <2>5. QED
    BY <1>0, <1>f, <2>2, <2>3, <2>4 DEF Starts
<1>1. TasksTypeOK'
  <2>1. runs' \subseteq Run
    BY <1>a, <1>d DEF TasksInv, TasksTypeOK
  <2>2. QED
    BY <1>a, <1>b, <1>c, <2>1 DEF TasksInv, TasksTypeOK
<1>2. RunsNumbered'
  <2>1. \A r, q \in runs' : r.id = q.id => r = q
    BY <1>a, <1>g DEF TasksInv, RunsNumbered
  <2>2. \A r : Fresh(r)' <=> Fresh(r)
    BY <1>a DEF Fresh
  <2> SUFFICES ASSUME NEW u \in Tasks
               PROVE  /\ IsFiniteSet(RunsOf(u)')
                      /\ \A r \in RunsOf(u)' : r.id[2] \in 1..Starts(u)'
                      /\ \A k \in 1..Starts(u)' : \E r \in RunsOf(u)' : r.id[2] = k
                      /\ \A k \in Attempts : k > Starts(u)' => Fresh(<<u, k>>)'
    BY <2>1 DEF RunsNumbered
  <2>3. /\ IsFiniteSet(RunsOf(u))
        /\ \A r \in RunsOf(u) : r.id[2] \in 1..Starts(u)
        /\ \A k \in 1..Starts(u) : \E r \in RunsOf(u) : r.id[2] = k
        /\ \A k \in Attempts : k > Starts(u) => Fresh(<<u, k>>)
    BY DEF TasksInv, RunsNumbered
  <2>4. CASE u # t
    BY <1>f, <1>h, <2>2, <2>3, <2>4
  <2>5. CASE u = t
    <3>1. \A r \in RunsOf(t)' : r.id[2] \in 1..n
      BY <1>0, <1>b, <1>d, <1>f, <2>3, <2>5
    <3>2. \A k \in 1..n : k \in 1..Starts(t) \/ k = n
      BY <1>0, <1>b
    <3>3. \A k \in 1..n : \E r \in RunsOf(t)' : r.id[2] = k
      BY <1>d, <1>f, <2>3, <2>5, <3>2
    <3>4. \A k \in Attempts : k > n => k > Starts(t)
      BY <1>0, <1>b DEF Attempts
    <3>5. \A k \in Attempts : k > n => Fresh(<<t, k>>)'
      BY <2>2, <2>3, <2>5, <3>4
    <3>6. QED
      BY <1>h, <2>5, <3>1, <3>3, <3>5
  <2>6. QED
    BY <2>4, <2>5
<1>3. DeliveriesBounded'
  <2> SUFFICES ASSUME NEW u \in Tasks
               PROVE  /\ IsFiniteSet(Takers(u)')
                      /\ Starts(u)' + Cardinality(Takers(u)') + InQueue(u)' <= 1 + faults'
    BY DEF DeliveriesBounded
  <2>1. IsFiniteSet(Takers(u)) /\ Starts(u) + Cardinality(Takers(u)) + InQueue(u) <= 1 + faults
    BY DEF TasksInv, DeliveriesBounded
  <2>2. w \in Takers(u) <=> u = t
    BY <1>0, <1>a DEF Takers
  <2>3. /\ IsFiniteSet(Takers(u)')
        /\ Cardinality(Takers(u)) \in Nat /\ Cardinality(Takers(u)') \in Nat
        /\ Cardinality(Takers(u)') =
             IF w \in Takers(u) THEN Cardinality(Takers(u)) - 1 ELSE Cardinality(Takers(u))
    BY <1>a, <1>c, <2>1, TakersAfter DEF TasksInv, TasksTypeOK
  <2>4. InQueue(u)' = InQueue(u) /\ InQueue(u) \in Nat /\ Starts(u) \in Nat /\ faults' = faults
        /\ Starts(u)' = IF u = t THEN Starts(u) + 1 ELSE Starts(u)
    BY <1>0, <1>a, <1>h, StartsTyped DEF InQueue, TasksInv
  <2>5. QED
    BY <2>1, <2>2, <2>3, <2>4 DEF TasksInv, TasksTypeOK
<1>4. JobsOK'
  <2>1. \A u \in Tasks : \A k \in 1..Starts(u) : k \in 1..Starts(u)'
    BY <1>0, <1>b, <1>h
  <2>t. \A u \in Tasks : task[u] # None => task'[u] # None
    BY <1>e, NoRowAssumption
  <2>2. \A v \in Workers \ {w} : JobOK(v)'
    BY <1>a, <1>e, <2>1, <2>t DEF TasksInv, JobsOK, JobOK, At, TaskOf, RunOf, Fresh
  <2>3. JobOK(w)'
    <3>1. message[t] # "unsent"
      BY <1>0, <1>a DEF TasksInv, JobsOK, JobOK, At
    <3>2. n \in 1..n
      BY <1>0, <1>b
    <3>3. TaskOf(w)' = t /\ RunOf(w)' = <<t, n>> /\ worker'[w].phase = "running" /\ worker'[w].attempt = n
      BY <1>c, <1>e DEF TaskOf, RunOf
    <3>4. Fresh(<<t, n>>)'
      BY <1>a, <1>b DEF Fresh
    <3>5. Fresh(RunOf(w))'
      BY <1>a, <1>b, <3>3 DEF Fresh
    <3>6. Starts(TaskOf(w))' = n
      BY <1>h, <3>3
    <3>7. message'[TaskOf(w)'] # "unsent" /\ TaskOf(w)' \in Tasks /\ task'[TaskOf(w)'] # None
      BY <1>a, <1>b, <1>e, <3>1, <3>3, NoRowAssumption
    <3>8. QED
      BY <3>2, <3>3, <3>5, <3>6, <3>7 DEF JobOK, Working
  <2>4. \A v \in Workers \ {w} : worker'[v].phase \in Working => RunOf(v)' # <<t, n>>
    <3> SUFFICES ASSUME NEW v \in Workers \ {w}, worker[v].phase \in Working, RunOf(v) = <<t, n>>
                 PROVE  FALSE
      BY <1>e DEF RunOf, TaskOf
    <3>1. TaskOf(v) = t /\ worker[v].attempt = n
      BY DEF RunOf
    <3>2. n \in 1..Starts(t)
      BY <3>1 DEF TasksInv, JobsOK, JobOK, At, Working
    <3>3. QED
      BY <1>0, <1>b, <3>2
  <2>5. RunOf(w)' = <<t, n>>
    BY <1>c, <1>e DEF TaskOf, RunOf
  <2>6. \A v \in Workers \ {w} : RunOf(v)' = RunOf(v) /\ worker'[v].phase = worker[v].phase
    BY <1>e DEF RunOf, TaskOf
  <2>7. \A v, x \in Workers :
          worker'[v].phase \in Working /\ worker'[x].phase \in Working /\ RunOf(v)' = RunOf(x)' => v = x
    BY <2>4, <2>5, <2>6 DEF TasksInv, JobsOK
  <2>8. QED
    BY <2>2, <2>3, <2>7 DEF JobsOK
<1>5. DispatchesOK'
  BY <1>a, <1>b, <1>e DEF TasksInv, DispatchesOK, DispatchOK
<1>6. RowsOK'
  <2> SUFFICES ASSUME NEW u \in Tasks, u \notin expired PROVE Undisturbed(u)'
    BY <1>a DEF RowsOK
  <2>1. Undisturbed(u)
    BY DEF TasksInv, RowsOK
  <2>2. CASE u # t
    <3>1. message'[u] = message[u] /\ RunsOf(u)' = RunsOf(u) /\ task'[u] = task[u] /\ TasksTypeOK
      BY <1>a, <1>e, <1>f, <2>2 DEF TasksInv
    <3>2. TaskOf(w) # u /\ job.task # u
      BY <1>0, <1>c, <2>2
    <3>3. QED
      BY <1>a, <2>1, <3>1, <3>2, UndisturbedElsewhere
  <2>3. CASE u = t
    <3>1. Holds(w, t) /\ message[t] = "delivered" /\ \A v \in Workers : Holds(v, t) => v = w
      BY <1>0, <1>a, <2>1, <2>3 DEF Undisturbed, Holds, At
    <3>2. \A v \in Workers : Holds(v, t)' => v = w
      BY <1>e, <3>1 DEF Holds, At, TaskOf
    <3>3. worker'[w].attempt = Starts(t)' /\ ~At(w, "saved")'
      BY <1>c, <1>e, <1>h DEF At
    <3>4. \A r \in runs' : r.id = <<t, n>> => r.status = "running"
      BY <1>a, <1>d, <1>g
    <3>5. Starts(t)' > 0 /\ Starts(t)' = n
      BY <1>0, <1>b, <1>h
    <3>6. QED
      BY <1>a, <1>e, <2>3, <3>1, <3>2, <3>3, <3>4, <3>5 DEF Undisturbed
  <2>4. QED
    BY <2>2, <2>3
<1>7. SentOrAsked'
  BY <1>a DEF TasksInv, SentOrAsked
<1>8. QED
  BY <1>1, <1>2, <1>3, <1>4, <1>5, <1>6, <1>7 DEF TasksInv

\* A step inside a run, before its outcome is saved: only the run's own mail and
\* draft may appear.
LEMMA RunStepKeepsTasks ==
  ASSUME TasksInv, NEW w \in Workers, worker[w].phase \in {"running", "deciding", "sending"},
         NEW job \in Job, worker' = [worker EXCEPT ![w] = job],
         job.task = TaskOf(w), job.attempt = worker[w].attempt,
         job.phase \in {"deciding", "sending", "saving"}, job.status \in {"completed", "failed"},
         UNCHANGED <<task, runs, message, dispatch, expired>>,
         faults' \in 0..MaxFaults, faults' >= faults,
         mails' \subseteq RunIds, drafts' \in [RunIds -> {None, "pending", "approved", "rejected"}],
         \A r \in RunIds : r # RunOf(w) => (Fresh(r)' <=> Fresh(r)),
         job.phase = "saving" \/ UNCHANGED <<mails, drafts>>,
         SentOrAsked'
  PROVE  TasksInv'
<1>0. PICK t, n : t = TaskOf(w) /\ n = worker[w].attempt
  OBVIOUS
<1>a. /\ t \in Tasks /\ message[t] # "unsent" /\ task[t] # None /\ n \in 1..Starts(t)
      /\ RunOf(w) = <<t, n>> /\ Fresh(RunOf(w))
  BY <1>0 DEF TasksInv, JobsOK, JobOK, At, Working, RunOf
<1>b. worker'[w] = job /\ \A v \in Workers : v # w => worker'[v] = worker[v]
  BY DEF TasksInv, TasksTypeOK
<1>c. /\ RunOf(w)' = RunOf(w) /\ TaskOf(w)' = t
      /\ \A v \in Workers : v # w => RunOf(v)' = RunOf(v) /\ worker'[v].phase = worker[v].phase
  BY <1>0, <1>b DEF RunOf, TaskOf
<1>1. TasksTypeOK'
  BY DEF TasksInv, TasksTypeOK
<1>2. RunsNumbered'
  <2>1. \A u \in Tasks : RunsOf(u)' = RunsOf(u) /\ Starts(u)' = Starts(u)
    BY StartsKept
  <2>2. \A u \in Tasks : \A k \in Attempts : k > Starts(u) => <<u, k>> # <<t, n>> /\ <<u, k>> \in RunIds
    <3>1. Starts(t) \in Nat
      BY <1>a, StartsTyped DEF TasksInv
    <3>2. QED
      BY <1>a, <3>1 DEF RunIds, Attempts
  <2>3. \A u \in Tasks : \A k \in Attempts : k > Starts(u) => Fresh(<<u, k>>)'
    BY <1>a, <2>2 DEF TasksInv, RunsNumbered
  <2>4. QED
    BY <2>1, <2>3 DEF TasksInv, RunsNumbered
<1>3. DeliveriesBounded'
  <2> SUFFICES ASSUME NEW u \in Tasks
               PROVE  /\ IsFiniteSet(Takers(u)')
                      /\ Starts(u)' + Cardinality(Takers(u)') + InQueue(u)' <= 1 + faults'
    BY DEF DeliveriesBounded
  <2>1. IsFiniteSet(Takers(u)) /\ Starts(u) + Cardinality(Takers(u)) + InQueue(u) <= 1 + faults
    BY DEF TasksInv, DeliveriesBounded
  <2>2. w \notin Takers(u)
    BY DEF Takers, At
  <2>3. /\ IsFiniteSet(Takers(u)')
        /\ Cardinality(Takers(u)) \in Nat /\ Cardinality(Takers(u)') = Cardinality(Takers(u))
    BY <2>1, <2>2, TakersAfter DEF TasksInv, TasksTypeOK
  <2>4. InQueue(u)' = InQueue(u) /\ InQueue(u) \in Nat /\ Starts(u)' = Starts(u) /\ Starts(u) \in Nat
    BY StartsKept, StartsTyped DEF InQueue, TasksInv
  <2>5. QED
    BY <2>1, <2>3, <2>4 DEF TasksInv, TasksTypeOK
<1>4. JobsOK'
  <2>1. \A v \in Workers \ {w} : JobOK(v)'
    <3> SUFFICES ASSUME NEW v \in Workers \ {w} PROVE JobOK(v)'
      OBVIOUS
    <3>1. JobOK(v) /\ worker'[v] = worker[v] /\ RunOf(v)' = RunOf(v)
      BY <1>b, <1>c DEF TasksInv, JobsOK
    <3>2. ASSUME worker[v].phase \in {"running", "deciding", "sending"} PROVE Fresh(RunOf(v))'
      <4>1. RunOf(v) # RunOf(w)
        BY <3>2 DEF TasksInv, JobsOK, Working
      <4>2. TaskOf(v) \in Tasks /\ worker[v].attempt \in 1..Starts(TaskOf(v)) /\ Fresh(RunOf(v))
        BY <3>1, <3>2 DEF JobOK, At, Working
      <4>3. RunOf(v) \in RunIds
        <5>1. worker[v].attempt \in 0..(MaxFaults + 1) /\ worker[v].attempt # 0
          BY <4>2, StartsTyped DEF TasksInv, TasksTypeOK, Job
        <5>2. QED
          BY <4>2, <5>1, BoundsAssumption DEF RunOf, RunIds, Attempts
      <4>4. PICK r : r = RunOf(v)
        OBVIOUS
      <4>5. Fresh(r)'
        BY <4>1, <4>2, <4>3, <4>4
      <4>6. QED
        BY <3>1, <4>4, <4>5 DEF Fresh
    <3>3. QED
      BY <3>1, <3>2, StartsKept DEF JobOK, At, TaskOf
  <2>2. JobOK(w)'
    <3>1. Fresh(RunOf(w))' \/ job.phase = "saving"
      BY <1>a, <1>c DEF Fresh
    <3>2. QED
      BY <1>0, <1>a, <1>b, <1>c, <3>1, StartsKept DEF JobOK, At, Working
  <2>3. worker[w].phase \in Working
    BY DEF Working
  <2>4. QED
    BY <1>c, <2>1, <2>2, <2>3 DEF TasksInv, JobsOK
<1>5. DispatchesOK'
  BY DEF TasksInv, DispatchesOK, DispatchOK
<1>6. RowsOK'
  <2> SUFFICES ASSUME NEW u \in Tasks, u \notin expired PROVE Undisturbed(u)'
    BY DEF RowsOK
  <2>1. Undisturbed(u)
    BY DEF TasksInv, RowsOK
  <2>2. CASE u # t
    BY <1>0, <2>1, <2>2, UndisturbedElsewhere DEF TasksInv, RunsOf
  <2>3. CASE u = t
    <3>1. \A v \in Workers : Holds(v, t)' <=> Holds(v, t)
      BY <1>0, <1>b DEF Holds, At, TaskOf
    <3>2. Holds(w, t) /\ task[t] = "in_progress" /\ worker[w].attempt = Starts(t)
      BY <1>0, <2>1, <2>3 DEF Undisturbed, Holds, At, Working
    <3>3. \A v \in Workers : Holds(v, t) => v = w
      BY <2>1, <2>3, <3>2 DEF Undisturbed
    <3>4. ~At(w, "saved")' /\ worker'[w].attempt = worker[w].attempt
      BY <1>b DEF At
    <3>5. QED
      BY <2>1, <2>3, <3>1, <3>2, <3>3, <3>4, StartsKept DEF Undisturbed
  <2>4. QED
    BY <2>2, <2>3
<1>7. QED
  BY <1>1, <1>2, <1>3, <1>4, <1>5, <1>6 DEF TasksInv

LEMMA JobStepTyped ==
  ASSUME NEW i \in Job, NEW phase \in {"running", "deciding", "sending", "saving", "saved"},
         NEW status \in {"completed", "failed"}
  PROVE  /\ [i EXCEPT !.phase = phase] \in Job
         /\ [i EXCEPT !.status = status, !.phase = phase] \in Job
         /\ [i EXCEPT !.phase = phase, !.autoSent = TRUE] \in Job
BY DEF Job

LEMMA RunOfWorking ==
  ASSUME TasksInv, NEW w \in Workers, worker[w].phase \in Working
  PROVE  RunOf(w) \in RunIds /\ TaskOf(w) \in Tasks
<1>1. TaskOf(w) \in Tasks /\ worker[w].attempt \in 1..Starts(TaskOf(w))
  BY DEF TasksInv, JobsOK, JobOK, At, Working
<1>2. worker[w].attempt \in 0..(MaxFaults + 1) /\ worker[w].attempt # 0
  BY <1>1, StartsTyped DEF TasksInv, TasksTypeOK, Job
<1>3. QED
  BY <1>1, <1>2, BoundsAssumption DEF RunOf, RunIds, Attempts

LEMMA RunAgentKeepsTasks ==
  ASSUME TasksInv, NEW w \in Workers, NEW status \in {"completed", "failed"}, RunAgent(w, status)
  PROVE  TasksInv'
<1>1. PICK phase : phase = IF status = "completed" /\ TaskOf(w) \in Support THEN "deciding" ELSE "saving"
  OBVIOUS
<1>2. PICK job : job = [worker[w] EXCEPT !.status = status, !.phase = phase]
  OBVIOUS
<1>3. /\ worker[w].phase = "running" /\ worker' = [worker EXCEPT ![w] = job]
      /\ UNCHANGED <<task, runs, drafts, message, dispatch, mails, faults, expired>>
  BY <1>1, <1>2 DEF RunAgent, Set, At
<1>4. worker[w] \in Job /\ phase \in {"deciding", "saving"}
  BY <1>1 DEF TasksInv, TasksTypeOK
<1>5. job \in Job
  BY <1>2, <1>4, JobStepTyped
<1>6. job.task = TaskOf(w) /\ job.attempt = worker[w].attempt /\ job.phase = phase /\ job.status = status
  BY <1>2, <1>4 DEF Job, TaskOf
<1>7. \A r : Fresh(r)' <=> Fresh(r)
  BY <1>3 DEF Fresh
<1>8. SentOrAsked' /\ faults' \in 0..MaxFaults /\ faults' >= faults
      /\ mails' \subseteq RunIds /\ drafts' \in [RunIds -> {None, "pending", "approved", "rejected"}]
  BY <1>3 DEF TasksInv, SentOrAsked, TasksTypeOK
<1>9. QED
  BY <1>3, <1>4, <1>5, <1>6, <1>7, <1>8, RunStepKeepsTasks

LEMMA DecideKeepsTasks ==
  ASSUME TasksInv, NEW w \in Workers, DecideToSend(w) \/ LeaveDraft(w) \/ DraftForFounder(w)
  PROVE  TasksInv'
<1>1. PICK phase \in {"sending", "saving"} :
        /\ worker' = [worker EXCEPT ![w] = [worker[w] EXCEPT !.phase = phase]]
        /\ drafts' = drafts \/ (phase = "saving" /\ drafts' = [drafts EXCEPT ![RunOf(w)] = "pending"])
  BY DEF DecideToSend, LeaveDraft, DraftForFounder, Set
<1>2. PICK job : job = [worker[w] EXCEPT !.phase = phase]
  OBVIOUS
<1>3. /\ worker[w].phase = "deciding" /\ worker' = [worker EXCEPT ![w] = job]
      /\ UNCHANGED <<task, runs, message, dispatch, mails, faults, expired>>
      /\ drafts' = drafts \/ (phase = "saving" /\ drafts' = [drafts EXCEPT ![RunOf(w)] = "pending"])
  BY <1>1, <1>2 DEF DecideToSend, LeaveDraft, DraftForFounder, At
<1>4. worker[w] \in Job /\ worker[w].phase \in Working
  BY <1>1, <1>3 DEF TasksInv, TasksTypeOK, Working
<1>5. job \in Job
  BY <1>2, <1>4, JobStepTyped
<1>6. job.task = TaskOf(w) /\ job.attempt = worker[w].attempt /\ job.phase = phase
      /\ job.status = worker[w].status
  BY <1>2, <1>4 DEF Job, TaskOf
<1>7. worker[w].status \in {"completed", "failed"} /\ RunOf(w) \notin mails /\ RunOf(w) \in RunIds
  BY <1>3, <1>4, RunOfWorking DEF TasksInv, JobsOK, JobOK, At, Working, Fresh
<1>8. /\ drafts' \in [RunIds -> {None, "pending", "approved", "rejected"}]
      /\ \A r \in RunIds : r # RunOf(w) => drafts'[r] = drafts[r]
  BY <1>3, <1>7 DEF TasksInv, TasksTypeOK
<1>9. \A r \in RunIds : r # RunOf(w) => (Fresh(r)' <=> Fresh(r))
  BY <1>3, <1>8 DEF Fresh
<1>10. SentOrAsked'
  BY <1>3, <1>7, <1>8 DEF TasksInv, SentOrAsked, TasksTypeOK
<1>11. faults' \in 0..MaxFaults /\ faults' >= faults /\ mails' \subseteq RunIds
  BY <1>3 DEF TasksInv, TasksTypeOK
<1>12. QED
  BY <1>3, <1>4, <1>5, <1>6, <1>7, <1>8, <1>9, <1>10, <1>11, RunStepKeepsTasks

\* Nobody has been asked about the run whose reply is being sent.
LEMMA SendKeepsTasks ==
  ASSUME TasksInv, NEW w \in Workers, SendReply(w) \/ SendReplyFails(w)
  PROVE  TasksInv'
<1>2. PICK job \in {[worker[w] EXCEPT !.phase = "saving", !.autoSent = TRUE],
                   [worker[w] EXCEPT !.phase = "saving"]} :
        worker' = [worker EXCEPT ![w] = job]
  BY DEF SendReply, SendReplyFails, Set
<1>3. /\ worker[w].phase = "sending"
      /\ UNCHANGED <<task, runs, drafts, message, dispatch, expired>>
      /\ mails' = mails \/ mails' = mails \union {RunOf(w)}
      /\ faults' = faults \/ (faults < MaxFaults /\ faults' = faults + 1)
  BY DEF SendReply, SendReplyFails, At
<1>4. worker[w] \in Job /\ worker[w].phase \in Working
  BY <1>3 DEF TasksInv, TasksTypeOK, Working
<1>5. job \in Job
  BY <1>2, <1>3, <1>4, JobStepTyped
<1>6. job.task = TaskOf(w) /\ job.attempt = worker[w].attempt /\ job.phase = "saving"
      /\ job.status = worker[w].status
  BY <1>2, <1>4 DEF Job, TaskOf
<1>7. worker[w].status \in {"completed", "failed"} /\ drafts[RunOf(w)] = None /\ RunOf(w) \in RunIds
  BY <1>3, <1>4, RunOfWorking DEF TasksInv, JobsOK, JobOK, At, Working, Fresh
<1>8. \A r \in RunIds : r # RunOf(w) => (Fresh(r)' <=> Fresh(r))
  BY <1>3 DEF Fresh
<1>9. SentOrAsked' /\ mails' \subseteq RunIds
  BY <1>3, <1>7 DEF TasksInv, SentOrAsked, TasksTypeOK
<1>10. faults' \in 0..MaxFaults /\ faults' >= faults
       /\ drafts' \in [RunIds -> {None, "pending", "approved", "rejected"}]
  BY <1>3, BoundsAssumption DEF TasksInv, TasksTypeOK
<1>11. QED
  BY <1>2, <1>3, <1>4, <1>5, <1>6, <1>7, <1>8, <1>9, <1>10, RunStepKeepsTasks

\* Saving rewrites one run in place: no run appears, none goes.
LEMMA SavedRuns ==
  ASSUME TasksInv, NEW w \in Workers, Save(w), NEW t, t = TaskOf(w)
  PROVE  /\ runs' \subseteq Run
         /\ \A r, q \in runs' : r.id = q.id => r = q
         /\ \A u : u # t => RunsOf(u)' = RunsOf(u)
         /\ IsFiniteSet(RunsOf(t)') /\ Starts(t)' = Starts(t)
         /\ \A r \in RunsOf(t)' : r.id[2] \in 1..Starts(t)
         /\ \A k \in 1..Starts(t) : \E r \in RunsOf(t)' : r.id[2] = k
         /\ \A r \in runs' : r.id = RunOf(w) => r.status = worker[w].status
<1>0. PICK n : n = Starts(t)
  OBVIOUS
<1>1. worker[w].phase = "saving" /\ worker[w].phase \in Working /\ runs' = {Saved(r, w) : r \in runs}
  BY DEF Save, At, Working
<1>2. /\ t \in Tasks /\ n \in Nat /\ worker[w] \in Job
      /\ worker[w].status \in {"completed", "failed"}
  BY <1>0, <1>1, RunOfWorking, StartsTyped DEF TasksInv, JobsOK, JobOK, At, Working, TasksTypeOK
<1>3. \A r \in runs : /\ r \in Run /\ Saved(r, w) \in Run /\ Saved(r, w).id = r.id
                      /\ r.id = RunOf(w) => Saved(r, w).status = worker[w].status
                      /\ r.id # RunOf(w) => Saved(r, w) = r
  <2> SUFFICES ASSUME NEW r \in runs
               PROVE  /\ r \in Run /\ Saved(r, w) \in Run /\ Saved(r, w).id = r.id
                      /\ r.id = RunOf(w) => Saved(r, w).status = worker[w].status
                      /\ r.id # RunOf(w) => Saved(r, w) = r
    OBVIOUS
  <2>1. r \in Run
    BY DEF TasksInv, TasksTypeOK
  <2>2. PICK s, a : s = worker[w].status /\ a = worker[w].autoSent
    OBVIOUS
  <2>3. s \in {"completed", "failed"} /\ a \in BOOLEAN
    BY <1>2, <2>2 DEF Job
  <2>4. Saved(r, w) = IF r.id = RunOf(w) THEN [r EXCEPT !.status = s, !.autoSent = a] ELSE r
    BY <2>2 DEF Saved
  <2>5. [r EXCEPT !.status = s, !.autoSent = a] \in Run
        /\ [r EXCEPT !.status = s, !.autoSent = a].id = r.id
        /\ [r EXCEPT !.status = s, !.autoSent = a].status = s
    BY <2>1, <2>3 DEF Run
  <2>6. QED
    BY <2>1, <2>2, <2>4, <2>5
<1>4. \A r \in runs' : \E q \in runs : r = Saved(q, w) /\ r.id = q.id
  BY <1>1, <1>3
<1>5. runs' \subseteq Run
  BY <1>1, <1>3
<1>6. \A r, q \in runs' : r.id = q.id => r = q
  BY <1>4 DEF TasksInv, RunsNumbered
<1>7. \A u : u # t => RunsOf(u)' = RunsOf(u)
  <2> SUFFICES ASSUME NEW u, u # t PROVE RunsOf(u)' = RunsOf(u)
    OBVIOUS
  <2>1. \A r \in runs : r.id[1] = u => Saved(r, w) = r
    BY <1>0, <1>3 DEF RunOf
  <2>2. \A r \in runs' : r.id[1] = u => r \in runs
    BY <1>4, <2>1
  <2>3. \A r \in runs : r.id[1] = u => r \in runs'
    BY <1>1, <2>1
  <2>4. QED
    BY <2>2, <2>3 DEF RunsOf
<1>8. \A r \in RunsOf(t)' : r.id[2] \in 1..n
  <2>1. \A r \in RunsOf(t) : r.id[2] \in 1..n
    BY <1>0, <1>2 DEF TasksInv, RunsNumbered
  <2>2. QED
    BY <1>4, <2>1 DEF RunsOf
<1>9. \A k \in 1..n : \E r \in RunsOf(t)' : r.id[2] = k
  <2>1. \A k \in 1..n : \E r \in RunsOf(t) : r.id[2] = k
    BY <1>0, <1>2 DEF TasksInv, RunsNumbered
  <2>2. \A r \in RunsOf(t) : Saved(r, w) \in RunsOf(t)' /\ Saved(r, w).id = r.id
    BY <1>1, <1>3 DEF RunsOf
  <2>3. QED
    BY <2>1, <2>2
<1>10. \A r, q \in RunsOf(t)' : r.id[2] = q.id[2] => r = q
  <2>1. \A r \in runs' : r.id = <<r.id[1], r.id[2]>>
    BY <1>5 DEF Run, RunIds
  <2>2. QED
    BY <1>6, <2>1 DEF RunsOf
<1>11. IsFiniteSet(RunsOf(t)') /\ Cardinality(RunsOf(t)') = n
  <2>1. PICK R : R = RunsOf(t)'
    OBVIOUS
  <2>2. IsFiniteSet(R) /\ Cardinality(R) = n
    <3>1. (\A r \in R : r.id[2] \in 1..n) /\ (\A k \in 1..n : \E r \in R : r.id[2] = k)
          /\ (\A r, q \in R : r.id[2] = q.id[2] => r = q)
      BY <1>8, <1>9, <1>10, <2>1
    <3>2. QED
      BY <1>2, <3>1, NumberedCount
  <2>3. QED
    BY <2>1, <2>2
<1>12. \A r \in runs' : r.id = RunOf(w) => r.status = worker[w].status
  BY <1>3, <1>4
<1>13. QED
  BY <1>0, <1>5, <1>6, <1>7, <1>8, <1>9, <1>11, <1>12 DEF Starts

LEMMA SaveKeepsTasks ==
  ASSUME TasksInv, NEW w \in Workers, Save(w)
  PROVE  TasksInv'
<1>0. PICK t, n, status, job :
        /\ t = TaskOf(w) /\ n = Starts(t) /\ status = worker[w].status
        /\ job = [worker[w] EXCEPT !.phase = "saved"]
  OBVIOUS
<1>a. /\ worker[w].phase = "saving" /\ worker[w].phase \in Working
      /\ task' = [task EXCEPT ![t] = status] /\ worker' = [worker EXCEPT ![w] = job]
      /\ UNCHANGED <<drafts, message, dispatch, mails, faults, expired>>
  BY <1>0 DEF Save, Set, At, Working
<1>b. /\ t \in Tasks /\ n \in Nat /\ worker[w] \in Job /\ status \in {"completed", "failed"}
      /\ message[t] # "unsent" /\ task[t] # None /\ worker[w].attempt \in 1..n
  BY <1>0, <1>a, StartsTyped DEF TasksInv, JobsOK, JobOK, At, Working, TasksTypeOK
<1>c. job \in Job /\ job.task = t /\ job.attempt = worker[w].attempt /\ job.phase = "saved"
      /\ job.status = status
  <2>1. job \in Job
    BY <1>0, <1>b, JobStepTyped
  <2>2. QED
    BY <1>0, <1>b DEF Job, TaskOf
<1>d. worker'[w] = job /\ (\A v \in Workers : v # w => worker'[v] = worker[v])
      /\ task'[t] = status /\ \A u \in Tasks : u # t => task'[u] = task[u]
  BY <1>a, <1>b DEF TasksInv, TasksTypeOK
<1>e. /\ RunOf(w)' = RunOf(w) /\ TaskOf(w)' = t
      /\ \A v \in Workers : v # w => RunOf(v)' = RunOf(v) /\ worker'[v].phase = worker[v].phase
  BY <1>0, <1>c, <1>d DEF RunOf, TaskOf
<1>f. /\ runs' \subseteq Run
      /\ \A r, q \in runs' : r.id = q.id => r = q
      /\ \A u : u # t => RunsOf(u)' = RunsOf(u)
      /\ IsFiniteSet(RunsOf(t)') /\ Starts(t)' = n
      /\ \A r \in RunsOf(t)' : r.id[2] \in 1..n
      /\ \A k \in 1..n : \E r \in RunsOf(t)' : r.id[2] = k
      /\ \A r \in runs' : r.id = RunOf(w) => r.status = status
  BY <1>0, SavedRuns
<1>g. \A u \in Tasks : Starts(u)' = Starts(u)
  BY <1>0, <1>f DEF Starts
<1>h. \A r : Fresh(r)' <=> Fresh(r)
  BY <1>a DEF Fresh
<1>1. TasksTypeOK'
  BY <1>a, <1>b, <1>c, <1>f DEF TasksInv, TasksTypeOK
<1>2. RunsNumbered'
  <2> SUFFICES ASSUME NEW u \in Tasks
               PROVE  /\ IsFiniteSet(RunsOf(u)')
                      /\ \A r \in RunsOf(u)' : r.id[2] \in 1..Starts(u)'
                      /\ \A k \in 1..Starts(u)' : \E r \in RunsOf(u)' : r.id[2] = k
                      /\ \A k \in Attempts : k > Starts(u)' => Fresh(<<u, k>>)'
    BY <1>f DEF RunsNumbered
  <2>1. /\ IsFiniteSet(RunsOf(u))
        /\ \A r \in RunsOf(u) : r.id[2] \in 1..Starts(u)
        /\ \A k \in 1..Starts(u) : \E r \in RunsOf(u) : r.id[2] = k
        /\ \A k \in Attempts : k > Starts(u) => Fresh(<<u, k>>)
    BY DEF TasksInv, RunsNumbered
  <2>2. CASE u # t
    BY <1>f, <1>g, <1>h, <2>1, <2>2
  <2>3. CASE u = t
    BY <1>0, <1>f, <1>h, <2>1, <2>3
  <2>4. QED
    BY <2>2, <2>3
<1>3. DeliveriesBounded'
  <2> SUFFICES ASSUME NEW u \in Tasks
               PROVE  /\ IsFiniteSet(Takers(u)')
                      /\ Starts(u)' + Cardinality(Takers(u)') + InQueue(u)' <= 1 + faults'
    BY DEF DeliveriesBounded
  <2>1. IsFiniteSet(Takers(u)) /\ Starts(u) + Cardinality(Takers(u)) + InQueue(u) <= 1 + faults
    BY DEF TasksInv, DeliveriesBounded
  <2>2. w \notin Takers(u)
    BY <1>a DEF Takers, At
  <2>3. /\ IsFiniteSet(Takers(u)') /\ Cardinality(Takers(u)') = Cardinality(Takers(u))
    BY <1>a, <1>c, <2>1, <2>2, TakersAfter DEF TasksInv, TasksTypeOK
  <2>4. InQueue(u)' = InQueue(u) /\ Starts(u)' = Starts(u) /\ faults' = faults
    BY <1>a, <1>g DEF InQueue
  <2>5. QED
    BY <2>1, <2>3, <2>4
<1>4. JobsOK'
  <2>1. \A u \in Tasks : task[u] # None => task'[u] # None
    BY <1>b, <1>d, NoRowAssumption
  <2>2. \A v \in Workers \ {w} : JobOK(v)'
    <3> SUFFICES ASSUME NEW v \in Workers \ {w} PROVE JobOK(v)'
      OBVIOUS
    <3>1. JobOK(v) /\ worker'[v] = worker[v] /\ RunOf(v)' = RunOf(v)
      BY <1>d, <1>e DEF TasksInv, JobsOK
    <3>2. QED
      BY <1>a, <1>g, <1>h, <2>1, <3>1 DEF JobOK, At, TaskOf, Fresh
  <2>3. JobOK(w)'
    <3>1. Starts(TaskOf(w))' = n
      BY <1>e, <1>f
    <3>2. QED
      BY <1>a, <1>b, <1>c, <1>d, <1>e, <3>1, NoRowAssumption DEF JobOK, At, Working
  <2>4. QED
    BY <1>a, <1>e, <2>2, <2>3 DEF TasksInv, JobsOK
<1>5. DispatchesOK'
  BY <1>a, <1>b, <1>d DEF TasksInv, DispatchesOK, DispatchOK
<1>6. RowsOK'
  <2> SUFFICES ASSUME NEW u \in Tasks, u \notin expired PROVE Undisturbed(u)'
    BY <1>a DEF RowsOK
  <2>1. Undisturbed(u)
    BY DEF TasksInv, RowsOK
  <2>2. CASE u # t
    <3>1. TasksTypeOK /\ TaskOf(w) # u /\ job.task # u /\ RunsOf(u)' = RunsOf(u)
          /\ task'[u] = task[u] /\ message'[u] = message[u]
      BY <1>0, <1>a, <1>c, <1>d, <1>f, <2>2 DEF TasksInv
    <3>2. QED
      BY <1>a, <2>1, <3>1, UndisturbedElsewhere
  <2>3. CASE u = t
    <3>1. Holds(w, t) /\ message[t] = "delivered" /\ worker[w].attempt = n
      BY <1>0, <1>a, <2>1, <2>3 DEF Undisturbed, Holds, At, Working
    <3>2. \A v \in Workers : Holds(v, t)' => v = w
      BY <1>d, <2>1, <2>3, <3>1 DEF Undisturbed, Holds, At, TaskOf
    <3>3. worker'[w].phase = "saved" /\ task'[t] \in {"completed", "failed"} /\ n > 0
      BY <1>b, <1>c, <1>d
    <3>4. RunOf(w) = <<t, n>>
      BY <1>0, <3>1 DEF RunOf
    <3>5. \A r \in runs' : r.id = <<t, n>> => r.status = task'[t]
      BY <1>d, <1>f, <3>4
    <3>6. QED
      BY <1>a, <1>f, <2>3, <3>1, <3>2, <3>3, <3>5 DEF Undisturbed, At
  <2>4. QED
    BY <2>2, <2>3
<1>7. SentOrAsked'
  BY <1>a DEF TasksInv, SentOrAsked
<1>8. QED
  BY <1>1, <1>2, <1>3, <1>4, <1>5, <1>6, <1>7 DEF TasksInv

LEMMA TasksInvInit ==
  ASSUME TasksInit
  PROVE  TasksInv
<1>1. TasksTypeOK
  BY IdleIsJob, BoundsAssumption DEF TasksInit, TasksTypeOK
<1>2. \A t : RunsOf(t) = {} /\ Starts(t) = 0 /\ Takers(t) = {} /\ IsFiniteSet({}) /\ Cardinality({}) = 0
  <2>1. IsFiniteSet({}) /\ Cardinality({}) = 0
    BY FS_EmptySet
  <2>2. \A t : RunsOf(t) = {} /\ Takers(t) = {}
    BY IdleIsJob DEF TasksInit, RunsOf, Takers, At
  <2>3. QED
    BY <2>1, <2>2 DEF Starts
<1>3. \A t \in Tasks, k \in Attempts : Fresh(<<t, k>>)
  BY DEF TasksInit, Fresh, RunIds
<1>4. RunsNumbered
  BY <1>2, <1>3 DEF TasksInit, RunsNumbered
<1>5. DeliveriesBounded
  BY <1>2 DEF TasksInit, DeliveriesBounded, InQueue
<1>6. \A w \in Workers : At(w, "idle") /\ worker[w].phase \notin Working
  BY IdleIsJob DEF TasksInit, At, Working
<1>7. JobsOK
  BY <1>6 DEF JobsOK, JobOK
<1>8. DispatchesOK /\ SentOrAsked
  BY DEF TasksInit, DispatchesOK, DispatchOK, SentOrAsked
<1>9. RowsOK
  BY <1>6, NoRowAssumption DEF TasksInit, RowsOK, Undisturbed, Holds
<1>10. QED
  BY <1>1, <1>4, <1>5, <1>7, <1>8, <1>9 DEF TasksInv

LEMMA TasksInvNext ==
  ASSUME TasksInv, TasksNext
  PROVE  TasksInv'
<1>1. CASE \E t \in Tasks : CreateTask(t) \/ FinishDispatch(t)
  BY <1>1, DispatchKeepsTasks
<1>2. CASE \E t \in Tasks : DispatchFails(t)
  BY <1>2, DispatchFailsKeepsTasks
<1>3. CASE \E t \in Tasks : Expire(t)
  BY <1>3, ExpireKeepsTasks
<1>4. CASE \E w \in Workers, t \in Tasks : Take(w, t)
  BY <1>4, TakeKeepsTasks
<1>5. CASE \E w \in Workers : SkipMissing(w) \/ Return(w) \/ Abort(w) \/ LoseWorker(w)
  BY <1>5, ReleasesKeepTasks
<1>6. CASE \E w \in Workers : Start(w)
  BY <1>6, StartKeepsTasks
<1>7. CASE \E w \in Workers : RunAgent(w, "completed") \/ RunAgent(w, "failed")
  BY <1>7, RunAgentKeepsTasks
<1>8. CASE \E w \in Workers : DecideToSend(w) \/ LeaveDraft(w) \/ DraftForFounder(w)
  BY <1>8, DecideKeepsTasks
<1>9. CASE \E w \in Workers : SendReply(w) \/ SendReplyFails(w)
  BY <1>9, SendKeepsTasks
<1>10. CASE \E w \in Workers : Save(w)
  BY <1>10, SaveKeepsTasks
<1>11. QED
  BY <1>1, <1>2, <1>3, <1>4, <1>5, <1>6, <1>7, <1>8, <1>9, <1>10 DEF TasksNext, WorkerStep

-----------------------------------------------------------------------------
(* Every action of the Founder Inbox. *)

\* A step of a request: rows stay rows, and faults may rise.
LEMMA RequestKeepsTasks ==
  ASSUME TasksInv, UNCHANGED <<task, runs, message, dispatch, worker, mails, expired>>,
         faults' \in 0..MaxFaults, faults' >= faults,
         drafts' \in [RunIds -> {None, "pending", "approved", "rejected"}],
         \A d \in RunIds : drafts'[d] = None <=> drafts[d] = None
  PROVE  TasksInv'
<1>1. \A r \in RunIds : Fresh(r)' <=> Fresh(r)
  BY DEF Fresh
<1>2. \A u \in Tasks, k \in Attempts : <<u, k>> \in RunIds
  BY DEF RunIds
<1>3. \A u \in Tasks : RunsOf(u)' = RunsOf(u) /\ Starts(u)' = Starts(u) /\ Takers(u)' = Takers(u)
  BY StartsKept, TakersKept
<1>4. TasksTypeOK'
  BY DEF TasksInv, TasksTypeOK
<1>5. RunsNumbered'
  BY <1>1, <1>2, <1>3 DEF TasksInv, RunsNumbered
<1>6. DeliveriesBounded'
  <2> SUFFICES ASSUME NEW u \in Tasks
               PROVE  /\ IsFiniteSet(Takers(u)')
                      /\ Starts(u)' + Cardinality(Takers(u)') + InQueue(u)' <= 1 + faults'
    BY DEF DeliveriesBounded
  <2>1. IsFiniteSet(Takers(u)) /\ Starts(u) + Cardinality(Takers(u)) + InQueue(u) <= 1 + faults
    BY DEF TasksInv, DeliveriesBounded
  <2>2. InQueue(u)' = InQueue(u) /\ InQueue(u) \in Nat
        /\ Starts(u) \in Nat /\ Cardinality(Takers(u)) \in Nat
    BY <2>1, StartsTyped, FS_CardinalityType DEF InQueue, TasksInv
  <2>3. QED
    BY <1>3, <2>1, <2>2 DEF TasksInv, TasksTypeOK
<1>7. JobsOK'
  <2> SUFFICES ASSUME NEW w \in Workers PROVE JobOK(w)'
    BY DEF TasksInv, JobsOK, RunOf, TaskOf
  <2>1. JobOK(w) /\ TaskOf(w)' = TaskOf(w) /\ RunOf(w)' = RunOf(w)
    BY DEF TasksInv, JobsOK, RunOf, TaskOf
  <2>2. ASSUME worker[w].phase \in {"running", "deciding", "sending"} PROVE Fresh(RunOf(w))'
    <3>1. PICK r : r = RunOf(w)
      OBVIOUS
    <3>2. r \in RunIds /\ Fresh(r)
      BY <2>1, <2>2, <3>1, RunOfWorking DEF JobOK, At, Working
    <3>3. Fresh(r)'
      BY <1>1, <3>2
    <3>4. QED
      BY <2>1, <3>1, <3>3 DEF Fresh
  <2>3. QED
    BY <2>1, <2>2, StartsKept DEF JobOK, At, TaskOf
<1>8. DispatchesOK'
  BY DEF TasksInv, DispatchesOK, DispatchOK
<1>9. RowsOK'
  BY UndisturbedKept DEF TasksInv, RowsOK
<1>10. SentOrAsked'
  BY DEF TasksInv, SentOrAsked, TasksTypeOK
<1>11. QED
  BY <1>4, <1>5, <1>6, <1>7, <1>8, <1>9, <1>10 DEF TasksInv

\* What a task step does to the inbox: it may leave a draft, and faults may rise.
LEMMA TaskStepLeavesDrafts ==
  ASSUME TasksInv, TasksNext
  PROVE  /\ faults' >= faults /\ faults \in Nat /\ faults' \in Nat
         /\ \A d \in RunIds : drafts'[d] = drafts[d] \/ (drafts[d] = None /\ drafts'[d] = "pending")
<1>1. \/ UNCHANGED <<drafts>> /\ (faults' = faults \/ faults' = faults + 1)
      \/ \E w \in Workers : DraftForFounder(w)
  BY DEF TasksNext, WorkerStep, CreateTask, FinishDispatch, DispatchFails, Expire, Take, SkipMissing,
         Start, RunAgent, DecideToSend, LeaveDraft, SendReply, SendReplyFails, Save, Return, Abort,
         LoseWorker
<1>2. faults \in Nat
  BY DEF TasksInv, TasksTypeOK
<1>3. CASE \E w \in Workers : DraftForFounder(w)
  <2>1. PICK w \in Workers : DraftForFounder(w)
    BY <1>3
  <2>2. drafts[RunOf(w)] = None /\ drafts' = [drafts EXCEPT ![RunOf(w)] = "pending"] /\ faults' = faults
    BY <2>1 DEF DraftForFounder, At, TasksInv, JobsOK, JobOK, Fresh
  <2>3. QED
    BY <1>2, <2>2 DEF TasksInv, TasksTypeOK
<1>4. QED
  BY <1>1, <1>2, <1>3

LEMMA AtWorkCounted ==
  ASSUME NEW phase, NEW d
  PROVE  /\ IsFiniteSet(AtWork(phase, d))
         /\ Cardinality(AtWork(phase, d)) \in Nat /\ Cardinality(Requests) \in Nat
         /\ Cardinality(AtWork(phase, d)) <= Cardinality(Requests)
<1>1. AtWork(phase, d) \subseteq Requests
  BY DEF AtWork
<1>2. QED
  BY <1>1, RequestsAssumption, FS_Subset, FS_CardinalityType

\* No request is both before and after its send.
LEMMA AtWorkTogether ==
  ASSUME NEW d
  PROVE  Cardinality(AtWork("checked", d)) + Cardinality(AtWork("resolving", d)) <= Cardinality(Requests)
<1>1. PICK A, B : A = AtWork("checked", d) /\ B = AtWork("resolving", d)
  OBVIOUS
<1>2. A \intersect B = {} /\ A \union B \subseteq Requests
  BY <1>1 DEF AtWork
<1>3. IsFiniteSet(A) /\ IsFiniteSet(B)
  BY <1>1, AtWorkCounted
<1>4. /\ Cardinality(A \union B) = Cardinality(A) + Cardinality(B) - Cardinality(A \intersect B)
      /\ Cardinality(A \intersect B) = 0
  BY <1>2, <1>3, FS_Union, FS_EmptySet
<1>5. Cardinality(A \union B) <= Cardinality(Requests)
  BY <1>2, RequestsAssumption, FS_Subset
<1>6. Cardinality(A) \in Nat /\ Cardinality(B) \in Nat /\ Cardinality(Requests) \in Nat
  BY <1>3, RequestsAssumption, FS_CardinalityType
<1>7. QED
  BY <1>1, <1>4, <1>5, <1>6

CountsAfter(q, x, phase, d) ==
  /\ Cardinality(AtWork(phase, d)') \in Nat
  /\ Cardinality(AtWork(phase, d)') =
       IF x.phase = phase /\ x.draft = d
       THEN IF q \in AtWork(phase, d) THEN Cardinality(AtWork(phase, d))
                                      ELSE Cardinality(AtWork(phase, d)) + 1
       ELSE IF q \in AtWork(phase, d) THEN Cardinality(AtWork(phase, d)) - 1
                                      ELSE Cardinality(AtWork(phase, d))

LEMMA AtWorkAfter ==
  ASSUME decision \in [Requests -> Decision], NEW q \in Requests, NEW x,
         decision' = [decision EXCEPT ![q] = x], NEW phase, NEW d
  PROVE  CountsAfter(q, x, phase, d)
<1> USE DEF CountsAfter
<1>1. PICK S : S = AtWork(phase, d)
  OBVIOUS
<1>2. AtWork(phase, d)' = IF x.phase = phase /\ x.draft = d THEN S \union {q} ELSE S \ {q}
  BY <1>1 DEF AtWork
<1>3. IsFiniteSet(S)
  BY <1>1, AtWorkCounted
<1>4. q \in S => S \union {q} = S
  OBVIOUS
<1>5. IsFiniteSet(S \union {q})
      /\ Cardinality(S \union {q}) = IF q \in S THEN Cardinality(S) ELSE Cardinality(S) + 1
  BY <1>3, FS_AddElement
<1>6. IsFiniteSet(S \ {q})
      /\ Cardinality(S \ {q}) = IF q \in S THEN Cardinality(S) - 1 ELSE Cardinality(S)
  BY <1>3, FS_RemoveElement
<1>7. Cardinality(S \union {q}) \in Nat /\ Cardinality(S \ {q}) \in Nat
  BY <1>5, <1>6, FS_CardinalityType
<1>8. QED
  BY <1>1, <1>2, <1>5, <1>6, <1>7

LEMMA TaskStepKeepsDesk ==
  ASSUME DeskInv, TasksNext, UNCHANGED inboxVars
  PROVE  DeskInv'
<1>1. TasksInv'
  BY TasksInvNext DEF DeskInv
<1>2. /\ faults' >= faults /\ faults \in Nat /\ faults' \in Nat
      /\ \A d \in RunIds : drafts'[d] = drafts[d] \/ (drafts[d] = None /\ drafts'[d] = "pending")
  BY TaskStepLeavesDrafts DEF DeskInv
<1>3. decision' = decision /\ replies' = replies
  BY DEF inboxVars
<1>4. \A q \in Requests : DecisionOK(q)'
  BY <1>2, <1>3, NoRowAssumption DEF DeskInv, DecisionOK
<1>5. ASSUME NEW d \in RunIds PROVE DraftOK(d)'
  <2>1. \A phase : AtWork(phase, d)' = AtWork(phase, d)
    BY <1>3 DEF AtWork
  <2>2. /\ Cardinality(AtWork("checked", d)) \in Nat /\ Cardinality(AtWork("resolving", d)) \in Nat
        /\ Cardinality(Requests) \in Nat /\ replies[d] \in Nat
    BY AtWorkCounted DEF DeskInv
  <2>3. CASE drafts'[d] = drafts[d]
    <3>1. DraftOK(d)
      BY DEF DeskInv
    <3>2. replies[d] <= faults + Cardinality(AtWork("resolving", d)) =>
            replies'[d] <= faults' + Cardinality(AtWork("resolving", d)')
      BY <1>2, <1>3, <2>1, <2>2
    <3>3. replies[d] + Cardinality(AtWork("checked", d)) <= faults + Cardinality(Requests) =>
            replies'[d] + Cardinality(AtWork("checked", d)') <= faults' + Cardinality(Requests)
      BY <1>2, <1>3, <2>1, <2>2
    <3>4. QED
      BY <1>3, <2>3, <3>1, <3>2, <3>3 DEF DraftOK
  <2>4. CASE drafts[d] = None /\ drafts'[d] = "pending"
    <3>1. replies[d] = 0
      BY <2>4 DEF DeskInv, DraftOK
    <3>2. replies'[d] <= faults' + Cardinality(AtWork("resolving", d)')
      BY <1>2, <1>3, <2>1, <2>2, <3>1
    <3>3. QED
      BY <2>4, <3>2, NoRowAssumption DEF DraftOK
  <2>5. QED
    BY <1>2, <2>3, <2>4
<1>6. QED
  BY <1>1, <1>3, <1>4, <1>5 DEF DeskInv

LEMMA DecisionTyped ==
  ASSUME NEW d \in RunIds, NEW verdict \in {"approved", "rejected"}, NEW x \in Decision
  PROVE  /\ [draft |-> d, verdict |-> verdict,
             phase |-> IF verdict = "approved" THEN "checked" ELSE "resolving"] \in Decision
         /\ [x EXCEPT !.phase = "resolving"] \in Decision
         /\ NoDecision \in Decision /\ NoDecision.phase = "idle" /\ NoDecision.draft = None
BY DEF Decision, NoDecision

LEMMA OpenKeepsDesk ==
  ASSUME DeskInv, NEW q \in Requests, NEW d \in RunIds, NEW verdict \in {"approved", "rejected"},
         Open(q, d, verdict)
  PROVE  DeskInv'
<1>0. PICK x : x = [draft |-> d, verdict |-> verdict,
                    phase |-> IF verdict = "approved" THEN "checked" ELSE "resolving"]
  OBVIOUS
<1>1. /\ decision[q] = NoDecision /\ drafts[d] = "pending"
      /\ decision' = [decision EXCEPT ![q] = x] /\ UNCHANGED <<taskVars, replies>>
  BY <1>0 DEF Open
<1>2. x \in Decision /\ x.draft = d /\ x.verdict = verdict /\ x.phase \in {"checked", "resolving"}
      /\ (x.phase = "resolving" => verdict = "rejected")
      /\ NoDecision.phase = "idle"
  BY <1>0, <1>1, DecisionTyped DEF DeskInv
<1>3. UNCHANGED <<task, runs, drafts, message, dispatch, worker, mails, expired, faults>>
  BY <1>1 DEF taskVars
<1>4. TasksInv'
  BY <1>3, RequestKeepsTasks DEF DeskInv, TasksInv, TasksTypeOK
<1>5. decision'[q] = x /\ \A p \in Requests : p # q => decision'[p] = decision[p]
  BY <1>1 DEF DeskInv
<1>6. \A p \in Requests : DecisionOK(p)'
  <2>1. x # NoDecision
    BY <1>2
  <2>2. DecisionOK(q)'
    BY <1>1, <1>2, <1>3, <1>5, <2>1, NoRowAssumption DEF DecisionOK
  <2>3. \A p \in Requests : p # q => DecisionOK(p)'
    BY <1>1, <1>3, <1>5 DEF DeskInv, DecisionOK
  <2>4. QED
    BY <2>2, <2>3
<1>7. ASSUME NEW e \in RunIds PROVE DraftOK(e)'
  <2>1. DraftOK(e) /\ replies[e] \in Nat /\ faults \in Nat
    BY DEF DeskInv, TasksInv, TasksTypeOK
  <2>2. \A phase : q \notin AtWork(phase, e) \/ phase = "idle"
    BY <1>1, <1>2 DEF AtWork
  <2>3. \A phase \in {"checked", "resolving"} :
          /\ Cardinality(AtWork(phase, e)) \in Nat /\ Cardinality(AtWork(phase, e)') \in Nat
          /\ Cardinality(AtWork(phase, e)') >= Cardinality(AtWork(phase, e))
          /\ e # d => Cardinality(AtWork(phase, e)') = Cardinality(AtWork(phase, e))
    <3> SUFFICES ASSUME NEW phase \in {"checked", "resolving"}
                 PROVE  /\ Cardinality(AtWork(phase, e)) \in Nat /\ Cardinality(AtWork(phase, e)') \in Nat
                        /\ Cardinality(AtWork(phase, e)') >= Cardinality(AtWork(phase, e))
                        /\ e # d => Cardinality(AtWork(phase, e)') = Cardinality(AtWork(phase, e))
      OBVIOUS
    <3>1. Cardinality(AtWork(phase, e)) \in Nat
      BY AtWorkCounted
    <3>2. /\ Cardinality(AtWork(phase, e)') \in Nat
          /\ Cardinality(AtWork(phase, e)') = IF x.phase = phase /\ x.draft = e
                                              THEN Cardinality(AtWork(phase, e)) + 1
                                              ELSE Cardinality(AtWork(phase, e))
      <4>1. q \notin AtWork(phase, e)
        BY <2>2
      <4>2. decision \in [Requests -> Decision] /\ decision' = [decision EXCEPT ![q] = x]
        BY <1>1 DEF DeskInv
      <4>3. CountsAfter(q, x, phase, e)
        BY <4>2, AtWorkAfter
      <4>4. QED
        BY <4>1, <4>3 DEF CountsAfter
    <3>3. QED
      BY <1>2, <3>1, <3>2
  <2>4. CASE e = d
    <3>1. replies[e] <= faults + Cardinality(AtWork("resolving", e))
      BY <1>1, <2>1, <2>4 DEF DraftOK
    <3>2. replies'[e] <= faults' + Cardinality(AtWork("resolving", e)')
      BY <1>1, <1>3, <2>1, <2>3, <3>1
    <3>3. QED
      BY <1>1, <1>3, <2>4, <3>2, NoRowAssumption DEF DraftOK
  <2>5. CASE e # d
    <3>1. Cardinality(AtWork("checked", e)') = Cardinality(AtWork("checked", e))
          /\ Cardinality(AtWork("resolving", e)') = Cardinality(AtWork("resolving", e))
      BY <2>3, <2>5
    <3>2. QED
      BY <1>1, <1>3, <2>1, <3>1 DEF DraftOK
  <2>6. QED
    BY <2>4, <2>5
<1>8. QED
  BY <1>1, <1>2, <1>4, <1>6, <1>7 DEF DeskInv

\* A request that is at work: what it works on, and what it counts for.
LEMMA RequestAtWork ==
  ASSUME DeskInv, NEW q \in Requests, NEW d, d = decision[q].draft,
         decision[q].phase \in {"checked", "resolving"}
  PROVE  /\ d \in RunIds /\ drafts[d] # None /\ drafts[d] \in {"pending", "approved", "rejected"}
         /\ decision[q].verdict \in {"approved", "rejected"}
         /\ \A phase, e : q \in AtWork(phase, e) <=> phase = decision[q].phase /\ e = d
<1>1. DecisionOK(q) /\ drafts \in [RunIds -> {None, "pending", "approved", "rejected"}]
  BY DEF DeskInv, TasksInv, TasksTypeOK
<1>2. QED
  BY <1>1 DEF DecisionOK, AtWork

\* A request that leaves its draft no longer counts; the others are as before.
LEMMA DropCounts ==
  ASSUME DeskInv, NEW q \in Requests, NEW d, d = decision[q].draft,
         decision[q].phase \in {"checked", "resolving"}, Drop(q), NEW phase, NEW e \in RunIds
  PROVE  /\ Cardinality(AtWork(phase, e)) \in Nat /\ Cardinality(AtWork(phase, e)') \in Nat
         /\ Cardinality(AtWork(phase, e)') =
              IF phase = decision[q].phase /\ e = d THEN Cardinality(AtWork(phase, e)) - 1
                                                    ELSE Cardinality(AtWork(phase, e))
<1>1. PICK x : x = NoDecision
  OBVIOUS
<1>2. decision \in [Requests -> Decision] /\ decision' = [decision EXCEPT ![q] = x]
  BY <1>1 DEF DeskInv, Drop
<1>3. x.draft # e
  BY <1>1, NoRowAssumption DEF NoDecision
<1>4. q \in AtWork(phase, e) <=> phase = decision[q].phase /\ e = d
  BY RequestAtWork
<1>5. Cardinality(AtWork(phase, e)) \in Nat
  BY AtWorkCounted
<1>6. CountsAfter(q, x, phase, e)
  BY <1>2, AtWorkAfter
<1>7. QED
  BY <1>3, <1>4, <1>5, <1>6 DEF CountsAfter

\* Decisions after a request is gone.
LEMMA DropDecisions ==
  ASSUME DeskInv, NEW q \in Requests, Drop(q),
         \A d \in RunIds : drafts[d] # None => drafts'[d] # None,
         \A d \in RunIds : replies[d] > 0 => replies'[d] > 0
  PROVE  decision' \in [Requests -> Decision] /\ \A p \in Requests : DecisionOK(p)'
<1>1. PICK x : x = NoDecision
  OBVIOUS
<1>2. NoDecision \in Decision /\ NoDecision.phase = "idle"
  BY DEF NoDecision, Decision
<1>3. /\ decision' = [decision EXCEPT ![q] = NoDecision] /\ decision \in [Requests -> Decision]
      /\ decision'[q] = NoDecision /\ \A p \in Requests : p # q => decision'[p] = decision[p]
  BY DEF DeskInv, Drop
<1>4. DecisionOK(q)'
  BY <1>2, <1>3 DEF DecisionOK
<1>5. \A p \in Requests : p # q => DecisionOK(p)'
  <2> SUFFICES ASSUME NEW p \in Requests, p # q PROVE DecisionOK(p)'
    OBVIOUS
  <2>1. DecisionOK(p) /\ decision'[p] = decision[p] /\ decision[p] \in Decision
    BY <1>3 DEF DeskInv
  <2>2. QED
    BY <2>1 DEF DecisionOK, Decision
<1>6. QED
  BY <1>2, <1>3, <1>4, <1>5

LEMMA SendDraftKeepsDesk ==
  ASSUME DeskInv, NEW q \in Requests, SendDraft(q)
  PROVE  DeskInv'
<1>0. PICK d, x : d = decision[q].draft /\ x = [decision[q] EXCEPT !.phase = "resolving"]
  OBVIOUS
<1>1. /\ decision[q].phase = "checked" /\ decision[q] \in Decision
      /\ decision' = [decision EXCEPT ![q] = x]
      /\ replies' = [replies EXCEPT ![d] = @ + 1] /\ UNCHANGED taskVars
  BY <1>0 DEF SendDraft, Sent, DeskInv
<1>2. x \in Decision /\ x.draft = d /\ x.phase = "resolving" /\ x.verdict = decision[q].verdict
  <2>1. x \in Decision
    BY <1>0, <1>1 DEF Decision
  <2>2. QED
    BY <1>0, <1>1, <2>1 DEF Decision
<1>3. UNCHANGED <<task, runs, drafts, message, dispatch, worker, mails, expired, faults>>
  BY <1>1 DEF taskVars
<1>4. TasksInv'
  BY <1>3, RequestKeepsTasks DEF DeskInv, TasksInv, TasksTypeOK
<1>5. /\ d \in RunIds /\ drafts[d] # None /\ decision[q].verdict \in {"approved", "rejected"}
      /\ \A phase, e : q \in AtWork(phase, e) <=> phase = "checked" /\ e = d
  BY <1>0, <1>1, RequestAtWork
<1>6. /\ replies' \in [RunIds -> Nat] /\ replies'[d] = replies[d] + 1
      /\ \A e \in RunIds : replies[e] \in Nat /\ (e # d => replies'[e] = replies[e])
  BY <1>1, <1>5 DEF DeskInv
<1>7. decision' \in [Requests -> Decision] /\ decision'[q] = x
      /\ \A p \in Requests : p # q => decision'[p] = decision[p]
  BY <1>1, <1>2 DEF DeskInv
<1>8. \A p \in Requests : DecisionOK(p)'
  <2>1. x # NoDecision
    BY <1>2 DEF NoDecision
  <2>2. replies'[d] > 0
    BY <1>5, <1>6
  <2>3. DecisionOK(q)'
    BY <1>2, <1>3, <1>5, <1>7, <2>1, <2>2 DEF DecisionOK
  <2>4. \A e \in RunIds : replies[e] > 0 => replies'[e] > 0
    BY <1>5, <1>6
  <2>5. \A p \in Requests : p # q => DecisionOK(p)'
    <3> SUFFICES ASSUME NEW p \in Requests, p # q PROVE DecisionOK(p)'
      OBVIOUS
    <3>1. DecisionOK(p) /\ decision'[p] = decision[p] /\ decision[p] \in Decision
      BY <1>7 DEF DeskInv
    <3>2. QED
      BY <1>3, <2>4, <3>1 DEF DecisionOK, Decision
  <2>6. QED
    BY <2>3, <2>5
<1>9. ASSUME NEW e \in RunIds PROVE DraftOK(e)'
  <2>1. DraftOK(e) /\ replies[e] \in Nat /\ faults \in Nat /\ Cardinality(Requests) \in Nat
        /\ Cardinality(AtWork("checked", e)) \in Nat /\ Cardinality(AtWork("resolving", e)) \in Nat
    BY AtWorkCounted DEF DeskInv, TasksInv, TasksTypeOK
  <2>2. decision \in [Requests -> Decision] /\ decision' = [decision EXCEPT ![q] = x]
    BY <1>1 DEF DeskInv
  <2>3. CountsAfter(q, x, "checked", e) /\ CountsAfter(q, x, "resolving", e)
    BY <2>2, AtWorkAfter
  <2>4. CASE e = d
    <3>1. /\ Cardinality(AtWork("checked", e)') = Cardinality(AtWork("checked", e)) - 1
          /\ Cardinality(AtWork("resolving", e)') = Cardinality(AtWork("resolving", e)) + 1
      BY <1>2, <1>5, <2>3, <2>4 DEF CountsAfter
    <3>2. replies[e] <= faults + Cardinality(AtWork("resolving", e)) =>
            replies'[e] <= faults' + Cardinality(AtWork("resolving", e)')
      BY <1>3, <1>6, <2>1, <2>4, <3>1
    <3>3. replies[e] + Cardinality(AtWork("checked", e)) <= faults + Cardinality(Requests) =>
            replies'[e] + Cardinality(AtWork("checked", e)') <= faults' + Cardinality(Requests)
      BY <1>3, <1>6, <2>1, <2>4, <3>1
    <3>4. drafts'[e] = drafts[e] /\ drafts[e] # None /\ replies'[e] > 0
      BY <1>3, <1>5, <1>6, <2>1, <2>4
    <3>5. QED
      BY <2>1, <3>2, <3>3, <3>4 DEF DraftOK
  <2>5. CASE e # d
    <3>1. /\ Cardinality(AtWork("checked", e)') = Cardinality(AtWork("checked", e))
          /\ Cardinality(AtWork("resolving", e)') = Cardinality(AtWork("resolving", e))
      BY <1>2, <1>5, <2>3, <2>5 DEF CountsAfter
    <3>2. QED
      BY <1>3, <1>6, <2>1, <2>5, <3>1 DEF DraftOK
  <2>6. QED
    BY <2>4, <2>5
<1>10. QED
  BY <1>4, <1>6, <1>7, <1>8, <1>9 DEF DeskInv

\* A request that fails pays for its mail, if it sent one, with a fault.
LEMMA FailureKeepsDesk ==
  ASSUME DeskInv, NEW q \in Requests, SendDraftFails(q) \/ LoseRequest(q)
  PROVE  DeskInv'
<1>0. PICK d : d = decision[q].draft
  OBVIOUS
<1>1. /\ decision[q].phase \in {"checked", "resolving"} /\ Drop(q)
      /\ UNCHANGED <<task, runs, drafts, message, dispatch, worker, mails, expired>>
      /\ \/ replies' = replies /\ faults' = faults
         \/ replies' = replies /\ faults < MaxFaults /\ faults' = faults + 1
         \/ faults < MaxFaults /\ faults' = faults + 1 /\ replies' = [replies EXCEPT ![d] = @ + 1]
  <2>1. CASE SendDraftFails(q)
    BY <1>0, <2>1 DEF SendDraftFails, Sent, taskVars
  <2>2. CASE LoseRequest(q)
    BY <2>2 DEF LoseRequest, DeskInv, DecisionOK, Decision
  <2>3. QED
    BY <2>1, <2>2
<1>2. faults \in Nat /\ faults' \in 0..MaxFaults /\ faults' >= faults
  BY <1>1, BoundsAssumption DEF DeskInv, TasksInv, TasksTypeOK
<1>3. d \in RunIds /\ drafts[d] # None
  BY <1>0, <1>1, RequestAtWork
<1>4. TasksInv'
  BY <1>1, <1>2, RequestKeepsTasks DEF DeskInv, TasksInv, TasksTypeOK
<1>5. /\ replies' \in [RunIds -> Nat]
      /\ \A e \in RunIds : /\ replies[e] \in Nat /\ replies'[e] \in Nat
                           /\ e # d => replies'[e] = replies[e]
                           /\ replies'[e] >= replies[e]
                           /\ replies'[e] - replies[e] <= faults' - faults
  BY <1>1, <1>2, <1>3 DEF DeskInv
<1>6. decision' \in [Requests -> Decision] /\ \A p \in Requests : DecisionOK(p)'
  <2>1. \A e \in RunIds : replies[e] > 0 => replies'[e] > 0
    BY <1>5
  <2>2. QED
    BY <1>1, <2>1, DropDecisions
<1>7. ASSUME NEW e \in RunIds PROVE DraftOK(e)'
  <2>1. DraftOK(e) /\ Cardinality(Requests) \in Nat
        /\ replies[e] \in Nat /\ replies'[e] \in Nat /\ replies'[e] >= replies[e]
        /\ replies'[e] - replies[e] <= faults' - faults /\ faults' \in Nat
    BY <1>2, <1>5, AtWorkCounted DEF DeskInv
  <2>2. \A phase :
          /\ Cardinality(AtWork(phase, e)) \in Nat /\ Cardinality(AtWork(phase, e)') \in Nat
          /\ Cardinality(AtWork(phase, e)') =
               IF phase = decision[q].phase /\ e = d THEN Cardinality(AtWork(phase, e)) - 1
                                                     ELSE Cardinality(AtWork(phase, e))
    BY <1>0, <1>1, DropCounts
  <2>3. /\ Cardinality(AtWork("checked", e)) \in Nat /\ Cardinality(AtWork("checked", e)') \in Nat
        /\ Cardinality(AtWork("checked", e)') <= Cardinality(AtWork("checked", e))
        /\ Cardinality(AtWork("resolving", e)) \in Nat /\ Cardinality(AtWork("resolving", e)') \in Nat
        /\ \/ Cardinality(AtWork("resolving", e)') = Cardinality(AtWork("resolving", e))
           \/ /\ Cardinality(AtWork("resolving", e)') = Cardinality(AtWork("resolving", e)) - 1
              /\ decision[q].phase = "resolving" /\ e = d
    BY <2>2
  <2>4. replies[e] <= faults + Cardinality(AtWork("resolving", e)) =>
          replies'[e] <= faults' + Cardinality(AtWork("resolving", e)')
    <3>1. CASE decision[q].phase = "checked"
      BY <1>2, <2>1, <2>3, <3>1
    <3>2. CASE decision[q].phase = "resolving"
      <4>1. LoseRequest(q)
        BY <3>2 DEF SendDraftFails
      <4>2. replies'[e] = replies[e] /\ faults' = faults + 1
        BY <4>1 DEF LoseRequest
      <4>3. QED
        BY <1>2, <2>1, <2>3, <4>2
    <3>3. QED
      BY <1>1, <3>1, <3>2
  <2>5. replies[e] + Cardinality(AtWork("checked", e)) <= faults + Cardinality(Requests) =>
          replies'[e] + Cardinality(AtWork("checked", e)') <= faults' + Cardinality(Requests)
    BY <1>2, <2>1, <2>3
  <2>6. drafts'[e] = None => replies'[e] = 0
    BY <1>1, <1>3, <1>5, <2>1 DEF DraftOK
  <2>7. drafts'[e] = "approved" => replies'[e] > 0
    BY <1>1, <2>1 DEF DraftOK
  <2>8. QED
    BY <1>1, <2>1, <2>4, <2>5, <2>6, <2>7 DEF DraftOK
<1>8. QED
  BY <1>4, <1>5, <1>6, <1>7 DEF DeskInv

\* The verdict goes over whatever the row says by now.
LEMMA ResolveKeepsDesk ==
  ASSUME DeskInv, NEW q \in Requests, ResolveDraft(q)
  PROVE  DeskInv'
<1>0. PICK d, verdict : d = decision[q].draft /\ verdict = decision[q].verdict
  OBVIOUS
<1>1. /\ decision[q].phase = "resolving" /\ Drop(q) /\ drafts' = [drafts EXCEPT ![d] = verdict]
      /\ UNCHANGED <<task, runs, message, dispatch, worker, mails, expired, faults, replies>>
  BY <1>0 DEF ResolveDraft
<1>2. d \in RunIds /\ drafts[d] \in {"pending", "approved", "rejected"} /\ drafts[d] # None
      /\ verdict \in {"approved", "rejected"} /\ verdict # None
  BY <1>0, <1>1, RequestAtWork, NoRowAssumption
<1>3. /\ drafts' \in [RunIds -> {None, "pending", "approved", "rejected"}]
      /\ drafts'[d] = verdict /\ \A e \in RunIds : e # d => drafts'[e] = drafts[e]
  BY <1>1, <1>2 DEF DeskInv, TasksInv, TasksTypeOK
<1>4. TasksInv'
  <2>1. \A e \in RunIds : drafts'[e] = None <=> drafts[e] = None
    BY <1>2, <1>3
  <2>2. faults' \in 0..MaxFaults /\ faults' >= faults
    BY <1>1 DEF DeskInv, TasksInv, TasksTypeOK
  <2>3. QED
    BY <1>1, <1>3, <2>1, <2>2, RequestKeepsTasks DEF DeskInv
<1>5. decision' \in [Requests -> Decision] /\ \A p \in Requests : DecisionOK(p)'
  <2>1. \A e \in RunIds : drafts[e] # None => drafts'[e] # None
    BY <1>2, <1>3
  <2>2. QED
    BY <1>1, <2>1, DropDecisions
<1>6. ASSUME NEW e \in RunIds PROVE DraftOK(e)'
  <2>1. DraftOK(e) /\ replies[e] \in Nat /\ faults \in Nat /\ Cardinality(Requests) \in Nat
        /\ Cardinality(AtWork("checked", e)) \in Nat /\ Cardinality(AtWork("resolving", e)) \in Nat
        /\ Cardinality(AtWork("checked", e)) + Cardinality(AtWork("resolving", e)) <= Cardinality(Requests)
    BY AtWorkCounted, AtWorkTogether DEF DeskInv, TasksInv, TasksTypeOK
  <2>2. \A phase :
          /\ Cardinality(AtWork(phase, e)) \in Nat /\ Cardinality(AtWork(phase, e)') \in Nat
          /\ Cardinality(AtWork(phase, e)') =
               IF phase = decision[q].phase /\ e = d THEN Cardinality(AtWork(phase, e)) - 1
                                                     ELSE Cardinality(AtWork(phase, e))
    BY <1>0, <1>1, DropCounts
  <2>3. /\ Cardinality(AtWork("checked", e)') = Cardinality(AtWork("checked", e))
        /\ e # d => Cardinality(AtWork("resolving", e)') = Cardinality(AtWork("resolving", e))
    BY <1>1, <2>2
  <2>4. CASE e = d
    <3>1. replies[e] + Cardinality(AtWork("checked", e)) <= faults + Cardinality(Requests)
      <4>1. CASE drafts[e] = "pending"
        BY <2>1, <4>1 DEF DraftOK
      <4>2. CASE drafts[e] \in {"approved", "rejected"}
        BY <2>1, <4>2 DEF DraftOK
      <4>3. QED
        BY <1>2, <2>4, <4>1, <4>2
    <3>2. verdict = "approved" => replies[d] > 0
      BY <1>0, <1>1 DEF DeskInv, DecisionOK
    <3>3. QED
      BY <1>1, <1>2, <1>3, <2>3, <2>4, <3>1, <3>2 DEF DraftOK
  <2>5. CASE e # d
    BY <1>1, <1>3, <2>1, <2>3, <2>5 DEF DraftOK
  <2>6. QED
    BY <2>4, <2>5
<1>7. QED
  BY <1>1, <1>4, <1>5, <1>6 DEF DeskInv

LEMMA DeskInvInit ==
  ASSUME DeskInit
  PROVE  DeskInv
<1>1. TasksInv /\ drafts = [d \in RunIds |-> None]
  BY TasksInvInit DEF DeskInit, TasksInit
<1>2. NoDecision \in Decision /\ NoDecision.phase = "idle" /\ NoDecision.draft = None
  BY DEF NoDecision, Decision
<1>3. decision \in [Requests -> Decision] /\ \A q \in Requests : DecisionOK(q)
  BY <1>2 DEF DeskInit, DecisionOK
<1>4. replies \in [RunIds -> Nat] /\ \A d \in RunIds : DraftOK(d)
  BY <1>1, NoRowAssumption DEF DeskInit, DraftOK
<1>5. QED
  BY <1>1, <1>3, <1>4 DEF DeskInv

LEMMA DeskInvNext ==
  ASSUME DeskInv, [DeskNext]_deskVars
  PROVE  DeskInv'
<1>1. CASE TasksNext /\ UNCHANGED inboxVars
  BY <1>1, TaskStepKeepsDesk
<1>2. CASE \E q \in Requests, d \in RunIds, verdict \in {"approved", "rejected"} : Open(q, d, verdict)
  BY <1>2, OpenKeepsDesk
<1>3. CASE \E q \in Requests : SendDraft(q)
  BY <1>3, SendDraftKeepsDesk
<1>4. CASE \E q \in Requests : SendDraftFails(q) \/ LoseRequest(q)
  BY <1>4, FailureKeepsDesk
<1>5. CASE \E q \in Requests : ResolveDraft(q)
  BY <1>5, ResolveKeepsDesk
<1>6. CASE UNCHANGED deskVars
  <2>1. UNCHANGED <<task, runs, drafts, message, dispatch, worker, mails, expired, faults, decision, replies>>
    BY <1>6 DEF deskVars, taskVars, inboxVars
  <2>2. TasksInv'
    BY <2>1, RequestKeepsTasks DEF DeskInv, TasksInv, TasksTypeOK
  <2>3. \A q \in Requests : DecisionOK(q)'
    BY <2>1 DEF DeskInv, DecisionOK
  <2>4. \A d \in RunIds : DraftOK(d)'
    BY <2>1 DEF DeskInv, DraftOK, AtWork
  <2>5. QED
    BY <2>1, <2>2, <2>3, <2>4 DEF DeskInv
<1>7. QED
  BY <1>1, <1>2, <1>3, <1>4, <1>5, <1>6 DEF DeskNext

-----------------------------------------------------------------------------
(* The theorems. *)

LEMMA DeskHolds == DeskSpec => []DeskInv
<1>1. DeskInit => DeskInv
  BY DeskInvInit
<1>2. DeskInv /\ [DeskNext]_deskVars => DeskInv'
  BY DeskInvNext
<1>3. QED
  BY <1>1, <1>2, PTL DEF DeskSpec

\* Every variable of the tasks and of the inbox has its type.
THEOREM DeskTypeCorrect == DeskSpec => []DeskTypeOK
<1>1. DeskInv => DeskTypeOK
  BY DEF DeskInv, DeskTypeOK, TasksInv
<1>2. QED
  BY <1>1, DeskHolds, PTL

\* No run both answers the customer (run_agent_task) and asks the founder whether
\* to, whatever happens to workers, messages and requests.
THEOREM DeskSentOrAsked == DeskSpec => []SentOrAsked
<1>1. DeskInv => SentOrAsked
  BY DEF DeskInv, TasksInv
<1>2. QED
  BY <1>1, DeskHolds, PTL

\* A task in progress whose message did not come back while a worker had it is not
\* lost: it is queued, with its worker, or given up with a failure.
THEOREM DeskInProgressIsHeld == DeskSpec => []InProgressIsHeld
<1>1. DeskInv => InProgressIsHeld
  BY DEF DeskInv, TasksInv, RowsOK, Undisturbed, InProgressIsHeld
<1>2. QED
  BY <1>1, DeskHolds, PTL

\* The last run of a task in the numbering is the one its row speaks of.
LEMMA LastRun ==
  ASSUME DeskInv
  PROVE  RowMatchesLastRun
<1> SUFFICES ASSUME NEW t \in Tasks \ expired, task[t] \in {"in_progress", "completed", "failed"}
             PROVE  \E r \in runs :
                      /\ r.id[1] = t
                      /\ \A q \in runs : q.id[1] = t => q.id[2] <= r.id[2]
                      /\ r.status = IF task[t] = "in_progress" THEN "running" ELSE task[t]
  BY DEF RowMatchesLastRun
<1>1. Starts(t) \in Nat /\ Starts(t) > 0
  BY StartsTyped DEF DeskInv, TasksInv, RowsOK, Undisturbed
<1>2. PICK r \in RunsOf(t) : r.id[2] = Starts(t)
  BY <1>1 DEF DeskInv, TasksInv, RunsNumbered
<1>3. r \in runs /\ r.id[1] = t /\ r.id \in RunIds
  BY <1>2 DEF RunsOf, DeskInv, TasksInv, TasksTypeOK, Run
<1>4. r.id = <<t, Starts(t)>>
  BY <1>2, <1>3 DEF RunIds
<1>5. r.status = IF task[t] = "in_progress" THEN "running" ELSE task[t]
  BY <1>3, <1>4 DEF DeskInv, TasksInv, RowsOK, Undisturbed
<1>6. \A q \in runs : q.id[1] = t => q.id[2] <= r.id[2]
  <2>1. \A q \in RunsOf(t) : q.id[2] \in 1..Starts(t)
    BY DEF DeskInv, TasksInv, RunsNumbered
  <2>2. QED
    BY <1>1, <1>2, <2>1 DEF RunsOf
<1>7. QED
  BY <1>3, <1>5, <1>6

\* The task row speaks of the task's last run, unless two workers had the task.
THEOREM DeskRowMatchesLastRun == DeskSpec => []RowMatchesLastRun
<1>1. DeskInv => RowMatchesLastRun
  BY LastRun
<1>2. QED
  BY <1>1, DeskHolds, PTL

\* A draft that reads approved has been mailed: the row is resolved after the send
\* (approve_approval), never when the send fails.
THEOREM DeskApprovedIsSent == DeskSpec => []ApprovedIsSent
<1>1. DeskInv => ApprovedIsSent
  BY DEF DeskInv, DraftOK, ApprovedIsSent
<1>2. QED
  BY <1>1, DeskHolds, PTL

LEMMA DraftBound ==
  ASSUME DeskInv
  PROVE  RepliesBounded
<1> SUFFICES ASSUME NEW d \in RunIds
             PROVE  replies[d] <= Cardinality(Requests) + faults
  BY DEF RepliesBounded
<1>1. DraftOK(d) /\ replies[d] \in Nat /\ faults \in Nat
      /\ drafts[d] \in {None, "pending", "approved", "rejected"}
  BY DEF DeskInv, TasksInv, TasksTypeOK
<1>2. /\ Cardinality(Requests) \in Nat
      /\ Cardinality(AtWork("checked", d)) \in Nat /\ Cardinality(AtWork("resolving", d)) \in Nat
      /\ Cardinality(AtWork("resolving", d)) <= Cardinality(Requests)
  BY AtWorkCounted
<1>3. CASE drafts[d] = None
  BY <1>1, <1>2, <1>3 DEF DraftOK
<1>4. CASE drafts[d] = "pending"
  BY <1>1, <1>2, <1>4 DEF DraftOK
<1>5. CASE drafts[d] \in {"approved", "rejected"}
  BY <1>1, <1>2, <1>5 DEF DraftOK
<1>6. QED
  BY <1>1, <1>3, <1>4, <1>5

\* A draft is mailed at most once for every concurrent request and every fault.
THEOREM DeskRepliesBounded == DeskSpec => []RepliesBounded
<1>1. DeskInv => RepliesBounded
  BY DraftBound
<1>2. QED
  BY <1>1, DeskHolds, PTL

-----------------------------------------------------------------------------
(* The queue, its workers and the inbox implement an at-least-once queue.    *)

MailsOf(t) == {r \in mails : r[1] = t}

LEMMA MailsCounted ==
  ASSUME NEW M, NEW t, NEW n \in Nat, \A r \in M : r = <<t, r[2]>> /\ r[2] \in 1..n
  PROVE  IsFiniteSet(M) /\ Cardinality(M) \in Nat /\ Cardinality(M) <= n
<1> DEFINE f == [r \in M |-> r[2]]
<1>1. f \in Injection(M, 1..n)
  BY DEF Injection, IsInjective
<1>2. IsFiniteSet(1..n) /\ Cardinality(1..n) = n
  BY FS_Interval
<1>3. IsFiniteSet(M) /\ Cardinality(M) <= n
  <2> HIDE DEF f
  <2>1. QED
    BY <1>1, <1>2, FS_Injection
<1>4. QED
  BY <1>3, FS_CardinalityType

\* The mails of a task are those of runs that have begun.
LEMMA MailsBegun ==
  ASSUME TasksInv, NEW t \in Tasks
  PROVE  /\ \A r \in MailsOf(t) : r = <<t, r[2]>> /\ r[2] \in 1..Starts(t)
         /\ IsFiniteSet(MailsOf(t)) /\ Mailed(t) \in Nat /\ Mailed(t) = Cardinality(MailsOf(t))
<1>1. Starts(t) \in Nat
  BY StartsTyped DEF TasksInv
<1>2. \A r \in MailsOf(t) : r = <<t, r[2]>> /\ r[2] \in 1..Starts(t)
  <2> SUFFICES ASSUME NEW r \in MailsOf(t) PROVE r = <<t, r[2]>> /\ r[2] \in 1..Starts(t)
    OBVIOUS
  <2>1. r \in mails /\ r \in RunIds /\ r[1] = t
    BY DEF MailsOf, TasksInv, TasksTypeOK
  <2>2. PICK k \in Attempts : r = <<t, k>>
    BY <2>1 DEF RunIds
  <2>3. ~(k > Starts(t))
    BY <2>1, <2>2 DEF TasksInv, RunsNumbered, Fresh
  <2>4. QED
    BY <1>1, <2>2, <2>3 DEF Attempts
<1>3. IsFiniteSet(MailsOf(t)) /\ Cardinality(MailsOf(t)) \in Nat
  <2>1. PICK M, n : M = MailsOf(t) /\ n = Starts(t)
    OBVIOUS
  <2>2. IsFiniteSet(M) /\ Cardinality(M) \in Nat
    BY <1>1, <1>2, <2>1, MailsCounted
  <2>3. QED
    BY <2>1, <2>2
<1>4. QED
  BY <1>2, <1>3 DEF Mailed, MailsOf

\* A mail about to go finds fewer mails of its task than there were starts, and so
\* no more than there were faults.
LEMMA NextMail ==
  ASSUME TasksInv, NEW w \in Workers, At(w, "sending"), NEW t, t = TaskOf(w),
         mails' = mails \union {RunOf(w)}
  PROVE  /\ t \in Tasks /\ message[t] # "unsent"
         /\ Mailed(t) <= faults /\ Mailed(t)' = Mailed(t) + 1
         /\ \A u \in Tasks : u # t => Mailed(u)' = Mailed(u)
<1>1. PICK n, r : n = Starts(t) /\ r = RunOf(w)
  OBVIOUS
<1>2. worker[w].phase = "sending" /\ worker[w].phase \in Working
  BY DEF At, Working
<1>3. /\ t \in Tasks /\ message[t] # "unsent" /\ worker[w].attempt \in 1..n
      /\ r \notin mails /\ r = <<t, r[2]>> /\ r[1] = t /\ r[2] \in 1..n
  BY <1>1, <1>2 DEF TasksInv, JobsOK, JobOK, At, Fresh, RunOf
<1>4. PICK M : M = MailsOf(t)
  OBVIOUS
<1>5. n \in Nat /\ IsFiniteSet(M) /\ Mailed(t) = Cardinality(M) /\ Mailed(t) \in Nat
      /\ \A x \in M : x = <<t, x[2]>> /\ x[2] \in 1..n
  BY <1>1, <1>3, <1>4, MailsBegun, StartsTyped DEF TasksInv
<1>6. IsFiniteSet(M \union {r}) /\ Cardinality(M \union {r}) = Cardinality(M) + 1
  BY <1>3, <1>4, <1>5, FS_AddElement DEF MailsOf
<1>7. Cardinality(M \union {r}) <= n
  <2>1. PICK S : S = M \union {r}
    OBVIOUS
  <2>2. \A x \in S : x = <<t, x[2]>> /\ x[2] \in 1..n
    BY <1>3, <1>5, <2>1
  <2>3. QED
    BY <1>5, <2>1, <2>2, MailsCounted
<1>8. n <= 1 + faults /\ faults \in Nat
  <2>1. IsFiniteSet(Takers(t)) /\ n + Cardinality(Takers(t)) + InQueue(t) <= 1 + faults
    BY <1>1, <1>3 DEF TasksInv, DeliveriesBounded
  <2>2. Cardinality(Takers(t)) \in Nat /\ InQueue(t) \in Nat
    BY <2>1, FS_CardinalityType DEF InQueue
  <2>3. QED
    BY <1>5, <2>1, <2>2 DEF TasksInv, TasksTypeOK
<1>9. Mailed(t)' = Cardinality(M \union {r})
  <2>1. {x \in mails' : x[1] = t} = M \union {r}
    BY <1>1, <1>3, <1>4 DEF MailsOf
  <2>2. QED
    BY <2>1 DEF Mailed
<1>10. \A u \in Tasks : u # t => Mailed(u)' = Mailed(u)
  <2> SUFFICES ASSUME NEW u \in Tasks, u # t PROVE Mailed(u)' = Mailed(u)
    OBVIOUS
  <2>1. {x \in mails' : x[1] = u} = {x \in mails : x[1] = u}
    BY <1>1, <1>3
  <2>2. QED
    BY <2>1 DEF Mailed
<1>11. QED
  BY <1>3, <1>5, <1>6, <1>7, <1>8, <1>9, <1>10

LEMMA QueueInit ==
  ASSUME TasksInit
  PROVE  Queue!JobsInit
<1>1. \A t \in Tasks : Mailed(t) = 0
  BY FS_EmptySet DEF TasksInit, Mailed
<1>2. QED
  BY <1>1 DEF TasksInit, Queue!JobsInit

\* A step that sends no automatic reply and takes no message into the queue.
LEMMA QueueQuiet ==
  ASSUME mails' = mails, faults' = faults \/ faults' = faults + 1,
         \A t \in Tasks : message'[t] = "unsent" <=> message[t] = "unsent"
  PROVE  [Queue!JobsNext]_Queue!jobVars
<1>1. \A t \in Tasks : Mailed(t)' = Mailed(t)
  BY DEF Mailed
<1>2. {t \in Tasks : message[t] # "unsent"}' = {t \in Tasks : message[t] # "unsent"}
  OBVIOUS
<1>3. [t \in Tasks |-> Mailed(t)]' = [t \in Tasks |-> Mailed(t)]
  BY <1>1
<1>4. QED
  BY <1>2, <1>3 DEF Queue!JobsNext, Queue!jobVars, Queue!Lose

LEMMA QueueAccept ==
  ASSUME TasksInv, NEW t \in Tasks, CreateTask(t) \/ FinishDispatch(t)
  PROVE  [Queue!JobsNext]_Queue!jobVars
<1>1. mails' = mails /\ faults' = faults
  BY DEF CreateTask, FinishDispatch
<1>2. message' = message \/ message' = [message EXCEPT ![t] = "queued"]
  BY DEF CreateTask, FinishDispatch, Commits, Enqueues
<1>3. CASE message' = message
  BY <1>1, <1>3, QueueQuiet
<1>4. CASE message' = [message EXCEPT ![t] = "queued"]
  <2>1. {u \in Tasks : message[u] # "unsent"}' = {u \in Tasks : message[u] # "unsent"} \union {t}
    BY <1>4 DEF TasksInv, TasksTypeOK
  <2>2. \A u \in Tasks : Mailed(u)' = Mailed(u)
    BY <1>1 DEF Mailed
  <2>3. [u \in Tasks |-> Mailed(u)]' = [u \in Tasks |-> Mailed(u)]
    BY <2>2
  <2>4. Queue!Accept(t)
    BY <1>1, <2>1, <2>3 DEF Queue!Accept
  <2>5. QED
    BY <2>4 DEF Queue!JobsNext
<1>5. QED
  BY <1>2, <1>3, <1>4

LEMMA QueuePerform ==
  ASSUME TasksInv, NEW w \in Workers, At(w, "sending"), mails' = mails \union {RunOf(w)},
         message' = message, faults' = faults \/ faults' = faults + 1
  PROVE  [Queue!JobsNext]_Queue!jobVars
<1>1. PICK t : t = TaskOf(w)
  OBVIOUS
<1>2. /\ t \in Tasks /\ message[t] # "unsent"
      /\ Mailed(t) <= faults /\ Mailed(t)' = Mailed(t) + 1
      /\ \A u \in Tasks : u # t => Mailed(u)' = Mailed(u)
  BY <1>1, NextMail
<1>3. [u \in Tasks |-> Mailed(u)]' = [[u \in Tasks |-> Mailed(u)] EXCEPT ![t] = @ + 1]
  BY <1>2
<1>4. {u \in Tasks : message[u] # "unsent"}' = {u \in Tasks : message[u] # "unsent"}
  OBVIOUS
<1>5. Queue!Perform(t)
  BY <1>2, <1>3, <1>4 DEF Queue!Perform
<1>6. QED
  BY <1>2, <1>5 DEF Queue!JobsNext

LEMMA QueueNext ==
  ASSUME DeskInv, [DeskNext]_deskVars
  PROVE  [Queue!JobsNext]_Queue!jobVars
<1>0. TasksInv
  BY DEF DeskInv
<1>1. CASE \E t \in Tasks : CreateTask(t) \/ FinishDispatch(t)
  BY <1>0, <1>1, QueueAccept
<1>2. CASE \E t \in Tasks : DispatchFails(t)
  BY <1>2, QueueQuiet DEF DispatchFails
<1>3. CASE \E t \in Tasks : Expire(t)
  <2>1. PICK t \in Tasks : Expire(t)
    BY <1>3
  <2>2. \A u \in Tasks : message'[u] = "unsent" <=> message[u] = "unsent"
    BY <1>0, <2>1 DEF Expire, PutBack, TasksInv, TasksTypeOK
  <2>3. QED
    BY <2>1, <2>2, QueueQuiet DEF Expire
<1>4. CASE \E w \in Workers, t \in Tasks : Take(w, t)
  <2>1. PICK w \in Workers, t \in Tasks : Take(w, t)
    BY <1>4
  <2>2. \A u \in Tasks : message'[u] = "unsent" <=> message[u] = "unsent"
    BY <1>0, <2>1 DEF Take, TasksInv, TasksTypeOK
  <2>3. QED
    BY <2>1, <2>2, QueueQuiet DEF Take
<1>5. CASE \E w \in Workers : SkipMissing(w) \/ Return(w) \/ Abort(w) \/ LoseWorker(w)
  <2>1. PICK w \in Workers : SkipMissing(w) \/ Return(w) \/ Abort(w) \/ LoseWorker(w)
    BY <1>5
  <2>2. ~At(w, "idle")
    BY <2>1 DEF SkipMissing, Return, Abort, LoseWorker, At
  <2>3. TaskOf(w) \in Tasks /\ message[TaskOf(w)] # "unsent"
    BY <1>0, <2>2 DEF TasksInv, JobsOK, JobOK
  <2>4. \A u \in Tasks : message'[u] = "unsent" <=> message[u] = "unsent"
    BY <1>0, <2>1, <2>3
       DEF SkipMissing, Return, Abort, LoseWorker, Acknowledge, PutBack, TasksInv, TasksTypeOK
  <2>5. mails' = mails /\ (faults' = faults \/ faults' = faults + 1)
    BY <2>1 DEF SkipMissing, Return, Abort, LoseWorker
  <2>6. QED
    BY <2>4, <2>5, QueueQuiet
<1>6. CASE \E w \in Workers : \/ Start(w) \/ RunAgent(w, "completed") \/ RunAgent(w, "failed")
                              \/ DecideToSend(w) \/ DraftForFounder(w) \/ LeaveDraft(w) \/ Save(w)
  BY <1>6, QueueQuiet DEF Start, RunAgent, DecideToSend, DraftForFounder, LeaveDraft, Save
<1>7. CASE \E w \in Workers : SendReply(w) \/ SendReplyFails(w)
  <2>1. PICK w \in Workers : SendReply(w) \/ SendReplyFails(w)
    BY <1>7
  <2>2. /\ At(w, "sending") /\ message' = message /\ (faults' = faults \/ faults' = faults + 1)
        /\ mails' = mails \/ mails' = mails \union {RunOf(w)}
    BY <2>1 DEF SendReply, SendReplyFails
  <2>3. QED
    BY <1>0, <2>2, QueueQuiet, QueuePerform
<1>8. CASE \E q \in Requests : \/ \E d \in RunIds, verdict \in {"approved", "rejected"} : Open(q, d, verdict)
                               \/ SendDraft(q) \/ SendDraftFails(q) \/ ResolveDraft(q) \/ LoseRequest(q)
  <2>1. mails' = mails /\ message' = message /\ (faults' = faults \/ faults' = faults + 1)
    BY <1>8 DEF Open, SendDraft, SendDraftFails, ResolveDraft, LoseRequest, taskVars
  <2>2. QED
    BY <2>1, QueueQuiet
<1>9. CASE UNCHANGED deskVars
  BY <1>9, QueueQuiet DEF deskVars, taskVars
<1>10. QED
  BY <1>1, <1>2, <1>3, <1>4, <1>5, <1>6, <1>7, <1>8, <1>9 DEF DeskNext, TasksNext, WorkerStep

\* However workers are lost, messages come back and answers of SendGrid go missing,
\* a customer's automatic replies are those of an at-least-once queue: none before
\* the task is enqueued, one, and one more for each fault.
THEOREM DeskImplementsQueue == DeskSpec => ImplementsQueue
<1>1. DeskInit => Queue!JobsInit
  BY QueueInit DEF DeskInit
<1>2. DeskInv /\ [DeskNext]_deskVars => [Queue!JobsNext]_Queue!jobVars
  BY QueueNext
<1>3. QED
  BY <1>1, <1>2, DeskHolds, PTL DEF DeskSpec, ImplementsQueue, Queue!JobsSpec

\* What the at-least-once queue says of the number of effects.
QueueInv == Queue!JobsTypeOK /\ Queue!EffectsBounded

LEMMA QueueInvInit ==
  ASSUME Queue!JobsInit
  PROVE  QueueInv
BY DEF Queue!JobsInit, QueueInv, Queue!JobsTypeOK, Queue!EffectsBounded

LEMMA QueueInvNext ==
  ASSUME QueueInv, [Queue!JobsNext]_Queue!jobVars
  PROVE  QueueInv'
<1>1. PICK accepted, effects, losses :
        /\ accepted = {t \in Tasks : message[t] # "unsent"}
        /\ effects = [t \in Tasks |-> Mailed(t)] /\ losses = faults
  OBVIOUS
<1>2. PICK accepted1, effects1, losses1 :
        /\ accepted1 = {t \in Tasks : message[t] # "unsent"}'
        /\ effects1 = [t \in Tasks |-> Mailed(t)]' /\ losses1 = faults'
  OBVIOUS
<1>3. /\ accepted \subseteq Tasks /\ effects \in [Tasks -> Nat] /\ losses \in Nat
      /\ \A t \in Tasks : effects[t] <= losses + 1 /\ (effects[t] > 0 => t \in accepted)
  BY <1>1 DEF QueueInv, Queue!JobsTypeOK, Queue!EffectsBounded
<1>4. \/ accepted1 = accepted /\ effects1 = effects /\ losses1 \in {losses, losses + 1}
      \/ \E t \in Tasks : accepted1 = accepted \union {t} /\ effects1 = effects /\ losses1 = losses
      \/ \E t \in Tasks : /\ t \in accepted /\ accepted1 = accepted /\ effects[t] <= losses
                          /\ effects1 = [effects EXCEPT ![t] = @ + 1]
                          /\ losses1 \in {losses, losses + 1}
  BY <1>1, <1>2 DEF Queue!JobsNext, Queue!jobVars, Queue!Lose, Queue!Accept, Queue!Perform
<1>5. /\ accepted1 \subseteq Tasks /\ effects1 \in [Tasks -> Nat] /\ losses1 \in Nat
      /\ \A t \in Tasks : effects1[t] <= losses1 + 1 /\ (effects1[t] > 0 => t \in accepted1)
  BY <1>3, <1>4
<1>6. QED
  BY <1>2, <1>5 DEF QueueInv, Queue!JobsTypeOK, Queue!EffectsBounded

\* No customer gets more automatic replies to a task than one and one for each
\* fault, and none before the task's message is in the queue.
THEOREM DeskEffectsBounded == DeskSpec => []Queue!EffectsBounded
<1>1. Queue!JobsInit => QueueInv
  BY QueueInvInit
<1>2. QueueInv /\ [Queue!JobsNext]_Queue!jobVars => QueueInv'
  BY QueueInvNext
<1>3. QueueInv => Queue!EffectsBounded
  BY DEF QueueInv
<1>4. QED
  BY <1>1, <1>2, <1>3, DeskImplementsQueue, PTL DEF ImplementsQueue, Queue!JobsSpec

-----------------------------------------------------------------------------
(* Replies and their record.                                                 *)

Hidden == {r \in mails : ~OnRecord(r)}

\* What a worker knows of its reply, its run tells once it is saved and not before.
Told(w) ==
  /\ worker[w].autoSent => worker[w].phase \in {"saving", "saved"}
  /\ worker[w].phase \in Working \ {"saved"} => \A r \in runs : r.id = RunOf(w) => ~r.autoSent
  /\ worker[w].phase = "saved" /\ worker[w].autoSent => \E r \in runs : r.id = RunOf(w) /\ r.autoSent

SentInv ==
  /\ \A w \in Workers : Told(w)
  /\ IsFiniteSet(Hidden) /\ Cardinality(Hidden) <= faults

\* A set that grows by no more than one member, which a fault pays for.
LEMMA OneMore ==
  ASSUME NEW H, NEW K, NEW x, NEW f \in Nat, NEW g \in Nat,
         IsFiniteSet(H), Cardinality(H) <= f,
         \/ K \subseteq H /\ g >= f
         \/ K \subseteq H \union {x} /\ g = f + 1
  PROVE  IsFiniteSet(K) /\ Cardinality(K) <= g
<1>1. IsFiniteSet(H \union {x})
      /\ Cardinality(H \union {x}) = IF x \in H THEN Cardinality(H) ELSE Cardinality(H) + 1
  BY FS_AddElement
<1>2. Cardinality(H) \in Nat /\ Cardinality(H \union {x}) \in Nat
  BY <1>1, FS_CardinalityType
<1>3. CASE K \subseteq H /\ g >= f
  <2>1. IsFiniteSet(K) /\ Cardinality(K) <= Cardinality(H) /\ Cardinality(K) \in Nat
    BY <1>3, FS_Subset, FS_CardinalityType
  <2>2. QED
    BY <1>2, <1>3, <2>1
<1>4. CASE K \subseteq H \union {x} /\ g = f + 1
  <2>1. IsFiniteSet(K) /\ Cardinality(K) <= Cardinality(H \union {x}) /\ Cardinality(K) \in Nat
    BY <1>1, <1>4, FS_Subset, FS_CardinalityType
  <2>2. QED
    BY <1>1, <1>2, <1>4, <2>1
<1>5. QED
  BY <1>3, <1>4

\* A step that leaves workers, runs and mails alone.
LEMMA SentKept ==
  ASSUME SentInv, TasksTypeOK, UNCHANGED <<runs, worker, mails>>, faults' \in Nat, faults' >= faults
  PROVE  SentInv'
<1>1. \A w \in Workers : Told(w)'
  BY DEF SentInv, Told, RunOf, TaskOf
<1>2. \A x : OnRecord(x)' <=> OnRecord(x)
  BY DEF OnRecord, RunOf, TaskOf
<1>3. Hidden' = Hidden
  BY <1>2 DEF Hidden
<1>4. PICK H, n, f, g : H = Hidden /\ n = Cardinality(Hidden) /\ f = faults /\ g = faults'
  OBVIOUS
<1>5. IsFiniteSet(H) /\ Cardinality(H) <= f /\ Cardinality(H) \in Nat /\ f \in Nat /\ g \in Nat /\ g >= f
  BY <1>4, FS_CardinalityType DEF SentInv, TasksTypeOK
<1>6. IsFiniteSet(Hidden') /\ Cardinality(Hidden') <= faults'
  BY <1>3, <1>4, <1>5
<1>7. QED
  BY <1>1, <1>6 DEF SentInv

\* A worker's step: what was on record stays on record, and its own reply gets
\* there unless a fault comes in between.
LEMMA SentAfter ==
  ASSUME SentInv, TasksTypeOK, NEW w \in Workers, NEW job, worker' = [worker EXCEPT ![w] = job],
         NEW x, x = RunOf(w), mails' = mails \/ mails' = mails \union {x},
         \A r \in runs : r.autoSent => \E q \in runs' : q.id = r.id /\ q.autoSent,
         \/ faults' = faults + 1
         \/ faults' = faults /\ (worker[w].autoSent \/ mails' # mails => OnRecord(x)'),
         \A v \in Workers : Told(v)'
  PROVE  SentInv'
<1>1. \A v \in Workers : v # w => worker'[v] = worker[v] /\ RunOf(v)' = RunOf(v)
  BY DEF TasksTypeOK, RunOf, TaskOf
<1>2. \A y : OnRecord(y) /\ ~OnRecord(y)' => y = x /\ worker[w].autoSent
  BY <1>1 DEF OnRecord
<1>3. \A y \in Hidden' : y \in Hidden \/ y = x
  BY <1>2 DEF Hidden
<1>4. faults' = faults => \A y \in Hidden' : y \in Hidden
  BY <1>2, <1>3 DEF Hidden, TasksTypeOK
<1>5. PICK H, K, f, g : H = Hidden /\ K = Hidden' /\ f = faults /\ g = faults'
  OBVIOUS
<1>6. f \in Nat /\ g \in Nat /\ IsFiniteSet(H) /\ Cardinality(H) <= f
  BY <1>5 DEF SentInv, TasksTypeOK
<1>7. \/ K \subseteq H /\ g >= f
      \/ K \subseteq H \union {x} /\ g = f + 1
  BY <1>3, <1>4, <1>5, <1>6
<1>8. IsFiniteSet(K) /\ Cardinality(K) <= g
  BY <1>6, <1>7, OneMore
<1>9. QED
  BY <1>5, <1>8 DEF SentInv

\* What a worker's step leaves true of the others when the runs stay.
LEMMA OthersTold ==
  ASSUME SentInv, TasksTypeOK, NEW w \in Workers, NEW job, worker' = [worker EXCEPT ![w] = job],
         runs' = runs, Told(w)'
  PROVE  \A v \in Workers : Told(v)'
<1>1. \A v \in Workers : v # w => worker'[v] = worker[v] /\ RunOf(v)' = RunOf(v)
  BY DEF TasksTypeOK, RunOf, TaskOf
<1>2. QED
  BY <1>1 DEF SentInv, Told

\* A worker that takes a task or lets go of one.
LEMMA ReleaseKeepsSent ==
  ASSUME TasksInv, SentInv, NEW w \in Workers, NEW job, worker' = [worker EXCEPT ![w] = job],
         job.autoSent = FALSE, job.phase \in {"idle", "taken"}, UNCHANGED <<runs, mails>>,
         faults' = faults + 1 \/ (faults' = faults /\ worker[w].phase \in {"idle", "taken", "saved"})
  PROVE  SentInv'
<1>1. TasksTypeOK /\ worker'[w] = job
  BY DEF TasksInv, TasksTypeOK
<1>2. Told(w)'
  BY <1>1 DEF Told, Working
<1>3. PICK x : x = RunOf(w)
  OBVIOUS
<1>4. worker[w].phase \in {"idle", "taken", "saved"} /\ worker[w].autoSent => OnRecord(x)'
  BY <1>3 DEF SentInv, Told, OnRecord
<1>5. \A v \in Workers : Told(v)'
  BY <1>1, <1>2, OthersTold
<1>6. QED
  BY <1>1, <1>3, <1>4, <1>5, SentAfter

LEMMA StartKeepsSent ==
  ASSUME TasksInv, SentInv, NEW w \in Workers, Start(w)
  PROVE  SentInv'
<1>1. PICK t, n, job, row :
        /\ t = TaskOf(w) /\ n = Starts(t) + 1
        /\ job = [worker[w] EXCEPT !.phase = "running", !.attempt = n]
        /\ row = [id |-> <<t, n>>, status |-> "running", autoSent |-> FALSE]
  OBVIOUS
<1>2. /\ worker[w].phase = "taken" /\ runs' = runs \union {row}
      /\ worker' = [worker EXCEPT ![w] = job] /\ mails' = mails /\ faults' = faults
  BY <1>1 DEF Start, Set, At, Starts, RunsOf
<1>3. TasksTypeOK /\ worker[w] \in Job /\ worker'[w] = job
      /\ \A v \in Workers : v # w => worker'[v] = worker[v] /\ RunOf(v)' = RunOf(v)
  BY <1>2 DEF TasksInv, TasksTypeOK, RunOf, TaskOf
<1>4. ~worker[w].autoSent
  BY <1>2 DEF SentInv, Told
<1>5. /\ job.phase = "running" /\ job.task = t /\ job.attempt = n /\ (job.autoSent <=> worker[w].autoSent)
  BY <1>1, <1>3 DEF Job, TaskOf
<1>6. RunOf(w)' = <<t, n>> /\ ~worker'[w].autoSent
  BY <1>3, <1>4, <1>5 DEF RunOf, TaskOf
<1>7. \A r \in runs : r.id # <<t, n>>
  <2>1. t \in Tasks /\ Starts(t) \in Nat
    BY <1>1, NextRun
  <2>2. \A r \in RunsOf(t) : r.id[2] \in 1..Starts(t)
    BY <2>1 DEF TasksInv, RunsNumbered
  <2>3. \A r \in runs : r.id = <<t, n>> => r \in RunsOf(t) /\ r.id[2] = n
    BY DEF RunsOf
  <2>4. n \notin 1..Starts(t)
    BY <1>1, <2>1
  <2>5. QED
    BY <2>2, <2>3, <2>4
<1>8. ~row.autoSent /\ row.id = <<t, n>>
  BY <1>1
<1>9. \A v \in Workers : Told(v)'
  <2>1. Told(w)'
    BY <1>2, <1>3, <1>5, <1>6, <1>7, <1>8 DEF Told
  <2>2. ASSUME NEW v \in Workers, v # w PROVE Told(v)'
    BY <1>2, <1>3, <1>8, <2>2 DEF SentInv, Told
  <2>3. QED
    BY <2>1, <2>2
<1>10. PICK x : x = RunOf(w)
  OBVIOUS
<1>11. QED
  BY <1>2, <1>3, <1>4, <1>9, <1>10, SentAfter

\* A step inside a run, with the runs as they are.
LEMMA RunStepKeepsSent ==
  ASSUME TasksInv, SentInv, NEW w \in Workers, NEW job, worker' = [worker EXCEPT ![w] = job],
         worker[w].phase \in {"running", "deciding", "sending"},
         job.task = worker[w].task, job.attempt = worker[w].attempt,
         job.phase \in {"deciding", "sending", "saving"}, runs' = runs,
         job.autoSent => job.phase = "saving",
         mails' = mails \/ mails' = mails \union {RunOf(w)},
         faults' = faults + 1 \/ (faults' = faults /\ (mails' # mails => job.autoSent))
  PROVE  SentInv'
<1>1. TasksTypeOK /\ worker'[w] = job
  BY DEF TasksInv, TasksTypeOK
<1>2. RunOf(w)' = RunOf(w)
  BY <1>1 DEF RunOf, TaskOf
<1>3. ~worker[w].autoSent
  BY DEF SentInv, Told
<1>4. Told(w)'
  BY <1>1, <1>2 DEF SentInv, Told, Working
<1>5. \A v \in Workers : Told(v)'
  BY <1>1, <1>4, OthersTold
<1>6. PICK x : x = RunOf(w)
  OBVIOUS
<1>7. job.autoSent => OnRecord(x)'
  BY <1>1, <1>2, <1>6 DEF OnRecord
<1>8. QED
  BY <1>1, <1>3, <1>5, <1>6, <1>7, SentAfter

LEMMA SaveKeepsSent ==
  ASSUME TasksInv, SentInv, NEW w \in Workers, Save(w)
  PROVE  SentInv'
<1>1. PICK x, job, a, t, n : /\ x = RunOf(w) /\ job = [worker[w] EXCEPT !.phase = "saved"]
                             /\ a = worker[w].autoSent /\ t = TaskOf(w) /\ n = worker[w].attempt
  OBVIOUS
<1>2. /\ worker[w].phase = "saving" /\ worker[w].phase \in Working
      /\ runs' = {Saved(r, w) : r \in runs} /\ worker' = [worker EXCEPT ![w] = job]
      /\ mails' = mails /\ faults' = faults
  BY <1>1 DEF Save, Set, At, Working
<1>3. TasksTypeOK /\ worker[w] \in Job /\ worker'[w] = job
      /\ \A v \in Workers : v # w => worker'[v] = worker[v] /\ RunOf(v)' = RunOf(v)
  BY <1>2 DEF TasksInv, TasksTypeOK, RunOf, TaskOf
<1>4. job.phase = "saved" /\ (job.autoSent <=> a) /\ job.task = worker[w].task /\ job.attempt = worker[w].attempt
  BY <1>1, <1>3 DEF Job
<1>5. RunOf(w)' = x
  BY <1>1, <1>3, <1>4 DEF RunOf, TaskOf
<1>6. \A r \in runs : /\ Saved(r, w).id = r.id
                      /\ r.id = x => (Saved(r, w).autoSent <=> a)
                      /\ r.id # x => Saved(r, w) = r
  <2> SUFFICES ASSUME NEW r \in runs
               PROVE  /\ Saved(r, w).id = r.id
                      /\ r.id = x => (Saved(r, w).autoSent <=> a)
                      /\ r.id # x => Saved(r, w) = r
    OBVIOUS
  <2>1. PICK s : s = worker[w].status
    OBVIOUS
  <2>2. r \in Run
    BY <1>3 DEF TasksTypeOK
  <2>3. Saved(r, w) = IF r.id = x THEN [r EXCEPT !.status = s, !.autoSent = a] ELSE r
    BY <1>1, <2>1 DEF Saved
  <2>4. [r EXCEPT !.status = s, !.autoSent = a].id = r.id
        /\ ([r EXCEPT !.status = s, !.autoSent = a].autoSent <=> a)
    BY <2>2 DEF Run
  <2>5. QED
    BY <2>3, <2>4
<1>7. \E r \in runs : r.id = x
  <2>1. t \in Tasks /\ n \in 1..Starts(t)
    BY <1>1, <1>2 DEF TasksInv, JobsOK, JobOK, At, Working
  <2>2. PICK r \in RunsOf(t) : r.id[2] = n
    BY <2>1 DEF TasksInv, RunsNumbered
  <2>3. r \in runs /\ r.id[1] = t /\ r \in Run
    BY <1>3, <2>2 DEF RunsOf, TasksTypeOK
  <2>4. r.id = <<t, n>>
    BY <2>2, <2>3 DEF Run, RunIds
  <2>5. QED
    BY <1>1, <2>3, <2>4 DEF RunOf
<1>8. \A r \in runs : r.id = x => ~r.autoSent
  BY <1>1, <1>2 DEF SentInv, Told
<1>9. \A r \in runs : r.autoSent => \E q \in runs' : q.id = r.id /\ q.autoSent
  BY <1>2, <1>6, <1>8
<1>10. a => \E q \in runs' : q.id = x /\ q.autoSent
  BY <1>2, <1>6, <1>7
<1>11. Told(w)'
  BY <1>3, <1>4, <1>5, <1>10 DEF Told
<1>12. ASSUME NEW v \in Workers, v # w PROVE Told(v)'
  <2>1. Told(v) /\ worker'[v] = worker[v] /\ RunOf(v)' = RunOf(v)
    BY <1>3, <1>12 DEF SentInv
  <2>2. worker[v].phase \in Working => RunOf(v) # x
    BY <1>1, <1>2, <1>12 DEF TasksInv, JobsOK
  <2>3. \A q \in runs' : q.id # x => q \in runs
    BY <1>2, <1>6
  <2>4. worker[v].phase \in Working \ {"saved"} => \A q \in runs' : q.id = RunOf(v) => ~q.autoSent
    BY <2>1, <2>2, <2>3 DEF Told
  <2>5. worker[v].phase = "saved" /\ worker[v].autoSent => \E q \in runs' : q.id = RunOf(v) /\ q.autoSent
    BY <1>9, <2>1 DEF Told
  <2>6. QED
    BY <2>1, <2>4, <2>5 DEF Told
<1>13. \A v \in Workers : Told(v)'
  BY <1>11, <1>12
<1>14. OnRecord(x)' \/ ~a
  BY <1>10 DEF OnRecord
<1>15. QED
  BY <1>1, <1>2, <1>3, <1>9, <1>13, <1>14, SentAfter

LEMMA SentInvNext ==
  ASSUME DeskInv, SentInv, [DeskNext]_deskVars
  PROVE  SentInv'
<1>0. TasksInv /\ TasksTypeOK /\ faults \in Nat
  BY DEF DeskInv, TasksInv, TasksTypeOK
<1>j. \A w \in Workers : worker[w] \in Job
  BY <1>0 DEF TasksTypeOK
<1>1. CASE \E t \in Tasks : CreateTask(t) \/ FinishDispatch(t) \/ DispatchFails(t) \/ Expire(t)
  BY <1>0, <1>1, SentKept DEF CreateTask, FinishDispatch, DispatchFails, Expire
<1>2. CASE \E w \in Workers, t \in Tasks : Take(w, t)
  <2>1. PICK w \in Workers, t \in Tasks : Take(w, t)
    BY <1>2
  <2>2. PICK job : job = [Idle EXCEPT !.task = t, !.phase = "taken"]
    OBVIOUS
  <2>3. job.phase = "taken" /\ job.autoSent = FALSE
    BY <2>2 DEF Idle
  <2>4. worker' = [worker EXCEPT ![w] = job] /\ UNCHANGED <<runs, mails, faults>> /\ worker[w].phase = "idle"
    BY <2>1, <2>2 DEF Take, Set, At
  <2>5. QED
    BY <1>0, <2>3, <2>4, ReleaseKeepsSent
<1>3. CASE \E w \in Workers : SkipMissing(w) \/ Return(w) \/ Abort(w) \/ LoseWorker(w)
  <2>1. PICK w \in Workers : SkipMissing(w) \/ Return(w) \/ Abort(w) \/ LoseWorker(w)
    BY <1>3
  <2>2. Idle.phase = "idle" /\ Idle.autoSent = FALSE
    BY DEF Idle
  <2>3. /\ worker' = [worker EXCEPT ![w] = Idle] /\ UNCHANGED <<runs, mails>>
        /\ faults' = faults + 1 \/ (faults' = faults /\ worker[w].phase \in {"idle", "taken", "saved"})
    BY <2>1 DEF SkipMissing, Return, Abort, LoseWorker, Acknowledge, Set, At
  <2>4. PICK job : job = Idle
    OBVIOUS
  <2>5. QED
    BY <1>0, <2>2, <2>3, <2>4, ReleaseKeepsSent
<1>4. CASE \E w \in Workers : Start(w)
  BY <1>0, <1>4, StartKeepsSent
<1>5. CASE \E w \in Workers : \/ RunAgent(w, "completed") \/ RunAgent(w, "failed")
                              \/ DecideToSend(w) \/ DraftForFounder(w) \/ LeaveDraft(w)
                              \/ SendReplyFails(w)
  <2>1. PICK w \in Workers : \/ RunAgent(w, "completed") \/ RunAgent(w, "failed")
                             \/ DecideToSend(w) \/ DraftForFounder(w) \/ LeaveDraft(w)
                             \/ SendReplyFails(w)
    BY <1>5
  <2>2. worker[w].phase \in {"running", "deciding", "sending"} /\ ~worker[w].autoSent
    BY <2>1 DEF RunAgent, DecideToSend, DraftForFounder, LeaveDraft, SendReplyFails, At, SentInv, Told
  <2>3. \E s \in {"completed", "failed"}, p \in {"deciding", "sending", "saving"} :
          \/ worker' = [worker EXCEPT ![w] = [worker[w] EXCEPT !.status = s, !.phase = p]]
          \/ worker' = [worker EXCEPT ![w] = [worker[w] EXCEPT !.phase = p]]
    BY <2>1 DEF RunAgent, DecideToSend, DraftForFounder, LeaveDraft, SendReplyFails, Set
  <2>4. PICK job : /\ worker' = [worker EXCEPT ![w] = job]
                   /\ job.task = worker[w].task /\ job.attempt = worker[w].attempt
                   /\ job.phase \in {"deciding", "sending", "saving"} /\ ~job.autoSent
    <3>1. PICK s \in {"completed", "failed"}, p \in {"deciding", "sending", "saving"} :
            \/ worker' = [worker EXCEPT ![w] = [worker[w] EXCEPT !.status = s, !.phase = p]]
            \/ worker' = [worker EXCEPT ![w] = [worker[w] EXCEPT !.phase = p]]
      BY <2>3
    <3>2. ASSUME NEW job, job \in {[worker[w] EXCEPT !.status = s, !.phase = p], [worker[w] EXCEPT !.phase = p]}
          PROVE  job.task = worker[w].task /\ job.attempt = worker[w].attempt
                 /\ job.phase = p /\ ~job.autoSent
      BY <1>j, <2>2, <3>2 DEF Job
    <3>3. QED
      BY <3>1, <3>2
  <2>5. /\ runs' = runs
        /\ mails' = mails \/ mails' = mails \union {RunOf(w)}
        /\ faults' = faults + 1 \/ (faults' = faults /\ mails' = mails)
    BY <2>1 DEF RunAgent, DecideToSend, DraftForFounder, LeaveDraft, SendReplyFails
  <2>6. QED
    BY <1>0, <2>2, <2>4, <2>5, RunStepKeepsSent
<1>6. CASE \E w \in Workers : SendReply(w)
  <2>1. PICK w \in Workers : SendReply(w)
    BY <1>6
  <2>2. PICK job : job = [worker[w] EXCEPT !.phase = "saving", !.autoSent = TRUE]
    OBVIOUS
  <2>3. /\ job.task = worker[w].task /\ job.attempt = worker[w].attempt
        /\ job.phase = "saving" /\ job.autoSent
    BY <1>j, <2>2 DEF Job
  <2>4. /\ worker' = [worker EXCEPT ![w] = job] /\ runs' = runs /\ faults' = faults
        /\ mails' = mails \union {RunOf(w)} /\ worker[w].phase = "sending"
    BY <2>1, <2>2 DEF SendReply, Set, At
  <2>5. QED
    BY <1>0, <2>3, <2>4, RunStepKeepsSent
<1>7. CASE \E w \in Workers : Save(w)
  BY <1>0, <1>7, SaveKeepsSent
<1>8. CASE \E q \in Requests : \/ \E d \in RunIds, verdict \in {"approved", "rejected"} : Open(q, d, verdict)
                               \/ SendDraft(q) \/ SendDraftFails(q) \/ ResolveDraft(q) \/ LoseRequest(q)
  <2>1. UNCHANGED <<runs, worker, mails>> /\ (faults' = faults \/ faults' = faults + 1)
    BY <1>8 DEF Open, SendDraft, SendDraftFails, ResolveDraft, LoseRequest, taskVars
  <2>2. QED
    BY <1>0, <2>1, SentKept
<1>9. CASE UNCHANGED deskVars
  BY <1>0, <1>9, SentKept DEF deskVars, taskVars
<1>10. QED
  BY <1>1, <1>2, <1>3, <1>4, <1>5, <1>6, <1>7, <1>8, <1>9 DEF DeskNext, TasksNext, WorkerStep

\* Whatever is lost, redelivered or timed out, no more replies are unknown to the
\* runs and the workers than there were faults: run_agent_task saves what it sent.
THEOREM DeskSentIsRecorded == DeskSpec => []SentIsRecorded
<1>1. DeskInit => SentInv
  <2> SUFFICES ASSUME DeskInit PROVE SentInv
    OBVIOUS
  <2>1. Hidden = {} /\ faults = 0
    BY DEF DeskInit, TasksInit, Hidden
  <2>2. \A w \in Workers : Told(w)
    BY DEF DeskInit, TasksInit, Told, Idle, Working
  <2>3. QED
    BY <2>1, <2>2, FS_EmptySet DEF SentInv
<1>2. DeskInv /\ SentInv /\ [DeskNext]_deskVars => SentInv'
  BY SentInvNext
<1>3. SentInv => SentIsRecorded
  BY DEF SentInv, SentIsRecorded, Hidden
<1>4. QED
  BY <1>1, <1>2, <1>3, DeskHolds, PTL DEF DeskSpec
==============================================================================
