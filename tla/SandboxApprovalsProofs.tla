------------------------ MODULE SandboxApprovalsProofs ------------------------
(***************************************************************************)
(* What the founder can rely on: verdicts that are final, one open request *)
(* per action, a row and a log that tell one story (HistoryInv), RED       *)
(* decisions carried out on a verdict only and effects only once           *)
(* (EffectsInv), and an instance that is, when the approval is carried     *)
(* out, as the founder saw it (SeenInv).                                   *)
(*                                                                         *)
(* A commit changes one row and adds one event; what it may be is          *)
(* CommitCases, whose five cases each of these invariants goes through.    *)
(***************************************************************************)
EXTENDS SandboxCallsProofs

-----------------------------------------------------------------------------
(* Verdicts and requests. *)

\* What a commit leaves of a row that is there.
LEMMA RowKept ==
  ASSUME CallsInv, NEW c \in Clients, call[c] # None, pc[c] = "flushed", Approval(c) # None
  PROVE  /\ Recorded(c) # None
         /\ Recorded(c).inst = Approval(c).inst /\ Recorded(c).request = Approval(c).request
         /\ Recorded(c).native = Approval(c).native /\ Recorded(c).version = Approval(c).version
         /\ IsOpen(Recorded(c)) => IsOpen(Approval(c))
         /\ Approval(c).status # "pending" =>
              /\ Recorded(c).status = Approval(c).status
              /\ Recorded(c).effective = Approval(c).effective
              /\ Recorded(c).resolution = Approval(c).resolution
              /\ Recorded(c).manual = Approval(c).manual
         /\ Approval(c).resumed => Recorded(c) = Approval(c)
<1>1. RowOK(Target(c), Approval(c)) /\ None \notin ApprovalRow
  BY CommitCases, NoneAssumption DEF CallsInv, RowsOK, Approval
<1>2. CASE LeavesRow(c)
  BY <1>1, <1>2 DEF LeavesRow
<1>3. CASE GivesVerdict(c)
  <2>1. ~Approval(c).resumed
    BY <1>1, <1>3 DEF GivesVerdict, RowOK, Executable
  <2>2. Recorded(c) \in ApprovalRow
    <3>1. /\ call[c].native \in Natives /\ call[c].manual \in BOOLEAN
          /\ req[c].key \in ResolutionKeys /\ call[c].status \in Verdicts
      BY <1>3, KindsTold DEF GivesVerdict, FounderOK, Call, ResolveOK
    <3>2. QED
      BY <1>1, <1>3, <3>1 DEF GivesVerdict, RowOK, ApprovalRow
  <2>3. QED
    BY <1>1, <1>3, <2>1, <2>2 DEF GivesVerdict, RowOK, ApprovalRow, IsOpen
<1>4. CASE MarksExecution(c)
  <2>1. Recorded(c) \in ApprovalRow
    BY <1>1, <1>4 DEF MarksExecution, RowOK, ApprovalRow
  <2>2. QED
    BY <1>1, <1>4, <2>1 DEF MarksExecution, RowOK, ApprovalRow, IsOpen
<1>5. CASE CountsFailure(c)
  <2>1. Recorded(c) \in ApprovalRow
    BY <1>1, <1>5, MaxFailuresAssumption DEF CountsFailure, RowOK, ApprovalRow
  <2>2. QED
    BY <1>1, <1>5, <2>1 DEF CountsFailure, RowOK, ApprovalRow, IsOpen
<1>6. ~Inserts(c)
  BY DEF Inserts
<1>7. QED
  BY <1>2, <1>3, <1>4, <1>5, <1>6, CommitCases

\* Only a commit writes the tables, and only an adapter acts.
LEMMA WhoWrites ==
  ASSUME [ApprovalsNext]_allVars
  PROVE  \/ UNCHANGED <<approvals, events, inst, acted>>
         \/ \E c \in Clients : CommitCall(c)
<1> DEFINE Quiet == UNCHANGED <<approvals, events, inst, acted>>
<1>1. ASSUME UNCHANGED approvalVars, UNCHANGED ledgerVars PROVE Quiet
  BY <1>1 DEF approvalVars, ledgerVars
<1>2. ASSUME NEW r \in Runs, CreateSandboxRun(r), UNCHANGED approvalVars PROVE Quiet
  BY <1>2 DEF CreateSandboxRun, CreateRun, approvalVars
<1>3. ASSUME NEW i \in Instances, CreateWorkflowInstance(i), UNCHANGED approvalVars PROVE Quiet
  BY <1>3 DEF CreateWorkflowInstance, CreateInstance, approvalVars
<1>4. ASSUME NEW c \in Clients, NEW q, NEW d, Coordinate(c, q, d) PROVE Quiet
  BY <1>4 DEF Coordinate, OpenLoaded, ledgerVars
<1>5. ASSUME NEW c \in Clients, NEW a, NEW key, NEW r, OpenFounderCall(c, a, key, r) PROVE Quiet
  BY <1>5 DEF OpenFounderCall, OpenFresh, ledgerVars
<1>6. ASSUME NEW c \in Clients, NEW a, NEW key, NEW status, NEW n, NEW manual,
             Resolve(c, a, key, status, n, manual) \/ Resume(c, a)
      PROVE  Quiet
  BY <1>5, <1>6 DEF Resolve, Resume
<1>7. ASSUME NEW c \in Clients, NEW a, Ask(c, a) \/ GiveUp(c) \/ Decide(c) \/ RunAdapter(c)
      PROVE  Quiet
  BY <1>7 DEF Ask, GiveUp, Decide, RunAdapter, vars, ledgerVars
<1>8. ASSUME NEW c \in Clients, LockInstanceForCall(c) \/ LockRunForCall(c) \/ AppendForCall(c)
      PROVE  Quiet
  BY <1>8 DEF LockInstanceForCall, LockRunForCall, AppendForCall, LockInstance, LockRun,
     AppendEvent, ledgerVars, approvalVars
<1>9. ASSUME NEW c \in Clients, Answer(c) \/ RejectCall(c) \/ RollbackCall(c) PROVE Quiet
  BY <1>9 DEF Answer, RejectCall, RollbackCall, Rollback, Reject, ledgerVars
<1>10. CASE UNCHANGED allVars
  BY <1>10 DEF allVars, vars, ledgerVars, approvalVars
<1> HIDE DEF Quiet
<1>11. ASSUME ApprovalsNext, ~\E c \in Clients : CommitCall(c) PROVE Quiet
  BY <1>2, <1>3, <1>4, <1>6, <1>7, <1>8, <1>9, <1>11, Zenon DEF ApprovalsNext
<1>12. QED
  BY <1>10, <1>11 DEF Quiet

\* A commit writes one row.
LEMMA CommitWritesRow ==
  ASSUME CallsInv, NEW c \in Clients, CommitCall(c)
  PROVE  /\ call[c] # None /\ pc[c] = "flushed" /\ Target(c) \in Approvals
         /\ approvals'[Target(c)] = Recorded(c) /\ Approval(c) = approvals[Target(c)]
         /\ \A a \in Approvals : a # Target(c) => approvals'[a] = approvals[a]
<1>1. call[c] # None /\ pc[c] = "flushed"
  BY DEF CommitCall, Commit
<1>2. Target(c) \in Approvals
  BY <1>1, CommitCases
<1>3. QED
  BY <1>1, <1>2 DEF CommitCall, CallsInv, RowsOK, Approval

\* Rows stay; a verdict and what it covers stay with them; an executed row is final.
LEMMA RowsStay ==
  ASSUME CallsInv, [ApprovalsNext]_allVars, NEW a \in Approvals, approvals[a] # None
  PROVE  /\ approvals'[a] # None
         /\ approvals'[a].request = approvals[a].request
         /\ approvals'[a].inst = approvals[a].inst /\ approvals'[a].version = approvals[a].version
         /\ approvals[a].status # "pending" =>
              /\ approvals'[a].status = approvals[a].status
              /\ approvals'[a].effective = approvals[a].effective
              /\ approvals'[a].resolution = approvals[a].resolution
              /\ approvals'[a].manual = approvals[a].manual
         /\ approvals[a].resumed => approvals'[a] = approvals[a]
<1>1. ASSUME NEW c \in Clients, CommitCall(c), a # Target(c) PROVE approvals'[a] = approvals[a]
  BY <1>1, CommitWritesRow
<1>2. ASSUME NEW c \in Clients, CommitCall(c), a = Target(c)
      PROVE  /\ call[c] # None /\ pc[c] = "flushed" /\ Approval(c) # None
             /\ approvals'[a] = Recorded(c) /\ approvals[a] = Approval(c)
  BY <1>2, CommitWritesRow
<1>3. CASE approvals' = approvals
  BY <1>3
<1>4. QED
  BY <1>1, <1>2, <1>3, WhoWrites, RowKept

\* A verdict is given once and an execution is not taken back, whatever calls
\* race: the approval's row lock is held from the read to the commit.
THEOREM ApprovalsVerdictIsFinal == ApprovalsSpec => VerdictIsFinal
<1>1. ASSUME CallsInv, [ApprovalsNext]_allVars
      PROVE  \A a \in Approvals : approvals[a] # None =>
               /\ approvals'[a] # None
               /\ approvals[a].status # "pending" =>
                    /\ approvals'[a].status = approvals[a].status
                    /\ approvals'[a].effective = approvals[a].effective
               /\ approvals[a].resumed => approvals'[a] = approvals[a]
  BY <1>1, RowsStay
<1>2. QED
  BY <1>1, CallsInvariant, PTL DEF ApprovalsSpec, VerdictIsFinal

\* No action of an instance has two unresolved requests: the query for one is
\* made under the run's lock, so the partial unique index is never needed.
THEOREM ApprovalsOneOpenRequest == ApprovalsSpec => []OneOpenRequest
<1>1. ApprovalsInit => OneOpenRequest
  BY DEF ApprovalsInit, OneOpenRequest, IsOpen
<1>2. ASSUME CallsInv, OneOpenRequest, [ApprovalsNext]_allVars PROVE OneOpenRequest'
  <2>1. CASE approvals' = approvals
    BY <1>2, <2>1 DEF OneOpenRequest
  <2>2. ASSUME NEW c \in Clients, CommitCall(c) PROVE OneOpenRequest'
    <3>1. /\ call[c] # None /\ pc[c] = "flushed" /\ Target(c) \in Approvals
          /\ approvals'[Target(c)] = Recorded(c) /\ Approval(c) = approvals[Target(c)]
          /\ \A a \in Approvals : a # Target(c) => approvals'[a] = approvals[a]
      BY <1>2, <2>2, CommitWritesRow
    <3>2. CASE Approval(c) # None
      <4>1. \A a \in Approvals : IsOpen(approvals'[a]) =>
              /\ IsOpen(approvals[a])
              /\ approvals'[a].inst = approvals[a].inst
              /\ approvals'[a].native = approvals[a].native
        BY <1>2, <3>1, <3>2, RowKept
      <4>2. QED
        BY <1>2, <4>1 DEF OneOpenRequest
    <3>3. CASE Approval(c) = None
      <4>1. ASSUME Inserts(c) PROVE OneOpenRequest'
        <5>1. /\ Recorded(c).inst = Instance(c) /\ Recorded(c).native = call[c].native
              /\ ~Outstanding(Instance(c), call[c].native.action)
          BY <1>2, <3>1, <4>1, KindsTold DEF Inserts, NewApproval, CoordinatorOK, RequestIsNew
        <5>2. \A a \in Approvals : IsOpen(approvals'[a]) /\ a # Target(c) =>
                /\ IsOpen(approvals[a]) /\ approvals'[a] = approvals[a]
                /\ ~(approvals[a].inst = Instance(c) /\ approvals[a].native.action = call[c].native.action)
          BY <3>1, <5>1 DEF Outstanding
        <5>3. QED
          BY <1>2, <3>1, <5>1, <5>2 DEF OneOpenRequest
      <4>2. ASSUME LeavesRow(c) PROVE OneOpenRequest'
        <5>1. \A a \in Approvals : approvals'[a] = approvals[a]
          BY <3>1, <4>2 DEF LeavesRow
        <5>2. QED
          BY <1>2, <5>1 DEF OneOpenRequest
      <4>3. QED
        BY <1>2, <3>1, <3>3, <4>1, <4>2, CommitCases DEF GivesVerdict, MarksExecution, CountsFailure
    <3>4. QED
      BY <3>2, <3>3
  <2>3. QED
    BY <1>2, <2>1, <2>2, WhoWrites
<1>3. QED
  BY <1>1, <1>2, CallsInvariant, PTL DEF ApprovalsSpec

-----------------------------------------------------------------------------
(* The log. *)

\* The events of an approval's follow-ups: its execution and its failed attempts.
Executed(a) == EventAt(a[1], ResumeKey(a)) # {}
Failed(a) == {n \in 1..MaxFailures : EventAt(a[1], FailureKey(a, n)) # {}}

\* A row and its events agree, and the verdict stands before the execution.
Logged(a, row) ==
  /\ KindAt(a, row.request) = {"approval_requested"}
  /\ KindAt(a, row.resolution) = IF row.status = "pending" THEN {} ELSE {"approval_resolved"}
  /\ row.resumed <=> Executed(a)
  /\ Failed(a) = 1..row.failures
  /\ Before(a, row.resolution, ResumeKey(a))

\* What is not there has not been followed up.
Unlogged(a) == ~Executed(a) /\ Failed(a) = {}

\* All rows agree with the log, and the log with the rows.
RowsLogged ==
  \A a \in Approvals : IF approvals[a] = None THEN Unlogged(a) ELSE Logged(a, approvals[a])

EventsHaveRows ==
  \A e \in events : e.type \in {"approval_requested", "approval_resolved"} =>
    \E a \in Approvals :
      approvals[a] # None /\ e.key \in {approvals[a].request, approvals[a].resolution}

HistoryInv == RowsLogged /\ EventsHaveRows

\* A commit adds one event, at a key that its run did not have.
LEMMA CommitAddsEvent ==
  ASSUME CallsInv, NEW c \in Clients, CommitCall(c)
  PROVE  /\ events' = events \union {pend[c]}
         /\ pend[c] \in Event /\ pend[c].key = req[c].key
         /\ RunOf[pend[c].inst] = Run(c) /\ pend[c].inst = Instance(c)
         /\ EventAt(Run(c), req[c].key) = {}
         /\ \A f \in RunEvents(Run(c)) : f.seq < pend[c].seq
         /\ pend[c].type = "approval_requested" <=> call[c].plan = "request"
         /\ pend[c].type = "approval_resolved" <=> call[c].kind = "resolve"
<1>1. /\ call[c] # None /\ pc[c] = "flushed" /\ events' = events \union {pend[c]}
  BY DEF CommitCall, Commit
<1>2. SessionOK(c) /\ BaseInv /\ LocksHeld /\ PendingOK(c)
  BY <1>1, KindsTold DEF CallsInv, SessionsInv, TablesInv, CallOK
<1>3. /\ pend[c] \in Event /\ pend[c].inst = Instance(c) /\ pend[c].seq = NextSequence(Run(c))
      /\ ~Delivered(Run(c), pend[c].id, pend[c].key)
      /\ RunOf[pend[c].inst] = Run(c)
  BY <1>1, <1>2 DEF SessionOK, IsNumbered, Run
<1>4. Run(c) \in Runs
  BY <1>1, <1>2, CarriesRequest
<1>5. \A f \in RunEvents(Run(c)) : f.seq < pend[c].seq
  BY <1>2, <1>3, <1>4, NextSequenceFresh DEF RunEvents
<1>6. EventAt(Run(c), pend[c].key) = {}
  BY <1>3 DEF EventAt, Delivered, Names
<1>7. QED
  BY <1>1, <1>2, <1>3, <1>5, <1>6 DEF PendingOK

\* Which is where the log changes.
LEMMA EventAtAfter ==
  ASSUME CallsInv, NEW c \in Clients, CommitCall(c), NEW r, NEW key
  PROVE  EventAt(r, key)' = IF r = Run(c) /\ key = req[c].key THEN {pend[c]} ELSE EventAt(r, key)
<1>1. /\ events' = events \union {pend[c]} /\ pend[c].key = req[c].key
      /\ RunOf[pend[c].inst] = Run(c) /\ EventAt(Run(c), req[c].key) = {}
  BY CommitAddsEvent
<1>2. EventAt(r, key)' = {e \in events' : RunOf[e.inst] = r /\ e.key = key}
  BY DEF EventAt, RunEvents
<1>3. EventAt(r, key) = {e \in events : RunOf[e.inst] = r /\ e.key = key}
  BY DEF EventAt, RunEvents
<1>4. CASE r = Run(c) /\ key = req[c].key
  BY <1>1, <1>2, <1>3, <1>4
<1>5. CASE ~(r = Run(c) /\ key = req[c].key)
  BY <1>1, <1>2, <1>3, <1>5
<1>6. QED
  BY <1>4, <1>5

\* No event is without a key.
LEMMA NothingAtNone ==
  ASSUME CallsInv, NEW r
  PROVE  EventAt(r, None) = {}
BY NoneAssumption DEF CallsInv, SessionsInv, TablesInv, BaseInv, LedgerTypeOK, Event, EventAt, RunEvents

\* Where no key of an approval is used, its row and its events still agree.
LEMMA LoggedKept ==
  ASSUME NEW a \in Approvals, NEW row,
         EventAt(a[1], row.request)' = EventAt(a[1], row.request),
         EventAt(a[1], row.resolution)' = EventAt(a[1], row.resolution),
         EventAt(a[1], ResumeKey(a))' = EventAt(a[1], ResumeKey(a)),
         \A n \in 1..MaxFailures : EventAt(a[1], FailureKey(a, n))' = EventAt(a[1], FailureKey(a, n))
  PROVE  /\ Logged(a, row) => Logged(a, row)'
         /\ Unlogged(a) => Unlogged(a)'
BY DEF Logged, Unlogged, KindAt, Executed, Failed, Before

\* A commit whose key is no follow-up of the approval does not disturb it.
LEMMA OtherLogged ==
  ASSUME CallsInv, NEW c \in Clients, CommitCall(c), NEW a \in Approvals,
         approvals'[a] = approvals[a],
         req[c].key # ResumeKey(a), \A n \in 1..MaxFailures : req[c].key # FailureKey(a, n)
  PROVE  /\ approvals[a] # None /\ Logged(a, approvals[a]) => Logged(a, approvals[a])'
         /\ Unlogged(a) => Unlogged(a)'
<1> PICK row : row = approvals[a]
  OBVIOUS
<1>1. /\ EventAt(a[1], ResumeKey(a))' = EventAt(a[1], ResumeKey(a))
      /\ \A n \in 1..MaxFailures : EventAt(a[1], FailureKey(a, n))' = EventAt(a[1], FailureKey(a, n))
  BY EventAtAfter
<1>2. Unlogged(a) => Unlogged(a)'
  BY <1>1 DEF Unlogged, Executed, Failed
<1>3. ASSUME row # None, Logged(a, row) PROVE Logged(a, row)'
  <2>1. EventAt(Run(c), req[c].key) = {} /\ call[c] # None /\ pc[c] = "flushed"
    BY CommitAddsEvent, CommitWritesRow
  <2>2. EventAt(a[1], row.request) # {}
    BY <1>3 DEF Logged, KindAt
  <2>3. EventAt(a[1], row.request)' = EventAt(a[1], row.request)
    BY <2>1, <2>2, EventAtAfter
  <2>4. RowOK(a, row)
    BY <1>3 DEF CallsInv, RowsOK
  <2>5. EventAt(a[1], row.resolution)' = EventAt(a[1], row.resolution)
    <3>1. CASE row.status = "pending"
      <4>1. row.resolution = None
        BY <2>4, <3>1 DEF RowOK
      <4>2. req[c].key # None
        BY <2>1, CarriesRequest, NoneAssumption DEF CallsInv, SessionsInv
      <4>3. QED
        BY <4>1, <4>2, EventAtAfter
    <3>2. CASE row.status # "pending"
      <4>1. EventAt(a[1], row.resolution) # {}
        BY <1>3, <3>2 DEF Logged, KindAt
      <4>2. QED
        BY <2>1, <4>1, EventAtAfter
    <3>3. QED
      BY <3>1, <3>2
  <2>6. QED
    BY <1>1, <1>3, <2>3, <2>5, LoggedKept
<1>4. Logged(a, approvals[a])' <=> Logged(a, row)'
  BY DEF Logged, Before, KindAt
<1>5. Logged(a, approvals[a]) <=> Logged(a, row)
  OBVIOUS
<1>6. QED
  BY <1>2, <1>3, <1>4, <1>5

\* Which key a call's event has.
LEMMA CommitKeys ==
  ASSUME CallsInv, NEW c \in Clients, CommitCall(c)
  PROVE  /\ Inserts(c) \/ LeavesRow(c) => req[c].key \in DeliveryKeys
         /\ GivesVerdict(c) => req[c].key \in ResolutionKeys
         /\ MarksExecution(c) => req[c].key = ResumeKey(Target(c))
         /\ CountsFailure(c) =>
              /\ Approval(c).failures + 1 \in 1..MaxFailures
              /\ req[c].key = FailureKey(Target(c), Approval(c).failures + 1)
<1>1. /\ call[c] # None /\ pc[c] = "flushed" /\ Target(c) \in Approvals
      /\ Approval(c) = approvals[Target(c)]
  BY CommitWritesRow
<1>2. Inserts(c) \/ LeavesRow(c) => req[c].key \in DeliveryKeys
  BY <1>1, KindsTold DEF Inserts, LeavesRow, CoordinatorOK
<1>3. CountsFailure(c) => Approval(c).failures + 1 \in 1..MaxFailures
  <2>1. Approval(c) # None => Approval(c).failures \in 0..MaxFailures
    BY <1>1 DEF CallsInv, RowsOK, RowOK, ApprovalRow
  <2>2. QED
    BY <2>1, MaxFailuresAssumption DEF CountsFailure
<1>4. QED
  BY <1>2, <1>3 DEF GivesVerdict, MarksExecution, CountsFailure, ResolveOK

\* The approval of the call, case by case.
LEMMA InsertLogged ==
  ASSUME CallsInv, NEW c \in Clients, CommitCall(c), Inserts(c),
         NEW a, a = Target(c), NEW row, row = NewApproval(c), Unlogged(a)
  PROVE  Logged(a, row)'
<1>1. a \in Approvals /\ a[1] = Run(c) /\ req[c].key \in DeliveryKeys
  BY CommitWritesRow, CommitCases, CommitKeys
<1>2. /\ row.request = req[c].key /\ row.status = "pending" /\ row.resolution = None
      /\ ~row.resumed /\ row.failures = 0
  BY DEF NewApproval
<1>3. EventAt(a[1], row.request)' = {pend[c]} /\ pend[c].type = "approval_requested"
  BY <1>1, <1>2, EventAtAfter, CommitAddsEvent DEF Inserts
<1>4. req[c].key # None
  BY <1>1, KeysAssumption, NoneAssumption
<1>5. EventAt(a[1], row.resolution)' = {}
  BY <1>2, <1>4, EventAtAfter, NothingAtNone
<1>6. /\ EventAt(a[1], ResumeKey(a))' = EventAt(a[1], ResumeKey(a))
      /\ \A n \in 1..MaxFailures : EventAt(a[1], FailureKey(a, n))' = EventAt(a[1], FailureKey(a, n))
  BY <1>1, EventAtAfter, KeysApart
<1>7. EventAt(a[1], ResumeKey(a))' = {} /\ Failed(a)' = {}
  BY <1>6 DEF Unlogged, Executed, Failed
<1>8. QED
  BY <1>2, <1>3, <1>5, <1>7 DEF Logged, KindAt, Executed, Before

LEMMA VerdictLogged ==
  ASSUME CallsInv, NEW c \in Clients, CommitCall(c), GivesVerdict(c),
         NEW a, a = Target(c), NEW old, old = approvals[a], NEW row, row = Recorded(c),
         Logged(a, old)
  PROVE  Logged(a, row)'
<1>1. /\ a \in Approvals /\ a[1] = Run(c) /\ req[c].key \in ResolutionKeys
      /\ old = Approval(c)
  BY CommitWritesRow, CommitCases, CommitKeys
<1>2. RowOK(a, old) /\ old.status = "pending" /\ call[c].status \in Verdicts
  BY <1>1 DEF CallsInv, RowsOK, GivesVerdict, ResolveOK
<1>3. /\ row.request = old.request /\ row.status = call[c].status /\ row.resolution = req[c].key
      /\ row.resumed = old.resumed /\ row.failures = old.failures
  BY <1>1, <1>2 DEF GivesVerdict, RowOK, ApprovalRow
<1>4. row.status # "pending" /\ ~old.resumed
  BY <1>2, <1>3, VerdictsAssumption DEF RowOK, Executable
<1>5. /\ EventAt(a[1], row.resolution)' = {pend[c]} /\ pend[c].type = "approval_resolved"
  BY <1>1, <1>3, EventAtAfter, CommitAddsEvent DEF GivesVerdict
<1>6. EventAt(a[1], row.request)' = EventAt(a[1], row.request)
  <2>1. EventAt(Run(c), req[c].key) = {} /\ EventAt(a[1], row.request) # {}
    BY <1>3, CommitAddsEvent DEF Logged, KindAt
  <2>2. QED
    BY <2>1, EventAtAfter
<1>7. /\ EventAt(a[1], ResumeKey(a))' = EventAt(a[1], ResumeKey(a))
      /\ \A n \in 1..MaxFailures : EventAt(a[1], FailureKey(a, n))' = EventAt(a[1], FailureKey(a, n))
  BY <1>1, EventAtAfter, KeysApart
<1>8. EventAt(a[1], ResumeKey(a)) = {}
  BY <1>4 DEF Logged, Executed
<1>9. Failed(a)' = Failed(a)
  BY <1>7 DEF Failed
<1>10. QED
  BY <1>3, <1>4, <1>5, <1>6, <1>7, <1>8, <1>9 DEF Logged, KindAt, Executed, Before

LEMMA ExecutionLogged ==
  ASSUME CallsInv, NEW c \in Clients, CommitCall(c), MarksExecution(c),
         NEW a, a = Target(c), NEW old, old = approvals[a], NEW row, row = Recorded(c),
         Logged(a, old)
  PROVE  Logged(a, row)'
<1>1. /\ a \in Approvals /\ a[1] = Run(c) /\ req[c].key = ResumeKey(a)
      /\ old = Approval(c)
  BY CommitWritesRow, CommitCases, CommitKeys
<1>2. RowOK(a, old) /\ old.status # "pending"
  BY <1>1, VerdictsAssumption DEF CallsInv, RowsOK, MarksExecution, Executable
<1>3. /\ row.request = old.request /\ row.status = old.status /\ row.resolution = old.resolution
      /\ row.resumed /\ row.failures = old.failures
  BY <1>1, <1>2 DEF MarksExecution, RowOK, ApprovalRow
<1>4. EventAt(a[1], ResumeKey(a))' = {pend[c]}
  BY <1>1, EventAtAfter
<1>5. /\ EventAt(a[1], row.request)' = EventAt(a[1], row.request)
      /\ EventAt(a[1], row.resolution)' = EventAt(a[1], row.resolution)
  <2>1. /\ EventAt(Run(c), req[c].key) = {}
        /\ EventAt(a[1], row.request) # {} /\ EventAt(a[1], row.resolution) # {}
    BY <1>2, <1>3, CommitAddsEvent DEF Logged, KindAt
  <2>2. QED
    BY <2>1, EventAtAfter
<1>6. \A n \in 1..MaxFailures : EventAt(a[1], FailureKey(a, n))' = EventAt(a[1], FailureKey(a, n))
  BY <1>1, EventAtAfter, KeysApart
<1>7. Failed(a)' = Failed(a)
  BY <1>6 DEF Failed
<1>8. \A e \in EventAt(a[1], row.resolution) : e.seq < pend[c].seq
  BY <1>1, CommitAddsEvent DEF EventAt
<1>9. QED
  BY <1>2, <1>3, <1>4, <1>5, <1>7, <1>8 DEF Logged, KindAt, Executed, Before

LEMMA FailureLogged ==
  ASSUME CallsInv, NEW c \in Clients, CommitCall(c), CountsFailure(c),
         NEW a, a = Target(c), NEW old, old = approvals[a], NEW row, row = Recorded(c),
         Logged(a, old)
  PROVE  Logged(a, row)'
<1> PICK m : m = old.failures + 1
  OBVIOUS
<1>1. /\ a \in Approvals /\ a[1] = Run(c) /\ old = Approval(c)
      /\ m \in 1..MaxFailures /\ req[c].key = FailureKey(a, m)
  BY CommitWritesRow, CommitCases, CommitKeys
<1>2. RowOK(a, old) /\ old.status # "pending" /\ old.failures \in 0..MaxFailures
  <2>1. RowOK(a, old) /\ old.status # "pending"
    BY <1>1 DEF CallsInv, RowsOK, CountsFailure, Executable
  <2>2. QED
    BY <2>1 DEF RowOK, ApprovalRow
<1>3. /\ row.request = old.request /\ row.status = old.status /\ row.resolution = old.resolution
      /\ row.resumed = old.resumed /\ row.failures = m
  BY <1>1, <1>2 DEF CountsFailure, RowOK, ApprovalRow
<1>4. EventAt(a[1], ResumeKey(a))' = EventAt(a[1], ResumeKey(a))
  BY <1>1, EventAtAfter, KeysApart
<1>5. /\ EventAt(a[1], row.request)' = EventAt(a[1], row.request)
      /\ EventAt(a[1], row.resolution)' = EventAt(a[1], row.resolution)
  <2>1. /\ EventAt(Run(c), req[c].key) = {}
        /\ EventAt(a[1], row.request) # {} /\ EventAt(a[1], row.resolution) # {}
    BY <1>2, <1>3, CommitAddsEvent DEF Logged, KindAt
  <2>2. QED
    BY <2>1, EventAtAfter
<1>6. \A n \in 1..MaxFailures :
        EventAt(a[1], FailureKey(a, n))' = IF n = m THEN {pend[c]} ELSE EventAt(a[1], FailureKey(a, n))
  <2> SUFFICES ASSUME NEW n \in 1..MaxFailures
               PROVE  EventAt(a[1], FailureKey(a, n))' =
                        IF n = m THEN {pend[c]} ELSE EventAt(a[1], FailureKey(a, n))
    OBVIOUS
  <2>1. FailureKey(a, n) = FailureKey(a, m) => n = m
    BY DEF FailureKey
  <2>2. CASE n = m
    BY <1>1, <2>2, EventAtAfter
  <2>3. CASE n # m
    BY <1>1, <2>1, <2>3, EventAtAfter
  <2>4. QED
    BY <2>2, <2>3
<1>7. Failed(a)' = Failed(a) \union {m}
  BY <1>1, <1>6 DEF Failed
<1>8. Failed(a)' = 1..row.failures
  <2>1. Failed(a) = 1..old.failures
    BY DEF Logged
  <2>2. 1..m = 1..old.failures \union {m}
    BY <1>2, MaxFailuresAssumption
  <2>3. QED
    BY <1>3, <1>7, <2>1, <2>2
<1>9. Executed(a)' <=> Executed(a)
  BY <1>4 DEF Executed
<1>10. KindAt(a, row.request)' = {"approval_requested"}
  BY <1>3, <1>5 DEF Logged, KindAt
<1>11. KindAt(a, row.resolution)' = IF row.status = "pending" THEN {} ELSE {"approval_resolved"}
  BY <1>3, <1>5 DEF Logged, KindAt
<1>12. Before(a, row.resolution, ResumeKey(a))'
  BY <1>3, <1>4, <1>5 DEF Logged, Before
<1>13. row.resumed <=> Executed(a)'
  BY <1>3, <1>9 DEF Logged
<1>14. QED
  BY <1>8, <1>10, <1>11, <1>12, <1>13 DEF Logged

\* What a request inserts is a row.
LEMMA InsertedIsRow ==
  ASSUME CallsInv, NEW c \in Clients, call[c] # None, pc[c] = "flushed", Inserts(c)
  PROVE  Recorded(c) # None
<1>1. call[c].native \in Natives /\ req[c].key \in DeliveryKeys /\ Instance(c) \in Instances
  BY KindsTold, CarriesRequest DEF CallsInv, SessionsInv, Inserts, CoordinatorOK
<1>2. view[c] \in Row
  BY DEF CallsInv, SessionsInv, SessionOK, SeesRow
<1>3. NewApproval(c) \in ApprovalRow
  BY <1>1, <1>2, MaxFailuresAssumption DEF NewApproval, ApprovalRow, Row
<1>4. QED
  BY <1>3, NoneAssumption DEF Inserts

LEMMA RowsLoggedNext ==
  ASSUME CallsInv, RowsLogged, NEW c \in Clients, CommitCall(c)
  PROVE  RowsLogged'
<1> SUFFICES ASSUME NEW a \in Approvals
             PROVE  IF approvals'[a] = None THEN Unlogged(a)' ELSE Logged(a, approvals[a])'
  BY DEF RowsLogged
<1>1. /\ call[c] # None /\ pc[c] = "flushed" /\ Target(c) \in Approvals
      /\ Approval(c) = approvals[Target(c)]
      /\ approvals'[Target(c)] = Recorded(c)
      /\ \A b \in Approvals : b # Target(c) => approvals'[b] = approvals[b]
      /\ Inserts(c) \/ LeavesRow(c) \/ GivesVerdict(c) \/ MarksExecution(c) \/ CountsFailure(c)
  BY CommitWritesRow, CommitCases
<1>2. ASSUME approvals'[a] = approvals[a], req[c].key # ResumeKey(a),
             \A n \in 1..MaxFailures : req[c].key # FailureKey(a, n)
      PROVE  IF approvals'[a] = None THEN Unlogged(a)' ELSE Logged(a, approvals[a])'
  BY <1>2, OtherLogged DEF RowsLogged
<1>3. CASE a # Target(c)
  <2>1. req[c].key # ResumeKey(a) /\ \A n \in 1..MaxFailures : req[c].key # FailureKey(a, n)
    BY <1>1, <1>3, CommitKeys, KeysApart
  <2>2. QED
    BY <1>1, <1>2, <1>3, <2>1
<1>4. CASE a = Target(c)
  <2> PICK old : old = approvals[a]
    OBVIOUS
  <2> PICK row : row = Recorded(c)
    OBVIOUS
  <2>1. approvals'[a] = row /\ old = Approval(c)
    BY <1>1, <1>4
  <2>2. Logged(a, approvals[a])' <=> Logged(a, row)'
    BY <2>1 DEF Logged, Before, KindAt
  <2>3. CASE LeavesRow(c)
    <3>1. approvals'[a] = approvals[a] /\ req[c].key \in DeliveryKeys
      BY <2>1, <2>3, CommitKeys DEF LeavesRow
    <3>2. QED
      BY <1>2, <3>1, KeysApart
  <2>4. CASE Inserts(c)
    <3>1. row = NewApproval(c) /\ Unlogged(a)
      BY <2>1, <2>4 DEF Inserts, RowsLogged
    <3>2. row # None
      BY <1>1, <2>4, InsertedIsRow
    <3>3. Logged(a, row)'
      BY <1>4, <2>4, <3>1, InsertLogged
    <3>4. QED
      BY <2>1, <2>2, <3>2, <3>3
  <2>5. CASE GivesVerdict(c) \/ MarksExecution(c) \/ CountsFailure(c)
    <3>1. old # None /\ row # None
      BY <1>1, <2>1, <2>5, RowKept DEF GivesVerdict, MarksExecution, CountsFailure
    <3>2. Logged(a, old)
      BY <3>1 DEF RowsLogged
    <3>3. Logged(a, row)'
      BY <1>4, <2>5, <3>2, VerdictLogged, ExecutionLogged, FailureLogged
    <3>4. QED
      BY <2>1, <2>2, <3>1, <3>3
  <2>6. QED
    BY <1>1, <2>3, <2>4, <2>5
<1>5. QED
  BY <1>3, <1>4

LEMMA EventsHaveRowsNext ==
  ASSUME CallsInv, EventsHaveRows, NEW c \in Clients, CommitCall(c)
  PROVE  EventsHaveRows'
<1> SUFFICES ASSUME NEW e \in events', e.type \in {"approval_requested", "approval_resolved"}
             PROVE  \E a \in Approvals :
                      approvals'[a] # None /\ e.key \in {approvals'[a].request, approvals'[a].resolution}
  BY DEF EventsHaveRows
<1>1. /\ events' = events \union {pend[c]} /\ pend[c].key = req[c].key
      /\ pend[c].type = "approval_requested" <=> call[c].plan = "request"
      /\ pend[c].type = "approval_resolved" <=> call[c].kind = "resolve"
  BY CommitAddsEvent
<1>2. /\ call[c] # None /\ pc[c] = "flushed" /\ Target(c) \in Approvals
      /\ approvals'[Target(c)] = Recorded(c) /\ Approval(c) = approvals[Target(c)]
  BY CommitWritesRow
<1>3. CASE e \in events
  <2>1. PICK a \in Approvals :
          approvals[a] # None /\ e.key \in {approvals[a].request, approvals[a].resolution}
    BY <1>3 DEF EventsHaveRows
  <2>2. [ApprovalsNext]_allVars
    BY DEF ApprovalsNext
  <2>3. approvals'[a] # None /\ approvals'[a].request = approvals[a].request
    BY <2>1, <2>2, RowsStay
  <2>4. CASE approvals[a].status # "pending"
    BY <2>1, <2>2, <2>3, <2>4, RowsStay
  <2>5. CASE approvals[a].status = "pending"
    <3>1. approvals[a].resolution = None
      BY <2>1, <2>5 DEF CallsInv, RowsOK, RowOK
    <3>2. e.key # None
      BY <1>3, NoneAssumption DEF CallsInv, SessionsInv, TablesInv, BaseInv, LedgerTypeOK, Event
    <3>3. QED
      BY <2>1, <2>3, <3>1, <3>2
  <2>6. QED
    BY <2>4, <2>5
<1>4. CASE e = pend[c]
  <2>1. CASE call[c].plan = "request"
    <3>1. Inserts(c) /\ Recorded(c) = NewApproval(c)
      BY <1>2, <2>1, CommitCases DEF Inserts, LeavesRow, GivesVerdict, MarksExecution, CountsFailure,
         ResolveOK
    <3>2. Recorded(c) # None
      BY <1>2, <3>1, InsertedIsRow
    <3>3. Recorded(c).request = req[c].key
      BY <3>1 DEF NewApproval
    <3>4. QED
      BY <1>1, <1>2, <1>4, <3>2, <3>3
  <2>2. CASE call[c].kind = "resolve"
    <3>1. GivesVerdict(c)
      BY <1>2, <2>2, CommitCases, KindsTold DEF Inserts, LeavesRow, MarksExecution, CountsFailure
    <3>2. Recorded(c) # None /\ Recorded(c).resolution = req[c].key
      <4>1. RowOK(Target(c), Approval(c))
        BY <1>2, <3>1 DEF GivesVerdict, CallsInv, RowsOK
      <4>2. QED
        BY <1>2, <3>1, <4>1, RowKept DEF GivesVerdict, RowOK, ApprovalRow
    <3>3. QED
      BY <1>1, <1>2, <1>4, <3>2
  <2>3. QED
    BY <1>1, <1>4, <2>1, <2>2
<1>5. QED
  BY <1>1, <1>3, <1>4

LEMMA HistoryInvariant == ApprovalsSpec => []HistoryInv
<1>1. ApprovalsInit => HistoryInv
  BY DEF ApprovalsInit, Init, LedgerInit, HistoryInv, RowsLogged, EventsHaveRows, Unlogged, Executed, Failed,
     EventAt, RunEvents
<1>2. ASSUME CallsInv, HistoryInv, [ApprovalsNext]_allVars PROVE HistoryInv'
  <2>1. CASE UNCHANGED <<approvals, events, inst, acted>>
    <3>1. /\ \A r, key : EventAt(r, key)' = EventAt(r, key)
          /\ approvals' = approvals /\ events' = events
      BY <2>1 DEF EventAt, RunEvents
    <3>2. \A a \in Approvals : Unlogged(a)' <=> Unlogged(a)
      BY <3>1 DEF Unlogged, Executed, Failed
    <3>3. \A a \in Approvals : Logged(a, approvals[a])' <=> Logged(a, approvals[a])
      BY <3>1 DEF Logged, KindAt, Before, Executed, Failed
    <3>4. RowsLogged' /\ EventsHaveRows'
      BY <1>2, <3>1, <3>2, <3>3 DEF HistoryInv, RowsLogged, EventsHaveRows
    <3>5. QED
      BY <3>4 DEF HistoryInv
  <2>2. ASSUME NEW c \in Clients, CommitCall(c) PROVE HistoryInv'
    BY <1>2, <2>2, RowsLoggedNext, EventsHaveRowsNext DEF HistoryInv
  <2>3. QED
    BY <1>2, <2>1, <2>2, WhoWrites
<1>3. QED
  BY <1>1, <1>2, CallsInvariant, PTL DEF ApprovalsSpec

\* An approval row and the log tell one story, for every mix of coordinators,
\* founders, failed attempts and rollbacks.
THEOREM ApprovalsHistory == ApprovalsSpec => []ApprovalHistory
<1>1. HistoryInv => ApprovalHistory
  BY DEF HistoryInv, RowsLogged, Logged, EventsHaveRows, ApprovalHistory, Executed, Failed
<1>2. QED
  BY <1>1, HistoryInvariant, PTL

-----------------------------------------------------------------------------
(* The synthetic world. *)

\* Where an adapter acts for an approval, and what it does there.
ResumeSlot(a, k) == <<a[1], k, ResumeKey(a)>>
EffectFor(row) == [inst |-> row.inst, native |-> row.effective]

\* A call that has its adapter's receipt, or needs none, and will say so.
Acts(c) == call[c] # None /\ call[c].plan = "act" /\ call[c].kind # "resolve" /\ UsesAdapter(c)

\* A slot has one effect.
EffectsTyped == effects \in [Slots -> {<<>>} \union {<<x>> : x \in Effect}]

\* Only a resume carries out a RED decision, and what a resume carries out is
\* what its approval says, through the adapter it names.
EffectsApproved ==
  /\ \A s \in Slots, x \in Effect : effects[s] = <<x>> /\ x.native.red =>
       \E a \in Approvals : s[1] = a[1] /\ s[3] = ResumeKey(a)
  /\ \A a \in Approvals, k \in Adapters : effects[ResumeSlot(a, k)] # <<>> =>
       /\ approvals[a] # None
       /\ approvals[a].status \in Executable
       /\ approvals[a].effective.adapter = k
       /\ effects[ResumeSlot(a, k)] = <<EffectFor(approvals[a])>>

\* A call that acts through an adapter has the effect.
EffectsRecorded == \A c \in Clients : Acts(c) => effects[AdapterSlot(c)] = <<Signature(c)>>

\* x is what the approval's execution recorded.
ExecutionOf(x, a) == approvals[a] # None /\ approvals[a].resumed /\ x.key = ResumeKey(a)

\* The slot and the effect of a committed event that went through an adapter.
SlotFor(x) == <<RunOf[x.inst], x.native.adapter, x.key>>
ActedEffect(x) == [inst |-> x.inst, native |-> x.native]

ActedJustified ==
  /\ acted \subseteq [inst : Instances, key : Keys, native : Natives]
  /\ \A x \in acted :
       /\ x.native.red =>
            \E a \in Approvals : ExecutionOf(x, a) /\ approvals[a].effective = x.native
       /\ x.native.adapter # None =>
            \/ effects[SlotFor(x)] = <<ActedEffect(x)>>
            \/ \E a \in Approvals : ExecutionOf(x, a) /\ approvals[a].manual

EffectsInv == EffectsTyped /\ EffectsApproved /\ EffectsRecorded /\ ActedJustified

\* The slot of a call that goes through an adapter is one of the world's.
LEMMA SlotOfCall ==
  ASSUME CallsInv, NEW c \in Clients, call[c] # None, UsesAdapter(c), call[c].native \in Natives
  PROVE  /\ AdapterSlot(c) \in Slots /\ Signature(c) \in Effect
         /\ call[c].native.adapter \in Adapters
         /\ c \in Preloaded =>
              /\ AdapterSlot(c) = <<Run(c), call[c].native.adapter, req[c].key>>
              /\ req[c].key \in DeliveryKeys
         /\ c \notin Preloaded /\ call[c].kind = "resume" =>
              /\ AdapterSlot(c) = ResumeSlot(Target(c), call[c].native.adapter)
              /\ Target(c) \in Approvals /\ Instance(c) = Approval(c).inst
<1>1. /\ Target(c) \in Approvals /\ CallOK(c)
      /\ c \in Preloaded => call[c].kind = "coordinate" /\ CoordinatorOK(c)
      /\ c \notin Preloaded => FounderOK(c)
  BY KindsTold
<1>2. pc[c] # "idle" /\ SessionOK(c)
  BY <1>1 DEF CallsInv, CallOK, SessionsInv
<1>3. Run(c) \in Runs /\ req[c].key \in Keys /\ Instance(c) \in Instances
  BY <1>2, CarriesRequest DEF Request, CallsInv, SessionsInv
<1>4. c \notin Preloaded => Target(c)[1] = Run(c) /\ Instance(c) = Approval(c).inst
  BY <1>1 DEF FounderOK, CallsInv, RowsOK, RowOK, Run, Approval, Approvals
<1>5. ResumeKey(Target(c)) \in Keys
  BY <1>1, KeysApart
<1>6. call[c].native.adapter \in Adapters
  BY NativesAssumption DEF UsesAdapter
<1>7. c \in Preloaded => /\ AdapterSlot(c) = <<Run(c), call[c].native.adapter, req[c].key>>
                         /\ req[c].key \in DeliveryKeys
  BY <1>1 DEF AdapterSlot, Is, CoordinatorOK
<1>8. c \notin Preloaded /\ call[c].kind = "resume" =>
        AdapterSlot(c) = ResumeSlot(Target(c), call[c].native.adapter)
  <2>1. call[c].kind = "resume" => Is(c, "resume")
    BY DEF Is
  <2>2. QED
    BY <1>4, <2>1 DEF AdapterSlot, ResumeSlot
<1>9. AdapterSlot(c) \in Slots
  BY <1>3, <1>5, <1>6 DEF AdapterSlot, Slots
<1>10. Signature(c) \in Effect
  BY <1>3 DEF Signature, Effect
<1>11. QED
  BY <1>1, <1>4, <1>6, <1>7, <1>8, <1>9, <1>10

\* What a call that runs its adapter is.
LEMMA AdapterCall ==
  ASSUME CallsInv, NEW c \in Clients, RunAdapter(c)
  PROVE  /\ call[c] # None /\ call[c].native \in Natives
         /\ c \in Preloaded => ~call[c].native.red
         /\ c \notin Preloaded =>
              /\ call[c].kind = "resume" /\ Approval(c) # None
              /\ Approval(c) = approvals[Target(c)]
              /\ Approval(c).status \in Executable
              /\ call[c].native = Approval(c).effective
<1>1. call[c] # None /\ call[c].plan = "execute"
  BY DEF RunAdapter
<1>2. CASE c \in Preloaded
  BY <1>1, <1>2, KindsTold DEF CoordinatorOK
<1>3. CASE c \notin Preloaded
  <2>1. FounderOK(c) /\ call[c].kind = "resume" /\ ResumeOK(c)
    BY <1>1, <1>3, KindsTold DEF ResolveOK
  <2>2. pc[c] = "instanceLocked" /\ Is(c, "resume")
    BY <1>1, <2>1 DEF RunAdapter, Is
  <2>3. Approval(c).status \in Executable
    BY <2>1, <2>2 DEF FounderOK, Admitted, Is
  <2>4. QED
    BY <1>1, <1>3, <2>1, <2>3 DEF FounderOK, ResumeOK, Approval
<1>4. QED
  BY <1>2, <1>3

\* An adapter carries something out only where nothing was carried out.
LEMMA AdapterActsOnce ==
  ASSUME CallsInv, EffectsTyped, NEW c \in Clients, RunAdapter(c)
  PROVE  \/ effects' = effects
         \/ /\ UsesAdapter(c) /\ AdapterSlot(c) \in Slots /\ Signature(c) \in Effect
            /\ effects' = [effects EXCEPT ![AdapterSlot(c)] = <<Signature(c)>>]
            /\ effects[AdapterSlot(c)] = <<>>
<1>1. ASSUME effects[AdapterSlot(c)] = <<>>, Performed(c)
      PROVE  effects' = [effects EXCEPT ![AdapterSlot(c)] = <<Signature(c)>>]
  <2>1. Append(<<>>, Signature(c)) = <<Signature(c)>>
    OBVIOUS
  <2>2. effects' = [effects EXCEPT ![AdapterSlot(c)] = Append(effects[AdapterSlot(c)], Signature(c))]
    BY <1>1 DEF Performed
  <2>3. QED
    BY <1>1, <2>1, <2>2
<1>2. \/ effects' = effects
      \/ UsesAdapter(c) /\ effects[AdapterSlot(c)] = <<>> /\ Performed(c)
  BY DEF RunAdapter, Receipt, NoReceipt
<1>3. UsesAdapter(c) => AdapterSlot(c) \in Slots /\ Signature(c) \in Effect
  BY AdapterCall, SlotOfCall
<1>4. QED
  BY <1>1, <1>2, <1>3

LEMMA EffectsTypedKept ==
  ASSUME CallsInv, EffectsTyped, NEW c \in Clients, RunAdapter(c)
  PROVE  /\ EffectsTyped'
         /\ \A s \in Slots : effects[s] # <<>> => effects'[s] = effects[s]
<1>1. CASE effects' = effects
  BY <1>1 DEF EffectsTyped
<1>2. CASE /\ effects' = [effects EXCEPT ![AdapterSlot(c)] = <<Signature(c)>>]
           /\ AdapterSlot(c) \in Slots /\ Signature(c) \in Effect
           /\ effects[AdapterSlot(c)] = <<>>
  BY <1>2 DEF EffectsTyped
<1>3. QED
  BY <1>1, <1>2, AdapterActsOnce

LEMMA EffectsApprovedKept ==
  ASSUME CallsInv, EffectsTyped, EffectsApproved, NEW c \in Clients, RunAdapter(c)
  PROVE  EffectsApproved'
<1>1. approvals' = approvals
  BY DEF RunAdapter
<1>2. \A a \in Approvals, k \in Adapters : ResumeSlot(a, k) \in Slots
  BY KeysApart DEF ResumeSlot, Slots, Approvals
<1>3. CASE effects' = effects
  BY <1>1, <1>3 DEF EffectsApproved
<1>4. CASE /\ UsesAdapter(c) /\ AdapterSlot(c) \in Slots
           /\ effects' = [effects EXCEPT ![AdapterSlot(c)] = <<Signature(c)>>]
  <2> PICK k : k = call[c].native.adapter
    OBVIOUS
  <2>1. \A s \in Slots : effects'[s] = IF s = AdapterSlot(c) THEN <<Signature(c)>> ELSE effects[s]
    BY <1>4 DEF EffectsTyped
  <2>2. /\ call[c] # None /\ call[c].native \in Natives /\ k \in Adapters
        /\ Signature(c).native = call[c].native /\ Signature(c).inst = Instance(c)
    BY <1>4, AdapterCall, SlotOfCall DEF Signature
  <2>3. \A x \in Effect : <<x>> = <<Signature(c)>> => x = Signature(c)
    OBVIOUS
  <2>4. CASE c \in Preloaded
    <3>1. ~call[c].native.red /\ AdapterSlot(c) = <<Run(c), k, req[c].key>> /\ req[c].key \in DeliveryKeys
      BY <1>4, <2>2, <2>4, AdapterCall, SlotOfCall
    <3>2. \A a \in Approvals, l \in Adapters : ResumeSlot(a, l) # AdapterSlot(c)
      BY <3>1, KeysApart DEF ResumeSlot
    <3>3. QED
      BY <1>1, <1>2, <2>1, <2>2, <2>3, <3>1, <3>2 DEF EffectsApproved
  <2>5. CASE c \notin Preloaded
    <3> PICK b : b = Target(c)
      OBVIOUS
    <3>1. /\ b \in Approvals /\ AdapterSlot(c) = ResumeSlot(b, k)
          /\ approvals[b] # None /\ approvals[b].status \in Executable
          /\ call[c].native = approvals[b].effective /\ Instance(c) = approvals[b].inst
      BY <1>4, <2>2, <2>5, AdapterCall, SlotOfCall
    <3>2. \A a \in Approvals, l \in Adapters : ResumeSlot(a, l) = ResumeSlot(b, k) => a = b /\ l = k
      BY <3>1, KeysApart DEF ResumeSlot
    <3>3. Signature(c) = EffectFor(approvals[b])
      BY <3>1 DEF Signature, EffectFor
    <3>4. AdapterSlot(c)[1] = b[1] /\ AdapterSlot(c)[3] = ResumeKey(b)
      BY <3>1 DEF ResumeSlot
    <3>5. ASSUME NEW s \in Slots, NEW x \in Effect, effects'[s] = <<x>>, x.native.red
          PROVE  \E a \in Approvals : s[1] = a[1] /\ s[3] = ResumeKey(a)
      BY <2>1, <3>1, <3>4, <3>5 DEF EffectsApproved
    <3>6. ASSUME NEW a \in Approvals, NEW l \in Adapters, effects'[ResumeSlot(a, l)] # <<>>
          PROVE  /\ approvals'[a] # None
                 /\ approvals'[a].status \in Executable
                 /\ approvals'[a].effective.adapter = l
                 /\ effects'[ResumeSlot(a, l)] = <<EffectFor(approvals'[a])>>
      <4>1. CASE a = b /\ l = k
        BY <1>1, <1>2, <2>1, <2>2, <3>1, <3>3, <4>1
      <4>2. CASE ~(a = b /\ l = k)
        BY <1>1, <1>2, <2>1, <3>1, <3>2, <3>6, <4>2 DEF EffectsApproved
      <4>3. QED
        BY <4>1, <4>2
    <3>7. QED
      BY <3>5, <3>6 DEF EffectsApproved, EffectFor
  <2>6. QED
    BY <2>4, <2>5
<1>5. QED
  BY <1>3, <1>4, AdapterActsOnce

\* A call that acts has been acting, or has just come from its adapter.
LEMMA ActsBefore ==
  ASSUME CallsInv, [ApprovalsNext]_allVars, NEW d \in Clients, Acts(d)'
  PROVE  \/ call'[d] = call[d] /\ req'[d] = req[d]
         \/ RunAdapter(d)
<1> DEFINE Same == call'[d] = call[d] /\ req'[d] = req[d]
<1>1. call \in [Clients -> Call \union {None}] /\ req \in [Clients -> Request \union {None}]
  BY DEF CallsInv, SessionsInv, SessionTypes
<1>2. /\ call'[d] # None /\ call'[d].plan = "act" /\ call'[d].kind # "resolve"
      /\ call'[d].native.adapter # None
  BY DEF Acts, UsesAdapter
<1>3. ASSUME UNCHANGED call, UNCHANGED req PROVE Same
  BY <1>3
<1>4. ASSUME NEW r \in Runs, CreateSandboxRun(r), UNCHANGED approvalVars PROVE Same
  BY <1>4 DEF CreateSandboxRun, sessionVars, approvalVars
<1>5. ASSUME NEW i \in Instances, CreateWorkflowInstance(i), UNCHANGED approvalVars PROVE Same
  BY <1>5 DEF CreateWorkflowInstance, sessionVars, approvalVars
<1>6. ASSUME NEW c \in Clients, NEW q, NEW e, Coordinate(c, q, e) PROVE Same
  <2>1. d # c
    BY <1>1, <1>2, <1>6 DEF Coordinate, NewCall
  <2>2. QED
    BY <1>1, <1>6, <2>1 DEF Coordinate, OpenLoaded
<1>7. ASSUME NEW c \in Clients, NEW a, NEW key, NEW r, OpenFounderCall(c, a, key, r),
             r.kind = "resolve" \/ r.plan = "execute"
      PROVE  Same
  <2>1. d # c
    BY <1>1, <1>2, <1>7 DEF OpenFounderCall
  <2>2. QED
    BY <1>1, <1>7, <2>1 DEF OpenFounderCall, OpenFresh
<1>8. ASSUME NEW c \in Clients, NEW a, NEW key, NEW status, NEW n, NEW manual,
             Resolve(c, a, key, status, n, manual)
      PROVE  Same
  BY <1>7, <1>8 DEF Resolve, NewCall
<1>9. ASSUME NEW c \in Clients, NEW a, Resume(c, a) PROVE Same
  BY <1>7, <1>9 DEF Resume, NewCall
<1>10. ASSUME NEW c \in Clients, Decide(c) PROVE Same
  <2>1. req' = req
    BY <1>10 DEF Decide, vars, sessionVars
  <2>2. d # c
    <3>1. SUFFICES ASSUME d = c PROVE FALSE
      OBVIOUS
    <3>2. CASE call' = [call EXCEPT ![c].plan = "deny"]
      BY <1>1, <1>2, <3>1, <3>2
    <3>3. ASSUME NEW n \in Natives,
                 call' = [call EXCEPT ![c].native = n, ![c].plan = PlanFor(c, n)]
          PROVE  FALSE
      <4>1. call'[c].native = n /\ call'[c].plan = PlanFor(c, n)
        <5>1. call[c] \in Call
          BY <1>10, KindsTold DEF Decide, Is
        <5>2. call'[c] = [[call[c] EXCEPT !.native = n] EXCEPT !.plan = PlanFor(c, n)]
          BY <1>1, <3>3
        <5>3. QED
          BY <5>1, <5>2 DEF Call
      <4>2. n.adapter # None => PlanFor(c, n) # "act"
        BY DEF PlanFor
      <4>3. QED
        BY <1>2, <3>1, <4>1, <4>2
    <3>4. QED
      BY <1>10, <3>2, <3>3 DEF Decide
  <2>3. QED
    BY <1>1, <1>10, <2>1, <2>2 DEF Decide
<1>11. ASSUME NEW c \in Clients, c # d, RunAdapter(c) PROVE Same
  BY <1>1, <1>11 DEF RunAdapter, vars, sessionVars
<1>12. ASSUME NEW c \in Clients, LockInstanceForCall(c) \/ LockRunForCall(c) \/ AppendForCall(c)
       PROVE  Same
  BY <1>12 DEF LockInstanceForCall, LockRunForCall, AppendForCall, LockInstance, LockRun,
     AppendEvent, approvalVars
<1>13. ASSUME NEW c \in Clients, Release(c), CloseCall(c) PROVE Same
  <2>1. d # c
    BY <1>1, <1>2, <1>13 DEF CloseCall
  <2>2. QED
    BY <1>1, <1>13, <2>1 DEF CloseCall, Release
<1>14. ASSUME NEW c \in Clients,
              CommitCall(c) \/ Answer(c) \/ RejectCall(c) \/ RollbackCall(c)
       PROVE  Same
  BY <1>13, <1>14 DEF CommitCall, Commit, Answer, RejectCall, RollbackCall, Rollback, Reject
<1>15. ASSUME NEW c \in Clients, NEW a, Ask(c, a) \/ GiveUp(c) PROVE Same
  BY <1>15 DEF Ask, GiveUp, vars, sessionVars
<1>16. CASE UNCHANGED allVars
  BY <1>16 DEF allVars, vars, sessionVars, approvalVars
<1> HIDE DEF Same
<1>17. ASSUME ApprovalsNext PROVE Same \/ RunAdapter(d)
  BY <1>4, <1>5, <1>6, <1>8, <1>9, <1>10, <1>11, <1>12, <1>14, <1>15, <1>17, Zenon DEF ApprovalsNext
<1>18. QED
  BY <1>16, <1>17 DEF Same

\* Only an adapter acts on the synthetic world.
LEMMA WhoCarriesOut ==
  ASSUME [ApprovalsNext]_allVars
  PROVE  effects' = effects \/ \E c \in Clients : RunAdapter(c)
<1> DEFINE Quiet == effects' = effects
<1>1. ASSUME UNCHANGED approvalVars PROVE Quiet
  BY <1>1 DEF approvalVars
<1>2. ASSUME NEW c \in Clients, NEW q, NEW d, Coordinate(c, q, d) PROVE Quiet
  BY <1>2 DEF Coordinate
<1>3. ASSUME NEW c \in Clients, NEW a, NEW key, NEW status, NEW n, NEW manual,
             Resolve(c, a, key, status, n, manual) \/ Resume(c, a)
      PROVE  Quiet
  BY <1>3 DEF Resolve, Resume, OpenFounderCall
<1>4. ASSUME NEW c \in Clients, NEW a, Ask(c, a) \/ GiveUp(c) \/ Decide(c) PROVE Quiet
  BY <1>4 DEF Ask, GiveUp, Decide
<1>5. ASSUME NEW c \in Clients, LockInstanceForCall(c) \/ LockRunForCall(c) \/ AppendForCall(c)
      PROVE  Quiet
  BY <1>1, <1>5 DEF LockInstanceForCall, LockRunForCall, AppendForCall
<1>6. ASSUME NEW c \in Clients,
             CommitCall(c) \/ Answer(c) \/ RejectCall(c) \/ RollbackCall(c)
      PROVE  Quiet
  BY <1>6 DEF CommitCall, Answer, RejectCall, RollbackCall
<1>7. CASE UNCHANGED allVars
  BY <1>7 DEF allVars, approvalVars
<1> HIDE DEF Quiet
<1>8. ASSUME ApprovalsNext PROVE Quiet \/ \E c \in Clients : RunAdapter(c)
  BY <1>1, <1>2, <1>3, <1>4, <1>5, <1>6, <1>8, Zenon DEF ApprovalsNext
<1>9. QED
  BY <1>7, <1>8 DEF Quiet

LEMMA EffectsApprovedNext ==
  ASSUME CallsInv, EffectsTyped, EffectsApproved, [ApprovalsNext]_allVars
  PROVE  EffectsApproved'
<1>1. CASE effects' = effects
  <2>1. ASSUME NEW a \in Approvals, approvals[a] # None, approvals[a].status \in Executable
        PROVE  /\ approvals'[a] # None /\ approvals'[a].status \in Executable
               /\ approvals'[a].effective = approvals[a].effective
    BY <2>1, RowsStay DEF Executable
  <2>2. ASSUME NEW a \in Approvals, approvals[a] # None PROVE approvals'[a].inst = approvals[a].inst
    BY <2>2, RowsStay
  <2>3. ASSUME NEW a \in Approvals, NEW k \in Adapters, effects'[ResumeSlot(a, k)] # <<>>
        PROVE  /\ approvals'[a] # None
               /\ approvals'[a].status \in Executable
               /\ approvals'[a].effective.adapter = k
               /\ effects'[ResumeSlot(a, k)] = <<EffectFor(approvals'[a])>>
    <3>1. /\ approvals[a] # None /\ approvals[a].status \in Executable
          /\ approvals[a].effective.adapter = k
          /\ effects[ResumeSlot(a, k)] = <<EffectFor(approvals[a])>>
      BY <1>1, <2>3 DEF EffectsApproved
    <3>2. EffectFor(approvals'[a]) = EffectFor(approvals[a])
      BY <2>1, <2>2, <3>1 DEF EffectFor
    <3>3. QED
      BY <1>1, <2>1, <3>1, <3>2
  <2>4. \A s \in Slots, x \in Effect : effects'[s] = <<x>> /\ x.native.red =>
          \E a \in Approvals : s[1] = a[1] /\ s[3] = ResumeKey(a)
    BY <1>1 DEF EffectsApproved
  <2>5. QED
    BY <2>3, <2>4 DEF EffectsApproved, EffectFor
<1>2. QED
  BY <1>1, WhoCarriesOut, EffectsApprovedKept

LEMMA EffectsRecordedNext ==
  ASSUME CallsInv, EffectsTyped, EffectsRecorded, [ApprovalsNext]_allVars
  PROVE  EffectsRecorded'
<1> SUFFICES ASSUME NEW d \in Clients, Acts(d)'
             PROVE  effects'[AdapterSlot(d)'] = <<Signature(d)'>>
  BY DEF EffectsRecorded
<1>1. ASSUME call'[d] = call[d], req'[d] = req[d]
      PROVE  AdapterSlot(d)' = AdapterSlot(d) /\ Signature(d)' = Signature(d) /\ Acts(d)
  BY <1>1 DEF AdapterSlot, Signature, Acts, UsesAdapter, Run, Instance, Target, Is
<1>2. CASE call'[d] = call[d] /\ req'[d] = req[d]
  <2>1. call[d].native \in Natives
    BY <1>1, <1>2, KindsTold DEF Acts, CoordinatorOK, FounderOK
  <2>2. /\ effects[AdapterSlot(d)] = <<Signature(d)>> /\ AdapterSlot(d) \in Slots
        /\ AdapterSlot(d)' = AdapterSlot(d) /\ Signature(d)' = Signature(d)
    BY <1>1, <1>2, <2>1, SlotOfCall DEF EffectsRecorded, Acts
  <2>3. <<Signature(d)>> # <<>>
    OBVIOUS
  <2>4. effects'[AdapterSlot(d)] = effects[AdapterSlot(d)]
    BY <2>2, <2>3, WhoCarriesOut, EffectsTypedKept
  <2>5. QED
    BY <2>2, <2>4
<1>3. CASE RunAdapter(d)
  <2>1. /\ call[d] # None /\ call \in [Clients -> Call \union {None}] /\ call[d] \in Call
        /\ call' = [call EXCEPT ![d].plan = "act"] \/ call' = [call EXCEPT ![d].plan = "deny"]
        /\ req' = req
        /\ call[d].native \in Natives
    BY <1>3, AdapterCall, KindsTold DEF RunAdapter, CallsInv, vars, sessionVars
  <2>2. call'[d].plan = "act"
    BY DEF Acts
  <2>3. call' = [call EXCEPT ![d].plan = "act"]
    BY <2>1, <2>2 DEF Call
  <2>4. /\ call'[d] # None
        /\ call'[d].kind = call[d].kind /\ call'[d].native = call[d].native
        /\ call'[d].manual = call[d].manual /\ call'[d].approval = call[d].approval
    BY <2>1, <2>3 DEF Call, Acts
  <2>5. AdapterSlot(d)' = AdapterSlot(d) /\ Signature(d)' = Signature(d)
    BY <2>1, <2>4 DEF AdapterSlot, Signature, Run, Instance, Target, Is
  <2>6. UsesAdapter(d) /\ AdapterSlot(d) \in Slots
    BY <2>1, <2>4, SlotOfCall DEF Acts, UsesAdapter
  <2>7. Receipt(d)
    <3>1. call' # [call EXCEPT ![d].plan = "deny"]
      BY <2>1, <2>2 DEF Call
    <3>2. QED
      BY <1>3, <2>6, <3>1 DEF RunAdapter
  <2>8. CASE effects[AdapterSlot(d)] = <<>> /\ Performed(d)
    <3>1. Append(<<>>, Signature(d)) = <<Signature(d)>>
      OBVIOUS
    <3>2. effects' = [effects EXCEPT ![AdapterSlot(d)] = Append(effects[AdapterSlot(d)], Signature(d))]
      BY <2>8 DEF Performed
    <3>3. QED
      BY <2>5, <2>6, <2>8, <3>1, <3>2 DEF EffectsTyped
  <2>9. CASE Replays(d) /\ effects' = effects
    <3>1. PICK x \in Effect : effects[AdapterSlot(d)] = <<x>>
      BY <2>6, <2>9 DEF Replays, EffectsTyped
    <3>2. Head(<<x>>) = x
      OBVIOUS
    <3>3. QED
      BY <2>5, <2>9, <3>1, <3>2 DEF Replays
  <2>10. QED
    BY <2>7, <2>8, <2>9 DEF Receipt
<1>4. QED
  BY <1>2, <1>3, ActsBefore

\* What was justified stays so.
LEMMA JustifiedStays ==
  ASSUME CallsInv, EffectsTyped, [ApprovalsNext]_allVars, NEW x \in acted, ActedJustified
  PROVE  /\ x.native.red =>
              \E a \in Approvals : ExecutionOf(x, a)' /\ approvals'[a].effective = x.native
         /\ x.native.adapter # None =>
              \/ effects'[SlotFor(x)] = <<ActedEffect(x)>>
              \/ \E a \in Approvals : ExecutionOf(x, a)' /\ approvals'[a].manual
<1>1. ASSUME NEW a \in Approvals, ExecutionOf(x, a)
      PROVE  ExecutionOf(x, a)' /\ approvals'[a] = approvals[a]
  BY <1>1, RowsStay DEF ExecutionOf
<1>2. ASSUME x.native.adapter # None, effects[SlotFor(x)] = <<ActedEffect(x)>>
      PROVE  effects'[SlotFor(x)] = <<ActedEffect(x)>>
  <2>1. SlotFor(x) \in Slots
    BY <1>2, RunOfAssumption, NativesAssumption DEF ActedJustified, SlotFor, Slots
  <2>2. <<ActedEffect(x)>> # <<>>
    OBVIOUS
  <2>3. QED
    BY <1>2, <2>1, <2>2, WhoCarriesOut, EffectsTypedKept
<1>3. x.native.red => \E a \in Approvals : ExecutionOf(x, a)' /\ approvals'[a].effective = x.native
  BY <1>1 DEF ActedJustified
<1>4. x.native.adapter # None => \/ effects'[SlotFor(x)] = <<ActedEffect(x)>>
                         \/ \E a \in Approvals : ExecutionOf(x, a)' /\ approvals'[a].manual
  BY <1>1, <1>2 DEF ActedJustified
<1>5. QED
  BY <1>3, <1>4

\* And so is what a commit adds.
LEMMA CommitJustified ==
  ASSUME CallsInv, EffectsTyped, EffectsRecorded, NEW c \in Clients, CommitCall(c),
         call[c].plan = "act", call[c].kind # "resolve",
         NEW x, x = [inst |-> Instance(c), key |-> req[c].key, native |-> call[c].native]
  PROVE  /\ x \in [inst : Instances, key : Keys, native : Natives]
         /\ x.native.red =>
              \E a \in Approvals : ExecutionOf(x, a)' /\ approvals'[a].effective = x.native
         /\ x.native.adapter # None =>
              \/ effects'[SlotFor(x)] = <<ActedEffect(x)>>
              \/ \E a \in Approvals : ExecutionOf(x, a)' /\ approvals'[a].manual
<1>1. /\ call[c] # None /\ pc[c] = "flushed" /\ Target(c) \in Approvals
      /\ approvals'[Target(c)] = Recorded(c) /\ Approval(c) = approvals[Target(c)]
      /\ effects' = effects
  BY CommitWritesRow DEF CommitCall
<1>2. /\ x.inst = Instance(c) /\ x.key = req[c].key /\ x.native = call[c].native
      /\ RunOf[x.inst] = Run(c)
      /\ ActedEffect(x) = Signature(c)
      /\ SlotFor(x) = <<Run(c), call[c].native.adapter, req[c].key>>
  BY DEF Run, ActedEffect, Signature, SlotFor
<1>3. SessionOK(c) /\ Instance(c) \in Instances /\ req[c].key \in Keys
  BY <1>1, CarriesRequest DEF CallsInv, SessionsInv, Request
<1>4. UsesAdapter(c) => effects[AdapterSlot(c)] = <<Signature(c)>>
  BY <1>1 DEF EffectsRecorded, Acts
<1>5. CASE c \in Preloaded
  <2>1. call[c].native \in Natives /\ ~call[c].native.red /\ ~call[c].manual
    BY <1>1, <1>5, KindsTold DEF CoordinatorOK
  <2>2. UsesAdapter(c) => AdapterSlot(c) = SlotFor(x)
    BY <1>1, <1>2, <1>5, <2>1, SlotOfCall
  <2>3. QED
    BY <1>1, <1>2, <1>3, <1>4, <2>1, <2>2 DEF UsesAdapter
<1>6. CASE c \notin Preloaded
  <2>1. MarksExecution(c)
    BY <1>1, <1>6, CommitCases DEF Inserts, LeavesRow, GivesVerdict, CountsFailure
  <2>2. /\ call[c].native = Approval(c).effective /\ call[c].manual = Approval(c).manual
        /\ req[c].key = ResumeKey(Target(c)) /\ call[c].kind = "resume"
    BY <2>1 DEF MarksExecution, ResumeOK
  <2>3. Approval(c) \in ApprovalRow
    BY <1>1, <2>1 DEF MarksExecution, CallsInv, RowsOK, RowOK
  <2>4. /\ Recorded(c) # None /\ Recorded(c).resumed
        /\ Recorded(c).effective = Approval(c).effective /\ Recorded(c).manual = Approval(c).manual
    <3>1. Recorded(c) # None
      BY <1>1, <2>1, RowKept DEF MarksExecution
    <3>2. QED
      BY <2>1, <2>3, <3>1 DEF MarksExecution, ApprovalRow
  <2>5. call[c].native \in Natives
    BY <2>2, <2>3 DEF ApprovalRow
  <2> PICK a : a = Target(c)
    OBVIOUS
  <2>6. a \in Approvals /\ a[1] = Run(c) /\ approvals'[a] = Recorded(c)
    BY <1>1, CommitCases
  <2>7. ExecutionOf(x, a)'
    BY <1>2, <2>2, <2>4, <2>6 DEF ExecutionOf
  <2>8. UsesAdapter(c) => AdapterSlot(c) = SlotFor(x)
    BY <1>1, <1>2, <1>6, <2>2, <2>5, <2>6, SlotOfCall DEF ResumeSlot
  <2>9. ~UsesAdapter(c) => call[c].native.adapter = None \/ approvals'[a].manual
    BY <2>2, <2>4, <2>6 DEF UsesAdapter
  <2>10. x \in [inst : Instances, key : Keys, native : Natives]
    BY <1>3, <2>5
  <2>11. approvals'[a].effective = x.native
    BY <1>2, <2>2, <2>4, <2>6
  <2>12. QED
    BY <1>1, <1>2, <1>4, <2>6, <2>7, <2>8, <2>9, <2>10, <2>11
<1>7. QED
  BY <1>5, <1>6

LEMMA ActedJustifiedNext ==
  ASSUME CallsInv, EffectsTyped, EffectsRecorded, ActedJustified, [ApprovalsNext]_allVars
  PROVE  ActedJustified'
<1> DEFINE Fine(x) ==
      /\ x \in [inst : Instances, key : Keys, native : Natives]
      /\ x.native.red =>
           \E a \in Approvals : ExecutionOf(x, a)' /\ approvals'[a].effective = x.native
      /\ x.native.adapter # None =>
           \/ effects'[SlotFor(x)] = <<ActedEffect(x)>>
           \/ \E a \in Approvals : ExecutionOf(x, a)' /\ approvals'[a].manual
<1>1. \A x \in acted : Fine(x)
  BY JustifiedStays DEF ActedJustified
<1>2. ASSUME NEW c \in Clients, CommitCall(c), NEW x \in acted', x \notin acted PROVE Fine(x)
  <2>1. /\ call[c].plan = "act" /\ call[c].kind # "resolve"
        /\ x = [inst |-> Instance(c), key |-> req[c].key, native |-> call[c].native]
    BY <1>2 DEF CommitCall, Is
  <2>2. QED
    BY <1>2, <2>1, CommitJustified
<1>3. \A x \in acted' : Fine(x)
  BY <1>1, <1>2, WhoWrites
<1>4. QED
  BY <1>3 DEF ActedJustified, ExecutionOf, SlotFor, ActedEffect

LEMMA EffectsInvariant == ApprovalsSpec => []EffectsInv
<1>1. ApprovalsInit => EffectsInv
  <2> SUFFICES ASSUME ApprovalsInit PROVE EffectsInv
    OBVIOUS
  <2>1. /\ effects = [s \in Slots |-> <<>>] /\ acted = {} /\ \A c \in Clients : call[c] = None
    BY DEF ApprovalsInit
  <2>2. \A s \in Slots : \A n : effects[s] # <<n>>
    BY <2>1
  <2>3. \A a \in Approvals, k \in Adapters : ResumeSlot(a, k) \in Slots
    BY KeysApart DEF ResumeSlot, Slots, Approvals
  <2>4. EffectsTyped
    BY <2>1 DEF EffectsTyped
  <2>5. EffectsApproved
    BY <2>1, <2>2, <2>3 DEF EffectsApproved
  <2>6. QED
    BY <2>1, <2>4, <2>5 DEF EffectsInv, EffectsRecorded, Acts, ActedJustified
<1>2. ASSUME CallsInv, EffectsInv, [ApprovalsNext]_allVars PROVE EffectsInv'
  <2>1. EffectsTyped'
    BY <1>2, WhoCarriesOut, EffectsTypedKept DEF EffectsInv, EffectsTyped
  <2>2. QED
    BY <1>2, <2>1, EffectsApprovedNext, EffectsRecordedNext, ActedJustifiedNext DEF EffectsInv
<1>3. QED
  BY <1>1, <1>2, CallsInvariant, PTL DEF ApprovalsSpec

\* An adapter carries a key out once, an event that went through an adapter has
\* its effect there, and one adapter acts for a founder's approval: whatever its
\* decision is changed to before the verdict, the verdict fixes the adapter.
THEOREM ApprovalsEffectOnce == ApprovalsSpec => []EffectOnce
<1>1. EffectsInv => EffectOnce
  <2> SUFFICES ASSUME EffectsInv PROVE EffectOnce
    OBVIOUS
  <2>1. ASSUME NEW s \in Slots PROVE Len(effects[s]) <= 1
    <3>1. effects[s] = <<>> \/ \E x \in Effect : effects[s] = <<x>>
      BY DEF EffectsInv, EffectsTyped
    <3>2. CASE effects[s] = <<>>
      <4>1. Len(<<>>) = 0
        OBVIOUS
      <4>2. QED
        BY <3>2, <4>1
    <3>3. ASSUME NEW x \in Effect, effects[s] = <<x>> PROVE Len(effects[s]) <= 1
      <4>1. Len(<<x>>) = 1
        OBVIOUS
      <4>2. QED
        BY <3>3, <4>1
    <3>4. QED
      BY <3>1, <3>2, <3>3
  <2>2. \A x \in acted : x.native.adapter # None =>
          \/ effects[<<RunOf[x.inst], x.native.adapter, x.key>>]
               = <<[inst |-> x.inst, native |-> x.native]>>
          \/ \E a \in Approvals :
               x.key = ResumeKey(a) /\ approvals[a] # None /\ approvals[a].manual
    BY DEF EffectsInv, ActedJustified, ExecutionOf, SlotFor, ActedEffect
  <2>3. \A a \in Approvals, k \in Adapters : effects[<<a[1], k, ResumeKey(a)>>] # <<>> =>
          approvals[a].effective.adapter = k
    BY DEF EffectsInv, EffectsApproved, ResumeSlot
  <2>4. QED
    BY <2>1, <2>2, <2>3 DEF EffectOnce
<1>2. QED
  BY <1>1, EffectsInvariant, PTL

\* No RED decision is carried out, in the ledger or in the synthetic world,
\* unless a recorded verdict of the founder covers this very decision.
THEOREM ApprovalsRedNeedsFounder == ApprovalsSpec => []RedNeedsFounder
<1>1. ASSUME CallsInv, HistoryInv, EffectsInv PROVE RedNeedsFounder
  <2>1. ASSUME NEW x \in acted, x.native.red
        PROVE  \E a \in Approvals :
                 /\ approvals[a] # None
                 /\ x.key = ResumeKey(a)
                 /\ approvals[a].status \in {"approved", "modified"}
                 /\ approvals[a].effective = x.native
                 /\ KindAt(a, approvals[a].resolution) = {"approval_resolved"}
                 /\ Before(a, approvals[a].resolution, ResumeKey(a))
    <3>1. PICK a \in Approvals : ExecutionOf(x, a) /\ approvals[a].effective = x.native
      BY <1>1, <2>1 DEF EffectsInv, ActedJustified
    <3>2. approvals[a] # None /\ approvals[a].resumed /\ x.key = ResumeKey(a)
      BY <3>1 DEF ExecutionOf
    <3>3. approvals[a].status \in {"approved", "modified"} /\ approvals[a].status # "pending"
      BY <1>1, <3>2 DEF CallsInv, RowsOK, RowOK, Executable
    <3>4. Logged(a, approvals[a])
      BY <1>1, <3>2 DEF HistoryInv, RowsLogged
    <3>5. QED
      BY <3>1, <3>2, <3>3, <3>4 DEF Logged
  <2>2. ASSUME NEW s \in DOMAIN effects, NEW k \in 1..Len(effects[s]), effects[s][k].native.red
        PROVE  \E a \in Approvals :
                 /\ s[1] = a[1] /\ s[3] = ResumeKey(a)
                 /\ approvals[a] # None
                 /\ approvals[a].status \in {"approved", "modified"}
                 /\ approvals[a].effective = effects[s][k].native
    <3>1. s \in Slots /\ (effects[s] = <<>> \/ \E x \in Effect : effects[s] = <<x>>)
      BY <1>1 DEF EffectsInv, EffectsTyped
    <3>2. effects[s] # <<>>
      BY <2>2
    <3>3. PICK x \in Effect : effects[s] = <<x>>
      BY <3>1, <3>2
    <3>4. k = 1 /\ effects[s][k] = x
      BY <2>2, <3>3
    <3>5. PICK a \in Approvals : s[1] = a[1] /\ s[3] = ResumeKey(a)
      BY <1>1, <2>2, <3>1, <3>3, <3>4 DEF EffectsInv, EffectsApproved
    <3>6. s[2] \in Adapters /\ s = ResumeSlot(a, s[2])
      BY <3>1, <3>5 DEF Slots, ResumeSlot
    <3>7. /\ approvals[a] # None /\ approvals[a].status \in Executable
          /\ <<x>> = <<EffectFor(approvals[a])>>
      BY <1>1, <3>2, <3>3, <3>6 DEF EffectsInv, EffectsApproved
    <3>8. x.native = approvals[a].effective
      BY <3>7 DEF EffectFor
    <3>9. QED
      BY <3>4, <3>5, <3>7, <3>8 DEF Executable
  <2>3. QED
    BY <2>1, <2>2 DEF RedNeedsFounder
<1>2. QED
  BY <1>1, CallsInvariant, HistoryInvariant, EffectsInvariant, PTL

\* What a founder waits for is an approval.
LEMMA AwaitsTyped == ApprovalsSpec => [](awaits \in [Clients -> Approvals \union {None}])
<1> DEFINE T == awaits \in [Clients -> Approvals \union {None}]
<1>1. ApprovalsInit => T
  BY DEF ApprovalsInit
<1>2. ASSUME T, [ApprovalsNext]_allVars PROVE T'
  <2>1. ASSUME UNCHANGED approvalVars PROVE T'
    BY <1>2, <2>1 DEF approvalVars
  <2>2. ASSUME NEW c \in Clients, NEW a \in Approvals, Ask(c, a) PROVE T'
    BY <1>2, <2>2 DEF Ask
  <2>3. ASSUME NEW c \in Clients, NEW a \in Approvals, NEW key, NEW status, NEW n, NEW manual,
               Resolve(c, a, key, status, n, manual) \/ Resume(c, a)
        PROVE  T'
    BY <1>2, <2>3 DEF Resolve, Resume, OpenFounderCall
  <2>4. ASSUME NEW c \in Clients,
               \/ \E q \in Request, d \in Decisions : Coordinate(c, q, d)
               \/ GiveUp(c) \/ Decide(c) \/ RunAdapter(c) \/ CommitCall(c)
               \/ Answer(c) \/ RejectCall(c) \/ RollbackCall(c)
        PROVE  T'
    BY <1>2, <2>4 DEF Coordinate, GiveUp, Decide, RunAdapter, CommitCall, Answer, RejectCall, RollbackCall
  <2>5. ASSUME NEW c \in Clients, LockInstanceForCall(c) \/ LockRunForCall(c) \/ AppendForCall(c)
        PROVE  T'
    BY <2>1, <2>5 DEF LockInstanceForCall, LockRunForCall, AppendForCall
  <2>6. CASE UNCHANGED allVars
    BY <2>1, <2>6 DEF allVars
  <2> HIDE DEF T
  <2>7. ASSUME ApprovalsNext PROVE T'
    BY <2>1, <2>2, <2>3, <2>4, <2>5, <2>7, Zenon DEF ApprovalsNext
  <2>8. QED
    BY <1>2, <2>6, <2>7
<1>3. QED
  BY <1>1, <1>2, PTL DEF ApprovalsSpec

\* The tables, the locks, the calls and the synthetic world have their types.
THEOREM ApprovalsTypeCorrect == ApprovalsSpec => []ApprovalsTypeOK
<1>1. ASSUME TypeOK, CallsInv, EffectsInv, awaits \in [Clients -> Approvals \union {None}]
      PROVE  ApprovalsTypeOK
  <2>1. effects \in [Slots -> Seq(Effect)]
    <3>1. \A x \in Effect : <<x>> \in Seq(Effect)
      OBVIOUS
    <3>2. <<>> \in Seq(Effect)
      OBVIOUS
    <3>3. {<<>>} \union {<<x>> : x \in Effect} \subseteq Seq(Effect)
      BY <3>1, <3>2
    <3>4. QED
      BY <1>1, <3>3 DEF EffectsInv, EffectsTyped
  <2>2. QED
    BY <1>1, <2>1 DEF ApprovalsTypeOK, CallsInv, RowsOK, EffectsInv, ActedJustified
<1>2. QED
  BY <1>1, ApprovalsImplementStore, StoreTypeCorrect, CallsInvariant, EffectsInvariant, AwaitsTyped, PTL

-----------------------------------------------------------------------------
(* What the founder saw. *)

\* From its lock of the run to its commit a founder's call finds the instance as
\* the request recorded it.
SeesRequest(c) ==
  call[c] # None /\ c \notin Preloaded /\ HoldsRun(c) => AsRequested(Approval(c))

SeenInv == \A c \in Clients : SeesRequest(c)

\* A row read under its lock says so.
LEMMA UnmovedAsRequested ==
  ASSUME CallsInv, NEW c \in Clients, call[c] # None, c \notin Preloaded,
         pc[c] = "instanceLocked", ~Moved(c)
  PROVE  AsRequested(Approval(c)) /\ Instance(c) = Approval(c).inst
<1>1. FounderOK(c)
  BY KindsTold
<1>2. Instance(c) = Approval(c).inst
  BY <1>1 DEF FounderOK
<1>3. view[c] = inst[Instance(c)] /\ view[c] \in Row
  BY DEF CallsInv, SessionsInv, SessionOK, IsCurrent, SeesRow
<1>4. view[c] = [state |-> Approval(c).state, version |-> Approval(c).version, terminal |-> FALSE]
  BY <1>3 DEF Moved, Row
<1>5. QED
  BY <1>2, <1>3, <1>4 DEF AsRequested

\* A founder's call that holds its run has held it, or takes it now.
LEMMA HoldingBefore ==
  ASSUME CallsInv, [ApprovalsNext]_allVars, NEW d \in Clients, d \notin Preloaded,
         call'[d] # None, HoldsRun(d)'
  PROVE  \/ call'[d] = call[d] /\ req'[d] = req[d] /\ HoldsRun(d)
         \/ LockRunForCall(d)
<1> DEFINE Same == call'[d] = call[d] /\ req'[d] = req[d] /\ HoldsRun(d)
<1>1. /\ call \in [Clients -> Call \union {None}] /\ req \in [Clients -> Request \union {None}]
      /\ SessionTypes
  BY DEF CallsInv, SessionsInv, SessionTypes
<1>2. pc'[d] \in {"runLocked", "flushed"}
  BY DEF HoldsRun
<1>3. ASSUME UNCHANGED call, UNCHANGED sessionVars PROVE Same
  BY <1>2, <1>3 DEF sessionVars, HoldsRun
<1>4. ASSUME NEW r \in Runs, CreateSandboxRun(r), UNCHANGED approvalVars PROVE Same
  BY <1>3, <1>4 DEF CreateSandboxRun, approvalVars
<1>5. ASSUME NEW i \in Instances, CreateWorkflowInstance(i), UNCHANGED approvalVars PROVE Same
  BY <1>3, <1>5 DEF CreateWorkflowInstance, approvalVars
<1>6. ASSUME NEW c \in Clients, NEW q, NEW e, Coordinate(c, q, e) PROVE Same
  BY <1>1, <1>2, <1>6 DEF Coordinate, OpenLoaded, SessionTypes, HoldsRun
<1>7. ASSUME NEW c \in Clients, NEW a, NEW key, NEW status, NEW n, NEW manual,
             Resolve(c, a, key, status, n, manual) \/ Resume(c, a)
      PROVE  Same
  BY <1>1, <1>2, <1>7 DEF Resolve, Resume, OpenFounderCall, OpenFresh, SessionTypes, HoldsRun
<1>8. ASSUME NEW c \in Clients, NEW a, Ask(c, a) \/ GiveUp(c) PROVE Same
  BY <1>3, <1>8 DEF Ask, GiveUp, vars
<1>9. ASSUME NEW c \in Clients, Decide(c) \/ RunAdapter(c) PROVE Same
  <2>1. UNCHANGED sessionVars /\ \A e \in Clients \ {c} : call'[e] = call[e]
    BY <1>1, <1>9 DEF Decide, RunAdapter, vars
  <2>2. pc[c] \notin {"runLocked", "flushed"}
    BY <1>9 DEF Decide, RunAdapter
  <2>3. QED
    BY <1>2, <2>1, <2>2 DEF sessionVars, HoldsRun
<1>10. ASSUME NEW c \in Clients, LockInstanceForCall(c) PROVE Same
  BY <1>1, <1>2, <1>10 DEF LockInstanceForCall, LockInstance, SessionTypes, HoldsRun, approvalVars
<1>11. ASSUME NEW c \in Clients, c # d, LockRunForCall(c) PROVE Same
  BY <1>1, <1>2, <1>11 DEF LockRunForCall, LockRun, SessionTypes, HoldsRun, approvalVars
<1>12. ASSUME NEW c \in Clients, AppendForCall(c) PROVE Same
  BY <1>1, <1>2, <1>12 DEF AppendForCall, AppendEvent, SessionTypes, HoldsRun, approvalVars
<1>13. ASSUME NEW c \in Clients, Release(c), CloseCall(c) PROVE Same
  BY <1>1, <1>2, <1>13 DEF Release, CloseCall, SessionTypes, HoldsRun
<1>14. ASSUME NEW c \in Clients,
              CommitCall(c) \/ Answer(c) \/ RejectCall(c) \/ RollbackCall(c)
       PROVE  Same
  BY <1>13, <1>14 DEF CommitCall, Commit, Answer, RejectCall, RollbackCall, Rollback, Reject
<1>15. CASE UNCHANGED allVars
  BY <1>3, <1>15 DEF allVars, vars, approvalVars
<1> HIDE DEF Same
<1>16. ASSUME ApprovalsNext PROVE Same \/ LockRunForCall(d)
  BY <1>4, <1>5, <1>6, <1>7, <1>8, <1>9, <1>10, <1>11, <1>12, <1>14, <1>16, Zenon DEF ApprovalsNext
<1>17. QED
  BY <1>15, <1>16 DEF Same

\* Meanwhile nobody else writes its approval or moves its instance.
LEMMA NobodyInterferes ==
  ASSUME CallsInv, [ApprovalsNext]_allVars, NEW d \in Clients, d \notin Preloaded,
         call[d] # None, HoldsInstance(d), pc'[d] # "idle"
  PROVE  /\ approvals'[Target(d)] = approvals[Target(d)]
         /\ inst'[Instance(d)] = inst[Instance(d)]
<1>1. /\ Target(d) \in Approvals /\ apprLock[Target(d)] = d /\ Approval(d) # None
      /\ SessionTypes /\ LocksHeld
  BY KindsTold DEF FounderOK, CallsInv, SessionsInv
<1>2. CASE UNCHANGED <<approvals, events, inst, acted>>
  BY <1>2
<1>3. ASSUME NEW c \in Clients, CommitCall(c)
      PROVE  /\ approvals'[Target(d)] = approvals[Target(d)]
             /\ inst'[Instance(d)] = inst[Instance(d)]
  <2>1. /\ call[c] # None /\ pc[c] = "flushed" /\ Target(c) \in Approvals
        /\ approvals'[Target(c)] = Recorded(c) /\ Approval(c) = approvals[Target(c)]
        /\ \A a \in Approvals : a # Target(c) => approvals'[a] = approvals[a]
    BY <1>3, CommitWritesRow
  <2>2. Commit(c) /\ pc'[c] = "idle"
    BY <1>1, <1>3 DEF CommitCall, Commit, Release, SessionTypes
  <2>3. c # d /\ HoldsInstance(c)
    BY <2>1, <2>2 DEF HoldsInstance
  <2>4. Instance(c) # Instance(d)
    BY <1>1, <2>3, LocksExclude
  <2>5. inst'[Instance(d)] = inst[Instance(d)]
    <3>1. inst \in [Instances -> Row] /\ Instance(d) \in Instances
      BY <1>1, CarriesRequest DEF CallsInv, SessionsInv, TablesInv, BaseInv, LedgerTypeOK, HoldsInstance
    <3>2. QED
      BY <2>2, <2>4, <3>1 DEF Commit
  <2>6. CASE Target(d) # Target(c)
    BY <1>1, <2>1, <2>5, <2>6
  <2>7. CASE Target(d) = Target(c)
    <3>1. c \in Preloaded
      BY <1>1, <2>1, <2>3, <2>7, KindsTold DEF FounderOK
    <3>2. LeavesRow(c)
      BY <1>1, <2>1, <2>7, <3>1, CommitCases
         DEF Inserts, GivesVerdict, MarksExecution, CountsFailure, Approval
    <3>3. QED
      BY <2>1, <2>5, <2>7, <3>2 DEF LeavesRow
  <2>8. QED
    BY <2>6, <2>7
<1>4. QED
  BY <1>2, <1>3, WhoWrites

LEMMA SeenInvariant == ApprovalsSpec => []SeenInv
<1>1. ApprovalsInit => SeenInv
  BY DEF ApprovalsInit, SeenInv, SeesRequest
<1>2. ASSUME CallsInv, SeenInv, [ApprovalsNext]_allVars PROVE SeenInv'
  <2> SUFFICES ASSUME NEW d \in Clients, d \notin Preloaded, call'[d] # None, HoldsRun(d)'
               PROVE  AsRequested(Approval(d))'
    BY DEF SeenInv, SeesRequest
  <2> PICK row : row = Approval(d)
    OBVIOUS
  <2>1. CASE call'[d] = call[d] /\ req'[d] = req[d] /\ HoldsRun(d)
    <3>1. call[d] # None /\ HoldsInstance(d) /\ pc'[d] # "idle"
      BY <2>1 DEF HoldsRun, HoldsInstance
    <3>2. AsRequested(row) /\ Instance(d) = row.inst
      BY <1>2, <2>1, <3>1, KindsTold DEF SeenInv, SeesRequest, FounderOK
    <3>3. Approval(d)' = row /\ inst'[row.inst] = inst[row.inst]
      BY <1>2, <2>1, <3>1, <3>2, NobodyInterferes DEF Approval, Target
    <3>4. QED
      BY <3>2, <3>3 DEF AsRequested
  <2>2. CASE LockRunForCall(d)
    <3>1. call[d] # None /\ pc[d] = "instanceLocked" /\ ~Moved(d)
      BY <1>2, <2>2, KindsTold DEF LockRunForCall, LockRun, Ready
    <3>2. AsRequested(row)
      BY <1>2, <3>1, UnmovedAsRequested
    <3>3. Approval(d)' = row /\ inst' = inst
      BY <2>2 DEF LockRunForCall, LockRun, approvalVars, ledgerVars, Approval, Target
    <3>4. QED
      BY <3>2, <3>3 DEF AsRequested
  <2>3. QED
    BY <1>2, <2>1, <2>2, HoldingBefore
<1>3. QED
  BY <1>1, <1>2, CallsInvariant, PTL DEF ApprovalsSpec

\* However many coordinators and founders work on an instance, and however stale
\* the coordinators' copies of it are: at the step at which an adapter acts for
\* an approval, and at the one that records its execution, the committed instance
\* is in the state and at the version the founder was shown.
THEOREM ApprovalsExecutedAsSeen == ApprovalsSpec => ExecutedAsSeen
<1>1. ASSUME CallsInv, EffectsTyped, SeenInv, [ApprovalsNext]_allVars,
             NEW a \in Approvals, approvals[a] # None, Executes(a)
      PROVE  AsRequested(approvals[a])
  <2>1. CASE approvals'[a].resumed # approvals[a].resumed
    <3>1. PICK c \in Clients : CommitCall(c)
      BY <1>1, <2>1, WhoWrites
    <3>2. /\ call[c] # None /\ pc[c] = "flushed" /\ Target(c) = a
          /\ approvals'[a] = Recorded(c) /\ Approval(c) = approvals[a]
      BY <1>1, <2>1, <3>1, CommitWritesRow
    <3>3. approvals[a] \in ApprovalRow
      BY <1>1 DEF CallsInv, RowsOK, RowOK
    <3>4. MarksExecution(c)
      <4>1. GivesVerdict(c) => Recorded(c).resumed = approvals[a].resumed
        BY <3>2, <3>3 DEF GivesVerdict, ApprovalRow
      <4>2. CountsFailure(c) => Recorded(c).resumed = approvals[a].resumed
        BY <3>2, <3>3 DEF CountsFailure, ApprovalRow
      <4>3. LeavesRow(c) => Recorded(c).resumed = approvals[a].resumed
        BY <3>2 DEF LeavesRow
      <4>4. ~Inserts(c)
        BY <1>1, <3>2 DEF Inserts
      <4>5. QED
        BY <1>1, <2>1, <3>2, <4>1, <4>2, <4>3, <4>4, CommitCases
    <3>5. c \notin Preloaded /\ HoldsRun(c)
      BY <3>2, <3>4 DEF MarksExecution, HoldsRun
    <3>6. QED
      BY <1>1, <3>2, <3>5 DEF SeenInv, SeesRequest
  <2>2. ASSUME NEW k \in Adapters, effects'[ResumeSlot(a, k)] # effects[ResumeSlot(a, k)]
        PROVE  AsRequested(approvals[a])
    <3>1. PICK c \in Clients : RunAdapter(c)
      BY <1>1, <2>2, WhoCarriesOut
    <3>2. /\ UsesAdapter(c) /\ effects' = [effects EXCEPT ![AdapterSlot(c)] = <<Signature(c)>>]
      BY <1>1, <2>2, <3>1, AdapterActsOnce
    <3>3. AdapterSlot(c) = ResumeSlot(a, k)
      <4>1. ResumeSlot(a, k) \in Slots
        BY KeysApart DEF ResumeSlot, Slots, Approvals
      <4>2. QED
        BY <1>1, <2>2, <3>2, <4>1 DEF EffectsTyped
    <3>4. call[c] # None /\ call[c].native \in Natives
      BY <1>1, <3>1, AdapterCall
    <3>5. c \notin Preloaded
      BY <1>1, <3>2, <3>3, <3>4, SlotOfCall, KeysApart DEF ResumeSlot
    <3>6. call[c].kind = "resume" /\ Target(c) \in Approvals /\ Approval(c) = approvals[Target(c)]
      BY <1>1, <3>1, <3>4, <3>5, AdapterCall, KindsTold
    <3>7. Target(c) = a
      BY <1>1, <3>2, <3>3, <3>4, <3>5, <3>6, SlotOfCall, KeysApart DEF ResumeSlot
    <3>8. pc[c] = "instanceLocked" /\ ~Moved(c)
      BY <3>1, <3>6 DEF RunAdapter, Is
    <3>9. QED
      BY <1>1, <3>4, <3>5, <3>6, <3>7, <3>8, UnmovedAsRequested
  <2>3. QED
    BY <1>1, <2>1, <2>2 DEF Executes, ResumeSlot
<1>2. ASSUME CallsInv, EffectsInv, SeenInv, [ApprovalsNext]_allVars
      PROVE  \A a \in Approvals :
               approvals[a] # None /\ Executes(a) => AsRequested(approvals[a])
  BY <1>1, <1>2 DEF EffectsInv
<1>3. QED
  BY <1>2, CallsInvariant, EffectsInvariant, SeenInvariant, PTL DEF ApprovalsSpec, ExecutedAsSeen
==============================================================================
