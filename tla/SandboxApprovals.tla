--------------------------- MODULE SandboxApprovals ---------------------------
(***************************************************************************)
(* The Stage-2 coordinator, the founder approvals and the synthetic        *)
(* adapters on top of SandboxStore:                                        *)
(* app/services/company_os_sandbox_coordinator.py,                         *)
(* app/services/company_os_sandbox_approval_service.py,                    *)
(* app/services/company_os_synthetic_adapters.py.                          *)
(*                                                                         *)
(* A call is one transaction of the store that ends in one append.         *)
(* Coordinators are the clients in Preloaded; the others resolve and       *)
(* resume approvals. Every action is an action of the store joined with    *)
(* what the call keeps beside it, or leaves the store alone.               *)
(***************************************************************************)
EXTENDS SandboxStore, Sequences

CONSTANTS
  Decisions,     \* founder decision ids, unique in a run
  DeliveryKeys,  \* idempotency keys callers give a coordinated action
  ResolutionKeys, \* idempotency keys callers give a resolution
  Natives,       \* native decisions the model may return
  Adapters,      \* kinds of synthetic adapters
  Workflow,      \* registered transitions: from, action, to
  Verdicts,      \* statuses a founder may resolve a request with
  MaxFailures    \* bound on the failed resumes of one approval

Approvals == Runs \X Decisions
ResumeKey(a) == <<"resume", a>>
FailureKey(a, n) == <<"failure", a, n>>
ResumeKeys ==
  {ResumeKey(a) : a \in Approvals}
    \union {FailureKey(a, n) : a \in Approvals, n \in 1..MaxFailures}

ASSUME MaxFailuresAssumption == MaxFailures \in Nat
\* Event ids are fresh UUIDs: an event's is told from others' by its delivery.
ASSUME KeysAssumption ==
  /\ (DeliveryKeys \union ResolutionKeys) \intersect ResumeKeys = {}
  /\ Keys = DeliveryKeys \union ResolutionKeys \union ResumeKeys
  /\ EventIds = Keys
\* A native decision names an action, a state to reach, whether the policy asks
\* for the founder, and the kind of adapter it goes through, if any.
ASSUME NativesAssumption ==
  /\ None \notin Natives /\ None \notin Adapters
  /\ \A n \in Natives :
       n.after \in States /\ n.red \in BOOLEAN /\ n.adapter \in Adapters \union {None}
ASSUME RegisteredAssumption == Transitions = {<<w[1], w[3]>> : w \in Workflow}
ASSUME VerdictsAssumption ==
  Verdicts \subseteq {"approved", "modified", "rejected", "needs_more_evidence",
                      "expired", "cancelled"}
ASSUME ApprovalEventsAssumption ==
  {"approval_requested", "approval_resolved", "failure_detected",
   "transition_completed", "decision_produced"} \subseteq EventTypes

VARIABLES
  approvals,  \* committed approval rows
  apprLock,   \* holder of each approval's row lock
  awaits,     \* the approval whose row lock a founder's call has asked for
  call,       \* the call a client's transaction makes
  acted,      \* the native decision of each committed event that carries one out
  effects     \* what the adapters of the synthetic world carried out, by slot

approvalVars == <<approvals, apprLock, awaits, call, acted, effects>>
allVars == <<vars, approvalVars>>

\* request and resolution are the keys of the request and the resolution event,
\* state and version what the request recorded, effective the decision a resume
\* carries out.
ApprovalRow ==
  [inst: Instances, request: DeliveryKeys, state: States, version: Nat,
   native: Natives, effective: Natives, status: Verdicts \union {"pending"},
   resolution: ResolutionKeys \union {None}, manual: BOOLEAN, resumed: BOOLEAN, failures: 0..MaxFailures]

Kinds == {"coordinate", "resolve", "resume"}
Plans == {"undecided", "deny", "request", "execute", "act"}
Call == [kind: Kinds, approval: Approvals, native: Natives \union {None},
         status: Verdicts \union {"pending"}, manual: BOOLEAN, plan: Plans]

\* An adapter keeps one receipt for a slot (its kind and the idempotency key) and
\* signs it with the entity and the decision; each run has a world of its own.
Slots == Runs \X Adapters \X Keys
Effect == [inst: Instances, native: Natives]

ASSUME NoneAssumption ==
  /\ None \notin Keys /\ None \notin Approvals
  /\ None \notin ApprovalRow /\ None \notin Call

ApprovalsTypeOK ==
  /\ TypeOK
  /\ approvals \in [Approvals -> ApprovalRow \union {None}]
  /\ apprLock \in [Approvals -> Clients \union {None}]
  /\ awaits \in [Clients -> Approvals \union {None}]
  /\ call \in [Clients -> Call \union {None}]
  /\ acted \subseteq [inst: Instances, key: Keys, native: Natives]
  /\ effects \in [Slots -> Seq(Effect)]

Executable == {"approved", "modified"}
Target(c) == call[c].approval
Approval(c) == approvals[Target(c)]
Is(c, kind) == call[c] # None /\ call[c].kind = kind

ApprovalsInit ==
  /\ Init
  /\ approvals = [a \in Approvals |-> None]
  /\ apprLock = [a \in Approvals |-> None]
  /\ awaits = [c \in Clients |-> None]
  /\ call = [c \in Clients |-> None]
  /\ acted = {}
  /\ effects = [s \in Slots |-> <<>>]

-----------------------------------------------------------------------------
(* What a call needs to know. *)

IsOpen(row) == row # None /\ row.status \in Executable \union {"pending"} /\ ~row.resumed

\* Deviation: an approved request that has not been resumed is not counted.
OutstandingPending(i, action) ==
  \E a \in Approvals :
    /\ approvals[a] # None /\ approvals[a].status = "pending"
    /\ approvals[a].inst = i /\ approvals[a].native.action = action

\* The query and the partial unique index on unresolved requests of an action.
Outstanding(i, action) ==
  \E a \in Approvals :
    IsOpen(approvals[a]) /\ approvals[a].inst = i /\ approvals[a].native.action = action

Registered(state, n) == n.after = state \/ <<state, n.action, n.after>> \in Workflow

\* The workflow has changed since the request.
Moved(c) ==
  \/ view[c].state # Approval(c).state
  \/ view[c].version # Approval(c).version
  \/ view[c].terminal

\* Deviation: a resolution may replace one that has not been resumed.
AdmittedUnresumed(c) ==
  (Is(c, "resume") => Approval(c).status \in Executable) /\ ~Approval(c).resumed

\* The approval admits the call.
Admitted(c) ==
  IF Is(c, "resolve") THEN Approval(c).status = "pending"
  ELSE Approval(c).status \in Executable /\ ~Approval(c).resumed

NewCall(kind, a, n, status, manual, plan) ==
  [kind |-> kind, approval |-> a, native |-> n, status |-> status,
   manual |-> manual, plan |-> plan]

CloseCall(c) ==
  /\ apprLock' = [a \in Approvals |-> IF apprLock[a] = c THEN None ELSE apprLock[a]]
  /\ call' = [call EXCEPT ![c] = None]

-----------------------------------------------------------------------------
(* Opening a call. *)

Coordinate(c, q, d) ==
  /\ q.key \in DeliveryKeys
  /\ OpenLoaded(c, q)
  /\ call' = [call EXCEPT ![c] =
       NewCall("coordinate", <<RunOf[q.inst], d>>, None, "pending", FALSE, "undecided")]
  /\ UNCHANGED <<approvals, apprLock, awaits, acted, effects>>

\* A founder's call begins with SELECT ... FOR UPDATE of the approval and waits
\* for the row with no other lock held.
Ask(c, a) ==
  /\ c \notin Preloaded
  /\ pc[c] = "idle"
  /\ awaits[c] = None
  /\ approvals[a] # None
  /\ awaits' = [awaits EXCEPT ![c] = a]
  /\ UNCHANGED <<vars, approvals, apprLock, call, acted, effects>>

\* Its process or connection dies while it waits.
GiveUp(c) ==
  /\ awaits[c] # None
  /\ awaits' = [awaits EXCEPT ![c] = None]
  /\ UNCHANGED <<vars, approvals, apprLock, call, acted, effects>>

\* The row is granted. What the call is about matters from here on.
OpenFounderCall(c, a, key, newCall) ==
  /\ awaits[c] = a
  /\ approvals[a] # None
  /\ apprLock[a] = None
  /\ OpenFresh(c, [inst |-> approvals[a].inst, key |-> key,
                   version |-> approvals[a].version])
  /\ apprLock' = [apprLock EXCEPT ![a] = c]
  /\ awaits' = [awaits EXCEPT ![c] = None]
  /\ call' = [call EXCEPT ![c] = newCall]
  /\ UNCHANGED <<approvals, acted, effects>>

\* A modified resolution carries a correction, and only it does; manual
\* evidence goes with a resolution that permits execution.
Resolve(c, a, key, status, n, manual) ==
  /\ awaits[c] = a
  /\ (status = "modified") <=> (n # approvals[a].native)
  /\ manual => status \in Executable
  /\ OpenFounderCall(c, a, key, NewCall("resolve", a, n, status, manual, "act"))

\* Whether the gates and the adapter will let the resume through is settled by
\* their inputs; it decides which key the append is given.
Resume(c, a) ==
  /\ awaits[c] = a
  /\ \E key \in ResumeKeys :
       /\ \/ key = ResumeKey(a) /\ Registered(approvals[a].state, approvals[a].effective)
          \/ key = FailureKey(a, approvals[a].failures + 1)
       /\ OpenFounderCall(c, a, key,
            NewCall("resume", a, approvals[a].effective, "pending",
                    approvals[a].manual, "execute"))

-----------------------------------------------------------------------------
(* Deciding and executing. *)

\* Deviation: a decision that goes through an adapter skips the founder.
PlanAdapterFirst(c, n) ==
  IF n.adapter # None THEN "execute"
  ELSE IF n.red THEN IF Outstanding(Instance(c), n.action) THEN "deny" ELSE "request"
  ELSE "act"

\* What the gates make of a decision that is contract-conformant and allowed.
PlanFor(c, n) ==
  IF n.red THEN IF Outstanding(Instance(c), n.action) THEN "deny" ELSE "request"
  ELSE IF n.adapter # None THEN "execute" ELSE "act"

\* The model answers. Any gate may deny: the provider fails, the output breaks
\* the contract, the policy, the evidence or the integration registry says no.
Decide(c) ==
  /\ Is(c, "coordinate")
  /\ pc[c] = "open"
  /\ call[c].plan = "undecided"
  /\ \/ call' = [call EXCEPT ![c].plan = "deny"]
     \/ \E n \in Natives :
          /\ Registered(view[c].state, n)
          /\ call' = [call EXCEPT ![c].native = n, ![c].plan = PlanFor(c, n)]
  /\ UNCHANGED <<vars, approvals, apprLock, awaits, acted, effects>>

AdapterSlot(c) ==
  <<Run(c), call[c].native.adapter,
    IF Is(c, "resume") THEN ResumeKey(Target(c)) ELSE req[c].key>>
UsesAdapter(c) == call[c].native.adapter # None /\ ~call[c].manual
Signature(c) == [inst |-> Instance(c), native |-> call[c].native]
Performed(c) == effects' = [effects EXCEPT ![AdapterSlot(c)] = Append(@, Signature(c))]
Replays(c) ==
  effects[AdapterSlot(c)] # <<>> /\ Head(effects[AdapterSlot(c)]) = Signature(c)

\* Deviation: a repeated key is carried out again.
ReceiptAnew(c) == Performed(c)

\* SyntheticAdapter.execute returns a receipt: the one it has in this slot for
\* the same entity and decision, or that of the effect it carries out now.
Receipt(c) ==
  \/ effects[AdapterSlot(c)] = <<>> /\ Performed(c)
  \/ Replays(c) /\ UNCHANGED effects

\* It raises instead: before the effect (the adapter is not at hand, an injected
\* failure, an ineligible entity, a slot used for another decision), or after
\* it, losing the receipt. A resume may also be stopped by a gate on its way.
NoReceipt(c) ==
  \/ UNCHANGED effects
  \/ /\ UsesAdapter(c) /\ Registered(view[c].state, call[c].native)
     /\ effects[AdapterSlot(c)] = <<>>
     /\ Performed(c)

\* A coordinator calls the adapter before it asks for a lock, a resume with the
\* approval and the instance locked.
RunAdapter(c) ==
  /\ call[c] # None
  /\ call[c].plan = "execute"
  /\ pc[c] = IF Is(c, "resume") THEN "instanceLocked" ELSE "open"
  /\ Is(c, "resume") => ~Moved(c)
  /\ \/ /\ Is(c, "resume") => req[c].key = ResumeKey(Target(c))
        /\ IF UsesAdapter(c) THEN Receipt(c) ELSE UNCHANGED effects
        /\ call' = [call EXCEPT ![c].plan = "act"]
     \/ /\ Is(c, "resume") => req[c].key # ResumeKey(Target(c))
        /\ NoReceipt(c)
        /\ call' = [call EXCEPT ![c].plan = "deny"]
  /\ UNCHANGED <<vars, approvals, apprLock, awaits, acted>>

-----------------------------------------------------------------------------
(* Locking, appending and ending. *)

LockInstanceForCall(c) ==
  /\ call[c] # None
  /\ IF Is(c, "coordinate") THEN call[c].plan \notin {"undecided", "execute"} ELSE Admitted(c)
  /\ LockInstance(c)
  /\ UNCHANGED approvalVars

\* The checks between the instance lock and the append are passed.
Ready(c) == ~Is(c, "coordinate") => call[c].plan # "execute" /\ ~Moved(c)

LockRunForCall(c) ==
  /\ call[c] # None
  /\ LockRun(c)
  /\ Ready(c)
  /\ UNCHANGED approvalVars

\* Early returns, with an earlier event or an error, and the checks against the
\* locked instance that fail. Nothing has been written.
Answer(c) ==
  /\ call[c] # None
  /\ ~Is(c, "coordinate")
  /\ \/ pc[c] = "open" /\ ~Admitted(c)
     \/ pc[c] = "open" /\ Is(c, "resume") /\ Approval(c).failures > 0
     \/ pc[c] = "instanceLocked" /\ Moved(c)
  /\ Rollback(c)
  /\ CloseCall(c)
  /\ UNCHANGED <<approvals, awaits, acted, effects>>

AfterOf(c) == IF call[c].plan = "act" /\ ~Is(c, "resolve") THEN call[c].native.after ELSE view[c].state

TypeOf(c) ==
  IF call[c].plan = "deny" THEN "failure_detected"
  ELSE IF call[c].plan = "request" THEN "approval_requested"
  ELSE IF Is(c, "resolve") THEN "approval_resolved"
  ELSE IF AfterOf(c) = view[c].state THEN "decision_produced"
  ELSE IF Is(c, "resume") /\ AfterOf(c) \in TerminalStates THEN "terminal_outcome"
  ELSE "transition_completed"

\* The unique constraints of the approval table let the call's row in.
RowInsertable(c) ==
  call[c].plan = "request" =>
    Approval(c) = None /\ ~Outstanding(Instance(c), call[c].native.action)

\* Deviation: the append also locks the instance's open approvals, which a
\* founder's call locks first.
AppendForCallLocking(c) ==
  /\ call[c] # None
  /\ RowInsertable(c)
  /\ \A a \in Approvals :
       IsOpen(approvals[a]) /\ approvals[a].inst = Instance(c) => apprLock[a] \in {None, c}
  /\ AppendEvent(c, req[c].key, TypeOf(c), view[c].state, AfterOf(c))
  /\ UNCHANGED approvalVars

\* The append and, for a request, the INSERT of the approval row.
AppendForCall(c) ==
  /\ call[c] # None
  /\ RowInsertable(c)
  /\ AppendEvent(c, req[c].key, TypeOf(c), view[c].state, AfterOf(c))
  /\ UNCHANGED approvalVars

NewApproval(c) ==
  [inst |-> Instance(c), request |-> req[c].key, state |-> view[c].state,
   version |-> view[c].version, native |-> call[c].native,
   effective |-> call[c].native, status |-> "pending",
   resolution |-> None, manual |-> FALSE, resumed |-> FALSE, failures |-> 0]

\* Deviation: a failed attempt is not counted.
RecordedUncounted(c) ==
  CASE call[c].plan = "request" -> NewApproval(c)
    [] Is(c, "resolve") -> [Approval(c) EXCEPT !.status = call[c].status,
                              !.resolution = req[c].key, !.effective = call[c].native, !.manual = call[c].manual]
    [] Is(c, "resume") /\ call[c].plan = "act" -> [Approval(c) EXCEPT !.resumed = TRUE]
    [] OTHER -> Approval(c)

\* The approval row the call leaves.
Recorded(c) ==
  CASE call[c].plan = "request" -> NewApproval(c)
    [] Is(c, "resolve") -> [Approval(c) EXCEPT !.status = call[c].status,
                              !.resolution = req[c].key, !.effective = call[c].native, !.manual = call[c].manual]
    [] Is(c, "resume") /\ call[c].plan = "act" -> [Approval(c) EXCEPT !.resumed = TRUE]
    [] Is(c, "resume") /\ call[c].plan = "deny" -> [Approval(c) EXCEPT !.failures = @ + 1]
    [] OTHER -> Approval(c)

CommitCall(c) ==
  /\ call[c] # None
  /\ Commit(c)
  /\ approvals' = [approvals EXCEPT ![Target(c)] = Recorded(c)]
  /\ acted' = IF call[c].plan = "act" /\ ~Is(c, "resolve")
              THEN acted \union {[inst |-> Instance(c), key |-> req[c].key,
                                  native |-> call[c].native]}
              ELSE acted
  /\ CloseCall(c)
  /\ UNCHANGED <<awaits, effects>>

\* A check of the append, or the flush of the approval row, raises.
RejectCall(c) ==
  /\ call[c] # None
  /\ Reject(c)
  /\ CloseCall(c)
  /\ UNCHANGED <<approvals, awaits, acted, effects>>

RollbackCall(c) ==
  /\ call[c] # None
  /\ Rollback(c)
  /\ CloseCall(c)
  /\ UNCHANGED <<approvals, awaits, acted, effects>>

ApprovalsNext ==
  \/ \E r \in Runs : CreateSandboxRun(r) /\ UNCHANGED approvalVars
  \/ \E i \in Instances : CreateWorkflowInstance(i) /\ UNCHANGED approvalVars
  \/ \E c \in Clients :
       \/ \E q \in Request, d \in Decisions : Coordinate(c, q, d)
       \/ \E a \in Approvals, key \in ResolutionKeys, status \in Verdicts,
             n \in Natives, manual \in BOOLEAN : Resolve(c, a, key, status, n, manual)
       \/ \E a \in Approvals : Ask(c, a) \/ Resume(c, a)
       \/ GiveUp(c)
       \/ Decide(c)
       \/ RunAdapter(c)
       \/ LockInstanceForCall(c)
       \/ LockRunForCall(c)
       \/ AppendForCall(c)
       \/ CommitCall(c)
       \/ Answer(c)
       \/ RejectCall(c)
       \/ RollbackCall(c)

ApprovalsSpec == ApprovalsInit /\ [][ApprovalsNext]_allVars

OpenAsked(c) ==
  \/ \E a \in Approvals : Resume(c, a)
  \/ \E a \in Approvals, key \in ResolutionKeys, status \in Verdicts,
        n \in Natives, manual \in BOOLEAN : Resolve(c, a, key, status, n, manual)

\* The append of the call raises no error.
Passes(c) ==
  /\ Checked(c, NewEvent(Instance(c), req[c].key, req[c].key, TypeOf(c), view[c].state, AfterOf(c)))
  /\ RowInsertable(c)

\* What a call does by itself once it wants a lock.
CallStep(c) ==
  \/ OpenAsked(c)
  \/ LockInstanceForCall(c)
  \/ c \notin Preloaded /\ (RunAdapter(c) \/ Answer(c))
  \/ LockRunForCall(c)
  \/ AppendForCall(c)
  \/ CommitCall(c)
  \/ RejectCall(c) /\ ~Passes(c)

\* PostgreSQL grants a row lock to its waiters in turn, so a call that can go on
\* again and again goes on; it raises where a check fails and not as it pleases.
\* A call may die, and none is assumed to. Nothing bounds the model call of a
\* coordinator.
ApprovalsFairness == \A c \in Clients : SF_allVars(CallStep(c))

FairApprovalsSpec == ApprovalsSpec /\ ApprovalsFairness

-----------------------------------------------------------------------------
(* Properties. *)

EventAt(r, key) == {e \in RunEvents(r) : e.key = key}
KindAt(a, key) == {e.type : e \in EventAt(a[1], key)}
Before(a, key1, key2) ==
  \A e \in EventAt(a[1], key1), f \in EventAt(a[1], key2) : e.seq < f.seq

\* No RED decision is carried out, in the ledger or in the synthetic world,
\* unless it is what an approval authorizes: the founder's verdict was recorded
\* as an event of its own before, and it covers this very decision. A founder's
\* verdict carries out at most one event.
RedNeedsFounder ==
  /\ \A x \in acted : x.native.red =>
       \E a \in Approvals :
         /\ approvals[a] # None
         /\ x.key = ResumeKey(a)
         /\ approvals[a].status \in {"approved", "modified"}
         /\ approvals[a].effective = x.native
         /\ KindAt(a, approvals[a].resolution) = {"approval_resolved"}
         /\ Before(a, approvals[a].resolution, ResumeKey(a))
  /\ \A s \in DOMAIN effects : \A k \in 1..Len(effects[s]) : effects[s][k].native.red =>
       \E a \in Approvals :
         /\ s[1] = a[1] /\ s[3] = ResumeKey(a)
         /\ approvals[a] # None
         /\ approvals[a].status \in {"approved", "modified"}
         /\ approvals[a].effective = effects[s][k].native

\* Whatever fails, times out, is rolled back or retried: an adapter carries a key
\* out once, a committed event that went through an adapter has the effect of its
\* own decision there, and what a founder approves is carried out by one adapter
\* only. (A coordinated delivery that is rolled back and answered anew by a
\* decision for another adapter leaves an effect with each.)
EffectOnce ==
  /\ \A s \in Slots : Len(effects[s]) <= 1
  /\ \A x \in acted : x.native.adapter # None =>
       \/ effects[<<RunOf[x.inst], x.native.adapter, x.key>>]
            = <<[inst |-> x.inst, native |-> x.native]>>
       \/ \E a \in Approvals :
            x.key = ResumeKey(a) /\ approvals[a] # None /\ approvals[a].manual
  /\ \A a \in Approvals, k \in Adapters, l \in Adapters :
       effects[<<a[1], k, ResumeKey(a)>>] # <<>> /\ effects[<<a[1], l, ResumeKey(a)>>] # <<>>
         => k = l

\* An approval row and the log tell one story: the request event, the founder's
\* verdict, each failed attempt and the one execution are in the log exactly
\* when the row says so, and every request event has its row.
ApprovalHistory ==
  /\ \A a \in Approvals : approvals[a] # None =>
       LET row == approvals[a] IN
       /\ KindAt(a, row.request) = {"approval_requested"}
       /\ KindAt(a, row.resolution) =
            IF row.status = "pending" THEN {} ELSE {"approval_resolved"}
       /\ row.resumed <=> EventAt(a[1], ResumeKey(a)) # {}
       /\ {n \in 1..MaxFailures : EventAt(a[1], FailureKey(a, n)) # {}} = 1..row.failures
  /\ \A e \in events : e.type \in {"approval_requested", "approval_resolved"} =>
       \E a \in Approvals :
         approvals[a] # None /\ e.key \in {approvals[a].request, approvals[a].resolution}

\* The instance is as the request recorded it.
AsRequested(row) ==
  inst[row.inst] = [state |-> row.state, version |-> row.version, terminal |-> FALSE]

\* The step carries out what the approval asked for: an effect, or its event.
Executes(a) ==
  \/ approvals'[a].resumed # approvals[a].resumed
  \/ \E k \in Adapters : effects'[<<a[1], k, ResumeKey(a)>>] # effects[<<a[1], k, ResumeKey(a)>>]

\* Whoever moves the instance meanwhile, an adapter acts for an approval, and its
\* execution is recorded, only while the committed instance is in the state and
\* at the version the founder was shown, and not finished.
ExecutedAsSeen ==
  [][\A a \in Approvals :
       approvals[a] # None /\ Executes(a) => AsRequested(approvals[a])]_allVars


\* One unresolved request per action of an instance.
OneOpenRequest ==
  \A a, b \in Approvals :
    /\ IsOpen(approvals[a]) /\ IsOpen(approvals[b])
    /\ approvals[a].inst = approvals[b].inst
    /\ approvals[a].native.action = approvals[b].native.action
    => a = b

\* A verdict is given once and an execution is not taken back, whatever calls
\* race for the approval.
VerdictIsFinal ==
  [][\A a \in Approvals : approvals[a] # None =>
       /\ approvals'[a] # None
       /\ approvals[a].status # "pending" =>
            /\ approvals'[a].status = approvals[a].status
            /\ approvals'[a].effective = approvals[a].effective
       /\ approvals[a].resumed => approvals'[a] = approvals[a]]_allVars

\* The call wants a lock: a founder's once it has asked, a coordinator's once it
\* has decided.
Begun(c) ==
  \/ awaits[c] # None
  \/ /\ call[c] # None
     /\ Is(c, "coordinate") => call[c].plan \notin {"undecided", "execute"}

\* A call that wants a lock ends, and no deadlock detector has to end it: every
\* call locks approval, instance and run in this order, and a coordinator waits
\* for its model with no lock held.
EveryCallEnds ==
  \A c \in Clients : Begun(c) ~> (awaits[c] = None /\ pc[c] = "idle")

==============================================================================
