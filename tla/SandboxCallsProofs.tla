-------------------------- MODULE SandboxCallsProofs --------------------------
(***************************************************************************)
(* The calls of coordinators and founders on the store: each of their      *)
(* steps is a step of SandboxStore or leaves it alone, so what is proved   *)
(* of every mix of sessions holds under them.                              *)
(*                                                                         *)
(* That is no matter of form: the key, the version, the type and the state *)
(* an append is given are those of a call that began long before, and are  *)
(* known to be a delivery's only by what every step keeps of the call and  *)
(* of the approval row it has locked (CallOK, RowOK).                      *)
(***************************************************************************)
EXTENDS SandboxApprovals, SandboxSessionProofs

\* An approval row by itself.
RowOK(a, row) ==
  /\ row \in ApprovalRow
  /\ row.version \in 0..MaxVersion
  /\ RunOf[row.inst] = a[1]
  /\ row.status = "pending" <=> row.resolution = None
  /\ row.resumed => row.status \in Executable

\* All of them.
RowsOK ==
  /\ approvals \in [Approvals -> ApprovalRow \union {None}]
  /\ \A a \in Approvals : approvals[a] # None => RowOK(a, approvals[a])

\* A coordinator's request is for a decision id that has no row and an action
\* with no open request, from its append to its commit.
RequestIsNew(c) ==
  /\ Approval(c) = None
  /\ ~Outstanding(Instance(c), call[c].native.action)
  /\ view[c].version = req[c].version

\* What a coordinator has decided when it has come so far.
CoordinatorOK(c) ==
  /\ call[c].kind = "coordinate"
  /\ req[c].key \in DeliveryKeys
  /\ Target(c)[1] = Run(c)
  /\ ~call[c].manual
  /\ call[c].plan \in {"undecided", "execute"} => pc[c] = "open"
  /\ call[c].plan \in {"request", "execute", "act"} => call[c].native \in Natives
  /\ call[c].plan \in {"execute", "act"} => ~call[c].native.red
  /\ call[c].plan = "request" /\ pc[c] = "flushed" => RequestIsNew(c)

\* A founder's call has its approval locked, and speaks of what is in the row.
FounderOK(c) ==
  /\ call[c].kind \in {"resolve", "resume"}
  /\ apprLock[Target(c)] = c
  /\ Approval(c) # None
  /\ Instance(c) = Approval(c).inst
  /\ call[c].native \in Natives
  /\ pc[c] # "open" => Admitted(c)

\* A resolving founder records a verdict, at a key of its own.
ResolveOK(c) ==
  /\ req[c].key \in ResolutionKeys
  /\ call[c].plan = "act"
  /\ call[c].status \in Verdicts

\* A resuming one carries out what the verdict covers, or records that it failed.
ResumeOK(c) ==
  /\ call[c].native = Approval(c).effective
  /\ call[c].manual = Approval(c).manual
  /\ call[c].plan \in {"execute", "act", "deny"}
  /\ \/ req[c].key = ResumeKey(Target(c))
     \/ /\ req[c].key = FailureKey(Target(c), Approval(c).failures + 1)
        /\ Approval(c).failures < MaxFailures
  /\ call[c].plan = "act" => req[c].key = ResumeKey(Target(c))
  /\ call[c].plan = "deny" => req[c].key # ResumeKey(Target(c))
  /\ HoldsRun(c) => call[c].plan # "execute"

\* The event a call has flushed is the one its key and its plan call for.
PendingOK(c) ==
  pc[c] = "flushed" =>
    /\ pend[c].key = req[c].key
    /\ pend[c].type = "approval_requested" <=> call[c].plan = "request"
    /\ pend[c].type = "approval_resolved" <=> call[c].kind = "resolve"

\* All that is known of a call.
CallOK(c) ==
  /\ call[c] = None <=> pc[c] = "idle"
  /\ call[c] # None =>
       /\ call[c] \in Call
       /\ c \in Preloaded => CoordinatorOK(c)
       /\ c \notin Preloaded => FounderOK(c)
       /\ call[c].kind = "resolve" => ResolveOK(c)
       /\ call[c].kind = "resume" => ResumeOK(c)
       /\ PendingOK(c)

\* All that is known of the calls, their locks and the rows.
CallsInv ==
  /\ SessionsInv
  /\ RowsOK
  /\ apprLock \in [Approvals -> Clients \union {None}]
  /\ call \in [Clients -> Call \union {None}]
  /\ \A c \in Clients : CallOK(c)

-----------------------------------------------------------------------------
(* Calls and the store. *)

\* The keys of a resume are its own, whatever keys callers give.
LEMMA KeysApart ==
  ASSUME NEW a \in Approvals
  PROVE  /\ ResumeKey(a) \in Keys /\ ResumeKey(a) \notin DeliveryKeys \union ResolutionKeys
         /\ \A n \in 1..MaxFailures :
              FailureKey(a, n) \in Keys /\ FailureKey(a, n) \notin DeliveryKeys \union ResolutionKeys
         /\ \A b \in Approvals : ResumeKey(a) = ResumeKey(b) => a = b
         /\ \A b \in Approvals, n \in 1..MaxFailures : ResumeKey(b) # FailureKey(a, n)
         /\ \A b \in Approvals, n, m \in 1..MaxFailures :
              FailureKey(a, n) = FailureKey(b, m) => a = b /\ n = m
BY KeysAssumption DEF ResumeKeys, ResumeKey, FailureKey

\* A call that another client makes is as it was, when its approval is, and when
\* nothing is added to the run it has locked.
LEMMA OtherCall ==
  ASSUME CallsInv, RowsOK', NEW d \in Clients,
         call'[d] = call[d], pc'[d] = pc[d], req'[d] = req[d],
         view'[d] = view[d], pend'[d] = pend[d],
         call[d] # None /\ d \notin Preloaded =>
           approvals'[Target(d)] = approvals[Target(d)] /\ apprLock'[Target(d)] = d,
         call[d] # None /\ HoldsRun(d) =>
           \A a \in Approvals : a[1] = Run(d) => approvals'[a] = approvals[a]
  PROVE  CallOK(d)'
<1> SUFFICES ASSUME call[d] # None PROVE CallOK(d)'
  BY DEF CallsInv, CallOK
<1>1. CallOK(d) /\ call[d] \in Call /\ Target(d) \in Approvals
  BY DEF CallsInv, CallOK, Call, Target
<1>2. /\ Target(d)' = Target(d) /\ Instance(d)' = Instance(d) /\ Run(d)' = Run(d)
      /\ HoldsRun(d)' = HoldsRun(d)
  BY DEF Target, Instance, Run, HoldsRun
<1>3. CASE d \in Preloaded
  <2>1. CoordinatorOK(d)
    BY <1>1, <1>3 DEF CallOK
  <2>2. ASSUME pc[d] = "flushed", RequestIsNew(d) PROVE RequestIsNew(d)'
    <3>1. \A a \in Approvals : a[1] = Run(d) => approvals'[a] = approvals[a]
      BY <2>2 DEF HoldsRun
    <3>2. Approval(d)' = None
      BY <1>1, <1>2, <2>1, <2>2, <3>1 DEF CoordinatorOK, RequestIsNew, Approval
    <3>3. ~Outstanding(Instance(d), call[d].native.action)'
      <4> SUFFICES ASSUME NEW a \in Approvals, IsOpen(approvals'[a]),
                          approvals'[a].inst = Instance(d),
                          approvals'[a].native.action = call[d].native.action
                   PROVE  FALSE
        BY <1>2 DEF Outstanding
      <4>1. RunOf[approvals'[a].inst] = a[1]
        BY DEF RowsOK, RowOK, IsOpen
      <4>2. approvals'[a] = approvals[a]
        BY <3>1, <4>1 DEF Run
      <4>3. QED
        BY <2>2, <4>2 DEF RequestIsNew, Outstanding
    <3>4. QED
      BY <2>2, <3>2, <3>3, <1>2 DEF RequestIsNew, Outstanding
  <2>3. CoordinatorOK(d)'
    BY <1>2, <2>1, <2>2 DEF CoordinatorOK
  <2>4. call[d].kind = "coordinate"
    BY <2>1 DEF CoordinatorOK
  <2>5. QED
    BY <1>1, <1>3, <2>3, <2>4 DEF CallOK, PendingOK
<1>4. CASE d \notin Preloaded
  <2>1. FounderOK(d)
    BY <1>1, <1>4 DEF CallOK
  <2>2. Approval(d)' = Approval(d) /\ apprLock'[Target(d)'] = d
    BY <1>2, <1>4 DEF Approval
  <2>3. Admitted(d)' <=> Admitted(d)
    BY <2>2 DEF Admitted, Is
  <2>4. FounderOK(d)'
    BY <1>2, <2>1, <2>2, <2>3 DEF FounderOK
  <2>5. ResumeOK(d)' <=> ResumeOK(d)
    BY <1>2, <2>2 DEF ResumeOK
  <2>6. QED
    BY <1>1, <1>4, <2>4, <2>5 DEF CallOK, PendingOK, ResolveOK
<1>5. QED
  BY <1>3, <1>4

\* A step within one client's call.
LEMMA OwnCall ==
  ASSUME CallsInv, NEW c \in Clients, SessionsInv', OthersUntouched(c), approvals' = approvals,
         apprLock' \in [Approvals -> Clients \union {None}],
         \A d \in Clients \ {c} :
           /\ call'[d] = call[d]
           /\ \A a \in Approvals : apprLock[a] = d => apprLock'[a] = d,
         call' \in [Clients -> Call \union {None}], CallOK(c)'
  PROVE  CallsInv'
<1>1. RowsOK'
  BY DEF CallsInv, RowsOK
<1>2. ASSUME NEW d \in Clients, d # c PROVE CallOK(d)'
  <2>1. call[d] # None /\ d \notin Preloaded => apprLock[Target(d)] = d /\ Target(d) \in Approvals
    BY DEF CallsInv, CallOK, FounderOK, Call, Target
  <2>2. QED
    BY <1>1, <1>2, <2>1, OtherCall DEF OthersUntouched
<1>3. QED
  BY <1>1, <1>2 DEF CallsInv

\* A step of the store leaves the other sessions alone.
LEMMA StoreStepOfOne ==
  ASSUME SessionTypes, NEW c \in Clients, NEW q,
         \/ OpenFresh(c, q) \/ OpenLoaded(c, q) \/ LockInstance(c) \/ LockRun(c)
         \/ AppendSome(c) \/ Release(c)
  PROVE  OthersUntouched(c)
<1> USE DEF SessionTypes, OthersUntouched
<1>1. ASSUME OpenFresh(c, q) \/ OpenLoaded(c, q) PROVE OthersUntouched(c)
  BY <1>1 DEF OpenFresh, OpenLoaded
<1>2. ASSUME LockInstance(c) PROVE OthersUntouched(c)
  BY <1>2, ClientsAssumption DEF LockInstance
<1>3. ASSUME LockRun(c) PROVE OthersUntouched(c)
  BY <1>3, ClientsAssumption DEF LockRun
<1>4. ASSUME AppendSome(c) PROVE OthersUntouched(c)
  BY <1>4 DEF AppendSome, AppendEvent
<1>5. ASSUME Release(c) PROVE OthersUntouched(c)
  BY <1>5 DEF Release
<1>6. QED
  BY <1>1, <1>2, <1>3, <1>4, <1>5

LEMMA NewCallTyped ==
  ASSUME NEW kind \in Kinds, NEW a \in Approvals, NEW n \in Natives \union {None},
         NEW status \in Verdicts \union {"pending"}, NEW manual \in BOOLEAN, NEW plan \in Plans
  PROVE  NewCall(kind, a, n, status, manual, plan) \in Call
BY DEF NewCall, Call

LEMMA CoordinatePreserves ==
  ASSUME CallsInv, SessionsInv', NEW c \in Clients, NEW q \in Request, NEW d \in Decisions,
         Coordinate(c, q, d)
  PROVE  CallsInv'
<1> DEFINE r == NewCall("coordinate", <<RunOf[q.inst], d>>, None, "pending", FALSE, "undecided")
<1>1. /\ q.key \in DeliveryKeys /\ OpenLoaded(c, q)
      /\ call' = [call EXCEPT ![c] = r]
      /\ UNCHANGED <<approvals, apprLock>>
  BY DEF Coordinate
<1>2. SessionTypes /\ call \in [Clients -> Call \union {None}]
  BY DEF CallsInv, SessionsInv
<1>3. r \in Call /\ r # None
  <2>1. <<RunOf[q.inst], d>> \in Approvals
    BY RunOfAssumption DEF Approvals, Request
  <2>2. QED
    BY <2>1, NewCallTyped, NoneAssumption DEF Kinds, Plans
<1>4. r.approval = <<RunOf[q.inst], d>> /\ r.kind = "coordinate" /\ ~r.manual /\ r.plan = "undecided"
  BY DEF NewCall
<1> HIDE DEF r
<1>5. call'[c] = r /\ \A e \in Clients \ {c} : call'[e] = call[e]
  BY <1>1, <1>2
<1>6. pc'[c] = "open" /\ req'[c] = q /\ c \in Preloaded
  BY <1>1, <1>2 DEF OpenLoaded, SessionTypes
<1>7. CoordinatorOK(c)'
  BY <1>1, <1>4, <1>5, <1>6 DEF CoordinatorOK, Target, Run, Instance
<1>8. CallOK(c)'
  BY <1>3, <1>4, <1>5, <1>6, <1>7 DEF CallOK, PendingOK
<1>9. OthersUntouched(c)
  BY <1>1, <1>2, StoreStepOfOne
<1>10. call' \in [Clients -> Call \union {None}]
  BY <1>1, <1>2, <1>3
<1>11. QED
  BY <1>1, <1>5, <1>8, <1>9, <1>10, OwnCall DEF CallsInv

\* What the two founder calls open with.
LEMMA FounderOpens ==
  ASSUME CallsInv, SessionsInv', NEW c \in Clients, NEW a \in Approvals, NEW key \in Keys,
         NEW r \in Call, OpenFounderCall(c, a, key, r),
         r.approval = a, r.kind \in {"resolve", "resume"}, r.native \in Natives,
         r.kind = "resolve" =>
           key \in ResolutionKeys /\ r.plan = "act" /\ r.status \in Verdicts,
         r.kind = "resume" =>
           /\ r.native = approvals[a].effective /\ r.manual = approvals[a].manual
           /\ r.plan = "execute"
           /\ \/ key = ResumeKey(a)
              \/ key = FailureKey(a, approvals[a].failures + 1) /\ approvals[a].failures < MaxFailures
  PROVE  CallsInv'
<1> DEFINE q == [inst |-> approvals[a].inst, key |-> key, version |-> approvals[a].version]
<1>1. /\ approvals[a] # None /\ apprLock[a] = None /\ OpenFresh(c, q)
      /\ apprLock' = [apprLock EXCEPT ![a] = c]
      /\ call' = [call EXCEPT ![c] = r]
      /\ approvals' = approvals
  BY DEF OpenFounderCall
<1>2. /\ SessionTypes /\ call \in [Clients -> Call \union {None}]
      /\ apprLock \in [Approvals -> Clients \union {None}]
  BY DEF CallsInv, SessionsInv
<1>3. /\ pc'[c] = "open" /\ req'[c] = q /\ c \notin Preloaded
      /\ call'[c] = r /\ r # None /\ apprLock'[a] = c
  BY <1>1, <1>2, NoneAssumption DEF OpenFresh, SessionTypes
<1>4. q.inst = approvals[a].inst /\ q.key = key
  OBVIOUS
<1> HIDE DEF q
<1>5. Target(c)' = a /\ Approval(c)' = approvals[a] /\ Instance(c)' = approvals[a].inst
      /\ ~HoldsRun(c)'
  BY <1>1, <1>3, <1>4 DEF Target, Approval, Instance, HoldsRun
<1>6. FounderOK(c)'
  BY <1>1, <1>3, <1>5 DEF FounderOK
<1>7. r.kind = "resolve" => ResolveOK(c)'
  BY <1>3, <1>4 DEF ResolveOK
<1>8. r.kind = "resume" => ResumeOK(c)'
  BY <1>3, <1>4, <1>5 DEF ResumeOK
<1>9. CallOK(c)'
  BY <1>3, <1>6, <1>7, <1>8 DEF CallOK, PendingOK
<1>10. OthersUntouched(c)
  BY <1>1, <1>2, StoreStepOfOne
<1>11. ASSUME NEW d \in Clients \ {c}
       PROVE  /\ call'[d] = call[d]
              /\ \A b \in Approvals : apprLock[b] = d => apprLock'[b] = d
  BY <1>1, <1>2, ClientsAssumption
<1>12. /\ call' \in [Clients -> Call \union {None}]
       /\ apprLock' \in [Approvals -> Clients \union {None}]
  BY <1>1, <1>2
<1>13. QED
  BY <1>1, <1>9, <1>10, <1>11, <1>12, OwnCall

\* The request a founder call opens with is one the store knows.
LEMMA FounderRequest ==
  ASSUME CallsInv, NEW a \in Approvals, approvals[a] # None, NEW key \in Keys
  PROVE  [inst |-> approvals[a].inst, key |-> key, version |-> approvals[a].version] \in Request
BY DEF CallsInv, RowsOK, RowOK, ApprovalRow, Request

LEMMA ResolvePreserves ==
  ASSUME CallsInv, SessionsInv', NEW c \in Clients, NEW a \in Approvals,
         NEW key \in ResolutionKeys, NEW status \in Verdicts, NEW n \in Natives,
         NEW manual \in BOOLEAN, Resolve(c, a, key, status, n, manual)
  PROVE  CallsInv'
<1> DEFINE r == NewCall("resolve", a, n, status, manual, "act")
<1>1. OpenFounderCall(c, a, key, r)
  BY DEF Resolve
<1>2. r \in Call
  BY DEF NewCall, Call, Kinds, Plans
<1>3. /\ r.approval = a /\ r.kind = "resolve" /\ r.native = n /\ r.plan = "act"
      /\ r.status = status
  BY DEF NewCall
<1>4. key \in Keys
  BY KeysAssumption
<1> HIDE DEF r
<1>5. QED
  BY <1>1, <1>2, <1>3, <1>4, FounderOpens

\* A resume is given the key of an execution or of the next failed attempt.
LEMMA ResumeKeyChosen ==
  ASSUME CallsInv, NEW a \in Approvals, approvals[a] # None, NEW key \in ResumeKeys,
         key = ResumeKey(a) \/ key = FailureKey(a, approvals[a].failures + 1)
  PROVE  /\ key \in Keys
         /\ \/ key = ResumeKey(a)
            \/ key = FailureKey(a, approvals[a].failures + 1) /\ approvals[a].failures < MaxFailures
<1>1. approvals[a].failures \in 0..MaxFailures
  BY DEF CallsInv, RowsOK, RowOK, ApprovalRow
<1>2. ASSUME key = FailureKey(a, approvals[a].failures + 1)
      PROVE  approvals[a].failures < MaxFailures
  <2>1. approvals[a].failures + 1 \in 1..MaxFailures
    BY <1>2 DEF ResumeKeys, ResumeKey, FailureKey
  <2>2. QED
    BY <1>1, <2>1, MaxFailuresAssumption
<1>3. key \in Keys
  BY KeysAssumption
<1>4. QED
  BY <1>2, <1>3

LEMMA ResumePreserves ==
  ASSUME CallsInv, SessionsInv', NEW c \in Clients, NEW a \in Approvals, Resume(c, a)
  PROVE  CallsInv'
<1> PICK r : r = NewCall("resume", a, approvals[a].effective, "pending", approvals[a].manual, "execute")
  OBVIOUS
<1>1. PICK key \in ResumeKeys :
        /\ key = ResumeKey(a) \/ key = FailureKey(a, approvals[a].failures + 1)
        /\ OpenFounderCall(c, a, key, r)
  BY DEF Resume
<1>2. approvals[a] # None
  BY <1>1 DEF OpenFounderCall
<1>3. approvals[a].effective \in Natives /\ approvals[a].manual \in BOOLEAN
  BY <1>2 DEF CallsInv, RowsOK, RowOK, ApprovalRow
<1>4. r \in Call
  BY <1>3 DEF NewCall, Call, Kinds, Plans
<1>5. /\ r.approval = a /\ r.kind = "resume" /\ r.native = approvals[a].effective
      /\ r.manual = approvals[a].manual /\ r.plan = "execute"
  BY DEF NewCall
<1>6. QED
  BY <1>1, <1>2, <1>3, <1>4, <1>5, ResumeKeyChosen, FounderOpens

\* A coordinator's call is one, and so is a founder's.
LEMMA KindsTold ==
  ASSUME CallsInv, NEW c \in Clients, call[c] # None
  PROVE  /\ call[c] \in Call /\ Target(c) \in Approvals /\ CallOK(c)
         /\ Is(c, "coordinate") <=> c \in Preloaded
         /\ c \in Preloaded => call[c].kind = "coordinate" /\ CoordinatorOK(c)
         /\ c \notin Preloaded =>
              /\ FounderOK(c)
              /\ \/ call[c].kind = "resolve" /\ ResolveOK(c)
                 \/ call[c].kind = "resume" /\ ResumeOK(c)
BY DEF CallsInv, CallOK, CoordinatorOK, FounderOK, Call, Target, Is

LEMMA SessionIdle ==
  ASSUME CallsInv, UNCHANGED vars, NEW c \in Clients
  PROVE  SessionsInv' /\ OthersUntouched(c)
BY SessionsInvNext DEF CallsInv, vars, sessionVars, OthersUntouched

LEMMA DecidePreserves ==
  ASSUME CallsInv, NEW c \in Clients, Decide(c)
  PROVE  CallsInv'
<1>1. /\ Is(c, "coordinate") /\ pc[c] = "open" /\ call[c].plan = "undecided"
      /\ UNCHANGED <<vars, approvals, apprLock>>
      /\ call[c] # None
  BY DEF Decide, Is
<1>2. PICK r : call' = [call EXCEPT ![c] = r]
               /\ \/ r = [call[c] EXCEPT !.plan = "deny"]
                  \/ \E n \in Natives :
                       r = [call[c] EXCEPT !.native = n, !.plan = PlanFor(c, n)]
  BY DEF Decide
<1>3. call[c] \in Call /\ c \in Preloaded /\ CoordinatorOK(c) /\ CallOK(c)
  BY <1>1, KindsTold
<1>4. ASSUME NEW n \in Natives
      PROVE  /\ PlanFor(c, n) \in {"deny", "request", "execute", "act"}
             /\ PlanFor(c, n) \in {"execute", "act"} => ~n.red
  BY DEF PlanFor
<1>5. /\ r \in Call /\ r.kind = "coordinate" /\ r.approval = call[c].approval
      /\ r.manual = call[c].manual /\ r.plan # "undecided"
      /\ r.plan \in {"request", "execute", "act"} => r.native \in Natives
      /\ r.plan \in {"execute", "act"} => ~r.native.red
  BY <1>2, <1>3, <1>4 DEF Call, Plans, CoordinatorOK
<1>6. /\ call'[c] = r /\ r # None
      /\ \A d \in Clients \ {c} : call'[d] = call[d]
      /\ call' \in [Clients -> Call \union {None}]
  BY <1>2, <1>5, NoneAssumption DEF CallsInv
<1>7. pc' = pc /\ req' = req
  BY <1>1 DEF vars, sessionVars
<1>8. CoordinatorOK(c)'
  BY <1>1, <1>3, <1>5, <1>6, <1>7 DEF CoordinatorOK, Target, Run, Instance
<1>9. CallOK(c)'
  BY <1>1, <1>3, <1>5, <1>6, <1>7, <1>8 DEF CallOK, PendingOK
<1>10. QED
  BY <1>1, <1>6, <1>9, SessionIdle, OwnCall DEF CallsInv

LEMMA RunAdapterPreserves ==
  ASSUME CallsInv, NEW c \in Clients, RunAdapter(c)
  PROVE  CallsInv'
<1>1. /\ call[c] # None /\ call[c].plan = "execute"
      /\ pc[c] = IF Is(c, "resume") THEN "instanceLocked" ELSE "open"
      /\ UNCHANGED <<vars, approvals, apprLock>>
  BY DEF RunAdapter
<1>2. PICK plan \in {"act", "deny"} :
        /\ call' = [call EXCEPT ![c].plan = plan]
        /\ Is(c, "resume") => (plan = "act" <=> req[c].key = ResumeKey(Target(c)))
  BY DEF RunAdapter
<1>3. PICK r : r = [call[c] EXCEPT !.plan = plan]
  OBVIOUS
<1>4. call[c] \in Call /\ CallOK(c)
  BY <1>1, KindsTold
<1>5. /\ r \in Call /\ r.kind = call[c].kind /\ r.approval = call[c].approval
      /\ r.native = call[c].native /\ r.manual = call[c].manual /\ r.plan = plan
  BY <1>3, <1>4 DEF Call, Plans
<1>6. /\ call'[c] = r /\ r # None
      /\ \A d \in Clients \ {c} : call'[d] = call[d]
      /\ call' \in [Clients -> Call \union {None}]
  BY <1>2, <1>3, <1>5, NoneAssumption DEF CallsInv
<1>7. pc' = pc /\ req' = req /\ approvals' = approvals /\ apprLock' = apprLock
  BY <1>1 DEF vars, sessionVars
<1>8. Target(c)' = Target(c) /\ Approval(c)' = Approval(c) /\ Instance(c)' = Instance(c)
  BY <1>5, <1>6, <1>7 DEF Target, Approval, Instance
<1>9. CASE c \in Preloaded
  <2>1. CoordinatorOK(c) /\ pc[c] = "open"
    BY <1>1, <1>9, KindsTold DEF Is, CoordinatorOK
  <2>2. CoordinatorOK(c)'
    BY <1>1, <1>5, <1>6, <1>7, <1>8, <2>1 DEF CoordinatorOK, Run
  <2>3. CallOK(c)'
    BY <1>4, <1>5, <1>6, <1>7, <1>9, <2>1, <2>2 DEF CallOK, PendingOK, CoordinatorOK
  <2>4. QED
    BY <1>1, <1>6, <2>3, SessionIdle, OwnCall DEF CallsInv
<1>10. CASE c \notin Preloaded
  <2>1. /\ FounderOK(c) /\ Is(c, "resume") /\ call[c].kind = "resume" /\ ResumeOK(c)
        /\ pc[c] = "instanceLocked"
    BY <1>1, <1>10, KindsTold DEF Is, ResolveOK
  <2>2. Admitted(c)' <=> Admitted(c)
    BY <1>5, <1>6, <1>8, <2>1 DEF Admitted, Is
  <2>3. FounderOK(c)'
    BY <1>1, <1>5, <1>6, <1>7, <1>8, <2>1, <2>2 DEF FounderOK
  <2>4. ResumeOK(c)'
    BY <1>1, <1>2, <1>5, <1>6, <1>7, <1>8, <2>1 DEF ResumeOK, HoldsRun
  <2>5. CallOK(c)'
    BY <1>4, <1>5, <1>6, <1>7, <1>10, <2>1, <2>3, <2>4 DEF CallOK, PendingOK
  <2>6. QED
    BY <1>1, <1>6, <2>5, SessionIdle, OwnCall DEF CallsInv
<1>11. QED
  BY <1>9, <1>10

\* A call goes on to its next step with nothing changed but the session.
LEMMA CallGoesOn ==
  ASSUME CallsInv, SessionsInv', NEW c \in Clients, call[c] # None, OthersUntouched(c),
         UNCHANGED <<approvals, apprLock, call>>, req'[c] = req[c], pc'[c] \notin {"idle", "open"},
         c \in Preloaded => call[c].plan \notin {"undecided", "execute"},
         c \in Preloaded /\ call[c].plan = "request" /\ pc'[c] = "flushed" => RequestIsNew(c)',
         c \notin Preloaded => Admitted(c),
         c \notin Preloaded /\ HoldsRun(c)' => call[c].plan # "execute",
         PendingOK(c)'
  PROVE  CallsInv'
<1>1. /\ call[c] \in Call /\ Target(c) \in Approvals /\ CallOK(c)
      /\ c \in Preloaded => call[c].kind = "coordinate" /\ CoordinatorOK(c)
      /\ c \notin Preloaded =>
           /\ FounderOK(c)
           /\ \/ call[c].kind = "resolve" /\ ResolveOK(c)
              \/ call[c].kind = "resume" /\ ResumeOK(c)
  BY KindsTold
<1>2. /\ Target(c)' = Target(c) /\ Approval(c)' = Approval(c)
      /\ Instance(c)' = Instance(c) /\ Run(c)' = Run(c)
  BY DEF Target, Approval, Instance, Run
<1>3. Admitted(c)' <=> Admitted(c)
  BY <1>2 DEF Admitted, Is
<1>4. c \in Preloaded => CoordinatorOK(c)'
  BY <1>1, <1>2 DEF CoordinatorOK
<1>5. c \notin Preloaded => FounderOK(c)'
  BY <1>1, <1>2, <1>3 DEF FounderOK
<1>6. c \notin Preloaded /\ call[c].kind = "resolve" => ResolveOK(c)'
  BY <1>1 DEF ResolveOK
<1>7. c \notin Preloaded /\ call[c].kind = "resume" => ResumeOK(c)'
  BY <1>1, <1>2 DEF ResumeOK, ResolveOK
<1>8. CallOK(c)'
  BY <1>1, <1>4, <1>5, <1>6, <1>7 DEF CallOK
<1>9. QED
  BY <1>8, OwnCall DEF CallsInv

LEMMA LockInstanceForCallPreserves ==
  ASSUME CallsInv, SessionsInv', NEW c \in Clients, LockInstanceForCall(c)
  PROVE  CallsInv'
<1>1. /\ call[c] # None
      /\ IF Is(c, "coordinate") THEN call[c].plan \notin {"undecided", "execute"} ELSE Admitted(c)
      /\ LockInstance(c)
      /\ UNCHANGED <<approvals, apprLock, call>>
  BY DEF LockInstanceForCall, approvalVars
<1>2. /\ c \in Preloaded => call[c].plan \notin {"undecided", "execute"}
      /\ c \notin Preloaded => Admitted(c)
  BY <1>1, KindsTold
<1>3. SessionTypes
  BY DEF CallsInv, SessionsInv
<1>4. pc'[c] = "instanceLocked" /\ req' = req
  BY <1>1, <1>3 DEF LockInstance, SessionTypes
<1>5. OthersUntouched(c)
  BY <1>1, <1>3, StoreStepOfOne
<1>6. PendingOK(c)' /\ ~HoldsRun(c)'
  BY <1>4 DEF PendingOK, HoldsRun
<1>7. QED
  BY <1>1, <1>2, <1>4, <1>5, <1>6, CallGoesOn

\* What is past the lock of the instance has been admitted.
LEMMA AdmittedPastLock ==
  ASSUME CallsInv, NEW c \in Clients, call[c] # None, pc[c] # "open"
  PROVE  /\ c \in Preloaded => call[c].plan \notin {"undecided", "execute"}
         /\ c \notin Preloaded => Admitted(c)
BY KindsTold DEF CoordinatorOK, FounderOK

LEMMA LockRunForCallPreserves ==
  ASSUME CallsInv, SessionsInv', NEW c \in Clients, LockRunForCall(c)
  PROVE  CallsInv'
<1>1. /\ call[c] # None /\ LockRun(c) /\ Ready(c) /\ pc[c] = "instanceLocked"
      /\ UNCHANGED <<approvals, apprLock, call>>
  BY DEF LockRunForCall, LockRun, approvalVars
<1>2. SessionTypes
  BY DEF CallsInv, SessionsInv
<1>3. pc'[c] = "runLocked" /\ req' = req
  BY <1>1, <1>2 DEF LockRun, SessionTypes
<1>4. OthersUntouched(c)
  BY <1>1, <1>2, StoreStepOfOne
<1>5. PendingOK(c)'
  BY <1>3 DEF PendingOK
<1>6. c \notin Preloaded => call[c].plan # "execute"
  BY <1>1, KindsTold DEF Ready
<1>7. QED
  BY <1>1, <1>3, <1>4, <1>5, <1>6, AdmittedPastLock, CallGoesOn

\* What the call appends is an event the store can append.
LEMMA AppendForCallAppends ==
  ASSUME CallsInv, NEW c \in Clients, AppendForCall(c)
  PROVE  /\ AppendSome(c)
         /\ req[c].key \in Keys /\ view[c].state \in States
         /\ AfterOf(c) \in States /\ TypeOf(c) \in EventTypes
<1>1. /\ call[c] # None /\ pc[c] = "runLocked"
      /\ AppendEvent(c, req[c].key, TypeOf(c), view[c].state, AfterOf(c))
  BY DEF AppendForCall, AppendEvent
<1>2. req[c].key \in Keys /\ req[c].key \in EventIds /\ view[c].state \in States
  <2>1. LocksHeld /\ SessionOK(c)
    BY DEF CallsInv, SessionsInv
  <2>2. view[c] \in Row
    BY <1>1, <2>1 DEF SessionOK, SeesRow
  <2>3. QED
    BY <1>1, <2>1, <2>2, CarriesRequest, KeysAssumption DEF Row
<1>3. AfterOf(c) \in States
  <2>1. call[c].plan = "act" => call[c].native \in Natives
    BY <1>1, KindsTold DEF CoordinatorOK, FounderOK
  <2>2. QED
    BY <1>2, <2>1, NativesAssumption DEF AfterOf
<1>4. TypeOf(c) \in EventTypes
  BY ApprovalEventsAssumption, EventTypesAssumption DEF TypeOf
<1>5. QED
  BY <1>1, <1>2, <1>3, <1>4 DEF AppendSome

LEMMA AppendForCallPreserves ==
  ASSUME CallsInv, SessionsInv', NEW c \in Clients, AppendForCall(c)
  PROVE  CallsInv'
<1> DEFINE e == NewEvent(Instance(c), req[c].key, req[c].key, TypeOf(c), view[c].state, AfterOf(c))
<1>1. /\ call[c] # None /\ pc[c] = "runLocked"
      /\ Checked(c, e)
      /\ pend' = [pend EXCEPT ![c] = e]
      /\ view' = [view EXCEPT ![c] = Applied(@, e)]
      /\ pc' = [pc EXCEPT ![c] = "flushed"]
      /\ req' = req
      /\ RowInsertable(c)
      /\ UNCHANGED <<approvals, apprLock, call>>
  BY DEF AppendForCall, AppendEvent, approvalVars
<1>2. SessionTypes
  BY DEF CallsInv, SessionsInv
<1>3. /\ e.key = req[c].key /\ e.type = TypeOf(c)
      /\ e.before = view[c].state /\ e.after = AfterOf(c)
  BY DEF NewEvent
<1> HIDE DEF e
<1>4. pc'[c] = "flushed" /\ pend'[c] = e /\ view'[c] = Applied(view[c], e)
  BY <1>1, <1>2 DEF SessionTypes
<1>5. OthersUntouched(c)
  BY <1>2, AppendForCallAppends, StoreStepOfOne
<1>6. PendingOK(c)'
  <2>1. call[c].kind = "resolve" => call[c].plan = "act"
    BY <1>1, KindsTold DEF CoordinatorOK, ResumeOK, ResolveOK
  <2>2. /\ TypeOf(c) = "approval_requested" <=> call[c].plan = "request"
        /\ TypeOf(c) = "approval_resolved" <=> call[c].kind = "resolve"
    BY <1>1, <2>1 DEF TypeOf, Is
  <2>3. QED
    BY <1>1, <1>3, <1>4, <2>2 DEF PendingOK
<1>7. call[c].plan = "request" => RequestIsNew(c)'
  <2> SUFFICES ASSUME call[c].plan = "request" PROVE RequestIsNew(c)'
    OBVIOUS
  <2>1. AfterOf(c) = view[c].state
    BY DEF AfterOf
  <2>2. view'[c].version = req[c].version
    BY <1>1, <1>3, <1>4, <2>1 DEF Applied, Changes, Checked
  <2>3. Approval(c)' = Approval(c) /\ Instance(c)' = Instance(c)
    BY <1>1 DEF Approval, Target, Instance
  <2>4. Outstanding(Instance(c), call[c].native.action)' <=> Outstanding(Instance(c), call[c].native.action)
    BY <1>1, <2>3 DEF Outstanding
  <2>5. QED
    BY <1>1, <2>2, <2>3, <2>4 DEF RequestIsNew, RowInsertable
<1>8. c \notin Preloaded => call[c].plan # "execute"
  BY <1>1, KindsTold DEF ResumeOK, ResolveOK, HoldsRun
<1>9. QED
  BY <1>1, <1>4, <1>5, <1>6, <1>7, <1>8, AdmittedPastLock, CallGoesOn

\* A call ends with its transaction and its lock.
LEMMA CallEnds ==
  ASSUME CallsInv, SessionsInv', NEW c \in Clients, Release(c), CloseCall(c), RowsOK',
         \A d \in Clients \ {c} : call[d] # None =>
           /\ d \notin Preloaded => approvals'[Target(d)] = approvals[Target(d)]
           /\ HoldsRun(d) => \A a \in Approvals : a[1] = Run(d) => approvals'[a] = approvals[a]
  PROVE  CallsInv'
<1>1. /\ SessionTypes /\ call \in [Clients -> Call \union {None}]
      /\ apprLock \in [Approvals -> Clients \union {None}]
  BY DEF CallsInv, SessionsInv
<1>2. OthersUntouched(c) /\ pc'[c] = "idle" /\ call'[c] = None
  BY <1>1, StoreStepOfOne DEF Release, CloseCall, SessionTypes
<1>3. /\ apprLock' \in [Approvals -> Clients \union {None}]
      /\ call' \in [Clients -> Call \union {None}]
      /\ \A d \in Clients \ {c} : call'[d] = call[d]
      /\ \A d \in Clients \ {c}, a \in Approvals : apprLock[a] = d => apprLock'[a] = d
  BY <1>1 DEF CloseCall
<1>4. CallOK(c)'
  BY <1>2 DEF CallOK
<1>5. ASSUME NEW d \in Clients \ {c} PROVE CallOK(d)'
  <2>1. call[d] # None /\ d \notin Preloaded => apprLock[Target(d)] = d /\ Target(d) \in Approvals
    BY KindsTold DEF FounderOK
  <2>2. QED
    BY <1>2, <1>3, <2>1, OtherCall DEF OthersUntouched
<1>6. QED
  BY <1>3, <1>4, <1>5 DEF CallsInv

LEMMA CallEndsWithoutTrace ==
  ASSUME CallsInv, SessionsInv', NEW c \in Clients, Answer(c) \/ RejectCall(c) \/ RollbackCall(c)
  PROVE  CallsInv'
<1>1. Release(c) /\ CloseCall(c) /\ approvals' = approvals
  BY DEF Answer, RejectCall, RollbackCall, Rollback, Reject
<1>2. RowsOK'
  BY <1>1 DEF CallsInv, RowsOK
<1>3. QED
  BY <1>1, <1>2, CallEnds

\* What a call makes of its approval row: a coordinator inserts one or leaves it
\* alone; a founder gives the verdict, marks the execution or counts a failure,
\* and nothing else of the row changes.
Inserts(c) ==
  /\ c \in Preloaded /\ call[c].plan = "request"
  /\ Approval(c) = None /\ Recorded(c) = NewApproval(c)
LeavesRow(c) ==
  c \in Preloaded /\ call[c].plan \notin {"request", "undecided", "execute"} /\ Recorded(c) = Approval(c)
GivesVerdict(c) ==
  /\ c \notin Preloaded /\ call[c].kind = "resolve" /\ ResolveOK(c)
  /\ Approval(c) # None /\ Approval(c).status = "pending"
  /\ Recorded(c) = [Approval(c) EXCEPT !.status = call[c].status, !.resolution = req[c].key,
                      !.effective = call[c].native, !.manual = call[c].manual]
MarksExecution(c) ==
  /\ c \notin Preloaded /\ call[c].kind = "resume" /\ call[c].plan = "act" /\ ResumeOK(c)
  /\ req[c].key = ResumeKey(Target(c))
  /\ Approval(c) # None /\ Approval(c).status \in Executable /\ ~Approval(c).resumed
  /\ Recorded(c) = [Approval(c) EXCEPT !.resumed = TRUE]
CountsFailure(c) ==
  /\ c \notin Preloaded /\ call[c].kind = "resume" /\ call[c].plan = "deny" /\ ResumeOK(c)
  /\ req[c].key = FailureKey(Target(c), Approval(c).failures + 1)
  /\ Approval(c).failures < MaxFailures
  /\ Approval(c) # None /\ Approval(c).status \in Executable /\ ~Approval(c).resumed
  /\ Recorded(c) = [Approval(c) EXCEPT !.failures = @ + 1]

LEMMA CommitCases ==
  ASSUME CallsInv, NEW c \in Clients, call[c] # None, pc[c] = "flushed"
  PROVE  /\ Target(c) \in Approvals /\ Target(c)[1] = Run(c)
         /\ Inserts(c) \/ LeavesRow(c) \/ GivesVerdict(c) \/ MarksExecution(c) \/ CountsFailure(c)
<1>1. Target(c) \in Approvals
  BY KindsTold
<1>2. CASE c \in Preloaded
  <2>1. call[c].kind = "coordinate" /\ CoordinatorOK(c)
    BY <1>2, KindsTold
  <2>2. call[c].plan \notin {"undecided", "execute"}
    BY <2>1 DEF CoordinatorOK
  <2>3. call[c].plan = "request" => Approval(c) = None
    BY <2>1 DEF CoordinatorOK, RequestIsNew
  <2>4. Recorded(c) = IF call[c].plan = "request" THEN NewApproval(c) ELSE Approval(c)
    BY <2>1 DEF Recorded, Is
  <2>5. QED
    BY <1>1, <1>2, <2>1, <2>2, <2>3, <2>4 DEF CoordinatorOK, Inserts, LeavesRow
<1>3. CASE c \notin Preloaded
  <2>1. FounderOK(c) /\ Admitted(c) /\ Approval(c) # None /\ Instance(c) = Approval(c).inst
    BY <1>3, KindsTold DEF FounderOK
  <2>2. Target(c)[1] = Run(c)
    BY <1>1, <2>1 DEF CallsInv, RowsOK, RowOK, Run, Approval
  <2>3. CASE call[c].kind = "resolve" /\ ResolveOK(c)
    <3>1. call[c].plan = "act" /\ Is(c, "resolve") /\ ~Is(c, "resume")
      BY <2>3 DEF Is, ResolveOK
    <3>2. GivesVerdict(c)
      BY <1>3, <2>1, <2>3, <3>1 DEF GivesVerdict, Recorded, Admitted
    <3>3. QED
      BY <1>1, <2>2, <3>2
  <2>4. CASE call[c].kind = "resume" /\ ResumeOK(c)
    <3>1. /\ Is(c, "resume") /\ ~Is(c, "resolve") /\ HoldsRun(c)
      BY <2>4 DEF Is, HoldsRun
    <3>2. call[c].plan \in {"act", "deny"}
      BY <2>4, <3>1 DEF ResumeOK
    <3>3. Approval(c).status \in Executable /\ ~Approval(c).resumed
      BY <2>1, <3>1 DEF Admitted
    <3>4. CASE call[c].plan = "act"
      <4>1. MarksExecution(c)
        BY <1>3, <2>1, <2>4, <3>1, <3>3, <3>4 DEF MarksExecution, Recorded, ResumeOK
      <4>2. QED
        BY <1>1, <2>2, <4>1
    <3>5. CASE call[c].plan = "deny"
      <4>1. CountsFailure(c)
        BY <1>3, <2>1, <2>4, <3>1, <3>3, <3>5 DEF CountsFailure, Recorded, ResumeOK
      <4>2. QED
        BY <1>1, <2>2, <4>1
    <3>6. QED
      BY <3>2, <3>4, <3>5
  <2>5. QED
    BY <1>3, <2>3, <2>4, KindsTold
<1>4. QED
  BY <1>2, <1>3

\* The row a call leaves is a row of its approval.
LEMMA RecordedIsRow ==
  ASSUME CallsInv, NEW c \in Clients, call[c] # None, pc[c] = "flushed", Recorded(c) # None
  PROVE  RowOK(Target(c), Recorded(c))
<1>1. /\ Target(c) \in Approvals /\ Target(c)[1] = Run(c)
      /\ Inserts(c) \/ LeavesRow(c) \/ GivesVerdict(c) \/ MarksExecution(c) \/ CountsFailure(c)
  BY CommitCases
<1>2. Approval(c) # None => RowOK(Target(c), Approval(c))
  BY <1>1 DEF CallsInv, RowsOK, Approval
<1>3. CASE Inserts(c)
  <2>1. /\ req[c].key \in DeliveryKeys /\ call[c].native \in Natives
        /\ view[c].version = req[c].version
    BY <1>3, KindsTold DEF Inserts, CoordinatorOK, RequestIsNew
  <2>2. LocksHeld /\ SessionOK(c)
    BY DEF CallsInv, SessionsInv
  <2>3. Instance(c) \in Instances /\ req[c].version \in 0..MaxVersion
    BY <2>2, CarriesRequest DEF Request
  <2>4. view[c] \in Row
    BY <2>2 DEF SessionOK, SeesRow
  <2>5. NewApproval(c) \in ApprovalRow
    BY <2>1, <2>3, <2>4, MaxFailuresAssumption DEF NewApproval, ApprovalRow, Row
  <2>6. RowOK(Target(c), NewApproval(c))
    BY <1>1, <2>1, <2>3, <2>5 DEF RowOK, NewApproval, Run
  <2>7. QED
    BY <1>3, <2>6 DEF Inserts
<1>4. CASE LeavesRow(c)
  BY <1>2, <1>4 DEF LeavesRow
<1>5. CASE GivesVerdict(c)
  <2>1. call[c].native \in Natives /\ call[c].manual \in BOOLEAN
    BY <1>5, KindsTold DEF GivesVerdict, FounderOK, Call
  <2>2. req[c].key \in ResolutionKeys /\ call[c].status \in Verdicts /\ req[c].key # None
    BY <1>5, KeysAssumption, NoneAssumption DEF GivesVerdict, ResolveOK
  <2>3. call[c].status # "pending"
    BY <2>2, VerdictsAssumption
  <2>4. ~Approval(c).resumed
    BY <1>2, <1>5 DEF GivesVerdict, RowOK, Executable
  <2>5. QED
    BY <1>2, <1>5, <2>1, <2>2, <2>3, <2>4 DEF GivesVerdict, RowOK, ApprovalRow
<1>6. CASE MarksExecution(c)
  BY <1>2, <1>6 DEF MarksExecution, RowOK, ApprovalRow
<1>7. CASE CountsFailure(c)
  BY <1>2, <1>7, MaxFailuresAssumption DEF CountsFailure, RowOK, ApprovalRow
<1>8. QED
  BY <1>1, <1>3, <1>4, <1>5, <1>6, <1>7

LEMMA CommitCallPreserves ==
  ASSUME CallsInv, SessionsInv', NEW c \in Clients, CommitCall(c)
  PROVE  CallsInv'
<1>1. /\ call[c] # None /\ pc[c] = "flushed"
      /\ Release(c) /\ CloseCall(c)
      /\ approvals' = [approvals EXCEPT ![Target(c)] = Recorded(c)]
  BY DEF CommitCall, Commit
<1>2. /\ Target(c) \in Approvals /\ Target(c)[1] = Run(c)
      /\ approvals \in [Approvals -> ApprovalRow \union {None}]
  BY <1>1, CommitCases DEF CallsInv, RowsOK
<1>3. /\ approvals'[Target(c)] = Recorded(c)
      /\ \A a \in Approvals : a # Target(c) => approvals'[a] = approvals[a]
  BY <1>1, <1>2
<1>4. RowsOK'
  <2>1. Recorded(c) # None => RowOK(Target(c), Recorded(c))
    BY <1>1, RecordedIsRow
  <2>2. approvals' \in [Approvals -> ApprovalRow \union {None}]
    BY <1>1, <1>2, <2>1 DEF RowOK
  <2>3. QED
    BY <1>3, <2>1, <2>2 DEF CallsInv, RowsOK
<1>5. ASSUME NEW d \in Clients \ {c}, call[d] # None, d \notin Preloaded
      PROVE  approvals'[Target(d)] = approvals[Target(d)]
  <2>1. Target(d) \in Approvals /\ apprLock[Target(d)] = d /\ Approval(d) # None
    BY <1>5, KindsTold DEF FounderOK
  <2>2. CASE Target(d) # Target(c)
    BY <1>3, <2>1, <2>2
  <2>3. CASE Target(d) = Target(c)
    <3>1. c \in Preloaded
      BY <1>1, <1>5, <2>1, <2>3, KindsTold DEF FounderOK
    <3>2. LeavesRow(c)
      BY <1>1, <2>1, <2>3, <3>1, CommitCases
         DEF Inserts, GivesVerdict, MarksExecution, CountsFailure, Approval
    <3>3. QED
      BY <1>3, <2>3, <3>2 DEF LeavesRow, Approval
  <2>4. QED
    BY <2>2, <2>3
<1>6. ASSUME NEW d \in Clients \ {c}, call[d] # None, HoldsRun(d), NEW a \in Approvals, a[1] = Run(d)
      PROVE  approvals'[a] = approvals[a]
  <2>1. Run(d) # Run(c)
    BY <1>1, <1>6, LocksExclude DEF CallsInv, SessionsInv, HoldsRun
  <2>2. QED
    BY <1>2, <1>3, <1>6, <2>1
<1>7. QED
  BY <1>1, <1>4, <1>5, <1>6, CallEnds

-----------------------------------------------------------------------------
(* Every step. *)

\* A step of the approvals is a step of the store, or leaves it alone.
LEMMA StepImplementsStore ==
  ASSUME CallsInv, [ApprovalsNext]_allVars
  PROVE  [Next]_vars
<1>1. ASSUME NEW r \in Runs, CreateSandboxRun(r) PROVE Next
  BY <1>1 DEF Next, FreshNext
<1>2. ASSUME NEW i \in Instances, CreateWorkflowInstance(i) PROVE Next
  BY <1>2 DEF Next, FreshNext
<1>3. ASSUME NEW c \in Clients, NEW q \in Request, NEW d \in Decisions, Coordinate(c, q, d)
      PROVE  Next
  BY <1>3 DEF Coordinate, Next, FreshNext
<1>4. ASSUME NEW c \in Clients, NEW a \in Approvals, NEW key \in Keys, NEW r,
             OpenFounderCall(c, a, key, r)
      PROVE  Next
  BY <1>4, FounderRequest DEF OpenFounderCall, Next, FreshNext
<1>5. ASSUME NEW c \in Clients, NEW a \in Approvals, NEW key \in ResolutionKeys,
             NEW status \in Verdicts, NEW n \in Natives, NEW manual \in BOOLEAN,
             Resolve(c, a, key, status, n, manual)
      PROVE  Next
  BY <1>4, <1>5, KeysAssumption DEF Resolve
<1>6. ASSUME NEW c \in Clients, NEW a \in Approvals, Resume(c, a) PROVE Next
  <2>1. PICK key \in ResumeKeys : \E r : OpenFounderCall(c, a, key, r)
    BY <1>6 DEF Resume
  <2>2. PICK r : OpenFounderCall(c, a, key, r)
    BY <2>1
  <2>3. key \in Keys
    BY KeysAssumption
  <2>4. QED
    BY <1>4, <2>2, <2>3
<1>7. ASSUME NEW c \in Clients,
             (\E a \in Approvals : Ask(c, a)) \/ GiveUp(c) \/ Decide(c) \/ RunAdapter(c)
      PROVE  UNCHANGED vars
  BY <1>7 DEF Ask, GiveUp, Decide, RunAdapter
<1>8. ASSUME NEW c \in Clients,
             \/ LockInstanceForCall(c) \/ LockRunForCall(c) \/ CommitCall(c)
             \/ Answer(c) \/ RejectCall(c) \/ RollbackCall(c)
      PROVE  Next
  BY <1>8 DEF LockInstanceForCall, LockRunForCall, CommitCall, Answer, RejectCall, RollbackCall, Next, FreshNext
<1>9. ASSUME NEW c \in Clients, AppendForCall(c) PROVE Next
  BY <1>9, AppendForCallAppends DEF Next, FreshNext
<1>10. CASE UNCHANGED allVars
  BY <1>10 DEF allVars
<1>11. QED
  BY <1>1, <1>2, <1>3, <1>5, <1>6, <1>7, <1>8, <1>9, <1>10 DEF ApprovalsNext

LEMMA CallsInvNext ==
  ASSUME CallsInv, [ApprovalsNext]_allVars
  PROVE  CallsInv'
<1>1. SessionsInv'
  BY StepImplementsStore, SessionsInvNext DEF CallsInv
<1>2. ASSUME UNCHANGED <<approvals, apprLock, call>>, UNCHANGED sessionVars PROVE CallsInv'
  <2>1. RowsOK'
    BY <1>2 DEF CallsInv, RowsOK
  <2>2. ASSUME NEW d \in Clients PROVE CallOK(d)'
    <3>1. call[d] # None /\ d \notin Preloaded => apprLock[Target(d)] = d
      BY KindsTold DEF FounderOK
    <3>2. QED
      BY <1>2, <2>1, <3>1, OtherCall DEF sessionVars
  <2>3. QED
    BY <1>1, <1>2, <2>1, <2>2 DEF CallsInv
<1>3. ASSUME NEW r \in Runs, CreateSandboxRun(r), UNCHANGED approvalVars PROVE CallsInv'
  BY <1>2, <1>3 DEF CreateSandboxRun, approvalVars
<1>4. ASSUME NEW i \in Instances, CreateWorkflowInstance(i), UNCHANGED approvalVars PROVE CallsInv'
  BY <1>2, <1>4 DEF CreateWorkflowInstance, approvalVars
<1>5. ASSUME NEW c \in Clients, NEW q \in Request, NEW d \in Decisions, Coordinate(c, q, d)
      PROVE  CallsInv'
  BY <1>1, <1>5, CoordinatePreserves
<1>6. ASSUME NEW c \in Clients, NEW a \in Approvals, NEW key \in ResolutionKeys,
             NEW status \in Verdicts, NEW n \in Natives, NEW manual \in BOOLEAN,
             Resolve(c, a, key, status, n, manual)
      PROVE  CallsInv'
  BY <1>1, <1>6, ResolvePreserves
<1>7. ASSUME NEW c \in Clients, NEW a \in Approvals, Resume(c, a) PROVE CallsInv'
  BY <1>1, <1>7, ResumePreserves
<1>8. ASSUME NEW c \in Clients, Decide(c) \/ RunAdapter(c) PROVE CallsInv'
  BY <1>8, DecidePreserves, RunAdapterPreserves
<1>9. ASSUME NEW c \in Clients, LockInstanceForCall(c) \/ LockRunForCall(c) PROVE CallsInv'
  BY <1>1, <1>9, LockInstanceForCallPreserves, LockRunForCallPreserves
<1>10. ASSUME NEW c \in Clients, AppendForCall(c) PROVE CallsInv'
  BY <1>1, <1>10, AppendForCallPreserves
<1>11. ASSUME NEW c \in Clients, CommitCall(c) PROVE CallsInv'
  BY <1>1, <1>11, CommitCallPreserves
<1>12. ASSUME NEW c \in Clients, Answer(c) \/ RejectCall(c) \/ RollbackCall(c) PROVE CallsInv'
  BY <1>1, <1>12, CallEndsWithoutTrace
<1>13. ASSUME NEW c \in Clients, (\E a \in Approvals : Ask(c, a)) \/ GiveUp(c) PROVE CallsInv'
  BY <1>2, <1>13 DEF Ask, GiveUp, vars
<1>14. CASE UNCHANGED allVars
  BY <1>2, <1>14 DEF allVars, approvalVars, vars
<1>15. QED
  BY <1>3, <1>4, <1>5, <1>6, <1>7, <1>8, <1>9, <1>10, <1>11, <1>12, <1>13, <1>14 DEF ApprovalsNext

LEMMA CallsInvInit == ApprovalsInit => CallsInv
<1> SUFFICES ASSUME ApprovalsInit PROVE CallsInv
  OBVIOUS
<1>1. SessionsInv
  BY SessionsInvInit DEF ApprovalsInit
<1>2. \A c \in Clients : call[c] = None /\ pc[c] = "idle"
  BY DEF ApprovalsInit, Init
<1>3. RowsOK
  BY DEF ApprovalsInit, RowsOK
<1>4. \A c \in Clients : CallOK(c)
  BY <1>2 DEF CallOK
<1>5. QED
  BY <1>1, <1>3, <1>4 DEF ApprovalsInit, CallsInv

LEMMA CallsInvariant == ApprovalsSpec => []CallsInv
BY CallsInvInit, CallsInvNext, PTL DEF ApprovalsSpec

\* The approvals, coordinator and adapters run on the store as it is: what holds
\* of every behaviour of the store holds under the calls.
THEOREM ApprovalsImplementStore == ApprovalsSpec => Spec
<1>1. ApprovalsInit => Init
  BY DEF ApprovalsInit
<1>2. QED
  BY <1>1, CallsInvariant, StepImplementsStore, PTL DEF ApprovalsSpec, Spec
==============================================================================
