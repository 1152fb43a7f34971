------------------------------ MODULE CompanyOSProofs ------------------------------
(***************************************************************************)
(* The Company OS around the sandbox: the gates of CompanyOSGates for any  *)
(* decisions and contexts, the definitions of WorkflowDefinition, the      *)
(* contract of DecisionContract for any answers, and the audit trail of    *)
(* ActionAudit for any number of records, callers and events.              *)
(***************************************************************************)
EXTENDS CompanyOSGates, WorkflowDefinition, DecisionContract, ActionAudit, TLAPS

-----------------------------------------------------------------------------
(* The gates: each check of the coordinator is the negation of its           *)
(* counterpart in the approval service, and the two gates follow from the    *)
(* checks.                                                                   *)

\* The coordinator's transition checks deny exactly the moves that the approval
\* service refuses: with unambiguous workflows, the transition that was found
\* and the transition that was checked are one.
LEMMA MoveChecksAgree ==
  ASSUME NEW n \in Decisions, NEW s \in States, NEW x \in Contexts
  PROVE  DeniesMove(n, s, x) <=> ~MoveHolds(n, s, x)
<1> DEFINE M == Matching(x.workflow, s, n)
           Good(t) == /\ t.needs \subseteq x.verified
                      /\ t.integration = NameOf(n)
                      /\ t.integration # None => n.integration.phase = "execute"
<1>1. \A t, u \in M : t = u
  BY WorkflowsUnambiguous DEF Matching
<1>2. DeniesMove(n, s, x) <=>
        n.after # s /\ (~(\E t \in M : t.risk = n.risk) \/ \E t \in M : ~Good(t))
  BY DEF DeniesMove, ValidTransition
<1>3. MoveHolds(n, s, x) <=>
        (n.after # s => \E t \in M : t.risk = n.risk /\ Good(t))
  BY DEF MoveHolds
<1> HIDE DEF M, Good
<1>4. QED
  BY <1>1, <1>2, <1>3

\* The integration checks of the two gates are each other's negation.
LEMMA IntegrationChecksAgree ==
  ASSUME NEW n \in Decisions, NEW x \in Contexts
  PROVE  DeniesIntegration(n, x) <=> ~IntegrationHolds(n, x)
BY DEF DeniesIntegration, IntegrationHolds, UsesAdapter

\* A founder's approval lifts the request for a founder and no block.
LEMMA ApprovalLiftsOnlyTheRequest ==
  ASSUME NEW n \in Decisions, NEW x \in Contexts
  PROVE  EvaluateActionPolicy(n, x, TRUE) =
           IF EvaluateActionPolicy(n, x, FALSE) = "block" THEN "block" ELSE "allow"
BY DEF EvaluateActionPolicy

\* A call is judged by one of the contexts.
LEMMA CallHasContext == GatesSpec => [](context # None => context \in Contexts)
<1>1. GatesInit => (context # None => context \in Contexts)
  BY DEF GatesInit
<1>2. (context # None => context \in Contexts) /\ [GatesNext]_context
      => (context # None => context \in Contexts)'
  BY DEF GatesNext
<1>3. QED
  BY <1>1, <1>2, PTL DEF GatesSpec

\* The two gates agree, whatever is decided and whatever it is judged by:
\* a queued request resumes once it is approved, and no approval resumes what
\* coordinate_sandbox_action denies.
THEOREM GatesAlwaysAgree == GatesSpec => []GatesAgree
<1>1. ASSUME context \in Contexts, NEW n \in Decisions, NEW s \in States
      PROVE  /\ CoordinatorGate(n, s, context) = "request"
                  /\ (UsesAdapter(n) => n.integration.name \in context.adapters)
                => ResumeGate(n, s, context, FALSE)
                     = IF UsesAdapter(n) THEN "execute" ELSE "act"
             /\ CoordinatorGate(n, s, context) = "deny"
                  => ResumeGate(n, s, context, FALSE) = "fail"
  <2>1. /\ DeniesMove(n, s, context) <=> ~MoveHolds(n, s, context)
        /\ DeniesIntegration(n, context) <=> ~IntegrationHolds(n, context)
        /\ EvaluateActionPolicy(n, context, TRUE) =
             IF EvaluateActionPolicy(n, context, FALSE) = "block" THEN "block" ELSE "allow"
    BY <1>1, MoveChecksAgree, IntegrationChecksAgree, ApprovalLiftsOnlyTheRequest
  <2>2. QED
    BY <2>1 DEF CoordinatorGate, ResumeGate
<1>2. (context # None => context \in Contexts) => GatesAgree
  BY <1>1 DEF GatesAgree
<1>3. QED
  BY <1>2, CallHasContext, PTL

\* No adapter runs for an integration that is not a verified sandbox, and a
\* decision that writes passes a gate only with an execution of its own that the
\* registry lets write, and past the adapter only on manual evidence.
THEOREM OnlySandboxEverExecutes == GatesSpec => []OnlySandboxExecutes
<1>1. ASSUME context \in Contexts, NEW n \in Decisions, NEW s \in States, NEW manual \in BOOLEAN,
             NEW v \in {CoordinatorGate(n, s, context), ResumeGate(n, s, context, manual)}
      PROVE  /\ v = "execute" =>
                  /\ context.registry[n.integration.name].mode = "sandbox"
                  /\ context.registry[n.integration.name].verified
             /\ n.write /\ v \in {"execute", "act"} =>
                  /\ n.integration # None /\ n.integration.phase = "execute"
                  /\ context.registry[n.integration.name].mode = "sandbox"
                  /\ context.registry[n.integration.name].verified
                  /\ context.registry[n.integration.name].writes
             /\ n.write /\ v = "act" => manual
  <2>1. v \in {"execute", "act"} => IntegrationHolds(n, context)
    BY <1>1, IntegrationChecksAgree DEF CoordinatorGate, ResumeGate
  <2>2. v = "execute" => UsesAdapter(n)
    BY <1>1 DEF CoordinatorGate, ResumeGate
  <2>3. v = "act" => ~UsesAdapter(n) \/ manual
    BY <1>1 DEF CoordinatorGate, ResumeGate
  <2>4. n.write /\ IntegrationHolds(n, context) => UsesAdapter(n)
    BY DEF IntegrationHolds, UsesAdapter
  <2>5. IntegrationHolds(n, context) /\ UsesAdapter(n) =>
          /\ context.registry[n.integration.name].mode = "sandbox"
          /\ context.registry[n.integration.name].verified
          /\ n.write => /\ n.integration # None /\ n.integration.phase = "execute"
                        /\ context.registry[n.integration.name].writes
    BY DEF IntegrationHolds, UsesAdapter, Capable
  <2>6. QED
    BY <2>1, <2>2, <2>3, <2>4, <2>5
<1>2. (context # None => context \in Contexts) => OnlySandboxExecutes
  BY <1>1 DEF OnlySandboxExecutes
<1>3. QED
  BY <1>2, CallHasContext, PTL

-----------------------------------------------------------------------------
(* Workflow definitions. *)

\* In a valid definition all the transitions that a proposal may mean are one, and
\* the first of them is that one.
LEMMA OneMatch ==
  ASSUME NEW d \in Definitions, NEW p, ValidDefinition(d), NEW i \in Matches(d, p)
  PROVE  d.transitions[i] = FirstMatch(d, p)
<1>1. \A j \in Matches(d, p) : j = i
  BY DEF ValidDefinition, Unique, Matches
<1>2. i \in Int
  BY TransitionsAreLists DEF Matches
<1>3. Matches(d, p) = {i}
  BY <1>1
<1>4. (CHOOSE k \in {i} : \A j \in {i} : k <= j) = i
  BY <1>2
<1>5. QED
  BY <1>3, <1>4 DEF FirstMatch

\* validate_workflow_definition leaves require_valid_transition nothing to choose:
\* the order of a definition's transitions, which are a list, decides nothing.
THEOREM MovesAreCanonical == DefinitionSpec => []MoveIsCanonical
<1> DEFINE Given == definition # Unset => definition \in Definitions
<1>1. DefinitionInit => Given
  BY DEF DefinitionInit
<1>2. Given /\ [DefinitionNext]_definition => Given'
  BY DEF DefinitionNext
<1>3. Given => MoveIsCanonical
  BY OneMatch DEF MoveIsCanonical, Accepts
<1>4. QED
  BY <1>1, <1>2, <1>3, PTL DEF DefinitionSpec

-----------------------------------------------------------------------------
(* The decision contract. *)

\* The schema with no blank text is the validator.
LEMMA ValidatorIsSchema ==
  ASSUME NEW answer, NEW vocabulary
  PROVE  Validate(answer, vocabulary) <=>
           SchemaAdmits(answer, vocabulary) /\ \A f \in Texts : answer[f] # "blank"
BY DEF Validate, SchemaAdmits, StringClasses

\* How a call ended.
CallEnded ==
  decision # Nothing =>
    \/ decision.mode # "provider"
    \/ \E v \in Vocabularies, a \in Answers \union {Nothing} :
         /\ decision.answer = a /\ decision.vocabulary = v
         /\ decision.accepted <=> a # Nothing /\ Validate(a, v)

\* An answer of the provider is accepted when the schema it was held to admits it
\* and it is not blank, and never otherwise.
THEOREM SchemaIsContract == DecisionSpec => []SchemaIsTheContract
<1>1. DecisionInit => CallEnded
  BY DEF DecisionInit, CallEnded
<1>2. CallEnded /\ [DecisionNext]_decision => CallEnded'
  <2> SUFFICES ASSUME CallEnded, DecisionNext PROVE CallEnded'
    BY DEF CallEnded
  <2>1. ASSUME DecideStructured PROVE CallEnded'
    <3>1. PICK v \in Vocabularies, a \in Answers \union {Nothing} :
            decision' = [mode |-> "provider", vocabulary |-> v, answer |-> a,
                         accepted |-> a # Nothing /\ Validate(a, v)]
      BY <2>1 DEF DecideStructured, Ended
    <3>2. decision'.answer = a /\ decision'.vocabulary = v
          /\ (decision'.accepted <=> a # Nothing /\ Validate(a, v))
      BY <3>1
    <3>3. QED
      BY <3>2 DEF CallEnded
  <2>2. ASSUME DecideMocked PROVE CallEnded'
    BY <2>2 DEF DecideMocked, Ended, CallEnded
  <2>3. ASSUME RefuseCall PROVE CallEnded'
    BY <2>3 DEF RefuseCall, Ended, CallEnded
  <2>4. QED
    BY <2>1, <2>2, <2>3 DEF DecisionNext
<1>3. CallEnded => SchemaIsTheContract
  BY ValidatorIsSchema DEF CallEnded, SchemaIsTheContract
<1>4. QED
  BY <1>1, <1>2, <1>3, PTL DEF DecisionSpec

-----------------------------------------------------------------------------
(* The audit trail. *)

\* Events that are committed or flushed.
Made == events \union ({pending[c] : c \in Callers} \ {Absent})

\* Ids are drawn once, and the ids given are behind the counter.
IdsDrawn ==
  /\ \A e \in Made : e.id <= ids
  /\ \A e, f \in events : e.id = f.id => e = f
  /\ \A c \in Callers : pending[c] # Absent => \A e \in events : e.id # pending[c].id
  /\ \A c, d \in Callers :
       pending[c] # Absent /\ pending[d] # Absent /\ pending[c].id = pending[d].id => c = d

\* Previous has an event to choose, without counting on a finite set.
LastExists ==
  \A r \in Records : EventsOf(r) # {} =>
    \E e \in EventsOf(r) : \A f \in EventsOf(r) : f.id <= e.id

\* What was permitted when it was written.
ApprovalsCarried ==
  /\ \A r \in Records : records[r] # Absent => Permits(records[r].status, records[r].approval)
  /\ \A e \in Made : records[e.record] # Absent /\ Permits(e.status, e.approval)

\* ExecutionIsAuthorized of one event, committed or flushed, without its approval.
Authorized(e) ==
  e.status \in {"executing", "succeeded", "failed"} =>
    \/ records[e.record].status = "authorized"
    \/ \E f \in EventsOf(e.record) : f.id < e.id /\ f.status = "authorized"

AuditInv ==
  /\ records \in [Records -> Record \union {Absent}]
  /\ events \subseteq Event
  /\ pending \in [Callers -> Event \union {Absent}]
  /\ ids \in 0 .. MaxEvents
  /\ IdsDrawn
  /\ LastExists
  /\ ApprovalsCarried
  /\ \A e \in Made : Authorized(e)

-----------------------------------------------------------------------------

\* The two steps on the way to an execution's end have one step before them.
LEMMA ExecutionSteps ==
  ASSUME NEW s \in Statuses, NEW t \in ALLOWED_TRANSITIONS[s]
  PROVE  /\ t \in Statuses
         /\ t = "executing" => s = "authorized"
         /\ t \in {"succeeded", "failed"} => s = "executing"
BY DEF Statuses, ALLOWED_TRANSITIONS

\* The status an append is checked against stands in the trail.
LEMMA PreviousIsSeen ==
  ASSUME AuditInv, NEW r \in Records, records[r] # Absent
  PROVE  \/ Previous(r) = records[r].status
         \/ \E e \in EventsOf(r) : Previous(r) = e.status
<1>1. CASE EventsOf(r) = {}  BY <1>1 DEF Previous, LastOf
<1>2. CASE EventsOf(r) # {}
  <2>1. \E e \in EventsOf(r) : \A f \in EventsOf(r) : f.id <= e.id  BY <1>2 DEF AuditInv, LastExists
  <2> DEFINE last == CHOOSE e \in EventsOf(r) : \A f \in EventsOf(r) : f.id <= e.id
  <2>2. last \in EventsOf(r)  BY <2>1
  <2>3. Previous(r) = last.status  BY <1>2 DEF Previous, LastOf
  <2> QED  BY <2>2, <2>3
<1> QED  BY <1>1, <1>2

\* The empty trail.
LEMMA InitAudit == AuditInit => AuditInv
BY AuditAssumption DEF AuditInit, AuditInv, Made, IdsDrawn, LastExists, ApprovalsCarried, EventsOf

\* Events only come to the trail and records do not change, so what an event
\* was checked against stays before it.
LEMMA TrailGrows ==
  ASSUME NEW e, events \subseteq events',
         records'[e.record] = records[e.record], Authorized(e)
  PROVE  Authorized(e)'
  BY DEF Authorized, EventsOf

\* A record that did not exist has no events.
LEMMA CreateKeeps ==
  ASSUME AuditInv, NEW r \in Records, NEW status \in Statuses, NEW approval \in Approvals,
         CreateRecord(r, status, approval)
  PROVE  AuditInv'
<1> USE DEF AuditInv
<1> DEFINE new == [status |-> status, approval |-> approval]
<1>1. /\ records[r] = Absent /\ records' = [records EXCEPT ![r] = new]
      /\ new \in Record /\ Permits(status, approval)
      /\ UNCHANGED <<events, pending, ids>>
  BY DEF CreateRecord, Record
<1>2. records' \in [Records -> Record \union {Absent}]  BY <1>1
<1>3. IdsDrawn' /\ LastExists' /\ Made' = Made
  BY <1>1 DEF IdsDrawn, LastExists, Made, EventsOf
<1>4. \A e \in Made : e.record \in Records /\ e.record # r
  BY <1>1 DEF Made, Event, ApprovalsCarried
<1>5. \A e \in Made : records'[e.record] = records[e.record]
  BY <1>1, <1>4
<1>6. ApprovalsCarried'
  <2>1. \A q \in Records : q # r => records'[q] = records[q]  BY <1>1
  <2>2. records'[r].status = status /\ records'[r].approval = approval  BY <1>1
  <2> QED  BY <1>1, <1>3, <1>5, <2>1, <2>2 DEF ApprovalsCarried
<1>7. \A e \in Made' : Authorized(e)'
  BY <1>1, <1>3, <1>5, TrailGrows
<1> QED  BY <1>1, <1>2, <1>3, <1>6, <1>7

\* The new event has the highest id and was checked against what is before it.
LEMMA AppendKeeps ==
  ASSUME AuditInv, NEW c \in Callers, NEW r \in Records, NEW status \in Statuses,
         NEW approval \in Approvals, AppendActionEvent(c, r, status, approval)
  PROVE  AuditInv'
<1> USE DEF AuditInv
<1>0. PICK new : new = [id |-> ids + 1, record |-> r, status |-> status, approval |-> approval]
  OBVIOUS
<1>1. /\ pending[c] = Absent /\ ids < MaxEvents /\ records[r] # Absent
      /\ status \in ALLOWED_TRANSITIONS[Previous(r)] /\ Permits(status, approval)
      /\ ids' = ids + 1 /\ pending' = [pending EXCEPT ![c] = new]
      /\ UNCHANGED <<records, events>>
  BY <1>0 DEF AppendActionEvent, NextId
<1>2. new \in Event /\ new # Absent /\ ids' \in 0 .. MaxEvents
  BY <1>0, <1>1, AuditAssumption DEF Event
<1>3. pending'[c] = new /\ \A d \in Callers : d # c => pending'[d] = pending[d]
  BY <1>1
<1>4. Made' = Made \union {new}
  BY <1>1, <1>2, <1>3 DEF Made
<1>5. \A e \in Made : e.id \in Nat /\ e.id <= ids
  BY DEF IdsDrawn, Made, Event
<1>6. \A d \in Callers : pending[d] # Absent => pending[d] \in Made  BY DEF Made
<1>7. events \subseteq Made  BY DEF Made
<1>8. IdsDrawn'
  <2>1. \A e \in Made' : e.id <= ids'  BY <1>0, <1>1, <1>4, <1>5
  <2>2. new.id = ids + 1 /\ \A e \in Made : e.id # new.id  BY <1>0, <1>5
  <2>3. \A d \in Callers : pending'[d] # Absent => \A e \in events' : e.id # pending'[d].id
    <3> QED  BY <1>1, <1>3, <1>7, <2>2 DEF IdsDrawn
  <2>4. \A d, b \in Callers :
          pending'[d] # Absent /\ pending'[b] # Absent /\ pending'[d].id = pending'[b].id => d = b
    <3> QED  BY <1>3, <1>6, <2>2 DEF IdsDrawn
  <2> QED  BY <1>1, <2>1, <2>3, <2>4 DEF IdsDrawn
<1>9. LastExists'  BY <1>1 DEF LastExists, EventsOf
<1>10. ApprovalsCarried'
  <2>1. new.record = r /\ new.status = status /\ new.approval = approval  BY <1>0
  <2> QED  BY <1>1, <1>4, <2>1 DEF ApprovalsCarried
<1>11. Authorized(new)'
  <2>1. new.id = ids + 1 /\ new.record = r /\ new.status = status  BY <1>0
  <2>2. PICK s \in Statuses :
          /\ status \in ALLOWED_TRANSITIONS[s]
          /\ \/ s = records[r].status
             \/ \E e \in EventsOf(r) : s = e.status
    <3>1. records[r].status \in Statuses
      BY <1>1 DEF Record, INITIAL_STATUSES, Statuses, ALLOWED_TRANSITIONS
    <3>2. \A e \in EventsOf(r) : e.status \in Statuses  BY DEF EventsOf, Event
    <3> QED  BY <1>1, <3>1, <3>2, PreviousIsSeen
  <2>3. \A e \in EventsOf(r) : e.id < ids + 1 /\ e \in Made /\ e.record = r
    BY <1>5, <1>7 DEF EventsOf
  <2>4. Authorized(new)
    <3> SUFFICES ASSUME status \in {"executing", "succeeded", "failed"}
                 PROVE  \/ records[r].status = "authorized"
                        \/ \E f \in EventsOf(r) : f.id < ids + 1 /\ f.status = "authorized"
      <4> QED  BY <2>1 DEF Authorized
    <3>1. CASE status = "executing"
      BY <3>1, <2>2, <2>3, ExecutionSteps
    <3>2. CASE status \in {"succeeded", "failed"}
      <4>1. s = "executing"  BY <3>2, <2>2, ExecutionSteps
      <4>2. records[r].status # "executing"  BY <1>1 DEF Record, INITIAL_STATUSES
      <4>3. PICK e \in EventsOf(r) : e.status = "executing"  BY <4>1, <4>2, <2>2
      <4>4. Authorized(e) /\ e.record = r /\ e.id < ids + 1 /\ e.id \in Nat
        BY <2>3, <1>5
      <4>5. CASE records[r].status = "authorized"  BY <4>5
      <4>6. ASSUME NEW f \in EventsOf(r), f.id < e.id, f.status = "authorized"
            PROVE  f.id < ids + 1 /\ f.status = "authorized"
        BY <2>3, <4>6
      <4> QED  BY <4>3, <4>4, <4>5, <4>6 DEF Authorized
    <3> QED  BY <3>1, <3>2
  <2> QED  BY <1>1, <2>4 DEF Authorized, EventsOf
<1>12. \A e \in Made : Authorized(e)'
  BY <1>1, TrailGrows
<1>13. \A e \in Made' : Authorized(e)'
  <2> QED  BY <1>4, <1>11, <1>12
<1> QED  BY <1>1, <1>2, <1>8, <1>9, <1>10, <1>13

\* A commit moves an event that keeps its id; ids may be committed out of order.
LEMMA CommitKeeps ==
  ASSUME AuditInv, NEW c \in Callers, Commit(c)
  PROVE  AuditInv'
<1> USE DEF AuditInv
<1>0. PICK mine : mine = pending[c]  OBVIOUS
<1>1. /\ mine \in Event /\ mine \in Made /\ events' = events \union {mine}
      /\ pending' = [pending EXCEPT ![c] = Absent] /\ UNCHANGED <<records, ids>>
  BY <1>0 DEF Commit, Made
<1>2. pending'[c] = Absent /\ \A d \in Callers : d # c => pending'[d] = pending[d]
  BY <1>1
<1>3. Made' = Made
  BY <1>0, <1>1, <1>2, AuditAssumption DEF Made, Event
<1>4. \A e \in Made : e.id \in Nat  BY DEF Made, Event
<1>5. IdsDrawn'
  <2>1. \A e \in events : e.id # mine.id  BY <1>0, <1>1, AuditAssumption DEF IdsDrawn
  <2>2. \A d \in Callers : d # c /\ pending[d] # Absent => pending[d].id # mine.id
    BY <1>0, <1>1, AuditAssumption DEF IdsDrawn
  <2>3. \A e, f \in events' : e.id = f.id => e = f  BY <1>1, <2>1 DEF IdsDrawn
  <2>4. \A d \in Callers : pending'[d] # Absent => \A e \in events' : e.id # pending'[d].id
    BY <1>1, <1>2, <2>2 DEF IdsDrawn
  <2> QED  BY <1>1, <1>2, <1>3, <2>3, <2>4 DEF IdsDrawn
<1>6. LastExists'
  <2> SUFFICES ASSUME NEW r \in Records, EventsOf(r)' # {}
               PROVE  \E e \in EventsOf(r)' : \A f \in EventsOf(r)' : f.id <= e.id
    BY DEF LastExists
  <2>1. CASE mine.record # r
    BY <1>1, <2>1 DEF LastExists, EventsOf
  <2>2. CASE mine.record = r
    <3>1. EventsOf(r)' = EventsOf(r) \union {mine}  BY <1>1, <2>2 DEF EventsOf
    <3>2. \A e \in EventsOf(r) \union {mine} : e.id \in Nat  BY <1>1, <1>4 DEF EventsOf, Made
    <3>3. CASE EventsOf(r) = {}  BY <3>1, <3>2, <3>3
    <3>4. CASE EventsOf(r) # {}
      <4>1. PICK e \in EventsOf(r) : \A f \in EventsOf(r) : f.id <= e.id  BY <3>4 DEF LastExists
      <4>2. CASE mine.id <= e.id  BY <3>1, <4>1, <4>2
      <4>3. CASE e.id <= mine.id  BY <3>1, <3>2, <4>1, <4>3
      <4> QED  BY <3>2, <4>2, <4>3
    <3> QED  BY <3>3, <3>4
  <2> QED  BY <2>1, <2>2
<1>7. ApprovalsCarried'  BY <1>1, <1>3 DEF ApprovalsCarried
<1>8. \A e \in Made' : Authorized(e)'
  BY <1>1, <1>3, TrailGrows
<1>9. events' \subseteq Event /\ pending' \in [Callers -> Event \union {Absent}]
  BY <1>1
<1> QED  BY <1>1, <1>5, <1>6, <1>7, <1>8, <1>9

\* A rollback takes a flushed event back, on which nothing rests.
LEMMA RollbackKeeps ==
  ASSUME AuditInv, NEW c \in Callers, Rollback(c)
  PROVE  AuditInv'
<1> USE DEF AuditInv
<1>1. pending' = [pending EXCEPT ![c] = Absent] /\ UNCHANGED <<records, events, ids>>
  BY DEF Rollback
<1>2. pending'[c] = Absent /\ \A d \in Callers : d # c => pending'[d] = pending[d]
  BY <1>1
<1>3. Made' \subseteq Made  BY <1>1, <1>2 DEF Made
<1>4. IdsDrawn'  BY <1>1, <1>2, <1>3 DEF IdsDrawn
<1>5. LastExists' /\ ApprovalsCarried'
  BY <1>1, <1>3 DEF LastExists, ApprovalsCarried, EventsOf
<1>6. \A e \in Made' : Authorized(e)'  BY <1>1, <1>3, TrailGrows
<1>7. pending' \in [Callers -> Event \union {Absent}]  BY <1>1
<1> QED  BY <1>1, <1>4, <1>5, <1>6, <1>7

\* Every behaviour keeps the invariant.
THEOREM AuditInvHolds == AuditSpec => []AuditInv
<1>1. AuditInv /\ [AuditNext]_vars => AuditInv'
  <2> SUFFICES ASSUME AuditInv, [AuditNext]_vars PROVE AuditInv'  OBVIOUS
  <2>1. CASE AuditNext
    BY <2>1, CreateKeeps, AppendKeeps, CommitKeeps, RollbackKeeps DEF AuditNext
  <2>2. CASE UNCHANGED vars
    BY <2>2 DEF vars, AuditInv, Made, IdsDrawn, LastExists, ApprovalsCarried, Authorized, EventsOf
  <2> QED  BY <2>1, <2>2
<1> QED  BY <1>1, InitAudit, PTL DEF AuditSpec

\* Records, events and ids are well formed.
THEOREM AuditTypeCorrect == AuditSpec => []AuditTypeOK
<1>1. AuditInv => AuditTypeOK  BY DEF AuditInv, AuditTypeOK, IdsDrawn
<1> QED  BY <1>1, AuditInvHolds, PTL

\* What was executed had been authorized, and the authorization approved.
THEOREM AuditExecutionAuthorized == AuditSpec => []ExecutionIsAuthorized
<1>1. AuditInv => ExecutionIsAuthorized
  <2> SUFFICES ASSUME AuditInv, NEW e \in events, e.status \in {"executing", "succeeded", "failed"}
               PROVE  \/ /\ records[e.record].status = "authorized"
                         /\ Permits("authorized", records[e.record].approval)
                      \/ \E f \in EventsOf(e.record) :
                           /\ f.id < e.id
                           /\ f.status = "authorized"
                           /\ f.approval \in {"approved", "not_required"}
    BY DEF ExecutionIsAuthorized
  <2>1. e \in Made /\ e.record \in Records  BY DEF AuditInv, Made, Event
  <2>2. CASE records[e.record].status = "authorized"
    BY <2>1, <2>2 DEF AuditInv, ApprovalsCarried
  <2>3. ASSUME NEW f \in EventsOf(e.record), f.id < e.id, f.status = "authorized"
        PROVE  f.approval \in {"approved", "not_required"}
    BY <2>3 DEF EventsOf, Made, AuditInv, ApprovalsCarried, Permits, NeedsApproval
  <2> QED  BY <2>1, <2>2, <2>3 DEF AuditInv, Authorized
<1> QED  BY <1>1, AuditInvHolds, PTL
==============================================================================
