------------------------------ MODULE ActionAudit ------------------------------
(***************************************************************************)
(* app/services/company_os_audit_service.py: immutable action records and  *)
(* their append-only events. A caller reads the record's events, checks    *)
(* the step from the last one, and flushes its own event, which takes the  *)
(* next id; others see it when the caller commits. Nothing is locked, so   *)
(* two callers may check against the same last event. A refusal raises and *)
(* changes nothing, so it is not an action; the evidence of a success and  *)
(* the details of a failure, which the code only requires, are left out,   *)
(* and a transaction appends one event.                                    *)
(***************************************************************************)
EXTENDS Integers, FiniteSets

CONSTANTS
  Absent,
  Records,    \* action records that may be created
  Callers,    \* sessions appending to them
  Approvals,  \* approval states callers report
  MaxEvents   \* bound: ids given to events

VARIABLES
  records,  \* [Records -> Absent or the record's initial status and approval]
  events,   \* committed events
  pending,  \* [Callers -> Absent or the event flushed and not yet committed]
  ids       \* ids given so far

vars == <<records, events, pending, ids>>

INITIAL_STATUSES == {"not_attempted", "proposed", "blocked", "awaiting_approval", "authorized"}

ALLOWED_TRANSITIONS == [
  not_attempted     |-> {"proposed", "cancelled"},
  proposed          |-> {"awaiting_approval", "authorized", "blocked", "cancelled"},
  awaiting_approval |-> {"authorized", "blocked", "cancelled"},
  authorized        |-> {"executing", "cancelled"},
  executing         |-> {"succeeded", "failed"},
  failed            |-> {"authorized", "cancelled"},
  blocked           |-> {},
  succeeded         |-> {},
  cancelled         |-> {}]

Statuses == DOMAIN ALLOWED_TRANSITIONS

Record == [status : INITIAL_STATUSES, approval : Approvals]

Event == [id : 1 .. MaxEvents, record : Records, status : Statuses, approval : Approvals]

ASSUME AuditAssumption == MaxEvents \in Nat /\ Absent \notin Record \union Event

\* Deviation: an approval is asked for to act, and not to be authorized.
NeedsApprovalToAct(status) == status \in {"executing", "succeeded"}

NeedsApproval(status) == status \in {"authorized", "executing", "succeeded"}

Permits(status, approval) == NeedsApproval(status) => approval \in {"approved", "not_required"}

EventsOf(r) == {e \in events : e.record = r}

LastOf(seen, r) ==
  IF seen = {} THEN records[r].status
  ELSE (CHOOSE e \in seen : \A f \in seen : f.id <= e.id).status

\* The last event by id that others have committed.
Previous(r) == LastOf(EventsOf(r), r)

\* Deviation: the id is counted, not drawn from the sequence.
CountedId == Cardinality(events) + 1

NextId == ids + 1

-----------------------------------------------------------------------------

AuditInit ==
  /\ records = [r \in Records |-> Absent]
  /\ events = {}
  /\ pending = [c \in Callers |-> Absent]
  /\ ids = 0

CreateRecord(r, status, approval) ==
  /\ records[r] = Absent
  /\ status \in INITIAL_STATUSES
  /\ Permits(status, approval)
  /\ records' = [records EXCEPT ![r] = [status |-> status, approval |-> approval]]
  /\ UNCHANGED <<events, pending, ids>>

AppendActionEvent(c, r, status, approval) ==
  /\ pending[c] = Absent
  /\ ids < MaxEvents
  /\ records[r] # Absent
  /\ status \in ALLOWED_TRANSITIONS[Previous(r)]
  /\ Permits(status, approval)
  /\ ids' = NextId
  /\ pending' = [pending EXCEPT
       ![c] = [id |-> NextId, record |-> r, status |-> status, approval |-> approval]]
  /\ UNCHANGED <<records, events>>

Commit(c) ==
  /\ pending[c] # Absent
  /\ events' = events \union {pending[c]}
  /\ pending' = [pending EXCEPT ![c] = Absent]
  /\ UNCHANGED <<records, ids>>

\* The id is spent: a sequence does not go back.
Rollback(c) ==
  /\ pending[c] # Absent
  /\ pending' = [pending EXCEPT ![c] = Absent]
  /\ UNCHANGED <<records, events, ids>>

AuditNext ==
  \/ \E r \in Records, status \in Statuses, approval \in Approvals :
       CreateRecord(r, status, approval)
  \/ \E c \in Callers, r \in Records, status \in Statuses, approval \in Approvals :
       AppendActionEvent(c, r, status, approval)
  \/ \E c \in Callers : Commit(c) \/ Rollback(c)

AuditSpec == AuditInit /\ [][AuditNext]_vars

-----------------------------------------------------------------------------
(* Properties. *)

\* The record and its events are well formed, and every event has its own id.
AuditTypeOK ==
  /\ records \in [Records -> Record \union {Absent}]
  /\ events \subseteq Event
  /\ pending \in [Callers -> Event \union {Absent}]
  /\ ids \in 0 .. MaxEvents
  /\ \A e, f \in events : e.id = f.id => e = f

\* "The service rejects invalid lifecycle jumps": every event of the trail is
\* allowed by the one before it, or by the record's initial status.
NoInvalidJump ==
  \A e \in events :
    e.status \in ALLOWED_TRANSITIONS[LastOf({f \in EventsOf(e.record) : f.id < e.id}, e.record)]

\* An execution in the trail, and a success, is preceded by an authorization of
\* the same record that an approval, or the lack of need for one, carried.
ExecutionIsAuthorized ==
  \A e \in events : e.status \in {"executing", "succeeded", "failed"} =>
    \/ /\ records[e.record].status = "authorized"
       /\ Permits("authorized", records[e.record].approval)
    \/ \E f \in EventsOf(e.record) :
         /\ f.id < e.id
         /\ f.status = "authorized"
         /\ f.approval \in {"approved", "not_required"}

==============================================================================
