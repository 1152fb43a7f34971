----------------------------- MODULE FounderInbox -----------------------------
(***************************************************************************)
(* The Founder Inbox (app/api/v1/approvals.py,                             *)
(* app/services/approval_service.py) over the drafts AgentTasks leaves in  *)
(* it: approving a drafted reply sends it inside the request's transaction,*)
(* which get_db (app/core/database.py) commits after the handler.          *)
(***************************************************************************)
EXTENDS AgentTasks

CONSTANT Requests  \* concurrent approve and reject requests

ASSUME RequestsAssumption == IsFiniteSet(Requests)

VARIABLES
  decision,  \* what each request does
  replies    \* number of mails sent for each draft

inboxVars == <<decision, replies>>
deskVars == <<taskVars, inboxVars>>

NoDecision == [draft |-> None, verdict |-> None, phase |-> "idle"]
Decision == [draft: RunIds \union {None}, verdict: {"approved", "rejected", None},
             phase: {"idle", "checked", "resolving"}]

DeskTypeOK ==
  /\ TasksTypeOK
  /\ decision \in [Requests -> Decision]
  /\ replies \in [RunIds -> Nat]

DeskInit ==
  /\ TasksInit
  /\ decision = [q \in Requests |-> NoDecision]
  /\ replies = [d \in RunIds |-> 0]

\* Deviation: the row's status is not looked at.
OpenAny(q, d, verdict) ==
  /\ decision[q] = NoDecision
  /\ drafts[d] # None
  /\ decision' = [decision EXCEPT ![q] =
       [draft |-> d, verdict |-> verdict,
        phase |-> IF verdict = "approved" THEN "checked" ELSE "resolving"]]
  /\ UNCHANGED <<taskVars, replies>>

\* The handler reads the row without a lock and refuses one that is resolved.
Open(q, d, verdict) ==
  /\ decision[q] = NoDecision
  /\ drafts[d] = "pending"
  /\ decision' = [decision EXCEPT ![q] =
       [draft |-> d, verdict |-> verdict,
        phase |-> IF verdict = "approved" THEN "checked" ELSE "resolving"]]
  /\ UNCHANGED <<taskVars, replies>>

Sent(q) == replies' = [replies EXCEPT ![decision[q].draft] = @ + 1]
Drop(q) == decision' = [decision EXCEPT ![q] = NoDecision]

\* Deviation: a send that fails is resolved all the same.
SendDraftOrNot(q) ==
  /\ decision[q].phase = "checked"
  /\ decision' = [decision EXCEPT ![q].phase = "resolving"]
  /\ Sent(q) \/ UNCHANGED replies
  /\ UNCHANGED taskVars

SendDraft(q) ==
  /\ decision[q].phase = "checked"
  /\ decision' = [decision EXCEPT ![q].phase = "resolving"]
  /\ Sent(q)
  /\ UNCHANGED taskVars

\* The send raises, or its answer is lost: 400 or 502, and a rollback.
SendDraftFails(q) ==
  /\ decision[q].phase = "checked"
  /\ Drop(q)
  /\ \/ UNCHANGED <<taskVars, replies>>
     \/ /\ faults < MaxFaults
        /\ faults' = faults + 1
        /\ Sent(q)
        /\ UNCHANGED <<task, runs, drafts, message, dispatch, worker, mails, expired>>

\* resolve_approval_request writes the verdict over whatever the row says by
\* now: its copy of the row is the one the handler read.
ResolveDraft(q) ==
  /\ decision[q].phase = "resolving"
  /\ drafts' = [drafts EXCEPT ![decision[q].draft] = decision[q].verdict]
  /\ Drop(q)
  /\ UNCHANGED <<task, runs, message, dispatch, worker, mails, expired, faults, replies>>

\* The process dies or the commit fails.
LoseRequest(q) ==
  /\ decision[q] # NoDecision
  /\ faults < MaxFaults
  /\ faults' = faults + 1
  /\ Drop(q)
  /\ UNCHANGED <<task, runs, drafts, message, dispatch, worker, mails, expired, replies>>

DeskNext ==
  \/ TasksNext /\ UNCHANGED inboxVars
  \/ \E q \in Requests :
       \/ \E d \in RunIds, verdict \in {"approved", "rejected"} : Open(q, d, verdict)
       \/ SendDraft(q)
       \/ SendDraftFails(q)
       \/ ResolveDraft(q)
       \/ LoseRequest(q)

DeskSpec == DeskInit /\ [][DeskNext]_deskVars
FairDeskSpec == DeskSpec /\ TasksFairness

-----------------------------------------------------------------------------
(* Properties. *)

\* An approved draft has been mailed: the row is not resolved when the send fails.
ApprovedIsSent == \A d \in RunIds : drafts[d] = "approved" => replies[d] > 0

\* Mails beyond what verdicts account for: every request that was in flight with
\* the approving one, and every fault, can add one, nothing else can.
RepliesBounded ==
  \A d \in RunIds : replies[d] <= Cardinality(Requests) + faults

\* "Don't send": a rejected draft, with no request at work on it, is not mailed.
RejectedIsNotSent ==
  \A d \in RunIds :
    drafts[d] = "rejected" /\ (\A q \in Requests : decision[q].draft # d) => replies[d] = 0
==============================================================================
