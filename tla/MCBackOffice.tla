------------------------------ MODULE MCBackOffice ------------------------------
(* The small machines of the system that share no state, each explored on its  *)
(* own small instance: a behaviour is one of a single part.                    *)
EXTENDS ActionAudit, CompanyOSGates, WorkflowDefinition, DecisionContract, InboxSweep,
        DailyCycle, FinanceSync, DualWrites, PullRequests

CONSTANT Text  \* what an orchestrator says of the day

VARIABLE part  \* the part that this behaviour is of

others == <<vars, context, definition, decision, sweepVars, cycleVars, financeVars, writeVars, pullVars>>

-----------------------------------------------------------------------------
(* The gates: a workflow that sends a lead, with or without an integration of  *)
(* its own, and what decisions on it are judged by.                            *)

MCStates == {"lead", "sent"}

MCRequests == [name : {"mail"}, phase : {"propose", "read", "execute"},
               use : {"deliver"}, scope : {None}]

MCDecisions ==
  [action : {"send"}, risk : {"GREEN", "RED"}, after : MCStates,
   write : BOOLEAN, mode : {"sandbox", "live"}, flags : {{}, {"pressure"}},
   limit : {None, "spend"}, total : {None, 1, 3},
   needsAuthority : BOOLEAN, needsConsent : {FALSE},
   restates : BOOLEAN, integration : MCRequests \union {None}]

MCWorkflows ==
  {{[from |-> "lead", action |-> "send", to |-> "sent", risk |-> "RED",
     needs |-> {"address"}, integration |-> i]} : i \in {None, "mail"}}

MCPolicies == {[blocks |-> {"pressure"}, red |-> {}, limits |-> [spend |-> 2]],
               [blocks |-> {}, red |-> {"send"}, limits |-> <<>>]}

MCRegistries ==
  {[mail |-> [mode |-> m, verified |-> v, writes |-> w, uses |-> {"deliver"}, scope |-> None]] :
     m \in {"disabled", "sandbox", "live"}, v \in BOOLEAN, w \in BOOLEAN}

MCContexts ==
  [workflow : MCWorkflows, policy : MCPolicies, registry : MCRegistries,
   adapters : {{}, {"mail"}}, verified : {{}, {"address"}},
   authority : BOOLEAN, consent : {FALSE}]

-----------------------------------------------------------------------------
(* Definitions of one or two transitions between two states, and one state    *)
(* that is not listed.                                                         *)

MCNames == {"lead", "sent", "lost"}

MCTransitions == [from : MCNames, action : {"send"}, to : MCNames, risk : {"GREEN", "RED", "BLUE"}]

MCDefinitions ==
  [states : {<<"lead", "sent">>, <<"lead", "lead">>}, terminal : {{}, {"sent"}, {"lost"}},
   transitions : UNION {[1 .. n -> MCTransitions] : n \in 1 .. 2}]

(* Answers that are wrong in two fields at most. *)

GoodAnswer == [f \in Fields \union {"extra"} |-> IF f = "extra" THEN FALSE ELSE "good"]

ClassesOf(f) ==
  CASE f = "extra" -> BOOLEAN
    [] f \in Texts -> Classes
    [] f = "notes" -> Classes \ {"other"}
    [] f \in {"scenario_id", "risk_level"} -> {"good", "other", "wrong", "absent"}
    [] OTHER -> {"good", "wrong", "absent"}

MCAnswers ==
  UNION {{[GoodAnswer EXCEPT ![f] = a, ![g] = b] : a \in ClassesOf(f), b \in ClassesOf(g)} :
           f, g \in Fields \union {"extra"}}

MCVocabularies == SUBSET {"state", "handoff_to"}

(* Evenings of one completed task, of which another may fail. *)

MCReports == [completed : {1}, failed : 0 .. 1, summary : {Text}]

-----------------------------------------------------------------------------

BackOfficeInit ==
  /\ part \in {"audit", "gates", "workflow", "contract", "sweep", "cycle", "finance", "writes", "pulls"}
  /\ AuditInit
  /\ GatesInit
  /\ DefinitionInit
  /\ DecisionInit
  /\ SweepInit
  /\ CycleInit
  /\ FinanceInit
  /\ WritesInit
  /\ PullInit

BackOfficeNext ==
  \/ part = "audit" /\ AuditNext
     /\ UNCHANGED <<part, context, definition, decision, sweepVars, cycleVars, financeVars, writeVars, pullVars>>
  \/ part = "gates" /\ GatesNext
     /\ UNCHANGED <<part, vars, definition, decision, sweepVars, cycleVars, financeVars, writeVars, pullVars>>
  \/ part = "workflow" /\ DefinitionNext
     /\ UNCHANGED <<part, vars, context, decision, sweepVars, cycleVars, financeVars, writeVars, pullVars>>
  \/ part = "contract" /\ DecisionNext
     /\ UNCHANGED <<part, vars, context, definition, sweepVars, cycleVars, financeVars, writeVars, pullVars>>
  \/ part = "sweep" /\ SweepNext
     /\ UNCHANGED <<part, vars, context, definition, decision, cycleVars, financeVars, writeVars, pullVars>>
  \/ part = "cycle" /\ CycleNext
     /\ UNCHANGED <<part, vars, context, definition, decision, sweepVars, financeVars, writeVars, pullVars>>
  \/ part = "finance" /\ FinanceNext
     /\ UNCHANGED <<part, vars, context, definition, decision, sweepVars, cycleVars, writeVars, pullVars>>
  \/ part = "writes" /\ WritesNext
     /\ UNCHANGED <<part, vars, context, definition, decision, sweepVars, cycleVars, financeVars, pullVars>>
  \/ part = "pulls" /\ PullNext
     /\ UNCHANGED <<part, vars, context, definition, decision, sweepVars, cycleVars, financeVars, writeVars>>

\* Each part keeps the fairness of its module, where a behaviour is of that part.
BackOfficeSpec ==
  /\ BackOfficeInit /\ [][BackOfficeNext]_<<part, others>>
  /\ \A v \in Sweeps : WF_sweepVars(part = "sweep" /\ SweepStep(v))
  /\ \A d \in Deliveries :
       /\ WF_cycleVars(part = "cycle" /\ CycleStep(d))
       /\ WF_cycleVars(part = "cycle" /\ EveningStep(d))

\* Every part is well typed.
BackOfficeTypeOK ==
  /\ AuditTypeOK /\ SweepTypeOK /\ CycleTypeOK /\ FinanceTypeOK /\ WritesTypeOK /\ PullTypeOK
  /\ context \in Contexts \union {None}
  /\ definition \in Definitions \union {Unset}
==============================================================================
