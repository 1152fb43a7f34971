---------------------------- MODULE CompanyOSGates ----------------------------
(***************************************************************************)
(* The pure gates of Company OS: app/agents/company_os_policy.py,          *)
(* company_os_workflow.py and company_os_integration.py, and the two       *)
(* places that put them together: the coordinator, when a decision is      *)
(* made, and the approval service, when a founder has approved it. The two *)
(* are written out one beside the other in the code, and so are they here. *)
(*                                                                         *)
(* A decision n carries its policy intent; x is what it is judged by: the  *)
(* workflow, the policy, the integration registry, the adapters at hand    *)
(* and the verified facts of the input.                                    *)
(***************************************************************************)
EXTENDS Integers

CONSTANTS
  None,       \* no limit, no integration, no scope
  Decisions,  \* native decisions to judge
  Contexts,   \* what they are judged by
  States      \* states of the workflow

READ_CAPABLE_MODES == {"sandbox", "read_only", "write_limited", "live"}
WRITE_CAPABLE_MODES == {"sandbox", "write_limited", "live"}

VARIABLE context  \* what the call at hand is judged by; None between calls

-----------------------------------------------------------------------------
(* Policy. *)

\* A limit that is unknown, has no total to compare, or is exceeded.
BeyondLimit(n, policy) ==
  /\ n.limit # None
  /\ \/ n.limit \notin DOMAIN policy.limits
     \/ n.total = None
     \/ n.total > policy.limits[n.limit]

NeedsFounder(n, policy) ==
  n.risk = "RED" \/ n.action \in policy.red \/ BeyondLimit(n, policy)

\* authority and consent are facts of the input, never claims of the decision.
EvaluateActionPolicy(n, x, approved) ==
  IF ({n.action} \union n.flags) \intersect x.policy.blocks # {} THEN "block"
  ELSE IF n.write /\ \/ n.mode \notin WRITE_CAPABLE_MODES
                     \/ n.needsAuthority /\ ~x.authority
                     \/ n.needsConsent /\ ~x.consent
  THEN "block"
  ELSE IF NeedsFounder(n, x.policy) /\ ~approved THEN "requires_founder"
  ELSE "allow"

-----------------------------------------------------------------------------
(* Integrations. A request is a name, a phase, a use and a scope. *)

Capable(registry, q) ==
  /\ q.name \in DOMAIN registry
  /\ q.use # None => q.use \in registry[q.name].uses
  /\ registry[q.name].scope # None => q.scope = registry[q.name].scope
  /\ \/ q.phase \in {"draft", "propose"}
     \/ /\ registry[q.name].verified
        /\ q.phase = "read" => registry[q.name].mode \in READ_CAPABLE_MODES
        /\ q.phase = "execute" => /\ registry[q.name].mode \in WRITE_CAPABLE_MODES
                                  /\ registry[q.name].writes

-----------------------------------------------------------------------------
(* Workflow. Registered transitions are unique by from, action and to. *)

Matching(workflow, s, n) ==
  {t \in workflow : t.from = s /\ t.action = n.action /\ t.to = n.after}

ValidTransition(workflow, s, n) ==
  \E t \in Matching(workflow, s, n) : t.risk = n.risk

\* validate_workflow_definition refuses a second transition with the same from,
\* action and to.
ASSUME WorkflowsUnambiguous ==
  \A x \in Contexts : \A t, u \in x.workflow :
    t.from = u.from /\ t.action = u.action /\ t.to = u.to => t = u

UsesAdapter(n) == n.integration # None /\ n.integration.phase \in {"read", "execute"}
NameOf(n) == IF n.integration = None THEN None ELSE n.integration.name

-----------------------------------------------------------------------------
(* coordinate_sandbox_action: the first denial ends the decision, so denial   *)
(* is the disjunction of the checks in their order.                          *)

DeniesMove(n, s, x) ==
  n.after # s /\ \/ ~ValidTransition(x.workflow, s, n)
                 \/ \E t \in Matching(x.workflow, s, n) :
                      \/ ~(t.needs \subseteq x.verified)
                      \/ t.integration # NameOf(n)
                      \/ t.integration # None /\ n.integration.phase # "execute"

\* Deviation: nothing is asked of a decision that writes and names no execution.
DeniesItsIntegration(n, x) ==
  /\ n.integration # None
  /\ \/ ~Capable(x.registry, n.integration)
     \/ LET mode == x.registry[n.integration.name].mode IN
        \/ UsesAdapter(n) /\ mode # "sandbox"
        \/ mode = "live"
        \/ n.integration.phase = "execute" /\ (~n.write \/ n.mode # mode)

DeniesIntegration(n, x) ==
  \/ /\ n.integration # None
     /\ \/ ~Capable(x.registry, n.integration)
        \/ LET mode == x.registry[n.integration.name].mode IN
           \/ UsesAdapter(n) /\ mode # "sandbox"
           \/ mode = "live"
           \/ n.integration.phase = "execute" /\ (~n.write \/ n.mode # mode)
  \/ n.write /\ (n.integration = None \/ n.integration.phase # "execute")

CoordinatorGate(n, s, x) ==
  IF \/ DeniesMove(n, s, x)
     \/ ~n.restates
     \/ EvaluateActionPolicy(n, x, FALSE) = "block"
     \/ DeniesIntegration(n, x)
  THEN "deny"
  ELSE IF EvaluateActionPolicy(n, x, FALSE) = "requires_founder" THEN "request"
  ELSE IF UsesAdapter(n) THEN IF n.integration.name \in x.adapters THEN "execute" ELSE "deny"
  ELSE "act"

-----------------------------------------------------------------------------
(* resume_sandbox_approval: every failed check raises. *)

MoveHolds(n, s, x) ==
  n.after # s =>
    \E t \in Matching(x.workflow, s, n) :
      /\ t.risk = n.risk
      /\ t.needs \subseteq x.verified
      /\ t.integration = NameOf(n)
      /\ t.integration # None => n.integration.phase = "execute"

IntegrationHolds(n, x) ==
  /\ n.integration # None =>
       /\ Capable(x.registry, n.integration)
       /\ x.registry[n.integration.name].mode # "live"
       /\ UsesAdapter(n) => x.registry[n.integration.name].mode = "sandbox"
       /\ n.integration.phase = "execute" =>
            n.write /\ n.mode = x.registry[n.integration.name].mode
  /\ n.write => n.integration # None /\ n.integration.phase = "execute"

\* Deviation: a founder's approval is taken for the policy's.
ResumeGateUnchecked(n, s, x, manual) ==
  IF ~(MoveHolds(n, s, x) /\ n.restates /\ IntegrationHolds(n, x)) THEN "fail"
  ELSE IF UsesAdapter(n) /\ ~manual
  THEN IF n.integration.name \in x.adapters THEN "execute" ELSE "fail"
  ELSE "act"

ResumeGate(n, s, x, manual) ==
  IF ~ /\ MoveHolds(n, s, x)
       /\ n.restates
       /\ EvaluateActionPolicy(n, x, TRUE) = "allow"
       /\ IntegrationHolds(n, x)
  THEN "fail"
  ELSE IF UsesAdapter(n) /\ ~manual
  THEN IF n.integration.name \in x.adapters THEN "execute" ELSE "fail"
  ELSE "act"

-----------------------------------------------------------------------------
(* The callers hand in the workflow, the policy, the registry and the adapters  *)
(* with every call.                                                           *)

GatesInit == context = None

GatesNext ==
  \/ context = None /\ context' \in Contexts
  \/ context # None /\ context' = None

GatesSpec == GatesInit /\ [][GatesNext]_context

-----------------------------------------------------------------------------
(* Properties. *)

\* The two gates agree: an approved request that the coordinator queued resumes
\* as long as nothing it is judged by changes and its adapter is there, and no
\* approval resumes what the coordinator denies on the policy's, the workflow's
\* or the registry's account.
GatesAgree ==
  context # None => \A n \in Decisions, s \in States :
    /\ /\ CoordinatorGate(n, s, context) = "request"
       /\ UsesAdapter(n) => n.integration.name \in context.adapters
       => ResumeGate(n, s, context, FALSE) = IF UsesAdapter(n) THEN "execute" ELSE "act"
    /\ CoordinatorGate(n, s, context) = "deny" => ResumeGate(n, s, context, FALSE) = "fail"

\* Whatever the phases asked, no adapter runs for an integration that is not a
\* verified sandbox. A decision that writes passes neither gate, with an adapter
\* or without, unless it names an execution of its own, at a verified sandbox
\* that the registry lets write; and without an adapter it passes only on the
\* founder's manual evidence.
OnlySandboxExecutes ==
  context # None => \A n \in Decisions, s \in States, manual \in BOOLEAN :
    LET verdicts == {CoordinatorGate(n, s, context), ResumeGate(n, s, context, manual)}
        i == context.registry[n.integration.name]
    IN  /\ "execute" \in verdicts => i.mode = "sandbox" /\ i.verified
        /\ n.write /\ verdicts \intersect {"execute", "act"} # {} =>
             /\ n.integration # None /\ n.integration.phase = "execute"
             /\ i.mode = "sandbox" /\ i.verified /\ i.writes
        /\ n.write /\ "act" \in verdicts => manual
==============================================================================
