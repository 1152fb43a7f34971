--------------------------- MODULE WorkflowDefinition ---------------------------
(***************************************************************************)
(* app/agents/company_os_workflow.py: a workflow is a list of states, its  *)
(* terminal states and a list of transitions; validate_workflow_definition *)
(* refuses an ambiguous one, and require_valid_transition finds the        *)
(* transition that a proposal is judged by. The types of the fields, which *)
(* a JSON document may get wrong as well, are left out.                    *)
(***************************************************************************)
EXTENDS Integers, Sequences

CONSTANTS
  Unset,        \* no definition yet, or no risk proposed
  Names,        \* states that a definition may name
  Verbs,        \* actions that it may name
  Definitions   \* the definitions to judge

ASSUME TransitionsAreLists == \A d \in Definitions : DOMAIN d.transitions = 1 .. Len(d.transitions)

VARIABLE definition

RiskLevels == {"GREEN", "YELLOW", "RED"}

SetOf(s) == {s[i] : i \in DOMAIN s}

\* Deviation: one action between two states may be declared at two risks.
UniqueByRisk(transitions) ==
  \A i, j \in DOMAIN transitions :
    /\ transitions[i].from = transitions[j].from
    /\ transitions[i].action = transitions[j].action
    /\ transitions[i].to = transitions[j].to
    /\ transitions[i].risk = transitions[j].risk
    => i = j

\* No two transitions of the list go by one action between the same two states.
Unique(transitions) ==
  \A i, j \in DOMAIN transitions :
    /\ transitions[i].from = transitions[j].from
    /\ transitions[i].action = transitions[j].action
    /\ transitions[i].to = transitions[j].to
    => i = j

ValidDefinition(d) ==
  /\ \A i, j \in DOMAIN d.states : d.states[i] = d.states[j] => i = j
  /\ d.terminal \subseteq SetOf(d.states)
  /\ \A t \in SetOf(d.transitions) :
       /\ {t.from, t.to} \subseteq SetOf(d.states)
       /\ t.from \notin d.terminal
       /\ t.risk \in RiskLevels
  /\ Unique(d.transitions)

\* A proposal is a current state, an action, a state to go to and a risk.
Proposals == [from : Names, action : Verbs, to : Names, risk : RiskLevels \union {Unset}]

\* Positions of the transitions that a proposal may mean.
Matches(d, p) ==
  {i \in DOMAIN d.transitions : /\ d.transitions[i].from = p.from
                                /\ d.transitions[i].action = p.action
                                /\ d.transitions[i].to = p.to}

FirstMatch(d, p) == d.transitions[CHOOSE i \in Matches(d, p) : \A j \in Matches(d, p) : i <= j]

Accepts(d, p) ==
  /\ ValidDefinition(d)
  /\ {p.from, p.to} \subseteq SetOf(d.states)
  /\ p.from \notin d.terminal
  /\ Matches(d, p) # {}
  /\ p.risk \in {Unset, FirstMatch(d, p).risk}

DefinitionInit == definition = Unset

DefinitionNext == definition = Unset /\ definition' \in Definitions

DefinitionSpec == DefinitionInit /\ [][DefinitionNext]_definition

-----------------------------------------------------------------------------
(* Properties. *)

\* Any transition that fits an accepted proposal is the canonical one: the order
\* in which a definition lists its transitions decides nothing, least of all the
\* risk that a proposal is held to.
MoveIsCanonical ==
  definition # Unset =>
    \A p \in Proposals : Accepts(definition, p) =>
      \A i \in Matches(definition, p) : definition.transitions[i] = FirstMatch(definition, p)

==============================================================================
