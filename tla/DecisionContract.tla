---------------------------- MODULE DecisionContract ----------------------------
(***************************************************************************)
(* The Stage 1 decision contract: app/agents/company_os_contract.py states *)
(* it twice, as the JSON schema that the provider is held to and as the    *)
(* validator of what it returns, and run_company_os_decision of            *)
(* app/agents/base_agent.py puts the two together. A field of an answer is *)
(* given by the class its value falls in: "good", "other" (well formed,    *)
(* and not one of the values at choice), "blank" (spaces), "empty",        *)
(* "wrong" (another type) or "absent".                                     *)
(***************************************************************************)
EXTENDS Integers

CONSTANTS
  Nothing,   \* no call, or an answer that is not an object
  Answers,   \* answers of the model: functions on Fields, with "extra"
  Vocabularies  \* subsets of {"handoff_to", "state"} that have canonical values

VARIABLE decision  \* the call at hand: how it was made, the answer and its end

Texts == {"action", "state", "handoff_to"}
Lists == {"actions_taken", "actions_proposed", "assumptions"}
RequiredFields == Texts \union Lists \union {"scenario_id", "risk_level", "founder_approval"}
Fields == RequiredFields \union {"notes"}
Classes == {"good", "other", "blank", "empty", "wrong", "absent"}

\* Strings, by JSON schema.
StringClasses == {"good", "other", "blank", "empty"}

-----------------------------------------------------------------------------

\* stage1_json_schema: minLength is 1, and an enum where there is a vocabulary.
SchemaAdmits(answer, vocabulary) ==
  /\ \A f \in RequiredFields : answer[f] # "absent"
  /\ ~answer.extra
  /\ answer["scenario_id"] = "good"
  /\ answer["risk_level"] = "good"
  /\ answer["founder_approval"] = "good"
  /\ \A f \in Texts : answer[f] \in StringClasses \ {"empty"}
  /\ \A f \in vocabulary : answer[f] = "good"
  /\ \A f \in Lists : answer[f] = "good"
  /\ answer["notes"] \in StringClasses \union {"absent"}

\* Deviation: fields that nobody asked for are let through.
ValidateOpen(answer, vocabulary) ==
  /\ \A f \in RequiredFields : answer[f] # "absent"
  /\ answer["scenario_id"] = "good"
  /\ \A f \in Texts : answer[f] \in {"good", "other"}
  /\ \A f \in vocabulary : answer[f] = "good"
  /\ answer["risk_level"] = "good"
  /\ answer["founder_approval"] = "good"
  /\ \A f \in Lists : answer[f] = "good"
  /\ answer["notes"] \in StringClasses \union {"absent"}

\* validate_stage1_decision, in its order; a text is stripped before it counts.
Validate(answer, vocabulary) ==
  /\ \A f \in RequiredFields : answer[f] # "absent"
  /\ ~answer.extra
  /\ answer["scenario_id"] = "good"
  /\ \A f \in Texts : answer[f] \in {"good", "other"}
  /\ \A f \in vocabulary : answer[f] = "good"
  /\ answer["risk_level"] = "good"
  /\ answer["founder_approval"] = "good"
  /\ \A f \in Lists : answer[f] = "good"
  /\ answer["notes"] \in StringClasses \union {"absent"}

-----------------------------------------------------------------------------

DecisionInit == decision = Nothing

Ended(mode, vocabulary, answer, accepted) ==
  decision' = [mode |-> mode, vocabulary |-> vocabulary, answer |-> answer, accepted |-> accepted]

\* The provider's structured output, or whatever it gives instead: its error,
\* text that is no JSON, an envelope without an object.
DecideStructured ==
  \E v \in Vocabularies, a \in Answers \union {Nothing} :
    Ended("provider", v, a, a # Nothing /\ Validate(a, v))

\* CLAUDE_CLI_MOCK: clean JSON of the mock, validated without a vocabulary.
DecideMocked ==
  \E v \in Vocabularies, a \in Answers \union {Nothing} :
    Ended("mock", v, a, a # Nothing /\ Validate(a, {}))

\* A scenario that is missing, a vocabulary that is empty, a provider other
\* than claude or a claude without schemas: no answer is asked for.
RefuseCall == \E v \in Vocabularies : Ended("refused", v, Nothing, FALSE)

DecisionNext == decision = Nothing /\ (DecideStructured \/ DecideMocked \/ RefuseCall)

DecisionSpec == DecisionInit /\ [][DecisionNext]_decision

-----------------------------------------------------------------------------
(* Properties. *)

\* The schema and the validator are one contract: what a provider is told to
\* keep to and what is accepted of it differ in nothing but texts of spaces,
\* so no accepted answer would have been refused by the schema and every other
\* answer that the schema admits is accepted.
SchemaIsTheContract ==
  decision # Nothing /\ decision.mode = "provider" =>
    LET a == decision.answer
    IN  decision.accepted <=> /\ a # Nothing /\ SchemaAdmits(a, decision.vocabulary)
                              /\ \A f \in Texts : a[f] # "blank"

==============================================================================
