-------------------------- MODULE MCSandboxApprovals --------------------------
(* Small instances of SandboxApprovals: one workflow instance that can make a *)
(* RED action through an adapter, correct it to one that ends the workflow,   *)
(* or go to the same state and back without the founder.                      *)
EXTENDS SandboxApprovals, TLC

CONSTANTS r1, i1

MCRunOf == [i \in Instances |-> r1]
Send == [action |-> "send", after |-> "sent", red |-> TRUE, adapter |-> "mail"]
Close == [action |-> "send", after |-> "done", red |-> TRUE, adapter |-> None]
Advance == [action |-> "advance", after |-> "sent", red |-> FALSE, adapter |-> "calendar"]
Reset == [action |-> "reset", after |-> "new", red |-> FALSE, adapter |-> None]
\* The same through an adapter: in "new" it changes nothing, and a delivery that
\* Advance has begun may be answered by it.
Recall == [Reset EXCEPT !.adapter = "mail"]
MCNatives == {Send, Close, Advance, Recall}
RaceNatives == {Send, Reset}
MCWorkflow == {<<"new", "send", "sent">>, <<"new", "send", "done">>,
               <<"new", "advance", "sent">>, <<"sent", "reset", "new">>}
\* A lead that is advanced without an adapter, and then closed by the founder.
MovedNatives == {Close, [Advance EXCEPT !.adapter = None]}
MovedWorkflow == {<<"new", "advance", "sent">>, <<"sent", "send", "done">>}
MCTransitions == {<<w[1], w[3]>> : w \in Workflow}
MCKeys == DeliveryKeys \union ResolutionKeys \union ResumeKeys
DeliverySymmetry == Permutations(DeliveryKeys) \union Permutations(ResolutionKeys)
==============================================================================
