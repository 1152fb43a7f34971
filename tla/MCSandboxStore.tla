---------------------------- MODULE MCSandboxStore ----------------------------
(* Small instances of SandboxStore: two workflow instances in one run.      *)
EXTENDS SandboxStore, TLC

CONSTANTS r1, i1, i2

MCRunOf == [i \in Instances |-> r1]
MCTransitions == {<<"new", "active">>, <<"active", "new">>, <<"active", "done">>, <<"new", "done">>}
DeliverySymmetry == Permutations(Keys) \union Permutations(EventIds)
==============================================================================
