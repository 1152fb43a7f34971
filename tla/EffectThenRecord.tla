--------------------------- MODULE EffectThenRecord ---------------------------
(***************************************************************************)
(* What two writes to two stores, one after the other and with no          *)
(* transaction around them, promise: the second tells of the first only    *)
(* when that has happened, and a first write of which the second never     *)
(* tells is still in the hands of its caller, or was lost by a fault that  *)
(* cost nothing else. DualWrites implements it.                            *)
(***************************************************************************)
EXTENDS Naturals

CONSTANT Works

VARIABLES
  happened,  \* works whose first write is done
  open,      \* works whose caller still has the second to do
  told,      \* works whose second write is done
  losses     \* faults so far

pairVars == <<happened, open, told, losses>>

PairInit == happened = {} /\ open = {} /\ told = {} /\ losses = 0

\* The first write is done, and its caller may not learn of it.
Happen(w) ==
  /\ w \notin happened
  /\ happened' = happened \union {w}
  /\ \/ open' = open \union {w} /\ UNCHANGED losses
     \/ losses' = losses + 1 /\ UNCHANGED open
  /\ UNCHANGED told

Tell(w) ==
  /\ w \in open
  /\ open' = open \ {w}
  /\ told' = told \union {w}
  /\ UNCHANGED <<happened, losses>>

Abandon(w) ==
  /\ w \in open
  /\ open' = open \ {w}
  /\ losses' = losses + 1
  /\ UNCHANGED <<happened, told>>

\* A fault that strikes between works.
Miss == losses' = losses + 1 /\ UNCHANGED <<happened, open, told>>

PairNext == Miss \/ \E w \in Works : Happen(w) \/ Tell(w) \/ Abandon(w)

PairSpec == PairInit /\ [][PairNext]_pairVars
==============================================================================
