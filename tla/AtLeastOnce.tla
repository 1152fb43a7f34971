----------------------------- MODULE AtLeastOnce -----------------------------
(***************************************************************************)
(* What a queue that acknowledges late promises about the outside effect   *)
(* of a job (a mail, a message): it comes only after the job was           *)
(* accepted, and it is repeated only to make up for a loss, once for each. *)
(* AgentTasks implements this with celery_app/celery_config.py's           *)
(* task_acks_late and task_reject_on_worker_lost.                          *)
(***************************************************************************)
EXTENDS Naturals

CONSTANT Jobs

VARIABLES
  accepted,  \* jobs the queue has taken
  effects,   \* how often each job's effect has happened
  losses     \* processes and answers lost so far

jobVars == <<accepted, effects, losses>>

JobsTypeOK == accepted \subseteq Jobs /\ effects \in [Jobs -> Nat] /\ losses \in Nat

JobsInit == accepted = {} /\ effects = [j \in Jobs |-> 0] /\ losses = 0

Accept(j) == accepted' = accepted \union {j} /\ UNCHANGED <<effects, losses>>

Lose == losses' = losses + 1 /\ UNCHANGED <<accepted, effects>>

\* The effect happens, and whoever asked for it may not hear of it.
Perform(j) ==
  /\ j \in accepted
  /\ effects[j] <= losses
  /\ effects' = [effects EXCEPT ![j] = @ + 1]
  /\ losses' \in {losses, losses + 1}
  /\ UNCHANGED accepted

JobsNext == Lose \/ \E j \in Jobs : Accept(j) \/ Perform(j)

JobsSpec == JobsInit /\ [][JobsNext]_jobVars

\* One effect, and one more for each loss; none without the job.
EffectsBounded ==
  \A j \in Jobs : effects[j] <= losses + 1 /\ (effects[j] > 0 => j \in accepted)
==============================================================================
