------------------------------ MODULE InboxSweep ------------------------------
(***************************************************************************)
(* The inbox sweep: run_email_sweep of celery_app/tasks/agent_tasks.py     *)
(* fetches unread mail over IMAP (app/services/email_inbox_service.py),    *)
(* which marks it seen, and then makes a customer_support task of each     *)
(* mail: a committed row, and a message for AgentTasks to take. Beat       *)
(* starts a sweep every three hours; a message delivered again may start   *)
(* another one beside it.                                                  *)
(***************************************************************************)
EXTENDS Integers, FiniteSets

CONSTANTS
  Mails,           \* mail ids, in the order of arrival
  Sweeps,          \* sweeps that may run at a time
  FetchLimit,      \* most mails one sweep fetches
  MaxSweepFaults   \* bound on sweeps that die and mails that cannot be read

ASSUME SweepAssumption ==
  Mails \subseteq Nat /\ IsFiniteSet(Mails) /\ IsFiniteSet(Sweeps)
    /\ FetchLimit \in Nat \ {0} /\ MaxSweepFaults \in Nat

VARIABLES
  mailbox,     \* the flag of each mail
  sweep,       \* what each sweep does
  rows,        \* committed task rows for each mail
  enqueued,    \* messages sent to the agents queue for each mail
  sweepFaults  \* faults so far

sweepVars == <<mailbox, sweep, rows, enqueued, sweepFaults>>

NoSweep == [phase |-> "idle", found |-> {}, fetched |-> {}]
Sweep == [phase: {"idle", "fetching", "creating", "committed"},
          found: SUBSET Mails, fetched: SUBSET Mails]

SweepTypeOK ==
  /\ mailbox \in [Mails -> {"none", "unseen", "seen"}]
  /\ sweep \in [Sweeps -> Sweep]
  /\ rows \in [Mails -> Nat]
  /\ enqueued \in [Mails -> Nat]
  /\ sweepFaults \in 0..MaxSweepFaults

SweepInit ==
  /\ mailbox = [m \in Mails |-> "none"]
  /\ sweep = [v \in Sweeps |-> NoSweep]
  /\ rows = [m \in Mails |-> 0]
  /\ enqueued = [m \in Mails |-> 0]
  /\ sweepFaults = 0

Unseen == {m \in Mails : mailbox[m] = "unseen"}
Oldest(S) == CHOOSE m \in S : \A n \in S : m <= n
FirstOf(S) == {m \in S : Cardinality({n \in S : n < m}) < FetchLimit}

Fault == sweepFaults < MaxSweepFaults /\ sweepFaults' = sweepFaults + 1

\* A customer writes.
Arrive(m) ==
  /\ mailbox[m] = "none"
  /\ mailbox' = [mailbox EXCEPT ![m] = "unseen"]
  /\ UNCHANGED <<sweep, rows, enqueued, sweepFaults>>

\* Search UNSEEN; with nothing found, or no IMAP configured, the task returns.
StartSweep(v) ==
  /\ sweep[v] = NoSweep
  /\ Unseen # {}
  /\ sweep' = [sweep EXCEPT ![v] = [NoSweep EXCEPT !.phase = "fetching", !.found = FirstOf(Unseen)]]
  /\ UNCHANGED <<mailbox, rows, enqueued, sweepFaults>>

\* A non-PEEK fetch of the body marks the mail seen, whatever it was.
Fetch(v) ==
  LET m == Oldest(sweep[v].found)
  IN  /\ sweep[v].phase = "fetching" /\ sweep[v].found # {}
      /\ mailbox' = [mailbox EXCEPT ![m] = "seen"]
      /\ sweep' = [sweep EXCEPT ![v].found = @ \ {m}, ![v].fetched = @ \union {m}]
      /\ UNCHANGED <<rows, enqueued, sweepFaults>>

\* The server answers without a body: the loop goes on.
SkipMail(v) ==
  /\ sweep[v].phase = "fetching" /\ sweep[v].found # {}
  /\ Fault
  /\ sweep' = [sweep EXCEPT ![v].found = @ \ {Oldest(@)}]
  /\ UNCHANGED <<mailbox, rows, enqueued>>

EndFetch(v) ==
  /\ sweep[v].phase = "fetching" /\ sweep[v].found = {}
  /\ sweep' = [sweep EXCEPT ![v] = IF @.fetched = {} THEN NoSweep ELSE [@ EXCEPT !.phase = "creating"]]
  /\ UNCHANGED <<mailbox, rows, enqueued, sweepFaults>>

\* _create_and_run commits the row, then sends the message.
CommitRow(v) ==
  LET m == Oldest(sweep[v].fetched)
  IN  /\ sweep[v].phase = "creating"
      /\ rows' = [rows EXCEPT ![m] = @ + 1]
      /\ sweep' = [sweep EXCEPT ![v].phase = "committed"]
      /\ UNCHANGED <<mailbox, enqueued, sweepFaults>>

\* Deviation: the sweep returns after its first task.
EnqueueOnlyTask(v) ==
  LET m == Oldest(sweep[v].fetched)
  IN  /\ sweep[v].phase = "committed"
      /\ enqueued' = [enqueued EXCEPT ![m] = @ + 1]
      /\ sweep' = [sweep EXCEPT ![v] = NoSweep]
      /\ UNCHANGED <<mailbox, rows, sweepFaults>>

EnqueueTask(v) ==
  LET m == Oldest(sweep[v].fetched)
      rest == sweep[v].fetched \ {m}
  IN  /\ sweep[v].phase = "committed"
      /\ enqueued' = [enqueued EXCEPT ![m] = @ + 1]
      /\ sweep' = [sweep EXCEPT ![v] =
           IF rest = {} THEN NoSweep ELSE [NoSweep EXCEPT !.phase = "creating", !.fetched = rest]]
      /\ UNCHANGED <<mailbox, rows, sweepFaults>>

\* An exception (the connection, a charset nobody knows, the database, the
\* broker) that no code catches, or a lost worker whose message goes back and
\* starts the search anew: what the sweep has fetched is forgotten.
SweepDies(v) ==
  /\ sweep[v] # NoSweep
  /\ Fault
  /\ sweep' = [sweep EXCEPT ![v] = NoSweep]
  /\ UNCHANGED <<mailbox, rows, enqueued>>

\* The exception comes from decoding a mail that is seen by now.
DecodeRaises(v) ==
  /\ sweep[v].phase = "fetching" /\ sweep[v].found # {}
  /\ Fault
  /\ mailbox' = [mailbox EXCEPT ![Oldest(sweep[v].found)] = "seen"]
  /\ sweep' = [sweep EXCEPT ![v] = NoSweep]
  /\ UNCHANGED <<rows, enqueued>>

SweepStep(v) == StartSweep(v) \/ Fetch(v) \/ EndFetch(v) \/ CommitRow(v) \/ EnqueueTask(v)

SweepNext ==
  \/ \E m \in Mails : Arrive(m)
  \/ \E v \in Sweeps : SweepStep(v) \/ SkipMail(v) \/ SweepDies(v) \/ DecodeRaises(v)

SweepSpec == SweepInit /\ [][SweepNext]_sweepVars

\* Beat keeps starting sweeps, and a sweep that has started goes on.
SweepFairness == \A v \in Sweeps : WF_sweepVars(SweepStep(v))
FairSweepSpec == SweepSpec /\ SweepFairness

-----------------------------------------------------------------------------
(* Properties. *)

\* A seen mail has a message for an agent or is with a sweep, except that each
\* fault may take the mails of one fetch with it.
Lost == {m \in Mails : /\ mailbox[m] = "seen" /\ enqueued[m] = 0
                       /\ \A v \in Sweeps : m \notin sweep[v].found \union sweep[v].fetched}
LostByFaults == Cardinality(Lost) <= FetchLimit * sweepFaults

\* Each unread mail becomes a task that is enqueued, unless a fault comes in
\* between.
UnreadBecomesTask ==
  \A m \in Mails : (mailbox[m] = "unseen") ~> (enqueued[m] > 0 \/ sweepFaults > 0)
==============================================================================
