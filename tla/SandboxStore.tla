----------------------------- MODULE SandboxStore -----------------------------
(***************************************************************************)
(* append_sandbox_event of app/services/company_os_sandbox_service.py as   *)
(* PostgreSQL and SQLAlchemy run it: each client is one session with one   *)
(* open transaction at READ COMMITTED, the append locks the instance row,  *)
(* then the run row, checks the payload against the session's copy of the  *)
(* instance, inserts the event and updates the row; the caller commits, or *)
(* the transaction is rolled back by an exception, a crash or a lost       *)
(* connection.                                                             *)
(*                                                                         *)
(* A session that already holds the instance in its identity map (the      *)
(* clients in Preloaded: coordinate_sandbox_action has read it without a   *)
(* lock before it awaits the model) keeps the copy it has:                 *)
(* SELECT ... FOR UPDATE without populate_existing locks the row and does  *)
(* not refresh it.                                                         *)
(***************************************************************************)
EXTENDS SandboxLedger

CONSTANTS
  Clients,     \* sessions
  Preloaded,   \* those whose session read the instance before the append
  None,        \* no client, delivery, row or event
  MaxVersion   \* bound on the versions a delivery may expect

ASSUME ClientsAssumption == Preloaded \subseteq Clients /\ None \notin Clients
ASSUME MaxVersionAssumption == MaxVersion \in Nat

VARIABLES
  instLock,  \* holder of each instance's row lock
  runLock,   \* holder of each run's row lock
  pc,        \* how far the client's transaction is
  req,       \* the delivery it carries
  view,      \* its identity map's copy of the instance
  pend       \* the event it has flushed and not committed

sessionVars == <<instLock, runLock, pc, req, view, pend>>
vars == <<ledgerVars, sessionVars>>

Phases == {"idle", "open", "instanceLocked", "runLocked", "flushed"}
Request == [inst: Instances, key: Keys, version: 0..MaxVersion]

Instance(c) == req[c].inst
Run(c) == RunOf[Instance(c)]

TypeOK ==
  /\ LedgerTypeOK
  /\ instLock \in [Instances -> Clients \union {None}]
  /\ runLock \in [Runs -> Clients \union {None}]
  /\ pc \in [Clients -> Phases]
  /\ req \in [Clients -> Request \union {None}]
  /\ view \in [Clients -> Row \union {None}]
  /\ pend \in [Clients -> Event \union {None}]

Init ==
  /\ LedgerInit
  /\ instLock = [i \in Instances |-> None]
  /\ runLock = [r \in Runs |-> None]
  /\ pc = [c \in Clients |-> "idle"]
  /\ req = [c \in Clients |-> None]
  /\ view = [c \in Clients |-> None]
  /\ pend = [c \in Clients |-> None]

-----------------------------------------------------------------------------
(* Creation. The identity is unique in the database, so of several          *)
(* concurrent creators one commits: the transaction is one step.            *)

CreateSandboxRun(r) == CreateRun(r) /\ UNCHANGED sessionVars
CreateWorkflowInstance(i) == CreateInstance(i) /\ UNCHANGED sessionVars

-----------------------------------------------------------------------------
(* One append. *)

\* The caller opens a transaction for a delivery in a fresh session.
OpenFresh(c, q) ==
  /\ c \notin Preloaded
  /\ pc[c] = "idle"
  /\ pc' = [pc EXCEPT ![c] = "open"]
  /\ req' = [req EXCEPT ![c] = q]
  /\ UNCHANGED <<ledgerVars, instLock, runLock, view, pend>>

\* The coordinator reads the row without a lock and goes on only with a
\* delivery that is new, current and not for a finished workflow.
OpenLoaded(c, q) ==
  /\ c \in Preloaded
  /\ pc[c] = "idle"
  /\ q.inst \in created
  /\ \A e \in RunEvents(RunOf[q.inst]) : e.key # q.key
  /\ inst[q.inst].version = q.version
  /\ ~inst[q.inst].terminal
  /\ pc' = [pc EXCEPT ![c] = "open"]
  /\ req' = [req EXCEPT ![c] = q]
  /\ view' = [view EXCEPT ![c] = inst[q.inst]]
  /\ UNCHANGED <<ledgerVars, instLock, runLock, pend>>

\* What SELECT ... FOR UPDATE of the instance leaves in the session.
LoadedRow(c) == IF c \in Preloaded THEN view[c] ELSE inst[Instance(c)]

\* Deviation: a plain SELECT, which waits for nobody and locks nothing.
LockInstanceUnlocked(c) ==
  /\ pc[c] = "open"
  /\ Instance(c) \in created
  /\ view' = [view EXCEPT ![c] = LoadedRow(c)]
  /\ pc' = [pc EXCEPT ![c] = "instanceLocked"]
  /\ UNCHANGED <<ledgerVars, instLock, runLock, req, pend>>

LockInstance(c) ==
  /\ pc[c] = "open"
  /\ Instance(c) \in created
  /\ instLock[Instance(c)] = None
  /\ instLock' = [instLock EXCEPT ![Instance(c)] = c]
  /\ view' = [view EXCEPT ![c] = LoadedRow(c)]
  /\ pc' = [pc EXCEPT ![c] = "instanceLocked"]
  /\ UNCHANGED <<ledgerVars, runLock, req, pend>>

\* Deviation: the run row is read and not locked.
LockRunUnlocked(c) ==
  /\ pc[c] = "instanceLocked"
  /\ pc' = [pc EXCEPT ![c] = "runLocked"]
  /\ UNCHANGED <<ledgerVars, instLock, runLock, req, view, pend>>

LockRun(c) ==
  /\ pc[c] = "instanceLocked"
  /\ runLock[Run(c)] = None
  /\ runLock' = [runLock EXCEPT ![Run(c)] = c]
  /\ pc' = [pc EXCEPT ![c] = "runLocked"]
  /\ UNCHANGED <<ledgerVars, instLock, req, view, pend>>

\* The unique constraints of the event table.
Conflicts(e, f) ==
  \/ /\ RunOf[e.inst] = RunOf[f.inst]
     /\ Names(f, e.id, e.key) \/ e.seq = f.seq
  \/ e.inst = f.inst /\ IsTerminal(e) /\ IsTerminal(f)

\* The INSERT goes through: no committed row conflicts, and a conflicting row
\* another transaction has not committed makes it wait.
Insertable(c, e) ==
  /\ \A f \in events : ~Conflicts(e, f)
  /\ \A d \in Clients \ {c} : pc[d] = "flushed" => ~Conflicts(e, pend[d])

\* The checks of the append: against the session's row, against the run's
\* deliveries; the coordinator's events are never terminal outcomes.
Checked(c, e) ==
  /\ view[c].version = req[c].version
  /\ ~Delivered(Run(c), e.id, e.key)
  /\ Fits(view[c], e)
  /\ c \in Preloaded => ~IsTerminal(e)

\* Once the checks pass, the INSERT and the changed attributes of the row are
\* flushed.
AppendEvent(c, id, type, before, after) ==
  LET e == NewEvent(Instance(c), id, req[c].key, type, before, after)
  IN  /\ pc[c] = "runLocked"
      /\ Checked(c, e)
      /\ Insertable(c, e)
      /\ pend' = [pend EXCEPT ![c] = e]
      /\ view' = [view EXCEPT ![c] = Applied(@, e)]
      /\ pc' = [pc EXCEPT ![c] = "flushed"]
      /\ UNCHANGED <<ledgerVars, instLock, runLock, req>>

\* The session is closed: its locks go, and so does what it held.
Release(c) ==
  /\ instLock' = [i \in Instances |-> IF instLock[i] = c THEN None ELSE instLock[i]]
  /\ runLock' = [r \in Runs |-> IF runLock[r] = c THEN None ELSE runLock[r]]
  /\ pc' = [pc EXCEPT ![c] = "idle"]
  /\ req' = [req EXCEPT ![c] = None]
  /\ view' = [view EXCEPT ![c] = None]
  /\ pend' = [pend EXCEPT ![c] = None]

\* Deviation: the version is not moved with the state.
WrittenUnversioned(row, v, e) ==
  [state    |-> IF Changes(e) THEN v.state ELSE row.state,
   version  |-> row.version,
   terminal |-> row.terminal \/ IsTerminal(e)]

\* Deviation: the terminal outcome does not mark the row.
WrittenUnmarked(row, v, e) ==
  [state    |-> IF Changes(e) THEN v.state ELSE row.state,
   version  |-> IF Changes(e) THEN v.version ELSE row.version,
   terminal |-> row.terminal]

\* The UPDATE of the flush sets the attributes the append assigned, to the
\* session's values, and leaves the others.
Written(row, v, e) ==
  [state    |-> IF Changes(e) THEN v.state ELSE row.state,
   version  |-> IF Changes(e) THEN v.version ELSE row.version,
   terminal |-> row.terminal \/ IsTerminal(e)]

Commit(c) ==
  /\ pc[c] = "flushed"
  /\ events' = events \union {pend[c]}
  /\ inst' = [inst EXCEPT ![Instance(c)] = Written(@, view[c], pend[c])]
  /\ Release(c)
  /\ UNCHANGED <<runs, created>>

\* The append raises (the instance does not exist, or a check fails) and the
\* caller rolls back.
Reject(c) ==
  /\ \/ pc[c] = "open" /\ Instance(c) \notin created
     \/ pc[c] = "runLocked"
  /\ Release(c)
  /\ UNCHANGED ledgerVars

\* The process or its connection dies, or the caller rolls back on its own.
Rollback(c) ==
  /\ pc[c] # "idle"
  /\ Release(c)
  /\ UNCHANGED ledgerVars

AppendSome(c) ==
  \E id \in EventIds, type \in EventTypes, before \in States, after \in States :
    AppendEvent(c, id, type, before, after)

\* Callers that have read nothing in their transaction before they append.
FreshNext ==
  \/ \E r \in Runs : CreateSandboxRun(r)
  \/ \E i \in Instances : CreateWorkflowInstance(i)
  \/ \E c \in Clients :
       \/ \E q \in Request : OpenFresh(c, q)
       \/ LockInstance(c)
       \/ LockRun(c)
       \/ AppendSome(c)
       \/ Commit(c)
       \/ Reject(c)
       \/ Rollback(c)

Next == FreshNext \/ \E c \in Clients, q \in Request : OpenLoaded(c, q)

FreshSpec == Init /\ [][FreshNext]_vars
Spec == Init /\ [][Next]_vars

-----------------------------------------------------------------------------
(* Properties. *)

\* The service's own checks are enough: what passes them can be inserted at
\* once, and no unique constraint of the event table ever makes a flush wait or
\* fail (max(sequence) + 1, the delivery query and the terminal flag are read
\* under the two row locks).
ChecksSuffice ==
  \A c \in Clients : pc[c] = "runLocked" =>
    \A id \in EventIds, type \in EventTypes, before \in States, after \in States :
      LET e == NewEvent(Instance(c), id, req[c].key, type, before, after)
      IN  Checked(c, e) => Insertable(c, e)

\* What a transaction has flushed is still right when it commits: the
\* committed row is at the version the delivery expects and in the state the
\* event leaves, and the sequence number is still the next one.
FlushedIsCurrent ==
  \A c \in Clients :
    pc[c] = "flushed" =>
      /\ inst[Instance(c)].version = req[c].version
      /\ Fits(inst[Instance(c)], pend[c])
      /\ pend[c].seq = NextSequence(Run(c))
==============================================================================
