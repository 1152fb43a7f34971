---------------------------- MODULE SandboxLedger ----------------------------
(***************************************************************************)
(* What the Stage-2 sandbox persistence promises its callers, with no      *)
(* session, lock or transaction in sight: a run is a log of events with    *)
(* consecutive sequence numbers, an append is one atomic step that checks  *)
(* the event against the workflow row and moves the row with it.           *)
(* SandboxStore is the code (rows, locks, ORM sessions, commit and         *)
(* rollback); it is checked, and proved, to implement this specification.  *)
(***************************************************************************)
EXTENDS Integers, FiniteSets

CONSTANTS
  Runs,            \* sandbox runs
  Instances,       \* workflow instances, by identity
  RunOf,           \* the run an instance belongs to
  States,          \* states of the workflow definition
  InitialState,    \* the state an instance is created in
  Transitions,     \* pairs of states the workflow definition lets an event join
  TerminalStates,  \* its terminal states
  Keys,            \* idempotency keys of deliveries
  EventIds,        \* event ids of payloads
  EventTypes       \* event types, "terminal_outcome" among them

ASSUME RunOfAssumption == RunOf \in [Instances -> Runs]
ASSUME WorkflowAssumption ==
  /\ InitialState \in States
  /\ Transitions \subseteq States \X States
  /\ TerminalStates \subseteq States
ASSUME EventTypesAssumption == "terminal_outcome" \in EventTypes

VARIABLES
  runs,     \* the runs created so far
  created,  \* the instances created so far
  inst,     \* committed row of each workflow instance
  events    \* committed rows of the event table

ledgerVars == <<runs, created, inst, events>>

Row == [state: States, version: Nat, terminal: BOOLEAN]
NewRow == [state |-> InitialState, version |-> 0, terminal |-> FALSE]

Event == [inst: Instances, id: EventIds, key: Keys, seq: Nat \ {0},
          type: EventTypes, before: States, after: States]

Changes(e) == e.after # e.before
IsTerminal(e) == e.type = "terminal_outcome"

RunEvents(r) == {e \in events : RunOf[e.inst] = r}
InstanceEvents(i) == {e \in events : e.inst = i}
TransitionEvents(i) == {e \in InstanceEvents(i) : Changes(e)}

\* Deviation: a delivery is told apart by its id and its key together.
NamesPair(e, id, key) == e.id = id /\ e.key = key

\* The event is the one a delivery with this event id or idempotency key made.
Names(e, id, key) == e.id = id \/ e.key = key

\* The delivery check of append_sandbox_event.
Delivered(r, id, key) == \E e \in RunEvents(r) : Names(e, id, key)

\* Deviation: the highest sequence number itself.
LastSequence(r) ==
  LET used == {e.seq : e \in RunEvents(r)}
  IN  IF used = {} THEN 0 ELSE CHOOSE m \in used : \A n \in used : n <= m

\* max(sequence) over the run's events, or 0, plus one.
NextSequence(r) ==
  LET used == {e.seq : e \in RunEvents(r)}
  IN  IF used = {} THEN 1
      ELSE (CHOOSE m \in used : \A n \in used : n <= m) + 1

\* The event fits the workflow row it is applied to.
Fits(row, e) ==
  /\ e.before = row.state
  /\ Changes(e) \/ IsTerminal(e) => ~row.terminal
  /\ Changes(e) => <<e.before, e.after>> \in Transitions
  /\ IsTerminal(e) => e.after \in TerminalStates

\* The row once the event has been applied to it.
Applied(row, e) ==
  [state    |-> e.after,
   version  |-> IF Changes(e) THEN row.version + 1 ELSE row.version,
   terminal |-> row.terminal \/ IsTerminal(e)]

-----------------------------------------------------------------------------
LedgerInit ==
  /\ runs = {}
  /\ created = {}
  /\ inst = [i \in Instances |-> NewRow]
  /\ events = {}

CreateRun(r) ==
  /\ r \notin runs
  /\ runs' = runs \union {r}
  /\ UNCHANGED <<created, inst, events>>

CreateInstance(i) ==
  /\ RunOf[i] \in runs
  /\ i \notin created
  /\ created' = created \union {i}
  /\ UNCHANGED <<runs, inst, events>>

NewEvent(i, id, key, type, before, after) ==
  [inst |-> i, id |-> id, key |-> key, seq |-> NextSequence(RunOf[i]),
   type |-> type, before |-> before, after |-> after]

AtomicAppend(e) ==
  /\ Fits(inst[e.inst], e)
  /\ events' = events \union {e}
  /\ inst' = [inst EXCEPT ![e.inst] = Applied(@, e)]
  /\ UNCHANGED <<runs, created>>

LedgerNext ==
  \/ \E r \in Runs : CreateRun(r)
  \/ \E i \in Instances : CreateInstance(i)
  \/ \E i \in created, id \in EventIds, key \in Keys :
       /\ ~Delivered(RunOf[i], id, key)
       /\ \E type \in EventTypes, after \in States :
            AtomicAppend(NewEvent(i, id, key, type, inst[i].state, after))

LedgerSpec == LedgerInit /\ [][LedgerNext]_ledgerVars

-----------------------------------------------------------------------------
LedgerTypeOK ==
  /\ runs \subseteq Runs
  /\ created \subseteq Instances
  /\ inst \in [Instances -> Row]
  /\ events \subseteq Event
  /\ IsFiniteSet(events)

\* Within a run the sequence numbers are 1, 2, ... without gap or repetition,
\* whatever appends were rejected or rolled back (max(sequence) + 1 under the
\* run lock, unique (run, sequence)).
SequencesContiguous ==
  \A r \in Runs :
    /\ {e.seq : e \in RunEvents(r)} = 1..(NextSequence(r) - 1)
    /\ \A e, f \in RunEvents(r) : e.seq = f.seq => e = f

\* No delivery is applied twice: in a run an event id and an idempotency key
\* each name one event (duplicate query plus unique constraints).
DeliveredOnce ==
  \A e, f \in events :
    RunOf[e.inst] = RunOf[f.inst] /\ (e.id = f.id \/ e.key = f.key) => e = f

\* No transition is lost: the version of an instance is the number of
\* committed events that changed its state ("version += 1" with each of them).
VersionCountsTransitions ==
  \A i \in Instances : inst[i].version = Cardinality(TransitionEvents(i))

\* Read in sequence order, the events of an instance form a chain from its
\* initial state to its current state: each starts where the one before ended
\* (the state_before check against the locked row).
StateChain ==
  \A i \in Instances :
    /\ InstanceEvents(i) = {} => inst[i].state = InitialState
    /\ \A e \in InstanceEvents(i) :
         /\ (\A f \in InstanceEvents(i) : f.seq <= e.seq)
              => e.after = inst[i].state
         /\ (\A f \in InstanceEvents(i) : f.seq >= e.seq)
              => e.before = InitialState
         /\ \A f \in InstanceEvents(i) :
              /\ e.seq < f.seq
              /\ \A g \in InstanceEvents(i) : g.seq <= e.seq \/ g.seq >= f.seq
              => f.before = e.after

\* Nothing moves an instance after its terminal outcome: the outcome is the
\* one terminal event, it rests in a terminal state, later events of the
\* instance change nothing, and the terminal flag says exactly that it exists.
TerminalIsFinal ==
  \A i \in Instances :
    /\ inst[i].terminal <=> \E e \in InstanceEvents(i) : IsTerminal(e)
    /\ inst[i].terminal => inst[i].state \in TerminalStates
    /\ \A e, f \in InstanceEvents(i) :
         IsTerminal(e) /\ e.seq < f.seq => ~Changes(f) /\ ~IsTerminal(f)
==============================================================================
