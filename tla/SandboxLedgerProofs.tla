------------------------- MODULE SandboxLedgerProofs -------------------------
(***************************************************************************)
(* Proofs about SandboxLedger. The inductive invariant is built in layers: *)
(* the types together with the contiguity of sequence numbers (max + 1 is  *)
(* a number only because the numbers in use are 1..n), then each property  *)
(* of the log on top of the layers before it.                              *)
(***************************************************************************)
EXTENDS SandboxLedger, FiniteSetTheorems, TLAPS

\* Contiguity as the induction carries it: 1..n for some n.
UsedSequences(r) == {e.seq : e \in RunEvents(r)}
SequencesFrom1 == \A r \in Runs : \E n \in Nat : UsedSequences(r) = 1..n
SequencesUnique ==
  \A e, f \in events : RunOf[e.inst] = RunOf[f.inst] /\ e.seq = f.seq => e = f

\* The first layer of the induction.
BaseInv == LedgerTypeOK /\ SequencesFrom1 /\ SequencesUnique

\* max + 1 over 1..n is n + 1.
LEMMA NextSequenceOfRange ==
  ASSUME NEW r, NEW n \in Nat, UsedSequences(r) = 1..n
  PROVE  NextSequence(r) = n + 1
<1> DEFINE max == CHOOSE m \in 1..n : \A k \in 1..n : k <= m
<1>1. CASE n = 0
  <2>1. UsedSequences(r) = {}
    BY <1>1
  <2>2. QED
    BY <2>1, <1>1 DEF NextSequence, UsedSequences
<1>2. CASE n # 0
  <2>1. n \in 1..n /\ \A k \in 1..n : k <= n
    BY <1>2
  <2>2. max \in 1..n /\ \A k \in 1..n : k <= max
    BY <2>1
  <2>3. max = n
    BY <2>1, <2>2
  <2>4. NextSequence(r) = max + 1
    BY <2>1 DEF NextSequence, UsedSequences
  <2>5. QED
    BY <2>3, <2>4
<1>3. QED
  BY <1>1, <1>2

\* The next number of a run is positive and above every number in use.
LEMMA NextSequenceFresh ==
  ASSUME BaseInv, NEW r \in Runs
  PROVE  /\ NextSequence(r) \in Nat \ {0}
         /\ UsedSequences(r) = 1..(NextSequence(r) - 1)
         /\ \A e \in RunEvents(r) : e.seq < NextSequence(r)
<1>1. PICK n \in Nat : UsedSequences(r) = 1..n
  BY DEF BaseInv, SequencesFrom1
<1>2. NextSequence(r) = n + 1
  BY <1>1, NextSequenceOfRange
<1>3. \A e \in RunEvents(r) : e.seq \in UsedSequences(r)
  BY DEF UsedSequences
<1>4. QED
  BY <1>1, <1>2, <1>3

\* What an append adds to the log.
LEMMA AppendedEvent ==
  ASSUME BaseInv, NEW i \in Instances, NEW id \in EventIds, NEW key \in Keys,
         NEW type \in EventTypes, NEW before \in States, NEW after \in States,
         AtomicAppend(NewEvent(i, id, key, type, before, after))
  PROVE  LET e == NewEvent(i, id, key, type, before, after)
         IN  /\ e \in Event
             /\ e.inst = i
             /\ RunOf[i] \in Runs
             /\ e.seq = NextSequence(RunOf[i])
             /\ \A f \in events : RunOf[f.inst] = RunOf[i] => f.seq < e.seq
             /\ e \notin events
             /\ events' = events \union {e}
             /\ inst' = [inst EXCEPT ![i] = Applied(inst[i], e)]
             /\ Fits(inst[i], e)
<1> DEFINE e == NewEvent(i, id, key, type, before, after)
<1>1. RunOf[i] \in Runs
  BY RunOfAssumption
<1>2. NextSequence(RunOf[i]) \in Nat \ {0}
  BY <1>1, NextSequenceFresh
<1>3. e \in Event /\ e.inst = i /\ e.seq = NextSequence(RunOf[i])
  BY <1>2 DEF NewEvent, Event
<1>4. \A f \in events : RunOf[f.inst] = RunOf[i] => f.seq < e.seq
  BY <1>1, <1>3, NextSequenceFresh DEF RunEvents
<1>5. e \notin events
  BY <1>2, <1>3, <1>4
<1>6. QED
  BY <1>1, <1>3, <1>4, <1>5 DEF AtomicAppend

\* A workflow row an event has been applied to is a row.
LEMMA AppliedIsRow ==
  ASSUME NEW row \in Row, NEW e \in Event
  PROVE  Applied(row, e) \in Row
BY DEF Applied, Row, Event, IsTerminal

LEMMA BaseInvInit == LedgerInit => BaseInv
<1> SUFFICES ASSUME LedgerInit PROVE BaseInv
  OBVIOUS
<1>1. NewRow \in Row
  BY WorkflowAssumption DEF NewRow, Row
<1>2. LedgerTypeOK
  BY <1>1, FS_EmptySet DEF LedgerInit, LedgerTypeOK
<1>3. \A r \in Runs : UsedSequences(r) = 1..0
  BY DEF LedgerInit, UsedSequences, RunEvents
<1>4. QED
  BY <1>2, <1>3 DEF BaseInv, SequencesFrom1, SequencesUnique, LedgerInit

\* An event with the next number, whatever row is written beside it, keeps the
\* types and the numbering.
LEMMA BaseInvAppended ==
  ASSUME BaseInv, NEW i \in Instances, NEW e \in Event, NEW row \in Row,
         e.inst = i, e.seq = NextSequence(RunOf[i]),
         events' = events \union {e}, inst' = [inst EXCEPT ![i] = row],
         runs' = runs, created' = created
  PROVE  BaseInv'
<1>1. RunOf[i] \in Runs
  BY RunOfAssumption
<1>2. \A f \in events : RunOf[f.inst] = RunOf[i] => f.seq < e.seq
  BY <1>1, NextSequenceFresh DEF RunEvents
<1>3. LedgerTypeOK'
  <2>1. inst' \in [Instances -> Row] /\ events' \subseteq Event
    BY DEF BaseInv, LedgerTypeOK
  <2>2. IsFiniteSet(events')
    BY FS_AddElement DEF BaseInv, LedgerTypeOK
  <2>3. QED
    BY <2>1, <2>2 DEF BaseInv, LedgerTypeOK
<1>4. SequencesFrom1'
  <2> SUFFICES ASSUME NEW r \in Runs PROVE \E n \in Nat : UsedSequences(r)' = 1..n
    BY DEF SequencesFrom1
  <2>1. CASE r = RunOf[i]
    <3>1. RunEvents(r)' = RunEvents(r) \union {e}
      BY <2>1 DEF RunEvents
    <3>2. UsedSequences(r)' = UsedSequences(r) \union {e.seq}
      BY <3>1 DEF UsedSequences
    <3>3. /\ e.seq \in Nat \ {0}
          /\ UsedSequences(r) = 1..(e.seq - 1)
      BY <2>1, NextSequenceFresh
    <3>4. UsedSequences(r)' = 1..e.seq
      BY <3>2, <3>3
    <3>5. QED
      BY <3>3, <3>4
  <2>2. CASE r # RunOf[i]
    <3>1. RunEvents(r)' = RunEvents(r)
      BY <2>2 DEF RunEvents
    <3>2. UsedSequences(r)' = UsedSequences(r)
      BY <3>1 DEF UsedSequences
    <3>3. QED
      BY <3>2 DEF BaseInv, SequencesFrom1
  <2>3. QED
    BY <2>1, <2>2
<1>5. SequencesUnique'
  <2>1. e.seq \in Nat /\ \A f \in events : f.seq \in Nat
    BY DEF BaseInv, LedgerTypeOK, Event
  <2>2. QED
    BY <1>2, <2>1 DEF BaseInv, SequencesUnique
<1>6. QED
  BY <1>3, <1>4, <1>5 DEF BaseInv

\* A step of the ledger that is not an append leaves the log and the rows.
LEMMA StepCases ==
  ASSUME BaseInv, [LedgerNext]_ledgerVars
  PROVE  \/ UNCHANGED <<inst, events>>
         \/ \E i \in Instances, id \in EventIds, key \in Keys, type \in EventTypes,
               before \in States, after \in States :
              /\ ~Delivered(RunOf[i], id, key)
              /\ AtomicAppend(NewEvent(i, id, key, type, before, after))
<1>1. created \subseteq Instances /\ inst \in [Instances -> Row]
  BY DEF BaseInv, LedgerTypeOK
<1>2. \A i \in created : i \in Instances /\ inst[i].state \in States
  BY <1>1 DEF Row
<1>3. ASSUME NEW i \in created, NEW id \in EventIds, NEW key \in Keys,
             ~Delivered(RunOf[i], id, key),
             NEW type \in EventTypes, NEW after \in States,
             AtomicAppend(NewEvent(i, id, key, type, inst[i].state, after))
      PROVE  \E j \in Instances, di \in EventIds, dk \in Keys, t \in EventTypes,
                before \in States, last \in States :
               /\ ~Delivered(RunOf[j], di, dk)
               /\ AtomicAppend(NewEvent(j, di, dk, t, before, last))
  <2>1. PICK before \in States : before = inst[i].state
    BY <1>2
  <2>2. AtomicAppend(NewEvent(i, id, key, type, before, after))
    BY <1>3, <2>1
  <2>3. QED
    BY <1>2, <1>3, <2>2
<1>4. QED
  BY <1>3 DEF LedgerNext, ledgerVars, CreateRun, CreateInstance

LEMMA BaseInvNext == BaseInv /\ [LedgerNext]_ledgerVars => BaseInv'
<1> SUFFICES ASSUME BaseInv, [LedgerNext]_ledgerVars PROVE BaseInv'
  OBVIOUS
<1>1. ASSUME UNCHANGED events, UNCHANGED inst, runs' \subseteq Runs, created' \subseteq Instances
      PROVE  BaseInv'
  BY <1>1 DEF BaseInv, LedgerTypeOK, SequencesFrom1, SequencesUnique, UsedSequences, RunEvents
<1>2. runs' \subseteq Runs /\ created' \subseteq Instances
  BY DEF LedgerNext, CreateRun, CreateInstance, AtomicAppend, ledgerVars, BaseInv, LedgerTypeOK
<1>3. ASSUME NEW i \in Instances, NEW id \in EventIds, NEW key \in Keys,
             NEW type \in EventTypes, NEW before \in States, NEW after \in States,
             AtomicAppend(NewEvent(i, id, key, type, before, after))
      PROVE  BaseInv'
  <2> DEFINE e == NewEvent(i, id, key, type, before, after)
  <2>1. /\ e \in Event /\ e.inst = i
        /\ e.seq = NextSequence(RunOf[i])
        /\ events' = events \union {e}
        /\ inst' = [inst EXCEPT ![i] = Applied(inst[i], e)]
    BY <1>3, AppendedEvent
  <2>2. Applied(inst[i], e) \in Row
    BY <2>1, AppliedIsRow DEF BaseInv, LedgerTypeOK
  <2>3. runs' = runs /\ created' = created
    BY <1>3 DEF AtomicAppend
  <2> HIDE DEF e
  <2>4. QED
    BY <2>1, <2>2, <2>3, BaseInvAppended
<1>4. QED
  BY <1>1, <1>2, <1>3, StepCases

\* The types hold in every reachable state of the ledger.
THEOREM LedgerTypeCorrect == LedgerSpec => []LedgerTypeOK
<1>1. LedgerSpec => []BaseInv
  BY BaseInvInit, BaseInvNext, PTL DEF LedgerSpec
<1>2. BaseInv => LedgerTypeOK
  BY DEF BaseInv
<1>3. QED
  BY <1>1, <1>2, PTL

\* The numbers in use are those below the next one.
LEMMA BaseImpliesContiguous == BaseInv => SequencesContiguous
<1> SUFFICES ASSUME BaseInv, NEW r \in Runs
             PROVE  /\ {e.seq : e \in RunEvents(r)} = 1..(NextSequence(r) - 1)
                    /\ \A e, f \in RunEvents(r) : e.seq = f.seq => e = f
  BY DEF SequencesContiguous
<1>1. {e.seq : e \in RunEvents(r)} = 1..(NextSequence(r) - 1)
  BY NextSequenceFresh DEF UsedSequences
<1>2. QED
  BY <1>1 DEF BaseInv, SequencesUnique, RunEvents

\* The sequence numbers of every run are 1..n, each used once.
THEOREM LedgerSequences == LedgerSpec => []SequencesContiguous
<1>1. LedgerSpec => []BaseInv
  BY BaseInvInit, BaseInvNext, PTL DEF LedgerSpec
<1>2. QED
  BY <1>1, BaseImpliesContiguous, PTL

-----------------------------------------------------------------------------
(* The log properties, each inductive relative to BaseInv. *)

\* An event that joins one instance's events and leaves the others' alone.
LEMMA InstanceEventsAfterAppend ==
  ASSUME NEW e, events' = events \union {e}, NEW j
  PROVE  InstanceEvents(j)' = IF j = e.inst THEN InstanceEvents(j) \union {e}
                                            ELSE InstanceEvents(j)
BY DEF InstanceEvents

\* Every append finds its id and its key unused in the run.
THEOREM LedgerDeliveredOnce == LedgerSpec => []DeliveredOnce
<1>1. LedgerInit => DeliveredOnce
  BY DEF LedgerInit, DeliveredOnce
<1>2. ASSUME BaseInv, DeliveredOnce, [LedgerNext]_ledgerVars
      PROVE  DeliveredOnce'
  <2>1. CASE UNCHANGED <<inst, events>>
    BY <1>2, <2>1 DEF DeliveredOnce
  <2>2. ASSUME NEW i \in Instances, NEW id \in EventIds, NEW key \in Keys,
               NEW type \in EventTypes, NEW before \in States, NEW after \in States,
               ~Delivered(RunOf[i], id, key),
               AtomicAppend(NewEvent(i, id, key, type, before, after))
        PROVE  DeliveredOnce'
    <3> DEFINE e == NewEvent(i, id, key, type, before, after)
    <3>1. events' = events \union {e} /\ e.inst = i /\ e.id = id /\ e.key = key
      BY <2>2 DEF AtomicAppend, NewEvent
    <3>3. \A f \in events : RunOf[f.inst] = RunOf[i] => f.id # id /\ f.key # key
      BY <2>2 DEF Delivered, Names, RunEvents
    <3>4. QED
      BY <1>2, <3>1, <3>3 DEF DeliveredOnce
  <2>3. QED
    BY <1>2, <2>1, <2>2, StepCases
<1>3. LedgerSpec => []BaseInv
  BY BaseInvInit, BaseInvNext, PTL DEF LedgerSpec
<1>4. QED
  BY <1>1, <1>2, <1>3, PTL DEF LedgerSpec

\* The version moves exactly when a state-changing event joins the log.
THEOREM LedgerVersions == LedgerSpec => []VersionCountsTransitions
<1>1. LedgerInit => VersionCountsTransitions
  <2> SUFFICES ASSUME LedgerInit, NEW i \in Instances
               PROVE  inst[i].version = Cardinality(TransitionEvents(i))
    BY DEF VersionCountsTransitions
  <2>1. TransitionEvents(i) = {}
    BY DEF LedgerInit, TransitionEvents, InstanceEvents
  <2>2. inst[i].version = 0
    BY DEF LedgerInit, NewRow
  <2>3. QED
    BY <2>1, <2>2, FS_EmptySet
<1>2. ASSUME BaseInv, VersionCountsTransitions, [LedgerNext]_ledgerVars
      PROVE  VersionCountsTransitions'
  <2>1. CASE UNCHANGED <<inst, events>>
    BY <1>2, <2>1 DEF VersionCountsTransitions, TransitionEvents, InstanceEvents
  <2>2. ASSUME NEW i \in Instances, NEW id \in EventIds, NEW key \in Keys,
               NEW type \in EventTypes, NEW before \in States, NEW after \in States,
               AtomicAppend(NewEvent(i, id, key, type, before, after))
        PROVE  VersionCountsTransitions'
    <3> DEFINE e == NewEvent(i, id, key, type, before, after)
    <3>1. /\ e.inst = i /\ e \notin events /\ events' = events \union {e}
          /\ inst' = [inst EXCEPT ![i] = Applied(inst[i], e)]
      BY <1>2, <2>2, AppendedEvent
    <3>2. inst \in [Instances -> Row]
      BY <1>2 DEF BaseInv, LedgerTypeOK
    <3> SUFFICES ASSUME NEW j \in Instances
                 PROVE  inst'[j].version = Cardinality(TransitionEvents(j)')
      BY DEF VersionCountsTransitions
    <3>3. IsFiniteSet(TransitionEvents(j))
      <4>1. TransitionEvents(j) \subseteq events
        BY DEF TransitionEvents, InstanceEvents
      <4>2. QED
        BY <1>2, <4>1, FS_Subset DEF BaseInv, LedgerTypeOK
    <3>4. inst[j].version = Cardinality(TransitionEvents(j))
      BY <1>2 DEF VersionCountsTransitions
    <3>5. InstanceEvents(j)' = IF j = i THEN InstanceEvents(j) \union {e}
                                        ELSE InstanceEvents(j)
      BY <3>1, InstanceEventsAfterAppend
    <3>6. CASE j = i /\ Changes(e)
      <4>1. TransitionEvents(j)' = TransitionEvents(j) \union {e}
        BY <3>5, <3>6 DEF TransitionEvents
      <4>2. e \notin TransitionEvents(j)
        BY <3>1 DEF TransitionEvents, InstanceEvents
      <4>3. inst'[j].version = inst[j].version + 1
        BY <3>1, <3>2, <3>6 DEF Applied
      <4>4. QED
        BY <3>3, <3>4, <4>1, <4>2, <4>3, FS_AddElement
    <3>7. CASE j = i /\ ~Changes(e)
      <4>1. TransitionEvents(j)' = TransitionEvents(j)
        BY <3>5, <3>7 DEF TransitionEvents
      <4>2. inst'[j].version = inst[j].version
        BY <3>1, <3>2, <3>7 DEF Applied
      <4>3. QED
        BY <3>4, <4>1, <4>2
    <3>8. CASE j # i
      <4>1. TransitionEvents(j)' = TransitionEvents(j)
        BY <3>5, <3>8 DEF TransitionEvents
      <4>2. inst'[j] = inst[j]
        BY <3>1, <3>2, <3>8
      <4>3. QED
        BY <3>4, <4>1, <4>2
    <3>9. QED
      BY <3>6, <3>7, <3>8
  <2>3. QED
    BY <1>2, <2>1, <2>2, StepCases
<1>3. LedgerSpec => []BaseInv
  BY BaseInvInit, BaseInvNext, PTL DEF LedgerSpec
<1>4. QED
  BY <1>1, <1>2, <1>3, PTL DEF LedgerSpec

\* Each event starts in the state the one before it left.
THEOREM LedgerStateChain == LedgerSpec => []StateChain
<1>1. LedgerInit => StateChain
  BY DEF LedgerInit, StateChain, InstanceEvents, NewRow
<1>2. ASSUME BaseInv, StateChain, [LedgerNext]_ledgerVars
      PROVE  StateChain'
  <2>1. CASE UNCHANGED <<inst, events>>
    BY <1>2, <2>1 DEF StateChain, InstanceEvents
  <2>2. ASSUME NEW i \in Instances, NEW id \in EventIds, NEW key \in Keys,
               NEW type \in EventTypes, NEW before \in States, NEW after \in States,
               AtomicAppend(NewEvent(i, id, key, type, before, after))
        PROVE  StateChain'
    <3> DEFINE e == NewEvent(i, id, key, type, before, after)
    <3>1. /\ e \in Event /\ e.inst = i /\ events' = events \union {e}
          /\ inst' = [inst EXCEPT ![i] = Applied(inst[i], e)]
          /\ \A f \in events : RunOf[f.inst] = RunOf[i] => f.seq < e.seq
          /\ Fits(inst[i], e)
      BY <1>2, <2>2, AppendedEvent
    <3>2. inst \in [Instances -> Row]
      BY <1>2 DEF BaseInv, LedgerTypeOK
    <3>3. \A j \in Instances :
            InstanceEvents(j)' = IF j = i THEN InstanceEvents(j) \union {e}
                                          ELSE InstanceEvents(j)
      BY <3>1, InstanceEventsAfterAppend
    <3>4. \A j \in Instances : \A f \in InstanceEvents(j) : f.seq \in Nat /\ f \in events
      BY <1>2 DEF BaseInv, LedgerTypeOK, Event, InstanceEvents
    <3>5. \A f \in InstanceEvents(i) : f.seq < e.seq
      BY <3>1, <3>4 DEF InstanceEvents
    <3>6. e.before = inst[i].state /\ inst'[i].state = e.after /\ e.seq \in Nat
      BY <3>1, <3>2 DEF Fits, Applied, Event
    <3> SUFFICES ASSUME NEW j \in Instances
                 PROVE  /\ InstanceEvents(j)' = {} => inst'[j].state = InitialState
                        /\ \A x \in InstanceEvents(j)' :
                             /\ (\A f \in InstanceEvents(j)' : f.seq <= x.seq)
                                  => x.after = inst'[j].state
                             /\ (\A f \in InstanceEvents(j)' : f.seq >= x.seq)
                                  => x.before = InitialState
                             /\ \A f \in InstanceEvents(j)' :
                                  /\ x.seq < f.seq
                                  /\ \A g \in InstanceEvents(j)' : g.seq <= x.seq \/ g.seq >= f.seq
                                  => f.before = x.after
      BY DEF StateChain
    <3>7. CASE j # i
      <4>1. InstanceEvents(j)' = InstanceEvents(j) /\ inst'[j] = inst[j]
        BY <3>1, <3>2, <3>3, <3>7
      <4>2. QED
        BY <1>2, <4>1 DEF StateChain
    <3>8. CASE j = i
      <4> DEFINE old == InstanceEvents(i)
      <4>1. InstanceEvents(j)' = old \union {e}
        BY <3>3, <3>8
      <4>2. /\ old = {} => inst[i].state = InitialState
            /\ \A x \in old :
                 /\ (\A f \in old : f.seq <= x.seq) => x.after = inst[i].state
                 /\ (\A f \in old : f.seq >= x.seq) => x.before = InitialState
                 /\ \A f \in old :
                      /\ x.seq < f.seq
                      /\ \A g \in old : g.seq <= x.seq \/ g.seq >= f.seq
                      => f.before = x.after
        BY <1>2 DEF StateChain
      <4>3. ASSUME NEW x \in old \union {e}
            PROVE (\A f \in old \union {e} : f.seq <= x.seq) => x.after = inst'[i].state
        BY <3>4, <3>5, <3>6
      <4>4. ASSUME NEW x \in old \union {e}
            PROVE (\A f \in old \union {e} : f.seq >= x.seq) => x.before = InitialState
        <5>1. CASE x = e
          <6> SUFFICES ASSUME \A f \in old \union {e} : f.seq >= e.seq PROVE e.before = InitialState
            BY <5>1
          <6>1. old = {}
            BY <3>4, <3>5, <3>6
          <6>2. QED
            BY <3>6, <4>2, <6>1
        <5>2. CASE x \in old
          BY <4>2, <5>2
        <5>3. QED
          BY <5>1, <5>2
      <4>5. ASSUME NEW x \in old \union {e}, NEW f \in old \union {e}, x.seq < f.seq,
                   \A g \in old \union {e} : g.seq <= x.seq \/ g.seq >= f.seq
            PROVE  f.before = x.after
        <5>1. x \in old
          BY <4>5, <3>4, <3>5, <3>6
        <5>2. CASE f = e
          <6>1. \A g \in old : g.seq <= x.seq
            BY <4>5, <5>1, <5>2, <3>4, <3>5, <3>6
          <6>2. QED
            BY <3>6, <4>2, <5>1, <5>2, <6>1
        <5>3. CASE f \in old
          BY <4>2, <4>5, <5>1, <5>3
        <5>4. QED
          BY <5>2, <5>3
      <4>6. QED
        BY <3>8, <4>1, <4>3, <4>4, <4>5
    <3>9. QED
      BY <3>7, <3>8
  <2>3. QED
    BY <1>2, <2>1, <2>2, StepCases
<1>3. LedgerSpec => []BaseInv
  BY BaseInvInit, BaseInvNext, PTL DEF LedgerSpec
<1>4. QED
  BY <1>1, <1>2, <1>3, PTL DEF LedgerSpec

\* Nothing moves an instance once its terminal outcome is in the log.
THEOREM LedgerTerminal == LedgerSpec => []TerminalIsFinal
<1>1. LedgerInit => TerminalIsFinal
  <2> SUFFICES ASSUME LedgerInit PROVE TerminalIsFinal
    OBVIOUS
  <2>1. \A i \in Instances : inst[i] = NewRow /\ InstanceEvents(i) = {}
    BY DEF LedgerInit, InstanceEvents
  <2>2. ~NewRow.terminal
    BY DEF NewRow
  <2>3. QED
    BY <2>1, <2>2 DEF TerminalIsFinal
<1>2. ASSUME BaseInv, TerminalIsFinal, [LedgerNext]_ledgerVars
      PROVE  TerminalIsFinal'
  <2>1. CASE UNCHANGED <<inst, events>>
    BY <1>2, <2>1 DEF TerminalIsFinal, InstanceEvents
  <2>2. ASSUME NEW i \in Instances, NEW id \in EventIds, NEW key \in Keys,
               NEW type \in EventTypes, NEW before \in States, NEW after \in States,
               AtomicAppend(NewEvent(i, id, key, type, before, after))
        PROVE  TerminalIsFinal'
    <3> DEFINE e == NewEvent(i, id, key, type, before, after)
    <3>1. /\ e \in Event /\ e.inst = i /\ events' = events \union {e}
          /\ inst' = [inst EXCEPT ![i] = Applied(inst[i], e)]
          /\ \A f \in events : RunOf[f.inst] = RunOf[i] => f.seq < e.seq
          /\ Fits(inst[i], e)
      BY <1>2, <2>2, AppendedEvent
    <3>2. inst \in [Instances -> Row]
      BY <1>2 DEF BaseInv, LedgerTypeOK
    <3>3. \A j \in Instances :
            InstanceEvents(j)' = IF j = i THEN InstanceEvents(j) \union {e}
                                          ELSE InstanceEvents(j)
      BY <3>1, InstanceEventsAfterAppend
    <3>4. \A f \in InstanceEvents(i) : f.seq \in Nat /\ f.seq < e.seq
      BY <1>2, <3>1 DEF BaseInv, LedgerTypeOK, Event, InstanceEvents
    <3>5. e.seq \in Nat
      BY <3>1 DEF Event
    <3> SUFFICES ASSUME NEW j \in Instances
                 PROVE  /\ inst'[j].terminal <=> \E x \in InstanceEvents(j)' : IsTerminal(x)
                        /\ inst'[j].terminal => inst'[j].state \in TerminalStates
                        /\ \A x, f \in InstanceEvents(j)' :
                             IsTerminal(x) /\ x.seq < f.seq => ~Changes(f) /\ ~IsTerminal(f)
      BY DEF TerminalIsFinal
    <3>6. CASE j # i
      <4>1. InstanceEvents(j)' = InstanceEvents(j) /\ inst'[j] = inst[j]
        BY <3>1, <3>2, <3>3, <3>6
      <4>2. QED
        BY <1>2, <4>1 DEF TerminalIsFinal
    <3>7. CASE j = i
      <4> DEFINE old == InstanceEvents(i)
      <4>1. InstanceEvents(j)' = old \union {e}
        BY <3>3, <3>7
      <4>2. /\ inst[i].terminal <=> \E x \in old : IsTerminal(x)
            /\ inst[i].terminal => inst[i].state \in TerminalStates
            /\ \A x, f \in old : IsTerminal(x) /\ x.seq < f.seq => ~Changes(f) /\ ~IsTerminal(f)
        BY <1>2 DEF TerminalIsFinal
      <4>3. /\ inst'[i].terminal <=> inst[i].terminal \/ IsTerminal(e)
            /\ inst'[i].state = e.after
        BY <3>1, <3>2 DEF Applied
      <4>4. inst'[i].terminal <=> \E x \in old \union {e} : IsTerminal(x)
        BY <4>2, <4>3
      <4>5. inst'[i].terminal => inst'[i].state \in TerminalStates
        <5>1. CASE IsTerminal(e)
          BY <3>1, <4>3, <5>1 DEF Fits
        <5>2. CASE ~IsTerminal(e)
          BY <3>1, <4>2, <4>3, <5>2 DEF Fits, Changes
        <5>3. QED
          BY <5>1, <5>2
      <4>6. ASSUME NEW x \in old \union {e}, NEW f \in old \union {e}, IsTerminal(x), x.seq < f.seq
            PROVE  ~Changes(f) /\ ~IsTerminal(f)
        <5>1. x \in old
          BY <4>6, <3>4, <3>5
        <5>2. CASE f = e
          BY <3>1, <4>2, <4>6, <5>1, <5>2 DEF Fits
        <5>3. CASE f \in old
          BY <4>2, <4>6, <5>1, <5>3
        <5>4. QED
          BY <5>2, <5>3
      <4>7. QED
        BY <3>7, <4>1, <4>4, <4>5, <4>6
    <3>8. QED
      BY <3>6, <3>7
  <2>3. QED
    BY <1>2, <2>1, <2>2, StepCases
<1>3. LedgerSpec => []BaseInv
  BY BaseInvInit, BaseInvNext, PTL DEF LedgerSpec
<1>4. QED
  BY <1>1, <1>2, <1>3, PTL DEF LedgerSpec
==============================================================================
