------------------------- MODULE SandboxSessionProofs -------------------------
(***************************************************************************)
(* What the two row locks of append_sandbox_event buy for every mix of     *)
(* sessions, those that hold a copy of the instance from before the lock   *)
(* included: types, numbering, single delivery, and checks that leave      *)
(* nothing to the unique constraints. What such a session breaks, the      *)
(* chain of states, is SandboxStoreProofs' and assumes there is none.      *)
(*                                                                         *)
(* The invariant is weaker than StoreInv: the row a session holds is some  *)
(* row, the committed one only if it was first seen under the lock, and    *)
(* the pending event is the next of its run, whatever state it starts in.  *)
(***************************************************************************)
EXTENDS SandboxStoreProofs

\* The terminal outcome in the log marks the row.
TerminalMarked == \A e \in events : IsTerminal(e) => inst[e.inst].terminal

\* What holds of the tables, and of one session.
TablesInv == BaseInv /\ DeliveredOnce /\ TerminalMarked

SeesRow(c) ==
  pc[c] # "idle" /\ (pc[c] = "open" => c \in Preloaded) => view[c] \in Row

IsCurrent(c) ==
  c \notin Preloaded /\ pc[c] \in {"instanceLocked", "runLocked"} =>
    view[c] = inst[Instance(c)]

IsNumbered(c) ==
  pc[c] = "flushed" =>
    /\ pend[c] \in Event
    /\ pend[c].inst = Instance(c)
    /\ pend[c].seq = NextSequence(Run(c))
    /\ ~Delivered(Run(c), pend[c].id, pend[c].key)

SessionOK(c) == SeesRow(c) /\ IsCurrent(c) /\ IsNumbered(c)

SessionsInv ==
  /\ TablesInv
  /\ SessionTypes
  /\ LocksHeld
  /\ \A c \in Clients : SessionOK(c)

LEMMA SessionsInvInit == Init => SessionsInv
<1> SUFFICES ASSUME Init PROVE SessionsInv
  OBVIOUS
<1>1. StoreInv
  BY StoreInvInit
<1>2. DeliveredOnce /\ TerminalMarked
  BY DEF Init, LedgerInit, DeliveredOnce, TerminalMarked
<1>3. \A c \in Clients : pc[c] = "idle"
  BY DEF Init
<1>4. QED
  BY <1>1, <1>2, <1>3 DEF StoreInv, SessionsInv, TablesInv, SessionOK, SeesRow, IsCurrent, IsNumbered

\* A client with a transaction carries a delivery for an instance of a run.
LEMMA CarriesRequest ==
  ASSUME LocksHeld, NEW c \in Clients, pc[c] # "idle"
  PROVE  /\ req[c] \in Request /\ req[c].key \in Keys
         /\ Instance(c) \in Instances /\ Run(c) \in Runs
BY RunOfAssumption DEF LocksHeld, Request, Instance, Run

\* A session is as it was while nobody moves the row it has locked or adds to
\* the run it has locked.
LEMMA SessionUnmoved ==
  ASSUME NEW d \in Clients, SessionOK(d),
         pc'[d] = pc[d], req'[d] = req[d], view'[d] = view[d], pend'[d] = pend[d],
         HoldsInstance(d) => inst'[Instance(d)] = inst[Instance(d)],
         HoldsRun(d) => RunEvents(Run(d))' = RunEvents(Run(d))
  PROVE  SessionOK(d)'
<1>1. Instance(d)' = Instance(d) /\ Run(d)' = Run(d)
  BY DEF Instance, Run
<1>2. SeesRow(d)'
  BY DEF SessionOK, SeesRow
<1>3. IsCurrent(d)'
  BY <1>1 DEF SessionOK, IsCurrent, HoldsInstance
<1>4. IsNumbered(d)'
  <2> SUFFICES ASSUME pc[d] = "flushed"
               PROVE  /\ pend'[d] \in Event
                      /\ pend'[d].inst = Instance(d)'
                      /\ pend'[d].seq = NextSequence(Run(d))'
                      /\ ~Delivered(Run(d), pend[d].id, pend[d].key)'
    BY DEF IsNumbered
  <2>1. RunEvents(Run(d))' = RunEvents(Run(d))
    BY DEF HoldsRun
  <2>2. NextSequence(Run(d))' = NextSequence(Run(d))
    BY <2>1 DEF NextSequence
  <2>3. QED
    BY <1>1, <2>1, <2>2 DEF SessionOK, IsNumbered, Delivered
<1>5. QED
  BY <1>2, <1>3, <1>4 DEF SessionOK

\* A step within one session.
LEMMA SessionStep ==
  ASSUME SessionsInv, NEW c \in Clients, UNCHANGED ledgerVars, OthersUntouched(c),
         SessionTypes', LocksHeld', SessionOK(c)'
  PROVE  SessionsInv'
<1>1. TablesInv'
  BY DEF SessionsInv, TablesInv, BaseInv, LedgerTypeOK, SequencesFrom1, SequencesUnique,
     UsedSequences, RunEvents, DeliveredOnce, TerminalMarked, ledgerVars
<1>2. ASSUME NEW d \in Clients, d # c PROVE SessionOK(d)'
  <2>1. /\ pc'[d] = pc[d] /\ req'[d] = req[d] /\ view'[d] = view[d] /\ pend'[d] = pend[d]
    BY <1>2 DEF OthersUntouched
  <2>2. inst'[Instance(d)] = inst[Instance(d)]
    BY DEF ledgerVars
  <2>3. RunEvents(Run(d))' = RunEvents(Run(d))
    BY <2>1 DEF RunEvents, Run, Instance, ledgerVars
  <2>4. QED
    BY <2>1, <2>2, <2>3, SessionUnmoved DEF SessionsInv
<1>3. QED
  BY <1>1, <1>2 DEF SessionsInv

\* The end of a transaction, whatever it did to the tables.
LEMMA ReleaseOwn ==
  ASSUME SessionTypes, LocksHeld, NEW c \in Clients, Release(c), created' = created
  PROVE  SessionTypes' /\ LocksHeld' /\ OthersUntouched(c) /\ SessionOK(c)' /\ pc'[c] = "idle"
<1>1. SessionTypes' /\ OthersUntouched(c) /\ pc'[c] = "idle"
  BY DEF Release, SessionTypes, Phases, OthersUntouched
<1>2. ~HoldsInstance(c)' /\ ~HoldsRun(c)'
  BY <1>1 DEF HoldsInstance, HoldsRun
<1>3. LocksHeld'
  BY <1>1, <1>2, OwnLocks
<1>4. SessionOK(c)'
  BY <1>1 DEF SessionOK, SeesRow, IsCurrent, IsNumbered
<1>5. QED
  BY <1>1, <1>3, <1>4

LEMMA SessionsOpen ==
  ASSUME SessionsInv, NEW c \in Clients, NEW q \in Request, OpenFresh(c, q) \/ OpenLoaded(c, q)
  PROVE  SessionsInv'
<1> USE DEF OpenFresh, OpenLoaded
<1>1. SessionTypes /\ LocksHeld /\ inst[q.inst] \in Row
  BY DEF SessionsInv, TablesInv, BaseInv, LedgerTypeOK, Request
<1>2. SessionTypes' /\ OthersUntouched(c)
  BY <1>1 DEF SessionTypes, Phases, OthersUntouched
<1>3. /\ pc'[c] = "open" /\ req'[c] = q
      /\ c \in Preloaded => view'[c] = inst[q.inst]
      /\ UNCHANGED ledgerVars
  BY <1>1 DEF SessionTypes
<1>4. ~HoldsInstance(c)' /\ ~HoldsRun(c)'
  BY <1>3 DEF HoldsInstance, HoldsRun
<1>5. LocksHeld'
  BY <1>1, <1>2, <1>3, <1>4, OwnLocks DEF ledgerVars
<1>6. SessionOK(c)'
  BY <1>1, <1>3 DEF SessionOK, SeesRow, IsCurrent, IsNumbered
<1>7. QED
  BY <1>2, <1>3, <1>5, <1>6, SessionStep

LEMMA SessionsLockInstance ==
  ASSUME SessionsInv, NEW c \in Clients, LockInstance(c)
  PROVE  SessionsInv'
<1> USE DEF LockInstance
<1>1. SessionTypes /\ LocksHeld /\ SessionOK(c) /\ inst \in [Instances -> Row]
  BY DEF SessionsInv, TablesInv, BaseInv, LedgerTypeOK
<1>2. req[c] \in Request /\ Instance(c) \in Instances /\ Instance(c) \in created
  BY <1>1, CarriesRequest
<1>3. LoadedRow(c) \in Row /\ (c \notin Preloaded => LoadedRow(c) = inst[Instance(c)])
  BY <1>1, <1>2 DEF LoadedRow, SessionOK, SeesRow
<1>4. SessionTypes' /\ OthersUntouched(c)
  BY <1>1, <1>2, <1>3, ClientsAssumption DEF SessionTypes, Phases, OthersUntouched
<1>5. /\ pc'[c] = "instanceLocked" /\ req'[c] = req[c] /\ view'[c] = LoadedRow(c)
      /\ instLock'[Instance(c)] = c
      /\ UNCHANGED ledgerVars
  BY <1>1, <1>2 DEF SessionTypes
<1>6. ~HoldsRun(c)'
  BY <1>5 DEF HoldsRun
<1>7. LocksHeld'
  BY <1>1, <1>2, <1>4, <1>5, <1>6, OwnLocks DEF ledgerVars, Instance
<1>8. SessionOK(c)'
  BY <1>3, <1>5 DEF SessionOK, SeesRow, IsCurrent, IsNumbered, Instance, ledgerVars
<1>9. QED
  BY <1>4, <1>5, <1>7, <1>8, SessionStep

LEMMA SessionsLockRun ==
  ASSUME SessionsInv, NEW c \in Clients, LockRun(c)
  PROVE  SessionsInv'
<1> USE DEF LockRun
<1>1. SessionTypes /\ LocksHeld /\ SessionOK(c)
  BY DEF SessionsInv
<1>2. /\ req[c] \in Request /\ Run(c) \in Runs
      /\ instLock[Instance(c)] = c /\ Instance(c) \in created
  BY <1>1, CarriesRequest DEF LocksHeld, HoldsInstance
<1>3. SessionTypes' /\ OthersUntouched(c)
  BY <1>1, <1>2, ClientsAssumption DEF SessionTypes, Phases, OthersUntouched
<1>4. /\ pc'[c] = "runLocked" /\ req'[c] = req[c] /\ view'[c] = view[c]
      /\ instLock' = instLock /\ runLock'[Run(c)] = c
      /\ UNCHANGED ledgerVars
  BY <1>1, <1>2 DEF SessionTypes
<1>5. LocksHeld'
  BY <1>1, <1>2, <1>3, <1>4, OwnLocks DEF ledgerVars, Instance, Run
<1>6. SessionOK(c)'
  BY <1>1, <1>4 DEF SessionOK, SeesRow, IsCurrent, IsNumbered, Instance, ledgerVars
<1>7. QED
  BY <1>3, <1>4, <1>5, <1>6, SessionStep

LEMMA SessionsAppend ==
  ASSUME SessionsInv, NEW c \in Clients, AppendSome(c)
  PROVE  SessionsInv'
<1>1. PICK id \in EventIds, type \in EventTypes, before \in States, after \in States :
        AppendEvent(c, id, type, before, after)
  BY DEF AppendSome
<1> DEFINE e == NewEvent(Instance(c), id, req[c].key, type, before, after)
<1>2. /\ pc[c] = "runLocked"
      /\ Checked(c, e)
      /\ pend' = [pend EXCEPT ![c] = e]
      /\ view' = [view EXCEPT ![c] = Applied(view[c], e)]
      /\ pc' = [pc EXCEPT ![c] = "flushed"]
      /\ UNCHANGED <<ledgerVars, instLock, runLock, req>>
  BY <1>1 DEF AppendEvent
<1>3. SessionTypes /\ LocksHeld /\ SessionOK(c) /\ BaseInv
  BY DEF SessionsInv, TablesInv
<1>4. /\ req[c] \in Request /\ req[c].key \in Keys
      /\ Instance(c) \in Instances /\ Run(c) \in Runs
      /\ instLock[Instance(c)] = c /\ Instance(c) \in created /\ runLock[Run(c)] = c
  BY <1>2, <1>3, CarriesRequest DEF LocksHeld, HoldsInstance, HoldsRun
<1>5. e \in Event /\ e.inst = Instance(c) /\ e.seq = NextSequence(Run(c))
  <2>1. NextSequence(Run(c)) \in Nat \ {0}
    BY <1>3, <1>4, NextSequenceFresh
  <2>2. QED
    BY <1>4, <2>1 DEF NewEvent, Event, Run
<1>6. ~Delivered(Run(c), e.id, e.key)
  BY <1>2 DEF Checked
<1> HIDE DEF e
<1>7. Applied(view[c], e) \in Row
  <2>1. view[c] \in Row
    BY <1>2, <1>3 DEF SessionOK, SeesRow
  <2>2. QED
    BY <1>5, <2>1, AppliedIsRow
<1>8. SessionTypes' /\ OthersUntouched(c)
  BY <1>2, <1>3, <1>5, <1>7 DEF SessionTypes, Phases, OthersUntouched
<1>9. /\ pc'[c] = "flushed" /\ req' = req /\ pend'[c] = e
      /\ view'[c] = Applied(view[c], e)
      /\ instLock' = instLock /\ runLock' = runLock
      /\ UNCHANGED ledgerVars
  BY <1>2, <1>3 DEF SessionTypes
<1>10. LocksHeld'
  BY <1>3, <1>4, <1>8, <1>9, OwnLocks DEF ledgerVars, Instance, Run
<1>11. SessionOK(c)'
  <2>1. SeesRow(c)' /\ IsCurrent(c)'
    BY <1>7, <1>9 DEF SeesRow, IsCurrent
  <2>2. /\ Instance(c)' = Instance(c) /\ Run(c)' = Run(c)
        /\ RunEvents(Run(c))' = RunEvents(Run(c))
    BY <1>9 DEF Instance, Run, RunEvents, ledgerVars
  <2>3. NextSequence(Run(c))' = NextSequence(Run(c))
    BY <2>2 DEF NextSequence
  <2>4. ~Delivered(Run(c), pend[c].id, pend[c].key)'
    BY <1>6, <1>9, <2>2 DEF Delivered
  <2>5. IsNumbered(c)'
    BY <1>5, <1>9, <2>2, <2>3, <2>4 DEF IsNumbered
  <2>6. QED
    BY <2>1, <2>5 DEF SessionOK
<1>12. QED
  BY <1>8, <1>9, <1>10, <1>11, SessionStep

LEMMA SessionsEnd ==
  ASSUME SessionsInv, NEW c \in Clients, Release(c), UNCHANGED ledgerVars
  PROVE  SessionsInv'
<1>1. SessionTypes' /\ LocksHeld' /\ OthersUntouched(c) /\ SessionOK(c)'
  BY ReleaseOwn DEF SessionsInv, ledgerVars
<1>2. QED
  BY <1>1, SessionStep

\* What the UPDATE writes is a row, whatever row the session holds.
LEMMA WrittenIsRow ==
  ASSUME NEW row \in Row, NEW v \in Row, NEW e \in Event
  PROVE  Written(row, v, e) \in Row
BY DEF Written, Row, IsTerminal

\* A commit appends the next event of its run, whatever it makes of the row.
LEMMA CommitKeepsTables ==
  ASSUME SessionsInv, NEW c \in Clients, Commit(c)
  PROVE  TablesInv'
<1> DEFINE i == Instance(c)
           e == pend[c]
           row == Written(inst[i], view[c], e)
<1>1. /\ pc[c] = "flushed"
      /\ events' = events \union {e}
      /\ inst' = [inst EXCEPT ![i] = row]
      /\ runs' = runs /\ created' = created
  BY DEF Commit
<1>2. i \in Instances /\ inst[i] \in Row /\ view[c] \in Row
  BY <1>1, CarriesRequest DEF SessionsInv, TablesInv, BaseInv, LedgerTypeOK, SessionOK, SeesRow
<1>3. e \in Event /\ e.inst = i /\ e.seq = NextSequence(RunOf[i]) /\ ~Delivered(RunOf[i], e.id, e.key)
  BY <1>1 DEF SessionsInv, SessionOK, IsNumbered, Run
<1>4. row \in Row /\ (inst[i].terminal \/ IsTerminal(e) => row.terminal)
  BY <1>2, <1>3, WrittenIsRow DEF Written
<1> HIDE DEF i, e, row
<1>5. BaseInv'
  BY <1>1, <1>2, <1>3, <1>4, BaseInvAppended DEF SessionsInv, TablesInv
<1>6. DeliveredOnce'
  <2>1. \A f \in events : RunOf[f.inst] = RunOf[i] => f.id # e.id /\ f.key # e.key
    BY <1>3 DEF Delivered, Names, RunEvents
  <2>2. QED
    BY <1>1, <1>3, <2>1 DEF SessionsInv, TablesInv, DeliveredOnce
<1>7. TerminalMarked'
  <2> SUFFICES ASSUME NEW f \in events', IsTerminal(f) PROVE inst'[f.inst].terminal
    BY DEF TerminalMarked
  <2>1. inst \in [Instances -> Row]
    BY DEF SessionsInv, TablesInv, BaseInv, LedgerTypeOK
  <2>2. CASE f.inst = i
    <3>1. f = e \/ inst[i].terminal
      BY <1>1, <2>2 DEF SessionsInv, TablesInv, TerminalMarked
    <3>2. row.terminal
      BY <1>4, <3>1
    <3>3. QED
      BY <1>1, <1>2, <2>1, <2>2, <3>2
  <2>3. CASE f.inst # i
    <3>1. f \in events
      BY <1>1, <1>3, <2>3
    <3>2. f.inst \in Instances
      BY <3>1 DEF SessionsInv, TablesInv, BaseInv, LedgerTypeOK, Event
    <3>3. QED
      BY <1>1, <2>1, <2>3, <3>1, <3>2 DEF SessionsInv, TablesInv, TerminalMarked
  <2>4. QED
    BY <2>2, <2>3
<1>8. QED
  BY <1>5, <1>6, <1>7 DEF TablesInv

LEMMA SessionsCommit ==
  ASSUME SessionsInv, NEW c \in Clients, Commit(c)
  PROVE  SessionsInv'
<1>1. /\ pc[c] = "flushed" /\ events' = events \union {pend[c]}
      /\ inst' = [inst EXCEPT ![Instance(c)] = Written(inst[Instance(c)], view[c], pend[c])]
      /\ created' = created
      /\ Release(c)
  BY DEF Commit
<1>2. TablesInv'
  BY CommitKeepsTables
<1>3. SessionTypes' /\ LocksHeld' /\ OthersUntouched(c) /\ SessionOK(c)'
  BY <1>1, ReleaseOwn DEF SessionsInv
<1>4. ASSUME NEW d \in Clients, d # c PROVE SessionOK(d)'
  <2>1. /\ pc'[d] = pc[d] /\ req'[d] = req[d] /\ view'[d] = view[d] /\ pend'[d] = pend[d]
    BY <1>3, <1>4 DEF OthersUntouched
  <2>2. ASSUME HoldsInstance(d) PROVE inst'[Instance(d)] = inst[Instance(d)]
    <3>1. Instance(d) # Instance(c)
      BY <1>1, <1>4, <2>2, LocksExclude DEF HoldsInstance, SessionsInv
    <3>2. pc[d] # "idle"
      BY <2>2 DEF HoldsInstance
    <3>3. Instance(d) \in Instances
      BY <3>2, CarriesRequest DEF SessionsInv
    <3>4. QED
      BY <1>1, <3>1, <3>3 DEF SessionsInv, TablesInv, BaseInv, LedgerTypeOK
  <2>3. ASSUME HoldsRun(d) PROVE RunEvents(Run(d))' = RunEvents(Run(d))
    <3>1. Run(d) # Run(c)
      BY <1>1, <1>4, <2>3, LocksExclude DEF HoldsRun, SessionsInv
    <3>2. RunOf[pend[c].inst] # Run(d)
      BY <1>1, <3>1 DEF SessionsInv, SessionOK, IsNumbered, Run
    <3>3. Run(d)' = Run(d)
      BY <2>1 DEF Run, Instance
    <3>4. QED
      BY <1>1, <3>2, <3>3 DEF RunEvents
  <2>4. QED
    BY <2>1, <2>2, <2>3, SessionUnmoved DEF SessionsInv
<1>5. QED
  BY <1>2, <1>3, <1>4 DEF SessionsInv

LEMMA SessionsCreate ==
  ASSUME SessionsInv, UNCHANGED sessionVars, inst' = inst, events' = events,
         created \subseteq created', runs' \subseteq Runs, created' \subseteq Instances
  PROVE  SessionsInv'
<1>1. TablesInv'
  BY DEF SessionsInv, TablesInv, BaseInv, LedgerTypeOK, SequencesFrom1, SequencesUnique,
     UsedSequences, RunEvents, DeliveredOnce, TerminalMarked
<1>2. SessionTypes'
  BY DEF SessionsInv, SessionTypes, sessionVars
<1>3. LocksHeld'
  BY DEF SessionsInv, LocksHeld, HoldsInstance, HoldsRun, Instance, Run, sessionVars
<1>4. ASSUME NEW d \in Clients PROVE SessionOK(d)'
  <2>1. RunEvents(Run(d))' = RunEvents(Run(d))
    BY DEF RunEvents, Run, Instance, sessionVars
  <2>2. pc'[d] = pc[d] /\ req'[d] = req[d] /\ view'[d] = view[d] /\ pend'[d] = pend[d]
    BY DEF sessionVars
  <2>3. QED
    BY <2>1, <2>2, SessionUnmoved DEF SessionsInv
<1>5. QED
  BY <1>1, <1>2, <1>3, <1>4 DEF SessionsInv

LEMMA SessionsInvNext ==
  ASSUME SessionsInv, [Next]_vars
  PROVE  SessionsInv'
<1>1. ASSUME NEW c \in Clients, NEW q \in Request, OpenFresh(c, q) \/ OpenLoaded(c, q)
      PROVE  SessionsInv'
  BY <1>1, SessionsOpen
<1>2. ASSUME NEW c \in Clients, LockInstance(c) PROVE SessionsInv'
  BY <1>2, SessionsLockInstance
<1>3. ASSUME NEW c \in Clients, LockRun(c) PROVE SessionsInv'
  BY <1>3, SessionsLockRun
<1>4. ASSUME NEW c \in Clients, AppendSome(c) PROVE SessionsInv'
  BY <1>4, SessionsAppend
<1>5. ASSUME NEW c \in Clients, Commit(c) PROVE SessionsInv'
  BY <1>5, SessionsCommit
<1>6. ASSUME NEW c \in Clients, Reject(c) \/ Rollback(c) PROVE SessionsInv'
  BY <1>6, SessionsEnd DEF Reject, Rollback
<1>7. runs \subseteq Runs /\ created \subseteq Instances
  BY DEF SessionsInv, TablesInv, BaseInv, LedgerTypeOK
<1>8. ASSUME NEW r \in Runs, CreateSandboxRun(r) PROVE SessionsInv'
  BY <1>7, <1>8, SessionsCreate DEF CreateSandboxRun, CreateRun
<1>9. ASSUME NEW i \in Instances, CreateWorkflowInstance(i) PROVE SessionsInv'
  BY <1>7, <1>9, SessionsCreate DEF CreateWorkflowInstance, CreateInstance
<1>10. CASE UNCHANGED vars
  BY <1>7, <1>10, SessionsCreate DEF vars, ledgerVars
<1>11. QED
  BY <1>1, <1>2, <1>3, <1>4, <1>5, <1>6, <1>8, <1>9, <1>10 DEF Next, FreshNext

LEMMA SessionsInvariant == Spec => []SessionsInv
BY SessionsInvInit, SessionsInvNext, PTL DEF Spec

-----------------------------------------------------------------------------
(* The theorems. *)

\* The session model is well typed.
THEOREM StoreTypeCorrect == Spec => []TypeOK
<1>1. SessionsInv => TypeOK
  BY DEF SessionsInv, TablesInv, BaseInv, SessionTypes, TypeOK
<1>2. QED
  BY <1>1, SessionsInvariant, PTL

\* Sequence numbers have no gap and no repetition, whatever a session read
\* before its lock (max(sequence) + 1 under the run lock).
THEOREM StoreSequences == Spec => []SequencesContiguous
<1>1. SessionsInv => SequencesContiguous
  BY BaseImpliesContiguous DEF SessionsInv, TablesInv
<1>2. QED
  BY <1>1, SessionsInvariant, PTL

\* No delivery is applied twice, whatever a session read before its lock.
THEOREM StoreDeliveredOnce == Spec => []DeliveredOnce
<1>1. SessionsInv => DeliveredOnce
  BY DEF SessionsInv, TablesInv
<1>2. QED
  BY <1>1, SessionsInvariant, PTL

\* What passes the service's checks can be inserted, so no unique constraint is
\* ever hit: the run lock keeps the sequence number and the delivery key free,
\* the instance lock the terminal outcome.
THEOREM StoreChecksSuffice == Spec => []ChecksSuffice
<1>1. ASSUME SessionsInv, NEW c \in Clients, pc[c] = "runLocked",
             NEW id \in EventIds, NEW type \in EventTypes,
             NEW before \in States, NEW after \in States,
             Checked(c, NewEvent(Instance(c), id, req[c].key, type, before, after))
      PROVE  Insertable(c, NewEvent(Instance(c), id, req[c].key, type, before, after))
  <2> DEFINE e == NewEvent(Instance(c), id, req[c].key, type, before, after)
  <2>1. e.inst = Instance(c) /\ e.seq = NextSequence(Run(c)) /\ RunOf[e.inst] = Run(c)
    BY DEF NewEvent, Run
  <2>2. Instance(c) \in Instances /\ Run(c) \in Runs
    BY <1>1, CarriesRequest DEF SessionsInv
  <2>3. IsTerminal(e) => ~inst[Instance(c)].terminal
    BY <1>1 DEF SessionsInv, SessionOK, IsCurrent, Checked, Fits
  <2>4. ASSUME NEW f \in events PROVE ~Conflicts(e, f)
    <3>1. RunOf[f.inst] = Run(c) => f.seq < NextSequence(Run(c)) /\ f \in RunEvents(Run(c))
      BY <1>1, <2>2, NextSequenceFresh DEF SessionsInv, TablesInv, RunEvents
    <3>2. RunOf[f.inst] = Run(c) => ~Names(f, e.id, e.key)
      BY <1>1, <3>1 DEF Checked, Delivered
    <3>3. NextSequence(Run(c)) \in Nat /\ f.seq \in Nat
      BY <1>1, <2>2, NextSequenceFresh DEF SessionsInv, TablesInv, BaseInv, LedgerTypeOK, Event
    <3>4. f.inst = Instance(c) /\ IsTerminal(f) => ~IsTerminal(e)
      BY <1>1, <2>3 DEF SessionsInv, TablesInv, TerminalMarked
    <3>5. QED
      BY <2>1, <3>1, <3>2, <3>3, <3>4 DEF Conflicts
  <2>5. ASSUME NEW d \in Clients \ {c}, pc[d] = "flushed" PROVE ~Conflicts(e, pend[d])
    <3>1. pend[d].inst = Instance(d)
      BY <1>1, <2>5 DEF SessionsInv, SessionOK, IsNumbered
    <3>2. Run(d) # Run(c)
      BY <1>1, <2>5, LocksExclude DEF SessionsInv, HoldsRun
    <3>3. QED
      BY <2>1, <3>1, <3>2 DEF Conflicts, Run
  <2>6. QED
    BY <2>4, <2>5 DEF Insertable
<1>2. SessionsInv => ChecksSuffice
  BY <1>1 DEF ChecksSuffice
<1>3. QED
  BY <1>2, SessionsInvariant, PTL
==============================================================================
