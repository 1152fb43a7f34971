-------------------------- MODULE SandboxStoreProofs --------------------------
(***************************************************************************)
(* SandboxStore implements SandboxLedger when no session holds a copy of   *)
(* the instance from before its lock (Preloaded = {}), so every property   *)
(* proved of the ledger's log holds of the committed tables.               *)
(*                                                                         *)
(* The inductive invariant says what the two row locks buy: from the lock  *)
(* to the flush the session's row IS the committed row, and from the flush *)
(* to the commit the pending event is still the next event of the ledger.  *)
(***************************************************************************)
EXTENDS SandboxStore, SandboxLedgerProofs

HoldsInstance(c) == pc[c] \in {"instanceLocked", "runLocked", "flushed"}
HoldsRun(c) == pc[c] \in {"runLocked", "flushed"}

SessionTypes ==
  /\ instLock \in [Instances -> Clients \union {None}]
  /\ runLock \in [Runs -> Clients \union {None}]
  /\ pc \in [Clients -> Phases]
  /\ req \in [Clients -> Request \union {None}]
  /\ view \in [Clients -> Row \union {None}]
  /\ pend \in [Clients -> Event \union {None}]

\* A client past a lock step holds that lock for the delivery it carries.
LocksHeld ==
  \A c \in Clients :
    /\ pc[c] # "idle" => req[c] \in Request
    /\ HoldsInstance(c) => instLock[Instance(c)] = c /\ Instance(c) \in created
    /\ HoldsRun(c) => runLock[Run(c)] = c

\* The session's row is the committed row until the flush.
ViewIsCurrent ==
  \A c \in Clients :
    pc[c] \in {"instanceLocked", "runLocked"} => view[c] = inst[Instance(c)]

\* The pending event is one the ledger could append at once.
IsNextEvent(c, e) ==
  /\ \E id \in EventIds, type \in EventTypes, before \in States, after \in States :
       e = NewEvent(Instance(c), id, req[c].key, type, before, after)
  /\ ~Delivered(Run(c), e.id, e.key)
  /\ Fits(inst[Instance(c)], e)

PendingIsNext ==
  \A c \in Clients :
    pc[c] = "flushed" =>
      /\ IsNextEvent(c, pend[c])
      /\ view[c] = Applied(inst[Instance(c)], pend[c])
      /\ inst[Instance(c)].version = req[c].version

\* What a step of client c may not do to the other sessions.
OthersUntouched(c) ==
  \A d \in Clients \ {c} :
    /\ pc'[d] = pc[d] /\ req'[d] = req[d] /\ view'[d] = view[d] /\ pend'[d] = pend[d]
    /\ \A i \in Instances : instLock[i] = d => instLock'[i] = d
    /\ \A r \in Runs : runLock[r] = d => runLock'[r] = d

StoreInv == BaseInv /\ SessionTypes /\ LocksHeld /\ ViewIsCurrent /\ PendingIsNext

\* Clients that hold the same lock are the same client.
LEMMA LocksExclude ==
  ASSUME LocksHeld, NEW c \in Clients, NEW d \in Clients
  PROVE  /\ HoldsInstance(c) /\ HoldsInstance(d) /\ Instance(c) = Instance(d) => c = d
         /\ HoldsRun(c) /\ HoldsRun(d) /\ Run(c) = Run(d) => c = d
BY DEF LocksHeld, Run

\* A step that leaves the other sessions alone keeps the locks as they should be
\* when it does so for its own session.
LEMMA OwnLocks ==
  ASSUME LocksHeld, NEW c \in Clients, created' = created, OthersUntouched(c),
         pc'[c] # "idle" => req'[c] \in Request,
         HoldsInstance(c)' => instLock'[req'[c].inst] = c /\ req'[c].inst \in created,
         HoldsRun(c)' => runLock'[RunOf[req'[c].inst]] = c
  PROVE  LocksHeld'
<1> SUFFICES ASSUME NEW d \in Clients
             PROVE  /\ pc'[d] # "idle" => req'[d] \in Request
                    /\ HoldsInstance(d)' => instLock'[Instance(d)'] = d /\ Instance(d)' \in created'
                    /\ HoldsRun(d)' => runLock'[Run(d)'] = d
  BY DEF LocksHeld
<1>1. CASE d = c
  BY <1>1 DEF Instance, Run
<1>2. CASE d # c
  <2>1. HoldsInstance(d)' => pc[d] # "idle" /\ HoldsInstance(d)
    BY <1>2 DEF HoldsInstance, OthersUntouched
  <2>2. HoldsRun(d)' => pc[d] # "idle" /\ HoldsRun(d)
    BY <1>2 DEF HoldsRun, OthersUntouched
  <2>3. pc[d] # "idle" => Instance(d) \in Instances /\ Run(d) \in Runs
    BY RunOfAssumption DEF LocksHeld, Request, Instance, Run
  <2>4. Instance(d)' = Instance(d) /\ Run(d)' = Run(d)
    BY <1>2 DEF Instance, Run, OthersUntouched
  <2>5. QED
    BY <1>2, <2>1, <2>2, <2>3, <2>4 DEF LocksHeld, OthersUntouched
<1>3. QED
  BY <1>1, <1>2

\* What the UPDATE writes is what the ledger's append writes.
LEMMA WrittenIsApplied ==
  ASSUME NEW row \in Row, NEW e, Fits(row, e)
  PROVE  Written(row, Applied(row, e), e) = Applied(row, e)
BY DEF Written, Applied, Fits, Changes

\* A pending event stays the next one while its instance's row and its run's
\* events do not change.
LEMMA NextEventUnmoved ==
  ASSUME NEW d \in Clients, IsNextEvent(d, pend[d]),
         req'[d] = req[d], pend'[d] = pend[d],
         RunEvents(Run(d))' = RunEvents(Run(d)),
         inst'[Instance(d)] = inst[Instance(d)]
  PROVE  IsNextEvent(d, pend[d])'
<1>1. Instance(d)' = Instance(d) /\ Run(d)' = Run(d)
  BY DEF Instance, Run
<1>2. NextSequence(Run(d))' = NextSequence(Run(d))
  BY <1>1 DEF NextSequence
<1>3. PICK id \in EventIds, type \in EventTypes, before \in States, after \in States :
        pend[d] = NewEvent(Instance(d), id, req[d].key, type, before, after)
  BY DEF IsNextEvent
<1>4. pend'[d] = NewEvent(Instance(d), id, req[d].key, type, before, after)'
  BY <1>1, <1>2, <1>3 DEF NewEvent, Run
<1>5. ~Delivered(Run(d), pend[d].id, pend[d].key)'
  BY <1>1 DEF IsNextEvent, Delivered
<1>6. Fits(inst[Instance(d)], pend[d])'
  BY <1>1 DEF IsNextEvent
<1>7. QED
  BY <1>3, <1>4, <1>5, <1>6 DEF IsNextEvent

LEMMA StoreInvInit == Init => StoreInv
<1> SUFFICES ASSUME Init PROVE StoreInv
  OBVIOUS
<1>1. BaseInv
  BY BaseInvInit DEF Init
<1>2. SessionTypes
  BY DEF Init, SessionTypes, Phases
<1>3. \A c \in Clients : pc[c] = "idle"
  BY DEF Init
<1>4. QED
  BY <1>1, <1>2, <1>3 DEF StoreInv, LocksHeld, ViewIsCurrent, PendingIsNext,
     HoldsInstance, HoldsRun

\* A step that leaves the committed tables and touches only client c's session,
\* taking c where the invariant holds for c, preserves the invariant.
LEMMA OwnStep ==
  ASSUME StoreInv, NEW c \in Clients, UNCHANGED ledgerVars, SessionTypes',
         OthersUntouched(c),
         pc'[c] # "idle" => req'[c] \in Request,
         HoldsInstance(c)' => instLock'[req'[c].inst] = c /\ req'[c].inst \in created,
         HoldsRun(c)' => runLock'[RunOf[req'[c].inst]] = c,
         pc'[c] \in {"instanceLocked", "runLocked"} => view'[c] = inst[req'[c].inst],
         pc'[c] = "flushed" =>
           /\ IsNextEvent(c, pend[c])'
           /\ view'[c] = Applied(inst[req'[c].inst], pend'[c])
           /\ inst[req'[c].inst].version = req'[c].version
  PROVE  StoreInv'
<1>1. BaseInv'
  BY DEF StoreInv, BaseInv, LedgerTypeOK, SequencesFrom1, SequencesUnique,
     UsedSequences, RunEvents, ledgerVars
<1>2. LocksHeld'
  BY OwnLocks DEF StoreInv, ledgerVars
<1>3. ViewIsCurrent'
  BY DEF StoreInv, ViewIsCurrent, Instance, ledgerVars, OthersUntouched
<1>4. PendingIsNext'
  <2> SUFFICES ASSUME NEW d \in Clients, pc'[d] = "flushed"
               PROVE  /\ IsNextEvent(d, pend[d])'
                      /\ view'[d] = Applied(inst'[Instance(d)'], pend'[d])
                      /\ inst'[Instance(d)'].version = req'[d].version
    BY DEF PendingIsNext
  <2>1. CASE d = c
    BY <2>1 DEF Instance, ledgerVars
  <2>2. CASE d # c
    <3>1. /\ IsNextEvent(d, pend[d])
          /\ view[d] = Applied(inst[Instance(d)], pend[d])
          /\ inst[Instance(d)].version = req[d].version
      BY <2>2 DEF StoreInv, PendingIsNext, OthersUntouched
    <3>2. req'[d] = req[d] /\ Instance(d)' = Instance(d) /\ pend'[d] = pend[d] /\ view'[d] = view[d]
      BY <2>2 DEF Instance, OthersUntouched
    <3>3. IsNextEvent(d, pend[d])'
      <4>1. RunEvents(Run(d))' = RunEvents(Run(d))
        BY <3>2 DEF RunEvents, Run, ledgerVars
      <4>2. inst'[Instance(d)] = inst[Instance(d)]
        BY DEF ledgerVars
      <4>3. QED
        BY <3>1, <3>2, <4>1, <4>2, NextEventUnmoved
    <3>4. QED
      BY <3>1, <3>2, <3>3 DEF ledgerVars
  <2>3. QED
    BY <2>1, <2>2
<1>5. QED
  BY <1>1, <1>2, <1>3, <1>4 DEF StoreInv

\* A commit is the ledger's append of the pending event.
LEMMA CommitAppends ==
  ASSUME StoreInv, NEW c \in Clients, Commit(c)
  PROVE  \E i \in created, id \in EventIds, key \in Keys :
           /\ ~Delivered(RunOf[i], id, key)
           /\ \E type \in EventTypes, after \in States :
                AtomicAppend(NewEvent(i, id, key, type, inst[i].state, after))
<1>1. /\ pc[c] = "flushed" /\ events' = events \union {pend[c]}
      /\ inst' = [inst EXCEPT ![Instance(c)] = Written(inst[Instance(c)], view[c], pend[c])]
      /\ UNCHANGED <<runs, created>>
  BY DEF Commit
<1>2. /\ req[c] \in Request
      /\ Instance(c) \in created
  BY <1>1 DEF StoreInv, LocksHeld, HoldsInstance
<1>3. Instance(c) \in Instances /\ req[c].key \in Keys
  BY <1>2 DEF Request, Instance
<1>4. /\ IsNextEvent(c, pend[c])
      /\ view[c] = Applied(inst[Instance(c)], pend[c])
  BY <1>1 DEF StoreInv, PendingIsNext
<1>5. inst[Instance(c)] \in Row
  BY <1>3 DEF StoreInv, BaseInv, LedgerTypeOK
<1>6. Written(inst[Instance(c)], view[c], pend[c]) = Applied(inst[Instance(c)], pend[c])
  BY <1>4, <1>5, WrittenIsApplied DEF IsNextEvent
<1>7. PICK id \in EventIds, type \in EventTypes, before \in States, after \in States :
        pend[c] = NewEvent(Instance(c), id, req[c].key, type, before, after)
  BY <1>4 DEF IsNextEvent
<1>8. /\ pend[c].inst = Instance(c) /\ pend[c].id = id /\ pend[c].key = req[c].key
      /\ pend[c].before = before
  BY <1>7 DEF NewEvent
<1>9. before = inst[Instance(c)].state /\ ~Delivered(RunOf[Instance(c)], id, req[c].key)
  BY <1>4, <1>8 DEF IsNextEvent, Fits, Run
<1>10. AtomicAppend(pend[c])
  BY <1>1, <1>4, <1>6, <1>8 DEF AtomicAppend, IsNextEvent
<1>11. AtomicAppend(NewEvent(Instance(c), id, req[c].key, type, inst[Instance(c)].state, after))
  BY <1>7, <1>9, <1>10
<1>12. QED
  BY <1>2, <1>3, <1>9, <1>11

\* Every step of the store is a step of the ledger or leaves its tables.
LEMMA StepImplementsLedger ==
  ASSUME StoreInv, [Next]_vars
  PROVE  [LedgerNext]_ledgerVars
<1>1. ASSUME NEW c \in Clients, Commit(c)
      PROVE  LedgerNext
  BY <1>1, CommitAppends DEF LedgerNext
<1>2. ASSUME NEW r \in Runs, CreateSandboxRun(r)
      PROVE  LedgerNext
  BY <1>2 DEF CreateSandboxRun, LedgerNext
<1>3. ASSUME NEW i \in Instances, CreateWorkflowInstance(i)
      PROVE  LedgerNext
  BY <1>3 DEF CreateWorkflowInstance, LedgerNext
<1>4. ASSUME NEW c \in Clients,
             \/ \E q \in Request : OpenFresh(c, q) \/ OpenLoaded(c, q)
             \/ LockInstance(c) \/ LockRun(c) \/ AppendSome(c) \/ Reject(c) \/ Rollback(c)
      PROVE  UNCHANGED ledgerVars
  BY <1>4 DEF OpenFresh, OpenLoaded, LockInstance, LockRun, AppendSome, AppendEvent, Reject,
     Rollback, ledgerVars
<1>5. CASE UNCHANGED vars
  BY <1>5 DEF vars
<1>6. QED
  BY <1>1, <1>2, <1>3, <1>4, <1>5 DEF Next, FreshNext

-----------------------------------------------------------------------------
(* The invariant, one lemma per action. *)

LEMMA SessionTypesNext ==
  ASSUME StoreInv, [Next]_vars
  PROVE  SessionTypes'
<1> USE DEF SessionTypes, Phases
<1>0. SessionTypes /\ BaseInv
  BY DEF StoreInv
<1>1. ASSUME NEW c \in Clients, Release(c) PROVE SessionTypes'
  BY <1>0, <1>1 DEF Release
<1>2. ASSUME NEW c \in Clients, NEW q \in Request, OpenFresh(c, q) PROVE SessionTypes'
  BY <1>0, <1>2 DEF OpenFresh
<1>3. ASSUME NEW c \in Clients, NEW q \in Request, OpenLoaded(c, q) PROVE SessionTypes'
  <2>1. inst[q.inst] \in Row
    BY <1>0 DEF BaseInv, LedgerTypeOK, Request
  <2>2. QED
    BY <1>0, <1>3, <2>1 DEF OpenLoaded
<1>4. ASSUME NEW c \in Clients, LockInstance(c) PROVE SessionTypes'
  <2>1. Instance(c) \in Instances
    BY <1>0, <1>4 DEF LockInstance, BaseInv, LedgerTypeOK
  <2>2. LoadedRow(c) \in Row \union {None}
    BY <1>0, <2>1 DEF LoadedRow, BaseInv, LedgerTypeOK
  <2>3. QED
    BY <1>0, <1>4, <2>2 DEF LockInstance
<1>5. ASSUME NEW c \in Clients, LockRun(c) PROVE SessionTypes'
  BY <1>0, <1>5 DEF LockRun
<1>6. ASSUME NEW c \in Clients, AppendSome(c) PROVE SessionTypes'
  <2>1. PICK id \in EventIds, type \in EventTypes, before \in States, after \in States :
          AppendEvent(c, id, type, before, after)
    BY <1>6 DEF AppendSome
  <2> DEFINE e == NewEvent(Instance(c), id, req[c].key, type, before, after)
  <2>2. pc[c] = "runLocked"
    BY <2>1 DEF AppendEvent
  <2>3. req[c] \in Request /\ Instance(c) \in Instances /\ Run(c) \in Runs
    BY <2>2, RunOfAssumption DEF StoreInv, LocksHeld, Request, Instance, Run
  <2>4. e \in Event
    <3>1. NextSequence(Run(c)) \in Nat \ {0}
      BY <1>0, <2>3, NextSequenceFresh
    <3>2. QED
      BY <2>3, <3>1 DEF NewEvent, Event, Request, Run
  <2>5. view[c] \in Row
    BY <1>0, <2>2, <2>3 DEF StoreInv, ViewIsCurrent, BaseInv, LedgerTypeOK
  <2>6. Applied(view[c], e) \in Row
    BY <2>4, <2>5, AppliedIsRow
  <2>7. /\ pend' = [pend EXCEPT ![c] = e]
        /\ view' = [view EXCEPT ![c] = Applied(view[c], e)]
        /\ pc' = [pc EXCEPT ![c] = "flushed"]
        /\ UNCHANGED <<instLock, runLock, req>>
    BY <2>1 DEF AppendEvent
  <2>8. QED
    BY <1>0, <2>4, <2>6, <2>7
<1>7. ASSUME UNCHANGED sessionVars PROVE SessionTypes'
  BY <1>0, <1>7 DEF sessionVars
<1>8. QED
  BY <1>1, <1>2, <1>3, <1>4, <1>5, <1>6, <1>7
     DEF Next, FreshNext, vars, CreateSandboxRun, CreateWorkflowInstance, Commit, Reject, Rollback

LEMMA ReleasePreserves ==
  ASSUME StoreInv, NEW c \in Clients, Release(c), UNCHANGED ledgerVars, SessionTypes'
  PROVE  StoreInv'
<1>1. OthersUntouched(c)
  BY DEF OthersUntouched, Release, StoreInv, SessionTypes
<1>2. pc'[c] = "idle"
  BY DEF Release, StoreInv, SessionTypes
<1>3. ~HoldsInstance(c)' /\ ~HoldsRun(c)'
  BY <1>2 DEF HoldsInstance, HoldsRun
<1>4. QED
  BY <1>1, <1>2, <1>3, OwnStep

LEMMA OpenPreserves ==
  ASSUME StoreInv, NEW c \in Clients, NEW q \in Request,
         OpenFresh(c, q) \/ OpenLoaded(c, q), SessionTypes'
  PROVE  StoreInv'
<1> USE DEF OpenFresh, OpenLoaded
<1>1. OthersUntouched(c)
  BY DEF OthersUntouched, StoreInv, SessionTypes
<1>2. pc'[c] = "open" /\ req'[c] = q
  BY DEF StoreInv, SessionTypes
<1>3. ~HoldsInstance(c)' /\ ~HoldsRun(c)'
  BY <1>2 DEF HoldsInstance, HoldsRun
<1>4. UNCHANGED ledgerVars
  OBVIOUS
<1>5. QED
  BY <1>1, <1>2, <1>3, <1>4, OwnStep

LEMMA LockInstancePreserves ==
  ASSUME StoreInv, Preloaded = {}, NEW c \in Clients, LockInstance(c), SessionTypes'
  PROVE  StoreInv'
<1> USE DEF LockInstance
<1>1. req[c] \in Request /\ Instance(c) \in Instances /\ Instance(c) \in created
  BY DEF StoreInv, LocksHeld, Request, Instance
<1>2. OthersUntouched(c)
  BY ClientsAssumption DEF OthersUntouched, StoreInv, SessionTypes
<1>3. pc'[c] = "instanceLocked" /\ req'[c] = req[c] /\ view'[c] = inst[Instance(c)]
  BY DEF StoreInv, SessionTypes, LoadedRow
<1>4. instLock'[Instance(c)] = c
  BY <1>1 DEF StoreInv, SessionTypes
<1>5. ~HoldsRun(c)'
  BY <1>3 DEF HoldsRun
<1>6. UNCHANGED ledgerVars
  OBVIOUS
<1>7. QED
  BY <1>1, <1>2, <1>3, <1>4, <1>5, <1>6, OwnStep DEF Instance

LEMMA LockRunPreserves ==
  ASSUME StoreInv, NEW c \in Clients, LockRun(c), SessionTypes'
  PROVE  StoreInv'
<1> USE DEF LockRun
<1>1. /\ req[c] \in Request /\ Run(c) \in Runs
      /\ instLock[Instance(c)] = c /\ Instance(c) \in created
      /\ view[c] = inst[Instance(c)]
  BY RunOfAssumption DEF StoreInv, LocksHeld, HoldsInstance, ViewIsCurrent, Request, Instance, Run
<1>2. OthersUntouched(c)
  BY ClientsAssumption DEF OthersUntouched, StoreInv, SessionTypes
<1>3. pc'[c] = "runLocked" /\ req'[c] = req[c] /\ view'[c] = view[c] /\ instLock' = instLock
  BY DEF StoreInv, SessionTypes
<1>4. runLock'[Run(c)] = c
  BY <1>1 DEF StoreInv, SessionTypes
<1>5. UNCHANGED ledgerVars
  OBVIOUS
<1>6. QED
  BY <1>1, <1>2, <1>3, <1>4, <1>5, OwnStep DEF Instance, Run

LEMMA AppendPreserves ==
  ASSUME StoreInv, NEW c \in Clients, AppendSome(c), SessionTypes'
  PROVE  StoreInv'
<1>1. PICK id \in EventIds, type \in EventTypes, before \in States, after \in States :
        AppendEvent(c, id, type, before, after)
  BY DEF AppendSome
<1> DEFINE e == NewEvent(Instance(c), id, req[c].key, type, before, after)
<1>2. /\ pc[c] = "runLocked" /\ view[c].version = req[c].version
      /\ ~Delivered(Run(c), id, req[c].key) /\ Fits(view[c], e)
      /\ pend' = [pend EXCEPT ![c] = e]
      /\ view' = [view EXCEPT ![c] = Applied(view[c], e)]
      /\ pc' = [pc EXCEPT ![c] = "flushed"]
      /\ UNCHANGED <<ledgerVars, instLock, runLock, req>>
  <2>1. e.id = id /\ e.key = req[c].key
    BY DEF NewEvent
  <2>2. QED
    BY <1>1, <2>1 DEF AppendEvent, Checked
<1>3. /\ req[c] \in Request
      /\ instLock[Instance(c)] = c /\ Instance(c) \in created
      /\ runLock[Run(c)] = c /\ view[c] = inst[Instance(c)]
  BY <1>2 DEF StoreInv, LocksHeld, HoldsInstance, HoldsRun, ViewIsCurrent
<1>4. OthersUntouched(c)
  BY <1>2 DEF OthersUntouched, StoreInv, SessionTypes
<1>5. /\ pc'[c] = "flushed" /\ req' = req /\ pend'[c] = e
      /\ view'[c] = Applied(inst[Instance(c)], e)
  BY <1>2, <1>3 DEF StoreInv, SessionTypes
<1>6. e.id = id /\ e.key = req[c].key
  BY DEF NewEvent
<1>7. IsNextEvent(c, e)
  BY <1>2, <1>3, <1>6 DEF IsNextEvent
<1>8. IsNextEvent(c, pend[c])'
  <2>1. Instance(c)' = Instance(c) /\ Run(c)' = Run(c) /\ inst' = inst /\ events' = events
    BY <1>2 DEF Instance, Run, ledgerVars
  <2>2. NewEvent(Instance(c), id, req[c].key, type, before, after)' = e
    BY <1>5, <2>1 DEF NewEvent, NextSequence, RunEvents
  <2>3. ~Delivered(Run(c), pend[c].id, pend[c].key)'
    BY <1>2, <1>5, <1>6, <2>1 DEF Delivered, RunEvents
  <2>4. Fits(inst[Instance(c)], pend[c])'
    BY <1>2, <1>3, <1>5, <2>1
  <2>5. QED
    BY <1>5, <2>2, <2>3, <2>4 DEF IsNextEvent
<1>9. QED
  BY <1>2, <1>3, <1>4, <1>5, <1>8, OwnStep DEF Instance, Run

LEMMA CommitPreserves ==
  ASSUME StoreInv, NEW c \in Clients, Commit(c), SessionTypes', BaseInv'
  PROVE  StoreInv'
<1>1. /\ pc[c] = "flushed" /\ events' = events \union {pend[c]}
      /\ inst' = [inst EXCEPT ![Instance(c)] = Written(inst[Instance(c)], view[c], pend[c])]
      /\ created' = created
      /\ Release(c)
  BY DEF Commit
<1>2. pend[c].inst = Instance(c)
  <2>1. IsNextEvent(c, pend[c])
    BY <1>1 DEF StoreInv, PendingIsNext
  <2>2. QED
    BY <2>1 DEF IsNextEvent, NewEvent
<1>3. pc'[c] = "idle"
  BY <1>1 DEF Release, StoreInv, SessionTypes
<1>4. ASSUME NEW d \in Clients, d # c
      PROVE  /\ pc'[d] = pc[d] /\ req'[d] = req[d] /\ view'[d] = view[d] /\ pend'[d] = pend[d]
             /\ Instance(d)' = Instance(d) /\ Run(d)' = Run(d)
             /\ \A i \in Instances : instLock[i] = d => instLock'[i] = d
             /\ \A r \in Runs : runLock[r] = d => runLock'[r] = d
  BY <1>1, <1>4 DEF Release, StoreInv, SessionTypes, Instance, Run
<1>5. ASSUME NEW d \in Clients, d # c, HoldsInstance(d)
      PROVE  inst'[Instance(d)] = inst[Instance(d)]
  <2>1. Instance(d) # Instance(c)
    BY <1>1, <1>5, LocksExclude DEF HoldsInstance, StoreInv
  <2>2. Instance(d) \in Instances
    BY <1>5 DEF HoldsInstance, StoreInv, LocksHeld, Request, Instance
  <2>3. QED
    BY <1>1, <2>1, <2>2 DEF StoreInv, BaseInv, LedgerTypeOK
<1>6. ASSUME NEW d \in Clients, d # c, HoldsRun(d)
      PROVE  RunEvents(Run(d))' = RunEvents(Run(d))
  <2>1. Run(d) # Run(c)
    BY <1>1, <1>6, LocksExclude DEF HoldsRun, StoreInv
  <2>2. RunOf[pend[c].inst] # Run(d)
    BY <1>2, <2>1 DEF Run
  <2>3. QED
    BY <1>1, <1>4, <1>6, <2>2 DEF RunEvents
<1>7. LocksHeld'
  <2>1. OthersUntouched(c)
    BY <1>4 DEF OthersUntouched
  <2>2. ~HoldsInstance(c)' /\ ~HoldsRun(c)'
    BY <1>3 DEF HoldsInstance, HoldsRun
  <2>3. QED
    BY <1>1, <1>3, <2>1, <2>2, OwnLocks DEF StoreInv
<1>8. ViewIsCurrent'
  <2> SUFFICES ASSUME NEW d \in Clients, pc'[d] \in {"instanceLocked", "runLocked"}
               PROVE  view'[d] = inst'[Instance(d)']
    BY DEF ViewIsCurrent
  <2>1. d # c
    BY <1>3
  <2>2. HoldsInstance(d) /\ pc[d] \in {"instanceLocked", "runLocked"}
    BY <1>4, <2>1 DEF HoldsInstance
  <2>3. QED
    BY <1>4, <1>5, <2>1, <2>2 DEF StoreInv, ViewIsCurrent
<1>9. PendingIsNext'
  <2> SUFFICES ASSUME NEW d \in Clients, pc'[d] = "flushed"
               PROVE  /\ IsNextEvent(d, pend[d])'
                      /\ view'[d] = Applied(inst'[Instance(d)'], pend'[d])
                      /\ inst'[Instance(d)'].version = req'[d].version
    BY DEF PendingIsNext
  <2>1. d # c
    BY <1>3
  <2>2. HoldsInstance(d) /\ HoldsRun(d) /\ pc[d] = "flushed"
    BY <1>4, <2>1 DEF HoldsInstance, HoldsRun
  <2>3. /\ IsNextEvent(d, pend[d])
        /\ view[d] = Applied(inst[Instance(d)], pend[d])
        /\ inst[Instance(d)].version = req[d].version
    BY <2>2 DEF StoreInv, PendingIsNext
  <2>4. IsNextEvent(d, pend[d])'
    BY <1>4, <1>5, <1>6, <2>1, <2>2, <2>3, NextEventUnmoved
  <2>5. QED
    BY <1>4, <1>5, <2>1, <2>2, <2>3, <2>4
<1>10. QED
  BY <1>7, <1>8, <1>9 DEF StoreInv

LEMMA CreatePreserves ==
  ASSUME StoreInv, UNCHANGED sessionVars, inst' = inst, events' = events,
         created \subseteq created', BaseInv', SessionTypes'
  PROVE  StoreInv'
<1>1. LocksHeld'
  BY DEF StoreInv, LocksHeld, HoldsInstance, HoldsRun, Instance, Run, sessionVars
<1>2. ViewIsCurrent'
  BY DEF StoreInv, ViewIsCurrent, Instance, sessionVars
<1>3. PendingIsNext'
  <2> SUFFICES ASSUME NEW d \in Clients, pc[d] = "flushed"
               PROVE  /\ IsNextEvent(d, pend[d])'
                      /\ view'[d] = Applied(inst'[Instance(d)'], pend'[d])
                      /\ inst'[Instance(d)'].version = req'[d].version
    BY DEF PendingIsNext, sessionVars
  <2>1. /\ IsNextEvent(d, pend[d])
        /\ view[d] = Applied(inst[Instance(d)], pend[d])
        /\ inst[Instance(d)].version = req[d].version
    BY DEF StoreInv, PendingIsNext
  <2>2. RunEvents(Run(d))' = RunEvents(Run(d)) /\ Instance(d)' = Instance(d)
    BY DEF RunEvents, Run, Instance, sessionVars
  <2>3. IsNextEvent(d, pend[d])'
    BY <2>1, <2>2, NextEventUnmoved DEF sessionVars
  <2>4. QED
    BY <2>1, <2>2, <2>3 DEF sessionVars
<1>4. QED
  BY <1>1, <1>2, <1>3 DEF StoreInv

LEMMA StoreInvNext ==
  ASSUME Preloaded = {}, StoreInv, [Next]_vars
  PROVE  StoreInv'
<1>1. BaseInv'
  BY StepImplementsLedger, BaseInvNext DEF StoreInv
<1>2. SessionTypes'
  BY SessionTypesNext
<1>3. ASSUME NEW c \in Clients, NEW q \in Request, OpenFresh(c, q) \/ OpenLoaded(c, q)
      PROVE  StoreInv'
  BY <1>2, <1>3, OpenPreserves
<1>4. ASSUME NEW c \in Clients, LockInstance(c) PROVE StoreInv'
  BY <1>2, <1>4, LockInstancePreserves
<1>5. ASSUME NEW c \in Clients, LockRun(c) PROVE StoreInv'
  BY <1>2, <1>5, LockRunPreserves
<1>6. ASSUME NEW c \in Clients, AppendSome(c) PROVE StoreInv'
  BY <1>2, <1>6, AppendPreserves
<1>7. ASSUME NEW c \in Clients, Commit(c) PROVE StoreInv'
  BY <1>1, <1>2, <1>7, CommitPreserves
<1>8. ASSUME NEW c \in Clients, Reject(c) \/ Rollback(c) PROVE StoreInv'
  BY <1>2, <1>8, ReleasePreserves DEF Reject, Rollback
<1>9. ASSUME NEW r \in Runs, CreateSandboxRun(r) PROVE StoreInv'
  BY <1>1, <1>2, <1>9, CreatePreserves DEF CreateSandboxRun, CreateRun
<1>10. ASSUME NEW i \in Instances, CreateWorkflowInstance(i) PROVE StoreInv'
  BY <1>1, <1>2, <1>10, CreatePreserves DEF CreateWorkflowInstance, CreateInstance
<1>11. CASE UNCHANGED vars
  BY <1>1, <1>2, <1>11, CreatePreserves DEF vars, ledgerVars
<1>12. QED
  BY <1>3, <1>4, <1>5, <1>6, <1>7, <1>8, <1>9, <1>10, <1>11 DEF Next, FreshNext

-----------------------------------------------------------------------------
(* The theorems. *)

LEMMA StoreInvariant ==
  ASSUME Preloaded = {}
  PROVE  Spec => []StoreInv
<1>1. Init => StoreInv
  BY StoreInvInit
<1>2. StoreInv /\ [Next]_vars => StoreInv'
  BY StoreInvNext
<1>3. QED
  BY <1>1, <1>2, PTL DEF Spec

\* The store with its locks, sessions, commits and rollbacks implements the
\* atomic ledger, whatever the number of clients, instances, runs and keys.
THEOREM StoreImplementsLedger ==
  ASSUME Preloaded = {}
  PROVE  Spec => LedgerSpec
<1>1. Init => LedgerInit
  BY DEF Init
<1>2. StoreInv /\ [Next]_vars => [LedgerNext]_ledgerVars
  BY StepImplementsLedger
<1>3. QED
  BY <1>1, <1>2, StoreInvariant, PTL DEF Spec, LedgerSpec

\* No transition is lost and none starts from a stale state, for sessions that
\* first see the instance under its row lock.
THEOREM StoreChains ==
  ASSUME Preloaded = {}
  PROVE  Spec => []StateChain /\ []VersionCountsTransitions /\ []TerminalIsFinal
BY StoreImplementsLedger, LedgerStateChain, LedgerVersions, LedgerTerminal, PTL

\* What is flushed is still right at commit.
THEOREM StoreFlushedIsCurrent ==
  ASSUME Preloaded = {}
  PROVE  Spec => []FlushedIsCurrent
<1>1. StoreInv => FlushedIsCurrent
  <2> SUFFICES ASSUME StoreInv, NEW c \in Clients, pc[c] = "flushed"
               PROVE  /\ inst[Instance(c)].version = req[c].version
                      /\ Fits(inst[Instance(c)], pend[c])
                      /\ pend[c].seq = NextSequence(Run(c))
    BY DEF FlushedIsCurrent
  <2>1. /\ IsNextEvent(c, pend[c])
        /\ inst[Instance(c)].version = req[c].version
    BY DEF StoreInv, PendingIsNext
  <2>2. pend[c].seq = NextSequence(Run(c))
    BY <2>1 DEF IsNextEvent, NewEvent, Run
  <2>3. QED
    BY <2>1, <2>2 DEF IsNextEvent
<1>2. QED
  BY <1>1, StoreInvariant, PTL
==============================================================================
