----------------------------- MODULE BackOfficeProofs -----------------------------
(***************************************************************************)
(* The parts of MCBackOffice that share no state, each for any values of   *)
(* its constants: the mails an inbox sweep may lose, the daily cycles, the *)
(* snapshot of the day, the two writes of a request, the pull requests;    *)
(* and that a behaviour of MCBackOffice is one of every part.              *)
(***************************************************************************)
EXTENDS MCBackOffice, CompanyOSProofs, FiniteSetTheorems

-----------------------------------------------------------------------------
(* The inbox sweep. A sweep holds at most FetchLimit mails, so a fault that  *)
(* makes a sweep forget what it holds loses at most as many.                 *)

\* The mails of S that came before m.
Before(S, m) == {n \in S : n < m}

\* The later of two mails has more before it.
LEMMA BeforeGrows ==
  ASSUME NEW S \in SUBSET Nat, IsFiniteSet(S), NEW m \in S, NEW n \in S, m < n
  PROVE  /\ Cardinality(Before(S, m)) \in Nat
         /\ Cardinality(Before(S, n)) \in Nat
         /\ Cardinality(Before(S, m)) < Cardinality(Before(S, n))
         /\ Cardinality(Before(S, n)) < Cardinality(S)
<1>1. /\ Before(S, m) \in SUBSET Before(S, n)
      /\ m \in Before(S, n) /\ m \notin Before(S, m)
      /\ Before(S, n) \in SUBSET S
      /\ n \notin Before(S, n)
  <2>1. \A k, l : k \in Before(S, l) <=> k \in S /\ k < l
    BY DEF Before
  <2>2. m \in Nat /\ n \in Nat /\ ~(n < n) /\ ~(m < m)
    OBVIOUS
  <2>3. ASSUME NEW k \in S, k < m PROVE k < n
    BY <2>2, <2>3
  <2> QED
    BY <2>1, <2>2, <2>3
<1>2. IsFiniteSet(Before(S, n)) /\ IsFiniteSet(Before(S, m))
  BY <1>1, FS_Subset
<1>3. /\ Cardinality(S) \in Nat
      /\ Cardinality(Before(S, n)) \in Nat
      /\ Cardinality(Before(S, m)) \in Nat
  BY <1>2, FS_CardinalityType
<1>4. /\ Cardinality(Before(S, m)) <= Cardinality(Before(S, n))
      /\ Cardinality(Before(S, m)) # Cardinality(Before(S, n))
  BY <1>1, <1>2, FS_Subset
<1>5. /\ Cardinality(Before(S, n)) <= Cardinality(S)
      /\ Cardinality(Before(S, n)) # Cardinality(S)
  BY <1>1, FS_Subset
<1> QED
  BY <1>3, <1>4, <1>5

\* So no two mails have as many before them, and at most n mails fewer than n.
LEMMA FewBefore ==
  ASSUME NEW S \in SUBSET Nat, IsFiniteSet(S), NEW a \in Nat, NEW b \in Nat,
         NEW T \in SUBSET S, \A m \in T : Cardinality(Before(S, m)) \in a .. b, a <= b + 1
  PROVE  IsFiniteSet(T) /\ Cardinality(T) \in Nat /\ Cardinality(T) <= b + 1 - a
<1> DEFINE count == [m \in T |-> Cardinality(Before(S, m))]
<1>1. \A m, n \in T : count[m] = count[n] => m = n
  <2> SUFFICES ASSUME NEW m \in T, NEW n \in T, m # n PROVE count[m] # count[n]
    OBVIOUS
  <2>1. m \in Nat /\ n \in Nat
    OBVIOUS
  <2>2. m < n \/ n < m
    BY <2>1
  <2> QED
    BY <2>2, BeforeGrows
<1>2. count \in Injection(T, a .. b)
  BY <1>1 DEF Injection, IsInjective
<1>3. IsFiniteSet(a .. b) /\ Cardinality(a .. b) = b + 1 - a
  BY FS_Interval
<1>4. IsFiniteSet(T) /\ Cardinality(T) <= b + 1 - a
  BY <1>2, <1>3, FS_Injection
<1> QED
  BY <1>4, FS_CardinalityType

\* Among some mails one is the oldest, and it is one of them.
LEMMA OldestIsOne ==
  ASSUME NEW S \in SUBSET Mails, S # {}
  PROVE  Oldest(S) \in S
<1>1. S \in SUBSET Nat /\ IsFiniteSet(S)
  BY SweepAssumption, FS_Subset
<1>2. Cardinality(S) \in Nat /\ Cardinality(S) # 0
  BY <1>1, FS_CardinalityType, FS_EmptySet
<1>3. \E m \in S : Before(S, m) = {}
  <2> SUFFICES ASSUME \A m \in S : Before(S, m) # {} PROVE FALSE
    OBVIOUS
  <2>1. ASSUME NEW m \in S PROVE Cardinality(Before(S, m)) \in 1 .. (Cardinality(S) - 1)
    <3>1. PICK n \in Before(S, m) : TRUE
      OBVIOUS
    <3>2. n \in S /\ n < m
      BY <3>1 DEF Before
    <3> QED
      BY <1>1, <1>2, <3>2, BeforeGrows
  <2>2. PICK b \in Nat : b = Cardinality(S) - 1
    BY <1>2
  <2>3. Cardinality(S) <= b + 1 - 1
    BY <1>1, <2>1, <2>2, FewBefore
  <2> QED
    BY <1>2, <2>2, <2>3
<1>4. \E m \in S : \A n \in S : m <= n
  BY <1>1, <1>3 DEF Before
<1> QED
  BY <1>4 DEF Oldest

\* A sweep fetches no more than its limit.
LEMMA FirstOfIsBounded ==
  ASSUME NEW S \in SUBSET Mails
  PROVE  /\ FirstOf(S) \subseteq S
         /\ IsFiniteSet(FirstOf(S))
         /\ Cardinality(FirstOf(S)) \in Nat
         /\ Cardinality(FirstOf(S)) <= FetchLimit
<1>1. S \in SUBSET Nat /\ IsFiniteSet(S)
  BY SweepAssumption, FS_Subset
<1>2. FirstOf(S) \subseteq S /\ \A m \in FirstOf(S) : Cardinality(Before(S, m)) < FetchLimit
  BY DEF FirstOf, Before
<1>3. \A m \in S : Cardinality(Before(S, m)) \in Nat
  <2> SUFFICES ASSUME NEW m \in S PROVE Cardinality(Before(S, m)) \in Nat
    OBVIOUS
  <2>1. Before(S, m) \in SUBSET S
    BY DEF Before
  <2> QED
    BY <1>1, <2>1, FS_Subset, FS_CardinalityType
<1>4. PICK b \in Nat : b + 1 = FetchLimit
  BY SweepAssumption
<1>5. \A m \in FirstOf(S) : Cardinality(Before(S, m)) \in 0 .. b
  BY <1>2, <1>3, <1>4
<1>6. IsFiniteSet(FirstOf(S)) /\ Cardinality(FirstOf(S)) \in Nat /\ Cardinality(FirstOf(S)) <= b + 1 - 0
  BY <1>1, <1>2, <1>5, FewBefore
<1> QED
  BY <1>2, <1>4, <1>6

\* What a sweep holds.
Holds(v) == sweep[v].found \union sweep[v].fetched

\* A sweep holds no more than one fetch, and nothing when it is idle; it has
\* something to make tasks of while it makes them.
SweepHoldsFew ==
  \A v \in Sweeps :
    /\ Cardinality(Holds(v)) <= FetchLimit
    /\ sweep[v].phase = "idle" => sweep[v] = NoSweep
    /\ sweep[v].phase \in {"creating", "committed"} => sweep[v].found = {} /\ sweep[v].fetched # {}

SweepInv == SweepTypeOK /\ SweepHoldsFew /\ LostByFaults

\* The sets of mails that the machine counts are finite.
LEMMA MailsAreCountable ==
  ASSUME NEW S \in SUBSET Mails
  PROVE  IsFiniteSet(S) /\ Cardinality(S) \in Nat
BY SweepAssumption, FS_Subset, FS_CardinalityType

\* Fewer mails are not more.
LEMMA FewerMails ==
  ASSUME NEW S \in SUBSET Mails, NEW T \in SUBSET S
  PROVE  Cardinality(T) <= Cardinality(S)
BY MailsAreCountable, FS_Subset

\* What a fault adds to the mails that are lost.
LEMMA LostMore ==
  ASSUME NEW S \in SUBSET Mails, NEW H \in SUBSET Mails, NEW T \in SUBSET (S \union H), NEW f \in Nat,
         Cardinality(S) <= FetchLimit * f, Cardinality(H) <= FetchLimit
  PROVE  Cardinality(T) <= FetchLimit * (f + 1)
<1>1. Cardinality(T) <= Cardinality(S \union H)
  BY FewerMails
<1>2. Cardinality(S \union H) <= Cardinality(S) + Cardinality(H)
  <2>1. IsFiniteSet(S) /\ IsFiniteSet(H) /\ Cardinality(S) \in Nat /\ Cardinality(H) \in Nat
        /\ Cardinality(S \intersect H) \in Nat
    BY MailsAreCountable
  <2>2. Cardinality(S \union H) = Cardinality(S) + Cardinality(H) - Cardinality(S \intersect H)
    BY <2>1, FS_Union
  <2> QED
    BY <2>1, <2>2
<1>3. /\ Cardinality(T) \in Nat /\ Cardinality(S) \in Nat /\ Cardinality(H) \in Nat
      /\ Cardinality(S \union H) \in Nat
  BY MailsAreCountable
<1>4. FetchLimit \in Nat
  BY SweepAssumption
<1>5. FetchLimit * (f + 1) = FetchLimit * f + FetchLimit /\ FetchLimit * f \in Nat
  BY <1>4
<1> QED
  BY <1>1, <1>2, <1>3, <1>4, <1>5

\* Nothing is lost when a sweep keeps what it holds.
LEMMA NothingLost ==
  ASSUME SweepInv, SweepTypeOK', Lost' \subseteq Lost, sweepFaults' = sweepFaults
  PROVE  LostByFaults'
<1>1. Lost \in SUBSET Mails /\ Lost' \in SUBSET Lost
  BY DEF Lost
<1>2. PICK f \in Nat : f = sweepFaults
  BY SweepAssumption DEF SweepInv, SweepTypeOK
<1>3. PICK S \in SUBSET Mails : S = Lost
  BY <1>1
<1>4. PICK T \in SUBSET S : T = Lost'
  BY <1>1, <1>3
<1>5. /\ Cardinality(T) <= Cardinality(S) /\ Cardinality(S) \in Nat /\ Cardinality(T) \in Nat
      /\ Cardinality(S) <= FetchLimit * f
  BY <1>2, <1>3, MailsAreCountable, FewerMails DEF SweepInv, LostByFaults
<1>6. FetchLimit * f \in Nat
  BY SweepAssumption
<1>7. Cardinality(T) <= FetchLimit * f
  BY <1>5, <1>6
<1> QED
  BY <1>2, <1>4, <1>7 DEF LostByFaults

\* A fault loses what one sweep held.
LEMMA FaultLoses ==
  ASSUME SweepInv, SweepTypeOK', NEW v \in Sweeps, Lost' \subseteq Lost \union Holds(v),
         sweepFaults' = sweepFaults + 1
  PROVE  LostByFaults'
<1>1. Lost \in SUBSET Mails /\ Holds(v) \in SUBSET Mails /\ Lost' \in SUBSET (Lost \union Holds(v))
  BY DEF Lost, Holds, SweepInv, SweepTypeOK, Sweep
<1>2. PICK f \in Nat : f = sweepFaults
  BY SweepAssumption DEF SweepInv, SweepTypeOK
<1>3. PICK S \in SUBSET Mails, H \in SUBSET Mails : S = Lost /\ H = Holds(v)
  BY <1>1
<1>4. PICK T \in SUBSET (S \union H) : T = Lost'
  BY <1>1, <1>3
<1>5. Cardinality(S) <= FetchLimit * f /\ Cardinality(H) <= FetchLimit
  BY <1>2, <1>3 DEF SweepInv, LostByFaults, SweepHoldsFew
<1>6. Cardinality(T) <= FetchLimit * (f + 1)
  BY <1>5, LostMore
<1> QED
  BY <1>2, <1>4, <1>6 DEF LostByFaults

\* A sweep's step moves that sweep and no other.
LEMMA OneSweepMoves ==
  ASSUME SweepTypeOK, NEW v \in Sweeps, NEW s, sweep' = [sweep EXCEPT ![v] = s]
  PROVE  sweep'[v] = s /\ \A w \in Sweeps : w # v => sweep'[w] = sweep[w]
BY DEF SweepTypeOK

\* A sweep that holds no more than another did holds few enough.
LEMMA HoldsNoMore ==
  ASSUME SweepInv, NEW v \in Sweeps, NEW s \in Sweep, sweep' = [sweep EXCEPT ![v] = s],
         s.found \union s.fetched \subseteq Holds(v),
         s.phase = "idle" => s = NoSweep,
         s.phase \in {"creating", "committed"} => s.found = {} /\ s.fetched # {}
  PROVE  SweepHoldsFew'
<1>1. s.found \union s.fetched \in SUBSET Mails /\ Holds(v) \in SUBSET Mails
  BY DEF Holds, SweepInv, SweepTypeOK, Sweep
<1>2. PICK H \in SUBSET Mails : H = Holds(v)
  BY <1>1
<1>3. PICK T \in SUBSET H : T = s.found \union s.fetched
  BY <1>2
<1>4. Cardinality(T) <= Cardinality(H) /\ Cardinality(T) \in Nat /\ Cardinality(H) \in Nat
      /\ Cardinality(H) <= FetchLimit
  BY <1>2, MailsAreCountable, FewerMails DEF SweepInv, SweepHoldsFew
<1>5. Cardinality(s.found \union s.fetched) <= FetchLimit
  BY <1>3, <1>4, SweepAssumption
<1>6. sweep'[v] = s /\ \A w \in Sweeps : w # v => sweep'[w] = sweep[w]
  BY OneSweepMoves DEF SweepInv
<1>7. \A w \in Sweeps : w # v =>
        /\ Cardinality(sweep'[w].found \union sweep'[w].fetched) <= FetchLimit
        /\ sweep'[w].phase = "idle" => sweep'[w] = NoSweep
        /\ sweep'[w].phase \in {"creating", "committed"} => sweep'[w].found = {} /\ sweep'[w].fetched # {}
  BY <1>6 DEF SweepInv, SweepHoldsFew, Holds
<1> QED
  BY <1>5, <1>6, <1>7 DEF SweepHoldsFew, Holds

\* Each action keeps what is known of the sweeps.
LEMMA SweepInvKept == SweepInv /\ [SweepNext]_sweepVars => SweepInv'
<1> SUFFICES ASSUME SweepInv, [SweepNext]_sweepVars PROVE SweepInv'
  OBVIOUS
<1> USE SweepAssumption
<1> SweepTypeOK /\ SweepHoldsFew
  BY DEF SweepInv
<1>1. ASSUME NEW m \in Mails, Arrive(m) PROVE SweepInv'
  <2>1. mailbox[m] = "none" /\ mailbox' = [mailbox EXCEPT ![m] = "unseen"]
        /\ UNCHANGED <<sweep, rows, enqueued, sweepFaults>>
    BY <1>1 DEF Arrive
  <2>2. SweepTypeOK'
    BY <2>1 DEF SweepTypeOK
  <2>3. Lost' \subseteq Lost
    BY <2>1 DEF SweepTypeOK, Lost
  <2>4. SweepHoldsFew'
    BY <2>1 DEF SweepHoldsFew, Holds
  <2> QED
    BY <2>1, <2>2, <2>3, <2>4, NothingLost DEF SweepInv
<1>2. ASSUME NEW v \in Sweeps, StartSweep(v) PROVE SweepInv'
  <2>1. PICK F \in SUBSET Mails : F = FirstOf(Unseen)
    BY DEF FirstOf, Unseen
  <2>2. Cardinality(F) <= FetchLimit
    <3>1. Unseen \in SUBSET Mails
      BY DEF Unseen
    <3>2. PICK S \in SUBSET Mails : S = Unseen
      BY <3>1
    <3> QED
      BY <2>1, <3>2, FirstOfIsBounded
  <2>3. PICK s \in Sweep : s = [NoSweep EXCEPT !.phase = "fetching", !.found = F]
    BY DEF NoSweep, Sweep
  <2>4. /\ sweep[v] = NoSweep /\ sweep' = [sweep EXCEPT ![v] = s]
        /\ UNCHANGED <<mailbox, rows, enqueued, sweepFaults>>
    BY <1>2, <2>1, <2>3 DEF StartSweep
  <2>5. s.phase = "fetching" /\ s.found = F /\ s.fetched = {}
    BY <2>3 DEF NoSweep
  <2>6. sweep'[v] = s /\ \A w \in Sweeps : w # v => sweep'[w] = sweep[w]
    BY <2>4, OneSweepMoves
  <2>7. SweepTypeOK'
    BY <2>4 DEF SweepTypeOK
  <2>8. SweepHoldsFew'
    <3>1. s.found \union s.fetched = F
      BY <2>5
    <3> QED
      BY <2>2, <2>5, <2>6, <3>1 DEF SweepHoldsFew, Holds
  <2>9. Lost' \subseteq Lost
    BY <2>4, <2>6 DEF Lost, NoSweep
  <2> QED
    BY <2>4, <2>7, <2>8, <2>9, NothingLost DEF SweepInv
<1>3. ASSUME NEW v \in Sweeps, Fetch(v) \/ SkipMail(v) \/ DecodeRaises(v) PROVE SweepInv'
  <2>1. /\ sweep[v].phase = "fetching" /\ sweep[v].found # {}
        /\ sweep[v] \in Sweep /\ sweep[v].found \in SUBSET Mails /\ sweep[v].fetched \in SUBSET Mails
    BY <1>3 DEF Fetch, SkipMail, DecodeRaises, SweepTypeOK, Sweep
  <2>2. PICK m \in Mails : m = Oldest(sweep[v].found) /\ m \in sweep[v].found
    <3>1. PICK F \in SUBSET Mails : F = sweep[v].found
      BY <2>1
    <3> QED
      BY <2>1, <3>1, OldestIsOne
  <2>3. CASE Fetch(v)
    <3>1. PICK s \in Sweep : s = [sweep[v] EXCEPT !.found = @ \ {m}, !.fetched = @ \union {m}]
      BY <2>1, <2>2 DEF Sweep
    <3>2. s.phase = "fetching" /\ s.found = sweep[v].found \ {m} /\ s.fetched = sweep[v].fetched \union {m}
      BY <2>1, <3>1 DEF Sweep
    <3>3. /\ sweep' = [sweep EXCEPT ![v] = s]
          /\ mailbox' = [mailbox EXCEPT ![m] = "seen"] /\ UNCHANGED <<rows, enqueued, sweepFaults>>
      BY <2>2, <2>3, <3>1 DEF Fetch, SweepTypeOK
    <3>4. sweep'[v] = s /\ \A w \in Sweeps : w # v => sweep'[w] = sweep[w]
      BY <3>3, OneSweepMoves
    <3>5. SweepTypeOK'
      BY <3>3 DEF SweepTypeOK
    <3>6. s.found \union s.fetched = Holds(v)
      BY <2>2, <3>2 DEF Holds
    <3>7. SweepHoldsFew'
      BY <3>2, <3>3, <3>6, HoldsNoMore
    <3>8. Lost' \subseteq Lost
      <4> SUFFICES ASSUME NEW n \in Lost' PROVE n \in Lost
        OBVIOUS
      <4>1. n \in Mails /\ mailbox'[n] = "seen" /\ enqueued[n] = 0
            /\ \A w \in Sweeps : n \notin sweep'[w].found \union sweep'[w].fetched
        BY <3>3 DEF Lost
      <4>2. n \notin s.found \union s.fetched
        BY <3>4, <4>1
      <4>3. \A w \in Sweeps : n \notin sweep[w].found \union sweep[w].fetched
        BY <3>4, <3>6, <4>1, <4>2 DEF Holds
      <4>4. n # m
        BY <2>2, <4>3
      <4>5. mailbox[n] = "seen"
        BY <3>3, <4>1, <4>4 DEF SweepTypeOK
      <4> QED
        BY <4>1, <4>3, <4>5 DEF Lost
    <3> QED
      BY <3>3, <3>5, <3>7, <3>8, NothingLost DEF SweepInv
  <2>4. CASE SkipMail(v)
    <3>1. PICK s \in Sweep : s = [sweep[v] EXCEPT !.found = @ \ {m}]
      BY <2>1, <2>2 DEF Sweep
    <3>2. s.phase = "fetching" /\ s.found = sweep[v].found \ {m} /\ s.fetched = sweep[v].fetched
      BY <2>1, <3>1 DEF Sweep
    <3>3. /\ sweep' = [sweep EXCEPT ![v] = s]
          /\ sweepFaults' = sweepFaults + 1 /\ sweepFaults < MaxSweepFaults
          /\ UNCHANGED <<mailbox, rows, enqueued>>
      BY <2>2, <2>4, <3>1 DEF SkipMail, Fault, SweepTypeOK
    <3>4. sweep'[v] = s /\ \A w \in Sweeps : w # v => sweep'[w] = sweep[w]
      BY <3>3, OneSweepMoves
    <3>5. SweepTypeOK'
      BY <3>3 DEF SweepTypeOK
    <3>6. s.found \union s.fetched \subseteq Holds(v)
      BY <3>2 DEF Holds
    <3>7. SweepHoldsFew'
      BY <3>2, <3>3, <3>6, HoldsNoMore
    <3>8. Lost' \subseteq Lost \union Holds(v)
      BY <3>3, <3>4 DEF Lost, Holds
    <3> QED
      BY <3>3, <3>5, <3>7, <3>8, FaultLoses DEF SweepInv
  <2>5. CASE DecodeRaises(v)
    <3>1. PICK s \in Sweep : s = NoSweep
      BY DEF NoSweep, Sweep
    <3>2. s.phase = "idle" /\ s.found = {} /\ s.fetched = {}
      BY <3>1 DEF NoSweep
    <3>3. /\ sweep' = [sweep EXCEPT ![v] = s]
          /\ sweepFaults' = sweepFaults + 1 /\ sweepFaults < MaxSweepFaults
          /\ mailbox' = [mailbox EXCEPT ![m] = "seen"] /\ UNCHANGED <<rows, enqueued>>
      BY <2>2, <2>5, <3>1 DEF DecodeRaises, Fault
    <3>4. sweep'[v] = s /\ \A w \in Sweeps : w # v => sweep'[w] = sweep[w]
      BY <3>3, OneSweepMoves
    <3>5. SweepTypeOK'
      BY <3>3 DEF SweepTypeOK
    <3>6. s.found \union s.fetched \subseteq Holds(v)
      BY <3>2
    <3>7. SweepHoldsFew'
      BY <3>1, <3>2, <3>3, <3>6, HoldsNoMore
    <3>8. Lost' \subseteq Lost \union Holds(v)
      <4> SUFFICES ASSUME NEW n \in Lost', n \notin Holds(v) PROVE n \in Lost
        OBVIOUS
      <4>1. n \in Mails /\ mailbox'[n] = "seen" /\ enqueued[n] = 0
            /\ \A w \in Sweeps : n \notin sweep'[w].found \union sweep'[w].fetched
        BY <3>3 DEF Lost
      <4>2. n # m
        BY <2>2 DEF Holds
      <4>3. mailbox[n] = "seen"
        BY <3>3, <4>1, <4>2 DEF SweepTypeOK
      <4> QED
        BY <3>4, <4>1, <4>3 DEF Lost, Holds
    <3> QED
      BY <3>3, <3>5, <3>7, <3>8, FaultLoses DEF SweepInv
  <2> QED
    BY <1>3, <2>3, <2>4, <2>5
<1>4. ASSUME NEW v \in Sweeps, EndFetch(v) \/ CommitRow(v) \/ EnqueueTask(v) PROVE SweepInv'
  <2>1. sweep[v] \in Sweep /\ sweep[v].found \in SUBSET Mails /\ sweep[v].fetched \in SUBSET Mails
        /\ sweep[v].found = {} /\ UNCHANGED <<mailbox, sweepFaults>>
    BY <1>4 DEF EndFetch, CommitRow, EnqueueTask, SweepTypeOK, Sweep, SweepHoldsFew
  <2>2. CASE EndFetch(v)
    <3>1. PICK s \in Sweep :
            s = IF sweep[v].fetched = {} THEN NoSweep ELSE [sweep[v] EXCEPT !.phase = "creating"]
      BY <2>1 DEF NoSweep, Sweep
    <3>2. /\ s.found = {} /\ s.fetched = sweep[v].fetched
          /\ s.phase = "idle" => s = NoSweep
          /\ s.phase \in {"creating", "committed"} => s.fetched # {}
      BY <2>1, <3>1 DEF NoSweep, Sweep
    <3>3. sweep' = [sweep EXCEPT ![v] = s] /\ UNCHANGED <<mailbox, rows, enqueued, sweepFaults>>
      BY <2>2, <3>1 DEF EndFetch, SweepTypeOK
    <3>4. sweep'[v] = s /\ \A w \in Sweeps : w # v => sweep'[w] = sweep[w]
      BY <3>3, OneSweepMoves
    <3>5. SweepTypeOK'
      BY <3>3 DEF SweepTypeOK
    <3>6. SweepHoldsFew'
      BY <2>1, <3>2, <3>3, HoldsNoMore DEF Holds
    <3>7. Lost' \subseteq Lost
      BY <2>1, <3>2, <3>3, <3>4 DEF Lost
    <3> QED
      BY <3>3, <3>5, <3>6, <3>7, NothingLost DEF SweepInv
  <2>3. ASSUME CommitRow(v) \/ EnqueueTask(v)
        PROVE \E m \in sweep[v].fetched : m = Oldest(sweep[v].fetched) /\ m \in Mails
    <3>1. PICK F \in SUBSET Mails : F = sweep[v].fetched
      BY <2>1
    <3>2. F # {}
      BY <2>3, <3>1 DEF CommitRow, EnqueueTask, SweepHoldsFew
    <3> QED
      BY <3>1, <3>2, OldestIsOne
  <2>4. CASE CommitRow(v)
    <3>1. PICK m \in sweep[v].fetched : m = Oldest(sweep[v].fetched) /\ m \in Mails
      BY <2>3, <2>4
    <3>2. PICK s \in Sweep : s = [sweep[v] EXCEPT !.phase = "committed"]
      BY <2>1 DEF Sweep
    <3>3. s.found = {} /\ s.fetched = sweep[v].fetched /\ s.phase = "committed" /\ s.fetched # {}
      BY <2>1, <3>1, <3>2 DEF Sweep
    <3>4. /\ sweep' = [sweep EXCEPT ![v] = s] /\ rows' = [rows EXCEPT ![m] = @ + 1]
          /\ UNCHANGED <<mailbox, enqueued, sweepFaults>>
      BY <2>4, <3>1, <3>2 DEF CommitRow, SweepTypeOK
    <3>5. sweep'[v] = s /\ \A w \in Sweeps : w # v => sweep'[w] = sweep[w]
      BY <3>4, OneSweepMoves
    <3>6. SweepTypeOK'
      BY <3>1, <3>4 DEF SweepTypeOK
    <3>7. SweepHoldsFew'
      BY <2>1, <3>3, <3>4, HoldsNoMore DEF Holds
    <3>8. Lost' \subseteq Lost
      BY <2>1, <3>3, <3>4, <3>5 DEF Lost
    <3> QED
      BY <3>4, <3>6, <3>7, <3>8, NothingLost DEF SweepInv
  <2>5. CASE EnqueueTask(v)
    <3>1. PICK m \in sweep[v].fetched : m = Oldest(sweep[v].fetched) /\ m \in Mails
      BY <2>3, <2>5
    <3>2. PICK rest \in SUBSET Mails : rest = sweep[v].fetched \ {m}
      BY <2>1
    <3>3. PICK s \in Sweep :
            s = IF rest = {} THEN NoSweep ELSE [NoSweep EXCEPT !.phase = "creating", !.fetched = rest]
      <4>1. NoSweep \in Sweep /\ [NoSweep EXCEPT !.phase = "creating", !.fetched = rest] \in Sweep
        BY DEF NoSweep, Sweep
      <4> QED
        BY <4>1
    <3>4. /\ s.found = {} /\ s.fetched = rest
          /\ s.phase = "idle" => s = NoSweep
          /\ s.phase \in {"creating", "committed"} => s.fetched # {}
      BY <3>3 DEF NoSweep
    <3>5. /\ sweep' = [sweep EXCEPT ![v] = s] /\ enqueued' = [enqueued EXCEPT ![m] = @ + 1]
          /\ UNCHANGED <<mailbox, rows, sweepFaults>>
      BY <2>5, <3>1, <3>2, <3>3 DEF EnqueueTask
    <3>6. sweep'[v] = s /\ \A w \in Sweeps : w # v => sweep'[w] = sweep[w]
      BY <3>5, OneSweepMoves
    <3>7. SweepTypeOK'
      BY <3>1, <3>5 DEF SweepTypeOK
    <3>8. SweepHoldsFew'
      BY <2>1, <3>2, <3>4, <3>5, HoldsNoMore DEF Holds
    <3>9. Lost' \subseteq Lost
      <4> SUFFICES ASSUME NEW n \in Lost' PROVE n \in Lost
        OBVIOUS
      <4>1. n \in Mails /\ mailbox[n] = "seen" /\ enqueued'[n] = 0
            /\ \A w \in Sweeps : n \notin sweep'[w].found \union sweep'[w].fetched
        BY <3>5 DEF Lost
      <4>2. n # m /\ enqueued[n] = 0
        BY <3>1, <3>5, <4>1 DEF SweepTypeOK
      <4>3. n \notin sweep[v].found \union sweep[v].fetched
        BY <2>1, <3>2, <3>4, <3>6, <4>1, <4>2
      <4> QED
        BY <3>6, <4>1, <4>2, <4>3 DEF Lost
    <3> QED
      BY <3>5, <3>7, <3>8, <3>9, NothingLost DEF SweepInv
  <2> QED
    BY <1>4, <2>2, <2>4, <2>5
<1>5. ASSUME NEW v \in Sweeps, SweepDies(v) PROVE SweepInv'
  <2>1. PICK s \in Sweep : s = NoSweep
    BY DEF NoSweep, Sweep
  <2>2. s.phase = "idle" /\ s.found = {} /\ s.fetched = {}
    BY <2>1 DEF NoSweep
  <2>3. /\ sweep' = [sweep EXCEPT ![v] = s]
        /\ sweepFaults' = sweepFaults + 1 /\ sweepFaults < MaxSweepFaults
        /\ UNCHANGED <<mailbox, rows, enqueued>>
    BY <1>5, <2>1 DEF SweepDies, Fault
  <2>4. sweep'[v] = s /\ \A w \in Sweeps : w # v => sweep'[w] = sweep[w]
    BY <2>3, OneSweepMoves
  <2>5. SweepTypeOK'
    BY <2>3 DEF SweepTypeOK
  <2>6. SweepHoldsFew'
    BY <2>1, <2>2, <2>3, HoldsNoMore
  <2>7. Lost' \subseteq Lost \union Holds(v)
    BY <2>3, <2>4 DEF Lost, Holds
  <2> QED
    BY <2>3, <2>5, <2>6, <2>7, FaultLoses DEF SweepInv
<1>6. CASE UNCHANGED sweepVars
  <2>1. UNCHANGED <<mailbox, sweep, rows, enqueued, sweepFaults>>
    BY <1>6 DEF sweepVars
  <2>2. SweepTypeOK' /\ SweepHoldsFew' /\ Lost' \subseteq Lost
    BY <2>1 DEF SweepTypeOK, SweepHoldsFew, Holds, Lost
  <2> QED
    BY <2>1, <2>2, NothingLost DEF SweepInv
<1> QED
  BY <1>1, <1>2, <1>3, <1>4, <1>5, <1>6 DEF SweepNext, SweepStep

\* No mail is seen at first.
LEMMA InitSweep == SweepInit => SweepInv
<1> SUFFICES ASSUME SweepInit PROVE SweepInv
  OBVIOUS
<1>1. SweepTypeOK
  BY SweepAssumption DEF SweepInit, SweepTypeOK, Sweep, NoSweep
<1>2. Lost = {} /\ \A v \in Sweeps : Holds(v) = {} /\ sweep[v] = NoSweep
  BY DEF SweepInit, Lost, Holds, NoSweep
<1>3. Cardinality({}) = 0
  BY FS_EmptySet
<1>4. LostByFaults
  BY <1>2, <1>3, SweepAssumption DEF LostByFaults, SweepInit
<1>5. SweepHoldsFew
  BY <1>2, <1>3, SweepAssumption DEF SweepHoldsFew, NoSweep
<1> QED
  BY <1>1, <1>4, <1>5 DEF SweepInv

\* Every behaviour of the sweeps keeps the invariant.
THEOREM SweepInvHolds == SweepSpec => []SweepInv
BY InitSweep, SweepInvKept, PTL DEF SweepSpec

\* A mail that is seen is with a sweep or has its message, except for the mails of
\* one fetch for each fault: of any number of mails, sweeps and faults.
THEOREM SweepLosesByFaults == SweepSpec => []LostByFaults
<1>1. SweepInv => LostByFaults
  BY DEF SweepInv
<1> QED
  BY <1>1, SweepInvHolds, PTL

-----------------------------------------------------------------------------
(* The daily cycles. *)

\* What an evening's transaction wants is a report, and a row it found is there.
ReportInv ==
  /\ Report!RowTypeOK
  /\ \A w \in Deliveries : evening[w].phase \in {"computed", "loaded", "flushed"} => evening[w].wanted \in ReportValues
  /\ \A w \in Deliveries : evening[w].found # NoReport => report \in [{"completed", "failed", "summary"} -> Report!Entries]

\* Each step of a transaction keeps the types of the day's report: a statement sets
\* what its transaction wants, over a row that is there if it found one.
LEMMA ReportInvKept ==
  ASSUME ReportInv, NEW w \in Deliveries,
         (\E v \in ReportValues : Report!Compute(w, v)) \/ Report!Upserting(w) \/ Report!FailUpsert(w)
  PROVE  ReportInv'
<1> DEFINE Upserts == [phase : Report!Phases, wanted : ReportValues \union {NoReport}, found : Report!Rows]
<1>1. evening \in [Deliveries -> Upserts] /\ report \in Report!Rows /\ evening[w] \in Upserts
  BY DEF ReportInv, Report!RowTypeOK
<1>2. CASE \E v \in ReportValues : Report!Compute(w, v)
  <2>1. PICK v \in ReportValues :
          /\ evening' = [evening EXCEPT ![w].phase = "computed", ![w].wanted = v] /\ report' = report
    BY <1>2 DEF Report!Compute
  <2>2. evening' \in [Deliveries -> Upserts]
    BY <1>1, <2>1 DEF Report!Phases
  <2> QED
    BY <1>1, <2>1, <2>2 DEF ReportInv, Report!RowTypeOK
<1>3. CASE Report!Load(w)
  <2>1. evening' = [evening EXCEPT ![w].phase = "loaded", ![w].found = report] /\ report' = report
        /\ evening[w].phase = "computed"
    BY <1>3 DEF Report!Load
  <2>2. evening' \in [Deliveries -> Upserts]
    BY <1>1, <2>1 DEF Report!Phases
  <2> QED
    BY <1>1, <2>1, <2>2 DEF ReportInv, Report!RowTypeOK, Report!Rows
<1>4. CASE Report!Flush(w) \/ Report!Refuse(w) \/ Report!FailUpsert(w)
  <2>1. PICK p \in {"flushed", "refused", "failed"} :
          /\ evening' = [evening EXCEPT ![w].phase = p] /\ report' = report
          /\ p = "flushed" => evening[w].phase = "loaded"
    BY <1>4 DEF Report!Flush, Report!Refuse, Report!FailUpsert
  <2>2. evening' \in [Deliveries -> Upserts]
    BY <1>1, <2>1 DEF Report!Phases
  <2> QED
    BY <1>1, <2>1, <2>2 DEF ReportInv, Report!RowTypeOK
<1>5. CASE Report!CommitUpsert(w)
  <2>1. /\ evening' = [evening EXCEPT ![w].phase = "done"] /\ evening[w].phase = "flushed"
        /\ report' = [c \in {"completed", "failed", "summary"} |->
                        IF c \in Report!Changed(w) THEN evening[w].wanted[c] ELSE report[c]]
    BY <1>5 DEF Report!CommitUpsert
  <2>2. evening' \in [Deliveries -> Upserts]
    BY <1>1, <2>1 DEF Report!Phases
  <2>3. evening[w].wanted \in ReportValues
    BY <2>1 DEF ReportInv
  <2>4. \A c \in {"completed", "failed", "summary"} : evening[w].wanted[c] \in Report!Entries
    BY <2>3 DEF Report!Entries
  <2>5. \A c \in {"completed", "failed", "summary"} : c \notin Report!Changed(w) => report[c] \in Report!Entries
    <3>1. CASE evening[w].found = NoReport
      BY <3>1 DEF Report!Changed
    <3>2. CASE evening[w].found # NoReport
      BY <3>2 DEF ReportInv
    <3> QED
      BY <3>1, <3>2
  <2>6. report' \in [{"completed", "failed", "summary"} -> Report!Entries]
    BY <2>1, <2>4, <2>5
  <2> QED
    BY <1>1, <2>1, <2>2, <2>6 DEF ReportInv, Report!RowTypeOK, Report!Rows
<1> QED
  BY <1>2, <1>3, <1>4, <1>5 DEF Report!Upserting


\* There are two always-run agents.
LEMMA AlwaysRunTyped == Len(AlwaysRun) = 2 /\ \A n \in 1 .. 2 : AlwaysRun[n] \in Kinds
BY DEF AlwaysRun, Kinds

\* The phases in which a morning still has an always-run agent to come.
Early == {"waiting", "starting", "planning", "planned", "creating", "enqueuing"}
MorningPhases == Running \union {"waiting", "done", "raised", "lost"}
Mornings == [phase : MorningPhases, next : 1 .. 3]

\* A message is ready once, and once more for each fault that gave it back.
CycleInv ==
  /\ ready \in [{"morning", "evening"} -> Nat]
  /\ \A c \in {"morning", "evening"} : ready[c] <= cycleFaults + 1
  /\ cycleFaults \in 0 .. MaxCycleFaults
  /\ morning \in [Deliveries -> Mornings]
  /\ \A d \in Deliveries : morning[d].phase \in Early => morning[d].next \in 1 .. 2
  /\ made \in [Kinds -> Nat] /\ sent \in [Kinds -> Nat]
  /\ outcome \in [Deliveries -> {"open", "ended", "raised", "lost"}]
  /\ ReportInv

\* What a step of a morning does to its delivery.
LEMMA MorningTyped ==
  ASSUME CycleInv, NEW d \in Deliveries, NEW from \in MorningPhases, NEW to \in MorningPhases,
         to \in Early => from \in Early, Moves(d, from, to)
  PROVE  /\ morning' \in [Deliveries -> Mornings]
         /\ \A e \in Deliveries : morning'[e].phase \in Early => morning'[e].next \in 1 .. 2
         /\ morning[d].phase = from
<1>1. morning[d].phase = from /\ morning' = [morning EXCEPT ![d].phase = to]
  BY DEF Moves
<1>2. morning' \in [Deliveries -> Mornings]
  BY <1>1 DEF CycleInv, Mornings
<1>3. /\ morning'[d].phase = to /\ morning'[d].next = morning[d].next
      /\ \A e \in Deliveries : e # d => morning'[e] = morning[e]
  BY <1>1 DEF CycleInv, Mornings
<1> QED
  BY <1>1, <1>2, <1>3 DEF CycleInv

\* A message that is taken, or given back by a fault.
LEMMA ReadyTyped ==
  ASSUME CycleInv, NEW c \in {"morning", "evening"},
         \/ Taken(c) /\ cycleFaults' = cycleFaults
         \/ GiveBack(c) /\ CycleFault
  PROVE  /\ ready' \in [{"morning", "evening"} -> Nat]
         /\ \A e \in {"morning", "evening"} : ready'[e] <= cycleFaults' + 1
         /\ cycleFaults' \in 0 .. MaxCycleFaults
<1> USE CycleAssumption
<1>1. /\ ready \in [{"morning", "evening"} -> Nat] /\ cycleFaults \in 0 .. MaxCycleFaults
      /\ \A e \in {"morning", "evening"} : ready[e] <= cycleFaults + 1
  BY DEF CycleInv
<1>2. CASE Taken(c) /\ cycleFaults' = cycleFaults
  BY <1>1, <1>2 DEF Taken
<1>3. CASE GiveBack(c) /\ CycleFault
  BY <1>1, <1>3 DEF GiveBack, CycleFault
<1> QED
  BY <1>2, <1>3

\* Each action keeps what is known of the cycles.
LEMMA CycleInvKept == CycleInv /\ [CycleNext]_cycleVars => CycleInv'
<1> SUFFICES ASSUME CycleInv, [CycleNext]_cycleVars PROVE CycleInv'
  OBVIOUS
<1> USE CycleAssumption
<1>1. /\ ready \in [{"morning", "evening"} -> Nat] /\ cycleFaults \in 0 .. MaxCycleFaults
      /\ \A e \in {"morning", "evening"} : ready[e] <= cycleFaults + 1
      /\ made \in [Kinds -> Nat] /\ sent \in [Kinds -> Nat]
      /\ morning \in [Deliveries -> Mornings]
      /\ outcome \in [Deliveries -> {"open", "ended", "raised", "lost"}]
      /\ ReportInv
  BY DEF CycleInv
<1>2. ASSUME UNCHANGED <<report, evening>> PROVE ReportInv'
  BY <1>1, <1>2 DEF ReportInv, Report!RowTypeOK
<1>3. ASSUME NEW d \in Deliveries,
             TakeMorning(d) \/ CreateFinance(d) \/ Plan(d) \/ LogPlan(d) \/ CreateAlwaysRun(d) \/ CloseMorning(d)
      PROVE CycleInv'
  <2>1. PICK from \in MorningPhases, to \in MorningPhases : Moves(d, from, to) /\ (to \in Early => from \in Early)
    BY <1>3 DEF TakeMorning, CreateFinance, Plan, LogPlan, CreateAlwaysRun, CloseMorning,
                MorningPhases, Running, Early
  <2>2. /\ morning' \in [Deliveries -> Mornings]
        /\ \A e \in Deliveries : morning'[e].phase \in Early => morning'[e].next \in 1 .. 2
    BY <2>1, MorningTyped
  <2>3. UNCHANGED <<sent, report, evening, outcome, cycleFaults>>
    BY <1>3 DEF TakeMorning, CreateFinance, Plan, LogPlan, CreateAlwaysRun, CloseMorning, eveningVars
  <2>4. /\ ready' \in [{"morning", "evening"} -> Nat]
        /\ \A e \in {"morning", "evening"} : ready'[e] <= cycleFaults' + 1
    <3>1. UNCHANGED ready \/ Taken("morning")
      BY <1>3 DEF TakeMorning, CreateFinance, Plan, LogPlan, CreateAlwaysRun, CloseMorning
    <3> QED
      BY <1>1, <2>3, <3>1, ReadyTyped
  <2>5. made' \in [Kinds -> Nat]
    <3>1. CASE UNCHANGED made
      BY <1>1, <3>1
    <3>2. CASE CreateFinance(d)
      BY <1>1, <3>2 DEF CreateFinance, Kinds
    <3>3. CASE CreateAlwaysRun(d)
      <4>1. morning[d].phase = "creating" /\ made' = [made EXCEPT ![AlwaysRun[morning[d].next]] = @ + 1]
        BY <3>3 DEF CreateAlwaysRun, Moves
      <4>2. AlwaysRun[morning[d].next] \in Kinds
        BY <4>1, AlwaysRunTyped DEF CycleInv, Early
      <4> QED
        BY <1>1, <4>1, <4>2
    <3> QED
      BY <1>3, <3>1, <3>2, <3>3 DEF TakeMorning, Plan, LogPlan, CloseMorning
  <2> QED
    BY <1>1, <1>2, <2>2, <2>3, <2>4, <2>5 DEF CycleInv
<1>4. ASSUME NEW d \in Deliveries, EnqueueAlwaysRun(d) PROVE CycleInv'
  <2>1. morning[d].phase = "enqueuing" /\ morning[d].next \in 1 .. 2
    BY <1>4 DEF EnqueueAlwaysRun, CycleInv, Early
  <2>2. PICK n \in 1 .. 2 : n = morning[d].next
    BY <2>1
  <2>3. /\ sent' = [sent EXCEPT ![AlwaysRun[n]] = @ + 1]
        /\ morning' = [morning EXCEPT ![d] = [phase |-> IF n < 2 THEN "creating" ELSE "closing", next |-> n + 1]]
        /\ UNCHANGED <<ready, made, report, evening, outcome, cycleFaults>>
    BY <1>4, <2>2, AlwaysRunTyped DEF EnqueueAlwaysRun, eveningVars
  <2>4. PICK m \in Mornings : m = [phase |-> IF n < 2 THEN "creating" ELSE "closing", next |-> n + 1]
    <3>1. PICK p \in MorningPhases : p = IF n < 2 THEN "creating" ELSE "closing"
      BY DEF MorningPhases, Running
    <3>2. PICK k \in 1 .. 3 : k = n + 1
      OBVIOUS
    <3>3. [phase |-> p, next |-> k] \in Mornings
      BY DEF Mornings
    <3> QED
      BY <3>1, <3>2, <3>3
  <2>5. m.phase \in Early => m.next \in 1 .. 2
    BY <2>4 DEF Early
  <2>6. morning' \in [Deliveries -> Mornings] /\ morning'[d] = m
        /\ \A e \in Deliveries : e # d => morning'[e] = morning[e]
    BY <1>1, <2>3, <2>4
  <2>7. sent' \in [Kinds -> Nat]
    BY <1>1, <2>3, AlwaysRunTyped
  <2> QED
    BY <1>1, <1>2, <2>3, <2>5, <2>6, <2>7 DEF CycleInv
<1>5. ASSUME NEW d \in Deliveries, MorningRaises(d) \/ LoseMorning(d) PROVE CycleInv'
  <2>1. PICK from \in Running, to \in {"raised", "lost"} : Moves(d, from, to)
    BY <1>5 DEF MorningRaises, LoseMorning
  <2>2. from \in MorningPhases /\ to \in MorningPhases /\ to \notin Early
    BY DEF MorningPhases, Early
  <2>3. /\ morning' \in [Deliveries -> Mornings]
        /\ \A e \in Deliveries : morning'[e].phase \in Early => morning'[e].next \in 1 .. 2
    BY <2>1, <2>2, MorningTyped
  <2>4. UNCHANGED <<made, sent, report, evening, outcome>> /\ CycleFault /\ (UNCHANGED ready \/ GiveBack("morning"))
    BY <1>5 DEF MorningRaises, LoseMorning, eveningVars
  <2>5. cycleFaults' \in 0 .. MaxCycleFaults /\ cycleFaults' = cycleFaults + 1
    BY <1>1, <2>4 DEF CycleFault
  <2>6. /\ ready' \in [{"morning", "evening"} -> Nat]
        /\ \A e \in {"morning", "evening"} : ready'[e] <= cycleFaults' + 1
    BY <1>1, <2>4, <2>5, ReadyTyped
  <2> QED
    BY <1>1, <1>2, <2>3, <2>4, <2>5, <2>6 DEF CycleInv
<1>6. ASSUME NEW d \in Deliveries, ExpireMorning(d) \/ ExpireEvening(d) PROVE CycleInv'
  <2>1. UNCHANGED <<morning, made, sent, report, evening, outcome>> /\ CycleFault
        /\ \E c \in {"morning", "evening"} : GiveBack(c)
    BY <1>6 DEF ExpireMorning, ExpireEvening, morningVars, eveningVars
  <2>2. /\ ready' \in [{"morning", "evening"} -> Nat]
        /\ \A e \in {"morning", "evening"} : ready'[e] <= cycleFaults' + 1
        /\ cycleFaults' \in 0 .. MaxCycleFaults
    BY <2>1, ReadyTyped
  <2> QED
    BY <1>2, <2>1, <2>2 DEF CycleInv
<1>7. ASSUME NEW d \in Deliveries, EveningStep(d) \/ EveningRaises(d) \/ LoseEvening(d) PROVE CycleInv'
  <2>1. UNCHANGED <<morning, made, sent>>
    BY <1>7 DEF EveningStep, TakeEvening, SaveReport, LogEvening, EveningRaises, LoseEvening, morningVars
  <2>2. ReportInv'
    <3>1. \/ UNCHANGED <<report, evening>>
          \/ (\E v \in ReportValues : Report!Compute(d, v)) \/ Report!Upserting(d) \/ Report!FailUpsert(d)
      BY <1>7 DEF EveningStep, TakeEvening, SaveReport, LogEvening, EveningRaises, LoseEvening
    <3> QED
      BY <1>1, <1>2, <3>1, ReportInvKept
  <2>3. outcome' \in [Deliveries -> {"open", "ended", "raised", "lost"}]
    BY <1>1, <1>7 DEF EveningStep, TakeEvening, SaveReport, LogEvening, EveningRaises, LoseEvening
  <2>4. /\ ready' \in [{"morning", "evening"} -> Nat]
        /\ \A e \in {"morning", "evening"} : ready'[e] <= cycleFaults' + 1
        /\ cycleFaults' \in 0 .. MaxCycleFaults
    <3>1. \/ UNCHANGED <<ready, cycleFaults>>
          \/ Taken("evening") /\ cycleFaults' = cycleFaults
          \/ UNCHANGED ready /\ CycleFault
          \/ GiveBack("evening") /\ CycleFault
      BY <1>7 DEF EveningStep, TakeEvening, SaveReport, LogEvening, EveningRaises, LoseEvening
    <3>2. CASE UNCHANGED ready /\ CycleFault
      BY <1>1, <3>2 DEF CycleFault
    <3> QED
      BY <1>1, <3>1, <3>2, ReadyTyped
  <2> QED
    BY <1>1, <2>1, <2>2, <2>3, <2>4 DEF CycleInv
<1>8. CASE UNCHANGED cycleVars
  <2>1. UNCHANGED <<ready, morning, made, sent, report, evening, outcome, cycleFaults>>
    BY <1>8 DEF cycleVars, morningVars, eveningVars
  <2> QED
    BY <1>2, <2>1 DEF CycleInv
<1> QED
  BY <1>3, <1>4, <1>5, <1>6, <1>7, <1>8 DEF CycleNext, CycleStep

\* Both messages are ready once, and nothing is done.
LEMMA InitCycle == CycleInit => CycleInv
<1> SUFFICES ASSUME CycleInit PROVE CycleInv
  OBVIOUS
<1>1. ReportInv
  BY DEF CycleInit, ReportInv, Report!RowTypeOK, Report!RowInit, Report!NewUpsert, Report!Rows, Report!Phases
<1>2. morning \in [Deliveries -> Mornings] /\ \A d \in Deliveries : morning[d].next = 1
  BY DEF CycleInit, Mornings, MorningPhases
<1> QED
  BY <1>1, <1>2, CycleAssumption DEF CycleInit, CycleInv

\* Every value of the cycles stays in its type: among them that a message is never
\* ready more often than faults gave it back.
THEOREM CycleTypeCorrect == CycleSpec => []CycleTypeOK
<1>1. CycleInv => CycleTypeOK
  <2> SUFFICES ASSUME CycleInv PROVE CycleTypeOK
    OBVIOUS
  <2>1. ready \in [{"morning", "evening"} -> 0 .. MaxCycleFaults + 1]
    BY CycleAssumption DEF CycleInv
  <2>2. morning \in [Deliveries -> [phase : Running \union {"waiting", "done", "raised", "lost"},
                                    next : 1 .. Len(AlwaysRun) + 1]]
    BY AlwaysRunTyped DEF CycleInv, Mornings, MorningPhases
  <2> QED
    BY <2>1, <2>2 DEF CycleInv, CycleTypeOK, ReportInv
<1> QED
  BY <1>1, InitCycle, CycleInvKept, PTL DEF CycleSpec

-----------------------------------------------------------------------------
(* The snapshot of the day. *)

\* What a poll's transaction wants is a snapshot, and a row it found is there.
DayInv ==
  /\ Day!RowTypeOK
  /\ \A w \in Polls : poll[w].phase \in {"computed", "loaded", "flushed"} => poll[w].wanted \in Snapshots
  /\ \A w \in Polls : poll[w].found # NoSnapshot => snapshot \in [SnapshotColumns -> Day!Entries]

\* Each step of a transaction keeps the types of the day's snapshot: a statement sets
\* what its transaction wants, over a row that is there if it found one.
LEMMA DayInvKept ==
  ASSUME DayInv, NEW w \in Polls,
         (\E v \in Snapshots : Day!Compute(w, v)) \/ Day!Upserting(w) \/ Day!FailUpsert(w)
  PROVE  DayInv'
<1> DEFINE Upserts == [phase : Day!Phases, wanted : Snapshots \union {NoSnapshot}, found : Day!Rows]
<1>1. poll \in [Polls -> Upserts] /\ snapshot \in Day!Rows /\ poll[w] \in Upserts
  BY DEF DayInv, Day!RowTypeOK
<1>2. CASE \E v \in Snapshots : Day!Compute(w, v)
  <2>1. PICK v \in Snapshots :
          /\ poll' = [poll EXCEPT ![w].phase = "computed", ![w].wanted = v] /\ snapshot' = snapshot
    BY <1>2 DEF Day!Compute
  <2>2. poll' \in [Polls -> Upserts]
    BY <1>1, <2>1 DEF Day!Phases
  <2> QED
    BY <1>1, <2>1, <2>2 DEF DayInv, Day!RowTypeOK
<1>3. CASE Day!Load(w)
  <2>1. poll' = [poll EXCEPT ![w].phase = "loaded", ![w].found = snapshot] /\ snapshot' = snapshot
        /\ poll[w].phase = "computed"
    BY <1>3 DEF Day!Load
  <2>2. poll' \in [Polls -> Upserts]
    BY <1>1, <2>1 DEF Day!Phases
  <2> QED
    BY <1>1, <2>1, <2>2 DEF DayInv, Day!RowTypeOK, Day!Rows
<1>4. CASE Day!Flush(w) \/ Day!Refuse(w) \/ Day!FailUpsert(w)
  <2>1. PICK p \in {"flushed", "refused", "failed"} :
          /\ poll' = [poll EXCEPT ![w].phase = p] /\ snapshot' = snapshot
          /\ p = "flushed" => poll[w].phase = "loaded"
    BY <1>4 DEF Day!Flush, Day!Refuse, Day!FailUpsert
  <2>2. poll' \in [Polls -> Upserts]
    BY <1>1, <2>1 DEF Day!Phases
  <2> QED
    BY <1>1, <2>1, <2>2 DEF DayInv, Day!RowTypeOK
<1>5. CASE Day!CommitUpsert(w)
  <2>1. /\ poll' = [poll EXCEPT ![w].phase = "done"] /\ poll[w].phase = "flushed"
        /\ snapshot' = [c \in SnapshotColumns |->
                        IF c \in Day!Changed(w) THEN poll[w].wanted[c] ELSE snapshot[c]]
    BY <1>5 DEF Day!CommitUpsert
  <2>2. poll' \in [Polls -> Upserts]
    BY <1>1, <2>1 DEF Day!Phases
  <2>3. poll[w].wanted \in Snapshots
    BY <2>1 DEF DayInv
  <2>4. \A c \in SnapshotColumns : poll[w].wanted[c] \in Day!Entries
    BY <2>3 DEF Day!Entries
  <2>5. \A c \in SnapshotColumns : c \notin Day!Changed(w) => snapshot[c] \in Day!Entries
    <3>1. CASE poll[w].found = NoSnapshot
      BY <3>1 DEF Day!Changed
    <3>2. CASE poll[w].found # NoSnapshot
      BY <3>2 DEF DayInv
    <3> QED
      BY <3>1, <3>2
  <2>6. snapshot' \in [SnapshotColumns -> Day!Entries]
    BY <2>1, <2>4, <2>5
  <2> QED
    BY <1>1, <2>1, <2>2, <2>6 DEF DayInv, Day!RowTypeOK, Day!Rows
<1> QED
  BY <1>2, <1>3, <1>4, <1>5 DEF Day!Upserting


\* The row and the transactions of the day hold snapshots, or columns of several.
THEOREM FinanceTypeCorrect == FinanceSpec => []FinanceTypeOK
<1>1. FinanceInit => DayInv
  BY DEF FinanceInit, DayInv, Day!RowTypeOK, Day!RowInit, Day!NewUpsert, Day!Rows, Day!Phases
<1>2. DayInv /\ [FinanceNext]_financeVars => DayInv'
  <2> SUFFICES ASSUME DayInv, [FinanceNext]_financeVars PROVE DayInv'
    OBVIOUS
  <2>1. ASSUME NEW p \in Polls, PollStripe(p) PROVE \E v \in Snapshots : Day!Compute(p, v)
    BY <2>1 DEF PollStripe, Snapshots
  <2>2. CASE UNCHANGED financeVars
    BY <2>2 DEF financeVars, DayInv, Day!RowTypeOK
  <2> QED
    BY <2>1, <2>2, DayInvKept DEF FinanceNext
<1>3. DayInv => FinanceTypeOK
  BY DEF DayInv, FinanceTypeOK
<1> QED
  BY <1>1, <1>2, <1>3, PTL DEF FinanceSpec

Cells == Nat \union Balances

\* What each row, in the table or in a poll, tells of its year.
ConsistentRow(r) == r # NoSnapshot => r.mrr \in Nat /\ r.arr = 12 * r.mrr

TableRows == [SnapshotColumns -> Cells] \union {NoSnapshot}

\* The committed row is consistent because each poll's wish and finding are: of
\* two consistent rows that differ in the month or the year both differ.
FinanceInv ==
  /\ snapshot \in TableRows
  /\ poll \in [Polls -> [phase : Day!Phases, wanted : TableRows, found : TableRows]]
  /\ ConsistentRow(snapshot)
  /\ \A p \in Polls : ConsistentRow(poll[p].wanted) /\ ConsistentRow(poll[p].found)
  /\ \A p \in Polls : poll[p].phase \in {"computed", "loaded", "flushed"} => poll[p].wanted # NoSnapshot
  /\ \A p \in Polls : poll[p].found # NoSnapshot => snapshot # NoSnapshot
  /\ \A p \in Polls : poll[p].phase \in {"done", "refused"} => snapshot # NoSnapshot

\* What a poll computes from an answer of Stripe.
LEMMA SnapshotOfConsistent ==
  ASSUME NEW r \in Revenues, NEW b \in Balances
  PROVE  /\ SnapshotOf(r, b) \in TableRows
         /\ SnapshotOf(r, b) # NoSnapshot
         /\ ConsistentRow(SnapshotOf(r, b))
<1>1. r \in Nat  BY FinanceAssumption
<1>2. r \div 2 \in Nat /\ 12 * (r \div 2) \in Nat  BY <1>1
<1>3. SnapshotOf(r, b) \in [SnapshotColumns -> Cells]
  <2> HIDE DEF SnapshotOf
  <2>1. PICK m \in Nat : m = r \div 2  BY <1>2
  <2>2. 12 * m \in Nat  OBVIOUS
  <2>3. SnapshotOf(r, b) = [mrr |-> m, arr |-> 12 * m, rest |-> b]  BY <2>1 DEF SnapshotOf
  <2> QED  BY <2>2, <2>3 DEF SnapshotColumns, Cells
<1>4. SnapshotOf(r, b).mrr = r \div 2 /\ SnapshotOf(r, b).arr = 12 * (r \div 2)  BY DEF SnapshotOf
<1>5. SnapshotOf(r, b) # NoSnapshot  BY <1>3, FinanceAssumption DEF SnapshotColumns, Cells
<1> QED  BY <1>2, <1>3, <1>4, <1>5 DEF ConsistentRow, TableRows

\* Every behaviour keeps the invariant; CommitUpsert is the step to see to.
THEOREM FinanceInvHolds == FinanceSpec => []FinanceInv
<1>1. FinanceInit => FinanceInv
  BY DEF FinanceInit, FinanceInv, Day!RowInit, Day!NewUpsert, Day!Phases, TableRows, ConsistentRow
<1>2. FinanceInv /\ [FinanceNext]_financeVars => FinanceInv'
  <2> SUFFICES ASSUME FinanceInv, FinanceNext PROVE FinanceInv'
    BY DEF FinanceInv, financeVars, ConsistentRow
  <2> USE DEF FinanceInv
  <2>1. ASSUME NEW p \in Polls, PollStripe(p) PROVE FinanceInv'
    <3>1. PICK v \in TableRows : v # NoSnapshot /\ ConsistentRow(v) /\ Day!Compute(p, v)
      BY <2>1, SnapshotOfConsistent DEF PollStripe
    <3> QED  BY <3>1 DEF Day!Compute, Day!Phases, ConsistentRow
  <2>2. ASSUME NEW p \in Polls, Day!Load(p) PROVE FinanceInv'
    BY <2>2 DEF Day!Load, Day!Phases, ConsistentRow
  <2>3. ASSUME NEW p \in Polls, Day!Flush(p) PROVE FinanceInv'
    BY <2>3 DEF Day!Flush, Day!Phases, ConsistentRow
  <2>4. ASSUME NEW p \in Polls, Day!Refuse(p) PROVE FinanceInv'
    BY <2>4 DEF Day!Refuse, Day!Phases, ConsistentRow
  <2>5. ASSUME NEW p \in Polls, Day!CommitUpsert(p) PROVE FinanceInv'
    <3> DEFINE wanted == poll[p].wanted
               found == poll[p].found
    <3>1. wanted \in [SnapshotColumns -> Cells] /\ wanted.mrr \in Nat /\ wanted.arr = 12 * wanted.mrr
      BY <2>5 DEF Day!CommitUpsert, TableRows, ConsistentRow
    <3>2. snapshot' = [c \in SnapshotColumns |-> IF c \in Day!Changed(p) THEN wanted[c] ELSE snapshot[c]]
      BY <2>5 DEF Day!CommitUpsert
    <3>3. \A c \in SnapshotColumns : c \in Day!Changed(p) <=> found = NoSnapshot \/ wanted[c] # found[c]
      BY DEF Day!Changed
    <3>4. snapshot' \in [SnapshotColumns -> Cells] /\ snapshot'.mrr \in Nat /\ snapshot'.arr = 12 * snapshot'.mrr
      <4>1. CASE found = NoSnapshot
        BY <4>1, <3>1, <3>2, <3>3 DEF SnapshotColumns
      <4>2. CASE found # NoSnapshot
        <5>1. found.mrr \in Nat /\ found.arr = 12 * found.mrr  BY <4>2 DEF ConsistentRow
        <5>2. snapshot \in [SnapshotColumns -> Cells] /\ snapshot.mrr \in Nat /\ snapshot.arr = 12 * snapshot.mrr
          BY <4>2 DEF ConsistentRow, TableRows
        <5>3. wanted.mrr = found.mrr <=> wanted.arr = found.arr
          BY <3>1, <5>1
        <5> QED  BY <5>2, <5>3, <4>2, <3>1, <3>2, <3>3 DEF SnapshotColumns
      <4> QED  BY <4>1, <4>2
    <3>5. snapshot' # NoSnapshot  BY <3>4, FinanceAssumption DEF SnapshotColumns, Cells
    <3> QED  BY <2>5, <3>4, <3>5 DEF Day!CommitUpsert, Day!Phases, ConsistentRow, TableRows
  <2>6. ASSUME NEW p \in Polls, Day!FailUpsert(p) PROVE FinanceInv'
    BY <2>6 DEF Day!FailUpsert, Day!Phases, ConsistentRow
  <2> QED  BY <2>1, <2>2, <2>3, <2>4, <2>5, <2>6 DEF FinanceNext, Day!Upserting
<1> QED  BY <1>1, <1>2, PTL DEF FinanceSpec

\* The year the dashboard shows is twelve times its month.
THEOREM YearIsTwelveMonths == FinanceSpec => []SnapshotConsistent
<1>1. FinanceInv => SnapshotConsistent  BY DEF FinanceInv, SnapshotConsistent, ConsistentRow
<1> QED  BY <1>1, FinanceInvHolds, PTL

\* A poll that ended, or was refused the day's date, leaves the day its row.
THEOREM EndedPollLeavesSnapshot == FinanceSpec => []Day!EndedLeavesRow
<1>1. FinanceInv => Day!EndedLeavesRow  BY DEF FinanceInv, Day!EndedLeavesRow
<1> QED  BY <1>1, FinanceInvHolds, PTL

-----------------------------------------------------------------------------
(* The requests that write to two places: each pair of writes is one of        *)
(* EffectThenRecord.                                                           *)

\* What a call's place in the code says of the outside.
CallsKnown ==
  \A c \in Calls :
    /\ call[c] \in {"idle", "inserted"} => c \notin outside
    /\ call[c] \in {"sent", "ready"} => c \in outside

\* The unique id: of the deliveries of an event one gets past its insert until
\* it ends, and none that is in flight has a committed rival.
HooksKnown ==
  \A e \in StripeEvents, a \in Attempts :
    /\ hook[<<e, a>>] = "flushed" => e \notin stripeRows
    /\ hook[<<e, a>>] = "committed" => e \in stripeRows
    /\ \A b \in Attempts :
         hook[<<e, a>>] \in {"flushed", "committed"} /\ hook[<<e, b>>] \in {"flushed", "committed"} => a = b

\* Types and what is known at each place.
WritesInv ==
  /\ call \in [Calls -> CallPhases]
  /\ outside \subseteq Calls
  /\ hook \in [StripeEvents \X Attempts -> HookPhases]
  /\ stripeRows \subseteq StripeEvents
  /\ writeFaults \in Nat
  /\ CallsKnown
  /\ HooksKnown

-----------------------------------------------------------------------------

\* A delivery's step moves that delivery and no other.
LEMMA HookMovesOne ==
  ASSUME WritesInv, NEW e \in StripeEvents, NEW a \in Attempts, NEW from, NEW to \in HookPhases,
         HookMoves(<<e, a>>, from, to)
  PROVE  /\ hook[<<e, a>>] = from
         /\ \A f \in StripeEvents, b \in Attempts :
              hook'[<<f, b>>] = IF f = e /\ b = a THEN to ELSE hook[<<f, b>>]
  BY DEF WritesInv, HookMoves

\* Nothing has happened, and nobody has anything in hand.
LEMMA InitWrites == WritesInit => WritesInv /\ Pairs!PairInit
<1> SUFFICES ASSUME WritesInit PROVE WritesInv /\ Pairs!PairInit  OBVIOUS
<1> USE WritesAssumption DEF WritesInit
<1>1. \A e \in StripeEvents, a \in Attempts : hook[<<e, a>>] = "idle"  OBVIOUS
<1>2. WritesInv
  BY <1>1 DEF WritesInv, CallsKnown, HooksKnown, CallPhases, HookPhases
<1>3. Pairs!PairInit  BY <1>1 DEF Pairs!PairInit
<1> QED  BY <1>2, <1>3

\* Each action keeps the invariant.
LEMMA NextKeepsInv == WritesInv /\ [WritesNext]_writeVars => WritesInv'
<1> SUFFICES ASSUME WritesInv, [WritesNext]_writeVars PROVE WritesInv'  OBVIOUS
<1> USE DEF WritesInv
<1>1. ASSUME NEW c \in Calls,
             InsertFirst(c) \/ Send(c) \/ SendFails(c) \/ SendUnheard(c)
               \/ InsertAfter(c) \/ CommitCallRow(c) \/ CallDies(c)
      PROVE WritesInv'
  <2>1. UNCHANGED <<hook, stripeRows>> /\ writeFaults' \in Nat
    BY <1>1 DEF InsertFirst, Send, SendFails, SendUnheard, InsertAfter, CommitCallRow, CallDies, WriteFault
  <2>2. HooksKnown'  BY <2>1 DEF HooksKnown
  <2>3. /\ call' \in [Calls -> CallPhases] /\ outside' \subseteq Calls /\ CallsKnown'
    BY <1>1 DEF InsertFirst, Send, SendFails, SendUnheard, InsertAfter, CommitCallRow, CallDies,
                CallMoves, BeforeSend, CallPhases, CallsKnown
  <2> QED  BY <2>1, <2>2, <2>3
<1>2. ASSUME NEW e \in StripeEvents, NEW a \in Attempts, NEW phase \in HookPhases,
             hook' = [hook EXCEPT ![<<e, a>>] = phase],
             UNCHANGED <<call, outside>>, writeFaults' \in Nat,
             \/ stripeRows' = stripeRows /\ phase \notin {"flushed", "committed"}
             \/ /\ stripeRows' = stripeRows /\ phase = "flushed"
                /\ e \notin stripeRows /\ ~InFlight(e)
             \/ /\ stripeRows' = stripeRows \union {e} /\ phase = "committed"
                /\ hook[<<e, a>>] = "flushed"
      PROVE WritesInv'
  <2>1. \A f \in StripeEvents, b \in Attempts :
          hook'[<<f, b>>] = IF f = e /\ b = a THEN phase ELSE hook[<<f, b>>]
    BY <1>2
  <2>2. hook' \in [StripeEvents \X Attempts -> HookPhases]  BY <1>2
  <2>3. HooksKnown'
    <3> SUFFICES ASSUME NEW f \in StripeEvents, NEW b \in Attempts
                 PROVE  /\ hook'[<<f, b>>] = "flushed" => f \notin stripeRows'
                        /\ hook'[<<f, b>>] = "committed" => f \in stripeRows'
                        /\ \A d \in Attempts :
                             hook'[<<f, b>>] \in {"flushed", "committed"}
                               /\ hook'[<<f, d>>] \in {"flushed", "committed"} => b = d
      BY DEF HooksKnown
    <3>1. /\ hook[<<f, b>>] = "flushed" => f \notin stripeRows
          /\ hook[<<f, b>>] = "committed" => f \in stripeRows
          /\ \A d \in Attempts :
               hook[<<f, b>>] \in {"flushed", "committed"}
                 /\ hook[<<f, d>>] \in {"flushed", "committed"} => b = d
      BY DEF HooksKnown
    <3>2. CASE f # e
      BY <3>1, <3>2, <2>1, <1>2
    <3>3. CASE f = e
      <4>1. CASE stripeRows' = stripeRows /\ phase \notin {"flushed", "committed"}
        BY <3>1, <3>3, <4>1, <2>1
      <4>2. CASE stripeRows' = stripeRows /\ phase = "flushed" /\ e \notin stripeRows /\ ~InFlight(e)
        <5>1. \A d \in Attempts : hook[<<e, d>>] \notin {"flushed", "committed"}
          BY <4>2 DEF HooksKnown, InFlight
        <5>2. \A d \in Attempts : hook'[<<e, d>>] \in {"flushed", "committed"} => d = a
          BY <5>1, <2>1
        <5> QED  BY <3>3, <4>2, <5>1, <5>2, <2>1
      <4>3. CASE stripeRows' = stripeRows \union {e} /\ phase = "committed" /\ hook[<<e, a>>] = "flushed"
        <5>1. \A d \in Attempts : hook[<<e, d>>] \in {"flushed", "committed"} => d = a
          BY <4>3 DEF HooksKnown
        <5>2. \A d \in Attempts : hook'[<<e, d>>] \in {"flushed", "committed"} => d = a
          BY <5>1, <2>1
        <5> QED  BY <3>3, <4>3, <5>2, <2>1
      <4> QED  BY <1>2, <4>1, <4>2, <4>3
    <3> QED  BY <3>2, <3>3
  <2>4. CallsKnown'  BY <1>2 DEF CallsKnown
  <2> QED  BY <1>2, <2>2, <2>3, <2>4
<1>3. ASSUME NEW e \in StripeEvents, NEW a \in Attempts,
             Deliver(<<e, a>>) \/ FlushEvent(<<e, a>>) \/ RefuseEvent(<<e, a>>)
               \/ CommitEvent(<<e, a>>) \/ AnswerEvent(<<e, a>>) \/ HookDies(<<e, a>>)
      PROVE WritesInv'
  <2>1. <<e, a>>[1] = e  OBVIOUS
  <2>2. UNCHANGED <<call, outside>> /\ writeFaults' \in Nat
    BY <1>3 DEF Deliver, FlushEvent, RefuseEvent, CommitEvent, AnswerEvent, HookDies, WriteFault
  <2>3. CASE Deliver(<<e, a>>) \/ RefuseEvent(<<e, a>>) \/ AnswerEvent(<<e, a>>) \/ HookDies(<<e, a>>)
    <3>1. stripeRows' = stripeRows
      BY <2>3 DEF Deliver, RefuseEvent, AnswerEvent, HookDies
    <3>2. PICK phase \in {"adding", "ended"} : hook' = [hook EXCEPT ![<<e, a>>] = phase]
      BY <2>3 DEF Deliver, RefuseEvent, AnswerEvent, HookDies, HookMoves
    <3> QED  BY <3>1, <3>2, <2>2, <1>2 DEF HookPhases
  <2>4. CASE FlushEvent(<<e, a>>)
    <3>1. hook' = [hook EXCEPT ![<<e, a>>] = "flushed"] /\ stripeRows' = stripeRows
          /\ e \notin stripeRows /\ ~InFlight(e)
      BY <2>4, <2>1 DEF FlushEvent, HookMoves
    <3> QED  BY <3>1, <2>2, <1>2 DEF HookPhases
  <2>5. CASE CommitEvent(<<e, a>>)
    <3>1. hook' = [hook EXCEPT ![<<e, a>>] = "committed"] /\ stripeRows' = stripeRows \union {e}
          /\ hook[<<e, a>>] = "flushed"
      BY <2>5, <2>1 DEF CommitEvent, HookMoves
    <3> QED  BY <3>1, <2>2, <1>2 DEF HookPhases
  <2> QED  BY <1>3, <2>3, <2>4, <2>5
<1>4. CASE UNCHANGED writeVars
  BY <1>4 DEF writeVars, CallsKnown, HooksKnown
<1> QED
  <2>1. ASSUME NEW h \in StripeEvents \X Attempts PROVE \E e \in StripeEvents, a \in Attempts : h = <<e, a>>
    OBVIOUS
  <2> QED  BY <1>1, <1>3, <1>4, <2>1 DEF WritesNext

-----------------------------------------------------------------------------

\* Each action is a step of the pair or a stutter.
LEMMA NextIsPairStep ==
  WritesInv /\ [WritesNext]_writeVars => [Pairs!PairNext]_(Pairs!pairVars)
<1> SUFFICES ASSUME WritesInv, [WritesNext]_writeVars PROVE [Pairs!PairNext]_(Pairs!pairVars)
  OBVIOUS
<1> USE WritesAssumption DEF WritesInv
<1>1. ASSUME NEW c \in Calls, Send(c) PROVE Pairs!Happen(c)
  BY <1>1 DEF Send, CallMoves, BeforeSend, CallsKnown, Pairs!Happen
<1>2. ASSUME NEW c \in Calls, SendUnheard(c) PROVE Pairs!Happen(c)
  BY <1>2 DEF SendUnheard, CallMoves, BeforeSend, CallsKnown, WriteFault, Pairs!Happen
<1>3. ASSUME NEW c \in Calls, CommitCallRow(c) PROVE Pairs!Tell(c)
  BY <1>3 DEF CommitCallRow, CallMoves, CallsKnown, Pairs!Tell
<1>4. ASSUME NEW c \in Calls, CallDies(c) PROVE Pairs!Miss \/ Pairs!Abandon(c)
  BY <1>4 DEF CallDies, CallMoves, CallsKnown, WriteFault, Pairs!Miss, Pairs!Abandon
<1>5. ASSUME NEW c \in Calls, InsertFirst(c) \/ SendFails(c) \/ InsertAfter(c)
      PROVE UNCHANGED Pairs!pairVars
  BY <1>5 DEF InsertFirst, SendFails, InsertAfter, CallMoves, BeforeSend, CallsKnown, Pairs!pairVars
<1>6. ASSUME NEW e \in StripeEvents, NEW a \in Attempts, CommitEvent(<<e, a>>) PROVE Pairs!Happen(e)
  BY <1>6 DEF CommitEvent, HookMoves, HooksKnown, Pairs!Happen
<1>7. ASSUME NEW e \in StripeEvents, NEW a \in Attempts, AnswerEvent(<<e, a>>) PROVE Pairs!Tell(e)
  BY <1>7 DEF AnswerEvent, HookMoves, HooksKnown, Pairs!Tell
<1>8. ASSUME NEW e \in StripeEvents, NEW a \in Attempts, HookDies(<<e, a>>)
      PROVE Pairs!Miss \/ Pairs!Abandon(e)
  <2>1. PICK phase \in {"adding", "flushed", "committed"} : HookMoves(<<e, a>>, phase, "ended")
    BY <1>8 DEF HookDies
  <2>2. UNCHANGED <<call, outside, callRows, stripeRows, answered>> /\ writeFaults' = writeFaults + 1
    BY <1>8 DEF HookDies, WriteFault
  <2>3. \A f \in StripeEvents, b \in Attempts :
          hook'[<<f, b>>] = IF f = e /\ b = a THEN "ended" ELSE hook[<<f, b>>]
    <3>1. hook' = [hook EXCEPT ![<<e, a>>] = "ended"]  BY <2>1 DEF HookMoves
    <3> QED  BY <3>1
  <2>4. hook[<<e, a>>] = phase  BY <2>1 DEF HookMoves
  <2> DEFINE committed == {f \in StripeEvents : \E b \in Attempts : hook[<<f, b>>] = "committed"}
             committed2 == {f \in StripeEvents : \E b \in Attempts : hook'[<<f, b>>] = "committed"}
             sending == {c \in outside : call[c] \in {"sent", "ready"}}
  <2>5. CASE phase = "committed"
    <3>1. committed2 = committed \ {e} /\ e \in committed
      <4>1. \A b \in Attempts : b # a => hook[<<e, b>>] # "committed"
        BY <2>4, <2>5 DEF HooksKnown
      <4> QED  BY <4>1, <2>3, <2>4, <2>5
    <3>2. e \notin sending  OBVIOUS
    <3>3. (sending \union committed2) = (sending \union committed) \ {e}
      <4> HIDE DEF sending, committed, committed2
      <4> QED  BY <3>1, <3>2
    <3> QED  BY <2>2, <3>1, <3>3 DEF Pairs!Abandon
  <2>6. CASE phase # "committed"
    <3>1. committed2 = committed  BY <2>3, <2>4, <2>6
    <3> QED  BY <2>2, <3>1 DEF Pairs!Miss
  <2> QED  BY <2>5, <2>6
<1>9. ASSUME NEW e \in StripeEvents, NEW a \in Attempts,
             Deliver(<<e, a>>) \/ FlushEvent(<<e, a>>) \/ RefuseEvent(<<e, a>>)
      PROVE UNCHANGED Pairs!pairVars
  <2>1. UNCHANGED <<call, outside, callRows, stripeRows, answered, writeFaults>>
    BY <1>9 DEF Deliver, FlushEvent, RefuseEvent
  <2>2. PICK from \in {"idle", "adding"}, to \in {"adding", "flushed", "ended"} : HookMoves(<<e, a>>, from, to)
    BY <1>9 DEF Deliver, FlushEvent, RefuseEvent
  <2>3. /\ hook[<<e, a>>] # "committed"
        /\ \A f \in StripeEvents, b \in Attempts : hook'[<<f, b>>] = "committed" <=> hook[<<f, b>>] = "committed"
    BY <2>2, HookMovesOne DEF HookPhases
  <2> QED  BY <2>1, <2>3 DEF Pairs!pairVars
<1>10. CASE UNCHANGED writeVars
  BY <1>10 DEF writeVars, Pairs!pairVars
<1> QED
  <2>1. ASSUME NEW h \in StripeEvents \X Attempts PROVE \E e \in StripeEvents, a \in Attempts : h = <<e, a>>
    OBVIOUS
  <2>2. ASSUME NEW c \in Calls PROVE c \in Calls \union StripeEvents  OBVIOUS
  <2> QED
    BY <1>1, <1>2, <1>3, <1>4, <1>5, <1>6, <1>7, <1>8, <1>9, <1>10, <2>1 DEF WritesNext, Pairs!PairNext

\* Every behaviour keeps the invariant.
THEOREM WritesInvHolds == WritesSpec => []WritesInv
BY InitWrites, NextKeepsInv, PTL DEF WritesSpec

\* Every behaviour of the requests is one of effects and their records.
THEOREM WritesImplementPairs == WritesSpec => RecordsFollowEffects
BY InitWrites, NextIsPairStep, WritesInvHolds, PTL DEF WritesSpec, RecordsFollowEffects, Pairs!PairSpec

\* What each request and each delivery has written stays in its type.
THEOREM WritesTypeCorrect == WritesSpec => []WritesTypeOK
<1>1. WritesInit => WritesTypeOK
  BY WritesAssumption DEF WritesInit, WritesTypeOK, CallPhases, HookPhases
<1>2. WritesTypeOK /\ [WritesNext]_writeVars => WritesTypeOK'
  <2> SUFFICES ASSUME WritesTypeOK, [WritesNext]_writeVars PROVE WritesTypeOK'
    OBVIOUS
  <2> USE WritesAssumption DEF WritesTypeOK
  <2>1. ASSUME NEW c \in Calls,
               InsertFirst(c) \/ Send(c) \/ SendFails(c) \/ SendUnheard(c)
                 \/ InsertAfter(c) \/ CommitCallRow(c) \/ CallDies(c)
        PROVE  WritesTypeOK'
    <3>1. call' \in [Calls -> CallPhases]
      BY <2>1 DEF InsertFirst, Send, SendFails, SendUnheard, InsertAfter, CommitCallRow, CallDies,
                  CallMoves, CallPhases
    <3>2. outside' \subseteq Calls /\ callRows' \subseteq Calls /\ writeFaults' \in 0 .. MaxWriteFaults
      BY <2>1 DEF InsertFirst, Send, SendFails, SendUnheard, InsertAfter, CommitCallRow, CallDies, WriteFault
    <3>3. UNCHANGED <<hook, stripeRows, answered>>
      BY <2>1 DEF InsertFirst, Send, SendFails, SendUnheard, InsertAfter, CommitCallRow, CallDies
    <3> QED
      BY <3>1, <3>2, <3>3
  <2>2. ASSUME NEW h \in StripeEvents \X Attempts,
               Deliver(h) \/ FlushEvent(h) \/ RefuseEvent(h) \/ CommitEvent(h) \/ AnswerEvent(h) \/ HookDies(h)
        PROVE  WritesTypeOK'
    <3>1. h[1] \in StripeEvents
      OBVIOUS
    <3>2. hook' \in [StripeEvents \X Attempts -> HookPhases]
      BY <2>2 DEF Deliver, FlushEvent, RefuseEvent, CommitEvent, AnswerEvent, HookDies, HookMoves, HookPhases
    <3>3. /\ stripeRows' \subseteq StripeEvents /\ answered' \subseteq StripeEvents
          /\ writeFaults' \in 0 .. MaxWriteFaults
      BY <2>2, <3>1 DEF Deliver, FlushEvent, RefuseEvent, CommitEvent, AnswerEvent, HookDies, WriteFault
    <3>4. UNCHANGED <<call, outside, callRows>>
      BY <2>2 DEF Deliver, FlushEvent, RefuseEvent, CommitEvent, AnswerEvent, HookDies
    <3> QED
      BY <3>2, <3>3, <3>4
  <2>3. CASE UNCHANGED writeVars
    BY <2>3 DEF writeVars
  <2> QED
    BY <2>1, <2>2, <2>3 DEF WritesNext
<1> QED
  BY <1>1, <1>2, PTL DEF WritesSpec

-----------------------------------------------------------------------------
(* The pull requests. *)

\* A request's standing.
Standings == [phase : PullPhases, branch : BranchNames \union {NoBranch}, sha : Nat]

\* Requests that have made their branch and are at work on it, or have opened
\* the pull request.
Owners == {r \in Requests : request[r].phase \in {"branched", "read", "updated"}} \union pulls

\* A branch has one owner: whoever comes second is refused the name.
OneOwner ==
  /\ \A r \in Owners : BranchOf(r) \in DOMAIN branches
  /\ \A r, q \in Owners : BranchOf(r) = BranchOf(q) => r = q

\* What is on the branch tells how far its owner is.
OwnWork ==
  /\ \A r \in Requests : request[r].phase \in {"branched", "read"} => branches[BranchOf(r)] = <<>>
  /\ \A r \in Requests : request[r].phase = "updated" \/ r \in pulls => branches[BranchOf(r)] = <<r>>

\* All of it; the clock is only needed for the names.
PullInv ==
  /\ second \in 0 .. LastSecond
  /\ request \in [Requests -> Standings]
  /\ pulls \subseteq Requests
  /\ \A r \in pulls : request[r].phase = "ended"
  /\ OneOwner
  /\ OwnWork

\* Every behaviour keeps the invariant: only CreateRef makes an owner, of a name
\* that did not exist, and only an owner's step writes to a branch.
THEOREM PullInvHolds == PullSpec => []PullInv
<1>1. PullInit => PullInv
  BY PullAssumption DEF PullInit, PullInv, Owners, OneOwner, OwnWork, PullPhases, Standings, BranchNames
<1>2. PullInv /\ [PullNext]_pullVars => PullInv'
  <2> SUFFICES ASSUME PullInv, PullNext PROVE PullInv'
    BY DEF PullInv, Owners, OneOwner, OwnWork, BranchOf, pullVars
  <2> USE DEF PullInv, Owners, OneOwner, OwnWork, BranchOf
  <2>1. CASE Tick
    BY <2>1, PullAssumption DEF Tick
  <2>2. ASSUME NEW r \in Requests, NameBranch(r) PROVE PullInv'
    <3>1. PICK s \in Slugs :
            request' = [request EXCEPT ![r].phase = "named", ![r].branch = <<s, second>>]
      BY <2>2 DEF NameBranch
    <3>2. <<s, second>> \in BranchNames
      BY PullInv DEF BranchNames
    <3>3. request' \in [Requests -> Standings]
      BY <3>1, <3>2, PullInv DEF Standings, PullPhases
    <3>4. request'[r].phase = "named" /\ \A q \in Requests \ {r} : request'[q] = request[q]
      BY <3>1, PullInv DEF Standings
    <3> QED  BY <2>2, <3>3, <3>4 DEF NameBranch
  <2>3. ASSUME NEW r \in Requests, CreateRef(r) PROVE PullInv'
    BY <2>3 DEF CreateRef, Proceeds, PullPhases, Standings
  <2>4. ASSUME NEW r \in Requests, ReadFile(r) PROVE PullInv'
    <3>1. branches[BranchOf(r)] = <<>>  BY <2>4 DEF ReadFile
    <3>2. request' = [request EXCEPT ![r].phase = "read", ![r].sha = 0]
      BY <2>4, <3>1 DEF ReadFile
    <3>3. request' \in [Requests -> Standings]
      BY <3>2, PullInv DEF Standings, PullPhases
    <3>4. /\ request'[r].phase = "read" /\ request'[r].branch = request[r].branch
          /\ \A q \in Requests \ {r} : request'[q] = request[q]
      BY <3>2, PullInv DEF Standings
    <3> QED  BY <2>4, <3>3, <3>4 DEF ReadFile
  <2>5. ASSUME NEW r \in Requests, UpdateFile(r) PROVE PullInv'
    <3>1. BranchOf(r) \in DOMAIN branches /\ branches[BranchOf(r)] = <<>>
      BY <2>5 DEF UpdateFile, Proceeds
    <3>2. Append(branches[BranchOf(r)], r) = <<r>>  BY <3>1
    <3>3. branches' = [branches EXCEPT ![BranchOf(r)] = <<r>>]
      BY <2>5, <3>2 DEF UpdateFile
    <3> QED  BY <2>5, <3>1, <3>3 DEF UpdateFile, Proceeds, PullPhases, Standings
  <2>6. ASSUME NEW r \in Requests, OpenPull(r) PROVE PullInv'
    BY <2>6 DEF OpenPull, Proceeds, PullPhases, Standings
  <2>7. ASSUME NEW r \in Requests, PullFails(r) PROVE PullInv'
    <3>1. PICK phase \in PullPhases \ {"idle", "ended"} : Proceeds(r, phase, "ended")
      BY <2>7 DEF PullFails
    <3> QED  BY <2>7, <3>1 DEF PullFails, Proceeds, PullPhases, Standings
  <2> QED  BY <2>1, <2>2, <2>3, <2>4, <2>5, <2>6, <2>7 DEF PullNext, PullStep
<1> QED  BY <1>1, <1>2, PTL DEF PullSpec

\* A pull request carries its own request's change and no other.
THEOREM PullRequestsAreOwn == PullSpec => []PullRequestIsItsOwn
<1>1. PullInv => PullRequestIsItsOwn  BY DEF PullInv, OwnWork, PullRequestIsItsOwn
<1> QED  BY <1>1, PullInvHolds, PTL


\* Besides, what exists on GitHub: a request that has named its branch has a name
\* for it, and branches of such names carry commits of requests.
NamesOK ==
  \A r \in Requests : request[r].phase = "named" => BranchOf(r) \in BranchNames
BranchesOK ==
  /\ DOMAIN branches \subseteq BranchNames
  /\ \A b \in DOMAIN branches : branches[b] \in Seq(Requests)

\* What GitHub holds stays in its type, whatever the requests go through.
THEOREM PullTypeCorrect == PullSpec => []PullTypeOK
<1>1. PullInit => NamesOK /\ BranchesOK
  BY DEF PullInit, NamesOK, BranchesOK
<1>2. PullInv /\ NamesOK /\ BranchesOK /\ [PullNext]_pullVars => NamesOK' /\ BranchesOK'
  <2> SUFFICES ASSUME PullInv, NamesOK, BranchesOK, [PullNext]_pullVars PROVE NamesOK' /\ BranchesOK'
    OBVIOUS
  <2>1. request \in [Requests -> Standings] /\ second \in 0 .. LastSecond
    BY DEF PullInv
  <2>2. CASE Tick \/ UNCHANGED pullVars
    BY <2>2 DEF Tick, pullVars, NamesOK, BranchesOK, BranchOf
  <2>3. ASSUME NEW r \in Requests, NameBranch(r) PROVE NamesOK' /\ BranchesOK'
    <3>1. PICK s \in Slugs :
            request' = [request EXCEPT ![r].phase = "named", ![r].branch = <<s, second>>]
      BY <2>3 DEF NameBranch
    <3>2. PICK b \in BranchNames : b = <<s, second>>
      BY <2>1 DEF BranchNames
    <3>3. request'[r].branch = b /\ \A q \in Requests : q # r => request'[q] = request[q]
      BY <2>1, <3>1, <3>2 DEF Standings
    <3> QED
      BY <2>3, <3>3 DEF NameBranch, NamesOK, BranchesOK, BranchOf
  <2>4. ASSUME NEW r \in Requests, CreateRef(r) PROVE NamesOK' /\ BranchesOK'
    <3>1. request[r].phase = "named" /\ request' = [request EXCEPT ![r].phase = "branched"]
          /\ branches' = [b \in DOMAIN branches \union {BranchOf(r)} |->
                           IF b = BranchOf(r) THEN <<>> ELSE branches[b]]
      BY <2>4 DEF CreateRef, Proceeds
    <3>2. BranchOf(r) \in BranchNames
      BY <3>1 DEF NamesOK
    <3>3. request'[r].phase = "branched" /\ \A q \in Requests : q # r => request'[q] = request[q]
      BY <2>1, <3>1 DEF Standings
    <3>4. NamesOK'
      BY <3>3 DEF NamesOK, BranchOf
    <3>5. PICK name \in BranchNames : name = BranchOf(r)
      BY <3>2
    <3>6. <<>> \in Seq(Requests)
      OBVIOUS
    <3>7. BranchesOK'
      BY <3>1, <3>5, <3>6 DEF BranchesOK
    <3> QED
      BY <3>4, <3>7
  <2>5. ASSUME NEW r \in Requests, ReadFile(r) \/ OpenPull(r) \/ PullFails(r) PROVE NamesOK' /\ BranchesOK'
    <3>1. UNCHANGED branches
      BY <2>5 DEF ReadFile, OpenPull, PullFails
    <3>2. request'[r].phase # "named" /\ \A q \in Requests : q # r => request'[q] = request[q]
      BY <2>1, <2>5 DEF ReadFile, OpenPull, PullFails, Proceeds, Standings
    <3> QED
      BY <3>1, <3>2 DEF NamesOK, BranchesOK, BranchOf
  <2>6. ASSUME NEW r \in Requests, UpdateFile(r) PROVE NamesOK' /\ BranchesOK'
    <3>1. request' = [request EXCEPT ![r].phase = "updated"] /\ request[r].phase = "read"
          /\ branches' = [branches EXCEPT ![BranchOf(r)] = Append(@, r)]
      BY <2>6 DEF UpdateFile, Proceeds
    <3>2. request'[r].phase # "named" /\ \A q \in Requests : q # r => request'[q] = request[q]
      BY <2>1, <3>1 DEF Standings
    <3>3. PICK name : name = BranchOf(r)
      OBVIOUS
    <3>4. DOMAIN branches' = DOMAIN branches
          /\ \A b \in DOMAIN branches : branches'[b] = IF b = name THEN Append(branches[b], r) ELSE branches[b]
      BY <3>1, <3>3
    <3>5. \A c \in Seq(Requests) : Append(c, r) \in Seq(Requests)
      OBVIOUS
    <3>6. BranchesOK'
      BY <3>4, <3>5 DEF BranchesOK
    <3> QED
      BY <3>2, <3>6 DEF NamesOK, BranchOf
  <2> QED
    BY <2>2, <2>3, <2>4, <2>5, <2>6 DEF PullNext, PullStep
<1>3. PullInv /\ BranchesOK => PullTypeOK
  BY DEF PullInv, BranchesOK, PullTypeOK, Standings
<1> QED
  BY <1>1, <1>2, <1>3, PullInvHolds, PTL DEF PullSpec

-----------------------------------------------------------------------------
(* All the parts together. *)

\* A step of one part is a step of it that the other parts do not see.
LEMMA StepOfOnePart ==
  ASSUME [BackOfficeNext]_<<part, others>>
  PROVE  /\ [AuditNext]_vars
         /\ [GatesNext]_context
         /\ [DefinitionNext]_definition
         /\ [DecisionNext]_decision
         /\ [SweepNext]_sweepVars
         /\ [CycleNext]_cycleVars
         /\ [FinanceNext]_financeVars
         /\ [WritesNext]_writeVars
         /\ [PullNext]_pullVars
BY DEF BackOfficeNext, others

\* Whatever part a behaviour of MCBackOffice is of, it is a behaviour of every
\* part: what is proved of a part's own specification holds in that run.
THEOREM BackOfficeIsEveryPart ==
  BackOfficeSpec =>
    /\ AuditSpec /\ GatesSpec /\ DefinitionSpec /\ DecisionSpec
    /\ SweepSpec /\ CycleSpec /\ FinanceSpec /\ WritesSpec /\ PullSpec
<1>1. BackOfficeInit =>
        /\ AuditInit /\ GatesInit /\ DefinitionInit /\ DecisionInit
        /\ SweepInit /\ CycleInit /\ FinanceInit /\ WritesInit /\ PullInit
  BY DEF BackOfficeInit
<1> QED
  BY <1>1, StepOfOnePart, PTL
  DEF BackOfficeSpec, AuditSpec, GatesSpec, DefinitionSpec, DecisionSpec, SweepSpec, CycleSpec,
      FinanceSpec, WritesSpec, PullSpec

\* Every part of the back office is well typed.
THEOREM BackOfficeTypeCorrect == BackOfficeSpec => []BackOfficeTypeOK
<1>1. SweepInv => SweepTypeOK
  BY DEF SweepInv
<1>2. DefinitionInit => definition \in Definitions \union {Unset}
  BY DEF DefinitionInit
<1>3. definition \in Definitions \union {Unset} /\ [DefinitionNext]_definition
        => (definition \in Definitions \union {Unset})'
  BY DEF DefinitionNext
<1>4. DefinitionSpec => [](definition \in Definitions \union {Unset})
  BY <1>2, <1>3, PTL DEF DefinitionSpec
<1>5. /\ AuditTypeOK /\ SweepTypeOK /\ CycleTypeOK /\ FinanceTypeOK /\ WritesTypeOK /\ PullTypeOK
      /\ (context # None => context \in Contexts) /\ definition \in Definitions \union {Unset}
      => BackOfficeTypeOK
  BY DEF BackOfficeTypeOK
<1> QED
  BY <1>1, <1>4, <1>5, BackOfficeIsEveryPart, AuditTypeCorrect, SweepInvHolds, CycleTypeCorrect,
     FinanceTypeCorrect, WritesTypeCorrect, PullTypeCorrect, CallHasContext, PTL

==============================================================================
