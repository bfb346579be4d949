-------------------------- MODULE StreamLockProofs --------------------------
(***************************************************************************)
(* Proofs about StreamLock: for any number of workers, any TTL and any     *)
(* number of faults, a second driver can be on air only after drivers have *)
(* overrun by enough to outlive the key.                                   *)
(***************************************************************************)
EXTENDS StreamLock, FiniteSetTheorems, TLAPS

(* While no overrun can have outlived the key, a driver that may write or  *)
(* delete the key holds it, and the key has at least as many ticks left as *)
(* the driver's age leaves of a full TTL.                                  *)
Owned(w) == lock = w /\ ttl + age[w] >= LockTTL

LockInv ==
  /\ TypeOK
  /\ \A w \in Worker : pc[w] \in Holding => age[w] <= MaxAge + late
  /\ MaxAge + late < LockTTL =>
       \A w \in Worker : pc[w] \in Holding => Owned(w)

USE LockAssumption DEF Holding, OnAir

-----------------------------------------------------------------------------
(* Each Redis command leaves the key, its TTL and the drivers' ages typed. *)
LEMMA KeyTypes ==
  ASSUME TypeOK, NEW w \in Worker,
         \/ SetNX(w) \/ ExtendTTL(w) \/ DeleteKey \/ KeyUntouched \/ InFlight(w)
  PROVE  /\ lock' \in Worker \cup {NoLock}
         /\ ttl' \in 0..LockTTL
         /\ age' \in [Worker -> Nat]
<1> USE DEF TypeOK
<1>1. CASE SetNX(w)
  BY <1>1 DEF SetNX
<1>2. CASE ExtendTTL(w)
  BY <1>2 DEF ExtendTTL
<1>3. CASE DeleteKey
  BY <1>3 DEF DeleteKey
<1>4. CASE KeyUntouched
  BY <1>4 DEF KeyUntouched
<1> QED
  BY <1>1, <1>2, <1>3, <1>4 DEF InFlight

(* The pc, fault and environment parts of a step are typed.                *)
LEMMA MoveTypes ==
  ASSUME TypeOK, NEW w \in Worker, NEW from,
         NEW to \in Holding \cup {"down", "idle", "done"}, Move(w, from, to)
  PROVE  pc' \in [Worker -> Holding \cup {"down", "idle", "done"}]
BY DEF TypeOK, Move

(* Faults are counted up to their bound.                                   *)
LEMMA FaultTypes ==
  ASSUME TypeOK, Fault \/ NoFault
  PROVE  faults' \in 0..MaxFaults
BY DEF TypeOK, Fault, NoFault

(* What a driver step leaves alone keeps its types.                        *)
LEMMA EnvTypes ==
  ASSUME TypeOK, EnvUnchanged
  PROVE  /\ closing' \in [Worker -> {"no", "asked", "cancelled"}]
         /\ attached' \in BOOLEAN
         /\ present' \in BOOLEAN
         /\ late' \in 0..MaxLate
BY DEF TypeOK, EnvUnchanged

(* Every step keeps the variables in their types: the key and its TTL, the *)
(* tasks' positions and the counters of the stream workers.                *)
LEMMA TypeStep == TypeOK /\ [Next]_vars => TypeOK'
<1> SUFFICES ASSUME TypeOK, [Next]_vars PROVE TypeOK'
  OBVIOUS
<1>1. ASSUME NEW w \in Worker, DriverStep(w) PROVE TypeOK'
  <2>1. pc' \in [Worker -> Holding \cup {"down", "idle", "done"}]
    BY <1>1, MoveTypes
       DEF DriverStep, StartDriver, RefreshGet, RefreshExpire, RefreshSetNX,
           Continue, SyncToSession, LoopBody, StopDriver, ReleaseGet,
           ReleaseDelete
  <2>2. \/ SetNX(w) \/ ExtendTTL(w) \/ DeleteKey \/ KeyUntouched
    BY <1>1
       DEF DriverStep, StartDriver, RefreshGet, RefreshExpire, RefreshSetNX,
           SyncToSession, LoopBody, StopDriver, ReleaseGet, ReleaseDelete
  <2>3. Fault \/ NoFault
    BY <1>1
       DEF DriverStep, StartDriver, RefreshGet, RefreshExpire, RefreshSetNX,
           Continue, SyncToSession, LoopBody, StopDriver, ReleaseGet,
           ReleaseDelete
  <2>4. EnvUnchanged
    BY <1>1
       DEF DriverStep, StartDriver, RefreshGet, RefreshExpire, RefreshSetNX,
           SyncToSession, LoopBody, StopDriver, ReleaseGet, ReleaseDelete
  <2>5. inLoop' \in [Worker -> BOOLEAN]
    BY <1>1
       DEF TypeOK, DriverStep, StartDriver, RefreshGet, RefreshExpire,
           RefreshSetNX, SyncToSession, LoopBody, StopDriver, ReleaseGet,
           ReleaseDelete
  <2> QED
    BY <2>1, <2>2, <2>3, <2>4, <2>5, KeyTypes, FaultTypes, EnvTypes
       DEF TypeOK
<1>2. ASSUME NEW w \in Worker, ScanSessions(w) PROVE TypeOK'
  <2>1. SetNX(w) /\ (Fault \/ NoFault) /\ EnvUnchanged
    BY <1>2 DEF ScanSessions
  <2>2. /\ pc' \in [Worker -> Holding \cup {"down", "idle", "done"}]
        /\ inLoop' \in [Worker -> BOOLEAN]
    BY <1>2 DEF ScanSessions, Move, TypeOK
  <2> QED
    BY <2>1, <2>2, KeyTypes, FaultTypes, EnvTypes DEF TypeOK
<1>3. ASSUME NEW w \in Worker, ReapFinished(w) \/ Exit(w) PROVE TypeOK'
  BY <1>3 DEF ReapFinished, Exit, Move, KeyUntouched, NoFault, EnvUnchanged,
              TypeOK
<1>4. ASSUME NEW w \in Worker, CancelTasks(w) PROVE TypeOK'
  BY <1>4, KeyTypes DEF CancelTasks, NoFault, TypeOK
<1>5. ASSUME NEW w \in Worker, Crash(w) PROVE TypeOK'
  BY <1>5, KeyTypes, FaultTypes, EnvTypes DEF Crash, TypeOK
<1>6. ASSUME NEW w \in Worker, Restart(w) PROVE TypeOK'
  BY <1>6 DEF Restart, Move, KeyUntouched, NoFault, TypeOK
<1>7. ASSUME NEW w \in Worker, RequestShutdown(w) PROVE TypeOK'
  BY <1>7, FaultTypes DEF RequestShutdown, KeyUntouched, TypeOK
<1>8. CASE UserActs
  BY <1>8 DEF UserActs, KeyUntouched, NoFault, TypeOK
<1>9. CASE Tick
  <2>1. late' \in 0..MaxLate /\ age' \in [Worker -> Nat]
    BY <1>9 DEF Tick, DriversAge, TypeOK
  <2>2. ttl' \in 0..LockTTL /\ lock' \in Worker \cup {NoLock}
    BY <1>9 DEF Tick, KeyAges, TypeOK
  <2> QED
    BY <1>9, <2>1, <2>2 DEF Tick, NoFault, TypeOK
<1>10. CASE UNCHANGED vars
  BY <1>10 DEF vars, TypeOK
<1> QED
  BY <1>1, <1>2, <1>3, <1>4, <1>5, <1>6, <1>7, <1>8, <1>9, <1>10
     DEF Next, WorkerStep

(* The initial state is typed.                                             *)
LEMMA InitTypes == Init => TypeOK
<1> SUFFICES ASSUME Init PROVE TypeOK
  OBVIOUS
<1>1. ttl \in 0..LockTTL /\ late \in 0..MaxLate /\ faults \in 0..MaxFaults
  BY DEF Init
<1>2. /\ pc \in [Worker -> Holding \cup {"down", "idle", "done"}]
      /\ closing \in [Worker -> {"no", "asked", "cancelled"}]
      /\ inLoop \in [Worker -> BOOLEAN]
      /\ age \in [Worker -> Nat]
  BY DEF Init
<1> QED
  BY <1>1, <1>2 DEF Init, TypeOK

(* The key, the tasks' positions and the counters keep their types in      *)
(* every behaviour of the stream workers.                                  *)
THEOREM TypeCorrect == Spec => []TypeOK
BY InitTypes, TypeStep, PTL DEF Spec

-----------------------------------------------------------------------------
(***************************************************************************)
(* The ownership invariant.                                                *)
(***************************************************************************)

(* What LockInv says of one driver v in the next state.                    *)
HolderOK(v) ==
  pc[v] \in Holding =>
    /\ age[v] <= MaxAge + late
    /\ MaxAge + late < LockTTL => Owned(v)

(* The invariant speaks of one driver at a time, so that the steps can be  *)
(* taken one driver at a time as well.                                     *)
LEMMA HoldersOK ==
  ASSUME TypeOK
  PROVE  LockInv <=> \A v \in Worker : HolderOK(v)
BY DEF LockInv, HolderOK

(* A key command of a driver that may write the key leaves every other     *)
(* driver that stays in charge the owner of the key.                       *)
LEMMA KeyStep ==
  ASSUME TypeOK, LockInv, NEW w \in Worker, NEW v \in Worker,
         pc[w] \in Holding, pc[v] \in Holding, late' = late,
         \/ SetNX(w) \/ ExtendTTL(w) \/ KeyUntouched
         \/ DeleteKey /\ v # w
  PROVE  /\ age'[v] <= MaxAge + late'
         /\ MaxAge + late' < LockTTL => Owned(v)'
<1> USE DEF TypeOK, LockInv, Owned
<1>1. CASE SetNX(w)
  BY <1>1 DEF SetNX
<1>2. CASE ExtendTTL(w)
  BY <1>2 DEF ExtendTTL
<1>3. CASE KeyUntouched
  BY <1>3 DEF KeyUntouched
<1>4. CASE DeleteKey /\ v # w
  BY <1>4 DEF DeleteKey
<1> QED
  BY <1>1, <1>2, <1>3, <1>4

(* A step of a driver keeps every driver in charge the owner of the key.   *)
LEMMA DriverKeepsHolders ==
  ASSUME TypeOK, LockInv, NEW w \in Worker, NEW v \in Worker, DriverStep(w)
  PROVE  HolderOK(v)'
<1> SUFFICES ASSUME pc'[v] \in Holding PROVE HolderOK(v)'
  BY DEF HolderOK
<1>1. pc[w] \in Holding /\ late' = late
  BY DEF DriverStep, StartDriver, RefreshGet, RefreshExpire, RefreshSetNX,
         Continue, SyncToSession, LoopBody, StopDriver, ReleaseGet,
         ReleaseDelete, Move, EnvUnchanged
<1>2. pc[v] \in Holding
  BY <1>1 DEF DriverStep, StartDriver, RefreshGet, RefreshExpire,
              RefreshSetNX, Continue, SyncToSession, LoopBody, StopDriver,
              ReleaseGet, ReleaseDelete, Move, TypeOK
<1>3. \/ SetNX(w) \/ ExtendTTL(w) \/ KeyUntouched
      \/ DeleteKey /\ v # w
  <2>1. CASE ReleaseDelete(w)
    BY <2>1 DEF ReleaseDelete, Move, TypeOK
  <2>2. CASE ~ReleaseDelete(w)
    BY <2>2 DEF DriverStep, StartDriver, RefreshGet, RefreshExpire,
                RefreshSetNX, SyncToSession, LoopBody, StopDriver, ReleaseGet
  <2> QED
    BY <2>1, <2>2
<1> QED
  BY <1>1, <1>2, <1>3, KeyStep DEF HolderOK

(* So does the discovery loop: SET NX succeeds only on a free key.         *)
LEMMA ScanKeepsHolders ==
  ASSUME TypeOK, LockInv, NEW w \in Worker, NEW v \in Worker, ScanSessions(w)
  PROVE  HolderOK(v)'
<1> SUFFICES ASSUME pc'[v] \in Holding PROVE HolderOK(v)'
  BY DEF HolderOK
<1>1. SetNX(w) /\ late' = late /\ pc[w] = "idle"
  BY DEF ScanSessions, EnvUnchanged, Move
<1>2. CASE v = w
  BY <1>1, <1>2 DEF SetNX, HolderOK, Owned, TypeOK
<1>3. CASE v # w
  <2>1. pc[v] \in Holding
    BY <1>3 DEF ScanSessions, Move, TypeOK
  <2>2. ~(MaxAge + late < LockTTL)
    BY <2>1, <1>1 DEF LockInv, Owned, SetNX
  <2> QED
    BY <1>1, <1>3, <2>1, <2>2 DEF LockInv, HolderOK, SetNX, TypeOK
<1> QED
  BY <1>2, <1>3

(* A driver cut short by a crash or a cancellation with a command in       *)
(* flight disturbs nobody else.                                            *)
LEMMA CutShortKeepsHolders ==
  ASSUME TypeOK, LockInv, NEW w \in Worker, NEW v \in Worker,
         CancelTasks(w) \/ Crash(w)
  PROVE  HolderOK(v)'
<1> SUFFICES ASSUME pc'[v] \in Holding PROVE HolderOK(v)'
  BY DEF HolderOK
<1>1. late' = late /\ InFlight(w)
  BY DEF CancelTasks, Crash, EnvUnchanged
<1>2. pc[v] \in Holding
  BY DEF CancelTasks, Crash, TypeOK
<1>3. pc[w] = "delete" => v # w
  BY DEF CancelTasks, Crash, TypeOK
<1>4. CASE KeyUntouched
  BY <1>1, <1>2, <1>4, KeyStep DEF HolderOK
<1>5. CASE ~KeyUntouched
  <2>1. pc[w] \in Holding
    BY <1>1, <1>5 DEF InFlight
  <2>2. SetNX(w) \/ ExtendTTL(w) \/ (DeleteKey /\ v # w)
    BY <1>1, <1>3, <1>5 DEF InFlight
  <2> QED
    BY <1>1, <1>2, <2>1, <2>2, KeyStep DEF HolderOK
<1> QED
  BY <1>4, <1>5

(* A tick takes one from the TTL and adds one to each age; in the regime   *)
(* of the invariant the key outlives the tick.                             *)
LEMMA TickKeepsHolders ==
  ASSUME TypeOK, LockInv, NEW v \in Worker, Tick
  PROVE  HolderOK(v)'
<1> SUFFICES ASSUME pc[v] \in Holding PROVE HolderOK(v)'
  BY DEF HolderOK, Tick
<1>1. age'[v] = age[v] + 1
  BY DEF Tick, DriversAge, TypeOK
<1>2. age[v] \in Nat /\ late \in Nat /\ ttl \in Nat
  BY DEF TypeOK
<1>3. late' \in Nat /\ late <= late' /\ age[v] + 1 <= MaxAge + late'
  <2>1. CASE age[v] >= MaxAge
    BY <1>2, <2>1 DEF Tick, DriversAge, LockInv
  <2>2. CASE ~(age[v] >= MaxAge)
    BY <1>2, <2>2 DEF Tick, DriversAge
  <2> QED
    BY <2>1, <2>2
<1>4. ASSUME MaxAge + late' < LockTTL PROVE Owned(v)'
  <2>1. Owned(v)
    BY <1>2, <1>3, <1>4 DEF LockInv
  <2>2. ttl >= 2
    <3> DEFINE a == age[v]
               l == late'
    <3>0. /\ LockTTL \in Nat /\ MaxAge \in Nat /\ a \in Nat /\ l \in Nat
          /\ a + 1 <= MaxAge + l
          /\ MaxAge + l < LockTTL
      BY <1>2, <1>3, <1>4, LockAssumption
    <3> HIDE DEF a, l
    <3>1. a + 1 < LockTTL
      BY <3>0
    <3> USE DEF a
    <3>2. ttl + age[v] >= LockTTL
      BY <2>1 DEF Owned
    <3> QED
      BY <1>2, <3>1, <3>2
  <2>3. ttl' = ttl - 1 /\ lock' = lock
    BY <1>2, <2>2 DEF Tick, KeyAges
  <2> QED
    BY <1>1, <1>2, <2>1, <2>3 DEF Owned
<1> QED
  BY <1>1, <1>3, <1>4 DEF HolderOK

(* The remaining steps touch neither the key nor the set of drivers.       *)
LEMMA OtherKeepsHolders ==
  ASSUME TypeOK, LockInv, NEW v \in Worker,
         \/ \E w \in Worker : \/ ReapFinished(w) \/ Exit(w) \/ Restart(w)
                              \/ RequestShutdown(w)
         \/ UserActs \/ UNCHANGED vars
  PROVE  HolderOK(v)'
<1>1. /\ late' = late
      /\ lock' = lock
      /\ ttl' = ttl
      /\ age' = age
      /\ pc'[v] \in Holding => pc[v] \in Holding
  BY DEF ReapFinished, Exit, Restart, RequestShutdown, UserActs, vars, Move,
         KeyUntouched, EnvUnchanged, TypeOK
<1> QED
  BY <1>1 DEF LockInv, HolderOK, Owned

(* Every step keeps what LockInv says of every driver.                     *)
LEMMA LockInvStep == LockInv /\ [Next]_vars => LockInv'
<1> SUFFICES ASSUME LockInv, [Next]_vars PROVE LockInv'
  OBVIOUS
<1>1. TypeOK /\ TypeOK'
  BY TypeStep DEF LockInv
<1>2. ASSUME NEW v \in Worker PROVE HolderOK(v)'
  BY <1>1, DriverKeepsHolders, ScanKeepsHolders, CutShortKeepsHolders,
     TickKeepsHolders, OtherKeepsHolders DEF Next, WorkerStep
<1>3. LockInv' <=> \A v \in Worker : HolderOK(v)'
  BY <1>1 DEF LockInv, HolderOK
<1> QED
  BY <1>2, <1>3

(* Drivers that are on air hold the key, and a key holds one token.        *)
LEMMA LockInvExcludes == LockInv => OneDriverUntilOverrun
<1> SUFFICES ASSUME LockInv, MaxAge + late < LockTTL
             PROVE  Cardinality(Driving) <= 1
  BY DEF OneDriverUntilOverrun
<1>1. \A v \in Driving : lock = v
  BY DEF LockInv, Owned, Driving
<1>2. CASE Driving = {}
  BY <1>2, FS_EmptySet
<1>3. CASE Driving # {}
  <2>1. PICK v \in Driving : TRUE
    BY <1>3
  <2>2. Driving = {v}
    BY <1>1, <2>1
  <2>3. Cardinality({v}) = 1
    BY FS_Singleton
  <2> QED
    BY <2>2, <2>3
<1> QED
  BY <1>2, <1>3

(* At first no driver is in charge.                                        *)
LEMMA LockInvInit == Init => LockInv
<1>1. Init => TypeOK
  BY InitTypes
<1>2. ASSUME Init, NEW w \in Worker PROVE pc[w] \notin Holding
  BY <1>2 DEF Init
<1> QED
  BY <1>1, <1>2 DEF LockInv

(* Two workers render audio to one output only after their drivers have    *)
(* overrun the normal iteration time by LockTTL - MaxAge ticks in total:   *)
(* the separate GET, EXPIRE, SET NX and DELETE commands, lost replies,     *)
(* crashes and cancellations alone never break the exclusion.              *)
THEOREM OneDriver == Spec => []OneDriverUntilOverrun
BY LockInvInit, LockInvStep, LockInvExcludes, PTL DEF Spec

(* With the tolerance not used up, a driver about to delete the key still  *)
(* owns it.                                                                *)
LEMMA DeletesOwnKey ==
  ASSUME LockInv, NEW w \in Worker, ReleaseDelete(w), MaxAge + late < LockTTL
  PROVE  lock = w
BY DEF LockInv, Owned, ReleaseDelete, Move

(* _release_lock deletes only the driver's own key: its GET and DELETE are *)
(* separate commands, and only an overrun lets the key change hands        *)
(* between the two.                                                        *)
THEOREM ReleasesOwn == Spec => ReleaseOnlyOwnLock
<1>1. LockInv /\ [Next]_vars => [ReleasesOwnLock]_vars
  BY DeletesOwnKey DEF ReleasesOwnLock
<1> QED
  BY <1>1, LockInvInit, LockInvStep, PTL DEF Spec, ReleaseOnlyOwnLock

-----------------------------------------------------------------------------
(***************************************************************************)
(* Without enough overrun, StreamLock implements ExclusiveOutput.          *)
(***************************************************************************)

(* A step moves the task of one worker at most.                            *)
LEMMA OneWorkerMoves ==
  ASSUME TypeOK, [Next]_vars
  PROVE  pc' = pc \/ \E w \in Worker : \A v \in Worker \ {w} : pc'[v] = pc[v]
<1> USE DEF Move, TypeOK
<1>1. ASSUME NEW w \in Worker, DriverStep(w)
      PROVE  \A v \in Worker \ {w} : pc'[v] = pc[v]
  BY <1>1 DEF DriverStep, StartDriver, RefreshGet, RefreshExpire,
              RefreshSetNX, Continue, SyncToSession, LoopBody, StopDriver,
              ReleaseGet, ReleaseDelete
<1>2. ASSUME NEW w \in Worker, WorkerStep(w) \/ RequestShutdown(w) \/ Crash(w)
      PROVE  \A v \in Worker \ {w} : pc'[v] = pc[v]
  BY <1>2 DEF WorkerStep, ScanSessions, ReapFinished, CancelTasks, Exit,
              Restart, RequestShutdown, Crash
<1>3. CASE UserActs \/ Tick \/ UNCHANGED vars
  BY <1>3 DEF UserActs, Tick, vars
<1> QED
  BY <1>1, <1>2, <1>3 DEF Next

(* Under the invariant, and with the tolerance not used up, whoever is on  *)
(* air is the one worker whose token the key holds.                        *)
LEMMA OnAirHoldsKey ==
  ASSUME LockInv, InTime
  PROVE  \A v \in Driving : lock = v
BY DEF InTime, LockInv, Owned, Driving

(* A step puts one worker on air where none was, takes the one worker off  *)
(* air, or changes nothing.                                                *)
LEMMA StepImplements ==
  ASSUME LockInv, LockInv', [Next]_vars, InTime, InTime'
  PROVE  [Output!Next]_Driving
<1>1. \A v \in Driving : lock = v
  BY OnAirHoldsKey
<1>2. \A v \in Driving' : lock' = v
  BY DEF InTime, LockInv, Owned, Driving
<1>3. CASE pc' = pc
  BY <1>3 DEF Driving
<1>4. CASE \E w \in Worker : \A v \in Worker \ {w} : pc'[v] = pc[v]
  <2>1. PICK w \in Worker : \A v \in Worker \ {w} : pc'[v] = pc[v]
    BY <1>4
  <2>2. Driving' \ {w} = Driving \ {w}
    BY <2>1 DEF Driving
  <2>3. CASE w \in Driving /\ w \in Driving'
    BY <2>2, <2>3
  <2>4. CASE w \notin Driving /\ w \notin Driving'
    BY <2>2, <2>4
  <2>5. CASE w \notin Driving /\ w \in Driving'
    <3>1. Driving' = {w}
      BY <1>2, <2>5
    <3>2. Driving = {}
      BY <2>2, <2>5, <3>1
    <3> QED
      BY <3>1, <3>2 DEF Output!Next, Output!Take
  <2>6. CASE w \in Driving /\ w \notin Driving'
    <3>1. Driving = {w}
      BY <1>1, <2>6
    <3>2. Driving' = {}
      BY <2>2, <2>6, <3>1
    <3> QED
      BY <3>1, <3>2 DEF Output!Next, Output!Drop
  <2> QED
    BY <2>3, <2>4, <2>5, <2>6
<1> QED
  BY <1>3, <1>4, OneWorkerMoves DEF LockInv

(* When the TTL leaves room for every overrun, the drivers implement an    *)
(* exclusive output: one worker at a time, and silence between two.        *)
THEOREM Exclusive ==
  MaxAge + MaxLate < LockTTL => (Spec => ImplementsExclusiveOutput)
<1> SUFFICES ASSUME MaxAge + MaxLate < LockTTL
             PROVE  Spec => ImplementsExclusiveOutput
  OBVIOUS
<1>1. Init => Output!Init
  BY DEF Init, Output!Init, Driving
<1>2. LockInv => InTime
  BY LockAssumption DEF InTime, LockInv, TypeOK
<1>3. LockInv /\ LockInv' /\ InTime /\ InTime' /\ [Next]_vars => [Output!Next]_Driving
  BY StepImplements
<1> QED
  BY <1>1, <1>2, <1>3, LockInvInit, LockInvStep, PTL
     DEF Spec, ImplementsExclusiveOutput, Output!Spec

(* Whatever overruns there are, every step before they outlive the TTL is  *)
(* a step of an exclusive output.                                          *)
THEOREM ExclusiveUntilOverrun == Spec => ImplementsUntilOverrun
<1>1. LockInv /\ LockInv' /\ [Next]_vars
        => (InTime /\ InTime' => [Output!Next]_Driving)
  BY StepImplements
<1> QED
  BY <1>1, LockInvInit, LockInvStep, PTL DEF Spec, ImplementsUntilOverrun
=============================================================================
