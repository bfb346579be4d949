------------------------ MODULE DownloadArchiveProofs ------------------------
(***************************************************************************)
(* Proofs about DownloadArchive, for any set of archives and any limits:   *)
(* the archives a user holds open and the builds that run are as many as   *)
(* allowed, and what is ready can be downloaded, but for the races the     *)
(* history names.                                                          *)
(***************************************************************************)
EXTENDS DownloadArchive, FiniteSetTheorems, TLAPS

RunningSet == {a \in Archive : Running(a)}

(* Until two requests overlap, one archive at most waits for its commit,   *)
(* and while it does the open ones leave room for it: it was counted       *)
(* against them, and nothing else adds to them.                            *)
LimitInv ==
  /\ TypeOK
  /\ IsFiniteSet(Active)
  /\ ~crossed =>
       /\ \A a, b \in Archive : status[a] = "inserted" /\ status[b] = "inserted" => a = b
       /\ Cardinality(Active) <= MaxActive
       /\ \A a \in Archive : status[a] = "inserted" => Cardinality(Active) < MaxActive

(* Until a build outlives its lease, a build that runs has its slot.       *)
CapInv ==
  /\ TypeOK
  /\ IsFiniteSet(slots) /\ Cardinality(slots) <= MaxSlots
  /\ ~overrun => RunningSet \subseteq slots

(* The file the archives share: its row is there as long as an archive     *)
(* refers to it, its bytes as long as the row is and no transaction        *)
(* deletes it.  A build that stores the bytes anew is the only one, and    *)
(* has found no row.  A transaction that deletes the file deletes the last *)
(* archive that refers to it, unless a build takes the file over.          *)
FileInv ==
  /\ TypeOK
  /\ file # {} => stored
  /\ stored => bytes \/ \E b \in Archive : deleting[b] = "file"
  /\ \A a \in Archive : task[a] = "new" => ~stored /\ bytes
  /\ \A a, b \in Archive : task[a] = "new" /\ task[b] = "new" => a = b
  /\ ~shared => \A a \in Archive : deleting[a] = "file" => file = {a}
  /\ ~shared => \A a \in Archive :
                  status[a] = "ready" /\ deleting[a] = "no" => a \in file

-----------------------------------------------------------------------------
(* Nothing is asked for at first.                                          *)
LEMMA InitTypes == Init => TypeOK
<1> SUFFICES ASSUME Init PROVE TypeOK
  OBVIOUS
<1>1. faults \in 0..MaxFaults
  BY ArchiveAssumption DEF Init
<1>2. /\ status \in [Archive -> Status] /\ task \in [Archive -> Task]
      /\ deleting \in [Archive -> Deleting]
  BY DEF Init, Status, Task, Deleting
<1>3. file \subseteq Archive /\ slots \subseteq Archive
  BY DEF Init
<1> QED
  BY <1>1, <1>2, <1>3 DEF Init, TypeOK

(* The steps of the module keep the variables in their types.              *)
LEMMA TypeStep == TypeOK /\ [Next]_vars => TypeOK'
<1> SUFFICES ASSUME TypeOK, [Next]_vars PROVE TypeOK'
  OBVIOUS
<1> USE DEF TypeOK, Status, Task, Deleting
<1>0. ASSUME NEW a \in Archive PROVE MarkedFailed(a) \in [Archive -> Status]
  BY DEF MarkedFailed
<1>1. ASSUME NEW a \in Archive, Requests(a) PROVE TypeOK'
  <2>1. ASSUME NEW sent \in BOOLEAN, Create(a, sent) PROVE TypeOK'
    BY <2>1, ArchiveAssumption DEF Create, Fault
  <2>2. CASE CommitCreate(a)
    BY <2>2 DEF CommitCreate
  <2>3. CASE Delete(a)
    BY <2>3 DEF Delete
  <2>4. CASE CommitDelete(a)
    BY <2>4 DEF CommitDelete
  <2> QED
    BY <1>1, <2>1, <2>2, <2>3, <2>4 DEF Requests
<1>2. ASSUME NEW a \in Archive, Build(a) PROVE TypeOK'
  <2>1. CASE TakeSlot(a)
    <3>1. faults' \in 0..MaxFaults
      BY <2>1, ArchiveAssumption DEF TakeSlot, Fault
    <3>2. slots' \subseteq Archive /\ overrun' \in BOOLEAN
      BY <2>1, Zenon DEF TakeSlot
    <3>3. task' \in [Archive -> Task]
      BY <2>1 DEF TakeSlot
    <3> QED
      BY <2>1, <3>1, <3>2, <3>3, Zenon DEF TakeSlot
  <2>2. CASE GiveUp(a)
    BY <2>2, <1>0 DEF GiveUp
  <2>3. CASE BuildStart(a)
    BY <2>3 DEF BuildStart, EndTask
  <2>4. CASE Store(a)
    BY <2>4 DEF Store
  <2>5. CASE BuildFails(a)
    BY <2>5, <1>0 DEF BuildFails, EndTask
  <2>6. CASE BuildEnds(a)
    BY <2>6, <1>0 DEF BuildEnds, EndTask
  <2>7. CASE Crash(a)
    BY <2>7, ArchiveAssumption DEF Crash, Fault
  <2>8. CASE LeaseEnds(a)
    BY <2>8 DEF LeaseEnds
  <2> QED
    BY <1>2, <2>1, <2>2, <2>3, <2>4, <2>5, <2>6, <2>7, <2>8 DEF Build
<1>3. ASSUME NEW a \in Archive, SweepStale(a) PROVE TypeOK'
  BY <1>3 DEF SweepStale
<1>4. CASE SweepOrphan
  BY <1>4 DEF SweepOrphan
<1>5. CASE UNCHANGED vars
  BY <1>5 DEF vars
<1> QED
  BY <1>1, <1>2, <1>3, <1>4, <1>5 DEF Next

(* Rows, files, tasks, slots and deletions of downloads.py keep their      *)
(* types, for any number of archives.                                      *)
THEOREM TypeCorrect == Spec => []TypeOK
BY InitTypes, TypeStep, PTL DEF Spec

-----------------------------------------------------------------------------
(* A step that opens no archive, and inserts none, leaves room for what is *)
(* inserted.                                                               *)
LEMMA LimitKept ==
  ASSUME LimitInv, TypeOK', UNCHANGED crossed, Active' \subseteq Active,
         \A a \in Archive : status'[a] = "inserted" => status[a] = "inserted"
  PROVE  LimitInv'
<1>1. IsFiniteSet(Active') /\ Cardinality(Active') <= Cardinality(Active)
  BY FS_Subset DEF LimitInv
<1>2. Cardinality(Active) \in Nat /\ Cardinality(Active') \in Nat
  BY <1>1, FS_CardinalityType DEF LimitInv
<1> QED
  BY <1>1, <1>2, ArchiveAssumption DEF LimitInv

(* A request that no other one overlaps counts what is open, and nothing   *)
(* is opened between its count and its commit.                             *)
LEMMA LimitStep == LimitInv /\ [Next]_vars => LimitInv'
<1> SUFFICES ASSUME LimitInv, [Next]_vars PROVE LimitInv'
  OBVIOUS
<1>0. TypeOK'
  BY TypeStep DEF LimitInv
<1>1. ASSUME NEW a \in Archive, Requests(a) PROVE LimitInv'
  <2>1. ASSUME NEW sent \in BOOLEAN, Create(a, sent) PROVE LimitInv'
    <3>1. Active' = Active
      BY <2>1 DEF Create, Active, Open, LimitInv, TypeOK
    <3>2. Cardinality(Active) < MaxActive
      BY <2>1 DEF Create
    <3>3. \A b \in Archive : status'[b] = "inserted" => b = a \/ status[b] = "inserted"
      BY <2>1 DEF Create, LimitInv, TypeOK
    <3>4. crossed' = FALSE => \A b \in Archive : status[b] # "inserted"
      BY <2>1 DEF Create
    <3>5. crossed' \in BOOLEAN /\ Cardinality(Active) \in Nat
      BY <1>0, FS_CardinalityType DEF LimitInv, TypeOK
    <3> QED
      BY <1>0, <3>1, <3>2, <3>3, <3>4, <3>5, ArchiveAssumption DEF LimitInv
  <2>2. CASE CommitCreate(a)
    <3>1. Active' = Active \cup {a} /\ a \notin Active
      BY <2>2 DEF CommitCreate, Active, Open, LimitInv, TypeOK
    <3>2. IsFiniteSet(Active') /\ Cardinality(Active') = Cardinality(Active) + 1
      BY <3>1, FS_AddElement DEF LimitInv
    <3>3. \A b \in Archive : status'[b] = "inserted" <=> b # a /\ status[b] = "inserted"
      BY <2>2 DEF CommitCreate, LimitInv, TypeOK
    <3>4. Cardinality(Active) \in Nat
      BY FS_CardinalityType DEF LimitInv
    <3>5. status[a] = "inserted" /\ UNCHANGED crossed
      BY <2>2 DEF CommitCreate
    <3> QED
      BY <1>0, <3>2, <3>3, <3>4, <3>5, ArchiveAssumption DEF LimitInv
  <2>3. CASE Delete(a)
    BY <2>3, <1>0, LimitKept DEF Delete, Active, Open
  <2>4. CASE CommitDelete(a)
    BY <2>4, <1>0, LimitKept DEF CommitDelete, Active, Open, LimitInv, TypeOK
  <2> QED
    BY <1>1, <2>1, <2>2, <2>3, <2>4 DEF Requests
<1>2. ASSUME NEW a \in Archive, Build(a) PROVE LimitInv'
  <2>1. CASE TakeSlot(a) \/ Store(a) \/ Crash(a) \/ LeaseEnds(a)
    BY <2>1, <1>0, LimitKept DEF TakeSlot, Store, Crash, LeaseEnds, Active, Open
  <2>2. CASE GiveUp(a) \/ BuildFails(a)
    BY <2>2, <1>0, LimitKept
       DEF GiveUp, BuildFails, MarkedFailed, Active, Open, LimitInv, TypeOK
  <2>3. CASE BuildStart(a)
    BY <2>3, <1>0, LimitKept DEF BuildStart, ToBuild, Active, Open, LimitInv, TypeOK
  <2>4. CASE BuildEnds(a)
    BY <2>4, <1>0, LimitKept
       DEF BuildEnds, MarkedFailed, Active, Open, LimitInv, TypeOK
  <2> QED
    BY <1>2, <2>1, <2>2, <2>3, <2>4 DEF Build
<1>3. ASSUME NEW a \in Archive, SweepStale(a) PROVE LimitInv'
  BY <1>3, <1>0, LimitKept DEF SweepStale, Active, Open, LimitInv, TypeOK
<1>4. CASE SweepOrphan
  BY <1>4, <1>0, LimitKept DEF SweepOrphan, Active, Open
<1>5. CASE UNCHANGED vars
  BY <1>5, <1>0, LimitKept DEF vars, Active, Open
<1> QED
  BY <1>1, <1>2, <1>3, <1>4, <1>5 DEF Next

(* "Limits how many pending/processing archives one user may hold"         *)
(* (docs/ARCHITECTURE.md): until two requests overlap, no more than        *)
(* MaxActive are open, whatever builds, deletions and sweeps do meanwhile. *)
THEOREM Limited == Spec => []ActiveIsLimited
<1>1. Init => LimitInv
  <2> SUFFICES ASSUME Init PROVE LimitInv
    OBVIOUS
  <2>1. TypeOK
    BY InitTypes
  <2>2. Active = {}
    BY DEF Init, Active, Open
  <2>3. IsFiniteSet(Active) /\ Cardinality(Active) = 0
    BY <2>2, FS_EmptySet
  <2> QED
    BY <2>1, <2>3, ArchiveAssumption DEF Init, LimitInv
<1>2. LimitInv => ActiveIsLimited
  BY DEF LimitInv, ActiveIsLimited, Active
<1> QED
  BY <1>1, <1>2, LimitStep, PTL DEF Spec

-----------------------------------------------------------------------------
(* A step takes a slot only where one is free, and a build that starts to  *)
(* run without one is an overrun.                                          *)
LEMMA CapStep == CapInv /\ [Next]_vars => CapInv'
<1> SUFFICES ASSUME CapInv, [Next]_vars PROVE CapInv'
  OBVIOUS
<1>0. TypeOK'
  BY TypeStep DEF CapInv
<1> USE DEF TypeOK, CapInv, RunningSet, Running
<1>1. ASSUME IsFiniteSet(slots'), Cardinality(slots') <= MaxSlots,
             ~overrun' => RunningSet' \subseteq slots'
      PROVE CapInv'
  BY <1>0, <1>1
<1>2. ASSUME UNCHANGED <<slots, overrun>>, RunningSet' \subseteq RunningSet
      PROVE CapInv'
  BY <1>1, <1>2
<1>3. ASSUME NEW a \in Archive, slots' = slots \ {a}
      PROVE IsFiniteSet(slots') /\ Cardinality(slots') <= MaxSlots
  <2>1. /\ IsFiniteSet(slots \ {a})
        /\ Cardinality(slots \ {a}) <= Cardinality(slots)
    BY FS_Subset
  <2>2. /\ Cardinality(slots) \in Nat
        /\ Cardinality(slots \ {a}) \in Nat
    BY <2>1, FS_CardinalityType
  <2> QED
    BY <1>3, <2>1, <2>2, ArchiveAssumption
<1>4. ASSUME NEW a \in Archive, EndTask(a), UNCHANGED overrun PROVE CapInv'
  BY <1>1, <1>3, <1>4 DEF EndTask
<1>5. ASSUME NEW a \in Archive, Requests(a) PROVE CapInv'
  BY <1>5, <1>2
     DEF Requests, Create, CommitCreate, Delete, CommitDelete
<1>6. ASSUME NEW a \in Archive, TakeSlot(a) PROVE CapInv'
  <2>1. CASE SlotFree /\ slots' = slots \cup {a} /\ UNCHANGED overrun
    <3>1. IsFiniteSet(slots') /\ Cardinality(slots') <= MaxSlots
      <4>1. Cardinality(slots) \in Nat
        BY FS_CardinalityType
      <4>2. IsFiniteSet(slots \cup {a})
        BY FS_AddElement
      <4>3. \/ Cardinality(slots \cup {a}) = Cardinality(slots)
            \/ Cardinality(slots \cup {a}) = Cardinality(slots) + 1
        BY FS_AddElement
      <4> QED
        BY <2>1, <4>1, <4>2, <4>3, ArchiveAssumption DEF SlotFree
    <3> QED
      BY <1>1, <1>6, <2>1, <3>1 DEF TakeSlot
  <2>2. CASE overrun' /\ UNCHANGED slots
    BY <1>1, <2>2
  <2> QED
    BY <1>6, <2>1, <2>2 DEF TakeSlot
<1>7. ASSUME NEW a \in Archive,
             GiveUp(a) \/ BuildStart(a) \/ Store(a) \/ BuildFails(a)
               \/ BuildEnds(a) \/ Crash(a)
      PROVE CapInv'
  BY <1>7, <1>2, <1>4
     DEF GiveUp, BuildStart, Store, BuildFails, BuildEnds, Crash
<1>8. ASSUME NEW a \in Archive, LeaseEnds(a) PROVE CapInv'
  BY <1>1, <1>3, <1>8 DEF LeaseEnds
<1>9. ASSUME NEW a \in Archive, SweepStale(a) PROVE CapInv'
  BY <1>9, <1>2 DEF SweepStale
<1>10. CASE SweepOrphan
  BY <1>10, <1>2 DEF SweepOrphan
<1>11. CASE UNCHANGED vars
  BY <1>11, <1>2 DEF vars
<1> QED
  BY <1>5, <1>6, <1>7, <1>8, <1>9, <1>10, <1>11 DEF Next, Build

(* "Instance-wide concurrency is capped" (tasks/downloads.py): until a     *)
(* build outlives its lease or runs without a slot, no more than MaxSlots  *)
(* of them run, however many archives and requests there are.              *)
THEOREM Capped == Spec => []BuildsAreCapped
<1>1. Init => CapInv
  <2> SUFFICES ASSUME Init PROVE CapInv
    OBVIOUS
  <2>1. TypeOK
    BY InitTypes
  <2>2. IsFiniteSet(slots) /\ Cardinality(slots) = 0
    BY FS_EmptySet DEF Init
  <2> QED
    BY <2>1, <2>2, ArchiveAssumption DEF Init, CapInv, RunningSet, Running
<1>2. CapInv => BuildsAreCapped
  <2> SUFFICES ASSUME CapInv, ~overrun
               PROVE Cardinality(RunningSet) <= MaxSlots
    BY DEF BuildsAreCapped, RunningSet
  <2>1. /\ IsFiniteSet(RunningSet)
        /\ Cardinality(RunningSet) <= Cardinality(slots)
    BY FS_Subset DEF CapInv
  <2> QED
    BY <2>1, FS_CardinalityType, ArchiveAssumption DEF CapInv
<1> QED
  BY <1>1, <1>2, CapStep, PTL DEF Spec

-----------------------------------------------------------------------------
(* What a step leaves alone of the shared file.                            *)
LEMMA FileKept ==
  ASSUME FileInv, TypeOK', UNCHANGED <<file, stored, bytes, deleting, shared>>,
         \A a \in Archive : task'[a] = "new" => task[a] = "new",
         \A a \in Archive : status'[a] = "ready" => status[a] = "ready"
  PROVE  FileInv'
BY DEF FileInv

(* Every step keeps a file with its ready archives: builds add both at     *)
(* once, deletions and the orphan sweep take only what no archive refers   *)
(* to.                                                                     *)
LEMMA FileStep == FileInv /\ [Next]_vars => FileInv'
<1> SUFFICES ASSUME FileInv, [Next]_vars PROVE FileInv'
  OBVIOUS
<1>0. TypeOK'
  BY TypeStep DEF FileInv
<1>1. ASSUME NEW a \in Archive, Requests(a) PROVE FileInv'
  <2>1. CASE CommitCreate(a) \/ \E sent \in BOOLEAN : Create(a, sent)
    BY <2>1, <1>0, FileKept DEF Create, CommitCreate, FileInv, TypeOK
  <2>2. CASE Delete(a)
    <3> DEFINE withFile == a \in file /\ stored /\ Unreferenced(a)
    <3>1. CASE withFile
      BY <1>0, <2>2, <3>1 DEF Delete, Unreferenced, FileInv, TypeOK
    <3>2. CASE ~withFile
      BY <1>0, <2>2, <3>2 DEF Delete, FileInv, TypeOK
    <3> QED
      BY <3>1, <3>2
  <2>3. CASE CommitDelete(a)
    <3>1. CASE deleting[a] = "file"
      BY <1>0, <2>3, <3>1 DEF CommitDelete, FileInv, TypeOK
    <3>2. CASE deleting[a] # "file"
      BY <1>0, <2>3, <3>2 DEF CommitDelete, FileInv, TypeOK
    <3> QED
      BY <3>1, <3>2
  <2> QED
    BY <1>1, <2>1, <2>2, <2>3 DEF Requests
<1>2. ASSUME NEW a \in Archive, Build(a) PROVE FileInv'
  <2>1. CASE TakeSlot(a) \/ GiveUp(a) \/ BuildStart(a) \/ BuildFails(a)
             \/ Crash(a) \/ LeaseEnds(a)
    BY <2>1, <1>0, FileKept
       DEF TakeSlot, GiveUp, BuildStart, BuildFails, Crash, LeaseEnds, EndTask,
           MarkedFailed, FileInv, TypeOK
  <2>2. CASE Store(a)
    BY <2>2, <1>0 DEF Store, FileInv, TypeOK
  <2>3. CASE BuildEnds(a)
    <3>1. CASE Row(a) /\ (task[a] = "existing" => stored)
      BY <2>3, <3>1, <1>0 DEF BuildEnds, EndTask, FileInv, TypeOK
    <3>2. CASE ~(Row(a) /\ (task[a] = "existing" => stored))
      BY <2>3, <3>2, <1>0, FileKept
         DEF BuildEnds, EndTask, MarkedFailed, FileInv, TypeOK
    <3> QED
      BY <3>1, <3>2
  <2> QED
    BY <1>2, <2>1, <2>2, <2>3 DEF Build
<1>3. ASSUME NEW a \in Archive, SweepStale(a) PROVE FileInv'
  BY <1>3, <1>0, FileKept DEF SweepStale, FileInv, TypeOK
<1>4. CASE SweepOrphan
  BY <1>4, <1>0 DEF SweepOrphan, FileInv, TypeOK
<1>5. CASE UNCHANGED vars
  BY <1>5, <1>0, FileKept DEF vars
<1> QED
  BY <1>1, <1>2, <1>3, <1>4, <1>5 DEF Next

(* Deleting one of several archives that share a file never takes the file *)
(* from the others: what is ready and not being deleted can be downloaded, *)
(* unless a build took the file over while it was deleted.                 *)
THEOREM Served == Spec => []ReadyIsServed
<1>1. Init => FileInv
  BY InitTypes DEF Init, FileInv
<1>2. FileInv => ReadyIsServed
  BY DEF FileInv, ReadyIsServed
<1> QED
  BY <1>1, <1>2, FileStep, PTL DEF Spec

=============================================================================
