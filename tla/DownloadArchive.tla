--------------------------- MODULE DownloadArchive ---------------------------
(***************************************************************************)
(* The ZIP archives one user asks for (songhive/api/routes/downloads.py,   *)
(* songhive/tasks/downloads.py, songhive/services/downloads.py) and the    *)
(* file store beneath them (songhive/services/storage.py,                  *)
(* songhive/tasks/storage.py), which keeps equal contents once.            *)
(*                                                                         *)
(* All archives here are of the same selection of local tracks, so their   *)
(* ZIPs are equal: they share one StoredFile.  Time is abstracted: a build *)
(* may take longer than a lease and than the sweep's patience.             *)
(***************************************************************************)
EXTENDS Naturals, FiniteSets

CONSTANTS
  Archive,    \* bound: the archives ever asked for
  MaxActive,  \* downloads.max_active_per_user
  MaxSlots,   \* downloads.max_concurrent_archives
  MaxFaults   \* bound: dead workers, a silent broker, Redis down

ASSUME ArchiveAssumption ==
  /\ MaxActive \in Nat \ {0}
  /\ MaxSlots \in Nat \ {0}
  /\ MaxFaults \in Nat

VARIABLES
  status,    \* DownloadArchive.status, and before and after the row exists
  file,      \* archives whose archive_file_id is set
  stored,    \* the StoredFile row exists
  bytes,     \* the storage backend has its bytes
  task,      \* build_download_archive of each archive
  slots,     \* the sorted set songhive:downloads:archive-slots
  deleting,  \* transactions that delete an archive
  faults,
  \* History.
  overrun,   \* a build has outlived its lease, or run without a slot
  crossed,   \* two requests for archives overlapped
  shared     \* a build has taken over a file that was being deleted

vars == <<status, file, stored, bytes, task, slots, deleting, faults,
          overrun, crossed, shared>>

Status == {"none", "inserted", "pending", "processing", "ready", "failed", "gone"}
Task == {"none", "queued", "slot", "building", "new", "existing"}
Deleting == {"no", "row", "file"}

TypeOK ==
  /\ status \in [Archive -> Status]
  /\ file \subseteq Archive
  /\ stored \in BOOLEAN /\ bytes \in BOOLEAN
  /\ task \in [Archive -> Task]
  /\ slots \subseteq Archive
  /\ deleting \in [Archive -> Deleting]
  /\ faults \in 0..MaxFaults
  /\ overrun \in BOOLEAN /\ crossed \in BOOLEAN /\ shared \in BOOLEAN

Init ==
  /\ status = [a \in Archive |-> "none"]
  /\ file = {}
  /\ stored = FALSE /\ bytes = FALSE
  /\ task = [a \in Archive |-> "none"]
  /\ slots = {}
  /\ deleting = [a \in Archive |-> "no"]
  /\ faults = 0
  /\ overrun = FALSE /\ crossed = FALSE /\ shared = FALSE

Fault ==
  /\ faults < MaxFaults
  /\ faults' = faults + 1

Row(a) == status[a] \in {"pending", "processing", "ready", "failed"}
Open(a) == status[a] \in {"pending", "processing"}
Finished(a) == status[a] \in {"ready", "failed"}

(* A task between the acquisition and the release of its slot.             *)
Running(a) == task[a] \in {"slot", "building", "new", "existing"}

-----------------------------------------------------------------------------
(***************************************************************************)
(* Requests.                                                               *)
(***************************************************************************)

(* Mutant: an archive that is being built does not count.                  *)
ActivePending == {a \in Archive : status[a] = "pending"}

(* _ACTIVE_STATUSES, as another transaction sees them.                     *)
Active == {a \in Archive : Open(a)}

(* create_download_archive: counted, inserted, and sent before the commit. *)
Create(a, sent) ==
  /\ status[a] = "none"
  /\ Cardinality(Active) < MaxActive
  /\ status' = [status EXCEPT ![a] = "inserted"]
  /\ IF sent THEN task' = [task EXCEPT ![a] = "queued"] /\ UNCHANGED faults
             ELSE Fault /\ UNCHANGED task
  /\ crossed' = (crossed \/ \E b \in Archive : status[b] = "inserted")
  /\ UNCHANGED <<file, stored, bytes, slots, deleting, overrun, shared>>

CommitCreate(a) ==
  /\ status[a] = "inserted"
  /\ status' = [status EXCEPT ![a] = "pending"]
  /\ UNCHANGED <<file, stored, bytes, task, slots, deleting, faults,
                 overrun, crossed, shared>>

(* Mutant: the file goes with its first archive.                           *)
LastReference(a) == TRUE

(* delete_archive_payload counts the other archives of the file.           *)
Unreferenced(a) == file \ {a} = {}

(* delete_download_archive, and of the finished clear_completed_downloads  *)
(* and the retention of _cleanup_archives: the bytes go before the commit. *)
Delete(a) ==
  /\ Row(a) /\ deleting[a] = "no"
  /\ LET withFile == a \in file /\ stored /\ Unreferenced(a)
     IN  /\ deleting' = [deleting EXCEPT ![a] = IF withFile THEN "file" ELSE "row"]
         /\ bytes' = (bytes /\ ~withFile)
  /\ UNCHANGED <<status, file, stored, task, slots, faults, overrun, crossed, shared>>

(* The StoredFile goes, and ON DELETE SET NULL clears what refers to it.   *)
CommitDelete(a) ==
  /\ deleting[a] # "no"
  /\ deleting' = [deleting EXCEPT ![a] = "no"]
  /\ status' = [status EXCEPT ![a] = "gone"]
  /\ IF deleting[a] = "file"
       THEN stored' = FALSE /\ file' = {}
       ELSE file' = file \ {a} /\ UNCHANGED stored
  /\ UNCHANGED <<bytes, task, slots, faults, overrun, crossed, shared>>

-----------------------------------------------------------------------------
(***************************************************************************)
(* build_download_archive.                                                 *)
(***************************************************************************)

(* Mutant: the set may hold one slot too many.                             *)
SlotLeft == Cardinality(slots) <= MaxSlots

SlotFree == Cardinality(slots) < MaxSlots

(* _acquire_slot, which lets the build go on if Redis cannot be asked.     *)
TakeSlot(a) ==
  /\ task[a] = "queued"
  /\ task' = [task EXCEPT ![a] = "slot"]
  /\ \/ /\ SlotFree
        /\ slots' = slots \cup {a}
        /\ UNCHANGED <<faults, overrun>>
     \/ /\ Fault
        /\ overrun' = TRUE
        /\ UNCHANGED slots
  /\ UNCHANGED <<status, file, stored, bytes, deleting, crossed, shared>>

(* _mark_failed.                                                           *)
MarkedFailed(a) ==
  IF Open(a) THEN [status EXCEPT ![a] = "failed"] ELSE status

(* No slot in 240 retries.                                                 *)
GiveUp(a) ==
  /\ task[a] = "queued"
  /\ ~SlotFree
  /\ task' = [task EXCEPT ![a] = "none"]
  /\ status' = MarkedFailed(a)
  /\ UNCHANGED <<file, stored, bytes, slots, deleting, faults, overrun, crossed, shared>>

(* The task is over and its slot, if the lease still runs, is free.        *)
EndTask(a) ==
  /\ task' = [task EXCEPT ![a] = "none"]
  /\ slots' = slots \ {a}

ToBuild(a) == Open(a)

(* _build_archive: a row that is not there yet, or not open, ends the task.*)
BuildStart(a) ==
  /\ task[a] = "slot"
  /\ IF ToBuild(a)
       THEN /\ status' = [status EXCEPT ![a] = "processing"]
            /\ task' = [task EXCEPT ![a] = "building"]
            /\ UNCHANGED slots
       ELSE EndTask(a) /\ UNCHANGED status
  /\ UNCHANGED <<file, stored, bytes, deleting, faults, overrun, crossed, shared>>

(* store_file: a StoredFile of the same hash is taken as it is; a new one  *)
(* waits for another transaction that inserts the same hash.               *)
Store(a) ==
  /\ task[a] = "building"
  /\ Row(a)
  /\ \A b \in Archive : task[b] # "new"
  /\ IF stored
       THEN task' = [task EXCEPT ![a] = "existing"] /\ UNCHANGED bytes
       ELSE task' = [task EXCEPT ![a] = "new"] /\ bytes' = TRUE
  /\ UNCHANGED <<status, file, stored, slots, deleting, faults, overrun, crossed, shared>>

(* The archive has been deleted meanwhile, or no item could be had.        *)
BuildFails(a) ==
  /\ task[a] = "building"
  /\ EndTask(a)
  /\ status' = MarkedFailed(a)
  /\ UNCHANGED <<file, stored, bytes, deleting, faults, overrun, crossed, shared>>

(* The commit: the row may have been deleted, or the file it refers to; a  *)
(* row that a sweep has failed becomes ready.                              *)
BuildEnds(a) ==
  /\ task[a] \in {"new", "existing"}
  /\ EndTask(a)
  /\ IF Row(a) /\ (task[a] = "existing" => stored)
       THEN /\ status' = [status EXCEPT ![a] = "ready"]
            /\ file' = file \cup {a}
            /\ stored' = TRUE
            /\ shared' = (shared \/ \E b \in Archive : deleting[b] = "file")
       ELSE /\ status' = MarkedFailed(a)
            /\ UNCHANGED <<file, stored, shared>>
  /\ UNCHANGED <<bytes, deleting, faults, overrun, crossed>>

(* The worker dies.  Its slot stays until the lease ends.                  *)
Crash(a) ==
  /\ Running(a)
  /\ Fault
  /\ task' = [task EXCEPT ![a] = "none"]
  /\ UNCHANGED <<status, file, stored, bytes, slots, deleting, overrun, crossed, shared>>

(* The lease is never renewed.                                             *)
LeaseEnds(a) ==
  /\ a \in slots
  /\ slots' = slots \ {a}
  /\ overrun' = (overrun \/ Running(a))
  /\ UNCHANGED <<status, file, stored, bytes, task, deleting, faults, crossed, shared>>

-----------------------------------------------------------------------------
(***************************************************************************)
(* The hourly sweeps.                                                      *)
(***************************************************************************)

(* Mutant: a row whose task never came is not looked at.                   *)
StaleProcessing(a) == status[a] = "processing"

Stale(a) == Open(a)

(* _cleanup_archives fails what has been open for too long.                *)
SweepStale(a) ==
  /\ Stale(a)
  /\ status' = [status EXCEPT ![a] = "failed"]
  /\ UNCHANGED <<file, stored, bytes, task, slots, deleting, faults,
                 overrun, crossed, shared>>

(* _cleanup_orphaned_files.                                                *)
SweepOrphan ==
  /\ stored /\ file = {}
  /\ stored' = FALSE /\ bytes' = FALSE
  /\ UNCHANGED <<status, file, task, slots, deleting, faults, overrun, crossed, shared>>

-----------------------------------------------------------------------------
Requests(a) ==
  \/ \E sent \in BOOLEAN : Create(a, sent)
  \/ CommitCreate(a) \/ Delete(a) \/ CommitDelete(a)

Build(a) ==
  \/ TakeSlot(a) \/ GiveUp(a) \/ BuildStart(a)
  \/ Store(a) \/ BuildFails(a) \/ BuildEnds(a)
  \/ Crash(a) \/ LeaseEnds(a)

Next == SweepOrphan \/ \E a \in Archive : Requests(a) \/ Build(a) \/ SweepStale(a)

Spec == Init /\ [][Next]_vars

(* A request ends, and the sweep comes every hour.  Nothing is asked of    *)
(* the broker and the workers.                                             *)
Fairness ==
  \A a \in Archive :
    WF_vars(CommitCreate(a)) /\ WF_vars(CommitDelete(a)) /\ WF_vars(SweepStale(a))

FairSpec == Spec /\ Fairness

-----------------------------------------------------------------------------
(***************************************************************************)
(* Properties.                                                             *)
(***************************************************************************)

(* "Limits how many pending/processing archives one user may hold": but    *)
(* for requests that overlap.                                              *)
ActiveIsLimited == ~crossed => Cardinality({a \in Archive : Open(a)}) <= MaxActive

(* "Instance-wide concurrency is capped": but for builds that outlive      *)
(* their lease, which is not renewed, or run while Redis is down.          *)
BuildsAreCapped ==
  ~overrun => Cardinality({a \in Archive : Running(a)}) <= MaxSlots

(* A ready archive can be downloaded, whoever shares its file, unless its  *)
(* build took the file over while the last other archive was being deleted.*)
ReadyIsServed ==
  ~shared => \A a \in Archive : status[a] = "ready" /\ deleting[a] = "no" =>
               a \in file /\ stored /\ bytes

(* However the task, the broker and the workers fail, an archive does not  *)
(* stay open for ever.                                                     *)
ArchiveEnds == \A a \in Archive : (status[a] # "none") ~> (Finished(a) \/ status[a] = "gone")

=============================================================================
