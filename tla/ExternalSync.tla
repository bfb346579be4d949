---------------------------- MODULE ExternalSync ----------------------------
(***************************************************************************)
(* The syncs of one external library (songhive/external/sync.py,           *)
(* songhive/external/watchdog.py, songhive/tasks/external_libraries.py and *)
(* the sync route).  A sync is a task that a user asks for, the schedule   *)
(* finds due, or the watchdog of a local library sends after changes on    *)
(* disk.  A lock in Redis lets one of them through.                        *)
(*                                                                         *)
(* Some names start with Sync, so that the proofs can extend this module   *)
(* together with ExternalTrack.                                            *)
(***************************************************************************)
EXTENDS FiniteSets, Integers

CONSTANTS
  Change,        \* the changes on disk, each of them made once
  Dir,           \* the directories of the library
  MaxTasks,      \* bound: sync tasks at one time
  MaxSyncFaults  \* bound: crashes, errors and lost messages

Kind == {"add", "delete"}

ASSUME ExternalSyncAssumption ==
  /\ Change \subseteq [name : STRING, kind : Kind, dir : Dir]
  /\ IsFiniteSet(Change)
  /\ {"full", "since"} \cap Dir = {}
  /\ MaxTasks \in Nat \ {0}
  /\ MaxSyncFaults \in Nat

Task == 1..MaxTasks

VARIABLES
  \* The library.
  enabled,    \* enabled and sync_enabled
  made,       \* the changes made so far
  unseen,     \* those the catalogue does not show yet
  \* The watchdog.
  watch,      \* awatch is "up", "paused" after an error, or "down"
  events,     \* changes awatch has collected and not yet reported
  noticed,    \* _LibraryWatchState: the changes of the open window
  before,     \* those of them whose mtime is not after window_start
  \* The tasks and their runs.
  task,       \* what each task is about to do
  lock,       \* the task that has set the lock, or 0; its value is always "1"
  stranded,   \* a run is queued or running and has no task any more
  syncFaults,
  \* History.
  missed,     \* changes that have slipped through one of the gaps named below
  overran     \* a sync has outlived its lock, and syncs have overlapped since

disk == <<enabled, made, unseen>>
watchdog == <<watch, events, noticed, before>>
syncVars == <<disk, watchdog, task, lock, stranded, syncFaults, missed, overran>>

Free == [stage |-> "free"]

Stage == {"posted", "sent", "locked", "syncing", "listed", "done"}
Run == {"none", "queued", "running"}

TaskType ==
  [stage : Stage, run : Run, scope : {"full", "since"} \cup Dir,
   targets : SUBSET Change, before : SUBSET Change, sees : SUBSET Change]

SyncTypeOK ==
  /\ enabled \in BOOLEAN
  /\ made \subseteq Change /\ unseen \subseteq made
  /\ watch \in {"up", "paused", "down"}
  /\ events \subseteq made /\ noticed \subseteq made /\ before \subseteq made
  /\ task \in [Task -> TaskType \cup {Free}]
  /\ lock \in Task \cup {0}
  /\ stranded \in BOOLEAN
  /\ syncFaults \in 0..MaxSyncFaults
  /\ missed \subseteq made
  /\ overran \in BOOLEAN

SyncInit ==
  /\ enabled = TRUE
  /\ made = {} /\ unseen = {}
  /\ watch = "up"
  /\ events = {} /\ noticed = {} /\ before = {}
  /\ task = [t \in Task |-> Free]
  /\ lock = 0
  /\ stranded = FALSE
  /\ syncFaults = 0
  /\ missed = {}
  /\ overran = FALSE

SyncFault ==
  /\ syncFaults < MaxSyncFaults
  /\ syncFaults' = syncFaults + 1

Active == {t \in Task : task[t].stage \in {"locked", "syncing", "listed", "done"}}

FreeTask == {t \in Task : task[t] = Free}
NextFree == CHOOSE t \in FreeTask : \A u \in FreeTask : t <= u

NewTask(stage, run, scope, targets) ==
  [stage |-> stage, run |-> run, scope |-> scope, targets |-> targets,
   before |-> IF scope = "since" THEN before ELSE {}, sees |-> {}]

-----------------------------------------------------------------------------
(***************************************************************************)
(* The disk and the library's settings.                                    *)
(***************************************************************************)

Make(c) ==
  /\ c \notin made
  /\ made' = made \cup {c}
  /\ unseen' = unseen \cup {c}
  /\ events' = IF watch = "up" THEN events \cup {c} ELSE events
  /\ missed' = IF watch = "up" THEN missed ELSE missed \cup {c}
  /\ UNCHANGED <<enabled, watch, noticed, before, task, lock, stranded, syncFaults, overran>>

(* The library is disabled, or enabled again.                              *)
Toggle ==
  /\ enabled' = ~enabled
  /\ UNCHANGED <<made, unseen, watchdog, task, lock, stranded, syncFaults, missed, overran>>

-----------------------------------------------------------------------------
(***************************************************************************)
(* The watchdog.                                                           *)
(***************************************************************************)

(* _handle_batch: awatch reports what it has collected for up to 1.6 s.    *)
(* The window starts 1 s before the report that opens it, so the first     *)
(* changes of a burst may be older, and so may a file that is moved in.    *)
Notice(old) ==
  /\ watch = "up"
  /\ events # {}
  /\ old \subseteq events
  /\ noticed' = noticed \cup events
  /\ before' = before \cup old
  /\ events' = {}
  /\ UNCHANGED <<disk, watch, task, lock, stranded, syncFaults, missed, overran>>

Deleted == {c \in noticed : c.kind = "delete"}

(* _deepest_common_ancestor.                                               *)
DeleteScope ==
  IF \E d \in Dir : \A c \in Deleted : c.dir = d
    THEN CHOOSE d \in Dir : \A c \in Deleted : c.dir = d
    ELSE "full"

(* Mutant: a mixed window is flushed as an incremental sync.               *)
MessagesSinceOnly ==
  IF noticed \subseteq Deleted
    THEN {NewTask("sent", "none", DeleteScope, Deleted)}
    ELSE {NewTask("sent", "none", "since", noticed)}

Messages ==
  (IF Deleted = {} THEN {} ELSE {NewTask("sent", "none", DeleteScope, Deleted)})
    \cup (IF noticed \subseteq Deleted THEN {}
          ELSE {NewTask("sent", "none", "since", noticed \ Deleted)})

(* The quiet window ends.  Both messages are sent at once, and one that    *)
(* cannot be sent is only logged.                                          *)
Flush(sent) ==
  /\ noticed # {}
  /\ sent \subseteq Messages
  /\ Cardinality(Messages) <= Cardinality(FreeTask)
  /\ IF sent = Messages THEN UNCHANGED syncFaults ELSE SyncFault
  /\ \E f \in [Messages -> FreeTask] :
       /\ \A m, n \in Messages : f[m] = f[n] => m = n
       /\ task' = [t \in Task |-> IF \E m \in sent : f[m] = t
                                    THEN CHOOSE m \in sent : f[m] = t
                                    ELSE task[t]]
  /\ missed' = missed \cup UNION {m.targets : m \in Messages \ sent}
  /\ noticed' = {} /\ before' = {}
  /\ UNCHANGED <<disk, watch, events, lock, stranded, overran>>

(* awatch fails: what it has collected is lost, a full sync is sent, and   *)
(* nothing is watched for a second.                                        *)
WatchFails ==
  /\ watch = "up"
  /\ SyncFault
  /\ FreeTask # {}
  /\ watch' = "paused"
  /\ events' = {}
  /\ task' = [task EXCEPT ![NextFree] = NewTask("sent", "none", "full", events)]
  /\ UNCHANGED <<disk, noticed, before, lock, stranded, missed, overran>>

WatchResumes ==
  /\ watch # "up"
  /\ watch' = "up"
  /\ UNCHANGED <<disk, events, noticed, before, task, lock, stranded, syncFaults, missed, overran>>

(* The process dies, or the set of local libraries has changed and the     *)
(* supervisor starts a new watcher: the open window is lost with the old   *)
(* one.                                                                    *)
Rewatch ==
  /\ watch = "up"
  /\ watch' = "down"
  /\ missed' = missed \cup events \cup noticed
  /\ events' = {} /\ noticed' = {} /\ before' = {}
  /\ UNCHANGED <<disk, task, lock, stranded, syncFaults, overran>>

-----------------------------------------------------------------------------
(***************************************************************************)
(* The user and the schedule.                                              *)
(***************************************************************************)

(* sync_external_library_route commits a queued run ...                    *)
Manual ==
  /\ FreeTask # {}
  /\ task' = [task EXCEPT ![NextFree] = NewTask("posted", "queued", "full", {})]
  /\ UNCHANGED <<disk, watchdog, lock, stranded, syncFaults, missed, overran>>

(* ... and sends the task.  If that fails the run has failed.              *)
Send(t, ok) ==
  /\ task[t].stage = "posted"
  /\ IF ok THEN UNCHANGED syncFaults ELSE SyncFault
  /\ task' = [task EXCEPT ![t] = IF ok THEN [@ EXCEPT !.stage = "sent"] ELSE Free]
  /\ UNCHANGED <<disk, watchdog, lock, stranded, missed, overran>>

ActiveRun == stranded \/ \E t \in Task : task[t] # Free /\ task[t].run # "none"

(* _scan_scheduled_syncs: a library with an active run is skipped, and so  *)
(* is one that is not due.                                                 *)
Scan ==
  /\ enabled
  /\ ~ActiveRun
  /\ FreeTask # {}
  /\ task' = [task EXCEPT ![NextFree] = NewTask("sent", "none", "full", {})]
  /\ UNCHANGED <<disk, watchdog, lock, stranded, syncFaults, missed, overran>>

-----------------------------------------------------------------------------
(***************************************************************************)
(* sync_external_library.                                                  *)
(***************************************************************************)

(* The task t is over; its run, if it has one that is not closed, is       *)
(* nobody's any more.                                                      *)
Ends(t, closed) ==
  /\ task' = [task EXCEPT ![t] = Free]
  /\ stranded' = (stranded \/ (~closed /\ task[t].run # "none"))
  /\ missed' = missed \cup (task[t].targets \cap unseen)

Settles == overran' = (overran /\ Active' # {})

(* The lock is deleted without a look at who has set it.                   *)
ReleaseLock == lock' = 0

(* Mutant: a task that is refused deletes the lock as well.                *)
RefusedReleases(t) ==
  /\ task[t].stage = "sent"
  /\ lock # 0
  /\ ReleaseLock
  /\ Ends(t, FALSE)
  /\ UNCHANGED <<disk, watchdog, syncFaults, overran>>

(* "sync already running": the run is not even loaded.                     *)
Refused(t) ==
  /\ task[t].stage = "sent"
  /\ lock # 0
  /\ Ends(t, FALSE)
  /\ UNCHANGED <<disk, watchdog, lock, syncFaults, overran>>

TakeLock(t) ==
  /\ task[t].stage = "sent"
  /\ lock = 0
  /\ lock' = t
  /\ task' = [task EXCEPT ![t].stage = "locked"]
  /\ UNCHANGED <<disk, watchdog, stranded, syncFaults, missed, overran>>

(* The library is disabled, or its provider is not to be had: the sync     *)
(* ends before it has loaded its run.                                      *)
Unusable(t) ==
  /\ task[t].stage = "locked"
  /\ IF enabled THEN SyncFault ELSE UNCHANGED syncFaults
  /\ ReleaseLock
  /\ Ends(t, FALSE)
  /\ Settles
  /\ UNCHANGED <<disk, watchdog>>

Begin(t) ==
  /\ task[t].stage = "locked"
  /\ enabled
  /\ task' = [task EXCEPT ![t].stage = "syncing", ![t].run = "running"]
  /\ UNCHANGED <<disk, watchdog, lock, stranded, syncFaults, missed, overran>>

(* Mutant: only a scoped sync marks what is missing.                       *)
ShownPresent(k) ==
  {c \in unseen :
     \/ k.scope = "full" /\ c.kind = "add"
     \/ k.scope = "since" /\ c.kind = "add" /\ c \notin k.before
     \/ k.scope = c.dir}

(* What the listing of a sync shows.                                       *)
Shown(k) ==
  {c \in unseen :
     \/ k.scope = "full"
     \/ k.scope = "since" /\ c.kind = "add" /\ c \notin k.before
     \/ k.scope = c.dir}

List(t) ==
  /\ task[t].stage = "syncing"
  /\ task' = [task EXCEPT ![t].stage = "listed", ![t].sees = Shown(task[t])]
  /\ UNCHANGED <<disk, watchdog, lock, stranded, syncFaults, missed, overran>>

(* An incremental sync overlooks what its target's mtime hides.            *)
Overlooked(k) ==
  {c \in k.targets \cap unseen :
     k.scope = "since" /\ c \in k.before}

(* The last commit closes the run, success or partial.                     *)
Finish(t) ==
  /\ task[t].stage = "listed"
  /\ unseen' = unseen \ task[t].sees
  /\ missed' = missed \cup Overlooked(task[t])
  /\ task' = [task EXCEPT ![t].stage = "done", ![t].run = "none"]
  /\ UNCHANGED <<enabled, made, watchdog, lock, stranded, syncFaults, overran>>

Release(t) ==
  /\ task[t].stage = "done"
  /\ ReleaseLock
  /\ task' = [task EXCEPT ![t] = Free]
  /\ Settles
  /\ UNCHANGED <<disk, watchdog, stranded, syncFaults, missed>>

(* An error on the way: the run has failed.                                *)
Fail(t) ==
  /\ task[t].stage \in {"syncing", "listed"}
  /\ SyncFault
  /\ ReleaseLock
  /\ Ends(t, TRUE)
  /\ Settles
  /\ UNCHANGED <<disk, watchdog>>

(* The process dies: the web server's before it has sent the task, or the  *)
(* worker's, which leaves the lock behind.                                 *)
Crash(t) ==
  /\ t \in Active \/ task[t].stage = "posted"
  /\ SyncFault
  /\ Ends(t, FALSE)
  /\ Settles
  /\ UNCHANGED <<disk, watchdog, lock>>

(* The lock's hour is over.  A sync that takes longer does not notice.     *)
Expire ==
  /\ lock # 0
  /\ IF lock \in Active THEN SyncFault /\ overran' = TRUE ELSE UNCHANGED <<syncFaults, overran>>
  /\ lock' = 0
  /\ UNCHANGED <<disk, watchdog, task, stranded, missed>>

-----------------------------------------------------------------------------
Watchdog ==
  \/ \E old \in SUBSET events : Notice(old)
  \/ \E sent \in SUBSET Messages : Flush(sent)
  \/ WatchFails \/ WatchResumes \/ Rewatch

SyncTask(t) ==
  \/ Refused(t) \/ TakeLock(t) \/ Unusable(t)
  \/ Begin(t) \/ List(t) \/ Finish(t) \/ Release(t)

SyncNext ==
  \/ \E c \in Change : Make(c)
  \/ Toggle \/ Watchdog
  \/ Manual \/ Scan \/ Expire
  \/ \E t \in Task :
       \/ \E ok \in BOOLEAN : Send(t, ok)
       \/ SyncTask(t) \/ Fail(t) \/ Crash(t)

SyncSpec == SyncInit /\ [][SyncNext]_syncVars

(* Beat scans for ever, a task that is sent is run, a lock expires, and    *)
(* the route goes on to send what it has queued.                           *)
SyncFairness ==
  /\ WF_syncVars(Scan)
  /\ WF_syncVars(Expire)
  /\ \A t \in Task : WF_syncVars(Send(t, TRUE)) /\ WF_syncVars(SyncTask(t))

FairSyncSpec == SyncSpec /\ SyncFairness

-----------------------------------------------------------------------------
(* Two syncs of a library do not run at one time, unless one outlives the  *)
(* hour of its lock.  From then on each may delete the lock of the next,   *)
(* and the overlap lasts until none of them is left.  (sync.py:1859, 1987.)*)
OneSyncAtATime == ~overran => Cardinality(Active) <= 1

(* When all is quiet the catalogue shows every change that was made under  *)
(* the eyes of the watchdog, but for those that slipped through a gap: a   *)
(* window lost with its watcher, a message that was not sent, a sync that  *)
(* was refused or failed, and an incremental sync that does not see old    *)
(* mtimes.  (watchdog.py:130-180.)                                         *)
WatchedIsSynced ==
  events = {} /\ noticed = {} /\ (\A t \in Task : task[t] = Free)
    => unseen \subseteq missed

(* Whatever the watchdog misses, the schedule finds, as long as the        *)
(* library is enabled and no run is left without a task.                   *)
(* (tasks/external_libraries.py:171-232.)                                  *)
ScheduleSyncs ==
  <>[](enabled /\ ~stranded) => \A c \in Change : c \in unseen ~> c \notin unseen

(* "scan_scheduled_syncs_task enqueues a sync for a due library and skips  *)
(* one with an active run" (tests/test_external_tasks.py:156): a library   *)
(* that stays enabled is synced again and again.  It is not: a manual sync *)
(* that is refused leaves its run queued, and counts as active for ever.   *)
DueIsSynced ==
  []enabled => []<>(\E t \in Task : task[t].stage = "syncing")
=============================================================================
