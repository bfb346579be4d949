----------------------------- MODULE StreamLock -----------------------------
(***************************************************************************)
(* Ownership of one server-side output among several stream workers        *)
(* (songhive/streams/worker.py).  A worker that discovers the output       *)
(* claims the Redis key songhive:stream:lock:{output_id} with SET NX EX    *)
(* and runs a SessionDriver.  The driver re-validates the key at the top   *)
(* of every loop iteration with a GET followed by an EXPIRE or a SET NX,   *)
(* and gives the key back with a GET followed by a DELETE.  None of these  *)
(* pairs is atomic, and the key expires on its own.                        *)
(*                                                                         *)
(* The key holds the driver's random token.  A worker runs at most one     *)
(* driver per output (its _tasks map), and a new one starts only after     *)
(* SET NX found no key, so a token is represented by its worker.           *)
(*                                                                         *)
(* Time is a tick.  age[w] counts the ticks since driver w last wrote the  *)
(* key's TTL.  An iteration normally fits in MaxAge ticks; what exceeds    *)
(* that (a slow provider, a spilled download, a stalled event loop) is     *)
(* counted in late, so "late = 0" reads "no driver has overrun yet".       *)
(***************************************************************************)
EXTENDS Integers, FiniteSets

CONSTANTS
  Worker,       \* the stream-worker processes
  NoLock,       \* the key does not exist
  LockTTL,      \* ticks a written key lives (worker_lock_ttl_seconds)
  MaxAge,       \* ticks a normal iteration may take, write to write
  MaxLate,      \* bound: ticks drivers may overrun in one behaviour
  MaxFaults     \* bound: errors, crashes and shutdowns in one behaviour

ASSUME LockAssumption ==
  /\ NoLock \notin Worker
  /\ LockTTL \in Nat \ {0}
  /\ MaxAge \in Nat
  /\ MaxLate \in Nat
  /\ MaxFaults \in Nat

VARIABLES
  lock,         \* the Redis key: the worker whose token it holds, or NoLock
  ttl,          \* its remaining ticks
  pc,           \* where each worker's task for this output is
  inLoop,       \* the driver has entered the try block around _main_loop
  closing,      \* shutdown of the worker: not asked, asked, tasks cancelled
  age,          \* ticks since the driver last wrote the key
  attached,     \* a session has this output attached and enabled
  present,      \* a controller or a listener uses the output
  late,         \* overrun ticks so far
  faults        \* faults so far

vars == <<lock, ttl, pc, inLoop, closing, age, attached, present, late, faults>>

(* pc of a worker whose driver may write or delete the key.                *)
Holding ==
  {"starting", "check", "expire", "setnx", "syncing", "running",
   "stopping", "release", "delete"}

(* pc of a worker whose driver feeds the output: driver.start() succeeded  *)
(* and driver.stop() has not been called.                                  *)
OnAir == {"check", "expire", "setnx", "syncing", "running", "stopping"}

Driving == {w \in Worker : pc[w] \in OnAir}

TypeOK ==
  /\ lock \in Worker \cup {NoLock}
  /\ ttl \in 0..LockTTL
  /\ pc \in [Worker -> Holding \cup {"down", "idle", "done"}]
  /\ inLoop \in [Worker -> BOOLEAN]
  /\ closing \in [Worker -> {"no", "asked", "cancelled"}]
  /\ age \in [Worker -> Nat]
  /\ attached \in BOOLEAN
  /\ present \in BOOLEAN
  /\ late \in 0..MaxLate
  /\ faults \in 0..MaxFaults

Init ==
  /\ lock = NoLock
  /\ ttl = 0
  /\ pc = [w \in Worker |-> "idle"]
  /\ inLoop = [w \in Worker |-> FALSE]
  /\ closing = [w \in Worker |-> "no"]
  /\ age = [w \in Worker |-> 0]
  /\ attached = FALSE
  /\ present = FALSE
  /\ late = 0
  /\ faults = 0

-----------------------------------------------------------------------------
(***************************************************************************)
(* Redis commands on the key.                                              *)
(***************************************************************************)

(* Fault variant: SET key token EX ttl, whoever holds the key.             *)
SetAnyway(w) ==
  /\ lock' = w
  /\ ttl' = LockTTL
  /\ age' = [age EXCEPT ![w] = 0]

(* SET key token NX EX ttl, when it succeeds.                              *)
SetNX(w) ==
  /\ lock = NoLock
  /\ lock' = w
  /\ ttl' = LockTTL
  /\ age' = [age EXCEPT ![w] = 0]

(* Fault variant: a refresh that forgets the EXPIRE.                       *)
ExtendNothing(w) ==
  /\ UNCHANGED <<lock, ttl>>
  /\ age' = IF lock = w THEN [age EXCEPT ![w] = 0] ELSE age

(* EXPIRE key ttl extends whatever token the key holds by now, and does    *)
(* nothing to a key that is gone.                                          *)
ExtendTTL(w) ==
  /\ UNCHANGED lock
  /\ ttl' = IF lock = NoLock THEN 0 ELSE LockTTL
  /\ age' = IF lock = w THEN [age EXCEPT ![w] = 0] ELSE age

(* DELETE key removes whatever token the key holds by now.                 *)
DeleteKey ==
  /\ lock' = NoLock
  /\ ttl' = 0
  /\ UNCHANGED age

KeyUntouched == UNCHANGED <<lock, ttl, age>>

Move(w, from, to) ==
  /\ pc[w] = from
  /\ pc' = [pc EXCEPT ![w] = to]

Fault ==
  /\ faults < MaxFaults
  /\ faults' = faults + 1

NoFault == UNCHANGED faults

EnvUnchanged == UNCHANGED <<closing, attached, present, late>>

-----------------------------------------------------------------------------
(***************************************************************************)
(* StreamWorker: discovery and reaping.                                    *)
(***************************************************************************)

(* _scan_sessions claims an output some session has attached and that this *)
(* worker does not drive yet.  Losing the SET NX changes nothing; an       *)
(* exception skips the output, with or without the key having been set.    *)
ScanSessions(w) ==
  /\ attached
  /\ closing[w] = "no"
  /\ \/ /\ Move(w, "idle", "starting")
        /\ SetNX(w)
        /\ NoFault
     \/ /\ pc[w] = "idle"
        /\ SetNX(w)
        /\ Fault
        /\ UNCHANGED pc
  /\ inLoop' = [inLoop EXCEPT ![w] = FALSE]
  /\ EnvUnchanged

(* _reap_finished forgets a finished task, so the output can be claimed.   *)
ReapFinished(w) ==
  /\ Move(w, "done", "idle")
  /\ KeyUntouched
  /\ NoFault
  /\ UNCHANGED inLoop
  /\ EnvUnchanged

-----------------------------------------------------------------------------
(***************************************************************************)
(* SessionDriver.run: start, validate the lock, loop, stop, release.       *)
(***************************************************************************)

(* _start_driver launches the provider driver, or raises: run() then goes  *)
(* straight to _release_lock.                                              *)
StartDriver(w) ==
  /\ \/ Move(w, "starting", "check") /\ NoFault
     \/ Move(w, "starting", "release") /\ Fault
  /\ KeyUntouched
  /\ UNCHANGED inLoop
  /\ EnvUnchanged

(* Fault variant: a refresh that takes any existing key for its own.       *)
RefreshGetAny(w) ==
  /\ \/ /\ lock # NoLock /\ Move(w, "check", "expire") /\ NoFault
     \/ /\ lock = NoLock /\ Move(w, "check", "setnx") /\ NoFault
     \/ Move(w, "check", "stopping") /\ Fault
  /\ KeyUntouched
  /\ UNCHANGED inLoop
  /\ EnvUnchanged

(* The GET of _acquire_or_refresh_lock: the driver's own token leads to    *)
(* EXPIRE, no key to SET NX, and a foreign token or an exception to False. *)
RefreshGet(w) ==
  /\ \/ /\ lock = w /\ Move(w, "check", "expire") /\ NoFault
     \/ /\ lock = NoLock /\ Move(w, "check", "setnx") /\ NoFault
     \/ /\ lock \notin {w, NoLock} /\ Move(w, "check", "stopping") /\ NoFault
     \/ Move(w, "check", "stopping") /\ Fault
  /\ KeyUntouched
  /\ UNCHANGED inLoop
  /\ EnvUnchanged

(* A refresh that returns True continues in run() the first time, which    *)
(* enters the try block with _sync_to_session, and in _main_loop later.    *)
Continue(w, from) ==
  /\ Move(w, from, IF inLoop[w] THEN "running" ELSE "syncing")
  /\ NoFault

(* The EXPIRE that follows: its reply is not looked at, so the refresh     *)
(* returns True even if the key expired or changed hands after the GET.    *)
RefreshExpire(w) ==
  /\ \/ /\ Continue(w, "expire")
        /\ ExtendTTL(w)
        /\ inLoop' = [inLoop EXCEPT ![w] = TRUE]
     \/ /\ Move(w, "expire", "stopping") /\ Fault
        /\ ExtendTTL(w) \/ KeyUntouched
        /\ UNCHANGED inLoop
  /\ EnvUnchanged

(* The SET NX that follows a GET that found no key.                        *)
RefreshSetNX(w) ==
  /\ \/ /\ Continue(w, "setnx")
        /\ SetNX(w)
        /\ inLoop' = [inLoop EXCEPT ![w] = TRUE]
     \/ /\ Move(w, "setnx", "stopping") /\ NoFault
        /\ lock # NoLock
        /\ KeyUntouched
        /\ UNCHANGED inLoop
     \/ /\ Move(w, "setnx", "stopping") /\ Fault
        /\ SetNX(w) \/ KeyUntouched
        /\ UNCHANGED inLoop
  /\ EnvUnchanged

(* _sync_to_session, then the first test of the loop condition.            *)
SyncToSession(w) ==
  /\ Move(w, "syncing", IF closing[w] = "no" THEN "check" ELSE "stopping")
  /\ KeyUntouched
  /\ NoFault
  /\ UNCHANGED inLoop
  /\ EnvUnchanged

(* Fault variant: a loop that never asks whether the output is attached.   *)
LoopBodyBlind(w) ==
  /\ \/ closing[w] = "no" /\ Move(w, "running", "check")
     \/ closing[w] # "no" /\ Move(w, "running", "stopping")
     \/ ~present /\ Move(w, "running", "stopping")
  /\ KeyUntouched
  /\ NoFault
  /\ UNCHANGED inLoop
  /\ EnvUnchanged

(* The rest of an iteration of _main_loop and the next test of its         *)
(* condition.  It ends because the output was detached, because nobody     *)
(* used it for long enough (_should_stop_on_idle, which marks the output   *)
(* "stopped"), because the worker is shutting down, or by an exception.  A *)
(* database error while looking for the output reads as "still attached".  *)
LoopBody(w) ==
  /\ \/ /\ attached /\ closing[w] = "no"
        /\ Move(w, "running", "check") /\ NoFault
     \/ /\ ~attached \/ closing[w] # "no"
        /\ Move(w, "running", "stopping") /\ NoFault
     \/ /\ attached /\ ~present
        /\ Move(w, "running", "stopping") /\ NoFault
     \/ /\ ~attached /\ closing[w] = "no"
        /\ Move(w, "running", "check") /\ Fault
     \/ /\ Move(w, "running", "stopping") /\ Fault
  /\ KeyUntouched
  /\ UNCHANGED inLoop
  /\ EnvUnchanged

(* _stop_driver: the output goes silent.                                   *)
StopDriver(w) ==
  /\ Move(w, "stopping", "release")
  /\ KeyUntouched
  /\ NoFault
  /\ UNCHANGED inLoop
  /\ EnvUnchanged

(* The GET of _release_lock.                                               *)
ReleaseGet(w) ==
  /\ \/ /\ lock = w /\ Move(w, "release", "delete") /\ NoFault
     \/ /\ lock # w /\ Move(w, "release", "done") /\ NoFault
     \/ Move(w, "release", "done") /\ Fault
  /\ KeyUntouched
  /\ UNCHANGED inLoop
  /\ EnvUnchanged

(* Its DELETE.                                                             *)
ReleaseDelete(w) ==
  /\ \/ Move(w, "delete", "done") /\ DeleteKey /\ NoFault
     \/ /\ Move(w, "delete", "done") /\ Fault
        /\ DeleteKey \/ KeyUntouched
  /\ UNCHANGED inLoop
  /\ EnvUnchanged

-----------------------------------------------------------------------------
(***************************************************************************)
(* Shutdown, crash and restart of a worker process.  A command the driver  *)
(* had sent when its task was cut short may still take effect.             *)
(***************************************************************************)

InFlight(w) ==
  \/ KeyUntouched
  \/ pc[w] = "expire" /\ ExtendTTL(w)
  \/ pc[w] = "setnx" /\ SetNX(w)
  \/ pc[w] = "delete" /\ DeleteKey

(* SIGTERM: the discovery loop and the drivers' loops see _shutting_down.  *)
RequestShutdown(w) ==
  /\ pc[w] # "down"
  /\ closing[w] = "no"
  /\ closing' = [closing EXCEPT ![w] = "asked"]
  /\ Fault
  /\ KeyUntouched
  /\ UNCHANGED <<pc, inLoop, attached, present, late>>

(* The end of StreamWorker.run cancels the tasks.  Only a driver inside    *)
(* the try block of SessionDriver.run gets to stop and release; anywhere   *)
(* else the cancellation leaves the coroutine and the process exits.       *)
CancelTasks(w) ==
  /\ closing[w] = "asked"
  /\ closing' = [closing EXCEPT ![w] = "cancelled"]
  /\ pc' = [pc EXCEPT ![w] =
       IF inLoop[w] /\ pc[w] \in OnAir \ {"stopping"} THEN "stopping"
                                                     ELSE "down"]
  /\ InFlight(w)
  /\ NoFault
  /\ UNCHANGED <<inLoop, attached, present, late>>

(* The cancelled tasks have been gathered.                                 *)
Exit(w) ==
  /\ closing[w] = "cancelled"
  /\ Move(w, "done", "down")
  /\ KeyUntouched
  /\ NoFault
  /\ UNCHANGED inLoop
  /\ EnvUnchanged

(* The process dies: nothing is released.                                  *)
Crash(w) ==
  /\ pc[w] # "down"
  /\ pc' = [pc EXCEPT ![w] = "down"]
  /\ InFlight(w)
  /\ Fault
  /\ UNCHANGED inLoop
  /\ EnvUnchanged

(* The supervisor starts the process again, with no memory of its tasks.   *)
Restart(w) ==
  /\ Move(w, "down", "idle")
  /\ closing' = [closing EXCEPT ![w] = "no"]
  /\ KeyUntouched
  /\ NoFault
  /\ UNCHANGED <<inLoop, attached, present, late>>

-----------------------------------------------------------------------------
(***************************************************************************)
(* The users, and time.                                                    *)
(***************************************************************************)

(* select_outputs attaches the output to a session or detaches it; a       *)
(* controlling tab or a listener comes or goes.                            *)
UserActs ==
  /\ \/ attached' = ~attached /\ UNCHANGED present
     \/ present' = ~present /\ UNCHANGED attached
  /\ KeyUntouched
  /\ NoFault
  /\ UNCHANGED <<pc, inLoop, closing, late>>

(* The driver ages by a tick; a driver that already used its normal        *)
(* iteration time makes the tick late.                                     *)
DriversAge ==
  /\ IF \E w \in Worker : pc[w] \in Holding /\ age[w] >= MaxAge
       THEN late < MaxLate /\ late' = late + 1
       ELSE UNCHANGED late
  /\ age' = [w \in Worker |-> IF pc[w] \in Holding THEN age[w] + 1 ELSE 0]

(* Fault variant: a key written without EX never expires.                  *)
KeyAgesForever == UNCHANGED <<lock, ttl>>

(* The key's TTL runs down and the key vanishes at zero.                   *)
KeyAges ==
  /\ ttl' = IF ttl = 0 THEN 0 ELSE ttl - 1
  /\ lock' = IF ttl' = 0 THEN NoLock ELSE lock

Tick ==
  /\ DriversAge
  /\ KeyAges
  /\ NoFault
  /\ UNCHANGED <<pc, inLoop, closing, attached, present>>

-----------------------------------------------------------------------------
DriverStep(w) ==
  \/ StartDriver(w) \/ RefreshGet(w) \/ RefreshExpire(w) \/ RefreshSetNX(w)
  \/ SyncToSession(w) \/ LoopBody(w) \/ StopDriver(w)
  \/ ReleaseGet(w) \/ ReleaseDelete(w)

WorkerStep(w) ==
  \/ ScanSessions(w) \/ ReapFinished(w)
  \/ CancelTasks(w) \/ Exit(w) \/ Restart(w)

Next ==
  \/ \E w \in Worker :
       DriverStep(w) \/ WorkerStep(w) \/ RequestShutdown(w) \/ Crash(w)
  \/ UserActs
  \/ Tick

Spec == Init /\ [][Next]_vars

(* Time passes; a live event loop runs its tasks; the discovery loop scans *)
(* every worker_poll_interval_seconds; a supervisor (the Compose service   *)
(* or the systemd unit) restarts a worker that went down.                  *)
Fairness ==
  /\ WF_vars(Tick)
  /\ \A w \in Worker : WF_vars(DriverStep(w)) /\ WF_vars(WorkerStep(w))

FairSpec == Spec /\ Fairness

-----------------------------------------------------------------------------
(***************************************************************************)
(* Properties.                                                             *)
(***************************************************************************)

(* A second driver can be on air only once drivers have overrun their      *)
(* normal iteration time by enough to outlive the key's TTL: until then    *)
(* GET/EXPIRE, GET/SET NX and GET/DELETE being separate commands, errors   *)
(* with an unknown outcome, cancellations, crashes and restarts never put  *)
(* two workers on one output.                                              *)
OneDriverUntilOverrun ==
  MaxAge + late < LockTTL => Cardinality(Driving) <= 1

(* Overlap heals: once drivers stop overrunning, two workers never keep    *)
(* driving the output, whatever happened to the key meanwhile.             *)
OverlapHeals == <>[](Cardinality(Driving) <= 1)

(* An output that stays attached is driven again and again, whichever      *)
(* workers crashed, were shut down or left an orphaned key behind.         *)
AttachedIsDriven == []<>(~attached) \/ []<>(Driving # {})

(* An output that stays detached eventually goes silent for good.          *)
DetachedGoesSilent == <>[](~attached) => <>[](Driving = {})

(* _release_lock gives back "the output lock if we still own it": a driver *)
(* never deletes the key of another, although its GET and its DELETE are   *)
(* two commands, unless overruns outlived the TTL in between.              *)
ReleasesOwnLock ==
  \A w \in Worker :
    ReleaseDelete(w) /\ lock' # lock /\ MaxAge + late < LockTTL => lock = w

ReleaseOnlyOwnLock == [][ReleasesOwnLock]_vars

(* Without overruns the drivers implement an exclusive output.             *)
Output == INSTANCE ExclusiveOutput WITH onAir <- Driving
ImplementsExclusiveOutput == Output!Spec

(* And with overruns, every step up to the one that outlives the TTL does. *)
InTime == MaxAge + late < LockTTL

ImplementsUntilOverrun == [][InTime /\ InTime' => [Output!Next]_Driving]_vars
=============================================================================
