--------------------------- MODULE SessionDriver ---------------------------
(***************************************************************************)
(* One playback session with a server-side output: the session row, the    *)
(* API commands that change it (services/playback.py), the Redis list that *)
(* carries them to the stream worker, the worker's loop that replays them, *)
(* advances the queue and lets a live broadcast take the mount over        *)
(* (streams/worker.py), and the decoder pipeline it drives                 *)
(* (streams/icecast.py).  Which worker may drive is StreamLock's subject:  *)
(* here one does, and a crash puts another in its place.                   *)
(*                                                                         *)
(* The queue is fixed and its tracks are distinct, so an index names a     *)
(* track; positions inside a track are left out.                           *)
(***************************************************************************)
EXTENDS Integers, Sequences, SequencesExt

CONSTANTS
    QLen,        \* tracks in the queue
    Repeats,     \* repeat and shuffle modes a session may have
    MaxRetries,  \* failed advances retried before the driver feeds silence
    Faults,      \* the kinds of failure that may happen
    MaxCmds,     \* bound: commands sent to the session
    MaxEnds,     \* bound: decoders that reach the end of a track
    MaxLive,     \* bound: broadcasts
    MaxFaults    \* bound: failures

FaultKinds == {"advance", "batch", "resync", "startup", "source", "begin", "freeze",
               "spawn", "publish", "encoder", "crash"}

ASSUME SessionDriverAssumption ==
    /\ QLen \in Nat \ {0} /\ MaxRetries \in Nat
    /\ Repeats \subseteq {"off", "all", "one", "shuffle"} /\ Repeats # {}
    /\ Faults \subseteq FaultKinds
    /\ {MaxCmds, MaxEnds, MaxLive, MaxFaults} \subseteq Nat

VARIABLES
    sess,     \* the committed session row
    api,      \* the API request being served
    control,  \* commands published and not yet drained by the worker
    want,     \* the last command committed, and the row it asked for
    key,      \* the ingest id the live key holds, or 0
    over,     \* broadcasts whose connection has closed
    conf,     \* the output's configuration: the committed edits, one uncommitted
    pc,       \* where the worker's loop is
    task,     \* the worker's open transaction
    mem,      \* the SessionDriver object's fields
    pipe,     \* the decoder pipeline
    count,    \* what the bounds count
    hit,      \* kinds of failure that have happened, and whether retries ran out
    broken    \* the resume flag may have been lost with a broadcast or a driver

vars == <<sess, api, control, want, key, over, conf, pc, task, mem, pipe, count, hit, broken>>

Tracks == 0 .. QLen - 1
Ids    == 1 .. MaxLive
Ops    == {"play", "pause", "stop", "next", "play_at"}
None   == -1

Row  == [st : {"playing", "paused", "idle"}, idx : Tracks, mode : Repeats]
\* What the decoder plays: a track, a broadcast (see Live), or nothing.
Live(i) == QLen + i
Sources == Tracks \cup {Live(i) : i \in Ids} \cup {None}
Cmds == Ops \cup {"reload_output"}
Batches == UNION {[1 .. n -> Cmds] : n \in 1 .. MaxCmds}

Request == [ph : {"loaded", "committed"}, op : Ops, old : Row, new : Row]
Task == [kind : {"batch"}, old : Row, cmds : Batches]
            \cup [kind : {"advance", "resync"}, old : Row]
            \cup [kind : {"freeze"}, old : Row, id : Ids]
Pipe == [src : Sources, paused : BOOLEAN, dead : BOOLEAN, stuck : BOOLEAN,
         fresh : BOOLEAN, stale : BOOLEAN, kept : {"none", "fresh", "stale"},
         advanced : BOOLEAN, credit : -1 .. 2]

Mem == [active : Tracks \cup {None}, live : Ids \cup {0}, resume : BOOLEAN, due : BOOLEAN,
        tries : Nat, conf : 0 .. MaxCmds]
Count == [cmds : 0 .. MaxCmds, ends : 0 .. MaxEnds, lives : 0 .. MaxLive,
          faults : 0 .. MaxFaults]

NoReq  == [ph |-> "none"]
NoTask == [kind |-> "none"]

TypeOK ==
    /\ sess \in Row
    /\ api \in Request \cup {NoReq}
    /\ control \in Batches \cup {<<>>}
    /\ want \in [op : Ops, row : Row]
    /\ key \in Ids \cup {0} /\ over \subseteq Ids
    /\ conf \in [row : 0 .. MaxCmds, edit : BOOLEAN]
    /\ pc \in {"startup", "cmds", "events", "retry", "live"}
    /\ task \in Task \cup {NoTask}
    /\ mem \in Mem /\ pipe \in Pipe /\ count \in Count
    /\ hit \subseteq Faults \cup {"retries"} /\ broken \in BOOLEAN

-----------------------------------------------------------------------------
(* The session row. *)

\* SQLAlchemy writes the columns a transaction changed, over whatever the row
\* holds by then: there is no version column.
Write(row, old, new) ==
    [f \in DOMAIN row |-> IF new[f] # old[f] THEN new[f] ELSE row[f]]

\* compute_next_index: the API's "next", which knows nothing of shuffle.
ComputeNextIndex(r) ==
    CASE r.mode = "one"                     -> {r.idx}
      [] r.mode # "one" /\ r.idx + 1 < QLen -> {r.idx + 1}
      [] r.mode = "all" /\ r.idx + 1 = QLen -> {0}
      [] OTHER                              -> {}

\* The rows _advance_index may leave: an idle one at the end of the queue.
AdvanceIndex(r) ==
    IF r.mode = "shuffle" /\ QLen > 1
      THEN {[r EXCEPT !.idx = i, !.st = "playing"] : i \in Tracks \ {r.idx}}
      ELSE IF ComputeNextIndex(r) = {}
             THEN {[r EXCEPT !.st = "idle"]}
             ELSE {[r EXCEPT !.idx = i, !.st = "playing"] : i \in ComputeNextIndex(r)}

\* The rows a command of the API may commit; none when it returns early.
Outcomes(op, r) ==
    CASE op = "play"    -> {[r EXCEPT !.st = "playing"]}
      [] op = "pause"   -> IF r.st = "playing" THEN {[r EXCEPT !.st = "paused"]} ELSE {}
      [] op = "stop"    -> {[r EXCEPT !.st = "idle"]}
      [] op = "next"    -> {[r EXCEPT !.st = "playing", !.idx = i] : i \in ComputeNextIndex(r)}
      [] op = "play_at" -> {[r EXCEPT !.st = "playing", !.idx = i] : i \in Tracks}

\* What the worker applies of a command it drained: the index was persisted
\* by the API, the transport state is applied once more.
Replay(r, op) ==
    CASE op = "play"                      -> [r EXCEPT !.st = "playing"]
      [] op = "pause" /\ r.st = "playing" -> [r EXCEPT !.st = "paused"]
      [] op = "stop"                      -> [r EXCEPT !.st = "idle"]
      [] OTHER                            -> r

ReplayAll(r, cmds) ==
    LET after[n \in 0 .. Len(cmds)] == IF n = 0 THEN r ELSE Replay(after[n - 1], cmds[n])
    IN  after[Len(cmds)]

-----------------------------------------------------------------------------
(* The decoder pipeline.  A source_ended event carries the generation of   *)
(* its decoder; all the worker asks of it is whether that is the current   *)
(* one, so starting a decoder makes every waiting event stale.  The field  *)
(* credit is history: how many ends of the decoder may still move the      *)
(* queue, or -1 once the queue has moved without one.                      *)

NewPipe == [src |-> None, paused |-> TRUE, dead |-> FALSE, stuck |-> FALSE,
            fresh |-> FALSE, stale |-> FALSE, kept |-> "none", advanced |-> FALSE, credit |-> 0]

\* _start_decoder_task: it first awaits the old decoder's task, and so raises
\* what that task raised, before it starts a new one.
StartDecoderTask(p) ==
    IF p.stuck THEN p
    ELSE [p EXCEPT !.dead = FALSE, !.fresh = FALSE, !.stale = p.stale \/ p.fresh,
                   !.kept = IF p.kept = "none" THEN "none" ELSE "stale",
                   !.credit = IF @ < 0 THEN @ ELSE 0]

SetSource(p, s) == StartDecoderTask([p EXCEPT !.src = s, !.paused = FALSE])

\* A set_source that raises before the decoder is replaced.
SetSourceRaises(p, s) == [p EXCEPT !.src = s, !.paused = FALSE]

Pause(p) ==
    IF p.paused THEN p
    ELSE StartDecoderTask([p EXCEPT !.paused = TRUE,
                                    !.src = IF p.src >= QLen THEN None ELSE p.src])

ForgetRetry(p) == [p EXCEPT !.kept = "none", !.advanced = FALSE]

-----------------------------------------------------------------------------
NoMem == [active |-> None, live |-> 0, resume |-> FALSE, due |-> FALSE, tries |-> 0,
          conf |-> 0]

Fault(kind) ==
    /\ kind \in Faults /\ count.faults < MaxFaults
    /\ count' = [count EXCEPT !.faults = @ + 1]
    /\ hit' = hit \cup {kind}

NoFault == UNCHANGED <<count, hit>>

Init ==
    /\ \E m \in Repeats : /\ sess = [st |-> "playing", idx |-> 0, mode |-> m]
                          /\ want = [op |-> "play", row |-> sess]
    /\ api = NoReq /\ control = <<>> /\ key = 0 /\ over = {}
    /\ conf = [row |-> 0, edit |-> FALSE]
    /\ pc = "startup" /\ task = NoTask /\ pipe = NewPipe
    /\ mem = NoMem
    /\ count = [cmds |-> 0, ends |-> 0, lives |-> 0, faults |-> 0]
    /\ hit = {} /\ broken = FALSE

-----------------------------------------------------------------------------
(* The API process. *)

worker == <<pc, task, mem, pipe>>
session == <<sess, api, control, want>>

\* A command's handler loads the row and works out what to commit.
ApiLoad(op) ==
    /\ api = NoReq /\ count.cmds < MaxCmds
    /\ \E new \in Outcomes(op, sess) :
          api' = [ph |-> "loaded", op |-> op, old |-> sess, new |-> new]
    /\ count' = [count EXCEPT !.cmds = @ + 1]
    /\ UNCHANGED <<sess, control, want, key, over, conf, worker, hit, broken>>

\* _commit_command commits before it publishes.
ApiCommit ==
    /\ api.ph = "loaded"
    /\ sess' = Write(sess, api.old, api.new)
    /\ want' = [op |-> api.op, row |-> api.new]
    /\ api' = [api EXCEPT !.ph = "committed"]
    /\ NoFault /\ UNCHANGED <<control, key, over, conf, worker, broken>>

\* publish_control_command logs a Redis error and goes on.
ApiPublish ==
    /\ api.ph = "committed"
    /\ api' = NoReq
    /\ \/ control' = Append(control, api.op) /\ NoFault
       \/ control' = control /\ Fault("publish")
    /\ UNCHANGED <<sess, want, key, over, conf, worker, broken>>

\* The owner edits the output: update_output tells the output's sessions to
\* reload it, and the request's transaction commits afterwards.
PublishReload ==
    /\ ~conf.edit /\ count.cmds < MaxCmds
    /\ count' = [count EXCEPT !.cmds = @ + 1]
    /\ control' = Append(control, "reload_output")
    /\ conf' = [conf EXCEPT !.edit = TRUE]
    /\ UNCHANGED <<sess, api, want, key, over, worker, hit, broken>>

CommitEdit ==
    /\ conf.edit
    /\ conf' = [row |-> conf.row + 1, edit |-> FALSE]
    /\ NoFault /\ UNCHANGED <<session, key, over, worker, broken>>

-----------------------------------------------------------------------------
(* Broadcasts, as the worker sees them: a live key and a feed. *)

\* A broadcaster claims the key, or takes it over from a claim of its own.
Claim ==
    /\ count.lives < MaxLive
    /\ count' = [count EXCEPT !.lives = @ + 1]
    /\ key' = count.lives + 1
    /\ over' = IF key = 0 THEN over ELSE over \cup {key}
    /\ broken' = (broken \/ mem.live # 0)
    /\ UNCHANGED <<session, conf, worker, hit>>

\* The connection closes; its end marker ends the feed.
Disconnect ==
    /\ key # 0 /\ key \notin over
    /\ over' = over \cup {key}
    /\ NoFault /\ UNCHANGED <<session, key, conf, worker, broken>>

\* The handler's cleanup deletes the key afterwards (or its TTL does).
Release ==
    /\ key \in over
    /\ key' = 0
    /\ NoFault /\ UNCHANGED <<session, over, conf, worker, broken>>

-----------------------------------------------------------------------------
(* The pipeline's own steps. *)

Ended(p) == [p EXCEPT !.dead = TRUE, !.fresh = TRUE, !.credit = IF @ < 0 THEN @ ELSE @ + 1]

\* The decoder reaches the end of its track and emits source_ended.
TrackEnds ==
    /\ ~pipe.paused /\ ~pipe.dead /\ pipe.src \in Tracks
    /\ count.ends < MaxEnds
    /\ count' = [count EXCEPT !.ends = @ + 1]
    /\ pipe' = Ended(pipe)
    /\ UNCHANGED <<session, key, over, conf, pc, task, mem, hit, broken>>

\* So does a broadcast's, at the end or takeover marker of its feed; and while
\* the connection goes on if the worker was there before its start entry, if a
\* late one of an older connection cuts it, or if ffmpeg gives up on its chunks.
FeedEnds(i) ==
    /\ ~pipe.paused /\ ~pipe.dead /\ pipe.src = Live(i)
    /\ pipe' = Ended(pipe)
    /\ NoFault /\ UNCHANGED <<session, key, over, conf, pc, task, mem, broken>>

\* The decoder process cannot be started: its task ends with the exception.
SpawnFails ==
    /\ pc # "startup" /\ ~pipe.dead /\ ~pipe.stuck /\ Fault("spawn")
    /\ pipe' = [pipe EXCEPT !.dead = TRUE, !.stuck = TRUE]
    /\ UNCHANGED <<session, key, over, conf, pc, task, mem, broken>>

\* The encoder exits; _watch_encoder starts another and restarts the decoder.
\* A broadcast's iterator died with its feeder, so its decoder ends at once.
\* An advance that is under way goes on, and may still move the queue.
Restarted ==
    [StartDecoderTask(pipe) EXCEPT
       !.credit = IF task.kind = "advance" /\ pipe.credit > 0 THEN 1 ELSE @]

EncoderRestarts ==
    /\ pc # "startup" /\ ~pipe.stuck /\ Fault("encoder")
    /\ pipe' = IF pipe.paused \/ pipe.src \in Tracks THEN Restarted ELSE Ended(Restarted)
    /\ UNCHANGED <<session, key, over, conf, pc, task, mem, broken>>

-----------------------------------------------------------------------------
(* The worker's loop: commands, events, retry, live poll, and round again. *)

rest == <<api, control, want, key, over, conf, broken>>

\* A set_source of the provider's driver may raise, and always does once the
\* decoder's task holds an exception.
Raises == (pipe.stuck /\ NoFault) \/ (~pipe.stuck /\ Fault("source"))

\* _start_driver loads the configuration; _sync_to_session swallows exceptions.
SyncToSession ==
    LET started == [mem EXCEPT !.active = None, !.live = 0, !.due = FALSE, !.tries = 0,
                               !.conf = conf.row] IN
    \/ /\ sess.st = "playing" /\ NoFault
       /\ pipe' = SetSource(NewPipe, sess.idx)
       /\ mem' = [started EXCEPT !.active = sess.idx]
    \/ /\ (sess.st = "playing" /\ Fault("startup")) \/ (sess.st # "playing" /\ NoFault)
       /\ pipe' = NewPipe /\ mem' = started

StartUp ==
    /\ pc = "startup" /\ pc' = "cmds"
    /\ SyncToSession
    /\ UNCHANGED <<sess, task, rest>>

\* A broadcast is in progress, as far as this driver object is concerned.
Disturbs == mem.live # 0 \/ mem.resume \/ task.kind \in {"freeze", "resync"}

\* The process dies; whoever claims the output next starts a fresh driver.
Crash ==
    /\ pc # "startup" /\ Fault("crash")
    /\ pc' = "startup" /\ task' = NoTask /\ mem' = NoMem /\ pipe' = NewPipe
    /\ broken' = (broken \/ Disturbs)
    /\ UNCHANGED <<session, key, over, conf>>

Transport == {"play", "pause", "stop", "play_at", "next"}

\* _collect_control_envelopes and _handle_commands: a reload drops the batch.
TakeCommands ==
    /\ pc = "cmds" /\ task = NoTask
    /\ control' = <<>>
    /\ UNCHANGED <<sess, api, want, key, over, conf>>
    /\ \/ /\ control = <<>> /\ pc' = "events"
          /\ NoFault /\ UNCHANGED <<task, mem, pipe, broken>>
       \/ /\ control # <<>> /\ "reload_output" \notin ToSet(control)
          /\ task' = [kind |-> "batch", old |-> sess, cmds |-> control]
          /\ NoFault /\ UNCHANGED <<pc, mem, pipe, broken>>
       \/ /\ "reload_output" \in ToSet(control)   \* _reload_driver
          /\ SyncToSession
          /\ pc' = "events" /\ broken' = (broken \/ Disturbs) /\ UNCHANGED task

\* Mutant: only a silent driver is given a source.
NeedsSourceIfPaused(r, cmds) == pipe.paused

\* The decoder is restarted for a track change, a command that repositions
\* playback, or because it feeds silence; not for any other command.
NeedsSource(r, cmds) ==
    r.idx # mem.active \/ cmds \cap {"play_at", "next"} # {} \/ pipe.paused

\* _sync_driver_to_state, with the row as the batch's transaction left it.
SyncDriverToState(r, cmds) ==
    IF r.st = "playing"
      THEN IF NeedsSource(r, cmds)
             THEN \/ /\ ~pipe.stuck /\ pipe' = SetSource(pipe, r.idx)
                     /\ mem' = [mem EXCEPT !.active = r.idx] /\ NoFault
                  \/ /\ Raises /\ pipe' = Pause(SetSourceRaises(pipe, r.idx))
                     /\ UNCHANGED mem
             ELSE UNCHANGED <<mem, pipe>> /\ NoFault
      ELSE pipe' = Pause(pipe) /\ UNCHANGED mem /\ NoFault

\* _apply_batch commits; then the driver follows, unless a broadcast is on air.
FinishBatch ==
    /\ task.kind = "batch"
    /\ task' = NoTask /\ pc' = "events"
    /\ LET new == ReplayAll(task.old, task.cmds) IN
       \/ /\ sess' = Write(sess, task.old, new)
          /\ IF mem.live # 0
               THEN /\ mem' = [mem EXCEPT !.resume = @ /\ ToSet(task.cmds) \cap Transport = {}]
                    /\ UNCHANGED pipe /\ NoFault
               ELSE SyncDriverToState(new, ToSet(task.cmds))
       \/ /\ Fault("batch")               \* rolled back: the commands are gone
          /\ UNCHANGED <<sess, mem, pipe>>
    /\ UNCHANGED rest

\* Mutants: the mount is not given back; the broadcast's id is not cleared.
EndLiveKeepsMount ==
    /\ mem' = [mem EXCEPT !.live = 0]
    /\ UNCHANGED task

EndLiveStillOnAir ==
    /\ UNCHANGED mem
    /\ task' = [kind |-> "resync", old |-> sess]

\* _end_live on the source_ended or the poll that noticed the end: the mount
\* goes back to the session.
EndLive ==
    /\ mem' = [mem EXCEPT !.live = 0]
    /\ task' = [kind |-> "resync", old |-> sess]

\* _drain_events and _on_source_ended: a stale event is dropped; the end of a
\* broadcast hands the mount back; the end of a track starts an advance.
TakeEvent ==
    /\ pc = "events" /\ task = NoTask
    /\ UNCHANGED <<sess, rest>> /\ NoFault
    /\ \/ /\ ~pipe.stale /\ ~pipe.fresh /\ pc' = "retry"
          /\ UNCHANGED <<task, mem, pipe>>
       \/ /\ pipe.stale /\ pipe' = [pipe EXCEPT !.stale = FALSE]
          /\ UNCHANGED <<pc, task, mem>>
       \/ /\ ~pipe.stale /\ pipe.fresh /\ mem.live # 0
          /\ pipe' = [pipe EXCEPT !.fresh = FALSE]
          /\ EndLive /\ UNCHANGED pc
       \/ /\ ~pipe.stale /\ pipe.fresh /\ mem.live = 0
          /\ pipe' = [pipe EXCEPT !.fresh = FALSE, !.kept = "fresh", !.advanced = FALSE]
          /\ task' = [kind |-> "advance", old |-> sess]
          /\ UNCHANGED <<pc, mem>>

\* Mutant: the retry is counted and never due.
ScheduleRetryCountOnly == mem' = [mem EXCEPT !.tries = @ + 1]

\* _schedule_advance_retry
ScheduleRetry == mem' = [mem EXCEPT !.due = TRUE, !.tries = @ + 1]

\* Mutant: the event's _advanced marker is ignored.
AdvancePendingUnmarked == mem.active = None \/ task.old.idx = mem.active

\* The queue still points at the track that finished, so it is to move.
AdvancePending ==
    ~pipe.advanced /\ (mem.active = None \/ task.old.idx = mem.active)

\* What the history says of an advance that moves the queue.
Credited(p) == [p EXCEPT !.credit = IF @ > 0 THEN @ - 1 ELSE -1]

\* _advance_after_ended commits and the driver follows.
FinishAdvance ==
    /\ task.kind = "advance"
    /\ task' = NoTask /\ UNCHANGED <<pc, rest>>
    /\ \E new \in IF AdvancePending THEN AdvanceIndex(task.old) ELSE {task.old} :
       LET moved == IF AdvancePending THEN Credited(pipe) ELSE pipe IN
       /\ sess' = Write(sess, task.old, new)
       /\ \/ /\ new.st = "playing" /\ ~pipe.stuck /\ NoFault
             /\ pipe' = ForgetRetry(SetSource(moved, new.idx))
             /\ mem' = [mem EXCEPT !.active = new.idx, !.due = FALSE, !.tries = 0]
          \/ /\ new.st = "playing" /\ Raises
             /\ pipe' = [SetSourceRaises(moved, new.idx) EXCEPT !.advanced = TRUE]
             /\ ScheduleRetry
          \/ /\ new.st # "playing" /\ ~pipe.stuck /\ NoFault
             /\ pipe' = ForgetRetry(Pause(moved))
             /\ mem' = [mem EXCEPT !.due = FALSE, !.tries = 0]
          \/ /\ new.st # "playing" /\ pipe.stuck /\ NoFault
             /\ pipe' = [Pause(moved) EXCEPT !.advanced = TRUE]
             /\ ScheduleRetry

\* The transaction fails and is rolled back; the event is kept for a retry.
\* What made it fail may last, so only the first failure counts.
AdvanceFails ==
    /\ task.kind = "advance"
    /\ Fault("advance") \/ ("advance" \in hit /\ NoFault)
    /\ task' = NoTask
    /\ ScheduleRetry
    /\ UNCHANGED <<sess, pc, pipe, rest>>

\* _maybe_retry_advance, when the backoff has elapsed: out of retries, the
\* driver feeds silence; an event that has become stale is dropped.
RetryAdvance ==
    /\ pc = "retry" /\ task = NoTask /\ mem.due
    /\ pc' = "live"
    /\ UNCHANGED <<sess, count, rest>>
    /\ \/ /\ mem.tries > MaxRetries /\ hit' = hit \cup {"retries"}
          /\ mem' = [mem EXCEPT !.due = FALSE, !.tries = 0]
          /\ pipe' = ForgetRetry(Pause(pipe))
          /\ UNCHANGED task
       \/ /\ mem.tries <= MaxRetries /\ UNCHANGED hit
          /\ mem' = [mem EXCEPT !.due = FALSE]
          /\ task' = IF pipe.kept = "fresh" THEN [kind |-> "advance", old |-> sess] ELSE NoTask
          /\ UNCHANGED pipe

\* _poll_live reads the live key and takes the mount over, or gives it back.
PollLive ==
    /\ pc = "live" /\ task = NoTask
    /\ pc' = "cmds" /\ key # mem.live
    /\ IF key = 0
         THEN EndLive
         ELSE /\ mem' = [mem EXCEPT !.live = 0, !.resume = FALSE]
              /\ task' = [kind |-> "freeze", old |-> sess, id |-> key]
    /\ UNCHANGED <<sess, pipe, rest>> /\ NoFault

\* Neither a retry nor a live poll is due in this round of the loop.
Pass ==
    /\ task = NoTask
    /\ \/ pc = "retry" /\ pc' = "live"
       \/ pc = "live" /\ pc' = "cmds"
    /\ UNCHANGED <<sess, task, mem, pipe, rest>> /\ NoFault

\* The rest of _begin_live: freeze a playing session (a failure to do so is
\* logged), then install the broadcast (so is this).
FinishFreeze ==
    /\ task.kind = "freeze"
    /\ task' = NoTask /\ UNCHANGED <<pc, api, control, want, key, over, conf>>
    /\ LET frozen == [task.old EXCEPT !.st = IF @ = "playing" THEN "paused" ELSE @]
           took(resume) == /\ ~pipe.stuck
                           /\ pipe' = SetSource(pipe, Live(task.id))
                           /\ mem' = [mem EXCEPT !.live = task.id, !.active = None, !.resume = resume]
                           /\ UNCHANGED broken
       IN
       \/ sess' = Write(sess, task.old, frozen) /\ took(frozen # task.old) /\ NoFault
       \/ sess' = sess /\ took(FALSE) /\ Fault("freeze")
       \/ /\ sess' = Write(sess, task.old, frozen)
          /\ mem' = [mem EXCEPT !.resume = (frozen # task.old)]
          /\ broken' = TRUE
          /\ \/ pipe.stuck /\ pipe' = SetSourceRaises(pipe, Live(task.id)) /\ NoFault
             \/ ~pipe.stuck /\ UNCHANGED pipe /\ Fault("begin")

\* Mutants: whoever paused the session, it resumes; the wrong state is asked for.
ResumesAnyPaused == task.old.st = "paused"
ResumesPlaying   == mem.resume /\ task.old.st = "playing"

\* The takeover froze a playing queue, and no command has been drained since.
Resumes == mem.resume /\ task.old.st = "paused"

\* _resync_after_live: the session gets the mount back, and resumes if it may.
FinishResync ==
    /\ task.kind = "resync"
    /\ task' = NoTask /\ UNCHANGED <<pc, rest>>
    /\ LET new == [task.old EXCEPT !.st = IF Resumes THEN "playing" ELSE @] IN
       /\ sess' = Write(sess, task.old, new)
       /\ \/ /\ new.st = "playing" /\ ~pipe.stuck /\ NoFault
             /\ pipe' = SetSource(pipe, new.idx)
             /\ mem' = [mem EXCEPT !.resume = FALSE, !.active = new.idx]
          \/ /\ new.st = "playing" /\ Raises
             /\ pipe' = Pause(SetSourceRaises(pipe, new.idx))
             /\ mem' = [mem EXCEPT !.resume = FALSE]
          \/ /\ new.st # "playing" /\ NoFault
             /\ pipe' = Pause(pipe)
             /\ mem' = [mem EXCEPT !.resume = FALSE]

\* Its transaction fails, before or after it read the flag.
ResyncFails ==
    /\ task.kind = "resync" /\ Fault("resync")
    /\ task' = NoTask
    /\ \E kept \in {TRUE, FALSE} : mem' = [mem EXCEPT !.resume = @ /\ kept]
    /\ UNCHANGED <<sess, pc, pipe, rest>>

-----------------------------------------------------------------------------
Loop ==
    \/ StartUp \/ TakeCommands \/ FinishBatch \/ TakeEvent \/ FinishAdvance \/ AdvanceFails
    \/ RetryAdvance \/ PollLive \/ Pass \/ FinishFreeze \/ FinishResync \/ ResyncFails

Next ==
    \/ \E op \in Ops : ApiLoad(op)
    \/ ApiCommit \/ ApiPublish \/ PublishReload \/ CommitEdit
    \/ Claim \/ Disconnect \/ Release
    \/ TrackEnds \/ (\E i \in Ids : FeedEnds(i)) \/ SpawnFails \/ EncoderRestarts
    \/ Loop \/ Crash

Spec == Init /\ [][Next]_vars

\* The loop never blocks for ever; it comes round every 0.1 s, so a retry or a
\* live poll whose moment keeps coming is not passed over every time; a request
\* is served to its end; a broadcast that ended is cleaned up and its feed read.
Fairness ==
    /\ WF_vars(Loop) /\ SF_vars(RetryAdvance) /\ SF_vars(PollLive)
    /\ WF_vars(ApiCommit) /\ WF_vars(ApiPublish) /\ WF_vars(CommitEdit)
    /\ WF_vars(Release) /\ WF_vars(\E i \in over : FeedEnds(i))

FairSpec == Spec /\ Fairness

-----------------------------------------------------------------------------
(* Properties.  Where a failure is known to defeat one, the failure is     *)
(* named in the property.                                                  *)

\* The end of a decoder moves the queue at most once, and one whose decoder has
\* been replaced by then does not, whatever fails, is retried, restarted or
\* reloaded in between (ARCHITECTURE.md: "the advance is idempotent").
OneAdvancePerTrack == pipe.credit >= 0

\* While the worker counts a broadcast as on air, its feed is what the decoder
\* plays: no command, retry or late event of the queue takes the mount away.
\* Retries of an advance that run out do (see _maybe_retry_advance).
OnAirIsHeard ==
    (mem.live # 0 /\ "retries" \notin hit) => pipe.src = Live(mem.live) /\ ~pipe.paused

\* And nothing plays a broadcast that the worker counts as over: the next one or
\* the session takes the mount, unless that very step failed or the decoder can
\* no longer be replaced.
HeardIsOnAir ==
    hit \cap {"begin", "resync", "spawn"} = {} =>
        \A i \in Ids : pipe.src = Live(i) /\ ~pipe.paused =>
                        mem.live = i \/ task.kind \in {"freeze", "resync"}

\* The broadcasts of this module are what LiveIngest makes of its connections.
Claims == INSTANCE LiveClaim WITH Conn <- Ids, NoConn <- 0
BroadcastsAreClaims == Claims!Spec

\* A session that a command stopped or paused does not stay playing: an advance,
\* a broadcast's end or an earlier command may start it once more, but only
\* until the worker applies the command itself.  A lost command does not.
PauseStays ==
    <>[](want.row.st # "playing" /\ hit \cap {"publish", "batch", "crash", "resync"} = {})
        => <>[](sess.st # "playing")

\* When all is quiet the driver does what the session row says: it plays the
\* row's track, or silence.  A lost command, a swap or start-up that raised, or
\* an advance out of retries leaves them apart until the next command.
DriverFollowsSession ==
    <>[](mem.live = 0 /\ hit \cap {"publish", "batch", "resync", "startup", "source", "begin",
                                    "freeze", "spawn", "retries"} = {})
        => <>[](\/ sess.st = "playing" /\ pipe.src = sess.idx /\ ~pipe.paused
                \/ sess.st # "playing" /\ pipe.paused)

\* A decoder that ended is replaced: by the next track, a retry's, the session's
\* after a broadcast, or silence.
NoDeadAir == pipe.dead ~> (~pipe.dead \/ hit \cap {"spawn", "resync"} # {})

\* README.md: "a playing queue pauses for the broadcast and resumes afterwards".
\* It does after a broadcast that no other one and no reload or restart of the
\* driver cut into, if the user's last command was to play.
QueueResumesAfterBroadcast ==
    (sess.st = "paused" /\ want.op = "play" /\ key = 0 /\ ~broken)
        ~> (sess.st # "paused" \/ want.op # "play" \/ key # 0 \/ broken
            \/ hit \cap {"resync"} # {})

=============================================================================
