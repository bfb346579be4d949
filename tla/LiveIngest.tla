----------------------------- MODULE LiveIngest -----------------------------
(***************************************************************************)
(* A live broadcast on one native HTTP mount: the ingest WebSocket         *)
(* handlers of the web processes (streaming/live.py), the claim key and    *)
(* the ingest stream they keep in Redis (streams/live.py), and the stream  *)
(* worker that follows the claim and plays the feed (streams/worker.py).   *)
(*                                                                         *)
(* A connection is one WebSocket of the mount's owner, who is the only     *)
(* user open() lets through; a reconnect is another connection, with an    *)
(* ingest id of its own.  A connection therefore stands for its ingest id, *)
(* its claim's payload and its handler.  The claim's TTL is three refresh  *)
(* periods long: it expires only when nobody refreshes it any more.        *)
(* Left out: trimming of the stream (and with it the cached header), the   *)
(* heartbeat, the bitrate cap, an output removed during a broadcast.       *)
(***************************************************************************)
EXTENDS Naturals, Sequences, FiniteSetsExt

CONSTANTS
  Conn,        \* the connections of the mount's owner
  NoConn,      \* the value of a key that does not exist
  MaxChunks,   \* audio chunks a browser sends on one connection
  QueueMax,    \* _WRITE_QUEUE_MAX
  MaxFaults    \* dead processes and failed Redis commands

ASSUME LiveAssumption ==
  /\ NoConn \notin Conn
  /\ MaxChunks \in Nat /\ MaxFaults \in Nat /\ QueueMax \in Nat \ {0}

VARIABLES
  key,         \* songhive:stream:live:{output}: the connection it names
  log,         \* songhive:stream:ingest:{output}; "of" of a chunk is not in Redis
  pc,          \* where each handler is
  sock,        \* the browser's socket is open
  closing,     \* _closing: the handler asked for the socket to be closed
  tasks,       \* which of _writer_task, _refresh_task run ("write", "refresh")
  queue,       \* _write_queue
  sent,        \* chunks received so far
  up,          \* the stream worker is running
  feed,        \* the feed on the mount: _live_ingest_id and its iterator
  meta,        \* live_ingest_id of the mount's meta key
  faults

handlerVars == <<pc, sock, closing, tasks, queue, sent>>
workerVars  == <<up, feed, meta>>
vars == <<key, log, handlerVars, workerVars, faults>>

Entry(kind, c) == [kind |-> kind, of |-> c]
NoFeed == [of |-> NoConn, at |-> 0, played |-> 0, over |-> FALSE]

TypeOK ==
  /\ key \in Conn \cup {NoConn} /\ meta \in Conn \cup {NoConn}
  /\ log \in Seq([kind : {"start", "chunk", "end"}, of : Conn])
  /\ pc \in [Conn -> {"opened", "contended", "claimed", "live", "cleanup",
                      "draining", "done"}]
  /\ sock \in [Conn -> BOOLEAN] /\ closing \in [Conn -> BOOLEAN]
  /\ up \in BOOLEAN
  /\ tasks \in [Conn -> SUBSET {"write", "refresh"}]
  /\ \A c \in Conn : Len(queue[c]) <= QueueMax
  /\ sent \in [Conn -> 0..MaxChunks]
  /\ feed.of # NoConn => feed.at \in 0..Len(log)
  /\ faults \in 0..MaxFaults

Init ==
  /\ key = NoConn /\ log = <<>> /\ meta = NoConn
  /\ pc = [c \in Conn |-> "opened"] /\ sock = [c \in Conn |-> TRUE]
  /\ closing = [c \in Conn |-> FALSE]
  /\ tasks = [c \in Conn |-> {}] /\ queue = [c \in Conn |-> <<>>]
  /\ sent = [c \in Conn |-> 0]
  /\ up = TRUE /\ feed = NoFeed /\ faults = 0

Goto(c, to)    == pc' = [pc EXCEPT ![c] = to]
Set(f, c, v)   == [f EXCEPT ![c] = v]
KeepFaults     == faults' = faults
Fault          == faults < MaxFaults /\ faults' = faults + 1
Xadd(kind, c)  == log' = Append(log, Entry(kind, c))

(* What nobody reads any more of a handler whose socket has closed.        *)
Forget(c) ==
  closing' = Set(closing, c, FALSE) /\ sent' = Set(sent, c, 0)

-----------------------------------------------------------------------------
(* The handler: one action per await of the code.                          *)

(* _handle_start, SET NX of the claim.                                     *)
Start(c) ==
  /\ pc[c] = "opened" /\ sock[c] /\ ~closing[c]
  /\ IF key = NoConn THEN key' = c /\ Goto(c, "claimed")
                     ELSE key' = key /\ Goto(c, "contended")
  /\ KeepFaults
  /\ UNCHANGED <<log, sock, closing, tasks, queue, sent, workerVars>>

(* _handle_start: the claim is read, and the owner's new connection        *)
(* overwrites it (whatever comes between the GET and the SET, the SET      *)
(* leaves the same key).  A claim that has gone since the SET NX gets the  *)
(* connection refused although the mount is free.                          *)
Supersede(c) ==
  /\ pc[c] = "contended"
  /\ IF key = NoConn
       THEN /\ Goto(c, IF sock[c] THEN "opened" ELSE "done")
            /\ closing' = Set(closing, c, sock[c]) /\ key' = key
       ELSE Goto(c, "claimed") /\ closing' = closing /\ key' = c
  /\ KeepFaults
  /\ UNCHANGED <<log, sock, tasks, queue, sent, workerVars>>

(* _handle_start: the start entry, and the handler's tasks.  They          *)
(* start also where the socket has gone in the meantime, after a _cleanup  *)
(* that had nothing to release: nobody cleans up after them.               *)
Announce(c) ==
  /\ pc[c] = "claimed" /\ Xadd("start", c) /\ Goto(c, "live")
  /\ tasks' = Set(tasks, c, {"write", "refresh"})
  /\ KeepFaults
  /\ UNCHANGED <<key, sock, closing, queue, sent, workerVars>>

(* _handle_start: the XADD fails; the claim stays until its TTL.           *)
AnnounceFails(c) ==
  /\ pc[c] = "claimed" /\ Fault
  /\ Goto(c, IF sock[c] THEN "opened" ELSE "done")
  /\ closing' = Set(closing, c, sock[c])
  /\ UNCHANGED <<key, log, sock, tasks, queue, sent, workerVars>>

(* _handle_chunk: a full queue ends the broadcast (4429).  The browser     *)
(* sends no chunk once it knows of the end.                                *)
Chunk(c) ==
  /\ pc[c] = "live" /\ sock[c] /\ ~closing[c] /\ sent[c] < MaxChunks
  /\ sent' = Set(sent, c, sent[c] + 1)
  /\ IF Len(queue[c]) < QueueMax
       THEN /\ queue' = Set(queue, c, Append(queue[c], Entry("chunk", c)))
            /\ closing' = closing
       ELSE queue' = queue /\ closing' = Set(closing, c, TRUE)
  /\ KeepFaults
  /\ UNCHANGED <<key, log, pc, sock, tasks, workerVars>>

(* _stop_gracefully, at the browser's stop or the maximum duration.  On a  *)
(* full queue the end entry takes the place of the oldest chunk.           *)
Stop(c) ==
  /\ pc[c] = "live" /\ sock[c] /\ ~closing[c] /\ closing' = Set(closing, c, TRUE)
  /\ LET rest == IF Len(queue[c]) < QueueMax THEN queue[c] ELSE Tail(queue[c])
     IN  queue' = Set(queue, c, Append(rest, Entry("end", c)))
  /\ KeepFaults
  /\ UNCHANGED <<key, log, pc, sock, tasks, sent, workerVars>>

(* One round of _writer_loop: the task returns after an end entry.         *)
Write(c) ==
  /\ "write" \in tasks[c] /\ queue[c] # <<>>
  /\ log' = Append(log, Head(queue[c])) /\ queue' = Set(queue, c, Tail(queue[c]))
  /\ tasks' = Set(tasks, c, IF Head(queue[c]).kind = "end"
                              THEN tasks[c] \ {"write"} ELSE tasks[c])
  /\ KeepFaults
  /\ UNCHANGED <<key, pc, sock, closing, sent, workerVars>>

(* Mutant of Refresh: the claim is set without comparing it.               *)
RefreshAnyway(c) ==
  /\ "refresh" \in tasks[c] /\ key # c /\ key' = c
  /\ KeepFaults
  /\ UNCHANGED <<log, handlerVars, workerVars>>

(* One round of _refresh_loop: refresh_live_key compares and sets in one   *)
(* transaction; a claim that is not its own any more ends the broadcast.   *)
(* (What the task does to a handler that is closing is nothing.)           *)
Refresh(c) ==
  /\ "refresh" \in tasks[c] /\ key # c
  /\ ~closing[c] /\ closing' = Set(closing, c, TRUE)
  /\ KeepFaults
  /\ UNCHANGED <<key, log, pc, sock, tasks, queue, sent, workerVars>>

(* _writer_loop and _refresh_loop: a Redis error ends the task and the     *)
(* broadcast; the entry the writer had taken is lost.                      *)
TaskFails(c) ==
  /\ Fault
  /\ \/ "write" \in tasks[c] /\ queue[c] # <<>>
        /\ queue' = Set(queue, c, Tail(queue[c]))
        /\ tasks' = Set(tasks, c, tasks[c] \ {"write"})
     \/ "refresh" \in tasks[c] /\ queue' = queue
        /\ tasks' = Set(tasks, c, tasks[c] \ {"refresh"})
  /\ closing' = Set(closing, c, TRUE)
  /\ UNCHANGED <<key, log, pc, sock, sent, workerVars>>

(* One round of _meta_poll_loop: the worker has not acknowledged the       *)
(* broadcast at the deadline, or it has ended the one it acknowledged.     *)
(* When the deadline comes is left open.                                   *)
MetaPoll(c) ==
  /\ pc[c] = "live" /\ meta # c
  /\ ~closing[c] /\ closing' = Set(closing, c, TRUE)
  /\ KeepFaults
  /\ UNCHANGED <<key, log, pc, sock, tasks, queue, sent, workerVars>>

(* Mutant of CancelTasks: the tasks of the handler go on.                  *)
CancelNothing(c) == tasks' = tasks

(* _cleanup: the refresh task is cancelled, the writer goes on for now.    *)
CancelTasks(c) == tasks' = Set(tasks, c, tasks[c] \cap {"write"})

(* on_close: the socket is gone.  _cleanup cancels the tasks of a running  *)
(* broadcast; before _ingest_id is set it finds nothing to do.             *)
SocketCloses(c) ==
  /\ sock[c] /\ sock' = Set(sock, c, FALSE)
  /\ \/ pc[c] = "opened" /\ Goto(c, "done") /\ tasks' = tasks /\ Forget(c)
     \/ pc[c] = "live" /\ Goto(c, "cleanup") /\ Forget(c) /\ CancelTasks(c)
     \/ pc[c] \in {"contended", "claimed"}
        /\ UNCHANGED <<pc, tasks, closing, sent>>
  /\ KeepFaults
  /\ UNCHANGED <<key, log, queue, workerVars>>

(* _release_live_claim: the end entry, whose failure is ignored.           *)
CleanupEnd(c) ==
  /\ pc[c] = "cleanup" /\ Goto(c, "draining")
  /\ \/ Xadd("end", c) /\ KeepFaults
     \/ log' = log /\ Fault
  /\ UNCHANGED <<key, sock, closing, tasks, queue, sent, workerVars>>

(* Mutant of DropClaim: the claim is deleted without comparing it.         *)
DropAnyClaim(c) == key' = NoConn

(* delete_live_key: compare-and-delete of the claim.                       *)
DropClaim(c) == key' = IF key = c THEN NoConn ELSE key

(* _release_live_claim, _cleanup: the writer has returned or had its two   *)
(* seconds; the claim is dropped, the writer and what it has left go.      *)
Release(c) ==
  /\ pc[c] = "draining" /\ Goto(c, "done")
  /\ \/ DropClaim(c) /\ KeepFaults
     \/ key' = key /\ Fault
  /\ tasks' = Set(tasks, c, tasks[c] \ {"write"}) /\ queue' = Set(queue, c, <<>>)
  /\ UNCHANGED <<log, sock, closing, sent, workerVars>>

(* The web process of a connection dies.                                   *)
Dies(c) ==
  /\ pc[c] # "done" /\ Fault /\ Goto(c, "done")
  /\ sock' = Set(sock, c, FALSE) /\ tasks' = Set(tasks, c, {})
  /\ queue' = Set(queue, c, <<>>) /\ Forget(c)
  /\ UNCHANGED <<key, log, workerVars>>

(* The claim's TTL runs out: its handler does not refresh it, and is not   *)
(* in one of the short steps around the claim.                             *)
Expire ==
  /\ key # NoConn /\ "refresh" \notin tasks[key]
  /\ pc[key] \notin {"claimed", "cleanup", "draining"}
  /\ key' = NoConn /\ KeepFaults /\ UNCHANGED <<log, handlerVars, workerVars>>

-----------------------------------------------------------------------------
(* The stream worker's driver of the mount.                                *)

(* Mutant of FeedOf: a broadcast that has started is joined at its tail.   *)
FeedOfTail(c) ==
  LET starts == {i \in DOMAIN log : log[i] = Entry("start", c)}
  IN  [NoFeed EXCEPT !.of = c, !.over = (starts = {}), !.at = Len(log)]

(* find_ingest_start, ingest_iterator: the feed begins after the start     *)
(* entry of the broadcast; without one it is over at once.                 *)
FeedOf(c) ==
  LET starts == {i \in DOMAIN log : log[i] = Entry("start", c)}
  IN  [NoFeed EXCEPT !.of = c, !.over = (starts = {}),
         !.at = IF starts = {} THEN 0 ELSE Min(starts)]

(* _poll_live: begin the broadcast the key names, or end the one playing.  *)
(* A transient Redis error changes nothing.                                *)
PollLive ==
  /\ up /\ key # feed.of
  /\ feed' = IF key = NoConn THEN NoFeed ELSE FeedOf(key)
  /\ meta' = key
  /\ KeepFaults /\ UNCHANGED <<key, log, handlerVars, up>>

(* ingest_iterator, one XREAD: the feed is over at its own end entry or at *)
(* another broadcast's start.  A chunk has no broadcast's name on it: the  *)
(* feed plays all there are, and "played" counts those of its own.         *)
EndsFeed(e) == IF e.of = feed.of THEN e.kind = "end" ELSE e.kind = "start"

FeedRead ==
  /\ up /\ feed.of # NoConn /\ ~feed.over /\ feed.at < Len(log)
  /\ LET ends == {i \in feed.at + 1 .. Len(log) : EndsFeed(log[i])}
         last == IF ends = {} THEN Len(log) ELSE Min(ends)
         own  == {i \in feed.at + 1 .. last : log[i] = Entry("chunk", feed.of)}
     IN feed' = [feed EXCEPT !.at = last, !.over = ends # {},
                             !.played = @ + Cardinality(own)]
  /\ KeepFaults /\ UNCHANGED <<key, log, handlerVars, up, meta>>

(* ingest_iterator, _ingest_alive: a read timed out, and the claim is gone *)
(* or names another broadcast.                                             *)
FeedLapses ==
  /\ up /\ feed.of # NoConn /\ ~feed.over /\ feed.at = Len(log) /\ key # feed.of
  /\ feed' = [feed EXCEPT !.over = TRUE]
  /\ KeepFaults /\ UNCHANGED <<key, log, handlerVars, up, meta>>

(* _on_source_ended, _end_live: the decoder has come to the feed's end,    *)
(* and the mount goes back to the session.  The key may name it still.     *)
SourceEnded ==
  /\ up /\ feed.over /\ feed' = NoFeed /\ meta' = NoConn
  /\ KeepFaults /\ UNCHANGED <<key, log, handlerVars, up>>

(* The stream worker dies, and is started again; the new driver publishes  *)
(* a mount without a broadcast.                                            *)
WorkerDies ==
  /\ up /\ Fault /\ up' = FALSE /\ feed' = NoFeed
  /\ UNCHANGED <<key, log, handlerVars, meta>>

WorkerStarts ==
  /\ ~up /\ up' = TRUE /\ meta' = NoConn
  /\ KeepFaults /\ UNCHANGED <<key, log, handlerVars, feed>>

-----------------------------------------------------------------------------
Handler(c) ==
  \/ Supersede(c) \/ Announce(c) \/ Write(c) \/ Refresh(c)
  \/ MetaPoll(c) \/ CleanupEnd(c) \/ Release(c)

Worker == PollLive \/ FeedRead \/ FeedLapses \/ SourceEnded \/ WorkerStarts

Next ==
  \/ \E c \in Conn : \/ Handler(c) \/ Start(c) \/ Chunk(c) \/ Stop(c)
                     \/ SocketCloses(c) \/ AnnounceFails(c) \/ TaskFails(c)
                     \/ Dies(c)
  \/ Worker \/ Expire \/ WorkerDies

Spec == Init /\ [][Next]_vars

(* The handlers' coroutines and tasks and the worker's loops go on; a      *)
(* socket that was asked to close closes (Tornado gives up waiting for the *)
(* browser); a key past its TTL expires; the worker is restarted.  Nothing *)
(* says that a browser stops, disconnects or sends another chunk.          *)
Fairness ==
  /\ \A c \in Conn :
       /\ WF_vars(Supersede(c)) /\ WF_vars(Announce(c))
       /\ WF_vars(Write(c)) /\ WF_vars(Refresh(c)) /\ WF_vars(MetaPoll(c))
       /\ WF_vars(CleanupEnd(c)) /\ WF_vars(Release(c))
       /\ WF_vars(closing[c] /\ SocketCloses(c))
  /\ WF_vars(PollLive) /\ WF_vars(FeedRead) /\ WF_vars(FeedLapses)
  /\ WF_vars(SourceEnded) /\ WF_vars(WorkerStarts) /\ WF_vars(Expire)

FairSpec == Spec /\ Fairness

-----------------------------------------------------------------------------
(* Properties.                                                             *)

Broadcasting(c) == pc[c] = "live" /\ ~closing[c]

(* A connection that may still claim the mount.                            *)
Fresh(c) == pc[c] = "contended" \/ (pc[c] = "opened" /\ sock[c] /\ ~closing[c])

(* Who does not have the mount, or will not for long: the others, and the  *)
(* one whose claim nobody refreshes, except while it is being set up.      *)
Over == {c \in Conn : ~Fresh(c) /\ (key = c => "refresh" \notin tasks[c] /\ pc[c] # "claimed")}

(* The claim is what the stream worker takes it for (LiveClaim): the       *)
(* cleanup of an older connection does not take it from the one that       *)
(* refreshes it, and a broadcast that is over never has it again.          *)
Claims == INSTANCE LiveClaim WITH over <- Over
ImplementsLiveClaim == Claims!Spec

(* Once a handler has finished or died, its refresh has failed or a newer  *)
(* connection has the mount, the mount does not stay with its broadcast:   *)
(* no claim, feed or replay keeps it there.                                *)
MountIsGivenBack ==
  \A c \in Conn : <>[](pc[c] = "done" \/ c \in Over) => <>[](key # c /\ feed.of # c)

(* Two connections do not go on broadcasting side by side: the one that    *)
(* lost the claim finds out and closes.                                    *)
OneBroadcaster ==
  \A c, d \in Conn : c # d => ~<>[](Broadcasting(c) /\ Broadcasting(d))

(* A broadcaster who has the mount to himself is heard: each chunk he      *)
(* sends comes to the decoder unless his broadcast ends before.            *)
AloneIsHeard ==
  \A c \in Conn : \A k \in 1..MaxChunks :
    sent[c] >= k /\ (\A d \in Conn \ {c} : pc[d] = "opened")
      ~> \/ feed.of = c /\ feed.played >= k
         \/ ~Broadcasting(c)
         \/ \E d \in Conn \ {c} : pc[d] # "opened"
=============================================================================
