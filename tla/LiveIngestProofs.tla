--------------------------- MODULE LiveIngestProofs ---------------------------
(***************************************************************************)
(* Proofs about LiveIngest, for any number of connections, chunks and      *)
(* faults and any length of the write queue: the types, and that the claim *)
(* moves as LiveClaim has it.                                              *)
(***************************************************************************)
EXTENDS LiveIngest, FiniteSetTheorems, WellFoundedInduction, TLAPS

Entries == [kind : {"start", "chunk", "end"}, of : Conn]

Feeds == [of : Conn \cup {NoConn}, at : Nat, played : Nat, over : BOOLEAN]

(* The write queues hold entries of the log, and the feed is at one.       *)
TypeInv ==
  /\ TypeOK
  /\ queue \in [Conn -> Seq(Entries)]
  /\ feed \in Feeds /\ feed.at <= Len(log)

(* The refresh task of a handler runs between its start entry and its      *)
(* cleanup.                                                                *)
RefreshInv ==
  /\ TypeInv
  /\ \A c \in Conn : "refresh" \in tasks[c] => pc[c] = "live"

-----------------------------------------------------------------------------
(* The entries a handler writes are entries of the log.                    *)
LEMMA EntryType ==
  ASSUME NEW c \in Conn, NEW kind \in {"start", "chunk", "end"}
  PROVE  Entry(kind, c) \in Entries
BY DEF Entry, Entries

(* What the worker makes of its feed is a feed.                            *)
LEMMA FeedType ==
  ASSUME NEW c \in Conn \cup {NoConn}, NEW at \in Nat, NEW played \in Nat,
         NEW over \in BOOLEAN
  PROVE  /\ [of |-> c, at |-> at, played |-> played, over |-> over] \in Feeds
         /\ [of |-> c, at |-> at, played |-> played, over |-> over].at = at
BY DEF Feeds

(* Appending to the log keeps the place of the feed in it.                 *)
LEMMA LogGrows ==
  ASSUME TypeInv, NEW e \in Entries, log' = Append(log, e), UNCHANGED feed
  PROVE  log' \in Seq(Entries) /\ feed'.at <= Len(log')
                 /\ (feed'.of # NoConn => feed'.at \in 0..Len(log'))
BY DEF TypeInv, TypeOK, Entries, Feeds

(* A set of naturals that is not empty has its minimum in it.              *)
LEMMA MinIsMember ==
  ASSUME NEW S \in SUBSET Nat, S # {}
  PROVE  Min(S) \in S
<1>1. \E x \in S : \A y \in S : ~(<<y, x>> \in OpToRel(<, Nat))
  BY WFMin, NatLessThanWellFounded
<1>2. PICK x \in S : \A y \in S : ~(<<y, x>> \in OpToRel(<, Nat))
  BY <1>1
<1>3. ASSUME NEW y \in S PROVE x <= y
  <2>1. x \in Nat /\ y \in Nat
    OBVIOUS
  <2>2. y < x => <<y, x>> \in OpToRel(<, Nat)
    BY <2>1 DEF OpToRel
  <2>3. <<y, x>> \notin OpToRel(<, Nat)
    BY <1>2
  <2>4. ~(y < x)
    BY <2>2, <2>3, Zenon
  <2> QED
    BY <2>1, <2>4
<1> QED
  BY <1>3 DEF Min

(* Nothing is announced at first.                                          *)
LEMMA InitTypes == Init => TypeInv
<1> SUFFICES ASSUME Init PROVE TypeInv
  OBVIOUS
<1>1. faults \in 0..MaxFaults /\ sent \in [Conn -> 0..MaxChunks]
  BY LiveAssumption DEF Init
<1>2. log \in Seq(Entries) /\ Len(log) = 0
  BY DEF Init, Entries
<1>3. queue \in [Conn -> Seq(Entries)] /\ \A c \in Conn : Len(queue[c]) <= QueueMax
  BY LiveAssumption DEF Init
<1>4. feed \in Feeds /\ feed.at = 0 /\ feed.of = NoConn
  BY DEF Init, Feeds, NoFeed
<1>5. pc \in [Conn -> {"opened", "contended", "claimed", "live", "cleanup",
                       "draining", "done"}]
  BY DEF Init
<1>6. /\ sock \in [Conn -> BOOLEAN] /\ closing \in [Conn -> BOOLEAN]
      /\ up \in BOOLEAN /\ tasks \in [Conn -> SUBSET {"write", "refresh"}]
      /\ key \in Conn \cup {NoConn} /\ meta \in Conn \cup {NoConn}
  BY Zenon DEF Init
<1>7. feed.at <= Len(log) /\ (feed.of # NoConn => feed.at \in 0..Len(log))
  BY <1>2, <1>4
<1>8. log \in Seq([kind : {"start", "chunk", "end"}, of : Conn])
  BY <1>2 DEF Entries
<1> QED
  BY <1>1, <1>3, <1>4, <1>5, <1>6, <1>7, <1>8, Zenon DEF TypeInv, TypeOK

(* A step of a handler before its queue is released.                       *)
LEMMA HandlerTypes ==
  ASSUME TypeInv, NEW c \in Conn,
         \/ Start(c) \/ Supersede(c) \/ AnnounceFails(c)
         \/ Refresh(c) \/ MetaPoll(c) \/ SocketCloses(c)
  PROVE  TypeInv'
<1> USE DEF TypeInv, TypeOK, handlerVars, workerVars, Goto, Set, KeepFaults, Fault
<1>1. faults' \in 0..MaxFaults
  BY LiveAssumption DEF Start, Supersede, AnnounceFails, Refresh, MetaPoll, SocketCloses
<1>2. key' \in Conn \cup {NoConn}
  BY DEF Start, Supersede, AnnounceFails, Refresh, MetaPoll, SocketCloses
<1>3. pc' \in [Conn -> {"opened", "contended", "claimed", "live", "cleanup",
                        "draining", "done"}]
  BY DEF Start, Supersede, AnnounceFails, Refresh, MetaPoll, SocketCloses
<1>4. /\ sock' \in [Conn -> BOOLEAN] /\ closing' \in [Conn -> BOOLEAN]
      /\ sent' \in [Conn -> 0..MaxChunks]
  <2>1. ASSUME NEW b \in BOOLEAN
        PROVE  [closing EXCEPT ![c] = b] \in [Conn -> BOOLEAN]
    OBVIOUS
  <2>2. CASE Start(c)
    BY <2>2 DEF Start
  <2>3. CASE Supersede(c)
    BY <2>3, <2>1 DEF Supersede
  <2>4. CASE AnnounceFails(c)
    BY <2>4, <2>1 DEF AnnounceFails
  <2>5. CASE Refresh(c) \/ MetaPoll(c)
    BY <2>5, <2>1 DEF Refresh, MetaPoll
  <2>6. CASE SocketCloses(c)
    <3>1. closing' = closing \/ closing' = [closing EXCEPT ![c] = FALSE]
      BY <2>6, Zenon DEF SocketCloses, Forget
    <3>2. sent' = sent \/ sent' = [sent EXCEPT ![c] = 0]
      BY <2>6, Zenon DEF SocketCloses, Forget
    <3>3. sent' \in [Conn -> 0..MaxChunks]
      <4>1. 0 \in 0..MaxChunks
        BY LiveAssumption
      <4> QED
        BY <3>2, <4>1, Zenon
    <3>4. sock' = [sock EXCEPT ![c] = FALSE]
      BY <2>6 DEF SocketCloses
    <3> QED
      BY <3>1, <3>3, <3>4, Zenon
  <2> QED
    BY <2>2, <2>3, <2>4, <2>5, <2>6
<1>5. tasks' \in [Conn -> SUBSET {"write", "refresh"}]
  <2>1. tasks' \in {tasks, [tasks EXCEPT ![c] = tasks[c] \cap {"write"}]}
    BY Zenon
       DEF Start, Supersede, AnnounceFails, Refresh, MetaPoll, SocketCloses, CancelTasks
  <2>2. tasks[c] \cap {"write"} \in SUBSET {"write", "refresh"}
    OBVIOUS
  <2> QED
    BY <2>1, <2>2
<1>6. UNCHANGED <<log, queue, up, feed, meta>>
  BY DEF Start, Supersede, AnnounceFails, Refresh, MetaPoll, SocketCloses
<1> QED
  BY <1>1, <1>2, <1>3, <1>4, <1>5, <1>6

(* A step that puts an entry on the log or on a queue, or takes one off.   *)
LEMMA QueueTypes ==
  ASSUME TypeInv, NEW c \in Conn,
         \/ Announce(c) \/ Chunk(c) \/ Stop(c) \/ Write(c) \/ TaskFails(c)
         \/ CleanupEnd(c) \/ Release(c) \/ Dies(c)
  PROVE  TypeInv'
<1> USE DEF TypeInv, TypeOK, handlerVars, workerVars, Goto, Set, KeepFaults, Fault
<1>1. faults' \in 0..MaxFaults
  <2>1. faults' = faults \/ (faults < MaxFaults /\ faults' = faults + 1)
    BY Zenon DEF Announce, Chunk, Stop, Write, TaskFails, CleanupEnd, Release, Dies
  <2> QED
    BY <2>1, LiveAssumption
<1>2. key' \in Conn \cup {NoConn}
  <2>1. key' = key \/ key' = NoConn
    BY Zenon
       DEF Announce, Chunk, Stop, Write, TaskFails, CleanupEnd, Release, Dies, DropClaim
  <2> QED
    BY <2>1
<1>3. pc' \in [Conn -> {"opened", "contended", "claimed", "live", "cleanup",
                        "draining", "done"}]
  BY DEF Announce, Chunk, Stop, Write, TaskFails, CleanupEnd, Release, Dies
<1>4. /\ sock' \in [Conn -> BOOLEAN] /\ closing' \in [Conn -> BOOLEAN]
  BY DEF Announce, Chunk, Stop, Write, TaskFails, CleanupEnd, Release, Dies, Forget
<1>5. sent' \in [Conn -> 0..MaxChunks]
  <2>1. \/ sent' = sent
        \/ sent' = [sent EXCEPT ![c] = 0]
        \/ sent[c] < MaxChunks /\ sent' = [sent EXCEPT ![c] = sent[c] + 1]
    BY Zenon
       DEF Announce, Chunk, Stop, Write, TaskFails, CleanupEnd, Release, Dies, Forget
  <2>2. /\ 0 \in 0..MaxChunks
        /\ sent[c] < MaxChunks => sent[c] + 1 \in 0..MaxChunks
    BY LiveAssumption
  <2> QED
    BY <2>1, <2>2, Zenon
<1>6. tasks' \in [Conn -> SUBSET {"write", "refresh"}]
  <2>1. \E T \in SUBSET {"write", "refresh"} :
           tasks' = tasks \/ tasks' = [tasks EXCEPT ![c] = T]
    <3>1. tasks[c] \in SUBSET {"write", "refresh"}
      OBVIOUS
    <3>2. /\ tasks[c] \ {"write"} \in SUBSET {"write", "refresh"}
          /\ tasks[c] \ {"refresh"} \in SUBSET {"write", "refresh"}
      BY <3>1
    <3>3. \/ tasks' = tasks
          \/ \E T \in {tasks[c], tasks[c] \ {"write"}, tasks[c] \ {"refresh"}, {},
                      {"write", "refresh"}} :
               tasks' = [tasks EXCEPT ![c] = T]
      BY Zenon DEF Announce, Chunk, Stop, Write, TaskFails, CleanupEnd, Release, Dies
    <3> QED
      BY <3>1, <3>2, <3>3
  <2> QED
    BY <2>1, Zenon
<1>7. UNCHANGED <<up, feed, meta>>
  BY DEF Announce, Chunk, Stop, Write, TaskFails, CleanupEnd, Release, Dies
<1>8. queue' \in [Conn -> Seq(Entries)] /\ \A d \in Conn : Len(queue'[d]) <= QueueMax
  <2>0. /\ QueueMax \in Nat \ {0} /\ queue[c] \in Seq(Entries)
        /\ Len(queue[c]) \in Nat /\ Len(queue[c]) <= QueueMax
    BY LiveAssumption
  <2>1. ASSUME NEW q \in Seq(Entries), Len(q) <= QueueMax,
               queue' = [queue EXCEPT ![c] = q]
        PROVE  /\ queue' \in [Conn -> Seq(Entries)]
               /\ \A d \in Conn : Len(queue'[d]) <= QueueMax
    BY <2>1
  <2>2. CASE Announce(c) \/ CleanupEnd(c)
    BY <2>2 DEF Announce, CleanupEnd
  <2>3. CASE Chunk(c)
    <3>1. CASE Len(queue[c]) < QueueMax
      <4>1. Entry("chunk", c) \in Entries
        BY EntryType
      <4> HIDE DEF Entry
      <4>2. /\ Append(queue[c], Entry("chunk", c)) \in Seq(Entries)
            /\ Len(Append(queue[c], Entry("chunk", c))) <= QueueMax
        BY <2>0, <3>1, <4>1
      <4>3. queue' = [queue EXCEPT ![c] = Append(queue[c], Entry("chunk", c))]
        BY <2>3, <3>1 DEF Chunk
      <4> QED
        BY <2>1, <4>2, <4>3
    <3>2. CASE ~(Len(queue[c]) < QueueMax)
      BY <2>3, <3>2 DEF Chunk
    <3> QED
      BY <3>1, <3>2
  <2>4. CASE Stop(c)
    <3> DEFINE rest == IF Len(queue[c]) < QueueMax THEN queue[c] ELSE Tail(queue[c])
    <3>1. rest \in Seq(Entries) /\ Len(rest) + 1 <= QueueMax /\ Len(rest) \in Nat
      BY <2>0
    <3>2. Entry("end", c) \in Entries
      BY EntryType
    <3> HIDE DEF rest
    <3>3. /\ Append(rest, Entry("end", c)) \in Seq(Entries)
          /\ Len(Append(rest, Entry("end", c))) <= QueueMax
      BY <3>1, <3>2
    <3>4. queue' = [queue EXCEPT ![c] = Append(rest, Entry("end", c))]
      BY <2>4 DEF Stop, rest
    <3> QED
      BY <3>3, <3>4, <2>1
  <2>5. CASE Write(c) \/ TaskFails(c)
    <3>1. CASE queue' = queue
      BY <3>1
    <3>2. CASE queue[c] # <<>> /\ queue' = [queue EXCEPT ![c] = Tail(queue[c])]
      <4>1. Tail(queue[c]) \in Seq(Entries) /\ Len(Tail(queue[c])) <= QueueMax
        BY <2>0, <3>2
      <4> QED
        BY <4>1, <3>2, <2>1
    <3> QED
      BY <2>5, <3>1, <3>2 DEF Write, TaskFails
  <2>6. CASE Release(c) \/ Dies(c)
    <3>1. <<>> \in Seq(Entries) /\ Len(<<>>) <= QueueMax
      BY <2>0
    <3> QED
      BY <2>6, <3>1, <2>1 DEF Release, Dies
  <2> QED
    BY <2>2, <2>3, <2>4, <2>5, <2>6
<1>9. /\ log' \in Seq(Entries) /\ feed'.at <= Len(log')
      /\ (feed'.of # NoConn => feed'.at \in 0..Len(log'))
  <2>1. CASE log' = log
    BY <2>1, <1>7 DEF Entries
  <2>2. CASE Announce(c) \/ (CleanupEnd(c) /\ log' # log)
    BY <2>2, <1>7, LogGrows, EntryType DEF Announce, CleanupEnd, Xadd
  <2>3. CASE Write(c)
    <3>1. Head(queue[c]) \in Entries
      BY <2>3 DEF Write
    <3> QED
      BY <2>3, <3>1, <1>7, LogGrows DEF Write
  <2> QED
    BY <2>1, <2>2, <2>3 DEF Chunk, Stop, TaskFails, Release, Dies
<1> QED
  BY <1>1, <1>2, <1>3, <1>4, <1>5, <1>6, <1>7, <1>8, <1>9 DEF Entries

(* The feed of the worker stays within the log.                            *)
LEMMA FeedTypes ==
  ASSUME TypeInv, Worker \/ Expire \/ WorkerDies
  PROVE  TypeInv'
<1> USE DEF TypeInv, TypeOK, handlerVars, workerVars, KeepFaults, Fault
<1>1. faults' \in 0..MaxFaults
  BY LiveAssumption
     DEF Worker, Expire, WorkerDies, PollLive, FeedRead, FeedLapses, SourceEnded,
         WorkerStarts
<1>2. /\ key' \in Conn \cup {NoConn} /\ meta' \in Conn \cup {NoConn}
      /\ up' \in BOOLEAN
  BY Zenon
     DEF Worker, Expire, WorkerDies, PollLive, FeedRead, FeedLapses, SourceEnded,
         WorkerStarts
<1>3. UNCHANGED <<log, pc, sock, closing, tasks, queue, sent>>
  BY DEF Worker, Expire, WorkerDies, PollLive, FeedRead, FeedLapses, SourceEnded,
         WorkerStarts
<1>4. Len(log) \in Nat /\ DOMAIN log = 1..Len(log)
  OBVIOUS
<1>5. NoFeed \in Feeds /\ NoFeed.at <= Len(log) /\ NoFeed.of = NoConn
  BY <1>4 DEF NoFeed, Feeds
<1>6. feed' \in Feeds /\ feed'.at <= Len(log)
  <2>1. CASE feed' \in {feed, NoFeed, [feed EXCEPT !.over = TRUE]}
    BY <2>1, <1>5 DEF Feeds
  <2>2. ASSUME NEW c \in Conn, feed' = FeedOf(c) PROVE feed' \in Feeds /\ feed'.at <= Len(log)
    <3> DEFINE starts == {i \in DOMAIN log : log[i] = Entry("start", c)}
               at == IF starts = {} THEN 0 ELSE Min(starts)
    <3>1. at \in Nat /\ at <= Len(log)
      <4>1. CASE starts = {}
        BY <4>1, <1>4
      <4>2. CASE starts # {}
        <5>1. starts \in SUBSET Nat /\ \A i \in starts : i <= Len(log)
          BY <1>4
        <5> HIDE DEF starts
        <5>2. Min(starts) \in starts
          BY <5>1, <4>2, MinIsMember
        <5> QED
          BY <4>2, <5>1, <5>2
      <4> QED
        BY <4>1, <4>2
    <3>2. (starts = {}) \in BOOLEAN
      OBVIOUS
    <3>3. feed' = [NoFeed EXCEPT !.of = c, !.over = (starts = {}), !.at = at]
      BY <2>2 DEF FeedOf
    <3> HIDE DEF starts, at
    <3>4. feed' = [of |-> c, at |-> at, played |-> 0, over |-> (starts = {})]
      BY <3>3, Zenon DEF NoFeed
    <3> QED
      BY <3>1, <3>2, <3>4, FeedType
  <2>3. CASE FeedRead
    <3> DEFINE ends == {i \in feed.at + 1 .. Len(log) : EndsFeed(log[i])}
               last == IF ends = {} THEN Len(log) ELSE Min(ends)
               own  == {i \in feed.at + 1 .. last : log[i] = Entry("chunk", feed.of)}
    <3>1. feed.at \in Nat /\ feed.played \in Nat /\ feed.of \in Conn \cup {NoConn}
      BY DEF Feeds
    <3>2. last \in Nat /\ last <= Len(log)
      <4>1. CASE ends = {}
        BY <4>1, <1>4
      <4>2. CASE ends # {}
        <5>1. ends \in SUBSET Nat /\ \A i \in ends : i <= Len(log)
          BY <1>4, <3>1
        <5> HIDE DEF ends
        <5>2. Min(ends) \in ends
          BY <5>1, <4>2, MinIsMember
        <5> QED
          BY <4>2, <5>1, <5>2
      <4> QED
        BY <4>1, <4>2
    <3>3. Cardinality(own) \in Nat
      <4> HIDE DEF last
      <4>1. IsFiniteSet(feed.at + 1 .. last)
        <5>1. feed.at + 1 \in Int /\ last \in Int
          BY <3>1, <3>2
        <5> QED
          BY <5>1, FS_Interval
      <4>2. IsFiniteSet(own)
        <5>1. own \subseteq feed.at + 1 .. last
          OBVIOUS
        <5> QED
          BY <4>1, <5>1, FS_Subset
      <4> QED
        BY <4>2, FS_CardinalityType
    <3>4. feed' = [feed EXCEPT !.at = last, !.over = ends # {},
                               !.played = @ + Cardinality(own)]
      BY <2>3 DEF FeedRead
    <3>5. (ends # {}) \in BOOLEAN
      OBVIOUS
    <3> HIDE DEF ends, last, own
    <3>6. feed' = [of |-> feed.of, at |-> last,
                   played |-> feed.played + Cardinality(own), over |-> (ends # {})]
      BY <3>4 DEF Feeds
    <3>7. feed.played + Cardinality(own) \in Nat
      BY <3>1, <3>3
    <3> QED
      BY <3>1, <3>2, <3>5, <3>6, <3>7, FeedType
  <2>4. CASE PollLive
    BY <2>4, <2>1, <2>2 DEF PollLive
  <2>5. CASE ~PollLive /\ ~FeedRead
    BY <2>5, <2>1 DEF Worker, Expire, WorkerDies, FeedLapses, SourceEnded, WorkerStarts
  <2> QED
    BY <2>3, <2>4, <2>5
<1> QED
  BY <1>1, <1>2, <1>3, <1>4, <1>6 DEF Feeds

(* Every step of the module.                                               *)
LEMMA TypeStep == TypeInv /\ [Next]_vars => TypeInv'
<1> SUFFICES ASSUME TypeInv, [Next]_vars PROVE TypeInv'
  OBVIOUS
<1>1. CASE UNCHANGED vars
  BY <1>1 DEF vars, handlerVars, workerVars, TypeInv, TypeOK
<1>2. CASE Next
  BY <1>2, HandlerTypes, QueueTypes, FeedTypes DEF Next, Handler
<1> QED
  BY <1>1, <1>2

(* The claim, the ingest stream, the handlers of streaming/live.py and the *)
(* worker's feed keep their types; no write queue exceeds its limit, and   *)
(* the feed never runs past the stream.                                    *)
THEOREM TypeCorrect == Spec => []TypeOK
<1>1. TypeInv => TypeOK
  BY DEF TypeInv
<1> QED
  BY <1>1, InitTypes, TypeStep, PTL DEF Spec

-----------------------------------------------------------------------------
(* A handler starts its refresh task as it goes live, and cancels it as it *)
(* leaves.                                                                 *)
LEMMA RefreshStep == RefreshInv /\ [Next]_vars => RefreshInv'
<1> SUFFICES ASSUME RefreshInv, [Next]_vars PROVE RefreshInv'
  OBVIOUS
<1>0. TypeInv'
  BY TypeStep DEF RefreshInv
<1> USE DEF RefreshInv, TypeInv, TypeOK
<1>1. ASSUME UNCHANGED <<pc, tasks>> PROVE RefreshInv'
  BY <1>0, <1>1
<1>2. CASE UNCHANGED vars \/ Worker \/ Expire \/ WorkerDies
  BY <1>1, <1>2
     DEF vars, handlerVars, Worker, Expire, WorkerDies, PollLive, FeedRead, FeedLapses,
         SourceEnded, WorkerStarts
<1>3. ASSUME NEW c \in Conn, Chunk(c) \/ Stop(c) \/ Refresh(c) \/ MetaPoll(c)
      PROVE RefreshInv'
  BY <1>1, <1>3 DEF Chunk, Stop, Refresh, MetaPoll
<1>4. ASSUME NEW c \in Conn,
             \/ Start(c) \/ Supersede(c) \/ Announce(c) \/ AnnounceFails(c)
             \/ Write(c) \/ TaskFails(c) \/ SocketCloses(c) \/ CleanupEnd(c)
             \/ Release(c) \/ Dies(c)
      PROVE RefreshInv'
  <2>1. \A d \in Conn \ {c} : tasks'[d] = tasks[d] /\ pc'[d] = pc[d]
    BY <1>4
       DEF Start, Supersede, Announce, AnnounceFails, Write, TaskFails, SocketCloses,
           CleanupEnd, Release, Dies, Goto, Set, CancelTasks
  <2>2. "refresh" \in tasks'[c] => pc'[c] = "live"
    BY <1>4
       DEF Start, Supersede, Announce, AnnounceFails, Write, TaskFails, SocketCloses,
           CleanupEnd, Release, Dies, Goto, Set, CancelTasks
  <2> QED
    BY <1>0, <2>1, <2>2
<1> QED
  BY <1>2, <1>3, <1>4 DEF Next, Handler

(* A connection that has had the mount may not claim it again, and nothing *)
(* makes one fresh.  A claim names a connection that is not fresh any more *)
(* (IInv of the refinement).                                               *)
ClaimInv ==
  /\ RefreshInv
  /\ key \in Conn => ~Fresh(key)

(* The steps of a handler that takes the mount, and those that give it up. *)
Taking(c) == (Start(c) /\ key = NoConn) \/ (Supersede(c) /\ key # NoConn)
Dropping  == Expire \/ \E c \in Conn : Release(c) /\ key = c /\ key' = NoConn

(* No step makes a connection fresh again: a refused one is closing, and a *)
(* handler whose socket has gone is not at its beginning.                  *)
LEMMA FreshStep ==
  ASSUME RefreshInv, [Next]_vars, NEW d \in Conn, Fresh(d)'
  PROVE  Fresh(d)
<1> USE DEF RefreshInv, TypeInv, TypeOK, Fresh
<1>1. CASE UNCHANGED <<pc, sock, closing>>
  BY <1>1
<1>2. ASSUME NEW c \in Conn,
             \/ Start(c) \/ Supersede(c) \/ Announce(c) \/ AnnounceFails(c)
             \/ CleanupEnd(c) \/ Release(c)
      PROVE  Fresh(d)
  BY <1>2 DEF Start, Supersede, Announce, AnnounceFails, CleanupEnd, Release, Goto, Set
<1>3. ASSUME NEW c \in Conn, SocketCloses(c) \/ Dies(c)
      PROVE  Fresh(d)
  BY <1>3 DEF SocketCloses, Dies, Forget, Goto, Set
<1>4. ASSUME NEW c \in Conn,
             Chunk(c) \/ Stop(c) \/ Write(c) \/ Refresh(c) \/ TaskFails(c) \/ MetaPoll(c)
      PROVE  Fresh(d)
  BY <1>4 DEF Chunk, Stop, Write, Refresh, TaskFails, MetaPoll, Set
<1>5. CASE UNCHANGED vars \/ Worker \/ Expire \/ WorkerDies
  BY <1>1, <1>5
     DEF vars, handlerVars, Worker, Expire, WorkerDies, PollLive, FeedRead, FeedLapses,
         SourceEnded, WorkerStarts
<1> QED
  BY <1>2, <1>3, <1>4, <1>5 DEF Next, Handler

(* The claim changes only where a handler takes the mount, or where the    *)
(* claim of a broadcast that is over goes.                                 *)
LEMMA KeyMoves ==
  ASSUME RefreshInv, [Next]_vars
  PROVE  key' = key \/ Dropping \/ \E c \in Conn : Taking(c)
<1>1. ASSUME NEW c \in Conn, Start(c) \/ Supersede(c)
      PROVE  key' = key \/ Taking(c)
  BY <1>1 DEF Start, Supersede, Taking
<1>2. ASSUME NEW c \in Conn, Release(c)
      PROVE  key' = key \/ Dropping
  BY <1>2 DEF Release, DropClaim, Dropping
<1>3. ASSUME NEW c \in Conn,
             \/ Announce(c) \/ AnnounceFails(c) \/ Chunk(c) \/ Stop(c) \/ Write(c)
             \/ Refresh(c) \/ TaskFails(c) \/ MetaPoll(c) \/ SocketCloses(c)
             \/ CleanupEnd(c) \/ Dies(c)
      PROVE  key' = key
  BY <1>3
     DEF Announce, AnnounceFails, Chunk, Stop, Write, Refresh, TaskFails, MetaPoll,
         SocketCloses, CleanupEnd, Dies
<1>4. CASE UNCHANGED vars \/ Worker \/ WorkerDies
  BY <1>4
     DEF vars, Worker, WorkerDies, PollLive, FeedRead, FeedLapses, SourceEnded,
         WorkerStarts
<1> QED
  BY <1>1, <1>2, <1>3, <1>4 DEF Next, Handler, Dropping

(* A handler that is not fresh does not come to set up a claim, nor does   *)
(* its refresh task start, unless it is setting one up.                    *)
LEMMA NotBack ==
  ASSUME RefreshInv, [Next]_vars, NEW d \in Conn,
         ~Fresh(d), "refresh" \notin tasks[d], pc[d] # "claimed"
  PROVE  "refresh" \notin tasks'[d] /\ pc'[d] # "claimed"
<1> USE DEF RefreshInv, TypeInv, TypeOK, Fresh
<1>1. CASE UNCHANGED <<pc, tasks>>
  BY <1>1
<1>2. ASSUME NEW c \in Conn,
             \/ Start(c) \/ Supersede(c) \/ Announce(c) \/ AnnounceFails(c)
             \/ CleanupEnd(c) \/ Release(c)
      PROVE  "refresh" \notin tasks'[d] /\ pc'[d] # "claimed"
  BY <1>2 DEF Start, Supersede, Announce, AnnounceFails, CleanupEnd, Release, Goto, Set
<1>3. ASSUME NEW c \in Conn, SocketCloses(c) \/ Dies(c)
      PROVE  "refresh" \notin tasks'[d] /\ pc'[d] # "claimed"
  BY <1>3 DEF SocketCloses, Dies, CancelTasks, Goto, Set
<1>4. ASSUME NEW c \in Conn,
             Chunk(c) \/ Stop(c) \/ Write(c) \/ Refresh(c) \/ TaskFails(c) \/ MetaPoll(c)
      PROVE  "refresh" \notin tasks'[d] /\ pc'[d] # "claimed"
  BY <1>4 DEF Chunk, Stop, Write, Refresh, TaskFails, MetaPoll, Set
<1>5. CASE UNCHANGED vars \/ Worker \/ Expire \/ WorkerDies
  BY <1>1, <1>5
     DEF vars, handlerVars, Worker, Expire, WorkerDies, PollLive, FeedRead, FeedLapses,
         SourceEnded, WorkerStarts
<1> QED
  BY <1>2, <1>3, <1>4, <1>5 DEF Next, Handler

(* What a handler that takes the mount changes.                            *)
LEMMA TakingFields ==
  ASSUME RefreshInv, NEW c \in Conn, Taking(c)
  PROVE  /\ Fresh(c) /\ key' = c /\ pc'[c] = "claimed"
         /\ \A d \in Conn \ {c} : Fresh(d)' = Fresh(d)
BY DEF RefreshInv, TypeInv, TypeOK, Taking, Start, Supersede, Fresh, Goto

(* A connection that takes the mount is not fresh any more.                *)
LEMMA ClaimStep == ClaimInv /\ [Next]_vars => ClaimInv'
<1> SUFFICES ASSUME ClaimInv, [Next]_vars PROVE ClaimInv'
  OBVIOUS
<1>1. ASSUME NEW d \in Conn, key' = d PROVE ~Fresh(d)'
  <2>1. CASE key' = key
    BY <1>1, <2>1, FreshStep DEF ClaimInv
  <2>2. ASSUME NEW c \in Conn, Taking(c) PROVE ~Fresh(d)'
    BY <1>1, <2>2, TakingFields DEF ClaimInv, Fresh
  <2>3. CASE Dropping
    BY <1>1, <2>3, LiveAssumption DEF Dropping, Expire
  <2> QED
    BY <2>1, <2>2, <2>3, KeyMoves DEF ClaimInv
<1>2. key' \in Conn => ~Fresh(key)'
  BY <1>1 DEF Fresh
<1> QED
  BY <1>2, RefreshStep DEF ClaimInv

(* A broadcast that is over remains so.                                    *)
LEMMA OverGrows ==
  ASSUME ClaimInv, [Next]_vars, NEW d \in Over
  PROVE  d \in Over'
<1>1. d \in Conn /\ ~Fresh(d) /\ ~Fresh(d)' /\ RefreshInv
  BY FreshStep DEF Over, ClaimInv
<1>2. CASE key = d
  BY <1>1, <1>2, NotBack DEF Over
<1>3. CASE key # d
  <2>1. key' # d
    BY <1>1, <1>3, KeyMoves, TakingFields, LiveAssumption DEF Dropping, Expire
  <2> QED
    BY <1>1, <2>1 DEF Over
<1> QED
  BY <1>2, <1>3

(* A step of a handler or of the worker maps to a step of LiveClaim.       *)
LEMMA ClaimsStep ==
  ClaimInv /\ [Next]_vars => [Claims!Next]_<<key, Over>>
<1> SUFFICES ASSUME ClaimInv, [Next]_vars PROVE [Claims!Next]_<<key, Over>>
  OBVIOUS
<1>1. Over \subseteq Over' /\ Over' \subseteq Conn
  BY OverGrows DEF Over
<1>2. CASE key' = key
  BY <1>1, <1>2 DEF Claims!Next, Claims!End
<1>3. ASSUME NEW c \in Conn, Taking(c) PROVE Claims!Claim(c)
  <2>1. /\ Fresh(c) /\ key' = c /\ pc'[c] = "claimed"
        /\ \A d \in Conn \ {c} : Fresh(d)' = Fresh(d)
    BY <1>3, TakingFields DEF ClaimInv
  <2>2. c \notin Over \cup {key}
    BY <2>1 DEF Over, ClaimInv
  <2>3. ASSUME key \in Conn PROVE key \in Over'
    <3>1. key # c /\ ~Fresh(key)
      BY <2>2, <2>3 DEF ClaimInv
    <3> QED
      BY <2>1, <2>3, <3>1 DEF Over
  <2>4. ASSUME NEW d \in Over' PROVE d \in Over \cup ({key} \ {NoConn})
    <3>1. d \in Conn \ {c}
      BY <2>1, <2>4 DEF Over
    <3>2. ~Fresh(d)
      BY <2>1, <2>4, <3>1 DEF Over
    <3> QED
      BY <3>1, <3>2, LiveAssumption DEF Over
  <2>5. key \in Conn \cup {NoConn}
    BY DEF ClaimInv, RefreshInv, TypeInv, TypeOK
  <2>6. Over' = Over \cup ({key} \ {NoConn})
    BY <1>1, <2>3, <2>4, <2>5
  <2> QED
    BY <2>1, <2>2, <2>6 DEF Claims!Claim
<1>4. CASE Dropping
  <2>1. key \in Conn /\ "refresh" \notin tasks[key] /\ pc[key] # "claimed" /\ key' = NoConn
    BY <1>4 DEF Dropping, Expire, Release, ClaimInv, RefreshInv, TypeInv, TypeOK
  <2>2. key \in Over
    BY <2>1 DEF Over, ClaimInv
  <2>3. \A d \in Conn : Fresh(d)' = Fresh(d)
    BY <1>4
       DEF Dropping, Expire, Release, Fresh, handlerVars, Goto, ClaimInv, RefreshInv, TypeInv,
           TypeOK
  <2>4. Over' = Over
    BY <1>1, <2>1, <2>3 DEF Over
  <2> QED
    BY <2>1, <2>2, <2>4 DEF Claims!Next, Claims!Release
<1> QED
  BY <1>2, <1>3, <1>4, KeyMoves DEF ClaimInv, Claims!Next

(* LiveIngest implements LiveClaim, whatever fails and however many        *)
(* connections there are: SET NX and supersession in _handle_start, the    *)
(* compare-and-delete of delete_live_key in a late cleanup, and the key's  *)
(* TTL move the claim as the worker expects.  In particular the claim of a *)
(* connection whose refresh task runs is not deleted under it.             *)
THEOREM Implements == Spec => ImplementsLiveClaim
<1>1. Init => ClaimInv
  BY InitTypes, LiveAssumption DEF Init, RefreshInv, ClaimInv
<1>2. Init => Claims!Init
  BY DEF Init, Claims!Init, Over, Fresh
<1> QED
  BY <1>1, <1>2, ClaimStep, ClaimsStep, PTL DEF Spec, ImplementsLiveClaim, Claims!Spec
=============================================================================
