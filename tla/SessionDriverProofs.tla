------------------------ MODULE SessionDriverProofs ------------------------
(***************************************************************************)
(* Proofs about SessionDriver, for a queue of any length, any repeat       *)
(* modes, and any number of commands, track ends, broadcasts and failures: *)
(* the end of a decoder moves the queue once at most, what is heard of     *)
(* broadcasts is the one on air, and their claims are LiveIngest's.        *)
(***************************************************************************)
EXTENDS SessionDriver, SequenceTheorems, WellFoundedInduction, TLAPS

-----------------------------------------------------------------------------
(***************************************************************************)
(* The session row.                                                        *)
(***************************************************************************)

(* An index of the queue.                                                  *)
LEMMA TrackRange ==
  /\ Tracks \subseteq Nat /\ 0 \in Tracks /\ QLen \in Nat /\ None \notin Tracks
  /\ \A i \in Tracks : i < QLen /\ (i + 1 < QLen => i + 1 \in Tracks)
BY SessionDriverAssumption DEF Tracks, None

(* What a transaction writes over the row is a row.                        *)
LEMMA WriteRow ==
  ASSUME NEW row \in Row, NEW old \in Row, NEW new \in Row
  PROVE  Write(row, old, new) \in Row
BY DEF Write, Row

(* compute_next_index stays in the queue.                                  *)
LEMMA NextIndex ==
  ASSUME NEW r \in Row
  PROVE  ComputeNextIndex(r) \subseteq Tracks
<1>1. r.idx \in Tracks
  BY DEF Row
<1> QED
  BY <1>1, TrackRange DEF ComputeNextIndex

(* The rows an advance may leave.                                          *)
LEMMA AdvanceRow ==
  ASSUME NEW r \in Row
  PROVE  AdvanceIndex(r) \subseteq Row
<1>1. \A i \in Tracks : [r EXCEPT !.idx = i, !.st = "playing"] \in Row
  BY DEF Row
<1>2. [r EXCEPT !.st = "idle"] \in Row
  BY DEF Row
<1> QED
  BY <1>1, <1>2, NextIndex DEF AdvanceIndex

(* The rows a command may commit.                                          *)
LEMMA OutcomeRow ==
  ASSUME NEW r \in Row, NEW op \in Ops
  PROVE  Outcomes(op, r) \subseteq Row
<1>1. \A i \in Tracks : [r EXCEPT !.st = "playing", !.idx = i] \in Row
  BY DEF Row
<1>2. \A st \in {"playing", "paused", "idle"} : [r EXCEPT !.st = st] \in Row
  BY DEF Row
<1>3. CASE op = "play"
  BY <1>2, <1>3 DEF Outcomes
<1>4. CASE op = "pause"
  BY <1>2, <1>4 DEF Outcomes
<1>5. CASE op = "stop"
  BY <1>2, <1>5 DEF Outcomes
<1>6. CASE op = "next"
  BY <1>1, <1>6, NextIndex DEF Outcomes
<1>7. CASE op = "play_at"
  BY <1>1, <1>7 DEF Outcomes
<1> QED
  BY <1>3, <1>4, <1>5, <1>6, <1>7 DEF Ops

(* What the worker makes of the row for one command.                       *)
LEMMA ReplayRow ==
  ASSUME NEW r \in Row, NEW op
  PROVE  Replay(r, op) \in Row
BY DEF Replay, Row

(* A set of natural numbers that is not empty has a least member.          *)
LEMMA LeastNumber ==
  ASSUME NEW T, T \subseteq Nat, T # {}
  PROVE  \E n \in T : \A m \in T : ~(m < n)
<1> DEFINE Less == OpToRel(<, Nat)
<1>1. IsWellFoundedOn(Less, Nat)
  BY NatLessThanWellFounded
<1>2. ASSUME NEW n \in Nat, NEW m \in Nat, m < n PROVE <<m, n>> \in Less
  <2>1. <<m, n>> \in Nat \X Nat /\ <<m, n>>[1] = m /\ <<m, n>>[2] = n
    BY <1>2
  <2> QED
    BY <1>2, <2>1, SMT DEF OpToRel
<1> HIDE DEF Less
<1>3. PICK n \in T : \A m \in T : <<m, n>> \notin Less
  BY <1>1, WFMin
<1>4. ASSUME NEW m \in T PROVE ~(m < n)
  <2>1. m \in Nat /\ n \in Nat /\ <<m, n>> \notin Less
    BY <1>3
  <2> QED
    BY <1>2, <2>1, Zenon
<1> QED
  BY <1>4

(* The rows after each command of a batch: the recursion is well-founded.  *)
LEMMA ReplaySteps ==
  ASSUME NEW r \in Row, NEW cmds, NEW k \in Nat
  PROVE  \E f \in [0 .. k -> Row] :
           f = [n \in 0 .. k |-> IF n = 0 THEN r ELSE Replay(f[n - 1], cmds[n])]
<1> DEFINE Sat(f, k1) ==
             /\ f \in [0 .. k1 -> Row]
             /\ \A n \in 0 .. k1 : f[n] = IF n = 0 THEN r ELSE Replay(f[n - 1], cmds[n])
           Bad == {k1 \in Nat : ~\E f : Sat(f, k1)}
<1>1. Bad = {}
  <2> SUFFICES ASSUME Bad # {} PROVE FALSE
    OBVIOUS
  <2>1. PICK b \in Bad : \A m \in Bad : ~(m < b)
    BY LeastNumber
  <2>2. CASE b = 0
    <3>1. Sat([n \in 0 .. 0 |-> r], 0)
      OBVIOUS
    <3> QED
      BY <2>2, <3>1
  <2>3. CASE b # 0
    <3>1. b \in Nat /\ b - 1 \in Nat /\ b - 1 < b
      BY <2>3
    <3>2. PICK f : Sat(f, b - 1)
      BY <2>1, <3>1
    <3> DEFINE g == [n \in 0 .. b |-> IF n = b THEN Replay(f[b - 1], cmds[b]) ELSE f[n]]
    <3>3. f[b - 1] \in Row
      BY <3>1, <3>2
    <3>4. g \in [0 .. b -> Row]
      BY <3>1, <3>2, <3>3, ReplayRow
    <3>5. ASSUME NEW n \in 0 .. b
          PROVE  g[n] = IF n = 0 THEN r ELSE Replay(g[n - 1], cmds[n])
      <4>1. CASE n = b
        BY <2>3, <3>1, <4>1
      <4>2. CASE n # b
        <5>1. n \in 0 .. (b - 1) /\ g[n] = f[n]
          BY <3>1, <4>2
        <5>2. n # 0 => n - 1 \in 0 .. b /\ n - 1 # b
          BY <3>1, <5>1
        <5>3. n # 0 => g[n - 1] = f[n - 1]
          BY <5>2
        <5> QED
          BY <3>2, <5>1, <5>3
      <4> QED
        BY <4>1, <4>2
    <3>6. Sat(g, b)
      BY <3>4, <3>5
    <3> QED
      BY <3>6
  <2> QED
    BY <2>2, <2>3
<1>2. PICK f : Sat(f, k)
  BY <1>1
<1>3. f = [n \in 0 .. k |-> IF n = 0 THEN r ELSE Replay(f[n - 1], cmds[n])]
  BY <1>2
<1> QED
  BY <1>2, <1>3

(* A batch leaves a row.                                                   *)
LEMMA ReplayAllRow ==
  ASSUME NEW r \in Row, NEW cmds \in Seq(Cmds)
  PROVE  ReplayAll(r, cmds) \in Row
<1> DEFINE step(f) == [n \in 0 .. Len(cmds) |->
                         IF n = 0 THEN r ELSE Replay(f[n - 1], cmds[n])]
           after == CHOOSE f : f = step(f)
<1>1. Len(cmds) \in Nat
  BY LenProperties
<1>2. \E f : f = step(f)
  BY <1>1, ReplaySteps
<1>3. after = step(after)
  BY <1>2
<1>4. ReplayAll(r, cmds) = after[Len(cmds)]
  BY DEF ReplayAll
<1> HIDE DEF after
<1> DEFINE Bad == {n \in 0 .. Len(cmds) : after[n] \notin Row}
<1>5. Bad = {}
  <2> SUFFICES ASSUME Bad # {} PROVE FALSE
    OBVIOUS
  <2>1. PICK b \in Bad : \A m \in Bad : ~(m < b)
    <3>1. Bad \subseteq Nat
      BY <1>1
    <3> QED
      BY <3>1, LeastNumber
  <2>2. b \in 0 .. Len(cmds) /\ after[b] \notin Row
    OBVIOUS
  <2>3. b # 0 /\ after[b] = Replay(after[b - 1], cmds[b])
    BY <1>1, <1>3, <2>2
  <2>4. b - 1 \in 0 .. Len(cmds) /\ b - 1 < b
    BY <1>1, <2>2, <2>3
  <2>5. after[b - 1] \in Row
    BY <2>1, <2>4
  <2> QED
    BY <2>2, <2>3, <2>5, ReplayRow
<1> QED
  BY <1>1, <1>4, <1>5

-----------------------------------------------------------------------------
(***************************************************************************)
(* The decoder pipeline and its credit: every end that may still move the  *)
(* queue is paid for.  An end is waiting (fresh), or an advance works it   *)
(* off or is to be retried for it and has not moved the queue yet.         *)
(***************************************************************************)

Bounded(p) ==
  /\ p.credit <= IF p.dead THEN 2 ELSE 1
  /\ p.fresh => p.dead

Backed(p) == p.credit >= 0 /\ (p.fresh => p.credit >= 1)

Covers(p, advancing) ==
  /\ Backed(p)
  /\ (advancing \/ p.kept = "fresh") /\ ~p.advanced =>
       p.credit >= IF p.fresh THEN 2 ELSE 1

(* Once no advance is under way, an end that is not kept, or has moved the *)
(* queue, need not be paid for.                                            *)
LEMMA CoversBacked ==
  ASSUME NEW p \in Pipe, Backed(p), p.kept # "fresh" \/ p.advanced
  PROVE  Covers(p, FALSE)
BY DEF Covers, Pipe

(* No advance needs less than one that is under way.                       *)
LEMMA CoversLess ==
  ASSUME NEW p \in Pipe, NEW a \in BOOLEAN, Covers(p, a)
  PROVE  Backed(p) /\ Covers(p, FALSE)
BY DEF Covers

(* A new decoder forgets the ends of the old one.                          *)
LEMMA StartDecoderFields ==
  ASSUME NEW p \in Pipe, Bounded(p)
  PROVE  /\ StartDecoderTask(p) \in Pipe /\ Bounded(StartDecoderTask(p))
         /\ StartDecoderTask(p).src = p.src /\ StartDecoderTask(p).paused = p.paused
         /\ StartDecoderTask(p).stuck = p.stuck
         /\ p.stuck => StartDecoderTask(p) = p
         /\ ~p.stuck => /\ StartDecoderTask(p).kept # "fresh"
                        /\ ~StartDecoderTask(p).fresh /\ ~StartDecoderTask(p).dead
                        /\ StartDecoderTask(p).advanced = p.advanced
                        /\ p.credit >= 0 => StartDecoderTask(p).credit = 0
         /\ Backed(p) => Backed(StartDecoderTask(p))
         /\ Covers(p, FALSE) => Covers(StartDecoderTask(p), FALSE)
<1>1. CASE p.stuck
  BY <1>1 DEF StartDecoderTask
<1>2. CASE ~p.stuck
  <2> DEFINE q == StartDecoderTask(p)
  <2>1. q = [p EXCEPT !.dead = FALSE, !.fresh = FALSE, !.stale = p.stale \/ p.fresh,
                      !.kept = IF p.kept = "none" THEN "none" ELSE "stale",
                      !.credit = IF @ < 0 THEN @ ELSE 0]
    BY <1>2 DEF StartDecoderTask
  <2> HIDE DEF q
  <2>2. /\ q.dead = FALSE /\ q.fresh = FALSE /\ q.kept # "fresh" /\ q.src = p.src
        /\ q.paused = p.paused /\ q.stuck = p.stuck /\ q.advanced = p.advanced
        /\ q.credit = IF p.credit < 0 THEN p.credit ELSE 0
    BY <2>1 DEF Pipe
  <2>3. q \in Pipe
    <3>1. (p.stale \/ p.fresh) \in BOOLEAN
      BY Zenon
    <3>2. (IF p.kept = "none" THEN "none" ELSE "stale") \in {"none", "fresh", "stale"}
      OBVIOUS
    <3>3. (IF p.credit < 0 THEN p.credit ELSE 0) \in -1 .. 2
      BY DEF Pipe
    <3>4. \A b \in BOOLEAN, k \in {"none", "fresh", "stale"}, c \in -1 .. 2 :
            [p EXCEPT !.dead = FALSE, !.fresh = FALSE, !.stale = b, !.kept = k,
                      !.credit = c] \in Pipe
      BY DEF Pipe
    <3>5. q = [p EXCEPT !.dead = FALSE, !.fresh = FALSE, !.stale = p.stale \/ p.fresh,
                        !.kept = IF p.kept = "none" THEN "none" ELSE "stale",
                        !.credit = IF p.credit < 0 THEN p.credit ELSE 0]
      BY <2>1
    <3> QED
      BY <3>1, <3>2, <3>3, <3>4, <3>5
  <2>4. Bounded(q) /\ (Backed(p) => Backed(q)) /\ (Covers(p, FALSE) => Covers(q, FALSE))
    BY <2>2 DEF Bounded, Backed, Covers, Pipe
  <2> QED
    <3>1. ~p.stuck => /\ q.kept # "fresh" /\ ~q.fresh /\ ~q.dead
                      /\ q.advanced = p.advanced
                      /\ p.credit >= 0 => q.credit = 0
      BY <2>2 DEF Pipe
    <3>2. /\ q \in Pipe /\ Bounded(q) /\ q.src = p.src /\ q.paused = p.paused
          /\ q.stuck = p.stuck /\ (p.stuck => q = p)
      BY <1>2, <2>2, <2>3, <2>4
    <3> QED
      BY <2>4, <3>1, <3>2 DEF q
<1> QED
  BY <1>1, <1>2

(* A swap that raises before the decoder is replaced touches no end.       *)
LEMMA RaisesFields ==
  ASSUME NEW p \in Pipe, Bounded(p), NEW s \in Sources
  PROVE  /\ SetSourceRaises(p, s) \in Pipe /\ Bounded(SetSourceRaises(p, s))
         /\ SetSourceRaises(p, s).src = s /\ ~SetSourceRaises(p, s).paused
         /\ SetSourceRaises(p, s).stuck = p.stuck
         /\ SetSourceRaises(p, s).kept = p.kept
         /\ Backed(p) => Backed(SetSourceRaises(p, s))
         /\ \A a \in BOOLEAN : Covers(p, a) => Covers(SetSourceRaises(p, s), a)
BY DEF SetSourceRaises, Pipe, Bounded, Backed, Covers

(* A swap plays the new source.                                            *)
LEMMA SetSourceFields ==
  ASSUME NEW p \in Pipe, Bounded(p), NEW s \in Sources
  PROVE  /\ SetSource(p, s) \in Pipe /\ Bounded(SetSource(p, s))
         /\ SetSource(p, s).src = s /\ ~SetSource(p, s).paused
         /\ SetSource(p, s).stuck = p.stuck
         /\ ~p.stuck => SetSource(p, s).kept # "fresh"
         /\ Backed(p) => Backed(SetSource(p, s))
         /\ ~p.stuck /\ Backed(p) => Covers(SetSource(p, s), FALSE)
<1> DEFINE q == SetSourceRaises(p, s)
<1>1. /\ q \in Pipe /\ Bounded(q) /\ q.src = s /\ ~q.paused /\ q.stuck = p.stuck
      /\ Backed(p) => Backed(q)
  BY RaisesFields
<1>2. SetSource(p, s) = StartDecoderTask(q)
  BY DEF SetSource, SetSourceRaises
<1> HIDE DEF q
<1>3. /\ StartDecoderTask(q) \in Pipe /\ Bounded(StartDecoderTask(q))
      /\ StartDecoderTask(q).src = q.src /\ StartDecoderTask(q).paused = q.paused
      /\ StartDecoderTask(q).stuck = q.stuck
      /\ ~q.stuck => StartDecoderTask(q).kept # "fresh"
      /\ Backed(q) => Backed(StartDecoderTask(q))
  BY <1>1, StartDecoderFields
<1>4. ~p.stuck /\ Backed(p) => Covers(StartDecoderTask(q), FALSE)
  BY <1>1, <1>3, CoversBacked
<1>5. /\ StartDecoderTask(q) \in Pipe /\ Bounded(StartDecoderTask(q))
      /\ StartDecoderTask(q).src = s /\ ~StartDecoderTask(q).paused
      /\ StartDecoderTask(q).stuck = p.stuck
      /\ ~p.stuck => StartDecoderTask(q).kept # "fresh"
      /\ Backed(p) => Backed(StartDecoderTask(q))
  BY <1>1, <1>3, Zenon
<1>6. /\ SetSource(p, s) \in Pipe /\ Bounded(SetSource(p, s))
      /\ SetSource(p, s).src = s /\ ~SetSource(p, s).paused
      /\ SetSource(p, s).stuck = p.stuck
      /\ ~p.stuck => SetSource(p, s).kept # "fresh"
      /\ Backed(p) => Backed(SetSource(p, s))
  BY <1>2, <1>5
<1>7. ~p.stuck /\ Backed(p) => Covers(SetSource(p, s), FALSE)
  BY <1>2, <1>4
<1> QED
  BY <1>6, <1>7, Zenon

(* Silence: a broadcast that is paused is gone.                            *)
LEMMA PauseFields ==
  ASSUME NEW p \in Pipe, Bounded(p)
  PROVE  /\ Pause(p) \in Pipe /\ Bounded(Pause(p)) /\ Pause(p).paused
         /\ Pause(p).stuck = p.stuck
         /\ Backed(p) => Backed(Pause(p))
         /\ Covers(p, FALSE) => Covers(Pause(p), FALSE)
<1>1. CASE p.paused
  BY <1>1 DEF Pause
<1>2. CASE ~p.paused
  <2> DEFINE q == [p EXCEPT !.paused = TRUE, !.src = IF p.src >= QLen THEN None ELSE p.src]
  <2>1. q \in Pipe
    <3>1. None \in Sources /\ p.src \in Sources
      BY DEF Sources, Pipe
    <3> QED
      BY <3>1 DEF Pipe
  <2>2. /\ q.paused = TRUE /\ q.dead = p.dead /\ q.fresh = p.fresh /\ q.kept = p.kept
        /\ q.advanced = p.advanced /\ q.credit = p.credit /\ q.stuck = p.stuck
    BY DEF Pipe
  <2>3. Pause(p) = StartDecoderTask(q)
    BY <1>2 DEF Pause
  <2> HIDE DEF q
  <2>4. Bounded(q) /\ (Backed(p) => Backed(q)) /\ (Covers(p, FALSE) => Covers(q, FALSE))
    BY <2>2 DEF Bounded, Backed, Covers
  <2>5. /\ StartDecoderTask(q) \in Pipe /\ Bounded(StartDecoderTask(q))
        /\ StartDecoderTask(q).paused = q.paused /\ StartDecoderTask(q).stuck = q.stuck
        /\ Backed(q) => Backed(StartDecoderTask(q))
        /\ Covers(q, FALSE) => Covers(StartDecoderTask(q), FALSE)
    BY <2>1, <2>4, StartDecoderFields
  <2> QED
    BY <2>2, <2>3, <2>4, <2>5
<1> QED
  BY <1>1, <1>2

(* The retry is forgotten.                                                 *)
LEMMA ForgetFields ==
  ASSUME NEW p \in Pipe, Bounded(p), Backed(p)
  PROVE  /\ ForgetRetry(p) \in Pipe /\ Bounded(ForgetRetry(p))
         /\ ForgetRetry(p).src = p.src /\ ForgetRetry(p).paused = p.paused
         /\ ForgetRetry(p).stuck = p.stuck
         /\ ForgetRetry(p).kept # "fresh" /\ Covers(ForgetRetry(p), FALSE)
BY DEF ForgetRetry, Pipe, Bounded, Backed, Covers

(* A decoder ends: its end may move the queue.                             *)
LEMMA EndedFields ==
  ASSUME NEW p \in Pipe, Bounded(p), ~p.dead
  PROVE  /\ Ended(p) \in Pipe /\ Bounded(Ended(p))
         /\ Ended(p).src = p.src /\ Ended(p).paused = p.paused /\ Ended(p).kept = p.kept
         /\ Ended(p).stuck = p.stuck
         /\ \A a \in BOOLEAN : Covers(p, a) => Covers(Ended(p), a)
<1> DEFINE q == Ended(p)
<1>1. /\ q.dead = TRUE /\ q.fresh = TRUE /\ q.src = p.src /\ q.paused = p.paused
      /\ q.kept = p.kept /\ q.advanced = p.advanced /\ q.stuck = p.stuck
      /\ q.credit = IF p.credit < 0 THEN p.credit ELSE p.credit + 1
  BY DEF Ended, Pipe
<1>2. q \in Pipe
  <2>1. (IF p.credit < 0 THEN p.credit ELSE p.credit + 1) \in -1 .. 2
    BY DEF Pipe, Bounded
  <2>2. \A c \in -1 .. 2 : [p EXCEPT !.dead = TRUE, !.fresh = TRUE, !.credit = c] \in Pipe
    BY DEF Pipe
  <2> QED
    BY <2>1, <2>2 DEF Ended
<1> HIDE DEF q
<1>3. p.credit \in Int /\ ~p.fresh
  BY DEF Pipe, Bounded
<1>4. Bounded(q) /\ \A a \in BOOLEAN : Covers(p, a) => Covers(q, a)
  BY <1>1, <1>3 DEF Bounded, Backed, Covers
<1> QED
  BY <1>1, <1>2, <1>4 DEF q

(* An advance moves the queue at the expense of an end.                    *)
LEMMA CreditedFields ==
  ASSUME NEW p \in Pipe, Bounded(p), Covers(p, TRUE), ~p.advanced
  PROVE  Credited(p) \in Pipe /\ Bounded(Credited(p)) /\ Backed(Credited(p))
         /\ Credited(p).stuck = p.stuck
BY DEF Credited, Pipe, Bounded, Backed, Covers

(* An event whose queue handling is done is kept, and paid for.            *)
LEMMA AdvancedFields ==
  ASSUME NEW p \in Pipe, Bounded(p), Backed(p)
  PROVE  /\ [p EXCEPT !.advanced = TRUE] \in Pipe
         /\ Bounded([p EXCEPT !.advanced = TRUE])
         /\ Covers([p EXCEPT !.advanced = TRUE], FALSE)
BY DEF Pipe, Bounded, Backed, Covers


-----------------------------------------------------------------------------
(***************************************************************************)
(* The inductive invariant.                                                *)
(***************************************************************************)

\* Every command that is published, or whose request is served, was counted,
\* and so was every edit of the output.
Counted ==
  /\ Len(control) + (IF api = NoReq THEN 0 ELSE 1) <= count.cmds
  /\ conf.row + (IF conf.edit THEN 1 ELSE 0) <= count.cmds

\* What an end of a decoder may still do is paid for.
CreditKept == Bounded(pipe) /\ Covers(pipe, task.kind = "advance")

\* A broadcast on air keeps the queue's own events away from the decoder.
AirKept ==
  mem.live # 0 =>
    /\ task.kind \in {"none", "batch"} /\ pipe.kept # "fresh"
    /\ "retries" \notin hit => pipe.src = Live(mem.live) /\ ~pipe.paused

\* A driver that is yet to start has no transaction.
StartsIdle == pc = "startup" => task = NoTask

DriverInv == CreditKept /\ AirKept /\ StartsIdle

SessionInv == TypeOK /\ Counted /\ DriverInv

(* A batch is a sequence of commands, as long as the bound allows.         *)
LEMMA BatchSeq ==
  ASSUME NEW s
  PROVE  s \in Batches \cup {<<>>} <=> s \in Seq(Cmds) /\ Len(s) <= MaxCmds
<1>1. MaxCmds \in Nat
  BY SessionDriverAssumption
<1>2. ASSUME s \in Batches PROVE s \in Seq(Cmds) /\ Len(s) <= MaxCmds
  <2>1. PICK n \in 1 .. MaxCmds : s \in [1 .. n -> Cmds]
    BY <1>2 DEF Batches
  <2>2. n \in Nat
    BY <2>1
  <2> QED
    BY <1>1, <2>1, <2>2
<1>3. <<>> \in Seq(Cmds) /\ Len(<<>>) <= MaxCmds
  BY <1>1
<1>4. ASSUME s \in Seq(Cmds), Len(s) <= MaxCmds PROVE s \in Batches \cup {<<>>}
  <2>1. Len(s) \in Nat /\ s \in [1 .. Len(s) -> Cmds]
    BY <1>4
  <2>2. CASE Len(s) = 0
    BY <1>4, <2>2, EmptySeq
  <2>3. CASE Len(s) # 0
    <3>1. Len(s) \in 1 .. MaxCmds
      BY <1>1, <1>4, <2>1, <2>3
    <3> QED
      BY <2>1, <3>1 DEF Batches
  <2> QED
    BY <2>2, <2>3
<1> QED
  BY <1>2, <1>3, <1>4

(* A failure is counted, and is not the end of the retries.                *)
LEMMA FaultFields ==
  ASSUME count \in Count, hit \subseteq Faults \cup {"retries"}, NEW kind,
         Fault(kind) \/ NoFault
  PROVE  /\ count' \in Count /\ count'.cmds = count.cmds
         /\ hit' \subseteq Faults \cup {"retries"} /\ hit \subseteq hit'
         /\ "retries" \in hit' <=> "retries" \in hit
<1>1. CASE NoFault
  BY <1>1 DEF NoFault
<1>2. CASE Fault(kind)
  <2>1. kind \in Faults /\ kind # "retries"
    BY <1>2, SessionDriverAssumption DEF Fault, FaultKinds
  <2>2. MaxFaults \in Nat
    BY SessionDriverAssumption
  <2>3. hit' = hit \cup {kind}
    BY <1>2 DEF Fault
  <2>4. count' = [count EXCEPT !.faults = @ + 1] /\ count.faults < MaxFaults
    BY <1>2 DEF Fault
  <2>5. count' \in Count /\ count'.cmds = count.cmds
    BY <2>2, <2>4 DEF Count
  <2>6. hit' \subseteq Faults \cup {"retries"} /\ hit \subseteq hit'
    BY <2>1, <2>3
  <2>7. "retries" \in hit' <=> "retries" \in hit
    BY <2>1, <2>3
  <2> QED
    BY <2>5, <2>6, <2>7
<1> QED
  BY <1>1, <1>2


(* A step that leaves the worker alone, but for failures that happened.    *)
LEMMA WorkerIdle ==
  ASSUME TypeOK, DriverInv, UNCHANGED worker, "retries" \in hit' <=> "retries" \in hit
  PROVE  DriverInv'
<1>1. pc' = pc /\ task' = task /\ mem' = mem /\ pipe' = pipe
  BY DEF worker
<1>2. CreditKept'
  BY <1>1 DEF DriverInv, CreditKept
<1>3. AirKept'
  BY <1>1 DEF DriverInv, AirKept
<1>4. StartsIdle'
  BY <1>1 DEF DriverInv, StartsIdle
<1> QED
  BY <1>2, <1>3, <1>4 DEF DriverInv

(* A request is loaded, commits the row and publishes its command.         *)
LEMMA ApiStep ==
  ASSUME SessionInv, (\E op \in Ops : ApiLoad(op)) \/ ApiCommit \/ ApiPublish
  PROVE  SessionInv'
<1> USE DEF SessionInv
<1>1. MaxCmds \in Nat /\ count \in Count /\ count.cmds \in 0 .. MaxCmds
  BY SessionDriverAssumption DEF TypeOK, Count
<1>2. control \in Seq(Cmds) /\ Len(control) \in Nat
  BY BatchSeq DEF TypeOK
<1>3. ASSUME NEW op \in Ops, ApiLoad(op) PROVE SessionInv'
  <2>1. PICK new \in Outcomes(op, sess) :
          api' = [ph |-> "loaded", op |-> op, old |-> sess, new |-> new]
    BY <1>3 DEF ApiLoad
  <2>2. api' \in Request /\ api = NoReq
    BY <1>3, <2>1, OutcomeRow DEF ApiLoad, TypeOK, Request
  <2>3. /\ UNCHANGED <<sess, control, want, key, over, conf, hit, broken>>
        /\ UNCHANGED worker
    BY <1>3 DEF ApiLoad
  <2>4. count' = [count EXCEPT !.cmds = @ + 1] /\ count.cmds < MaxCmds
    BY <1>3 DEF ApiLoad
  <2>5. count' \in Count /\ count'.cmds = count.cmds + 1
    BY <1>1, <2>4 DEF Count
  <2>6. TypeOK'
    BY <2>2, <2>3, <2>5 DEF TypeOK, worker
  <2>7. Counted'
    <3>1. conf.row + (IF conf.edit THEN 1 ELSE 0) \in Int
      BY DEF TypeOK
    <3>2. Len(control) <= count.cmds
      BY <2>2 DEF Counted
    <3> QED
      BY <1>1, <1>2, <2>2, <2>3, <2>5, <3>1, <3>2 DEF Counted
  <2> QED
    BY <2>3, <2>6, <2>7, WorkerIdle
<1>4. ASSUME ApiCommit PROVE SessionInv'
  <2>1. api \in Request /\ api # NoReq
    BY <1>4 DEF ApiCommit, TypeOK, NoReq
  <2>2. sess' \in Row /\ want' \in [op : Ops, row : Row]
    <3>1. api.old \in Row /\ api.new \in Row /\ api.op \in Ops /\ sess \in Row
      BY <2>1 DEF Request, TypeOK
    <3>2. sess' = Write(sess, api.old, api.new)
      BY <1>4 DEF ApiCommit
    <3>3. want' = [op |-> api.op, row |-> api.new]
      BY <1>4 DEF ApiCommit
    <3> QED
      BY <3>1, <3>2, <3>3, WriteRow
  <2>3. api' \in Request /\ api' # NoReq
    BY <1>4, <2>1 DEF ApiCommit, Request, NoReq
  <2>4. /\ UNCHANGED <<control, key, over, conf, count, hit, broken>>
        /\ UNCHANGED worker
    BY <1>4 DEF ApiCommit, NoFault
  <2>5. TypeOK'
    BY <2>2, <2>3, <2>4 DEF TypeOK, worker
  <2>6. Counted'
    BY <2>1, <2>3, <2>4 DEF Counted
  <2> QED
    BY <2>4, <2>5, <2>6, WorkerIdle
<1>5. ASSUME ApiPublish PROVE SessionInv'
  <2>1. api \in Request /\ api # NoReq /\ api' = NoReq
    BY <1>5 DEF ApiPublish, TypeOK, NoReq
  <2>2. api.op \in Cmds
    BY <2>1 DEF Request, Cmds
  <2>3. UNCHANGED <<sess, want, key, over, conf, broken>> /\ UNCHANGED worker
    BY <1>5 DEF ApiPublish
  <2>4. (control' = Append(control, api.op) /\ NoFault) \/ (control' = control /\ Fault("publish"))
    BY <1>5 DEF ApiPublish
  <2>5. /\ count' \in Count /\ count'.cmds = count.cmds
        /\ hit' \subseteq Faults \cup {"retries"} /\ ("retries" \in hit' <=> "retries" \in hit)
    BY <2>4, FaultFields DEF TypeOK
  <2>6. control' \in Seq(Cmds) /\ Len(control') <= Len(control) + 1
    BY <1>2, <2>2, <2>4, AppendProperties
  <2>7. Len(control) + 1 <= count.cmds
    BY <2>1 DEF Counted
  <2>8. Len(control') \in Nat /\ Len(control') <= count.cmds
    BY <1>1, <1>2, <2>6, <2>7
  <2>9. control' \in Batches \cup {<<>>}
    BY <1>1, <2>6, <2>8, BatchSeq
  <2>10. TypeOK'
    BY <2>1, <2>3, <2>5, <2>9 DEF TypeOK, worker
  <2>11. Counted'
    BY <2>1, <2>3, <2>5, <2>8 DEF Counted
  <2> QED
    BY <2>3, <2>5, <2>10, <2>11, WorkerIdle
<1> QED
  BY <1>3, <1>4, <1>5

(* The owner edits the output.                                             *)
LEMMA EditStep ==
  ASSUME SessionInv, PublishReload \/ CommitEdit
  PROVE  SessionInv'
<1> USE DEF SessionInv
<1>1. MaxCmds \in Nat /\ count \in Count /\ count.cmds \in 0 .. MaxCmds
  BY SessionDriverAssumption DEF TypeOK, Count
<1>2. control \in Seq(Cmds) /\ Len(control) \in Nat
  BY BatchSeq DEF TypeOK
<1>3. conf \in [row : 0 .. MaxCmds, edit : BOOLEAN] /\ conf.row \in Nat
  BY DEF TypeOK
<1>4. ASSUME PublishReload PROVE SessionInv'
  <2>1. UNCHANGED <<sess, api, want, key, over, hit, broken>> /\ UNCHANGED worker
    BY <1>4 DEF PublishReload
  <2>2. /\ count' = [count EXCEPT !.cmds = @ + 1] /\ count.cmds < MaxCmds
        /\ ~conf.edit /\ control' = Append(control, "reload_output")
        /\ conf' = [conf EXCEPT !.edit = TRUE]
    BY <1>4 DEF PublishReload
  <2>3. count' \in Count /\ count'.cmds = count.cmds + 1
    BY <1>1, <2>2 DEF Count
  <2>4. /\ conf' \in [row : 0 .. MaxCmds, edit : BOOLEAN] /\ conf'.row = conf.row
        /\ conf'.edit = TRUE
    BY <1>3, <2>2
  <2>5. control' \in Seq(Cmds) /\ Len(control') = Len(control) + 1
    <3>1. "reload_output" \in Cmds
      BY DEF Cmds
    <3> QED
      BY <1>2, <2>2, <3>1, AppendProperties
  <2>6. Counted'
    <3>1. Len(control) + (IF api = NoReq THEN 0 ELSE 1) <= count.cmds /\ conf.row <= count.cmds
      BY <1>3, <2>2 DEF Counted
    <3>2. (IF api = NoReq THEN 0 ELSE 1) \in Nat
      OBVIOUS
    <3>3. Len(control') + (IF api = NoReq THEN 0 ELSE 1) <= count'.cmds
      BY <1>1, <1>2, <2>3, <2>5, <3>1, <3>2
    <3>4. conf'.row + 1 <= count'.cmds
      BY <1>1, <1>3, <2>3, <2>4, <3>1
    <3> QED
      BY <2>1, <2>4, <3>3, <3>4 DEF Counted
  <2>7. control' \in Batches \cup {<<>>}
    <3>1. Len(control) <= count.cmds
      BY <1>1, <1>2 DEF Counted
    <3>2. Len(control') <= MaxCmds
      BY <1>1, <1>2, <2>2, <2>5, <3>1
    <3> QED
      BY <2>5, <3>2, BatchSeq
  <2>8. TypeOK'
    BY <2>1, <2>3, <2>4, <2>7 DEF TypeOK, worker
  <2> QED
    BY <2>1, <2>6, <2>8, WorkerIdle
<1>5. ASSUME CommitEdit PROVE SessionInv'
  <2>1. UNCHANGED <<sess, api, control, want, key, over, count, hit, broken>> /\ UNCHANGED worker
    BY <1>5 DEF CommitEdit, NoFault, session
  <2>2. conf.edit /\ conf' = [row |-> conf.row + 1, edit |-> FALSE]
    BY <1>5 DEF CommitEdit
  <2>3. conf.row + 1 <= count.cmds
    BY <2>2 DEF Counted
  <2>4. conf' \in [row : 0 .. MaxCmds, edit : BOOLEAN]
    <3>1. conf.row + 1 \in 0 .. MaxCmds
      BY <1>1, <1>3, <2>3
    <3> QED
      BY <2>2, <3>1
  <2>5. Counted'
    BY <1>3, <2>1, <2>2, <2>3 DEF Counted
  <2>6. TypeOK'
    BY <2>1, <2>4 DEF TypeOK, worker
  <2> QED
    BY <2>1, <2>5, <2>6, WorkerIdle
<1> QED
  BY <1>4, <1>5

(* A broadcaster claims the key, closes the connection, and is cleaned up. *)
LEMMA BroadcastStep ==
  ASSUME SessionInv, Claim \/ Disconnect \/ Release
  PROVE  SessionInv'
<1> USE DEF SessionInv
<1>1. ASSUME Claim PROVE SessionInv'
  <2>1. UNCHANGED <<sess, api, control, want, conf, hit>> /\ UNCHANGED worker
    BY <1>1 DEF Claim, session
  <2>2. MaxLive \in Nat /\ count \in Count /\ count.lives < MaxLive
    BY <1>1, SessionDriverAssumption DEF Claim, TypeOK
  <2>3. count' \in Count /\ count'.cmds = count.cmds
    BY <1>1, <2>2 DEF Claim, Count
  <2>4. key' \in Ids
    BY <1>1, <2>2 DEF Claim, Count, Ids
  <2>5. over' \subseteq Ids
    BY <1>1 DEF Claim, TypeOK
  <2>6. broken' \in BOOLEAN
    <3>1. broken' = (broken \/ mem.live # 0)
      BY <1>1 DEF Claim
    <3> QED
      BY <3>1, Zenon
  <2>7. TypeOK'
    BY <2>1, <2>3, <2>4, <2>5, <2>6 DEF TypeOK, worker
  <2>8. Counted'
    BY <2>1, <2>3 DEF Counted
  <2> QED
    BY <2>1, <2>7, <2>8, WorkerIdle
<1>2. ASSUME Disconnect \/ Release PROVE SessionInv'
  <2>1. /\ UNCHANGED <<sess, api, control, want, conf, count, hit, broken>>
        /\ UNCHANGED worker
    BY <1>2 DEF Disconnect, Release, NoFault, session
  <2>2. key' \in Ids \cup {0} /\ over' \subseteq Ids
    BY <1>2 DEF Disconnect, Release, TypeOK
  <2>3. TypeOK'
    BY <2>1, <2>2 DEF TypeOK, worker
  <2>4. Counted'
    BY <2>1 DEF Counted
  <2> QED
    BY <2>1, <2>3, <2>4, WorkerIdle
<1> QED
  BY <1>1, <1>2

(* A step of the worker or of the pipeline: it leaves the API's side, but  *)
(* for the row, and the commands if it drains them.                        *)
LEMMA WorkerFrame ==
  ASSUME SessionInv, UNCHANGED <<api, want, key, over, conf>>,
         control' = control \/ control' = <<>>, sess' \in Row,
         broken' \in BOOLEAN, count' \in Count, count'.cmds = count.cmds,
         hit' \subseteq Faults \cup {"retries"},
         pc' \in {"startup", "cmds", "events", "retry", "live"},
         task' \in Task \cup {NoTask}, mem' \in Mem, pipe' \in Pipe, DriverInv'
  PROVE  SessionInv'
<1>1. control \in Seq(Cmds) /\ Len(control) \in Nat /\ Len(<<>>) = 0
  BY BatchSeq DEF SessionInv, TypeOK
<1>2. control' \in Batches \cup {<<>>} /\ Len(control') <= Len(control)
  BY <1>1 DEF SessionInv, TypeOK
<1>3. Len(control') \in Nat
  BY <1>1
<1>4. TypeOK'
  BY <1>2 DEF SessionInv, TypeOK
<1>5. Counted'
  <2>1. Len(control) + (IF api = NoReq THEN 0 ELSE 1) <= count.cmds
    BY DEF SessionInv, Counted
  <2>2. (IF api = NoReq THEN 0 ELSE 1) \in Nat /\ count.cmds \in Nat
    BY SessionDriverAssumption DEF SessionInv, TypeOK, Count
  <2>3. Len(control') + (IF api = NoReq THEN 0 ELSE 1) <= count.cmds
    BY <1>1, <1>2, <1>3, <2>1, <2>2
  <2>4. conf.row + (IF conf.edit THEN 1 ELSE 0) <= count.cmds
    BY DEF SessionInv, Counted
  <2> QED
    BY <2>3, <2>4 DEF Counted
<1> QED
  BY <1>4, <1>5 DEF SessionInv

-----------------------------------------------------------------------------
(***************************************************************************)
(* The pipeline's own steps.                                               *)
(***************************************************************************)

(* The decoder of a track, or of a broadcast's feed, reaches the end.      *)
LEMMA EndsStep ==
  ASSUME SessionInv, TrackEnds \/ \E i \in Ids : FeedEnds(i)
  PROVE  SessionInv'
<1>1. pipe \in Pipe /\ CreditKept /\ AirKept /\ StartsIdle /\ count \in Count
  BY DEF SessionInv, TypeOK, DriverInv
<1>2. /\ ~pipe.dead /\ pipe' = Ended(pipe)
      /\ UNCHANGED <<session, key, over, conf, pc, task, mem, hit, broken>>
  BY DEF TrackEnds, FeedEnds, NoFault
<1>3. count' \in Count /\ count'.cmds = count.cmds
  BY <1>1, SessionDriverAssumption DEF TrackEnds, FeedEnds, NoFault, Count
<1>4. /\ pipe' \in Pipe /\ Bounded(pipe')
      /\ pipe'.src = pipe.src /\ pipe'.paused = pipe.paused /\ pipe'.kept = pipe.kept
      /\ \A a \in BOOLEAN : Covers(pipe, a) => Covers(pipe', a)
  BY <1>1, <1>2, EndedFields DEF CreditKept
<1>5. CreditKept'
  BY <1>1, <1>2, <1>4 DEF CreditKept
<1>6. AirKept'
  BY <1>1, <1>2, <1>4 DEF AirKept
<1>7. TypeOK'
  BY <1>2, <1>3, <1>4 DEF SessionInv, TypeOK, session
<1>8. Counted'
  BY <1>2, <1>3 DEF SessionInv, Counted, session
<1>9. StartsIdle'
  BY <1>1, <1>2 DEF StartsIdle
<1> QED
  BY <1>5, <1>6, <1>7, <1>8, <1>9 DEF SessionInv, DriverInv

(* The decoder's process cannot be started.                                *)
LEMMA SpawnStep ==
  ASSUME SessionInv, SpawnFails
  PROVE  SessionInv'
<1>1. pipe \in Pipe /\ CreditKept /\ AirKept /\ StartsIdle
  BY DEF SessionInv, TypeOK, DriverInv
<1>2. /\ ~pipe.dead /\ pipe' = [pipe EXCEPT !.dead = TRUE, !.stuck = TRUE]
      /\ UNCHANGED <<sess, api, control, want, key, over, conf, pc, task, mem, broken>>
      /\ Fault("spawn")
  BY DEF SpawnFails, session
<1>3. /\ count' \in Count /\ count'.cmds = count.cmds
      /\ hit' \subseteq Faults \cup {"retries"} /\ ("retries" \in hit' <=> "retries" \in hit)
  BY <1>2, FaultFields DEF SessionInv, TypeOK
<1>4. /\ pipe' \in Pipe /\ pipe'.dead = TRUE /\ pipe'.fresh = pipe.fresh
      /\ pipe'.credit = pipe.credit /\ pipe'.kept = pipe.kept
      /\ pipe'.advanced = pipe.advanced /\ pipe'.src = pipe.src
      /\ pipe'.paused = pipe.paused
  BY <1>1, <1>2 DEF Pipe
<1>5. Bounded(pipe')
  BY <1>1, <1>2, <1>4 DEF CreditKept, Bounded, Pipe
<1>6. Covers(pipe', task.kind = "advance")
  BY <1>1, <1>4 DEF CreditKept, Covers, Backed
<1>7. CreditKept'
  BY <1>2, <1>5, <1>6 DEF CreditKept
<1>8. AirKept'
  BY <1>1, <1>2, <1>3, <1>4 DEF AirKept
<1>9. StartsIdle'
  BY <1>1, <1>2 DEF StartsIdle
<1> QED
  BY <1>2, <1>3, <1>4, <1>7, <1>8, <1>9, WorkerFrame DEF DriverInv, SessionInv, TypeOK

(* A restarted decoder pays for the advance that is under way.             *)
LEMMA RestartedFields ==
  ASSUME pipe \in Pipe, CreditKept, ~pipe.stuck
  PROVE  /\ Restarted \in Pipe /\ Bounded(Restarted) /\ ~Restarted.dead
         /\ Restarted.src = pipe.src /\ Restarted.paused = pipe.paused
         /\ ~Restarted.stuck
         /\ Restarted.kept # "fresh" /\ Covers(Restarted, task.kind = "advance")
<1> DEFINE p == StartDecoderTask(pipe)
<1>1. /\ p \in Pipe /\ Bounded(p) /\ p.src = pipe.src /\ p.paused = pipe.paused
      /\ p.kept # "fresh" /\ ~p.fresh /\ ~p.dead /\ p.advanced = pipe.advanced
      /\ p.credit = 0 /\ ~p.stuck
  <2>1. Bounded(pipe) /\ Backed(pipe) /\ pipe.credit >= 0
    BY DEF CreditKept, Covers, Backed
  <2> QED
    BY <2>1, StartDecoderFields
<1> DEFINE c == IF task.kind = "advance" /\ pipe.credit > 0 THEN 1 ELSE p.credit
<1>2. Restarted = [p EXCEPT !.credit = c]
  BY DEF Restarted
<1> HIDE DEF p
<1>3. c \in {0, 1}
  BY <1>1
<1>4. task.kind = "advance" /\ ~pipe.advanced => c = 1
  <2>1. task.kind = "advance" /\ ~pipe.advanced => pipe.credit > 0
    BY DEF CreditKept, Covers, Pipe
  <2> QED
    BY <2>1
<1> HIDE DEF c
<1>5. /\ Restarted \in Pipe /\ Restarted.credit = c /\ Restarted.src = p.src
      /\ Restarted.paused = p.paused /\ Restarted.kept = p.kept
      /\ Restarted.fresh = p.fresh /\ Restarted.dead = p.dead
      /\ Restarted.advanced = p.advanced /\ Restarted.stuck = p.stuck
  BY <1>1, <1>2, <1>3 DEF Pipe
<1>6. Bounded(Restarted)
  BY <1>1, <1>3, <1>5 DEF Bounded
<1>7. Covers(Restarted, task.kind = "advance")
  BY <1>1, <1>3, <1>4, <1>5 DEF Covers, Backed
<1> QED
  BY <1>1, <1>5, <1>6, <1>7

(* The encoder exits, and its decoder is restarted.                        *)
LEMMA EncoderStep ==
  ASSUME SessionInv, EncoderRestarts
  PROVE  SessionInv'
<1>1. pipe \in Pipe /\ CreditKept /\ AirKept /\ StartsIdle
  BY DEF SessionInv, TypeOK, DriverInv
<1>2. /\ ~pipe.stuck /\ (pipe' = Restarted \/ pipe' = Ended(Restarted))
      /\ UNCHANGED <<sess, api, control, want, key, over, conf, pc, task, mem, broken>>
      /\ Fault("encoder")
  BY DEF EncoderRestarts, session
<1>3. /\ count' \in Count /\ count'.cmds = count.cmds
      /\ hit' \subseteq Faults \cup {"retries"} /\ ("retries" \in hit' <=> "retries" \in hit)
  BY <1>2, FaultFields DEF SessionInv, TypeOK
<1>4. /\ Restarted \in Pipe /\ Bounded(Restarted) /\ ~Restarted.dead
      /\ Restarted.src = pipe.src /\ Restarted.paused = pipe.paused
      /\ Restarted.kept # "fresh" /\ Covers(Restarted, task.kind = "advance")
  BY <1>1, <1>2, RestartedFields
<1>5. /\ Ended(Restarted) \in Pipe /\ Bounded(Ended(Restarted))
      /\ Ended(Restarted).src = pipe.src /\ Ended(Restarted).paused = pipe.paused
      /\ Ended(Restarted).kept # "fresh" /\ Covers(Ended(Restarted), task.kind = "advance")
  <2>1. /\ Ended(Restarted) \in Pipe /\ Bounded(Ended(Restarted))
        /\ Ended(Restarted).src = Restarted.src
        /\ Ended(Restarted).paused = Restarted.paused
        /\ Ended(Restarted).kept = Restarted.kept
        /\ \A a \in BOOLEAN : Covers(Restarted, a) => Covers(Ended(Restarted), a)
    BY <1>4, EndedFields, Zenon
  <2>2. (task.kind = "advance") \in BOOLEAN
    OBVIOUS
  <2>3. Covers(Ended(Restarted), task.kind = "advance")
    BY <1>4, <2>1, <2>2, Zenon
  <2> QED
    BY <1>4, <2>1, <2>3
<1>6. /\ pipe' \in Pipe /\ Bounded(pipe')
      /\ pipe'.src = pipe.src /\ pipe'.paused = pipe.paused
      /\ pipe'.kept # "fresh" /\ Covers(pipe', task.kind = "advance")
  BY <1>2, <1>4, <1>5
<1>7. CreditKept'
  BY <1>2, <1>6 DEF CreditKept
<1>8. AirKept'
  BY <1>1, <1>2, <1>3, <1>6 DEF AirKept
<1>9. StartsIdle'
  BY <1>1, <1>2 DEF StartsIdle
<1> QED
  BY <1>2, <1>3, <1>6, <1>7, <1>8, <1>9, WorkerFrame DEF DriverInv, SessionInv, TypeOK

-----------------------------------------------------------------------------
(***************************************************************************)
(* The worker's loop.                                                      *)
(***************************************************************************)

(* What a transaction that is open holds.                                  *)
LEMMA TaskFields ==
  ASSUME task \in Task \cup {NoTask}
  PROVE  /\ task.kind # "none" => task.old \in Row
         /\ task.kind = "batch" => task.cmds \in Seq(Cmds)
         /\ task.kind = "freeze" => task.id \in Ids
         /\ NoTask.kind = "none"
<1>1. CASE task = NoTask
  BY <1>1 DEF NoTask
<1>2. CASE task \in [kind : {"batch"}, old : Row, cmds : Batches]
  <2>1. task.kind = "batch" /\ task.old \in Row /\ task.cmds \in Batches
    BY <1>2
  <2> QED
    BY <2>1, BatchSeq DEF NoTask
<1>3. CASE task \in [kind : {"advance", "resync"}, old : Row]
  BY <1>3 DEF NoTask
<1>4. CASE task \in [kind : {"freeze"}, old : Row, id : Ids]
  BY <1>4 DEF NoTask
<1> QED
  BY <1>1, <1>2, <1>3, <1>4 DEF Task

(* A driver that has just started plays nothing and owes nothing.          *)
LEMMA NewPipeFields ==
  /\ NewPipe \in Pipe /\ Bounded(NewPipe) /\ Backed(NewPipe) /\ Covers(NewPipe, FALSE)
  /\ ~NewPipe.stuck
<1>1. None \in Sources
  BY DEF Sources
<1> QED
  BY <1>1 DEF NewPipe, Pipe, Bounded, Backed, Covers

(* Start-up and reload: a new pipeline, and no broadcast on air.           *)
LEMMA SyncFields ==
  ASSUME TypeOK, SyncToSession
  PROVE  /\ mem' \in Mem /\ mem'.live = 0
         /\ pipe' \in Pipe /\ Bounded(pipe') /\ Covers(pipe', FALSE)
         /\ count' \in Count /\ count'.cmds = count.cmds
         /\ hit' \subseteq Faults \cup {"retries"}
<1> DEFINE started == [mem EXCEPT !.active = None, !.live = 0, !.due = FALSE, !.tries = 0,
                                  !.conf = conf.row]
<1>1. started \in Mem /\ started.live = 0
  BY DEF TypeOK, Mem
<1>2. sess.idx \in Tracks /\ sess.idx \in Sources
  BY DEF TypeOK, Row, Sources
<1>3. [started EXCEPT !.active = sess.idx] \in Mem /\ [started EXCEPT !.active = sess.idx].live = 0
  BY <1>1, <1>2 DEF Mem
<1>4. mem' = started \/ mem' = [started EXCEPT !.active = sess.idx]
  BY DEF SyncToSession
<1> HIDE DEF started
<1>5. mem' \in Mem /\ mem'.live = 0
  BY <1>1, <1>3, <1>4
<1>6. pipe' = NewPipe \/ pipe' = SetSource(NewPipe, sess.idx)
  BY DEF SyncToSession
<1>7. pipe' \in Pipe /\ Bounded(pipe') /\ Covers(pipe', FALSE)
  BY <1>2, <1>6, NewPipeFields, SetSourceFields
<1>8. Fault("startup") \/ NoFault
  BY DEF SyncToSession
<1> QED
  BY <1>5, <1>7, <1>8, FaultFields DEF TypeOK

(* A fresh driver starts.                                                  *)
LEMMA StartUpStep ==
  ASSUME SessionInv, StartUp
  PROVE  SessionInv'
<1>1. TypeOK /\ StartsIdle
  BY DEF SessionInv, DriverInv
<1>2. /\ pc = "startup" /\ pc' = "cmds" /\ SyncToSession
      /\ UNCHANGED <<sess, task, api, control, want, key, over, conf, broken>>
  BY DEF StartUp, rest
<1>3. /\ mem' \in Mem /\ mem'.live = 0
      /\ pipe' \in Pipe /\ Bounded(pipe') /\ Covers(pipe', FALSE)
      /\ count' \in Count /\ count'.cmds = count.cmds
      /\ hit' \subseteq Faults \cup {"retries"}
  BY <1>1, <1>2, SyncFields
<1>4. task' = NoTask /\ task'.kind # "advance"
  BY <1>1, <1>2 DEF StartsIdle, NoTask
<1>5. CreditKept' /\ AirKept' /\ StartsIdle'
  <2>1. Covers(pipe', task'.kind = "advance")
    BY <1>3, <1>4 DEF Covers
  <2> QED
    BY <1>2, <1>3, <2>1 DEF CreditKept, AirKept, StartsIdle
<1>6. sess' \in Row /\ broken' \in BOOLEAN /\ task' \in Task \cup {NoTask}
  BY <1>1, <1>2 DEF TypeOK
<1> QED
  BY <1>2, <1>3, <1>5, <1>6, WorkerFrame DEF DriverInv

(* The process dies.                                                       *)
LEMMA CrashStep ==
  ASSUME SessionInv, Crash
  PROVE  SessionInv'
<1>1. TypeOK
  BY DEF SessionInv
<1>2. /\ pc' = "startup" /\ task' = NoTask /\ mem' = NoMem /\ pipe' = NewPipe
      /\ UNCHANGED <<sess, api, control, want, key, over, conf>>
      /\ Fault("crash")
  BY DEF Crash, session
<1>3. broken' \in BOOLEAN
  <2>1. broken' = (broken \/ Disturbs)
    BY DEF Crash
  <2> QED
    BY <2>1, Zenon
<1>4. NoMem \in Mem /\ NoMem.live = 0
  BY SessionDriverAssumption DEF NoMem, Mem
<1>5. /\ count' \in Count /\ count'.cmds = count.cmds
      /\ hit' \subseteq Faults \cup {"retries"}
  BY <1>1, <1>2, FaultFields DEF TypeOK
<1>6. CreditKept' /\ AirKept' /\ StartsIdle'
  <2>1. task'.kind # "advance"
    BY <1>2 DEF NoTask
  <2>2. Covers(pipe', task'.kind = "advance") /\ Bounded(pipe') /\ pipe' \in Pipe
    BY <1>2, <2>1, NewPipeFields DEF Covers
  <2> QED
    BY <1>2, <1>4, <2>2 DEF CreditKept, AirKept, StartsIdle
<1>7. sess' \in Row /\ pipe' \in Pipe
  BY <1>1, <1>2, NewPipeFields DEF TypeOK
<1> QED
  BY <1>2, <1>3, <1>4, <1>5, <1>6, <1>7, WorkerFrame DEF DriverInv

(* No broadcast is on air and no advance under way.                        *)
LEMMA OffAir ==
  ASSUME task'.kind # "advance", Bounded(pipe'), Covers(pipe', FALSE), mem'.live = 0,
         pc' # "startup"
  PROVE  DriverInv'
<1>1. Covers(pipe', task'.kind = "advance")
  BY DEF Covers
<1> QED
  BY <1>1 DEF DriverInv, CreditKept, AirKept, StartsIdle

(* The drained commands are a batch, or are dropped for a reload.          *)
LEMMA TakeCommandsStep ==
  ASSUME SessionInv, TakeCommands
  PROVE  SessionInv'
<1>1. TypeOK /\ DriverInv /\ task = NoTask /\ NoTask.kind = "none" /\ pc = "cmds"
  BY DEF SessionInv, TakeCommands, NoTask
<1>2. control' = <<>> /\ UNCHANGED <<sess, api, want, key, over, conf>>
  BY DEF TakeCommands
<1>3. CASE control = <<>> /\ pc' = "events" /\ UNCHANGED <<task, mem, pipe, broken, count, hit>>
  <2>1. DriverInv'
    BY <1>1, <1>3 DEF DriverInv, CreditKept, AirKept, StartsIdle
  <2> QED
    BY <1>1, <1>2, <1>3, <2>1, WorkerFrame DEF TypeOK
<1>4. CASE /\ control # <<>> /\ task' = [kind |-> "batch", old |-> sess, cmds |-> control]
           /\ UNCHANGED <<pc, mem, pipe, broken, count, hit>>
  <2>1. task' \in Task /\ task'.kind = "batch"
    BY <1>1, <1>4 DEF TypeOK, Task
  <2>2. DriverInv'
    BY <1>1, <1>4, <2>1 DEF DriverInv, CreditKept, AirKept, StartsIdle
  <2> QED
    BY <1>1, <1>2, <1>4, <2>1, <2>2, WorkerFrame DEF TypeOK
<1>5. CASE SyncToSession /\ pc' = "events" /\ broken' = (broken \/ Disturbs) /\ UNCHANGED task
  <2>1. /\ mem' \in Mem /\ mem'.live = 0
        /\ pipe' \in Pipe /\ Bounded(pipe') /\ Covers(pipe', FALSE)
        /\ count' \in Count /\ count'.cmds = count.cmds
        /\ hit' \subseteq Faults \cup {"retries"}
    BY <1>1, <1>5, SyncFields
  <2>2. DriverInv'
    BY <1>1, <1>5, <2>1, OffAir
  <2>3. broken' \in BOOLEAN
    BY <1>5, Zenon
  <2> QED
    BY <1>1, <1>2, <1>5, <2>1, <2>2, <2>3, WorkerFrame DEF TypeOK
<1> QED
  BY <1>3, <1>4, <1>5 DEF TakeCommands, NoFault

(* The driver follows the row: its track, or silence.                      *)
LEMMA SyncDriverFields ==
  ASSUME TypeOK, NEW r \in Row, NEW cmds, SyncDriverToState(r, cmds),
         Bounded(pipe), Covers(pipe, FALSE)
  PROVE  /\ mem' \in Mem /\ mem'.live = mem.live
         /\ pipe' \in Pipe /\ Bounded(pipe') /\ Covers(pipe', FALSE)
         /\ count' \in Count /\ count'.cmds = count.cmds
         /\ hit' \subseteq Faults \cup {"retries"}
<1>1. pipe \in Pipe /\ r.idx \in Tracks /\ r.idx \in Sources /\ Backed(pipe)
  BY DEF TypeOK, Row, Sources, Covers
<1>2. mem' = mem \/ mem' = [mem EXCEPT !.active = r.idx]
  BY DEF SyncDriverToState
<1>3. mem' \in Mem /\ mem'.live = mem.live
  BY <1>1, <1>2 DEF TypeOK, Mem
<1>4. \/ pipe' = pipe \/ pipe' = Pause(pipe)
      \/ ~pipe.stuck /\ pipe' = SetSource(pipe, r.idx)
      \/ pipe' = Pause(SetSourceRaises(pipe, r.idx))
  BY DEF SyncDriverToState
<1>5. /\ Pause(pipe) \in Pipe /\ Bounded(Pause(pipe)) /\ Covers(Pause(pipe), FALSE)
  BY <1>1, PauseFields
<1>6. ~pipe.stuck => /\ SetSource(pipe, r.idx) \in Pipe /\ Bounded(SetSource(pipe, r.idx))
                     /\ Covers(SetSource(pipe, r.idx), FALSE)
  BY <1>1, SetSourceFields
<1>7. /\ SetSourceRaises(pipe, r.idx) \in Pipe /\ Bounded(SetSourceRaises(pipe, r.idx))
      /\ Covers(SetSourceRaises(pipe, r.idx), FALSE)
  BY <1>1, RaisesFields
<1>8. /\ Pause(SetSourceRaises(pipe, r.idx)) \in Pipe
      /\ Bounded(Pause(SetSourceRaises(pipe, r.idx)))
      /\ Covers(Pause(SetSourceRaises(pipe, r.idx)), FALSE)
  BY <1>7, PauseFields
<1>9. pipe' \in Pipe /\ Bounded(pipe') /\ Covers(pipe', FALSE)
  BY <1>1, <1>4, <1>5, <1>6, <1>8
<1>10. Fault("source") \/ NoFault
  BY DEF SyncDriverToState, Raises
<1> QED
  BY <1>3, <1>9, <1>10, FaultFields DEF TypeOK

(* The commands' transaction commits, or is rolled back.                   *)
LEMMA FinishBatchStep ==
  ASSUME SessionInv, FinishBatch
  PROVE  SessionInv'
<1> DEFINE new == ReplayAll(task.old, task.cmds)
<1>1. TypeOK /\ DriverInv /\ task.kind = "batch"
  BY DEF SessionInv, FinishBatch
<1>2. /\ task' = NoTask /\ task'.kind = "none" /\ pc' = "events"
      /\ UNCHANGED <<api, control, want, key, over, conf, broken>>
  BY DEF FinishBatch, NoTask, rest
<1>3. task.old \in Row /\ new \in Row
  BY <1>1, TaskFields, ReplayAllRow DEF TypeOK
<1>4. Bounded(pipe) /\ Covers(pipe, FALSE)
  BY <1>1 DEF DriverInv, CreditKept, Covers
<1>5. \/ /\ sess' = Write(sess, task.old, new) /\ mem.live # 0
         /\ mem' = [mem EXCEPT !.resume = @ /\ ToSet(task.cmds) \cap Transport = {}]
         /\ UNCHANGED pipe /\ NoFault
      \/ /\ sess' = Write(sess, task.old, new) /\ mem.live = 0
         /\ SyncDriverToState(new, ToSet(task.cmds))
      \/ Fault("batch") /\ UNCHANGED <<sess, mem, pipe>>
  BY DEF FinishBatch
<1> HIDE DEF new
<1>6. sess' \in Row
  BY <1>1, <1>3, <1>5, WriteRow DEF TypeOK
<1>7. CASE /\ mem.live # 0 /\ UNCHANGED pipe /\ NoFault
           /\ mem' = [mem EXCEPT !.resume = @ /\ ToSet(task.cmds) \cap Transport = {}]
  <2>1. mem' \in Mem /\ mem'.live = mem.live
    <3>1. PICK b \in BOOLEAN : mem' = [mem EXCEPT !.resume = b]
      <4>1. (mem.resume /\ ToSet(task.cmds) \cap Transport = {}) \in BOOLEAN
        BY Zenon
      <4> QED
        BY <1>7, <4>1
    <3> QED
      BY <1>1, <3>1 DEF TypeOK, Mem
  <2>2. CreditKept' /\ StartsIdle'
    BY <1>2, <1>4, <1>7 DEF CreditKept, StartsIdle
  <2>3. AirKept'
    BY <1>1, <1>2, <1>7, <2>1 DEF DriverInv, AirKept, NoFault
  <2> QED
    BY <1>1, <1>2, <1>6, <1>7, <2>1, <2>2, <2>3, WorkerFrame
       DEF TypeOK, DriverInv, NoFault
<1>8. CASE mem.live = 0 /\ SyncDriverToState(new, ToSet(task.cmds))
  <2>1. /\ mem' \in Mem /\ mem'.live = mem.live
        /\ pipe' \in Pipe /\ Bounded(pipe') /\ Covers(pipe', FALSE)
        /\ count' \in Count /\ count'.cmds = count.cmds
        /\ hit' \subseteq Faults \cup {"retries"}
    BY <1>1, <1>3, <1>4, <1>8, SyncDriverFields
  <2>2. DriverInv'
    BY <1>2, <1>8, <2>1, OffAir
  <2> QED
    BY <1>1, <1>2, <1>6, <2>1, <2>2, WorkerFrame DEF TypeOK
<1>9. CASE Fault("batch") /\ UNCHANGED <<sess, mem, pipe>>
  <2>1. /\ count' \in Count /\ count'.cmds = count.cmds
        /\ hit' \subseteq Faults \cup {"retries"} /\ ("retries" \in hit' <=> "retries" \in hit)
    BY <1>1, <1>9, FaultFields DEF TypeOK
  <2>2. CreditKept' /\ StartsIdle'
    BY <1>2, <1>4, <1>9 DEF CreditKept, StartsIdle
  <2>3. AirKept'
    BY <1>1, <1>2, <1>9, <2>1 DEF DriverInv, AirKept
  <2> QED
    BY <1>1, <1>2, <1>6, <1>9, <2>1, <2>2, <2>3, WorkerFrame DEF TypeOK, DriverInv
<1> QED
  BY <1>5, <1>7, <1>8, <1>9

(* A broadcast that is over gives the mount back.                          *)
LEMMA EndLiveFields ==
  ASSUME TypeOK, EndLive
  PROVE  mem' \in Mem /\ mem'.live = 0 /\ task' \in Task /\ task'.kind = "resync"
<1>1. sess \in Row /\ mem \in Mem
  BY DEF TypeOK
<1> QED
  BY <1>1 DEF EndLive, Mem, Task

(* An event is dropped, ends a broadcast, or starts an advance.            *)
LEMMA TakeEventStep ==
  ASSUME SessionInv, TakeEvent
  PROVE  SessionInv'
<1>1. TypeOK /\ CreditKept /\ AirKept /\ pipe \in Pipe /\ task = NoTask /\ NoTask.kind = "none"
  BY DEF SessionInv, DriverInv, TypeOK, TakeEvent, NoTask
<1>2. /\ pc = "events" /\ pc' \in {"events", "retry"}
      /\ UNCHANGED <<sess, api, control, want, key, over, conf, broken, count, hit>>
  BY DEF TakeEvent, NoFault, rest
<1>3. Bounded(pipe) /\ Covers(pipe, FALSE)
  BY <1>1 DEF CreditKept, Covers
<1>4. CASE UNCHANGED <<task, mem, pipe>>
  <2>1. DriverInv'
    BY <1>1, <1>2, <1>4 DEF DriverInv, CreditKept, AirKept, StartsIdle
  <2> QED
    BY <1>1, <1>2, <1>4, <2>1, WorkerFrame DEF TypeOK
<1>5. CASE pipe' = [pipe EXCEPT !.stale = FALSE] /\ UNCHANGED <<task, mem>>
  <2>1. /\ pipe' \in Pipe /\ pipe'.dead = pipe.dead /\ pipe'.fresh = pipe.fresh
        /\ pipe'.credit = pipe.credit /\ pipe'.kept = pipe.kept
        /\ pipe'.advanced = pipe.advanced /\ pipe'.src = pipe.src
        /\ pipe'.paused = pipe.paused
    BY <1>1, <1>5 DEF Pipe
  <2>2. CreditKept'
    BY <1>1, <1>5, <2>1 DEF CreditKept, Bounded, Covers, Backed
  <2>3. AirKept' /\ StartsIdle'
    BY <1>1, <1>2, <1>5, <2>1 DEF AirKept, StartsIdle
  <2> QED
    BY <1>1, <1>2, <1>5, <2>1, <2>2, <2>3, WorkerFrame DEF TypeOK, DriverInv
<1>6. CASE mem.live # 0 /\ pipe' = [pipe EXCEPT !.fresh = FALSE] /\ EndLive
  <2>1. /\ pipe' \in Pipe /\ pipe'.dead = pipe.dead /\ pipe'.fresh = FALSE
        /\ pipe'.credit = pipe.credit /\ pipe'.kept = pipe.kept
    BY <1>1, <1>6 DEF Pipe
  <2>2. Bounded(pipe') /\ Covers(pipe', FALSE)
    BY <1>1, <1>3, <1>6, <2>1 DEF AirKept, Bounded, Covers, Backed
  <2>3. mem' \in Mem /\ mem'.live = 0 /\ task' \in Task /\ task'.kind = "resync"
    BY <1>1, <1>6, EndLiveFields
  <2>4. DriverInv'
    BY <1>2, <2>2, <2>3, OffAir
  <2> QED
    BY <1>1, <1>2, <2>1, <2>3, <2>4, WorkerFrame DEF TypeOK
<1>7. CASE /\ mem.live = 0 /\ pipe.fresh
           /\ pipe' = [pipe EXCEPT !.fresh = FALSE, !.kept = "fresh", !.advanced = FALSE]
           /\ task' = [kind |-> "advance", old |-> sess] /\ UNCHANGED mem
  <2>1. /\ pipe' \in Pipe /\ pipe'.dead = pipe.dead /\ pipe'.fresh = FALSE
        /\ pipe'.credit = pipe.credit
    BY <1>1, <1>7 DEF Pipe
  <2>2. task' \in Task /\ task'.kind = "advance"
    BY <1>1, <1>7 DEF TypeOK, Task
  <2>3. CreditKept'
    BY <1>1, <1>3, <1>7, <2>1 DEF CreditKept, Bounded, Covers, Backed, Pipe
  <2>4. AirKept' /\ StartsIdle'
    BY <1>2, <1>7 DEF AirKept, StartsIdle
  <2> QED
    BY <1>1, <1>2, <1>7, <2>1, <2>2, <2>3, <2>4, WorkerFrame DEF TypeOK, DriverInv
<1> QED
  BY <1>4, <1>5, <1>6, <1>7 DEF TakeEvent

(* A retry is scheduled.                                                   *)
LEMMA ScheduleFields ==
  ASSUME mem \in Mem, ScheduleRetry
  PROVE  mem' \in Mem /\ mem'.live = mem.live
<1>1. mem' = [mem EXCEPT !.due = TRUE, !.tries = mem.tries + 1]
  BY DEF ScheduleRetry
<1>2. mem.tries + 1 \in Nat
  BY DEF Mem
<1>3. \A t \in Nat : /\ [mem EXCEPT !.due = TRUE, !.tries = t] \in Mem
                     /\ [mem EXCEPT !.due = TRUE, !.tries = t].live = mem.live
  BY DEF Mem
<1> QED
  BY <1>1, <1>2, <1>3

(* An advance pays for the move it makes.                                  *)
LEMMA MovedFields ==
  ASSUME pipe \in Pipe, CreditKept, task.kind = "advance"
  PROVE  \A moved : moved = (IF AdvancePending THEN Credited(pipe) ELSE pipe) =>
           moved \in Pipe /\ Bounded(moved) /\ Backed(moved) /\ moved.stuck = pipe.stuck
<1>1. Bounded(pipe) /\ Covers(pipe, TRUE)
  BY DEF CreditKept, Covers
<1>2. CASE AdvancePending
  <2>1. ~pipe.advanced
    BY <1>2 DEF AdvancePending
  <2> QED
    BY <1>1, <1>2, <2>1, CreditedFields
<1>3. CASE ~AdvancePending
  BY <1>1, <1>3 DEF Covers
<1> QED
  BY <1>2, <1>3

(* An advance commits, and the driver follows or the event is kept.        *)
LEMMA FinishAdvanceStep ==
  ASSUME SessionInv, FinishAdvance
  PROVE  SessionInv'
<1>1. /\ TypeOK /\ CreditKept /\ AirKept /\ StartsIdle /\ pipe \in Pipe /\ mem \in Mem
      /\ task.kind = "advance"
  BY DEF SessionInv, DriverInv, TypeOK, FinishAdvance
<1>2. /\ task' = NoTask /\ task'.kind = "none" /\ pc' = pc /\ pc # "startup"
      /\ UNCHANGED <<api, control, want, key, over, conf, broken>>
  BY <1>1 DEF FinishAdvance, NoTask, rest, StartsIdle
<1>3. mem.live = 0
  BY <1>1 DEF AirKept
<1>4. PICK new \in IF AdvancePending THEN AdvanceIndex(task.old) ELSE {task.old},
           moved \in {IF AdvancePending THEN Credited(pipe) ELSE pipe} :
        /\ sess' = Write(sess, task.old, new)
        /\ \/ /\ new.st = "playing" /\ ~pipe.stuck /\ NoFault
              /\ pipe' = ForgetRetry(SetSource(moved, new.idx))
              /\ mem' = [mem EXCEPT !.active = new.idx, !.due = FALSE, !.tries = 0]
           \/ /\ new.st = "playing" /\ Raises
              /\ pipe' = [SetSourceRaises(moved, new.idx) EXCEPT !.advanced = TRUE]
              /\ ScheduleRetry
           \/ /\ new.st # "playing" /\ ~pipe.stuck /\ NoFault
              /\ pipe' = ForgetRetry(Pause(moved))
              /\ mem' = [mem EXCEPT !.due = FALSE, !.tries = 0]
           \/ /\ new.st # "playing" /\ pipe.stuck /\ NoFault
              /\ pipe' = [Pause(moved) EXCEPT !.advanced = TRUE]
              /\ ScheduleRetry
  BY DEF FinishAdvance
<1>5. moved \in Pipe /\ Bounded(moved) /\ Backed(moved)
  BY <1>1, MovedFields
<1>6. new \in Row /\ task.old \in Row /\ new.idx \in Tracks /\ new.idx \in Sources
  <2>1. task.old \in Row
    BY <1>1, TaskFields DEF TypeOK
  <2>2. new \in Row
    BY <2>1, AdvanceRow
  <2> QED
    BY <2>1, <2>2 DEF Row, Sources
<1>7. sess' \in Row
  BY <1>1, <1>4, <1>6, WriteRow DEF TypeOK
<1>8. mem' \in Mem /\ mem'.live = 0
  <2>1. ScheduleRetry => mem' \in Mem /\ mem'.live = mem.live
    BY <1>1, ScheduleFields
  <2>2. /\ [mem EXCEPT !.active = new.idx, !.due = FALSE, !.tries = 0] \in Mem
        /\ [mem EXCEPT !.active = new.idx, !.due = FALSE, !.tries = 0].live = mem.live
        /\ [mem EXCEPT !.due = FALSE, !.tries = 0] \in Mem
        /\ [mem EXCEPT !.due = FALSE, !.tries = 0].live = mem.live
    BY <1>1, <1>6 DEF Mem
  <2> QED
    BY <1>3, <1>4, <2>1, <2>2
<1>9. pipe' \in Pipe /\ Bounded(pipe') /\ Covers(pipe', FALSE)
  <2>1. CASE pipe' = ForgetRetry(SetSource(moved, new.idx))
    <3>1. /\ SetSource(moved, new.idx) \in Pipe /\ Bounded(SetSource(moved, new.idx))
          /\ Backed(SetSource(moved, new.idx))
      BY <1>5, <1>6, SetSourceFields
    <3> QED
      BY <2>1, <3>1, ForgetFields
  <2>2. CASE pipe' = [SetSourceRaises(moved, new.idx) EXCEPT !.advanced = TRUE]
    <3>1. /\ SetSourceRaises(moved, new.idx) \in Pipe
          /\ Bounded(SetSourceRaises(moved, new.idx))
          /\ Backed(SetSourceRaises(moved, new.idx))
      BY <1>5, <1>6, RaisesFields
    <3> QED
      BY <2>2, <3>1, AdvancedFields
  <2>3. CASE pipe' = ForgetRetry(Pause(moved))
    <3>1. Pause(moved) \in Pipe /\ Bounded(Pause(moved)) /\ Backed(Pause(moved))
      BY <1>5, PauseFields
    <3> QED
      BY <2>3, <3>1, ForgetFields
  <2>4. CASE pipe' = [Pause(moved) EXCEPT !.advanced = TRUE]
    <3>1. Pause(moved) \in Pipe /\ Bounded(Pause(moved)) /\ Backed(Pause(moved))
      BY <1>5, PauseFields
    <3> QED
      BY <2>4, <3>1, AdvancedFields
  <2> QED
    BY <1>4, <2>1, <2>2, <2>3, <2>4
<1>10. Fault("source") \/ NoFault
  BY <1>4 DEF Raises
<1>11. count' \in Count /\ count'.cmds = count.cmds /\ hit' \subseteq Faults \cup {"retries"}
  BY <1>1, <1>10, FaultFields DEF TypeOK
<1>12. DriverInv'
  BY <1>2, <1>8, <1>9, OffAir
<1> QED
  BY <1>1, <1>2, <1>7, <1>8, <1>9, <1>11, <1>12, WorkerFrame DEF TypeOK

(* An advance whose transaction fails is kept.                             *)
LEMMA AdvanceFailsStep ==
  ASSUME SessionInv, AdvanceFails
  PROVE  SessionInv'
<1>1. /\ TypeOK /\ CreditKept /\ AirKept /\ StartsIdle /\ mem \in Mem
      /\ task.kind = "advance"
  BY DEF SessionInv, DriverInv, TypeOK, AdvanceFails
<1>2. /\ task' = NoTask /\ task'.kind = "none" /\ ScheduleRetry /\ pc # "startup"
      /\ UNCHANGED <<sess, pc, pipe, api, control, want, key, over, conf, broken>>
  BY <1>1 DEF AdvanceFails, NoTask, rest, StartsIdle
<1>3. Fault("advance") \/ NoFault
  BY DEF AdvanceFails
<1>4. count' \in Count /\ count'.cmds = count.cmds /\ hit' \subseteq Faults \cup {"retries"}
  BY <1>1, <1>3, FaultFields DEF TypeOK
<1>5. mem' \in Mem /\ mem'.live = 0
  BY <1>1, <1>2, ScheduleFields DEF AirKept
<1>6. Bounded(pipe') /\ Covers(pipe', FALSE)
  BY <1>1, <1>2 DEF CreditKept, Covers
<1>7. DriverInv'
  BY <1>2, <1>5, <1>6, OffAir
<1> QED
  BY <1>1, <1>2, <1>4, <1>5, <1>7, WorkerFrame DEF TypeOK

(* A kept event is worked off again, or dropped; out of retries, silence.  *)
LEMMA RetryAdvanceStep ==
  ASSUME SessionInv, RetryAdvance
  PROVE  SessionInv'
<1>1. /\ TypeOK /\ CreditKept /\ AirKept /\ pipe \in Pipe /\ mem \in Mem
      /\ task = NoTask /\ NoTask.kind = "none"
  BY DEF SessionInv, DriverInv, TypeOK, RetryAdvance, NoTask
<1>2. /\ pc' = "live"
      /\ UNCHANGED <<sess, count, api, control, want, key, over, conf, broken>>
  BY DEF RetryAdvance, rest
<1>3. Bounded(pipe) /\ Covers(pipe, FALSE) /\ Backed(pipe)
  BY <1>1 DEF CreditKept, Covers
<1>4. CASE /\ hit' = hit \cup {"retries"} /\ mem' = [mem EXCEPT !.due = FALSE, !.tries = 0]
           /\ pipe' = ForgetRetry(Pause(pipe)) /\ UNCHANGED task
  <2>1. mem' \in Mem
    BY <1>1, <1>4 DEF Mem
  <2>2. Pause(pipe) \in Pipe /\ Bounded(Pause(pipe)) /\ Backed(Pause(pipe))
    BY <1>1, <1>3, PauseFields
  <2>3. pipe' \in Pipe /\ Bounded(pipe') /\ pipe'.kept # "fresh" /\ Covers(pipe', FALSE)
    BY <1>4, <2>2, ForgetFields
  <2>4. CreditKept'
    BY <1>1, <1>4, <2>3 DEF CreditKept, Covers
  <2>5. AirKept'
    BY <1>1, <1>4, <2>3 DEF AirKept
  <2>6. StartsIdle' /\ hit' \subseteq Faults \cup {"retries"}
    BY <1>1, <1>2, <1>4 DEF StartsIdle, TypeOK
  <2> QED
    BY <1>1, <1>2, <1>4, <2>1, <2>3, <2>4, <2>5, <2>6, WorkerFrame DEF TypeOK, DriverInv
<1>5. CASE /\ UNCHANGED hit /\ mem' = [mem EXCEPT !.due = FALSE] /\ UNCHANGED pipe
           /\ task' = IF pipe.kept = "fresh" THEN [kind |-> "advance", old |-> sess] ELSE NoTask
  <2>1. mem' \in Mem /\ mem'.live = mem.live
    BY <1>1, <1>5 DEF Mem
  <2>2. task' \in Task \cup {NoTask} /\ (task'.kind = "advance" <=> pipe.kept = "fresh")
        /\ (pipe.kept # "fresh" => task'.kind = "none")
    BY <1>1, <1>5 DEF TypeOK, Task
  <2>3. CreditKept'
    BY <1>1, <1>5, <2>2 DEF CreditKept, Covers
  <2>4. AirKept'
    BY <1>1, <1>5, <2>1, <2>2 DEF AirKept
  <2>5. StartsIdle'
    BY <1>2 DEF StartsIdle
  <2> QED
    BY <1>1, <1>2, <1>5, <2>1, <2>2, <2>3, <2>4, <2>5, WorkerFrame DEF TypeOK, DriverInv
<1> QED
  BY <1>4, <1>5 DEF RetryAdvance

(* The live key is read: a broadcast takes the mount over, or it is over.  *)
LEMMA PollLiveStep ==
  ASSUME SessionInv, PollLive
  PROVE  SessionInv'
<1>1. TypeOK /\ CreditKept /\ task = NoTask /\ pipe \in Pipe /\ mem \in Mem
  BY DEF SessionInv, DriverInv, TypeOK, PollLive
<1>2. /\ pc' = "cmds"
      /\ UNCHANGED <<sess, pipe, count, hit, api, control, want, key, over, conf, broken>>
  BY DEF PollLive, NoFault, rest
<1>3. Bounded(pipe') /\ Covers(pipe', FALSE)
  BY <1>1, <1>2 DEF CreditKept, Covers
<1>4. mem' \in Mem /\ mem'.live = 0 /\ task' \in Task /\ task'.kind # "advance"
  <2>1. CASE EndLive
    BY <1>1, <2>1, EndLiveFields
  <2>2. CASE /\ key # 0 /\ mem' = [mem EXCEPT !.live = 0, !.resume = FALSE]
             /\ task' = [kind |-> "freeze", old |-> sess, id |-> key]
    BY <1>1, <2>2 DEF TypeOK, Mem, Task
  <2> QED
    BY <2>1, <2>2 DEF PollLive
<1>5. DriverInv'
  BY <1>2, <1>3, <1>4, OffAir
<1> QED
  BY <1>1, <1>2, <1>4, <1>5, WorkerFrame DEF TypeOK

(* Nothing is due in this round.                                           *)
LEMMA PassStep ==
  ASSUME SessionInv, Pass
  PROVE  SessionInv'
<1>1. TypeOK /\ DriverInv
  BY DEF SessionInv
<1>2. /\ pc' \in {"live", "cmds"}
      /\ UNCHANGED <<sess, task, mem, pipe, count, hit, api, control, want, key, over, conf,
                     broken>>
  BY DEF Pass, NoFault, rest
<1>3. DriverInv'
  BY <1>1, <1>2 DEF DriverInv, CreditKept, AirKept, StartsIdle
<1> QED
  BY <1>1, <1>2, <1>3, WorkerFrame DEF TypeOK

(* The broadcast is on air, or could not be installed.                     *)
LEMMA FinishFreezeStep ==
  ASSUME SessionInv, FinishFreeze
  PROVE  SessionInv'
<1> DEFINE frozen == [task.old EXCEPT !.st = IF @ = "playing" THEN "paused" ELSE @]
<1>1. /\ TypeOK /\ CreditKept /\ AirKept /\ StartsIdle /\ pipe \in Pipe /\ mem \in Mem
      /\ task.kind = "freeze"
  BY DEF SessionInv, DriverInv, TypeOK, FinishFreeze
<1>2. /\ task' = NoTask /\ task'.kind = "none" /\ pc # "startup"
      /\ UNCHANGED <<pc, api, control, want, key, over, conf>>
  BY <1>1 DEF FinishFreeze, NoTask, StartsIdle
<1>3. mem.live = 0 /\ Bounded(pipe) /\ Covers(pipe, FALSE) /\ Backed(pipe)
  BY <1>1 DEF AirKept, CreditKept, Covers
<1>4. task.old \in Row /\ task.id \in Ids /\ task.id # 0 /\ Live(task.id) \in Sources
  BY <1>1, TaskFields DEF TypeOK, Ids, Sources
<1>5. sess' \in Row
  <2>1. frozen \in Row
    BY <1>4 DEF Row
  <2>2. sess' = sess \/ sess' = Write(sess, task.old, frozen)
    BY DEF FinishFreeze
  <2> QED
    BY <1>1, <1>4, <2>1, <2>2, WriteRow DEF TypeOK
<1>6. \/ /\ ~pipe.stuck /\ pipe' = SetSource(pipe, Live(task.id)) /\ UNCHANGED broken
         /\ \E b \in BOOLEAN :
              mem' = [mem EXCEPT !.live = task.id, !.active = None, !.resume = b]
         /\ NoFault \/ Fault("freeze")
      \/ /\ broken' = TRUE /\ (\E b \in BOOLEAN : mem' = [mem EXCEPT !.resume = b])
         /\ pipe' = pipe \/ pipe' = SetSourceRaises(pipe, Live(task.id))
         /\ NoFault \/ Fault("begin")
  <2>1. (frozen # task.old) \in BOOLEAN /\ FALSE \in BOOLEAN
    OBVIOUS
  <2> HIDE DEF frozen
  <2>2. CASE /\ NoFault /\ ~pipe.stuck /\ pipe' = SetSource(pipe, Live(task.id))
             /\ mem' = [mem EXCEPT !.live = task.id, !.active = None,
                                   !.resume = (frozen # task.old)]
             /\ UNCHANGED broken
    BY <2>1, <2>2
  <2>3. CASE /\ Fault("freeze") /\ ~pipe.stuck /\ pipe' = SetSource(pipe, Live(task.id))
             /\ mem' = [mem EXCEPT !.live = task.id, !.active = None, !.resume = FALSE]
             /\ UNCHANGED broken
    BY <2>1, <2>3
  <2>4. CASE /\ mem' = [mem EXCEPT !.resume = (frozen # task.old)] /\ broken' = TRUE
             /\ \/ pipe' = SetSourceRaises(pipe, Live(task.id)) /\ NoFault
                \/ UNCHANGED pipe /\ Fault("begin")
    BY <2>1, <2>4
  <2> QED
    BY <2>2, <2>3, <2>4 DEF FinishFreeze, frozen
<1>7. Fault("freeze") \/ Fault("begin") \/ NoFault
  BY <1>6
<1>8. /\ count' \in Count /\ count'.cmds = count.cmds
      /\ hit' \subseteq Faults \cup {"retries"} /\ ("retries" \in hit' <=> "retries" \in hit)
  BY <1>1, <1>7, FaultFields DEF TypeOK
<1>9. CASE /\ ~pipe.stuck /\ pipe' = SetSource(pipe, Live(task.id)) /\ UNCHANGED broken
           /\ \E b \in BOOLEAN :
                mem' = [mem EXCEPT !.live = task.id, !.active = None, !.resume = b]
  <2>1. PICK b \in BOOLEAN : mem' = [mem EXCEPT !.live = task.id, !.active = None, !.resume = b]
    BY <1>9
  <2>2. mem' \in Mem /\ mem'.live = task.id
    BY <1>1, <1>4, <2>1 DEF Mem
  <2>3. /\ pipe' \in Pipe /\ Bounded(pipe') /\ pipe'.src = Live(task.id) /\ ~pipe'.paused
        /\ pipe'.kept # "fresh" /\ Covers(pipe', FALSE)
    BY <1>1, <1>3, <1>4, <1>9, SetSourceFields
  <2>4. CreditKept' /\ StartsIdle'
    BY <1>2, <2>3 DEF CreditKept, Covers, StartsIdle
  <2>5. AirKept'
    BY <1>2, <2>2, <2>3 DEF AirKept
  <2> QED
    BY <1>1, <1>2, <1>5, <1>8, <1>9, <2>2, <2>3, <2>4, <2>5, WorkerFrame
       DEF TypeOK, DriverInv
<1>10. CASE /\ broken' = TRUE /\ (\E b \in BOOLEAN : mem' = [mem EXCEPT !.resume = b])
            /\ pipe' = pipe \/ pipe' = SetSourceRaises(pipe, Live(task.id))
  <2>1. mem' \in Mem /\ mem'.live = 0
    BY <1>1, <1>3, <1>10 DEF Mem
  <2>2. pipe' \in Pipe /\ Bounded(pipe') /\ Covers(pipe', FALSE)
    BY <1>1, <1>3, <1>4, <1>10, RaisesFields
  <2>3. DriverInv'
    BY <1>2, <2>1, <2>2, OffAir
  <2> QED
    BY <1>1, <1>2, <1>5, <1>8, <1>10, <2>1, <2>2, <2>3, WorkerFrame DEF TypeOK
<1> QED
  BY <1>6, <1>9, <1>10

(* The session has the mount back, or could not be told.                   *)
LEMMA FinishResyncStep ==
  ASSUME SessionInv, FinishResync \/ ResyncFails
  PROVE  SessionInv'
<1>1. /\ TypeOK /\ CreditKept /\ AirKept /\ StartsIdle /\ pipe \in Pipe /\ mem \in Mem
      /\ task.kind = "resync"
  BY DEF SessionInv, DriverInv, TypeOK, FinishResync, ResyncFails
<1>2. /\ task' = NoTask /\ task'.kind = "none" /\ pc' = pc /\ pc # "startup"
      /\ UNCHANGED <<api, control, want, key, over, conf, broken>>
  BY <1>1 DEF FinishResync, ResyncFails, NoTask, rest, StartsIdle
<1>3. mem.live = 0 /\ Bounded(pipe) /\ Covers(pipe, FALSE) /\ Backed(pipe)
  BY <1>1 DEF AirKept, CreditKept, Covers
<1>4. task.old \in Row /\ sess \in Row
  BY <1>1, TaskFields DEF TypeOK
<1>5. CASE FinishResync
  <2>1. PICK new \in {[task.old EXCEPT !.st = IF Resumes THEN "playing" ELSE @]} :
          /\ sess' = Write(sess, task.old, new)
          /\ \/ /\ new.st = "playing" /\ ~pipe.stuck /\ NoFault
                /\ pipe' = SetSource(pipe, new.idx)
                /\ mem' = [mem EXCEPT !.resume = FALSE, !.active = new.idx]
             \/ /\ new.st = "playing" /\ Raises
                /\ pipe' = Pause(SetSourceRaises(pipe, new.idx))
                /\ mem' = [mem EXCEPT !.resume = FALSE]
             \/ /\ new.st # "playing" /\ NoFault
                /\ pipe' = Pause(pipe)
                /\ mem' = [mem EXCEPT !.resume = FALSE]
    BY <1>5 DEF FinishResync
  <2>2. new \in Row /\ new.idx \in Tracks /\ new.idx \in Sources
    <3>1. new \in Row
      BY <1>4 DEF Row
    <3> QED
      BY <3>1 DEF Row, Sources
  <2>3. sess' \in Row
    BY <1>4, <2>1, <2>2, WriteRow
  <2>4. mem' \in Mem /\ mem'.live = 0
    <3>1. mem' = [mem EXCEPT !.resume = FALSE, !.active = new.idx]
          \/ mem' = [mem EXCEPT !.resume = FALSE]
      BY <2>1
    <3> QED
      BY <1>1, <1>3, <2>2, <3>1 DEF Mem
  <2>5. pipe' \in Pipe /\ Bounded(pipe') /\ Covers(pipe', FALSE)
    <3>1. CASE ~pipe.stuck /\ pipe' = SetSource(pipe, new.idx)
      BY <1>1, <1>3, <2>2, <3>1, SetSourceFields
    <3>2. CASE pipe' = Pause(SetSourceRaises(pipe, new.idx))
      <4>1. /\ SetSourceRaises(pipe, new.idx) \in Pipe
            /\ Bounded(SetSourceRaises(pipe, new.idx))
            /\ Covers(SetSourceRaises(pipe, new.idx), FALSE)
        BY <1>1, <1>3, <2>2, RaisesFields
      <4> QED
        BY <3>2, <4>1, PauseFields
    <3>3. CASE pipe' = Pause(pipe)
      BY <1>1, <1>3, <3>3, PauseFields
    <3> QED
      BY <2>1, <3>1, <3>2, <3>3
  <2>6. Fault("source") \/ NoFault
    BY <2>1 DEF Raises
  <2>7. count' \in Count /\ count'.cmds = count.cmds /\ hit' \subseteq Faults \cup {"retries"}
    BY <1>1, <2>6, FaultFields DEF TypeOK
  <2>8. DriverInv'
    BY <1>2, <2>4, <2>5, OffAir
  <2> QED
    BY <1>1, <1>2, <2>3, <2>4, <2>5, <2>7, <2>8, WorkerFrame DEF TypeOK
<1>6. CASE ResyncFails
  <2>1. PICK kept \in {TRUE, FALSE} : mem' = [mem EXCEPT !.resume = @ /\ kept]
    BY <1>6 DEF ResyncFails
  <2>2. mem' \in Mem /\ mem'.live = 0
    <3>1. (mem.resume /\ kept) \in BOOLEAN
      BY Zenon
    <3>2. \A b \in BOOLEAN : [mem EXCEPT !.resume = b] \in Mem /\ [mem EXCEPT !.resume = b].live = 0
      BY <1>1, <1>3 DEF Mem
    <3> QED
      BY <2>1, <3>1, <3>2
  <2>3. UNCHANGED <<sess, pipe>> /\ Fault("resync")
    BY <1>6 DEF ResyncFails
  <2>4. count' \in Count /\ count'.cmds = count.cmds /\ hit' \subseteq Faults \cup {"retries"}
    BY <1>1, <2>3, FaultFields DEF TypeOK
  <2>5. DriverInv'
    BY <1>2, <1>3, <2>2, <2>3, OffAir
  <2> QED
    BY <1>1, <1>2, <2>2, <2>3, <2>4, <2>5, WorkerFrame DEF TypeOK
<1> QED
  BY <1>5, <1>6

-----------------------------------------------------------------------------
(***************************************************************************)
(* The invariant of the specification.                                     *)
(***************************************************************************)

(* A session starts playing its first track, and its driver is not up.     *)
LEMMA InitInv == Init => SessionInv
<1> SUFFICES ASSUME Init PROVE SessionInv
  OBVIOUS
<1>1. PICK m \in Repeats : /\ sess = [st |-> "playing", idx |-> 0, mode |-> m]
                           /\ want = [op |-> "play", row |-> sess]
  BY DEF Init
<1>2. sess \in Row /\ want \in [op : Ops, row : Row]
  BY <1>1, TrackRange DEF Row, Ops
<1>3. /\ api = NoReq /\ control = <<>> /\ key = 0 /\ over = {}
      /\ conf = [row |-> 0, edit |-> FALSE] /\ pc = "startup" /\ task = NoTask
      /\ pipe = NewPipe /\ mem = NoMem
      /\ count = [cmds |-> 0, ends |-> 0, lives |-> 0, faults |-> 0]
      /\ hit = {} /\ broken = FALSE
  BY DEF Init
<1>4. /\ mem \in Mem /\ mem.live = 0 /\ count \in Count /\ count.cmds = 0
      /\ conf \in [row : 0 .. MaxCmds, edit : BOOLEAN]
  BY <1>3, SessionDriverAssumption DEF NoMem, Mem, Count
<1>5. TypeOK
  BY <1>2, <1>3, <1>4, NewPipeFields DEF TypeOK
<1>6. Counted
  <2>1. Len(control) = 0
    BY <1>3
  <2> QED
    BY <1>3, <1>4, <2>1 DEF Counted
<1>7. DriverInv
  <2>1. task.kind # "advance"
    BY <1>3 DEF NoTask
  <2>2. Covers(pipe, task.kind = "advance") /\ Bounded(pipe)
    BY <1>3, <2>1, NewPipeFields DEF Covers
  <2> QED
    BY <1>3, <1>4, <2>2 DEF DriverInv, CreditKept, AirKept, StartsIdle
<1> QED
  BY <1>5, <1>6, <1>7 DEF SessionInv

(* Every step keeps the invariant.                                         *)
LEMMA NextInv == SessionInv /\ [Next]_vars => SessionInv'
<1> SUFFICES ASSUME SessionInv, [Next]_vars PROVE SessionInv'
  OBVIOUS
<1>1. CASE UNCHANGED vars
  <2>1. TypeOK'
    BY <1>1 DEF SessionInv, TypeOK, vars
  <2>2. Counted'
    BY <1>1 DEF SessionInv, Counted, vars
  <2>3. DriverInv'
    BY <1>1 DEF SessionInv, DriverInv, CreditKept, AirKept, StartsIdle, vars
  <2> QED
    BY <2>1, <2>2, <2>3 DEF SessionInv
<1>2. CASE (\E op \in Ops : ApiLoad(op)) \/ ApiCommit \/ ApiPublish
  BY <1>2, ApiStep
<1>3. CASE PublishReload \/ CommitEdit
  BY <1>3, EditStep
<1>4. CASE Claim \/ Disconnect \/ Release
  BY <1>4, BroadcastStep
<1>5. CASE TrackEnds \/ \E i \in Ids : FeedEnds(i)
  BY <1>5, EndsStep
<1>6. CASE SpawnFails
  BY <1>6, SpawnStep
<1>7. CASE EncoderRestarts
  BY <1>7, EncoderStep
<1>8. CASE Loop
  BY <1>8, StartUpStep, TakeCommandsStep, FinishBatchStep, TakeEventStep, FinishAdvanceStep,
     AdvanceFailsStep, RetryAdvanceStep, PollLiveStep, PassStep, FinishFreezeStep,
     FinishResyncStep DEF Loop
<1>9. CASE Crash
  BY <1>9, CrashStep
<1> QED
  BY <1>1, <1>2, <1>3, <1>4, <1>5, <1>6, <1>7, <1>8, <1>9 DEF Next

-----------------------------------------------------------------------------
(***************************************************************************)
(* What is not on air is not heard.                                        *)
(***************************************************************************)

\* A decoder that cannot be replaced had a failure to start, and what plays a
\* broadcast is accounted for.
HeardInv ==
  /\ SessionInv
  /\ pipe.stuck => "spawn" \in hit
  /\ HeardIsOnAir

\* The decoder plays a track or silence.
OffAirPipe(p) == p.paused \/ p.src \in Tracks \cup {None}

(* A track is no broadcast, and broadcasts have their own sources.         *)
LEMMA LiveSources ==
  /\ \A i \in Ids : Live(i) \notin Tracks \cup {None} /\ Live(i) \in Sources
  /\ \A i, j \in Ids : Live(i) = Live(j) => i = j
BY TrackRange DEF Live, Ids, None, Tracks, Sources

(* A step that leaves what is played, and the worker's account of it.      *)
LEMMA HeardKept ==
  ASSUME HeardInv, hit \subseteq hit',
         pipe'.src = pipe.src, pipe'.paused = pipe.paused,
         pipe'.stuck => pipe.stuck \/ "spawn" \in hit',
         mem'.live = mem.live \/ task'.kind \in {"freeze", "resync"},
         task.kind \in {"freeze", "resync"} => task'.kind \in {"freeze", "resync"}
  PROVE  (pipe.stuck => "spawn" \in hit)' /\ HeardIsOnAir'
<1>1. (pipe.stuck => "spawn" \in hit)'
  BY DEF HeardInv
<1>2. HeardIsOnAir'
  <2> SUFFICES ASSUME (hit \cap {"begin", "resync", "spawn"} = {})', NEW i \in Ids,
                      pipe'.src = Live(i), ~pipe'.paused
               PROVE  mem'.live = i \/ task'.kind \in {"freeze", "resync"}
    BY DEF HeardIsOnAir
  <2>1. hit \cap {"begin", "resync", "spawn"} = {}
    OBVIOUS
  <2>2. mem.live = i \/ task.kind \in {"freeze", "resync"}
    BY <2>1 DEF HeardInv, HeardIsOnAir
  <2> QED
    BY <2>2
<1> QED
  BY <1>1, <1>2

(* A step after which the decoder plays a track or silence.                *)
LEMMA HeardOff ==
  ASSUME HeardInv, hit \subseteq hit', OffAirPipe(pipe'), pipe'.stuck => pipe.stuck
  PROVE  (pipe.stuck => "spawn" \in hit)' /\ HeardIsOnAir'
<1>1. (pipe.stuck => "spawn" \in hit)'
  BY DEF HeardInv
<1>2. HeardIsOnAir'
  BY LiveSources DEF HeardIsOnAir, OffAirPipe
<1> QED
  BY <1>1, <1>2

(* The pipeline's own steps leave its source alone.                        *)
LEMMA HeardPipeline ==
  ASSUME HeardInv, TrackEnds \/ (\E i \in Ids : FeedEnds(i)) \/ SpawnFails \/ EncoderRestarts
  PROVE  (pipe.stuck => "spawn" \in hit)' /\ HeardIsOnAir'
<1>1. /\ pipe \in Pipe /\ CreditKept /\ Bounded(pipe)
      /\ count \in Count /\ hit \subseteq Faults \cup {"retries"}
  BY DEF HeardInv, SessionInv, TypeOK, DriverInv, CreditKept
<1>2. UNCHANGED <<task, mem>>
  BY DEF TrackEnds, FeedEnds, SpawnFails, EncoderRestarts
<1>3. CASE TrackEnds \/ \E i \in Ids : FeedEnds(i)
  <2>1. pipe' = Ended(pipe) /\ ~pipe.dead /\ hit' = hit
    BY <1>3 DEF TrackEnds, FeedEnds, NoFault
  <2>2. pipe'.src = pipe.src /\ pipe'.paused = pipe.paused /\ pipe'.stuck = pipe.stuck
    BY <1>1, <2>1, EndedFields
  <2> QED
    BY <1>2, <2>1, <2>2, HeardKept
<1>4. CASE SpawnFails
  <2>1. /\ pipe' = [pipe EXCEPT !.dead = TRUE, !.stuck = TRUE]
        /\ hit' = hit \cup {"spawn"}
    BY <1>4 DEF SpawnFails, Fault
  <2>2. pipe'.src = pipe.src /\ pipe'.paused = pipe.paused
    BY <1>1, <2>1 DEF Pipe
  <2> QED
    BY <1>2, <2>1, <2>2, HeardKept
<1>5. CASE EncoderRestarts
  <2>1. /\ ~pipe.stuck /\ (pipe' = Restarted \/ pipe' = Ended(Restarted))
        /\ hit \subseteq hit'
    BY <1>5 DEF EncoderRestarts, Fault
  <2>2. /\ Restarted \in Pipe /\ Bounded(Restarted) /\ ~Restarted.dead
        /\ Restarted.src = pipe.src /\ Restarted.paused = pipe.paused
        /\ ~Restarted.stuck
    BY <1>1, <2>1, RestartedFields
  <2>3. /\ Ended(Restarted).src = pipe.src /\ Ended(Restarted).paused = pipe.paused
        /\ ~Ended(Restarted).stuck
    BY <2>2, EndedFields
  <2>4. pipe'.src = pipe.src /\ pipe'.paused = pipe.paused /\ ~pipe'.stuck
    BY <2>1, <2>2, <2>3
  <2> QED
    BY <1>2, <2>1, <2>4, HeardKept
<1> QED
  BY <1>3, <1>4, <1>5

(* What the worker has the decoder play is a track, but for a broadcast it *)
(* installs.                                                               *)
LEMMA SteeredOff ==
  ASSUME pipe \in Pipe, Bounded(pipe), NEW i \in Tracks
  PROVE  /\ OffAirPipe(SetSource(pipe, i)) /\ SetSource(pipe, i).stuck = pipe.stuck
         /\ OffAirPipe(Pause(pipe)) /\ Pause(pipe).stuck = pipe.stuck
         /\ OffAirPipe(Pause(SetSourceRaises(pipe, i)))
         /\ Pause(SetSourceRaises(pipe, i)).stuck = pipe.stuck
<1>1. i \in Sources
  BY DEF Sources
<1>2. /\ SetSource(pipe, i).src = i /\ SetSource(pipe, i).stuck = pipe.stuck
      /\ Pause(pipe).paused /\ Pause(pipe).stuck = pipe.stuck
  BY <1>1, SetSourceFields, PauseFields
<1>3. /\ SetSourceRaises(pipe, i) \in Pipe /\ Bounded(SetSourceRaises(pipe, i))
      /\ SetSourceRaises(pipe, i).stuck = pipe.stuck
  BY <1>1, RaisesFields
<1>4. /\ Pause(SetSourceRaises(pipe, i)).paused
      /\ Pause(SetSourceRaises(pipe, i)).stuck = pipe.stuck
  BY <1>3, PauseFields
<1> QED
  BY <1>2, <1>4 DEF OffAirPipe

(* Start-up, reload and crash: a new pipeline.                             *)
LEMMA HeardStarts ==
  ASSUME HeardInv, SyncToSession \/ Crash
  PROVE  (pipe.stuck => "spawn" \in hit)' /\ HeardIsOnAir'
<1>1. TypeOK /\ sess.idx \in Tracks /\ sess.idx \in Sources
  BY DEF HeardInv, SessionInv, TypeOK, Row, Sources
<1>2. Fault("startup") \/ Fault("crash") \/ NoFault
  BY DEF SyncToSession, Crash
<1>3. hit \subseteq hit'
  BY <1>1, <1>2, FaultFields DEF TypeOK
<1>4. pipe' = NewPipe \/ pipe' = SetSource(NewPipe, sess.idx)
  BY DEF SyncToSession, Crash
<1>5. NewPipe.paused /\ ~NewPipe.stuck
  BY DEF NewPipe
<1>6. SetSource(NewPipe, sess.idx).src = sess.idx /\ ~SetSource(NewPipe, sess.idx).stuck
  <2>1. NewPipe \in Pipe /\ Bounded(NewPipe)
    BY NewPipeFields
  <2>2. /\ SetSource(NewPipe, sess.idx).src = sess.idx
        /\ SetSource(NewPipe, sess.idx).stuck = NewPipe.stuck
    BY <1>1, <2>1, SetSourceFields
  <2> QED
    BY <1>5, <2>2
<1>7. OffAirPipe(pipe') /\ ~pipe'.stuck
  BY <1>1, <1>4, <1>5, <1>6 DEF OffAirPipe
<1> QED
  BY <1>3, <1>7, HeardOff

(* The queue's own transactions play tracks, or leave the decoder alone.   *)
LEMMA HeardQueue ==
  ASSUME HeardInv, FinishBatch \/ FinishAdvance \/ AdvanceFails \/ RetryAdvance
  PROVE  (pipe.stuck => "spawn" \in hit)' /\ HeardIsOnAir'
<1>1. /\ TypeOK /\ CreditKept /\ pipe \in Pipe /\ mem \in Mem
      /\ Bounded(pipe) /\ Backed(pipe)
  BY DEF HeardInv, SessionInv, DriverInv, TypeOK, CreditKept, Covers
<1>2. CASE FinishBatch
  <2> DEFINE new == ReplayAll(task.old, task.cmds)
  <2>1. task.kind = "batch" /\ task' = NoTask
    BY <1>2 DEF FinishBatch
  <2>2. new \in Row /\ new.idx \in Tracks
    <3>1. new \in Row
      BY <1>1, <2>1, TaskFields, ReplayAllRow DEF TypeOK
    <3> QED
      BY <3>1 DEF Row
  <2>3. \/ /\ mem.live # 0 /\ UNCHANGED pipe /\ NoFault
           /\ mem' = [mem EXCEPT !.resume = @ /\ ToSet(task.cmds) \cap Transport = {}]
        \/ SyncDriverToState(new, ToSet(task.cmds))
        \/ Fault("batch") /\ UNCHANGED <<mem, pipe>>
    BY <1>2 DEF FinishBatch
  <2> HIDE DEF new
  <2>4. CASE SyncDriverToState(new, ToSet(task.cmds))
    <3>1. Fault("source") \/ NoFault
      BY <2>4 DEF SyncDriverToState, Raises
    <3>2. hit \subseteq hit'
      BY <1>1, <3>1, FaultFields DEF TypeOK
    <3>3. \/ pipe' = pipe /\ mem' = mem
          \/ pipe' = Pause(pipe) \/ pipe' = SetSource(pipe, new.idx)
          \/ pipe' = Pause(SetSourceRaises(pipe, new.idx))
      BY <2>4 DEF SyncDriverToState
    <3>4. CASE pipe' = pipe /\ mem' = mem
      BY <2>1, <3>2, <3>4, HeardKept
    <3>5. CASE pipe' # pipe \/ mem' # mem
      BY <1>1, <2>2, <3>2, <3>3, <3>5, SteeredOff, HeardOff
    <3> QED
      BY <3>4, <3>5
  <2>5. CASE ~SyncDriverToState(new, ToSet(task.cmds))
    <3>1. Fault("batch") \/ NoFault
      BY <2>3, <2>5
    <3>2. hit \subseteq hit'
      BY <1>1, <3>1, FaultFields DEF TypeOK
    <3>3. pipe' = pipe /\ mem'.live = mem.live
      BY <1>1, <2>3, <2>5 DEF Mem
    <3> QED
      BY <2>1, <3>2, <3>3, HeardKept
  <2> QED
    BY <2>4, <2>5
<1>3. CASE FinishAdvance
  <2>1. task.kind = "advance"
    BY <1>3 DEF FinishAdvance
  <2>2. PICK new \in IF AdvancePending THEN AdvanceIndex(task.old) ELSE {task.old},
             moved \in {IF AdvancePending THEN Credited(pipe) ELSE pipe} :
          /\ \/ pipe' = ForgetRetry(SetSource(moved, new.idx))
             \/ pipe' = [SetSourceRaises(moved, new.idx) EXCEPT !.advanced = TRUE]
             \/ pipe' = ForgetRetry(Pause(moved))
             \/ pipe' = [Pause(moved) EXCEPT !.advanced = TRUE]
          /\ Raises \/ NoFault
    BY <1>3 DEF FinishAdvance
  <2>3. /\ moved \in Pipe /\ Bounded(moved) /\ Backed(moved) /\ moved.stuck = pipe.stuck
    BY <1>1, <2>1, <2>2, MovedFields
  <2>4. new.idx \in Tracks /\ new.idx \in Sources
    <3>1. task.old \in Row
      BY <1>1, <2>1, TaskFields DEF TypeOK
    <3>2. new \in Row
      BY <3>1, AdvanceRow
    <3> QED
      BY <3>2 DEF Row, Sources
  <2>5. Fault("source") \/ NoFault
    BY <2>2 DEF Raises
  <2>6. hit \subseteq hit'
    BY <1>1, <2>5, FaultFields DEF TypeOK
  <2>7. OffAirPipe(pipe') /\ pipe'.stuck = pipe.stuck
    <3>1. CASE pipe' = ForgetRetry(SetSource(moved, new.idx))
      <4>1. /\ SetSource(moved, new.idx) \in Pipe /\ Bounded(SetSource(moved, new.idx))
            /\ Backed(SetSource(moved, new.idx)) /\ SetSource(moved, new.idx).src = new.idx
            /\ SetSource(moved, new.idx).stuck = pipe.stuck
        BY <2>3, <2>4, SetSourceFields
      <4> QED
        BY <2>4, <3>1, <4>1, ForgetFields DEF OffAirPipe
    <3>2. CASE pipe' = [SetSourceRaises(moved, new.idx) EXCEPT !.advanced = TRUE]
      <4>1. /\ SetSourceRaises(moved, new.idx) \in Pipe
            /\ SetSourceRaises(moved, new.idx).src = new.idx
            /\ SetSourceRaises(moved, new.idx).stuck = pipe.stuck
        BY <2>3, <2>4, RaisesFields
      <4> QED
        BY <2>4, <3>2, <4>1 DEF OffAirPipe, Pipe
    <3>3. CASE pipe' = ForgetRetry(Pause(moved))
      <4>1. /\ Pause(moved) \in Pipe /\ Bounded(Pause(moved)) /\ Backed(Pause(moved))
            /\ Pause(moved).paused /\ Pause(moved).stuck = pipe.stuck
        BY <2>3, PauseFields
      <4> QED
        BY <3>3, <4>1, ForgetFields DEF OffAirPipe
    <3>4. CASE pipe' = [Pause(moved) EXCEPT !.advanced = TRUE]
      <4>1. Pause(moved) \in Pipe /\ Pause(moved).paused /\ Pause(moved).stuck = pipe.stuck
        BY <2>3, PauseFields
      <4> QED
        BY <3>4, <4>1 DEF OffAirPipe, Pipe
    <3> QED
      BY <2>2, <3>1, <3>2, <3>3, <3>4
  <2> QED
    BY <2>6, <2>7, HeardOff
<1>4. CASE AdvanceFails
  <2>1. task.kind = "advance" /\ ScheduleRetry /\ pipe' = pipe
    BY <1>4 DEF AdvanceFails
  <2>2. mem'.live = mem.live
    BY <1>1, <2>1, ScheduleFields
  <2>3. Fault("advance") \/ NoFault
    BY <1>4 DEF AdvanceFails
  <2>4. hit \subseteq hit'
    BY <1>1, <2>3, FaultFields DEF TypeOK
  <2> QED
    BY <2>1, <2>2, <2>4, HeardKept
<1>5. CASE RetryAdvance
  <2>1. task.kind = "none" /\ hit \subseteq hit'
    BY <1>5 DEF RetryAdvance, NoTask
  <2>2. CASE pipe' = ForgetRetry(Pause(pipe))
    <3>1. /\ Pause(pipe) \in Pipe /\ Bounded(Pause(pipe)) /\ Backed(Pause(pipe))
          /\ Pause(pipe).paused /\ Pause(pipe).stuck = pipe.stuck
      BY <1>1, PauseFields
    <3>2. OffAirPipe(pipe') /\ pipe'.stuck = pipe.stuck
      BY <2>2, <3>1, ForgetFields DEF OffAirPipe
    <3> QED
      BY <2>1, <3>2, HeardOff
  <2>3. CASE pipe' = pipe /\ mem' = [mem EXCEPT !.due = FALSE]
    <3>1. mem'.live = mem.live
      BY <1>1, <2>3 DEF Mem
    <3> QED
      BY <2>1, <2>3, <3>1, HeardKept
  <2> QED
    BY <1>5, <2>2, <2>3 DEF RetryAdvance
<1> QED
  BY <1>2, <1>3, <1>4, <1>5

(* A broadcast takes the mount over, and gives it back.                    *)
LEMMA HeardBroadcasts ==
  ASSUME HeardInv, TakeEvent \/ PollLive \/ FinishFreeze \/ FinishResync \/ ResyncFails
  PROVE  (pipe.stuck => "spawn" \in hit)' /\ HeardIsOnAir'
<1>1. /\ TypeOK /\ CreditKept /\ AirKept /\ pipe \in Pipe /\ mem \in Mem /\ Bounded(pipe)
      /\ NoTask.kind = "none"
  BY DEF HeardInv, SessionInv, DriverInv, TypeOK, CreditKept, NoTask
<1>2. CASE TakeEvent
  <2>1. task.kind = "none" /\ hit' = hit
    BY <1>1, <1>2 DEF TakeEvent, NoFault
  <2>2. pipe'.src = pipe.src /\ pipe'.paused = pipe.paused /\ pipe'.stuck = pipe.stuck
    BY <1>1, <1>2 DEF TakeEvent, Pipe
  <2>3. mem' = mem \/ task'.kind = "resync"
    BY <1>2 DEF TakeEvent, EndLive
  <2> QED
    BY <2>1, <2>2, <2>3, HeardKept
<1>3. CASE PollLive
  <2>1. task.kind = "none" /\ hit' = hit /\ pipe' = pipe
    BY <1>1, <1>3 DEF PollLive, NoFault
  <2>2. task'.kind \in {"freeze", "resync"}
    BY <1>3 DEF PollLive, EndLive
  <2> QED
    BY <2>1, <2>2, HeardKept
<1>4. CASE FinishFreeze
  <2>1. task.kind = "freeze" /\ task' = NoTask
    BY <1>4 DEF FinishFreeze
  <2>2. task.id \in Ids /\ Live(task.id) \in Sources
    BY <1>1, <2>1, TaskFields, LiveSources DEF TypeOK
  <2>3. Fault("freeze") \/ Fault("begin") \/ NoFault
    BY <1>4 DEF FinishFreeze
  <2>4. hit \subseteq hit'
    BY <1>1, <2>3, FaultFields DEF TypeOK
  <2>5. CASE ~pipe.stuck /\ pipe' = SetSource(pipe, Live(task.id)) /\ mem'.live = task.id
    <3>1. /\ SetSource(pipe, Live(task.id)).src = Live(task.id)
          /\ SetSource(pipe, Live(task.id)).stuck = pipe.stuck
      BY <1>1, <2>2, SetSourceFields
    <3>2. pipe'.src = Live(task.id) /\ ~pipe'.stuck
      BY <2>5, <3>1
    <3> QED
      BY <2>2, <2>5, <3>2, LiveSources DEF HeardIsOnAir
  <2>6. CASE pipe.stuck /\ pipe' = SetSourceRaises(pipe, Live(task.id))
    <3>1. "spawn" \in hit'
      BY <2>4, <2>6 DEF HeardInv
    <3> QED
      BY <3>1 DEF HeardIsOnAir
  <2>7. CASE ~pipe.stuck /\ pipe' = pipe /\ Fault("begin")
    <3>1. "begin" \in hit'
      BY <2>7 DEF Fault
    <3> QED
      BY <2>7, <3>1 DEF HeardIsOnAir
  <2>8. \A b \in BOOLEAN :
          [mem EXCEPT !.live = task.id, !.active = None, !.resume = b].live = task.id
    BY <1>1 DEF Mem
  <2>9. \/ ~pipe.stuck /\ pipe' = SetSource(pipe, Live(task.id)) /\ mem'.live = task.id
        \/ pipe.stuck /\ pipe' = SetSourceRaises(pipe, Live(task.id))
        \/ ~pipe.stuck /\ pipe' = pipe /\ Fault("begin")
    <3> DEFINE frozen == [task.old EXCEPT !.st = IF @ = "playing" THEN "paused" ELSE @]
    <3>1. (frozen # task.old) \in BOOLEAN /\ FALSE \in BOOLEAN
      OBVIOUS
    <3> HIDE DEF frozen
    <3>2. \/ /\ ~pipe.stuck /\ pipe' = SetSource(pipe, Live(task.id))
             /\ mem' = [mem EXCEPT !.live = task.id, !.active = None,
                                   !.resume = (frozen # task.old)]
          \/ /\ ~pipe.stuck /\ pipe' = SetSource(pipe, Live(task.id))
             /\ mem' = [mem EXCEPT !.live = task.id, !.active = None, !.resume = FALSE]
          \/ pipe.stuck /\ pipe' = SetSourceRaises(pipe, Live(task.id))
          \/ ~pipe.stuck /\ pipe' = pipe /\ Fault("begin")
      BY <1>4 DEF FinishFreeze, frozen
    <3>3. CASE /\ ~pipe.stuck /\ pipe' = SetSource(pipe, Live(task.id))
               /\ mem' = [mem EXCEPT !.live = task.id, !.active = None,
                                     !.resume = (frozen # task.old)]
      BY <2>8, <3>1, <3>3
    <3>4. CASE /\ ~pipe.stuck /\ pipe' = SetSource(pipe, Live(task.id))
               /\ mem' = [mem EXCEPT !.live = task.id, !.active = None, !.resume = FALSE]
      BY <2>8, <3>1, <3>4
    <3> QED
      BY <3>2, <3>3, <3>4
  <2> QED
    BY <2>5, <2>6, <2>7, <2>9
<1>5. CASE FinishResync
  <2>1. PICK new \in {[task.old EXCEPT !.st = IF Resumes THEN "playing" ELSE @]} :
          /\ \/ pipe' = SetSource(pipe, new.idx)
             \/ pipe' = Pause(SetSourceRaises(pipe, new.idx))
             \/ pipe' = Pause(pipe)
          /\ Raises \/ NoFault
    BY <1>5 DEF FinishResync
  <2>2. task.old \in Row
    BY <1>1, <1>5, TaskFields DEF FinishResync, TypeOK
  <2>3. new.idx \in Tracks
    BY <2>1, <2>2 DEF Row
  <2>4. Fault("source") \/ NoFault
    BY <2>1 DEF Raises
  <2>5. hit \subseteq hit'
    BY <1>1, <2>4, FaultFields DEF TypeOK
  <2> QED
    BY <1>1, <2>1, <2>3, <2>5, SteeredOff, HeardOff
<1>6. CASE ResyncFails
  <2>1. "resync" \in hit' /\ hit \subseteq hit' /\ pipe' = pipe
    BY <1>6 DEF ResyncFails, Fault
  <2> QED
    BY <2>1 DEF HeardInv, HeardIsOnAir
<1> QED
  BY <1>2, <1>3, <1>4, <1>5, <1>6

(* Every step keeps what is heard accounted for.                           *)
LEMMA HeardNext == HeardInv /\ [Next]_vars => HeardInv'
<1> SUFFICES ASSUME HeardInv, [Next]_vars
             PROVE  (pipe.stuck => "spawn" \in hit)' /\ HeardIsOnAir'
  BY NextInv DEF HeardInv
<1>1. TypeOK
  BY DEF HeardInv, SessionInv
<1>2. ASSUME UNCHANGED worker, hit \subseteq hit'
      PROVE  (pipe.stuck => "spawn" \in hit)' /\ HeardIsOnAir'
  BY <1>2, HeardKept DEF worker
<1>3. CASE UNCHANGED vars
  BY <1>2, <1>3 DEF vars, worker
<1>4. CASE \/ \E op \in Ops : ApiLoad(op)
           \/ ApiCommit \/ ApiPublish \/ PublishReload \/ CommitEdit
           \/ Claim \/ Disconnect \/ Release
  <2>1. UNCHANGED worker
    BY <1>4 DEF ApiLoad, ApiCommit, ApiPublish, PublishReload, CommitEdit, Claim, Disconnect,
                Release
  <2>2. hit \subseteq hit'
    BY <1>4 DEF ApiLoad, ApiCommit, ApiPublish, PublishReload, CommitEdit, Claim, Disconnect,
                Release, NoFault, Fault
  <2> QED
    BY <1>2, <2>1, <2>2
<1>5. CASE TrackEnds \/ (\E i \in Ids : FeedEnds(i)) \/ SpawnFails \/ EncoderRestarts
  BY <1>5, HeardPipeline
<1>6. CASE Crash \/ StartUp
  BY <1>6, HeardStarts DEF StartUp
<1>7. CASE TakeCommands
  <2>1. CASE SyncToSession
    BY <2>1, HeardStarts
  <2>2. CASE /\ UNCHANGED <<mem, pipe>> /\ hit' = hit /\ task = NoTask
    BY <2>2, HeardKept DEF NoTask
  <2> QED
    BY <1>7, <2>1, <2>2 DEF TakeCommands, NoFault
<1>8. CASE FinishBatch \/ FinishAdvance \/ AdvanceFails \/ RetryAdvance
  BY <1>8, HeardQueue
<1>9. CASE TakeEvent \/ PollLive \/ FinishFreeze \/ FinishResync \/ ResyncFails
  BY <1>9, HeardBroadcasts
<1>10. CASE Pass
  <2>1. UNCHANGED <<task, mem, pipe, hit>>
    BY <1>10 DEF Pass, NoFault
  <2> QED
    BY <2>1, HeardKept
<1> QED
  BY <1>3, <1>4, <1>5, <1>6, <1>7, <1>8, <1>9, <1>10 DEF Next, Loop

-----------------------------------------------------------------------------
(***************************************************************************)
(* Broadcasts are numbered in the order of their claims.                   *)
(***************************************************************************)

(* The claim and the ended broadcasts are among those counted.             *)
NumberInv ==
  /\ SessionInv
  /\ key \in 0 .. count.lives /\ over \subseteq 1 .. count.lives

(* Who does not touch the claim.                                           *)
Others ==
  \/ \E op \in Ops : ApiLoad(op)
  \/ ApiCommit \/ ApiPublish \/ PublishReload \/ CommitEdit
  \/ TrackEnds \/ (\E i \in Ids : FeedEnds(i)) \/ SpawnFails \/ EncoderRestarts
  \/ Loop \/ Crash

(* What a step that starts no broadcast does to the counters.              *)
Counts ==
  count' = count \/ \E f \in {"cmds", "ends", "faults"} : count' = [count EXCEPT ![f] = @ + 1]

(* A failure is counted as one.                                            *)
LEMMA FaultCounts ==
  ASSUME NEW kind, Fault(kind) PROVE Counts
BY Zenon DEF Fault, Counts

(* A step without one counts nothing.                                      *)
LEMMA NoFaultCounts ==
  ASSUME NoFault PROVE Counts
BY Zenon DEF NoFault, Counts

(* A step of the API or of the pipeline starts no broadcast.               *)
LEMMA ApiCounts ==
  ASSUME \/ \E op \in Ops : ApiLoad(op)
         \/ ApiCommit \/ ApiPublish \/ PublishReload \/ CommitEdit
         \/ TrackEnds \/ (\E i \in Ids : FeedEnds(i)) \/ SpawnFails \/ EncoderRestarts \/ Crash
  PROVE  Counts
<1>1. CASE (\E op \in Ops : ApiLoad(op)) \/ PublishReload \/ TrackEnds
  BY <1>1, Zenon DEF ApiLoad, PublishReload, TrackEnds, Counts
<1>2. CASE ApiCommit \/ CommitEdit \/ \E i \in Ids : FeedEnds(i)
  BY <1>2, NoFaultCounts DEF ApiCommit, CommitEdit, FeedEnds
<1>3. CASE ApiPublish \/ SpawnFails \/ EncoderRestarts \/ Crash
  BY <1>3, NoFaultCounts, FaultCounts DEF ApiPublish, SpawnFails, EncoderRestarts, Crash
<1> QED
  BY <1>1, <1>2, <1>3

(* Nor does a step of the worker's loop.                                   *)
LEMMA LoopCounts ==
  ASSUME Loop PROVE Counts
<1>1. CASE StartUp \/ TakeCommands
  BY <1>1, NoFaultCounts, FaultCounts DEF StartUp, TakeCommands, SyncToSession
<1>2. CASE Raises
  BY <1>2, NoFaultCounts, FaultCounts DEF Raises
<1>3. CASE FinishBatch
  BY <1>2, <1>3, NoFaultCounts, FaultCounts DEF FinishBatch, SyncDriverToState
<1>4. CASE TakeEvent \/ PollLive \/ Pass
  BY <1>4, NoFaultCounts DEF TakeEvent, PollLive, Pass
<1>5. CASE AdvanceFails \/ ResyncFails
  BY <1>5, NoFaultCounts, FaultCounts DEF AdvanceFails, ResyncFails
<1>6. CASE RetryAdvance
  BY <1>6 DEF RetryAdvance, Counts
<1>7. CASE FinishAdvance
  BY <1>2, <1>7, NoFaultCounts DEF FinishAdvance
<1>8. CASE FinishFreeze
  BY <1>8, NoFaultCounts, FaultCounts DEF FinishFreeze
<1>9. CASE FinishResync
  BY <1>2, <1>9, NoFaultCounts DEF FinishResync
<1> QED
  BY <1>1, <1>3, <1>4, <1>5, <1>6, <1>7, <1>8, <1>9 DEF Loop

(* So the claim and the number of broadcasts stay as they are.             *)
LEMMA OthersStep ==
  ASSUME count \in Count, Others
  PROVE  UNCHANGED <<key, over>> /\ count'.lives = count.lives
<1>1. UNCHANGED <<key, over>>
  BY DEF Others, ApiLoad, ApiCommit, ApiPublish, PublishReload, CommitEdit, TrackEnds, FeedEnds,
         SpawnFails, EncoderRestarts, Loop, Crash, StartUp, TakeCommands, FinishBatch, TakeEvent,
         FinishAdvance, AdvanceFails, RetryAdvance, PollLive, Pass, FinishFreeze, FinishResync,
         ResyncFails, rest
<1>2. Counts
  BY ApiCounts, LoopCounts DEF Others
<1> QED
  BY <1>1, <1>2 DEF Counts, Count

(* A broadcaster's claim has the next number.                              *)
LEMMA NumberStep == NumberInv /\ [Next]_vars => NumberInv' /\ [Claims!Next]_<<key, over>>
<1> SUFFICES ASSUME NumberInv, [Next]_vars
             PROVE  /\ key' \in 0 .. count'.lives /\ over' \subseteq 1 .. count'.lives
                    /\ [Claims!Next]_<<key, over>>
  BY NextInv DEF NumberInv
<1>1. /\ count \in Count /\ count.lives \in Nat /\ key \in 0 .. count.lives
      /\ over \subseteq 1 .. count.lives /\ key \in Ids \cup {0} /\ over \subseteq Ids
  BY SessionDriverAssumption DEF NumberInv, SessionInv, TypeOK, Count
<1>2. CASE UNCHANGED vars \/ Others
  <2>1. UNCHANGED <<key, over>> /\ count'.lives = count.lives
    BY <1>1, <1>2, OthersStep DEF vars
  <2> QED
    BY <1>1, <2>1
<1>3. CASE Claim
  <2>1. /\ count.lives < MaxLive /\ count' = [count EXCEPT !.lives = @ + 1]
        /\ key' = count.lives + 1 /\ over' = IF key = 0 THEN over ELSE over \cup {key}
    BY <1>3 DEF Claim
  <2>2. count'.lives = count.lives + 1
    BY <1>1, <2>1 DEF Count
  <2>3. key' \in Ids /\ key' \notin over \cup {key}
    BY <1>1, <2>1, SessionDriverAssumption DEF Ids
  <2>4. over' = over \cup ({key} \ {0})
    BY <2>1
  <2>5. Claims!Claim(key')
    BY <2>3, <2>4 DEF Claims!Claim
  <2> QED
    BY <1>1, <2>1, <2>2, <2>3, <2>4, <2>5 DEF Claims!Next
<1>4. CASE Disconnect
  <2>1. key # 0 /\ key' = key /\ over' = over \cup {key} /\ count' = count
    BY <1>4 DEF Disconnect, NoFault
  <2> QED
    BY <1>1, <2>1 DEF Claims!Next, Claims!End
<1>5. CASE Release
  <2>1. key \in over /\ key' = 0 /\ over' = over /\ count' = count
    BY <1>5 DEF Release, NoFault
  <2> QED
    BY <1>1, <2>1 DEF Claims!Next, Claims!Release
<1> QED
  BY <1>2, <1>3, <1>4, <1>5 DEF Next, Others

(* The broadcasts this module plays are those that LiveIngest makes of a   *)
(* broadcaster's connections: both are steps of LiveClaim.                 *)
THEOREM ClaimsAgree == Spec => BroadcastsAreClaims
<1>1. Init => NumberInv /\ Claims!Init
  <2> SUFFICES ASSUME Init PROVE NumberInv /\ Claims!Init
    OBVIOUS
  <2>1. key = 0 /\ over = {} /\ count.lives = 0
    BY DEF Init
  <2> QED
    BY <2>1, InitInv DEF NumberInv, Claims!Init
<1> QED
  BY <1>1, NumberStep, PTL DEF Spec, BroadcastsAreClaims, Claims!Spec

(* Rows, requests, commands, transactions and the pipeline keep their      *)
(* shapes, and the counters their bounds.                                  *)
THEOREM TypeCorrect == Spec => []TypeOK
<1>1. SessionInv => TypeOK
  BY DEF SessionInv
<1> QED
  BY <1>1, InitInv, NextInv, PTL DEF Spec

(* The end of a decoder moves the queue once at most, whatever fails, is   *)
(* retried, restarted or reloaded in between: _advance_after_ended with    *)
(* its _advanced marker, _maybe_retry_advance and the generation check of  *)
(* _on_source_ended.                                                       *)
THEOREM AdvancesOnce == Spec => []OneAdvancePerTrack
<1>1. SessionInv => OneAdvancePerTrack
  BY DEF SessionInv, DriverInv, CreditKept, Covers, Backed, OneAdvancePerTrack
<1> QED
  BY <1>1, InitInv, NextInv, PTL DEF Spec

(* While the worker counts a broadcast as on air its feed is what the      *)
(* decoder plays, unless the retries of an advance ran out: _begin_live,   *)
(* _end_live and the batch that leaves the driver alone during one.        *)
THEOREM BroadcastHeard == Spec => []OnAirIsHeard
<1>1. SessionInv => OnAirIsHeard
  BY DEF SessionInv, DriverInv, AirKept, OnAirIsHeard
<1> QED
  BY <1>1, InitInv, NextInv, PTL DEF Spec

(* And only then: a broadcast that the worker counts as over is not heard, *)
(* unless the step that was to replace it failed or the decoder can no     *)
(* longer be replaced: _end_live, _resync_after_live, _begin_live.         *)
THEOREM BroadcastLeaves == Spec => []HeardIsOnAir
<1>1. Init => HeardInv
  <2> SUFFICES ASSUME Init PROVE HeardInv
    OBVIOUS
  <2>1. pipe.paused /\ ~pipe.stuck
    BY DEF Init, NewPipe
  <2> QED
    BY <2>1, InitInv DEF HeardInv, HeardIsOnAir
<1>2. HeardInv => HeardIsOnAir
  BY DEF HeardInv
<1> QED
  BY <1>1, <1>2, HeardNext, PTL DEF Spec

=============================================================================
