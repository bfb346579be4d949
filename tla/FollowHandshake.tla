--------------------------- MODULE FollowHandshake ---------------------------
(***************************************************************************)
(* One user follows another (songhive/services/follows.py, federation.py   *)
(* and moderation.py, songhive/tasks/federation.py).  The follower's       *)
(* server keeps a Follow row, the target's server a follower or a held     *)
(* request in the federation storage.  On one server (local) both are      *)
(* written by the same request, but to two stores that commit separately:  *)
(* the storage at once, the row when the request ends.  Between two        *)
(* servers Follow, Undo, Accept and Reject activities are delivered by     *)
(* tasks that retry, so they can be lost, repeated or overtake each other. *)
(*                                                                         *)
(* smooth and raced are history: they record whether one of the accidents  *)
(* named where they are cleared has happened, so that the invariants can   *)
(* say exactly which ones the two servers do not recover from.             *)
(***************************************************************************)
EXTENDS Naturals

CONSTANTS
  MaxFollows,  \* bound: follow requests the user makes
  MaxFaults    \* bound: failed requests, lost and repeated deliveries

ASSUME FollowAssumption == MaxFollows \in Nat /\ MaxFaults \in Nat

VARIABLES
  local,       \* both users live on one server
  \* The follower's server.
  row,         \* Follow.state, or "none"
  rowId,       \* Follow.activity_id
  issued,      \* the follow requests made so far
  asking,      \* follow requests not committed yet: the row they add
  leaving,     \* the row an uncommitted unfollow request deletes
  \* The target's server.
  moderation,  \* what the target or an admin decided about the follower
  cutting,     \* an uncommitted block or suspension, after its sever
  follower,    \* the Follower record
  request,     \* the activity of the FollowRequest record, or 0
  task,        \* an incoming Follow whose policy has been read
  deciding,    \* the request an accept or reject route has read
  mail,        \* activities on their way
  faults,      \* faults so far
  \* History.
  granted,     \* the target's server has stored the follower once
  smooth,      \* no accident so far
  raced        \* a record was stored across a block or suspension

followerSide == <<row, rowId, issued, asking, leaving>>
targetSide == <<moderation, cutting, follower, request, task, deciding>>
history == <<granted, smooth, raced>>
vars == <<local, followerSide, targetSide, mail, faults, history>>

Id == 1..MaxFollows
Verdict == {"accept", "manual", "reject"}
Kind == {"Follow", "Undo", "Accept", "Reject"}
Activity == [kind : Kind, id : Id]
Bar == {"blocked", "suspended"}

TypeOK ==
  /\ local \in BOOLEAN
  /\ row \in {"none", "pending", "accepted"}
  /\ rowId \in 0..MaxFollows
  /\ issued \in 0..MaxFollows
  /\ asking \subseteq [id : Id, state : {"pending", "accepted"}]
  /\ leaving \in 0..MaxFollows
  /\ moderation \in {"none"} \cup Bar
  /\ cutting \in {"none"} \cup Bar
  /\ follower \in BOOLEAN
  /\ request \in 0..MaxFollows
  /\ task \in [id : 0..MaxFollows, verdict : Verdict, unbarred : BOOLEAN]
  /\ deciding \in 0..MaxFollows
  /\ mail \subseteq Activity
  /\ faults \in 0..MaxFaults
  /\ granted \in BOOLEAN
  /\ smooth \in BOOLEAN
  /\ raced \in BOOLEAN

Idle == [id |-> 0, verdict |-> "reject", unbarred |-> FALSE]

Init ==
  /\ local \in BOOLEAN
  /\ row = "none"
  /\ rowId = 0
  /\ issued = 0
  /\ asking = {}
  /\ leaving = 0
  /\ moderation = "none"
  /\ cutting = "none"
  /\ follower = FALSE
  /\ request = 0
  /\ task = Idle
  /\ deciding = 0
  /\ mail = {}
  /\ faults = 0
  /\ granted = FALSE
  /\ smooth = TRUE
  /\ raced = FALSE

Message(kind, id) == [kind |-> kind, id |-> id]
Barred == moderation \in Bar

(* What happens next is an accident unless ok holds.                       *)
Smoothly(ok) == smooth' = (smooth /\ ok)

(* A step that counts as a fault, if it is one.                            *)
Fault(is) ==
  /\ is => faults < MaxFaults
  /\ faults' = IF is THEN faults + 1 ELSE faults

(* A record stored while a block or suspension is in force, or has cut the *)
(* relation and is about to commit.                                        *)
StoredAcross == Barred \/ cutting # "none"

(* Mutant: the moderation of the follower is not consulted.                *)
ApprovalsUnmoderated == Verdict

(* The approval policy the target's server may read: the owner changes it  *)
(* and an admin limits the follower at any time, but someone blocked or    *)
(* suspended is always refused.                                            *)
Approvals == IF Barred THEN {"reject"} ELSE Verdict

(* The records that an approval of follow i leaves.  It was read before    *)
(* the block or suspension that it now crosses, if unbarred.               *)
Store(approval, i, unbarred) ==
  /\ follower' = (follower \/ approval = "accept")
  /\ granted' = (granted \/ approval = "accept")
  /\ request' = IF approval = "manual" THEN i ELSE request
  /\ raced' = (raced \/ (unbarred /\ StoredAcross /\ approval # "reject"))

-----------------------------------------------------------------------------
(***************************************************************************)
(* The follower's requests.                                                *)
(***************************************************************************)

(* follow_user finds no row and allows the request.  The records of a      *)
(* local target are stored at once; a remote one is sent the Follow before *)
(* the row is committed.  Two requests at a time are an accident: both     *)
(* have found no row.                                                      *)
FollowLocal(i) ==
  /\ local
  /\ \E approval \in Approvals \ {"reject"} :
       /\ asking' = asking \cup {[id |-> i, state |->
            IF approval = "accept" THEN "accepted" ELSE "pending"]}
       /\ Store(approval, i, ~Barred)
  /\ Smoothly(asking = {} /\ leaving = 0 /\ cutting = "none")
  /\ UNCHANGED mail

FollowRemote(i) ==
  /\ ~local
  /\ asking' = asking \cup {[id |-> i, state |-> "pending"]}
  /\ mail' = mail \cup {Message("Follow", i)}
  /\ Smoothly(asking = {} /\ leaving = 0)
  /\ UNCHANGED <<follower, request, granted, raced>>

Follow ==
  /\ row = "none"
  /\ issued < MaxFollows
  /\ issued' = issued + 1
  /\ FollowLocal(issued + 1) \/ FollowRemote(issued + 1)
  /\ UNCHANGED <<local, row, rowId, leaving>>
  /\ UNCHANGED <<moderation, cutting, task, deciding, faults>>

(* The request commits its row, or fails on the unique constraint because  *)
(* another one has committed first.                                        *)
CommitFollow(a) ==
  /\ asking' = asking \ {a}
  /\ IF row = "none"
       THEN row' = a.state /\ rowId' = a.id
       ELSE UNCHANGED <<row, rowId>>
  /\ Smoothly(row = "none" /\ (local => ~StoredAcross))
  /\ UNCHANGED <<local, issued, leaving, mail, granted, raced, faults>>
  /\ UNCHANGED targetSide

(* The request fails after its first step: what it stored or sent stays.   *)
AbortFollow(a) ==
  /\ Fault(TRUE)
  /\ asking' = asking \ {a}
  /\ smooth' = FALSE
  /\ UNCHANGED <<local, row, rowId, issued, leaving, mail, granted, raced>>
  /\ UNCHANGED targetSide

(* unfollow_user: a local target's records go at once, a remote one is     *)
(* sent an Undo of the recorded activity.  The row goes with the commit.   *)
Unfollow ==
  /\ row # "none"
  /\ leaving = 0
  /\ leaving' = rowId
  /\ IF local
       THEN follower' = FALSE /\ request' = 0 /\ UNCHANGED mail
       ELSE mail' = mail \cup {Message("Undo", rowId)}
            /\ UNCHANGED <<follower, request>>
  /\ Smoothly(asking = {})
  /\ UNCHANGED <<local, row, rowId, issued, asking, granted, raced>>
  /\ UNCHANGED <<moderation, cutting, task, deciding, faults>>

CommitUnfollow ==
  /\ leaving # 0
  /\ leaving' = 0
  /\ IF rowId = leaving
       THEN row' = "none" /\ rowId' = 0
       ELSE UNCHANGED <<row, rowId>>
  /\ UNCHANGED <<local, issued, asking, mail, history, faults>>
  /\ UNCHANGED targetSide

AbortUnfollow ==
  /\ Fault(TRUE)
  /\ leaving # 0
  /\ leaving' = 0
  /\ smooth' = FALSE
  /\ UNCHANGED <<local, row, rowId, issued, asking, mail, granted, raced>>
  /\ UNCHANGED targetSide

-----------------------------------------------------------------------------
(***************************************************************************)
(* Incoming activities.                                                    *)
(***************************************************************************)

(* m is the oldest activity on its way to its receiver.  An activity that  *)
(* is not has overtaken another: deliveries are independent tasks.         *)
Forward == {"Follow", "Undo"}
InOrder(m) ==
  \A n \in mail :
    (n.kind \in Forward <=> m.kind \in Forward) =>
      \/ m.id < n.id
      \/ m.id = n.id /\ (n.kind = "Follow" => m = n)

(* The activity has been handled.  It comes again when the sender missed   *)
(* the response.                                                           *)
Taken(m, again) == mail \ IF again THEN {} ELSE {m}

(* process_incoming drops whatever a suspended actor sends.  A dropped     *)
(* Follow leaves the row pending for ever.                                 *)
DropSuspended(m) ==
  /\ m \in mail
  /\ m.kind \in Forward
  /\ moderation = "suspended"
  /\ mail' = mail \ {m}
  /\ Smoothly(m.kind = "Undo" /\ InOrder(m))
  /\ UNCHANGED <<local, granted, raced, faults>>
  /\ UNCHANGED followerSide
  /\ UNCHANGED targetSide

(* The policy callback has read the target's approval policy ...           *)
ReadApproval(m) ==
  /\ m \in mail
  /\ m.kind = "Follow"
  /\ moderation # "suspended"
  /\ task = Idle
  /\ \E approval \in Approvals :
       task' = [id |-> m.id, verdict |-> approval, unbarred |-> ~Barred]
  /\ UNCHANGED <<local, mail, history>>
  /\ UNCHANGED followerSide
  /\ UNCHANGED <<moderation, cutting, follower, request, deciding, faults>>

(* Mutant: a refused Follow is dropped without an answer.                  *)
AnswerAcceptsOnly(m, verdict) ==
  IF verdict = "accept" THEN {Message("Accept", m.id)} ELSE {}

(* ... and the inbox processor applies it, whatever has happened since.    *)
Answer(m, verdict) ==
  IF verdict = "accept" THEN {Message("Accept", m.id)}
  ELSE IF verdict = "reject" THEN {Message("Reject", m.id)} ELSE {}

ApplyApproval(again) ==
  \E m \in mail :
    /\ m = Message("Follow", task.id)
    /\ Fault(again)
    /\ task' = Idle
    /\ Store(task.verdict, m.id, task.unbarred)
    /\ mail' = Taken(m, again) \cup Answer(m, task.verdict)
    /\ Smoothly(~again /\ InOrder(m) /\ ~raced')
    /\ UNCHANGED local
    /\ UNCHANGED followerSide
    /\ UNCHANGED <<moderation, cutting, deciding>>

(* Mutant: the request that is held for the actor survives the Undo.       *)
HandleUndoKeepsRequest(m, again) ==
  /\ Fault(again)
  /\ m \in mail
  /\ m.kind = "Undo"
  /\ moderation # "suspended"
  /\ follower' = FALSE
  /\ mail' = Taken(m, again)
  /\ Smoothly(~again /\ InOrder(m))
  /\ UNCHANGED <<local, granted, raced>>
  /\ UNCHANGED followerSide
  /\ UNCHANGED <<moderation, cutting, request, task, deciding>>

(* An Undo removes the records of the actor, whichever follow it names.    *)
HandleUndo(m, again) ==
  /\ Fault(again)
  /\ m \in mail
  /\ m.kind = "Undo"
  /\ moderation # "suspended"
  /\ follower' = FALSE
  /\ request' = 0
  /\ mail' = Taken(m, again)
  /\ Smoothly(~again /\ InOrder(m))
  /\ UNCHANGED <<local, granted, raced>>
  /\ UNCHANGED followerSide
  /\ UNCHANGED <<moderation, cutting, task, deciding>>

(* Mutant: any answer accepts the row.                                     *)
HandleAnswerAccepts(m, again) ==
  /\ Fault(again)
  /\ m \in mail
  /\ m.kind \in {"Accept", "Reject"}
  /\ IF row = "none" THEN UNCHANGED <<row, rowId>>
     ELSE row' = "accepted" /\ UNCHANGED rowId
  /\ mail' = Taken(m, again)
  /\ Smoothly(/\ ~again
              /\ row # "none" => m.id = rowId
              /\ \A a \in asking : a.id # m.id)
  /\ UNCHANGED <<local, issued, asking, leaving, granted, raced>>
  /\ UNCHANGED targetSide

(* apply_follow_decision takes the answer for any follow of this target,   *)
(* by this actor: the row matches on its activity or on its actor alone.   *)
(* An answer that finds no row, or not the row it answers, is an accident. *)
HandleAnswer(m, again) ==
  /\ Fault(again)
  /\ m \in mail
  /\ m.kind \in {"Accept", "Reject"}
  /\ IF row = "none" THEN UNCHANGED <<row, rowId>>
     ELSE IF m.kind = "Accept" THEN row' = "accepted" /\ UNCHANGED rowId
     ELSE row' = "none" /\ rowId' = 0
  /\ mail' = Taken(m, again)
  /\ Smoothly(/\ ~again
              /\ row # "none" => m.id = rowId
              /\ \A a \in asking : a.id # m.id)
  /\ UNCHANGED <<local, issued, asking, leaving, granted, raced>>
  /\ UNCHANGED targetSide

(* The retries of a delivery run out, or the receiving task dies: Celery   *)
(* acknowledges it before it runs.                                         *)
Lose(m) ==
  /\ Fault(TRUE)
  /\ m \in mail
  /\ mail' = mail \ {m}
  /\ task' = IF m = Message("Follow", task.id) THEN Idle ELSE task
  /\ smooth' = FALSE
  /\ UNCHANGED <<local, granted, raced>>
  /\ UNCHANGED followerSide
  /\ UNCHANGED <<moderation, cutting, follower, request, deciding>>

-----------------------------------------------------------------------------
(***************************************************************************)
(* The target and the admins of its server.                                *)
(***************************************************************************)

(* The accept and reject routes read the held request ...                  *)
ReadRequest ==
  /\ request # 0
  /\ deciding = 0
  /\ deciding' = request
  /\ UNCHANGED <<local, mail, history>>
  /\ UNCHANGED followerSide
  /\ UNCHANGED <<moderation, cutting, follower, request, task, faults>>

(* ... and decide it: the storage commits and the answer is enqueued, then *)
(* the row of a local follower follows suit, unless the route fails first. *)
Decide(accept, fails) ==
  /\ Fault(fails)
  /\ deciding # 0
  /\ deciding' = 0
  /\ request' = 0
  /\ follower' = (follower \/ accept)
  /\ granted' = (granted \/ accept)
  /\ mail' = mail \cup {Message(IF accept THEN "Accept" ELSE "Reject", deciding)}
  /\ IF ~local \/ fails \/ row = "none" THEN UNCHANGED <<row, rowId>>
     ELSE IF accept THEN row' = "accepted" /\ UNCHANGED rowId
     ELSE row' = "none" /\ rowId' = 0
  /\ raced' = (raced \/ (StoredAcross /\ accept))
  /\ Smoothly(/\ request = deciding
              /\ ~raced'
              /\ local => ~fails /\ rowId = deciding)
  /\ UNCHANGED <<local, issued, asking, leaving>>
  /\ UNCHANGED <<moderation, cutting, task>>

(* The block or the suspension is lifted: nothing else changes.            *)
Lift ==
  /\ Barred
  /\ moderation' = "none"
  /\ UNCHANGED <<local, mail, history>>
  /\ UNCHANGED followerSide
  /\ UNCHANGED <<cutting, follower, request, task, deciding, faults>>

(* A block or suspension first removes the records, at once; an error of   *)
(* the storage is only logged.  A remote follower is not told.             *)
Sever(bar, failed) ==
  /\ Fault(failed)
  /\ ~Barred
  /\ cutting = "none"
  /\ cutting' = bar
  /\ follower' = (follower /\ failed)
  /\ request' = IF failed THEN request ELSE 0
  /\ raced' = (raced \/ failed)
  /\ Smoothly(/\ ~failed
              /\ local => asking = {}
              /\ ~local => ~follower /\ request = 0)
  /\ UNCHANGED <<local, mail, granted>>
  /\ UNCHANGED followerSide
  /\ UNCHANGED <<moderation, task, deciding>>

(* Then it commits, with the deletion of a local follower's row ...        *)
CommitCut ==
  /\ cutting # "none"
  /\ cutting' = "none"
  /\ moderation' = cutting
  /\ IF local THEN row' = "none" /\ rowId' = 0 ELSE UNCHANGED <<row, rowId>>
  /\ UNCHANGED <<local, issued, asking, leaving, mail, history>>
  /\ UNCHANGED <<follower, request, task, deciding, faults>>

(* ... or rolls back.                                                      *)
AbortCut ==
  /\ Fault(TRUE)
  /\ cutting # "none"
  /\ cutting' = "none"
  /\ smooth' = FALSE
  /\ UNCHANGED <<local, mail, granted, raced>>
  /\ UNCHANGED followerSide
  /\ UNCHANGED <<moderation, follower, request, task, deciding>>

-----------------------------------------------------------------------------
HandleOne(again) ==
  \/ ApplyApproval(again)
  \/ \E m \in mail : HandleUndo(m, again) \/ HandleAnswer(m, again)

Requests ==
  \/ Follow \/ Unfollow \/ CommitUnfollow \/ AbortUnfollow
  \/ \E a \in asking : CommitFollow(a) \/ AbortFollow(a)

Deliveries ==
  \/ \E m \in mail : DropSuspended(m) \/ ReadApproval(m) \/ Lose(m)
  \/ \E again \in BOOLEAN : HandleOne(again)

Decisions ==
  \/ ReadRequest \/ Lift \/ CommitCut \/ AbortCut
  \/ \E accept, fails \in BOOLEAN : Decide(accept, fails)
  \/ \E bar \in Bar, failed \in BOOLEAN : Sever(bar, failed)

Next == Requests \/ Deliveries \/ Decisions

Spec == Init /\ [][Next]_vars

(* Requests and delivery tasks that have started go on.  Nobody has to     *)
(* decide a held request.                                                  *)
Fairness ==
  /\ WF_vars(\E a \in asking : CommitFollow(a))
  /\ WF_vars(CommitUnfollow)
  /\ WF_vars(CommitCut)
  /\ WF_vars(\E m \in mail : ReadApproval(m) \/ DropSuspended(m))
  /\ WF_vars(HandleOne(FALSE))

FairSpec == Spec /\ Fairness

-----------------------------------------------------------------------------
(* Nothing is under way between the two users.                             *)
Quiet ==
  /\ mail = {} /\ asking = {} /\ leaving = 0
  /\ task = Idle /\ deciding = 0 /\ cutting = "none"

(* When everything under way has ended without an accident, the two sides  *)
(* agree: an accepted row has its follower, a pending row its held         *)
(* request, and no row neither.  (follows.py:115-231, 439-617.)            *)
Settled ==
  Quiet /\ smooth =>
    /\ row = "accepted" <=> follower
    /\ row = "pending" <=> request # 0

(* A follower who is blocked or suspended has neither a follower record    *)
(* nor a held request, unless one was stored across the block.             *)
(* (moderation.py:828-906, tasks/federation.py:49-82.)                     *)
BlockHolds == Barred /\ ~raced => ~follower /\ request = 0

(* Whatever is lost, repeated or reordered, a row says accepted only if    *)
(* the target's server did store the follower once: a held, rejected or    *)
(* withdrawn follow never turns into an accepted one by itself.            *)
(* (follows.py:543-617.)                                                   *)
AcceptedWasGranted == row = "accepted" => granted

(* Without an accident a pending row is answered, withdrawn, or waits for  *)
(* the owner's decision.  (tasks/federation.py:188-264, 549-606.)          *)
FollowAnswered ==
  row = "pending" ~> (row # "pending" \/ request # 0 \/ ~smooth)
=============================================================================
