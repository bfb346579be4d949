------------------------ MODULE FollowHandshakeProofs ------------------------
(***************************************************************************)
(* Proofs about FollowHandshake, for any number of follow requests and of  *)
(* lost, repeated and failed steps: a block leaves no record of the        *)
(* follower behind, no row says accepted that nobody granted, and without  *)
(* an accident the two sides come to agree.                                *)
(***************************************************************************)
EXTENDS FollowHandshake, TLAPS

(* A policy read while the follower was barred refuses him, and what the   *)
(* sever has removed stays removed while the block is about to commit.     *)
BlockInv ==
  /\ ~task.unbarred => task.verdict = "reject"
  /\ StoredAcross /\ ~raced => ~follower /\ request = 0

(* Every way an accepted row can come from: an uncommitted local follow,   *)
(* an Accept on its way.                                                   *)
GrantInv ==
  /\ row = "accepted" => granted
  /\ \A a \in asking : a.state = "accepted" => granted
  /\ \A m \in mail : m.kind = "Accept" => granted

-----------------------------------------------------------------------------
(* Storing an approval across a block is recorded, or stores nothing.      *)
LEMMA StoreKeepsBlock ==
  ASSUME NEW approval, NEW i, NEW unbarred,
         ~unbarred => approval = "reject",
         StoredAcross /\ ~raced => ~follower /\ request = 0,
         Store(approval, i, unbarred)
  PROVE  StoredAcross /\ ~raced' => ~follower' /\ request' = 0
BY Zenon DEF Store

(* No step stores a record of a follower who is blocked, but for the races *)
(* the history names.                                                      *)
LEMMA BlockStep == BlockInv /\ [Next]_vars => BlockInv'
<1> SUFFICES ASSUME BlockInv, [Next]_vars PROVE BlockInv'
  OBVIOUS
<1> USE DEF BlockInv, StoredAcross, Barred
<1>1. ASSUME UNCHANGED <<task, moderation, cutting>>,
             raced => raced', ~raced' => (follower' => follower),
             ~raced' => (request' = request \/ request' = 0)
      PROVE BlockInv'
  BY <1>1
<1>2. CASE Requests
  <2>1. CASE Follow /\ FollowLocal(issued + 1)
    <3>1. PICK approval \in Approvals \ {"reject"} : Store(approval, issued + 1, ~Barred)
      BY <2>1 DEF FollowLocal
    <3>2. approval \in Verdict /\ ~Barred
      BY <3>1 DEF Approvals, Barred
    <3>3. StoredAcross /\ ~raced' => ~follower' /\ request' = 0
      BY <3>1, <3>2, StoreKeepsBlock
    <3> QED
      BY <2>1, <3>3 DEF Follow
  <2>2. CASE Follow /\ FollowRemote(issued + 1)
    BY <1>1, <2>2 DEF Follow, FollowRemote
  <2>3. CASE Unfollow
    BY <1>1, <2>3 DEF Unfollow
  <2>4. CASE CommitUnfollow \/ AbortUnfollow
    BY <1>1, <2>4 DEF CommitUnfollow, AbortUnfollow, targetSide, history
  <2>5. ASSUME NEW a \in asking, CommitFollow(a) \/ AbortFollow(a) PROVE BlockInv'
    BY <1>1, <2>5 DEF CommitFollow, AbortFollow, targetSide
  <2> QED
    BY <1>2, <2>1, <2>2, <2>3, <2>4, <2>5 DEF Requests, Follow
<1>3. CASE Deliveries
  <2>1. ASSUME NEW m \in mail, DropSuspended(m) PROVE BlockInv'
    BY <1>1, <2>1 DEF DropSuspended, targetSide
  <2>2. ASSUME NEW m \in mail, ReadApproval(m) PROVE BlockInv'
    <3>1. PICK approval \in Approvals :
            task' = [id |-> m.id, verdict |-> approval, unbarred |-> ~Barred]
      BY <2>2 DEF ReadApproval
    <3>2. task'.verdict = approval /\ (task'.unbarred <=> ~Barred)
      BY <3>1, Zenon
    <3>3. Barred => approval = "reject"
      BY DEF Approvals
    <3>4. UNCHANGED <<moderation, cutting, follower, request, raced>>
      BY <2>2 DEF ReadApproval, history
    <3> QED
      BY <3>2, <3>3, <3>4
  <2>3. ASSUME NEW m \in mail, Lose(m) PROVE BlockInv'
    BY <2>3 DEF Lose, Idle
  <2>4. ASSUME NEW again \in BOOLEAN, ApplyApproval(again) PROVE BlockInv'
    <3>1. task'.verdict = "reject" /\ UNCHANGED <<moderation, cutting>>
      BY <2>4 DEF ApplyApproval, Idle
    <3>2. PICK m \in mail : Store(task.verdict, m.id, task.unbarred)
      BY <2>4 DEF ApplyApproval
    <3>3. StoredAcross /\ ~raced' => ~follower' /\ request' = 0
      BY <3>2, StoreKeepsBlock
    <3> QED
      BY <3>1, <3>3
  <2>5. ASSUME NEW again \in BOOLEAN, NEW m \in mail, HandleUndo(m, again) PROVE BlockInv'
    BY <1>1, <2>5 DEF HandleUndo
  <2>6. ASSUME NEW again \in BOOLEAN, NEW m \in mail, HandleAnswer(m, again)
        PROVE BlockInv'
    BY <1>1, <2>6 DEF HandleAnswer, targetSide
  <2> QED
    BY <1>3, <2>1, <2>2, <2>3, <2>4, <2>5, <2>6 DEF Deliveries, HandleOne
<1>4. CASE Decisions
  <2>1. CASE ReadRequest
    BY <1>1, <2>1 DEF ReadRequest, history
  <2>2. CASE Lift
    BY <2>2 DEF Lift, history
  <2>3. CASE CommitCut
    BY <2>3 DEF CommitCut, history
  <2>4. CASE AbortCut
    BY <2>4 DEF AbortCut
  <2>5. ASSUME NEW accept \in BOOLEAN, NEW fails \in BOOLEAN, Decide(accept, fails)
        PROVE BlockInv'
    BY <2>5 DEF Decide
  <2>6. ASSUME NEW bar \in Bar, NEW failed \in BOOLEAN, Sever(bar, failed)
        PROVE BlockInv'
    BY <2>6 DEF Sever
  <2> QED
    BY <1>4, <2>1, <2>2, <2>3, <2>4, <2>5, <2>6 DEF Decisions
<1>5. CASE UNCHANGED vars
  BY <1>5 DEF vars, targetSide, history
<1> QED
  BY <1>2, <1>3, <1>4, <1>5 DEF Next

(* There is no block at first, and nothing stored.                         *)
LEMMA InitBlocks == Init => BlockInv
BY DEF Init, BlockInv, Idle, StoredAcross, Barred, Bar

(* However the steps of a block, an approval, a decision and a delivery    *)
(* interleave, a blocked or suspended follower has neither a follower      *)
(* record nor a held request, unless one was stored across the block.      *)
THEOREM BlockCuts == Spec => []BlockHolds
<1>1. BlockInv => BlockHolds
  BY DEF BlockInv, BlockHolds, StoredAcross
<1> QED
  BY <1>1, InitBlocks, BlockStep, PTL DEF Spec

-----------------------------------------------------------------------------
(* Every step that writes "accepted", or sends an Accept, has stored the   *)
(* follower or follows one that has.                                       *)
LEMMA GrantStep == GrantInv /\ [Next]_vars => GrantInv'
<1> SUFFICES ASSUME GrantInv, [Next]_vars PROVE GrantInv'
  OBVIOUS
<1> USE DEF GrantInv
<1>1. ASSUME granted => granted', row' = row \/ row' # "accepted",
             asking' \subseteq asking, mail' \subseteq mail
      PROVE GrantInv'
  BY <1>1
<1>2. CASE Requests
  <2>1. CASE Follow /\ FollowLocal(issued + 1)
    <3>1. PICK approval \in Approvals \ {"reject"} :
            /\ asking' = asking \cup {[id |-> issued + 1, state |->
                 IF approval = "accept" THEN "accepted" ELSE "pending"]}
            /\ granted' = (granted \/ approval = "accept")
      BY <2>1, Zenon DEF FollowLocal, Store
    <3>2. \A a \in asking' : a \in asking \/ a.state # "accepted" \/ approval = "accept"
      BY <3>1
    <3> QED
      BY <2>1, <3>1, <3>2 DEF Follow, FollowLocal
  <2>2. CASE Follow /\ FollowRemote(issued + 1)
    BY <2>2 DEF Follow, FollowRemote, Message
  <2>3. CASE Unfollow
    BY <2>3 DEF Unfollow, Message
  <2>4. CASE CommitUnfollow \/ AbortUnfollow
    BY <2>4 DEF CommitUnfollow, AbortUnfollow, history
  <2>5. ASSUME NEW a \in asking, CommitFollow(a) \/ AbortFollow(a) PROVE GrantInv'
    BY <2>5 DEF CommitFollow, AbortFollow
  <2> QED
    BY <1>2, <2>1, <2>2, <2>3, <2>4, <2>5 DEF Requests, Follow
<1>3. CASE Deliveries
  <2>1. ASSUME NEW m \in mail, DropSuspended(m) \/ Lose(m) PROVE GrantInv'
    BY <1>1, <2>1 DEF DropSuspended, Lose, followerSide
  <2>2. ASSUME NEW m \in mail, ReadApproval(m) PROVE GrantInv'
    BY <2>2 DEF ReadApproval, followerSide, history
  <2>3. ASSUME NEW again \in BOOLEAN, ApplyApproval(again) PROVE GrantInv'
    <3>1. /\ granted' = (granted \/ task.verdict = "accept")
          /\ UNCHANGED <<row, asking>>
      BY <2>3, Zenon DEF ApplyApproval, Store, followerSide
    <3>2. ASSUME NEW n \in mail', n.kind = "Accept"
          PROVE n \in mail \/ task.verdict = "accept"
      BY <2>3, <3>2 DEF ApplyApproval, Taken, Answer, Message
    <3> QED
      BY <3>1, <3>2
  <2>4. ASSUME NEW again \in BOOLEAN, NEW m \in mail, HandleUndo(m, again) PROVE GrantInv'
    BY <1>1, <2>4 DEF HandleUndo, Taken, followerSide
  <2>5. ASSUME NEW again \in BOOLEAN, NEW m \in mail, HandleAnswer(m, again)
        PROVE GrantInv'
    BY <2>5 DEF HandleAnswer, Taken
  <2> QED
    BY <1>3, <2>1, <2>2, <2>3, <2>4, <2>5 DEF Deliveries, HandleOne
<1>4. CASE Decisions
  <2>1. CASE ReadRequest \/ Lift
    BY <2>1 DEF ReadRequest, Lift, followerSide, history
  <2>2. CASE CommitCut
    BY <2>2 DEF CommitCut, history
  <2>3. CASE AbortCut
    BY <2>3 DEF AbortCut, followerSide
  <2>4. ASSUME NEW accept \in BOOLEAN, NEW fails \in BOOLEAN, Decide(accept, fails)
        PROVE GrantInv'
    <3>1. granted' = (granted \/ accept) /\ UNCHANGED asking
      BY <2>4 DEF Decide
    <3>2. row' = "accepted" => row = "accepted" \/ accept
      BY <2>4 DEF Decide
    <3>3. \A m \in mail' : m \in mail \/ m.kind # "Accept" \/ accept
      BY <2>4 DEF Decide, Message
    <3> QED
      BY <3>1, <3>2, <3>3
  <2>5. ASSUME NEW bar \in Bar, NEW failed \in BOOLEAN, Sever(bar, failed)
        PROVE GrantInv'
    BY <2>5 DEF Sever, followerSide
  <2> QED
    BY <1>4, <2>1, <2>2, <2>3, <2>4, <2>5 DEF Decisions
<1>5. CASE UNCHANGED vars
  BY <1>5 DEF vars, followerSide, history
<1> QED
  BY <1>2, <1>3, <1>4, <1>5 DEF Next

(* Whatever is lost, repeated or reordered between the two servers, and    *)
(* whatever fails in between, a held, rejected or withdrawn follow never   *)
(* turns into an accepted one by itself.                                   *)
THEOREM NoneAcceptedUngranted == Spec => []AcceptedWasGranted
<1>1. Init => GrantInv
  BY DEF Init, GrantInv
<1>2. GrantInv => AcceptedWasGranted
  BY DEF GrantInv, AcceptedWasGranted
<1> QED
  BY <1>1, <1>2, GrantStep, PTL DEF Spec

-----------------------------------------------------------------------------
(* A row names the follow that made it: an Undo of it names one, too.      *)
TypeInv == TypeOK /\ (row # "none" => rowId # 0)

(* Faults are counted up to their bound.                                   *)
LEMMA FaultType ==
  ASSUME NEW is \in BOOLEAN, faults \in 0..MaxFaults, Fault(is)
  PROVE  faults' \in 0..MaxFaults
BY FollowAssumption DEF Fault

(* The follower's requests keep the types.                                 *)
LEMMA RequestsType == TypeInv /\ Requests => TypeInv'
<1> SUFFICES ASSUME TypeInv, Requests PROVE TypeInv'
  OBVIOUS
<1> USE FollowAssumption DEF TypeInv, TypeOK, Id
<1>1. CASE Follow /\ FollowLocal(issued + 1)
  <2>1. issued + 1 \in Id /\ issued' \in 0..MaxFollows
    BY <1>1 DEF Follow
  <2>2. PICK approval \in Approvals \ {"reject"} :
          /\ asking' = asking \cup {[id |-> issued + 1, state |->
               IF approval = "accept" THEN "accepted" ELSE "pending"]}
          /\ Store(approval, issued + 1, ~Barred)
    BY <1>1, Zenon DEF FollowLocal
  <2>3. asking' \subseteq [id : Id, state : {"pending", "accepted"}]
    BY <2>1, <2>2
  <2>4. follower' \in BOOLEAN /\ granted' \in BOOLEAN /\ raced' \in BOOLEAN
    BY <2>2 DEF Store
  <2>5. request' \in 0..MaxFollows
    BY <2>1, <2>2 DEF Store
  <2>6. UNCHANGED mail /\ smooth' \in BOOLEAN
    BY <1>1 DEF FollowLocal, Smoothly
  <2> QED
    BY <1>1, <2>1, <2>3, <2>4, <2>5, <2>6 DEF Follow
<1>2. CASE Follow /\ FollowRemote(issued + 1)
  <2>1. issued + 1 \in Id /\ issued' \in 0..MaxFollows
    BY <1>2 DEF Follow
  <2>2. asking' \subseteq [id : Id, state : {"pending", "accepted"}]
    BY <1>2, <2>1 DEF FollowRemote
  <2>3. mail' \subseteq Activity
    BY <1>2, <2>1 DEF FollowRemote, Message, Activity, Kind
  <2>4. smooth' \in BOOLEAN
    BY <1>2 DEF FollowRemote, Smoothly
  <2> QED
    BY <1>2, <2>1, <2>2, <2>3, <2>4 DEF Follow, FollowRemote
<1>3. CASE Unfollow
  <2>1. rowId \in Id
    BY <1>3 DEF Unfollow
  <2>2. mail' \subseteq Activity
    BY <1>3, <2>1 DEF Unfollow, Message, Activity, Kind
  <2>3. follower' \in BOOLEAN /\ request' \in 0..MaxFollows /\ smooth' \in BOOLEAN
    BY <1>3 DEF Unfollow, Smoothly
  <2> QED
    BY <1>3, <2>2, <2>3 DEF Unfollow
<1>4. CASE CommitUnfollow
  BY <1>4 DEF CommitUnfollow, targetSide, history
<1>5. CASE AbortUnfollow
  <2>1. faults' \in 0..MaxFaults
    BY <1>5, FaultType DEF AbortUnfollow
  <2>2. smooth' \in BOOLEAN
    BY <1>5, Zenon DEF AbortUnfollow
  <2>3. leaving' = 0 /\ 0 \in 0..MaxFollows
    BY <1>5 DEF AbortUnfollow
  <2>4. UNCHANGED <<local, row, rowId, issued, asking, moderation, cutting,
                    follower, request, task, deciding, mail, granted, raced>>
    BY <1>5 DEF AbortUnfollow, targetSide
  <2> QED
    BY <2>1, <2>2, <2>3, <2>4
<1>6. ASSUME NEW a \in asking, CommitFollow(a) PROVE TypeInv'
  <2>1. row' \in {"none", "pending", "accepted"} /\ rowId' \in 0..MaxFollows
    BY <1>6 DEF CommitFollow
  <2>2. row' # "none" => rowId' # 0
    BY <1>6 DEF CommitFollow
  <2>3. smooth' \in BOOLEAN
    BY <1>6 DEF CommitFollow, Smoothly
  <2> QED
    BY <1>6, <2>1, <2>2, <2>3 DEF CommitFollow, targetSide
<1>7. ASSUME NEW a \in asking, AbortFollow(a) PROVE TypeInv'
  <2>1. faults' \in 0..MaxFaults
    BY <1>7, FaultType DEF AbortFollow
  <2> QED
    BY <1>7, <2>1 DEF AbortFollow, targetSide
<1> QED
  BY <1>1, <1>2, <1>3, <1>4, <1>5, <1>6, <1>7 DEF Requests, Follow

(* So do the handlers of incoming activities ...                           *)
LEMMA DeliveriesType == TypeInv /\ Deliveries => TypeInv'
<1> SUFFICES ASSUME TypeInv, Deliveries PROVE TypeInv'
  OBVIOUS
<1> USE FollowAssumption DEF TypeInv, TypeOK, Id
<1>0. \A m \in mail : m.id \in Id
  BY DEF Activity
<1>1. ASSUME NEW m \in mail, DropSuspended(m) PROVE TypeInv'
  BY <1>1 DEF DropSuspended, Smoothly, followerSide, targetSide
<1>2. ASSUME NEW m \in mail, ReadApproval(m) PROVE TypeInv'
  <2>1. task' \in [id : 0..MaxFollows, verdict : Verdict, unbarred : BOOLEAN]
    BY <1>0, <1>2 DEF ReadApproval, Approvals, Verdict, Barred
  <2> QED
    BY <1>2, <2>1 DEF ReadApproval, followerSide, history
<1>3. ASSUME NEW m \in mail, Lose(m) PROVE TypeInv'
  <2>1. task' \in [id : 0..MaxFollows, verdict : Verdict, unbarred : BOOLEAN]
    BY <1>3 DEF Lose, Idle, Verdict
  <2>2. faults' \in 0..MaxFaults
    BY <1>3, FaultType DEF Lose
  <2> QED
    BY <1>3, <2>1, <2>2 DEF Lose, followerSide
<1>4. ASSUME NEW again \in BOOLEAN, ApplyApproval(again) PROVE TypeInv'
  <2>1. PICK m \in mail :
          /\ Fault(again)
          /\ Store(task.verdict, m.id, task.unbarred)
          /\ mail' = Taken(m, again) \cup Answer(m, task.verdict)
          /\ Smoothly(~again /\ InOrder(m) /\ ~raced')
    BY <1>4, Zenon DEF ApplyApproval
  <2>2. task' = Idle /\ UNCHANGED <<local, row, rowId, issued, asking, leaving,
                                    moderation, cutting, deciding>>
    BY <1>4 DEF ApplyApproval, followerSide
  <2>3. Idle \in [id : 0..MaxFollows, verdict : Verdict, unbarred : BOOLEAN]
    BY DEF Idle, Verdict
  <2>4. mail' \subseteq Activity
    BY <1>0, <2>1 DEF Taken, Answer, Message, Activity, Kind
  <2>5. /\ follower' \in BOOLEAN /\ granted' \in BOOLEAN /\ raced' \in BOOLEAN
        /\ smooth' \in BOOLEAN
    BY <2>1 DEF Store, Smoothly
  <2>6. request' \in 0..MaxFollows /\ faults' \in 0..MaxFaults
    BY <1>0, <2>1 DEF Store, Fault
  <2> QED
    BY <2>2, <2>3, <2>4, <2>5, <2>6
<1>5. ASSUME NEW again \in BOOLEAN, NEW m \in mail, HandleUndo(m, again) PROVE TypeInv'
  <2>1. faults' \in 0..MaxFaults
    BY <1>5, FaultType DEF HandleUndo
  <2>2. mail' \subseteq Activity /\ smooth' \in BOOLEAN
    BY <1>5 DEF HandleUndo, Taken, Smoothly
  <2>3. follower' \in BOOLEAN
    BY <1>5, Zenon DEF HandleUndo
  <2>4. request' = 0 /\ 0 \in 0..MaxFollows
    BY <1>5 DEF HandleUndo
  <2>5. UNCHANGED <<local, row, rowId, issued, asking, leaving, moderation,
                    cutting, task, deciding, granted, raced>>
    BY <1>5 DEF HandleUndo, followerSide
  <2> QED
    BY <2>1, <2>2, <2>3, <2>4, <2>5
<1>6. ASSUME NEW again \in BOOLEAN, NEW m \in mail, HandleAnswer(m, again) PROVE TypeInv'
  BY <1>6 DEF HandleAnswer, Fault, Taken, Smoothly, targetSide
<1> QED
  BY <1>1, <1>2, <1>3, <1>4, <1>5, <1>6 DEF Deliveries, HandleOne

(* ... and the decisions of the target and the admins.                     *)
LEMMA DecisionsType == TypeInv /\ Decisions => TypeInv'
<1> SUFFICES ASSUME TypeInv, Decisions PROVE TypeInv'
  OBVIOUS
<1> USE FollowAssumption DEF TypeInv, TypeOK, Id, Bar
<1>1. CASE ReadRequest
  BY <1>1 DEF ReadRequest, followerSide, history
<1>2. CASE Lift
  BY <1>2 DEF Lift, followerSide, history
<1>3. CASE CommitCut
  BY <1>3 DEF CommitCut, history
<1>4. CASE AbortCut
  <2>1. faults' \in 0..MaxFaults
    BY <1>4, FaultType DEF AbortCut
  <2> QED
    BY <1>4, <2>1 DEF AbortCut, followerSide
<1>5. ASSUME NEW accept \in BOOLEAN, NEW fails \in BOOLEAN, Decide(accept, fails)
      PROVE TypeInv'
  <2>1. deciding \in Id
    BY <1>5 DEF Decide
  <2>2. mail' \subseteq Activity
    BY <1>5, <2>1 DEF Decide, Message, Activity, Kind
  <2>3. /\ row' \in {"none", "pending", "accepted"} /\ rowId' \in 0..MaxFollows
        /\ row' # "none" => rowId' # 0
    BY <1>5 DEF Decide
  <2>4. /\ follower' \in BOOLEAN /\ granted' \in BOOLEAN /\ raced' \in BOOLEAN
        /\ smooth' \in BOOLEAN
    BY <1>5 DEF Decide, Smoothly
  <2> QED
    BY <1>5, <2>2, <2>3, <2>4 DEF Decide, Fault
<1>6. ASSUME NEW bar \in Bar, NEW failed \in BOOLEAN, Sever(bar, failed) PROVE TypeInv'
  <2>1. follower' \in BOOLEAN /\ raced' \in BOOLEAN /\ smooth' \in BOOLEAN
    BY <1>6 DEF Sever, Smoothly
  <2> QED
    BY <1>6, <2>1 DEF Sever, Fault, followerSide
<1> QED
  BY <1>1, <1>2, <1>3, <1>4, <1>5, <1>6 DEF Decisions

(* Together, they are all the steps there are.                             *)
LEMMA TypeStep == TypeInv /\ [Next]_vars => TypeInv'
<1>1. TypeInv /\ UNCHANGED vars => TypeInv'
  BY DEF TypeInv, TypeOK, vars, followerSide, targetSide, history
<1> QED
  BY <1>1, RequestsType, DeliveriesType, DecisionsType DEF Next

(* Nobody follows anybody at first.                                        *)
LEMMA InitTypes == Init => TypeInv
<1>1. Idle \in [id : 0..MaxFollows, verdict : Verdict, unbarred : BOOLEAN]
  BY FollowAssumption DEF Idle, Verdict
<1>2. Init => /\ follower \in BOOLEAN /\ granted \in BOOLEAN
              /\ smooth \in BOOLEAN /\ raced \in BOOLEAN
  BY Zenon DEF Init
<1>3. Init => /\ 0 \in 0..MaxFollows /\ 0 \in 0..MaxFaults
              /\ asking \subseteq [id : Id, state : {"pending", "accepted"}]
              /\ mail \subseteq Activity
  BY FollowAssumption DEF Init
<1>4. Init => /\ local \in BOOLEAN /\ row = "none" /\ rowId = 0 /\ issued = 0
              /\ leaving = 0 /\ moderation = "none" /\ cutting = "none"
              /\ request = 0 /\ task = Idle /\ deciding = 0 /\ faults = 0
  BY Zenon DEF Init
<1> QED
  BY <1>1, <1>2, <1>3, <1>4 DEF TypeInv, TypeOK

(* Rows, records, requests under way and activities keep their types: a    *)
(* row is absent, pending or accepted, never a rejected one that is kept,  *)
(* and every Undo and answer names a follow.                               *)
THEOREM TypeCorrect == Spec => []TypeOK
<1>1. TypeInv => TypeOK
  BY DEF TypeInv
<1> QED
  BY <1>1, InitTypes, TypeStep, PTL DEF Spec

-----------------------------------------------------------------------------
(* What a follow leaves with the target's server while no accident happens *)
(* (see SettleInv): the activities of the follower that are on their way,  *)
(* the answers to follow i, and that the server has no record of him.      *)
Forwarded == {m \in mail : m.kind \in Forward}
Answers(i) == {m \in mail : m.kind \in {"Accept", "Reject"} /\ m.id = i}
Unknown == ~follower /\ request = 0

(* The last follow has been withdrawn or rejected: its Undo is on its way, *)
(* or the target's server has forgotten it.                                *)
Withdrawn ==
  \/ Message("Undo", issued) \in mail
  \/ Forwarded = {} /\ Unknown

(* The follow is on its way, behind the Undo of the one before it if that  *)
(* has not been handled.                                                   *)
Sent(i) ==
  /\ Message("Follow", i) \in mail /\ Message("Undo", i) \notin mail
  /\ request # i /\ Answers(i) = {}
  /\ \/ Message("Undo", i - 1) \in mail
     \/ Forwarded = {Message("Follow", i)} /\ Unknown

(* It waits for the owner, has been answered, or has its follower.         *)
Held(i) == Forwarded = {} /\ ~follower /\ request = i /\ Answers(i) = {}
Answered(i) ==
  /\ Forwarded = {} /\ request = 0
  /\ Answers(i) = {Message(IF follower THEN "Accept" ELSE "Reject", i)}
Agreed(i) == Forwarded = {} /\ follower /\ request = 0 /\ Answers(i) = {}

(* One follow at a time, the last, has a request under way or a row.       *)
OneAtATime ==
  /\ row = "none" <=> rowId = 0
  /\ rowId \in {0, issued} /\ leaving \in {0, issued}
  /\ request <= issued
  /\ \A m \in mail : m.id <= issued
  /\ \A a \in asking :
       /\ a.id = issued /\ row = "none" /\ leaving = 0
       /\ asking = {a}

(* Two servers: the activities carry the follow's state from one to the    *)
(* other, in order.                                                        *)
RemoteAgrees ==
  /\ asking # {} \/ (row = "pending" /\ leaving = 0) =>
       Sent(issued) \/ Held(issued) \/ Answered(issued)
  /\ row = "accepted" /\ leaving = 0 => Agreed(issued)
  /\ asking = {} /\ (row = "none" \/ leaving # 0) => Withdrawn
  /\ \A a \in asking : a.state = "pending"

(* One server: the records are as the row, or as the row that is to be     *)
(* committed, except that they are gone before it while an unfollow or a   *)
(* block is under way.                                                     *)
LocalAgrees ==
  /\ Forwarded = {}
  /\ cutting # "none" => asking = {}
  /\ cutting # "none" \/ leaving # 0 \/ (row = "none" /\ asking = {}) => Unknown
  /\ \A a \in asking :
       IF a.state = "pending" THEN Held(a.id) ELSE Agreed(a.id)
  /\ cutting = "none" /\ leaving = 0 =>
       /\ row = "pending" => Held(rowId)
       /\ row = "accepted" => /\ follower /\ request = 0
                              /\ Message("Reject", rowId) \notin mail

Settling ==
  /\ ~raced
  /\ OneAtATime
  /\ IF local THEN LocalAgrees ELSE RemoteAgrees

SettleInv == TypeInv /\ BlockInv /\ (smooth => Settling)

(* An activity is what it says and whom it is about.                       *)
LEMMA Activities ==
  /\ \A k, i : Message(k, i).kind = k /\ Message(k, i).id = i
  /\ \A m \in Activity : m = Message(m.kind, m.id)
BY DEF Message, Activity

(* A follow request is the first of its number: nothing is on its way for  *)
(* it, and what came before has been withdrawn.                            *)
LEMMA FollowSettles ==
  ASSUME TypeInv, Settling, Follow, smooth'
  PROVE  Settling'
<1> USE DEF Settling, TypeInv, TypeOK, Id
<1>1. /\ row = "none" /\ issued' = issued + 1 /\ asking = {} /\ leaving = 0
      /\ UNCHANGED <<local, row, rowId, leaving, moderation, cutting>>
  BY DEF Follow, FollowLocal, FollowRemote, Smoothly
<1>2. rowId = 0 /\ request <= issued /\ \A m \in mail : m.id <= issued
  BY <1>1 DEF OneAtATime
<1>3. Answers(issued + 1) = {}
  BY <1>2, FollowAssumption DEF Answers, Activity
<1>4. CASE FollowLocal(issued + 1)
  <2>1. local /\ cutting = "none" /\ mail' = mail
    BY <1>4 DEF FollowLocal, Smoothly
  <2>2. PICK approval \in Approvals \ {"reject"} :
          /\ asking' = asking \cup {[id |-> issued + 1, state |->
               IF approval = "accept" THEN "accepted" ELSE "pending"]}
          /\ Store(approval, issued + 1, ~Barred)
    BY <1>4, Zenon DEF FollowLocal
  <2>3. approval \in {"accept", "manual"} /\ ~Barred
    BY <2>2 DEF Approvals, Verdict
  <2>4. Unknown /\ Forwarded = {}
    BY <1>1, <2>1 DEF LocalAgrees
  <2>5. ~raced'
    BY <2>1, <2>2, <2>3 DEF Store, StoredAcross
  <2>6. /\ Forwarded' = {} /\ Answers(issued)' = {}
    BY <1>1, <1>3, <2>1, <2>4 DEF Forwarded, Answers
  <2>7. \A a \in asking' :
          /\ a.id = issued' /\ asking' = {a}
          /\ a.state = IF approval = "accept" THEN "accepted" ELSE "pending"
    BY <1>1, <2>2
  <2>8. /\ follower' = (approval = "accept")
        /\ request' = IF approval = "manual" THEN issued' ELSE 0
    BY <1>1, <2>2, <2>3, <2>4 DEF Store, Unknown
  <2>9. OneAtATime'
    BY <1>1, <1>2, <2>1, <2>7, <2>8, FollowAssumption DEF OneAtATime, Activity
  <2>10. LocalAgrees'
    <3>1. ASSUME NEW a \in asking'
          PROVE IF a.state = "pending" THEN Held(a.id)' ELSE Agreed(a.id)'
      <4>1. Answers(a.id)' = {}
        BY <2>6, <2>7
      <4>2. a.state = "pending" => approval = "manual"
        BY <2>3, <2>7
      <4> QED
        BY <2>3, <2>6, <2>7, <2>8, <4>1, <4>2 DEF Held, Agreed
    <3>2. asking' # {} /\ row' = "none" /\ cutting' = "none" /\ leaving' = 0
      BY <1>1, <2>1, <2>2
    <3> QED
      BY <2>6, <3>1, <3>2 DEF LocalAgrees
  <2> QED
    BY <1>1, <2>1, <2>5, <2>9, <2>10
<1>5. CASE FollowRemote(issued + 1)
  <2>1. /\ ~local /\ mail' = mail \cup {Message("Follow", issued')}
        /\ asking' = {[id |-> issued', state |-> "pending"]}
        /\ UNCHANGED <<follower, request, raced>>
    BY <1>1, <1>5 DEF FollowRemote
  <2>2. Withdrawn
    BY <1>1, <2>1 DEF RemoteAgrees
  <2>3. Sent(issued)'
    <3>1. Message("Follow", issued') \in mail' /\ Message("Undo", issued') \notin mail'
      BY <1>1, <1>2, <2>1, Activities, FollowAssumption DEF Activity
    <3>2. request' # issued' /\ Answers(issued)' = {}
      BY <1>1, <1>2, <1>3, <2>1, Activities DEF Answers
    <3>3. \/ Message("Undo", issued' - 1) \in mail'
          \/ Forwarded' = {Message("Follow", issued')} /\ Unknown'
      BY <1>1, <2>1, <2>2, Activities DEF Withdrawn, Forwarded, Forward, Unknown
    <3> QED
      BY <3>1, <3>2, <3>3 DEF Sent
  <2>4. OneAtATime'
    BY <1>1, <1>2, <2>1, Activities, FollowAssumption DEF OneAtATime, Activity
  <2>5. RemoteAgrees'
    <3>1. asking' # {} /\ row' = "none" /\ \A a \in asking' : a.state = "pending"
      BY <1>1, <2>1
    <3> QED
      BY <2>3, <3>1 DEF RemoteAgrees
  <2> QED
    BY <1>1, <2>1, <2>4, <2>5
<1> QED
  BY <1>4, <1>5 DEF Follow

(* The row of the last follow is committed as it was asked for, unless     *)
(* something has come in between.                                          *)
LEMMA CommitFollowSettles ==
  ASSUME TypeInv, Settling, NEW a \in asking, CommitFollow(a), smooth'
  PROVE  Settling'
<1> USE DEF Settling, TypeInv, TypeOK, Id
<1>1. /\ row' = a.state /\ rowId' = a.id
      /\ UNCHANGED <<local, issued, leaving, mail, raced, follower, request, cutting>>
  BY DEF CommitFollow, Smoothly, targetSide
<1>2. a.id = issued /\ asking = {a} /\ row = "none" /\ leaving = 0
  BY DEF OneAtATime
<1>3. asking' = {} /\ a.id # 0 /\ a.state \in {"pending", "accepted"}
  BY <1>2 DEF CommitFollow
<1>4. OneAtATime'
  BY <1>1, <1>2, <1>3 DEF OneAtATime
<1>5. Forwarded' = Forwarded /\ Answers(issued)' = Answers(issued) /\ Unknown' = Unknown
  BY <1>1 DEF Forwarded, Answers, Unknown
<1>6. CASE local
  <2>1. cutting = "none" /\ Forwarded = {}
    BY <1>2, <1>6 DEF LocalAgrees
  <2>2. IF a.state = "pending" THEN Held(issued) ELSE Agreed(issued)
    BY <1>2, <1>6 DEF LocalAgrees
  <2>3. a.state = "pending" => Held(rowId)'
    BY <1>1, <1>2, <1>5, <2>2 DEF Held
  <2>4. a.state = "accepted" => follower /\ request = 0 /\ Message("Reject", issued) \notin mail
    BY <2>2, Activities DEF Agreed, Answers
  <2> QED
    BY <1>1, <1>2, <1>3, <1>4, <1>5, <1>6, <2>1, <2>3, <2>4 DEF LocalAgrees
<1>7. CASE ~local
  <2>1. a.state = "pending" /\ (Sent(issued) \/ Held(issued) \/ Answered(issued))
    BY <1>2, <1>7 DEF RemoteAgrees
  <2>2. Sent(issued)' \/ Held(issued)' \/ Answered(issued)'
    BY <1>1, <1>5, <2>1 DEF Sent, Held, Answered
  <2> QED
    BY <1>1, <1>2, <1>3, <1>4, <1>7, <2>1, <2>2 DEF RemoteAgrees
<1> QED
  BY <1>6, <1>7

(* An unfollow removes what the server knows, or sends the Undo.           *)
LEMMA UnfollowSettles ==
  ASSUME TypeInv, Settling, Unfollow, smooth'
  PROVE  Settling'
<1> USE DEF Settling, TypeInv, TypeOK, Id
<1>1. /\ row # "none" /\ leaving = 0 /\ leaving' = rowId /\ asking = {}
      /\ UNCHANGED <<local, row, rowId, issued, asking, raced, cutting>>
  BY DEF Unfollow, Smoothly
<1>2. rowId = issued /\ issued # 0
  BY <1>1 DEF OneAtATime
<1>3. CASE local
  <2>1. follower' = FALSE /\ request' = 0 /\ mail' = mail
    BY <1>3 DEF Unfollow
  <2>2. OneAtATime'
    BY <1>1, <1>2, <2>1 DEF OneAtATime
  <2>3. Unknown' /\ Forwarded' = {}
    BY <1>3, <2>1 DEF Unknown, Forwarded, LocalAgrees
  <2> QED
    BY <1>1, <1>2, <1>3, <2>2, <2>3 DEF LocalAgrees
<1>4. CASE ~local
  <2>1. mail' = mail \cup {Message("Undo", issued)} /\ UNCHANGED <<follower, request>>
    BY <1>2, <1>4 DEF Unfollow
  <2>2. OneAtATime'
    BY <1>1, <1>2, <2>1, Activities DEF OneAtATime
  <2>3. Withdrawn'
    BY <1>1, <2>1 DEF Withdrawn
  <2> QED
    BY <1>1, <1>2, <1>4, <2>2, <2>3 DEF RemoteAgrees
<1> QED
  BY <1>3, <1>4

(* Then the row goes, if it has not gone already.                          *)
LEMMA CommitUnfollowSettles ==
  ASSUME TypeInv, Settling, CommitUnfollow
  PROVE  Settling'
<1> USE DEF Settling, TypeInv, TypeOK, Id
<1>1. /\ leaving # 0 /\ leaving' = 0
      /\ UNCHANGED <<local, issued, asking, mail, raced, follower, request, cutting>>
  BY DEF CommitUnfollow, history, targetSide
<1>2. leaving = issued /\ asking = {} /\ rowId \in {0, issued}
  BY <1>1 DEF OneAtATime
<1>3. row' = "none" /\ rowId' = 0
  BY <1>1, <1>2 DEF CommitUnfollow, OneAtATime
<1>4. OneAtATime'
  BY <1>1, <1>2, <1>3 DEF OneAtATime
<1>5. Forwarded' = Forwarded /\ Unknown' = Unknown
  BY <1>1 DEF Forwarded, Unknown
<1>6. CASE local
  BY <1>1, <1>2, <1>3, <1>4, <1>5, <1>6 DEF LocalAgrees
<1>7. CASE ~local
  <2>1. Withdrawn'
    BY <1>1, <1>2, <1>5, <1>7 DEF RemoteAgrees, Withdrawn
  <2> QED
    BY <1>1, <1>2, <1>3, <1>4, <1>7, <2>1 DEF RemoteAgrees
<1> QED
  BY <1>6, <1>7

(* When the oldest activity on its way is an Undo, and it has been handled *)
(* or dropped and the server knows nothing of the follower, what is left   *)
(* on its way is about the last follow, or is its Undo.                    *)
LEMMA UndoneSettles ==
  ASSUME TypeInv, Settling, NEW m \in mail, m.kind = "Undo", InOrder(m),
         mail' = mail \ {m}, Unknown',
         UNCHANGED <<local, row, rowId, issued, asking, leaving, raced, cutting>>
  PROVE  Settling'
<1> USE DEF Settling, TypeInv, TypeOK, Id
<1>1. /\ m.kind = "Undo" /\ InOrder(m) /\ mail' = mail \ {m}
      /\ UNCHANGED <<local, row, rowId, issued, asking, leaving, raced, cutting>>
  OBVIOUS
<1>2. Unknown' /\ request' = 0
  BY DEF Unknown
<1>3. m \in Forwarded
  BY <1>1 DEF Forwarded, Forward
<1>4. ~local
  BY <1>3 DEF LocalAgrees
<1>5. OneAtATime'
  BY <1>1, <1>2, FollowAssumption DEF OneAtATime
<1>6. \A i : Answers(i)' = Answers(i)
  BY <1>1 DEF Answers
<1>7. m = Message("Undo", m.id) /\ Forwarded # {}
  BY <1>1, <1>3, Activities
<1>8. ASSUME Sent(issued) PROVE Sent(issued)'
  <2>1. Message("Follow", issued) \in mail' /\ Message("Undo", issued) \notin mail'
    BY <1>1, <1>8, Activities DEF Sent
  <2>2. CASE m.id # issued - 1
    <3>1. Message("Undo", issued - 1) \in mail'
      BY <1>1, <1>3, <1>8, <2>2, Activities DEF Sent
    <3>2. issued # 0
      BY <1>8, Activities DEF Sent, Activity
    <3> QED
      BY <1>1, <1>2, <1>6, <1>8, <2>1, <3>1, <3>2 DEF Sent
  <2>3. CASE m.id = issued - 1
    <3>1. ASSUME NEW n \in mail, n.kind \in Forward, n # m
          PROVE n = Message("Follow", issued)
      <4>1. n.id > m.id \/ (n.id = m.id /\ n.kind # "Follow")
        BY <1>1, <3>1 DEF InOrder, Forward, Activity
      <4>2. n.id <= issued /\ n.kind \in {"Follow", "Undo"} /\ n.id \in Nat /\ m.id \in Nat
        BY <3>1 DEF OneAtATime, Forward, Activity
      <4>3. n = Message(n.kind, n.id)
        BY Activities
      <4>4. n.id # m.id
        BY <1>1, <1>7, <3>1, <4>1, <4>2, <4>3
      <4> QED
        BY <1>8, <2>3, <4>1, <4>2, <4>3, <4>4 DEF Sent
    <3>2. Forwarded' = {Message("Follow", issued)}
      BY <1>1, <2>1, <3>1, Activities DEF Forwarded, Forward
    <3> QED
      BY <1>1, <1>2, <1>6, <1>8, <2>1, <2>3, <3>2, Activities DEF Sent, Activity
  <2> QED
    BY <2>2, <2>3
<1>9. ASSUME Withdrawn PROVE Withdrawn'
  <2>1. CASE m.id # issued
    BY <1>1, <1>3, <1>9, <2>1, Activities DEF Withdrawn
  <2>2. CASE m.id = issued
    <3>1. ASSUME NEW n \in mail, n.kind \in Forward
          PROVE n = m
      <4>1. n.id <= issued /\ n.kind \in {"Follow", "Undo"} /\ n.id \in Nat
        BY <3>1 DEF OneAtATime, Forward, Activity
      <4>2. n.id = m.id /\ n.kind = "Undo"
        BY <1>1, <2>2, <3>1, <4>1 DEF InOrder, Forward, Activity
      <4> QED
        BY <1>7, <4>2, Activities
    <3>2. Forwarded' = {}
      BY <1>1, <3>1 DEF Forwarded
    <3> QED
      BY <1>2, <3>2 DEF Withdrawn
  <2> QED
    BY <2>1, <2>2
<1>10. RemoteAgrees'
  BY <1>1, <1>4, <1>7, <1>8, <1>9 DEF RemoteAgrees, Held, Answered, Agreed
<1> QED
  BY <1>1, <1>4, <1>5, <1>10

(* The Follow of the last follow is answered or held, and finds no record  *)
(* of an earlier one; any other is about to be undone.                     *)
LEMMA ApplySettles ==
  ASSUME TypeInv, Settling, NEW again \in BOOLEAN, ApplyApproval(again), smooth'
  PROVE  Settling'
<1> USE DEF Settling, TypeInv, TypeOK, Id
<1>1. PICK m \in mail :
        /\ m = Message("Follow", task.id) /\ InOrder(m) /\ ~again /\ ~raced'
        /\ Store(task.verdict, m.id, task.unbarred)
        /\ mail' = (mail \ {m}) \cup Answer(m, task.verdict)
  BY Zenon DEF ApplyApproval, Smoothly, Taken
<1>2. UNCHANGED <<local, row, rowId, issued, asking, leaving, cutting>>
  BY DEF ApplyApproval, followerSide
<1>3. m.kind = "Follow" /\ m.id \in Id /\ m.id <= issued /\ m = Message("Follow", m.id)
  BY <1>1, Activities DEF OneAtATime, Activity
<1>4. ~local
  BY <1>1, <1>3 DEF LocalAgrees, Forwarded, Forward
<1>5. \A n \in mail' :
        n \in mail \/ n = Message("Accept", m.id) \/ n = Message("Reject", m.id)
  BY <1>1 DEF Answer
<1>6. OneAtATime'
  <2>1. request' <= issued
    BY <1>1, <1>3 DEF Store, OneAtATime
  <2>2. \A n \in mail' : n.id <= issued
    BY <1>3, <1>5, Activities DEF OneAtATime
  <2> QED
    BY <1>2, <2>1, <2>2 DEF OneAtATime
<1>7. ASSUME Withdrawn PROVE Withdrawn'
  BY <1>1, <1>2, <1>3, <1>7, Activities DEF Withdrawn, Forwarded, Forward
<1>8. ASSUME Sent(issued) PROVE Sent(issued)' \/ Held(issued)' \/ Answered(issued)'
  <2>1. CASE m.id # issued
    <3>1. Message("Undo", issued - 1) \in mail
      BY <1>3, <1>8, <2>1, Activities DEF Sent, Forwarded, Forward
    <3>2. Message("Undo", issued - 1) \in mail'
      BY <1>1, <1>3, <3>1, Activities
    <3>3. Message("Follow", issued) \in mail' /\ Message("Undo", issued) \notin mail'
      BY <1>1, <1>3, <1>5, <1>8, <2>1, Activities DEF Sent
    <3>4. request' # issued
      BY <1>1, <1>8, <2>1 DEF Store, Sent
    <3>5. Answers(issued)' = {}
      BY <1>2, <1>5, <1>8, <2>1, Activities DEF Sent, Answers
    <3> QED
      BY <1>2, <3>2, <3>3, <3>4, <3>5 DEF Sent
  <2>2. CASE m.id = issued
    <3>1. Message("Undo", issued - 1) \notin mail
      BY <1>1, <1>3, <2>2, Activities DEF InOrder, Forward
    <3>2. Forwarded = {m} /\ Unknown /\ Answers(issued) = {}
      BY <1>3, <1>8, <2>2, <3>1 DEF Sent
    <3>3. Forwarded' = {}
      <4>1. m \notin mail'
        BY <1>1, <1>3, Activities DEF Answer
      <4>2. ASSUME NEW n \in mail', n.kind \in Forward PROVE FALSE
        BY <1>5, <3>2, <4>1, <4>2, Activities DEF Forwarded, Forward
      <4> QED
        BY <4>2 DEF Forwarded
    <3>4. /\ follower' = (task.verdict = "accept")
          /\ request' = IF task.verdict = "manual" THEN issued ELSE 0
      BY <1>1, <2>2, <3>2 DEF Store, Unknown
    <3>5. Answers(issued)' = Answer(m, task.verdict)
      BY <1>1, <1>2, <1>3, <2>2, <3>2, Activities DEF Answers, Answer
    <3>6. CASE task.verdict = "manual"
      BY <1>2, <3>3, <3>4, <3>5, <3>6 DEF Held, Answer
    <3>7. CASE task.verdict \in {"accept", "reject"}
      BY <1>2, <2>2, <3>3, <3>4, <3>5, <3>7 DEF Answered, Answer
    <3> QED
      BY <3>6, <3>7 DEF Verdict
  <2> QED
    BY <2>1, <2>2
<1>9. Forwarded # {}
  BY <1>3 DEF Forwarded, Forward
<1>10. RemoteAgrees'
  BY <1>2, <1>4, <1>7, <1>8, <1>9 DEF RemoteAgrees, Held, Answered, Agreed
<1> QED
  BY <1>1, <1>2, <1>4, <1>6, <1>10

(* An answer finds the row it answers, or none that waits for it.          *)
LEMMA AnswerSettles ==
  ASSUME TypeInv, Settling, NEW again \in BOOLEAN, NEW m \in mail,
         HandleAnswer(m, again), smooth'
  PROVE  Settling'
<1> USE DEF Settling, TypeInv, TypeOK, Id
<1>1. /\ mail' = mail \ {m} /\ m.kind \in {"Accept", "Reject"}
      /\ row # "none" => m.id = rowId
      /\ \A a \in asking : a.id # m.id
      /\ UNCHANGED <<local, issued, asking, leaving, raced, cutting, follower, request>>
  BY DEF HandleAnswer, Taken, Smoothly, targetSide
<1>2. Forwarded' = Forwarded /\ Unknown' = Unknown
  BY <1>1 DEF Forwarded, Forward, Unknown
<1>3. m = Message(m.kind, m.id) /\ (row = "none" <=> rowId = 0)
  BY Activities DEF OneAtATime
<1>4. \/ row = "none" /\ UNCHANGED <<row, rowId>>
      \/ row # "none" /\ m.kind = "Accept" /\ row' = "accepted" /\ rowId' = rowId
      \/ row # "none" /\ m.kind = "Reject" /\ row' = "none" /\ rowId' = 0
  BY <1>1 DEF HandleAnswer
<1>5. OneAtATime'
  BY <1>1, <1>3, <1>4 DEF OneAtATime
<1>6. ASSUME NEW i, m.id # i PROVE Answers(i)' = Answers(i)
  BY <1>1, <1>6 DEF Answers
<1>7. row # "none" => m \in Answers(rowId)
  BY <1>1 DEF Answers
<1>8. CASE local
  <2>1. ASSUME NEW a \in asking, a.state = "pending", Held(a.id) PROVE Held(a.id)'
    BY <1>1, <1>2, <1>6, <2>1 DEF Held
  <2>2. ASSUME NEW a \in asking, Agreed(a.id) PROVE Agreed(a.id)'
    BY <1>1, <1>2, <1>6, <2>2 DEF Agreed
  <2>3. ASSUME cutting = "none", leaving = 0, row # "none"
        PROVE  /\ row' = "accepted" /\ follower /\ request = 0
               /\ Message("Reject", rowId) \notin mail /\ rowId' = rowId
    BY <1>1, <1>3, <1>4, <1>7, <1>8, <2>3 DEF LocalAgrees, Held
  <2>4. asking # {} => row = "none"
    BY DEF OneAtATime
  <2> QED
    BY <1>1, <1>2, <1>4, <1>5, <1>8, <2>1, <2>2, <2>3, <2>4 DEF LocalAgrees
<1>9. CASE ~local
  <2>1. ASSUME Withdrawn PROVE Withdrawn'
    BY <1>1, <1>2, <2>1, Activities DEF Withdrawn
  <2>2. CASE asking # {}
    <3>1. row = "none" /\ m.id # issued
      BY <1>1, <2>2 DEF OneAtATime
    <3>2. Sent(issued) \/ Held(issued) \/ Answered(issued)
      BY <1>9, <2>2 DEF RemoteAgrees
    <3>3. Answers(issued)' = Answers(issued)
      BY <1>1, <1>6, <3>1
    <3>4. Sent(issued)' \/ Held(issued)' \/ Answered(issued)'
      BY <1>1, <1>2, <3>2, <3>3, Activities DEF Sent, Held, Answered
    <3> QED
      BY <1>1, <1>4, <1>5, <1>9, <2>2, <3>1, <3>4 DEF RemoteAgrees
  <2>3. CASE asking = {} /\ (row = "none" \/ leaving # 0)
    BY <1>1, <1>4, <1>5, <1>9, <2>1, <2>3 DEF RemoteAgrees
  <2>4. CASE asking = {} /\ row # "none" /\ leaving = 0
    <3>1. rowId = issued /\ m \in Answers(issued)
      BY <1>3, <1>7, <2>4 DEF OneAtATime
    <3>2. Answered(issued)
      BY <1>9, <2>4, <3>1 DEF RemoteAgrees, Sent, Held, Agreed
    <3>3. /\ Forwarded = {} /\ request = 0 /\ Answers(issued)' = {}
          /\ m.kind = IF follower THEN "Accept" ELSE "Reject"
      BY <1>1, <3>1, <3>2, Activities DEF Answered, Answers
    <3>4. IF follower THEN Agreed(issued)' /\ row' = "accepted"
                      ELSE Withdrawn' /\ row' = "none"
      BY <1>1, <1>2, <1>4, <2>4, <3>3 DEF Agreed, Withdrawn, Unknown
    <3> QED
      BY <1>1, <1>5, <1>9, <2>4, <3>4 DEF RemoteAgrees
  <2> QED
    BY <2>2, <2>3, <2>4
<1> QED
  BY <1>8, <1>9

(* The owner decides the request that the last follow has left, once.      *)
LEMMA DecideSettles ==
  ASSUME TypeInv, Settling, NEW accept \in BOOLEAN, NEW fails \in BOOLEAN,
         Decide(accept, fails), smooth'
  PROVE  Settling'
<1> USE DEF Settling, TypeInv, TypeOK, Id
<1>1. /\ deciding # 0 /\ request = deciding /\ request' = 0 /\ ~raced'
      /\ follower' = (follower \/ accept)
      /\ mail' = mail \cup {Message(IF accept THEN "Accept" ELSE "Reject", request)}
      /\ local => ~fails /\ rowId = request
      /\ UNCHANGED <<local, issued, asking, leaving, cutting>>
  BY DEF Decide, Smoothly
<1>2. Forwarded' = Forwarded
  BY <1>1, Activities DEF Forwarded, Forward
<1>3. request \in Id /\ request <= issued /\ (row = "none" <=> rowId = 0)
  BY <1>1 DEF OneAtATime
<1>4. \A n \in mail' : n.id <= issued
  BY <1>1, <1>3, Activities DEF OneAtATime
<1>5. CASE local
  <2>1. row # "none" /\ asking = {} /\ rowId = request /\ request # 0
    BY <1>1, <1>3, <1>5 DEF OneAtATime
  <2>2. cutting = "none" /\ leaving = 0
    BY <1>5, <2>1 DEF LocalAgrees, Unknown
  <2>3. row = "pending" /\ Held(rowId)
    BY <1>5, <2>1, <2>2 DEF LocalAgrees
  <2>4. IF accept THEN row' = "accepted" /\ rowId' = rowId
                  ELSE row' = "none" /\ rowId' = 0
    BY <1>1, <1>5, <2>1 DEF Decide
  <2>5. OneAtATime'
    BY <1>1, <1>4, <2>1, <2>4 DEF OneAtATime
  <2>6. accept => Message("Reject", rowId) \notin mail'
    BY <1>1, <2>3, Activities DEF Held, Answers
  <2>7. follower' = accept
    BY <1>1, <2>3 DEF Held
  <2> QED
    BY <1>1, <1>2, <1>5, <2>1, <2>2, <2>3, <2>4, <2>5, <2>6, <2>7
       DEF LocalAgrees, Held, Unknown
<1>6. CASE ~local
  <2>1. UNCHANGED <<row, rowId>>
    BY <1>6 DEF Decide
  <2>2. OneAtATime'
    BY <1>1, <1>3, <1>4, <2>1 DEF OneAtATime
  <2>3. ASSUME Withdrawn PROVE Withdrawn'
    BY <1>1, <1>3, <2>3 DEF Withdrawn, Unknown
  <2>4. ASSUME Sent(issued) PROVE Sent(issued)'
    <3>1. Message("Undo", issued - 1) \in mail' /\ Message("Follow", issued) \in mail'
      BY <1>1, <1>3, <2>4 DEF Sent, Unknown
    <3>2. Message("Undo", issued) \notin mail' /\ Answers(issued)' = {} /\ request' # issued
      BY <1>1, <1>3, <2>4, Activities DEF Sent, Answers
    <3> QED
      BY <1>1, <3>1, <3>2 DEF Sent
  <2>5. ASSUME Held(issued) PROVE Answered(issued)'
    BY <1>1, <1>2, <2>5, Activities DEF Held, Answered, Answers
  <2>6. ~Answered(issued) /\ ~Agreed(issued)
    BY <1>1 DEF Answered, Agreed
  <2> QED
    BY <1>1, <1>6, <2>1, <2>2, <2>3, <2>4, <2>5, <2>6 DEF RemoteAgrees
<1> QED
  BY <1>5, <1>6

(* A block cuts a local follow and its row, and finds nothing of a remote  *)
(* follower, who is not told.                                              *)
LEMMA SeverSettles ==
  ASSUME TypeInv, Settling, NEW bar \in Bar, NEW failed \in BOOLEAN,
         Sever(bar, failed), smooth'
  PROVE  Settling'
<1> USE DEF Settling, TypeInv, TypeOK, Id
<1>1. /\ ~failed /\ cutting' = bar /\ bar # "none"
      /\ local => asking = {}
      /\ ~local => Unknown
      /\ UNCHANGED <<local, row, rowId, issued, asking, leaving, mail>>
  BY DEF Sever, Smoothly, followerSide, Unknown, Bar
<1>2. follower' = FALSE /\ request' = 0 /\ raced' = raced
  BY <1>1 DEF Sever
<1>3. Unknown' /\ Forwarded' = Forwarded /\ \A i : Answers(i)' = Answers(i)
  BY <1>1, <1>2 DEF Unknown, Forwarded, Answers
<1>4. OneAtATime'
  BY <1>1, <1>2 DEF OneAtATime
<1>5. CASE local
  BY <1>1, <1>2, <1>3, <1>4, <1>5 DEF LocalAgrees
<1>6. CASE ~local
  <2>1. UNCHANGED <<follower, request>>
    BY <1>1, <1>2, <1>6 DEF Unknown
  <2> QED
    BY <1>1, <1>2, <1>3, <1>4, <1>6, <2>1
       DEF RemoteAgrees, Withdrawn, Sent, Held, Answered, Agreed
<1> QED
  BY <1>5, <1>6

(* Then the block commits, and with it goes the row of a local follower.   *)
LEMMA CommitCutSettles ==
  ASSUME TypeInv, Settling, CommitCut
  PROVE  Settling'
<1> USE DEF Settling, TypeInv, TypeOK, Id
<1>1. /\ cutting # "none" /\ cutting' = "none"
      /\ UNCHANGED <<local, issued, asking, leaving, mail, raced, follower, request>>
  BY DEF CommitCut, history
<1>2. Unknown' = Unknown /\ Forwarded' = Forwarded /\ \A i : Answers(i)' = Answers(i)
  BY <1>1 DEF Unknown, Forwarded, Answers
<1>3. CASE local
  <2>1. Unknown /\ asking = {} /\ row' = "none" /\ rowId' = 0
    BY <1>1, <1>3 DEF LocalAgrees, CommitCut
  <2>2. OneAtATime'
    BY <1>1, <2>1 DEF OneAtATime
  <2> QED
    BY <1>1, <1>2, <1>3, <2>1, <2>2 DEF LocalAgrees
<1>4. CASE ~local
  <2>1. UNCHANGED <<row, rowId>>
    BY <1>4 DEF CommitCut
  <2>2. OneAtATime'
    BY <1>1, <2>1 DEF OneAtATime
  <2> QED
    BY <1>1, <1>2, <1>4, <2>1, <2>2
       DEF RemoteAgrees, Withdrawn, Sent, Held, Answered, Agreed
<1> QED
  BY <1>3, <1>4

(* Steps that only read, and the lifting of a block.                       *)
LEMMA SettledKept ==
  ASSUME Settling, UNCHANGED <<local, row, rowId, issued, asking, leaving, cutting,
                               follower, request, mail, raced>>
  PROVE  Settling'
BY DEF Settling, OneAtATime, LocalAgrees, RemoteAgrees, Withdrawn, Sent, Held,
       Answered, Agreed, Forwarded, Answers, Unknown

(* Every step that is not an accident keeps the two sides in one of the    *)
(* states that lead to agreement.                                          *)
LEMMA SettleStep == SettleInv /\ [Next]_vars => SettleInv'
<1> SUFFICES ASSUME SettleInv, [Next]_vars, smooth' PROVE Settling'
  BY TypeStep, BlockStep DEF SettleInv
<1> USE DEF SettleInv
<1>1. CASE Requests
  <2>1. CASE Follow
    BY <2>1, FollowSettles DEF Follow, FollowLocal, FollowRemote, Smoothly
  <2>2. CASE Unfollow
    BY <2>2, UnfollowSettles DEF Unfollow, Smoothly
  <2>3. CASE CommitUnfollow
    BY <2>3, CommitUnfollowSettles DEF CommitUnfollow, history
  <2>4. ASSUME NEW a \in asking, CommitFollow(a) PROVE Settling'
    BY <2>4, CommitFollowSettles DEF CommitFollow, Smoothly
  <2>5. ~AbortUnfollow /\ \A a \in asking : ~AbortFollow(a)
    BY DEF AbortUnfollow, AbortFollow
  <2> QED
    BY <1>1, <2>1, <2>2, <2>3, <2>4, <2>5 DEF Requests
<1>2. CASE Deliveries
  <2>1. ASSUME NEW m \in mail, DropSuspended(m) PROVE Settling'
    <3>1. /\ m.kind = "Undo" /\ InOrder(m) /\ mail' = mail \ {m} /\ smooth
          /\ Barred /\ UNCHANGED <<local, row, rowId, issued, asking, leaving, raced,
                                   follower, request, cutting>>
      BY <2>1 DEF DropSuspended, Smoothly, followerSide, targetSide, Barred, Bar
    <3>2. Unknown'
      BY <3>1 DEF BlockInv, StoredAcross, Settling, Unknown
    <3> QED
      BY <3>1, <3>2, UndoneSettles
  <2>2. ASSUME NEW m \in mail, ReadApproval(m) PROVE Settling'
    BY <2>2, SettledKept DEF ReadApproval, followerSide, history
  <2>3. ASSUME NEW m \in mail, Lose(m) PROVE FALSE
    BY <2>3 DEF Lose
  <2>4. ASSUME NEW again \in BOOLEAN, ApplyApproval(again) PROVE Settling'
    BY <2>4, ApplySettles DEF ApplyApproval, Smoothly
  <2>5. ASSUME NEW again \in BOOLEAN, NEW m \in mail, HandleUndo(m, again)
        PROVE Settling'
    <3>1. /\ m.kind = "Undo" /\ InOrder(m) /\ mail' = mail \ {m} /\ smooth
          /\ UNCHANGED <<local, row, rowId, issued, asking, leaving, raced, cutting>>
      BY <2>5 DEF HandleUndo, Smoothly, Taken, followerSide
    <3>2. Unknown'
      BY <2>5 DEF HandleUndo, Unknown
    <3> QED
      BY <3>1, <3>2, UndoneSettles
  <2>6. ASSUME NEW again \in BOOLEAN, NEW m \in mail, HandleAnswer(m, again)
        PROVE Settling'
    BY <2>6, AnswerSettles DEF HandleAnswer, Smoothly
  <2> QED
    BY <1>2, <2>1, <2>2, <2>3, <2>4, <2>5, <2>6 DEF Deliveries, HandleOne
<1>3. CASE Decisions
  <2>1. CASE ReadRequest
    BY <2>1, SettledKept DEF ReadRequest, followerSide, history
  <2>2. CASE Lift
    BY <2>2, SettledKept DEF Lift, followerSide, history
  <2>3. CASE CommitCut
    BY <2>3, CommitCutSettles DEF CommitCut, history
  <2>4. ~AbortCut
    BY DEF AbortCut
  <2>5. ASSUME NEW accept \in BOOLEAN, NEW fails \in BOOLEAN, Decide(accept, fails)
        PROVE Settling'
    BY <2>5, DecideSettles DEF Decide, Smoothly
  <2>6. ASSUME NEW bar \in Bar, NEW failed \in BOOLEAN, Sever(bar, failed)
        PROVE Settling'
    BY <2>6, SeverSettles DEF Sever, Smoothly
  <2> QED
    BY <1>3, <2>1, <2>2, <2>3, <2>4, <2>5, <2>6 DEF Decisions
<1>4. CASE UNCHANGED vars
  BY <1>4, SettledKept DEF vars, followerSide, targetSide, history
<1> QED
  BY <1>1, <1>2, <1>3, <1>4 DEF Next

(* Whatever the order in which requests, deliveries, decisions and blocks  *)
(* come, if none of the accidents that the history names has happened, the *)
(* two sides agree once all that is under way has ended.                   *)
THEOREM SidesAgree == Spec => []Settled
<1>1. Init => SettleInv
  <2>1. Init => Settling
    <3> SUFFICES ASSUME Init PROVE Settling
      OBVIOUS
    <3>1. Forwarded = {} /\ Unknown
      BY DEF Init, Forwarded, Unknown
    <3>2. OneAtATime
      BY DEF Init, OneAtATime
    <3>3. LocalAgrees /\ RemoteAgrees
      BY <3>1 DEF Init, LocalAgrees, RemoteAgrees, Withdrawn
    <3> QED
      BY <3>2, <3>3 DEF Init, Settling
  <2> QED
    BY <2>1, InitTypes, InitBlocks DEF SettleInv
<1>2. SettleInv => Settled
  <2> SUFFICES ASSUME SettleInv, Quiet, smooth
               PROVE  (row = "accepted" <=> follower) /\ (row = "pending" <=> request # 0)
    BY DEF Settled
  <2>1. /\ TypeInv /\ Settling /\ mail = {} /\ asking = {} /\ leaving = 0
        /\ cutting = "none" /\ issued \in Nat
    BY DEF SettleInv, Quiet, TypeInv, TypeOK
  <2>2. row \in {"none", "pending", "accepted"} /\ (row = "none" <=> rowId = 0)
    BY <2>1 DEF TypeInv, TypeOK, Settling, OneAtATime
  <2>3. rowId \in {0, issued}
    BY <2>1 DEF Settling, OneAtATime
  <2>4. CASE local
    BY <2>1, <2>2, <2>4 DEF Settling, LocalAgrees, Held, Unknown
  <2>5. CASE ~local
    <3>1. ~Sent(issued) /\ ~Answered(issued)
      BY <2>1 DEF Sent, Answered, Answers
    <3>2. Withdrawn => Unknown
      BY <2>1 DEF Withdrawn
    <3> QED
      BY <2>1, <2>2, <2>3, <2>5, <3>1, <3>2
         DEF Settling, RemoteAgrees, Held, Agreed, Unknown
  <2> QED
    BY <2>4, <2>5
<1> QED
  BY <1>1, <1>2, SettleStep, PTL DEF Spec

=============================================================================
