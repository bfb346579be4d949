--------------------------- MODULE MembershipProofs ---------------------------
(***************************************************************************)
(* Proofs about Membership, for any number of subscriptions, periods and   *)
(* faults: the types, and that nothing lets a suspended user in.           *)
(***************************************************************************)
EXTENDS Membership, TLAPS

Subscription == [status : SubStatus, period : Period, ending : BOOLEAN]

-----------------------------------------------------------------------------
(* What a transaction writes to the user: the columns it has changed.      *)
LEMMA ChangedUser ==
  ASSUME NEW u \in Users, NEW read \in Users, NEW new \in Users
  PROVE  /\ Changed(u, read, new) \in Users
         /\ Changed(u, read, new).active => u.active \/ new.active
         /\ new = read => Changed(u, read, new) = u
BY DEF Changed, Users

(* What a transaction writes to the row.                                   *)
LEMMA ChangedRow ==
  ASSUME NEW r \in Rows, NEW read \in Rows, NEW new \in Rows
  PROVE  Changed(r, read, new) \in Rows
BY DEF Changed, Rows

(* sync_user_active_flag writes the flag alone, and lets no suspended user *)
(* in.                                                                     *)
LEMMA SyncedUser ==
  ASSUME NEW u \in Users, NEW paid \in Period
  PROVE  /\ Synced(u, paid) \in Users
         /\ Synced(u, paid).suspended = u.suspended
         /\ u.suspended => ~Synced(u, paid).active
BY DEF Synced, Effective, Users

(* A handler makes a row of a row.                                         *)
LEMMA HandledRow ==
  ASSUME NEW r \in Rows, NEW e \in Event
  PROVE  Handled(r, e) \in Rows
BY DEF Handled, Completed, Paid, Updated, Rows, Event, EventType, RowStatus, Max

(* A period that has begun, and the one a charge pays for.                 *)
LEMMA PeriodType ==
  TypeOK => /\ now \in Nat /\ 0 \in Period /\ now + 1 \in Period
            /\ (now < MaxTime => now + 1 \in 0..MaxTime)
BY MembershipAssumption DEF TypeOK, Period

(* What an event carries.                                                  *)
LEMMA EventTypes ==
  ASSUME NEW type \in EventType, NEW s \in Sub, NEW p \in Period
  PROVE  EventOf(type, s, p) \in Event
BY DEF EventOf, Event

-----------------------------------------------------------------------------
(* The row of a subscription that has been ended.                          *)
LEMMA OverType == TypeOK => OverRow \in Rows /\ OverRow.paid \in Period
BY PeriodType DEF TypeOK, OverRow, Rows, RowStatus

(* What ending a subscription, or failing to, does at the provider.        *)
LEMMA EndTypes ==
  ASSUME TypeOK, NEW s \in Sub, EndNow(s) \/ Refuses(s)
  PROVE  /\ sub' \in [Sub -> Subscription] /\ inbox' \subseteq Event
         /\ faults' \in 0..MaxFaults
<1>1. faults' \in 0..MaxFaults
  BY MembershipAssumption DEF EndNow, Refuses, Fault, TypeOK
<1>2. sub' \in [Sub -> Subscription]
  BY DEF EndNow, Refuses, Canceled, TypeOK, Subscription, SubStatus
<1>3. inbox' \subseteq Event
  BY PeriodType, EventTypes DEF EndNow, Refuses, Deleted, EventType, TypeOK
<1> QED
  BY <1>1, <1>2, <1>3

(* Cancelling the row's subscription, now or by a task, or leaving it.     *)
LEMMA BillingTypes ==
  ASSUME TypeOK, UNCHANGED <<now, job>>, user' \in Users, unsure' \in BOOLEAN,
         \/ UNCHANGED <<sub, row, inbox, cancels, faults>>
         \/ row.sub # 0 /\ EndNow(row.sub) /\ row' = OverRow /\ UNCHANGED cancels
         \/ /\ row.sub # 0 /\ Refuses(row.sub) /\ cancels' = cancels \cup {row.sub}
            /\ UNCHANGED row
  PROVE  TypeOK'
<1>1. row.sub # 0 => row.sub \in Sub
  BY DEF TypeOK, Rows
<1>2. row' \in Rows /\ cancels' \subseteq Sub
  BY <1>1, OverType DEF TypeOK
<1>3. /\ sub' \in [Sub -> Subscription] /\ inbox' \subseteq Event
      /\ faults' \in 0..MaxFaults
  <2>1. CASE UNCHANGED <<sub, inbox, faults>>
    BY <2>1 DEF TypeOK, Subscription
  <2>2. CASE row.sub # 0 /\ (EndNow(row.sub) \/ Refuses(row.sub))
    BY <1>1, <2>2, EndTypes
  <2> QED
    BY <2>1, <2>2
<1>4. now' \in 0..MaxTime /\ job' \in Jobs
  BY DEF TypeOK
<1> QED
  BY <1>2, <1>3, <1>4, Zenon DEF TypeOK, Subscription

(* The account as it is created.                                           *)
LEMMA InitTypes == Init => TypeOK
<1> SUFFICES ASSUME Init PROVE TypeOK
  OBVIOUS
<1>1. now \in 0..MaxTime /\ faults \in 0..MaxFaults /\ 0 \in Period
  BY MembershipAssumption DEF Init, Period
<1>2. user \in Users
  BY DEF Init, Users
<1>3. row \in Rows
  BY <1>1 DEF Init, Rows, RowStatus
<1>4. sub \in [Sub -> Subscription]
  BY <1>1 DEF Init, Subscription, SubStatus
<1>5. inbox \subseteq Event /\ cancels \subseteq Sub /\ job \in Jobs /\ unsure \in BOOLEAN
  BY DEF Init, Jobs
<1> QED
  BY <1>1, <1>2, <1>3, <1>4, <1>5, Zenon DEF TypeOK, Subscription

(* The provider's steps leave the account alone.                           *)
LEMMA ProviderTypes == TypeOK /\ Provider => TypeOK'
<1> SUFFICES ASSUME TypeOK, Provider PROVE TypeOK'
  OBVIOUS
<1>1. CASE Tick
  BY <1>1, PeriodType DEF Tick, TypeOK
<1>2. ASSUME UNCHANGED <<user, row, now, cancels, job, faults>>,
             sub' \in [Sub -> Subscription], inbox' \subseteq Event,
             unsure' \in BOOLEAN
      PROVE TypeOK'
  BY <1>2, Zenon DEF TypeOK, Subscription
<1>3. sub \in [Sub -> Subscription] /\ inbox \subseteq Event /\ unsure \in BOOLEAN
  BY DEF TypeOK, Subscription
<1>4. ASSUME NEW s \in Sub, NEW x \in Subscription
      PROVE  [sub EXCEPT ![s] = x] \in [Sub -> Subscription]
  BY <1>3
<1>5. ASSUME NEW s \in Sub, Subscribe(s) PROVE TypeOK'
  <2>1. sub' \in [Sub -> Subscription]
    BY <1>3, <1>5, PeriodType DEF Subscribe, Subscription, SubStatus
  <2>2. inbox' \subseteq Event
    BY <1>3, <1>5, PeriodType, EventTypes DEF Subscribe, EventType
  <2>3. unsure' \in BOOLEAN
    BY <1>5 DEF Subscribe
  <2> QED
    BY <1>2, <1>5, <2>1, <2>2, <2>3 DEF Subscribe
<1>6. ASSUME NEW s \in Sub, Lapse(s) PROVE TypeOK'
  <2>1. sub' \in [Sub -> Subscription]
    BY <1>3, <1>6 DEF Lapse, Canceled, Subscription, SubStatus
  <2>2. inbox' \subseteq Event
    BY <1>3, <1>6, PeriodType, EventTypes DEF Lapse, Deleted, EventType
  <2> QED
    BY <1>2, <1>3, <1>6, <2>1, <2>2 DEF Lapse
<1>7. ASSUME NEW s \in Sub, NEW charged \in BOOLEAN, Renew(s, charged) PROVE TypeOK'
  <2>1. sub' \in [Sub -> Subscription]
    BY <1>3, <1>7, PeriodType DEF Renew, Subscription, SubStatus
  <2>2. inbox' \subseteq Event
    BY <1>3, <1>7, PeriodType, EventTypes DEF Renew, EventType
  <2> QED
    BY <1>2, <1>3, <1>7, <2>1, <2>2 DEF Renew
<1> QED
  BY <1>1, <1>5, <1>6, <1>7 DEF Provider

(* A task's job and what it commits.                                       *)
LEMMA TaskTypes == TypeOK /\ Tasks => TypeOK'
<1> SUFFICES ASSUME TypeOK, Tasks PROVE TypeOK'
  OBVIOUS
<1>0. /\ user \in Users /\ row \in Rows /\ inbox \subseteq Event /\ job \in Jobs
      /\ row.paid \in Period
  BY DEF TypeOK, Rows
<1>1. ASSUME NEW e \in inbox, StartEvent(e) PROVE TypeOK'
  <2>1. job' \in Jobs
    BY <1>0, <1>1 DEF StartEvent, Jobs
  <2> QED
    BY <1>1, <2>1 DEF StartEvent, TypeOK
<1>2. CASE StartSweep
  <2>1. job' \in Jobs
    BY <1>0, <1>2 DEF StartSweep, Jobs
  <2> QED
    BY <1>2, <2>1 DEF StartSweep, TypeOK
<1>3. CASE CommitEvent
  <2> DEFINE e == job.event
             r == Handled(job.row, e)
             u == IF e.type = "completed" THEN job.user ELSE Synced(job.user, r.paid)
  <2>1. job.event \in Event /\ job.user \in Users /\ job.row \in Rows
    BY <1>0, <1>3 DEF CommitEvent, Jobs, NoJob
  <2>2. r \in Rows
    BY <2>1, HandledRow
  <2>3. r.paid \in Period
    BY <2>2 DEF Rows
  <2>4. u \in Users
    BY <2>1, <2>3, SyncedUser
  <2>5. row' = Changed(row, job.row, r) /\ user' = Changed(user, job.user, u)
    BY <1>3 DEF CommitEvent
  <2>6. row' \in Rows /\ user' \in Users
    BY <1>0, <2>1, <2>2, <2>4, <2>5, ChangedRow, ChangedUser
  <2>7. unsure' \in BOOLEAN
    BY <1>3 DEF CommitEvent
  <2>8. job' \in Jobs /\ inbox' \subseteq Event
    BY <1>0, <1>3 DEF CommitEvent, Jobs
  <2> QED
    BY <1>3, <2>6, <2>7, <2>8 DEF CommitEvent, TypeOK
<1>4. CASE CommitSweep
  <2>1. job.user \in Users /\ job.paid \in Period
    BY <1>0, <1>4 DEF CommitSweep, Jobs, NoJob
  <2>2. user' \in Users
    BY <1>0, <1>4, <2>1, SyncedUser, ChangedUser DEF CommitSweep
  <2> QED
    BY <1>4, <2>2 DEF CommitSweep, TypeOK, Jobs
<1>5. CASE Abort
  <2>1. faults' \in 0..MaxFaults
    BY <1>5, MembershipAssumption DEF Abort, Fault, TypeOK
  <2> QED
    BY <1>5, <2>1 DEF Abort, TypeOK, Jobs
<1>6. ASSUME NEW s \in Sub, NEW ok \in BOOLEAN, CancelTask(s, ok) PROVE TypeOK'
  <2>1. /\ sub' \in [Sub -> Subscription] /\ inbox' \subseteq Event
        /\ faults' \in 0..MaxFaults
    BY <1>6, EndTypes DEF CancelTask
  <2>2. row' \in Rows
    BY <1>0, <1>6, OverType DEF CancelTask
  <2>3. unsure' \in BOOLEAN
    BY <1>6 DEF CancelTask
  <2> QED
    BY <1>6, <2>1, <2>2, <2>3 DEF CancelTask, TypeOK, Subscription
<1> QED
  BY <1>1, <1>2, <1>3, <1>4, <1>5, <1>6 DEF Tasks

(* What a request writes.                                                  *)
LEMMA RequestTypes == TypeOK /\ Requests => TypeOK'
<1> SUFFICES ASSUME TypeOK, Requests PROVE TypeOK'
  OBVIOUS
<1>0. /\ user \in Users /\ row \in Rows /\ row.paid \in Period /\ unsure \in BOOLEAN
      /\ row.sub \in {0} \cup Sub
  BY DEF TypeOK, Rows
<1>1. CASE Verify
  <2>1. [user EXCEPT !.verified = TRUE] \in Users
    BY <1>0 DEF Users
  <2>2. user' \in Users
    BY <1>0, <1>1, <2>1, SyncedUser DEF Verify
  <2> QED
    BY <1>1, <2>2 DEF Verify, TypeOK
<1>2. CASE Approve
  <2>1. [user EXCEPT !.suspended = FALSE] \in Users
    BY <1>0 DEF Users
  <2>2. user' \in Users
    BY <1>0, <1>2, <2>1, SyncedUser DEF Approve
  <2> QED
    BY <1>2, <2>2 DEF Approve, TypeOK
<1>3. CASE RequestCancel
  <2> DEFINE s == row.sub
  <2>0. s \in Sub
    BY <1>0, <1>3 DEF RequestCancel
  <2>1. sub \in [Sub -> Subscription] /\ sub[s] \in Subscription /\ sub[s].period \in Period
    BY <2>0 DEF TypeOK, Subscription
  <2>2. sub' \in [Sub -> Subscription]
    BY <1>3, <2>0, <2>1 DEF RequestCancel, Subscription
  <2>3. inbox' \subseteq Event
    <3>1. EventOf("updated", s, sub[s].period) \in Event
      BY <2>0, <2>1, EventTypes DEF EventType
    <3> QED
      BY <1>3, <3>1 DEF RequestCancel, TypeOK
  <2>4. row' = [row EXCEPT !.status = "open", !.paid = sub[s].period]
    BY <1>3 DEF RequestCancel
  <2>5. row' \in Rows /\ row'.paid = sub[s].period
    BY <1>0, <2>1, <2>4 DEF Rows, RowStatus
  <2>6. user' \in Users
    BY <1>0, <1>3, <2>1, <2>4, <2>5, SyncedUser DEF RequestCancel
  <2>7. unsure' \in BOOLEAN
    BY <1>3 DEF RequestCancel
  <2> QED
    BY <1>3, <2>2, <2>3, <2>5, <2>6, <2>7 DEF RequestCancel, TypeOK, Subscription
<1>4. CASE RequestEnd
  <2>0. row.sub \in Sub
    BY <1>0, <1>4 DEF RequestEnd
  <2>1. /\ sub' \in [Sub -> Subscription] /\ inbox' \subseteq Event
        /\ faults' \in 0..MaxFaults
    BY <1>4, <2>0, EndTypes DEF RequestEnd
  <2>2. user' \in Users /\ row' \in Rows
    BY <1>0, <1>4, OverType, SyncedUser DEF RequestEnd
  <2>3. unsure' \in BOOLEAN
    BY <1>4 DEF RequestEnd
  <2> QED
    BY <1>4, <2>1, <2>2, <2>3 DEF RequestEnd, TypeOK, Subscription
<1>5. ASSUME NEW ok \in BOOLEAN, Suspend(ok) PROVE TypeOK'
  <2>1. [user EXCEPT !.suspended = TRUE, !.active = FALSE] \in Users
    BY <1>0 DEF Users
  <2>2. unsure' \in BOOLEAN
    BY <1>5 DEF Suspend
  <2> QED
    BY <1>5, <2>1, <2>2, BillingTypes, Zenon DEF Suspend, Over
<1>6. ASSUME NEW cancel \in BOOLEAN, NEW ok \in BOOLEAN, SetRequired(cancel, ok)
      PROVE TypeOK'
  <2>1. row' \in Rows
    BY <1>0, <1>6, OverType DEF SetRequired
  <2>2. row'.paid \in Period
    BY <2>1 DEF Rows
  <2>3. [user EXCEPT !.required = ~@] \in Users
    BY <1>0 DEF Users
  <2>4. user' \in Users
    BY <1>6, <2>2, <2>3, SyncedUser DEF SetRequired
  <2>5. unsure' \in BOOLEAN
    BY <1>6 DEF SetRequired
  <2> QED
    BY <1>6, <2>4, <2>5, BillingTypes, Zenon DEF SetRequired
<1> QED
  BY <1>1, <1>2, <1>3, <1>4, <1>5, <1>6 DEF Requests
(* Every step of the module.                                               *)
LEMMA TypeStep == TypeOK /\ [Next]_vars => TypeOK'
<1>1. TypeOK /\ UNCHANGED vars => TypeOK'
  BY DEF TypeOK, vars
<1> QED
  BY <1>1, ProviderTypes, TaskTypes, RequestTypes DEF Next

(* The account, its row, the provider's subscriptions and the tasks of     *)
(* membership.py keep their types, for any number of subscriptions.        *)
THEOREM TypeCorrect == Spec => []TypeOK
BY InitTypes, TypeStep, PTL DEF Spec

-----------------------------------------------------------------------------
(* "An admin suspension always wins" (membership.py): whatever webhooks,   *)
(* sweeps, logins and requests write, and in whatever order, only a task   *)
(* that has read the user before the suspension lets him in again.         *)
THEOREM SuspensionWins == Spec => SuspendedStaysOut
<1>1. TypeOK /\ [Next]_vars =>
        [user'.suspended /\ user'.active => user.active \/ BegunBefore]_vars
  <2> SUFFICES ASSUME TypeOK, Next, user'.suspended, user'.active, ~BegunBefore
               PROVE  user.active
    OBVIOUS
  <2>0. /\ user \in Users /\ row.paid \in Period /\ job \in Jobs
        /\ row'.paid \in Period
    <3>1. row \in Rows /\ row' \in Rows
      BY TypeStep DEF TypeOK
    <3> QED
      BY <3>1 DEF TypeOK, Rows
  <2>1. CASE UNCHANGED user
    BY <2>1
  <2>2. ASSUME NEW u \in Users, NEW paid \in Period, user' = Synced(u, paid)
        PROVE  FALSE
    BY <2>2, SyncedUser
  <2>3. CASE CommitEvent
    <3> DEFINE r == Handled(job.row, job.event)
               u == IF job.event.type = "completed" THEN job.user
                    ELSE Synced(job.user, r.paid)
    <3>1. job.event \in Event /\ job.user \in Users /\ job.row \in Rows
      BY <2>0, <2>3 DEF CommitEvent, Jobs, NoJob
    <3>2. job.user.suspended
      BY <2>3 DEF CommitEvent, BegunBefore, NoJob
    <3>3. r.paid \in Period
      BY <3>1, HandledRow DEF Rows
    <3>4. u = job.user \/ (u \in Users /\ ~u.active)
      BY <3>1, <3>2, <3>3, SyncedUser
    <3>5. user' = Changed(user, job.user, u)
      BY <2>3 DEF CommitEvent
    <3> HIDE DEF u
    <3>6. CASE u = job.user
      BY <2>0, <3>1, <3>5, <3>6, ChangedUser
    <3>7. CASE u \in Users /\ ~u.active
      BY <2>0, <3>1, <3>5, <3>7, ChangedUser
    <3> QED
      BY <3>4, <3>6, <3>7
  <2>4. CASE CommitSweep
    <3>1. job.user \in Users /\ job.paid \in Period
      BY <2>0, <2>4 DEF CommitSweep, Jobs, NoJob
    <3>2. job.user.suspended
      BY <2>4 DEF CommitSweep, BegunBefore, NoJob
    <3> DEFINE u == Synced(job.user, job.paid)
    <3>3. u \in Users /\ ~u.active
      BY <3>1, <3>2, SyncedUser
    <3>4. user' = Changed(user, job.user, u)
      BY <2>4 DEF CommitSweep
    <3> HIDE DEF u
    <3> QED
      BY <2>0, <3>1, <3>3, <3>4, ChangedUser
  <2>5. CASE Verify
    <3>1. [user EXCEPT !.verified = TRUE] \in Users
      BY <2>0 DEF Users
    <3>2. [user EXCEPT !.verified = TRUE].active = user.active
      BY <2>0 DEF Users
    <3> QED
      BY <2>0, <2>2, <2>5, <3>1, <3>2 DEF Verify
  <2>6. CASE RequestCancel \/ RequestEnd
    <3>1. user' = Synced(user, row'.paid)
      BY <2>6 DEF RequestCancel, RequestEnd
    <3> QED
      BY <2>0, <2>2, <3>1
  <2>7. ASSUME NEW ok \in BOOLEAN, Suspend(ok) PROVE FALSE
    BY <2>0, <2>7 DEF Suspend, Users
  <2>8. CASE Approve
    <3>1. [user EXCEPT !.suspended = FALSE] \in Users
      BY <2>0 DEF Users
    <3> QED
      BY <2>0, <2>2, <2>8, <3>1 DEF Approve
  <2>9. ASSUME NEW cancel \in BOOLEAN, NEW ok \in BOOLEAN, SetRequired(cancel, ok)
        PROVE  FALSE
    <3>1. [user EXCEPT !.required = ~@] \in Users
      BY <2>0 DEF Users
    <3> QED
      BY <2>0, <2>2, <2>9, <3>1 DEF SetRequired
  <2> QED
    BY <2>1, <2>3, <2>4, <2>5, <2>6, <2>7, <2>8, <2>9
       DEF Next, Provider, Tasks, Requests, Tick, Subscribe, Lapse, Renew, StartEvent,
           StartSweep, Abort, CancelTask
<1> QED
  BY <1>1, InitTypes, TypeStep, PTL DEF Spec, SuspendedStaysOut

-----------------------------------------------------------------------------
(* The invoice or the update that tells of the last period paid for.       *)
Tells(e, s) ==
  e.type \in {"paid", "updated"} /\ e.sub = s /\ e.period = sub[s].period

(* The row is as request_cancel has left it.                               *)
TookAnswer(s) ==
  row.sub = s /\ row.status = "open" /\ row.paid = sub[s].period /\ sub[s].ending

(* What is known of the one subscription that is charged: the row names    *)
(* it, or its checkout is still to be worked off; the row knows its period,*)
(* or is still to be told; no other one is newer.  A transaction that      *)
(* works off one of its events has read the row as it is, unless the user  *)
(* has asked for its end in between.                                       *)
Known(s) ==
  /\ \A r \in Sub : r > s => sub[r].status = "none"
  /\ row.sub = s \/ EventOf("completed", s, 0) \in inbox
  /\ row.sub = s => row.status = "open"
  /\ row.paid >= sub[s].period \/ \E e \in inbox : Tells(e, s)
  /\ job.kind = "event" /\ job.event.sub = s => job.row = row \/ TookAnswer(s)
  /\ user.suspended => s \in cancels

(* The row, the transaction and the events know of no subscription but     *)
(* those that have been taken out, one after the other.                    *)
RowKnown ==
  /\ row.sub = 0 => row.paid = 0
  /\ row.sub # 0 => sub[row.sub].status # "none"
JobCurrent ==
  job.kind = "event" => job.event \in inbox /\ job.row.sub = row.sub
TakenInOrder ==
  \A s, r \in Sub : r > s /\ sub[s].status = "none" => sub[r].status = "none"
EventsKnown ==
  \A e \in inbox : /\ sub[e.sub].status # "none" /\ e.period <= sub[e.sub].period
                   /\ e.type = "paid" => e.period > 0
                   /\ e.type = "deleted" => sub[e.sub].status = "canceled"

ChargedKnown ==
  /\ \A s, r \in Sub : Billed(s) /\ Billed(r) => s = r
  /\ \A s \in Sub : Billed(s) => Known(s)

BillingInv ==
  /\ TypeOK /\ RowKnown /\ JobCurrent /\ TakenInOrder /\ EventsKnown
  /\ ~unsure => ChargedKnown

(* What is charged, who reads what, and what is on its way.                *)
LEMMA BillingTyped ==
  TypeOK =>
    /\ row.sub \in {0} \cup Sub /\ row.paid \in Nat /\ row.status \in RowStatus
    /\ row \in Rows /\ user \in Users /\ now \in Nat
    /\ \A s \in Sub : /\ sub[s].status \in SubStatus /\ sub[s].period \in Nat
                      /\ sub[s].ending \in BOOLEAN /\ s \in Nat \ {0}
    /\ \A e \in inbox : e \in Event /\ e.sub \in Sub /\ e.period \in Nat
    /\ job.kind = "event" => job.row \in Rows /\ job.user \in Users /\ job.event \in Event
<1> SUFFICES ASSUME TypeOK
             PROVE  /\ row.sub \in {0} \cup Sub /\ row.paid \in Nat /\ row.status \in RowStatus
                    /\ row \in Rows /\ user \in Users /\ now \in Nat
                    /\ \A s \in Sub : /\ sub[s].status \in SubStatus /\ sub[s].period \in Nat
                                      /\ sub[s].ending \in BOOLEAN /\ s \in Nat \ {0}
                    /\ \A e \in inbox : e \in Event /\ e.sub \in Sub /\ e.period \in Nat
                    /\ job.kind = "event" => /\ job.row \in Rows /\ job.user \in Users
                                             /\ job.event \in Event
  OBVIOUS
<1>1. Period \subseteq Nat /\ Sub \subseteq Nat \ {0}
  BY MembershipAssumption DEF Period, Sub
<1>2. row \in Rows /\ user \in Users /\ now \in Nat /\ inbox \subseteq Event /\ job \in Jobs
  BY DEF TypeOK
<1>3. row.sub \in {0} \cup Sub /\ row.paid \in Nat /\ row.status \in RowStatus
  BY <1>1, <1>2 DEF Rows
<1>4. ASSUME NEW s \in Sub
      PROVE  /\ sub[s].status \in SubStatus /\ sub[s].period \in Nat
             /\ sub[s].ending \in BOOLEAN /\ s \in Nat \ {0}
  BY <1>1 DEF TypeOK
<1>5. ASSUME NEW e \in inbox PROVE e \in Event /\ e.sub \in Sub /\ e.period \in Nat
  BY <1>1, <1>2 DEF Event
<1>6. job.kind = "event" => job.row \in Rows /\ job.user \in Users /\ job.event \in Event
  BY <1>2 DEF Jobs, NoJob
<1> QED
  BY <1>2, <1>3, <1>4, <1>5, <1>6

(* The fields of an event.                                                 *)
LEMMA EventFields ==
  \A type, s, p : /\ EventOf(type, s, p).type = type
                  /\ EventOf(type, s, p).sub = s
                  /\ EventOf(type, s, p).period = p
BY DEF EventOf

(* A step that writes neither the row nor the provider's side, and lets no *)
(* charged subscription of a suspended user out of the queue.              *)
LEMMA BillingKept ==
  ASSUME BillingInv, TypeOK', UNCHANGED <<sub, row, job, inbox>>, unsure => unsure',
         ~unsure' /\ user'.suspended => \A s \in Sub : Billed(s) => s \in cancels'
  PROVE  BillingInv'
<1>1. RowKnown' /\ JobCurrent' /\ TakenInOrder' /\ EventsKnown'
  BY DEF BillingInv, RowKnown, JobCurrent, TakenInOrder, EventsKnown
<1>2. ~unsure' => ChargedKnown'
  BY DEF BillingInv, ChargedKnown, Known, Billed, Tells, TookAnswer
<1> QED
  BY <1>1, <1>2, Zenon DEF BillingInv

(* The one subscription that is charged ends.                              *)
LEMMA EndSettles ==
  ASSUME BillingInv, TypeOK', NEW x \in Sub, Billed(x), sub' = Canceled(x),
         inbox' = inbox \cup Deleted(x), job' = job, row' = row \/ row' = OverRow,
         unsure => unsure'
  PROVE  BillingInv'
<1>0. TypeOK /\ sub \in [Sub -> Subscription]
  BY DEF BillingInv, TypeOK, Subscription
<1>1. \A r \in Sub : /\ sub'[r].status = IF r = x THEN "canceled" ELSE sub[r].status
                     /\ sub'[r].period = sub[r].period
  BY <1>0 DEF Canceled, Subscription
<1>2. row'.sub = row.sub /\ (row'.paid = 0 \/ row'.paid = row.paid)
  BY <1>0, BillingTyped DEF OverRow, Rows
<1>3. \A e \in inbox' : e \in inbox \/ (e.type = "deleted" /\ e.sub = x /\ e.period = 0)
  BY EventFields DEF Deleted
<1>4. EventsKnown'
  BY <1>0, <1>1, <1>3, BillingTyped DEF BillingInv, EventsKnown, Billed
<1>5. TakenInOrder'
  BY <1>1 DEF BillingInv, TakenInOrder, Billed
<1>6. RowKnown'
  BY <1>0, <1>1, <1>2, BillingTyped DEF BillingInv, RowKnown
<1>7. JobCurrent'
  BY <1>2 DEF BillingInv, JobCurrent
<1>8. ~unsure' => ChargedKnown'
  <2>1. ~unsure' => \A r \in Sub : ~Billed(r)'
    BY <1>1 DEF BillingInv, ChargedKnown, Billed
  <2> QED
    BY <2>1, Zenon DEF ChargedKnown
<1> QED
  BY <1>4, <1>5, <1>6, <1>7, <1>8, Zenon DEF BillingInv

(* A new subscription is the only one that is charged, or the row need not *)
(* know.                                                                   *)
LEMMA SubscribeSettles ==
  ASSUME BillingInv, TypeOK', NEW x \in Sub, Subscribe(x)
  PROVE  BillingInv'
<1>0. TypeOK /\ sub \in [Sub -> Subscription]
  BY DEF BillingInv, TypeOK, Subscription
<1>1. \A r \in Sub : /\ sub'[r].status = IF r = x THEN "active" ELSE sub[r].status
                     /\ sub'[r].period = IF r = x THEN now + 1 ELSE sub[r].period
  BY <1>0 DEF Subscribe, Subscription
<1>2. /\ UNCHANGED <<row, job, user, cancels>> /\ sub[x].status = "none"
      /\ inbox' = inbox \cup {EventOf("completed", x, 0), EventOf("paid", x, now + 1)}
  BY DEF Subscribe
<1>3. \A e \in inbox : e.sub # x
  BY <1>2 DEF BillingInv, EventsKnown
<1>4. EventsKnown'
  <2>1. ASSUME NEW e \in inbox
        PROVE  /\ sub'[e.sub].status # "none" /\ e.period <= sub'[e.sub].period
               /\ e.type = "paid" => e.period > 0
               /\ e.type = "deleted" => sub'[e.sub].status = "canceled"
               /\ e.type = "deleted" => sub'[e.sub].status = "canceled"
    BY <1>0, <1>1, <1>3, BillingTyped DEF BillingInv, EventsKnown
  <2>2. ASSUME NEW e, e = EventOf("completed", x, 0) \/ e = EventOf("paid", x, now + 1)
        PROVE  /\ sub'[e.sub].status # "none" /\ e.period <= sub'[e.sub].period
               /\ e.type = "paid" => e.period > 0
               /\ e.type = "deleted" => sub'[e.sub].status = "canceled"
               /\ e.type = "deleted" => sub'[e.sub].status = "canceled"
    BY <1>0, <1>1, <2>2, EventFields, BillingTyped
  <2>3. \A e \in inbox' : \/ e \in inbox
                          \/ e = EventOf("completed", x, 0) \/ e = EventOf("paid", x, now + 1)
    BY <1>2
  <2> QED
    BY <2>1, <2>2, <2>3 DEF EventsKnown
<1>5. TakenInOrder'
  <2>1. \A r \in Sub : r < x => sub[r].status # "none"
    BY DEF Subscribe
  <2> QED
    BY <1>0, <1>1, <2>1, BillingTyped DEF BillingInv, TakenInOrder
<1>6. RowKnown' /\ row.sub # x
  BY <1>0, <1>1, <1>2, BillingTyped DEF BillingInv, RowKnown
<1>7. JobCurrent' /\ (job.kind = "event" => job.event.sub # x)
  BY <1>2, <1>3 DEF BillingInv, JobCurrent
<1>8. ASSUME ~unsure' PROVE ChargedKnown'
  <2>1. ~user.suspended /\ \A r \in Sub : ~Billed(r)
    BY <1>8 DEF Subscribe
  <2>2. \A r \in Sub : Billed(r)' => r = x
    BY <1>1, <2>1 DEF Billed
  <2>3. \A r \in Sub : r > x => sub'[r].status = "none"
    BY <1>0, <1>1, <1>2, BillingTyped DEF BillingInv, TakenInOrder
  <2>4. \E e \in inbox' : Tells(e, x)'
    <3>1. PICK e \in inbox' : e = EventOf("paid", x, now + 1)
      BY <1>2
    <3>2. Tells(e, x)'
      BY <1>1, <3>1, EventFields DEF Tells
    <3> QED
      BY <3>2
  <2>5. EventOf("completed", x, 0) \in inbox'
    BY <1>2
  <2>6. Known(x)'
    BY <1>2, <1>6, <1>7, <2>1, <2>3, <2>4, <2>5 DEF Known
  <2> QED
    BY <2>2, <2>6, Zenon DEF ChargedKnown
<1> QED
  BY <1>4, <1>5, <1>6, <1>7, <1>8, Zenon DEF BillingInv

(* A renewal is told of; one that fails changes no period.                 *)
LEMMA RenewSettles ==
  ASSUME BillingInv, TypeOK', NEW x \in Sub, NEW charged \in BOOLEAN, Renew(x, charged)
  PROVE  BillingInv'
<1>0. TypeOK /\ sub \in [Sub -> Subscription]
  BY DEF BillingInv, TypeOK, Subscription
<1>1. /\ UNCHANGED <<row, job, user, cancels, unsure>> /\ Billed(x) /\ ~sub[x].ending
      /\ sub[x].period <= now
  BY DEF Renew
<1>2. \A r \in Sub :
        /\ sub'[r].status = IF r = x THEN IF charged THEN "active" ELSE "past_due"
                            ELSE sub[r].status
        /\ sub'[r].period = IF r = x /\ charged THEN now + 1 ELSE sub[r].period
        /\ sub'[r].ending = sub[r].ending
  <2>1. CASE charged
    BY <1>0, <2>1 DEF Renew, Subscription
  <2>2. CASE ~charged
    BY <1>0, <2>2 DEF Renew, Subscription
  <2> QED
    BY <2>1, <2>2
<1>3. \A r \in Sub : /\ sub'[r].status = "none" <=> sub[r].status = "none"
                     /\ Billed(r)' <=> Billed(r)
  BY <1>1, <1>2 DEF Billed
<1>4. /\ inbox \subseteq inbox'
      /\ charged => EventOf("paid", x, now + 1) \in inbox'
      /\ \A e \in inbox' \ inbox :
           \/ charged /\ (e = EventOf("paid", x, now + 1) \/ e = EventOf("updated", x, now + 1))
           \/ e = EventOf("failed", x, 0)
  <2>1. CASE charged
    BY <2>1 DEF Renew
  <2>2. CASE ~charged
    BY <2>2 DEF Renew
  <2> QED
    BY <2>1, <2>2
<1>5. EventsKnown'
  <2>1. ASSUME NEW e \in inbox
        PROVE  /\ sub'[e.sub].status # "none" /\ e.period <= sub'[e.sub].period
               /\ e.type = "paid" => e.period > 0
               /\ e.type = "deleted" => sub'[e.sub].status = "canceled"
               /\ e.type = "deleted" => sub'[e.sub].status = "canceled"
    <3>1. /\ sub[e.sub].status # "none" /\ e.period <= sub[e.sub].period
          /\ e.type = "paid" => e.period > 0
          /\ e.type = "deleted" => sub[e.sub].status = "canceled"
      BY DEF BillingInv, EventsKnown
    <3>2. e.sub \in Sub /\ e.period \in Nat /\ now \in Nat /\ sub[e.sub].period \in Nat
      BY <1>0, BillingTyped
    <3> QED
      BY <1>1, <1>2, <1>3, <3>1, <3>2 DEF Billed
  <2>2. ASSUME NEW e \in inbox' \ inbox
        PROVE  /\ sub'[e.sub].status # "none" /\ e.period <= sub'[e.sub].period
               /\ e.type = "paid" => e.period > 0
               /\ e.type = "deleted" => sub'[e.sub].status = "canceled"
               /\ e.type = "deleted" => sub'[e.sub].status = "canceled"
    <3>1. now \in Nat /\ sub[x].period \in Nat
      BY <1>0, BillingTyped
    <3>2. sub'[x].status # "none"
      BY <1>2
    <3>3. CASE charged /\ (e = EventOf("paid", x, now + 1) \/ e = EventOf("updated", x, now + 1))
      BY <1>2, <3>1, <3>2, <3>3, EventFields
    <3>4. CASE e = EventOf("failed", x, 0)
      BY <1>2, <3>1, <3>2, <3>4, EventFields
    <3> QED
      BY <1>4, <3>3, <3>4
  <2> QED
    BY <2>1, <2>2 DEF EventsKnown
<1>6. ASSUME NEW r \in Sub, Known(r) PROVE Known(r)'
  <2>1. row'.paid >= sub'[r].period \/ \E e \in inbox' : Tells(e, r)'
    <3>1. CASE r = x /\ charged
      <4>1. PICK e \in inbox' : e = EventOf("paid", x, now + 1)
        BY <1>4, <3>1
      <4>2. Tells(e, r)'
        BY <1>2, <3>1, <4>1, EventFields DEF Tells
      <4> QED
        BY <4>2
    <3>2. CASE ~(r = x /\ charged)
      BY <1>1, <1>2, <1>4, <1>6, <3>2 DEF Known, Tells
    <3> QED
      BY <3>1, <3>2
  <2>2. TookAnswer(r) => TookAnswer(r)'
    BY <1>1, <1>2 DEF TookAnswer
  <2>3. \A q \in Sub : q > r => sub'[q].status = "none"
    BY <1>3, <1>6 DEF Known
  <2> QED
    BY <1>1, <1>4, <1>6, <2>1, <2>2, <2>3 DEF Known
<1>7. ~unsure' => ChargedKnown'
  BY <1>1, <1>3, <1>6 DEF BillingInv, ChargedKnown
<1>8. RowKnown' /\ TakenInOrder' /\ JobCurrent'
  <2>1. TakenInOrder'
    BY <1>3 DEF BillingInv, TakenInOrder
  <2>2. RowKnown'
    BY <1>0, <1>1, <1>3, BillingTyped DEF BillingInv, RowKnown
  <2>3. JobCurrent'
    BY <1>1, <1>4 DEF BillingInv, JobCurrent
  <2> QED
    BY <2>1, <2>2, <2>3
<1> QED
  BY <1>5, <1>7, <1>8, Zenon DEF BillingInv

(* The user asks for the end, and the row takes what the provider answers. *)
LEMMA RequestCancelSettles ==
  ASSUME BillingInv, TypeOK', RequestCancel
  PROVE  BillingInv'
<1> DEFINE x == row.sub
<1>0. TypeOK /\ sub \in [Sub -> Subscription] /\ x \in Sub /\ Billed(x)
  BY BillingTyped DEF BillingInv, TypeOK, Subscription, RequestCancel
<1>1. /\ \A r \in Sub : sub'[r].status = sub[r].status /\ sub'[r].period = sub[r].period
      /\ sub'[x].ending = TRUE
  BY <1>0 DEF RequestCancel, Subscription
<1>2. row'.sub = row.sub /\ row'.status = "open" /\ row'.paid = sub[x].period
  BY <1>0, BillingTyped DEF RequestCancel, Rows
<1>3. /\ UNCHANGED <<cancels, job>> /\ (unsure => unsure')
      /\ inbox' = inbox \cup {EventOf("updated", x, sub[x].period)}
  BY DEF RequestCancel
<1>4. user'.suspended = user.suspended
  <2>1. [row EXCEPT !.status = "open", !.paid = sub[x].period].paid = sub[x].period
    BY <1>0, BillingTyped DEF Rows
  <2>2. sub[x].period \in Period
    BY <1>0 DEF Subscription
  <2> QED
    BY <1>0, <2>1, <2>2, SyncedUser, BillingTyped DEF RequestCancel
<1>5. EventsKnown'
  <2>1. ASSUME NEW e, e = EventOf("updated", x, sub[x].period)
        PROVE  /\ sub'[e.sub].status # "none" /\ e.period <= sub'[e.sub].period
               /\ e.type = "paid" => e.period > 0
               /\ e.type = "deleted" => sub'[e.sub].status = "canceled"
    <3>1. sub[x].period \in Nat
      BY <1>0, BillingTyped
    <3> QED
      BY <1>0, <1>1, <2>1, <3>1, EventFields DEF Billed
  <2> QED
    BY <1>0, <1>1, <1>3, <2>1, BillingTyped DEF BillingInv, EventsKnown
<1>6. TakenInOrder'
  BY <1>1 DEF BillingInv, TakenInOrder
<1>7. RowKnown'
  BY <1>0, <1>1, <1>2, BillingTyped DEF Billed, RowKnown
<1>8. JobCurrent'
  BY <1>2, <1>3 DEF BillingInv, JobCurrent
<1>9. ASSUME ~unsure' PROVE ChargedKnown'
  <2>1. \A r \in Sub : Billed(r)' <=> Billed(r)
    BY <1>1 DEF Billed
  <2>2. Known(x) /\ \A r \in Sub : Billed(r) => r = x
    BY <1>0, <1>3, <1>9 DEF BillingInv, ChargedKnown
  <2>3. row'.paid >= sub'[x].period
    <3>1. sub[x].period \in Nat
      BY <1>0, BillingTyped
    <3> QED
      BY <1>0, <1>1, <1>2, <3>1
  <2>4. row'.sub = x /\ row'.status = "open" /\ row'.paid = sub'[x].period /\ sub'[x].ending
    BY <1>0, <1>1, <1>2
  <2>5. ASSUME NEW y \in Sub, y = x PROVE Known(y)'
    BY <1>1, <1>3, <1>4, <2>2, <2>3, <2>4, <2>5 DEF Known, TookAnswer
  <2> QED
    BY <1>0, <2>1, <2>2, <2>5, Zenon DEF ChargedKnown
<1> QED
  BY <1>5, <1>6, <1>7, <1>8, <1>9, Zenon DEF BillingInv

(* A transaction begins with the row as it is.                             *)
LEMMA StartSettles ==
  ASSUME BillingInv, TypeOK', StartSweep \/ \E e \in inbox : StartEvent(e)
  PROVE  BillingInv'
<1>1. /\ UNCHANGED <<user, row, sub, inbox, cancels, unsure>>
      /\ job'.kind = "event" => job'.event \in inbox /\ job'.row = row
  BY DEF StartSweep, StartEvent
<1>2. RowKnown' /\ JobCurrent' /\ TakenInOrder' /\ EventsKnown'
  BY <1>1 DEF BillingInv, RowKnown, JobCurrent, TakenInOrder, EventsKnown
<1>3. ~unsure' => ChargedKnown'
  BY <1>1 DEF BillingInv, ChargedKnown, Known, Billed, Tells, TookAnswer
<1> QED
  BY <1>2, <1>3, Zenon DEF BillingInv

(* What a handler makes of the row, field by field.                        *)
LEMMA HandledFields ==
  ASSUME NEW r \in Rows, NEW e \in Event
  PROVE  /\ e.type \in {"completed", "updated"} => Handled(r, e).sub = e.sub
         /\ e.type = "paid" => Handled(r, e).sub = IF r.sub = 0 THEN e.sub ELSE r.sub
         /\ e.type \in {"failed", "deleted"} => Handled(r, e).sub = r.sub
         /\ e.type \in {"completed", "updated", "failed"} => Handled(r, e).status = "open"
         /\ e.type = "paid" =>
              Handled(r, e).status = IF e.period > r.paid THEN "open" ELSE r.status
         /\ e.type \in {"paid", "updated"} =>
              Handled(r, e).paid = Max(r.paid, e.period)
         /\ e.type \notin {"paid", "updated"} => Handled(r, e).paid = r.paid
BY DEF Handled, Completed, Paid, Updated, Rows, Event, EventType

(* What a transaction writes, column by column.                            *)
LEMMA ChangedFields ==
  ASSUME NEW r \in Rows, NEW read \in Rows, NEW new \in Rows
  PROVE  /\ Changed(r, read, new).sub = IF new.sub = read.sub THEN r.sub ELSE new.sub
         /\ Changed(r, read, new).paid = IF new.paid = read.paid THEN r.paid ELSE new.paid
         /\ read = r => Changed(r, read, new) = new
BY DEF Changed, Rows

(* The flag is all of the user that a task writes.                         *)
LEMMA TaskKeepsSuspended ==
  ASSUME NEW u \in Users, NEW read \in Users, NEW new \in Users,
         new.suspended = read.suspended
  PROVE  Changed(u, read, new).suspended = u.suspended
BY DEF Changed, Users

(* An event is worked off: what it tells of a charged subscription is in   *)
(* the row, and one of an older subscription does not count.               *)
LEMMA CommitEventSettles ==
  ASSUME BillingInv, TypeOK', CommitEvent
  PROVE  BillingInv'
<1> DEFINE e == job.event
           r == Handled(job.row, job.event)
<1>0. /\ TypeOK /\ e \in inbox /\ e \in Event /\ e.sub \in Sub /\ e.period \in Nat
      /\ job.row \in Rows /\ row \in Rows /\ job.user \in Users /\ user \in Users
      /\ row.sub \in Nat /\ row.paid \in Nat /\ job.row.sub = row.sub /\ r \in Rows
  BY BillingTyped, HandledRow DEF BillingInv, JobCurrent, CommitEvent
<1>1. /\ UNCHANGED <<sub, cancels>> /\ (unsure => unsure')
      /\ row' = Changed(row, job.row, r) /\ inbox' = inbox \ {e}
      /\ ~unsure' => (row' = row \/ job.row = row) /\ ~(e.sub < row.sub)
      /\ job'.kind = "none"
  BY DEF CommitEvent, NoJob
<1>2. user'.suspended = user.suspended
  <2> DEFINE u == IF e.type = "completed" THEN job.user ELSE Synced(job.user, r.paid)
  <2>1. r.paid \in Period
    BY <1>0 DEF Rows
  <2>2. u \in Users /\ u.suspended = job.user.suspended
    BY <1>0, <2>1, SyncedUser
  <2>3. user' = Changed(user, job.user, u)
    BY DEF CommitEvent
  <2> HIDE DEF u
  <2> QED
    BY <1>0, <2>2, <2>3, TaskKeepsSuspended
<1>3. /\ e.type \in {"completed", "updated"} => r.sub = e.sub
      /\ e.type = "paid" => r.sub = IF row.sub = 0 THEN e.sub ELSE row.sub
      /\ e.type \in {"failed", "deleted"} => r.sub = row.sub
      /\ e.type \in {"completed", "updated", "failed", "paid", "deleted"}
  BY <1>0, HandledFields DEF Event, EventType
<1>4. row'.sub = r.sub
  BY <1>0, <1>1, ChangedFields
<1>5. RowKnown'
  <2>1. row'.sub = 0 => row'.paid = 0
    <3>1. e.sub # 0
      BY <1>0, BillingTyped
    <3>2. row'.sub = 0 => e.type \in {"failed", "deleted"} /\ row.sub = 0
      BY <1>3, <1>4, <3>1
    <3>3. e.type \in {"failed", "deleted"} => r.paid = job.row.paid
      BY <1>0, HandledFields
    <3>4. e.type \in {"failed", "deleted"} => row'.paid = row.paid
      BY <1>0, <1>1, <3>3, ChangedFields
    <3> QED
      BY <3>2, <3>4 DEF BillingInv, RowKnown
  <2>2. row'.sub = e.sub \/ row'.sub = row.sub
    BY <1>3, <1>4
  <2>3. sub[e.sub].status # "none"
    BY <1>0 DEF BillingInv, EventsKnown
  <2> QED
    BY <1>1, <2>1, <2>2, <2>3 DEF BillingInv, RowKnown
<1>6. JobCurrent' /\ TakenInOrder' /\ EventsKnown'
  BY <1>1 DEF BillingInv, JobCurrent, TakenInOrder, EventsKnown
<1>7. ASSUME ~unsure', NEW x \in Sub, Billed(x), Known(x) PROVE Known(x)'
  <2>1. e.sub = x => job.row = row \/ TookAnswer(x)
    BY <1>7 DEF CommitEvent, Known
  <2>2. x \in Nat \ {0} /\ sub[x].period \in Nat
    BY <1>0, BillingTyped
  <2>3. row.sub = x => e.sub = x
    <3>1. sub[e.sub].status # "none"
      BY <1>0 DEF BillingInv, EventsKnown
    <3>2. ~(e.sub > x)
      BY <1>0, <1>7, <3>1 DEF Known
    <3>3. e.sub \in Nat
      BY <1>0, BillingTyped
    <3> QED
      BY <1>0, <1>1, <1>7, <2>2, <3>2, <3>3
  <2>4. row'.sub = x \/ EventOf("completed", x, 0) \in inbox'
    <3>1. CASE row.sub = x
      BY <1>3, <1>4, <2>2, <2>3, <3>1
    <3>2. CASE row.sub # x /\ e = EventOf("completed", x, 0)
      BY <1>3, <1>4, <3>2, EventFields
    <3>3. CASE row.sub # x /\ e # EventOf("completed", x, 0)
      BY <1>1, <1>7, <3>3 DEF Known
    <3> QED
      BY <3>1, <3>2, <3>3
  <2>5. row'.sub = x => e.sub = x
    BY <1>3, <1>4, <2>3
  <2>6. row'.sub = x => row'.status = "open"
    <3>1. CASE row' = row
      BY <1>7, <3>1 DEF Known
    <3>2. CASE job.row = row
      <4>1. row' = r
        BY <1>0, <1>1, <3>2, ChangedFields
      <4>2. e.type # "deleted" \/ row'.sub # x
        BY <1>0, <1>7, <2>5 DEF BillingInv, EventsKnown, Billed
      <4>3. e.type \in {"completed", "updated", "failed"} => r.status = "open"
        BY <1>0, HandledFields
      <4>4. e.type = "paid" /\ row'.sub = x => r.status = "open"
        <5>1. e.type = "paid" => r.status = IF e.period > row.paid THEN "open" ELSE row.status
          BY <1>0, <3>2, HandledFields
        <5>2. e.type = "paid" => e.period > 0
          BY <1>0 DEF BillingInv, EventsKnown
        <5>3. row.sub = 0 => row.paid = 0
          BY DEF BillingInv, RowKnown
        <5>4. row.sub = x => row.status = "open"
          BY <1>7 DEF Known
        <5> QED
          BY <1>3, <1>4, <5>1, <5>2, <5>3, <5>4
      <4> QED
        BY <1>3, <4>1, <4>2, <4>3, <4>4
    <3> QED
      BY <1>1, <1>7, <3>1, <3>2
  <2>7. row'.paid >= sub'[x].period \/ \E t \in inbox' : Tells(t, x)'
    <3>1. CASE row' = row /\ (row.paid >= sub[x].period \/ TookAnswer(x))
      BY <1>0, <1>1, <2>2, <3>1 DEF TookAnswer
    <3>2. ASSUME job.row = row,
                 row.paid >= sub[x].period \/ TookAnswer(x) \/ Tells(e, x)
          PROVE  row'.paid >= sub'[x].period
      <4>1. row' = r
        BY <1>0, <1>1, <3>2, ChangedFields
      <4>2. /\ e.type \in {"paid", "updated"} => r.paid = Max(row.paid, e.period)
            /\ e.type \notin {"paid", "updated"} => r.paid = row.paid
        BY <1>0, <3>2, HandledFields
      <4>3. row.paid >= sub[x].period
            \/ (e.type \in {"paid", "updated"} /\ e.period >= sub[x].period)
        BY <1>0, <2>2, <3>2 DEF TookAnswer, Tells
      <4> QED
        BY <1>0, <1>1, <2>2, <4>1, <4>2, <4>3 DEF Max
    <3>3. CASE ~(row.paid >= sub[x].period) /\ \E t \in inbox \ {e} : Tells(t, x)
      BY <1>1, <3>3 DEF Tells
    <3>4. CASE ~(row.paid >= sub[x].period) /\ Tells(e, x)
      <4>1. job.row = row \/ TookAnswer(x)
        BY <2>1, <3>4 DEF Tells
      <4> QED
        BY <1>1, <1>7, <3>1, <3>2, <3>4, <4>1
    <3>5. \/ row.paid >= sub[x].period
          \/ \E t \in inbox \ {e} : Tells(t, x)
          \/ Tells(e, x)
      BY <1>7 DEF Known
    <3> QED
      BY <1>1, <1>7, <3>1, <3>2, <3>3, <3>4, <3>5
  <2>8. \A y \in Sub : y > x => sub'[y].status = "none"
    BY <1>1, <1>7 DEF Known
  <2>9. user'.suspended => x \in cancels'
    BY <1>1, <1>2, <1>7 DEF Known
  <2> QED
    BY <1>1, <2>4, <2>6, <2>7, <2>8, <2>9 DEF Known
<1>8. ~unsure' => ChargedKnown'
  BY <1>1, <1>7 DEF BillingInv, ChargedKnown, Billed
<1> QED
  BY <1>5, <1>6, <1>8, Zenon DEF BillingInv

(* A suspension cancels the row's subscription, or queues its cancellation,*)
(* and the row knows whether there is one.                                 *)
LEMMA SuspendSettles ==
  ASSUME BillingInv, TypeOK', NEW ok \in BOOLEAN, Suspend(ok)
  PROVE  BillingInv'
<1>0. TypeOK /\ row.sub \in {0} \cup Sub
  BY BillingTyped DEF BillingInv
<1>1. job' = job /\ (unsure => unsure')
  BY DEF Suspend
<1>2. ~unsure' => \A s \in Sub : Billed(s) => s = row.sub
  BY DEF Suspend
<1>3. ~unsure' => \A s \in Sub : Billed(s) => ~Over
  BY <1>1, <1>2, BillingTyped DEF BillingInv, ChargedKnown, Known, Over
<1>4. CASE Over /\ UNCHANGED <<sub, row, inbox, cancels>>
  BY <1>1, <1>3, <1>4, BillingKept
<1>5. CASE ~Over /\ EndNow(row.sub) /\ row' = OverRow
  <2>1. row.sub \in Sub
    BY <1>0, <1>5 DEF Over
  <2> QED
    BY <1>1, <1>5, <2>1, EndSettles DEF EndNow
<1>6. CASE Refuses(row.sub) /\ cancels' = cancels \cup {row.sub} /\ UNCHANGED row
  BY <1>1, <1>2, <1>6, BillingKept DEF Refuses
<1> QED
  BY <1>4, <1>5, <1>6 DEF Suspend

(* set_payments_required ends a subscription, queues its end or leaves it. *)
LEMMA SetRequiredSettles ==
  ASSUME BillingInv, TypeOK', NEW cancel \in BOOLEAN, NEW ok \in BOOLEAN,
         SetRequired(cancel, ok)
  PROVE  BillingInv'
<1>0. TypeOK /\ row.sub \in {0} \cup Sub
  BY BillingTyped DEF BillingInv
<1>1. job' = job /\ (unsure => unsure')
  BY DEF SetRequired
<1>2. user'.suspended = user.suspended
  <2>1. row'.paid \in Period /\ [user EXCEPT !.required = ~@] \in Users
    BY <1>0 DEF TypeOK, Rows, Users
  <2>2. [user EXCEPT !.required = ~@].suspended = user.suspended
    BY <1>0 DEF TypeOK, Users
  <2> QED
    BY <2>1, <2>2, SyncedUser DEF SetRequired
<1>3. ~unsure /\ user.suspended => \A s \in Sub : Billed(s) => s \in cancels
  BY DEF BillingInv, ChargedKnown, Known
<1>4. CASE UNCHANGED <<sub, row, inbox>> /\ cancels \subseteq cancels'
  BY <1>1, <1>2, <1>3, <1>4, BillingKept
<1>5. CASE row.sub # 0 /\ EndNow(row.sub) /\ row' = OverRow
  BY <1>0, <1>1, <1>5, EndSettles DEF EndNow
<1> QED
  BY <1>4, <1>5 DEF SetRequired, Refuses

(* A queued cancellation ends the subscription; where it fails, the row    *)
(* need not know.                                                          *)
LEMMA CancelTaskSettles ==
  ASSUME BillingInv, TypeOK', NEW s \in Sub, NEW ok \in BOOLEAN, CancelTask(s, ok)
  PROVE  BillingInv'
<1>1. UNCHANGED <<user, job>> /\ (unsure => unsure') /\ cancels' = cancels \ {s}
  BY DEF CancelTask
<1>2. CASE ok
  BY <1>1, <1>2, EndSettles DEF CancelTask, EndNow
<1>3. CASE ~ok
  <2>1. UNCHANGED <<sub, row, inbox>> /\ (~unsure' => ~Billed(s))
    BY <1>3 DEF CancelTask, Refuses
  <2>2. ~unsure /\ user.suspended => \A r \in Sub : Billed(r) => r \in cancels
    BY DEF BillingInv, ChargedKnown, Known
  <2> QED
    BY <1>1, <2>1, <2>2, BillingKept
<1> QED
  BY <1>2, <1>3

(* A sweep, a login or the user writes the flag alone.                     *)
LEMMA FlagSettles ==
  ASSUME BillingInv, TypeOK', Tick \/ CommitSweep \/ Verify \/ Approve
  PROVE  BillingInv'
<1>0. TypeOK /\ user \in Users /\ row.paid \in Period
  BY DEF BillingInv, TypeOK, Rows
<1>1. ~unsure /\ user.suspended => \A s \in Sub : Billed(s) => s \in cancels
  BY DEF BillingInv, ChargedKnown, Known
<1>2. CASE Tick
  BY <1>1, <1>2, BillingKept DEF Tick
<1>3. CASE CommitSweep
  <2>1. job.user \in Users /\ job.paid \in Period
    BY <1>0, <1>3 DEF TypeOK, CommitSweep, Jobs, NoJob
  <2>2. user'.suspended = user.suspended
    BY <1>0, <1>3, <2>1, SyncedUser, TaskKeepsSuspended DEF CommitSweep
  <2>3. UNCHANGED <<row, sub, inbox, cancels, unsure>> /\ job'.kind = "none"
    BY <1>3 DEF CommitSweep, NoJob
  <2>4. RowKnown' /\ JobCurrent' /\ TakenInOrder' /\ EventsKnown'
    BY <2>3 DEF BillingInv, RowKnown, JobCurrent, TakenInOrder, EventsKnown
  <2>5. ~unsure' => ChargedKnown'
    BY <2>2, <2>3 DEF BillingInv, ChargedKnown, Known, Billed, Tells, TookAnswer
  <2> QED
    BY <2>4, <2>5, Zenon DEF BillingInv
<1>4. CASE Verify
  <2>1. /\ [user EXCEPT !.verified = TRUE] \in Users
        /\ [user EXCEPT !.verified = TRUE].suspended = user.suspended
    BY <1>0 DEF Users
  <2>2. user'.suspended = user.suspended
    BY <1>0, <1>4, <2>1, SyncedUser DEF Verify
  <2> QED
    BY <1>1, <1>4, <2>2, BillingKept DEF Verify
<1>5. CASE Approve
  <2>1. /\ [user EXCEPT !.suspended = FALSE] \in Users
        /\ [user EXCEPT !.suspended = FALSE].suspended = FALSE
    BY <1>0 DEF Users
  <2>2. user'.suspended = FALSE
    BY <1>0, <1>5, <2>1, SyncedUser DEF Approve
  <2> QED
    BY <1>5, <2>2, BillingKept DEF Approve
<1> QED
  BY <1>2, <1>3, <1>4, <1>5

(* An event that fails leaves the row as it was, which need not know.      *)
LEMMA AbortSettles ==
  ASSUME BillingInv, TypeOK', Abort
  PROVE  BillingInv'
<1>1. UNCHANGED <<row, sub>> /\ inbox' \subseteq inbox /\ unsure' /\ job'.kind = "none"
  BY DEF Abort, NoJob
<1>2. RowKnown' /\ JobCurrent' /\ TakenInOrder' /\ EventsKnown'
  BY <1>1 DEF BillingInv, RowKnown, JobCurrent, TakenInOrder, EventsKnown
<1> QED
  BY <1>1, <1>2, Zenon DEF BillingInv

(* Nobody is charged when the account is created.                          *)
LEMMA InitSettles == Init => BillingInv
<1> SUFFICES ASSUME Init PROVE BillingInv
  OBVIOUS
<1>1. RowKnown /\ JobCurrent /\ EventsKnown
  BY DEF Init, RowKnown, JobCurrent, EventsKnown, NoJob
<1>2. \A s \in Sub : sub[s].status = "none"
  BY DEF Init
<1>3. TakenInOrder /\ ChargedKnown
  BY <1>2 DEF TakenInOrder, ChargedKnown, Billed
<1> QED
  BY <1>1, <1>3, InitTypes DEF BillingInv

(* Every step keeps what is known of the charged subscription.             *)
LEMMA BillingStep == BillingInv /\ [Next]_vars => BillingInv'
<1> SUFFICES ASSUME BillingInv, [Next]_vars PROVE BillingInv'
  OBVIOUS
<1>0. TypeOK'
  BY TypeStep DEF BillingInv
<1>1. CASE UNCHANGED vars
  <2>1. RowKnown' /\ JobCurrent' /\ TakenInOrder' /\ EventsKnown'
    BY <1>1 DEF vars, BillingInv, RowKnown, JobCurrent, TakenInOrder, EventsKnown
  <2>2. ~unsure' => ChargedKnown'
    BY <1>1 DEF vars, BillingInv, ChargedKnown, Known, Billed, Tells, TookAnswer
  <2> QED
    BY <1>0, <2>1, <2>2, Zenon DEF BillingInv
<1>2. CASE Provider
  <2>1. ASSUME NEW s \in Sub, Lapse(s) PROVE BillingInv'
    BY <1>0, <2>1, EndSettles DEF Lapse
  <2> QED
    BY <1>0, <1>2, <2>1, SubscribeSettles, RenewSettles, FlagSettles DEF Provider
<1>3. CASE Tasks
  BY <1>0, <1>3, StartSettles, CommitEventSettles, FlagSettles, AbortSettles,
     CancelTaskSettles DEF Tasks
<1>4. CASE RequestEnd
  <2>1. row.sub \in Sub
    BY <1>4, BillingTyped DEF BillingInv, RequestEnd
  <2> QED
    BY <1>0, <1>4, <2>1, EndSettles DEF RequestEnd, EndNow
<1>5. CASE Requests
  BY <1>0, <1>4, <1>5, RequestCancelSettles, SuspendSettles, SetRequiredSettles, FlagSettles
     DEF Requests
<1> QED
  BY <1>1, <1>2, <1>3, <1>5 DEF Next

(* "An explicit deactivation must also stop billing" (users/manager.py):   *)
(* what the row knows to be charged when deactivate_user_by_id suspends    *)
(* the user has ended, or cancel_provider_subscription is queued for it.   *)
THEOREM SuspendedUnbilled == Spec => []SuspendedIsNotBilled
<1>1. BillingInv => SuspendedIsNotBilled
  BY DEF BillingInv, ChargedKnown, Known, SuspendedIsNotBilled
<1> QED
  BY <1>1, InitSettles, BillingStep, PTL DEF Spec

(* In whichever order the webhooks come and the tasks commit: when none is *)
(* left, the row names the subscription that is charged and pays for its   *)
(* period.                                                                 *)
THEOREM PaymentsKnown == Spec => []PaidIsKnown
<1>1. BillingInv => PaidIsKnown
  BY DEF BillingInv, ChargedKnown, Known, PaidIsKnown
<1> QED
  BY <1>1, InitSettles, BillingStep, PTL DEF Spec

=============================================================================
