----------------------------- MODULE Membership -----------------------------
(***************************************************************************)
(* One paid account and its subscriptions at the payment provider          *)
(* (songhive/services/payments/membership.py, the subscription handlers of *)
(* webhooks.py, songhive/tasks/payments.py, songhive/users/manager.py).    *)
(* The provider charges, and tells by webhooks, in any order, of which     *)
(* each is worked off by a task; admins suspend, users cancel, and an      *)
(* hourly sweep looks after the flag that lets the user in.                *)
(*                                                                         *)
(* Time passes in billing periods; a grace window is not modelled.         *)
(***************************************************************************)
EXTENDS Naturals, FiniteSets

CONSTANTS
  MaxSubs,   \* bound: subscriptions the user ever takes out
  MaxTime,   \* bound: periods
  MaxFaults  \* bound: provider errors, lost tasks and failed handlers

ASSUME MembershipAssumption ==
  /\ MaxSubs \in Nat \ {0}
  /\ MaxTime \in Nat
  /\ MaxFaults \in Nat

Sub == 1..MaxSubs
Period == 0..(MaxTime + 1)  \* 0 stands for NULL

VARIABLES
  user,      \* User: payments_required, admin_suspended, email_verified, is_active
  row,       \* InstanceSubscription
  sub,       \* the subscriptions at the provider
  now,
  inbox,     \* PaymentEvent rows that are not processed
  cancels,   \* cancel_provider_subscription messages
  job,       \* the transaction of a task and what it has read
  faults,
  unsure     \* history: the row need not agree with the provider: see the hazards

vars == <<user, row, sub, now, inbox, cancels, job, faults, unsure>>

SubStatus == {"none", "active", "past_due", "canceled"}
RowStatus == {"none", "open", "canceled"}  \* "open": incomplete, active, past_due

Users == [required : BOOLEAN, suspended : BOOLEAN, verified : BOOLEAN, active : BOOLEAN]
Rows == [sub : {0} \cup Sub, status : RowStatus, paid : Period]
EventType == {"completed", "paid", "failed", "updated", "deleted"}
Event ==
  [type : EventType,
   sub : Sub, period : Period]

NoJob == [kind |-> "none"]
Jobs ==
  [kind : {"event"}, event : Event, user : Users, row : Rows]
    \cup [kind : {"sweep"}, user : Users, paid : Period]
    \cup {NoJob}

TypeOK ==
  /\ user \in Users
  /\ row \in Rows
  /\ sub \in [Sub -> [status : SubStatus, period : Period, ending : BOOLEAN]]
  /\ now \in 0..MaxTime
  /\ inbox \subseteq Event
  /\ cancels \subseteq Sub
  /\ job \in Jobs
  /\ faults \in 0..MaxFaults
  /\ unsure \in BOOLEAN

(* register_user in paid registration.                                     *)
Init ==
  /\ user = [required |-> TRUE, suspended |-> FALSE, verified |-> FALSE, active |-> FALSE]
  /\ row = [sub |-> 0, status |-> "none", paid |-> 0]
  /\ sub = [s \in Sub |-> [status |-> "none", period |-> 0, ending |-> FALSE]]
  /\ now = 0
  /\ inbox = {}
  /\ cancels = {}
  /\ job = NoJob
  /\ faults = 0
  /\ unsure = FALSE

Fault ==
  /\ faults < MaxFaults
  /\ faults' = faults + 1

Billed(s) == sub[s].status \in {"active", "past_due"}

(* A second subscription is charged besides this one.                      *)
Newer(s) == \E r \in Sub : r > s /\ Billed(r)

-----------------------------------------------------------------------------
(***************************************************************************)
(* The provider.                                                           *)
(***************************************************************************)

EventOf(type, s, period) == [type |-> type, sub |-> s, period |-> period]

Tick ==
  /\ now < MaxTime
  /\ now' = now + 1
  /\ UNCHANGED <<user, row, sub, inbox, cancels, job, faults, unsure>>

(* A checkout is paid: the customer is known to the row before it opens,   *)
(* and nothing asks whether there is a subscription already.               *)
Subscribe(s) ==
  /\ sub[s].status = "none"
  /\ \A r \in Sub : r < s => sub[r].status # "none"
  /\ sub' = [sub EXCEPT ![s].status = "active", ![s].period = now + 1]
  /\ inbox' = inbox \cup {EventOf("completed", s, 0),
                          EventOf("paid", s, now + 1)}
  /\ unsure' = (unsure \/ user.suspended \/ \E r \in Sub : Billed(r))
  /\ UNCHANGED <<user, row, now, cancels, job, faults>>

(* The update that comes with a failed charge writes no more than it.      *)
Renew(s, charged) ==
  /\ Billed(s) /\ ~sub[s].ending
  /\ sub[s].period <= now
  /\ IF charged
       THEN /\ sub' = [sub EXCEPT ![s].status = "active", ![s].period = now + 1]
            /\ inbox' = inbox \cup {EventOf("paid", s, now + 1),
                                    EventOf("updated", s, now + 1)}
       ELSE /\ sub[s].status = "active"
            /\ sub' = [sub EXCEPT ![s].status = "past_due"]
            /\ inbox' = inbox \cup {EventOf("failed", s, 0)}
  /\ UNCHANGED <<user, row, now, cancels, job, faults, unsure>>

Canceled(s) == [sub EXCEPT ![s].status = "canceled"]
Deleted(s) == {EventOf("deleted", s, 0)}

(* A subscription ends at the end of its period, or when charging fails.   *)
Lapse(s) ==
  /\ Billed(s)
  /\ sub[s].period <= now
  /\ sub[s].ending \/ sub[s].status = "past_due"
  /\ sub' = Canceled(s)
  /\ inbox' = inbox \cup Deleted(s)
  /\ UNCHANGED <<user, row, now, cancels, job, faults, unsure>>

-----------------------------------------------------------------------------
(***************************************************************************)
(* The flag.                                                               *)
(***************************************************************************)

(* Mutant: the suspension only holds for those who need not pay.           *)
EffectivePaid(u, paid) ==
  IF u.required THEN u.verified /\ paid > now ELSE ~u.suspended

(* Mutant: whoever has ever paid is in.                                    *)
EffectiveEver(u, paid) ==
  /\ ~u.suspended
  /\ u.required => u.verified /\ paid > 0

(* effective_account_active.                                               *)
Effective(u, paid) ==
  /\ ~u.suspended
  /\ u.required => u.verified /\ paid > now

(* sync_user_active_flag.                                                  *)
Synced(u, paid) == [u EXCEPT !.active = Effective(u, paid)]

-----------------------------------------------------------------------------
(***************************************************************************)
(* The handlers: what each makes of the row it has read.  An event of      *)
(* another subscription finds the row by its customer.                     *)
(***************************************************************************)

Max(a, b) == IF a > b THEN a ELSE b

Completed(r, e) == [r EXCEPT !.sub = e.sub, !.status = "open"]

(* Mutant: the invoice only marks the row.                                 *)
PaidLater(r, e) ==
  [r EXCEPT !.sub = IF @ = 0 THEN e.sub ELSE @, !.status = "open"]

(* apply_invoice_paid: paid_through only ever moves forward.               *)
Paid(r, e) ==
  [r EXCEPT !.sub = IF @ = 0 THEN e.sub ELSE @,
            !.status = IF e.period > r.paid THEN "open" ELSE @,
            !.paid = Max(@, e.period)]

(* handle_subscription_updated rebinds the row to the event's subscription.*)
Updated(r, e) ==
  [r EXCEPT !.sub = e.sub, !.status = "open", !.paid = Max(@, e.period)]

Handled(r, e) ==
  CASE e.type = "completed" -> Completed(r, e)
    [] e.type = "paid" -> Paid(r, e)
    [] e.type = "failed" -> [r EXCEPT !.status = "open"]
    [] e.type = "updated" -> Updated(r, e)
    [] e.type = "deleted" -> [r EXCEPT !.status = "canceled"]

-----------------------------------------------------------------------------
(***************************************************************************)
(* The tasks: a transaction reads the row and the user, and writes the     *)
(* columns it has changed.                                                 *)
(***************************************************************************)

StartEvent(e) ==
  /\ job = NoJob
  /\ e \in inbox
  /\ job' = [kind |-> "event", event |-> e, user |-> user, row |-> row]
  /\ UNCHANGED <<user, row, sub, now, inbox, cancels, faults, unsure>>

(* sweep_membership_expirations, and the login of an inactive user.        *)
StartSweep ==
  /\ job = NoJob
  /\ user.required
  /\ job' = [kind |-> "sweep", user |-> user, paid |-> row.paid]
  /\ UNCHANGED <<user, row, sub, now, inbox, cancels, faults, unsure>>

Changed(current, read, new) ==
  [c \in DOMAIN current |-> IF new[c] = read[c] THEN current[c] ELSE new[c]]

(* All events but checkout.session.completed go on to the flag.            *)
CommitEvent ==
  /\ job.kind = "event"
  /\ LET e == job.event
         r == Handled(job.row, e)
         u == IF e.type = "completed" THEN job.user ELSE Synced(job.user, r.paid)
     IN  /\ row' = Changed(row, job.row, r)
         /\ user' = Changed(user, job.user, u)
         /\ inbox' = inbox \ {e}
         /\ unsure' = (unsure \/ (row' # row /\ job.row # row) \/ e.sub < row.sub)
  /\ job' = NoJob
  /\ UNCHANGED <<sub, now, cancels, faults>>

CommitSweep ==
  /\ job.kind = "sweep"
  /\ user' = Changed(user, job.user, Synced(job.user, job.paid))
  /\ job' = NoJob
  /\ UNCHANGED <<row, sub, now, inbox, cancels, faults, unsure>>

(* The handler fails: the task swallows the exception that was to retry it,*)
(* and the event stays where nothing picks it up again.                    *)
Abort ==
  /\ job.kind = "event"
  /\ Fault
  /\ inbox' = inbox \ {job.event}
  /\ job' = NoJob
  /\ unsure' = TRUE
  /\ UNCHANGED <<user, row, sub, now, cancels>>

(* The provider ends a subscription at once; there may be none to end.     *)
EndNow(s) ==
  /\ Billed(s)
  /\ sub' = Canceled(s)
  /\ inbox' = inbox \cup Deleted(s)
  /\ UNCHANGED faults
Refuses(s) ==
  /\ IF Billed(s) THEN Fault ELSE UNCHANGED faults
  /\ UNCHANGED <<sub, inbox>>

OverRow == [row EXCEPT !.status = "canceled", !.paid = 0]

(* cancel_provider_subscription.  A failure is swallowed here as well.     *)
CancelTask(s, ok) ==
  /\ s \in cancels
  /\ cancels' = cancels \ {s}
  /\ IF ok
       THEN EndNow(s) /\ row' = IF row.sub = s THEN OverRow ELSE row
       ELSE Refuses(s) /\ UNCHANGED row
  /\ unsure' = (unsure \/ (~ok /\ Billed(s)) \/ (row' # row /\ Newer(s)))
  /\ UNCHANGED <<user, now, job>>

-----------------------------------------------------------------------------
(***************************************************************************)
(* Requests.                                                               *)
(***************************************************************************)

Verify ==
  /\ ~user.verified
  /\ LET u == [user EXCEPT !.verified = TRUE]
     IN  user' = IF u.required THEN Synced(u, row.paid) ELSE u
  /\ UNCHANGED <<row, sub, now, inbox, cancels, job, faults, unsure>>

(* request_cancel at the end of the period: the row takes what the provider*)
(* answers.                                                                *)
RequestCancel ==
  /\ row.sub # 0
  /\ Billed(row.sub)
  /\ LET s == row.sub
         r == [row EXCEPT !.status = "open", !.paid = sub[s].period]
     IN  /\ sub' = [sub EXCEPT ![s].ending = TRUE]
         /\ inbox' = inbox \cup {EventOf("updated", s, sub[s].period)}
         /\ row' = r
         /\ user' = Synced(user, r.paid)
         /\ unsure' = (unsure \/ Newer(s))
  /\ UNCHANGED <<now, cancels, job, faults>>

(* request_cancel at once.                                                 *)
RequestEnd ==
  /\ row.sub # 0
  /\ EndNow(row.sub)
  /\ row' = OverRow
  /\ user' = Synced(user, OverRow.paid)
  /\ unsure' = (unsure \/ Newer(row.sub))
  /\ UNCHANGED <<now, cancels, job>>

Over == row.sub = 0 \/ row.status \in {"canceled", "none"}

(* Mutant: the account is deactivated and its billing is forgotten.        *)
SuspendOnly(ok) ==
  /\ ok /\ ~user.suspended
  /\ user' = [user EXCEPT !.suspended = TRUE, !.active = FALSE]
  /\ UNCHANGED <<row, sub, now, inbox, cancels, job, faults, unsure>>

(* deactivate_user_by_id: billing is cancelled first; if the provider does *)
(* not answer, a task is to do it.                                         *)
Suspend(ok) ==
  /\ ~user.suspended
  /\ user' = [user EXCEPT !.suspended = TRUE, !.active = FALSE]
  /\ \/ /\ Over /\ ok
        /\ UNCHANGED <<sub, row, inbox, cancels, faults>>
     \/ /\ ~Over /\ ok
        /\ EndNow(row.sub)
        /\ row' = OverRow
        /\ UNCHANGED cancels
     \/ /\ ~Over /\ ~ok
        /\ Refuses(row.sub)
        /\ cancels' = cancels \cup {row.sub}
        /\ UNCHANGED row
  /\ unsure' = (unsure \/ \E s \in Sub : Billed(s) /\ s # row.sub)
  /\ UNCHANGED <<now, job>>

(* approve_user.                                                           *)
Approve ==
  /\ user.suspended
  /\ user' = Synced([user EXCEPT !.suspended = FALSE], row.paid)
  /\ UNCHANGED <<row, sub, now, inbox, cancels, job, faults, unsure>>

(* set_payments_required, which may cancel the subscription.               *)
SetRequired(cancel, ok) ==
  /\ \/ /\ ~cancel /\ ok
        /\ UNCHANGED <<sub, row, inbox, cancels, faults>>
     \/ /\ cancel /\ ok /\ row.sub # 0
        /\ EndNow(row.sub)
        /\ row' = OverRow
        /\ UNCHANGED cancels
     \/ /\ cancel /\ ~ok /\ row.sub # 0
        /\ Refuses(row.sub)
        /\ cancels' = cancels \cup {row.sub}
        /\ UNCHANGED row
  /\ user' = Synced([user EXCEPT !.required = ~@], row'.paid)
  /\ unsure' = (unsure \/ (row' # row /\ Newer(row.sub)))
  /\ UNCHANGED <<now, job>>

-----------------------------------------------------------------------------
Provider ==
  \/ Tick
  \/ \E s \in Sub :
       \/ Subscribe(s) \/ Lapse(s)
       \/ \E charged \in BOOLEAN : Renew(s, charged)

Tasks ==
  \/ \E e \in inbox : StartEvent(e)
  \/ StartSweep \/ CommitEvent \/ CommitSweep \/ Abort
  \/ \E s \in Sub, ok \in BOOLEAN : CancelTask(s, ok)

Requests ==
  \/ Verify \/ Approve \/ RequestCancel \/ RequestEnd
  \/ \E ok \in BOOLEAN : \/ Suspend(ok)
                         \/ \E cancel \in BOOLEAN : SetRequired(cancel, ok)

Next == Provider \/ Tasks \/ Requests

Spec == Init /\ [][Next]_vars

(* The sweep comes every hour, and a task that has begun ends.             *)
Fairness == SF_vars(StartSweep) /\ WF_vars(CommitEvent \/ CommitSweep)

FairSpec == Spec /\ Fairness

-----------------------------------------------------------------------------
(***************************************************************************)
(* Properties.                                                             *)
(***************************************************************************)

(* "An admin suspension always wins": no webhook, sweep or request lets a  *)
(* suspended user in, but for a task that has read the user before.        *)
BegunBefore == job # NoJob /\ ~job.user.suspended
SuspendedStaysOut ==
  [][user'.suspended /\ user'.active => user.active \/ BegunBefore]_vars

(* What the row knows to be charged when the user is suspended ends, or    *)
(* its cancellation is queued.                                             *)
SuspendedIsNotBilled ==
  user.suspended /\ ~unsure => \A s \in Sub : Billed(s) => s \in cancels

(* Whoever must pay and is suspended or has not paid is out in the end,    *)
(* even after a race of the above: the sweep sees to it.                   *)
KeptOutInTheEnd ==
  <>[](user.required /\ (user.suspended \/ row.paid <= now)) => <>[]~user.active

(* Webhooks come in any order: once all are worked off, the row knows of   *)
(* every period the provider has been paid for, and the user has access    *)
(* until its end.                                                          *)
PaidIsKnown ==
  inbox = {} /\ job = NoJob /\ ~unsure =>
    \A s \in Sub : Billed(s) => row.sub = s /\ row.paid >= sub[s].period

=============================================================================
