---------------------------- MODULE PurchaseOrder ----------------------------
(***************************************************************************)
(* One purchase order from checkout to refund                              *)
(* (songhive/services/payments, songhive/tasks/payments.py and the payment *)
(* routes).  The buyer pays at the provider.  The provider reports what    *)
(* happened in webhook events, delivered at least once and in any order,   *)
(* which are stored in an inbox (PaymentEvent) and processed by queued     *)
(* tasks.  Periodic sweeps expire overdue orders, reconcile pending ones   *)
(* with the provider, and mail guests their download link.                 *)
(*                                                                         *)
(* A task reads the order, computes, talks to the provider or the mail     *)
(* server, and commits the columns it changed.  There is no row lock and   *)
(* no version check, so a task is two steps, Begin and Commit, and works   *)
(* in between on what it has read.  All items of an order are granted and  *)
(* revoked together, so one entitlement stands for them.                   *)
(***************************************************************************)
EXTENDS Naturals, FiniteSets

CONSTANTS
  MaxAttempts,  \* _OUTBOX_MAX_ATTEMPTS
  MaxJobs,      \* bound: event tasks running at the same time
  MaxEvents,    \* bound: events the provider raises
  MaxFaults     \* bound: crashes, rollbacks and lost enqueues

ASSUME OrderAssumption ==
  /\ MaxAttempts \in Nat \ {0}
  /\ MaxJobs \in Nat \ {0}
  /\ MaxEvents \in Nat
  /\ MaxFaults \in Nat

VARIABLES
  \* The database.
  status,       \* PaymentOrder.status
  guest,        \* the buyer is a guest (buyer_user_id is NULL)
  payId,        \* provider_payment_id is set
  entitlement,  \* PurchaseEntitlement of the order's tracks
  outbox,       \* FulfillmentOutbox row of the guest's mail
  attempts,     \* its attempts
  linked,       \* a mail went out whose RedeemCapability was committed
  row,          \* PaymentEvent rows
  \* The provider.
  session,      \* the checkout session
  charge,       \* the charge made in it
  deferred,     \* it was completed before the money arrived
  dispute,      \* the dispute over the charge
  emitted,      \* the events the provider has raised
  \* The tasks.
  clock,        \* of the order: "fresh", past the grace, past expires_at
  queue,        \* process_payment_event messages
  job,          \* running tasks: what they read of the order
  raised,       \* a handler raised between two of its writes
  faults        \* faults so far

database == <<status, guest, payId, entitlement, outbox, attempts, linked, row>>
provider == <<session, charge, deferred, dispute, emitted>>
vars == <<database, provider, clock, queue, job, raised, faults>>

Event == {"completed", "partial", "refunded", "disputed", "won", "lost"}
Job == Event \cup {"expire", "reconcile", "outbox"}

Status == {"none", "pending", "paid", "expired", "refunded",
           "partially_refunded", "disputed"}

(* What a running task read: the order's status, or that no order matches. *)
Snapshot == Status \cup {"idle", "unknown"}

TypeOK ==
  /\ status \in Status
  /\ guest \in BOOLEAN
  /\ payId \in BOOLEAN
  /\ entitlement \in {"none", "active", "revoked"}
  /\ outbox \in {"none", "pending", "sent", "failed"}
  /\ attempts \in 0..MaxAttempts
  /\ linked \in BOOLEAN
  /\ row \in [Event -> {"absent", "pending", "processed"}]
  /\ session \in {"none", "open", "complete", "expired"}
  /\ charge \in {"none", "awaited", "wrong", "captured", "partly", "refunded"}
  /\ deferred \in BOOLEAN
  /\ dispute \in {"none", "open", "won", "lost"}
  /\ emitted \subseteq Event
  /\ clock \in {"fresh", "due", "overdue"}
  /\ queue \subseteq Event
  /\ job \in [Job -> Snapshot]
  /\ raised \in BOOLEAN
  /\ faults \in 0..MaxFaults

Init ==
  /\ status = "none"
  /\ guest = FALSE
  /\ payId = FALSE
  /\ entitlement = "none"
  /\ outbox = "none"
  /\ attempts = 0
  /\ linked = FALSE
  /\ row = [e \in Event |-> "absent"]
  /\ session = "none"
  /\ charge = "none"
  /\ deferred = FALSE
  /\ dispute = "none"
  /\ emitted = {}
  /\ clock = "fresh"
  /\ queue = {}
  /\ job = [j \in Job |-> "idle"]
  /\ raised = FALSE
  /\ faults = 0

Running == {j \in Job : job[j] # "idle"}

Fault ==
  /\ faults < MaxFaults
  /\ faults' = faults + 1

-----------------------------------------------------------------------------
(***************************************************************************)
(* The buyer, the seller and the provider.                                 *)
(***************************************************************************)

(* checkout commits the order only once the provider opened the session.   *)
Checkout ==
  /\ status = "none"
  /\ status' = "pending"
  /\ session' = "open"
  /\ guest' \in BOOLEAN
  /\ UNCHANGED <<payId, entitlement, outbox, attempts, linked, row>>
  /\ UNCHANGED <<charge, deferred, dispute, emitted>>
  /\ UNCHANGED <<clock, queue, job, raised, faults>>

ProviderOnly ==
  /\ UNCHANGED database
  /\ UNCHANGED <<clock, queue, job, raised, faults>>

(* The buyer completes the session: the money arrives with it, or later    *)
(* (a delayed payment method), or is not what the order asked for.         *)
Pay ==
  /\ session = "open"
  /\ session' = "complete"
  /\ charge' \in {"captured", "wrong", "awaited"}
  /\ deferred' = (charge' = "awaited")
  /\ emitted' = emitted \cup {"completed"}
  /\ UNCHANGED dispute
  /\ ProviderOnly

(* A delayed payment succeeds; no event the code handles says so.          *)
MoneyArrives ==
  /\ charge = "awaited"
  /\ charge' = "captured"
  /\ UNCHANGED <<session, deferred, dispute, emitted>>
  /\ ProviderOnly

SessionExpires ==
  /\ session = "open"
  /\ clock = "overdue"
  /\ session' = "expired"
  /\ UNCHANGED <<charge, deferred, dispute, emitted>>
  /\ ProviderOnly

ProviderRefund ==
  /\ Cardinality(emitted) < MaxEvents
  /\ dispute \in {"none", "won"}
  /\ \/ /\ charge \in {"captured", "partly"}
        /\ charge' = "refunded"
        /\ emitted' = emitted \cup {"refunded"}
     \/ /\ charge = "captured"
        /\ charge' = "partly"
        /\ emitted' = emitted \cup {"partial"}
  /\ UNCHANGED <<session, deferred, dispute>>
  /\ ProviderOnly

(* admin_refund_order only asks the provider; the seller may also refund   *)
(* in the provider's dashboard, at any time.                               *)
AdminRefund == status = "paid" /\ payId /\ ProviderRefund
SellerRefund == ProviderRefund

(* The buyer's bank disputes the charge and decides the dispute.           *)
Dispute ==
  /\ Cardinality(emitted) < MaxEvents
  /\ charge \in {"captured", "partly"}
  /\ \/ /\ dispute = "none"
        /\ dispute' = "open"
        /\ emitted' = emitted \cup {"disputed"}
     \/ /\ dispute = "open"
        /\ dispute' \in {"won", "lost"}
        /\ emitted' = emitted \cup {dispute'}
  /\ UNCHANGED <<session, charge, deferred>>
  /\ ProviderOnly

(* Time passes for the order: _RECONCILE_GRACE, then expires_at.           *)
Passes(from, to) ==
  /\ status # "none"
  /\ clock = from
  /\ clock' = to
  /\ UNCHANGED <<database, provider, queue, job, raised, faults>>

GracePasses == Passes("fresh", "due")
LifetimePasses == Passes("due", "overdue")

-----------------------------------------------------------------------------
(***************************************************************************)
(* Webhooks.                                                               *)
(***************************************************************************)

(* _receive_webhook stores the event and queues a task.  A redelivery of   *)
(* an unprocessed event queues another.  When the broker is down the event *)
(* is stored, and acknowledged, but nothing is queued.                     *)
ReceiveWebhook(e) ==
  /\ e \in emitted
  /\ row[e] # "processed"
  /\ row' = [row EXCEPT ![e] = "pending"]
  /\ \/ queue' = queue \cup {e} /\ UNCHANGED faults
     \/ Fault /\ UNCHANGED queue
  /\ UNCHANGED <<status, guest, payId, entitlement, outbox, attempts, linked>>
  /\ UNCHANGED <<provider, clock, job, raised>>

(* The handlers' lookup of the order: a completed session by its id, a     *)
(* charge by the payment id that mark_order_paid stored.                   *)
Found(e) == e = "completed" \/ payId

-----------------------------------------------------------------------------
(***************************************************************************)
(* Tasks begin: a transaction reads the order.                             *)
(***************************************************************************)
Begin(j, snapshot) ==
  /\ job[j] = "idle"
  /\ j \in Event => Cardinality(Running \cap Event) < MaxJobs
  /\ job' = [job EXCEPT ![j] = snapshot]
  /\ UNCHANGED <<database, provider, clock, raised, faults>>

(* process_payment_event: the message is taken off the queue first; an     *)
(* event another delivery got processed meanwhile is not looked at again.  *)
BeginEvent(e) ==
  /\ e \in queue
  /\ queue' = queue \ {e}
  /\ \/ /\ row[e] = "pending"
        /\ Begin(e, IF Found(e) THEN status ELSE "unknown")
     \/ /\ row[e] = "processed"
        /\ UNCHANGED <<database, provider, clock, job, raised, faults>>

(* expire_pending_orders.                                                  *)
BeginExpire ==
  /\ status = "pending"
  /\ clock = "overdue"
  /\ Begin("expire", status)
  /\ UNCHANGED queue

(* reconcile_pending_orders, once the order is past _RECONCILE_GRACE.      *)
BeginReconcile ==
  /\ status = "pending"
  /\ clock # "fresh"
  /\ Begin("reconcile", status)
  /\ UNCHANGED queue

(* Fault variant: the sweep picks the rows of paid orders only.            *)
BeginOutboxPaid ==
  /\ outbox = "pending"
  /\ status = "paid"
  /\ Begin("outbox", status)
  /\ UNCHANGED queue

(* process_fulfillment_outbox.                                             *)
BeginOutbox ==
  /\ outbox = "pending"
  /\ Begin("outbox", status)
  /\ UNCHANGED queue

-----------------------------------------------------------------------------
(***************************************************************************)
(* What the tasks write.                                                   *)
(***************************************************************************)

(* The ORM writes a column only if its value changed since it was read.    *)
WriteStatus(seen, new) == status' = IF new = seen THEN status ELSE new

(* Fault variant: fulfil whatever was paid.                                *)
MarkPaidAnyAmount(seen) ==
  /\ WriteStatus(seen, "paid")
  /\ payId' = TRUE
  /\ entitlement' = "active"
  /\ outbox' = IF guest THEN "pending" ELSE outbox

(* Fault variant: the order is marked paid and nothing is granted.         *)
MarkPaidOnly(seen) ==
  /\ WriteStatus(seen, "paid")
  /\ payId' = TRUE
  /\ UNCHANGED <<entitlement, outbox>>

(* mark_order_paid: a pending order is granted, or flagged when the amount *)
(* or currency does not match; any other is left alone.  If another task   *)
(* granted it since it was read, inserting the entitlement or the outbox   *)
(* row again fails and the transaction is rolled back; only a registered   *)
(* buyer's grant gets past that, when the query of existing entitlements   *)
(* came late enough to see them.                                           *)
MarkOrderPaid(seen) ==
  \/ /\ seen # "pending"
     /\ UNCHANGED <<status, payId, entitlement, outbox>>
  \/ /\ seen = "pending"
     /\ charge = "wrong"
     /\ WriteStatus(seen, "disputed")
     /\ UNCHANGED <<payId, entitlement, outbox>>
  \/ /\ seen = "pending"
     /\ charge # "wrong"
     /\ entitlement = "none" /\ outbox = "none"
     /\ WriteStatus(seen, "paid")
     /\ payId' = TRUE
     /\ entitlement' = "active"
     /\ outbox' = IF guest THEN "pending" ELSE outbox
  \/ /\ seen = "pending"
     /\ entitlement # "none"
     /\ ~guest
     /\ WriteStatus(seen, "paid")
     /\ UNCHANGED <<payId, entitlement, outbox>>

(* Fault variant: a revocation that forgets the entitlements.              *)
RevokeStatusOnly(seen, fully) ==
  /\ WriteStatus(seen, IF fully THEN "refunded" ELSE "partially_refunded")
  /\ UNCHANGED entitlement

(* revoke_order_entitlements.                                              *)
RevokeOrderEntitlements(seen, fully) ==
  /\ WriteStatus(seen, IF fully THEN "refunded" ELSE "partially_refunded")
  /\ entitlement' = IF fully /\ entitlement = "active" THEN "revoked"
                                                       ELSE entitlement

NotFulfilled == UNCHANGED <<status, payId, entitlement, outbox>>

(* handle_checkout_completed, on the payment status of the session as the  *)
(* event or the provider's answer reports it.                              *)
HandleCheckoutCompleted(seen, unpaid) ==
  \/ unpaid /\ NotFulfilled
  \/ ~unpaid /\ MarkOrderPaid(seen)

(* handle_charge_refunded.                                                 *)
HandleChargeRefunded(seen, fully) ==
  \/ seen = "unknown" /\ NotFulfilled
  \/ /\ seen # "unknown"
     /\ RevokeOrderEntitlements(seen, fully)
     /\ UNCHANGED <<payId, outbox>>

(* handle_dispute: opening flags the order, losing revokes, winning makes  *)
(* it paid again.                                                          *)
HandleDispute(seen, e) ==
  \/ seen = "unknown" /\ NotFulfilled
  \/ /\ seen # "unknown"
     /\ e \in {"disputed", "won"}
     /\ WriteStatus(seen, IF e = "won" THEN "paid" ELSE "disputed")
     /\ UNCHANGED <<payId, entitlement, outbox>>
  \/ /\ seen # "unknown"
     /\ e = "lost"
     /\ RevokeOrderEntitlements(seen, TRUE)
     /\ UNCHANGED <<payId, outbox>>

-----------------------------------------------------------------------------
(***************************************************************************)
(* Tasks end: the transaction commits, or it does not.                     *)
(***************************************************************************)
Done(j) == job[j] # "idle" /\ job' = [job EXCEPT ![j] = "idle"]

(* dispatch_event ran the handler, and the row is marked processed.        *)
CommitEvent(e) ==
  /\ Done(e)
  /\ \/ e = "completed" /\ HandleCheckoutCompleted(job[e], deferred)
     \/ e = "partial" /\ HandleChargeRefunded(job[e], FALSE)
     \/ e = "refunded" /\ HandleChargeRefunded(job[e], TRUE)
     \/ e \in {"disputed", "won", "lost"} /\ HandleDispute(job[e], e)
  /\ row' = [row EXCEPT ![e] = "processed"]
  /\ UNCHANGED <<guest, attempts, linked>>
  /\ UNCHANGED <<provider, clock, queue, raised, faults>>

(* Closing the provider session is best effort.                            *)
CommitExpire ==
  /\ Done("expire")
  /\ WriteStatus(job["expire"], "expired")
  /\ session' \in {session, IF session = "open" THEN "expired" ELSE session}
  /\ UNCHANGED <<guest, payId, entitlement, outbox, attempts, linked, row>>
  /\ UNCHANGED <<charge, deferred, dispute, emitted>>
  /\ UNCHANGED <<clock, queue, raised, faults>>

(* Fault variant: a reconciliation that only ever expires orders.          *)
CommitReconcileExpiryOnly ==
  /\ Done("reconcile")
  /\ \/ /\ session = "expired"
        /\ WriteStatus(job["reconcile"], "expired")
        /\ UNCHANGED <<payId, entitlement, outbox>>
     \/ session # "expired" /\ NotFulfilled
  /\ UNCHANGED <<guest, attempts, linked, row>>
  /\ UNCHANGED <<provider, clock, queue, raised, faults>>

(* _reconcile_order: follow the provider's state of the session.           *)
CommitReconcile ==
  /\ Done("reconcile")
  /\ \/ /\ session = "expired"
        /\ WriteStatus(job["reconcile"], "expired")
        /\ UNCHANGED <<payId, entitlement, outbox>>
     \/ session = "open" /\ NotFulfilled
     \/ /\ session = "complete"
        /\ HandleCheckoutCompleted(job["reconcile"], charge = "awaited")
  /\ UNCHANGED <<guest, attempts, linked, row>>
  /\ UNCHANGED <<provider, clock, queue, raised, faults>>

(* Fault variant: a refused mail counts as sent.                           *)
CommitOutboxRefused ==
  /\ Done("outbox")
  /\ attempts' = attempts + 1
  /\ \/ outbox' = "failed" /\ job["outbox"] # "paid" /\ UNCHANGED linked
     \/ outbox' = "sent" /\ job["outbox"] = "paid" /\ linked' \in {linked, TRUE}
  /\ UNCHANGED <<status, guest, payId, entitlement, row>>
  /\ UNCHANGED <<provider, clock, queue, raised, faults>>

(* The outbox sweep: an order that is not paid fails the row, a mail that  *)
(* was accepted is committed with its capability, and a refused one is     *)
(* tried again until the attempts are used up.                             *)
CommitOutbox ==
  /\ Done("outbox")
  /\ attempts' = attempts + 1
  /\ \/ /\ job["outbox"] # "paid"
        /\ outbox' = "failed"
        /\ UNCHANGED linked
     \/ /\ job["outbox"] = "paid"
        /\ outbox' = "sent"
        /\ linked' = TRUE
     \/ /\ job["outbox"] = "paid"
        /\ outbox' = IF attempts' >= MaxAttempts THEN "failed" ELSE outbox
        /\ UNCHANGED linked
  /\ UNCHANGED <<status, guest, payId, entitlement, row>>
  /\ UNCHANGED <<provider, clock, queue, raised, faults>>

(* A crash, a conflicting insert or an error rolls the transaction back.   *)
(* The queue's message is gone; what was asked of the provider is not.     *)
CutShort(j) ==
  /\ Done(j)
  /\ \/ Fault
     \/ /\ j \in {"completed", "reconcile"}
        /\ job[j] = "pending"
        /\ entitlement # "none" \/ outbox # "none"
        /\ UNCHANGED faults
  /\ session' \in {session, IF j = "expire" /\ session = "open"
                              THEN "expired" ELSE session}
  /\ UNCHANGED <<database, charge, deferred, dispute, emitted>>
  /\ UNCHANGED <<clock, queue, raised>>

(* mark_order_paid raises between marking a guest's order paid and adding  *)
(* its entitlements, where it decrypts the address.  The task records the  *)
(* error and commits, and so commits the mark.                             *)
GrantRaises(j) ==
  /\ j \in {"completed", "reconcile"}
  /\ Done(j)
  /\ Fault
  /\ guest
  /\ job[j] = "pending"
  /\ charge \notin {"awaited", "wrong", "none"}
  /\ j = "completed" => ~deferred
  /\ WriteStatus("pending", "paid")
  /\ payId' = TRUE
  /\ raised' = TRUE
  /\ UNCHANGED <<guest, entitlement, outbox, attempts, linked, row>>
  /\ UNCHANGED <<provider, clock, queue>>

(* resend_redeem inserts an outbox row; the unique (order_id, kind) makes  *)
(* that fail whenever one exists.                                          *)
ResendRedeem ==
  /\ status = "paid"
  /\ guest
  /\ outbox = "none"
  /\ outbox' = "pending"
  /\ UNCHANGED <<status, guest, payId, entitlement, attempts, linked, row>>
  /\ UNCHANGED <<provider, clock, queue, job, raised, faults>>

-----------------------------------------------------------------------------
BeginSweep == BeginExpire \/ BeginReconcile \/ BeginOutbox

CommitJob(j) ==
  \/ j \in Event /\ CommitEvent(j)
  \/ j = "expire" /\ CommitExpire
  \/ j = "reconcile" /\ CommitReconcile
  \/ j = "outbox" /\ CommitOutbox

Next ==
  \/ Checkout \/ Pay \/ MoneyArrives \/ SessionExpires
  \/ AdminRefund \/ SellerRefund \/ Dispute
  \/ GracePasses \/ LifetimePasses \/ ResendRedeem \/ BeginSweep
  \/ \E e \in Event : ReceiveWebhook(e) \/ BeginEvent(e)
  \/ \E j \in Job : CommitJob(j) \/ CutShort(j) \/ GrantRaises(j)

Spec == Init /\ [][Next]_vars

(* Beat keeps scheduling the sweeps, a Celery worker runs them, a task     *)
(* ends, and the grace of two minutes passes.  Nothing is assumed of the   *)
(* delivery of webhooks, and an order's lifetime of hours may outlast the  *)
(* behaviour.                                                              *)
Fairness ==
  /\ WF_vars(GracePasses)
  /\ WF_vars(BeginExpire) /\ WF_vars(BeginReconcile) /\ WF_vars(BeginOutbox)
  /\ WF_vars(CommitExpire) /\ WF_vars(CommitReconcile) /\ WF_vars(CommitOutbox)
  /\ WF_vars(\E e \in Event : CommitEvent(e))

FairSpec == Spec /\ Fairness

-----------------------------------------------------------------------------
(***************************************************************************)
(* Properties.                                                             *)
(***************************************************************************)

(* Whatever order events, sweeps and tasks with outdated reads commit in,  *)
(* the right to the tracks is granted at most once, only for money         *)
(* received, and revoked only when the money went back.                    *)
Money == CASE charge \in {"none", "awaited", "wrong"} -> "no"
           [] charge = "refunded" \/ dispute = "lost" -> "back"
           [] OTHER -> "in"
Right == INSTANCE PurchaseRight WITH money <- Money, right <- entitlement
ImplementsPurchaseRight == Right!Spec

(* An order on record as refunded gives no access, not even to a task that *)
(* read it earlier and grants it meanwhile.                                *)
RefundedHasNoAccess == status = "refunded" => entitlement # "active"

(* Unless a handler raised halfway, an order on record as paid, refunded   *)
(* or contested after payment was granted: no status is reached around the *)
(* grant.                                                                  *)
PaidWasGranted ==
  status \in {"paid", "refunded", "partially_refunded"} /\ ~raised
    => entitlement # "none"

(* A guest's delivery is on record as sent only if a mail went out whose   *)
(* link works, although the mail leaves before the commit.                 *)
SentLinkWorks == outbox = "sent" => linked

(* A payment ends in a grant even if its webhook is lost, unless the       *)
(* order's lifetime ends first, the amount was wrong or a handler raised   *)
(* halfway.                                                                *)
PaymentIsSettled ==
  charge \in {"captured", "partly", "refunded"} ~>
    entitlement # "none" \/ clock = "overdue" \/ status = "disputed" \/ raised

(* No guest's mail stays queued.                                           *)
DeliveryEnds == outbox = "pending" ~> outbox # "pending"

(* webhooks.py: "Out-of-order delivery is therefore safe".  Once every     *)
(* event has been processed, a refunded purchase gives no access.          *)
OutOfOrderIsSafe ==
  /\ charge = "refunded"
  /\ \A e \in emitted : row[e] = "processed"
  /\ Running = {}
  => entitlement # "active"

=============================================================================
