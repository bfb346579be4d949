------------------------- MODULE PurchaseOrderProofs -------------------------
(***************************************************************************)
(* Proofs about PurchaseOrder, for any number of tasks, events, attempts   *)
(* and faults: the order implements the abstract right to a purchase, and  *)
(* its status says of access what the entitlement does.                    *)
(***************************************************************************)
EXTENDS PurchaseOrder, TLAPS

(* The mail's row is worked on while it is pending, and it is pending      *)
(* while there are attempts left.                                          *)
TypeInv ==
  /\ TypeOK
  /\ outbox = "none" => attempts = 0
  /\ outbox = "pending" => attempts < MaxAttempts
  /\ job["outbox"] # "idle" => outbox = "pending"

(* What the provider has reported has happened, and is not undone.         *)
ProviderInv ==
  /\ status = "none" => session = "none"
  /\ session = "none" => charge = "none"
  /\ session = "complete" \/ "completed" \in emitted => charge # "none"
  /\ session = "open" => charge = "none"
  /\ charge = "awaited" => deferred
  /\ dispute # "none" => charge \notin {"none", "awaited", "wrong"}
  /\ "refunded" \in emitted => charge = "refunded"
  /\ "lost" \in emitted => dispute = "lost"
  /\ \A e \in Event : e \in queue \/ row[e] # "absent" \/ job[e] # "idle" => e \in emitted

(* What is on record is what was granted.  A payment id is stored with the *)
(* grant, and the events that are looked up by it are handled only then.   *)
GrantInv ==
  /\ status = "refunded" => entitlement # "active"
  /\ payId /\ ~raised => entitlement # "none"
  /\ PaidWasGranted
  /\ \A e \in Event \ {"completed"} : job[e] \notin {"idle", "unknown"} => payId

OrderInv == TypeInv /\ ProviderInv /\ GrantInv

-----------------------------------------------------------------------------
(* Before the checkout.                                                    *)
LEMMA InitInv == Init => OrderInv
<1> SUFFICES ASSUME Init PROVE OrderInv
  OBVIOUS
<1>1. attempts \in 0..MaxAttempts /\ faults \in 0..MaxFaults /\ attempts < MaxAttempts
  BY OrderAssumption DEF Init
<1>2. row \in [Event -> {"absent", "pending", "processed"}] /\ job \in [Job -> Snapshot]
  BY DEF Init, Snapshot
<1>3. /\ guest \in BOOLEAN /\ payId \in BOOLEAN /\ linked \in BOOLEAN
      /\ deferred \in BOOLEAN /\ raised \in BOOLEAN
  BY DEF Init
<1>4. TypeOK
  BY <1>1, <1>2, <1>3, Zenon DEF Init, TypeOK, Status
<1>5. \A j \in Job : job[j] = "idle"
  BY DEF Init
<1>6. Event \subseteq Job /\ "outbox" \in Job
  BY DEF Job
<1>7. TypeInv
  BY <1>1, <1>4, <1>5, <1>6 DEF TypeInv, Init
<1>8. ProviderInv
  BY <1>5, <1>6 DEF ProviderInv, Init
<1>9. GrantInv
  BY <1>5, <1>6 DEF GrantInv, PaidWasGranted, Init
<1> QED
  BY <1>7, <1>8, <1>9 DEF OrderInv

-----------------------------------------------------------------------------
(* Fulfilment writes a status and at most queues the mail.                 *)
LEMMA MarkTypes ==
  ASSUME TypeOK, NEW seen, NEW unpaid, HandleCheckoutCompleted(seen, unpaid)
  PROVE  /\ status' \in Status /\ payId' \in BOOLEAN
         /\ entitlement' \in {"none", "active", "revoked"}
         /\ outbox' = outbox \/ (outbox = "none" /\ outbox' = "pending")
BY DEF HandleCheckoutCompleted, MarkOrderPaid, NotFulfilled, WriteStatus, TypeOK, Status

(* So does the handler of any event.                                       *)
LEMMA EventTypes ==
  ASSUME TypeOK, NEW e \in Event, CommitEvent(e)
  PROVE  /\ status' \in Status /\ payId' \in BOOLEAN
         /\ entitlement' \in {"none", "active", "revoked"}
         /\ outbox' = outbox \/ (outbox = "none" /\ outbox' = "pending")
<1>1. CASE HandleCheckoutCompleted(job[e], deferred)
  BY <1>1, MarkTypes
<1>2. CASE HandleChargeRefunded(job[e], FALSE) \/ HandleChargeRefunded(job[e], TRUE)
  BY <1>2 DEF HandleChargeRefunded, RevokeOrderEntitlements, NotFulfilled, WriteStatus,
              TypeOK, Status
<1>3. CASE HandleDispute(job[e], e)
  BY <1>3 DEF HandleDispute, RevokeOrderEntitlements, NotFulfilled, WriteStatus,
              TypeOK, Status
<1> QED
  BY <1>1, <1>2, <1>3 DEF CommitEvent

(* A task that ends, and one that reads the order.                         *)
LEMMA JobTypes ==
  ASSUME TypeOK, NEW j \in Job
  PROVE  /\ Done(j) => /\ job' \in [Job -> Snapshot] /\ job'[j] = "idle"
                       /\ \A k \in Job \ {j} : job'[k] = job[k]
         /\ \A s \in Snapshot : Begin(j, s) =>
              /\ job' \in [Job -> Snapshot] /\ job'[j] = s
              /\ \A k \in Job \ {j} : job'[k] = job[k]
BY DEF Done, Begin, TypeOK, Snapshot

(* What the provider, the buyer and the webhook route do.                  *)
Outside ==
  \/ Checkout \/ Pay \/ MoneyArrives \/ SessionExpires
  \/ AdminRefund \/ SellerRefund \/ Dispute
  \/ GracePasses \/ LifetimePasses \/ ResendRedeem
  \/ \E e \in Event : ReceiveWebhook(e)

(* None of them reaches into a running task.                               *)
LEMMA OutsideTypes == TypeInv /\ Outside => TypeInv'
<1> SUFFICES ASSUME TypeInv, Outside PROVE TypeInv'
  OBVIOUS
<1> USE DEF TypeInv, TypeOK
<1>1. CASE Checkout
  BY <1>1 DEF Checkout, Status
<1>2. ASSUME ProviderOnly, session' \in {"none", "open", "complete", "expired"},
             charge' \in {"none", "awaited", "wrong", "captured", "partly", "refunded"},
             deferred' \in BOOLEAN, dispute' \in {"none", "open", "won", "lost"},
             emitted' \subseteq Event
      PROVE TypeInv'
  BY <1>2 DEF ProviderOnly, database
<1>3. CASE Pay
  <2>1. deferred' \in BOOLEAN
    BY <1>3 DEF Pay
  <2> QED
    BY <1>2, <1>3, <2>1 DEF Pay, Event
<1>4. CASE MoneyArrives \/ SessionExpires
  BY <1>2, <1>4 DEF MoneyArrives, SessionExpires
<1>5. CASE ProviderRefund
  BY <1>2, <1>5 DEF ProviderRefund, Event
<1>6. CASE Dispute
  BY <1>2, <1>6 DEF Dispute, Event
<1>7. CASE GracePasses \/ LifetimePasses
  BY <1>7 DEF GracePasses, LifetimePasses, Passes, database, provider
<1>8. CASE ResendRedeem
  BY <1>8, OrderAssumption DEF ResendRedeem, provider
<1>9. ASSUME NEW e \in Event, ReceiveWebhook(e) PROVE TypeInv'
  <2>1. faults' \in 0..MaxFaults
    BY <1>9, OrderAssumption DEF ReceiveWebhook, Fault
  <2>2. queue' \subseteq Event
    BY <1>9 DEF ReceiveWebhook
  <2> QED
    BY <1>9, <2>1, <2>2 DEF ReceiveWebhook, provider
<1> QED
  BY <1>1, <1>3, <1>4, <1>5, <1>6, <1>7, <1>8, <1>9 DEF Outside, AdminRefund, SellerRefund

(* A task reads the order.                                                 *)
LEMMA BeginTypes ==
  TypeInv /\ (BeginSweep \/ \E e \in Event : BeginEvent(e)) => TypeInv'
<1> SUFFICES ASSUME TypeInv, BeginSweep \/ \E e \in Event : BeginEvent(e)
             PROVE  TypeInv'
  OBVIOUS
<1>1. status \in Snapshot /\ "unknown" \in Snapshot
  BY DEF TypeInv, TypeOK, Snapshot
<1>2. {"expire", "reconcile", "outbox"} \subseteq Job /\ Event \subseteq Job /\ "outbox" \notin Event
  BY DEF Job, Event
<1>3. ASSUME NEW j \in Job, NEW s \in Snapshot, Begin(j, s), queue' \subseteq queue,
             j = "outbox" => outbox = "pending"
      PROVE  TypeInv'
  <2>1. job' \in [Job -> Snapshot] /\ \A k \in Job \ {j} : job'[k] = job[k]
    BY <1>3, JobTypes DEF TypeInv
  <2> QED
    BY <1>2, <1>3, <2>1 DEF Begin, TypeInv, TypeOK, database, provider
<1>4. CASE BeginSweep
  BY <1>1, <1>2, <1>3, <1>4 DEF BeginSweep, BeginExpire, BeginReconcile, BeginOutbox
<1>5. ASSUME NEW e \in Event, BeginEvent(e) PROVE TypeInv'
  <2>1. CASE \E s \in Snapshot : Begin(e, s)
    BY <1>2, <1>3, <1>5, <2>1 DEF BeginEvent
  <2>2. CASE UNCHANGED <<database, provider, clock, job, raised, faults>>
    BY <1>5, <2>2 DEF BeginEvent, TypeInv, TypeOK, database, provider
  <2> QED
    BY <1>1, <1>5, <2>1, <2>2 DEF BeginEvent
<1> QED
  BY <1>4, <1>5

(* A task ends.                                                            *)
LEMMA EndTypes ==
  ASSUME TypeInv, NEW j \in Job, CommitJob(j) \/ CutShort(j) \/ GrantRaises(j)
  PROVE  TypeInv'
<1> USE DEF TypeInv
<1>1. "outbox" \in Job /\ "outbox" \notin Event
  BY DEF Job, Event
<1>2. ASSUME Done(j), row' \in [Event -> {"absent", "pending", "processed"}],
             status' \in Status, payId' \in BOOLEAN, raised' \in BOOLEAN,
             entitlement' \in {"none", "active", "revoked"},
             session' \in {"none", "open", "complete", "expired"},
             faults' \in 0..MaxFaults,
             outbox' = outbox \/ (outbox = "none" /\ outbox' = "pending"),
             UNCHANGED <<guest, attempts, linked, charge, deferred, dispute, emitted,
                         clock, queue>>
      PROVE  TypeInv'
  <2>1. /\ job' \in [Job -> Snapshot] /\ job'[j] = "idle"
        /\ \A k \in Job \ {j} : job'[k] = job[k]
    BY <1>2, JobTypes
  <2>2. /\ outbox' \in {"none", "pending", "sent", "failed"}
        /\ outbox' = "none" => attempts' = 0
        /\ outbox' = "pending" => attempts' < MaxAttempts
    BY <1>2, OrderAssumption DEF TypeOK
  <2>3. job'["outbox"] # "idle" => outbox' = "pending"
    BY <1>1, <1>2, <2>1
  <2>4. TypeOK'
    BY <1>2, <2>1, <2>2, Zenon DEF TypeOK
  <2> QED
    BY <2>2, <2>3, <2>4
<1>3. ASSUME NEW e \in Event, j = e, CommitEvent(e) PROVE TypeInv'
  BY <1>2, <1>3, EventTypes DEF CommitEvent, TypeOK, provider
<1>4. CASE CommitExpire /\ j = "expire"
  BY <1>2, <1>4 DEF CommitExpire, WriteStatus, TypeOK, Status
<1>5. CASE CommitReconcile /\ j = "reconcile"
  <2>1. /\ status' \in Status /\ payId' \in BOOLEAN
        /\ entitlement' \in {"none", "active", "revoked"}
        /\ outbox' = outbox \/ (outbox = "none" /\ outbox' = "pending")
    <3>1. CASE HandleCheckoutCompleted(job["reconcile"], charge = "awaited")
      BY <3>1, MarkTypes
    <3>2. CASE /\ UNCHANGED <<payId, entitlement, outbox>>
               /\ (NotFulfilled \/ WriteStatus(job["reconcile"], "expired"))
      BY <3>2 DEF NotFulfilled, WriteStatus, TypeOK, Status
    <3> QED
      BY <1>5, <3>1, <3>2 DEF CommitReconcile, NotFulfilled
  <2> QED
    BY <1>2, <1>5, <2>1 DEF CommitReconcile, TypeOK, provider
<1>6. CASE CommitOutbox /\ j = "outbox"
  <2>1. job' \in [Job -> Snapshot] /\ job'["outbox"] = "idle" /\ job["outbox"] # "idle"
    BY <1>6, JobTypes DEF CommitOutbox, Done
  <2>2. outbox = "pending" /\ attempts < MaxAttempts /\ attempts' = attempts + 1
    BY <1>6, <2>1 DEF CommitOutbox
  <2>3. /\ attempts' \in 0..MaxAttempts
        /\ outbox' \in {"pending", "sent", "failed"}
        /\ outbox' = "pending" => attempts' < MaxAttempts
    BY <1>6, <2>2, OrderAssumption DEF CommitOutbox, TypeOK
  <2>4. linked' \in BOOLEAN
    BY <1>6 DEF CommitOutbox, TypeOK
  <2>5. /\ UNCHANGED <<status, guest, payId, entitlement, row>>
        /\ UNCHANGED <<provider, clock, queue, raised, faults>>
    BY <1>6 DEF CommitOutbox
  <2>6. TypeOK'
    BY <2>1, <2>3, <2>4, <2>5 DEF TypeOK, provider
  <2> QED
    BY <2>1, <2>3, <2>6
<1>7. CASE CutShort(j)
  <2>1. faults' \in 0..MaxFaults
    BY <1>7, OrderAssumption DEF CutShort, Fault, TypeOK
  <2> QED
    BY <1>2, <1>7, <2>1 DEF CutShort, TypeOK, database
<1>8. CASE GrantRaises(j)
  <2>1. faults' \in 0..MaxFaults
    BY <1>8, OrderAssumption DEF GrantRaises, Fault, TypeOK
  <2> QED
    BY <1>2, <1>8, <2>1 DEF GrantRaises, WriteStatus, TypeOK, Status, provider
<1> QED
  BY <1>3, <1>4, <1>5, <1>6, <1>7, <1>8 DEF CommitJob

(* Every step of the module.                                               *)
LEMMA TypeStep == TypeInv /\ [Next]_vars => TypeInv'
<1>1. TypeInv /\ UNCHANGED vars => TypeInv'
  BY DEF TypeInv, TypeOK, vars, database, provider
<1> QED
  BY <1>1, OutsideTypes, BeginTypes, EndTypes DEF Next, Outside

(* Orders, entitlements, the outbox, the inbox and the tasks keep their    *)
(* types, and no mail is tried more often than _OUTBOX_MAX_ATTEMPTS.       *)
THEOREM TypeCorrect == Spec => []TypeOK
<1>1. Init => TypeInv
  BY InitInv DEF OrderInv
<1>2. TypeInv => TypeOK
  BY DEF TypeInv
<1> QED
  BY <1>1, <1>2, TypeStep, PTL DEF Spec

-----------------------------------------------------------------------------
(* What a task that ends leaves of the provider, the queue and the order's *)
(* rows: it may close the checkout session, and takes back no status.      *)
LEMMA EndKeeps ==
  ASSUME TypeOK, NEW j \in Job, CommitJob(j) \/ CutShort(j) \/ GrantRaises(j)
  PROVE  /\ UNCHANGED <<charge, deferred, dispute, emitted, queue, guest>>
         /\ session' = session \/ (session = "open" /\ session' = "expired")
         /\ status' = "none" => status = "none"
         /\ Done(j)
         /\ row' = row \/ (j \in Event /\ row' = [row EXCEPT ![j] = "processed"])
<1>1. ASSUME NEW e \in Event, j = e, CommitEvent(e) PROVE status' # "none" \/ status' = status
  BY <1>1 DEF CommitEvent, HandleCheckoutCompleted, MarkOrderPaid, HandleChargeRefunded,
              HandleDispute, RevokeOrderEntitlements, NotFulfilled, WriteStatus
<1>2. CASE j \in Event /\ CommitEvent(j)
  BY <1>1, <1>2 DEF CommitEvent, provider
<1>3. CASE CommitExpire /\ j = "expire"
  BY <1>3 DEF CommitExpire, WriteStatus
<1>4. CASE CommitReconcile /\ j = "reconcile"
  BY <1>4 DEF CommitReconcile, HandleCheckoutCompleted, MarkOrderPaid, NotFulfilled,
              WriteStatus, provider
<1>5. CASE CommitOutbox /\ j = "outbox"
  BY <1>5 DEF CommitOutbox, provider
<1>6. CASE CutShort(j)
  BY <1>6 DEF CutShort, database
<1>7. CASE GrantRaises(j)
  BY <1>7 DEF GrantRaises, WriteStatus, provider
<1> QED
  BY <1>2, <1>3, <1>4, <1>5, <1>6, <1>7 DEF CommitJob

(* An event is stored, queued and worked off after it was raised.          *)
LEMMA ProviderStep == TypeInv /\ ProviderInv /\ [Next]_vars => ProviderInv'
<1> SUFFICES ASSUME TypeInv, ProviderInv, [Next]_vars PROVE ProviderInv'
  OBVIOUS
<1>0. TypeOK /\ Event \subseteq Job /\ {"expire", "reconcile", "outbox"} \cap Event = {}
  BY DEF TypeInv, Job, Event
<1> USE DEF ProviderInv
<1>1. ASSUME UNCHANGED <<charge, deferred, dispute, emitted>>,
             session' = session \/ (session = "open" /\ session' = "expired"),
             status' = "none" => status = "none",
             \A e \in Event : e \in queue' \/ row'[e] # "absent" \/ job'[e] # "idle" =>
                e \in queue \/ row[e] # "absent" \/ job[e] # "idle"
      PROVE ProviderInv'
  BY <1>1
<1>2. CASE Checkout
  BY <1>2 DEF Checkout
<1>3. CASE Pay
  BY <1>3 DEF Pay, ProviderOnly, database
<1>4. CASE MoneyArrives
  BY <1>4 DEF MoneyArrives, ProviderOnly, database
<1>5. CASE ProviderRefund
  BY <1>5 DEF ProviderRefund, ProviderOnly, database
<1>6. CASE Dispute
  BY <1>6 DEF Dispute, ProviderOnly, database
<1>7. CASE SessionExpires
  BY <1>1, <1>7 DEF SessionExpires, ProviderOnly, database
<1>8. CASE GracePasses \/ LifetimePasses \/ ResendRedeem \/ UNCHANGED vars
  BY <1>1, <1>8
     DEF GracePasses, LifetimePasses, Passes, ResendRedeem, vars, provider, database
<1>9. ASSUME NEW e \in Event, ReceiveWebhook(e) PROVE ProviderInv'
  BY <1>0, <1>9 DEF ReceiveWebhook, provider, TypeOK
<1>10. ASSUME NEW j \in Job, NEW s \in Snapshot, Begin(j, s), queue' \subseteq queue,
              j \in Event => row[j] # "absent"
       PROVE ProviderInv'
  <2>1. \A k \in Job \ {j} : job'[k] = job[k]
    BY <1>0, <1>10, JobTypes
  <2> QED
    BY <1>0, <1>1, <1>10, <2>1 DEF Begin, database, provider
<1>11. status \in Snapshot /\ "unknown" \in Snapshot
  BY <1>0 DEF TypeOK, Snapshot
<1>12. ASSUME NEW e \in Event, BeginEvent(e) PROVE ProviderInv'
  <2>1. CASE row[e] = "pending" /\ \E s \in Snapshot : Begin(e, s)
    BY <1>0, <1>10, <1>12, <2>1 DEF BeginEvent
  <2>2. CASE UNCHANGED <<database, provider, clock, job, raised, faults>>
    BY <1>1, <1>12, <2>2 DEF BeginEvent, database, provider
  <2> QED
    BY <1>11, <1>12, <2>1, <2>2 DEF BeginEvent
<1>13. CASE BeginSweep
  <2>1. {"expire", "reconcile", "outbox"} \subseteq Job
    BY DEF Job
  <2> QED
    BY <1>0, <1>10, <1>11, <1>13, <2>1
       DEF BeginSweep, BeginExpire, BeginReconcile, BeginOutbox
<1>14. ASSUME NEW j \in Job, CommitJob(j) \/ CutShort(j) \/ GrantRaises(j)
       PROVE ProviderInv'
  <2>1. /\ job[j] # "idle" /\ job'[j] = "idle" /\ \A k \in Job \ {j} : job'[k] = job[k]
    BY <1>0, <1>14, EndKeeps, JobTypes DEF Done
  <2>2. \A e \in Event \ {j} : row'[e] = row[e]
    BY <1>0, <1>14, EndKeeps DEF TypeOK
  <2>3. \A e \in Event : e \in queue' \/ row'[e] # "absent" \/ job'[e] # "idle" =>
           e \in queue \/ row[e] # "absent" \/ job[e] # "idle"
    BY <1>0, <1>14, <2>1, <2>2, EndKeeps
  <2> QED
    BY <1>0, <1>1, <1>14, <2>3, EndKeeps
<1> QED
  BY <1>2, <1>3, <1>4, <1>5, <1>6, <1>7, <1>8, <1>9, <1>12, <1>13, <1>14
     DEF Next, AdminRefund, SellerRefund

-----------------------------------------------------------------------------
(* The money of a charge and its dispute.                                  *)
LEMMA MoneyIs ==
  ASSUME ProviderInv
  PROVE  /\ Money = "no" <=> charge \in {"none", "awaited", "wrong"}
         /\ Money = "back" <=> /\ charge \notin {"none", "awaited", "wrong"}
                               /\ charge = "refunded" \/ dispute = "lost"
         /\ Money \in {"no", "in", "back"}
<1>1. dispute = "lost" => charge \notin {"none", "awaited", "wrong"}
  BY DEF ProviderInv
<1> QED
  BY <1>1 DEF Money

(* The same of the state after a step.                                     *)
LEMMA MoneyBecomes ==
  ASSUME ProviderInv'
  PROVE  /\ Money' = "no" <=> charge' \in {"none", "awaited", "wrong"}
         /\ Money' = "back" <=> /\ charge' \notin {"none", "awaited", "wrong"}
                                /\ charge' = "refunded" \/ dispute' = "lost"
         /\ Money' \in {"no", "in", "back"}
<1>1. dispute' = "lost" => charge' \notin {"none", "awaited", "wrong"}
  BY DEF ProviderInv
<1> QED
  BY <1>1 DEF Money

(* Money moves, or stays, while the right stays.                           *)
LEMMA MoneySteps ==
  ASSUME OrderInv, ProviderInv', UNCHANGED entitlement,
         Pay \/ MoneyArrives \/ ProviderRefund \/ Dispute \/ UNCHANGED <<charge, dispute>>
  PROVE  [Right!Next]_<<Money, entitlement>>
<1> USE DEF OrderInv, ProviderInv, Right!Next, Right!Receive, Right!GiveBack
<1>1. CASE Pay
  BY <1>1, MoneyIs, MoneyBecomes DEF Pay
<1>2. CASE MoneyArrives
  BY <1>2, MoneyIs, MoneyBecomes DEF MoneyArrives
<1>3. CASE ProviderRefund
  BY <1>3, MoneyIs, MoneyBecomes DEF ProviderRefund
<1>4. CASE Dispute
  BY <1>4, MoneyIs, MoneyBecomes DEF Dispute
<1>5. CASE UNCHANGED <<charge, dispute>>
  BY <1>5 DEF Money
<1> QED
  BY <1>1, <1>2, <1>3, <1>4, <1>5

(* A task grants a right that was paid for, and revokes one whose money    *)
(* went back.                                                              *)
LEMMA RightSteps ==
  ASSUME OrderInv, NEW j \in Job, CommitJob(j) \/ CutShort(j) \/ GrantRaises(j)
  PROVE  [Right!Next]_<<Money, entitlement>>
<1>0. TypeOK /\ Event \subseteq Job /\ UNCHANGED Money
  <2>1. UNCHANGED <<charge, dispute>>
    BY EndKeeps DEF OrderInv, TypeInv
  <2> QED
    BY <2>1 DEF OrderInv, TypeInv, Money, Job
<1>1. UNCHANGED entitlement => [Right!Next]_<<Money, entitlement>>
  BY <1>0
<1>2. ASSUME entitlement = "none", entitlement' = "active",
             charge \notin {"none", "awaited", "wrong"}
      PROVE  [Right!Next]_<<Money, entitlement>>
  BY <1>0, <1>2, MoneyIs DEF OrderInv, Right!Next, Right!Grant
<1>3. ASSUME entitlement = "active", entitlement' = "revoked",
             charge = "refunded" \/ dispute = "lost",
             charge \notin {"none", "awaited", "wrong"}
      PROVE  [Right!Next]_<<Money, entitlement>>
  BY <1>0, <1>3, MoneyIs DEF OrderInv, Right!Next, Right!Revoke
<1>4. ASSUME NEW seen, NEW unpaid, HandleCheckoutCompleted(seen, unpaid),
             charge # "none", ~unpaid => charge # "awaited"
      PROVE  [Right!Next]_<<Money, entitlement>>
  BY <1>1, <1>2, <1>4 DEF HandleCheckoutCompleted, MarkOrderPaid, NotFulfilled
<1>5. ASSUME NEW e \in Event, j = e, CommitEvent(e)
      PROVE  [Right!Next]_<<Money, entitlement>>
  <2>1. e \in emitted
    BY <1>5 DEF CommitEvent, Done, OrderInv, ProviderInv
  <2>2. CASE e = "completed"
    BY <1>4, <1>5, <2>1, <2>2 DEF CommitEvent, OrderInv, ProviderInv
  <2>3. CASE e = "partial"
    BY <1>1, <1>5, <2>3
       DEF CommitEvent, HandleChargeRefunded, RevokeOrderEntitlements, NotFulfilled
  <2>4. CASE e = "refunded"
    BY <1>1, <1>3, <1>5, <2>1, <2>4
       DEF CommitEvent, HandleChargeRefunded, RevokeOrderEntitlements, NotFulfilled,
           OrderInv, ProviderInv
  <2>5. CASE e \in {"disputed", "won", "lost"}
    BY <1>1, <1>3, <1>5, <2>1, <2>5
       DEF CommitEvent, HandleDispute, RevokeOrderEntitlements, NotFulfilled,
           OrderInv, ProviderInv
  <2> QED
    BY <2>2, <2>3, <2>4, <2>5 DEF Event
<1>6. CASE CommitReconcile
  BY <1>1, <1>4, <1>6 DEF CommitReconcile, NotFulfilled, OrderInv, ProviderInv
<1>7. CASE CommitExpire \/ CommitOutbox \/ CutShort(j) \/ GrantRaises(j)
  BY <1>1, <1>7 DEF CommitExpire, CommitOutbox, CutShort, GrantRaises, database
<1> QED
  BY <1>5, <1>6, <1>7 DEF CommitJob

(* Every step of the order is a step of the abstract right, or none.       *)
LEMMA RightStep == OrderInv /\ [Next]_vars => [Right!Next]_<<Money, entitlement>>
<1> SUFFICES ASSUME OrderInv, [Next]_vars PROVE [Right!Next]_<<Money, entitlement>>
  OBVIOUS
<1>0. ProviderInv'
  BY ProviderStep DEF OrderInv
<1>1. CASE Pay \/ MoneyArrives \/ ProviderRefund \/ Dispute
  BY <1>0, <1>1, MoneySteps
     DEF Pay, MoneyArrives, ProviderRefund, Dispute, ProviderOnly, database
<1>2. CASE \/ Checkout \/ SessionExpires \/ GracePasses \/ LifetimePasses
           \/ ResendRedeem \/ BeginSweep \/ UNCHANGED vars
           \/ \E e \in Event : ReceiveWebhook(e) \/ BeginEvent(e)
  BY <1>0, <1>2, MoneySteps
     DEF Checkout, SessionExpires, ProviderOnly, GracePasses, LifetimePasses, Passes,
         ResendRedeem, BeginSweep, BeginExpire, BeginReconcile, BeginOutbox, Begin,
         ReceiveWebhook, BeginEvent, database, provider, vars
<1> QED
  BY <1>1, <1>2, RightSteps DEF Next, AdminRefund, SellerRefund

-----------------------------------------------------------------------------
(* Fulfilment marks an order paid only with its grant.                     *)
LEMMA MarkGrants ==
  ASSUME GrantInv, NEW seen, NEW unpaid, HandleCheckoutCompleted(seen, unpaid),
         UNCHANGED raised
  PROVE  /\ status' = "refunded" => entitlement' # "active"
         /\ payId' /\ ~raised' => entitlement' # "none"
         /\ PaidWasGranted'
         /\ payId => payId'
BY DEF GrantInv, PaidWasGranted, HandleCheckoutCompleted, MarkOrderPaid, NotFulfilled,
       WriteStatus

(* No status is written without the grant it speaks of.                    *)
LEMMA GrantStep == TypeInv /\ GrantInv /\ [Next]_vars => GrantInv'
<1> SUFFICES ASSUME TypeInv, GrantInv, [Next]_vars PROVE GrantInv'
  OBVIOUS
<1>0. TypeOK /\ Event \subseteq Job /\ {"expire", "reconcile", "outbox"} \cap Event = {}
  BY DEF TypeInv, Job, Event
<1> USE DEF GrantInv, PaidWasGranted
<1>1. ASSUME UNCHANGED <<status, payId, entitlement, raised, job>> PROVE GrantInv'
  BY <1>1
<1>2. CASE \/ Pay \/ MoneyArrives \/ SessionExpires \/ ProviderRefund \/ Dispute
           \/ GracePasses \/ LifetimePasses \/ ResendRedeem \/ UNCHANGED vars
           \/ \E e \in Event : ReceiveWebhook(e)
  BY <1>1, <1>2
     DEF Pay, MoneyArrives, SessionExpires, ProviderRefund, Dispute, ProviderOnly,
         GracePasses, LifetimePasses, Passes, ResendRedeem, ReceiveWebhook, database, vars
<1>3. CASE Checkout
  BY <1>3 DEF Checkout
<1>4. ASSUME NEW j \in Job, NEW s \in Snapshot, Begin(j, s),
             j \in Event \ {"completed"} /\ s # "unknown" => payId
      PROVE GrantInv'
  <2>1. job'[j] = s /\ \A k \in Job \ {j} : job'[k] = job[k]
    BY <1>0, <1>4, JobTypes
  <2> QED
    BY <1>0, <1>4, <2>1 DEF Begin, database
<1>5. status \in Snapshot /\ "unknown" \in Snapshot
  BY <1>0 DEF TypeOK, Snapshot
<1>6. ASSUME NEW e \in Event, BeginEvent(e) PROVE GrantInv'
  <2>1. CASE Begin(e, IF Found(e) THEN status ELSE "unknown")
    BY <1>0, <1>4, <1>5, <2>1 DEF Found
  <2> QED
    BY <1>1, <1>6, <2>1 DEF BeginEvent, database
<1>7. CASE BeginSweep
  <2>1. {"expire", "reconcile", "outbox"} \subseteq Job
    BY DEF Job
  <2> QED
    BY <1>0, <1>4, <1>5, <1>7, <2>1
       DEF BeginSweep, BeginExpire, BeginReconcile, BeginOutbox
<1>8. ASSUME NEW j \in Job, CommitJob(j) \/ CutShort(j) \/ GrantRaises(j)
      PROVE GrantInv'
  <2>1. job'[j] = "idle" /\ \A k \in Job \ {j} : job'[k] = job[k]
    BY <1>0, <1>8, EndKeeps, JobTypes DEF Done
  <2>2. ASSUME status' = "refunded" => entitlement' # "active",
               payId' /\ ~raised' => entitlement' # "none",
               PaidWasGranted', payId => payId'
        PROVE  GrantInv'
    BY <1>0, <2>1, <2>2
  <2>3. ASSUME NEW e \in Event, j = e, CommitEvent(e) PROVE GrantInv'
    <3>1. CASE HandleCheckoutCompleted(job[e], deferred)
      BY <2>2, <2>3, <3>1, MarkGrants DEF CommitEvent
    <3>2. CASE e # "completed"
      <4>1. job[e] # "unknown" => payId
        BY <2>3, <3>2 DEF CommitEvent, Done
      <4> QED
        BY <2>2, <2>3, <3>2, <4>1
           DEF CommitEvent, HandleChargeRefunded, HandleDispute, RevokeOrderEntitlements,
               NotFulfilled, WriteStatus
    <3> QED
      BY <2>3, <3>1, <3>2 DEF CommitEvent
  <2>4. CASE CommitReconcile
    <3>1. CASE HandleCheckoutCompleted(job["reconcile"], charge = "awaited")
      BY <2>2, <2>4, <3>1, MarkGrants DEF CommitReconcile
    <3>2. CASE ~HandleCheckoutCompleted(job["reconcile"], charge = "awaited")
      BY <2>2, <2>4, <3>2 DEF CommitReconcile, NotFulfilled, WriteStatus
    <3> QED
      BY <3>1, <3>2
  <2>5. CASE CommitExpire
    BY <2>2, <2>5 DEF CommitExpire, WriteStatus
  <2>6. CASE CommitOutbox \/ CutShort(j)
    BY <2>2, <2>6 DEF CommitOutbox, CutShort, database
  <2>7. CASE GrantRaises(j)
    BY <2>2, <2>7 DEF GrantRaises, WriteStatus
  <2> QED
    BY <1>8, <2>3, <2>4, <2>5, <2>6, <2>7 DEF CommitJob
<1> QED
  BY <1>2, <1>3, <1>6, <1>7, <1>8 DEF Next, AdminRefund, SellerRefund

(* The three parts of the invariant together.                              *)
LEMMA OrderStep == OrderInv /\ [Next]_vars => OrderInv'
BY TypeStep, ProviderStep, GrantStep DEF OrderInv

(* The payment code implements the abstract right to a purchase, for any   *)
(* number of tasks, events, retries and failures: the right is granted at  *)
(* most once and only for money received, and taken back only when the     *)
(* money went back.                                                        *)
THEOREM Implements == Spec => ImplementsPurchaseRight
<1>1. Init => Right!Init
  BY DEF Init, Right!Init, Money
<1> QED
  BY <1>1, InitInv, OrderStep, RightStep, PTL DEF Spec, ImplementsPurchaseRight, Right!Spec

(* An order on record as refunded gives no access, whatever a task that    *)
(* had read it earlier does.                                               *)
THEOREM RefundRevokes == Spec => []RefundedHasNoAccess
<1>1. OrderInv => RefundedHasNoAccess
  BY DEF OrderInv, GrantInv, RefundedHasNoAccess
<1> QED
  BY <1>1, InitInv, OrderStep, PTL DEF Spec

(* An order on record as paid or refunded was granted, unless a handler    *)
(* raised between its writes.                                              *)
THEOREM PaidIsGranted == Spec => []PaidWasGranted
<1>1. OrderInv => PaidWasGranted
  BY DEF OrderInv, GrantInv
<1> QED
  BY <1>1, InitInv, OrderStep, PTL DEF Spec

(* A step records a mail as sent only with the link it carries.            *)
LEMMA LinkStep == TypeInv /\ SentLinkWorks /\ [Next]_vars => SentLinkWorks'
<1> SUFFICES ASSUME TypeInv, SentLinkWorks, [Next]_vars PROVE SentLinkWorks'
  OBVIOUS
<1> USE DEF SentLinkWorks
<1>1. ASSUME UNCHANGED linked, outbox' = outbox \/ outbox' # "sent" PROVE SentLinkWorks'
  BY <1>1
<1>2. CASE Outside \/ BeginSweep \/ UNCHANGED vars \/ \E e \in Event : BeginEvent(e)
  BY <1>1, <1>2
     DEF Outside, Checkout, Pay, MoneyArrives, SessionExpires, AdminRefund, SellerRefund,
         ProviderRefund, Dispute, ProviderOnly, GracePasses, LifetimePasses, Passes,
         ResendRedeem, ReceiveWebhook, BeginSweep, BeginExpire, BeginReconcile,
         BeginOutbox, Begin, BeginEvent, database, vars
<1>3. ASSUME NEW e \in Event, CommitEvent(e) PROVE SentLinkWorks'
  BY <1>1, <1>3, EventTypes DEF TypeInv, CommitEvent
<1>4. CASE CommitReconcile
  BY <1>1, <1>4, MarkTypes DEF TypeInv, CommitReconcile, NotFulfilled
<1>5. CASE CommitOutbox
  BY <1>5 DEF CommitOutbox
<1>6. ASSUME NEW j \in Job, CommitExpire \/ CutShort(j) \/ GrantRaises(j)
      PROVE SentLinkWorks'
  BY <1>1, <1>6 DEF CommitExpire, CutShort, GrantRaises, database
<1> QED
  BY <1>2, <1>3, <1>4, <1>5, <1>6 DEF Next, Outside, CommitJob

(* A guest's delivery is on record as sent only if a mail went out whose   *)
(* link was committed, however often it was tried and whatever crashed.    *)
THEOREM SentMailsWork == Spec => []SentLinkWorks
<1>1. Init => SentLinkWorks
  BY DEF Init, SentLinkWorks
<1>2. Init => TypeInv
  BY InitInv DEF OrderInv
<1> QED
  BY <1>1, <1>2, TypeStep, LinkStep, PTL DEF Spec

=============================================================================
