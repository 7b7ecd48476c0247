------------------------------ MODULE Payment ------------------------------
(***************************************************************************)
(* The payment service: the payments and outbox tables, the gRPC calls     *)
(* PaymentSuccessed and PaymentCanceled, the consumer of the Kafka topic   *)
(* order.checkout, and the BullMQ queue of the payment timeout with its    *)
(* worker.  A database transaction that starts with a write is one step; a *)
(* read made outside a transaction is a step of its own.                   *)
(***************************************************************************)
EXTENDS Integers, Sequences

CONSTANTS
  Orders,       \* order ids a checkout is published for
  Calls,        \* gRPC requests the service handles at the same time
  Delay,        \* minutes from addTimeoutJob to the timeout job
  Window,       \* minutes after which a payment's age is no longer counted
  MaxPublish,   \* bound: order.checkout messages published
  MaxAttempts,  \* bound: failed attempts at one message that are counted
  MaxFaults     \* bound: process crashes and database or Redis errors

ASSUME DelayAssumption == Delay \in Nat /\ Window \in Nat /\ Delay <= Window
ASSUME BoundsAssumption ==
  MaxPublish \in Nat /\ MaxAttempts \in Nat /\ MaxFaults \in Nat

VARIABLES
  payments,   \* payments[o]: "none" (no row) or its PaymentStatus
  outbox,     \* outbox rows in commit order, as Debezium publishes them
  age,        \* age[o]: minutes o's payment has been PENDING, up to Window
  calls,      \* calls[c]: what gRPC request c is about to do
  jobs,       \* jobs[o]: the BullMQ job payment-timeout-<o>
  checkouts,  \* the order.checkout partition
  offset,     \* messages of checkouts the running consumer has handled
  committed,  \* the consumer group's committed offset
  consumer,   \* "poll", or "addJob" inside processPaymentForOrder
  attempts,   \* failed attempts at the message after offset, up to MaxAttempts
  faults      \* crashes and errors so far

paymentVars == <<payments, outbox, age>>
kafkaVars == <<checkouts, offset, committed, consumer, attempts>>
vars == <<payments, outbox, age, calls, jobs, checkouts, offset, committed,
          consumer, attempts, faults>>

Settled == {"SUCCESS", "FAILED", "EXPIRED"}
Statuses == {"none", "PENDING"} \cup Settled
Topics == {"payment.successed", "payment.canceled"}
OutboxRows == [topic : Topics, order : Orders]

(* A request is idle, or has read PENDING and is about to commit, or has    *)
(* committed and is about to remove the timeout job.                       *)
Idle == [pc |-> "idle"]
Ops == {"paymentSuccessed", "paymentCanceled"}
CallStates == {Idle} \cup [pc : {"commit", "unschedule"}, op : Ops, order : Orders]

(* A job: "delayed" with the minutes left, "active" in the worker, "done"  *)
(* once its transaction is committed, "failed" and kept; stalls counts the *)
(* worker crashes it survived (BullMQ gives a job up at the second).       *)
NoJob == [state |-> "none", left |-> 0, stalls |-> 0]
(* Mutant: the job is added without a delay.                               *)
TimeoutJob_Immediate == [state |-> "delayed", left |-> 0, stalls |-> 0]
TimeoutJob == [state |-> "delayed", left |-> Delay, stalls |-> 0]
JobStates == [state : {"none", "delayed", "active", "done", "failed"},
              left : 0 .. Delay, stalls : 0 .. 1]
Locked(o) == jobs[o].state \in {"active", "done"}

Head0 == checkouts[offset + 1]
HasMessage == offset < Len(checkouts)
AtMost(n, bound) == IF n > bound THEN bound ELSE n

TypeOK ==
  /\ payments \in [Orders -> Statuses]
  /\ outbox \in Seq(OutboxRows)
  /\ age \in [Orders -> 0 .. Window]
  /\ calls \in [Calls -> CallStates]
  /\ jobs \in [Orders -> JobStates]
  /\ checkouts \in Seq(Orders)
  /\ offset \in 0 .. Len(checkouts)
  /\ committed \in 0 .. offset
  /\ consumer \in {"poll", "addJob"}
  /\ attempts \in 0 .. MaxAttempts
  /\ faults \in 0 .. MaxFaults

Init ==
  /\ payments = [o \in Orders |-> "none"]
  /\ outbox = <<>>
  /\ age = [o \in Orders |-> 0]
  /\ calls = [c \in Calls |-> Idle]
  /\ jobs = [o \in Orders |-> NoJob]
  /\ checkouts = <<>>
  /\ offset = 0
  /\ committed = 0
  /\ consumer = "poll"
  /\ attempts = 0
  /\ faults = 0

Fault == faults < MaxFaults /\ faults' = faults + 1

-----------------------------------------------------------------------------
(* The topic order.checkout.                                               *)

(* Debezium publishes a row of the order service's outbox.  One order is   *)
(* published again when two checkouts read the same draft or when the      *)
(* connector restarts behind a row it has already sent.                    *)
PublishCheckout(o) ==
  /\ Len(checkouts) < MaxPublish
  /\ checkouts' = Append(checkouts, o)
  /\ UNCHANGED <<paymentVars, calls, jobs, offset, committed, consumer, attempts, faults>>

(* processPaymentForOrder: payment.create for the message at the head.     *)
CreatePayment ==
  /\ consumer = "poll" /\ HasMessage
  /\ payments[Head0] = "none"
  /\ payments' = [payments EXCEPT ![Head0] = "PENDING"]
  /\ consumer' = "addJob"
  /\ UNCHANGED <<outbox, age, calls, jobs, checkouts, offset, committed, attempts, faults>>

(* Mutant: the duplicate is swallowed and acknowledged.                    *)
RejectDuplicate_Skip ==
  /\ consumer = "poll" /\ HasMessage
  /\ payments[Head0] # "none"
  /\ offset' = offset + 1
  /\ attempts' = 0
  /\ UNCHANGED <<paymentVars, calls, jobs, checkouts, committed, consumer, faults>>

(* payment.create violates the unique orderId: the handler throws, and     *)
(* kafkajs keeps the offset and runs the handler again.                    *)
RejectDuplicate ==
  /\ consumer = "poll" /\ HasMessage
  /\ payments[Head0] # "none"
  /\ attempts' = AtMost(attempts + 1, MaxAttempts)
  /\ UNCHANGED <<paymentVars, calls, jobs, checkouts, offset, committed, consumer, faults>>

(* Mutant: no job is added.                                                *)
AddTimeoutJob_Forgotten ==
  /\ consumer = "addJob"
  /\ consumer' = "poll"
  /\ offset' = offset + 1
  /\ attempts' = 0
  /\ UNCHANGED <<paymentVars, calls, jobs, checkouts, committed, faults>>

(* Mutant: the message is not acknowledged.                                *)
AddTimeoutJob_OffsetKept ==
  /\ consumer = "addJob"
  /\ jobs' = [jobs EXCEPT ![Head0] = TimeoutJob]
  /\ consumer' = "poll"
  /\ attempts' = 0
  /\ UNCHANGED <<paymentVars, calls, checkouts, offset, committed, faults>>

(* addTimeoutJob, and the handler returns.  BullMQ ignores an add whose    *)
(* jobId it already holds.                                                 *)
AddTimeoutJob ==
  /\ consumer = "addJob"
  /\ jobs' = IF jobs[Head0].state = "none"
             THEN [jobs EXCEPT ![Head0] = TimeoutJob]
             ELSE jobs
  /\ consumer' = "poll"
  /\ offset' = offset + 1
  /\ attempts' = 0
  /\ UNCHANGED <<paymentVars, calls, checkouts, committed, faults>>

(* The database or Redis refuses; kafkajs will run the handler again.      *)
HandlerFails ==
  /\ HasMessage
  /\ consumer = "poll" => payments[Head0] = "none"
  /\ Fault
  /\ consumer' = "poll"
  /\ attempts' = AtMost(attempts + 1, MaxAttempts)
  /\ UNCHANGED <<paymentVars, calls, jobs, checkouts, offset, committed>>

(* kafkajs commits offsets behind the handler, not with each message.      *)
CommitOffset ==
  /\ committed # offset
  /\ committed' = offset
  /\ UNCHANGED <<paymentVars, calls, jobs, checkouts, offset, consumer, attempts, faults>>

-----------------------------------------------------------------------------
(* The gRPC calls.                                                         *)

(* Mutant: the status is not looked at.                                    *)
ReadPayment_AnyStatus(c, op, o) ==
  /\ calls[c] = Idle
  /\ payments[o] # "none"
  /\ calls' = [calls EXCEPT ![c] = [pc |-> "commit", op |-> op, order |-> o]]
  /\ UNCHANGED <<paymentVars, jobs, kafkaVars, faults>>

(* payment.findUnique, outside any transaction; a payment that is not      *)
(* PENDING is answered at once and leaves no trace.                        *)
ReadPayment(c, op, o) ==
  /\ calls[c] = Idle
  /\ payments[o] = "PENDING"
  /\ calls' = [calls EXCEPT ![c] = [pc |-> "commit", op |-> op, order |-> o]]
  /\ UNCHANGED <<paymentVars, jobs, kafkaVars, faults>>

(* Mutant: the transaction writes no outbox row.                           *)
CommitOutcome_NoOutboxRow(c, op, status, topic) ==
  /\ calls[c].pc = "commit"
  /\ calls[c].op = op
  /\ payments' = [payments EXCEPT ![calls[c].order] = status]
  /\ calls' = [calls EXCEPT ![c].pc = "unschedule"]
  /\ UNCHANGED <<outbox, age, jobs, kafkaVars, faults>>

(* The transaction: payment.update by orderId alone, and the outbox row.   *)
CommitOutcome(c, op, status, topic) ==
  /\ calls[c].pc = "commit"
  /\ calls[c].op = op
  /\ payments' = [payments EXCEPT ![calls[c].order] = status]
  /\ outbox' = Append(outbox, [topic |-> topic, order |-> calls[c].order])
  /\ calls' = [calls EXCEPT ![c].pc = "unschedule"]
  /\ UNCHANGED <<age, jobs, kafkaVars, faults>>

CommitSuccess(c) == CommitOutcome(c, "paymentSuccessed", "SUCCESS", "payment.successed")

(* Mutant: the order's status is written instead of the payment's.         *)
CommitCancel_OrderStatus(c) == CommitOutcome(c, "paymentCanceled", "CANCELED", "payment.canceled")
CommitCancel(c) == CommitOutcome(c, "paymentCanceled", "FAILED", "payment.canceled")

(* removeTimeoutJob: job.remove throws when the worker holds the job, and  *)
(* the request fails although its outcome is committed.                    *)
RemoveTimeoutJob(c) ==
  /\ calls[c].pc = "unschedule"
  /\ jobs' = IF Locked(calls[c].order) THEN jobs
             ELSE [jobs EXCEPT ![calls[c].order] = NoJob]
  /\ calls' = [calls EXCEPT ![c] = Idle]
  /\ UNCHANGED <<paymentVars, kafkaVars, faults>>

(* The transaction rolls back, or Redis refuses: the request is answered   *)
(* with an error.                                                          *)
CallFails(c) ==
  /\ calls[c] # Idle
  /\ Fault
  /\ calls' = [calls EXCEPT ![c] = Idle]
  /\ UNCHANGED <<paymentVars, jobs, kafkaVars>>

-----------------------------------------------------------------------------
(* The worker of payment-timeout-queue, with BullMQ's concurrency of 1.    *)

StartJob(o) ==
  /\ jobs[o].state = "delayed" /\ jobs[o].left = 0
  /\ \A p \in Orders : ~ Locked(p)
  /\ jobs' = [jobs EXCEPT ![o].state = "active"]
  /\ UNCHANGED <<paymentVars, calls, kafkaVars, faults>>

(* Mutant: the update names the payment by orderId alone.                  *)
ExpirePayment_AnyStatus(o) ==
  /\ jobs[o].state = "active"
  /\ payments' = [payments EXCEPT ![o] = "EXPIRED"]
  /\ outbox' = Append(outbox, [topic |-> "payment.canceled", order |-> o])
  /\ jobs' = [jobs EXCEPT ![o].state = "done"]
  /\ UNCHANGED <<age, calls, kafkaVars, faults>>

(* expirePayment: one transaction, conditional on PENDING.                 *)
ExpirePayment(o) ==
  /\ jobs[o].state = "active"
  /\ payments[o] = "PENDING"
  /\ payments' = [payments EXCEPT ![o] = "EXPIRED"]
  /\ outbox' = Append(outbox, [topic |-> "payment.canceled", order |-> o])
  /\ jobs' = [jobs EXCEPT ![o].state = "done"]
  /\ UNCHANGED <<age, calls, kafkaVars, faults>>

(* The update finds no PENDING row (P2025): the job fails.                 *)
ExpireNothing(o) ==
  /\ jobs[o].state = "active"
  /\ payments[o] # "PENDING"
  /\ jobs' = [jobs EXCEPT ![o].state = "failed"]
  /\ UNCHANGED <<paymentVars, calls, kafkaVars, faults>>

(* The database refuses, or the worker loses its answer: one attempt is    *)
(* BullMQ's default, the job is kept as failed and not run again.          *)
ExpireFails(o) ==
  /\ Locked(o)
  /\ Fault
  /\ jobs' = [jobs EXCEPT ![o].state = "failed"]
  /\ UNCHANGED <<paymentVars, calls, kafkaVars>>

(* removeOnComplete.                                                       *)
CompleteJob(o) ==
  /\ jobs[o].state = "done"
  /\ jobs' = [jobs EXCEPT ![o] = NoJob]
  /\ UNCHANGED <<paymentVars, calls, kafkaVars, faults>>

-----------------------------------------------------------------------------
(* A minute passes.                                                        *)
Counting(o) == payments[o] = "PENDING" /\ age[o] < Window
Waiting(o) == jobs[o].state = "delayed" /\ jobs[o].left > 0

Tick ==
  /\ \E o \in Orders : Counting(o) \/ Waiting(o)
  /\ age' = [o \in Orders |-> IF Counting(o) THEN age[o] + 1 ELSE age[o]]
  /\ jobs' = [o \in Orders |->
                IF Waiting(o) THEN [jobs[o] EXCEPT !.left = @ - 1] ELSE jobs[o]]
  /\ UNCHANGED <<payments, outbox, calls, kafkaVars, faults>>

(* The process dies and starts again: requests are gone, the consumer      *)
(* resumes at the committed offset, and BullMQ finds the worker's job      *)
(* stalled, queues it again, or fails it the second time.                  *)
Stall(job) ==
  IF job.stalls = 0 THEN [state |-> "delayed", left |-> 0, stalls |-> 1]
                    ELSE [job EXCEPT !.state = "failed"]

Crash ==
  /\ Fault
  /\ calls' = [c \in Calls |-> Idle]
  /\ jobs' = [o \in Orders |-> IF Locked(o) THEN Stall(jobs[o]) ELSE jobs[o]]
  /\ offset' = committed
  /\ consumer' = "poll"
  /\ attempts' = 0
  /\ UNCHANGED <<paymentVars, checkouts, committed>>

ConsumerStep == CreatePayment \/ RejectDuplicate \/ AddTimeoutJob \/ HandlerFails \/ CommitOffset

CallStep(c) ==
  \/ \E op \in Ops, o \in Orders : ReadPayment(c, op, o)
  \/ CommitSuccess(c)
  \/ CommitCancel(c)
  \/ RemoveTimeoutJob(c)
  \/ CallFails(c)

WorkerStep(o) ==
  StartJob(o) \/ ExpirePayment(o) \/ ExpireNothing(o) \/ ExpireFails(o) \/ CompleteJob(o)

Next ==
  \/ \E o \in Orders : PublishCheckout(o)
  \/ ConsumerStep
  \/ \E c \in Calls : CallStep(c)
  \/ \E o \in Orders : WorkerStep(o)
  \/ Tick
  \/ Crash

Spec == Init /\ [][Next]_vars

(* The consumer, the worker, the clock and an accepted request keep going; *)
(* nobody owes the shop a checkout, a new request or a fault.              *)
Fairness ==
  /\ WF_vars(CreatePayment) /\ WF_vars(AddTimeoutJob) /\ WF_vars(CommitOffset)
  /\ WF_vars(Tick)
  /\ \A o \in Orders :
       /\ WF_vars(StartJob(o)) /\ WF_vars(CompleteJob(o))
       /\ WF_vars(ExpirePayment(o)) /\ WF_vars(ExpireNothing(o))
  /\ \A c \in Calls :
       WF_vars(CommitSuccess(c)) /\ WF_vars(CommitCancel(c)) /\ WF_vars(RemoveTimeoutJob(c))

FairSpec == Spec /\ Fairness
-----------------------------------------------------------------------------
(* Safety.                                                                 *)

TopicOf(status) == IF status = "SUCCESS" THEN "payment.successed" ELSE "payment.canceled"

(* The last row the outbox holds for an order announces the status its     *)
(* payment has now, and an order whose payment is absent or PENDING has no *)
(* row: processPaymentSuccessed, processPaymentCanceled and expirePayment  *)
(* may overtake each other and still leave the order service, which reads  *)
(* the rows in order, with the truth last.                                 *)
LastRowFor(o, row) ==
  \E i \in DOMAIN outbox :
    /\ outbox[i] = row
    /\ \A j \in DOMAIN outbox : j > i => outbox[j].order # o

OutcomeAnnounced ==
  \A o \in Orders :
    IF payments[o] \in Settled
    THEN LastRowFor(o, [topic |-> TopicOf(payments[o]), order |-> o])
    ELSE \A i \in DOMAIN outbox : outbox[i].order # o

(* A PENDING payment always has a way out other than the customer: its     *)
(* timeout job is queued or running, or the order.checkout message that    *)
(* created it was never acknowledged and blocks the partition, or its job  *)
(* is kept as failed after a crash or a database error.  addTimeoutJob     *)
(* runs after the transaction of processPaymentForOrder, so this is what   *)
(* keeps a payment without a timer visible.                                *)
Unacknowledged(o) == \E i \in DOMAIN checkouts : i > offset /\ checkouts[i] = o

PendingIsWatched ==
  \A o \in Orders : payments[o] = "PENDING" =>
    \/ jobs[o].state \in {"delayed", "active"}
    \/ Unacknowledged(o)
    \/ jobs[o].state = "failed" /\ faults > 0

(* The customer has at least the timeout's delay before a payment expires, *)
(* whatever the queue, crashes and redeliveries do.                        *)
OpenFor(minutes) == \A o \in Orders : payments[o] = "EXPIRED" => age[o] >= minutes

OpenForDelay == OpenFor(Delay)

(* Documented window: the gateway's reply to a checkout and the schema's   *)
(* comment on EXPIRED both say ten minutes.                                *)
OpenForTenMinutes == OpenFor(10)

(* Documented retries: handleOrderCheckout declares maxRetries 2, so a     *)
(* message is attempted three times at most.                               *)
AttemptsWithinMaxRetries == attempts <= 3

(* Once a payment is settled and no request that read it as PENDING is     *)
(* still to commit, its status never changes again: a late timeout job, a  *)
(* redelivered checkout and new requests leave it alone.                   *)
Final(o) ==
  /\ payments[o] \in Settled
  /\ \A c \in Calls : calls[c].pc = "commit" => calls[c].order # o

SettlementIsFinal ==
  [][\A o \in Orders : Final(o) => Final(o)' /\ payments'[o] = payments[o]]_vars

(* An order.checkout message whose payment already exists stops the        *)
(* partition for good: payment.create fails at every attempt, restarts     *)
(* lead back to it or to an earlier such message, and no order behind it   *)
(* ever gets a payment.                                                    *)
Poisoned == HasMessage /\ consumer = "poll" /\ payments[Head0] # "none"

PoisonIsForever ==
  [][Poisoned =>
       /\ Poisoned'
       /\ \A o \in Orders : payments[o] = "none" => payments'[o] = "none"]_vars

(* The service implements the ledger: each status change and its outbox    *)
(* row are one step, and only a PENDING payment expires.                   *)
Ledger == INSTANCE PaymentLedger WITH status <- payments, ledger <- outbox

LedgerRefined == Ledger!LedgerSpec

(* Liveness, for runs without faults.                                      *)

(* A PENDING payment is settled in the end: by a request or by its timer.  *)
PendingSettles ==
  \A o \in Orders : payments[o] = "PENDING" ~> payments[o] \in Settled

(* A checkout leads to a settled payment, if no order was published twice  *)
(* up to it (two checkouts may read the same draft, and the second message *)
(* stops the partition, as PoisonIsForever says): no message is lost       *)
(* between the partition, the payments table and the timeout queue,        *)
(* whatever is published behind it.                                        *)
OnceUpTo(i) == \A j, k \in 1 .. i : checkouts[j] = checkouts[k] => j = k

CheckoutSettles ==
  \A o \in Orders :
    (\E i \in DOMAIN checkouts : checkouts[i] = o /\ OnceUpTo(i)) ~> payments[o] \in Settled
=============================================================================
