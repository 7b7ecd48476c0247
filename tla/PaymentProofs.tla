--------------------------- MODULE PaymentProofs ---------------------------
(***************************************************************************)
(* What holds of the payment service for every set of orders and requests, *)
(* every delay and every bound.                                            *)
(***************************************************************************)
EXTENDS Payment, SequenceTheorems, TLAPS

(* The inductive invariant.  Each part says what one actor may rely on.    *)

(* Messages the consumer has gone past, and the one it is working on,      *)
(* have a payment.                                                         *)
HandledHavePayment ==
  /\ \A i \in 1 .. offset : payments[checkouts[i]] # "none"
  /\ consumer = "addJob" => HasMessage /\ payments[Head0] # "none"

(* A request past its read works on an existing payment, and on a settled  *)
(* one once it has committed.                                              *)
CallsHavePayment ==
  \A c \in Calls :
    /\ calls[c].pc = "commit" => payments[calls[c].order] # "none"
    /\ calls[c].pc = "unschedule" => payments[calls[c].order] \in Settled

(* A job belongs to a payment; a finished one to a settled payment; one    *)
(* that failed with the payment still PENDING met a fault.                 *)
JobsHavePayment ==
  \A o \in Orders :
    /\ jobs[o].state # "none" => payments[o] # "none"
    /\ jobs[o].state = "done" => payments[o] \in Settled
    /\ jobs[o].state = "failed" /\ payments[o] = "PENDING" => faults > 0

(* The job of a PENDING payment runs when the payment is Delay old.        *)
TimersInTime ==
  \A o \in Orders : payments[o] = "PENDING" =>
    /\ jobs[o].state = "delayed" => age[o] + jobs[o].left >= Delay
    /\ jobs[o].state = "active" => age[o] >= Delay

IInv ==
  /\ TypeOK
  /\ HandledHavePayment
  /\ CallsHavePayment
  /\ JobsHavePayment
  /\ TimersInTime
  /\ PendingIsWatched
  /\ OutcomeAnnounced
  /\ OpenForDelay

-----------------------------------------------------------------------------
(* A step touches only a few of the variables: the proofs below go action  *)
(* by action through Next, once for each part of IInv.                     *)

(* The capped count of attempts stays within its cap.                      *)
LEMMA AtMostBounds ==
  ASSUME NEW n \in Nat, NEW bound \in Nat
  PROVE  AtMost(n, bound) \in 0 .. bound
BY DEF AtMost

(* The job values the actions build are JobStates.                         *)
LEMMA JobTypes ==
  /\ NoJob \in JobStates
  /\ TimeoutJob \in JobStates
  /\ \A job \in JobStates :
       /\ \A state \in {"active", "done", "failed"} : [job EXCEPT !.state = state] \in JobStates
       /\ job.left > 0 => [job EXCEPT !.left = @ - 1] \in JobStates
       /\ Stall(job) \in JobStates
<1> USE DelayAssumption
<1>1. NoJob \in JobStates /\ TimeoutJob \in JobStates
  BY DEF NoJob, TimeoutJob, JobStates
<1>2. ASSUME NEW job \in JobStates
      PROVE  /\ \A state \in {"active", "done", "failed"} : [job EXCEPT !.state = state] \in JobStates
             /\ job.left > 0 => [job EXCEPT !.left = @ - 1] \in JobStates
             /\ Stall(job) \in JobStates
  <2>1. \A state \in {"active", "done", "failed"} : [job EXCEPT !.state = state] \in JobStates
    BY DEF JobStates
  <2>2. ASSUME job.left > 0 PROVE [job EXCEPT !.left = @ - 1] \in JobStates
    <3>1. job.left - 1 \in 0 .. Delay
      BY <2>2 DEF JobStates
    <3> QED BY <3>1 DEF JobStates
  <2>3. Stall(job) \in JobStates
    <3>1. [state |-> "delayed", left |-> 0, stalls |-> 1] \in JobStates
      BY DEF JobStates
    <3> QED BY <2>1, <3>1 DEF Stall
  <2> QED BY <2>1, <2>2, <2>3
<1> QED BY <1>1, <1>2

(* A request past its read names an order.                                 *)
LEMMA CallOrder ==
  ASSUME TypeOK, NEW c \in Calls, calls[c].pc \in {"commit", "unschedule"}
  PROVE  calls[c].order \in Orders
<1>1. calls[c] \in CallStates
  BY DEF TypeOK
<1>2. calls[c] # Idle
  BY DEF Idle
<1> QED BY <1>1, <1>2 DEF CallStates

(* The service starts with values of the right type.                       *)
LEMMA TypeInit == Init => TypeOK
<1> SUFFICES ASSUME Init PROVE TypeOK
  OBVIOUS
<1>1. outbox \in Seq(OutboxRows) /\ checkouts \in Seq(Orders)
  BY DEF Init
<1>2. jobs \in [Orders -> JobStates]
  BY DelayAssumption DEF Init, NoJob, JobStates
<1> QED
  BY <1>1, <1>2, DelayAssumption, BoundsAssumption
  DEF Init, TypeOK, Statuses, CallStates, Idle

(* Every step of the service keeps the types.                              *)
LEMMA TypeNext ==
  ASSUME TypeOK, consumer = "addJob" => HasMessage, [Next]_vars
  PROVE  TypeOK'
<1> USE DelayAssumption, BoundsAssumption
<1>h. HasMessage => Head0 \in Orders /\ offset + 1 \in 0 .. Len(checkouts)
  BY ElementOfSeq DEF TypeOK, HasMessage, Head0
<1>f. ASSUME Fault PROVE faults' \in 0 .. MaxFaults
  BY <1>f DEF Fault, TypeOK
<1>a. AtMost(attempts + 1, MaxAttempts) \in 0 .. MaxAttempts
  <2>1. attempts + 1 \in Nat
    BY DEF TypeOK
  <2> QED BY <2>1, AtMostBounds
<1>1. ASSUME NEW o \in Orders, PublishCheckout(o) PROVE TypeOK'
  <2>1. checkouts' \in Seq(Orders) /\ Len(checkouts') = Len(checkouts) + 1
    BY <1>1, AppendProperties DEF PublishCheckout, TypeOK
  <2> QED BY <1>1, <2>1 DEF PublishCheckout, TypeOK, paymentVars
<1>2. CASE CreatePayment
  <2>1. payments' \in [Orders -> Statuses]
    BY <1>2, <1>h DEF CreatePayment, TypeOK, Statuses
  <2> QED BY <1>2, <2>1 DEF CreatePayment, TypeOK
<1>3. CASE RejectDuplicate
  BY <1>3, <1>a DEF RejectDuplicate, TypeOK, paymentVars
<1>4. CASE AddTimeoutJob
  <2>1. jobs' \in [Orders -> JobStates]
    BY <1>4, JobTypes DEF AddTimeoutJob, TypeOK
  <2> QED BY <1>4, <1>h, <2>1 DEF AddTimeoutJob, TypeOK, paymentVars
<1>5. CASE HandlerFails
  BY <1>5, <1>a, <1>f DEF HandlerFails, TypeOK, paymentVars
<1>6. CASE CommitOffset
  BY <1>6 DEF CommitOffset, TypeOK, paymentVars
<1>7. ASSUME NEW c \in Calls, CallStep(c) PROVE TypeOK'
  <2>1. ASSUME NEW op \in Ops, NEW o \in Orders, ReadPayment(c, op, o) PROVE TypeOK'
    <3>1. calls' \in [Calls -> CallStates]
      BY <2>1 DEF ReadPayment, TypeOK, CallStates
    <3> QED BY <2>1, <3>1 DEF ReadPayment, TypeOK, paymentVars, kafkaVars
  <2>2. ASSUME NEW op \in Ops, NEW status \in Settled, NEW topic \in Topics,
               CommitOutcome(c, op, status, topic)
        PROVE  TypeOK'
    <3>1. calls[c] \in [pc : {"commit", "unschedule"}, op : Ops, order : Orders]
      BY <2>2 DEF CommitOutcome, TypeOK, CallStates, Idle
    <3>2. calls' \in [Calls -> CallStates]
      BY <2>2, <3>1 DEF CommitOutcome, TypeOK, CallStates
    <3>3. payments' \in [Orders -> Statuses]
      BY <2>2, <3>1 DEF CommitOutcome, TypeOK, Statuses
    <3>4. outbox' \in Seq(OutboxRows)
      BY <2>2, <3>1, AppendProperties DEF CommitOutcome, TypeOK, OutboxRows
    <3> QED BY <2>2, <3>2, <3>3, <3>4 DEF CommitOutcome, TypeOK, kafkaVars
  <2>3. CASE RemoveTimeoutJob(c)
    <3>1. jobs' \in [Orders -> JobStates]
      BY <2>3, JobTypes DEF RemoveTimeoutJob, TypeOK
    <3>2. calls' \in [Calls -> CallStates]
      BY <2>3 DEF RemoveTimeoutJob, TypeOK, CallStates
    <3> QED BY <2>3, <3>1, <3>2 DEF RemoveTimeoutJob, TypeOK, paymentVars, kafkaVars
  <2>4. CASE CallFails(c)
    <3>1. calls' \in [Calls -> CallStates]
      BY <2>4 DEF CallFails, TypeOK, CallStates
    <3> QED BY <2>4, <3>1, <1>f DEF CallFails, TypeOK, paymentVars, kafkaVars
  <2> QED
    BY <1>7, <2>1, <2>2, <2>3, <2>4
    DEF CallStep, CommitSuccess, CommitCancel, Ops, Settled, Topics
<1>8. ASSUME NEW o \in Orders, WorkerStep(o) PROVE TypeOK'
  <2>1. jobs' \in [Orders -> JobStates]
    <3>1. PICK job \in JobStates : jobs' = [jobs EXCEPT ![o] = job]
      <4>1. jobs[o] \in JobStates
        BY DEF TypeOK
      <4>2. \/ jobs' = [jobs EXCEPT ![o] = NoJob]
            \/ \E state \in {"active", "done", "failed"} :
                 jobs' = [jobs EXCEPT ![o] = [jobs[o] EXCEPT !.state = state]]
        BY <1>8, Zenon
        DEF WorkerStep, StartJob, ExpirePayment, ExpireNothing, ExpireFails, CompleteJob
      <4> QED BY <4>1, <4>2, JobTypes
    <3> QED BY <3>1 DEF TypeOK
  <2>2. payments' \in [Orders -> Statuses]
    BY <1>8
    DEF WorkerStep, StartJob, ExpirePayment, ExpireNothing, ExpireFails, CompleteJob,
        TypeOK, Statuses, Settled, paymentVars
  <2>3. outbox' \in Seq(OutboxRows)
    <3>1. Append(outbox, [topic |-> "payment.canceled", order |-> o]) \in Seq(OutboxRows)
      BY AppendProperties DEF TypeOK, OutboxRows, Topics
    <3> QED
      BY <1>8, <3>1
      DEF WorkerStep, StartJob, ExpirePayment, ExpireNothing, ExpireFails, CompleteJob,
          TypeOK, paymentVars
  <2>4. faults' \in 0 .. MaxFaults
    BY <1>8, <1>f
    DEF WorkerStep, StartJob, ExpirePayment, ExpireNothing, ExpireFails, CompleteJob, TypeOK
  <2>5. UNCHANGED <<age, calls, kafkaVars>>
    BY <1>8
    DEF WorkerStep, StartJob, ExpirePayment, ExpireNothing, ExpireFails, CompleteJob,
        paymentVars
  <2> QED BY <2>1, <2>2, <2>3, <2>4, <2>5 DEF TypeOK, kafkaVars
<1>9. CASE Tick
  <2>1. age' \in [Orders -> 0 .. Window]
    BY <1>9 DEF Tick, Counting, TypeOK
  <2>2. jobs' \in [Orders -> JobStates]
    BY <1>9, JobTypes DEF Tick, Waiting, TypeOK
  <2> QED BY <1>9, <2>1, <2>2 DEF Tick, TypeOK, kafkaVars
<1>10. CASE Crash
  <2>1. jobs' \in [Orders -> JobStates]
    BY <1>10, JobTypes DEF Crash, TypeOK
  <2>2. calls' \in [Calls -> CallStates]
    BY <1>10 DEF Crash, CallStates
  <2> QED BY <1>10, <2>1, <2>2, <1>f DEF Crash, TypeOK, paymentVars
<1>11. CASE UNCHANGED vars
  BY <1>11 DEF TypeOK, vars
<1> QED
  BY <1>1, <1>2, <1>3, <1>4, <1>5, <1>6, <1>7, <1>8, <1>9, <1>10, <1>11
  DEF Next, ConsumerStep

-----------------------------------------------------------------------------
(* IInv, action by action.                                                 *)

(* The service starts in IInv.                                             *)
LEMMA InvInit == Init => IInv
<1> SUFFICES ASSUME Init PROVE IInv
  OBVIOUS
<1>1. HandledHavePayment /\ CallsHavePayment /\ JobsHavePayment /\ TimersInTime
  BY DEF Init, HandledHavePayment, CallsHavePayment, JobsHavePayment, TimersInTime, Idle, NoJob
<1>2. PendingIsWatched /\ OutcomeAnnounced /\ OpenForDelay
  BY DEF Init, PendingIsWatched, OutcomeAnnounced, OpenForDelay, OpenFor, Settled
<1> QED BY <1>1, <1>2, TypeInit DEF IInv

(* The parts that speak of the payments, the outbox and the timeout queue  *)
(* only survive every step that leaves those alone.                        *)
LEMMA Frame ==
  ASSUME IInv, UNCHANGED <<payments, outbox, age>>
  PROVE  /\ OutcomeAnnounced' /\ OpenForDelay'
         /\ jobs' = jobs /\ faults' \in {faults, faults + 1} => JobsHavePayment' /\ TimersInTime'
         /\ calls' = calls => CallsHavePayment'
<1>1. OutcomeAnnounced' /\ OpenForDelay'
  BY DEF IInv, OutcomeAnnounced, LastRowFor, OpenForDelay, OpenFor
<1>2. ASSUME jobs' = jobs, faults' \in {faults, faults + 1}
      PROVE  JobsHavePayment' /\ TimersInTime'
  BY <1>2 DEF IInv, JobsHavePayment, TimersInTime, TypeOK
<1>3. ASSUME calls' = calls PROVE CallsHavePayment'
  BY <1>3 DEF IInv, CallsHavePayment
<1> QED BY <1>1, <1>2, <1>3

(* The consumer of order.checkout keeps every part of IInv but the types.  *)
LEMMA ConsumerKeeps ==
  ASSUME IInv, ConsumerStep \/ \E o \in Orders : PublishCheckout(o), TypeOK'
  PROVE  IInv'
<1> USE DEF IInv
<1>h. HasMessage => Head0 \in Orders /\ offset + 1 \in 1 .. Len(checkouts)
  BY ElementOfSeq DEF TypeOK, HasMessage, Head0
<1>1. ASSUME NEW o \in Orders, PublishCheckout(o) PROVE IInv'
  <2>1. /\ Len(checkouts') = Len(checkouts) + 1
        /\ \A i \in 1 .. Len(checkouts) : checkouts'[i] = checkouts[i]
    BY <1>1, AppendProperties DEF PublishCheckout, TypeOK
  <2>2. HandledHavePayment'
    BY <1>1, <2>1 DEF PublishCheckout, HandledHavePayment, HasMessage, Head0, TypeOK, paymentVars
  <2>3. PendingIsWatched'
    <3>1. DOMAIN checkouts = 1 .. Len(checkouts) /\ DOMAIN checkouts' = 1 .. Len(checkouts')
      BY LenProperties DEF TypeOK
    <3>2. \A p \in Orders : Unacknowledged(p) => Unacknowledged(p)'
      BY <1>1, <2>1, <3>1 DEF PublishCheckout, Unacknowledged, TypeOK
    <3> QED BY <1>1, <3>2 DEF PublishCheckout, PendingIsWatched, paymentVars
  <2> QED BY <1>1, <2>2, <2>3, Frame DEF PublishCheckout, paymentVars
<1>2. CASE CreatePayment
  <2>1. HasMessage /\ payments' = [payments EXCEPT ![Head0] = "PENDING"]
    BY <1>2 DEF CreatePayment
  <2>2. \A o \in Orders : o # Head0 => payments'[o] = payments[o]
    BY <2>1 DEF TypeOK
  <2>3. payments[Head0] = "none" /\ payments'[Head0] = "PENDING" /\ jobs[Head0].state = "none"
    BY <1>2, <1>h, <2>1 DEF CreatePayment, JobsHavePayment, TypeOK
  <2>4. UNCHANGED <<outbox, age, calls, jobs, checkouts, offset, faults>>
    BY <1>2 DEF CreatePayment
  <2>5. HandledHavePayment'
    BY <1>2, <2>1, <1>h DEF CreatePayment, HandledHavePayment, HasMessage, Head0, TypeOK
  <2>6. CallsHavePayment'
    BY <2>2, <2>3, <2>4, <1>h, <2>1 DEF CallsHavePayment, TypeOK, CallStates, Settled
  <2>7. JobsHavePayment' /\ TimersInTime'
    BY <2>2, <2>3, <2>4 DEF JobsHavePayment, TimersInTime, Settled
  <2>8. PendingIsWatched'
    <3>1. PICK h \in Orders : h = Head0
      BY <2>1, <1>h
    <3>2. Unacknowledged(h)'
      BY <2>1, <2>4, <3>1, <1>h DEF Unacknowledged, HasMessage, Head0, TypeOK
    <3>3. \A o \in Orders : Unacknowledged(o) => Unacknowledged(o)'
      BY <2>4 DEF Unacknowledged
    <3> QED BY <2>2, <2>4, <3>1, <3>2, <3>3 DEF PendingIsWatched
  <2>9. OutcomeAnnounced' /\ OpenForDelay'
    BY <2>2, <2>3, <2>4 DEF OutcomeAnnounced, LastRowFor, OpenForDelay, OpenFor, Settled
  <2> QED BY <2>5, <2>6, <2>7, <2>8, <2>9
<1>3. CASE RejectDuplicate \/ HandlerFails \/ CommitOffset
  <2>1. UNCHANGED <<paymentVars, calls, jobs, checkouts, offset>>
    BY <1>3 DEF RejectDuplicate, HandlerFails, CommitOffset, paymentVars
  <2>2. faults' \in {faults, faults + 1} /\ consumer' \in {consumer, "poll"}
    BY <1>3 DEF RejectDuplicate, HandlerFails, CommitOffset, Fault
  <2>3. HandledHavePayment'
    BY <2>1, <2>2 DEF HandledHavePayment, HasMessage, Head0, paymentVars
  <2>4. PendingIsWatched'
    BY <2>1, <2>2 DEF PendingIsWatched, Unacknowledged, paymentVars, TypeOK
  <2> QED BY <2>1, <2>2, <2>3, <2>4, Frame DEF paymentVars
<1>4. CASE AddTimeoutJob
  <2>1. HasMessage /\ payments[Head0] # "none"
    BY <1>4 DEF AddTimeoutJob, HandledHavePayment
  <2>2. UNCHANGED <<payments, outbox, age, calls, checkouts, faults>> /\ offset' = offset + 1
    BY <1>4 DEF AddTimeoutJob, paymentVars
  <2>3. \A o \in Orders : o # Head0 => jobs'[o] = jobs[o]
    BY <1>4 DEF AddTimeoutJob, TypeOK
  <2>4. jobs'[Head0] = IF jobs[Head0].state = "none" THEN TimeoutJob ELSE jobs[Head0]
    BY <1>4, <1>h, <2>1 DEF AddTimeoutJob, TypeOK
  <2>5. HandledHavePayment'
    BY <1>4, <2>1, <2>2 DEF AddTimeoutJob, HandledHavePayment, Head0, TypeOK
  <2>6. JobsHavePayment'
    BY <2>1, <2>2, <2>3, <2>4 DEF JobsHavePayment, TimeoutJob
  <2>7. TimersInTime'
    <3>1. age[Head0] + Delay >= Delay
      BY <1>h, <2>1, DelayAssumption DEF TypeOK
    <3> QED BY <2>2, <2>3, <2>4, <3>1 DEF TimersInTime, TimeoutJob
  <2>8. PendingIsWatched'
    <3>1. ASSUME NEW o \in Orders, payments[o] = "PENDING", o # Head0
          PROVE  \/ jobs'[o].state \in {"delayed", "active"}
                 \/ Unacknowledged(o)'
                 \/ jobs'[o].state = "failed" /\ faults' > 0
      BY <3>1, <2>2, <2>3 DEF PendingIsWatched, Unacknowledged, Head0, TypeOK
    <3>2. ASSUME payments[Head0] = "PENDING"
          PROVE  \/ jobs'[Head0].state \in {"delayed", "active"}
                 \/ jobs'[Head0].state = "failed" /\ faults' > 0
      <4>1. /\ jobs[Head0].state \in {"none", "delayed", "active", "done", "failed"}
            /\ jobs[Head0].state # "done"
            /\ jobs[Head0].state = "failed" => faults > 0
        BY <3>2, <1>h, <2>1 DEF JobsHavePayment, TypeOK, JobStates, Settled
      <4> QED BY <4>1, <2>2, <2>4 DEF TimeoutJob
    <3> QED BY <3>1, <3>2, <2>2 DEF PendingIsWatched
  <2> QED BY <2>2, <2>5, <2>6, <2>7, <2>8, Frame
<1> QED BY <1>1, <1>2, <1>3, <1>4 DEF ConsumerStep

(* A status change out of an existing payment with its outbox row keeps    *)
(* OutcomeAnnounced: the row is the last one of its order.                 *)
LEMMA Announce ==
  ASSUME TypeOK, OutcomeAnnounced, NEW o \in Orders, NEW status \in Settled,
         payments' = [payments EXCEPT ![o] = status],
         outbox' = Append(outbox, [topic |-> TopicOf(status), order |-> o])
  PROVE  OutcomeAnnounced'
<1> DEFINE row == [topic |-> TopicOf(status), order |-> o]
<1>1. row \in OutboxRows
  BY DEF TopicOf, OutboxRows, Topics
<1>2. /\ DOMAIN outbox = 1 .. Len(outbox)
      /\ DOMAIN outbox' = 1 .. (Len(outbox) + 1)
      /\ \A i \in 1 .. Len(outbox) : outbox'[i] = outbox[i]
      /\ outbox'[Len(outbox) + 1] = row
      /\ Len(outbox) \in Nat
  <2> HIDE DEF row
  <2> QED BY <1>1, AppendProperties, LenProperties DEF TypeOK, row
<1>3. LastRowFor(o, row)'
  BY <1>2 DEF LastRowFor
<1>4. ASSUME NEW p \in Orders, p # o
      PROVE  IF payments'[p] \in Settled
             THEN LastRowFor(p, [topic |-> TopicOf(payments[p]), order |-> p])'
             ELSE \A i \in DOMAIN outbox' : outbox'[i].order # p
  <2>1. payments'[p] = payments[p]
    BY <1>4 DEF TypeOK
  <2>2. \A i \in DOMAIN outbox' : i \in DOMAIN outbox \/ outbox'[i].order # p
    BY <1>2, <1>4
  <2>3. ASSUME payments[p] \notin Settled PROVE \A i \in DOMAIN outbox' : outbox'[i].order # p
    BY <2>2, <2>3, <1>2 DEF OutcomeAnnounced
  <2>4. ASSUME NEW r, LastRowFor(p, r) PROVE LastRowFor(p, r)'
    BY <2>2, <2>4, <1>2 DEF LastRowFor
  <2>5. payments[p] \in Settled => LastRowFor(p, [topic |-> TopicOf(payments'[p]), order |-> p])
    BY <2>1 DEF OutcomeAnnounced
  <2> QED BY <2>1, <2>3, <2>4, <2>5
<1>5. payments'[o] = status
  BY DEF TypeOK
<1> QED BY <1>3, <1>4, <1>5 DEF OutcomeAnnounced

(* The gRPC requests keep every part of IInv but the types.                *)
LEMMA CallsKeep ==
  ASSUME IInv, NEW c \in Calls, CallStep(c), TypeOK'
  PROVE  IInv'
<1> USE DEF IInv
<1>1. ASSUME NEW op \in Ops, NEW o \in Orders, ReadPayment(c, op, o) PROVE IInv'
  <2>1. UNCHANGED <<payments, outbox, age, jobs, checkouts, offset, committed, consumer, attempts, faults>>
    BY <1>1 DEF ReadPayment, paymentVars, kafkaVars
  <2>2. CallsHavePayment'
    BY <1>1 DEF ReadPayment, CallsHavePayment, TypeOK, paymentVars
  <2>3. HandledHavePayment' /\ PendingIsWatched'
    BY <2>1 DEF HandledHavePayment, HasMessage, Head0, PendingIsWatched, Unacknowledged
  <2> QED BY <2>1, <2>2, <2>3, Frame
<1>2. ASSUME NEW op \in Ops, NEW status \in {"SUCCESS", "FAILED"},
             CommitOutcome(c, op, status, TopicOf(status))
      PROVE  IInv'
  <2>1. PICK o \in Orders : o = calls[c].order
    BY <1>2 DEF CommitOutcome, TypeOK, CallStates, Idle
  <2>2. /\ payments' = [payments EXCEPT ![o] = status]
        /\ outbox' = Append(outbox, [topic |-> TopicOf(status), order |-> o])
    BY <1>2, <2>1 DEF CommitOutcome
  <2>3. UNCHANGED <<age, jobs, checkouts, offset, consumer, faults>>
    BY <1>2 DEF CommitOutcome, kafkaVars
  <2>4. payments'[o] \in Settled /\ \A p \in Orders : p # o => payments'[p] = payments[p]
    BY <2>2 DEF TypeOK, Settled
  <2>5. OutcomeAnnounced'
    BY <2>2, Announce DEF Settled
  <2>6. CallsHavePayment'
    <3>1. calls[c].pc = "commit" /\ calls' = [calls EXCEPT ![c].pc = "unschedule"]
      BY <1>2 DEF CommitOutcome
    <3>2. calls'[c].order = o
      BY <3>1, <2>1 DEF TypeOK
    <3>3. ASSUME NEW d \in Calls, calls'[d].pc \in {"commit", "unschedule"}
          PROVE  calls'[d].order \in Orders
      BY <3>3 DEF TypeOK, CallStates, Idle
    <3>4. \A d \in Calls : d # c => calls'[d] = calls[d]
      BY <3>1 DEF TypeOK
    <3>5. calls'[c].pc = "unschedule"
      BY <3>1 DEF TypeOK
    <3> QED BY <3>2, <3>3, <3>4, <3>5, <2>4 DEF CallsHavePayment, Settled
  <2>7. HandledHavePayment'
    BY <2>2, <2>3, <2>4 DEF HandledHavePayment, HasMessage, Head0, TypeOK, Settled
  <2>8. JobsHavePayment' /\ TimersInTime' /\ OpenForDelay'
    <3>1. payments'[o] \notin {"none", "PENDING", "EXPIRED"}
      BY <2>2 DEF TypeOK
    <3>2. JobsHavePayment'
      BY <2>3, <2>4, <3>1 DEF JobsHavePayment
    <3>3. TimersInTime'
      BY <2>3, <2>4, <3>1 DEF TimersInTime
    <3>4. OpenForDelay'
      BY <2>3, <2>4, <3>1 DEF OpenForDelay, OpenFor
    <3> QED BY <3>2, <3>3, <3>4
  <2>9. PendingIsWatched'
    BY <2>3, <2>4 DEF PendingIsWatched, Unacknowledged, Settled
  <2> QED BY <2>5, <2>6, <2>7, <2>8, <2>9
<1>3. CASE RemoveTimeoutJob(c)
  <2>1. UNCHANGED <<payments, outbox, age, checkouts, offset, committed, consumer, attempts, faults>>
    BY <1>3 DEF RemoveTimeoutJob, paymentVars, kafkaVars
  <2>2. CallsHavePayment'
    BY <1>3, <2>1 DEF RemoveTimeoutJob, CallsHavePayment, TypeOK, Idle
  <2>3. PICK o \in Orders : o = calls[c].order /\ payments[o] \in Settled
    BY <1>3, CallOrder DEF RemoveTimeoutJob, CallsHavePayment
  <2>4. /\ \A p \in Orders : p # o => jobs'[p] = jobs[p]
        /\ jobs'[o] \in {jobs[o], NoJob}
    BY <1>3, <2>3 DEF RemoveTimeoutJob, TypeOK
  <2>5. JobsHavePayment' /\ TimersInTime'
    BY <2>1, <2>3, <2>4 DEF JobsHavePayment, TimersInTime, NoJob, Settled
  <2>6. HandledHavePayment' /\ PendingIsWatched'
    BY <2>1, <2>3, <2>4
    DEF HandledHavePayment, HasMessage, Head0, PendingIsWatched, Unacknowledged, Settled
  <2> QED BY <2>1, <2>2, <2>5, <2>6, Frame
<1>4. CASE CallFails(c)
  <2>1. UNCHANGED <<payments, outbox, age, jobs, checkouts, offset, committed, consumer, attempts>>
    BY <1>4 DEF CallFails, paymentVars, kafkaVars
  <2>2. faults' = faults + 1
    BY <1>4 DEF CallFails, Fault
  <2>3. CallsHavePayment'
    BY <1>4, <2>1 DEF CallFails, CallsHavePayment, TypeOK, Idle
  <2>4. HandledHavePayment' /\ PendingIsWatched'
    BY <2>1, <2>2 DEF HandledHavePayment, HasMessage, Head0, PendingIsWatched, Unacknowledged, TypeOK
  <2> QED BY <2>1, <2>2, <2>3, <2>4, Frame
<1> QED
  BY <1>1, <1>2, <1>3, <1>4 DEF CallStep, CommitSuccess, CommitCancel, Ops, TopicOf

(* The worker of the timeout queue keeps every part of IInv but the types. *)
LEMMA WorkerKeeps ==
  ASSUME IInv, NEW o \in Orders, WorkerStep(o), TypeOK'
  PROVE  IInv'
<1> USE DEF IInv
<1>1. ASSUME NEW job \in JobStates, jobs' = [jobs EXCEPT ![o] = job],
             UNCHANGED <<paymentVars, calls, kafkaVars>>, faults' \in {faults, faults + 1},
             jobs[o].state # "none",
             \/ payments[o] \in Settled
             \/ job.state = "active" /\ jobs[o].state = "delayed" /\ jobs[o].left = 0
             \/ job.state = "failed" /\ faults' > 0
      PROVE  IInv'
  <2>1. UNCHANGED <<payments, outbox, age, calls, checkouts, offset, consumer>>
    BY <1>1 DEF paymentVars, kafkaVars
  <2>2. jobs'[o] = job /\ \A p \in Orders : p # o => jobs'[p] = jobs[p]
    BY <1>1 DEF TypeOK
  <2>3. payments[o] # "none"
    BY <1>1 DEF JobsHavePayment
  <2>4. JobsHavePayment'
    <3>1. ASSUME NEW p \in Orders, p # o
          PROVE  /\ jobs'[p].state # "none" => payments'[p] # "none"
                 /\ jobs'[p].state = "done" => payments'[p] \in Settled
                 /\ jobs'[p].state = "failed" /\ payments'[p] = "PENDING" => faults' > 0
      BY <1>1, <2>1, <2>2, <3>1 DEF JobsHavePayment, TypeOK
    <3>2. /\ jobs'[o].state # "none" => payments'[o] # "none"
          /\ jobs'[o].state = "done" => payments'[o] \in Settled
          /\ jobs'[o].state = "failed" /\ payments'[o] = "PENDING" => faults' > 0
      BY <1>1, <2>1, <2>2, <2>3 DEF Settled
    <3> QED BY <3>1, <3>2 DEF JobsHavePayment
  <2>5. TimersInTime'
    BY <1>1, <2>1, <2>2 DEF TimersInTime, TypeOK, Settled
  <2>6. PendingIsWatched'
    BY <1>1, <2>1, <2>2 DEF PendingIsWatched, Unacknowledged, TypeOK, Settled
  <2>7. HandledHavePayment' /\ CallsHavePayment'
    BY <2>1 DEF HandledHavePayment, HasMessage, Head0, CallsHavePayment
  <2>8. OutcomeAnnounced' /\ OpenForDelay'
    BY <2>1, Frame
  <2> QED BY <2>4, <2>5, <2>6, <2>7, <2>8
<1> USE JobTypes
<1>j. jobs[o] \in JobStates
  BY DEF TypeOK
<1>2. CASE StartJob(o)
  <2>1. [jobs[o] EXCEPT !.state = "active"].state = "active"
    BY <1>j DEF JobStates
  <2>2. jobs' = [jobs EXCEPT ![o] = [jobs[o] EXCEPT !.state = "active"]]
    BY <1>2, Zenon DEF StartJob
  <2>3. jobs[o].state = "delayed" /\ jobs[o].left = 0 /\ UNCHANGED <<paymentVars, calls, kafkaVars, faults>>
    BY <1>2 DEF StartJob
  <2> QED BY <1>1, <1>j, <2>1, <2>2, <2>3
<1>3. CASE ExpirePayment(o)
  <2>1. /\ jobs[o].state = "active" /\ payments[o] = "PENDING"
        /\ payments' = [payments EXCEPT ![o] = "EXPIRED"]
        /\ outbox' = Append(outbox, [topic |-> TopicOf("EXPIRED"), order |-> o])
        /\ UNCHANGED <<age, calls, checkouts, offset, consumer, faults>>
    BY <1>3 DEF ExpirePayment, TopicOf, kafkaVars
  <2>2. payments'[o] = "EXPIRED" /\ \A p \in Orders : p # o => payments'[p] = payments[p]
    BY <2>1 DEF TypeOK
  <2>3. jobs'[o].state = "done" /\ \A p \in Orders : p # o => jobs'[p] = jobs[p]
    BY <1>3 DEF ExpirePayment, TypeOK, JobStates
  <2>4. OutcomeAnnounced'
    BY <2>1, Announce DEF Settled
  <2>5. CallsHavePayment'
    BY CallOrder, <2>1, <2>2 DEF CallsHavePayment, Settled
  <2>6. HandledHavePayment'
    BY <2>1, <2>2 DEF HandledHavePayment, HasMessage, Head0, TypeOK
  <2>7. JobsHavePayment' /\ TimersInTime'
    BY <2>1, <2>2, <2>3 DEF JobsHavePayment, TimersInTime, Settled
  <2>8. OpenForDelay'
    BY <2>1, <2>2 DEF OpenForDelay, OpenFor, TimersInTime
  <2>9. PendingIsWatched'
    BY <2>1, <2>2, <2>3 DEF PendingIsWatched, Unacknowledged
  <2> QED BY <2>4, <2>5, <2>6, <2>7, <2>8, <2>9
<1>4. CASE ExpireNothing(o)
  <2>1. payments[o] \in Settled
    BY <1>4 DEF ExpireNothing, JobsHavePayment, TypeOK, Statuses
  <2>2. jobs' = [jobs EXCEPT ![o] = [jobs[o] EXCEPT !.state = "failed"]]
    BY <1>4, Zenon DEF ExpireNothing
  <2>3. jobs[o].state = "active" /\ UNCHANGED <<paymentVars, calls, kafkaVars, faults>>
    BY <1>4 DEF ExpireNothing
  <2> QED BY <1>1, <1>j, <2>1, <2>2, <2>3
<1>5. CASE ExpireFails(o)
  <2>1. faults' = faults + 1 /\ faults' > 0
    <3>1. faults \in Nat
      BY BoundsAssumption DEF TypeOK
    <3> QED BY <1>5, <3>1 DEF ExpireFails, Fault
  <2>2. [jobs[o] EXCEPT !.state = "failed"].state = "failed"
    BY <1>j DEF JobStates
  <2>3. jobs' = [jobs EXCEPT ![o] = [jobs[o] EXCEPT !.state = "failed"]]
    BY <1>5, Zenon DEF ExpireFails
  <2>4. jobs[o].state # "none" /\ UNCHANGED <<paymentVars, calls, kafkaVars>>
    BY <1>5 DEF ExpireFails, Locked
  <2> QED BY <1>1, <1>j, <2>1, <2>2, <2>3, <2>4
<1>6. CASE CompleteJob(o)
  <2>1. payments[o] \in Settled
    BY <1>6 DEF CompleteJob, JobsHavePayment
  <2> QED BY <1>1, <1>6, <2>1 DEF CompleteJob
<1> QED BY <1>2, <1>3, <1>4, <1>5, <1>6 DEF WorkerStep

(* The clock keeps every part of IInv but the types.                       *)
LEMMA TickKeeps ==
  ASSUME IInv, Tick, TypeOK'
  PROVE  IInv'
<1> USE DEF IInv
<1>1. UNCHANGED <<payments, outbox, calls, checkouts, offset, consumer, faults>>
  BY DEF Tick, kafkaVars
<1>2. \A o \in Orders : jobs'[o].state = jobs[o].state
  BY DEF Tick, TypeOK, JobStates
<1>3. \A o \in Orders : payments[o] # "PENDING" => age'[o] = age[o]
  BY DEF Tick, Counting
<1>4. HandledHavePayment' /\ CallsHavePayment' /\ PendingIsWatched' /\ JobsHavePayment'
  BY <1>1, <1>2
  DEF HandledHavePayment, HasMessage, Head0, CallsHavePayment, PendingIsWatched,
      Unacknowledged, JobsHavePayment
<1>5. OutcomeAnnounced' /\ OpenForDelay'
  BY <1>1, <1>3 DEF OutcomeAnnounced, LastRowFor, OpenForDelay, OpenFor
<1>6. TimersInTime'
  <2>1. ASSUME NEW o \in Orders, payments[o] = "PENDING"
        PROVE  /\ jobs[o].state = "delayed" => age'[o] + jobs'[o].left >= Delay
               /\ jobs[o].state = "active" => age'[o] >= Delay
    <3>1. age[o] \in Nat /\ age[o] <= Window /\ jobs[o].left \in Nat
      BY DelayAssumption DEF TypeOK, JobStates
    <3>2. age'[o] = IF age[o] < Window THEN age[o] + 1 ELSE age[o]
      BY <2>1 DEF Tick, Counting
    <3>3. jobs'[o] = IF Waiting(o) THEN [jobs[o] EXCEPT !.left = jobs[o].left - 1] ELSE jobs[o]
      BY DEF Tick
    <3>4. jobs'[o].left \in {jobs[o].left, jobs[o].left - 1}
      BY <3>3 DEF TypeOK, JobStates
    <3>5. jobs'[o].left \in Nat
      BY DelayAssumption DEF TypeOK, JobStates
    <3>6. /\ jobs[o].state = "delayed" => age[o] + jobs[o].left >= Delay
          /\ jobs[o].state = "active" => age[o] >= Delay
      BY <2>1 DEF TimersInTime
    <3> QED BY <3>1, <3>2, <3>4, <3>5, <3>6, DelayAssumption
  <2> QED BY <2>1, <1>1, <1>2 DEF TimersInTime
<1> QED BY <1>4, <1>5, <1>6

(* A crash and restart keeps every part of IInv but the types.             *)
LEMMA CrashKeeps ==
  ASSUME IInv, Crash, TypeOK'
  PROVE  IInv'
<1> USE DEF IInv
<1>1. /\ UNCHANGED <<payments, outbox, age, checkouts>>
      /\ faults' > 0 /\ offset' = committed /\ consumer' = "poll"
  <2>1. faults \in Nat
    BY BoundsAssumption DEF TypeOK
  <2> QED BY <2>1 DEF Crash, Fault, paymentVars
<1>2. ASSUME NEW o \in Orders
      PROVE  \/ jobs'[o] = jobs[o] /\ jobs[o].state \in {"none", "delayed", "failed"}
             \/ jobs[o].state \in {"active", "done"} /\ jobs'[o].state = "failed"
             \/ jobs[o].state \in {"active", "done"} /\ jobs'[o].state = "delayed" /\ jobs'[o].left = 0
  BY DEF Crash, Locked, Stall, TypeOK, JobStates
<1>3. HandledHavePayment'
  BY <1>1 DEF HandledHavePayment, TypeOK
<1>4. CallsHavePayment'
  BY DEF Crash, CallsHavePayment, Idle
<1>5. JobsHavePayment'
  BY <1>1, <1>2 DEF JobsHavePayment
<1>6. TimersInTime'
  <2>1. ASSUME NEW o \in Orders, payments[o] = "PENDING"
        PROVE  /\ jobs'[o].state = "delayed" => age[o] + jobs'[o].left >= Delay
               /\ jobs'[o].state = "active" => age[o] >= Delay
    <3>1. /\ jobs[o].state = "delayed" => age[o] + jobs[o].left >= Delay
          /\ jobs[o].state = "active" => age[o] >= Delay
          /\ jobs[o].state # "done"
      BY <2>1 DEF TimersInTime, JobsHavePayment, Settled
    <3>2. age[o] + 0 = age[o]
      BY DelayAssumption DEF TypeOK
    <3> QED BY <1>2, <3>1, <3>2
  <2> QED BY <2>1, <1>1 DEF TimersInTime
<1>7. PendingIsWatched'
  <2>1. \A o \in Orders : Unacknowledged(o) => Unacknowledged(o)'
    BY <1>1, LenProperties DEF Unacknowledged, TypeOK
  <2> QED BY <1>1, <1>2, <2>1 DEF PendingIsWatched
<1>8. OutcomeAnnounced' /\ OpenForDelay'
  BY <1>1, Frame
<1> QED BY <1>3, <1>4, <1>5, <1>6, <1>7, <1>8

(* IInv is inductive: the steps of the lemmas above are all there are.     *)
LEMMA InvNext == IInv /\ [Next]_vars => IInv'
<1> SUFFICES ASSUME IInv, [Next]_vars PROVE IInv'
  OBVIOUS
<1>1. TypeOK'
  BY TypeNext DEF IInv, HandledHavePayment
<1>2. CASE UNCHANGED vars
  BY <1>2
  DEF vars, IInv, TypeOK, HandledHavePayment, HasMessage, Head0, CallsHavePayment,
      JobsHavePayment, TimersInTime, PendingIsWatched, Unacknowledged, OutcomeAnnounced,
      LastRowFor, OpenForDelay, OpenFor
<1> QED
  BY <1>1, <1>2, ConsumerKeeps, CallsKeep, WorkerKeeps, TickKeeps, CrashKeeps DEF Next

-----------------------------------------------------------------------------
(* The steps that change a payment: a row is created, a request commits,   *)
(* a PENDING payment expires.                                              *)
LEMMA PaymentChanges ==
  ASSUME IInv, [Next]_vars
  PROVE  \/ payments' = payments
         \/ \E o \in Orders :
              o = Head0 /\ payments[o] = "none" /\ payments' = [payments EXCEPT ![o] = "PENDING"]
         \/ \E c \in Calls, o \in Orders, status \in {"SUCCESS", "FAILED"} :
              /\ calls[c].pc = "commit" /\ calls[c].order = o /\ payments[o] # "none"
              /\ calls' = [calls EXCEPT ![c].pc = "unschedule"]
              /\ payments' = [payments EXCEPT ![o] = status]
         \/ \E o \in Orders : payments[o] = "PENDING" /\ payments' = [payments EXCEPT ![o] = "EXPIRED"]
<1>t. TypeOK /\ CallsHavePayment
  BY DEF IInv
<1>1. CASE CreatePayment
  <2>1. Head0 \in Orders
    BY <1>1, <1>t, ElementOfSeq DEF CreatePayment, TypeOK, HasMessage, Head0
  <2> QED BY <1>1, <2>1 DEF CreatePayment
<1>2. ASSUME NEW c \in Calls, CommitSuccess(c) \/ CommitCancel(c)
      PROVE  \E o \in Orders, status \in {"SUCCESS", "FAILED"} :
               /\ calls[c].pc = "commit" /\ calls[c].order = o /\ payments[o] # "none"
               /\ calls' = [calls EXCEPT ![c].pc = "unschedule"]
               /\ payments' = [payments EXCEPT ![o] = status]
  <2>1. calls[c].pc = "commit" /\ calls' = [calls EXCEPT ![c].pc = "unschedule"]
    BY <1>2 DEF CommitSuccess, CommitCancel, CommitOutcome
  <2>2. PICK o \in Orders : calls[c].order = o /\ payments[o] # "none"
    BY <2>1, <1>t, CallOrder DEF CallsHavePayment
  <2> QED BY <1>2, <2>1, <2>2 DEF CommitSuccess, CommitCancel, CommitOutcome
<1>3. ASSUME NEW o \in Orders, WorkerStep(o)
      PROVE  \/ payments' = payments
             \/ payments[o] = "PENDING" /\ payments' = [payments EXCEPT ![o] = "EXPIRED"]
  BY <1>3
  DEF WorkerStep, StartJob, ExpirePayment, ExpireNothing, ExpireFails, CompleteJob, paymentVars
<1>4. CASE \/ \E o \in Orders : PublishCheckout(o)
           \/ RejectDuplicate \/ AddTimeoutJob \/ HandlerFails \/ CommitOffset
           \/ \E c \in Calls : \/ \E op \in Ops, o \in Orders : ReadPayment(c, op, o)
                               \/ RemoveTimeoutJob(c)
                               \/ CallFails(c)
           \/ Tick \/ Crash \/ UNCHANGED vars
  BY <1>4
  DEF PublishCheckout, RejectDuplicate, AddTimeoutJob, HandlerFails, CommitOffset, ReadPayment,
      RemoveTimeoutJob, CallFails, Tick, Crash, vars, paymentVars
<1> QED BY <1>1, <1>2, <1>3, <1>4 DEF Next, ConsumerStep, CallStep

-----------------------------------------------------------------------------
(* The theorems.                                                           *)

(* Everything above holds in every state the payment service can reach.    *)
THEOREM Invariant == Spec => []IInv
BY InvInit, InvNext, PTL DEF Spec

(* Type correctness of the tables, the queue, the topic and the requests.  *)
THEOREM TypeCorrect == Spec => []TypeOK
<1>1. IInv => TypeOK
  BY DEF IInv
<1> QED BY <1>1, Invariant, PTL

(* The last outbox row of an order always announces its payment's status,  *)
(* however processPaymentSuccessed, processPaymentCanceled and             *)
(* expirePayment interleave.                                               *)
THEOREM Announced == Spec => []OutcomeAnnounced
<1>1. IInv => OutcomeAnnounced
  BY DEF IInv
<1> QED BY <1>1, Invariant, PTL

(* A PENDING payment has a live timeout job, or an unacknowledged          *)
(* order.checkout message, or a failed job that met a fault.               *)
THEOREM Watched == Spec => []PendingIsWatched
<1>1. IInv => PendingIsWatched
  BY DEF IInv
<1> QED BY <1>1, Invariant, PTL

(* No payment expires before addTimeoutJob's delay has passed.             *)
THEOREM NeverEarly == Spec => []OpenForDelay
<1>1. IInv => OpenForDelay
  BY DEF IInv
<1> QED BY <1>1, Invariant, PTL

(* A settled payment that no request is still committing to keeps its      *)
(* status for ever: the status reads of the requests and the condition of  *)
(* expirePayment are enough for that, for any number of requests.          *)
THEOREM SettledForGood == Spec => SettlementIsFinal
<1>1. ASSUME IInv, [Next]_vars, NEW o \in Orders, Final(o)
      PROVE  Final(o)' /\ payments'[o] = payments[o]
  <2>t. /\ payments \in [Orders -> Statuses] /\ calls \in [Calls -> CallStates]
        /\ payments[o] \in Settled
    BY <1>1 DEF IInv, TypeOK, Final
  <2>1. payments'[o] = payments[o]
    BY <1>1, <2>t, PaymentChanges DEF Final, Settled
  <2>2. ASSUME NEW c \in Calls, calls'[c].pc = "commit", calls'[c] # calls[c]
        PROVE  calls'[c].order # o
    <3>1. PICK d \in Calls : CallStep(d)
      <4>1. ~ (ConsumerStep \/ \E p \in Orders : PublishCheckout(p))
        BY <2>2
        DEF PublishCheckout, ConsumerStep, CreatePayment, RejectDuplicate, AddTimeoutJob,
            HandlerFails, CommitOffset
      <4>2. ~ \E p \in Orders : WorkerStep(p)
        BY <2>2
        DEF WorkerStep, StartJob, ExpirePayment, ExpireNothing, ExpireFails, CompleteJob
      <4>3. ~ (Tick \/ Crash \/ UNCHANGED vars)
        BY <2>2 DEF Tick, Crash, Idle, vars
      <4> QED BY <1>1, <4>1, <4>2, <4>3 DEF Next
    <3>2. CASE \E op \in Ops, p \in Orders : ReadPayment(d, op, p)
      <4>1. PICK op \in Ops, p \in Orders :
              /\ payments[p] = "PENDING"
              /\ calls' = [calls EXCEPT ![d] = [pc |-> "commit", op |-> op, order |-> p]]
        BY <3>2 DEF ReadPayment
      <4>2. p # o
        BY <2>t, <4>1 DEF Settled
      <4> QED BY <2>t, <2>2, <4>1, <4>2
    <3>3. CASE CommitSuccess(d) \/ CommitCancel(d)
      <4>1. calls[d].pc = "commit" /\ calls' = [calls EXCEPT ![d].pc = "unschedule"]
        BY <3>3 DEF CommitSuccess, CommitCancel, CommitOutcome
      <4>2. calls[d] \in [pc : {"commit", "unschedule"}, op : Ops, order : Orders]
        BY <2>t, <4>1 DEF CallStates, Idle
      <4> QED BY <2>t, <2>2, <4>1, <4>2
    <3>4. CASE RemoveTimeoutJob(d) \/ CallFails(d)
      <4>1. calls' = [calls EXCEPT ![d] = Idle]
        BY <3>4 DEF RemoveTimeoutJob, CallFails
      <4> QED BY <2>t, <2>2, <4>1 DEF Idle
    <3> QED BY <3>1, <3>2, <3>3, <3>4 DEF CallStep
  <2> QED BY <1>1, <2>1, <2>2 DEF Final
<1>2. IInv /\ [Next]_vars
        => [\A o \in Orders : Final(o) => Final(o)' /\ payments'[o] = payments[o]]_vars
  BY <1>1
<1> QED BY <1>2, Invariant, PTL DEF Spec, SettlementIsFinal

(* An order.checkout message for an order that has a payment already stops *)
(* the partition for good, through restarts too.                           *)
THEOREM PoisonStays == Spec => PoisonIsForever
<1>1. ASSUME IInv, [Next]_vars, Poisoned
      PROVE  /\ Poisoned'
             /\ \A o \in Orders : payments[o] = "none" => payments'[o] = "none"
  <2> USE DEF IInv
  <2>h. /\ offset \in Nat /\ committed \in 0 .. offset /\ offset + 1 \in 1 .. Len(checkouts)
        /\ consumer = "poll" /\ HasMessage /\ payments[Head0] # "none" /\ Head0 \in Orders
    BY <1>1, ElementOfSeq DEF Poisoned, TypeOK, HasMessage, Head0
  <2>1. ASSUME UNCHANGED <<checkouts, offset, consumer>>,
               \A o \in Orders : payments'[o] = "none" <=> payments[o] = "none"
        PROVE  /\ Poisoned'
               /\ \A o \in Orders : payments[o] = "none" => payments'[o] = "none"
    BY <2>h, <2>1 DEF Poisoned, HasMessage, Head0
  <2>2. ASSUME NEW p \in Orders, PublishCheckout(p)
        PROVE  /\ Poisoned'
               /\ \A o \in Orders : payments[o] = "none" => payments'[o] = "none"
    <3>1. /\ Len(checkouts') = Len(checkouts) + 1
          /\ \A i \in 1 .. Len(checkouts) : checkouts'[i] = checkouts[i]
      BY <2>2, AppendProperties DEF PublishCheckout, TypeOK
    <3>2. UNCHANGED <<payments, offset, consumer>>
      BY <2>2 DEF PublishCheckout, paymentVars
    <3> QED BY <2>h, <3>1, <3>2 DEF Poisoned, HasMessage, Head0, TypeOK
  <2>3. CASE ConsumerStep
    <3>1. RejectDuplicate \/ CommitOffset
      BY <2>h, <2>3 DEF ConsumerStep, CreatePayment, AddTimeoutJob, HandlerFails
    <3> QED BY <2>1, <3>1 DEF RejectDuplicate, CommitOffset, paymentVars
  <2>4. ASSUME NEW c \in Calls, CallStep(c)
        PROVE  UNCHANGED <<checkouts, offset, consumer>>
    BY <2>4
    DEF CallStep, ReadPayment, CommitSuccess, CommitCancel, CommitOutcome, RemoveTimeoutJob,
        CallFails, kafkaVars
  <2>5. ASSUME NEW p \in Orders, WorkerStep(p)
        PROVE  UNCHANGED <<checkouts, offset, consumer>>
    BY <2>5
    DEF WorkerStep, StartJob, ExpirePayment, ExpireNothing, ExpireFails, CompleteJob, kafkaVars
  <2>8. CASE UNCHANGED <<checkouts, offset, consumer>>
    <3>1. payments \in [Orders -> Statuses]
      BY <1>1 DEF TypeOK
    <3>2. \A o \in Orders : payments'[o] = "none" <=> payments[o] = "none"
      BY <1>1, <3>1, <2>h, PaymentChanges
    <3> QED BY <2>1, <2>8, <3>2
  <2>6. CASE Tick \/ UNCHANGED vars
    BY <2>1, <2>6 DEF Tick, kafkaVars, vars
  <2>7. CASE Crash
    <3>1. UNCHANGED <<payments, checkouts>> /\ offset' = committed /\ consumer' = "poll"
      BY <2>7 DEF Crash, paymentVars
    <3>2. CASE committed = offset
      BY <2>h, <3>1, <3>2 DEF Poisoned, HasMessage, Head0
    <3>3. CASE committed < offset
      <4>1. committed + 1 \in 1 .. offset /\ committed < Len(checkouts)
        BY <2>h, <3>3
      <4>2. payments[checkouts[committed + 1]] # "none"
        BY <1>1, <4>1 DEF HandledHavePayment
      <4> QED BY <3>1, <4>1, <4>2 DEF Poisoned, HasMessage, Head0
    <3> QED BY <2>h, <3>2, <3>3
  <2> QED BY <1>1, <2>2, <2>3, <2>4, <2>5, <2>6, <2>7, <2>8 DEF Next
<1>2. IInv /\ [Next]_vars
        => [Poisoned => /\ Poisoned'
                        /\ \A o \in Orders : payments[o] = "none" => payments'[o] = "none"]_vars
  BY <1>1
<1> QED BY <1>2, Invariant, PTL DEF Spec, PoisonIsForever

(* The service implements PaymentLedger: every step opens, settles or      *)
(* lapses one payment together with its outbox row, or changes neither.    *)
THEOREM RefinesLedger == Spec => LedgerRefined
<1>1. Init => Ledger!LedgerInit
  BY DEF Init, Ledger!LedgerInit
<1>2. IInv /\ [Next]_vars => [Ledger!LedgerNext]_(Ledger!ledgerVars)
  <2> SUFFICES ASSUME IInv, [Next]_vars
               PROVE  Ledger!LedgerNext \/ UNCHANGED <<payments, outbox>>
    BY DEF Ledger!ledgerVars
  <2> USE DEF IInv
  <2>1. CASE CreatePayment
    <3>1. PICK o \in Orders : o = Head0
      BY <2>1, ElementOfSeq DEF CreatePayment, TypeOK, HasMessage, Head0
    <3>2. Ledger!Open(o)
      BY <2>1, <3>1 DEF CreatePayment, Ledger!Open
    <3> QED BY <3>2 DEF Ledger!LedgerNext
  <2>2. ASSUME NEW c \in Calls, CommitSuccess(c) \/ CommitCancel(c)
        PROVE  Ledger!LedgerNext
    <3>1. PICK o \in Orders : o = calls[c].order /\ payments[o] # "none"
      BY <2>2, CallOrder DEF CommitSuccess, CommitCancel, CommitOutcome, CallsHavePayment
    <3>2. Ledger!Settle(o, "SUCCESS") \/ Ledger!Settle(o, "FAILED")
      BY <2>2, <3>1
      DEF CommitSuccess, CommitCancel, CommitOutcome, Ledger!Settle, Ledger!Announcement
    <3> QED BY <3>2 DEF Ledger!LedgerNext
  <2>3. ASSUME NEW o \in Orders, ExpirePayment(o)
        PROVE  Ledger!LedgerNext
    <3>1. Ledger!Lapse(o)
      BY <2>3 DEF ExpirePayment, Ledger!Lapse, Ledger!Announcement
    <3> QED BY <3>1 DEF Ledger!LedgerNext
  <2>4. CASE \/ \E o \in Orders : PublishCheckout(o) \/ StartJob(o) \/ ExpireNothing(o)
                                    \/ ExpireFails(o) \/ CompleteJob(o)
             \/ RejectDuplicate \/ AddTimeoutJob \/ HandlerFails \/ CommitOffset
             \/ \E c \in Calls : \/ \E op \in Ops, o \in Orders : ReadPayment(c, op, o)
                                 \/ RemoveTimeoutJob(c)
                                 \/ CallFails(c)
             \/ Tick \/ Crash \/ UNCHANGED vars
    BY <2>4
    DEF PublishCheckout, StartJob, ExpireNothing, ExpireFails, CompleteJob, RejectDuplicate,
        AddTimeoutJob, HandlerFails, CommitOffset, ReadPayment, RemoveTimeoutJob, CallFails,
        Tick, Crash, vars, paymentVars
  <2> QED BY <2>1, <2>2, <2>3, <2>4 DEF Next, ConsumerStep, CallStep, WorkerStep
<1> QED BY <1>1, <1>2, Invariant, PTL DEF Spec, LedgerRefined, Ledger!LedgerSpec
=============================================================================
