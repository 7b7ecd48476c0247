---------------------------- MODULE OrderProofs ----------------------------
(***************************************************************************)
(* The safety properties of Order, for any requests, carts and bounds.     *)
(***************************************************************************)
EXTENDS Order, SumLemmas

-----------------------------------------------------------------------------
(* The inductive invariant.                                                *)

Statuses == {"none", "DRAFT", "PENDING", "CONFIRMED", "CANCELED"}
EventTopics == {"order.checkout", "order.canceled", "order.checkout.failed"}
EveryCart == Carts \cup {FirstCart}
Products == UNION {DOMAIN cart : cart \in EveryCart}
Quantities == UNION {{cart[sku] : sku \in DOMAIN cart} : cart \in EveryCart}
Rows == [id : OrderIds \X Products, order : OrderIds, sku : Products, quantity : Quantities]
OrderType == [OrderIds -> [status : Statuses, total : Carts \cup {NoCart, FirstCart}]]
EventType == [topic : EventTopics, order : OrderIds \cup {NoOrder},
              items : SUBSET Rows, call : Calls \cup {NoOrder}]
CallType == [pc : Ended \cup Running, target : OrderIds \cup {NoOrder},
             cart : Carts \cup {NoCart}, read : SUBSET Rows]

Typed ==
  /\ orders \in OrderType
  /\ items \in SUBSET Rows
  /\ outbox \in Seq(EventType)
  /\ calls \in [Calls -> CallType]
  /\ topics \in [Topics -> Seq(OrderIds)]
  /\ offset \in [Topics -> Nat] /\ committed \in [Topics -> Nat]
  /\ faults \in Nat /\ crashes \in Nat

Offsets == \A t \in Topics : committed[t] <= offset[t] /\ offset[t] <= Len(topics[t])

(* A request that has begun to work on an order names one.                 *)
Targeted ==
  \A c \in Calls : calls[c].pc \in {"read", "update", "remove", "pay"} => calls[c].target \in OrderIds

(* The call that makes an order or a row is done with that, and makes no   *)
(* other of the same name.                                                 *)
Made(k) == k = First \/ calls[k].pc = "done"
OrdersMade ==
  \A o \in OrderIds : IF orders[o].status = "none" THEN orders[o] = Absent ELSE Made(o)
RowsMade ==
  \A row \in items :
    /\ row.id[2] = row.sku /\ Made(row.id[1])
    /\ orders[row.order].status # "none"
    /\ \A other \in items : other.id = row.id => other = row

(* What a request has read are rows of its order, and a row with the same  *)
(* id still is one, if it exists.                                          *)
ReadsKnown ==
  \A c \in Calls : \A r \in calls[c].read :
    /\ r.id[2] = r.sku /\ Made(r.id[1]) /\ r.order = calls[c].target
    /\ \A row \in items : row.id = r.id => row.order = r.order

(* Only a request at its end has published.                                *)
Verdicts ==
  \A i \in DOMAIN outbox : outbox[i].call \in Calls =>
    /\ outbox[i].topic = "order.checkout" => calls[outbox[i].call].pc = "paid"
    /\ outbox[i].topic = "order.checkout.failed" =>
         calls[outbox[i].call].pc \in {"report", "refused", "dead"}
EventsNamed ==
  \A i \in DOMAIN outbox : outbox[i].topic # "order.checkout.failed" => outbox[i].order \in OrderIds

IInv ==
  /\ Typed /\ Offsets /\ Targeted
  /\ OrdersMade /\ RowsMade /\ ReadsKnown
  /\ Verdicts /\ EventsNamed
  /\ EventsMatchRows /\ EventsTellStatus /\ OneVerdict

-----------------------------------------------------------------------------
(* Types.                                                                  *)

(* The empty cart has no products.                                         *)
LEMMA EmptyCart == DOMAIN NoCart = {}
<1>1. [x \in {} |-> 0] \in [{} -> {0}]
  OBVIOUS
<1>2. NoCart \in [{} -> {0}]
  BY <1>1 DEF NoCart
<1> QED BY <1>2

(* The rows an update creates are order items.                             *)
LEMMA NewRowType ==
  ASSUME NEW c \in OrderIds, NEW o \in OrderIds, NEW cart \in Carts \cup {NoCart, FirstCart},
         NEW skus \in SUBSET DOMAIN cart
  PROVE  RowsFor(c, o, cart, skus) \in SUBSET Rows
<1>1. \A sku \in skus : sku \in Products /\ cart[sku] \in Quantities
  BY EmptyCart DEF Products, Quantities, EveryCart
<1> QED BY <1>1 DEF RowsFor, Row, Rows

(* The outbox grows by events.                                             *)
LEMMA Appended ==
  ASSUME Typed, NEW e, Emit(e), e \in EventType
  PROVE  outbox' \in Seq(EventType)
BY DEF Typed, Emit

(* A call that starts is a call.                                           *)
LEMMA Started ==
  ASSUME NEW pc \in Ended \cup Running, NEW o \in OrderIds \cup {NoOrder}, NEW cart \in Carts \cup {NoCart}
  PROVE  Start(pc, o, cart) \in CallType
BY DEF Start, CallType

(* The rows an update leaves.                                              *)
LEMMA RewrittenType ==
  ASSUME Typed, ReadsKnown, RowsMade, NEW c \in Calls, calls[c].target \in OrderIds,
         NEW found \in FirstRows(calls[c].read, calls[c].cart)
  PROVE  Rewritten(c, calls[c].read, calls[c].cart, found) \in SUBSET Rows
<1> DEFINE cart == calls[c].cart
           hit == {found[sku].id : sku \in DOMAIN found}
<1>1. cart \in Carts \cup {NoCart} /\ calls[c].read \in SUBSET Rows /\ items \in SUBSET Rows
  BY DEF Typed, CallType
<1>2. \A sku \in DOMAIN found : sku \in DOMAIN cart /\ found[sku] \in calls[c].read /\ found[sku].sku = sku
  BY DEF FirstRows
<1>3. ASSUME NEW row \in items, row.id \in hit
      PROVE  [row EXCEPT !.quantity = cart[row.sku]] \in Rows
  <2>1. PICK sku \in DOMAIN found : row.id = found[sku].id
    BY <1>3
  <2>2. row.sku = sku
    BY <1>2, <2>1 DEF RowsMade, ReadsKnown
  <2>3. cart[row.sku] \in Quantities
    BY <1>1, <1>2, <2>2, EmptyCart DEF Quantities, EveryCart
  <2> QED BY <1>1, <2>3 DEF Rows
<1>4. RowsFor(c, calls[c].target, cart, DOMAIN cart \ SkusOf(calls[c].read)) \in SUBSET Rows
  BY <1>1, NewRowType DEF OrderIds
<1> QED BY <1>1, <1>3, <1>4 DEF Rewritten

(* A restart of the service keeps the types.                               *)
LEMMA RestartTyped ==
  ASSUME Typed, Restart
  PROVE  Typed'
<1>1. calls' \in [Calls -> CallType]
  <2>1. \A c \in Calls : calls[c] \in CallType /\ [calls[c] EXCEPT !.pc = "dead"] \in CallType
    BY DEF Typed, CallType, Ended
  <2> QED BY <2>1 DEF Restart
<1> QED BY <1>1 DEF Typed, Restart, tableVars

(* So does a step of a call.                                               *)
LEMMA TypedKept ==
  ASSUME Typed, ReadsKnown, RowsMade, Targeted, NEW c \in Calls, CallStep(c)
  PROVE  Typed'
<1> USE DEF CallType, Ended, Running
<1>1. ASSUME NEW cart \in Carts, CreateCall(c, cart) PROVE Typed'
  BY <1>1 DEF Typed, CreateCall, tableVars, kafkaVars, Start
<1>2. ASSUME NEW cart \in Carts, SyncCall(c, cart) PROVE Typed'
  <2>1. \E v \in CallType : calls' = [calls EXCEPT ![c] = v]
    BY <1>2, Started DEF SyncCall, UpdateOf, Drafts
  <2> QED BY <1>2, <2>1 DEF Typed, SyncCall, tableVars, kafkaVars
<1>3. ASSUME NEW cart \in Carts, NEW o \in OrderIds, UpdateCall(c, o, cart) PROVE Typed'
  BY <1>3 DEF Typed, UpdateCall, UpdateOf, tableVars, kafkaVars, Start
<1>4. CASE CreateOrder(c)
  <2>1. RowsFor(c, c, calls[c].cart, DOMAIN calls[c].cart) \in SUBSET Rows
    BY NewRowType DEF Typed, OrderIds
  <2>2. orders' \in OrderType
    BY <1>4 DEF Typed, CreateOrder, OrderType, OrderIds, Draft, Statuses
  <2> QED BY <1>4, <2>1, <2>2 DEF Typed, CreateOrder, Goto, kafkaVars
<1>5. CASE ReadItems(c)
  BY <1>5 DEF Typed, ReadItems, RowsOf, tableVars, kafkaVars
<1>6. CASE UpdateOrder(c)
  <2>1. items' \in SUBSET Rows
    BY <1>6, RewrittenType DEF UpdateOrder, Targeted
  <2>2. orders' \in OrderType
    BY <1>6 DEF Typed, UpdateOrder, OrderType, Targeted
  <2> QED BY <1>6, <2>1, <2>2 DEF Typed, UpdateOrder, Goto, kafkaVars
<1>7. CASE RejectUpdate(c)
  BY <1>7 DEF Typed, RejectUpdate, Goto, tableVars, kafkaVars
<1>8. CASE RemoveOrder(c)
  <2>1. orders' \in OrderType
    BY <1>8 DEF Typed, RemoveOrder, OrderType, Absent, Statuses
  <2> QED BY <1>8, <2>1 DEF Typed, RemoveOrder, Goto, kafkaVars
<1>9. CASE CheckoutCall(c)
  <2>1. CASE calls' = [calls EXCEPT ![c].pc = "noDraft"]
    BY <1>9, <2>1 DEF Typed, CheckoutCall, tableVars, kafkaVars
  <2>2. CASE \E o \in Drafts : calls' = [calls EXCEPT ![c] = Start("pay", o, NoCart)]
    <3>1. \E v \in CallType : calls' = [calls EXCEPT ![c] = v]
      BY <2>2, Started DEF Drafts
    <3> QED BY <1>9, <3>1 DEF Typed, CheckoutCall, tableVars, kafkaVars
  <2> QED BY <1>9, <2>1, <2>2 DEF CheckoutCall
<1>10. CASE CommitCheckout(c)
  <2>1. orders' \in OrderType
    BY <1>10 DEF Typed, CommitCheckout, OrderType, Statuses
  <2>2. Event("order.checkout", calls[c].target, RowsOf(calls[c].target), c) \in EventType
    BY DEF Typed, Event, EventType, EventTopics, RowsOf
  <2>3. outbox' \in Seq(EventType)
    BY <1>10, <2>2, Appended DEF CommitCheckout
  <2> QED BY <1>10, <2>1, <2>3 DEF Typed, CommitCheckout, Goto, kafkaVars
<1>11. CASE CheckoutMissing(c)
  BY <1>11 DEF Typed, CheckoutMissing, Start, tableVars, kafkaVars
<1>12. CASE CheckoutRollsBack(c)
  BY <1>12 DEF Typed, CheckoutRollsBack, Start, Fault, tableVars, kafkaVars
<1>13. CASE ReportNoDraft(c)
  <2>1. Event("order.checkout.failed", NoOrder, {}, c) \in EventType
    BY DEF Event, EventType, EventTopics
  <2>2. outbox' \in Seq(EventType)
    BY <1>13, <2>1, Appended DEF ReportNoDraft
  <2> QED BY <1>13, <2>2 DEF Typed, ReportNoDraft, Goto, kafkaVars
<1>14. CASE Report(c)
  <2>1. Event("order.checkout.failed", calls[c].target, {}, c) \in EventType
    BY DEF Typed, Event, EventType, EventTopics
  <2>2. outbox' \in Seq(EventType)
    BY <1>14, <2>1, Appended DEF Report
  <2> QED BY <1>14, <2>2 DEF Typed, Report, Goto, kafkaVars
<1>15. CASE ReportFails(c)
  <2>1. calls' \in [Calls -> CallType]
    BY <1>15 DEF Typed, ReportFails, Goto
  <2>2. faults' \in Nat
    BY <1>15 DEF Typed, ReportFails, Fault
  <2> QED BY <1>15, <2>1, <2>2 DEF Typed, ReportFails, tableVars, kafkaVars
<1>16. CASE RemoveKillsProcess(c)
  BY <1>16, RestartTyped DEF RemoveKillsProcess
<1> QED BY <1>1, <1>2, <1>3, <1>4, <1>5, <1>6, <1>7, <1>8, <1>9, <1>10, <1>11, <1>12, <1>13,
           <1>14, <1>15, <1>16 DEF CallStep

(* Every step keeps the types.                                             *)
LEMMA TypedStep ==
  ASSUME Typed, Offsets, ReadsKnown, RowsMade, Targeted, [Next]_vars
  PROVE  Typed'
<1>1. ASSUME NEW c \in Calls, CallStep(c) PROVE Typed'
  BY <1>1, TypedKept
<1>2. ASSUME NEW o \in OrderIds, NEW t \in Topics, PaymentOutcome(o, t) PROVE Typed'
  <2>1. topics' \in [Topics -> Seq(OrderIds)]
    BY <1>2 DEF Typed, PaymentOutcome
  <2> QED BY <1>2, <2>1 DEF Typed, PaymentOutcome, tableVars
<1>3. ASSUME NEW t \in Topics, NEW status \in Statuses, Handle(t, status)
      PROVE  /\ HeadOf(t) \in OrderIds /\ orders' \in OrderType /\ offset' \in [Topics -> Nat]
  <2>1. HeadOf(t) \in OrderIds
    BY <1>3 DEF Handle, HasMessage, HeadOf, Typed
  <2>2. orders' \in OrderType
    <3> DEFINE o == HeadOf(t)
    <3>1. o \in OrderIds /\ orders' = [orders EXCEPT ![o].status = status]
      BY <1>3, <2>1 DEF Handle
    <3> HIDE DEF o
    <3> QED BY <3>1 DEF Typed, OrderType
  <2>3. offset' \in [Topics -> Nat]
    BY <1>3 DEF Handle, Typed
  <2> QED BY <2>1, <2>2, <2>3
<1>4. CASE ProcessPaymentSuccessed
  BY <1>3, <1>4 DEF ProcessPaymentSuccessed, Handle, Typed, Topics, Statuses
<1>5. CASE ProcessPaymentCanceled
  <2> DEFINE o == HeadOf("payment.canceled")
  <2>1. o \in OrderIds /\ orders' \in OrderType /\ offset' \in [Topics -> Nat]
    BY <1>3, <1>5 DEF ProcessPaymentCanceled, Topics, Statuses
  <2>2. Event("order.canceled", o, RowsOf(o), NoOrder) \in EventType
    BY <2>1 DEF Typed, Event, EventType, EventTopics, RowsOf
  <2>3. outbox' \in Seq(EventType)
    BY <1>5, <2>2, Appended DEF ProcessPaymentCanceled
  <2> HIDE DEF o
  <2> QED BY <1>5, <2>1, <2>3 DEF ProcessPaymentCanceled, Handle, Typed
<1>6. ASSUME NEW t \in Topics, CommitOffset(t) PROVE Typed'
  BY <1>6 DEF CommitOffset, Typed, tableVars
<1>7. CASE Restart
  BY <1>7, RestartTyped
<1>8. CASE UNCHANGED vars
  BY <1>8 DEF Typed, vars
<1> QED BY <1>1, <1>2, <1>4, <1>5, <1>6, <1>7, <1>8 DEF Next, ConsumerStep, Killed

(* Every step keeps the offsets in order.                                  *)
LEMMA OffsetsStep ==
  ASSUME Typed, Offsets, [Next]_vars
  PROVE  Offsets'
<1> USE DEF Offsets, Typed
<1>1. ASSUME NEW c \in Calls, CallStep(c), ~ RemoveKillsProcess(c) PROVE UNCHANGED kafkaVars
  BY <1>1 DEF CallStep, CreateCall, SyncCall, UpdateCall, CreateOrder, ReadItems, UpdateOrder, RejectUpdate,
     RemoveOrder, CheckoutCall, CommitCheckout, CheckoutMissing, CheckoutRollsBack, ReportNoDraft, Report,
     ReportFails
<1>2. ASSUME NEW o \in OrderIds, NEW t \in Topics, PaymentOutcome(o, t) PROVE Offsets'
  BY <1>2 DEF PaymentOutcome
<1>3. ASSUME NEW t \in Topics, NEW status, Handle(t, status) PROVE Offsets'
  BY <1>3 DEF Handle, HasMessage
<1>4. ASSUME NEW t \in Topics, CommitOffset(t) PROVE Offsets'
  BY <1>4 DEF CommitOffset
<1>5. CASE Restart
  BY <1>5 DEF Restart
<1>6. CASE UNCHANGED kafkaVars
  BY <1>6 DEF kafkaVars
<1> QED BY <1>1, <1>2, <1>3, <1>4, <1>5, <1>6 DEF Next, ConsumerStep, Killed, RemoveKillsProcess,
        ProcessPaymentSuccessed, ProcessPaymentCanceled, Topics, vars, kafkaVars

-----------------------------------------------------------------------------
(* What steps can do.                                                      *)

(* Requests that have ended stay as they are, a request about to report a  *)
(* failure does nothing else.                                              *)
LEMMA Lasting ==
  ASSUME Typed, [Next]_vars, NEW d \in Calls
  PROVE  /\ calls[d].pc \in {"done", "failed", "paid", "refused", "dead"} => calls'[d] = calls[d]
         /\ calls[d].pc = "report" => calls'[d].pc \in {"report", "refused", "dead"}
<1> USE DEF New, Start
<1>1. ASSUME NEW c \in Calls, CallStep(c), ~ RemoveKillsProcess(c)
      PROVE  /\ c # d => calls'[d] = calls[d]
             /\ calls[c].pc \notin {"done", "failed", "paid", "refused", "dead"}
             /\ calls[c].pc = "report" => calls'[c].pc = "refused"
  BY <1>1 DEF Typed, CallType, Goto, UpdateOf, CallStep, CreateCall, SyncCall, UpdateCall, CreateOrder, ReadItems, UpdateOrder, RejectUpdate,
     RemoveOrder, CheckoutCall, CommitCheckout, CheckoutMissing, CheckoutRollsBack, ReportNoDraft, Report,
     ReportFails
<1>2. CASE Restart
  BY <1>2 DEF Restart, Running, Typed, CallType
<1>3. CASE UNCHANGED calls
  BY <1>3
<1> QED BY <1>1, <1>2, <1>3 DEF Next, ConsumerStep, Killed, RemoveKillsProcess, PaymentOutcome, Handle,
        ProcessPaymentSuccessed, ProcessPaymentCanceled, CommitOffset, vars

(* The steps that write a table.                                           *)
LEMMA TableSteps ==
  ASSUME [Next]_vars
  PROVE  \/ UNCHANGED tableVars
         \/ \E c \in Calls : \/ CreateOrder(c) \/ UpdateOrder(c) \/ RemoveOrder(c)
                             \/ CommitCheckout(c) \/ ReportNoDraft(c) \/ Report(c)
         \/ ProcessPaymentSuccessed \/ ProcessPaymentCanceled
<1>1. ASSUME NEW c \in Calls, CallStep(c)
      PROVE  \/ UNCHANGED tableVars
             \/ \/ CreateOrder(c) \/ UpdateOrder(c) \/ RemoveOrder(c)
                \/ CommitCheckout(c) \/ ReportNoDraft(c) \/ Report(c)
  BY <1>1 DEF CallStep, CreateCall, SyncCall, UpdateCall, ReadItems, RejectUpdate,
     CheckoutCall, CheckoutMissing, CheckoutRollsBack, ReportFails, RemoveKillsProcess, Restart
<1> QED BY <1>1 DEF Next, ConsumerStep, Killed, Restart, PaymentOutcome, CommitOffset, vars, tableVars

(* An order or a row that is made remains made by the same.                *)
LEMMA MadeStays ==
  ASSUME Typed, [Next]_vars, NEW k \in OrderIds, Made(k)
  PROVE  Made(k)'
BY Lasting DEF Made, OrderIds

(* An update keeps the identity of the rows it leaves; the rows it adds    *)
(* are named after the call.                                               *)
LEMMA UpdatedRows ==
  ASSUME Typed, NEW c \in Calls, UpdateOrder(c), NEW row \in items'
  PROVE  \/ \E old \in items : /\ old.id = row.id /\ old.order = row.order /\ old.sku = row.sku
                              /\ \/ row = old
                                 \/ row = [old EXCEPT !.quantity = calls[c].cart[old.sku]]
                                    /\ \E r \in calls[c].read : r.id = old.id
         \/ \E sku \in DOMAIN calls[c].cart :
              row = Row(c, calls[c].target, sku, calls[c].cart[sku])
<1>1. PICK found \in FirstRows(calls[c].read, calls[c].cart) :
             items' = Rewritten(c, calls[c].read, calls[c].cart, found)
  BY DEF UpdateOrder
<1>2. \A old \in items : /\ [old EXCEPT !.quantity = calls[c].cart[old.sku]].id = old.id
                         /\ [old EXCEPT !.quantity = calls[c].cart[old.sku]].order = old.order
                         /\ [old EXCEPT !.quantity = calls[c].cart[old.sku]].sku = old.sku
  BY DEF Typed, Rows
<1>3. \A sku \in DOMAIN found : found[sku] \in calls[c].read
  BY DEF FirstRows
<1>4. CASE row \in RowsFor(c, calls[c].target, calls[c].cart, DOMAIN calls[c].cart \ SkusOf(calls[c].read))
  BY <1>4 DEF RowsFor
<1>5. CASE row \notin RowsFor(c, calls[c].target, calls[c].cart, DOMAIN calls[c].cart \ SkusOf(calls[c].read))
  <2>1. PICK old \in items :
          row = IF old.id \in {found[sku].id : sku \in DOMAIN found}
                THEN [old EXCEPT !.quantity = calls[c].cart[old.sku]] ELSE old
    BY <1>1, <1>5 DEF Rewritten
  <2> QED BY <1>2, <1>3, <2>1
<1> QED BY <1>4, <1>5

(* A row was there before or is made by a call that has made none so far.  *)
LEMMA ItemsChange ==
  ASSUME Typed, Targeted, [Next]_vars, NEW row \in items'
  PROVE  \/ \E old \in items : old.id = row.id /\ old.order = row.order /\ old.sku = row.sku
         \/ \E c \in Calls : /\ row.id = <<c, row.sku>>
                            /\ ~ Made(c) /\ Made(c)'
                            /\ orders'[row.order].status = "DRAFT"
<1>1. CASE row \in items
  BY <1>1
<1>2. ASSUME NEW c \in Calls, CreateOrder(c), row \notin items
      PROVE  row.id = <<c, row.sku>> /\ ~ Made(c) /\ Made(c)' /\ orders'[row.order].status = "DRAFT"
  <2>1. row.id = <<c, row.sku>> /\ row.order = c
    BY <1>2 DEF CreateOrder, RowsFor, Row
  <2> QED BY <1>2, <2>1, NamesAssumption DEF CreateOrder, Draft, Made, Goto, Typed, CallType, OrderType, OrderIds
<1>3. ASSUME NEW c \in Calls, UpdateOrder(c)
      PROVE  \/ \E old \in items : old.id = row.id /\ old.order = row.order /\ old.sku = row.sku
             \/ /\ row.id = <<c, row.sku>> /\ ~ Made(c) /\ Made(c)'
                /\ orders'[row.order].status = "DRAFT"
  <2>1. ~ Made(c) /\ Made(c)'
    BY <1>3, NamesAssumption DEF UpdateOrder, Goto, Typed, CallType, Made
  <2>2. orders'[calls[c].target].status = "DRAFT"
    BY <1>3 DEF UpdateOrder, IsDraft, Targeted, Typed, OrderType
  <2> QED BY <1>3, <2>1, <2>2, UpdatedRows DEF Row
<1>4. ASSUME NEW c \in Calls, RemoveOrder(c) PROVE row \in items
  BY <1>4 DEF RemoveOrder
<1> QED BY <1>1, <1>2, <1>3, <1>4, TableSteps DEF tableVars, CommitCheckout, ReportNoDraft, Report,
        ProcessPaymentSuccessed, ProcessPaymentCanceled, Handle

(* The status of an order moves in one of five ways.                       *)
LEMMA OrdersChange ==
  ASSUME Typed, [Next]_vars, NEW o \in OrderIds, orders'[o] # orders[o]
  PROVE  \/ o \in Calls /\ CreateOrder(o) /\ orders'[o].status = "DRAFT" /\ ~ Made(o) /\ Made(o)'
         \/ \E c \in Calls : UpdateOrder(c) /\ calls[c].target = o
                            /\ orders[o].status = "DRAFT" /\ orders'[o].status = "DRAFT"
         \/ \E c \in Calls : RemoveOrder(c) /\ calls[c].target = o
                            /\ orders[o].status = "DRAFT" /\ orders'[o] = Absent
         \/ \E c \in Calls : CommitCheckout(c) /\ calls[c].target = o
                            /\ orders[o] # Absent /\ orders'[o].status = "PENDING"
         \/ /\ orders[o].status = "PENDING"
            /\ \/ ProcessPaymentSuccessed /\ orders'[o].status = "CONFIRMED"
               \/ ProcessPaymentCanceled /\ HeadOf("payment.canceled") = o
                  /\ orders'[o].status = "CANCELED"
<1> USE DEF Typed, OrderType
<1>1. ASSUME NEW c \in Calls, CreateOrder(c)
      PROVE  o = c /\ orders'[o].status = "DRAFT" /\ ~ Made(o) /\ Made(o)'
  BY <1>1, NamesAssumption DEF CreateOrder, Draft, Made, Goto, CallType
<1>2. ASSUME NEW c \in Calls, UpdateOrder(c)
      PROVE  calls[c].target = o /\ orders[o].status = "DRAFT" /\ orders'[o].status = "DRAFT"
  BY <1>2 DEF UpdateOrder, IsDraft
<1>3. ASSUME NEW c \in Calls, RemoveOrder(c)
      PROVE  calls[c].target = o /\ orders[o].status = "DRAFT" /\ orders'[o] = Absent
  BY <1>3 DEF RemoveOrder, IsDraft
<1>4. ASSUME NEW c \in Calls, CommitCheckout(c)
      PROVE  calls[c].target = o /\ orders[o] # Absent /\ orders'[o].status = "PENDING"
  BY <1>4 DEF CommitCheckout
<1>5. ASSUME NEW t, NEW status, Handle(t, status)
      PROVE  HeadOf(t) = o /\ orders[o].status = "PENDING" /\ orders'[o].status = status
  BY <1>5 DEF Handle
<1> QED BY <1>1, <1>2, <1>3, <1>4, <1>5, TableSteps DEF tableVars, ReportNoDraft, Report,
        ProcessPaymentSuccessed, ProcessPaymentCanceled

-----------------------------------------------------------------------------
(* The tables stay well made.                                              *)

(* Every step leaves calls at work on orders that exist.                   *)
LEMMA TargetedStep ==
  ASSUME Typed, Targeted, [Next]_vars
  PROVE  Targeted'
<1> USE DEF Targeted
<1>1. ASSUME NEW c \in Calls, CallStep(c), ~ RemoveKillsProcess(c), NEW d \in Calls
      PROVE  \/ calls'[d] = calls[d]
             \/ calls'[d].target = calls[d].target /\ calls[d].pc \in {"read"}
             \/ calls'[d].pc \notin {"read", "update", "remove", "pay"}
             \/ calls'[d].target \in OrderIds
  BY <1>1 DEF Typed, CallType, Goto, Start, Drafts, UpdateOf, CallStep, CreateCall, SyncCall, UpdateCall,
     CreateOrder, ReadItems, UpdateOrder, RejectUpdate, RemoveOrder, CheckoutCall, CommitCheckout,
     CheckoutMissing, CheckoutRollsBack, ReportNoDraft, Report, ReportFails
<1>2. CASE Restart
  BY <1>2 DEF Restart, Running, Typed, CallType
<1>3. CASE UNCHANGED calls
  BY <1>3
<1> QED BY <1>1, <1>2, <1>3 DEF Next, ConsumerStep, Killed, RemoveKillsProcess, PaymentOutcome, Handle,
        ProcessPaymentSuccessed, ProcessPaymentCanceled, CommitOffset, vars

(* Orders appear with their ids.                                           *)
LEMMA OrdersStep ==
  ASSUME Typed, OrdersMade, [Next]_vars
  PROVE  OrdersMade'
<1> SUFFICES ASSUME NEW o \in OrderIds
             PROVE  IF orders'[o].status = "none" THEN orders'[o] = Absent ELSE Made(o)'
  BY DEF OrdersMade
<1>1. CASE orders'[o] = orders[o]
  BY <1>1, MadeStays DEF OrdersMade
<1>2. CASE orders'[o] # orders[o]
  <2>1. CASE o \in Calls /\ CreateOrder(o) /\ orders'[o].status = "DRAFT" /\ Made(o)'
    BY <2>1
  <2>2. CASE orders'[o] = Absent
    BY <2>2 DEF Absent
  <2>3. CASE orders[o] # Absent /\ orders'[o].status # "none"
    BY <2>3, MadeStays DEF OrdersMade
  <2> QED BY <1>2, <2>1, <2>2, <2>3, OrdersChange DEF Absent
<1> QED BY <1>1, <1>2

(* Rows appear with their ids.                                             *)
LEMMA RowsStep ==
  ASSUME Typed, Targeted, OrdersMade, RowsMade, [Next]_vars
  PROVE  RowsMade'
<1>1. ASSUME NEW row \in items' PROVE row.id[2] = row.sku /\ Made(row.id[1])'
  <2>1. ASSUME NEW old \in items, old.id = row.id, old.sku = row.sku
        PROVE  row.id[2] = row.sku /\ Made(row.id[1])'
    <3>1. old.id[1] \in OrderIds
      BY DEF Typed, Rows
    <3> QED BY <2>1, <3>1, MadeStays DEF RowsMade
  <2> QED BY <2>1, ItemsChange
<1>2. ASSUME NEW row \in items' PROVE orders'[row.order].status # "none"
  <2>1. ASSUME NEW old \in items, old.order = row.order PROVE orders'[row.order].status # "none"
    <3>1. row.order \in OrderIds /\ orders[row.order].status # "none" /\ Made(row.order)
      BY <2>1 DEF Typed, Rows, RowsMade, OrdersMade
    <3>2. ASSUME NEW c \in Calls, RemoveOrder(c) PROVE calls[c].target # row.order
      BY <3>2, <1>2 DEF RemoveOrder, RowsOf
    <3> QED BY <3>1, <3>2, OrdersChange
  <2> QED BY <2>1, ItemsChange
<1>3. ASSUME NEW row \in items', NEW other \in items', other.id = row.id PROVE other = row
  <2>1. CASE items' \subseteq items
    BY <1>3, <2>1 DEF RowsMade
  <2>2. ASSUME NEW c \in Calls, CreateOrder(c) PROVE other = row
    <3>1. \A old \in items : old.id[1] # c
      BY <2>2, NamesAssumption DEF RowsMade, Made, CreateOrder
    <3> QED BY <1>3, <2>2, <3>1 DEF CreateOrder, RowsFor, Row, RowsMade
  <2>3. ASSUME NEW c \in Calls, UpdateOrder(c) PROVE other = row
    <3> DEFINE cart == calls[c].cart
               new == RowsFor(c, calls[c].target, cart, DOMAIN cart \ SkusOf(calls[c].read))
    <3>1. \A old \in items : old.id[1] # c
      BY <2>3, NamesAssumption DEF RowsMade, Made, UpdateOrder
    <3>2. PICK found \in FirstRows(calls[c].read, cart) : items' = Rewritten(c, calls[c].read, cart, found)
      BY <2>3 DEF UpdateOrder
    <3> DEFINE Left(old) == IF old.id \in {found[sku].id : sku \in DOMAIN found}
                            THEN [old EXCEPT !.quantity = cart[old.sku]] ELSE old
    <3>3. \A x \in items' : x \in new \/ \E old \in items : x = Left(old)
      BY <3>2 DEF Rewritten
    <3>4. \A old \in items : Left(old).id = old.id
      BY DEF Typed, Rows
    <3>5. \A x \in new : x.id[1] = c
      BY DEF RowsFor, Row
    <3>6. \A x, y \in new : x.id = y.id => x = y
      BY DEF RowsFor, Row
    <3> HIDE DEF new, Left
    <3>7. CASE row \in new \/ other \in new
      BY <1>3, <3>1, <3>3, <3>4, <3>5, <3>6, <3>7
    <3>8. CASE row \notin new /\ other \notin new
      <4>1. PICK a \in items, b \in items : row = Left(a) /\ other = Left(b)
        BY <3>3, <3>8
      <4>2. a = b
        BY <1>3, <3>4, <4>1 DEF RowsMade
      <4> QED BY <4>1, <4>2
    <3> QED BY <3>7, <3>8
  <2>4. ASSUME NEW c \in Calls, RemoveOrder(c) PROVE items' \subseteq items
    BY <2>4 DEF RemoveOrder
  <2> QED BY <2>1, <2>2, <2>3, <2>4, TableSteps DEF tableVars, CommitCheckout, ReportNoDraft, Report,
          ProcessPaymentSuccessed, ProcessPaymentCanceled, Handle
<1> QED BY <1>1, <1>2, <1>3 DEF RowsMade

(* A request reads the rows of its order, or starts with nothing read.     *)
LEMMA ReadsChange ==
  ASSUME Typed, [Next]_vars, NEW d \in Calls
  PROVE  \/ calls'[d].read = {}
         \/ calls'[d].read = calls[d].read /\ calls'[d].target = calls[d].target
         \/ /\ calls'[d].read = RowsOf(calls[d].target) /\ calls'[d].target = calls[d].target
            /\ UNCHANGED items
<1> DEFINE Kept == calls'[d].read = calls[d].read /\ calls'[d].target = calls[d].target
<1> USE DEF Typed, CallType
<1>1. ASSUME NEW c \in Calls, ReadItems(c)
      PROVE  Kept \/ /\ calls'[d].read = RowsOf(calls[d].target) /\ calls'[d].target = calls[d].target
                     /\ UNCHANGED items
  BY <1>1 DEF ReadItems, tableVars
<1>2. ASSUME NEW c \in Calls, NEW pc, calls' = [calls EXCEPT ![c].pc = pc] PROVE Kept
  BY <1>2
<1>3. ASSUME NEW c \in Calls, NEW pc, NEW o, NEW cart, calls' = [calls EXCEPT ![c] = Start(pc, o, cart)]
      PROVE  Kept \/ calls'[d].read = {}
  BY <1>3 DEF Start
<1>4. ASSUME NEW c \in Calls, CallStep(c), ~ RemoveKillsProcess(c), ~ ReadItems(c)
      PROVE  \/ \E pc : calls' = [calls EXCEPT ![c].pc = pc]
             \/ \E pc, o, cart : calls' = [calls EXCEPT ![c] = Start(pc, o, cart)]
  BY <1>4 DEF Goto, UpdateOf, CallStep, CreateCall, SyncCall, UpdateCall,
     CreateOrder, UpdateOrder, RejectUpdate, RemoveOrder, CheckoutCall, CommitCheckout,
     CheckoutMissing, CheckoutRollsBack, ReportNoDraft, Report, ReportFails
<1>5. ASSUME Restart PROVE Kept
  BY <1>5 DEF Restart
<1>6. ASSUME UNCHANGED calls PROVE Kept
  BY <1>6
<1>7. ASSUME NEW c \in Calls, CallStep(c), ~ RemoveKillsProcess(c)
      PROVE  \/ calls'[d].read = {}
             \/ Kept
             \/ /\ calls'[d].read = RowsOf(calls[d].target) /\ calls'[d].target = calls[d].target
                /\ UNCHANGED items
  <2> HIDE DEF Typed, CallType, Kept
  <2>1. CASE ReadItems(c)
    BY <1>1, <2>1
  <2>2. CASE ~ ReadItems(c)
    <3>1. CASE \E pc : calls' = [calls EXCEPT ![c].pc = pc]
      BY <1>2, <3>1
    <3>2. CASE \E pc, o, cart : calls' = [calls EXCEPT ![c] = Start(pc, o, cart)]
      BY <1>3, <3>2
    <3> QED BY <1>4, <1>7, <2>2, <3>1, <3>2
  <2> QED BY <2>1, <2>2
<1> HIDE DEF Kept
<1>8. Restart \/ UNCHANGED calls \/ \E c \in Calls : CallStep(c) /\ ~ RemoveKillsProcess(c)
  <2> HIDE DEF Typed, CallType
  <2> QED BY DEF Next, ConsumerStep, Killed, RemoveKillsProcess,
          PaymentOutcome, Handle, ProcessPaymentSuccessed, ProcessPaymentCanceled, CommitOffset, vars
<1> QED BY <1>5, <1>6, <1>7, <1>8 DEF Kept

(* What a call has read was there.                                         *)
LEMMA ReadsStep ==
  ASSUME Typed, Targeted, RowsMade, ReadsKnown, [Next]_vars
  PROVE  ReadsKnown'
<1> SUFFICES ASSUME NEW d \in Calls, NEW x \in calls'[d].read
             PROVE  /\ x.id[2] = x.sku /\ Made(x.id[1])' /\ x.order = calls'[d].target
                    /\ \A row \in items' : row.id = x.id => row.order = x.order
  BY DEF ReadsKnown
<1>1. ASSUME x \in calls[d].read, calls'[d].target = calls[d].target
      PROVE  /\ x.id[2] = x.sku /\ Made(x.id[1])' /\ x.order = calls'[d].target
             /\ \A row \in items' : row.id = x.id => row.order = x.order
  <2>1. x.id[1] \in OrderIds /\ Made(x.id[1]) /\ Made(x.id[1])'
    BY <1>1, MadeStays DEF ReadsKnown, Typed, CallType, Rows
  <2>2. ASSUME NEW row \in items', row.id = x.id PROVE row.order = x.order
    BY <1>1, <2>1, <2>2, ItemsChange DEF ReadsKnown
  <2> QED BY <1>1, <2>1, <2>2 DEF ReadsKnown
<1>2. ASSUME x \in RowsOf(calls[d].target), calls'[d].target = calls[d].target, UNCHANGED items
      PROVE  /\ x.id[2] = x.sku /\ Made(x.id[1])' /\ x.order = calls'[d].target
             /\ \A row \in items' : row.id = x.id => row.order = x.order
  <2>1. x \in items /\ x.order = calls[d].target /\ x.id[1] \in OrderIds
    BY <1>2 DEF RowsOf, Typed, Rows
  <2>2. Made(x.id[1])'
    BY <2>1, MadeStays DEF RowsMade
  <2> QED BY <1>2, <2>1, <2>2 DEF RowsMade
<1> QED BY <1>1, <1>2, ReadsChange

-----------------------------------------------------------------------------
(* The rows of a placed order stay as they are.                            *)

(* Requests make, update and remove the rows of drafts only: an update     *)
(* that has read rows of one order touches none of another.                *)
LEMMA RowsStay ==
  ASSUME Typed, OrdersMade, ReadsKnown, [Next]_vars,
         NEW o \in OrderIds, orders[o].status \notin {"none", "DRAFT"}
  PROVE  RowsOf(o)' = RowsOf(o)
<1>1. CASE UNCHANGED items
  BY <1>1 DEF RowsOf
<1>2. ASSUME NEW c \in Calls, CreateOrder(c) PROVE RowsOf(o)' = RowsOf(o)
  <2>1. o # c
    BY <1>2, NamesAssumption DEF OrdersMade, Made, CreateOrder, OrderIds
  <2> QED BY <1>2, <2>1 DEF CreateOrder, RowsFor, Row, RowsOf
<1>3. ASSUME NEW c \in Calls, UpdateOrder(c) PROVE RowsOf(o)' = RowsOf(o)
  <2> DEFINE read == calls[c].read
             cart == calls[c].cart
             gone == {row.id : row \in {r \in read : r.sku \notin DOMAIN cart}}
  <2>1. calls[c].target # o
    BY <1>3 DEF UpdateOrder, IsDraft
  <2>2. PICK found \in FirstRows(read, cart) : items' = Rewritten(c, read, cart, found)
    BY <1>3 DEF UpdateOrder
  <2> DEFINE hit == {found[sku].id : sku \in DOMAIN found}
             Left(row) == IF row.id \in hit THEN [row EXCEPT !.quantity = cart[row.sku]] ELSE row
             new == RowsFor(c, calls[c].target, cart, DOMAIN cart \ SkusOf(read))
  <2>3. \A sku \in DOMAIN found : found[sku] \in read
    BY DEF FirstRows
  <2>4. \A row \in items : row.order = o => row.id \notin gone /\ row.id \notin hit
    BY <2>1, <2>3 DEF ReadsKnown
  <2>5. \A row \in new : row.order # o
    BY <2>1 DEF RowsFor, Row
  <2>6. \A row \in items : Left(row).order = row.order
    BY DEF Typed, Rows
  <2>7. items' = {Left(row) : row \in {r \in items : r.id \notin gone}} \cup new
    BY <2>2 DEF Rewritten
  <2>8. \A row \in items : row.order = o => Left(row) = row
    BY <2>4
  <2> HIDE DEF gone, hit, Left, new
  <2>9. \A row \in items' : row.order = o => row \in items
    BY <2>5, <2>6, <2>7, <2>8
  <2>10. \A row \in items : row.order = o => row \in items'
    BY <2>4, <2>7, <2>8
  <2> QED BY <2>9, <2>10 DEF RowsOf
<1>4. ASSUME NEW c \in Calls, RemoveOrder(c) PROVE RowsOf(o)' = RowsOf(o)
  BY <1>4 DEF RemoveOrder, IsDraft, RowsOf
<1> QED BY <1>1, <1>2, <1>3, <1>4, TableSteps DEF tableVars, CommitCheckout, ReportNoDraft, Report,
        ProcessPaymentSuccessed, ProcessPaymentCanceled, Handle

-----------------------------------------------------------------------------
(* The outbox.                                                             *)

(* An event that is in the outbox keeps its place, and a new one comes     *)
(* last, from one of four steps.                                           *)
LEMMA Events ==
  ASSUME Typed, [Next]_vars
  PROVE  /\ DOMAIN outbox \subseteq DOMAIN outbox'
         /\ \A i \in DOMAIN outbox : outbox'[i] = outbox[i]
         /\ \A i \in DOMAIN outbox' \ DOMAIN outbox :
              /\ \A j \in DOMAIN outbox' : j <= i
              /\ \/ \E c \in Calls :
                      /\ CommitCheckout(c)
                      /\ outbox'[i] = Event("order.checkout", calls[c].target, RowsOf(calls[c].target), c)
                 \/ \E c \in Calls :
                      /\ ReportNoDraft(c) \/ Report(c)
                      /\ outbox'[i].topic = "order.checkout.failed" /\ outbox'[i].call = c
                 \/ /\ ProcessPaymentCanceled
                    /\ LET o == HeadOf("payment.canceled")
                       IN  outbox'[i] = Event("order.canceled", o, RowsOf(o), NoOrder)
<1>1. ASSUME NEW e, Emit(e)
      PROVE  /\ DOMAIN outbox \subseteq DOMAIN outbox'
             /\ \A i \in DOMAIN outbox : outbox'[i] = outbox[i]
             /\ \A i \in DOMAIN outbox' \ DOMAIN outbox :
                  outbox'[i] = e /\ \A j \in DOMAIN outbox' : j <= i
  BY <1>1 DEF Typed, Emit
<1>2. CASE UNCHANGED outbox
  BY <1>2
<1>3. ASSUME NEW c \in Calls, CommitCheckout(c)
      PROVE  Emit(Event("order.checkout", calls[c].target, RowsOf(calls[c].target), c))
  BY <1>3 DEF CommitCheckout
<1>4. ASSUME NEW c \in Calls, ReportNoDraft(c) \/ Report(c)
      PROVE  \E e : Emit(e) /\ e.topic = "order.checkout.failed" /\ e.call = c
  <2>1. \A o : /\ Event("order.checkout.failed", o, {}, c).topic = "order.checkout.failed"
               /\ Event("order.checkout.failed", o, {}, c).call = c
    BY DEF Event
  <2> QED BY <1>4, <2>1 DEF ReportNoDraft, Report
<1>5. ASSUME ProcessPaymentCanceled
      PROVE  LET o == HeadOf("payment.canceled")
             IN  Emit(Event("order.canceled", o, RowsOf(o), NoOrder))
  BY <1>5 DEF ProcessPaymentCanceled
<1>6. CASE \E c \in Calls : CommitCheckout(c)
  BY <1>1, <1>3, <1>6
<1>7. CASE \E c \in Calls : ReportNoDraft(c) \/ Report(c)
  BY <1>1, <1>4, <1>7
<1>8. CASE ProcessPaymentCanceled
  BY <1>1, <1>5, <1>8
<1> QED BY <1>2, <1>6, <1>7, <1>8, TableSteps DEF tableVars, CreateOrder, UpdateOrder, RemoveOrder,
        ProcessPaymentSuccessed

(* A step that publishes a message does leave it in the outbox.            *)
LEMMA IsPublished ==
  ASSUME Typed, NEW c, NEW topic, NEW o, NEW rows, Emit(Event(topic, o, rows, c))
  PROVE  Published(c, topic)'
<1>1. Len(outbox) + 1 \in DOMAIN outbox' /\ outbox'[Len(outbox) + 1] = Event(topic, o, rows, c)
  BY DEF Typed, Emit
<1> QED BY <1>1 DEF Published, Event

(* The steps that end a checkout.                                          *)
LEMMA Ends ==
  ASSUME Typed, [Next]_vars, NEW d \in Calls, calls'[d].pc # calls[d].pc
  PROVE  /\ calls'[d].pc = "paid" => CommitCheckout(d)
         /\ calls'[d].pc = "refused" => Report(d) \/ ReportFails(d)
<1>1. ASSUME NEW c \in Calls, CallStep(c), ~ RemoveKillsProcess(c)
      PROVE  c = d /\ \/ CommitCheckout(c) \/ Report(c) \/ ReportFails(c)
                      \/ calls'[c].pc \notin {"paid", "refused"}
  BY <1>1 DEF Typed, CallType, New, Start, Goto, UpdateOf, CallStep, CreateCall, SyncCall, UpdateCall,
     CreateOrder, ReadItems, UpdateOrder, RejectUpdate, RemoveOrder, CheckoutCall, CommitCheckout,
     CheckoutMissing, CheckoutRollsBack, ReportNoDraft, Report, ReportFails
<1>2. CASE Restart
  BY <1>2 DEF Restart, Typed, CallType
<1>3. CASE UNCHANGED calls
  BY <1>3
<1>4. ASSUME CommitCheckout(d) PROVE calls'[d].pc = "paid"
  BY <1>4 DEF CommitCheckout, Goto, Typed, CallType
<1>5. ASSUME Report(d) \/ ReportFails(d) PROVE calls'[d].pc # "paid"
  BY <1>5 DEF Report, ReportFails, Goto, Typed, CallType
<1> QED BY <1>1, <1>2, <1>3, <1>4, <1>5 DEF Next, ConsumerStep, Killed, RemoveKillsProcess,
        PaymentOutcome, Handle, ProcessPaymentSuccessed, ProcessPaymentCanceled, CommitOffset, vars

(* Database errors are counted up.                                         *)
LEMMA FaultsGrow ==
  ASSUME Typed, [Next]_vars
  PROVE  faults' >= faults
<1>1. ASSUME NEW c \in Calls, CallStep(c) PROVE UNCHANGED faults \/ Fault
  BY <1>1 DEF CallStep, CreateCall, SyncCall, UpdateCall, CreateOrder, ReadItems, UpdateOrder, RejectUpdate,
     RemoveOrder, CheckoutCall, CommitCheckout, CheckoutMissing, CheckoutRollsBack, ReportNoDraft, Report,
     ReportFails, RemoveKillsProcess, Restart
<1>2. UNCHANGED faults \/ Fault
  BY <1>1 DEF Next, ConsumerStep, Killed, Restart, PaymentOutcome, Handle,
        ProcessPaymentSuccessed, ProcessPaymentCanceled, CommitOffset, vars
<1> QED BY <1>2 DEF Typed, Fault

(* Events name the orders of their topics.                                 *)
LEMMA NamedStep ==
  ASSUME Typed, Targeted, EventsNamed, [Next]_vars
  PROVE  EventsNamed'
<1>1. ASSUME NEW c \in Calls, CommitCheckout(c) PROVE calls[c].target \in OrderIds
  BY <1>1 DEF CommitCheckout, Targeted
<1>2. ASSUME ProcessPaymentCanceled PROVE HeadOf("payment.canceled") \in OrderIds
  BY <1>2 DEF ProcessPaymentCanceled, Handle, HasMessage, HeadOf, Typed, Topics
<1> QED BY <1>1, <1>2, Events DEF EventsNamed, Event

(* What a call has published fits the state it is in.                      *)
LEMMA VerdictsStep ==
  ASSUME Typed, Verdicts, [Next]_vars
  PROVE  Verdicts'
<1> SUFFICES ASSUME NEW i \in DOMAIN outbox', outbox'[i].call \in Calls
             PROVE  /\ outbox'[i].topic = "order.checkout" => calls'[outbox'[i].call].pc = "paid"
                    /\ outbox'[i].topic = "order.checkout.failed" =>
                         calls'[outbox'[i].call].pc \in {"report", "refused", "dead"}
  BY DEF Verdicts
<1>1. CASE i \in DOMAIN outbox
  <2>1. outbox'[i] = outbox[i]
    BY <1>1, Events
  <2> QED BY <1>1, <2>1, Lasting DEF Verdicts
<1>2. ASSUME NEW c \in Calls, CommitCheckout(c), outbox'[i].topic = "order.checkout", outbox'[i].call = c
      PROVE  calls'[c].pc = "paid"
  BY <1>2 DEF CommitCheckout, Goto, Typed, CallType
<1>3. ASSUME NEW c \in Calls, ReportNoDraft(c) \/ Report(c)
      PROVE  calls'[c].pc \in {"report", "refused"}
  BY <1>3 DEF ReportNoDraft, Report, Goto, Typed, CallType
<1>4. CASE i \notin DOMAIN outbox
  BY <1>2, <1>3, <1>4, Events DEF Event
<1> QED BY <1>1, <1>4

(* A request publishes one verdict, and none in silence.                   *)
LEMMA OneVerdictStep ==
  ASSUME Typed, Verdicts, OneVerdict, [Next]_vars
  PROVE  OneVerdict'
<1> SUFFICES ASSUME NEW c \in Calls
             PROVE  /\ ~ (Published(c, "order.checkout")' /\ Published(c, "order.checkout.failed")')
                    /\ calls'[c].pc = "paid" => Published(c, "order.checkout")'
                    /\ calls'[c].pc = "refused" /\ faults' = 0 => Published(c, "order.checkout.failed")'
  BY DEF OneVerdict
<1>1. ~ (Published(c, "order.checkout")' /\ Published(c, "order.checkout.failed")')
  <2>1. ASSUME NEW i \in DOMAIN outbox', outbox'[i].call = c, outbox'[i].topic = "order.checkout"
        PROVE  calls'[c].pc = "paid"
    BY <2>1, VerdictsStep DEF Verdicts
  <2>2. ASSUME NEW i \in DOMAIN outbox', outbox'[i].call = c, outbox'[i].topic = "order.checkout.failed"
        PROVE  calls'[c].pc # "paid"
    BY <2>2, VerdictsStep DEF Verdicts
  <2> QED BY <2>1, <2>2 DEF Published
<1>2. \A topic : Published(c, topic) => Published(c, topic)'
  BY Events DEF Published
<1>3. CASE calls'[c].pc = calls[c].pc
  BY <1>1, <1>2, <1>3, FaultsGrow DEF OneVerdict, Typed
<1>4. CASE calls'[c].pc # calls[c].pc
  <2>1. CommitCheckout(c) => Published(c, "order.checkout")'
    BY IsPublished DEF CommitCheckout
  <2>2. Report(c) => Published(c, "order.checkout.failed")'
    BY IsPublished DEF Report
  <2>3. ReportFails(c) => faults' # 0
    BY DEF ReportFails, Fault, Typed
  <2> QED BY <1>1, <1>4, <2>1, <2>2, <2>3, Ends
<1> QED BY <1>3, <1>4

-----------------------------------------------------------------------------
(* The events tell what became of the order.                               *)

(* A placed order remains one.                                             *)
LEMMA PlacedStays ==
  ASSUME Typed, OrdersMade, [Next]_vars, NEW o \in OrderIds, orders[o].status \notin {"none", "DRAFT"}
  PROVE  orders'[o].status \notin {"none", "DRAFT"}
BY OrdersChange DEF OrdersMade

(* An event tells the rows its order has when it is published, and those   *)
(* stay.                                                                   *)
LEMMA MatchStep ==
  ASSUME Typed, Targeted, OrdersMade, ReadsKnown, EventsNamed, EventsMatchRows, [Next]_vars
  PROVE  EventsMatchRows'
<1> DEFINE Fits(e) == /\ orders'[e.order].status \notin {"none", "DRAFT"}
                      /\ e.items = {row \in items' : row.order = e.order}
<1> SUFFICES ASSUME NEW i \in DOMAIN outbox', outbox'[i].topic # "order.checkout.failed"
             PROVE  Fits(outbox'[i])
  BY DEF EventsMatchRows, RowsOf
<1>1. CASE i \in DOMAIN outbox
  <2> DEFINE o == outbox[i].order
  <2>1. outbox'[i] = outbox[i] /\ o \in OrderIds /\ orders[o].status \notin {"none", "DRAFT"}
    BY <1>1, Events DEF EventsNamed, EventsMatchRows
  <2>2. outbox'[i].items = {row \in items : row.order = o}
    BY <1>1, <2>1 DEF EventsMatchRows, RowsOf
  <2>3. ASSUME NEW p \in OrderIds, orders[p].status \notin {"none", "DRAFT"}
        PROVE  /\ {row \in items' : row.order = p} = {row \in items : row.order = p}
               /\ orders'[p].status \notin {"none", "DRAFT"}
    BY <2>3, RowsStay, PlacedStays DEF RowsOf
  <2> QED BY <2>1, <2>2, <2>3
<1>2. ASSUME NEW c \in Calls, CommitCheckout(c),
             outbox'[i] = Event("order.checkout", calls[c].target, RowsOf(calls[c].target), c)
      PROVE  Fits(outbox'[i])
  <2>1. calls[c].target \in OrderIds
    BY <1>2 DEF CommitCheckout, Targeted
  <2>2. orders'[calls[c].target].status = "PENDING" /\ UNCHANGED items
    BY <1>2, <2>1 DEF CommitCheckout, Typed, OrderType
  <2> QED BY <1>2, <2>2 DEF Event, RowsOf
<1>3. ASSUME ProcessPaymentCanceled, NEW o, o = HeadOf("payment.canceled"),
             outbox'[i] = Event("order.canceled", o, RowsOf(o), NoOrder)
      PROVE  Fits(outbox'[i])
  <2>1. o \in OrderIds
    BY <1>3 DEF ProcessPaymentCanceled, Handle, HasMessage, HeadOf, Typed, Topics
  <2>2. orders'[o].status = "CANCELED" /\ UNCHANGED items
    BY <1>3, <2>1 DEF ProcessPaymentCanceled, Handle, Typed, OrderType
  <2> QED BY <1>3, <2>2 DEF Event, RowsOf
<1>4. CASE i \notin DOMAIN outbox
  <2> HIDE DEF Fits
  <2> QED BY <1>2, <1>3, <1>4, Events
<1> QED BY <1>1, <1>4

(* EventsTellStatus, its cases read as implications.                       *)
Told(o) ==
  /\ orders[o].status = "CANCELED" => LastEvent(o, "order.canceled")
  /\ orders[o].status \in {"PENDING", "CONFIRMED"} => LastEvent(o, "order.checkout")
  /\ orders[o].status \in {"none", "DRAFT"} =>
       \A i \in DOMAIN outbox : outbox[i].order = o => outbox[i].topic = "order.checkout.failed"

(* The property about the last event, order by order.                      *)
LEMMA StatusTold ==
  ASSUME Typed
  PROVE  EventsTellStatus <=> \A o \in OrderIds : Told(o)
<1>1. \A o \in OrderIds : orders[o].status \in Statuses
  BY DEF Typed, OrderType
<1> QED BY <1>1 DEF EventsTellStatus, Told, Statuses

(* Nothing but failures is published about the order.                      *)
Quiet(o) ==
  \A i \in DOMAIN outbox' \ DOMAIN outbox :
    outbox'[i].order = o => outbox'[i].topic = "order.checkout.failed"

(* A new event of an order other than a failure tells the status it now has. *)
LEMMA NewEventTells ==
  ASSUME Typed, Typed', [Next]_vars, NEW o \in OrderIds, ~ Quiet(o)
  PROVE  Told(o)'
<1>1. PICK i \in DOMAIN outbox' \ DOMAIN outbox :
        outbox'[i].order = o /\ outbox'[i].topic # "order.checkout.failed"
  BY DEF Quiet
<1>2. \A j \in DOMAIN outbox' : j <= i
  BY <1>1, Events
<1>3. \A j \in DOMAIN outbox' : ~ (j > i)
  <2>1. i \in Nat /\ DOMAIN outbox' \subseteq Nat
    BY Typed' DEF Typed
  <2> QED BY <1>2, <2>1
<1>4. ASSUME NEW c \in Calls, CommitCheckout(c),
             outbox'[i] = Event("order.checkout", calls[c].target, RowsOf(calls[c].target), c)
      PROVE  orders'[o].status = "PENDING" /\ outbox'[i].topic = "order.checkout"
  BY <1>1, <1>4 DEF CommitCheckout, Event, Typed, OrderType
<1>5. ASSUME ProcessPaymentCanceled,
             outbox'[i] = Event("order.canceled", HeadOf("payment.canceled"),
                                RowsOf(HeadOf("payment.canceled")), NoOrder)
      PROVE  orders'[o].status = "CANCELED" /\ outbox'[i].topic = "order.canceled"
  BY <1>1, <1>5 DEF ProcessPaymentCanceled, Handle, Event, Typed, OrderType
<1>6. \/ orders'[o].status = "PENDING" /\ outbox'[i].topic = "order.checkout"
      \/ orders'[o].status = "CANCELED" /\ outbox'[i].topic = "order.canceled"
  BY <1>1, <1>4, <1>5, Events
<1> QED BY <1>1, <1>3, <1>6 DEF Told, LastEvent

(* Every step leaves an order told.                                        *)
LEMMA ToldStep ==
  ASSUME Typed, Typed', OrdersMade, [Next]_vars, NEW o \in OrderIds, Told(o)
  PROVE  Told(o)'
<1>1. CASE ~ Quiet(o)
  BY <1>1, NewEventTells
<1>2. CASE Quiet(o)
  <2>1. \A topic : LastEvent(o, topic) => LastEvent(o, topic)'
    BY <1>2, Events DEF LastEvent, Quiet
  <2>2. (\A i \in DOMAIN outbox : outbox[i].order = o => outbox[i].topic = "order.checkout.failed")
        => \A i \in DOMAIN outbox' : outbox'[i].order = o => outbox'[i].topic = "order.checkout.failed"
    BY <1>2, Events DEF Quiet
  <2>3. CASE orders'[o] = orders[o]
    BY <2>1, <2>2, <2>3 DEF Told
  <2>4. CASE /\ orders[o].status \in {"none", "DRAFT"}
             /\ orders'[o].status \in {"none", "DRAFT"}
    BY <2>2, <2>4 DEF Told
  <2>5. CASE orders[o].status = "PENDING" /\ orders'[o].status = "CONFIRMED"
    BY <2>1, <2>5 DEF Told
  <2>6. ASSUME NEW c \in Calls, CommitCheckout(c) PROVE calls[c].target # o
    <3>1. DOMAIN outbox' = 1 .. Len(outbox) + 1 /\ DOMAIN outbox = 1 .. Len(outbox)
      BY <2>6 DEF CommitCheckout, Emit, Typed
    <3>2. outbox'[Len(outbox) + 1] = Event("order.checkout", calls[c].target, RowsOf(calls[c].target), c)
      BY <2>6 DEF CommitCheckout, Emit, Typed
    <3>3. Len(outbox) + 1 \in DOMAIN outbox' \ DOMAIN outbox
      BY <3>1 DEF Typed
    <3> QED BY <1>2, <3>2, <3>3 DEF Quiet, Event
  <2>7. ASSUME ProcessPaymentCanceled PROVE HeadOf("payment.canceled") # o
    <3>1. DOMAIN outbox' = 1 .. Len(outbox) + 1 /\ DOMAIN outbox = 1 .. Len(outbox)
      BY <2>7 DEF ProcessPaymentCanceled, Emit, Typed
    <3>2. outbox'[Len(outbox) + 1] = Event("order.canceled", HeadOf("payment.canceled"),
                                           RowsOf(HeadOf("payment.canceled")), NoOrder)
      BY <2>7 DEF ProcessPaymentCanceled, Emit, Typed
    <3>3. Len(outbox) + 1 \in DOMAIN outbox' \ DOMAIN outbox
      BY <3>1 DEF Typed
    <3> QED BY <1>2, <3>2, <3>3 DEF Quiet, Event
  <2> QED BY <2>3, <2>4, <2>5, <2>6, <2>7, OrdersChange DEF OrdersMade, Absent
<1> QED BY <1>1, <1>2

(* The last event of every order goes on telling its status.               *)
LEMMA TellsStep ==
  ASSUME Typed, Typed', OrdersMade, EventsTellStatus, [Next]_vars
  PROVE  EventsTellStatus'
<1>1. \A o \in OrderIds : Told(o)'
  BY StatusTold, ToldStep
<1>2. \A o \in OrderIds : orders'[o].status \in Statuses
  BY DEF Typed, OrderType
<1> QED BY <1>1, <1>2 DEF EventsTellStatus, Told, Statuses

-----------------------------------------------------------------------------
(* The invariant.                                                          *)

(* The invariant holds at the start.                                       *)
LEMMA InitIInv == Init => IInv
<1> SUFFICES ASSUME Init PROVE IInv
  OBVIOUS
<1> USE DEF Init
<1>1. /\ orders[First] = Draft(FirstCart)
      /\ \A o \in Calls : orders[o] = Absent
  BY NamesAssumption DEF OrderIds
<1>2. Typed
  <2>1. items \in SUBSET Rows
    <3>1. \A sku \in DOMAIN FirstCart : sku \in Products /\ FirstCart[sku] \in Quantities
      BY DEF Products, Quantities, EveryCart
    <3> QED BY <3>1 DEF RowsFor, Row, Rows, OrderIds
  <2>2. orders \in OrderType
    BY DEF OrderType, Draft, Absent, Statuses, OrderIds
  <2>3. calls \in [Calls -> CallType]
    BY Started DEF New, Ended
  <2> QED BY <2>1, <2>2, <2>3 DEF Typed
<1>3. Offsets /\ Targeted
  BY DEF Offsets, Targeted, New, Start
<1>4. OrdersMade
  BY <1>1 DEF OrdersMade, Made, Draft, Absent, OrderIds
<1>5. RowsMade
  BY <1>1 DEF RowsMade, Made, RowsFor, Row, Draft
<1>6. ReadsKnown
  BY DEF ReadsKnown, New, Start
<1>7. Verdicts /\ EventsNamed /\ EventsMatchRows
  BY DEF Verdicts, EventsNamed, EventsMatchRows
<1>8. EventsTellStatus
  BY <1>1, <1>2, StatusTold DEF Told, Draft, Absent, OrderIds
<1>9. OneVerdict
  BY DEF OneVerdict, Published, New, Start
<1> QED BY <1>2, <1>3, <1>4, <1>5, <1>6, <1>7, <1>8, <1>9 DEF IInv

(* Every step keeps it.                                                    *)
LEMMA StepIInv == IInv /\ [Next]_vars => IInv'
<1> SUFFICES ASSUME IInv, [Next]_vars PROVE IInv'
  OBVIOUS
<1>1. Typed'
  BY TypedStep DEF IInv
<1>2. Offsets' /\ Targeted'
  BY OffsetsStep, TargetedStep DEF IInv
<1>3. OrdersMade' /\ RowsMade' /\ ReadsKnown'
  BY OrdersStep, RowsStep, ReadsStep DEF IInv
<1>4. Verdicts' /\ EventsNamed'
  BY VerdictsStep, NamedStep DEF IInv
<1>5. EventsMatchRows' /\ EventsTellStatus' /\ OneVerdict'
  BY <1>1, MatchStep, TellsStep, OneVerdictStep DEF IInv
<1> QED BY <1>1, <1>2, <1>3, <1>4, <1>5 DEF IInv

(* The inductive invariant holds in every reachable state.                 *)
THEOREM Invariant == Spec => []IInv
BY InitIInv, StepIInv, PTL DEF Spec

(* The tables, the outbox and the consumer offsets are as their columns    *)
(* say, and a row of order_items has an order.                             *)
THEOREM TypeCorrect == Spec => []TypeOK
<1>1. ASSUME IInv PROVE TypeOK
  <2> USE <1>1 DEF IInv, Typed
  <2>1. orders \in [OrderIds -> [status : {"none", "DRAFT", "PENDING", "CONFIRMED", "CANCELED"},
                                 total : Carts \cup {NoCart, FirstCart}]]
    BY DEF OrderType, Statuses
  <2>2. \A row \in items : /\ row.order \in OrderIds
                            /\ orders[row.order].status # "none"
                            /\ \A other \in items : other.id = row.id => other = row
    BY DEF RowsMade, Rows
  <2>3. \A i \in DOMAIN outbox : outbox[i] \in EventType
    OBVIOUS
  <2>4. \A i \in DOMAIN outbox :
          /\ outbox[i].topic \in {"order.checkout", "order.canceled", "order.checkout.failed"}
          /\ outbox[i].order \in OrderIds \cup {NoOrder}
    BY <2>3 DEF EventType, EventTopics
  <2>5. \A c \in Calls : calls[c].pc \in Ended \cup Running
    BY DEF CallType
  <2> QED BY <2>1, <2>2, <2>4, <2>5 DEF TypeOK, Offsets
<1> QED BY <1>1, Invariant, PTL

(* Every published order event tells the rows its order holds, now and     *)
(* ever after.                                                             *)
THEOREM EventsAreTrue == Spec => []EventsMatchRows
BY Invariant, PTL DEF IInv

(* The last event of an order tells its status.                            *)
THEOREM LastEventTells == Spec => []EventsTellStatus
BY Invariant, PTL DEF IInv

(* A checkout request publishes success or failure, never both, and never  *)
(* ends in silence unless the database failed.                             *)
THEOREM OneVerdictPublished == Spec => []OneVerdict
BY Invariant, PTL DEF IInv

-----------------------------------------------------------------------------
(* What a step may not do.                                                 *)

(* A request comes to commit a checkout of a draft it has just read.       *)
LEMMA PaysDrafts ==
  ASSUME Typed, [Next]_vars, NEW d \in Calls, calls'[d].pc = "pay"
  PROVE  calls'[d] = calls[d] \/ calls'[d].target \in Drafts
<1>1. ASSUME CallStep(d), ~ RemoveKillsProcess(d)
      PROVE  calls'[d].target \in Drafts
  <2>1. CASE CheckoutCall(d)
    <3>1. CASE calls' = [calls EXCEPT ![d].pc = "noDraft"]
      BY <3>1 DEF Typed
    <3>2. CASE \E o \in Drafts : calls' = [calls EXCEPT ![d] = Start("pay", o, NoCart)]
      BY <3>2 DEF Typed, Start
    <3> QED BY <2>1, <3>1, <3>2 DEF CheckoutCall
  <2>2. ASSUME NEW pc, pc # "pay", \/ calls' = [calls EXCEPT ![d].pc = pc]
                                  \/ \E o, cart : calls' = [calls EXCEPT ![d] = Start(pc, o, cart)]
        PROVE  FALSE
    BY <2>2 DEF Typed, CallType, Start
  <2>3. CASE ReadItems(d)
    BY <2>3 DEF ReadItems, Typed, CallType
  <2> QED BY <1>1, <2>1, <2>2, <2>3 DEF Goto, UpdateOf, CallStep, CreateCall, SyncCall, UpdateCall,
     CreateOrder, UpdateOrder, RejectUpdate, RemoveOrder, CommitCheckout,
     CheckoutMissing, CheckoutRollsBack, ReportNoDraft, Report, ReportFails
<1>2. ASSUME NEW c \in Calls, CallStep(c), ~ RemoveKillsProcess(c), c # d
      PROVE  calls'[d] = calls[d]
  BY <1>2 DEF Typed, CallType, Goto, CallStep, CreateCall, SyncCall, UpdateCall,
     CreateOrder, ReadItems, UpdateOrder, RejectUpdate, RemoveOrder, CheckoutCall, CommitCheckout,
     CheckoutMissing, CheckoutRollsBack, ReportNoDraft, Report, ReportFails
<1>3. ASSUME Restart PROVE calls'[d] = calls[d]
  BY <1>3 DEF Restart, Running, Typed, CallType
<1>4. Restart \/ UNCHANGED calls \/ \E c \in Calls : CallStep(c) /\ ~ RemoveKillsProcess(c)
  BY DEF Next, ConsumerStep, Killed, RemoveKillsProcess,
     PaymentOutcome, Handle, ProcessPaymentSuccessed, ProcessPaymentCanceled, CommitOffset, vars
<1> QED BY <1>1, <1>2, <1>3, <1>4

(* A confirmed or canceled order with no checkout left to commit stays     *)
(* exactly as it is.                                                       *)
THEOREM FinalStays == Spec => OutcomeIsFinal
<1>1. ASSUME IInv, [Next]_vars, NEW o \in OrderIds, Final(o)
      PROVE  Final(o)' /\ orders'[o] = orders[o] /\ RowsOf(o)' = RowsOf(o)
  <2>1. orders'[o] = orders[o]
    BY <1>1, OrdersChange DEF IInv, Final, OrdersMade, CommitCheckout, Absent
  <2>2. RowsOf(o)' = RowsOf(o)
    BY <1>1, RowsStay DEF IInv, Final
  <2>3. ASSUME NEW c \in Calls, calls'[c].pc = "pay" PROVE calls'[c].target # o
    BY <1>1, <2>3, PaysDrafts DEF IInv, Final, Drafts, IsDraft
  <2> QED BY <1>1, <2>1, <2>2, <2>3 DEF Final
<1>2. ASSUME IInv, [Next]_vars
      PROVE  \A o \in OrderIds : Final(o) =>
               Final(o)' /\ orders'[o] = orders[o] /\ RowsOf(o)' = RowsOf(o)
  BY <1>1, <1>2
<1> QED BY <1>2, Invariant, PTL DEF Spec, OutcomeIsFinal

-----------------------------------------------------------------------------
(* Updates.                                                                *)

Finite == IsFiniteSet(items)

(* An update creates finitely many rows.                                   *)
LEMMA NewRowsFinite ==
  ASSUME NEW c, NEW o, NEW cart \in Carts \cup {NoCart, FirstCart}, NEW skus \in SUBSET DOMAIN cart
  PROVE  IsFiniteSet(RowsFor(c, o, cart, skus))
<1> DEFINE f == [sku \in skus |-> Row(c, o, sku, cart[sku])]
<1>1. IsFiniteSet(skus)
  BY CartsAssumption, EmptyCart, FS_EmptySet, FS_Subset
<1>2. IsFiniteSet({f[sku] : sku \in skus})
  <2>1. f = [sku \in skus |-> f[sku]]
    OBVIOUS
  <2> HIDE DEF f
  <2> QED BY <1>1, <2>1, ImageFinite
<1>3. RowsFor(c, o, cart, skus) = {f[sku] : sku \in skus}
  BY DEF RowsFor
<1> QED BY <1>2, <1>3

(* order_items holds finitely many rows.                                   *)
LEMMA FiniteStep ==
  ASSUME Typed, Finite, [Next]_vars
  PROVE  Finite'
<1>1. CASE UNCHANGED items
  BY <1>1 DEF Finite
<1>2. ASSUME NEW c \in Calls, CreateOrder(c) PROVE Finite'
  <2>1. IsFiniteSet(RowsFor(c, c, calls[c].cart, DOMAIN calls[c].cart))
    BY NewRowsFinite DEF Typed, CallType
  <2> QED BY <1>2, <2>1, FS_Union DEF CreateOrder, Finite
<1>3. ASSUME NEW c \in Calls, UpdateOrder(c) PROVE Finite'
  <2> DEFINE read == calls[c].read
             cart == calls[c].cart
             gone == {row.id : row \in {r \in read : r.sku \notin DOMAIN cart}}
             kept == {row \in items : row.id \notin gone}
             new == RowsFor(c, calls[c].target, cart, DOMAIN cart \ SkusOf(read))
  <2>1. PICK found \in FirstRows(read, cart) : items' = Rewritten(c, read, cart, found)
    BY <1>3 DEF UpdateOrder
  <2> DEFINE hit == {found[sku].id : sku \in DOMAIN found}
             f == [row \in kept |->
                     IF row.id \in hit THEN [row EXCEPT !.quantity = cart[row.sku]] ELSE row]
  <2>2. items' = {f[row] : row \in kept} \cup new
    BY <2>1 DEF Rewritten
  <2>3. IsFiniteSet(kept)
    BY FS_Subset DEF Finite
  <2>4. f = [row \in kept |-> f[row]]
    OBVIOUS
  <2>5. IsFiniteSet(new)
    BY NewRowsFinite DEF Typed, CallType
  <2> HIDE DEF kept, new, f
  <2>6. IsFiniteSet({f[row] : row \in kept})
    BY <2>3, <2>4, ImageFinite
  <2> QED BY <2>2, <2>5, <2>6, FS_Union DEF Finite
<1>4. ASSUME NEW c \in Calls, RemoveOrder(c) PROVE Finite'
  BY <1>4, FS_Subset DEF RemoveOrder, Finite
<1> QED BY <1>1, <1>2, <1>3, <1>4, TableSteps DEF tableVars, CommitCheckout, ReportNoDraft, Report,
        ProcessPaymentSuccessed, ProcessPaymentCanceled, Handle

(* In as many rows as products, no product has two.                        *)
LEMMA OneRowEach ==
  ASSUME NEW rows, IsFiniteSet(rows), Cardinality(rows) = Cardinality(SkusOf(rows)),
         NEW x \in rows, NEW y \in rows, x.sku = y.sku
  PROVE  x = y
<1> DEFINE f == [row \in rows |-> row.sku]
<1>1. f \in Surjection(rows, SkusOf(rows))
  BY DEF Surjection, SkusOf
<1>2. f \in Injection(rows, SkusOf(rows))
  <2> HIDE DEF f
  <2> QED BY <1>1, FS_Surjection
<1> QED BY <1>2 DEF Injection, IsInjective

(* Of the rows of one order, with one row per product and read as they     *)
(* are, an update leaves one row for each product asked for, with the      *)
(* quantity asked for.                                                     *)
LEMMA UpdateLeaves ==
  ASSUME IInv, Finite, NEW c \in Calls, UpdateOrder(c),
         calls[c].read = RowsOf(calls[c].target),
         Cardinality(calls[c].read) = Cardinality(SkusOf(calls[c].read))
  PROVE  LET cart == calls[c].cart
             rows == {row \in items' : row.order = calls[c].target}
         IN
         /\ \A row \in rows : row.sku \in DOMAIN cart /\ row.quantity = cart[row.sku]
         /\ \A sku \in DOMAIN cart : \E row \in rows : row.sku = sku
         /\ \A x, y \in rows : x.sku = y.sku => x = y
<1>0. PICK o, cart, rows :
        /\ o = calls[c].target /\ cart = calls[c].cart /\ rows = {row \in items' : row.order = o}
        /\ calls[c].read = RowsOf(o) /\ Cardinality(RowsOf(o)) = Cardinality(SkusOf(RowsOf(o)))
  OBVIOUS
<1> DEFINE read == RowsOf(o)
           gone == {row.id : row \in {r \in read : r.sku \notin DOMAIN cart}}
           new == RowsFor(c, o, cart, DOMAIN cart \ SkusOf(read))
<1>1. PICK found \in FirstRows(read, cart) : items' = Rewritten(c, read, cart, found)
  BY <1>0 DEF UpdateOrder
<1> DEFINE hit == {found[sku].id : sku \in DOMAIN found}
           Left(row) == IF row.id \in hit THEN [row EXCEPT !.quantity = cart[row.sku]] ELSE row
<1>2. items' = {Left(row) : row \in {r \in items : r.id \notin gone}} \cup new
  BY <1>0, <1>1 DEF Rewritten
<1>3. read \in SUBSET items /\ items \in SUBSET Rows
  BY DEF RowsOf, IInv, Typed
<1>4. \A row \in items : \A other \in items : other.id = row.id => other = row
  BY DEF IInv, RowsMade
<1>5. \A x, y \in read : x.sku = y.sku => x = y
  <2>1. IsFiniteSet(read)
    BY <1>3, FS_Subset DEF Finite
  <2>2. Cardinality(read) = Cardinality(SkusOf(read))
    BY <1>0
  <2> HIDE DEF read
  <2> QED BY <2>1, <2>2, OneRowEach
<1>6. \A row \in read : row.id \in gone <=> row.sku \notin DOMAIN cart
  BY <1>3, <1>4
<1>7. \A row \in read : row.id \in hit <=> row.sku \in DOMAIN cart
  <2>1. /\ DOMAIN found = SkusOf(read) \cap DOMAIN cart
        /\ \A sku \in DOMAIN found : found[sku] \in read /\ found[sku].sku = sku
    BY DEF FirstRows
  <2>2. ASSUME NEW row \in read, row.id \in hit PROVE row.sku \in DOMAIN cart
    BY <1>3, <1>4, <2>1, <2>2
  <2>3. ASSUME NEW row \in read, row.sku \in DOMAIN cart PROVE row.id \in hit
    <3>1. row.sku \in DOMAIN found
      BY <2>1, <2>3 DEF SkusOf
    <3>2. found[row.sku] = row
      BY <1>5, <2>1, <3>1
    <3> QED BY <3>1, <3>2
  <2> QED BY <2>2, <2>3
<1>8. \A row \in items : Left(row).order = row.order /\ Left(row).sku = row.sku
  BY <1>3 DEF Rows
<1>9. \A row \in read : row.sku \in DOMAIN cart => Left(row).quantity = cart[row.sku]
  BY <1>3, <1>7 DEF Rows
<1>10. \A row \in new : /\ row.order = o /\ row.sku \in DOMAIN cart \ SkusOf(read)
                        /\ row = Row(c, o, row.sku, cart[row.sku]) /\ row.quantity = cart[row.sku]
  BY DEF RowsFor, Row
<1>11. ASSUME NEW sku \in DOMAIN cart \ SkusOf(read) PROVE \E row \in new : row.sku = sku
  <2>1. Row(c, o, sku, cart[sku]) \in new
    BY DEF RowsFor
  <2> HIDE DEF new
  <2> QED BY <2>1 DEF Row
<1> HIDE DEF gone, hit, Left, new
<1>12. \A row \in rows : row \in new \/ \E old \in read : old.sku \in DOMAIN cart /\ row = Left(old)
  BY <1>0, <1>2, <1>6, <1>8 DEF RowsOf
<1>13. new \subseteq rows
  BY <1>0, <1>2, <1>10
<1>14. \A old \in read : old.sku \in DOMAIN cart => Left(old) \in rows
  BY <1>0, <1>2, <1>3, <1>6, <1>8 DEF RowsOf
<1>15. \A row \in read : row.sku \in SkusOf(read)
  BY DEF SkusOf
<1>16. \A sku \in SkusOf(read) : \E row \in read : row.sku = sku
  BY DEF SkusOf
<1> HIDE DEF read
<1>17. \A row \in rows : row.sku \in DOMAIN cart /\ row.quantity = cart[row.sku]
  BY <1>3, <1>8, <1>9, <1>10, <1>12
<1>18. \A sku \in DOMAIN cart : \E row \in rows : row.sku = sku
  BY <1>3, <1>8, <1>11, <1>13, <1>14, <1>16
<1>19. ASSUME NEW x \in rows, NEW y \in rows, x.sku = y.sku PROVE x = y
  <2>1. CASE x \in new \/ y \in new
    BY <1>3, <1>8, <1>10, <1>12, <1>15, <1>19, <2>1
  <2>2. CASE x \notin new /\ y \notin new
    BY <1>3, <1>5, <1>8, <1>12, <1>19, <2>2
  <2> QED BY <2>1, <2>2
<1> QED BY <1>0, <1>17, <1>18, <1>19

(* An update that commits while the rows are those it read leaves exactly  *)
(* the items the client asked for.                                         *)
THEOREM UpdatesAreExact == Spec => UpdateIsExact
<1>1. ASSUME IInv, Finite, NEW c \in Calls, UpdateOrder(c),
             calls[c].read = RowsOf(calls[c].target),
             Cardinality(RowsOf(calls[c].target)) = Cardinality(SkusOf(RowsOf(calls[c].target)))
      PROVE  /\ Contents(RowsOf(calls[c].target)') = Asked(orders'[calls[c].target].total)
             /\ Cardinality(RowsOf(calls[c].target)') = Cardinality(DOMAIN orders'[calls[c].target].total)
  <2> DEFINE o == calls[c].target
             cart == calls[c].cart
             rows == {row \in items' : row.order = o}
  <2>1. o \in OrderIds /\ cart \in Carts \cup {NoCart}
    BY <1>1 DEF IInv, Typed, CallType, Targeted, UpdateOrder
  <2>2. orders'[o].total = cart
    BY <1>1, <2>1 DEF UpdateOrder, IInv, Typed, OrderType
  <2>3. RowsOf(calls[c].target)' = rows
    BY <1>1 DEF RowsOf, UpdateOrder, Goto, IInv, Typed, CallType
  <2>4. /\ \A row \in rows : row.sku \in DOMAIN cart /\ row.quantity = cart[row.sku]
        /\ \A sku \in DOMAIN cart : \E row \in rows : row.sku = sku
        /\ \A x, y \in rows : x.sku = y.sku => x = y
    BY <1>1, UpdateLeaves
  <2> HIDE DEF rows
  <2>5. Contents(rows) = Asked(cart)
    <3>1. Contents(rows) \subseteq Asked(cart)
      BY <2>4 DEF Contents, Asked
    <3>2. ASSUME NEW sku \in DOMAIN cart PROVE <<sku, cart[sku]>> \in Contents(rows)
      BY <2>4 DEF Contents
    <3> QED BY <3>1, <3>2 DEF Asked
  <2>6. Cardinality(rows) = Cardinality(DOMAIN cart)
    <3> DEFINE f == [row \in rows |-> row.sku]
    <3>1. f \in Bijection(rows, DOMAIN cart)
      BY <2>4 DEF Bijection, Injection, Surjection, IsInjective
    <3>2. ExistsBijection(rows, DOMAIN cart)
      BY <3>1 DEF ExistsBijection
    <3>3. IsFiniteSet(rows)
      <4>1. IsFiniteSet(items')
        BY <1>1, FiniteStep DEF IInv, Finite, Next, CallStep
      <4> QED BY <4>1, FS_Subset DEF rows
    <3> QED BY <3>2, <3>3, FS_Bijection
  <2> QED BY <2>2, <2>3, <2>5, <2>6
<1>2. ASSUME IInv, Finite, [Next]_vars
      PROVE  \A c \in Calls :
               LET o == calls[c].target
               IN  /\ UpdateOrder(c)
                   /\ calls[c].read = RowsOf(o)
                   /\ Cardinality(RowsOf(o)) = Cardinality(SkusOf(RowsOf(o)))
                   => /\ Contents(RowsOf(o)') = Asked(orders'[o].total)
                      /\ Cardinality(RowsOf(o)') = Cardinality(DOMAIN orders'[o].total)
  BY <1>1, <1>2
<1>3. Init => Finite
  <2>1. IsFiniteSet(RowsFor(First, First, FirstCart, DOMAIN FirstCart))
    BY NewRowsFinite
  <2> QED BY <2>1 DEF Init, Finite
<1>4. IInv /\ Finite /\ [Next]_vars => Finite'
  BY FiniteStep DEF IInv
<1>5. Spec => []Finite
  BY <1>3, <1>4, Invariant, PTL DEF Spec
<1> QED BY <1>2, <1>5, Invariant, PTL DEF Spec, UpdateIsExact

=============================================================================
