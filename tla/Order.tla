------------------------------- MODULE Order -------------------------------
(***************************************************************************)
(* The order service: the orders, order_items and outbox tables, the gRPC  *)
(* calls CreateOrder, UpdateOrder, SyncOrder and OrderCheckout, and the    *)
(* consumer of the payment service's topics.  Every order belongs to user  *)
(* 1, as in the code.  A conditional update is one step; a read outside a  *)
(* transaction, or one that takes no lock inside it, is a step of its own. *)
(***************************************************************************)
EXTENDS Integers, Sequences, FiniteSets

CONSTANTS
  Calls,        \* gRPC requests, each of them made once
  First,        \* an order that is a draft to begin with
  FirstCart,    \* and its items
  Carts,        \* item lists of requests: functions from products to quantities
  NoOrder,      \* no order id
  MaxOutcomes,  \* bound: messages of the payment service per order
  MaxFaults,    \* bound: database errors
  MaxCrashes    \* bound: times the process is killed or exits

(* The autoincremented id of an order is named after the call that creates *)
(* it: a call creates at most one.                                         *)
OrderIds == Calls \cup {First}

ASSUME NamesAssumption == First \notin Calls /\ NoOrder \notin OrderIds
ASSUME CartsAssumption == \A cart \in Carts \cup {FirstCart} : IsFiniteSet(DOMAIN cart)
ASSUME BoundsAssumption ==
  MaxOutcomes \in Nat /\ MaxFaults \in Nat /\ MaxCrashes \in Nat

VARIABLES
  orders,     \* orders[o]: its status ("none": no row) and its total
  items,      \* the rows of order_items
  outbox,     \* the outbox in commit order
  calls,      \* calls[c]: where request c is, and what it has read
  topics,     \* topics[t]: the order ids on the payment service's topic t
  offset,     \* offset[t]: messages handled by the running consumer
  committed,  \* committed[t]: the consumer group's committed offset
  faults,     \* database errors so far
  crashes     \* restarts so far

tableVars == <<orders, items, outbox>>
kafkaVars == <<topics, offset, committed>>
vars == <<orders, items, outbox, calls, topics, offset, committed, faults, crashes>>

Topics == {"payment.successed", "payment.canceled"}
NoCart == CHOOSE f \in [{} -> {0}] : TRUE

(* An order's total stands for the item list it was summed over.           *)
Absent == [status |-> "none", total |-> NoCart]
Draft(cart) == [status |-> "DRAFT", total |-> cart]
IsDraft(o) == orders[o].status = "DRAFT"
Drafts == {o \in OrderIds : IsDraft(o)}

(* A row keeps its id for life; (call, product) names it, since a call     *)
(* creates one row per product.                                            *)
Row(c, o, sku, quantity) == [id |-> <<c, sku>>, order |-> o, sku |-> sku, quantity |-> quantity]
RowsFor(c, o, cart, skus) == {Row(c, o, sku, cart[sku]) : sku \in skus}
RowsOf(o) == {row \in items : row.order = o}
SkusOf(rows) == {row.sku : row \in rows}

Start(pc, o, cart) == [pc |-> pc, target |-> o, cart |-> cart, read |-> {}]
New == Start("new", NoOrder, NoCart)
Ended == {"new", "done", "failed", "paid", "refused", "dead"}
Running == {"create", "read", "update", "remove", "pay", "noDraft", "report"}

TypeOK ==
  /\ orders \in [OrderIds ->
       [status : {"none", "DRAFT", "PENDING", "CONFIRMED", "CANCELED"},
        total : Carts \cup {NoCart, FirstCart}]]
  /\ \A row \in items :
       /\ row.order \in OrderIds
       /\ orders[row.order].status # "none"
       /\ \A other \in items : other.id = row.id => other = row
  /\ \A i \in DOMAIN outbox :
       /\ outbox[i].topic \in {"order.checkout", "order.canceled", "order.checkout.failed"}
       /\ outbox[i].order \in OrderIds \cup {NoOrder}
  /\ \A c \in Calls : calls[c].pc \in Ended \cup Running
  /\ \A t \in Topics : committed[t] <= offset[t] /\ offset[t] <= Len(topics[t])

Init ==
  /\ orders = [o \in OrderIds |-> IF o = First THEN Draft(FirstCart) ELSE Absent]
  /\ items = RowsFor(First, First, FirstCart, DOMAIN FirstCart)
  /\ outbox = <<>>
  /\ calls = [c \in Calls |-> New]
  /\ topics = [t \in Topics |-> <<>>]
  /\ offset = [t \in Topics |-> 0]
  /\ committed = [t \in Topics |-> 0]
  /\ faults = 0
  /\ crashes = 0

Fault == faults < MaxFaults /\ faults' = faults + 1

Event(topic, o, rows, c) == [topic |-> topic, order |-> o, items |-> rows, call |-> c]
Emit(event) == outbox' = Append(outbox, event)

(* Only call c moves on.                                                   *)
Goto(c, pc) == calls' = [calls EXCEPT ![c].pc = pc]

-----------------------------------------------------------------------------
(* createOrder, updateOrder, removeOrder, syncOrder.                       *)

(* updateOrder with no items starts removeOrder and does not wait for it.  *)
UpdateOf(o, cart) == Start(IF cart = NoCart THEN "remove" ELSE "read", o, cart)

(* An empty list is not sent: protobuf leaves it out, data.items is then   *)
(* undefined, and createOrder and updateOrder throw before they do a       *)
(* thing.  syncOrder puts the empty list back.                             *)
CreateCall(c, cart) ==
  /\ calls[c] = New
  /\ cart # NoCart
  /\ calls' = [calls EXCEPT ![c] = Start("create", NoOrder, cart)]
  /\ UNCHANGED <<tableVars, kafkaVars, faults, crashes>>

(* The client names any order, a removed or a paid one included.           *)
UpdateCall(c, o, cart) ==
  /\ calls[c] = New
  /\ cart # NoCart
  /\ calls' = [calls EXCEPT ![c] = UpdateOf(o, cart)]
  /\ UNCHANGED <<tableVars, kafkaVars, faults, crashes>>

(* syncOrder's findFirst decides between the two.                          *)
SyncCall(c, cart) ==
  /\ calls[c] = New
  /\ IF Drafts = {}
     THEN calls' = [calls EXCEPT ![c] = Start("create", NoOrder, cart)]
     ELSE \E o \in Drafts : calls' = [calls EXCEPT ![c] = UpdateOf(o, cart)]
  /\ UNCHANGED <<tableVars, kafkaVars, faults, crashes>>

CreateOrder(c) ==
  /\ calls[c].pc = "create"
  /\ orders' = [orders EXCEPT ![c] = Draft(calls[c].cart)]
  /\ items' = items \cup RowsFor(c, c, calls[c].cart, DOMAIN calls[c].cart)
  /\ Goto(c, "done")
  /\ UNCHANGED <<outbox, kafkaVars, faults, crashes>>

(* orderItem.findMany, outside the transaction.                            *)
ReadItems(c) ==
  /\ calls[c].pc = "read"
  /\ calls' = [calls EXCEPT ![c].pc = "update", ![c].read = RowsOf(calls[c].target)]
  /\ UNCHANGED <<tableVars, kafkaVars, faults, crashes>>

(* For each product both wanted and read, the row that items.find meets    *)
(* first: any, when the product has several.                               *)
FirstRows(read, cart) ==
  {found \in [SkusOf(read) \cap DOMAIN cart -> read] : \A sku \in DOMAIN found : found[sku].sku = sku}

(* Mutant: deleteMany is left out.                                         *)
Rewritten_NothingDeleted(c, read, cart, found) ==
  LET hit == {found[sku].id : sku \in DOMAIN found}
  IN  {IF row.id \in hit THEN [row EXCEPT !.quantity = cart[row.sku]] ELSE row : row \in items}
      \cup RowsFor(c, calls[c].target, cart, DOMAIN cart \ SkusOf(read))

(* The rows after deleteMany, the updates of the rows found, and the       *)
(* creates.                                                                *)
Rewritten(c, read, cart, found) ==
  LET gone == {row.id : row \in {r \in read : r.sku \notin DOMAIN cart}}
      kept == {row \in items : row.id \notin gone}
      hit == {found[sku].id : sku \in DOMAIN found}
  IN  {IF row.id \in hit THEN [row EXCEPT !.quantity = cart[row.sku]] ELSE row : row \in kept}
      \cup RowsFor(c, calls[c].target, cart, DOMAIN cart \ SkusOf(read))

(* The transaction: the order must still be a draft, and the rows to be    *)
(* updated must still be there, or Prisma throws and nothing changes.      *)
StillThere(found) == \A sku \in DOMAIN found : \E row \in items : row.id = found[sku].id

(* Mutant: the update names the order by id alone.                         *)
UpdateOrder_AnyStatus(c) ==
  /\ calls[c].pc = "update"
  /\ orders[calls[c].target] # Absent
  /\ \E found \in FirstRows(calls[c].read, calls[c].cart) :
       /\ StillThere(found)
       /\ items' = Rewritten(c, calls[c].read, calls[c].cart, found)
  /\ orders' = [orders EXCEPT ![calls[c].target].total = calls[c].cart]
  /\ Goto(c, "done")
  /\ UNCHANGED <<outbox, kafkaVars, faults, crashes>>

UpdateOrder(c) ==
  /\ calls[c].pc = "update"
  /\ IsDraft(calls[c].target)
  /\ \E found \in FirstRows(calls[c].read, calls[c].cart) :
       /\ StillThere(found)
       /\ items' = Rewritten(c, calls[c].read, calls[c].cart, found)
  /\ orders' = [orders EXCEPT ![calls[c].target].total = calls[c].cart]
  /\ Goto(c, "done")
  /\ UNCHANGED <<outbox, kafkaVars, faults, crashes>>

RejectUpdate(c) ==
  /\ calls[c].pc = "update"
  /\ \/ ~ IsDraft(calls[c].target)
     \/ \E found \in FirstRows(calls[c].read, calls[c].cart) : ~ StillThere(found)
  /\ Goto(c, "failed")
  /\ UNCHANGED <<tableVars, kafkaVars, faults, crashes>>

(* Mutant: only the order is deleted.                                      *)
RemoveOrder_RowsKept(c) ==
  /\ calls[c].pc = "remove"
  /\ IsDraft(calls[c].target)
  /\ orders' = [orders EXCEPT ![calls[c].target] = Absent]
  /\ Goto(c, "done")
  /\ UNCHANGED <<items, outbox, kafkaVars, faults, crashes>>

(* removeOrder: items and order go together, if the order is a draft.      *)
RemoveOrder(c) ==
  /\ calls[c].pc = "remove"
  /\ IsDraft(calls[c].target)
  /\ items' = items \ RowsOf(calls[c].target)
  /\ orders' = [orders EXCEPT ![calls[c].target] = Absent]
  /\ Goto(c, "done")
  /\ UNCHANGED <<outbox, kafkaVars, faults, crashes>>

-----------------------------------------------------------------------------
(* orderCheckout.                                                          *)

(* findFirst in the transaction locks nothing.                             *)
CheckoutCall(c) ==
  /\ calls[c] = New
  /\ IF Drafts = {}
     THEN calls' = [calls EXCEPT ![c].pc = "noDraft"]
     ELSE \E o \in Drafts : calls' = [calls EXCEPT ![c] = Start("pay", o, NoCart)]
  /\ UNCHANGED <<tableVars, kafkaVars, faults, crashes>>

(* Mutant: the status stays DRAFT.                                         *)
CommitCheckout_StatusKept(c) ==
  /\ calls[c].pc = "pay"
  /\ orders[calls[c].target] # Absent
  /\ Emit(Event("order.checkout", calls[c].target, RowsOf(calls[c].target), c))
  /\ Goto(c, "paid")
  /\ UNCHANGED <<orders, items, kafkaVars, faults, crashes>>

(* The update names the order by id alone; the event goes with it.         *)
CommitCheckout(c) ==
  /\ calls[c].pc = "pay"
  /\ orders[calls[c].target] # Absent
  /\ orders' = [orders EXCEPT ![calls[c].target].status = "PENDING"]
  /\ Emit(Event("order.checkout", calls[c].target, RowsOf(calls[c].target), c))
  /\ Goto(c, "paid")
  /\ UNCHANGED <<items, kafkaVars, faults, crashes>>

(* Mutant: the catch publishes nothing.                                    *)
CheckoutMissing_Silent(c) ==
  /\ calls[c].pc = "pay"
  /\ orders[calls[c].target] = Absent
  /\ Goto(c, "refused")
  /\ UNCHANGED <<tableVars, kafkaVars, faults, crashes>>

(* The draft is gone: the update throws before orderId is known.           *)
CheckoutMissing(c) ==
  /\ calls[c].pc = "pay"
  /\ orders[calls[c].target] = Absent
  /\ calls' = [calls EXCEPT ![c] = Start("report", NoOrder, NoCart)]
  /\ UNCHANGED <<tableVars, kafkaVars, faults, crashes>>

(* The database refuses; the catch knows the order id if the update had    *)
(* returned by then.                                                       *)
CheckoutRollsBack(c) ==
  /\ calls[c].pc = "pay"
  /\ Fault
  /\ \E o \in {NoOrder, calls[c].target} : calls' = [calls EXCEPT ![c] = Start("report", o, NoCart)]
  /\ UNCHANGED <<tableVars, kafkaVars, crashes>>

(* createOutboxEventFailed before the throw, on a connection of its own.   *)
ReportNoDraft(c) ==
  /\ calls[c].pc = "noDraft"
  /\ Emit(Event("order.checkout.failed", NoOrder, {}, c))
  /\ Goto(c, "report")
  /\ UNCHANGED <<orders, items, kafkaVars, faults, crashes>>

(* createOutboxEventFailed in the catch.                                   *)
Report(c) ==
  /\ calls[c].pc = "report"
  /\ Emit(Event("order.checkout.failed", calls[c].target, {}, c))
  /\ Goto(c, "refused")
  /\ UNCHANGED <<orders, items, kafkaVars, faults, crashes>>

(* Either write fails: the first leads into the catch, the second ends the *)
(* request without an event.                                               *)
ReportFails(c) ==
  /\ calls[c].pc \in {"noDraft", "report"}
  /\ Fault
  /\ Goto(c, IF calls[c].pc = "noDraft" THEN "report" ELSE "refused")
  /\ UNCHANGED <<tableVars, kafkaVars, crashes>>

-----------------------------------------------------------------------------
(* The payment service's topics.                                           *)

MessageNumbers == 1 .. MaxOutcomes * Cardinality(OrderIds)

PaymentOutcome(o, t) ==
  /\ \E i \in DOMAIN outbox : outbox[i].topic = "order.checkout" /\ outbox[i].order = o
  /\ Cardinality({m \in Topics \X MessageNumbers :
                    m[2] \in DOMAIN topics[m[1]] /\ topics[m[1]][m[2]] = o}) < MaxOutcomes
  /\ topics' = [topics EXCEPT ![t] = Append(@, o)]
  /\ UNCHANGED <<tableVars, calls, offset, committed, faults, crashes>>

HasMessage(t) == offset[t] < Len(topics[t])
HeadOf(t) == topics[t][offset[t] + 1]

(* Mutant: the order's status is not asked for.                            *)
Handle_AnyStatus(t, status) ==
  /\ HasMessage(t)
  /\ orders' = [orders EXCEPT ![HeadOf(t)].status = status]
  /\ offset' = [offset EXCEPT ![t] = @ + 1]
  /\ UNCHANGED <<items, calls, topics, committed, faults, crashes>>

(* Both handlers update a PENDING order.  For any other the update throws, *)
(* kafkajs keeps the offset and tries again: nothing changes.              *)
Handle(t, status) ==
  /\ HasMessage(t)
  /\ orders[HeadOf(t)].status = "PENDING"
  /\ orders' = [orders EXCEPT ![HeadOf(t)].status = status]
  /\ offset' = [offset EXCEPT ![t] = @ + 1]
  /\ UNCHANGED <<items, calls, topics, committed, faults, crashes>>

ProcessPaymentSuccessed ==
  /\ Handle("payment.successed", "CONFIRMED")
  /\ UNCHANGED outbox

(* Mutant: the order is canceled without an event.                         *)
ProcessPaymentCanceled_NoEvent ==
  /\ Handle("payment.canceled", "CANCELED")
  /\ UNCHANGED outbox

ProcessPaymentCanceled ==
  /\ Handle("payment.canceled", "CANCELED")
  /\ LET o == HeadOf("payment.canceled")
     IN  Emit(Event("order.canceled", o, RowsOf(o), NoOrder))

CommitOffset(t) ==
  /\ committed[t] # offset[t]
  /\ committed' = [committed EXCEPT ![t] = offset[t]]
  /\ UNCHANGED <<tableVars, calls, topics, offset, faults, crashes>>

-----------------------------------------------------------------------------
(* The process ends: requests die, the consumer resumes at the committed   *)
(* offsets.                                                                *)
Restart ==
  /\ crashes < MaxCrashes
  /\ crashes' = crashes + 1
  /\ calls' = [c \in Calls |->
       IF calls[c].pc \in Running THEN [calls[c] EXCEPT !.pc = "dead"] ELSE calls[c]]
  /\ offset' = committed
  /\ UNCHANGED <<tableVars, topics, committed, faults>>

Killed == Restart

(* removeOrder throws with nobody waiting for it, and main.ts exits on an  *)
(* unhandled rejection.                                                    *)
RemoveKillsProcess(c) ==
  /\ calls[c].pc = "remove"
  /\ ~ IsDraft(calls[c].target)
  /\ Restart

CallStep(c) ==
  \/ \E cart \in Carts :
       CreateCall(c, cart) \/ SyncCall(c, cart) \/ \E o \in OrderIds : UpdateCall(c, o, cart)
  \/ CreateOrder(c) \/ ReadItems(c) \/ UpdateOrder(c) \/ RejectUpdate(c) \/ RemoveOrder(c)
  \/ CheckoutCall(c) \/ CommitCheckout(c) \/ CheckoutMissing(c) \/ CheckoutRollsBack(c)
  \/ ReportNoDraft(c) \/ Report(c) \/ ReportFails(c)
  \/ RemoveKillsProcess(c)

ConsumerStep ==
  ProcessPaymentSuccessed \/ ProcessPaymentCanceled \/ \E t \in Topics : CommitOffset(t)

Next ==
  \/ \E c \in Calls : CallStep(c)
  \/ \E o \in OrderIds, t \in Topics : PaymentOutcome(o, t)
  \/ ConsumerStep
  \/ Killed

Spec == Init /\ [][Next]_vars

(* The consumer keeps polling; nobody owes the shop a request.             *)
Fairness == WF_vars(ProcessPaymentSuccessed) /\ WF_vars(ProcessPaymentCanceled)

FairSpec == Spec /\ Fairness

-----------------------------------------------------------------------------
(* Safety.                                                                 *)

(* Every order.checkout and order.canceled event still tells the rows of   *)
(* its order: the inventory service gives back, and the payment service    *)
(* charges for, exactly what the order holds, although updateOrder works   *)
(* on rows it read earlier and removeOrder runs unattended.                *)
EventsMatchRows ==
  \A i \in DOMAIN outbox : outbox[i].topic # "order.checkout.failed" =>
    /\ orders[outbox[i].order].status \notin {"none", "DRAFT"}
    /\ outbox[i].items = RowsOf(outbox[i].order)

(* The last event of an order tells its status: canceled if and only if    *)
(* order.canceled came last, in spite of checkouts that read the draft     *)
(* before it was placed.                                                   *)
LastEvent(o, topic) ==
  \E i \in DOMAIN outbox :
    /\ outbox[i].order = o /\ outbox[i].topic = topic
    /\ \A j \in DOMAIN outbox :
         j > i /\ outbox[j].order = o => outbox[j].topic = "order.checkout.failed"

EventsTellStatus ==
  \A o \in OrderIds :
    CASE orders[o].status = "CANCELED" -> LastEvent(o, "order.canceled")
      [] orders[o].status \in {"PENDING", "CONFIRMED"} -> LastEvent(o, "order.checkout")
      [] OTHER -> \A i \in DOMAIN outbox :
                    outbox[i].order = o => outbox[i].topic = "order.checkout.failed"

(* A checkout request publishes one verdict: order.checkout when it        *)
(* succeeds, order.checkout.failed when it does not, never both; and       *)
(* without database errors a refused one is never silent.                  *)
Published(c, topic) == \E i \in DOMAIN outbox : outbox[i].call = c /\ outbox[i].topic = topic

OneVerdict ==
  \A c \in Calls :
    /\ ~ (Published(c, "order.checkout") /\ Published(c, "order.checkout.failed"))
    /\ calls[c].pc = "paid" => Published(c, "order.checkout")
    /\ calls[c].pc = "refused" /\ faults = 0 => Published(c, "order.checkout.failed")

(* An update that commits while the rows are still those it read, one for  *)
(* each product, leaves exactly the rows the client asked for.             *)
Contents(rows) == {<<row.sku, row.quantity>> : row \in rows}
Asked(cart) == {<<sku, cart[sku]>> : sku \in DOMAIN cart}

UpdateIsExact ==
  [][\A c \in Calls :
       LET o == calls[c].target
       IN  /\ UpdateOrder(c)
           /\ calls[c].read = RowsOf(o)
           /\ Cardinality(RowsOf(o)) = Cardinality(SkusOf(RowsOf(o)))
           => /\ Contents(RowsOf(o)') = Asked(orders'[o].total)
              /\ Cardinality(RowsOf(o)') = Cardinality(DOMAIN orders'[o].total)]_vars

(* A confirmed or canceled order is final once no checkout that read it as *)
(* a draft is still to commit: no payment message, redelivered or late,    *)
(* and no update or removal changes it again.                              *)
Final(o) ==
  /\ orders[o].status \in {"CONFIRMED", "CANCELED"}
  /\ \A c \in Calls : calls[c].pc = "pay" => calls[c].target # o

OutcomeIsFinal ==
  [][\A o \in OrderIds : Final(o) =>
       Final(o)' /\ orders'[o] = orders[o] /\ RowsOf(o)' = RowsOf(o)]_vars

(* Liveness, without crashes and with one payment outcome per order: every *)
(* outcome is handled, and none blocks the topic, whatever the requests do *)
(* to the order meanwhile.                                                 *)
OutcomeTakesEffect ==
  \A t \in Topics, i \in MessageNumbers :
    Len(topics[t]) >= i ~> offset[t] >= i
=============================================================================
