------------------------------ MODULE Checkout ------------------------------
(***************************************************************************)
(* A checkout from the client's request to the settled order: the gateway  *)
(* reserves units at the inventory service and then asks the order service *)
(* to place the draft; the payment service opens a payment that a client   *)
(* settles or a timer ends; its outcome comes back to the order service,   *)
(* and a canceled order gives its units back.  Each service is reduced to  *)
(* what the others see of it (Inventory, Order and Payment have the rest): *)
(* one count of units, and topics read in order and once.                  *)
(***************************************************************************)
EXTENDS Gateway, Sequences, SequencesExt

CONSTANTS
  Attempts,    \* checkout requests
  Payers,      \* payment requests
  OrderIds,    \* orders that may be drafts when the checkouts start
  Null,        \* the id of a checkout that failed before it had an order
  Quantities,  \* units a client may ask for, or a draft may list
  Carts,       \* what the drafts may be: sets of functions from some ids to units
  Stock,       \* units in Redis to begin with
  MaxTimeouts, \* bound: calls the gateway gives up
  MaxFaults    \* bound: errors of a database or of Redis

ASSUME IdsAssumption == Null \notin OrderIds
ASSUME QuantitiesAssumption ==
  Quantities \subseteq Nat \ {0} /\ Quantities # {} /\ IsFiniteSet(Quantities)
ASSUME CartsAssumption ==
  \A cart \in Carts : DOMAIN cart \subseteq OrderIds /\ Range(cart) \subseteq Quantities
ASSUME FiniteAssumption == IsFiniteSet(Attempts) /\ IsFiniteSet(OrderIds)
ASSUME NumbersAssumption == {Stock, MaxTimeouts, MaxFaults} \subseteq Nat

VARIABLES
  attempts,  \* attempts[a]: what gateway, inventory and order service did for a
  stock,     \* the counter in Redis
  released,  \* ids whose key inventory:processed:<id> exists
  orders,    \* orders[id]: its status and the units its rows list
  topics,    \* the topics order.checkout, order.canceled, order.checkout.failed
  payments,  \* payments[id]: "none" or a PaymentStatus
  ledger,    \* the payment service's outbox, oldest row first
  seen,      \* seen[t]: how many of ledger's rows for topic t are handled
  payers,    \* payers[p]: what payment request p is about to do
  used       \* how much of each bound is used up

vars == <<attempts, stock, released, orders, topics, payments, ledger, seen, payers, used>>

Ledger == INSTANCE PaymentLedger WITH Orders <- OrderIds, status <- payments

Statuses == {"none", "PENDING", "SUCCESS", "FAILED", "EXPIRED"}
Outcomes == {"payment.successed", "payment.canceled"}
Fresh == [gateway |-> "new", inventory |-> "idle", orderService |-> "idle",
          asked |-> 0, order |-> Null, answer |-> 0]
Idle == [pc |-> "idle", route |-> None, order |-> Null, read |-> "none", answer |-> 0]

Spend(kind, bound) == used[kind] < bound /\ used' = [used EXCEPT ![kind] = @ + 1]
Fault == Spend("faults", MaxFaults)
Rows(t) == {i \in DOMAIN ledger : ledger[i].topic = t}
Drafts == {id \in OrderIds : orders[id].status = "DRAFT"}

AttemptStates ==
  [gateway : {"new", "reserving", "ordering", "answered"},
   inventory : {"idle", "asked", "reserved", "refused", "failed", "leaked"},
   orderService : {"idle", "asked", "found", "placed", "failed", "silent"},
   asked : Quantities \cup {0}, order : OrderIds \cup {Null}, answer : {0, 201, 400, 408, 502}]
PayerStates ==
  [pc : {"idle", "commit", "unschedule", "answered"}, route : DOMAIN PaymentVerbs \cup {None},
   order : OrderIds \cup {Null}, read : Statuses, answer : {0, 201, 502}]

(* The types; orders are asked for with a reservation only, and a consumer *)
(* reads no further than the outbox.                                       *)
TypeOK ==
  /\ attempts \in [Attempts -> AttemptStates]
  /\ \A a \in Attempts : attempts[a].orderService # "idle" => attempts[a].inventory = "reserved"
  /\ stock \in 0 .. Stock + Cardinality(OrderIds) * Max(Quantities)
  /\ released \subseteq OrderIds \cup {Null}
  /\ orders \in [OrderIds -> [status : {"none", "DRAFT", "PENDING", "CONFIRMED", "CANCELED"},
                              rows : Quantities \cup {0}]]
  /\ payments \in [OrderIds -> Statuses]
  /\ \A t \in Outcomes : seen[t] \in 0 .. Cardinality(Rows(t))
  /\ payers \in [Payers -> PayerStates]

Init ==
  /\ attempts = [a \in Attempts |-> Fresh]
  /\ stock = Stock
  /\ released = {}
  /\ \E cart \in Carts : orders = [id \in OrderIds |->
       IF id \in DOMAIN cart THEN [status |-> "DRAFT", rows |-> cart[id]]
       ELSE [status |-> "none", rows |-> 0]]
  /\ topics = [checkout |-> <<>>, canceled |-> <<>>, failed |-> <<>>]
  /\ payments = [id \in OrderIds |-> "none"]
  /\ ledger = <<>>
  /\ seen = [t \in Outcomes |-> 0]
  /\ payers = [p \in Payers |-> Idle]
  /\ used = [timeouts |-> 0, faults |-> 0]

-----------------------------------------------------------------------------
(* The gateway's checkout.                                                 *)

Answer(a, status) ==
  attempts' = [attempts EXCEPT ![a].gateway = "answered", ![a].answer = status]
GatewayUnchanged == UNCHANGED <<stock, released, orders, topics, payments, ledger, seen, payers>>

AskReservation(a, units) ==
  /\ attempts[a].gateway = "new"
  /\ attempts' = [attempts EXCEPT ![a].gateway = "reserving", ![a].inventory = "asked",
                                  ![a].asked = units]
  /\ GatewayUnchanged /\ UNCHANGED used

(* Mutant: the reply's success is not looked at.                           *)
AskOrder_AnyReply(a) ==
  /\ attempts[a].gateway = "reserving"
  /\ attempts[a].inventory \in {"reserved", "refused"}
  /\ attempts' = [attempts EXCEPT ![a].gateway = "ordering", ![a].orderService = "asked"]
  /\ GatewayUnchanged /\ UNCHANGED used

AskOrder(a) ==
  /\ attempts[a].gateway = "reserving"
  /\ attempts[a].inventory = "reserved"
  /\ attempts' = [attempts EXCEPT ![a].gateway = "ordering", ![a].orderService = "asked"]
  /\ GatewayUnchanged /\ UNCHANGED used

(* success is false, or one of the services has thrown.                    *)
Refuse(a) ==
  /\ \/ attempts[a].gateway = "reserving" /\ attempts[a].inventory = "refused"
        /\ Answer(a, ErrorAnswer(OutOfStock))
     \/ attempts[a].gateway = "reserving" /\ attempts[a].inventory \in {"failed", "leaked"}
        /\ \E thrown \in Thrown.inventory : Answer(a, ErrorAnswer(OverGrpc(thrown)))
     \/ attempts[a].gateway = "ordering" /\ attempts[a].orderService \in {"failed", "silent"}
        /\ \E thrown \in Thrown.order : Answer(a, ErrorAnswer(OverGrpc(thrown)))
  /\ GatewayUnchanged /\ UNCHANGED used

Confirm(a) ==
  /\ attempts[a].gateway = "ordering"
  /\ attempts[a].orderService = "placed"
  /\ Answer(a, Created(<<"order", "checkout">>))
  /\ GatewayUnchanged /\ UNCHANGED used

(* Ten seconds pass without a reply, or the connection is gone.  What the  *)
(* service was asked it does all the same.                                 *)
GiveUp(a) ==
  /\ attempts[a].gateway \in {"reserving", "ordering"}
  /\ Spend("timeouts", MaxTimeouts)
  /\ \E error \in {TimedOut, Unavailable} : Answer(a, ErrorAnswer(error))
  /\ GatewayUnchanged

-----------------------------------------------------------------------------
(* The inventory service: the script, the database, the two release topics.*)

InventoryUnchanged == UNCHANGED <<orders, payments, ledger, seen, payers>>

Reserve(a) ==
  /\ attempts[a].inventory = "asked"
  /\ stock >= attempts[a].asked
  /\ stock' = stock - attempts[a].asked
  /\ \/ attempts' = [attempts EXCEPT ![a].inventory = "reserved"] /\ UNCHANGED used
     \/ attempts' = [attempts EXCEPT ![a].inventory = "leaked"] /\ Fault
  /\ InventoryUnchanged /\ UNCHANGED <<released, topics>>

RefuseReservation(a) ==
  /\ attempts[a].inventory = "asked"
  /\ \/ stock < attempts[a].asked
        /\ attempts' = [attempts EXCEPT ![a].inventory = "refused"] /\ UNCHANGED used
     \/ attempts' = [attempts EXCEPT ![a].inventory = "failed"] /\ Fault
  /\ InventoryUnchanged /\ UNCHANGED <<stock, released, topics>>

(* Mutant: no key is looked for.                                           *)
Release_NoKey(t) ==
  /\ topics[t] # <<>>
  /\ stock' = stock + Head(topics[t]).units
  /\ released' = released \cup {Head(topics[t]).id}
  /\ topics' = [topics EXCEPT ![t] = Tail(@)]
  /\ InventoryUnchanged /\ UNCHANGED <<attempts, used>>

(* RELEASE_STOCK_SCRIPT, and the message is done.                          *)
Release(t) ==
  /\ topics[t] # <<>>
  /\ LET message == Head(topics[t])
     IN  /\ stock' = IF message.id \in released THEN stock ELSE stock + message.units
         /\ released' = released \cup {message.id}
  /\ topics' = [topics EXCEPT ![t] = Tail(@)]
  /\ InventoryUnchanged /\ UNCHANGED <<attempts, used>>

ReleaseFailed == Release("failed")
ReleaseCanceled == Release("canceled")

-----------------------------------------------------------------------------
(* The order service.                                                      *)

Message(id, units) == [id |-> id, units |-> units]
OrderUnchanged == UNCHANGED <<stock, released, payments, ledger, payers>>

FindDraft(a) ==
  /\ attempts[a].orderService = "asked"
  /\ \E id \in Drafts :
       attempts' = [attempts EXCEPT ![a].orderService = "found", ![a].order = id]
  /\ OrderUnchanged /\ UNCHANGED <<orders, topics, seen, used>>

(* The failure is recorded where it is noticed and again in the catch.     *)
NoDraft(a) ==
  /\ attempts[a].orderService = "asked"
  /\ Drafts = {}
  /\ attempts' = [attempts EXCEPT ![a].orderService = "failed"]
  /\ topics' = [topics EXCEPT !.failed = @ \o <<Message(Null, attempts[a].asked),
                                               Message(Null, attempts[a].asked)>>]
  /\ OrderUnchanged /\ UNCHANGED <<orders, seen, used>>

(* The draft found is updated by its id, whatever it is by now.            *)
PlaceOrder(a) ==
  LET id == attempts[a].order
  IN  /\ attempts[a].orderService = "found"
      /\ attempts' = [attempts EXCEPT ![a].orderService = "placed"]
      /\ orders' = [orders EXCEPT ![id].status = "PENDING"]
      /\ topics' = [topics EXCEPT !.checkout = Append(@, id)]
      /\ OrderUnchanged /\ UNCHANGED <<seen, used>>

(* The transaction is rolled back: the report names the order if its       *)
(* update had succeeded, and the items of the request.                     *)
RollBack(a) ==
  /\ attempts[a].orderService \in {"asked", "found"}
  /\ Fault
  /\ \E id \in {Null, attempts[a].order} :
       /\ attempts' = [attempts EXCEPT ![a].orderService = "failed", ![a].order = id]
       /\ topics' = [topics EXCEPT !.failed = Append(@, Message(id, attempts[a].asked))]
  /\ OrderUnchanged /\ UNCHANGED <<orders, seen>>

(* The order database is gone, or goes between the search and the report:  *)
(* nothing is placed, and neither the report made where no draft is found  *)
(* nor the one of the catch can be written.                                *)
ReportFails(a) ==
  /\ attempts[a].orderService \in {"asked", "found"}
  /\ Fault
  /\ attempts' = [attempts EXCEPT ![a].orderService = "silent", ![a].order = Null]
  /\ OrderUnchanged /\ UNCHANGED <<orders, topics, seen>>

(* Mutant: the cancellation is not announced.                              *)
HandleOutcome_NoEvent(t) ==
  /\ \E i \in Rows(t) :
       LET id == ledger[i].order
       IN  /\ Cardinality({j \in Rows(t) : j < i}) = seen[t]
           /\ orders[id].status = "PENDING"
           /\ orders' = [orders EXCEPT ![id].status =
                IF t = "payment.successed" THEN "CONFIRMED" ELSE "CANCELED"]
  /\ seen' = [seen EXCEPT ![t] = @ + 1]
  /\ OrderUnchanged /\ UNCHANGED <<attempts, topics, used>>

(* A payment outcome is taken only while the order is PENDING; any other   *)
(* time the update throws and the message stays where it is.               *)
HandleOutcome(t) ==
  /\ \E i \in Rows(t) :
       LET id == ledger[i].order
       IN  /\ Cardinality({j \in Rows(t) : j < i}) = seen[t]
           /\ orders[id].status = "PENDING"
           /\ \/ /\ t = "payment.successed"
                 /\ orders' = [orders EXCEPT ![id].status = "CONFIRMED"]
                 /\ UNCHANGED topics
              \/ /\ t = "payment.canceled"
                 /\ orders' = [orders EXCEPT ![id].status = "CANCELED"]
                 /\ topics' = [topics EXCEPT !.canceled = Append(@, Message(id, orders[id].rows))]
  /\ seen' = [seen EXCEPT ![t] = @ + 1]
  /\ OrderUnchanged /\ UNCHANGED <<attempts, used>>

-----------------------------------------------------------------------------
(* The payment service.                                                    *)

PaymentUnchanged == UNCHANGED <<attempts, stock, released, orders, seen>>

(* Mutant: an upsert instead of a create.                                  *)
CreatePayment_Upsert ==
  /\ topics.checkout # <<>>
  /\ payments' = [payments EXCEPT ![Head(topics.checkout)] = "PENDING"]
  /\ topics' = [topics EXCEPT !.checkout = Tail(@)]
  /\ PaymentUnchanged /\ UNCHANGED <<ledger, payers, used>>

(* A second message of an order fails on the unique orderId and stays.     *)
CreatePayment ==
  /\ topics.checkout # <<>>
  /\ payments[Head(topics.checkout)] = "none"
  /\ payments' = [payments EXCEPT ![Head(topics.checkout)] = "PENDING"]
  /\ topics' = [topics EXCEPT !.checkout = Tail(@)]
  /\ PaymentUnchanged /\ UNCHANGED <<ledger, payers, used>>

(* Mutant: the outbox row is forgotten.                                    *)
Announce_NoOutboxRow(id, outcome) ==
  payments' = [payments EXCEPT ![id] = outcome] /\ UNCHANGED ledger

Announce(id, outcome) ==
  /\ payments' = [payments EXCEPT ![id] = outcome]
  /\ ledger' = Append(ledger, Ledger!Announcement(outcome, id))

(* Mutant: the update is not conditional.                                  *)
Expire_AnyStatus(id) ==
  /\ payments[id] # "none"
  /\ Announce(id, "EXPIRED")
  /\ PaymentUnchanged /\ UNCHANGED <<topics, payers, used>>

Expire(id) ==
  /\ payments[id] = "PENDING"
  /\ Announce(id, "EXPIRED")
  /\ PaymentUnchanged /\ UNCHANGED <<topics, payers, used>>

(* Mutant: the transaction is not waited for, and lost.                    *)
ReadPayment_NotAwaited(p, route, id) ==
  /\ payers[p].pc = "idle"
  /\ payers' = [payers EXCEPT ![p] =
       [pc |-> "answered", route |-> route, order |-> id, read |-> payments[id],
        answer |-> Created(<<"payment", route>>)]]
  /\ PaymentUnchanged /\ UNCHANGED <<topics, payments, ledger, used>>

(* A request reads the payment; one that is not PENDING is "processed      *)
(* successfully" without being touched.                                    *)
ReadPayment(p, route, id) ==
  LET pending == payments[id] = "PENDING"
  IN  /\ payers[p].pc = "idle"
      /\ payers' = [payers EXCEPT ![p] =
           [pc |-> IF pending THEN "commit" ELSE "answered", route |-> route, order |-> id,
            read |-> payments[id],
            answer |-> IF pending THEN 0 ELSE Created(<<"payment", route>>)]]
      /\ PaymentUnchanged /\ UNCHANGED <<topics, payments, ledger, used>>

(* The two success routes make the same call.                              *)
OutcomeOf(route) ==
  IF PaymentCalls[route].rpcs = <<"paymentSuccessed">> THEN "SUCCESS" ELSE "FAILED"

(* The transaction updates by orderId alone.                               *)
CommitPayment(p) ==
  /\ payers[p].pc = "commit"
  /\ payers' = [payers EXCEPT ![p].pc = "unschedule"]
  /\ Announce(payers[p].order, OutcomeOf(payers[p].route))
  /\ PaymentUnchanged /\ UNCHANGED <<topics, used>>

AnswerPayer(p) ==
  /\ payers[p].pc = "unschedule"
  /\ payers' = [payers EXCEPT ![p].pc = "answered",
                              ![p].answer = Created(<<"payment", payers[p].route>>)]
  /\ PaymentUnchanged /\ UNCHANGED <<topics, payments, ledger, used>>

(* The transaction fails; or removeTimeoutJob does, as when the worker has *)
(* locked the job, after the outcome is committed.                         *)
PayerFails(p) ==
  /\ payers[p].pc \in {"commit", "unschedule"}
  /\ Fault
  /\ \E thrown \in Thrown.payment :
       payers' = [payers EXCEPT ![p].pc = "answered", ![p].answer = ErrorAnswer(OverGrpc(thrown))]
  /\ PaymentUnchanged /\ UNCHANGED <<topics, payments, ledger>>

-----------------------------------------------------------------------------
GatewayStep(a) == AskOrder(a) \/ Refuse(a) \/ Confirm(a)
ServiceStep(a) ==
  \/ Reserve(a) \/ RefuseReservation(a)
  \/ FindDraft(a) \/ NoDraft(a) \/ PlaceOrder(a) \/ RollBack(a) \/ ReportFails(a)
PayerStep(p) == CommitPayment(p) \/ AnswerPayer(p) \/ PayerFails(p)

Next ==
  \/ \E a \in Attempts :
       \/ \E units \in Quantities : AskReservation(a, units)
       \/ GatewayStep(a)
       \/ GiveUp(a)
       \/ ServiceStep(a)
  \/ ReleaseFailed
  \/ ReleaseCanceled
  \/ \E t \in Outcomes : HandleOutcome(t)
  \/ CreatePayment
  \/ \E id \in OrderIds : Expire(id)
  \/ \E p \in Payers :
       \/ \E route \in DOMAIN PaymentVerbs, id \in OrderIds : ReadPayment(p, route, id)
       \/ PayerStep(p)

Spec == Init /\ [][Next]_vars

(* Clients may never come; what has come is served, every consumer reads   *)
(* on, and every timer fires.  Nothing obliges the gateway to give up.     *)
FairSpec ==
  /\ Spec
  /\ \A a \in Attempts : WF_vars(GatewayStep(a)) /\ WF_vars(ServiceStep(a))
  /\ WF_vars(ReleaseFailed) /\ WF_vars(ReleaseCanceled)
  /\ \A t \in Outcomes : WF_vars(HandleOutcome(t))
  /\ WF_vars(CreatePayment)
  /\ \A id \in OrderIds : WF_vars(Expire(id))
  /\ \A p \in Payers : WF_vars(PayerStep(p))

-----------------------------------------------------------------------------
(* What a client is told of a checkout is so: placed, out of stock with    *)
(* nothing reserved, or failed with nothing placed, now or later.  Only a  *)
(* 408 leaves the outcome open.                                            *)
AnswersAreTrue ==
  \A a \in Attempts :
    /\ attempts[a].answer = 201 => attempts[a].orderService = "placed"
    /\ attempts[a].answer = 400 => attempts[a].inventory = "refused"
    /\ attempts[a].answer = 502 => attempts[a].orderService \in {"idle", "failed", "silent"}

Placed == {a \in Attempts : attempts[a].orderService = "placed"}
Asked(S) == MapThenSumSet(LAMBDA a : attempts[a].asked, S)
Listed(S) == MapThenSumSet(LAMBDA a : orders[attempts[a].order].rows, S)
Sold ==
  MapThenSumSet(LAMBDA id : IF orders[id].status \in {"PENDING", "CONFIRMED"}
                            THEN orders[id].rows ELSE 0, OrderIds)

(* The units in stock and in orders are those there were, but for what the *)
(* rows of the placed orders list beyond, or short of, what was reserved   *)
(* for them: reservation and rows come from different requests.            *)
Expected == Stock + Listed(Placed) - Asked(Placed)
SoldWithinStock == stock + Sold <= Expected

(* A checkout whose units may not come back: the inventory database failed *)
(* after the script, the order database failed so that the failure could   *)
(* not be reported either, the gateway gave up, or another checkout had    *)
(* the same order id, or also none, so that one key or one order stands    *)
(* for both.                                                               *)
Excused(a) ==
  \/ attempts[a].inventory = "leaked"
  \/ attempts[a].orderService = "silent"
  \/ attempts[a].answer = 408
  \/ \E b \in Attempts \ {a} :
       attempts[b].orderService \in {"placed", "failed"} /\ attempts[b].order = attempts[a].order

Reserved == {a \in Attempts : attempts[a].inventory \in {"reserved", "leaked"}}
Quiet ==
  /\ \A a \in Reserved :
       \/ attempts[a].orderService \in {"placed", "failed", "silent"}
       \/ attempts[a].orderService = "idle" /\ attempts[a].gateway = "answered"
       \/ attempts[a].inventory = "leaked"
  /\ topics.failed = <<>> /\ topics.canceled = <<>>

AtRisk(a) ==
  Max({attempts[a].asked} \cup {orders[id].rows : id \in OrderIds \cap {attempts[a].order}})

(* When nothing is under way, the units that are missing are at most those *)
(* such checkouts asked for, or those the rows of their orders list.       *)
UnitsComeBack ==
  Quiet =>
    Expected - (stock + Sold) <= MapThenSumSet(AtRisk, {a \in Reserved : Excused(a)})

(* The order service and the payment service tell the same, unless two     *)
(* outcomes of one payment were announced: they come by different topics,  *)
(* and the order keeps whichever is read first.                            *)
Announced(id) == {i \in DOMAIN ledger : ledger[i].order = id}
Overruled(id) == Cardinality(Announced(id)) > 1
Reopened(id) ==
  \E a, b \in Attempts : a # b /\ attempts[a].order = id /\ attempts[b].order = id

Agreement ==
  \A id \in OrderIds :
    /\ orders[id].status = "CONFIRMED" /\ ~ Overruled(id) => payments[id] = "SUCCESS"
    /\ orders[id].status = "CANCELED" /\ ~ Overruled(id) => payments[id] \in {"FAILED", "EXPIRED"}

(* A payment request that is answered 201 leaves the payment settled,      *)
(* except when it comes before the payment service has read order.checkout:*)
(* the client is told the same, nothing is recorded, and the timer will    *)
(* cancel the order.                                                       *)
SettledWhenAnswered ==
  \A p \in Payers : payers[p].answer = 201 =>
    payers[p].read = "none" \/ payments[payers[p].order] \in {"SUCCESS", "FAILED", "EXPIRED"}

(* What the saga does to payments and their outcomes, PaymentLedger        *)
(* allows, as the payment service by itself does.                          *)
SagaRefinesLedger == Ledger!LedgerSpec

(* Every placed order is settled in the end, unless some order was placed  *)
(* twice or some payment announced twice: the message that nobody can      *)
(* handle then keeps everything behind it.                                 *)
CheckoutEnds ==
  \A id \in OrderIds :
    orders[id].status = "PENDING" ~>
      \/ orders[id].status \in {"CONFIRMED", "CANCELED"}
      \/ \E other \in OrderIds : Overruled(other) \/ Reopened(other)
=============================================================================
