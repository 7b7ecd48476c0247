------------------------- MODULE CheckoutStockProofs -------------------------
(***************************************************************************)
(* What becomes of units and outcomes in a checkout, for every number of   *)
(* requests and orders, any carts and stock, and every bound: what is sold *)
(* was in stock, what is not sold comes back, and the order service and    *)
(* the payment service tell the same.                                      *)
(***************************************************************************)
EXTENDS CheckoutProofs, SumLemmas

-----------------------------------------------------------------------------
(* Types, and what a step does to a checkout.                              *)

(* What orders, messages, announcements and the topics are.                *)
OrderStates ==
  [status : {"none", "DRAFT", "PENDING", "CONFIRMED", "CANCELED"}, rows : Quantities \cup {0}]
Messages == [id : OrderIds \cup {Null}, units : Quantities \cup {0}]
Announcements == [topic : Outcomes, order : OrderIds]
Topics == [checkout : Seq(OrderIds), canceled : Seq(Messages), failed : Seq(Messages)]

(* The types the steps keep. The stock is an integer here: that it does    *)
(* not fall below 0 is part of the promise further down.                   *)
Typed ==
  /\ attempts \in [Attempts -> AttemptStates]
  /\ orders \in [OrderIds -> OrderStates]
  /\ topics \in Topics
  /\ released \subseteq OrderIds \cup {Null}
  /\ stock \in Int
  /\ ledger \in Seq(Announcements)

(* Checkout a comes to this state, and no other moves.                     *)
Moves(a, gateway, inventory, orderService, asked, order, answer) ==
  /\ attempts' \in [Attempts -> AttemptStates]
  /\ \A b \in Attempts \ {a} : attempts'[b] = attempts[b]
  /\ attempts'[a].gateway = gateway /\ attempts'[a].inventory = inventory
  /\ attempts'[a].orderService = orderService /\ attempts'[a].asked = asked
  /\ attempts'[a].order = order /\ attempts'[a].answer = answer

(* A checkout request arrives.                                             *)
LEMMA AskReservationMoves ==
  ASSUME Typed, NEW a \in Attempts, NEW units \in Quantities,
         AskReservation(a, units)
  PROVE  Moves(a, "reserving", "asked", attempts[a].orderService, units, attempts[a].order, attempts[a].answer)
<1> DEFINE r == attempts[a]
           r1 == [r EXCEPT !.gateway = "reserving"]
           r2 == [r1 EXCEPT !.inventory = "asked"]
           new == [r2 EXCEPT !.asked = units]
<1>1. r \in AttemptStates
  BY DEF Typed
<1>2. attempts = [b \in Attempts |-> attempts[b]]
  BY DEF Typed
<1>3. attempts' = [attempts EXCEPT ![a] = [r EXCEPT !.gateway = "reserving", !.inventory = "asked", !.asked = units]]
  BY <1>2 DEF AskReservation
<1>4. [r EXCEPT !.gateway = "reserving", !.inventory = "asked", !.asked = units] = new
  BY <1>1 DEF AttemptStates
<1>5. new \in AttemptStates
  <2>1. r1 \in AttemptStates
    BY <1>1 DEF AttemptStates
  <2> HIDE DEF r1
  <2>2. r2 \in AttemptStates
    BY <2>1 DEF AttemptStates
  <2> HIDE DEF r2
  <2> QED BY <2>2 DEF AttemptStates
<1>6. DOMAIN r = {"gateway", "inventory", "orderService", "asked", "order", "answer"}
  BY <1>1 DEF AttemptStates
<1>7. /\ new.gateway = "reserving" /\ new.inventory = "asked" /\ new.orderService = r.orderService
      /\ new.asked = units /\ new.order = r.order /\ new.answer = r.answer
  BY <1>6
<1> HIDE DEF new
<1> QED BY <1>3, <1>4, <1>5, <1>7 DEF Typed, Moves

(* The gateway goes on to the order service.                               *)
LEMMA AskOrderMoves ==
  ASSUME Typed, NEW a \in Attempts,
         AskOrder(a)
  PROVE  Moves(a, "ordering", attempts[a].inventory, "asked", attempts[a].asked, attempts[a].order, attempts[a].answer)
<1> DEFINE r == attempts[a]
           r1 == [r EXCEPT !.gateway = "ordering"]
           new == [r1 EXCEPT !.orderService = "asked"]
<1>1. r \in AttemptStates
  BY DEF Typed
<1>2. attempts = [b \in Attempts |-> attempts[b]]
  BY DEF Typed
<1>3. attempts' = [attempts EXCEPT ![a] = [r EXCEPT !.gateway = "ordering", !.orderService = "asked"]]
  BY <1>2 DEF AskOrder
<1>4. [r EXCEPT !.gateway = "ordering", !.orderService = "asked"] = new
  BY <1>1 DEF AttemptStates
<1>5. new \in AttemptStates
  <2>1. r1 \in AttemptStates
    BY <1>1 DEF AttemptStates
  <2> HIDE DEF r1
  <2> QED BY <2>1 DEF AttemptStates
<1>6. DOMAIN r = {"gateway", "inventory", "orderService", "asked", "order", "answer"}
  BY <1>1 DEF AttemptStates
<1>7. /\ new.gateway = "ordering" /\ new.inventory = r.inventory /\ new.orderService = "asked"
      /\ new.asked = r.asked /\ new.order = r.order /\ new.answer = r.answer
  BY <1>6
<1> HIDE DEF new
<1> QED BY <1>3, <1>4, <1>5, <1>7 DEF Typed, Moves

(* The gateway answers.                                                    *)
LEMMA AnswerMoves ==
  ASSUME Typed, NEW a \in Attempts, NEW status \in {201, 400, 408, 502},
         Answer(a, status)
  PROVE  Moves(a, "answered", attempts[a].inventory, attempts[a].orderService, attempts[a].asked, attempts[a].order, status)
<1> DEFINE r == attempts[a]
           r1 == [r EXCEPT !.gateway = "answered"]
           new == [r1 EXCEPT !.answer = status]
<1>1. r \in AttemptStates
  BY DEF Typed
<1>2. attempts = [b \in Attempts |-> attempts[b]]
  BY DEF Typed
<1>3. attempts' = [attempts EXCEPT ![a] = [r EXCEPT !.gateway = "answered", !.answer = status]]
  BY <1>2 DEF Answer
<1>4. [r EXCEPT !.gateway = "answered", !.answer = status] = new
  BY <1>1 DEF AttemptStates
<1>5. new \in AttemptStates
  <2>1. r1 \in AttemptStates
    BY <1>1 DEF AttemptStates
  <2> HIDE DEF r1
  <2> QED BY <2>1 DEF AttemptStates
<1>6. DOMAIN r = {"gateway", "inventory", "orderService", "asked", "order", "answer"}
  BY <1>1 DEF AttemptStates
<1>7. /\ new.gateway = "answered" /\ new.inventory = r.inventory /\ new.orderService = r.orderService
      /\ new.asked = r.asked /\ new.order = r.order /\ new.answer = status
  BY <1>6
<1> HIDE DEF new
<1> QED BY <1>3, <1>4, <1>5, <1>7 DEF Typed, Moves

(* The inventory service comes to a result.                                *)
LEMMA InventoryMoves ==
  ASSUME Typed, NEW a \in Attempts, NEW result \in {"reserved", "refused", "failed", "leaked"},
         attempts' = [attempts EXCEPT ![a].inventory = result]
  PROVE  Moves(a, attempts[a].gateway, result, attempts[a].orderService, attempts[a].asked, attempts[a].order, attempts[a].answer)
<1> DEFINE r == attempts[a]
           new == [r EXCEPT !.inventory = result]
<1>1. r \in AttemptStates
  BY DEF Typed
<1>2. attempts = [b \in Attempts |-> attempts[b]]
  BY DEF Typed
<1>3. attempts' = [attempts EXCEPT ![a] = [r EXCEPT !.inventory = result]]
  BY <1>2
<1>4. [r EXCEPT !.inventory = result] = new
  BY <1>1 DEF AttemptStates
<1>5. new \in AttemptStates
  BY <1>1 DEF AttemptStates
<1>6. DOMAIN r = {"gateway", "inventory", "orderService", "asked", "order", "answer"}
  BY <1>1 DEF AttemptStates
<1>7. /\ new.gateway = r.gateway /\ new.inventory = result /\ new.orderService = r.orderService
      /\ new.asked = r.asked /\ new.order = r.order /\ new.answer = r.answer
  BY <1>6
<1> HIDE DEF new
<1> QED BY <1>3, <1>4, <1>5, <1>7 DEF Typed, Moves

(* The order service comes to a result.                                    *)
LEMMA OrderServiceMoves ==
  ASSUME Typed, NEW a \in Attempts, NEW result \in {"placed", "failed"},
         attempts' = [attempts EXCEPT ![a].orderService = result]
  PROVE  Moves(a, attempts[a].gateway, attempts[a].inventory, result, attempts[a].asked, attempts[a].order, attempts[a].answer)
<1> DEFINE r == attempts[a]
           new == [r EXCEPT !.orderService = result]
<1>1. r \in AttemptStates
  BY DEF Typed
<1>2. attempts = [b \in Attempts |-> attempts[b]]
  BY DEF Typed
<1>3. attempts' = [attempts EXCEPT ![a] = [r EXCEPT !.orderService = result]]
  BY <1>2
<1>4. [r EXCEPT !.orderService = result] = new
  BY <1>1 DEF AttemptStates
<1>5. new \in AttemptStates
  BY <1>1 DEF AttemptStates
<1>6. DOMAIN r = {"gateway", "inventory", "orderService", "asked", "order", "answer"}
  BY <1>1 DEF AttemptStates
<1>7. /\ new.gateway = r.gateway /\ new.inventory = r.inventory /\ new.orderService = result
      /\ new.asked = r.asked /\ new.order = r.order /\ new.answer = r.answer
  BY <1>6
<1> HIDE DEF new
<1> QED BY <1>3, <1>4, <1>5, <1>7 DEF Typed, Moves

(* The order service finds a draft, or gives it up.                        *)
LEMMA OrderMoves ==
  ASSUME Typed, NEW a \in Attempts, NEW result \in {"found", "failed", "silent"},
         NEW id \in OrderIds \cup {Null},
         attempts' = [attempts EXCEPT ![a].orderService = result, ![a].order = id]
  PROVE  Moves(a, attempts[a].gateway, attempts[a].inventory, result, attempts[a].asked, id, attempts[a].answer)
<1> DEFINE r == attempts[a]
           r1 == [r EXCEPT !.orderService = result]
           new == [r1 EXCEPT !.order = id]
<1>1. r \in AttemptStates
  BY DEF Typed
<1>2. attempts = [b \in Attempts |-> attempts[b]]
  BY DEF Typed
<1>3. attempts' = [attempts EXCEPT ![a] = [r EXCEPT !.orderService = result, !.order = id]]
  BY <1>2
<1>4. [r EXCEPT !.orderService = result, !.order = id] = new
  BY <1>1 DEF AttemptStates
<1>5. new \in AttemptStates
  <2>1. r1 \in AttemptStates
    BY <1>1 DEF AttemptStates
  <2> HIDE DEF r1
  <2> QED BY <2>1 DEF AttemptStates
<1>6. DOMAIN r = {"gateway", "inventory", "orderService", "asked", "order", "answer"}
  BY <1>1 DEF AttemptStates
<1>7. /\ new.gateway = r.gateway /\ new.inventory = r.inventory /\ new.orderService = result
      /\ new.asked = r.asked /\ new.order = id /\ new.answer = r.answer
  BY <1>6
<1> HIDE DEF new
<1> QED BY <1>3, <1>4, <1>5, <1>7 DEF Typed, Moves

-----------------------------------------------------------------------------
(* The types are kept.                                                     *)

(* What a reservation's id may be, and what it may ask for.                *)
Keys == OrderIds \cup {Null}
Units == Quantities \cup {0}

(* A message more is a topic still.                                        *)
LEMMA Published ==
  ASSUME Typed, NEW id \in Keys, NEW units \in Units
  PROVE  /\ Message(id, units) \in Messages
         /\ [topics EXCEPT !.failed = Append(@, Message(id, units))] \in Topics
         /\ [topics EXCEPT !.canceled = Append(@, Message(id, units))] \in Topics
         /\ [topics EXCEPT !.failed = @ \o <<Message(id, units), Message(id, units)>>] \in Topics
<1> DEFINE m == Message(id, units)
<1>1. m \in Messages
  BY DEF Message, Messages, Keys, Units
<1>2. topics \in Topics /\ topics.failed \in Seq(Messages) /\ topics.canceled \in Seq(Messages)
  BY DEF Typed, Topics
<1> HIDE DEF m
<1>3. /\ Append(topics.failed, m) \in Seq(Messages) /\ Append(topics.canceled, m) \in Seq(Messages)
      /\ topics.failed \o <<m, m>> \in Seq(Messages)
  BY <1>1, <1>2
<1>4. /\ [topics EXCEPT !.failed = Append(@, m)] \in Topics
      /\ [topics EXCEPT !.canceled = Append(@, m)] \in Topics
      /\ [topics EXCEPT !.failed = @ \o <<m, m>>] \in Topics
  BY <1>2, <1>3 DEF Topics
<1> QED BY <1>1, <1>4 DEF m

(* A checkout asks for units of a client.                                  *)
LEMMA AskedUnits ==
  ASSUME Typed, NEW a \in Attempts
  PROVE  /\ attempts[a].asked \in Units /\ attempts[a].asked \in Nat
         /\ attempts[a].order \in Keys
         /\ attempts[a] \in AttemptStates
<1>1. attempts[a] \in AttemptStates
  BY DEF Typed
<1>2. attempts[a].asked \in Units /\ attempts[a].order \in Keys
  BY <1>1 DEF AttemptStates, Units, Keys
<1>3. Units \subseteq Nat
  BY QuantitiesAssumption DEF Units
<1> QED BY <1>1, <1>2, <1>3

(* The gateway's steps.                                                    *)
LEMMA GatewayMoves ==
  ASSUME IInv, Typed, NEW a \in Attempts, Refuse(a) \/ Confirm(a) \/ GiveUp(a)
  PROVE  /\ \E status \in {201, 400, 408, 502} : Answer(a, status) /\ (GiveUp(a) => status = 408)
         /\ GatewayUnchanged
  BY Answers, FailureAnswers DEF Refuse, Confirm, GiveUp

(* No order is asked for without a reservation; a checkout that is over    *)
(* without one having been asked for was given up; it has an order when    *)
(* one was found.                                                          *)
Started(r) ==
  /\ r.orderService # "idle" => r.inventory = "reserved"
  /\ r.gateway = "ordering" => r.orderService # "idle"
  /\ r.gateway = "answered" /\ r.orderService = "idle" /\ r.inventory \in {"asked", "reserved"} =>
       r.answer = 408
  /\ r.orderService \in {"found", "placed"} => r.order \in OrderIds
  /\ r.orderService \in {"idle", "asked"} => r.order = Null

(* What a step of a checkout makes of the other parts of the system.       *)
LEMMA AttemptTyped ==
  ASSUME IInv, Typed, NEW a \in Attempts, Started(attempts[a]),
         \/ \E units \in Quantities : AskReservation(a, units)
         \/ GatewayStep(a)
         \/ GiveUp(a)
         \/ ServiceStep(a)
  PROVE  Typed' /\ Started(attempts[a])' /\ \A b \in Attempts \ {a} : attempts'[b] = attempts[b]
<1> DEFINE Kept == Typed' /\ Started(attempts[a])' /\ \A b \in Attempts \ {a} : attempts'[b] = attempts[b]
           r == attempts[a]
<1>0. InStep(attempts[a])
  BY DEF IInv
<1>k. r.asked \in Units /\ r.asked \in Nat /\ r.order \in Keys
  BY AskedUnits
<1>1. ASSUME NEW units \in Quantities, AskReservation(a, units) PROVE Kept
  <2>1. Moves(a, "reserving", "asked", r.orderService, units, r.order, r.answer)
    BY <1>1, AskReservationMoves
  <2>2. Started(attempts[a])'
    BY <1>0, <1>1, <2>1 DEF Started, Moves, InStep, AskReservation
  <2> QED BY <1>1, <2>1, <2>2 DEF Typed, Moves, AskReservation, GatewayUnchanged
<1>2. CASE AskOrder(a)
  <2>1. Moves(a, "ordering", r.inventory, "asked", r.asked, r.order, r.answer)
    BY <1>2, AskOrderMoves
  <2>2. Started(attempts[a])'
    BY <1>0, <1>2, <2>1 DEF Started, Moves, InStep, AskOrder
  <2> QED BY <1>2, <2>1, <2>2 DEF Typed, Moves, AskOrder, GatewayUnchanged
<1>3. CASE Refuse(a) \/ Confirm(a) \/ GiveUp(a)
  <2>1. PICK status \in {201, 400, 408, 502} : Answer(a, status) /\ (GiveUp(a) => status = 408)
    BY <1>3, GatewayMoves
  <2>2. Moves(a, "answered", r.inventory, r.orderService, r.asked, r.order, status)
    BY <2>1, AnswerMoves
  <2>3. GatewayUnchanged
    BY <1>3, GatewayMoves
  <2>4. CASE Refuse(a) \/ Confirm(a)
    <3>1. r.orderService = "idle" => r.inventory \notin {"asked", "reserved"}
      BY <2>4 DEF Refuse, Confirm, Started
    <3>2. Started(attempts[a])'
      BY <3>1, <2>2 DEF Started, Moves
    <3> QED BY <2>2, <2>3, <3>2 DEF Typed, Moves, GatewayUnchanged
  <2>5. CASE GiveUp(a)
    <3>1. Started(attempts[a])'
      BY <2>1, <2>2, <2>5 DEF Started, Moves
    <3> QED BY <2>2, <2>3, <3>1 DEF Typed, Moves, GatewayUnchanged
  <2> QED BY <1>3, <2>4, <2>5
<1>4. CASE Reserve(a) \/ RefuseReservation(a)
  <2>1. PICK result \in {"reserved", "refused", "failed", "leaked"} :
          attempts' = [attempts EXCEPT ![a].inventory = result]
    BY <1>4 DEF Reserve, RefuseReservation
  <2>2. Moves(a, r.gateway, result, r.orderService, r.asked, r.order, r.answer)
    BY <2>1, InventoryMoves
  <2>3. r.inventory = "asked" /\ r.orderService = "idle"
    BY <1>4 DEF Reserve, RefuseReservation, Started
  <2>4. Started(attempts[a])'
    BY <2>2, <2>3 DEF Started, Moves
  <2>5. stock' \in Int
    BY <1>4, <1>k DEF Reserve, RefuseReservation, Typed
  <2> QED BY <1>4, <2>2, <2>4, <2>5 DEF Typed, Moves, Reserve, RefuseReservation, InventoryUnchanged
<1>5. CASE FindDraft(a)
  <2>1. PICK id \in OrderIds : attempts' = [attempts EXCEPT ![a].orderService = "found", ![a].order = id]
    BY <1>5 DEF FindDraft, Drafts
  <2>2. Moves(a, r.gateway, r.inventory, "found", r.asked, id, r.answer)
    BY <2>1, OrderMoves
  <2>3. Started(attempts[a])'
    BY <1>5, <2>2 DEF Started, Moves, FindDraft
  <2> QED BY <1>5, <2>2, <2>3 DEF Typed, Moves, FindDraft, OrderUnchanged
<1>6. CASE NoDraft(a)
  <2>1. Moves(a, r.gateway, r.inventory, "failed", r.asked, r.order, r.answer)
    BY <1>6, OrderServiceMoves DEF NoDraft
  <2>2. Started(attempts[a])'
    BY <1>6, <2>1 DEF Started, Moves, NoDraft
  <2>3. topics' \in Topics
    BY <1>6, <1>k, Published DEF NoDraft, Keys
  <2> QED BY <1>6, <2>1, <2>2, <2>3 DEF Typed, Moves, NoDraft, OrderUnchanged
<1>7. CASE PlaceOrder(a)
  <2>1. Moves(a, r.gateway, r.inventory, "placed", r.asked, r.order, r.answer)
    BY <1>7, OrderServiceMoves DEF PlaceOrder
  <2>2. Started(attempts[a])' /\ r.order \in OrderIds
    BY <1>7, <2>1 DEF Started, Moves, PlaceOrder
  <2>3. orders' \in [OrderIds -> OrderStates]
    BY <1>7, <2>2 DEF PlaceOrder, Typed, OrderStates
  <2>4. topics' \in Topics
    <3>1. topics \in Topics /\ Append(topics.checkout, r.order) \in Seq(OrderIds)
      BY <2>2 DEF Typed, Topics
    <3> QED BY <1>7, <3>1 DEF PlaceOrder, Topics
  <2> QED BY <1>7, <2>1, <2>2, <2>3, <2>4 DEF Typed, Moves, PlaceOrder, OrderUnchanged
<1>8. CASE RollBack(a)
  <2>1. PICK id \in {Null, r.order} :
          /\ attempts' = [attempts EXCEPT ![a].orderService = "failed", ![a].order = id]
          /\ topics' = [topics EXCEPT !.failed = Append(@, Message(id, r.asked))]
    BY <1>8 DEF RollBack
  <2>2. id \in Keys
    BY <1>k DEF Keys
  <2>3. Moves(a, r.gateway, r.inventory, "failed", r.asked, id, r.answer)
    BY <2>1, <2>2, OrderMoves DEF Keys
  <2>4. Started(attempts[a])'
    BY <1>8, <2>3 DEF Started, Moves, RollBack
  <2>5. topics' \in Topics
    BY <2>1, <2>2, <1>k, Published
  <2> QED BY <1>8, <2>3, <2>4, <2>5 DEF Typed, Moves, RollBack, OrderUnchanged
<1>9. CASE ReportFails(a)
  <2>1. attempts' = [attempts EXCEPT ![a].orderService = "silent", ![a].order = Null]
    BY <1>9 DEF ReportFails
  <2>2. Moves(a, r.gateway, r.inventory, "silent", r.asked, Null, r.answer)
    BY <2>1, OrderMoves
  <2>3. Started(attempts[a])'
    BY <1>9, <2>2 DEF Started, Moves, ReportFails
  <2> QED BY <1>9, <2>2, <2>3 DEF Typed, Moves, ReportFails, OrderUnchanged
<1> QED BY <1>1, <1>2, <1>3, <1>4, <1>5, <1>6, <1>7, <1>8, <1>9 DEF GatewayStep, ServiceStep

(* An outcome is of a PENDING order and ends it as its topic says.         *)
Confirms(id) ==
  /\ orders' = [orders EXCEPT ![id].status = "CONFIRMED"]
  /\ UNCHANGED topics
Cancels(id) ==
  /\ orders' = [orders EXCEPT ![id].status = "CANCELED"]
  /\ topics' = [topics EXCEPT !.canceled = Append(@, Message(id, orders[id].rows))]
(* The order service reads the next outcome of a topic, of a PENDING order. *)
LEMMA OutcomeHandled ==
  ASSUME Typed, NEW t \in Outcomes, HandleOutcome(t)
  PROVE  \E i \in Rows(t) :
           /\ Cardinality({j \in Rows(t) : j < i}) = seen[t]
           /\ ledger[i].order \in OrderIds /\ orders[ledger[i].order].status = "PENDING"
           /\ \/ t = "payment.successed" /\ Confirms(ledger[i].order)
              \/ t = "payment.canceled" /\ Cancels(ledger[i].order)
<1>1. PICK i \in Rows(t) :
        /\ Cardinality({j \in Rows(t) : j < i}) = seen[t]
        /\ orders[ledger[i].order].status = "PENDING"
        /\ \/ t = "payment.successed" /\ Confirms(ledger[i].order)
           \/ t = "payment.canceled" /\ Cancels(ledger[i].order)
  BY DEF HandleOutcome, Confirms, Cancels
<1>2. ledger \in Seq(Announcements) /\ i \in DOMAIN ledger
  BY DEF Typed, Rows
<1>3. ledger[i] \in Announcements
  BY <1>2, ElementOfSeq
<1>4. ledger[i].order \in OrderIds
  BY <1>3 DEF Announcements
<1> QED BY <1>1, <1>4

(* The first message of a topic that gives units back.                     *)
LEMMA FirstMessage ==
  ASSUME Typed, NEW t \in {"failed", "canceled"}, topics[t] # <<>>
  PROVE  /\ Head(topics[t]) \in Messages
         /\ Head(topics[t]).id \in Keys /\ Head(topics[t]).units \in Units
         /\ Head(topics[t]).units \in Nat
         /\ [topics EXCEPT ![t] = Tail(@)] \in Topics
         /\ Range(topics[t]) = {Head(topics[t])} \cup Range(Tail(topics[t]))
<1>1. topics \in Topics /\ topics[t] \in Seq(Messages)
  BY DEF Typed, Topics
<1>2. Head(topics[t]) \in Messages /\ Tail(topics[t]) \in Seq(Messages)
  BY <1>1, HeadTailProperties
<1>3. Head(topics[t]).id \in Keys /\ Head(topics[t]).units \in Units
  BY <1>2 DEF Messages, Keys, Units
<1>4. Units \subseteq Nat
  BY QuantitiesAssumption DEF Units
<1>5. [topics EXCEPT ![t] = Tail(@)] \in Topics
  BY <1>1, <1>2 DEF Topics
<1>6. Range(topics[t]) = {Head(topics[t])} \cup Range(Tail(topics[t]))
  <2> DEFINE q == topics[t]
  <2>1. q \in Seq(Messages) /\ q # <<>>
    BY <1>1
  <2> HIDE DEF q
  <2>2. /\ Len(q) \in Nat /\ Len(q) > 0 /\ Len(Tail(q)) = Len(q) - 1
        /\ Head(q) = q[1] /\ \A i \in 1 .. Len(q) - 1 : Tail(q)[i] = q[i + 1]
        /\ DOMAIN q = 1 .. Len(q) /\ DOMAIN Tail(q) = 1 .. Len(q) - 1
    BY <2>1, HeadTailProperties, LenProperties
  <2>3. \A i \in DOMAIN q : i = 1 \/ (i - 1 \in DOMAIN Tail(q) /\ Tail(q)[i - 1] = q[i])
    BY <2>2
  <2>4. 1 \in DOMAIN q /\ \A i \in DOMAIN Tail(q) : i + 1 \in DOMAIN q
    BY <2>2
  <2>5. ASSUME NEW x \in Range(q) PROVE x = Head(q) \/ x \in Range(Tail(q))
    <3>1. PICK i \in DOMAIN q : q[i] = x
      BY DEF Range
    <3>2. i = 1 \/ (i - 1 \in DOMAIN Tail(q) /\ Tail(q)[i - 1] = q[i])
      BY <2>3
    <3> QED BY <2>2, <3>1, <3>2 DEF Range
  <2>6. Head(q) \in Range(q)
    BY <2>2, <2>4 DEF Range
  <2>7. \A x \in Range(Tail(q)) : x \in Range(q)
    BY <2>2, <2>4 DEF Range
  <2> QED BY <2>5, <2>6, <2>7 DEF q
<1> QED BY <1>2, <1>3, <1>4, <1>5, <1>6

(* The other steps keep the types.                                         *)
LEMMA OthersTyped ==
  ASSUME IInv, Typed,
         \/ ReleaseFailed
         \/ ReleaseCanceled
         \/ \E t \in Outcomes : HandleOutcome(t)
         \/ CreatePayment
         \/ \E id \in OrderIds : Expire(id)
         \/ \E p \in Payers : \/ \E route \in DOMAIN PaymentVerbs, id \in OrderIds : ReadPayment(p, route, id)
                              \/ PayerStep(p)
         \/ UNCHANGED vars
  PROVE  Typed' /\ UNCHANGED attempts
<1> DEFINE Kept == Typed' /\ UNCHANGED attempts
<1>1. ASSUME NEW t \in {"failed", "canceled"}, Release(t) PROVE Kept
  <2>1. topics' \in Topics
    BY <1>1, FirstMessage DEF Release
  <2>2. stock' \in Int /\ released' \subseteq OrderIds \cup {Null}
    BY <1>1, FirstMessage DEF Release, Typed, Keys
  <2> QED BY <1>1, <2>1, <2>2 DEF Typed, Release, InventoryUnchanged
<1>2. ASSUME NEW t \in Outcomes, HandleOutcome(t) PROVE Kept
  <2>1. PICK id \in OrderIds : Confirms(id) \/ Cancels(id)
    BY <1>2, OutcomeHandled
  <2>2. orders[id].rows \in Units
    BY DEF Typed, OrderStates, Units
  <2>3. topics' \in Topics
    <3>1. topics \in Topics /\ id \in Keys
      BY DEF Typed, Keys
    <3>2. [topics EXCEPT !.canceled = Append(@, Message(id, orders[id].rows))] \in Topics
      BY <2>2, <3>1, Published
    <3> QED BY <2>1, <3>1, <3>2 DEF Confirms, Cancels
  <2>4. orders' \in [OrderIds -> OrderStates]
    BY <2>1 DEF Confirms, Cancels, Typed, OrderStates
  <2> QED BY <1>2, <2>3, <2>4 DEF Typed, HandleOutcome, OrderUnchanged
<1>3. CASE CreatePayment
  <2>1. Tail(topics.checkout) \in Seq(OrderIds) /\ topics \in Topics
    BY <1>3, HeadTailProperties DEF CreatePayment, IInv, Typed
  <2>2. topics' \in Topics
    BY <1>3, <2>1 DEF CreatePayment, Topics
  <2> QED BY <1>3, <2>2 DEF Typed, CreatePayment, PaymentUnchanged
<1>4. ASSUME NEW id \in OrderIds, NEW outcome, Announce(id, outcome) PROVE ledger' \in Seq(Announcements)
  <2>1. Ledger!Announcement(outcome, id) \in Announcements
    BY DEF Ledger!Announcement, Announcements, Outcomes
  <2>2. ledger \in Seq(Announcements)
    BY DEF Typed
  <2> QED BY <1>4, <2>1, <2>2, AppendProperties DEF Announce
<1>5. ASSUME NEW id \in OrderIds, Expire(id) PROVE Kept
  BY <1>4, <1>5 DEF Expire, Typed, PaymentUnchanged
<1>6. ASSUME NEW p \in Payers, CommitPayment(p) PROVE Kept
  <2>1. payers[p].order \in OrderIds
    BY <1>6 DEF IInv, HasPayment, CommitPayment
  <2>2. ledger' \in Seq(Announcements)
    BY <1>4, <1>6, <2>1 DEF CommitPayment
  <2> QED BY <1>6, <2>2 DEF CommitPayment, Typed, PaymentUnchanged
<1>7. ASSUME NEW p \in Payers,
             \/ \E route \in DOMAIN PaymentVerbs, id \in OrderIds : ReadPayment(p, route, id)
             \/ AnswerPayer(p) \/ PayerFails(p)
      PROVE  Kept
  BY <1>7 DEF ReadPayment, AnswerPayer, PayerFails, Typed, PaymentUnchanged
<1>8. CASE UNCHANGED vars
  BY <1>8 DEF vars, Typed
<1> QED BY <1>1, <1>2, <1>3, <1>5, <1>6, <1>7, <1>8 DEF ReleaseFailed, ReleaseCanceled, PayerStep
-----------------------------------------------------------------------------
(* What is announced, and who reads it.                                    *)

(* The payments of announced outcomes are settled, a settled payment's     *)
(* outcome is announced, and an order that ended has read such an outcome. *)
AnnouncedSettled == \A i \in DOMAIN ledger : payments[ledger[i].order] \in Settled
SettledAnnounced ==
  \A id \in OrderIds : payments[id] \in Settled =>
    \E i \in DOMAIN ledger : ledger[i] = Ledger!Announcement(payments[id], id)
EndedAnnounced ==
  \A id \in OrderIds :
    /\ orders[id].status = "CONFIRMED" =>
         \E i \in DOMAIN ledger : ledger[i] = [topic |-> "payment.successed", order |-> id]
    /\ orders[id].status = "CANCELED" =>
         \E i \in DOMAIN ledger : ledger[i] = [topic |-> "payment.canceled", order |-> id]
ReadSoFar == \A t \in Outcomes : seen[t] \in 0 .. Cardinality(Rows(t))

Told == AnnouncedSettled /\ SettledAnnounced /\ EndedAnnounced

(* A step either announces one outcome, or announces none.                 *)
LEMMA AnnouncesOne ==
  ASSUME IInv, Typed, [Next]_vars
  PROVE  \/ UNCHANGED <<payments, ledger>>
         \/ CreatePayment
         \/ \E id \in OrderIds, outcome \in Settled :
              Announce(id, outcome) /\ UNCHANGED <<orders, seen>>
<1> DEFINE Goal == \E id \in OrderIds, outcome \in Settled :
                     Announce(id, outcome) /\ UNCHANGED <<orders, seen>>
<1>1. ASSUME NEW p \in Payers, CommitPayment(p) PROVE Goal
  <2>1. payers[p].order \in OrderIds
    BY <1>1 DEF IInv, HasPayment, CommitPayment
  <2>2. OutcomeOf(payers[p].route) \in Settled
    BY DEF OutcomeOf, Settled
  <2> QED BY <1>1, <2>1, <2>2 DEF CommitPayment, PaymentUnchanged
<1>2. ASSUME NEW id \in OrderIds, Expire(id) PROVE Goal
  BY <1>2 DEF Expire, Settled, PaymentUnchanged
<1>3. ASSUME NEW a \in Attempts,
             \/ \E units \in Quantities : AskReservation(a, units)
             \/ GatewayStep(a)
             \/ GiveUp(a)
             \/ ServiceStep(a)
      PROVE  UNCHANGED <<payments, ledger>>
  BY <1>3
  DEF AskReservation, GatewayStep, AskOrder, Refuse, Confirm, GiveUp, GatewayUnchanged,
      ServiceStep, Reserve, RefuseReservation, InventoryUnchanged, FindDraft, NoDraft, PlaceOrder,
      RollBack, ReportFails, OrderUnchanged
<1>4. ASSUME \/ ReleaseFailed \/ ReleaseCanceled \/ \E t \in Outcomes : HandleOutcome(t)
             \/ \E p \in Payers :
                  \/ \E route \in DOMAIN PaymentVerbs, id \in OrderIds : ReadPayment(p, route, id)
                  \/ AnswerPayer(p) \/ PayerFails(p)
             \/ UNCHANGED vars
      PROVE  UNCHANGED <<payments, ledger>>
  BY <1>4
  DEF ReleaseFailed, ReleaseCanceled, Release, InventoryUnchanged, HandleOutcome, OrderUnchanged,
      ReadPayment, AnswerPayer, PayerFails, PaymentUnchanged, vars
<1> QED BY <1>1, <1>2, <1>3, <1>4 DEF Next, PayerStep

(* An announcement is a row more.                                          *)
LEMMA RowAdded ==
  ASSUME Typed, NEW id \in OrderIds, NEW outcome \in Settled, Announce(id, outcome)
  PROVE  /\ \A i \in DOMAIN ledger : i \in DOMAIN ledger' /\ ledger'[i] = ledger[i]
         /\ \E i \in DOMAIN ledger' : ledger'[i] = Ledger!Announcement(outcome, id)
         /\ \A i \in DOMAIN ledger' : i \in DOMAIN ledger \/ ledger'[i] = Ledger!Announcement(outcome, id)
<1> DEFINE row == Ledger!Announcement(outcome, id)
<1>1. ledger \in Seq(Announcements) /\ row \in Announcements /\ ledger' = Append(ledger, row)
  BY DEF Typed, Announce, Ledger!Announcement, Announcements, Outcomes
<1> HIDE DEF row
<1>2. /\ Len(ledger) \in Nat /\ DOMAIN ledger = 1 .. Len(ledger)
      /\ DOMAIN ledger' = 1 .. Len(ledger) + 1
      /\ \A i \in 1 .. Len(ledger) : ledger'[i] = ledger[i]
      /\ ledger'[Len(ledger) + 1] = row
  BY <1>1, AppendProperties, LenProperties
<1>3. Len(ledger) + 1 \in DOMAIN ledger'
  BY <1>2
<1>4. \A i \in DOMAIN ledger' : i \in DOMAIN ledger \/ i = Len(ledger) + 1
  BY <1>2
<1>5. \A i \in DOMAIN ledger : i \in DOMAIN ledger'
  BY <1>2
<1> QED BY <1>2, <1>3, <1>4, <1>5 DEF row

(* Orders change when they are placed and when outcomes are read; only the *)
(* latter moves the order service on in a topic.                           *)
LEMMA OrdersChange ==
  ASSUME [Next]_vars
  PROVE  \/ UNCHANGED <<orders, seen>>
         \/ \E a \in Attempts : PlaceOrder(a) /\ UNCHANGED seen
         \/ \E t \in Outcomes : HandleOutcome(t)
<1>1. ASSUME NEW a \in Attempts,
             \/ \E units \in Quantities : AskReservation(a, units)
             \/ GatewayStep(a) \/ GiveUp(a)
             \/ Reserve(a) \/ RefuseReservation(a) \/ FindDraft(a) \/ NoDraft(a) \/ RollBack(a)
             \/ ReportFails(a)
      PROVE  UNCHANGED <<orders, seen>>
  BY <1>1
  DEF AskReservation, GatewayStep, AskOrder, Refuse, Confirm, GiveUp, GatewayUnchanged,
      Reserve, RefuseReservation, InventoryUnchanged, FindDraft, NoDraft, RollBack, ReportFails,
      OrderUnchanged
<1>2. ASSUME \/ ReleaseFailed \/ ReleaseCanceled \/ CreatePayment
             \/ \E id \in OrderIds : Expire(id)
             \/ \E p \in Payers :
                  \/ \E route \in DOMAIN PaymentVerbs, id \in OrderIds : ReadPayment(p, route, id)
                  \/ PayerStep(p)
             \/ UNCHANGED vars
      PROVE  UNCHANGED <<orders, seen>>
  BY <1>2
  DEF ReleaseFailed, ReleaseCanceled, Release, InventoryUnchanged, CreatePayment, Expire,
      ReadPayment, PayerStep, CommitPayment, AnswerPayer, PayerFails, PaymentUnchanged, vars
<1>3. ASSUME NEW a \in Attempts, PlaceOrder(a) PROVE UNCHANGED seen
  BY <1>3 DEF PlaceOrder
<1> QED BY <1>1, <1>2, <1>3 DEF Next, ServiceStep

(* What is told stays told.                                                *)
LEMMA ToldKept ==
  ASSUME IInv, Typed, \A a \in Attempts : Started(attempts[a]), Told, [Next]_vars
  PROVE  Told'
<1>1. payments \in [OrderIds -> Statuses] /\ orders \in [OrderIds -> OrderStates]
  BY DEF IInv, Typed
<1>2. \A i \in DOMAIN ledger : ledger[i] \in Announcements /\ ledger[i].order \in OrderIds
  <2>1. \A i \in DOMAIN ledger : ledger[i] \in Announcements
    BY ElementOfSeq DEF Typed
  <2> QED BY <2>1 DEF Announcements
<1>3. AnnouncedSettled' /\ SettledAnnounced'
  <2>1. CASE UNCHANGED <<payments, ledger>>
    BY <2>1 DEF Told, AnnouncedSettled, SettledAnnounced
  <2>2. CASE CreatePayment
    <3>1. PICK o \in OrderIds : payments[o] = "none" /\ payments' = [payments EXCEPT ![o] = "PENDING"]
      BY <2>2, HeadTailProperties DEF CreatePayment, IInv
    <3>2. UNCHANGED ledger
      BY <2>2 DEF CreatePayment
    <3>3. \A x \in OrderIds : payments'[x] = payments[x] \/ (x = o /\ payments'[x] = "PENDING")
      BY <1>1, <3>1
    <3>4. AnnouncedSettled'
      BY <1>1, <1>2, <3>1, <3>2, <3>3 DEF Told, AnnouncedSettled, Settled
    <3>5. SettledAnnounced'
      BY <3>2, <3>3 DEF Told, SettledAnnounced, Settled
    <3> QED BY <3>4, <3>5
  <2>3. ASSUME NEW id \in OrderIds, NEW outcome \in Settled, Announce(id, outcome)
        PROVE  AnnouncedSettled' /\ SettledAnnounced'
    <3>1. /\ payments'[id] = outcome
          /\ \A x \in OrderIds \ {id} : payments'[x] = payments[x]
      BY <1>1, <2>3 DEF Announce
    <3>2. Ledger!Announcement(outcome, id).order = id
      BY DEF Ledger!Announcement
    <3>3. AnnouncedSettled'
      <4> SUFFICES ASSUME NEW i \in DOMAIN ledger' PROVE payments'[ledger'[i].order] \in Settled
        BY DEF AnnouncedSettled
      <4>1. CASE i \in DOMAIN ledger
        <5>1. ledger'[i] = ledger[i] /\ ledger[i].order \in OrderIds /\ payments[ledger[i].order] \in Settled
          BY <1>2, <2>3, <4>1, RowAdded DEF Told, AnnouncedSettled
        <5> QED BY <3>1, <5>1
      <4>2. CASE ledger'[i] = Ledger!Announcement(outcome, id)
        BY <3>1, <3>2, <4>2
      <4> QED BY <2>3, <4>1, <4>2, RowAdded
    <3>4. SettledAnnounced'
      <4> SUFFICES ASSUME NEW x \in OrderIds, payments'[x] \in Settled
                   PROVE  \E i \in DOMAIN ledger' : ledger'[i] = Ledger!Announcement(payments'[x], x)
        BY DEF SettledAnnounced, Ledger!Announcement
      <4>1. CASE x = id
        BY <2>3, <3>1, <4>1, RowAdded
      <4>2. CASE x # id
        BY <2>3, <3>1, <4>2, RowAdded DEF Told, SettledAnnounced
      <4> QED BY <4>1, <4>2
    <3> QED BY <3>3, <3>4
  <2> QED BY <2>1, <2>2, <2>3, AnnouncesOne
<1>4. \A i \in DOMAIN ledger : i \in DOMAIN ledger' /\ ledger'[i] = ledger[i]
  BY AnnouncesOne, RowAdded DEF CreatePayment
<1>5. EndedAnnounced'
  <2> SUFFICES ASSUME NEW id \in OrderIds
               PROVE  /\ orders'[id].status = "CONFIRMED" =>
                           \E i \in DOMAIN ledger' : ledger'[i] = [topic |-> "payment.successed", order |-> id]
                      /\ orders'[id].status = "CANCELED" =>
                           \E i \in DOMAIN ledger' : ledger'[i] = [topic |-> "payment.canceled", order |-> id]
    BY DEF EndedAnnounced
  <2>1. CASE orders'[id].status = orders[id].status
    BY <1>4, <2>1 DEF Told, EndedAnnounced
  <2>2. ASSUME NEW a \in Attempts, PlaceOrder(a)
        PROVE  orders'[id].status = orders[id].status \/ orders'[id].status = "PENDING"
    BY <1>1, <2>2 DEF PlaceOrder, OrderStates
  <2>3. ASSUME NEW t \in Outcomes, HandleOutcome(t), orders'[id].status # orders[id].status
        PROVE  /\ \/ orders'[id].status = "CONFIRMED" /\ t = "payment.successed"
                  \/ orders'[id].status = "CANCELED" /\ t = "payment.canceled"
               /\ \E i \in DOMAIN ledger : ledger[i] = [topic |-> t, order |-> id]
    <3>1. PICK i \in Rows(t) :
            /\ ledger[i].order \in OrderIds
            /\ \/ t = "payment.successed" /\ Confirms(ledger[i].order)
               \/ t = "payment.canceled" /\ Cancels(ledger[i].order)
      BY <2>3, OutcomeHandled
    <3>2. ledger[i].order = id
      BY <1>1, <2>3, <3>1 DEF Confirms, Cancels
    <3>3. i \in DOMAIN ledger /\ ledger[i] = [topic |-> t, order |-> id]
      <4>1. i \in DOMAIN ledger /\ ledger[i].topic = t
        BY DEF Rows
      <4>2. ASSUME NEW r \in Announcements PROVE r = [topic |-> r.topic, order |-> r.order]
        BY DEF Announcements
      <4>3. ledger[i] \in Announcements
        BY <1>2, <4>1
      <4>4. ledger[i] = [topic |-> ledger[i].topic, order |-> ledger[i].order]
        BY <4>2, <4>3
      <4> QED BY <3>2, <4>1, <4>4
    <3>4. \/ orders'[id].status = "CONFIRMED" /\ t = "payment.successed"
          \/ orders'[id].status = "CANCELED" /\ t = "payment.canceled"
      BY <1>1, <3>1, <3>2 DEF Confirms, Cancels, OrderStates
    <3> QED BY <3>3, <3>4
  <2>4. ASSUME NEW t \in Outcomes, HandleOutcome(t), orders'[id].status # orders[id].status
        PROVE  /\ orders'[id].status = "CONFIRMED" =>
                    \E i \in DOMAIN ledger' : ledger'[i] = [topic |-> "payment.successed", order |-> id]
               /\ orders'[id].status = "CANCELED" =>
                    \E i \in DOMAIN ledger' : ledger'[i] = [topic |-> "payment.canceled", order |-> id]
    BY <1>4, <2>3, <2>4
  <2> QED BY <2>1, <2>2, <2>4, OrdersChange
<1> QED BY <1>3, <1>5 DEF Told

(* No consumer of the order service is beyond its topic.                   *)
LEMMA ReadKept ==
  ASSUME IInv, Typed, seen \in [Outcomes -> Nat], ReadSoFar, [Next]_vars
  PROVE  seen' \in [Outcomes -> Nat] /\ ReadSoFar'
<1>1. ASSUME NEW t PROVE Rows(t) \subseteq DOMAIN ledger /\ IsFiniteSet(DOMAIN ledger) /\ IsFiniteSet(Rows(t))
  <2>1. DOMAIN ledger = 1 .. Len(ledger) /\ Len(ledger) \in Nat
    BY LenProperties DEF Typed
  <2>2. IsFiniteSet(DOMAIN ledger)
    BY <2>1, FS_Interval
  <2> QED BY <2>2, FS_Subset DEF Rows
<1>2. ASSUME NEW t \in Outcomes, HandleOutcome(t) PROVE seen' \in [Outcomes -> Nat] /\ ReadSoFar'
  <2>1. PICK i \in Rows(t) : Cardinality({j \in Rows(t) : j < i}) = seen[t]
    BY <1>2, OutcomeHandled
  <2> DEFINE before == {j \in Rows(t) : j < i}
  <2>2. IsFiniteSet(before) /\ i \notin before /\ before \cup {i} \in SUBSET Rows(t)
    <3>1. i \in Int
      BY <2>1, LenProperties DEF Typed, Rows
    <3> QED BY <1>1, <2>1, <3>1, FS_Subset
  <2> HIDE DEF before
  <2>3. Cardinality(before \cup {i}) = seen[t] + 1
    BY <2>1, <2>2, FS_AddElement DEF before
  <2>4. Cardinality(before \cup {i}) <= Cardinality(Rows(t))
    BY <1>1, <2>2, FS_Subset
  <2>5. Cardinality(Rows(t)) \in Nat
    BY <1>1, FS_CardinalityType
  <2>6. \A x \in Outcomes : Rows(x)' = Rows(x)
    BY <1>2 DEF HandleOutcome, OrderUnchanged, Rows
  <2>7. seen' = [seen EXCEPT ![t] = @ + 1]
    BY <1>2 DEF HandleOutcome
  <2>8. seen[t] + 1 \in 0 .. Cardinality(Rows(t))
    BY <2>3, <2>4, <2>5
  <2>9. \A x \in Outcomes : seen'[x] = seen[x] \/ (x = t /\ seen'[x] = seen[t] + 1)
    BY <2>7
  <2> HIDE DEF Rows
  <2>10. \A x \in Outcomes : seen'[x] \in 0 .. Cardinality(Rows(x)')
    BY <2>6, <2>8, <2>9 DEF ReadSoFar
  <2> QED BY <2>7, <2>10 DEF ReadSoFar
<1>3. CASE UNCHANGED seen /\ UNCHANGED ledger
  BY <1>3 DEF ReadSoFar, Rows
<1>4. ASSUME NEW id \in OrderIds, NEW outcome \in Settled, Announce(id, outcome), UNCHANGED seen
      PROVE  seen' \in [Outcomes -> Nat] /\ ReadSoFar'
  <2>1. ASSUME NEW t \in Outcomes PROVE seen'[t] \in 0 .. Cardinality(Rows(t))'
    <3>1. Rows(t) \subseteq Rows(t)'
      BY <1>4, RowAdded DEF Rows
    <3>2. IsFiniteSet(Rows(t)')
      <4>1. ledger' \in Seq(Announcements)
        BY <1>4, AppendProperties DEF Announce, Typed, Announcements, Ledger!Announcement, Outcomes
      <4>2. DOMAIN ledger' = 1 .. Len(ledger') /\ Len(ledger') \in Nat
        BY <4>1, LenProperties
      <4>3. IsFiniteSet(DOMAIN ledger')
        BY <4>2, FS_Interval
      <4> QED BY <4>3, FS_Subset DEF Rows
    <3>3. /\ Cardinality(Rows(t)) <= Cardinality(Rows(t)')
          /\ Cardinality(Rows(t)) \in Nat /\ Cardinality(Rows(t)') \in Nat
      BY <1>1, <3>1, <3>2, FS_Subset, FS_CardinalityType
    <3>4. seen'[t] = seen[t] /\ seen[t] \in 0 .. Cardinality(Rows(t))
      BY <1>4 DEF ReadSoFar
    <3> QED BY <3>3, <3>4
  <2> QED BY <1>4, <2>1 DEF ReadSoFar
<1>5. CASE UNCHANGED seen
  BY <1>3, <1>4, <1>5, AnnouncesOne DEF CreatePayment
<1> QED BY <1>2, <1>5, OrdersChange

(* Two positions of a set of one number are the same.                      *)
LEMMA OnlyOne ==
  ASSUME NEW S, IsFiniteSet(S), ~ Cardinality(S) > 1, NEW i \in S, NEW j \in S
  PROVE  i = j
<1> SUFFICES ASSUME i # j PROVE FALSE
  OBVIOUS
<1>1. IsFiniteSet({i}) /\ Cardinality({i}) = 1
  BY FS_Singleton
<1>2. Cardinality({i} \cup {j}) = 2 /\ {i} \cup {j} \in SUBSET S
  BY <1>1, FS_AddElement
<1>3. Cardinality({i} \cup {j}) <= Cardinality(S) /\ Cardinality(S) \in Nat
  BY <1>2, FS_Subset, FS_CardinalityType
<1> QED BY <1>2, <1>3

(* So order service and payment service agree.                             *)
LEMMA ToldAgrees ==
  ASSUME Typed, Told
  PROVE  Agreement
<1>1. ASSUME NEW id \in OrderIds, ~ Overruled(id), NEW t \in Outcomes,
             NEW i \in DOMAIN ledger, ledger[i] = [topic |-> t, order |-> id]
      PROVE  payments[id] \in Settled /\ (payments[id] = "SUCCESS" <=> t = "payment.successed")
  <2>1. payments[id] \in Settled
    BY <1>1 DEF Told, AnnouncedSettled
  <2>2. PICK j \in DOMAIN ledger : ledger[j] = Ledger!Announcement(payments[id], id)
    BY <2>1 DEF Told, SettledAnnounced
  <2>3. i \in Announced(id) /\ j \in Announced(id)
    BY <1>1, <2>2 DEF Announced, Ledger!Announcement
  <2>4. IsFiniteSet(Announced(id))
    <3>1. DOMAIN ledger = 1 .. Len(ledger) /\ Len(ledger) \in Nat
      BY LenProperties DEF Typed
    <3>2. IsFiniteSet(DOMAIN ledger)
      BY <3>1, FS_Interval
    <3> QED BY <3>2, FS_Subset DEF Announced
  <2>5. i = j
    BY <1>1, <2>3, <2>4, OnlyOne DEF Overruled
  <2>6. t = IF payments[id] = "SUCCESS" THEN "payment.successed" ELSE "payment.canceled"
    BY <1>1, <2>2, <2>5 DEF Ledger!Announcement
  <2> QED BY <2>1, <2>6
<1>2. ASSUME NEW id \in OrderIds, orders[id].status = "CONFIRMED", ~ Overruled(id)
      PROVE  payments[id] = "SUCCESS"
  <2>1. PICK i \in DOMAIN ledger : ledger[i] = [topic |-> "payment.successed", order |-> id]
    BY <1>2 DEF Told, EndedAnnounced
  <2> QED BY <1>1, <1>2, <2>1 DEF Outcomes
<1>3. ASSUME NEW id \in OrderIds, orders[id].status = "CANCELED", ~ Overruled(id)
      PROVE  payments[id] \in {"FAILED", "EXPIRED"}
  <2>1. PICK i \in DOMAIN ledger : ledger[i] = [topic |-> "payment.canceled", order |-> id]
    BY <1>3 DEF Told, EndedAnnounced
  <2>2. payments[id] \in Settled /\ payments[id] # "SUCCESS"
    BY <1>1, <1>3, <2>1 DEF Outcomes
  <2> QED BY <2>2 DEF Settled
<1> QED BY <1>2, <1>3 DEF Agreement

(* What a payment request is about to do keeps its type.                   *)
LEMMA PayersTyped ==
  ASSUME IInv, payers \in [Payers -> PayerStates], [Next]_vars
  PROVE  payers' \in [Payers -> PayerStates]
<1>1. ASSUME NEW p \in Payers, NEW route \in DOMAIN PaymentVerbs, NEW id \in OrderIds,
             ReadPayment(p, route, id)
      PROVE  payers' \in [Payers -> PayerStates]
  <2>1. payments[id] \in Statuses
    BY DEF IInv
  <2>2. Created(<<"payment", route>>) = 201
    BY Answers
  <2>3. PICK pc \in {"commit", "answered"}, answer \in {0, 201} :
          payers' = [payers EXCEPT ![p] =
                       [pc |-> pc, route |-> route, order |-> id, read |-> payments[id], answer |-> answer]]
    BY <1>1, <2>2 DEF ReadPayment
  <2>4. [pc |-> pc, route |-> route, order |-> id, read |-> payments[id], answer |-> answer] \in PayerStates
    BY <2>1 DEF PayerStates
  <2> QED BY <2>3, <2>4
<1>2. ASSUME NEW p \in Payers, NEW pc \in {"unschedule", "answered"},
             payers' = [payers EXCEPT ![p].pc = pc]
      PROVE  payers' \in [Payers -> PayerStates]
  BY <1>2 DEF PayerStates
<1>3. ASSUME NEW p \in Payers, NEW answer \in {201, 502},
             payers' = [payers EXCEPT ![p].pc = "answered", ![p].answer = answer]
      PROVE  payers' \in [Payers -> PayerStates]
  <2> DEFINE r == payers[p]
             r1 == [r EXCEPT !.pc = "answered"]
             new == [r1 EXCEPT !.answer = answer]
  <2>1. r \in PayerStates /\ payers = [q \in Payers |-> payers[q]]
    OBVIOUS
  <2>2. r1 \in PayerStates
    BY <2>1 DEF PayerStates
  <2>3. new \in PayerStates
    <3> HIDE DEF r1
    <3> QED BY <2>2 DEF PayerStates
  <2>4. [r EXCEPT !.pc = "answered", !.answer = answer] = new
    BY <2>1 DEF PayerStates
  <2>5. payers' = [payers EXCEPT ![p] = [r EXCEPT !.pc = "answered", !.answer = answer]]
    BY <1>3, <2>1
  <2> HIDE DEF new
  <2> QED BY <2>3, <2>4, <2>5
<1>4. ASSUME NEW p \in Payers, PayerStep(p) PROVE payers' \in [Payers -> PayerStates]
  <2>1. HasPayment(payers[p])
    BY DEF IInv
  <2>2. payers[p].pc # "idle" => Created(<<"payment", payers[p].route>>) = 201
    BY <2>1, Answers DEF HasPayment
  <2> QED BY <1>2, <1>3, <1>4, <2>2, FailureAnswers
          DEF PayerStep, CommitPayment, AnswerPayer, PayerFails
<1>5. ASSUME NEW a \in Attempts,
             \/ \E units \in Quantities : AskReservation(a, units)
             \/ GatewayStep(a)
             \/ GiveUp(a)
             \/ ServiceStep(a)
      PROVE  UNCHANGED payers
  BY <1>5
  DEF AskReservation, GatewayStep, AskOrder, Refuse, Confirm, GiveUp, GatewayUnchanged,
      ServiceStep, Reserve, RefuseReservation, InventoryUnchanged, FindDraft, NoDraft, PlaceOrder,
      RollBack, ReportFails, OrderUnchanged
<1>6. ConsumerStep => UNCHANGED payers
  BY ConsumerSteps
<1>7. UNCHANGED vars => UNCHANGED payers
  BY DEF vars
<1> QED BY <1>1, <1>4, <1>5, <1>6, <1>7 DEF Next, ConsumerStep

-----------------------------------------------------------------------------
(* The invariant so far, for every reachable state.                        *)
Sound ==
  /\ IInv
  /\ Typed
  /\ payers \in [Payers -> PayerStates]
  /\ \A a \in Attempts : Started(attempts[a])
  /\ Told
  /\ seen \in [Outcomes -> Nat] /\ ReadSoFar

(* It holds at the start.                                                  *)
LEMMA SoundInit == Init => Sound
<1> SUFFICES ASSUME Init PROVE Sound
  OBVIOUS
<1>1. attempts \in [Attempts -> AttemptStates] /\ \A a \in Attempts : Started(attempts[a])
  BY DEF Init, Fresh, AttemptStates, Started
<1>2. orders \in [OrderIds -> OrderStates] /\ \A id \in OrderIds : orders[id].status \in {"none", "DRAFT"}
  <2>1. PICK cart \in Carts : orders = [id \in OrderIds |->
           IF id \in DOMAIN cart THEN [status |-> "DRAFT", rows |-> cart[id]]
           ELSE [status |-> "none", rows |-> 0]]
    BY DEF Init
  <2>2. \A id \in DOMAIN cart : cart[id] \in Quantities
    BY CartsAssumption DEF Range
  <2>3. \A id \in OrderIds : orders[id] \in OrderStates /\ orders[id].status \in {"none", "DRAFT"}
    BY <2>1, <2>2 DEF OrderStates
  <2> QED BY <2>1, <2>3
<1>3. topics \in Topics /\ ledger \in Seq(Announcements) /\ released \subseteq OrderIds \cup {Null}
  BY DEF Init, Topics
<1>4. stock \in Int
  BY NumbersAssumption DEF Init
<1>5. payers \in [Payers -> PayerStates]
  BY DEF Init, Idle, PayerStates, Statuses
<1>6. DOMAIN ledger = {}
  BY DEF Init
<1>7. Told
  BY <1>2, <1>6 DEF Told, AnnouncedSettled, SettledAnnounced, EndedAnnounced, Init, Settled
<1>8. seen \in [Outcomes -> Nat] /\ ReadSoFar
  <2>1. \A t : Rows(t) = {}
    BY <1>6 DEF Rows
  <2>2. seen = [t \in Outcomes |-> 0]
    BY DEF Init
  <2>3. Cardinality({}) = 0
    BY FS_EmptySet
  <2>4. \A t \in Outcomes : Cardinality(Rows(t)) = 0
    BY <2>1, <2>3
  <2> QED BY <2>2, <2>4 DEF ReadSoFar
<1> QED BY <1>1, <1>2, <1>3, <1>4, <1>5, <1>7, <1>8, IInvInit DEF Sound, Typed

(* Every step keeps it.                                                    *)
LEMMA SoundNext == Sound /\ [Next]_vars => Sound'
<1> SUFFICES ASSUME Sound, [Next]_vars PROVE Sound'
  OBVIOUS
<1>1. IInv /\ Typed /\ \A a \in Attempts : Started(attempts[a])
  BY DEF Sound
<1>2. Typed' /\ \A a \in Attempts : Started(attempts[a])'
  <2>1. ASSUME NEW a \in Attempts,
               \/ \E units \in Quantities : AskReservation(a, units)
               \/ GatewayStep(a)
               \/ GiveUp(a)
               \/ ServiceStep(a)
        PROVE  Typed' /\ \A b \in Attempts : Started(attempts[b])'
    <3>1. Typed' /\ Started(attempts[a])' /\ \A b \in Attempts \ {a} : attempts'[b] = attempts[b]
      BY <1>1, <2>1, AttemptTyped
    <3>2. \A b \in Attempts \ {a} : Started(attempts[b])'
      BY <1>1, <3>1 DEF Started
    <3> QED BY <3>1, <3>2
  <2>2. CASE \/ ReleaseFailed
             \/ ReleaseCanceled
             \/ \E t \in Outcomes : HandleOutcome(t)
             \/ CreatePayment
             \/ \E id \in OrderIds : Expire(id)
             \/ \E p \in Payers : \/ \E route \in DOMAIN PaymentVerbs, id \in OrderIds : ReadPayment(p, route, id)
                                  \/ PayerStep(p)
             \/ UNCHANGED vars
    <3>1. Typed' /\ UNCHANGED attempts
      BY <1>1, <2>2, OthersTyped
    <3> QED BY <1>1, <3>1 DEF Started
  <2> QED BY <2>1, <2>2 DEF Next
<1>3. IInv' /\ payers' \in [Payers -> PayerStates]
  BY IInvNext, PayersTyped DEF Sound
<1>4. Told' /\ seen' \in [Outcomes -> Nat] /\ ReadSoFar'
  BY ToldKept, ReadKept DEF Sound
<1> QED BY <1>2, <1>3, <1>4 DEF Sound

(* It holds in every reachable state.                                      *)
LEMMA SoundInvariant == Spec => []Sound
BY SoundInit, SoundNext, PTL DEF Spec

(* Whatever is delivered first, an order and its payment end the same      *)
(* way, unless two outcomes of the payment were announced.                 *)
THEOREM OutcomesAgree == Spec => []Agreement
<1>1. Sound => Agreement
  BY ToldAgrees DEF Sound
<1> QED BY <1>1, SoundInvariant, PTL

-----------------------------------------------------------------------------
(* The accounts: what a checkout took, what it is to have, who waits for   *)
(* units to come back.                                                     *)

(* The order service has answered checkout a; the units it took; and the   *)
(* units that are to come back, or are sold, for it.                       *)
Ended(a) == attempts[a].orderService \in {"placed", "failed"}
Taken(a) == IF attempts[a].inventory \in {"reserved", "leaked"} THEN attempts[a].asked ELSE 0
Share(a) ==
  IF attempts[a].orderService = "placed" THEN orders[attempts[a].order].rows ELSE attempts[a].asked

(* What a checkout adds to Expected less what it owes as long as its       *)
(* reservation may still be placed.                                        *)
Weight(a) ==
  IF attempts[a].orderService = "placed" THEN orders[attempts[a].order].rows - attempts[a].asked
  ELSE IF attempts[a].inventory = "reserved" /\ attempts[a].orderService # "failed"
       THEN 0 - attempts[a].asked
       ELSE 0

(* The messages that release units.                                        *)
Failures == Range(topics.failed)
Cancellations == Range(topics.canceled)

(* Nothing in the accounts of checkout a changes.                          *)
Still(a) ==
  /\ Taken(a)' = Taken(a) /\ Weight(a)' = Weight(a)
  /\ Ended(a) => attempts'[a].orderService = attempts[a].orderService
                 /\ attempts'[a].order = attempts[a].order /\ attempts'[a].asked = attempts[a].asked
  /\ Ended(a)' => Ended(a)

(* What the steps do to the accounts.                                      *)
Stays ==
  /\ \A a \in Attempts : Still(a)
  /\ UNCHANGED <<stock, released, orders>>
  /\ UNCHANGED <<Failures, Cancellations>>
Reserves(a) ==
  /\ \A b \in Attempts \ {a} : Still(b)
  /\ ~ Ended(a) /\ ~ Ended(a)'
  /\ Taken(a) = 0 /\ Taken(a)' = attempts[a].asked
  /\ Weight(a) = 0 /\ Weight(a)' \in {0, 0 - attempts[a].asked}
  /\ attempts[a].asked <= stock /\ stock' = stock - attempts[a].asked
  /\ UNCHANGED <<released, orders>>
  /\ UNCHANGED <<Failures, Cancellations>>
Fails(a, id) ==
  /\ \A b \in Attempts \ {a} : Still(b)
  /\ ~ Ended(a) /\ attempts'[a].orderService = "failed"
  /\ attempts'[a].order = id /\ attempts'[a].asked = attempts[a].asked
  /\ Taken(a)' = Taken(a)
  /\ Weight(a) = 0 - attempts[a].asked /\ Weight(a)' = 0
  /\ UNCHANGED <<stock, released, orders>>
  /\ Failures' = Failures \cup {Message(id, attempts[a].asked)}
  /\ UNCHANGED Cancellations
Places(a, id) ==
  /\ \A b \in Attempts \ {a} : Still(b)
  /\ ~ Ended(a) /\ attempts'[a].orderService = "placed"
  /\ attempts'[a].order = id /\ attempts'[a].asked = attempts[a].asked
  /\ Taken(a)' = Taken(a)
  /\ Weight(a) = 0 - attempts[a].asked /\ Weight(a)' = orders[id].rows - attempts[a].asked
  /\ UNCHANGED <<stock, released>>
  /\ orders'[id].status = "PENDING"
  /\ \A other \in OrderIds \ {id} : orders'[other] = orders[other]
  /\ UNCHANGED <<Failures, Cancellations>>
Ends(id) ==
  /\ \A a \in Attempts : Still(a)
  /\ UNCHANGED <<attempts, stock, released, Failures>>
  /\ orders[id].status = "PENDING"
  /\ \A other \in OrderIds \ {id} : orders'[other] = orders[other]
  /\ \/ orders'[id].status = "CONFIRMED" /\ UNCHANGED Cancellations
     \/ /\ orders'[id].status = "CANCELED"
        /\ Cancellations' = Cancellations \cup {Message(id, orders[id].rows)}
Releases(m) ==
  /\ \A a \in Attempts : Still(a)
  /\ UNCHANGED <<attempts, orders>>
  /\ stock' = IF m.id \in released THEN stock ELSE stock + m.units
  /\ released' = released \cup {m.id}
  /\ m \in Failures \cup Cancellations
  /\ Failures' \subseteq Failures /\ Failures \subseteq Failures' \cup {m}
  /\ Cancellations' \subseteq Cancellations /\ Cancellations \subseteq Cancellations' \cup {m}

(* The rows of an order are never touched.                                 *)
LEMMA RowsKept ==
  ASSUME Sound, [Next]_vars, NEW id \in OrderIds
  PROVE  orders'[id].rows = orders[id].rows
<1>0. Typed /\ orders \in [OrderIds -> OrderStates]
  BY DEF Sound, Typed
<1>1. CASE UNCHANGED orders
  BY <1>1
<1>2. ASSUME NEW x, NEW status, orders' = [orders EXCEPT ![x].status = status]
      PROVE  orders'[id].rows = orders[id].rows
  BY <1>0, <1>2 DEF OrderStates
<1>3. ASSUME NEW a \in Attempts, PlaceOrder(a) PROVE orders'[id].rows = orders[id].rows
  BY <1>2, <1>3 DEF PlaceOrder
<1>4. ASSUME NEW t \in Outcomes, HandleOutcome(t) PROVE orders'[id].rows = orders[id].rows
  BY <1>0, <1>2, <1>4, OutcomeHandled DEF Confirms, Cancels
<1> QED BY <1>1, <1>3, <1>4, OrdersChange

(* A checkout that does not move keeps its accounts.                       *)
LEMMA OthersStill ==
  ASSUME Sound, [Next]_vars, NEW a \in Attempts, attempts'[a] = attempts[a]
  PROVE  Still(a)
<1>1. attempts[a].orderService = "placed" => attempts[a].order \in OrderIds
  BY DEF Sound, Started
<1>2. Weight(a)' = Weight(a)
  BY <1>1, RowsKept DEF Weight
<1> QED BY <1>2 DEF Still, Taken, Ended

(* Neither does one that only goes from one open state to another.         *)
LEMMA OpenStill ==
  ASSUME Sound, [Next]_vars, NEW a \in Attempts, NEW g, NEW i, NEW o, NEW asked, NEW order, NEW answer,
         Moves(a, g, i, o, asked, order, answer),
         attempts[a].orderService \notin {"placed", "failed"}, o \notin {"placed", "failed"},
         \/ i = attempts[a].inventory /\ asked = attempts[a].asked
         \/ i \notin {"reserved", "leaked"} /\ attempts[a].inventory \notin {"reserved", "leaked"}
  PROVE  \A b \in Attempts : Still(b)
<1>1. Still(a)
  BY DEF Moves, Still, Taken, Weight, Ended
<1>2. \A b \in Attempts \ {a} : Still(b)
  BY OthersStill DEF Moves
<1> QED BY <1>1, <1>2

(* What the gateway does, and the services before they come to a result.   *)
LEMMA OpenSteps ==
  ASSUME Sound, [Next]_vars, NEW a \in Attempts,
         \/ \E units \in Quantities : AskReservation(a, units)
         \/ AskOrder(a) \/ RefuseReservation(a) \/ FindDraft(a) \/ ReportFails(a)
         \/ Refuse(a) \/ Confirm(a) \/ GiveUp(a)
  PROVE  Stays
<1> DEFINE r == attempts[a]
<1>0. IInv /\ Typed /\ InStep(r) /\ Started(r)
  BY DEF Sound, IInv
<1>1. ASSUME NEW units \in Quantities, AskReservation(a, units) PROVE Stays
  <2>1. Moves(a, "reserving", "asked", r.orderService, units, r.order, r.answer)
    BY <1>0, <1>1, AskReservationMoves
  <2>2. r.inventory = "idle" /\ r.orderService = "idle"
    BY <1>0, <1>1 DEF AskReservation, InStep
  <2>3. \A b \in Attempts : Still(b)
    BY <2>1, <2>2, OpenStill
  <2> QED BY <1>1, <2>3 DEF AskReservation, GatewayUnchanged, Stays, Failures, Cancellations
<1>2. CASE AskOrder(a)
  <2>1. Moves(a, "ordering", r.inventory, "asked", r.asked, r.order, r.answer)
    BY <1>0, <1>2, AskOrderMoves
  <2>2. r.orderService = "idle"
    BY <1>0, <1>2 DEF AskOrder, InStep
  <2>3. \A b \in Attempts : Still(b)
    BY <2>1, <2>2, OpenStill
  <2> QED BY <1>2, <2>3 DEF AskOrder, GatewayUnchanged, Stays, Failures, Cancellations
<1>3. CASE RefuseReservation(a)
  <2>1. PICK result \in {"refused", "failed"} : attempts' = [attempts EXCEPT ![a].inventory = result]
    BY <1>3 DEF RefuseReservation
  <2>2. Moves(a, r.gateway, result, r.orderService, r.asked, r.order, r.answer)
    BY <1>0, <2>1, InventoryMoves
  <2>3. r.inventory = "asked" /\ r.orderService = "idle"
    BY <1>0, <1>3 DEF RefuseReservation, Started
  <2>4. \A b \in Attempts : Still(b)
    BY <2>2, <2>3, OpenStill
  <2> QED BY <1>3, <2>4 DEF RefuseReservation, InventoryUnchanged, Stays, Failures, Cancellations
<1>4. CASE FindDraft(a)
  <2>1. PICK id \in OrderIds : attempts' = [attempts EXCEPT ![a].orderService = "found", ![a].order = id]
    BY <1>4 DEF FindDraft, Drafts
  <2>2. Moves(a, r.gateway, r.inventory, "found", r.asked, id, r.answer)
    BY <1>0, <2>1, OrderMoves
  <2>3. r.orderService = "asked"
    BY <1>4 DEF FindDraft
  <2>4. \A b \in Attempts : Still(b)
    BY <2>2, <2>3, OpenStill
  <2> QED BY <1>4, <2>4 DEF FindDraft, OrderUnchanged, Stays, Failures, Cancellations
<1>5. CASE Refuse(a) \/ Confirm(a) \/ GiveUp(a)
  <2>1. PICK status \in {201, 400, 408, 502} : Answer(a, status)
    BY <1>0, <1>5, GatewayMoves
  <2>2. GatewayUnchanged
    BY <1>0, <1>5, GatewayMoves
  <2>3. Moves(a, "answered", r.inventory, r.orderService, r.asked, r.order, status)
    BY <1>0, <2>1, AnswerMoves
  <2>4. orders' = orders
    BY <2>2 DEF GatewayUnchanged
  <2>5. Still(a)
    BY <2>3, <2>4 DEF Moves, Still, Taken, Weight, Ended
  <2>6. \A b \in Attempts \ {a} : Still(b)
    BY <2>3, OthersStill DEF Moves
  <2> QED BY <2>2, <2>5, <2>6 DEF GatewayUnchanged, Stays, Failures, Cancellations
<1>6. CASE ReportFails(a)
  <2>1. attempts' = [attempts EXCEPT ![a].orderService = "silent", ![a].order = Null]
    BY <1>6 DEF ReportFails
  <2>2. Moves(a, r.gateway, r.inventory, "silent", r.asked, Null, r.answer)
    BY <1>0, <2>1, OrderMoves
  <2>3. r.orderService \in {"asked", "found"}
    BY <1>6 DEF ReportFails
  <2>4. \A b \in Attempts : Still(b)
    BY <2>2, <2>3, OpenStill
  <2> QED BY <1>6, <2>4 DEF ReportFails, OrderUnchanged, Stays, Failures, Cancellations
<1> QED BY <1>1, <1>2, <1>3, <1>4, <1>5, <1>6

(* The script takes the units.                                             *)
LEMMA ReserveReserves ==
  ASSUME Sound, [Next]_vars, NEW a \in Attempts, Reserve(a)
  PROVE  Reserves(a)
<1> DEFINE r == attempts[a]
<1>0. Typed /\ Started(r) /\ r.asked \in Nat /\ stock \in Int
  BY AskedUnits DEF Sound, Typed
<1>1. PICK result \in {"reserved", "leaked"} : attempts' = [attempts EXCEPT ![a].inventory = result]
  BY DEF Reserve
<1>2. Moves(a, r.gateway, result, r.orderService, r.asked, r.order, r.answer)
  BY <1>0, <1>1, InventoryMoves
<1>3. r.inventory = "asked" /\ r.orderService = "idle"
  BY <1>0 DEF Reserve, Started
<1>4. \A b \in Attempts \ {a} : Still(b)
  BY <1>2, OthersStill DEF Moves
<1>5. ~ Ended(a) /\ ~ Ended(a)'
  BY <1>2, <1>3 DEF Moves, Ended
<1>6. Taken(a) = 0 /\ Taken(a)' = r.asked
  BY <1>2, <1>3 DEF Moves, Taken
<1>7. Weight(a) = 0 /\ Weight(a)' \in {0, 0 - r.asked}
  BY <1>2, <1>3 DEF Moves, Weight
<1>8. r.asked <= stock /\ stock' = stock - r.asked /\ UNCHANGED <<released, orders, topics>>
  BY <1>0 DEF Reserve, InventoryUnchanged
<1> QED BY <1>4, <1>5, <1>6, <1>7, <1>8 DEF Reserves, Failures, Cancellations

(* What a topic holds after a message more, or two.                        *)
LEMMA RangeOfAppend ==
  ASSUME NEW s \in Seq(Messages), NEW m \in Messages
  PROVE  Range(Append(s, m)) = Range(s) \cup {m} /\ Range(s \o <<m, m>>) = Range(s) \cup {m}
<1>1. Len(s) \in Nat /\ DOMAIN s = 1 .. Len(s)
  BY LenProperties
<1>2. Range(Append(s, m)) = Range(s) \cup {m}
  <2> DEFINE q == Append(s, m)
  <2>1. DOMAIN q = 1 .. Len(s) + 1 /\ q[Len(s) + 1] = m /\ \A i \in 1 .. Len(s) : q[i] = s[i]
    BY AppendProperties, LenProperties
  <2> HIDE DEF q
  <2>2. \A i \in DOMAIN q : i \in DOMAIN s \/ q[i] = m
    BY <1>1, <2>1
  <2>3. Len(s) + 1 \in DOMAIN q /\ \A i \in DOMAIN s : i \in DOMAIN q
    BY <1>1, <2>1
  <2>4. Range(q) \subseteq Range(s) \cup {m}
    BY <1>1, <2>1, <2>2 DEF Range
  <2>5. Range(s) \cup {m} \subseteq Range(q)
    BY <1>1, <2>1, <2>3 DEF Range
  <2> QED BY <2>4, <2>5 DEF q
<1>3. Range(s \o <<m, m>>) = Range(s) \cup {m}
  <2> DEFINE q == s \o <<m, m>>
  <2>1. /\ DOMAIN q = 1 .. Len(s) + 2 /\ q[Len(s) + 1] = m /\ q[Len(s) + 2] = m
        /\ \A i \in 1 .. Len(s) : q[i] = s[i]
    BY <1>1
  <2> HIDE DEF q
  <2>2. \A i \in DOMAIN q : i \in DOMAIN s \/ i = Len(s) + 1 \/ i = Len(s) + 2
    BY <1>1, <2>1
  <2>3. Len(s) + 1 \in DOMAIN q /\ \A i \in DOMAIN s : i \in DOMAIN q
    BY <1>1, <2>1
  <2>4. Range(q) \subseteq Range(s) \cup {m}
    BY <1>1, <2>1, <2>2 DEF Range
  <2>5. Range(s) \cup {m} \subseteq Range(q)
    BY <1>1, <2>1, <2>3 DEF Range
  <2> QED BY <2>4, <2>5 DEF q
<1> QED BY <1>2, <1>3

(* The order service gives up a checkout whose units are reserved, and     *)
(* says so.                                                                *)
LEMMA FailureFails ==
  ASSUME Sound, [Next]_vars, NEW a \in Attempts, NoDraft(a) \/ RollBack(a)
  PROVE  \E id \in Keys : Fails(a, id)
<1> DEFINE r == attempts[a]
<1>0. Typed /\ Started(r) /\ r.asked \in Units /\ r.order \in Keys /\ Null \in Keys
  BY AskedUnits DEF Sound, Keys
<1>1. topics.failed \in Seq(Messages) /\ topics \in Topics
  BY <1>0 DEF Typed, Topics
<1>2. PICK id \in Keys :
        /\ Moves(a, r.gateway, r.inventory, "failed", r.asked, id, r.answer)
        /\ \/ topics' = [topics EXCEPT !.failed = Append(@, Message(id, r.asked))]
           \/ topics' = [topics EXCEPT !.failed = @ \o <<Message(id, r.asked), Message(id, r.asked)>>]
  <2>1. CASE NoDraft(a)
    <3>1. r.order = Null
      BY <1>0, <2>1 DEF NoDraft, Started
    <3>2. Moves(a, r.gateway, r.inventory, "failed", r.asked, Null, r.answer)
      BY <1>0, <2>1, <3>1, OrderServiceMoves DEF NoDraft
    <3> QED BY <1>0, <2>1, <3>2 DEF NoDraft
  <2>2. CASE RollBack(a)
    <3>1. PICK id \in {Null, r.order} :
            /\ attempts' = [attempts EXCEPT ![a].orderService = "failed", ![a].order = id]
            /\ topics' = [topics EXCEPT !.failed = Append(@, Message(id, r.asked))]
      BY <2>2 DEF RollBack
    <3>2. id \in Keys
      BY <1>0
    <3>3. Moves(a, r.gateway, r.inventory, "failed", r.asked, id, r.answer)
      BY <1>0, <3>1, <3>2, OrderMoves DEF Keys
    <3> QED BY <3>1, <3>2, <3>3
  <2> QED BY <2>1, <2>2
<1>3. Message(id, r.asked) \in Messages
  BY <1>0, Published
<1>4. /\ topics'.canceled = topics.canceled
      /\ \/ topics'.failed = Append(topics.failed, Message(id, r.asked))
         \/ topics'.failed = topics.failed \o <<Message(id, r.asked), Message(id, r.asked)>>
  BY <1>1, <1>2 DEF Topics
<1>5. Failures' = Failures \cup {Message(id, r.asked)} /\ UNCHANGED Cancellations
  BY <1>1, <1>3, <1>4, RangeOfAppend DEF Failures, Cancellations
<1>6. r.orderService \in {"asked", "found"} /\ r.inventory = "reserved"
  BY <1>0 DEF NoDraft, RollBack, Started
<1>7. \A b \in Attempts \ {a} : Still(b)
  BY <1>2, OthersStill DEF Moves
<1>8. ~ Ended(a) /\ Weight(a) = 0 - r.asked
  BY <1>6 DEF Ended, Weight
<1>9. /\ attempts'[a].orderService = "failed" /\ attempts'[a].order = id /\ attempts'[a].asked = r.asked
      /\ Taken(a)' = Taken(a)
  BY <1>2 DEF Moves, Taken
<1>10. Weight(a)' = 0
  BY <1>9 DEF Weight
<1>11. UNCHANGED <<stock, released, orders>>
  BY DEF NoDraft, RollBack, OrderUnchanged
<1> QED BY <1>5, <1>7, <1>8, <1>9, <1>10, <1>11 DEF Fails

(* The order service places an order with reserved units.                  *)
LEMMA PlacingPlaces ==
  ASSUME Sound, [Next]_vars, NEW a \in Attempts, PlaceOrder(a)
  PROVE  \E id \in OrderIds : Places(a, id)
<1> DEFINE r == attempts[a]
           id == r.order
<1>0. Typed /\ Started(r)
  BY DEF Sound
<1>1. Moves(a, r.gateway, r.inventory, "placed", r.asked, r.order, r.answer)
  BY <1>0, OrderServiceMoves DEF PlaceOrder
<1>2. r.orderService = "found" /\ r.inventory = "reserved" /\ id \in OrderIds
  BY <1>0 DEF PlaceOrder, Started
<1>3. \A b \in Attempts \ {a} : Still(b)
  BY <1>1, OthersStill DEF Moves
<1>4. ~ Ended(a) /\ Weight(a) = 0 - r.asked
  BY <1>2 DEF Ended, Weight
<1>5. /\ attempts'[a].orderService = "placed" /\ attempts'[a].order = id /\ attempts'[a].asked = r.asked
      /\ Taken(a)' = Taken(a)
  BY <1>1 DEF Moves, Taken
<1>6. Weight(a)' = orders[id].rows - r.asked
  BY <1>2, <1>5, RowsKept DEF Weight
<1>7. /\ orders'[id].status = "PENDING"
      /\ \A other \in OrderIds \ {id} : orders'[other] = orders[other]
  BY <1>0, <1>2 DEF PlaceOrder, Typed, OrderStates
<1>8. topics'.failed = topics.failed /\ topics'.canceled = topics.canceled
  BY <1>0 DEF PlaceOrder, Typed, Topics
<1>9. UNCHANGED <<stock, released>>
  BY DEF PlaceOrder, OrderUnchanged
<1> HIDE DEF id
<1>10. Places(a, id)
  BY <1>3, <1>4, <1>5, <1>6, <1>7, <1>8, <1>9 DEF Places, Failures, Cancellations
<1> QED BY <1>2, <1>10 DEF id

(* An outcome ends an order; a canceled one gives its rows back.           *)
LEMMA OutcomeEnds ==
  ASSUME Sound, [Next]_vars, NEW t \in Outcomes, HandleOutcome(t)
  PROVE  \E id \in OrderIds : Ends(id)
<1>0. Typed
  BY DEF Sound
<1>1. PICK id \in OrderIds : orders[id].status = "PENDING" /\ (Confirms(id) \/ Cancels(id))
  BY <1>0, OutcomeHandled
<1>2. UNCHANGED <<attempts, stock, released>>
  BY DEF HandleOutcome, OrderUnchanged
<1>3. \A a \in Attempts : Still(a)
  BY <1>2, OthersStill
<1>4. \A other \in OrderIds \ {id} : orders'[other] = orders[other]
  BY <1>0, <1>1 DEF Confirms, Cancels, Typed
<1>5. topics'.failed = topics.failed
  BY <1>0, <1>1 DEF Confirms, Cancels, Typed, Topics
<1>6. CASE Confirms(id)
  <2>1. orders'[id].status = "CONFIRMED" /\ UNCHANGED topics
    BY <1>0, <1>6 DEF Confirms, Typed, OrderStates
  <2> QED BY <1>1, <1>2, <1>3, <1>4, <2>1 DEF Ends, Failures, Cancellations
<1>7. CASE Cancels(id)
  <2>1. orders'[id].status = "CANCELED"
    BY <1>0, <1>7 DEF Cancels, Typed, OrderStates
  <2>2. topics'.canceled = Append(topics.canceled, Message(id, orders[id].rows))
    BY <1>0, <1>7 DEF Cancels, Typed, Topics
  <2>3. topics.canceled \in Seq(Messages)
    BY <1>0 DEF Typed, Topics
  <2>4. Message(id, orders[id].rows) \in Messages
    BY <1>0 DEF Typed, OrderStates, Message, Messages
  <2>5. Cancellations' = Cancellations \cup {Message(id, orders[id].rows)}
    BY <2>2, <2>3, <2>4, RangeOfAppend DEF Cancellations
  <2> QED BY <1>1, <1>2, <1>3, <1>4, <1>5, <2>1, <2>5 DEF Ends, Failures
<1> QED BY <1>1, <1>6, <1>7

(* A message is taken from its topic, and its units are given back once.   *)
LEMMA ReleaseReleases ==
  ASSUME Sound, [Next]_vars, NEW t \in {"failed", "canceled"}, Release(t)
  PROVE  \E m \in Messages : Releases(m)
<1> DEFINE m == Head(topics[t])
<1>0. Typed /\ topics[t] # <<>> /\ topics \in Topics
  BY DEF Sound, Typed, Release
<1>1. m \in Messages /\ Range(topics[t]) = {m} \cup Range(Tail(topics[t]))
  BY <1>0, FirstMessage
<1>2. UNCHANGED <<attempts, orders>>
  BY DEF Release, InventoryUnchanged
<1>3. \A a \in Attempts : Still(a)
  BY <1>2, OthersStill
<1>4. /\ stock' = IF m.id \in released THEN stock ELSE stock + m.units
      /\ released' = released \cup {m.id}
  BY DEF Release
<1>5. /\ t = "failed" => topics'.failed = Tail(topics.failed) /\ topics'.canceled = topics.canceled
      /\ t = "canceled" => topics'.canceled = Tail(topics.canceled) /\ topics'.failed = topics.failed
  BY <1>0 DEF Release, Topics
<1> HIDE DEF m
<1>6. /\ m \in Failures \cup Cancellations
      /\ Failures' \subseteq Failures /\ Failures \subseteq Failures' \cup {m}
      /\ Cancellations' \subseteq Cancellations /\ Cancellations \subseteq Cancellations' \cup {m}
  <2>1. CASE t = "failed"
    BY <1>1, <1>5, <2>1 DEF Failures, Cancellations
  <2>2. CASE t = "canceled"
    BY <1>1, <1>5, <2>2 DEF Failures, Cancellations
  <2> QED BY <2>1, <2>2
<1>7. Releases(m)
  BY <1>2, <1>3, <1>4, <1>6 DEF Releases
<1> QED BY <1>1, <1>7

(* No step of the payment service is in the accounts.                      *)
LEMMA PaymentStays ==
  ASSUME Sound, [Next]_vars,
         \/ CreatePayment
         \/ \E id \in OrderIds : Expire(id)
         \/ \E p \in Payers : \/ \E route \in DOMAIN PaymentVerbs, id \in OrderIds : ReadPayment(p, route, id)
                              \/ PayerStep(p)
         \/ UNCHANGED vars
  PROVE  Stays
<1>0. topics \in Topics
  BY DEF Sound, Typed
<1>1. UNCHANGED <<attempts, stock, released, orders>>
  BY DEF CreatePayment, Expire, ReadPayment, PayerStep, CommitPayment, AnswerPayer, PayerFails,
         PaymentUnchanged, vars
<1>2. topics'.failed = topics.failed /\ topics'.canceled = topics.canceled
  <2>1. CASE UNCHANGED topics
    BY <2>1
  <2>2. CASE CreatePayment
    BY <1>0, <2>2 DEF CreatePayment, Topics
  <2> QED BY <2>1, <2>2 DEF Expire, ReadPayment, PayerStep, CommitPayment, AnswerPayer, PayerFails, vars
<1>3. \A a \in Attempts : Still(a)
  BY <1>1, OthersStill
<1> QED BY <1>1, <1>2, <1>3 DEF Stays, Failures, Cancellations

(* So every step is one of these.                                          *)
LEMMA StepIs ==
  ASSUME Sound, [Next]_vars
  PROVE  \/ Stays
         \/ \E a \in Attempts : Reserves(a)
         \/ \E a \in Attempts : \E id \in Keys : Fails(a, id)
         \/ \E a \in Attempts : \E id \in OrderIds : Places(a, id)
         \/ \E id \in OrderIds : Ends(id)
         \/ \E m \in Messages : Releases(m)
BY OpenSteps, ReserveReserves, FailureFails, PlacingPlaces, OutcomeEnds, ReleaseReleases, PaymentStays
DEF Next, GatewayStep, ServiceStep, ReleaseFailed, ReleaseCanceled

-----------------------------------------------------------------------------
(* Who stands behind a message, an order, a checkout that has ended.       *)

(* Every message to read, and the states of an order that took units.      *)
Waiting == Failures \cup Cancellations
Taking == {"PENDING", "CONFIRMED", "CANCELED"}

(* Some checkout that ended with this id is to have these units.           *)
Backed(id, units) ==
  \E a \in Attempts : Ended(a) /\ attempts[a].order = id /\ Share(a) = units

(* Behind every message and every order that took units there is a         *)
(* checkout, and a checkout that ended left an order or a message: a       *)
(* failure without its message, or a cancel without one, would lose units. *)
MessagesBacked == \A m \in Waiting : Backed(m.id, m.units)
OrdersBacked ==
  \A id \in OrderIds : orders[id].status \in Taking => \E a \in Placed : attempts[a].order = id
PlacedHave == \A a \in Placed : orders[attempts[a].order].status \in Taking
FailedTold ==
  \A a \in Attempts : attempts[a].orderService = "failed" =>
    attempts[a].order \in released \/ \E m \in Failures : m.id = attempts[a].order
CanceledTold ==
  \A id \in OrderIds : orders[id].status = "CANCELED" =>
    id \in released \/ \E m \in Cancellations : m.id = id

Backing == MessagesBacked /\ OrdersBacked /\ PlacedHave /\ FailedTold /\ CanceledTold

(* A checkout that has ended is over.                                      *)
LEMMA EndedStays ==
  ASSUME Sound, [Next]_vars, NEW a \in Attempts, Ended(a)
  PROVE  /\ attempts'[a].orderService = attempts[a].orderService
         /\ attempts'[a].order = attempts[a].order /\ attempts'[a].asked = attempts[a].asked
         /\ Ended(a)' /\ Share(a)' = Share(a)
<1>1. /\ attempts'[a].orderService = attempts[a].orderService
      /\ attempts'[a].order = attempts[a].order /\ attempts'[a].asked = attempts[a].asked
  <2>1. CASE Still(a)
    BY <2>1 DEF Still
  <2>2. CASE ~ Still(a)
    BY <2>2, StepIs DEF Stays, Reserves, Fails, Places, Ends, Releases
  <2> QED BY <2>1, <2>2
<1>2. Ended(a)'
  BY <1>1 DEF Ended
<1>3. attempts[a].orderService = "placed" => attempts[a].order \in OrderIds
  BY DEF Sound, Started
<1>4. Share(a)' = Share(a)
  BY <1>1, <1>3, RowsKept DEF Share
<1> QED BY <1>1, <1>2, <1>4

(* Who is behind units stays behind them.                                  *)
LEMMA BackedStays ==
  ASSUME Sound, [Next]_vars, NEW id, NEW units, Backed(id, units)
  PROVE  Backed(id, units)'
BY EndedStays DEF Backed

(* A checkout becomes placed with its order, and failed with its message.  *)
LEMMA EndsWith ==
  ASSUME Sound, [Next]_vars, NEW a \in Attempts, Ended(a)', ~ Ended(a)
  PROVE  \E id \in Keys : \/ Fails(a, id)
                          \/ id \in OrderIds /\ Places(a, id)
<1>1. ~ Still(a)
  BY DEF Still
<1>2. \E id \in Keys : \/ Fails(a, id)
                       \/ id \in OrderIds /\ Places(a, id)
  <2>1. ~ Stays /\ (\A id \in OrderIds : ~ Ends(id)) /\ (\A m \in Messages : ~ Releases(m))
    BY <1>1 DEF Stays, Ends, Releases
  <2>2. \A b \in Attempts : ~ Reserves(b)
    BY <1>1 DEF Reserves
  <2>3. PICK b \in Attempts, id \in Keys : \/ Fails(b, id)
                                           \/ id \in OrderIds /\ Places(b, id)
    BY <2>1, <2>2, StepIs DEF Keys
  <2>4. b = a
    BY <1>1, <2>3 DEF Fails, Places
  <2> QED BY <2>3, <2>4
<1> QED BY <1>2

(* Every step keeps who stands behind what.                                *)
LEMMA BackingKept ==
  ASSUME Sound, Backing, [Next]_vars
  PROVE  Backing'
<1>1. MessagesBacked'
  <2> SUFFICES ASSUME NEW m \in Waiting' PROVE Backed(m.id, m.units)'
    BY DEF MessagesBacked
  <2>1. CASE m \in Waiting
    BY <2>1, BackedStays DEF Backing, MessagesBacked
  <2>2. CASE m \notin Waiting
    <3>1. ~ Stays /\ \A x \in Messages : ~ Releases(x)
      BY <2>2 DEF Stays, Releases, Waiting
    <3>2. /\ \A a \in Attempts : ~ Reserves(a)
          /\ \A a \in Attempts : \A id \in OrderIds : ~ Places(a, id)
      BY <2>2 DEF Reserves, Places, Waiting
    <3>3. ASSUME NEW a \in Attempts, NEW id \in Keys, Fails(a, id) PROVE Backed(m.id, m.units)'
      <4>1. m = Message(id, attempts[a].asked)
        BY <2>2, <3>3 DEF Fails, Waiting
      <4>2. m.id = id /\ m.units = attempts[a].asked
        BY <4>1 DEF Message
      <4>3. Ended(a)' /\ Share(a)' = attempts[a].asked /\ attempts'[a].order = id
        BY <3>3 DEF Fails, Ended, Share
      <4> QED BY <4>2, <4>3 DEF Backed
    <3>4. ASSUME NEW id \in OrderIds, Ends(id) PROVE Backed(m.id, m.units)'
      <4>1. m = Message(id, orders[id].rows)
        BY <2>2, <3>4 DEF Ends, Waiting
      <4>2. m.id = id /\ m.units = orders[id].rows
        BY <4>1 DEF Message
      <4>3. PICK a \in Placed : attempts[a].order = id
        BY <3>4 DEF Ends, Backing, OrdersBacked, Taking
      <4>4. a \in Attempts /\ Ended(a) /\ Share(a) = orders[id].rows
        BY <4>3 DEF Placed, Ended, Share
      <4>5. Backed(id, orders[id].rows)
        BY <4>3, <4>4 DEF Backed
      <4> QED BY <4>2, <4>5, BackedStays
    <3> QED BY <3>1, <3>2, <3>3, <3>4, StepIs
  <2> QED BY <2>1, <2>2
<1>2. \A a \in Placed : a \in Placed' /\ attempts'[a].order = attempts[a].order
  BY EndedStays DEF Placed, Ended
<1>3. OrdersBacked'
  <2> SUFFICES ASSUME NEW id \in OrderIds, orders'[id].status \in Taking
               PROVE  \E a \in Placed' : attempts'[a].order = id
    BY DEF OrdersBacked
  <2>1. CASE orders[id].status \in Taking
    BY <1>2, <2>1 DEF Backing, OrdersBacked
  <2>2. CASE orders[id].status \notin Taking
    <3>1. PICK a \in Attempts, x \in OrderIds : Places(a, x) /\ orders'[x] # orders[x] /\ x = id
      BY <2>2, StepIs DEF Stays, Reserves, Fails, Places, Ends, Releases, Taking
    <3> QED BY <3>1 DEF Places, Placed
  <2> QED BY <2>1, <2>2
<1>4. \A id \in OrderIds : orders[id].status \in Taking => orders'[id].status \in Taking
  <2> SUFFICES ASSUME NEW id \in OrderIds, orders'[id] # orders[id] PROVE orders'[id].status \in Taking
    OBVIOUS
  <2>1. Ends(id) \/ \E a \in Attempts : Places(a, id)
    BY StepIs DEF Stays, Reserves, Fails, Places, Ends, Releases
  <2> QED BY <2>1 DEF Places, Ends, Taking
<1>5. PlacedHave'
  <2> SUFFICES ASSUME NEW a \in Attempts, attempts'[a].orderService = "placed"
               PROVE  orders'[attempts'[a].order].status \in Taking
    BY DEF PlacedHave, Placed
  <2>1. CASE Ended(a)
    <3>1. a \in Placed /\ attempts'[a].order = attempts[a].order
      BY <2>1, EndedStays DEF Placed
    <3>2. attempts[a].order \in OrderIds
      BY <3>1 DEF Placed, Sound, Started
    <3> QED BY <1>4, <3>1, <3>2 DEF Backing, PlacedHave
  <2>2. CASE ~ Ended(a)
    <3>1. PICK id \in OrderIds : Places(a, id)
      BY <2>2, EndsWith DEF Ended, Fails
    <3> QED BY <3>1 DEF Places, Taking
  <2> QED BY <2>1, <2>2
<1>6. ASSUME NEW id,
             \/ id \in released
             \/ \E m \in Failures : m.id = id
      PROVE  id \in released' \/ \E m \in Failures' : m.id = id
  BY <1>6, StepIs DEF Stays, Reserves, Fails, Places, Ends, Releases
<1>7. ASSUME NEW id,
             \/ id \in released
             \/ \E m \in Cancellations : m.id = id
      PROVE  id \in released' \/ \E m \in Cancellations' : m.id = id
  BY <1>7, StepIs DEF Stays, Reserves, Fails, Places, Ends, Releases
<1>8. FailedTold'
  <2> SUFFICES ASSUME NEW a \in Attempts, attempts'[a].orderService = "failed"
               PROVE  attempts'[a].order \in released' \/ \E m \in Failures' : m.id = attempts'[a].order
    BY DEF FailedTold
  <2>1. CASE Ended(a)
    <3>1. attempts[a].orderService = "failed" /\ attempts'[a].order = attempts[a].order
      BY <2>1, EndedStays
    <3> QED BY <1>6, <3>1 DEF Backing, FailedTold
  <2>2. CASE ~ Ended(a)
    <3>1. PICK id \in Keys : Fails(a, id)
      BY <2>2, EndsWith DEF Ended, Places
    <3>2. attempts'[a].order = id /\ Message(id, attempts[a].asked) \in Failures'
      BY <3>1 DEF Fails
    <3>3. Message(id, attempts[a].asked).id = id
      BY DEF Message
    <3> QED BY <3>2, <3>3
  <2> QED BY <2>1, <2>2
<1>9. CanceledTold'
  <2> SUFFICES ASSUME NEW id \in OrderIds, orders'[id].status = "CANCELED"
               PROVE  id \in released' \/ \E m \in Cancellations' : m.id = id
    BY DEF CanceledTold
  <2>1. CASE orders[id].status = "CANCELED"
    BY <1>7, <2>1 DEF Backing, CanceledTold
  <2>2. CASE orders[id].status # "CANCELED"
    <3>1. Ends(id)
      BY <2>2, StepIs DEF Stays, Reserves, Fails, Places, Ends, Releases
    <3>2. Message(id, orders[id].rows) \in Cancellations'
      BY <3>1 DEF Ends
    <3>3. Message(id, orders[id].rows).id = id
      BY DEF Message
    <3> QED BY <3>2, <3>3
  <2> QED BY <2>1, <2>2
<1> QED BY <1>1, <1>3, <1>5, <1>8, <1>9 DEF Backing

-----------------------------------------------------------------------------
(* The sums of the accounts.                                               *)

(* The units sold with an order.                                           *)
SoldAt(id) == IF orders[id].status \in {"PENDING", "CONFIRMED"} THEN orders[id].rows ELSE 0

(* The accounts as functions, and their totals.                            *)
Takings == [a \in Attempts |-> Taken(a)]
Weights == [a \in Attempts |-> Weight(a)]
Sales == [id \in OrderIds |-> SoldAt(id)]

AllTaken == SumFunctionOnSet(Takings, Attempts)
AllWeight == SumFunctionOnSet(Weights, Attempts)
AllSold == SumFunctionOnSet(Sales, OrderIds)

(* The ids are finitely many.                                              *)
LEMMA KeysFinite == IsFiniteSet(Keys) /\ IsFiniteSet(Attempts) /\ IsFiniteSet(OrderIds) /\ OrderIds \subseteq Keys
BY FiniteAssumption, FS_AddElement DEF Keys

(* What a client may ask for, or a draft list, are numbers.                *)
LEMMA UnitsAreNumbers == \A units \in Units : units \in Nat
BY QuantitiesAssumption DEF Units

(* The terms are numbers, and so are the sums.                             *)
LEMMA Numbers ==
  ASSUME Typed, \A a \in Attempts : Started(attempts[a])
  PROVE  /\ \A a \in Attempts : Taken(a) \in Nat /\ Weight(a) \in Int /\ attempts[a].asked \in Nat
         /\ \A id \in OrderIds : SoldAt(id) \in Nat /\ orders[id].rows \in Nat
         /\ AllTaken \in Nat /\ AllWeight \in Int /\ AllSold \in Nat
<1>1. \A a \in Attempts : attempts[a].asked \in Nat
  BY AskedUnits
<1>2. ASSUME NEW id \in OrderIds PROVE orders[id].rows \in Nat
  <2>1. orders[id].rows \in Quantities \cup {0}
    BY DEF Typed, OrderStates
  <2> QED BY <2>1, UnitsAreNumbers DEF Units
<1>3. \A a \in Attempts : Taken(a) \in Nat
  BY <1>1 DEF Taken
<1>4. \A a \in Attempts : Weight(a) \in Int
  BY <1>1, <1>2 DEF Weight, Started
<1>5. \A id \in OrderIds : SoldAt(id) \in Nat
  BY <1>2 DEF SoldAt
<1>6. AllTaken \in Nat
  BY <1>3, KeysFinite, SumGrows DEF AllTaken, Takings
<1>7. AllWeight \in Int
  BY <1>4, KeysFinite, SumType DEF AllWeight, Weights
<1>8. AllSold \in Nat
  BY <1>5, KeysFinite, SumGrows DEF AllSold, Sales
<1> QED BY <1>1, <1>2, <1>3, <1>4, <1>5, <1>6, <1>7, <1>8

(* After a step too.                                                       *)
LEMMA NumbersNext ==
  ASSUME Sound, [Next]_vars
  PROVE  /\ \A a \in Attempts : Taken(a)' \in Nat /\ Weight(a)' \in Int
         /\ \A id \in OrderIds : SoldAt(id)' \in Nat
         /\ AllTaken' \in Nat /\ AllWeight' \in Int /\ AllSold' \in Nat
<1>1. Sound'
  BY SoundNext
<1>2. Typed' /\ \A a \in Attempts : Started(attempts[a])'
  BY <1>1 DEF Sound
<1>4. \A a \in Attempts : attempts'[a].asked \in Nat
  <2>1. ASSUME NEW a \in Attempts PROVE attempts'[a].asked \in Nat
    <3>1. attempts'[a] \in AttemptStates
      BY <1>2 DEF Typed
    <3>2. attempts'[a].asked \in Quantities \cup {0}
      BY <3>1 DEF AttemptStates
    <3> QED BY <3>2, UnitsAreNumbers DEF Units
  <2> QED BY <2>1
<1>5. ASSUME NEW id \in OrderIds PROVE orders'[id].rows \in Nat
  <2>1. orders'[id].rows \in Quantities \cup {0}
    BY <1>2 DEF Typed, OrderStates
  <2> QED BY <2>1, UnitsAreNumbers DEF Units
<1>6. \A a \in Attempts : Taken(a)' \in Nat
  BY <1>4 DEF Taken
<1>7. \A a \in Attempts : Weight(a)' \in Int
  BY <1>2, <1>4, <1>5 DEF Weight, Started
<1>8. \A id \in OrderIds : SoldAt(id)' \in Nat
  BY <1>5 DEF SoldAt
<1>9. AllTaken' \in Nat
  BY <1>6, KeysFinite, SumGrows DEF AllTaken, Takings
<1>10. AllWeight' \in Int
  BY <1>7, KeysFinite, SumType DEF AllWeight, Weights
<1>11. AllSold' \in Nat
  BY <1>8, KeysFinite, SumGrows DEF AllSold, Sales
<1> QED BY <1>6, <1>7, <1>8, <1>9, <1>10, <1>11

(* When one term changes, the sum changes by as much; when none does, it   *)
(* does not.                                                               *)
LEMMA TakenChanges ==
  ASSUME Sound, [Next]_vars, NEW a \in Attempts, \A b \in Attempts \ {a} : Taken(b)' = Taken(b)
  PROVE  AllTaken' = AllTaken - Taken(a) + Taken(a)'
<1>1. /\ \A b \in Attempts : Takings[b] = Taken(b) /\ Takings'[b] = Taken(b)'
      /\ \A b \in Attempts : Takings[b] \in Int /\ Takings'[b] \in Int
  BY Numbers, NumbersNext DEF Takings, Sound
<1>2. \A b \in Attempts \ {a} : Takings[b] = Takings'[b]
  BY <1>1
<1>3. SumFunctionOnSet(Takings', Attempts) = SumFunctionOnSet(Takings, Attempts) - Takings[a] + Takings'[a]
  BY <1>1, <1>2, KeysFinite, SumChanges
<1> QED BY <1>1, <1>3 DEF AllTaken

(* The same of the weights.                                                *)
LEMMA WeightChanges ==
  ASSUME Sound, [Next]_vars, NEW a \in Attempts, \A b \in Attempts \ {a} : Weight(b)' = Weight(b)
  PROVE  AllWeight' = AllWeight - Weight(a) + Weight(a)'
<1>1. /\ \A b \in Attempts : Weights[b] = Weight(b) /\ Weights'[b] = Weight(b)'
      /\ \A b \in Attempts : Weights[b] \in Int /\ Weights'[b] \in Int
  BY Numbers, NumbersNext DEF Weights, Sound
<1>2. \A b \in Attempts \ {a} : Weights[b] = Weights'[b]
  BY <1>1
<1>3. SumFunctionOnSet(Weights', Attempts) = SumFunctionOnSet(Weights, Attempts) - Weights[a] + Weights'[a]
  BY <1>1, <1>2, KeysFinite, SumChanges
<1> QED BY <1>1, <1>3 DEF AllWeight

(* And of what is sold.                                                    *)
LEMMA SoldChanges ==
  ASSUME Sound, [Next]_vars, NEW id \in OrderIds,
         \A other \in OrderIds \ {id} : orders'[other] = orders[other]
  PROVE  AllSold' = AllSold - SoldAt(id) + SoldAt(id)'
<1>1. /\ \A x \in OrderIds : Sales[x] = SoldAt(x) /\ Sales'[x] = SoldAt(x)'
      /\ \A x \in OrderIds : Sales[x] \in Int /\ Sales'[x] \in Int
  BY Numbers, NumbersNext DEF Sales, Sound
<1>2. \A x \in OrderIds \ {id} : SoldAt(x)' = SoldAt(x)
  BY DEF SoldAt
<1>3. \A x \in OrderIds \ {id} : Sales[x] = Sales'[x]
  BY <1>1, <1>2
<1>4. SumFunctionOnSet(Sales', OrderIds) = SumFunctionOnSet(Sales, OrderIds) - Sales[id] + Sales'[id]
  BY <1>1, <1>3, KeysFinite, SumChanges
<1> QED BY <1>1, <1>4 DEF AllSold

(* Nothing changes when no term does.                                      *)
LEMMA NothingChanges ==
  ASSUME Sound, [Next]_vars
  PROVE  /\ (\A a \in Attempts : Taken(a)' = Taken(a)) => AllTaken' = AllTaken
         /\ (\A a \in Attempts : Weight(a)' = Weight(a)) => AllWeight' = AllWeight
         /\ UNCHANGED orders => AllSold' = AllSold
<1>1. (\A a \in Attempts : Taken(a)' = Taken(a)) => Takings' = Takings
  BY DEF Takings
<1>2. (\A a \in Attempts : Weight(a)' = Weight(a)) => Weights' = Weights
  BY DEF Weights
<1>3. UNCHANGED orders => Sales' = Sales
  BY DEF Sales, SoldAt
<1> QED BY <1>1, <1>2, <1>3 DEF AllTaken, AllWeight, AllSold

(* One value of a function over the ids changes, and the sum with it.      *)
LEMMA KeyChanges ==
  ASSUME NEW r \in [Keys -> Nat], NEW k \in Keys, NEW v \in Nat
  PROVE  /\ SumFunctionOnSet(r, Keys) \in Nat
         /\ \E e \in [Keys -> Nat] :
              /\ e[k] = v /\ \A x \in Keys \ {k} : e[x] = r[x]
              /\ SumFunctionOnSet(e, Keys) = SumFunctionOnSet(r, Keys) - r[k] + v
<1> DEFINE e == [r EXCEPT ![k] = v]
<1>1. e \in [Keys -> Nat] /\ e[k] = v /\ \A x \in Keys \ {k} : r[x] = e[x]
  OBVIOUS
<1> HIDE DEF e
<1>2. \A x \in Keys : r[x] \in Int /\ e[x] \in Int /\ r[x] \in Nat
  BY <1>1
<1>3. SumFunctionOnSet(e, Keys) = SumFunctionOnSet(r, Keys) - r[k] + e[k]
  BY <1>1, <1>2, KeysFinite, SumChanges
<1>4. SumFunctionOnSet(r, Keys) \in Nat
  BY <1>2, KeysFinite, SumGrows
<1>5. e[k] = v
  BY <1>1
<1>6. /\ e \in [Keys -> Nat]
      /\ e[k] = v /\ \A x \in Keys \ {k} : e[x] = r[x]
      /\ SumFunctionOnSet(e, Keys) = SumFunctionOnSet(r, Keys) - r[k] + v
  BY <1>1, <1>3, <1>5
<1> QED BY <1>4, <1>6

-----------------------------------------------------------------------------
(* The books: what was given back, id by id.                               *)

(* What is in stock and was taken is what there was and was given back; and*)
(* what was given back for an id, some checkout of that id was to have.    *)
Books(r) ==
  /\ stock + AllTaken = Stock + SumFunctionOnSet(r, Keys)
  /\ \A k \in Keys : IF k \in released THEN Backed(k, r[k]) ELSE r[k] = 0
BooksBalance == \E r \in [Keys -> Nat] : Books(r)

(* The books stay balanced, and the stock is never less than nothing.      *)
LEMMA BooksKept ==
  ASSUME Sound, Backing, stock \in Nat, BooksBalance, [Next]_vars
  PROVE  BooksBalance' /\ stock' \in Nat
<1>1. PICK r \in [Keys -> Nat] : Books(r)
  BY DEF BooksBalance
<1>2. /\ AllTaken \in Nat /\ AllTaken' \in Nat /\ SumFunctionOnSet(r, Keys) \in Nat
      /\ \A a \in Attempts : Taken(a) \in Nat /\ Taken(a)' \in Nat /\ attempts[a].asked \in Nat
      /\ Stock \in Nat
  <2>1. \A k \in Keys : r[k] \in Nat
    OBVIOUS
  <2>2. SumFunctionOnSet(r, Keys) \in Nat
    BY <2>1, KeysFinite, SumGrows
  <2> QED BY <2>2, Numbers, NumbersNext, NumbersAssumption DEF Sound
<1>3. ASSUME UNCHANGED <<stock, released>>, \A a \in Attempts : Taken(a)' = Taken(a)
      PROVE  Books(r)' /\ stock' \in Nat
  <2>1. stock' + AllTaken' = Stock + SumFunctionOnSet(r, Keys)
    BY <1>1, <1>3, NothingChanges DEF Books
  <2>2. \A k \in Keys : IF k \in released' THEN Backed(k, r[k])' ELSE r[k] = 0
    BY <1>1, <1>3, BackedStays DEF Books
  <2> QED BY <1>3, <2>1, <2>2 DEF Books
<1>4. CASE Stays \/ \E id \in OrderIds : Ends(id)
  BY <1>3, <1>4 DEF Stays, Ends, Still, BooksBalance
<1>5. ASSUME NEW a \in Attempts, (\E id \in Keys : Fails(a, id)) \/ (\E id \in OrderIds : Places(a, id))
      PROVE  BooksBalance' /\ stock' \in Nat
  <2>1. \A b \in Attempts : Taken(b)' = Taken(b)
    BY <1>5 DEF Fails, Places, Still
  <2> QED BY <1>3, <1>5, <2>1 DEF Fails, Places, BooksBalance
<1>6. ASSUME NEW a \in Attempts, Reserves(a) PROVE BooksBalance' /\ stock' \in Nat
  <2>1. AllTaken' = AllTaken - Taken(a) + Taken(a)'
    BY <1>6, TakenChanges DEF Reserves, Still
  <2>2. stock' \in Nat /\ stock' + AllTaken' = stock + AllTaken
    BY <1>2, <1>6, <2>1 DEF Reserves
  <2>3. \A k \in Keys : IF k \in released' THEN Backed(k, r[k])' ELSE r[k] = 0
    BY <1>1, <1>6, BackedStays DEF Books, Reserves
  <2>4. Books(r)'
    BY <1>1, <2>2, <2>3 DEF Books
  <2> QED BY <2>2, <2>4 DEF BooksBalance
<1>7. ASSUME NEW m \in Messages, Releases(m) PROVE BooksBalance' /\ stock' \in Nat
  <2>1. m.id \in Keys /\ m.units \in Nat
    <3>1. m.id \in Keys /\ m.units \in Quantities \cup {0}
      BY DEF Messages, Keys
    <3> QED BY <3>1, UnitsAreNumbers DEF Units
  <2>2. \A a \in Attempts : Taken(a)' = Taken(a)
    BY <1>7 DEF Releases, Still
  <2>3. CASE m.id \in released
    BY <1>3, <1>7, <2>2, <2>3 DEF Releases, BooksBalance
  <2>4. CASE m.id \notin released
    <3>1. r[m.id] = 0
      BY <1>1, <2>1, <2>4 DEF Books
    <3>2. PICK e \in [Keys -> Nat] :
            /\ e[m.id] = m.units /\ \A k \in Keys \ {m.id} : e[k] = r[k]
            /\ SumFunctionOnSet(e, Keys) = SumFunctionOnSet(r, Keys) - r[m.id] + m.units
      <4>1. PICK id \in Keys, units \in Nat : id = m.id /\ units = m.units
        BY <2>1
      <4>2. \E e \in [Keys -> Nat] :
              /\ e[id] = units /\ \A k \in Keys \ {id} : e[k] = r[k]
              /\ SumFunctionOnSet(e, Keys) = SumFunctionOnSet(r, Keys) - r[id] + units
        BY KeyChanges
      <4> QED BY <4>1, <4>2
    <3>3. stock' = stock + m.units /\ released' = released \cup {m.id}
      BY <1>7, <2>4 DEF Releases
    <3>4. stock' + AllTaken' = Stock + SumFunctionOnSet(e, Keys)
      <4>1. AllTaken' = AllTaken /\ stock + AllTaken = Stock + SumFunctionOnSet(r, Keys)
        BY <1>1, <2>2, NothingChanges DEF Books
      <4> QED BY <1>2, <2>1, <3>1, <3>2, <3>3, <4>1
    <3>5. ASSUME NEW k \in Keys PROVE IF k \in released' THEN Backed(k, e[k])' ELSE e[k] = 0
      <4>1. CASE k = m.id
        <5>1. Backed(m.id, m.units)
          BY <1>7 DEF Releases, Backing, MessagesBacked, Waiting
        <5>2. e[k] = m.units /\ k \in released'
          BY <2>1, <3>2, <3>3, <4>1
        <5> QED BY <4>1, <5>1, <5>2, BackedStays
      <4>2. CASE k # m.id
        <5>1. e[k] = r[k] /\ (k \in released' <=> k \in released)
          BY <3>2, <3>3, <4>2
        <5> QED BY <1>1, <5>1, BackedStays DEF Books
      <4> QED BY <4>1, <4>2
    <3>6. Books(e)'
      BY <3>4, <3>5 DEF Books
    <3>7. stock' \in Nat
      BY <2>1, <3>3
    <3> QED BY <3>2, <3>6, <3>7 DEF BooksBalance
  <2> QED BY <2>3, <2>4
<1> QED BY <1>4, <1>5, <1>6, <1>7, StepIs

-----------------------------------------------------------------------------
(* What is still to be given back, id by id, is not for sale.              *)

(* Every message that will give units back has them in p; what is in stock,*)
(* sold and in p is no more than what the weights allow.                   *)
Covered(p) == \A m \in Waiting : m.id \notin released => m.units <= p[m.id]
Promise(p) ==
  /\ stock + AllSold + SumFunctionOnSet(p, Keys) <= Stock + AllWeight
  /\ Covered(p)
PromiseHolds == \E p \in [Keys -> Nat] : Promise(p)

(* What messages say.                                                      *)
LEMMA WaitingTyped ==
  ASSUME Sound, NEW m \in Waiting
  PROVE  m.id \in Keys /\ m.units \in Nat
<1>1. topics.failed \in Seq(Messages) /\ topics.canceled \in Seq(Messages)
  BY DEF Sound, Typed, Topics
<1>2. (\A x \in Range(topics.failed) : x \in Messages) /\ (\A x \in Range(topics.canceled) : x \in Messages)
  BY <1>1, ElementOfSeq DEF Range
<1>3. m \in Messages
  BY <1>2 DEF Waiting, Failures, Cancellations
<1>4. m.id \in Keys /\ m.units \in Units
  BY <1>3 DEF Messages, Keys, Units
<1> QED BY <1>4, UnitsAreNumbers

(* A message more is covered with as many units more for its id.           *)
LEMMA CoveredMore ==
  ASSUME NEW p \in [Keys -> Nat], NEW e \in [Keys -> Nat], NEW id \in Keys, NEW units \in Nat,
         e[id] = p[id] + units, \A k \in Keys \ {id} : e[k] = p[k],
         Sound, [Next]_vars, Covered(p), UNCHANGED released,
         Waiting' \subseteq Waiting \cup {Message(id, units)}
  PROVE  Covered(e)'
<1> SUFFICES ASSUME NEW m \in Waiting', m.id \notin released PROVE m.units <= e[m.id]
  BY DEF Covered
<1>2. CASE m \in Waiting
  <2>1. m.units <= p[m.id] /\ m.units \in Nat /\ m.id \in Keys
    BY <1>2, WaitingTyped DEF Covered
  <2>2. PICK k \in Keys : k = m.id
    BY <2>1
  <2>3. p[k] \in Nat /\ e[k] \in Nat /\ p[k] <= e[k]
    BY <2>2
  <2> QED BY <2>1, <2>2, <2>3
<1>3. CASE m = Message(id, units)
  <2>1. m.id = id /\ m.units = units
    BY <1>3 DEF Message
  <2>2. p[id] \in Nat
    OBVIOUS
  <2> QED BY <2>1, <2>2
<1> QED BY <1>2, <1>3

(* Every step keeps the promise.                                           *)
LEMMA PromiseKept ==
  ASSUME Sound, stock \in Nat, PromiseHolds, [Next]_vars
  PROVE  PromiseHolds'
<1>1. PICK p \in [Keys -> Nat] : Promise(p)
  BY DEF PromiseHolds
<1>2. /\ AllSold \in Nat /\ AllSold' \in Nat /\ AllWeight \in Int /\ AllWeight' \in Int
      /\ \A a \in Attempts : Weight(a) \in Int /\ Weight(a)' \in Int /\ attempts[a].asked \in Nat
      /\ \A id \in OrderIds : SoldAt(id) \in Nat /\ SoldAt(id)' \in Nat /\ orders[id].rows \in Nat
      /\ Stock \in Nat /\ SumFunctionOnSet(p, Keys) \in Nat
  <2>1. \A k \in Keys : p[k] \in Nat
    OBVIOUS
  <2>2. SumFunctionOnSet(p, Keys) \in Nat
    BY <2>1, KeysFinite, SumGrows
  <2> QED BY <2>2, Numbers, NumbersNext, NumbersAssumption DEF Sound
<1>3. ASSUME NEW id \in Keys, NEW units \in Nat, UNCHANGED <<stock, released>>,
             Waiting' \subseteq Waiting \cup {Message(id, units)},
             AllSold' - AllWeight' + units <= AllSold - AllWeight
      PROVE  PromiseHolds'
  <2>1. p[id] + units \in Nat
    OBVIOUS
  <2>2. PICK e \in [Keys -> Nat] :
          /\ e[id] = p[id] + units /\ \A k \in Keys \ {id} : e[k] = p[k]
          /\ SumFunctionOnSet(e, Keys) = SumFunctionOnSet(p, Keys) - p[id] + (p[id] + units)
    BY <2>1, KeyChanges
  <2>3. Covered(e)'
    BY <1>1, <1>3, <2>2, CoveredMore DEF Promise
  <2>4. SumFunctionOnSet(e, Keys) = SumFunctionOnSet(p, Keys) + units
    BY <1>2, <2>2
  <2>5. stock + AllSold + SumFunctionOnSet(p, Keys) <= Stock + AllWeight
    BY <1>1 DEF Promise
  <2>6. stock' = stock /\ AllSold' - AllWeight' + units <= AllSold - AllWeight
    BY <1>3
  <2>7. /\ AllSold \in Int /\ AllSold' \in Int /\ AllWeight \in Int /\ AllWeight' \in Int
        /\ Stock \in Int /\ SumFunctionOnSet(p, Keys) \in Int
    BY <1>2
  <2>8. stock' + AllSold' + SumFunctionOnSet(e, Keys) <= Stock + AllWeight'
    <3>1. PICK sold \in Int, soldNext \in Int, w \in Int, wNext \in Int, f \in Int :
            /\ sold = AllSold /\ soldNext = AllSold' /\ w = AllWeight /\ wNext = AllWeight'
            /\ f = SumFunctionOnSet(p, Keys)
      BY <2>7
    <3>2. stock + sold + f <= Stock + w /\ soldNext - wNext + units <= sold - w
      BY <2>5, <2>6, <3>1
    <3>3. stock + soldNext + (f + units) <= Stock + wNext
      BY <2>7, <3>2
    <3> QED BY <2>4, <2>6, <3>1, <3>3
  <2> QED BY <2>3, <2>8 DEF Promise, PromiseHolds
<1>4. ASSUME UNCHANGED released, Waiting' = Waiting, stock' + AllSold' - AllWeight' <= stock + AllSold - AllWeight,
             stock' \in Int
      PROVE  PromiseHolds'
  <2>1. stock + AllSold + SumFunctionOnSet(p, Keys) <= Stock + AllWeight
    BY <1>1 DEF Promise
  <2>2. stock' + AllSold' + SumFunctionOnSet(p, Keys) <= Stock + AllWeight'
    BY <1>2, <1>4, <2>1
  <2>3. Covered(p)'
    BY <1>1, <1>4 DEF Promise, Covered
  <2> QED BY <2>2, <2>3 DEF Promise, PromiseHolds
<1>5. CASE Stays
  <2>1. AllSold' = AllSold /\ AllWeight' = AllWeight
    BY <1>5, NothingChanges DEF Stays, Still
  <2> QED BY <1>2, <1>4, <1>5, <2>1 DEF Stays, Waiting
<1>6. ASSUME NEW a \in Attempts, Reserves(a) PROVE PromiseHolds'
  <2>1. AllWeight' = AllWeight - Weight(a) + Weight(a)'
    BY <1>6, WeightChanges DEF Reserves, Still
  <2>2. AllSold' = AllSold
    BY <1>6, NothingChanges DEF Reserves
  <2>3. /\ Weight(a) = 0 /\ Weight(a)' \in {0, 0 - attempts[a].asked}
        /\ stock' = stock - attempts[a].asked
    BY <1>6 DEF Reserves
  <2>4. stock' \in Int /\ stock' + AllSold' - AllWeight' <= stock + AllSold - AllWeight
    BY <1>2, <2>1, <2>2, <2>3
  <2> QED BY <1>4, <1>6, <2>4 DEF Reserves, Waiting
<1>7. ASSUME NEW a \in Attempts, NEW id \in Keys, Fails(a, id) PROVE PromiseHolds'
  <2>1. AllWeight' = AllWeight - Weight(a) + Weight(a)'
    BY <1>7, WeightChanges DEF Fails, Still
  <2>2. AllSold' = AllSold
    BY <1>7, NothingChanges DEF Fails
  <2>3. Weight(a) = 0 - attempts[a].asked /\ Weight(a)' = 0 /\ attempts[a].asked \in Nat
    BY <1>2, <1>7 DEF Fails
  <2>4. AllSold' - AllWeight' + attempts[a].asked <= AllSold - AllWeight
    BY <1>2, <2>1, <2>2, <2>3
  <2>5. Waiting' \subseteq Waiting \cup {Message(id, attempts[a].asked)}
    BY <1>7 DEF Fails, Waiting
  <2> QED BY <1>3, <1>7, <2>3, <2>4, <2>5 DEF Fails
<1>8. ASSUME NEW a \in Attempts, NEW id \in OrderIds, Places(a, id) PROVE PromiseHolds'
  <2>1. AllWeight' = AllWeight - Weight(a) + Weight(a)'
    BY <1>8, WeightChanges DEF Places, Still
  <2>2. AllSold' = AllSold - SoldAt(id) + SoldAt(id)'
    BY <1>8, SoldChanges DEF Places
  <2>3. SoldAt(id)' = orders[id].rows
    BY <1>8, RowsKept DEF Places, SoldAt
  <2>4. Weight(a) = 0 - attempts[a].asked /\ Weight(a)' = orders[id].rows - attempts[a].asked
    BY <1>8 DEF Places
  <2>5. stock' = stock /\ stock' + AllSold' - AllWeight' <= stock + AllSold - AllWeight
    BY <1>2, <1>8, <2>1, <2>2, <2>3, <2>4 DEF Places
  <2> QED BY <1>4, <1>8, <2>5 DEF Places, Waiting
<1>9. ASSUME NEW id \in OrderIds, Ends(id) PROVE PromiseHolds'
  <2>1. AllWeight' = AllWeight
    BY <1>9, NothingChanges DEF Ends, Still
  <2>2. AllSold' = AllSold - SoldAt(id) + SoldAt(id)'
    BY <1>9, SoldChanges DEF Ends
  <2>3. SoldAt(id) = orders[id].rows
    BY <1>9 DEF Ends, SoldAt
  <2>4. CASE orders'[id].status = "CONFIRMED" /\ UNCHANGED Cancellations
    <3>1. SoldAt(id)' = orders[id].rows
      BY <2>4, RowsKept DEF SoldAt
    <3>2. stock' = stock /\ stock' + AllSold' - AllWeight' <= stock + AllSold - AllWeight
      BY <1>2, <1>9, <2>1, <2>2, <2>3, <3>1 DEF Ends
    <3> QED BY <1>4, <1>9, <2>4, <3>2 DEF Ends, Waiting
  <2>5. CASE /\ orders'[id].status = "CANCELED"
             /\ Cancellations' = Cancellations \cup {Message(id, orders[id].rows)}
    <3>1. SoldAt(id)' = 0
      BY <2>5 DEF SoldAt
    <3>2. AllSold' - AllWeight' + orders[id].rows <= AllSold - AllWeight
      BY <1>2, <2>1, <2>2, <2>3, <3>1
    <3>3. Waiting' \subseteq Waiting \cup {Message(id, orders[id].rows)}
      BY <1>9, <2>5 DEF Ends, Waiting
    <3>4. id \in Keys /\ orders[id].rows \in Nat
      BY <1>2, KeysFinite
    <3> QED BY <1>3, <1>9, <3>2, <3>3, <3>4 DEF Ends
  <2> QED BY <1>9, <2>4, <2>5 DEF Ends
<1>10. ASSUME NEW m \in Messages, Releases(m) PROVE PromiseHolds'
  <2>1. m.id \in Keys /\ m.units \in Nat
    <3>1. m.id \in Keys /\ m.units \in Quantities \cup {0}
      BY DEF Messages, Keys
    <3> QED BY <3>1, UnitsAreNumbers DEF Units
  <2>2. AllSold' = AllSold /\ AllWeight' = AllWeight
    BY <1>10, NothingChanges DEF Releases, Still
  <2>3. Waiting' \subseteq Waiting /\ m \in Waiting
    BY <1>10 DEF Releases, Waiting
  <2>4. stock + AllSold + SumFunctionOnSet(p, Keys) <= Stock + AllWeight
    BY <1>1 DEF Promise
  <2>5. CASE m.id \in released
    <3>1. stock' = stock /\ released' = released
      BY <1>10, <2>5 DEF Releases
    <3>2. Covered(p)'
      BY <1>1, <2>3, <3>1 DEF Promise, Covered
    <3> QED BY <2>2, <2>4, <3>1, <3>2 DEF Promise, PromiseHolds
  <2>6. CASE m.id \notin released
    <3>1. PICK id \in Keys, units \in Nat : id = m.id /\ units = m.units
      BY <2>1
    <3>2. PICK e \in [Keys -> Nat] :
            /\ e[id] = 0 /\ \A k \in Keys \ {id} : e[k] = p[k]
            /\ SumFunctionOnSet(e, Keys) = SumFunctionOnSet(p, Keys) - p[id] + 0
      <4>1. PICK none \in Nat : none = 0
        OBVIOUS
      <4>2. \E e \in [Keys -> Nat] :
              /\ e[id] = none /\ \A k \in Keys \ {id} : e[k] = p[k]
              /\ SumFunctionOnSet(e, Keys) = SumFunctionOnSet(p, Keys) - p[id] + none
        BY KeyChanges
      <4> QED BY <4>1, <4>2
    <3>3. units <= p[id]
      BY <1>1, <2>3, <2>6, <3>1 DEF Promise, Covered
    <3>4. stock' = stock + units /\ released' = released \cup {id}
      BY <1>10, <2>6, <3>1 DEF Releases
    <3>5. p[id] \in Nat
      OBVIOUS
    <3>6. stock' + AllSold' + SumFunctionOnSet(e, Keys) <= Stock + AllWeight'
      BY <1>2, <2>2, <2>4, <3>2, <3>3, <3>4, <3>5
    <3>7. Covered(e)'
      <4> SUFFICES ASSUME NEW x \in Waiting', x.id \notin released' PROVE x.units <= e[x.id]
        BY DEF Covered
      <4>1. x \in Waiting /\ x.id \notin released /\ x.id # id
        BY <2>3, <3>4
      <4>2. x.units <= p[x.id]
        BY <1>1, <4>1 DEF Promise, Covered
      <4>3. x.id \in Keys
        BY <4>1, WaitingTyped
      <4> QED BY <3>2, <4>1, <4>2, <4>3
    <3> QED BY <3>6, <3>7 DEF Promise, PromiseHolds
  <2> QED BY <2>5, <2>6
<1> QED BY <1>5, <1>6, <1>7, <1>8, <1>9, <1>10, StepIs

-----------------------------------------------------------------------------
(* The sums the properties are about.                                      *)

(* The functions whose sums the properties of the checkout are made of.    *)
AskedOf == [a \in Attempts |-> attempts[a].asked]
ListedOf == [a \in Attempts |-> orders[attempts[a].order].rows]
Risks == [a \in Attempts |-> AtRisk(a)]
Missing == {a \in Reserved : Excused(a)}

(* What a placed checkout lists beyond what it asked for.                  *)
Surplus(a) == IF a \in Placed THEN orders[attempts[a].order].rows - attempts[a].asked ELSE 0
Surpluses == [a \in Attempts |-> Surplus(a)]
AllSurplus == SumFunctionOnSet(Surpluses, Attempts)

(* What is sold is a sum over the orders.                                  *)
LEMMA SoldSum == Sold = SumFunctionOnSet(Sales, OrderIds)
<1> DEFINE Sums(h) == h = [x \in SUBSET OrderIds |->
                             IF x = {} THEN 0 ELSE (IF orders[Pick(x)].status \in {"PENDING", "CONFIRMED"} THEN orders[Pick(x)].rows ELSE 0) + h[x \ {Pick(x)}]]
           g == CHOOSE h : Sums(h)
<1>1. IsFiniteSet(OrderIds)
  BY KeysFinite
<1>2. Sold = g[OrderIds]
  BY DEF Sold, MapThenSumSet, MapThenFoldSet, Pick
<1>3. \A x \in SUBSET OrderIds : x # {} => Sales[Pick(x)] = (IF orders[Pick(x)].status \in {"PENDING", "CONFIRMED"} THEN orders[Pick(x)].rows ELSE 0)
  BY PickIn DEF Sales, SoldAt
<1>4. \A h : Sums(h) <=> Adds(h, Sales, OrderIds)
  BY <1>3 DEF Adds
<1>5. \E h : Adds(h, Sales, OrderIds)
  BY <1>1, AddsExists
<1>6. Adds(g, Sales, OrderIds)
  <2> HIDE DEF Sums
  <2> QED BY <1>4, <1>5
<1> HIDE DEF g
<1> QED BY <1>1, <1>2, <1>6, SumByAdds

(* What was asked for in placed checkouts is a sum over them.              *)
LEMMA AskedSum == Asked(Placed) = SumFunctionOnSet(AskedOf, Placed)
<1> DEFINE Sums(h) == h = [x \in SUBSET Placed |->
                             IF x = {} THEN 0 ELSE attempts[Pick(x)].asked + h[x \ {Pick(x)}]]
           g == CHOOSE h : Sums(h)
<1>1. IsFiniteSet(Placed)
  BY KeysFinite, FS_Subset DEF Placed
<1>2. Asked(Placed) = g[Placed]
  BY DEF Asked, MapThenSumSet, MapThenFoldSet, Pick
<1>3. \A x \in SUBSET Placed : x # {} => AskedOf[Pick(x)] = attempts[Pick(x)].asked
  BY PickIn DEF AskedOf, Placed
<1>4. \A h : Sums(h) <=> Adds(h, AskedOf, Placed)
  BY <1>3 DEF Adds
<1>5. \E h : Adds(h, AskedOf, Placed)
  BY <1>1, AddsExists
<1>6. Adds(g, AskedOf, Placed)
  <2> HIDE DEF Sums
  <2> QED BY <1>4, <1>5
<1> HIDE DEF g
<1> QED BY <1>1, <1>2, <1>6, SumByAdds

(* And so is what their orders list.                                       *)
LEMMA ListedSum == Listed(Placed) = SumFunctionOnSet(ListedOf, Placed)
<1> DEFINE Sums(h) == h = [x \in SUBSET Placed |->
                             IF x = {} THEN 0 ELSE orders[attempts[Pick(x)].order].rows + h[x \ {Pick(x)}]]
           g == CHOOSE h : Sums(h)
<1>1. IsFiniteSet(Placed)
  BY KeysFinite, FS_Subset DEF Placed
<1>2. Listed(Placed) = g[Placed]
  BY DEF Listed, MapThenSumSet, MapThenFoldSet, Pick
<1>3. \A x \in SUBSET Placed : x # {} => ListedOf[Pick(x)] = orders[attempts[Pick(x)].order].rows
  BY PickIn DEF ListedOf, Placed
<1>4. \A h : Sums(h) <=> Adds(h, ListedOf, Placed)
  BY <1>3 DEF Adds
<1>5. \E h : Adds(h, ListedOf, Placed)
  BY <1>1, AddsExists
<1>6. Adds(g, ListedOf, Placed)
  <2> HIDE DEF Sums
  <2> QED BY <1>4, <1>5
<1> HIDE DEF g
<1> QED BY <1>1, <1>2, <1>6, SumByAdds

(* And what excused checkouts may lose.                                    *)
LEMMA RiskSum == MapThenSumSet(AtRisk, Missing) = SumFunctionOnSet(Risks, Missing)
<1> DEFINE Sums(h) == h = [x \in SUBSET Missing |->
                             IF x = {} THEN 0 ELSE AtRisk(Pick(x)) + h[x \ {Pick(x)}]]
           g == CHOOSE h : Sums(h)
<1>1. IsFiniteSet(Missing)
  BY KeysFinite, FS_Subset DEF Missing, Reserved
<1>2. MapThenSumSet(AtRisk, Missing) = g[Missing]
  BY DEF MapThenSumSet, MapThenFoldSet, Pick
<1>3. \A x \in SUBSET Missing : x # {} => Risks[Pick(x)] = AtRisk(Pick(x))
  BY PickIn DEF Risks, Missing, Reserved
<1>4. \A h : Sums(h) <=> Adds(h, Risks, Missing)
  BY <1>3 DEF Adds
<1>5. \E h : Adds(h, Risks, Missing)
  BY <1>1, AddsExists
<1>6. Adds(g, Risks, Missing)
  <2> HIDE DEF Sums
  <2> QED BY <1>4, <1>5
<1> HIDE DEF g
<1> QED BY <1>1, <1>2, <1>6, SumByAdds

(* So Expected is the stock and the surplus of every checkout.             *)
LEMMA ExpectedIs ==
  ASSUME Sound
  PROVE  Expected = Stock + AllSurplus /\ AllSurplus \in Int /\ \A a \in Attempts : Surplus(a) \in Int
<1> DEFINE difference == [a \in Attempts |-> orders[attempts[a].order].rows - attempts[a].asked]
<1>0. Placed \in SUBSET Attempts /\ IsFiniteSet(Placed)
  BY KeysFinite, FS_Subset DEF Placed
<1>1. \A a \in Placed : orders[attempts[a].order].rows \in Nat /\ attempts[a].asked \in Nat
  <2>1. \A a \in Placed : attempts[a].order \in OrderIds
    BY DEF Sound, Started, Placed
  <2> QED BY <1>0, <2>1, Numbers DEF Sound
<1>2. \A a \in Placed : /\ ListedOf[a] = orders[attempts[a].order].rows /\ AskedOf[a] = attempts[a].asked
                        /\ difference[a] = orders[attempts[a].order].rows - attempts[a].asked
                        /\ Surpluses[a] = orders[attempts[a].order].rows - attempts[a].asked
  BY <1>0 DEF ListedOf, AskedOf, Surpluses, Surplus
<1>3. \A a \in Attempts \ Placed : Surpluses[a] = 0
  BY DEF Surpluses, Surplus
<1> HIDE DEF difference
<1>4. \A a \in Placed : /\ difference[a] \in Int /\ AskedOf[a] \in Int
                        /\ ListedOf[a] = difference[a] + AskedOf[a] /\ Surpluses[a] = difference[a]
  BY <1>1, <1>2
<1>5. SumFunctionOnSet(ListedOf, Placed)
        = SumFunctionOnSet(difference, Placed) + SumFunctionOnSet(AskedOf, Placed)
  BY <1>0, <1>4, SumPlus
<1>6. AllSurplus = SumFunctionOnSet(difference, Placed)
  BY <1>0, <1>3, <1>4, KeysFinite, SumPart DEF AllSurplus
<1>7. SumFunctionOnSet(difference, Placed) \in Int /\ SumFunctionOnSet(AskedOf, Placed) \in Int
  BY <1>0, <1>4, SumType
<1>8. Stock \in Int
  BY NumbersAssumption
<1>9. \A a \in Attempts : Surplus(a) \in Int
  BY <1>1 DEF Surplus
<1> QED BY <1>5, <1>6, <1>7, <1>8, <1>9, AskedSum, ListedSum DEF Expected

(* What is in stock and sold is no more than was to be expected.           *)
LEMMA PromiseMeansStock ==
  ASSUME Sound, stock \in Nat, PromiseHolds
  PROVE  SoldWithinStock
<1> DEFINE debt == [a \in Attempts |-> Surplus(a) - Weight(a)]
<1>1. PICK p \in [Keys -> Nat] : Promise(p)
  BY DEF PromiseHolds
<1>2. /\ \A a \in Attempts : Weight(a) \in Int /\ attempts[a].asked \in Nat
      /\ AllSold \in Nat /\ AllWeight \in Int
      /\ \A a \in Attempts : Surplus(a) \in Int
      /\ AllSurplus \in Int /\ Expected = Stock + AllSurplus
  BY Numbers, ExpectedIs DEF Sound
<1>3. ASSUME NEW a \in Attempts PROVE Surplus(a) - Weight(a) \in Nat
  <2>1. CASE a \in Placed
    <3>1. Surplus(a) = Weight(a)
      BY <2>1 DEF Surplus, Weight, Placed
    <3> QED BY <1>2, <3>1
  <2>2. CASE a \notin Placed
    <3>1. Surplus(a) = 0 /\ (Weight(a) = 0 \/ Weight(a) = 0 - attempts[a].asked)
      BY <2>2 DEF Surplus, Weight, Placed
    <3> QED BY <1>2, <3>1
  <2> QED BY <2>1, <2>2
<1>4. \A a \in Attempts : debt[a] \in Nat /\ Weights[a] \in Int /\ Surpluses[a] = Weights[a] + debt[a]
  BY <1>2, <1>3 DEF Weights, Surpluses
<1> HIDE DEF debt
<1>5. AllSurplus = AllWeight + SumFunctionOnSet(debt, Attempts) /\ SumFunctionOnSet(debt, Attempts) \in Nat
  <2>1. \A a \in Attempts : debt[a] \in Int
    BY <1>4
  <2>2. SumFunctionOnSet(Surpluses, Attempts) = SumFunctionOnSet(Weights, Attempts) + SumFunctionOnSet(debt, Attempts)
    BY <1>4, <2>1, KeysFinite, SumPlus
  <2>3. SumFunctionOnSet(debt, Attempts) \in Nat
    BY <1>4, KeysFinite, SumGrows
  <2> QED BY <2>2, <2>3 DEF AllSurplus, AllWeight
<1>6. SumFunctionOnSet(p, Keys) \in Nat
  <2>1. \A k \in Keys : p[k] \in Nat
    OBVIOUS
  <2> QED BY <2>1, KeysFinite, SumGrows
<1>7. Sold = AllSold /\ Stock \in Nat
  BY SoldSum, NumbersAssumption DEF AllSold
<1>8. stock + AllSold + SumFunctionOnSet(p, Keys) <= Stock + AllWeight
  BY <1>1 DEF Promise
<1>9. stock + AllSold <= Stock + AllSurplus
  BY <1>2, <1>5, <1>6, <1>7, <1>8
<1> QED BY <1>2, <1>7, <1>9 DEF SoldWithinStock

-----------------------------------------------------------------------------
(* The inductive invariant: types and outcomes, who stands behind what, the*)
(* books and the promise.                                                  *)
Secure == Sound /\ Backing /\ stock \in Nat /\ BooksBalance /\ PromiseHolds

(* It holds at the start.                                                  *)
LEMMA SecureInit == Init => Secure
<1> SUFFICES ASSUME Init PROVE Secure
  OBVIOUS
<1>1. Sound /\ stock = Stock /\ Stock \in Nat /\ released = {}
  BY SoundInit, NumbersAssumption DEF Init
<1>2. \A a \in Attempts : attempts[a].orderService = "idle" /\ attempts[a].inventory = "idle"
  BY DEF Init, Fresh
<1>3. \A id \in OrderIds : orders[id].status \in {"none", "DRAFT"}
  <2>1. PICK cart \in Carts : orders = [id \in OrderIds |->
           IF id \in DOMAIN cart THEN [status |-> "DRAFT", rows |-> cart[id]]
           ELSE [status |-> "none", rows |-> 0]]
    BY DEF Init
  <2> QED BY <2>1
<1>4. Waiting = {}
  BY DEF Init, Waiting, Failures, Cancellations, Range
<1>5. Backing
  BY <1>2, <1>3, <1>4 DEF Backing, MessagesBacked, OrdersBacked, PlacedHave, FailedTold, CanceledTold,
                          Placed, Taking
<1>6. AllTaken = 0 /\ AllWeight = 0 /\ AllSold = 0
  <2>1. \A a \in Attempts : Takings[a] = 0 /\ Weights[a] = 0
    BY <1>2 DEF Takings, Taken, Weights, Weight
  <2>2. \A id \in OrderIds : Sales[id] = 0
    BY <1>3 DEF Sales, SoldAt
  <2> QED BY <2>1, <2>2, KeysFinite, SumZero DEF AllTaken, AllWeight, AllSold
<1>7. PICK r \in [Keys -> Nat] : (\A k \in Keys : r[k] = 0) /\ SumFunctionOnSet(r, Keys) = 0
  <2> DEFINE zero == [k \in Keys |-> 0]
  <2>1. zero \in [Keys -> Nat] /\ \A k \in Keys : zero[k] = 0
    OBVIOUS
  <2> HIDE DEF zero
  <2>2. SumFunctionOnSet(zero, Keys) = 0
    BY <2>1, KeysFinite, SumZero
  <2> QED BY <2>1, <2>2
<1>8. BooksBalance
  BY <1>1, <1>6, <1>7 DEF BooksBalance, Books
<1>9. PromiseHolds
  BY <1>1, <1>4, <1>6, <1>7 DEF PromiseHolds, Promise, Covered
<1> QED BY <1>1, <1>5, <1>8, <1>9 DEF Secure

(* Every step keeps it.                                                    *)
LEMMA SecureNext == Secure /\ [Next]_vars => Secure'
BY SoundNext, BackingKept, BooksKept, PromiseKept DEF Secure

(* It holds in every reachable state.                                      *)
LEMMA SecureInvariant == Spec => []Secure
BY SecureInit, SecureNext, PTL DEF Spec

(* Whatever fails, times out or is delivered twice, the units in stock and *)
(* in orders are no more than there were, but for what the rows of placed  *)
(* orders list beyond what was reserved for them.                          *)
THEOREM NothingFromNowhere == Spec => []SoldWithinStock
<1>1. Secure => SoldWithinStock
  BY PromiseMeansStock DEF Secure
<1> QED BY <1>1, SecureInvariant, PTL

-----------------------------------------------------------------------------
(* What was given back for orders is bounded by what they may list; what   *)
(* was given back for none of them, by what was taken for that checkout.   *)
LEMMA StockBound ==
  ASSUME Sound, stock \in Nat, BooksBalance
  PROVE  stock <= Stock + Cardinality(OrderIds) * Max(Quantities)
<1> DEFINE most == Max(Quantities)
<1>1. PICK r \in [Keys -> Nat] : Books(r)
  BY DEF BooksBalance
<1>2. most \in Nat /\ \A q \in Quantities : q \in Nat /\ q <= most
  <2>1. Quantities # {} /\ IsFiniteSet(Quantities) /\ \A q \in Quantities : q \in Nat
    BY QuantitiesAssumption
  <2> QED BY <2>1, Largest
<1> HIDE DEF most
<1>3. ASSUME NEW k \in Keys PROVE r[k] \in Nat /\ r[k] <= most
  <2>1. CASE k \notin released
    BY <1>1, <1>2, <2>1 DEF Books
  <2>2. CASE k \in released
    <3>1. PICK a \in Attempts : Ended(a) /\ Share(a) = r[k]
      BY <1>1, <2>2 DEF Books, Backed
    <3>2. Share(a) \in Quantities \cup {0}
      <4>1. attempts[a].orderService = "placed" => attempts[a].order \in OrderIds
        BY DEF Sound, Started
      <4>2. attempts[a] \in AttemptStates /\ orders \in [OrderIds -> OrderStates]
        BY DEF Sound, Typed
      <4> QED BY <4>1, <4>2 DEF Share, AttemptStates, OrderStates
    <3> QED BY <1>2, <3>1, <3>2
  <2> QED BY <2>1, <2>2
<1>4. SumFunctionOnSet(r, OrderIds) <= Cardinality(OrderIds) * most
  <2>1. \A k \in OrderIds : r[k] \in Int /\ r[k] <= most
    BY <1>3, KeysFinite
  <2>2. most \in Int
    BY <1>2
  <2> QED BY <2>1, <2>2, KeysFinite, SumBound
<1>5. SumFunctionOnSet(r, Keys) = r[Null] + SumFunctionOnSet(r, OrderIds)
  <2>1. Null \in Keys /\ Keys \ {Null} = OrderIds
    BY IdsAssumption DEF Keys
  <2>2. \A k \in Keys : r[k] \in Int
    BY <1>3
  <2>3. SumFunctionOnSet(r, Keys) = r[Null] + SumFunctionOnSet(r, Keys \ {Null})
    BY <2>1, <2>2, KeysFinite, SumOut
  <2> QED BY <2>1, <2>3
<1>6. r[Null] <= AllTaken
  <2>0. AllTaken \in Nat /\ Null \in Keys
    BY Numbers DEF Sound, Keys
  <2>1. CASE Null \notin released
    BY <1>1, <2>0, <2>1 DEF Books
  <2>2. CASE Null \in released
    <3>1. PICK a \in Attempts : Ended(a) /\ attempts[a].order = Null /\ Share(a) = r[Null]
      BY <1>1, <2>0, <2>2 DEF Books, Backed
    <3>2. attempts[a].orderService = "failed" /\ attempts[a].inventory = "reserved"
      BY <3>1, IdsAssumption DEF Ended, Sound, Started
    <3>3. Takings[a] = r[Null]
      BY <3>1, <3>2 DEF Share, Takings, Taken
    <3>4. \A b \in Attempts : Takings[b] \in Nat
      BY Numbers DEF Sound, Takings
    <3>5. AllTaken = Takings[a] + SumFunctionOnSet(Takings, Attempts \ {a})
      <4>1. \A b \in Attempts : Takings[b] \in Int
        BY <3>4
      <4> QED BY <4>1, KeysFinite, SumOut DEF AllTaken
    <3>6. SumFunctionOnSet(Takings, Attempts \ {a}) \in Nat
      BY <3>4, KeysFinite, SumGrows
    <3>7. Takings[a] \in Nat
      BY <3>4
    <3> QED BY <3>3, <3>5, <3>6, <3>7
  <2> QED BY <2>1, <2>2
<1>7. stock + AllTaken = Stock + SumFunctionOnSet(r, Keys)
  BY <1>1 DEF Books
<1>8. /\ AllTaken \in Int /\ Stock \in Int /\ r[Null] \in Int
      /\ SumFunctionOnSet(r, OrderIds) \in Int /\ Cardinality(OrderIds) * most \in Int
  <2>1. Cardinality(OrderIds) \in Nat
    BY KeysFinite, FS_CardinalityType
  <2>2. Cardinality(OrderIds) * most \in Int
    BY <1>2, <2>1
  <2>3. \A k \in OrderIds : r[k] \in Int
    BY KeysFinite
  <2>4. r[Null] \in Int
    BY DEF Keys
  <2>5. SumFunctionOnSet(r, OrderIds) \in Int
    BY <2>3, KeysFinite, SumType
  <2> QED BY <2>2, <2>4, <2>5, Numbers, NumbersAssumption DEF Sound
<1>9. PICK bound \in Int : bound = Cardinality(OrderIds) * most
  BY <1>8
<1>10. SumFunctionOnSet(r, OrderIds) <= bound
  BY <1>4, <1>9
<1>11. stock <= Stock + bound
  BY <1>5, <1>6, <1>7, <1>8, <1>10
<1> QED BY <1>9, <1>11 DEF most

(* Every reachable state has the types stated, and a stock of at least     *)
(* nothing and at most what orders can have added to it.                   *)
THEOREM TypeCorrect == Spec => []TypeOK
<1>1. Secure => TypeOK
  <2> SUFFICES ASSUME Secure PROVE TypeOK
    OBVIOUS
  <2>1. Sound /\ stock \in Nat /\ BooksBalance
    BY DEF Secure
  <2>2. stock \in 0 .. Stock + Cardinality(OrderIds) * Max(Quantities)
    <3>1. Stock + Cardinality(OrderIds) * Max(Quantities) \in Int
      <4>1. Cardinality(OrderIds) \in Int
        BY KeysFinite, FS_CardinalityType
      <4>2. Quantities # {} /\ IsFiniteSet(Quantities) /\ \A q \in Quantities : q \in Nat
        BY QuantitiesAssumption
      <4>3. Max(Quantities) \in Int /\ Stock \in Int
        BY <4>2, Largest, NumbersAssumption
      <4> QED BY <4>1, <4>3
    <3> QED BY <2>1, <3>1, StockBound
  <2>3. \A a \in Attempts : attempts[a].orderService # "idle" => attempts[a].inventory = "reserved"
    BY <2>1 DEF Sound, Started
  <2>4. payments \in [OrderIds -> Statuses]
    BY <2>1 DEF Sound, IInv
  <2> QED BY <2>1, <2>2, <2>3, <2>4 DEF Sound, Typed, OrderStates, ReadSoFar, TypeOK
<1> QED BY <1>1, SecureInvariant, PTL

-----------------------------------------------------------------------------
(* When nothing is under way, every checkout that took units and is not    *)
(* excused has its own id, and under it either an order that has the units *)
(* or units that were given back.                                          *)

(* What a checkout's units amount to, and what remains if it is excused.   *)
Worth(a) == Taken(a) + Surplus(a)
Net(a) == Worth(a) - (IF a \in Missing THEN AtRisk(a) ELSE 0)
BackAt(r, k) == r[k] + (IF k \in OrderIds THEN SoldAt(k) ELSE 0)

(* What is at risk is no less than either of the two.                      *)
LEMMA RiskIs ==
  ASSUME Sound, NEW a \in Attempts
  PROVE  /\ AtRisk(a) \in Nat /\ attempts[a].asked <= AtRisk(a)
         /\ attempts[a].order \in OrderIds => orders[attempts[a].order].rows <= AtRisk(a)
<1> DEFINE listed == {orders[id].rows : id \in OrderIds \cap {attempts[a].order}}
           S == {attempts[a].asked} \cup listed
<1>1. /\ attempts[a].asked \in Nat
      /\ \A id \in OrderIds : orders[id].rows \in Nat
  BY Numbers DEF Sound
<1>2. \A x \in S : x \in Nat
  BY <1>1
<1>3. IsFiniteSet(S)
  <2>1. CASE attempts[a].order \in OrderIds
    <3>1. listed = {orders[attempts[a].order].rows}
      BY <2>1
    <3>2. IsFiniteSet({attempts[a].asked})
      BY FS_Singleton
    <3>3. S = {attempts[a].asked} \cup {orders[attempts[a].order].rows}
      BY <3>1
    <3> HIDE DEF S
    <3> QED BY <3>2, <3>3, FS_AddElement
  <2>2. CASE attempts[a].order \notin OrderIds
    <3>1. S = {attempts[a].asked}
      BY <2>2
    <3> HIDE DEF S
    <3> QED BY <3>1, FS_Singleton
  <2> QED BY <2>1, <2>2
<1>4. attempts[a].asked \in S /\ (attempts[a].order \in OrderIds => orders[attempts[a].order].rows \in S)
  OBVIOUS
<1>5. AtRisk(a) = Max(S)
  BY DEF AtRisk
<1> HIDE DEF S
<1>6. S # {}
  BY <1>4
<1>7. Max(S) \in S /\ \A x \in S : x <= Max(S)
  BY <1>2, <1>3, <1>6, Largest
<1> QED BY <1>2, <1>4, <1>5, <1>7

(* What is left of a checkout's worth, by cases.                           *)
LEMMA NetShape ==
  ASSUME NEW a \in Attempts, Taken(a) \in Int, Surplus(a) \in Int, AtRisk(a) \in Int
  PROVE  /\ a \in Missing => Net(a) = (Taken(a) + Surplus(a)) - AtRisk(a)
         /\ a \notin Missing => Net(a) = Taken(a) + Surplus(a)
<1>1. Worth(a) = Taken(a) + Surplus(a)
  BY DEF Worth
<1>2. Worth(a) \in Int
  BY <1>1
<1>3. CASE a \in Missing
  <2>1. Net(a) = Worth(a) - AtRisk(a)
    BY <1>3 DEF Net
  <2> QED BY <1>1, <1>3, <2>1
<1>4. CASE a \notin Missing
  <2>1. Net(a) = Worth(a) - 0
    BY <1>4 DEF Net
  <2> QED BY <1>1, <1>2, <1>4, <2>1
<1> QED BY <1>3, <1>4

(* A checkout without units, or excused, leaves nothing to account for.    *)
LEMMA NetOfExcused ==
  ASSUME Sound, NEW a \in Attempts
  PROVE  Net(a) \in Int /\ (a \notin Reserved \ Missing => Net(a) <= 0)
<1>1. /\ Taken(a) \in Nat /\ Surplus(a) \in Int /\ AtRisk(a) \in Nat /\ attempts[a].asked \in Nat
      /\ attempts[a].asked <= AtRisk(a)
      /\ attempts[a].order \in OrderIds => orders[attempts[a].order].rows <= AtRisk(a)
      /\ \A id \in OrderIds : orders[id].rows \in Nat
  BY Numbers, ExpectedIs, RiskIs DEF Sound
<1>2. Started(attempts[a])
  BY DEF Sound
<1>3. Net(a) \in Int
  BY <1>1 DEF Net, Worth
<1>4. CASE a \notin Reserved
  <2>1. Taken(a) = 0 /\ a \notin Missing
    BY <1>4 DEF Reserved, Taken, Missing
  <2>2. Surplus(a) = 0
    BY <1>2, <1>4 DEF Reserved, Started, Surplus, Placed
  <2> QED BY <1>3, <2>1, <2>2 DEF Net, Worth
<1>5. CASE a \in Missing
  <2>1. Taken(a) = attempts[a].asked
    BY <1>5 DEF Missing, Reserved, Taken
  <2>2. CASE a \in Placed
    <3>1. attempts[a].order \in OrderIds /\ Surplus(a) = orders[attempts[a].order].rows - attempts[a].asked
      BY <1>2, <2>2 DEF Started, Placed, Surplus
    <3>2. Net(a) = (Taken(a) + Surplus(a)) - AtRisk(a)
      BY <1>1, <1>5, NetShape
    <3>3. orders[attempts[a].order].rows \in Nat
      BY <1>1, <3>1
    <3> QED BY <1>1, <1>3, <2>1, <3>1, <3>2, <3>3
  <2>3. CASE a \notin Placed
    <3>1. Surplus(a) = 0
      BY <2>3 DEF Surplus
    <3>2. Net(a) = (Taken(a) + Surplus(a)) - AtRisk(a)
      BY <1>1, <1>5, NetShape
    <3> QED BY <1>1, <1>3, <2>1, <3>1, <3>2
  <2> QED BY <2>2, <2>3
<1> QED BY <1>3, <1>4, <1>5

(* One that is not excused ended, alone, with an id that has its units.    *)
LEMMA NetIsBack ==
  ASSUME Sound, Backing, Quiet, NEW r \in [Keys -> Nat], Books(r), NEW a \in Reserved \ Missing
  PROVE  /\ Ended(a) /\ attempts[a].order \in Keys
         /\ Net(a) <= BackAt(r, attempts[a].order)
<1> DEFINE k == attempts[a].order
<1>1. a \in Attempts /\ ~ Excused(a) /\ attempts[a].inventory = "reserved"
  BY DEF Missing, Reserved, Excused
<1>2. Started(attempts[a])
  BY <1>1 DEF Sound
<1>3. Ended(a)
  BY <1>1, <1>2 DEF Quiet, Ended, Started, Excused
<1>4. k \in Keys
  BY <1>1, AskedUnits DEF Sound
<1>5. Net(a) = Share(a) /\ Share(a) \in Nat
  <2>1. a \notin Missing /\ Taken(a) = attempts[a].asked
    BY <1>1 DEF Taken
  <2>2. attempts[a].asked \in Nat /\ \A id \in OrderIds : orders[id].rows \in Nat
    BY <1>1, Numbers DEF Sound
  <2>3. Net(a) = Taken(a) + Surplus(a)
    <3>1. Taken(a) \in Int /\ Surplus(a) \in Int /\ AtRisk(a) \in Int
      BY <1>1, Numbers, ExpectedIs, RiskIs DEF Sound
    <3> QED BY <1>1, <2>1, <3>1, NetShape
  <2>4. CASE a \in Placed
    <3>1. k \in OrderIds /\ Surplus(a) = orders[k].rows - attempts[a].asked /\ Share(a) = orders[k].rows
      BY <1>2, <2>4 DEF Started, Placed, Surplus, Share
    <3>2. orders[k].rows \in Nat
      BY <2>2, <3>1
    <3> HIDE DEF k
    <3> QED BY <2>1, <2>2, <2>3, <3>1, <3>2
  <2>5. CASE a \notin Placed
    <3>1. Surplus(a) = 0 /\ Share(a) = attempts[a].asked
      BY <1>1, <2>5 DEF Surplus, Placed, Share
    <3> QED BY <2>1, <2>2, <2>3, <3>1
  <2> QED BY <2>4, <2>5
<1>6. r[k] \in Nat /\ (k \in OrderIds => SoldAt(k) \in Nat)
  BY <1>4, Numbers DEF Sound
<1>7. ASSUME k \in released PROVE r[k] = Share(a)
  <2>1. PICK b \in Attempts : Ended(b) /\ attempts[b].order = k /\ Share(b) = r[k]
    BY <1>4, <1>7 DEF Books, Backed
  <2>2. b = a
    BY <1>1, <2>1 DEF Excused, Ended
  <2> QED BY <2>1, <2>2
<1>8. (k \in released) \/ (k \in OrderIds /\ SoldAt(k) = Share(a))
  <2>0. Failures = {} /\ Cancellations = {}
    BY DEF Quiet, Failures, Cancellations, Range
  <2>1. CASE attempts[a].orderService = "failed"
    BY <1>1, <2>0, <2>1 DEF Backing, FailedTold
  <2>2. CASE attempts[a].orderService = "placed"
    <3>1. a \in Placed /\ k \in OrderIds
      BY <1>1, <1>2, <2>2 DEF Placed, Started
    <3>2. orders[k].status \in Taking
      BY <3>1 DEF Backing, PlacedHave
    <3>3. CASE orders[k].status = "CANCELED"
      BY <2>0, <3>1, <3>3 DEF Backing, CanceledTold
    <3>4. CASE orders[k].status # "CANCELED"
      BY <2>2, <3>1, <3>2, <3>4 DEF Taking, SoldAt, Share
    <3> QED BY <3>3, <3>4
  <2> QED BY <1>3, <2>1, <2>2 DEF Ended
<1>9. Net(a) <= BackAt(r, k)
  <2> HIDE DEF k
  <2>1. CASE k \in released
    BY <1>5, <1>6, <1>7, <2>1 DEF BackAt
  <2>2. CASE k \in OrderIds /\ SoldAt(k) = Share(a)
    BY <1>5, <1>6, <2>2 DEF BackAt
  <2> QED BY <1>8, <2>1, <2>2
<1> QED BY <1>3, <1>4, <1>9

(* So nothing else is missing.                                             *)
LEMMA BooksMeanUnits ==
  ASSUME Sound, Backing, BooksBalance, stock \in Nat
  PROVE  UnitsComeBack
<1> SUFFICES ASSUME Quiet PROVE Expected - (stock + Sold) <= MapThenSumSet(AtRisk, Missing)
  BY DEF UnitsComeBack, Missing
<1> DEFINE worths == [a \in Attempts |-> Worth(a)]
           risks == [a \in Attempts |-> IF a \in Missing THEN AtRisk(a) ELSE 0]
           nets == [a \in Attempts |-> Net(a)]
           sales == [k \in Keys |-> IF k \in OrderIds THEN SoldAt(k) ELSE 0]
           ids == [a \in Attempts |-> attempts[a].order]
<1>1. PICK r \in [Keys -> Nat] : Books(r)
  BY DEF BooksBalance
<1> DEFINE backs == [k \in Keys |-> BackAt(r, k)]
<1>2. /\ \A a \in Attempts : /\ Taken(a) \in Nat /\ Surplus(a) \in Int /\ AtRisk(a) \in Nat /\ Net(a) \in Int
      /\ \A id \in OrderIds : SoldAt(id) \in Nat
      /\ AllSold \in Nat /\ AllTaken \in Nat /\ AllSurplus \in Int /\ Expected = Stock + AllSurplus
      /\ Stock \in Nat
  BY Numbers, ExpectedIs, RiskIs, NetOfExcused, NumbersAssumption DEF Sound
<1>3. SumFunctionOnSet(worths, Attempts) = AllTaken + AllSurplus
  <2>1. \A a \in Attempts : Takings[a] \in Int /\ Surpluses[a] \in Int /\ worths[a] = Takings[a] + Surpluses[a]
    BY <1>2 DEF Takings, Surpluses, Worth
  <2> HIDE DEF worths
  <2> QED BY <2>1, KeysFinite, SumPlus DEF AllTaken, AllSurplus
<1>4. SumFunctionOnSet(risks, Attempts) = MapThenSumSet(AtRisk, Missing)
  <2>1. /\ \A a \in Missing : Risks[a] \in Int /\ risks[a] = Risks[a]
        /\ \A a \in Attempts \ Missing : risks[a] = 0
        /\ Missing \in SUBSET Attempts
    BY <1>2 DEF Risks, Missing, Reserved
  <2> HIDE DEF risks
  <2> QED BY <2>1, KeysFinite, SumPart, RiskSum
<1>5. SumFunctionOnSet(worths, Attempts) = SumFunctionOnSet(nets, Attempts) + SumFunctionOnSet(risks, Attempts)
  <2>1. ASSUME NEW a \in Attempts PROVE nets[a] \in Int /\ risks[a] \in Int /\ worths[a] = nets[a] + risks[a]
    <3>1. Worth(a) \in Int /\ risks[a] \in Int
      BY <1>2 DEF Worth
    <3>2. Net(a) = Worth(a) - risks[a]
      BY DEF Net
    <3>3. nets[a] = Net(a) /\ worths[a] = Worth(a)
      OBVIOUS
    <3> HIDE DEF nets, risks, worths
    <3> QED BY <1>2, <3>1, <3>2, <3>3
  <2> HIDE DEF nets, risks, worths
  <2> QED BY <2>1, KeysFinite, SumPlus
<1>6. SumFunctionOnSet(sales, Keys) = AllSold
  <2>1. /\ \A k \in OrderIds : Sales[k] \in Int /\ sales[k] = Sales[k]
        /\ \A k \in Keys \ OrderIds : sales[k] = 0
        /\ OrderIds \in SUBSET Keys
    BY <1>2, KeysFinite DEF Sales
  <2> HIDE DEF sales
  <2> QED BY <2>1, KeysFinite, SumPart DEF AllSold
<1>7. \A k \in Keys : r[k] \in Int /\ sales[k] \in Int /\ backs[k] = r[k] + sales[k] /\ backs[k] \in Nat
  BY <1>2 DEF BackAt
<1>8. SumFunctionOnSet(backs, Keys) = SumFunctionOnSet(r, Keys) + AllSold
  <2> HIDE DEF backs, sales
  <2> QED BY <1>6, <1>7, KeysFinite, SumPlus
<1>9. SumFunctionOnSet(nets, Attempts) <= SumFunctionOnSet(backs, Keys)
  <2> DEFINE G == Reserved \ Missing
  <2>1. /\ \A a \in Attempts : nets[a] \in Int
        /\ G \in SUBSET Attempts
        /\ \A a \in Attempts \ G : nets[a] <= 0
    BY <1>2, NetOfExcused DEF Reserved
  <2>2. \A a \in G : ids[a] \in Keys /\ nets[a] <= backs[ids[a]]
    BY <1>1, NetIsBack DEF Reserved
  <2>3. ASSUME NEW a \in G, NEW b \in G, ids[a] = ids[b] PROVE a = b
    <3>1. a \in Attempts /\ b \in Attempts /\ attempts[a].order = attempts[b].order
      BY <2>3 DEF Reserved
    <3>2. Ended(b) /\ ~ Excused(a)
      BY <1>1, NetIsBack DEF Missing
    <3> QED BY <3>1, <3>2 DEF Excused, Ended
  <2> HIDE DEF nets, backs, ids, G
  <2> QED BY <1>7, <2>1, <2>2, <2>3, KeysFinite, SumInto
<1>10. /\ SumFunctionOnSet(nets, Attempts) \in Int /\ SumFunctionOnSet(risks, Attempts) \in Int
       /\ SumFunctionOnSet(r, Keys) \in Int
  <2>1. \A a \in Attempts : nets[a] \in Int /\ risks[a] \in Int
    BY <1>2
  <2>2. \A k \in Keys : r[k] \in Int
    BY <1>7
  <2> HIDE DEF nets, risks
  <2> QED BY <2>1, <2>2, KeysFinite, SumType
<1>11. stock + AllTaken = Stock + SumFunctionOnSet(r, Keys) /\ Sold = AllSold
  BY <1>1, SoldSum DEF Books, AllSold
<1> HIDE DEF nets, risks, worths, backs, sales, ids
<1>12. AllTaken + AllSurplus <= SumFunctionOnSet(r, Keys) + AllSold + SumFunctionOnSet(risks, Attempts)
  BY <1>2, <1>3, <1>5, <1>8, <1>9, <1>10
<1>13. Expected - (stock + AllSold) <= SumFunctionOnSet(risks, Attempts)
  BY <1>2, <1>10, <1>11, <1>12
<1> QED BY <1>4, <1>11, <1>13

(* Nothing that was reserved and not sold stays away once all messages are *)
(* read: a failure, a canceled order, or a rolled-back transaction gives   *)
(* its units back, but for the checkouts that are excused.                 *)
THEOREM NothingIsLost == Spec => []UnitsComeBack
<1>1. Secure => UnitsComeBack
  BY BooksMeanUnits DEF Secure
<1> QED BY <1>1, SecureInvariant, PTL
=============================================================================
