-------------------------- MODULE InventoryProofs --------------------------
(***************************************************************************)
(* The safety properties of Inventory, for any products, carts, orders and *)
(* bounds, and any finite set of checkouts.                                *)
(***************************************************************************)
EXTENDS Inventory, SumLemmas

-----------------------------------------------------------------------------
(* Types.                                                                  *)

Lines == [sku : Skus, quantity : Nat \ {0}]
OrderTopics == {"order.canceled", "order.checkout.failed"}
Pcs == {"new", "decrement", "reserved", "ordered", "canceled", "refused", "outOfStock", "lost"}
AttemptType == [pc : Pcs, cart : Carts \cup {<<>>}, order : OrderIds \cup {Null}]
MessageType == [id : OrderIds \cup {Null}, items : Carts \cup {<<>>}, attempt : Attempts]
RestockType == {RestockMessage(s, c) : s \in Skus, c \in Nat}
Kinds == {"restocks", "faults", "crashes", "expiries", "duplicates"}
UsedType == [restocks : Nat, faults : Nat, crashes : Nat, expiries : Nat, duplicates : Nat]
Failed == topics["order.checkout.failed"]
Canceled == topics["order.canceled"]
Restocks == topics["product.restock"]

Typed ==
  /\ redis \in [Skus -> Int] /\ db \in [Skus -> Int]
  /\ stocked \in [Skus -> Int]
  /\ again \in [Skus -> Int] /\ readded \in [Skus -> Int] /\ beyond \in [Skus -> Int]
  /\ processed \subseteq OrderIds \cup {Null}
  /\ attempts \in [Attempts -> AttemptType]
  /\ orders \in [OrderIds -> {"draft", "placed", "canceled"}]
  /\ restock \in {NoRestock} \cup [sku : Skus]
  /\ topics \in [Topics -> Seq(MessageType \cup RestockType)]
  /\ Canceled \in Seq(MessageType) /\ Failed \in Seq(MessageType)
  /\ Restocks \in Seq(RestockType)
  /\ offset \in [Topics -> Nat] /\ committed \in [Topics -> Nat]
  /\ consumer \in {"poll"} \cup OrderTopics
  /\ given \subseteq Attempts
  /\ added \subseteq Nat
  /\ used \in UsedType

-----------------------------------------------------------------------------
(* Sums.                                                                   *)

(* Units is a sum over the lines of a cart.                                *)
UnitsOf(cart, s) == [i \in DOMAIN cart |-> IF cart[i].sku = s THEN cart[i].quantity ELSE 0]

(* Units is the sum of UnitsOf over the lines of a cart.                   *)
LEMMA UnitsSum ==
  ASSUME NEW cart, IsFiniteSet(DOMAIN cart), NEW s
  PROVE  Units(cart, s) = SumFunctionOnSet(UnitsOf(cart, s), DOMAIN cart)
<1> DEFINE D == DOMAIN cart
           f == UnitsOf(cart, s)
           Sums(h) == h = [x \in SUBSET D |->
                             IF x = {} THEN 0
                             ELSE (IF cart[Pick(x)].sku = s THEN cart[Pick(x)].quantity ELSE 0)
                                  + h[x \ {Pick(x)}]]
           g == CHOOSE h : Sums(h)
<1>1. Units(cart, s) = g[D]
  BY DEF Units, MapThenSumSet, MapThenFoldSet, Pick
<1>2. \A x \in SUBSET D : x # {} =>
        f[Pick(x)] = IF cart[Pick(x)].sku = s THEN cart[Pick(x)].quantity ELSE 0
  BY PickIn DEF UnitsOf
<1>3. \A h : Sums(h) <=> Adds(h, f, D)
  <2> HIDE DEF f
  <2> QED BY <1>2 DEF Adds
<1>4. \E h : Adds(h, f, D)
  BY AddsExists
<1>5. Adds(g, f, D)
  <2> HIDE DEF f, Sums
  <2> QED BY <1>3, <1>4
<1> HIDE DEF g, f
<1> QED BY <1>1, <1>5, SumByAdds DEF f

(* A cart has a number of units.                                           *)
LEMMA UnitsType ==
  ASSUME NEW cart \in Seq(Lines), NEW s
  PROVE  Units(cart, s) \in Nat
<1>1. IsFiniteSet(DOMAIN cart)
  <2>1. DOMAIN cart = 1 .. Len(cart) /\ Len(cart) \in Nat
    OBVIOUS
  <2> QED BY <2>1, FS_Interval
<1>2. \A i \in DOMAIN cart : UnitsOf(cart, s)[i] \in Nat
  <2>1. \A i \in DOMAIN cart : cart[i] \in Lines
    OBVIOUS
  <2> QED BY <2>1 DEF UnitsOf, Lines
<1> HIDE DEF UnitsOf
<1> QED BY <1>1, <1>2, UnitsSum, SumGrows

(* An empty list has no units, a restock has one of its product.           *)
LEMMA NoUnits ==
  ASSUME NEW s
  PROVE  Units(<<>>, s) = 0
<1>1. DOMAIN <<>> = {}
  OBVIOUS
<1> QED BY <1>1, UnitsSum, SumEmpty, FS_EmptySet

(* A restock message has one unit, of its product.                         *)
LEMMA RestockUnits ==
  ASSUME NEW s \in Skus, NEW z \in Skus, NEW c
  PROVE  Units(RestockMessage(z, c).items, s) = IF z = s THEN 1 ELSE 0
<1> DEFINE cart == <<[sku |-> z, quantity |-> 1]>>
           f == UnitsOf(cart, s)
<1>1. DOMAIN cart = {1} /\ IsFiniteSet({1}) /\ cart[1] = [sku |-> z, quantity |-> 1]
  BY FS_Singleton
<1>2. f[1] = IF z = s THEN 1 ELSE 0
  BY <1>1 DEF UnitsOf
<1> HIDE DEF f
<1>3. SumFunctionOnSet(f, {1}) = f[1] + SumFunctionOnSet(f, {1} \ {1})
  BY <1>1, <1>2, SumOut
<1>4. SumFunctionOnSet(f, {1} \ {1}) = 0
  BY SumEmpty
<1>5. Units(cart, s) = SumFunctionOnSet(f, {1})
  BY <1>1, UnitsSum DEF f
<1> QED BY <1>2, <1>3, <1>4, <1>5 DEF RestockMessage

(* A cart is a sequence of lines.                                          *)
LEMMA CartType ==
  ASSUME NEW cart \in Carts \cup {<<>>}
  PROVE  cart \in Seq(Lines)
<1>1. <<>> \in Seq(Lines)
  OBVIOUS
<1>2. Carts \subseteq Seq(Lines)
  BY CartsAssumption DEF Lines
<1> QED BY <1>1, <1>2

(* What a restock message says.                                            *)
LEMMA RestockItems ==
  ASSUME NEW m \in RestockType
  PROVE  /\ m.items \in Seq(Lines) /\ m.call \in Nat
         /\ m.items[1].sku \in Skus
         /\ \A s \in Skus : Units(m.items, s) = IF m.items[1].sku = s THEN 1 ELSE 0
<1>1. PICK z \in Skus, c \in Nat : m = RestockMessage(z, c)
  BY DEF RestockType
<1>2. [sku |-> z, quantity |-> 1] \in Lines
  BY DEF Lines
<1>3. m.items = <<[sku |-> z, quantity |-> 1]>> /\ m.items[1].sku = z /\ m.call = c
  BY <1>1 DEF RestockMessage
<1> QED BY <1>1, <1>2, <1>3, RestockUnits

(* Adding or taking a cart changes each product by its units.              *)
LEMMA PlusType ==
  ASSUME NEW stock \in [Skus -> Int], NEW cart \in Seq(Lines)
  PROVE  /\ Plus(stock, cart) \in [Skus -> Int] /\ Minus(stock, cart) \in [Skus -> Int]
         /\ \A s \in Skus : /\ Plus(stock, cart)[s] = stock[s] + Units(cart, s)
                            /\ Minus(stock, cart)[s] = stock[s] - Units(cart, s)
                            /\ Units(cart, s) \in Nat
<1>1. \A s \in Skus : Units(cart, s) \in Nat
  BY UnitsType
<1> QED BY <1>1 DEF Plus, Minus

(* What is published comes last.                                           *)
LEMMA Published ==
  ASSUME Typed, NEW t \in Topics, NEW messages \in Seq(MessageType \cup RestockType), Publish(t, messages)
  PROVE  /\ topics' \in [Topics -> Seq(MessageType \cup RestockType)]
         /\ topics'[t] = topics[t] \o messages
         /\ \A u \in Topics : u # t => topics'[u] = topics[u]
BY DEF Typed, Publish

(* Using up a bound keeps the counters counters.                           *)
LEMMA Spent ==
  ASSUME Typed, NEW kind \in Kinds, NEW bound, Spend(kind, bound)
  PROVE  used' \in UsedType /\ used'[kind] = used[kind] + 1 /\ \A k \in Kinds \ {kind} : used'[k] = used[k]
<1>1. used \in UsedType
  BY DEF Typed
<1>2. CASE kind = "restocks"
  BY <1>1, <1>2 DEF Spend, UsedType, Kinds
<1>3. CASE kind = "faults"
  BY <1>1, <1>3 DEF Spend, UsedType, Kinds
<1>4. CASE kind = "crashes"
  BY <1>1, <1>4 DEF Spend, UsedType, Kinds
<1>5. CASE kind = "expiries"
  BY <1>1, <1>5 DEF Spend, UsedType, Kinds
<1>6. CASE kind = "duplicates"
  BY <1>1, <1>6 DEF Spend, UsedType, Kinds
<1> QED BY <1>2, <1>3, <1>4, <1>5, <1>6 DEF Kinds

(* So does what goes wrong.                                                *)
LEMMA MishapSpends ==
  ASSUME Typed, NEW kind \in Kinds, NEW bound, Mishap(kind, bound)
  PROVE  used' \in UsedType
BY Spent DEF Mishap

(* A fault, in particular.                                                 *)
LEMMA FaultSpends ==
  ASSUME Typed, Fault
  PROVE  used' \in UsedType
BY MishapSpends DEF Fault, Kinds

(* The message a handler works on.                                         *)
LEMMA HeadType ==
  ASSUME Typed, NEW t \in Topics, HasMessage(t)
  PROVE  /\ offset[t] + 1 \in DOMAIN topics[t]
         /\ t \in OrderTopics => HeadOf(t) \in MessageType /\ HeadOf(t).items \in Seq(Lines)
         /\ t = "product.restock" => HeadOf(t) \in RestockType /\ HeadOf(t).items \in Seq(Lines)
<1>1. offset[t] + 1 \in DOMAIN topics[t]
  BY DEF Typed, HasMessage
<1>2. CASE t \in OrderTopics
  <2>1. HeadOf(t) \in MessageType
    BY <1>1, <1>2 DEF Typed, OrderTopics, HeadOf, Canceled, Failed
  <2>2. HeadOf(t).items \in Seq(Lines)
    BY <2>1, CartType DEF MessageType
  <2> QED BY <1>1, <1>2, <2>1, <2>2 DEF OrderTopics
<1>3. CASE t = "product.restock"
  <2>1. HeadOf(t) \in RestockType
    BY <1>1, <1>3 DEF Typed, HeadOf, Restocks
  <2> QED BY <1>1, <1>3, <2>1, RestockItems DEF OrderTopics
<1> QED BY <1>2, <1>3 DEF Topics, OrderTopics


-----------------------------------------------------------------------------
(* Every step keeps the types.                                             *)

TopicsTyped ==
  /\ topics \in [Topics -> Seq(MessageType \cup RestockType)]
  /\ Canceled \in Seq(MessageType) /\ Failed \in Seq(MessageType)
  /\ Restocks \in Seq(RestockType)

(* Publishing messages of orders keeps the types of the topics.            *)
LEMMA OrderTopicTyped ==
  ASSUME Typed, NEW t \in OrderTopics, NEW messages \in Seq(MessageType), Publish(t, messages)
  PROVE  TopicsTyped'
<1>1. messages \in Seq(MessageType \cup RestockType) /\ t \in Topics
  BY DEF OrderTopics, Topics
<1>2. topics[t] \o messages \in Seq(MessageType)
  BY DEF Typed, OrderTopics, Canceled, Failed
<1> QED BY <1>1, <1>2, Published DEF TopicsTyped, Typed, OrderTopics, Topics, Canceled, Failed, Restocks

(* So does publishing a restock.                                           *)
LEMMA RestockTopicTyped ==
  ASSUME Typed, NEW m \in RestockType, Publish("product.restock", <<m>>)
  PROVE  TopicsTyped'
<1>1. <<m>> \in Seq(MessageType \cup RestockType) /\ "product.restock" \in Topics
  BY DEF Topics
<1>2. Restocks \o <<m>> \in Seq(RestockType)
  BY DEF Typed
<1> QED BY <1>1, <1>2, Published DEF TopicsTyped, Typed, Topics, Canceled, Failed, Restocks

(* The steps of a checkout keep the types.                                 *)
LEMMA AttemptTyped ==
  ASSUME Typed, NEW a \in Attempts, AttemptStep(a)
  PROVE  Typed'
<1> USE DEF stockVars, kafkaVars, historyVars
<1>1. attempts[a] \in AttemptType /\ attempts[a].cart \in Seq(Lines)
  BY CartType DEF Typed, AttemptType
<1>2. ASSUME NEW cart \in Carts, Reserve(a, cart) PROVE Typed'
  <2>1. redis' \in [Skus -> Int]
    BY <1>2, CartType, PlusType DEF Reserve, Typed
  <2>2. attempts' \in [Attempts -> AttemptType]
    <3>1. [attempts[a] EXCEPT !.pc = "decrement", !.cart = cart] \in AttemptType
      BY <1>1 DEF AttemptType, Pcs
    <3>2. attempts' = [attempts EXCEPT ![a] = [attempts[a] EXCEPT !.pc = "decrement", !.cart = cart]]
      BY <1>2 DEF Reserve, Typed
    <3> QED BY <3>1, <3>2 DEF Typed
  <2> QED BY <1>2, <2>1, <2>2 DEF Reserve, Typed, Canceled, Failed, Restocks
<1>3. ASSUME NEW cart \in Carts, OutOfStock(a, cart) PROVE Typed'
  <2>2. attempts' \in [Attempts -> AttemptType]
    BY <1>3 DEF OutOfStock, Typed, AttemptType, Pcs
  <2> QED BY <1>3, <2>2 DEF OutOfStock, Typed, Canceled, Failed, Restocks
<1>4. CASE DecrementDb(a)
  <2>1. db' \in [Skus -> Int]
    BY <1>1, <1>4, PlusType DEF DecrementDb, Typed
  <2>2. attempts' \in [Attempts -> AttemptType]
    BY <1>4 DEF DecrementDb, Typed, AttemptType, Pcs
  <2> QED BY <1>4, <2>1, <2>2 DEF DecrementDb, Typed, Canceled, Failed, Restocks
<1>5. CASE LoseReservation(a)
  <2>1. used' \in UsedType
    BY <1>5, FaultSpends DEF LoseReservation
  <2>2. attempts' \in [Attempts -> AttemptType]
    BY <1>5 DEF LoseReservation, Typed, AttemptType, Pcs
  <2> QED BY <1>5, <2>1, <2>2 DEF LoseReservation, Typed, Canceled, Failed, Restocks
<1>6. ASSUME NEW id \in OrderIds, PlaceOrder(a, id) PROVE Typed'
  <2>2. attempts' \in [Attempts -> AttemptType]
    <3>1. [attempts[a] EXCEPT !.pc = "ordered", !.order = id] \in AttemptType
      BY <1>1 DEF AttemptType, Pcs
    <3>2. attempts' = [attempts EXCEPT ![a] = [attempts[a] EXCEPT !.pc = "ordered", !.order = id]]
      BY <1>6 DEF PlaceOrder, Typed
    <3> QED BY <3>1, <3>2 DEF Typed
  <2> QED BY <1>6, <2>2 DEF PlaceOrder, Typed, Canceled, Failed, Restocks
<1>7. CASE RefuseCheckout(a)
  <2>1. Message(Null, attempts[a].cart, a) \in MessageType
    BY <1>1 DEF Message, MessageType, AttemptType
  <2>2. TopicsTyped'
    <3> DEFINE m == Message(Null, attempts[a].cart, a)
    <3>1. <<m, m>> \in Seq(MessageType) /\ Publish("order.checkout.failed", <<m, m>>)
      BY <1>7, <2>1 DEF RefuseCheckout
    <3> HIDE DEF m
    <3> QED BY <3>1, OrderTopicTyped DEF OrderTopics
  <2>3. attempts' \in [Attempts -> AttemptType]
    BY <1>7 DEF RefuseCheckout, Typed, AttemptType, Pcs
  <2> QED BY <1>7, <2>2, <2>3 DEF RefuseCheckout, Typed, TopicsTyped
<1>8. ASSUME NEW id \in OrderIds, RollBackCheckout(a, id) PROVE Typed'
  <2>1. Message(id, attempts[a].cart, a) \in MessageType
    BY <1>1 DEF Message, MessageType, AttemptType
  <2>2. TopicsTyped'
    <3> DEFINE m == Message(id, attempts[a].cart, a)
    <3>1. <<m>> \in Seq(MessageType) /\ Publish("order.checkout.failed", <<m>>)
      BY <1>8, <2>1 DEF RollBackCheckout
    <3> HIDE DEF m
    <3> QED BY <3>1, OrderTopicTyped DEF OrderTopics
  <2>3. attempts' \in [Attempts -> AttemptType]
    BY <1>8 DEF RollBackCheckout, Typed, AttemptType, Pcs
  <2>4. used' \in UsedType
    BY <1>8, FaultSpends DEF RollBackCheckout
  <2> QED BY <1>8, <2>2, <2>3, <2>4 DEF RollBackCheckout, Typed, TopicsTyped
<1>9. CASE CancelOrder(a)
  <2>1. PICK rows \in Carts \cup {<<>>} :
          Publish("order.canceled", <<Message(attempts[a].order, rows, a)>>)
    BY <1>9 DEF CancelOrder
  <2>2. Message(attempts[a].order, rows, a) \in MessageType
    BY <1>1 DEF Message, MessageType, AttemptType
  <2>3. TopicsTyped'
    <3> DEFINE m == Message(attempts[a].order, rows, a)
    <3>1. <<m>> \in Seq(MessageType) /\ Publish("order.canceled", <<m>>)
      BY <2>1, <2>2
    <3> HIDE DEF m
    <3> QED BY <3>1, OrderTopicTyped DEF OrderTopics
  <2>4. attempts' \in [Attempts -> AttemptType]
    BY <1>9 DEF CancelOrder, Typed, AttemptType, Pcs
  <2>5. orders' \in [OrderIds -> {"draft", "placed", "canceled"}]
    BY <1>9 DEF CancelOrder, Typed
  <2> QED BY <1>9, <2>3, <2>4, <2>5 DEF CancelOrder, Typed, TopicsTyped
<1> QED BY <1>2, <1>3, <1>4, <1>5, <1>6, <1>7, <1>8, <1>9 DEF AttemptStep

(* The steps of a restock call keep the types.                             *)
LEMMA RestockTyped ==
  ASSUME Typed, RestockStep
  PROVE  Typed'
<1> USE DEF stockVars, kafkaVars, historyVars
<1>1. ASSUME NEW s \in Skus, RestockUpsert(s) PROVE Typed'
  <2>1. used' \in UsedType
    BY <1>1, Spent DEF RestockUpsert, Kinds
  <2>2. db' \in [Skus -> Int] /\ stocked' \in [Skus -> Int]
    BY <1>1 DEF RestockUpsert, Typed
  <2> QED BY <1>1, <2>1, <2>2 DEF RestockUpsert, Typed, Canceled, Failed, Restocks
<1>2. CASE RestockOutbox
  <2>1. restock \in [sku : Skus]
    BY <1>2 DEF RestockOutbox, Typed
  <2>2. RestockMessage(restock.sku, used.restocks) \in RestockType
    BY <2>1 DEF RestockType, Typed, UsedType
  <2>3. TopicsTyped'
    BY <1>2, <2>2, RestockTopicTyped DEF RestockOutbox
  <2> QED BY <1>2, <2>3 DEF RestockOutbox, Typed, TopicsTyped
<1>3. CASE RestockFails
  <2>1. used' \in UsedType
    BY <1>3, FaultSpends DEF RestockFails
  <2> QED BY <1>3, <2>1 DEF RestockFails, Typed, Canceled, Failed, Restocks
<1> QED BY <1>1, <1>2, <1>3 DEF RestockStep

(* What is given back beyond a reservation.                                *)
LEMMA ExcessType ==
  ASSUME Typed, NEW m \in MessageType, NEW s \in Skus
  PROVE  /\ m.attempt \in Attempts
         /\ Units(m.items, s) \in Nat /\ Units(attempts[m.attempt].cart, s) \in Nat
         /\ Excess(m, s) \in Nat /\ Units(m.items, s) <= Units(attempts[m.attempt].cart, s) + Excess(m, s)
<1>1. m.attempt \in Attempts /\ m.items \in Seq(Lines)
  BY CartType DEF MessageType
<1>2. attempts[m.attempt].cart \in Seq(Lines)
  BY <1>1, CartType DEF Typed, AttemptType
<1>3. Units(m.items, s) \in Nat /\ Units(attempts[m.attempt].cart, s) \in Nat
  BY <1>1, <1>2, UnitsType
<1> QED BY <1>1, <1>3 DEF Excess

(* RELEASE_STOCK_SCRIPT keeps the types.                                   *)
LEMMA ReleaseTyped ==
  ASSUME Typed, NEW m \in MessageType, Release(m)
  PROVE  /\ redis' \in [Skus -> Int] /\ again' \in [Skus -> Int] /\ beyond' \in [Skus -> Int]
         /\ processed' \subseteq OrderIds \cup {Null} /\ given' \subseteq Attempts
<1>1. m.items \in Seq(Lines) /\ m.id \in OrderIds \cup {Null} /\ m.attempt \in Attempts
  BY CartType DEF MessageType
<1>2. Plus(redis, m.items) \in [Skus -> Int] /\ Plus(again, m.items) \in [Skus -> Int]
  BY <1>1, PlusType DEF Typed
<1>3. [s \in Skus |-> beyond[s] + Excess(m, s)] \in [Skus -> Int]
  BY ExcessType DEF Typed
<1>4. UNCHANGED <<redis, again, beyond, processed, given>> \/
      /\ redis' = Plus(redis, m.items) /\ processed' = processed \cup {m.id}
      /\ given' = given \cup {m.attempt}
      /\ again' = again \/ again' = Plus(again, m.items)
      /\ beyond' = beyond \/ beyond' = [s \in Skus |-> beyond[s] + Excess(m, s)]
  BY DEF Release
<1> QED BY <1>1, <1>2, <1>3, <1>4 DEF Typed

(* The steps of the consumer keep the types.                               *)
LEMMA ConsumerTyped ==
  ASSUME Typed, consumer # "poll" => HasMessage(consumer), ConsumerStep
  PROVE  Typed'
<1> USE DEF stockVars, kafkaVars, historyVars
<1>1. ASSUME NEW t \in Topics, Done(t)
      PROVE  offset' \in [Topics -> Nat] /\ consumer' \in {"poll"} \cup OrderTopics
  BY <1>1 DEF Done, Typed
<1>2. CASE SkipCheckoutFailed
  BY <1>1, <1>2 DEF SkipCheckoutFailed, Typed, Topics, Canceled, Failed, Restocks
<1>3. CASE ReleaseCheckoutFailed
  <2>1. HeadOf("order.checkout.failed") \in MessageType
    BY <1>3, HeadType DEF ReleaseCheckoutFailed, Topics, OrderTopics
  <2> QED BY <1>3, <2>1, ReleaseTyped DEF ReleaseCheckoutFailed, Typed, OrderTopics, Canceled, Failed, Restocks
<1>4. CASE SkipEmptyCanceled
  BY <1>1, <1>4 DEF SkipEmptyCanceled, Typed, Topics, Canceled, Failed, Restocks
<1>5. CASE ReleaseCanceled
  <2>1. HeadOf("order.canceled") \in MessageType
    BY <1>5, HeadType DEF ReleaseCanceled, Topics, OrderTopics
  <2> QED BY <1>5, <2>1, ReleaseTyped DEF ReleaseCanceled, Typed, OrderTopics, Canceled, Failed, Restocks
<1>6. CASE IncrementDb
  <2>1. consumer \in OrderTopics /\ consumer \in Topics
    BY <1>6 DEF IncrementDb, Typed, OrderTopics, Topics
  <2>2. db' \in [Skus -> Int]
    BY <1>6, <2>1, HeadType, PlusType DEF IncrementDb, Typed
  <2> QED BY <1>1, <1>6, <2>1, <2>2 DEF IncrementDb, Typed, Canceled, Failed, Restocks
<1>7. CASE IncrementFails
  <2>1. used' \in UsedType
    BY <1>7, FaultSpends DEF IncrementFails
  <2> QED BY <1>7, <2>1 DEF IncrementFails, Typed, Canceled, Failed, Restocks
<1>8. CASE AddStock
  <2>1. HeadOf("product.restock").items \in Seq(Lines)
    BY <1>8, HeadType DEF AddStock, Topics
  <2>2. redis' \in [Skus -> Int] /\ readded' \in [Skus -> Int] /\ added' \subseteq Nat
    <3> DEFINE m == HeadOf("product.restock")
    <3>1. /\ Plus(redis, m.items) \in [Skus -> Int] /\ Plus(readded, m.items) \in [Skus -> Int]
          /\ added \subseteq Nat /\ m.call \in Nat /\ readded \in [Skus -> Int]
      <4>1. redis \in [Skus -> Int] /\ readded \in [Skus -> Int] /\ added \subseteq Nat
        BY DEF Typed
      <4>2. m.items \in Seq(Lines) /\ m.call \in Nat
        BY <1>8, HeadType, RestockItems DEF AddStock, Topics
      <4> HIDE DEF m
      <4> QED BY <4>1, <4>2, PlusType
    <3>2. redis' = Plus(redis, m.items) /\ added' = added \cup {m.call}
      BY <1>8 DEF AddStock
    <3>4. readded' = readded \/ readded' = Plus(readded, m.items)
      BY <1>8 DEF AddStock
    <3> HIDE DEF m
    <3> QED BY <3>1, <3>2, <3>4
  <2> QED BY <1>1, <1>8, <2>2 DEF AddStock, Typed, Topics, Canceled, Failed, Restocks
<1>9. ASSUME NEW t \in Topics, CommitOffset(t) PROVE Typed'
  BY <1>9 DEF CommitOffset, Typed, Canceled, Failed, Restocks
<1> QED BY <1>2, <1>3, <1>4, <1>5, <1>6, <1>7, <1>8, <1>9 DEF ConsumerStep

-----------------------------------------------------------------------------
(* Offsets.                                                                *)

(* A handler works on a message that is there.                             *)
Offsets ==
  /\ \A t \in Topics : committed[t] <= offset[t] /\ offset[t] <= Len(topics[t])
  /\ consumer # "poll" => HasMessage(consumer)

(* A connector that starts again publishes copies of what a topic holds.   *)
LEMMA Copies ==
  ASSUME Typed, NEW t \in Topics, Redeliver(t)
  PROVE  /\ \A u \in Topics : u # t => topics'[u] = topics[u]
         /\ \E messages \in Seq(MessageType \cup RestockType) :
              /\ topics'[t] = topics[t] \o messages
              /\ \A j \in DOMAIN messages : \E k \in DOMAIN topics[t] : messages[j] = topics[t][k]
         /\ TopicsTyped'
<1>1. PICK i \in DOMAIN topics[t] : Publish(t, SubSeq(topics[t], i, Len(topics[t])))
  BY DEF Redeliver
<1>2. ASSUME NEW S, NEW q \in Seq(S), NEW n \in DOMAIN q, NEW r, r = SubSeq(q, n, Len(q))
      PROVE  r \in Seq(S) /\ \A j \in DOMAIN r : \E k \in DOMAIN q : r[j] = q[k]
  <2>1. /\ Len(r) = Len(q) - n + 1 /\ Len(r) \in Nat /\ DOMAIN r = 1 .. Len(r)
        /\ \A j \in 1 .. Len(r) : r[j] = q[n + j - 1]
        /\ r \in Seq(S)
    BY <1>2
  <2>2. \A j \in 1 .. Len(r) : n + j - 1 \in DOMAIN q
    BY <2>1
  <2> QED BY <2>1, <2>2
<1>3. /\ topics \in [Topics -> Seq(MessageType \cup RestockType)]
      /\ topics[t] \in Seq(MessageType \cup RestockType)
      /\ t \in OrderTopics => topics[t] \in Seq(MessageType)
      /\ t = "product.restock" => topics[t] \in Seq(RestockType)
      /\ t \in OrderTopics \/ t = "product.restock"
  BY DEF Typed, OrderTopics, Topics, Canceled, Failed, Restocks
<1> DEFINE r == SubSeq(topics[t], i, Len(topics[t]))
<1>4. /\ r \in Seq(MessageType \cup RestockType)
      /\ \A j \in DOMAIN r : \E k \in DOMAIN topics[t] : r[j] = topics[t][k]
      /\ t \in OrderTopics => r \in Seq(MessageType)
      /\ t = "product.restock" => r \in Seq(RestockType)
  BY <1>2, <1>3
<1> HIDE DEF r
<1>5. Publish(t, r)
  BY <1>1 DEF r
<1>6. topics'[t] = topics[t] \o r /\ \A u \in Topics : u # t => topics'[u] = topics[u]
  BY <1>4, <1>5, Published
<1>7. CASE t \in OrderTopics
  BY <1>4, <1>5, <1>6, <1>7, OrderTopicTyped
<1>8. CASE t = "product.restock"
  <2>0. topics'["product.restock"] = topics["product.restock"] \o r
    BY <1>6, <1>8
  <2>4. topics["product.restock"] \o r \in Seq(RestockType)
    BY <1>3, <1>4, <1>8
  <2>1. Restocks' = Restocks \o r /\ Restocks' \in Seq(RestockType)
    BY <2>0, <2>4 DEF Restocks
  <2>2. topics' \in [Topics -> Seq(MessageType \cup RestockType)]
    BY <1>4, <1>5, Published
  <2>3. TopicsTyped'
    BY <1>6, <1>8, <2>1, <2>2 DEF TopicsTyped, Typed, Topics, Canceled, Failed
  <2> QED BY <1>4, <1>6, <2>3
<1> QED BY <1>3, <1>7, <1>8

(* Every step keeps the types.                                             *)
LEMMA TypedStep ==
  ASSUME Typed, Offsets, [Next]_vars
  PROVE  Typed'
<1> USE DEF stockVars, kafkaVars, historyVars
<1>1. ASSUME NEW id \in OrderIds \cup {Null}, KeyExpires(id) PROVE Typed'
  <2>1. used' \in UsedType
    BY <1>1, MishapSpends DEF KeyExpires, Kinds
  <2> QED BY <1>1, <2>1 DEF KeyExpires, Typed, Canceled, Failed, Restocks
<1>2. CASE Crash
  <2>1. used' \in UsedType
    BY <1>2, MishapSpends DEF Crash, Kinds
  <2>2. attempts' \in [Attempts -> AttemptType]
    <3>1. \A a \in Attempts : [attempts[a] EXCEPT !.pc = "lost"] \in AttemptType /\ attempts[a] \in AttemptType
      BY DEF Typed, AttemptType, Pcs
    <3> QED BY <1>2, <3>1 DEF Crash
  <2> QED BY <1>2, <2>1, <2>2 DEF Crash, Typed, Canceled, Failed, Restocks
<1>3. CASE UNCHANGED vars
  BY <1>3 DEF vars, Typed, Canceled, Failed, Restocks
<1>4. ASSUME NEW t \in Topics, Redeliver(t) PROVE Typed'
  <2>1. used' \in UsedType
    BY <1>4, MishapSpends DEF Redeliver, Kinds
  <2>2. TopicsTyped'
    BY <1>4, Copies
  <2> QED BY <1>4, <2>1, <2>2 DEF Redeliver, Typed, TopicsTyped
<1> QED BY <1>1, <1>2, <1>3, <1>4, AttemptTyped, RestockTyped, ConsumerTyped DEF Next, Offsets

(* What a step does to topics, offsets and the consumer.                   *)
LEMMA KafkaSteps ==
  ASSUME Typed, [Next]_vars
  PROVE  \/ UNCHANGED <<topics, offset, committed, consumer, added>>
         \/ \E a \in Attempts : /\ \/ RefuseCheckout(a) \/ CancelOrder(a)
                                     \/ \E id \in OrderIds : RollBackCheckout(a, id)
                               /\ UNCHANGED <<offset, committed, consumer, added>>
         \/ RestockOutbox
         \/ SkipCheckoutFailed \/ SkipEmptyCanceled \/ IncrementDb
         \/ ReleaseCheckoutFailed \/ ReleaseCanceled \/ IncrementFails
         \/ AddStock
         \/ \E t \in Topics : CommitOffset(t)
         \/ Crash
         \/ \E t \in Topics : Redeliver(t)
<1> USE DEF stockVars, kafkaVars, historyVars
<1>1. ASSUME NEW a \in Attempts, AttemptStep(a)
      PROVE  \/ UNCHANGED <<topics, offset, committed, consumer, added>>
             \/ /\ \/ RefuseCheckout(a) \/ CancelOrder(a)
                   \/ \E id \in OrderIds : RollBackCheckout(a, id)
                /\ UNCHANGED <<offset, committed, consumer, added>>
  BY <1>1 DEF AttemptStep, Reserve, OutOfStock, DecrementDb, LoseReservation, PlaceOrder, RefuseCheckout,
     CancelOrder, RollBackCheckout
<1>2. CASE RestockStep
  BY <1>2 DEF RestockStep, RestockUpsert, RestockFails
<1>3. CASE ConsumerStep
  BY <1>3 DEF ConsumerStep
<1>4. CASE \E id \in OrderIds \cup {Null} : KeyExpires(id)
  BY <1>4 DEF KeyExpires
<1>5. CASE UNCHANGED vars
  BY <1>5 DEF vars
<1> QED BY <1>1, <1>2, <1>3, <1>4, <1>5 DEF Next

(* A topic keeps its messages.                                             *)
LEMMA TopicsGrow ==
  ASSUME Typed, [Next]_vars, NEW t \in Topics
  PROVE  /\ Len(topics'[t]) >= Len(topics[t])
         /\ DOMAIN topics[t] \subseteq DOMAIN topics'[t]
         /\ \A i \in DOMAIN topics[t] : topics'[t][i] = topics[t][i]
<1> USE DEF stockVars, kafkaVars, historyVars
<1>1. ASSUME NEW u, NEW messages \in Seq(MessageType \cup RestockType), Publish(u, messages)
      PROVE  /\ Len(topics'[t]) >= Len(topics[t])
             /\ DOMAIN topics[t] \subseteq DOMAIN topics'[t]
             /\ \A i \in DOMAIN topics[t] : topics'[t][i] = topics[t][i]
  BY <1>1 DEF Publish, Typed
<1>2. CASE UNCHANGED topics
  BY <1>2 DEF Typed
<1>3. ASSUME NEW a \in Attempts, NEW id \in OrderIds \cup {Null}, NEW cart \in Carts \cup {<<>>}
      PROVE  Message(id, cart, a) \in MessageType
  BY DEF Message, MessageType
<1>4. \A a \in Attempts : attempts[a].cart \in Carts \cup {<<>>} /\ attempts[a].order \in OrderIds \cup {Null}
  BY DEF Typed, AttemptType
<1>5. \A m \in MessageType : <<m>> \in Seq(MessageType \cup RestockType) /\ <<m, m>> \in Seq(MessageType \cup RestockType)
  OBVIOUS
<1>6. ASSUME NEW a \in Attempts, RefuseCheckout(a)
      PROVE  \E messages \in Seq(MessageType \cup RestockType) : \E u : Publish(u, messages)
  <2> DEFINE m == Message(Null, attempts[a].cart, a)
  <2>1. Publish("order.checkout.failed", <<m, m>>)
    BY <1>6 DEF RefuseCheckout
  <2>2. m \in MessageType
    BY <1>3, <1>4
  <2> HIDE DEF m
  <2> QED BY <1>5, <2>1, <2>2
<1>7. ASSUME NEW a \in Attempts, NEW id \in OrderIds, RollBackCheckout(a, id)
      PROVE  \E messages \in Seq(MessageType \cup RestockType) : \E u : Publish(u, messages)
  <2> DEFINE m == Message(id, attempts[a].cart, a)
  <2>1. Publish("order.checkout.failed", <<m>>)
    BY <1>7 DEF RollBackCheckout
  <2>2. m \in MessageType
    BY <1>3, <1>4
  <2> HIDE DEF m
  <2> QED BY <1>5, <2>1, <2>2
<1>8. ASSUME NEW a \in Attempts, CancelOrder(a)
      PROVE  \E messages \in Seq(MessageType \cup RestockType) : \E u : Publish(u, messages)
  <2>0. PICK rows \in Carts \cup {<<>>} : Publish("order.canceled", <<Message(attempts[a].order, rows, a)>>)
    BY <1>4, <1>8 DEF CancelOrder
  <2> DEFINE m == Message(attempts[a].order, rows, a)
  <2>1. Publish("order.canceled", <<m>>)
    BY <2>0
  <2>2. m \in MessageType
    BY <1>3, <1>4
  <2> HIDE DEF m
  <2> QED BY <1>5, <2>1, <2>2
<1>9. ASSUME RestockOutbox
      PROVE  \E messages \in Seq(MessageType \cup RestockType) : \E u : Publish(u, messages)
  <2>1. RestockMessage(restock.sku, used.restocks) \in RestockType
    BY <1>9 DEF RestockOutbox, Typed, RestockType, UsedType
  <2>2. Publish("product.restock", <<RestockMessage(restock.sku, used.restocks)>>)
    BY <1>9 DEF RestockOutbox
  <2>3. \A m \in RestockType : <<m>> \in Seq(MessageType \cup RestockType)
    OBVIOUS
  <2> QED BY <2>1, <2>2, <2>3
<1>10. ASSUME NEW u \in Topics, Redeliver(u)
       PROVE  /\ Len(topics'[t]) >= Len(topics[t])
              /\ DOMAIN topics[t] \subseteq DOMAIN topics'[t]
              /\ \A i \in DOMAIN topics[t] : topics'[t][i] = topics[t][i]
  <2>1. topics[t] \in Seq(MessageType \cup RestockType)
    BY DEF Typed
  <2>2. topics'[t] = topics[t] \/ \E messages \in Seq(MessageType \cup RestockType) : topics'[t] = topics[t] \o messages
    BY <1>10, Copies
  <2> QED BY <2>1, <2>2
<1> QED BY <1>1, <1>2, <1>6, <1>7, <1>8, <1>9, <1>10, KafkaSteps DEF SkipCheckoutFailed, SkipEmptyCanceled, IncrementDb,
        ReleaseCheckoutFailed, ReleaseCanceled, IncrementFails, AddStock, CommitOffset, Crash

(* A connector that starts again adds copies only.                         *)
LEMMA CopyOf ==
  ASSUME Typed, NEW u \in Topics, Redeliver(u), NEW t \in Topics, NEW i \in DOMAIN topics'[t]
  PROVE  \E k \in DOMAIN topics[t] : topics'[t][i] = topics[t][k]
<1>1. CASE u # t
  BY <1>1, Copies
<1>2. CASE u = t
  <2>1. PICK messages \in Seq(MessageType \cup RestockType) :
          /\ topics'[t] = topics[t] \o messages
          /\ \A j \in DOMAIN messages : \E k \in DOMAIN topics[t] : messages[j] = topics[t][k]
    BY <1>2, Copies
  <2>2. /\ topics[t] \in Seq(MessageType \cup RestockType)
        /\ Len(topics[t]) \in Nat /\ Len(messages) \in Nat
    BY DEF Typed
  <2>3. i \in 1 .. Len(topics[t]) + Len(messages)
    BY <2>1, <2>2
  <2>4. CASE i <= Len(topics[t])
    BY <2>1, <2>2, <2>3, <2>4
  <2>5. CASE ~ (i <= Len(topics[t]))
    <3>1. i - Len(topics[t]) \in DOMAIN messages /\ topics'[t][i] = messages[i - Len(topics[t])]
      BY <2>1, <2>2, <2>3, <2>5
    <3> QED BY <2>1, <3>1
  <2> QED BY <2>4, <2>5
<1> QED BY <1>1, <1>2

(* Every step keeps the offsets in order.                                  *)
LEMMA OffsetsStep ==
  ASSUME Typed, Offsets, [Next]_vars
  PROVE  Offsets'
<1> USE DEF stockVars, kafkaVars, historyVars
<1>01. \A t \in Topics : Len(topics[t]) \in Nat /\ Len(topics'[t]) \in Nat
  <2>1. topics' \in [Topics -> Seq(MessageType \cup RestockType)]
    BY TypedStep DEF Typed
  <2>2. topics \in [Topics -> Seq(MessageType \cup RestockType)]
    BY DEF Typed
  <2> QED BY <2>1, <2>2
<1>02. \A t \in Topics : Len(topics'[t]) >= Len(topics[t])
  BY TopicsGrow
<1>0. /\ \A t \in Topics : /\ offset[t] \in Nat /\ committed[t] \in Nat /\ Len(topics[t]) \in Nat
                           /\ Len(topics'[t]) \in Nat /\ Len(topics'[t]) >= Len(topics[t])
                           /\ committed[t] <= offset[t] /\ offset[t] <= Len(topics[t])
      /\ consumer \in {"poll"} \cup OrderTopics /\ OrderTopics \subseteq Topics
      /\ consumer # "poll" => offset[consumer] < Len(topics[consumer])
  BY <1>01, <1>02 DEF Typed, Offsets, Topics, OrderTopics, HasMessage
<1>1. ASSUME NEW t \in Topics, HasMessage(t), Done(t), UNCHANGED <<topics, committed>>
      PROVE  Offsets'
  <2>1. /\ offset'[t] = offset[t] + 1 /\ \A u \in Topics : u # t => offset'[u] = offset[u]
        /\ consumer' = "poll" /\ offset[t] < Len(topics[t])
    BY <1>1 DEF Done, Typed, HasMessage
  <2> QED BY <1>0, <1>1, <2>1 DEF Offsets
<1>2. CASE UNCHANGED <<offset, committed, consumer>>
  BY <1>0, <1>2 DEF Offsets, HasMessage
<1>3. CASE SkipCheckoutFailed
  BY <1>1, <1>3 DEF SkipCheckoutFailed, Topics
<1>4. CASE SkipEmptyCanceled
  BY <1>1, <1>4 DEF SkipEmptyCanceled, Topics
<1>5. CASE IncrementDb
  BY <1>0, <1>1, <1>5 DEF IncrementDb, HasMessage
<1>6. CASE AddStock
  BY <1>1, <1>6 DEF AddStock, Topics
<1>7. CASE ReleaseCheckoutFailed \/ ReleaseCanceled
  <2>1. UNCHANGED <<offset, committed, topics>> /\ (consumer' # "poll" => HasMessage(consumer'))
    BY <1>7 DEF ReleaseCheckoutFailed, ReleaseCanceled, HasMessage
  <2> QED BY <1>0, <2>1 DEF Offsets, HasMessage
<1>8. CASE IncrementFails
  BY <1>0, <1>8 DEF IncrementFails, Offsets
<1>9. CASE RestockOutbox \/ \E t \in Topics : Redeliver(t)
  BY <1>2, <1>9 DEF RestockOutbox, Redeliver
<1>10. ASSUME NEW t \in Topics, CommitOffset(t) PROVE Offsets'
  BY <1>0, <1>10 DEF CommitOffset, Offsets, HasMessage, Typed
<1>11. CASE Crash
  BY <1>0, <1>11 DEF Crash, Offsets, HasMessage
<1> QED BY <1>2, <1>3, <1>4, <1>5, <1>6, <1>7, <1>8, <1>9, <1>10, <1>11, KafkaSteps

-----------------------------------------------------------------------------
(* Checkouts and their messages.                                           *)

(* A step moves one checkout on, save for a crash, which loses those       *)
(* between script and transaction.                                         *)
LEMMA AttemptChange ==
  ASSUME Typed, [Next]_vars, NEW a \in Attempts, attempts'[a] # attempts[a]
  PROVE  \/ \E cart \in Carts : Reserve(a, cart) \/ OutOfStock(a, cart)
         \/ DecrementDb(a) \/ LoseReservation(a) \/ RefuseCheckout(a) \/ CancelOrder(a)
         \/ \E id \in OrderIds : PlaceOrder(a, id) \/ RollBackCheckout(a, id)
         \/ /\ Crash /\ attempts[a].pc = "decrement"
            /\ attempts'[a] = [attempts[a] EXCEPT !.pc = "lost"]
<1> USE DEF stockVars, kafkaVars, historyVars
<1>1. ASSUME NEW b \in Attempts, AttemptStep(b) PROVE b = a
  BY <1>1 DEF Typed, AttemptStep, Reserve, OutOfStock, DecrementDb, LoseReservation, PlaceOrder,
     RefuseCheckout, CancelOrder, RollBackCheckout
<1>2. ASSUME \/ RestockStep \/ ConsumerStep \/ UNCHANGED vars
             \/ \E id \in OrderIds \cup {Null} : KeyExpires(id)
             \/ \E t \in Topics : Redeliver(t)
      PROVE  FALSE
  BY <1>2 DEF RestockStep, RestockUpsert, RestockOutbox, RestockFails, ConsumerStep, SkipCheckoutFailed,
     SkipEmptyCanceled, IncrementDb, ReleaseCheckoutFailed, ReleaseCanceled, IncrementFails, AddStock,
     CommitOffset, KeyExpires, Redeliver, vars
<1>3. CASE Crash
  BY <1>3 DEF Crash
<1> QED BY <1>1, <1>2, <1>3 DEF Next, AttemptStep

(* How a checkout moves.                                                   *)
LEMMA Moves ==
  ASSUME Typed, [Next]_vars, NEW a \in Attempts, attempts'[a] # attempts[a]
  PROVE  /\ attempts[a].pc \notin {"refused", "canceled", "outOfStock", "lost"}
         /\ attempts'[a].pc = "ordered" => \E id \in OrderIds : PlaceOrder(a, id)
         /\ attempts'[a].pc = "canceled" => CancelOrder(a)
         /\ attempts'[a].pc = "refused" =>
              RefuseCheckout(a) \/ \E id \in OrderIds : RollBackCheckout(a, id)
<1> DEFINE Goes(pc) == attempts'[a].pc = pc
<1>0. attempts \in [Attempts -> AttemptType] /\ attempts[a] \in AttemptType
  BY DEF Typed
<1>1. ASSUME NEW cart \in Carts, Reserve(a, cart) \/ OutOfStock(a, cart)
      PROVE  attempts[a].pc = "new" /\ attempts'[a].pc \in {"decrement", "outOfStock"}
  BY <1>0, <1>1 DEF Reserve, OutOfStock, AttemptType
<1>2. ASSUME DecrementDb(a) \/ LoseReservation(a)
      PROVE  attempts[a].pc \in {"decrement", "reserved"} /\ attempts'[a].pc \in {"reserved", "lost"}
  BY <1>0, <1>2 DEF DecrementDb, LoseReservation, AttemptType
<1>3. ASSUME RefuseCheckout(a) \/ \E id \in OrderIds : RollBackCheckout(a, id)
      PROVE  attempts[a].pc = "reserved" /\ attempts'[a].pc = "refused"
  BY <1>0, <1>3 DEF RefuseCheckout, RollBackCheckout, AttemptType
<1>4. ASSUME NEW id \in OrderIds, PlaceOrder(a, id)
      PROVE  attempts[a].pc = "reserved" /\ attempts'[a].pc = "ordered"
  BY <1>0, <1>4 DEF PlaceOrder, AttemptType
<1>5. ASSUME CancelOrder(a)
      PROVE  attempts[a].pc = "ordered" /\ attempts'[a].pc = "canceled"
  BY <1>0, <1>5 DEF CancelOrder, AttemptType
<1>6. ASSUME attempts'[a] = [attempts[a] EXCEPT !.pc = "lost"]
      PROVE  attempts'[a].pc = "lost"
  BY <1>0, <1>6 DEF AttemptType
<1> QED BY <1>1, <1>2, <1>3, <1>4, <1>5, <1>6, AttemptChange

(* A message is published by the checkout it names when that ends, or is a *)
(* copy of an earlier one.                                                 *)
LEMMA MessageNew ==
  ASSUME Typed, [Next]_vars, NEW t \in OrderTopics, NEW i \in DOMAIN topics'[t], i \notin DOMAIN topics[t],
         NEW m, m = topics'[t][i]
  PROVE  /\ m.attempt \in Attempts
         /\ \/ /\ t = "order.checkout.failed" /\ RefuseCheckout(m.attempt) /\ m.id = Null
               /\ m.items = attempts'[m.attempt].cart
            \/ /\ t = "order.checkout.failed" /\ i = Len(topics[t]) + 1
               /\ m.id \in OrderIds /\ RollBackCheckout(m.attempt, m.id)
               /\ m.items = attempts'[m.attempt].cart
            \/ /\ t = "order.canceled" /\ i = Len(topics[t]) + 1
               /\ m.id = attempts[m.attempt].order /\ CancelOrder(m.attempt)
            \/ Redeliver(t) /\ \E k \in DOMAIN topics[t] : m = topics[t][k]
<1> USE DEF stockVars, kafkaVars, historyVars
<1>0. t \in Topics /\ t # "product.restock" /\ topics[t] \in Seq(MessageType)
  BY DEF OrderTopics, Topics, Typed, Canceled, Failed
<1>1. ASSUME NEW u, NEW messages \in Seq(MessageType), Publish(u, messages)
      PROVE  /\ u = t
             /\ \A n \in MessageType : messages = <<n>> => m = n /\ i = Len(topics[t]) + 1
             /\ \A n \in MessageType : messages = <<n, n>> => m = n
  <2>1. u = t /\ topics'[t] = topics[t] \o messages
    BY <1>0, <1>1 DEF Publish, Typed
  <2>2. /\ i \in 1 .. Len(topics[t]) + Len(messages) /\ i \notin 1 .. Len(topics[t])
        /\ Len(topics[t]) \in Nat /\ Len(messages) \in Nat
    BY <1>0, <2>1
  <2>3. i - Len(topics[t]) \in 1 .. Len(messages) /\ m = messages[i - Len(topics[t])]
    BY <1>0, <2>1, <2>2
  <2>4. ASSUME NEW n \in MessageType, messages = <<n>> PROVE m = n /\ i = Len(topics[t]) + 1
    <3>1. Len(messages) = 1 /\ messages[1] = n
      BY <2>4
    <3> QED BY <2>2, <2>3, <3>1
  <2>5. ASSUME NEW n \in MessageType, messages = <<n, n>> PROVE m = n
    <3>1. Len(messages) = 2 /\ messages[1] = n /\ messages[2] = n
      BY <2>5
    <3>2. i - Len(topics[t]) = 1 \/ i - Len(topics[t]) = 2
      BY <2>2, <2>3, <3>1
    <3> QED BY <2>3, <3>1, <3>2
  <2> QED BY <2>1, <2>4, <2>5
<1>2. ~ UNCHANGED topics
  OBVIOUS
<1>3. ASSUME NEW n \in MessageType
      PROVE  <<n>> \in Seq(MessageType) /\ <<n, n>> \in Seq(MessageType)
  OBVIOUS
<1>4. ASSUME NEW a \in Attempts, RefuseCheckout(a)
      PROVE  /\ t = "order.checkout.failed" /\ m.attempt = a /\ m.id = Null /\ m.items = attempts'[a].cart
  <2> DEFINE n == Message(Null, attempts[a].cart, a)
  <2>1. Publish("order.checkout.failed", <<n, n>>) /\ attempts'[a].cart = attempts[a].cart
    BY <1>4 DEF RefuseCheckout, Typed, AttemptType
  <2>2. n \in MessageType /\ n.attempt = a /\ n.id = Null /\ n.items = attempts[a].cart
    BY DEF Message, MessageType, Typed, AttemptType
  <2> HIDE DEF n
  <2> QED BY <1>1, <1>3, <2>1, <2>2
<1>5. ASSUME NEW a \in Attempts, NEW id \in OrderIds, RollBackCheckout(a, id)
      PROVE  /\ t = "order.checkout.failed" /\ m.attempt = a /\ m.id = id /\ m.items = attempts'[a].cart
             /\ i = Len(topics[t]) + 1
  <2> DEFINE n == Message(id, attempts[a].cart, a)
  <2>1. Publish("order.checkout.failed", <<n>>) /\ attempts'[a].cart = attempts[a].cart
    BY <1>5 DEF RollBackCheckout, Typed, AttemptType
  <2>2. n \in MessageType /\ n.attempt = a /\ n.id = id /\ n.items = attempts[a].cart
    BY DEF Message, MessageType, Typed, AttemptType
  <2> HIDE DEF n
  <2> QED BY <1>1, <1>3, <2>1, <2>2
<1>6. ASSUME NEW a \in Attempts, CancelOrder(a)
      PROVE  /\ t = "order.canceled" /\ m.attempt = a /\ m.id = attempts[a].order
             /\ i = Len(topics[t]) + 1
  <2>1. attempts[a] \in AttemptType
    BY DEF Typed
  <2>2. PICK rows \in Carts \cup {<<>>} : Publish("order.canceled", <<Message(attempts[a].order, rows, a)>>)
    BY <1>6 DEF CancelOrder
  <2> DEFINE n == Message(attempts[a].order, rows, a)
  <2>3. Publish("order.canceled", <<n>>)
    BY <2>2
  <2>4. n \in MessageType /\ n.attempt = a /\ n.id = attempts[a].order
    BY <2>1, <2>2 DEF Message, MessageType, AttemptType
  <2> HIDE DEF n
  <2> QED BY <1>1, <1>3, <2>3, <2>4
<1>7. ~ RestockOutbox
  <2> SUFFICES ASSUME RestockOutbox PROVE FALSE
    OBVIOUS
  <2>1. topics'[t] = topics[t]
    BY <1>0 DEF RestockOutbox, Publish, Typed
  <2> QED BY <2>1
<1>8. ASSUME NEW u \in Topics, Redeliver(u)
      PROVE  u = t /\ m.attempt \in Attempts /\ \E k \in DOMAIN topics[t] : m = topics[t][k]
  <2>1. u = t
    BY <1>0, <1>8, Copies
  <2>2. PICK k \in DOMAIN topics[t] : m = topics[t][k]
    BY <1>0, <1>8, CopyOf
  <2>3. topics[t][k] \in MessageType
    BY <1>0
  <2> QED BY <2>1, <2>2, <2>3 DEF MessageType
<1> QED BY <1>2, <1>4, <1>5, <1>6, <1>7, <1>8, KafkaSteps DEF SkipCheckoutFailed, SkipEmptyCanceled, IncrementDb,
        ReleaseCheckoutFailed, ReleaseCanceled, IncrementFails, AddStock, CommitOffset, Crash

-----------------------------------------------------------------------------
(* Reservations are given back once.                                       *)

(* A message of an order tells how its checkout ended, and Redis gives     *)
(* back what ended so.                                                     *)
MessagesFit ==
  /\ \A t \in OrderTopics : \A i \in DOMAIN topics[t] :
       attempts[topics[t][i].attempt].pc = IF t = "order.canceled" THEN "canceled" ELSE "refused"
  /\ \A i \in DOMAIN Failed : Failed[i].items = attempts[Failed[i].attempt].cart
GivenEnded == \A a \in given : attempts[a].pc \in {"refused", "canceled"}

(* A checkout goes by one order id, and once it has been given back, the   *)
(* key of that id is there until it expires.                               *)
OneId ==
  \A t, u \in OrderTopics : \A i \in DOMAIN topics[t], j \in DOMAIN topics[u] :
    topics[t][i].attempt = topics[u][j].attempt => topics[t][i].id = topics[u][j].id
KeysKept ==
  used.expiries = 0 =>
    \A t \in OrderTopics : \A i \in DOMAIN topics[t] :
      topics[t][i].attempt \in given => topics[t][i].id \in processed

(* The restocks in the topic are calls that were made, all messages of a   *)
(* call are the same, and the consumer has counted the calls it is past.   *)
RestocksFit ==
  /\ \A i \in DOMAIN Restocks :
       /\ Restocks[i].call <= used.restocks
       /\ restock # NoRestock => Restocks[i].call # used.restocks
       /\ i <= offset["product.restock"] => Restocks[i].call \in added
  /\ \A i, j \in DOMAIN Restocks : Restocks[i].call = Restocks[j].call => Restocks[i] = Restocks[j]
  /\ \A c \in added : \E i \in DOMAIN Restocks : Restocks[i].call = c

(* Without crashes and duplicates it has counted no others.                *)
NoReplay ==
  used.crashes = 0 /\ used.duplicates = 0 =>
    /\ \A i, j \in DOMAIN Restocks : Restocks[i].call = Restocks[j].call => i = j
    /\ \A i \in DOMAIN Restocks : Restocks[i].call \in added => i <= offset["product.restock"]

(* A topic's messages are messages.                                        *)
LEMMA MessageTyped ==
  ASSUME Typed, NEW t \in OrderTopics, NEW i \in DOMAIN topics[t]
  PROVE  topics[t][i] \in MessageType
<1>1. topics[t] \in Seq(MessageType)
  BY DEF OrderTopics, Typed, Canceled, Failed
<1> QED BY <1>1

(* A checkout that has published a message has ended.                      *)
LEMMA Ended ==
  ASSUME Typed, MessagesFit, [Next]_vars, NEW t \in OrderTopics, NEW i \in DOMAIN topics[t]
  PROVE  /\ attempts'[topics[t][i].attempt] = attempts[topics[t][i].attempt]
         /\ topics[t][i].attempt \in Attempts
<1>1. topics[t][i].attempt \in Attempts
  BY MessageTyped DEF MessageType
<1>2. attempts[topics[t][i].attempt].pc \in {"refused", "canceled"}
  BY DEF MessagesFit
<1> QED BY <1>1, <1>2, Moves

(* The state before the last step of a checkout.                           *)
LEMMA Ending ==
  ASSUME Typed, NEW a \in Attempts
  PROVE  /\ RefuseCheckout(a) => attempts[a].pc = "reserved" /\ attempts'[a].pc = "refused"
         /\ \A id : RollBackCheckout(a, id) => attempts[a].pc = "reserved" /\ attempts'[a].pc = "refused"
         /\ CancelOrder(a) => attempts[a].pc = "ordered" /\ attempts'[a].pc = "canceled"
         /\ \A id : ~ (RefuseCheckout(a) /\ id \in OrderIds /\ RollBackCheckout(a, id))
<1>1. attempts[a] \in AttemptType
  BY DEF Typed
<1>2. CancelOrder(a) => attempts[a].pc = "ordered" /\ attempts'[a].pc = "canceled"
  BY <1>1 DEF CancelOrder, Typed, AttemptType
<1> QED BY <1>1, <1>2 DEF RefuseCheckout, RollBackCheckout, Typed, AttemptType

(* Messages go on fitting their checkouts, which have ended.               *)
LEMMA FitStep ==
  ASSUME Typed, MessagesFit, [Next]_vars
  PROVE  MessagesFit'
<1> SUFFICES ASSUME NEW t \in OrderTopics, NEW i \in DOMAIN topics'[t], NEW m, m = topics'[t][i]
             PROVE  /\ attempts'[m.attempt].pc = IF t = "order.canceled" THEN "canceled" ELSE "refused"
                    /\ t = "order.checkout.failed" => m.items = attempts'[m.attempt].cart
  BY DEF MessagesFit, Failed, OrderTopics
<1>1. ASSUME NEW k \in DOMAIN topics[t], m = topics[t][k]
      PROVE  /\ attempts'[m.attempt].pc = IF t = "order.canceled" THEN "canceled" ELSE "refused"
             /\ t = "order.checkout.failed" => m.items = attempts'[m.attempt].cart
  BY <1>1, Ended DEF MessagesFit, Failed
<1>2. CASE i \in DOMAIN topics[t]
  <2>1. m = topics[t][i]
    BY <1>2, TopicsGrow DEF OrderTopics, Topics
  <2> QED BY <1>1, <1>2, <2>1
<1>3. CASE i \notin DOMAIN topics[t]
  BY <1>1, <1>3, MessageNew, Ending
<1> QED BY <1>2, <1>3

(* The steps that touch the keys, and the reservations given back.         *)
LEMMA KeySteps ==
  ASSUME Typed, [Next]_vars
  PROVE  \/ UNCHANGED <<processed, given>>
         \/ \E t \in OrderTopics : /\ consumer = "poll" /\ HasMessage(t) /\ Release(HeadOf(t))
                                 /\ consumer' = t
                                 /\ UNCHANGED <<db, attempts, orders, restock, topics, offset, added, used>>
         \/ \E id \in OrderIds \cup {Null} : KeyExpires(id)
<1> USE DEF stockVars, kafkaVars, historyVars
<1>1. ASSUME NEW a \in Attempts, AttemptStep(a) PROVE UNCHANGED <<processed, given>>
  BY <1>1 DEF AttemptStep, Reserve, OutOfStock, DecrementDb, LoseReservation, PlaceOrder, RefuseCheckout,
     CancelOrder, RollBackCheckout
<1>2. ASSUME RestockStep PROVE UNCHANGED <<processed, given>>
  BY <1>2 DEF RestockStep, RestockUpsert, RestockOutbox, RestockFails
<1>3. CASE ConsumerStep
  BY <1>3 DEF ConsumerStep, SkipCheckoutFailed, SkipEmptyCanceled, IncrementDb, ReleaseCheckoutFailed,
     ReleaseCanceled, IncrementFails, AddStock, CommitOffset, OrderTopics
<1>4. ASSUME Crash \/ UNCHANGED vars \/ \E t \in Topics : Redeliver(t) PROVE UNCHANGED <<processed, given>>
  BY <1>4 DEF Crash, Redeliver, vars
<1> QED BY <1>1, <1>2, <1>3, <1>4 DEF Next

(* What goes wrong is counted up, one thing in a step.                     *)
LEMMA UsedGrows ==
  ASSUME Typed, [Next]_vars
  PROVE  /\ \A k \in Kinds : used[k] \in Nat /\ used'[k] \in Nat /\ used'[k] >= used[k]
         /\ Crash => used'.crashes > 0
         /\ \A id : KeyExpires(id) => used'.expiries > 0
         /\ \A t : Redeliver(t) => used'.duplicates > 0
         /\ Fault => used'.faults = used.faults + 1
         /\ ~ Fault => used'.faults = used.faults
<1> USE DEF stockVars, kafkaVars, historyVars
<1>0. /\ used \in UsedType
      /\ \A k \in Kinds : used[k] \in Nat
  BY DEF Typed, UsedType, Kinds
<1>1. ASSUME NEW kind \in Kinds, NEW bound, Spend(kind, bound)
      PROVE  /\ used'[kind] = used[kind] + 1 /\ \A k \in Kinds \ {kind} : used'[k] = used[k]
             /\ \A k \in Kinds : used'[k] \in Nat /\ used'[k] >= used[k]
  BY <1>0, <1>1, Spent
<1>2. Kinds = {"restocks", "faults", "crashes", "expiries", "duplicates"}
  BY DEF Kinds
<1>3. ASSUME Fault PROVE Spend("faults", MaxFaults)
  BY <1>3 DEF Fault, Mishap
<1>4. ASSUME NEW kind \in Kinds \ {"faults"}, NEW bound, Spend(kind, bound)
      PROVE  ~ Fault
  <2>1. used'["faults"] = used["faults"]
    BY <1>1, <1>2, <1>4
  <2>2. ~ Spend("faults", MaxFaults)
    <3>1. ASSUME Spend("faults", MaxFaults) PROVE FALSE
      BY <1>0, <1>1, <1>2, <2>1, <3>1
    <3> QED BY <3>1
  <2> QED BY <1>3, <2>2
<1>5. ASSUME NEW a \in Attempts, AttemptStep(a) PROVE UNCHANGED used \/ Fault
  BY <1>5 DEF AttemptStep, Reserve, OutOfStock, DecrementDb, LoseReservation, PlaceOrder, RefuseCheckout,
     CancelOrder, RollBackCheckout
<1>6. ASSUME RestockStep PROVE UNCHANGED used \/ Fault \/ Spend("restocks", MaxRestocks)
  BY <1>6 DEF RestockStep, RestockUpsert, RestockOutbox, RestockFails
<1>7. ASSUME ConsumerStep PROVE UNCHANGED used \/ Fault
  BY <1>7 DEF ConsumerStep, SkipCheckoutFailed, SkipEmptyCanceled, IncrementDb, ReleaseCheckoutFailed,
     ReleaseCanceled, IncrementFails, AddStock, CommitOffset
<1>8. ASSUME Crash PROVE Spend("crashes", MaxCrashes)
  BY <1>8 DEF Crash, Mishap
<1>9. ASSUME NEW id, KeyExpires(id) PROVE Spend("expiries", MaxExpiries)
  BY <1>9 DEF KeyExpires, Mishap
<1>10. ASSUME NEW t, Redeliver(t) PROVE Spend("duplicates", MaxDuplicates)
  BY <1>10 DEF Redeliver, Mishap
<1>11. UNCHANGED used \/ \E kind \in Kinds : \E bound : Spend(kind, bound)
  BY <1>2, <1>3, <1>5, <1>6, <1>7, <1>8, <1>9, <1>10 DEF Next, vars
<1>12. \A k \in Kinds : used[k] \in Nat /\ used'[k] \in Nat /\ used'[k] >= used[k]
  BY <1>0, <1>1, <1>11
<1>13. Crash => used'.crashes > 0
  BY <1>0, <1>1, <1>2, <1>8
<1>14. \A id : KeyExpires(id) => used'.expiries > 0
  BY <1>0, <1>1, <1>2, <1>9
<1>15. \A t : Redeliver(t) => used'.duplicates > 0
  BY <1>0, <1>1, <1>2, <1>10
<1>16. Fault => used'.faults = used.faults + 1
  BY <1>1, <1>2, <1>3
<1>17. ~ Fault => used'.faults = used.faults
  BY <1>1, <1>2, <1>4, <1>5, <1>6, <1>7, <1>8, <1>9, <1>10 DEF Next, vars
<1> QED BY <1>12, <1>13, <1>14, <1>15, <1>16, <1>17

(* Only what has ended is given back.                                      *)
LEMMA GivenStep ==
  ASSUME Typed, MessagesFit, GivenEnded, [Next]_vars
  PROVE  GivenEnded'
<1>1. ASSUME NEW a \in given PROVE attempts'[a].pc \in {"refused", "canceled"}
  BY <1>1, Moves DEF GivenEnded, Typed
<1>2. ASSUME NEW t \in OrderTopics, HasMessage(t), Release(HeadOf(t)), UNCHANGED attempts,
             NEW a \in given', a \notin given
      PROVE  attempts'[a].pc \in {"refused", "canceled"}
  <2>1. a = HeadOf(t).attempt
    BY <1>2 DEF Release
  <2>2. offset[t] + 1 \in DOMAIN topics[t]
    BY <1>2, HeadType DEF OrderTopics, Topics
  <2> QED BY <1>2, <2>1, <2>2 DEF MessagesFit, HeadOf
<1> QED BY <1>1, <1>2, KeySteps DEF GivenEnded, KeyExpires, historyVars

(* The messages of a checkout are published in one step, with one id.      *)
LEMMA OneIdStep ==
  ASSUME Typed, MessagesFit, OneId, [Next]_vars
  PROVE  OneId'
<1> SUFFICES ASSUME NEW t \in OrderTopics, NEW u \in OrderTopics,
                    NEW i \in DOMAIN topics'[t], NEW j \in DOMAIN topics'[u],
                    NEW m, m = topics'[t][i], NEW n, n = topics'[u][j], m.attempt = n.attempt
             PROVE  m.id = n.id
  BY DEF OneId
<1> DEFINE Old(v, x) == \E k \in DOMAIN topics[v] : x = topics[v][k]
<1>1. ASSUME NEW v \in OrderTopics, NEW k \in DOMAIN topics'[v], NEW x, x = topics'[v][k]
      PROVE  \/ Old(v, x)
             \/ /\ k \notin DOMAIN topics[v] /\ attempts[x.attempt].pc \in {"reserved", "ordered"}
                /\ ~ Redeliver(v)
  <2>1. CASE k \in DOMAIN topics[v]
    BY <1>1, <2>1, TopicsGrow DEF OrderTopics, Topics
  <2>2. CASE k \notin DOMAIN topics[v] /\ Redeliver(v)
    BY <1>1, <2>2, CopyOf DEF OrderTopics, Topics
  <2>3. CASE k \notin DOMAIN topics[v] /\ ~ Redeliver(v)
    BY <1>1, <2>3, MessageNew, Ending
  <2> QED BY <2>1, <2>2, <2>3
<1>2. ASSUME NEW v \in OrderTopics, NEW x, Old(v, x) PROVE attempts[x.attempt].pc \in {"refused", "canceled"}
  BY <1>2 DEF MessagesFit
<1>3. CASE Old(t, m) /\ Old(u, n)
  BY <1>3 DEF OneId
<1> HIDE DEF Old
<1>8. CASE ~ Old(t, m) /\ ~ Old(u, n)
  <2> DEFINE a == m.attempt
  <2>0. i \notin DOMAIN topics[t] /\ j \notin DOMAIN topics[u] /\ ~ Redeliver(t) /\ ~ Redeliver(u)
    BY <1>1, <1>8
  <2>1. a \in Attempts
    BY <2>0, MessageNew
  <2>2. CASE RefuseCheckout(a)
    BY <2>0, <2>1, <2>2, MessageNew, Ending
  <2>3. CASE CancelOrder(a)
    BY <2>0, <2>1, <2>3, MessageNew, Ending
  <2>4. CASE ~ RefuseCheckout(a) /\ ~ CancelOrder(a)
    <3>1. t = "order.checkout.failed" /\ i = Len(topics[t]) + 1
      BY <2>0, <2>4, MessageNew
    <3>2. u = "order.checkout.failed" /\ j = Len(topics[u]) + 1
      BY <2>0, <2>4, MessageNew
    <3> QED BY <3>1, <3>2
  <2> QED BY <2>2, <2>3, <2>4
<1> QED BY <1>1, <1>2, <1>3, <1>8

(* The key is set in the step that gives the reservation back.             *)
LEMMA KeysStep ==
  ASSUME Typed, MessagesFit, GivenEnded, OneId, KeysKept, [Next]_vars
  PROVE  KeysKept'
<1> SUFFICES ASSUME used'.expiries = 0, NEW t \in OrderTopics, NEW i \in DOMAIN topics'[t],
                    NEW m, m = topics'[t][i], m.attempt \in given'
             PROVE  m.id \in processed'
  BY DEF KeysKept
<1>0. used.expiries = 0 /\ (\A id : ~ KeyExpires(id))
  BY UsedGrows DEF Kinds
<1>1. ASSUME i \in DOMAIN topics[t] PROVE m = topics[t][i]
  BY <1>1, TopicsGrow DEF OrderTopics, Topics
<1>2. CASE UNCHANGED <<processed, given>>
  <2>1. CASE i \in DOMAIN topics[t]
    BY <1>0, <1>1, <1>2, <2>1 DEF KeysKept
  <2>2. CASE i \notin DOMAIN topics[t] /\ ~ Redeliver(t)
    <3>1. attempts[m.attempt].pc \in {"reserved", "ordered"}
      BY <2>2, MessageNew, Ending
    <3> QED BY <1>2, <3>1 DEF GivenEnded
  <2>3. CASE Redeliver(t)
    <3>1. PICK k \in DOMAIN topics[t] : m = topics[t][k]
      BY <2>3, CopyOf DEF OrderTopics, Topics
    <3> QED BY <1>0, <1>2, <3>1 DEF KeysKept
  <2> QED BY <2>1, <2>2, <2>3
<1>3. ASSUME NEW u \in OrderTopics, HasMessage(u), Release(HeadOf(u)), UNCHANGED topics
      PROVE  m.id \in processed'
  <2>1. m = topics[t][i] /\ i \in DOMAIN topics[t]
    BY <1>3
  <2>2. CASE m.attempt \in given
    BY <1>0, <1>3, <2>1, <2>2 DEF KeysKept, Release
  <2>3. CASE m.attempt \notin given
    <3>1. m.attempt = HeadOf(u).attempt /\ HeadOf(u).id \in processed'
      BY <1>3, <2>3 DEF Release
    <3>2. offset[u] + 1 \in DOMAIN topics[u] /\ HeadOf(u) = topics[u][offset[u] + 1]
      BY <1>3, HeadType DEF OrderTopics, Topics, HeadOf
    <3> QED BY <2>1, <3>1, <3>2 DEF OneId
  <2> QED BY <2>2, <2>3
<1> QED BY <1>0, <1>2, <1>3, KeySteps

(* What a step does to the restock messages and the consumer of them.      *)
LEMMA CallSteps ==
  ASSUME Typed, Offsets, [Next]_vars
  PROVE  \/ /\ UNCHANGED <<topics, added>> /\ offset'["product.restock"] <= offset["product.restock"]
            /\ ~ Crash => offset'["product.restock"] = offset["product.restock"]
         \/ /\ UNCHANGED <<added, offset>> /\ Restocks' = Restocks
         \/ RestockOutbox
         \/ AddStock
         \/ Redeliver("product.restock")
<1> USE DEF stockVars, kafkaVars, historyVars
<1>0. /\ "product.restock" \in Topics /\ "product.restock" \notin OrderTopics
      /\ offset["product.restock"] \in Nat /\ consumer \in {"poll"} \cup OrderTopics
      /\ committed["product.restock"] <= offset["product.restock"]
  BY DEF Typed, Offsets, Topics, OrderTopics
<1>1. ASSUME NEW t \in OrderTopics, Done(t) PROVE offset'["product.restock"] = offset["product.restock"]
  BY <1>0, <1>1 DEF Done, Typed
<1>2. ASSUME NEW a \in Attempts, AttemptStep(a) PROVE UNCHANGED <<added, offset>> /\ Restocks' = Restocks
  <2>1. ASSUME NEW t \in OrderTopics, NEW messages, Publish(t, messages) PROVE Restocks' = Restocks
    BY <2>1 DEF Publish, Restocks, OrderTopics, Typed
  <2>2. ASSUME NEW id \in OrderIds, RollBackCheckout(a, id)
        PROVE  \E t \in OrderTopics : \E messages : Publish(t, messages)
    BY <2>2 DEF RollBackCheckout, OrderTopics
  <2>3. ASSUME CancelOrder(a) PROVE \E t \in OrderTopics : \E messages : Publish(t, messages)
    BY <2>3 DEF CancelOrder, OrderTopics
  <2>4. ASSUME RefuseCheckout(a) PROVE \E t \in OrderTopics : \E messages : Publish(t, messages)
    BY <2>4 DEF RefuseCheckout, OrderTopics
  <2> QED BY <1>2, <2>1, <2>2, <2>3, <2>4 DEF AttemptStep, Reserve, OutOfStock, DecrementDb, LoseReservation,
          PlaceOrder, RefuseCheckout, CancelOrder, RollBackCheckout, Restocks
<1>3. ASSUME NEW t \in Topics, t # "product.restock", Redeliver(t)
      PROVE  UNCHANGED <<added, offset>> /\ Restocks' = Restocks
  BY <1>0, <1>3, Copies DEF Redeliver, Restocks
<1>4. ASSUME SkipCheckoutFailed PROVE UNCHANGED <<topics, added>> /\ offset'["product.restock"] = offset["product.restock"]
  BY <1>1, <1>4 DEF SkipCheckoutFailed, OrderTopics
<1>5. ASSUME SkipEmptyCanceled PROVE UNCHANGED <<topics, added>> /\ offset'["product.restock"] = offset["product.restock"]
  BY <1>1, <1>5 DEF SkipEmptyCanceled, OrderTopics
<1>6. ASSUME IncrementDb PROVE UNCHANGED <<topics, added>> /\ offset'["product.restock"] = offset["product.restock"]
  BY <1>0, <1>1, <1>6 DEF IncrementDb
<1>7. ASSUME RestockStep, ~ RestockOutbox
      PROVE  UNCHANGED <<topics, added>> /\ offset'["product.restock"] = offset["product.restock"]
  BY <1>7 DEF RestockStep, RestockUpsert, RestockFails
<1>8. ASSUME ReleaseCheckoutFailed \/ ReleaseCanceled \/ IncrementFails \/ UNCHANGED vars
             \/ (\E t \in Topics : CommitOffset(t)) \/ (\E id \in OrderIds \cup {Null} : KeyExpires(id))
      PROVE  UNCHANGED <<topics, added>> /\ offset'["product.restock"] = offset["product.restock"]
  BY <1>8 DEF ReleaseCheckoutFailed, ReleaseCanceled, IncrementFails, CommitOffset, KeyExpires, vars
<1>9. ASSUME Crash PROVE UNCHANGED <<topics, added>> /\ offset'["product.restock"] <= offset["product.restock"]
  BY <1>0, <1>9 DEF Crash
<1> QED BY <1>0, <1>2, <1>3, <1>4, <1>5, <1>6, <1>7, <1>8, <1>9 DEF Next, ConsumerStep

(* The message that a restock call adds.                                   *)
LEMMA OutboxAdds ==
  ASSUME Typed, RestockOutbox
  PROVE  /\ restock.sku \in Skus /\ restock = [sku |-> restock.sku]
         /\ LET m == RestockMessage(restock.sku, used.restocks)
            IN  /\ m \in RestockType /\ m.items[1].sku = restock.sku /\ m.call = used.restocks
                /\ Len(Restocks') = Len(Restocks) + 1 /\ Restocks'[Len(Restocks) + 1] = m
                /\ DOMAIN Restocks' = DOMAIN Restocks \cup {Len(Restocks) + 1}
                /\ \A i \in DOMAIN Restocks : Restocks'[i] = Restocks[i]
                /\ Len(Restocks) \in Nat /\ DOMAIN Restocks = 1 .. Len(Restocks)
<1>1. restock.sku \in Skus /\ restock = [sku |-> restock.sku] /\ used.restocks \in Nat
  BY DEF RestockOutbox, Typed, UsedType
<1> DEFINE m == RestockMessage(restock.sku, used.restocks)
<1>2. m \in RestockType /\ m.items[1].sku = restock.sku /\ m.call = used.restocks
  BY <1>1 DEF RestockType, RestockMessage
<1>3. Restocks' = Restocks \o <<m>>
  BY DEF RestockOutbox, Publish, Typed, Topics, Restocks
<1>4. Restocks \in Seq(RestockType)
  BY DEF Typed
<1> HIDE DEF m
<1>5. ASSUME NEW q \in Seq(RestockType), NEW q2, q2 = q \o <<m>>
      PROVE  /\ Len(q2) = Len(q) + 1 /\ q2[Len(q) + 1] = m
             /\ DOMAIN q2 = DOMAIN q \cup {Len(q) + 1}
             /\ \A i \in DOMAIN q : q2[i] = q[i]
             /\ Len(q) \in Nat /\ DOMAIN q = 1 .. Len(q)
  <2>1. Len(q) \in Nat /\ DOMAIN q = 1 .. Len(q) /\ Len(q2) = Len(q) + 1 /\ DOMAIN q2 = 1 .. Len(q) + 1
    BY <1>2, <1>5
  <2> QED BY <1>2, <1>5, <2>1
<1> QED BY <1>1, <1>2, <1>3, <1>4, <1>5 DEF m

(* A copy of a restock message.                                            *)
LEMMA RestockCopy ==
  ASSUME Typed, Redeliver("product.restock")
  PROVE  /\ \A i \in DOMAIN Restocks' : \E k \in DOMAIN Restocks : Restocks'[i] = Restocks[k]
         /\ \A i \in DOMAIN Restocks : i \in DOMAIN Restocks' /\ Restocks'[i] = Restocks[i]
         /\ UNCHANGED <<added, offset, restock, stocked>>
<1>1. "product.restock" \in Topics
  BY DEF Topics
<1>2. \A i \in DOMAIN Restocks' : \E k \in DOMAIN Restocks : Restocks'[i] = Restocks[k]
  BY <1>1, CopyOf DEF Restocks
<1>3. PICK messages \in Seq(MessageType \cup RestockType) : Restocks' = Restocks \o messages
  BY <1>1, Copies DEF Restocks
<1>4. \A i \in DOMAIN Restocks : i \in DOMAIN Restocks' /\ Restocks'[i] = Restocks[i]
  <2>1. Restocks \in Seq(MessageType \cup RestockType)
    BY DEF Typed, Restocks, Topics
  <2> QED BY <1>3, <2>1
<1> QED BY <1>2, <1>4 DEF Redeliver, historyVars

(* The restock message the consumer counts.                                *)
LEMMA Counting ==
  ASSUME Typed, AddStock
  PROVE  LET m == HeadOf("product.restock")
             o == offset["product.restock"]
         IN  /\ o \in Nat /\ o + 1 \in DOMAIN Restocks /\ m = Restocks[o + 1] /\ m \in RestockType
             /\ added' = added \cup {m.call} /\ offset'["product.restock"] = o + 1
             /\ redis' = Plus(redis, m.items)
             /\ readded' = (IF m.call \in added THEN Plus(readded, m.items) ELSE readded)
             /\ UNCHANGED <<topics, restock, used, attempts, given, stocked, again, beyond, db, orders, processed>>
<1>1. "product.restock" \in Topics
  BY DEF Topics
<1>2. offset["product.restock"] + 1 \in DOMAIN Restocks /\ HeadOf("product.restock") \in RestockType
  BY <1>1, HeadType DEF AddStock, Restocks
<1>3. offset["product.restock"] \in Nat /\ HeadOf("product.restock") = Restocks[offset["product.restock"] + 1]
  BY <1>1 DEF Typed, HeadOf, Restocks
<1>4. offset'["product.restock"] = offset["product.restock"] + 1
  BY <1>1 DEF AddStock, Done, Typed
<1> QED BY <1>2, <1>3, <1>4 DEF AddStock

(* Restock calls and their messages go on fitting.                         *)
LEMMA RestocksFitStep ==
  ASSUME Typed, Offsets, RestocksFit, [Next]_vars
  PROVE  RestocksFit'
<1> USE DEF stockVars, kafkaVars, historyVars
<1>0. /\ used'.restocks \in Nat /\ used.restocks \in Nat /\ used'.restocks >= used.restocks
      /\ \A i \in DOMAIN Restocks : Restocks[i].call \in Nat /\ i \in Nat
      /\ offset["product.restock"] \in Nat
  <2>1. \A i \in DOMAIN Restocks : Restocks[i] \in RestockType /\ i \in Nat
    BY DEF Typed
  <2> QED BY <2>1, UsedGrows, RestockItems DEF Kinds, Typed, Topics
<1>01. offset'["product.restock"] \in Nat
  BY TypedStep DEF Typed, Topics
<1>02. ASSUME restock' # NoRestock
       PROVE  (restock = NoRestock /\ used'.restocks = used.restocks + 1) \/ restock # NoRestock
  <2>1. restock' = restock \/ (restock = NoRestock /\ Spend("restocks", MaxRestocks))
    <3>1. ASSUME NEW a \in Attempts, AttemptStep(a) PROVE restock' = restock
      BY <3>1 DEF AttemptStep, Reserve, OutOfStock, DecrementDb, LoseReservation, PlaceOrder, RefuseCheckout,
         CancelOrder, RollBackCheckout
    <3>2. ASSUME RestockStep PROVE restock = NoRestock /\ Spend("restocks", MaxRestocks)
      BY <1>02, <3>2 DEF RestockStep, RestockUpsert, RestockOutbox, RestockFails
    <3>3. ASSUME ConsumerStep PROVE restock' = restock
      BY <3>3 DEF ConsumerStep, SkipCheckoutFailed, SkipEmptyCanceled, IncrementDb, ReleaseCheckoutFailed,
         ReleaseCanceled, IncrementFails, AddStock, CommitOffset
    <3> QED BY <1>02, <3>1, <3>2, <3>3 DEF Next, Crash, Redeliver, KeyExpires, vars
  <2>2. Spend("restocks", MaxRestocks) => used'.restocks = used.restocks + 1
    BY Spent DEF Kinds
  <2> QED BY <1>02, <2>1, <2>2
<1>03. restock # NoRestock /\ restock' # NoRestock => used'.restocks = used.restocks
  <2> SUFFICES ASSUME restock # NoRestock, restock' # NoRestock PROVE used'.restocks = used.restocks
    OBVIOUS
  <2>1. ASSUME NEW kind \in Kinds \ {"restocks"}, NEW bound, Mishap(kind, bound) PROVE used'.restocks = used.restocks
    <3>1. Spend(kind, bound)
      BY <2>1 DEF Mishap
    <3> QED BY <3>1, Spent DEF Kinds
  <2>2. ASSUME Fault PROVE used'.restocks = used.restocks
    BY <2>1, <2>2 DEF Fault, Kinds
  <2>3. ASSUME NEW a \in Attempts, AttemptStep(a) PROVE used' = used \/ Fault
    BY <2>3 DEF AttemptStep, Reserve, OutOfStock, DecrementDb, LoseReservation, PlaceOrder, RefuseCheckout,
       CancelOrder, RollBackCheckout
  <2>4. ~ RestockStep
    BY DEF RestockStep, RestockUpsert, RestockOutbox, RestockFails
  <2>5. ASSUME ConsumerStep PROVE used' = used \/ Fault
    BY <2>5 DEF ConsumerStep, SkipCheckoutFailed, SkipEmptyCanceled, IncrementDb, ReleaseCheckoutFailed,
       ReleaseCanceled, IncrementFails, AddStock, CommitOffset
  <2>6. ASSUME Crash \/ (\E t : Redeliver(t)) \/ \E id : KeyExpires(id) PROVE used'.restocks = used.restocks
    BY <2>1, <2>6 DEF Crash, Redeliver, KeyExpires, Kinds
  <2> QED BY <2>2, <2>3, <2>4, <2>5, <2>6 DEF Next, vars
<1>1. ASSUME Restocks' = Restocks, added' = added,
             \A i \in DOMAIN Restocks : i <= offset'["product.restock"] => i <= offset["product.restock"]
      PROVE  RestocksFit'
  <2>1. ASSUME NEW i \in DOMAIN Restocks
        PROVE  Restocks[i].call <= used'.restocks /\ (restock' # NoRestock => Restocks[i].call # used'.restocks)
    BY <1>0, <1>02, <1>03, <2>1 DEF RestocksFit
  <2> QED BY <1>1, <2>1 DEF RestocksFit
<1>2. CASE UNCHANGED <<topics, added>> /\ offset'["product.restock"] <= offset["product.restock"]
  <2>1. Restocks' = Restocks
    BY <1>2 DEF Restocks
  <2> QED BY <1>0, <1>01, <1>1, <1>2, <2>1
<1>3. CASE UNCHANGED <<added, offset>> /\ Restocks' = Restocks
  BY <1>1, <1>3
<1>4. CASE RestockOutbox
  <2>1. UNCHANGED <<added, offset, used>> /\ restock # NoRestock /\ restock' = NoRestock
    BY <1>4 DEF RestockOutbox
  <2>2. PICK n : n = Len(Restocks) + 1
    OBVIOUS
  <2>3. PICK m : m = RestockMessage(restock.sku, used.restocks)
    OBVIOUS
  <2>4. /\ m.call = used.restocks /\ n \notin DOMAIN Restocks
        /\ DOMAIN Restocks' = DOMAIN Restocks \cup {n} /\ Restocks'[n] = m
        /\ \A i \in DOMAIN Restocks : Restocks'[i] = Restocks[i]
        /\ ~ (n <= offset["product.restock"])
    <3>1. offset["product.restock"] <= Len(Restocks)
      BY DEF Offsets, Topics, Restocks
    <3> QED BY <1>0, <1>4, <2>2, <2>3, <3>1, OutboxAdds
  <2>5. \A i \in DOMAIN Restocks : Restocks[i].call # m.call
    BY <2>1, <2>4 DEF RestocksFit
  <2>6. ASSUME NEW i \in DOMAIN Restocks'
        PROVE  Restocks'[i].call <= used.restocks /\ (i <= offset["product.restock"] => Restocks'[i].call \in added)
    BY <1>0, <2>4 DEF RestocksFit
  <2>7. ASSUME NEW i \in DOMAIN Restocks', NEW j \in DOMAIN Restocks', Restocks'[i].call = Restocks'[j].call
        PROVE  Restocks'[i] = Restocks'[j]
    BY <2>4, <2>5, <2>7 DEF RestocksFit
  <2>8. \A c \in added : \E i \in DOMAIN Restocks' : Restocks'[i].call = c
    BY <2>4 DEF RestocksFit
  <2> QED BY <2>1, <2>6, <2>7, <2>8 DEF RestocksFit
<1>5. CASE AddStock
  <2>1. /\ added' = added \cup {Restocks[offset["product.restock"] + 1].call}
        /\ offset["product.restock"] + 1 \in DOMAIN Restocks
        /\ offset'["product.restock"] = offset["product.restock"] + 1 /\ UNCHANGED <<topics, restock, used>>
    BY <1>5, Counting
  <2>2. Restocks' = Restocks
    BY <2>1 DEF Restocks
  <2>3. ASSUME NEW i \in DOMAIN Restocks, i <= offset["product.restock"] + 1 PROVE Restocks[i].call \in added'
    <3>1. i <= offset["product.restock"] \/ i = offset["product.restock"] + 1
      BY <1>0, <2>3
    <3> QED BY <2>1, <3>1 DEF RestocksFit
  <2> QED BY <2>1, <2>2, <2>3 DEF RestocksFit
<1>6. CASE Redeliver("product.restock")
  <2>1. /\ \A i \in DOMAIN Restocks' : \E k \in DOMAIN Restocks : Restocks'[i] = Restocks[k]
        /\ \A i \in DOMAIN Restocks : i \in DOMAIN Restocks' /\ Restocks'[i] = Restocks[i]
        /\ UNCHANGED <<added, offset, restock>>
    BY <1>6, RestockCopy
  <2>2. used'.restocks = used.restocks
    <3>1. Spend("duplicates", MaxDuplicates)
      BY <1>6 DEF Redeliver, Mishap
    <3> QED BY <3>1, Spent DEF Kinds
  <2>3. ASSUME NEW i \in DOMAIN Restocks', i <= offset["product.restock"] PROVE Restocks'[i].call \in added
    <3>1. i \in DOMAIN Restocks
      <4>1. offset["product.restock"] <= Len(Restocks) /\ Restocks \in Seq(RestockType)
        BY DEF Offsets, Topics, Restocks, Typed
      <4>2. i \in Nat /\ i >= 1
        <5>1. Restocks' \in Seq(RestockType)
          BY TypedStep DEF Typed
        <5> QED BY <5>1
      <4>3. DOMAIN Restocks = 1 .. Len(Restocks) /\ Len(Restocks) \in Nat
        BY <4>1
      <4> QED BY <1>0, <2>3, <4>1, <4>2, <4>3
    <3> QED BY <2>1, <2>3, <3>1 DEF RestocksFit
  <2>4. ASSUME NEW i \in DOMAIN Restocks'
        PROVE  Restocks'[i].call <= used.restocks /\ (restock # NoRestock => Restocks'[i].call # used.restocks)
    BY <2>1 DEF RestocksFit
  <2>5. ASSUME NEW i \in DOMAIN Restocks', NEW j \in DOMAIN Restocks', Restocks'[i].call = Restocks'[j].call
        PROVE  Restocks'[i] = Restocks'[j]
    BY <2>1, <2>5 DEF RestocksFit
  <2>6. \A c \in added : \E i \in DOMAIN Restocks' : Restocks'[i].call = c
    BY <2>1 DEF RestocksFit
  <2> QED BY <2>1, <2>2, <2>3, <2>4, <2>5, <2>6 DEF RestocksFit
<1> QED BY <1>2, <1>3, <1>4, <1>5, <1>6, CallSteps

(* Without crashes and duplicates the consumer counts each restock when it *)
(* handles it.                                                             *)
LEMMA NoReplayStep ==
  ASSUME Typed, Offsets, RestocksFit, NoReplay, [Next]_vars
  PROVE  NoReplay'
<1> SUFFICES ASSUME used'.crashes = 0, used'.duplicates = 0
             PROVE  /\ \A i, j \in DOMAIN Restocks' : Restocks'[i].call = Restocks'[j].call => i = j
                    /\ \A i \in DOMAIN Restocks' : Restocks'[i].call \in added' => i <= offset'["product.restock"]
  BY DEF NoReplay
<1>0. /\ used.crashes = 0 /\ used.duplicates = 0 /\ ~ Crash /\ \A t : ~ Redeliver(t)
      /\ \A i, j \in DOMAIN Restocks : Restocks[i].call = Restocks[j].call => i = j
      /\ \A i \in DOMAIN Restocks : Restocks[i].call \in added => i <= offset["product.restock"]
  BY UsedGrows DEF NoReplay, Kinds
<1>2. CASE UNCHANGED <<topics, added>> /\ offset'["product.restock"] = offset["product.restock"]
  BY <1>0, <1>2 DEF Restocks
<1>3. CASE UNCHANGED <<added, offset>> /\ Restocks' = Restocks
  BY <1>0, <1>3
<1>4. CASE RestockOutbox
  <2>1. UNCHANGED <<added, offset>> /\ restock # NoRestock
    BY <1>4 DEF RestockOutbox, historyVars
  <2>2. PICK n : n = Len(Restocks) + 1
    OBVIOUS
  <2>4. /\ DOMAIN Restocks' = DOMAIN Restocks \cup {n} /\ Restocks'[n].call = used.restocks
        /\ \A i \in DOMAIN Restocks : Restocks'[i] = Restocks[i]
    BY <1>4, <2>2, OutboxAdds
  <2>5. \A i \in DOMAIN Restocks : Restocks[i].call # used.restocks
    BY <2>1 DEF RestocksFit
  <2>6. used.restocks \notin added
    BY <2>5 DEF RestocksFit
  <2> QED BY <1>0, <2>1, <2>4, <2>5, <2>6
<1>5. CASE AddStock
  <2>1. /\ added' = added \cup {Restocks[offset["product.restock"] + 1].call}
        /\ offset["product.restock"] + 1 \in DOMAIN Restocks /\ offset["product.restock"] \in Nat
        /\ offset'["product.restock"] = offset["product.restock"] + 1 /\ UNCHANGED topics
    BY <1>5, Counting
  <2>2. Restocks' = Restocks
    BY <2>1 DEF Restocks
  <2>3. \A i \in DOMAIN Restocks : i \in Nat
    BY DEF Typed
  <2> QED BY <1>0, <2>1, <2>2, <2>3
<1> QED BY <1>0, <1>2, <1>3, <1>4, <1>5, CallSteps

(* The steps that change the counters of Redis, and what they count twice. *)
LEMMA RedisSteps ==
  ASSUME Typed, [Next]_vars
  PROVE  \/ UNCHANGED <<redis, again, readded, beyond>>
         \/ \E a \in Attempts, cart \in Carts : Reserve(a, cart)
         \/ \E t \in OrderTopics : /\ consumer = "poll" /\ HasMessage(t) /\ Release(HeadOf(t))
                                 /\ UNCHANGED <<attempts, restock, topics, added, readded, stocked, used>>
         \/ AddStock
<1> USE DEF stockVars, kafkaVars, historyVars
<1>1. ASSUME NEW a \in Attempts, AttemptStep(a)
      PROVE  UNCHANGED <<redis, again, readded, beyond>> \/ \E cart \in Carts : Reserve(a, cart)
  BY <1>1 DEF AttemptStep, OutOfStock, DecrementDb, LoseReservation, PlaceOrder, RefuseCheckout,
     CancelOrder, RollBackCheckout
<1>2. ASSUME RestockStep PROVE UNCHANGED <<redis, again, readded, beyond>>
  BY <1>2 DEF RestockStep, RestockUpsert, RestockOutbox, RestockFails
<1>3. CASE ConsumerStep
  BY <1>3 DEF ConsumerStep, SkipCheckoutFailed, SkipEmptyCanceled, IncrementDb, ReleaseCheckoutFailed,
     ReleaseCanceled, IncrementFails, CommitOffset, OrderTopics
<1>4. ASSUME \/ Crash \/ UNCHANGED vars \/ \E id \in OrderIds \cup {Null} : KeyExpires(id)
             \/ \E t \in Topics : Redeliver(t)
      PROVE  UNCHANGED <<redis, again, readded, beyond>>
  BY <1>4 DEF Crash, vars, KeyExpires, Redeliver
<1> QED BY <1>1, <1>2, <1>3, <1>4 DEF Next

(* No reservation is counted twice in a step without expiry, no restock in *)
(* one without crash or duplicate.                                         *)
LEMMA CountedStep ==
  ASSUME Typed, Offsets, MessagesFit, KeysKept, NoReplay, NothingCountedTwice, [Next]_vars
  PROVE  NothingCountedTwice'
<1> SUFFICES ASSUME NEW s \in Skus
             PROVE  /\ used'.expiries = 0 => again'[s] = 0
                    /\ used'.crashes = 0 /\ used'.duplicates = 0 => readded'[s] = 0
  BY DEF NothingCountedTwice
<1>0. /\ used'.expiries = 0 => used.expiries = 0 /\ again[s] = 0
      /\ used'.crashes = 0 /\ used'.duplicates = 0 =>
           used.crashes = 0 /\ used.duplicates = 0 /\ readded[s] = 0
  BY UsedGrows DEF Kinds, NothingCountedTwice
<1>1. ASSUME NEW a \in Attempts, NEW cart \in Carts, Reserve(a, cart) PROVE again' = again /\ readded' = readded
  BY <1>1 DEF Reserve, historyVars
<1>2. ASSUME NEW t \in OrderTopics, HasMessage(t), Release(HeadOf(t)), used.expiries = 0 PROVE again' = again
  <2>1. offset[t] + 1 \in DOMAIN topics[t] /\ HeadOf(t) = topics[t][offset[t] + 1]
    BY <1>2, HeadType DEF OrderTopics, Topics, HeadOf
  <2>2. HeadOf(t).attempt \in given => HeadOf(t).id \in processed
    BY <1>2, <2>1 DEF KeysKept
  <2> QED BY <1>2, <2>2 DEF Release, Released
<1>3. ASSUME AddStock, used.crashes = 0, used.duplicates = 0 PROVE readded' = readded
  <2>1. /\ offset["product.restock"] \in Nat /\ offset["product.restock"] + 1 \in DOMAIN Restocks
        /\ HeadOf("product.restock") = Restocks[offset["product.restock"] + 1]
        /\ HeadOf("product.restock").call \notin added => readded' = readded
    BY <1>3, Counting
  <2>2. HeadOf("product.restock").call \notin added
    BY <1>3, <2>1 DEF NoReplay
  <2> QED BY <2>1, <2>2
<1>4. AddStock => again' = again
  BY Counting
<1> QED BY <1>0, <1>1, <1>2, <1>3, <1>4, RedisSteps

-----------------------------------------------------------------------------
(* No unit is invented.                                                    *)

(* The units Redis has taken for a checkout and not got back.              *)
Taken(a, s) ==
  IF attempts[a].pc \notin {"new", "outOfStock"} /\ a \notin given
  THEN Units(attempts[a].cart, s) ELSE 0
Out(s) == SumFunctionOnSet([a \in Attempts |-> Taken(a, s)], Attempts)

(* The restocks that Redis has still to count: calls with a message, and   *)
(* the one whose message has still to be written.                          *)
CallsFor(s) == {Restocks[i].call : i \in {k \in DOMAIN Restocks : Restocks[k].items[1].sku = s}}
Waiting(s) == CallsFor(s) \ added
Upserted(s) == IF restock = [sku |-> s] THEN 1 ELSE 0
Coming(s) == Cardinality(Waiting(s)) + Upserted(s)

Accounts == \A s \in Skus : redis[s] + Out(s) + Coming(s) <= stocked[s] + Extra(s)

(* What is taken is a number of units.                                     *)
LEMMA TakenType ==
  ASSUME Typed, NEW a \in Attempts, NEW s \in Skus
  PROVE  Taken(a, s) \in Nat
<1>1. attempts[a].cart \in Carts \cup {<<>>}
  BY DEF Typed, AttemptType
<1>2. Units(attempts[a].cart, s) \in Nat
  BY <1>1, CartType, UnitsType
<1> QED BY <1>2 DEF Taken

(* And so is their sum.                                                    *)
LEMMA OutType ==
  ASSUME Typed, NEW s \in Skus
  PROVE  Out(s) \in Nat
<1> DEFINE f == [a \in Attempts |-> Taken(a, s)]
<1>1. \A a \in Attempts : f[a] \in Nat
  BY TakenType
<1> HIDE DEF f
<1>2. SumFunctionOnSet(f, Attempts) \in Nat
  BY <1>1, SumGrows, AttemptsAssumption
<1> QED BY <1>2 DEF Out, f

(* The sum moves with the one checkout that does, or with none.            *)
LEMMA OutChanges ==
  ASSUME Typed, Typed', NEW s \in Skus, NEW a \in Attempts,
         \A b \in Attempts : b # a => Taken(b, s)' = Taken(b, s)
  PROVE  /\ Out(s)' = Out(s) - Taken(a, s) + Taken(a, s)'
         /\ Taken(a, s) \in Nat /\ Taken(a, s)' \in Nat
<1> DEFINE f == [b \in Attempts |-> Taken(b, s)]
           e == [b \in Attempts |-> Taken(b, s)']
<1>01. ASSUME NEW b \in Attempts PROVE Taken(b, s)' \in Nat
  <2>1. attempts'[b].cart \in Carts \cup {<<>>}
    BY DEF Typed, AttemptType
  <2>2. Units(attempts'[b].cart, s) \in Nat
    BY <2>1, CartType, UnitsType
  <2> QED BY <2>2 DEF Taken
<1>1. \A b \in Attempts : Taken(b, s) \in Nat /\ Taken(b, s)' \in Nat
  BY <1>01, TakenType
<1>2. \A b \in Attempts : f[b] \in Int /\ e[b] \in Int
  BY <1>1
<1>3. \A b \in Attempts \ {a} : f[b] = e[b]
  OBVIOUS
<1>4. f[a] = Taken(a, s) /\ e[a] = Taken(a, s)'
  OBVIOUS
<1>5. Out(s) = SumFunctionOnSet(f, Attempts) /\ Out(s)' = SumFunctionOnSet(e, Attempts)
  BY DEF Out
<1> HIDE DEF f, e
<1>6. SumFunctionOnSet(e, Attempts) = SumFunctionOnSet(f, Attempts) - f[a] + e[a]
  BY <1>2, <1>3, SumChanges, AttemptsAssumption
<1> QED BY <1>1, <1>4, <1>5, <1>6

(* The sum stays when no checkout moves.                                   *)
LEMMA OutSame ==
  ASSUME NEW s \in Skus, \A b \in Attempts : Taken(b, s)' = Taken(b, s)
  PROVE  Out(s)' = Out(s)
<1> DEFINE f == [b \in Attempts |-> Taken(b, s)]
           e == [b \in Attempts |-> Taken(b, s)']
<1>1. \A b \in Attempts : f[b] = e[b]
  OBVIOUS
<1>2. Out(s) = SumFunctionOnSet(f, Attempts) /\ Out(s)' = SumFunctionOnSet(e, Attempts)
  BY DEF Out
<1> HIDE DEF f, e
<1> QED BY <1>1, <1>2, SumSame, AttemptsAssumption

(* The restocks on the way are a number.                                   *)
LEMMA WaitingFinite ==
  ASSUME Typed, NEW s \in Skus
  PROVE  /\ IsFiniteSet(Waiting(s)) /\ Cardinality(Waiting(s)) \in Nat
         /\ Upserted(s) \in {0, 1} /\ Coming(s) \in Nat
<1> DEFINE D == {k \in DOMAIN Restocks : Restocks[k].items[1].sku = s}
           f == [i \in D |-> Restocks[i].call]
<1>1. IsFiniteSet(D)
  <2>1. DOMAIN Restocks = 1 .. Len(Restocks) /\ Len(Restocks) \in Int
    BY DEF Typed
  <2> QED BY <2>1, FS_Interval, FS_Subset
<1>4. CallsFor(s) = {f[i] : i \in D}
  BY DEF CallsFor
<1>5. f = [i \in D |-> f[i]]
  OBVIOUS
<1> HIDE DEF f, D
<1>6. IsFiniteSet(CallsFor(s))
  BY <1>1, <1>4, <1>5, ImageFinite
<1>2. IsFiniteSet(Waiting(s))
  BY <1>6, FS_Subset DEF Waiting
<1>3. Cardinality(Waiting(s)) \in Nat
  BY <1>2, FS_CardinalityType
<1> QED BY <1>2, <1>3 DEF Upserted, Coming

(* Checkouts leave the restocks alone.                                     *)
LEMMA RestocksSame ==
  ASSUME Typed, NEW a \in Attempts, AttemptStep(a)
  PROVE  Restocks' = Restocks /\ UNCHANGED <<restock, added, given, stocked, again, readded, beyond>>
<1> USE DEF stockVars, kafkaVars, historyVars
<1>1. ASSUME NEW t \in OrderTopics, NEW messages, Publish(t, messages) PROVE Restocks' = Restocks
  BY <1>1 DEF Publish, Restocks, OrderTopics, Typed
<1>2. ASSUME NEW id \in OrderIds, RollBackCheckout(a, id) PROVE \E t \in OrderTopics : \E messages : Publish(t, messages)
  BY <1>2 DEF RollBackCheckout, OrderTopics
<1>3. ASSUME CancelOrder(a) PROVE \E t \in OrderTopics : \E messages : Publish(t, messages)
  BY <1>3 DEF CancelOrder, OrderTopics
<1>4. ASSUME RefuseCheckout(a) PROVE \E t \in OrderTopics : \E messages : Publish(t, messages)
  BY <1>4 DEF RefuseCheckout, OrderTopics
<1> QED BY <1>1, <1>2, <1>3, <1>4 DEF AttemptStep, Reserve, OutOfStock, DecrementDb, LoseReservation, PlaceOrder,
        RefuseCheckout, CancelOrder, RollBackCheckout, Restocks

(* A checkout takes what it reserves, and no more afterwards.              *)
LEMMA TakenMoves ==
  ASSUME Typed, GivenEnded, NEW a \in Attempts, AttemptStep(a), NEW s \in Skus
  PROVE  /\ \A b \in Attempts : b # a => Taken(b, s)' = Taken(b, s)
         /\ \/ \E cart \in Carts : Reserve(a, cart) /\ Taken(a, s) = 0 /\ Taken(a, s)' = Units(cart, s)
            \/ redis' = redis /\ Taken(a, s)' <= Taken(a, s)
<1> USE DEF stockVars, kafkaVars, historyVars
<1>0. attempts[a] \in AttemptType /\ attempts \in [Attempts -> AttemptType] /\ given' = given
  BY RestocksSame DEF Typed
<1>1. \A b \in Attempts : b # a => Taken(b, s)' = Taken(b, s)
  <2>1. \A b \in Attempts : b # a => attempts'[b] = attempts[b]
    BY <1>0 DEF AttemptStep, Reserve, OutOfStock, DecrementDb, LoseReservation, PlaceOrder,
        RefuseCheckout, CancelOrder, RollBackCheckout
  <2> QED BY <1>0, <2>1 DEF Taken
<1>2. ASSUME NEW cart \in Carts, Reserve(a, cart)
      PROVE  Taken(a, s) = 0 /\ Taken(a, s)' = Units(cart, s)
  <2>1. a \notin given /\ attempts[a].pc = "new"
    BY <1>2 DEF GivenEnded, Reserve
  <2>2. attempts'[a].pc = "decrement" /\ attempts'[a].cart = cart
    BY <1>0, <1>2 DEF Reserve, AttemptType
  <2> QED BY <1>0, <2>1, <2>2 DEF Taken
<1>3. ASSUME NEW pc, attempts'[a].pc = pc, attempts'[a].cart = attempts[a].cart,
             attempts[a].pc \in {"new", "outOfStock"} <=> pc \in {"new", "outOfStock"}
      PROVE  Taken(a, s)' <= Taken(a, s)
  <2>1. Taken(a, s)' = Taken(a, s)
    BY <1>0, <1>3 DEF Taken
  <2> QED BY <2>1, TakenType
<1>4. ASSUME NEW cart \in Carts, OutOfStock(a, cart)
      PROVE  redis' = redis /\ Taken(a, s)' <= Taken(a, s)
  BY <1>0, <1>3, <1>4 DEF OutOfStock, AttemptType
<1>5. ASSUME DecrementDb(a) \/ LoseReservation(a) \/ RefuseCheckout(a)
             \/ \E id \in OrderIds : PlaceOrder(a, id) \/ RollBackCheckout(a, id)
      PROVE  redis' = redis /\ Taken(a, s)' <= Taken(a, s)
  <2> DEFINE Goes == /\ redis' = redis /\ attempts[a].pc \in {"decrement", "reserved"}
                     /\ attempts'[a].cart = attempts[a].cart
                     /\ attempts'[a].pc \in {"reserved", "lost", "refused", "ordered"}
  <2>2. ASSUME DecrementDb(a) \/ LoseReservation(a) PROVE Goes
    BY <1>0, <2>2 DEF DecrementDb, LoseReservation, AttemptType
  <2>3. ASSUME RefuseCheckout(a) PROVE Goes
    BY <1>0, <2>3 DEF RefuseCheckout, AttemptType
  <2>4. ASSUME NEW id \in OrderIds, PlaceOrder(a, id) PROVE Goes
    BY <1>0, <2>4 DEF PlaceOrder, AttemptType
  <2>5. ASSUME NEW id \in OrderIds, RollBackCheckout(a, id) PROVE Goes
    BY <1>0, <2>5 DEF RollBackCheckout, AttemptType
  <2>1. Goes
    BY <1>5, <2>2, <2>3, <2>4, <2>5
  <2> QED BY <1>3, <2>1
<1>6. ASSUME CancelOrder(a)
      PROVE  redis' = redis /\ Taken(a, s)' <= Taken(a, s)
  <2>1. /\ attempts'[a].pc = "canceled" /\ attempts'[a].cart = attempts[a].cart /\ redis' = redis
        /\ attempts[a].pc = "ordered"
    BY <1>0, <1>6 DEF CancelOrder, AttemptType
  <2> QED BY <1>3, <2>1
<1> QED BY <1>1, <1>2, <1>4, <1>5, <1>6 DEF AttemptStep

(* Nothing is upserted for a product when no restock is in flight.         *)
LEMMA UpsertedOne ==
  ASSUME NEW s \in Skus, NEW z \in Skus
  PROVE  NoRestock # [sku |-> s] /\ ([sku |-> z] = [sku |-> s] <=> z = s)
<1>1. NoRestock.sku = Null /\ [sku |-> s].sku = s /\ [sku |-> z].sku = z
  BY DEF NoRestock
<1>2. Null # s
  BY NullAssumption
<1> QED BY <1>1, <1>2

(* A restock moves from the upsert through the topic to the counter.       *)
LEMMA RestockMoves ==
  ASSUME Typed, RestocksFit, RestockStep, NEW s \in Skus
  PROVE  /\ UNCHANGED <<redis, again, readded, beyond, attempts, given, added>>
         /\ stocked'[s] \in Int /\ Coming(s)' \in Int
         /\ Coming(s)' - stocked'[s] <= Coming(s) - stocked[s]
         /\ ~ Fault => Coming(s)' - stocked'[s] = Coming(s) - stocked[s]
<1> USE DEF stockVars, kafkaVars, historyVars
<1>0. /\ Coming(s) \in Nat /\ stocked[s] \in Int /\ stocked \in [Skus -> Int]
      /\ Cardinality(Waiting(s)) \in Nat /\ IsFiniteSet(Waiting(s))
      /\ Coming(s) = Cardinality(Waiting(s)) + Upserted(s)
  BY WaitingFinite DEF Typed, Coming
<1>1. ASSUME NEW z \in Skus, RestockUpsert(z)
      PROVE  /\ UNCHANGED <<redis, again, readded, beyond, attempts, given, added>>
             /\ stocked'[s] \in Int /\ Coming(s)' \in Int
             /\ Coming(s)' - stocked'[s] = Coming(s) - stocked[s]
  <2>1. Upserted(s) = 0 /\ Upserted(s)' = IF z = s THEN 1 ELSE 0
    BY <1>1, UpsertedOne DEF RestockUpsert, Upserted
  <2>2. stocked'[s] = IF z = s THEN stocked[s] + 1 ELSE stocked[s]
    BY <1>0, <1>1 DEF RestockUpsert
  <2>3. Waiting(s)' = Waiting(s)
    BY <1>1 DEF RestockUpsert, Waiting, CallsFor, Restocks
  <2>4. Coming(s)' = Cardinality(Waiting(s)) + Upserted(s)'
    BY <2>3 DEF Coming
  <2> QED BY <1>0, <1>1, <2>1, <2>2, <2>4 DEF RestockUpsert
<1>2. CASE RestockOutbox
  <2>1. PICK z \in Skus : restock = [sku |-> z] /\ restock.sku = z
    BY <1>2 DEF RestockOutbox, Typed
  <2>2. Upserted(s) = (IF z = s THEN 1 ELSE 0) /\ Upserted(s)' = 0
    BY <1>2, <2>1, UpsertedOne DEF RestockOutbox, Upserted
  <2>3. PICK n, c : /\ DOMAIN Restocks' = DOMAIN Restocks \cup {n} /\ n \notin DOMAIN Restocks
                    /\ Restocks'[n].call = c /\ Restocks'[n].items[1].sku = z /\ c = used.restocks
                    /\ \A i \in DOMAIN Restocks : Restocks'[i] = Restocks[i]
    BY <1>2, <2>1, OutboxAdds
  <2>4. added' = added /\ restock # NoRestock
    BY <1>2 DEF RestockOutbox
  <2>5. \A i \in DOMAIN Restocks : Restocks[i].call # c
    BY <2>3, <2>4 DEF RestocksFit
  <2>6. c \notin added /\ c \notin CallsFor(s)
    BY <2>5 DEF RestocksFit, CallsFor
  <2>7. CallsFor(s)' = IF z = s THEN CallsFor(s) \cup {c} ELSE CallsFor(s)
    BY <2>3 DEF CallsFor
  <2>8. CASE z = s
    <3>1. Waiting(s)' = Waiting(s) \cup {c}
      BY <2>4, <2>6, <2>7, <2>8 DEF Waiting
    <3>2. c \notin Waiting(s)
      BY <2>6 DEF Waiting
    <3>4. Cardinality(Waiting(s)') = Cardinality(Waiting(s)) + 1
      BY <1>0, <3>1, <3>2, FS_AddElement
    <3>3. Coming(s)' = Coming(s)
      BY <1>0, <2>2, <2>8, <3>4 DEF Coming
    <3> QED BY <1>0, <1>2, <3>3 DEF RestockOutbox
  <2>9. CASE z # s
    <3>1. Waiting(s)' = Waiting(s)
      BY <2>4, <2>7, <2>9 DEF Waiting
    <3>3. Coming(s)' = Coming(s)
      BY <1>0, <2>2, <2>9, <3>1 DEF Coming
    <3> QED BY <1>0, <1>2, <3>3 DEF RestockOutbox
  <2> QED BY <2>8, <2>9
<1>3. CASE RestockFails
  <2>1. Upserted(s)' = 0 /\ Upserted(s) \in {0, 1}
    BY <1>3, UpsertedOne DEF RestockFails, Upserted
  <2>2. Waiting(s)' = Waiting(s)
    BY <1>3 DEF RestockFails, Waiting, CallsFor, Restocks
  <2>3. Coming(s)' = Cardinality(Waiting(s)) + Upserted(s)'
    BY <2>2 DEF Coming
  <2> QED BY <1>0, <1>3, <2>1, <2>3 DEF RestockFails
<1> QED BY <1>1, <1>2, <1>3 DEF RestockStep

(* ADD_STOCK_SCRIPT counts a waiting unit, or one that was counted before. *)
LEMMA AddStockMoves ==
  ASSUME Typed, RestocksFit, AddStock, NEW s \in Skus
  PROVE  /\ UNCHANGED <<attempts, given, stocked, again, beyond, db>>
         /\ redis'[s] \in Int /\ readded'[s] \in Int /\ Coming(s)' \in Int
         /\ redis'[s] + Coming(s)' - readded'[s] = redis[s] + Coming(s) - readded[s]
<1>1. PICK m, k : /\ k = offset["product.restock"] + 1 /\ k \in DOMAIN Restocks
                  /\ m = Restocks[k] /\ m \in RestockType
                  /\ added' = added \cup {m.call} /\ redis' = Plus(redis, m.items)
                  /\ readded' = (IF m.call \in added THEN Plus(readded, m.items) ELSE readded)
                  /\ UNCHANGED <<topics, restock, attempts, given, stocked, again, beyond, db>>
  BY Counting
<1>2. PICK u : u = IF m.items[1].sku = s THEN 1 ELSE 0
  OBVIOUS
<1>3. /\ redis[s] \in Int /\ readded[s] \in Int
      /\ Coming(s) \in Nat /\ Coming(s) = Cardinality(Waiting(s)) + Upserted(s)
      /\ IsFiniteSet(Waiting(s)) /\ Cardinality(Waiting(s)) \in Nat /\ Upserted(s) \in {0, 1}
  BY WaitingFinite DEF Typed, Coming
<1>4. Plus(redis, m.items)[s] = redis[s] + u /\ Plus(readded, m.items)[s] = readded[s] + u /\ u \in Nat
  <2>1. m.items \in Seq(Lines) /\ Units(m.items, s) = u
    BY <1>1, <1>2, RestockItems
  <2>2. redis \in [Skus -> Int] /\ readded \in [Skus -> Int]
    BY DEF Typed
  <2>3. PICK items \in Seq(Lines) : items = m.items
    BY <2>1
  <2>4. Plus(redis, items)[s] = redis[s] + Units(items, s)
    BY <2>2, PlusType
  <2>5. Plus(readded, items)[s] = readded[s] + Units(items, s)
    BY <2>2, PlusType
  <2> QED BY <1>2, <2>1, <2>3, <2>4, <2>5
<1>5. Upserted(s)' = Upserted(s) /\ CallsFor(s)' = CallsFor(s)
  BY <1>1 DEF Upserted, CallsFor, Restocks
<1>6. CallsFor(s)' \ added' = Waiting(s) \ {m.call} /\ Waiting(s)' = CallsFor(s)' \ added'
  BY <1>1, <1>5 DEF Waiting
<1>7. Coming(s)' = Cardinality(Waiting(s) \ {m.call}) + Upserted(s)
  BY <1>5, <1>6 DEF Coming
<1>8. CASE m.call \in Waiting(s)
  <2>1. m.call \notin added /\ Cardinality(Waiting(s) \ {m.call}) = Cardinality(Waiting(s)) - 1
    BY <1>3, <1>8, FS_RemoveElement DEF Waiting
  <2>2. PICK i \in DOMAIN Restocks : Restocks[i].call = m.call /\ Restocks[i].items[1].sku = s
    BY <1>8 DEF Waiting, CallsFor
  <2>3. u = 1
    BY <1>1, <1>2, <2>2 DEF RestocksFit
  <2> QED BY <1>1, <1>3, <1>4, <1>7, <2>1, <2>3
<1>9. CASE m.call \notin Waiting(s)
  <2>1. Waiting(s) \ {m.call} = Waiting(s)
    BY <1>9
  <2>2. Coming(s)' = Coming(s)
    BY <1>3, <1>7, <2>1
  <2>3. CASE m.call \in added
    BY <1>1, <1>3, <1>4, <2>2, <2>3
  <2>4. CASE m.call \notin added
    <3>1. u = 0
      BY <1>1, <1>2, <1>9, <2>4 DEF Waiting, CallsFor
    <3> QED BY <1>1, <1>3, <1>4, <2>2, <2>4, <3>1
  <2> QED BY <2>3, <2>4
<1> QED BY <1>8, <1>9

(* RELEASE_STOCK_SCRIPT gives back no more than its checkout took, save    *)
(* for what the histories count.                                           *)
LEMMA ReleaseMoves ==
  ASSUME Typed, GivenEnded, MessagesFit, NEW t \in OrderTopics, HasMessage(t), Release(HeadOf(t)),
         UNCHANGED <<attempts, readded>>, Typed', NEW s \in Skus
  PROVE  /\ redis'[s] \in Int /\ Extra(s)' \in Int /\ Out(s)' \in Int
         /\ redis'[s] + Out(s)' - Extra(s)' <= redis[s] + Out(s) - Extra(s)
<1>1. PICK m : m = HeadOf(t)
  OBVIOUS
<1>2. m \in MessageType /\ m = topics[t][offset[t] + 1] /\ offset[t] + 1 \in DOMAIN topics[t]
  BY <1>1, HeadType DEF OrderTopics, Topics, HeadOf
<1>0. PICK a \in Attempts : a = m.attempt
  BY <1>2 DEF MessageType
<1>3. m.items \in Seq(Lines) /\ attempts[a].pc \in {"refused", "canceled"}
  BY <1>0, <1>2, CartType DEF MessageType, MessagesFit
<1>4. /\ redis \in [Skus -> Int] /\ again \in [Skus -> Int] /\ beyond \in [Skus -> Int]
      /\ redis[s] \in Int /\ again[s] \in Int /\ beyond[s] \in Int /\ readded[s] \in Int
      /\ Out(s) \in Nat /\ readded' = readded
  BY OutType DEF Typed
<1>5. /\ Plus(redis, m.items)[s] = redis[s] + Units(m.items, s)
      /\ Plus(again, m.items)[s] = again[s] + Units(m.items, s)
      /\ Units(m.items, s) \in Nat
  BY <1>3, <1>4, PlusType
<1>6. Extra(s) = again[s] + readded[s] + beyond[s] /\ Extra(s)' = again'[s] + readded[s] + beyond'[s]
  BY <1>4 DEF Extra
<1>7. /\ Excess(m, s) \in Nat /\ Units(attempts[a].cart, s) \in Nat
      /\ Units(m.items, s) <= Units(attempts[a].cart, s) + Excess(m, s)
  BY <1>0, <1>2, ExcessType
<1>8. CASE Released(m)
  <2>1. UNCHANGED <<redis, again, beyond, given>>
    BY <1>1, <1>8 DEF Release
  <2>2. \A b \in Attempts : Taken(b, s)' = Taken(b, s)
    BY <2>1 DEF Taken
  <2>3. Out(s)' = Out(s)
    BY <2>2, OutSame
  <2> QED BY <1>4, <1>6, <2>1, <2>3
<1>9. CASE ~ Released(m)
  <2>1. /\ redis' = Plus(redis, m.items) /\ given' = given \cup {a}
        /\ a \in given => again' = Plus(again, m.items) /\ beyond' = beyond
        /\ a \notin given => again' = again /\ beyond' = [z \in Skus |-> beyond[z] + Excess(m, z)]
    BY <1>0, <1>1, <1>9 DEF Release
  <2>2. CASE a \in given
    <3>1. given' = given
      BY <2>1, <2>2
    <3>2. \A b \in Attempts : Taken(b, s)' = Taken(b, s)
      BY <3>1 DEF Taken
    <3>3. Out(s)' = Out(s)
      BY <3>2, OutSame
    <3> QED BY <1>4, <1>5, <1>6, <2>1, <2>2, <3>3
  <2>3. CASE a \notin given
    <3>1. \A b \in Attempts : b # a => Taken(b, s)' = Taken(b, s)
      BY <2>1 DEF Taken
    <3>2. Taken(a, s) = Units(attempts[a].cart, s)
      BY <1>3, <2>3 DEF Taken
    <3>5. a \in given'
      BY <2>1
    <3>3. Taken(a, s)' = 0
      BY <3>5 DEF Taken
    <3>4. Out(s)' = Out(s) - Taken(a, s) + Taken(a, s)'
      BY <3>1, OutChanges
    <3>6. again'[s] = again[s] /\ beyond'[s] = beyond[s] + Excess(m, s)
      BY <2>1, <2>3
    <3>7. redis'[s] = redis[s] + Units(m.items, s)
      BY <1>5, <2>1
    <3> QED BY <1>4, <1>5, <1>6, <1>7, <3>2, <3>3, <3>4, <3>6, <3>7
  <2> QED BY <2>2, <2>3
<1> QED BY <1>8, <1>9

(* Every step keeps the accounts: units come from a restock, or are        *)
(* counted by a history.                                                   *)
LEMMA AccountsStep ==
  ASSUME Typed, Offsets, RestocksFit, MessagesFit, GivenEnded, Accounts, [Next]_vars
  PROVE  Accounts'
<1> USE DEF stockVars, kafkaVars, historyVars
<1> DEFINE Goal(s) == redis'[s] + Out(s)' + Coming(s)' <= stocked'[s] + Extra(s)'
<1> SUFFICES ASSUME NEW s \in Skus PROVE Goal(s)
  BY DEF Accounts
<1>0. /\ redis[s] \in Int /\ Out(s) \in Nat /\ Coming(s) \in Nat /\ stocked[s] \in Int /\ Extra(s) \in Int
      /\ again[s] \in Int /\ readded[s] \in Int /\ beyond[s] \in Int
      /\ redis[s] + Out(s) + Coming(s) <= stocked[s] + Extra(s)
  <2>1. /\ redis[s] \in Int /\ stocked[s] \in Int
        /\ again[s] \in Int /\ readded[s] \in Int /\ beyond[s] \in Int
    BY DEF Typed
  <2>2. Extra(s) \in Int
    BY <2>1 DEF Extra
  <2>3. Out(s) \in Nat /\ Coming(s) \in Nat
    BY OutType, WaitingFinite
  <2>4. redis[s] + Out(s) + Coming(s) <= stocked[s] + Extra(s)
    BY DEF Accounts
  <2> QED BY <2>1, <2>2, <2>3, <2>4
<1>t. Typed'
  BY TypedStep
<1>x. UNCHANGED <<again, readded, beyond>> => Extra(s)' = Extra(s)
  BY DEF Extra
<1>1. ASSUME NEW a \in Attempts, AttemptStep(a) PROVE Goal(s)
  <2>1. Coming(s)' = Coming(s) /\ stocked' = stocked /\ Extra(s)' = Extra(s)
    BY <1>1, RestocksSame DEF Coming, Waiting, CallsFor, Upserted, Extra
  <2>2. Out(s)' = Out(s) - Taken(a, s) + Taken(a, s)' /\ Taken(a, s) \in Nat /\ Taken(a, s)' \in Nat
    <3>1. \A b \in Attempts : b # a => Taken(b, s)' = Taken(b, s)
      BY <1>1, TakenMoves
    <3> QED BY <1>t, <3>1, OutChanges
  <2>3. ASSUME NEW cart \in Carts, Reserve(a, cart) PROVE redis'[s] = redis[s] - Units(cart, s) /\ Units(cart, s) \in Nat
    <3>1. cart \in Seq(Lines) /\ redis \in [Skus -> Int] /\ redis' = Minus(redis, cart)
      BY <2>3, CartType DEF Reserve, Typed
    <3> QED BY <3>1, PlusType
  <2> QED BY <1>0, <1>1, <2>1, <2>2, <2>3, TakenMoves
<1>2. ASSUME RestockStep PROVE Goal(s)
  <2>1. \A b \in Attempts : Taken(b, s)' = Taken(b, s)
    BY <1>2, RestockMoves DEF Taken
  <2>2. Out(s)' = Out(s) /\ Extra(s)' = Extra(s)
    BY <1>2, <1>x, <2>1, OutSame, RestockMoves
  <2> QED BY <1>0, <1>2, <2>2, RestockMoves
<1>3. ASSUME AddStock PROVE Goal(s)
  <2>1. \A b \in Attempts : Taken(b, s)' = Taken(b, s)
    BY <1>3, AddStockMoves DEF Taken
  <2>2. Out(s)' = Out(s)
    BY <2>1, OutSame
  <2>3. Extra(s) = again[s] + readded[s] + beyond[s] /\ Extra(s)' = again[s] + readded'[s] + beyond[s]
    BY <1>3, AddStockMoves DEF Extra
  <2> QED BY <1>0, <1>3, <2>2, <2>3, AddStockMoves
<1>4. ASSUME NEW t \in OrderTopics, HasMessage(t), Release(HeadOf(t)),
             UNCHANGED <<attempts, restock, topics, added, readded, stocked>>
      PROVE  Goal(s)
  <2>1. Coming(s)' = Coming(s)
    BY <1>4 DEF Coming, Waiting, CallsFor, Upserted, Restocks
  <2> QED BY <1>0, <1>4, <1>t, <2>1, ReleaseMoves
<1>5. ASSUME ReleaseCheckoutFailed \/ ReleaseCanceled PROVE Goal(s)
  BY <1>4, <1>5 DEF ReleaseCheckoutFailed, ReleaseCanceled, OrderTopics
<1>6. ASSUME Crash PROVE Goal(s)
  <2>1. \A b \in Attempts : Taken(b, s)' = Taken(b, s)
    <3>1. \A b \in Attempts : attempts[b] \in AttemptType
      BY DEF Typed
    <3> QED BY <1>6, <3>1 DEF Crash, Taken, AttemptType
  <2>2. Out(s)' = Out(s) /\ Extra(s)' = Extra(s)
    BY <1>6, <1>x, <2>1, OutSame DEF Crash
  <2>3. Waiting(s)' = Waiting(s) /\ Upserted(s)' = 0
    BY <1>6, UpsertedOne DEF Crash, Waiting, CallsFor, Restocks, Upserted
  <2>4. Coming(s)' <= Coming(s) /\ Coming(s)' \in Nat
    BY <2>3, WaitingFinite DEF Coming
  <2> QED BY <1>0, <1>6, <2>2, <2>4 DEF Crash
<1>7. ASSUME UNCHANGED <<redis, attempts, restock, given, added, again, readded, beyond, stocked>>,
             CallsFor(s)' = CallsFor(s)
      PROVE  Goal(s)
  <2>1. \A b \in Attempts : Taken(b, s)' = Taken(b, s)
    BY <1>7 DEF Taken
  <2>2. Out(s)' = Out(s) /\ Extra(s)' = Extra(s)
    BY <1>7, <1>x, <2>1, OutSame
  <2>3. Coming(s)' = Coming(s)
    BY <1>7 DEF Coming, Waiting, Upserted
  <2> QED BY <1>0, <1>7, <2>2, <2>3
<1>8. ASSUME UNCHANGED vars \/ \E id \in OrderIds \cup {Null} : KeyExpires(id) PROVE Goal(s)
  <2>1. CallsFor(s)' = CallsFor(s)
    BY <1>8 DEF vars, KeyExpires, CallsFor, Restocks
  <2> QED BY <1>7, <1>8, <2>1 DEF vars, KeyExpires
<1>9. ASSUME ConsumerStep /\ ~ AddStock /\ ~ ReleaseCheckoutFailed /\ ~ ReleaseCanceled PROVE Goal(s)
  <2>1. UNCHANGED <<redis, attempts, restock, topics, given, added, again, readded, beyond, stocked>>
    BY <1>9 DEF ConsumerStep, SkipCheckoutFailed, SkipEmptyCanceled, IncrementDb, IncrementFails, CommitOffset
  <2>2. CallsFor(s)' = CallsFor(s)
    BY <2>1 DEF CallsFor, Restocks
  <2> QED BY <1>7, <2>1, <2>2
<1>10. ASSUME NEW t \in Topics, Redeliver(t) PROVE Goal(s)
  <2>1. CallsFor(s)' = CallsFor(s)
    <3>1. CASE t = "product.restock"
      BY <1>10, <3>1, RestockCopy DEF CallsFor
    <3>2. CASE t # "product.restock"
      <4>1. Restocks' = Restocks
        BY <1>10, <3>2, Copies DEF Restocks, Topics
      <4> QED BY <4>1 DEF CallsFor
    <3> QED BY <3>1, <3>2
  <2> QED BY <1>7, <1>10, <2>1 DEF Redeliver
<1> HIDE DEF Goal
<1> QED BY <1>1, <1>2, <1>3, <1>5, <1>6, <1>8, <1>9, <1>10 DEF Next

-----------------------------------------------------------------------------
(* What checkouts hold is part of what Redis has taken for them.           *)

HeldOf(s) == [a \in Attempts |-> Units(attempts[a].cart, s)]
Holders == {a \in Attempts : Holding(a)}

(* Held is a sum over the checkouts that hold a reservation.               *)
LEMMA HeldSum ==
  ASSUME NEW s
  PROVE  Held(s) = SumFunctionOnSet(HeldOf(s), Holders)
<1> DEFINE f == HeldOf(s)
           Sums(h) == h = [x \in SUBSET Holders |->
                             IF x = {} THEN 0
                             ELSE Units(attempts[Pick(x)].cart, s) + h[x \ {Pick(x)}]]
           g == CHOOSE h : Sums(h)
<1>0. IsFiniteSet(Holders)
  BY AttemptsAssumption, FS_Subset DEF Holders
<1>1. Held(s) = g[Holders]
  BY DEF Held, MapThenSumSet, MapThenFoldSet, Pick, Holders
<1>2. \A x \in SUBSET Holders : x # {} => f[Pick(x)] = Units(attempts[Pick(x)].cart, s)
  BY PickIn DEF HeldOf, Holders
<1>3. \A h : Sums(h) <=> Adds(h, f, Holders)
  <2> HIDE DEF f
  <2> QED BY <1>2 DEF Adds
<1>4. \E h : Adds(h, f, Holders)
  BY <1>0, AddsExists
<1>5. Adds(g, f, Holders)
  <2> HIDE DEF f, Sums
  <2> QED BY <1>3, <1>4
<1> HIDE DEF g, f
<1> QED BY <1>0, <1>1, <1>5, SumByAdds DEF f

(* None of them has been given back.                                       *)
LEMMA HeldIsOut ==
  ASSUME Typed, GivenEnded, NEW s \in Skus
  PROVE  Held(s) \in Nat /\ Held(s) <= Out(s)
<1> DEFINE f == [a \in Attempts |-> Taken(a, s)]
           e == HeldOf(s)
<1>0. Holders \in SUBSET Attempts /\ IsFiniteSet(Holders)
  BY AttemptsAssumption, FS_Subset DEF Holders
<1>1. \A a \in Attempts : f[a] \in Nat
  BY TakenType
<1>2. \A a \in Holders : e[a] = f[a]
  BY DEF Holders, HeldOf, Taken, Holding, GivenEnded
<1>3. Out(s) = SumFunctionOnSet(f, Attempts) /\ Held(s) = SumFunctionOnSet(e, Holders)
  BY HeldSum DEF Out
<1> HIDE DEF f, e
<1>4. Held(s) = SumFunctionOnSet(f, Holders)
  BY <1>0, <1>2, <1>3, SumSame
<1> QED BY <1>0, <1>1, <1>3, <1>4, SumGrows, AttemptsAssumption

-----------------------------------------------------------------------------
(* The script checks line by line, which is enough when no two lines of a  *)
(* cart are about the same product.                                        *)

DistinctLines ==
  \A cart \in Carts : \A i, j \in DOMAIN cart : cart[i].sku = cart[j].sku => i = j

(* Then the units of a product are the quantity of one line.               *)
LEMMA UnitsOfLine ==
  ASSUME DistinctLines, NEW cart \in Carts, NEW s \in Skus
  PROVE  Units(cart, s) = 0 \/ \E i \in DOMAIN cart : cart[i].sku = s /\ Units(cart, s) = cart[i].quantity
<1> DEFINE D == DOMAIN cart
           f == UnitsOf(cart, s)
<1>1. cart \in Seq(Lines)
  BY CartType
<1>2. IsFiniteSet(D)
  <2>1. D = 1 .. Len(cart) /\ Len(cart) \in Nat
    BY <1>1
  <2> QED BY <2>1, FS_Interval
<1>3. \A i \in D : /\ cart[i].sku = s => f[i] = cart[i].quantity
                   /\ cart[i].sku # s => f[i] = 0
                   /\ f[i] \in Nat
  <2>1. \A i \in D : cart[i] \in Lines
    BY <1>1
  <2> QED BY <2>1 DEF UnitsOf, Lines
<1>4. Units(cart, s) = SumFunctionOnSet(f, D)
  BY <1>2, UnitsSum
<1> HIDE DEF f
<1>5. CASE \A i \in D : cart[i].sku # s
  BY <1>2, <1>3, <1>4, <1>5, SumZero
<1>6. ASSUME NEW i \in D, cart[i].sku = s PROVE Units(cart, s) = cart[i].quantity
  <2>1. \A j \in D \ {i} : f[j] = 0
    BY <1>3, <1>6 DEF DistinctLines
  <2>2. SumFunctionOnSet(f, D \ {i}) = 0
    BY <1>2, <2>1, SumZero, FS_RemoveElement
  <2>3. SumFunctionOnSet(f, D) = f[i] + SumFunctionOnSet(f, D \ {i})
    BY <1>2, <1>3, SumOut
  <2> QED BY <1>3, <1>4, <1>6, <2>2, <2>3
<1> QED BY <1>5, <1>6

(* RESERVE_STOCK_SCRIPT takes no counter below zero.                       *)
LEMMA NonNegativeStep ==
  ASSUME DistinctLines, Typed, RedisNeverNegative, [Next]_vars
  PROVE  RedisNeverNegative'
<1> SUFFICES ASSUME NEW s \in Skus PROVE redis'[s] >= 0
  BY DEF RedisNeverNegative
<1>0. redis \in [Skus -> Int] /\ redis[s] \in Int /\ redis[s] >= 0
  BY DEF Typed, RedisNeverNegative
<1>1. ASSUME NEW a \in Attempts, NEW cart \in Carts, Reserve(a, cart) PROVE redis'[s] >= 0
  <2>1. redis' = Minus(redis, cart) /\ Available(cart)
    BY <1>1 DEF Reserve
  <2>2. Minus(redis, cart)[s] = redis[s] - Units(cart, s) /\ Units(cart, s) \in Nat
    BY <1>0, CartType, PlusType
  <2>3. Units(cart, s) <= redis[s]
    BY <1>0, <2>1, <2>2, UnitsOfLine DEF Available
  <2> QED BY <1>0, <2>1, <2>2, <2>3
<1>2. ASSUME NEW items \in Seq(Lines), redis' = Plus(redis, items) PROVE redis'[s] >= 0
  BY <1>0, <1>2, PlusType
<1>3. ASSUME NEW t \in OrderTopics, HasMessage(t), Release(HeadOf(t)) PROVE redis'[s] >= 0
  <2>1. HeadOf(t).items \in Seq(Lines)
    BY <1>3, HeadType DEF OrderTopics, Topics
  <2>2. redis' = redis \/ redis' = Plus(redis, HeadOf(t).items)
    BY <1>3 DEF Release
  <2> QED BY <1>0, <1>2, <2>1, <2>2
<1>4. CASE AddStock
  <2>1. HeadOf("product.restock").items \in Seq(Lines) /\ redis' = Plus(redis, HeadOf("product.restock").items)
    BY <1>4, HeadType DEF AddStock, Topics
  <2> QED BY <1>2, <2>1
<1> QED BY <1>0, <1>1, <1>3, <1>4, RedisSteps

-----------------------------------------------------------------------------
(* Orders: an order is placed by one checkout and canceled once.           *)

Ordered ==
  \A a \in Attempts : attempts[a].pc = "ordered" =>
    /\ attempts[a].order \in OrderIds /\ orders[attempts[a].order] = "placed"
    /\ \A b \in Attempts :
         attempts[b].pc = "ordered" /\ attempts[b].order = attempts[a].order => b = a
CanceledOnce ==
  /\ \A i \in DOMAIN Canceled : Canceled[i].id \in OrderIds /\ orders[Canceled[i].id] = "canceled"
  /\ used.duplicates = 0 => \A i, j \in DOMAIN Canceled : Canceled[i].id = Canceled[j].id => i = j

(* A checkout takes a draft.                                               *)
LEMMA Placing ==
  ASSUME Typed, NEW a \in Attempts, NEW id \in OrderIds, PlaceOrder(a, id)
  PROVE  /\ attempts'[a].order = id /\ orders[id] = "draft" /\ orders'[id] = "placed"
         /\ \A b \in Attempts : b # a => attempts'[b] = attempts[b]
BY DEF PlaceOrder, Typed, AttemptType

(* What becomes of an order.                                               *)
LEMMA OrderMoves ==
  ASSUME Typed, [Next]_vars, NEW id \in OrderIds, orders'[id] # orders[id]
  PROVE  \E a \in Attempts :
           \/ PlaceOrder(a, id) /\ orders[id] = "draft"
           \/ /\ CancelOrder(a) /\ attempts[a].order = id /\ orders'[id] = "canceled"
              /\ attempts[a].pc = "ordered" /\ attempts'[a].pc = "canceled"
<1> USE DEF stockVars, kafkaVars, historyVars
<1>1. ASSUME NEW a \in Attempts, NEW i \in OrderIds, PlaceOrder(a, i) PROVE i = id /\ orders[id] = "draft"
  BY <1>1 DEF PlaceOrder, Typed
<1>2. ASSUME NEW a \in Attempts, CancelOrder(a) PROVE attempts[a].order = id /\ orders'[id] = "canceled"
  BY <1>2 DEF CancelOrder, Typed
<1>3. ASSUME NEW a \in Attempts, AttemptStep(a)
      PROVE  CancelOrder(a) \/ \E i \in OrderIds : PlaceOrder(a, i)
  BY <1>3 DEF AttemptStep, Reserve, OutOfStock, DecrementDb, LoseReservation, RefuseCheckout, RollBackCheckout
<1>4. ASSUME \/ RestockStep \/ ConsumerStep \/ UNCHANGED vars \/ Crash
             \/ (\E i \in OrderIds \cup {Null} : KeyExpires(i)) \/ (\E t \in Topics : Redeliver(t))
      PROVE  FALSE
  BY <1>4 DEF RestockStep, RestockUpsert, RestockOutbox, RestockFails, ConsumerStep, SkipCheckoutFailed,
     SkipEmptyCanceled, IncrementDb, ReleaseCheckoutFailed, ReleaseCanceled, IncrementFails, AddStock,
     CommitOffset, KeyExpires, Crash, Redeliver, vars
<1> QED BY <1>1, <1>2, <1>3, <1>4, Ending DEF Next

(* Every step leaves a placed order to one checkout.                       *)
LEMMA OrderedStep ==
  ASSUME Typed, Ordered, [Next]_vars
  PROVE  Ordered'
<1> SUFFICES ASSUME NEW a \in Attempts, attempts'[a].pc = "ordered", NEW id, id = attempts'[a].order
             PROVE  /\ id \in OrderIds /\ orders'[id] = "placed"
                    /\ \A b \in Attempts : attempts'[b].pc = "ordered" /\ attempts'[b].order = id => b = a
  BY DEF Ordered
<1>1. CASE attempts'[a] # attempts[a]
  <2>1. PICK i \in OrderIds : PlaceOrder(a, i)
    BY <1>1, Moves
  <2>2. i = id /\ orders[id] = "draft" /\ orders'[id] = "placed" /\ \A b \in Attempts : b # a => attempts'[b] = attempts[b]
    BY <2>1, Placing
  <2> QED BY <2>2 DEF Ordered
<1>2. CASE attempts'[a] = attempts[a]
  <2>1. id \in OrderIds /\ orders[id] = "placed" /\ attempts[a].pc = "ordered" /\ attempts[a].order = id
    BY <1>2 DEF Ordered
  <2>2. orders'[id] = "placed"
    <3>1. ASSUME NEW c \in Attempts, attempts[c].order = id, attempts[c].pc = "ordered" PROVE c = a
      BY <2>1, <3>1 DEF Ordered
    <3>2. attempts'[a].pc # "canceled"
      OBVIOUS
    <3> QED BY <2>1, <3>1, <3>2, OrderMoves
  <2>3. ASSUME NEW b \in Attempts, attempts'[b].pc = "ordered", attempts'[b].order = id PROVE b = a
    <3>1. CASE attempts'[b] = attempts[b]
      BY <2>1, <2>3, <3>1 DEF Ordered
    <3>2. CASE attempts'[b] # attempts[b]
      <4>1. PICK i \in OrderIds : PlaceOrder(b, i)
        BY <2>3, <3>2, Moves
      <4>2. i = id /\ orders[id] = "draft"
        BY <2>3, <4>1, Placing
      <4> QED BY <2>1, <4>2
    <3> QED BY <3>1, <3>2
  <2> QED BY <2>1, <2>2, <2>3
<1> QED BY <1>1, <1>2

(* A new message of order.canceled that copies none is about an order that *)
(* was placed.                                                             *)
LEMMA CanceledNew ==
  ASSUME Typed, Ordered, [Next]_vars, ~ Redeliver("order.canceled"),
         NEW i \in DOMAIN Canceled', i \notin DOMAIN Canceled
  PROVE  /\ i = Len(Canceled) + 1 /\ Canceled'[i].id \in OrderIds
         /\ orders[Canceled'[i].id] = "placed" /\ orders'[Canceled'[i].id] = "canceled"
         /\ UNCHANGED <<stockVars, offset, consumer, historyVars>>
<1> DEFINE m == Canceled'[i]
<1>0. "order.canceled" \in OrderTopics
  BY DEF OrderTopics
<1>1. PICK n : n = m
  OBVIOUS
<1>2. /\ n.attempt \in Attempts /\ i = Len(Canceled) + 1
      /\ n.id = attempts[n.attempt].order /\ CancelOrder(n.attempt)
  BY <1>0, <1>1, MessageNew DEF Canceled
<1>3. attempts[n.attempt].pc = "ordered"
  BY <1>2, Ending
<1>4. n.id \in OrderIds /\ orders[n.id] = "placed"
  BY <1>2, <1>3 DEF Ordered
<1>5. orders'[n.id] = "canceled" /\ UNCHANGED <<stockVars, offset, consumer, historyVars>>
  BY <1>2, <1>4 DEF CancelOrder, Typed
<1> QED BY <1>1, <1>2, <1>4, <1>5

(* Every step leaves an order with at most one cancellation.               *)
LEMMA CanceledStep ==
  ASSUME Typed, MessagesFit, Ordered, CanceledOnce, [Next]_vars
  PROVE  CanceledOnce'
<1>0. "order.canceled" \in OrderTopics /\ "order.canceled" \in Topics
  BY DEF OrderTopics, Topics
<1>1. ASSUME NEW i \in DOMAIN Canceled PROVE i \in DOMAIN Canceled' /\ Canceled'[i] = Canceled[i]
  BY <1>0, <1>1, TopicsGrow DEF Canceled
<1>2. ASSUME NEW i \in DOMAIN Canceled', i \notin DOMAIN Canceled, ~ Redeliver("order.canceled")
      PROVE  /\ i = Len(Canceled) + 1 /\ Canceled'[i].id \in OrderIds
             /\ orders[Canceled'[i].id] = "placed" /\ orders'[Canceled'[i].id] = "canceled"
  BY <1>2, CanceledNew
<1>3. ASSUME NEW i \in DOMAIN Canceled' PROVE Canceled'[i].id \in OrderIds /\ orders'[Canceled'[i].id] = "canceled"
  <2>1. CASE i \in DOMAIN Canceled
    <3>1. Canceled'[i].id \in OrderIds /\ orders[Canceled'[i].id] = "canceled"
      BY <1>1, <2>1 DEF CanceledOnce
    <3> QED BY <3>1, OrderMoves
  <2>2. CASE Redeliver("order.canceled")
    <3>1. PICK k \in DOMAIN Canceled : Canceled'[i] = Canceled[k]
      BY <1>0, <1>3, <2>2, CopyOf DEF Canceled
    <3>2. Canceled'[i].id \in OrderIds /\ orders[Canceled'[i].id] = "canceled"
      BY <3>1 DEF CanceledOnce
    <3> QED BY <3>2, OrderMoves
  <2> QED BY <1>2, <1>3, <2>1, <2>2
<1>4. ASSUME used'.duplicates = 0, NEW i \in DOMAIN Canceled', NEW j \in DOMAIN Canceled',
             Canceled'[i].id = Canceled'[j].id
      PROVE  i = j
  <2>0. used.duplicates = 0 /\ ~ Redeliver("order.canceled")
    BY <1>4, UsedGrows DEF Kinds
  <2>1. ASSUME NEW k \in DOMAIN Canceled PROVE orders[Canceled'[k].id] = "canceled"
    BY <1>1, <2>1 DEF CanceledOnce
  <2>2. CASE i \in DOMAIN Canceled /\ j \in DOMAIN Canceled
    BY <1>1, <1>4, <2>0, <2>2 DEF CanceledOnce
  <2> QED BY <1>2, <1>4, <2>0, <2>1, <2>2
<1> QED BY <1>3, <1>4 DEF CanceledOnce

-----------------------------------------------------------------------------
(* Without faults, crashes and duplicates, the rows of canceled orders come *)
(* back.                                                                   *)

NoFaults == used.faults = 0 /\ used.crashes = 0 /\ used.duplicates = 0

(* A message of order.canceled the script has run for.                     *)
Handled(i) ==
  \/ i <= offset["order.canceled"]
  \/ consumer = "order.canceled" /\ i = offset["order.canceled"] + 1
KeysFresh ==
  NoFaults =>
    /\ \A i \in DOMAIN Failed : Failed[i].id = Null
    /\ \A i \in DOMAIN Canceled :
         IF Handled(i)
         THEN Canceled[i].items # <<>> => Canceled[i].attempt \in given
         ELSE Canceled[i].id \notin processed
KeysEnded ==
  NoFaults => \A id \in processed : id = Null \/ (id \in OrderIds /\ orders[id] = "canceled")

(* Steps without a fault, crash or duplicate.                              *)
LEMMA FaultsStep ==
  ASSUME Typed, [Next]_vars, NoFaults'
  PROVE  NoFaults /\ ~ Fault /\ ~ Crash /\ ~ IncrementFails /\ \A t : ~ Redeliver(t)
<1>1. /\ used.faults \in Nat /\ used'.faults >= used.faults /\ used.crashes \in Nat /\ used'.crashes >= used.crashes
      /\ used.duplicates \in Nat /\ used'.duplicates >= used.duplicates
  BY UsedGrows DEF Kinds
<1>2. IncrementFails => Fault
  BY DEF IncrementFails
<1> QED BY <1>1, <1>2, UsedGrows DEF NoFaults

(* The consumer goes on, and skips empty orders only.                      *)
LEMMA HandledMoves ==
  ASSUME Typed, Offsets, [Next]_vars, ~ IncrementFails, ~ Crash, NEW i \in DOMAIN Canceled
  PROVE  /\ Handled(i) => Handled(i)'
         /\ Handled(i)' /\ ~ Handled(i) =>
              \/ Canceled[i].items = <<>>
              \/ ReleaseCanceled /\ HeadOf("order.canceled") = Canceled[i]
<1> USE DEF stockVars, kafkaVars, historyVars
<1> DEFINE o == offset["order.canceled"]
<1>0. /\ o \in Nat /\ i \in Nat /\ "order.canceled" \in Topics /\ offset \in [Topics -> Nat]
      /\ "order.checkout.failed" \in Topics /\ "product.restock" \in Topics
      /\ consumer \in {"poll", "order.canceled", "order.checkout.failed"}
      /\ HeadOf("order.canceled") = Canceled[o + 1]
  BY DEF Typed, Topics, HeadOf, Canceled, OrderTopics
<1>1. CASE UNCHANGED <<offset, consumer>>
  BY <1>1 DEF Handled
<1>2. ASSUME NEW t \in Topics, Done(t), consumer = "poll", t # "order.canceled"
      PROVE  o' = o /\ consumer' = "poll"
  BY <1>0, <1>2 DEF Done
<1>3. CASE SkipCheckoutFailed
  BY <1>0, <1>2, <1>3 DEF SkipCheckoutFailed, Handled
<1>4. CASE AddStock
  BY <1>0, <1>2, <1>4 DEF AddStock, Handled
<1>5. CASE SkipEmptyCanceled
  <2>1. o' = o + 1 /\ consumer = "poll" /\ consumer' = "poll" /\ Canceled[o + 1].items = <<>>
    BY <1>0, <1>5 DEF SkipEmptyCanceled, Done
  <2> QED BY <1>0, <2>1 DEF Handled
<1>6. CASE IncrementDb
  <2>1. consumer' = "poll" /\ offset' = [offset EXCEPT ![consumer] = @ + 1] /\ consumer # "poll"
    BY <1>6 DEF IncrementDb, Done
  <2>2. CASE consumer = "order.canceled"
    <3>1. o' = o + 1
      BY <1>0, <2>1, <2>2
    <3> QED BY <1>0, <2>1, <2>2, <3>1 DEF Handled
  <2>3. CASE consumer # "order.canceled"
    <3>1. o' = o
      BY <1>0, <2>1, <2>3
    <3> QED BY <1>0, <2>1, <2>3, <3>1 DEF Handled
  <2> QED BY <2>2, <2>3
<1>7. CASE ReleaseCheckoutFailed
  BY <1>0, <1>7 DEF ReleaseCheckoutFailed, Handled
<1>8. CASE ReleaseCanceled
  BY <1>0, <1>8 DEF ReleaseCanceled, Handled
<1> QED BY <1>1, <1>3, <1>4, <1>5, <1>6, <1>7, <1>8, KafkaSteps DEF RestockOutbox, CommitOffset, Redeliver

(* The keys that a step adds.                                              *)
LEMMA KeysAdded ==
  ASSUME Typed, [Next]_vars, NoFaults, KeysFresh, NEW id \in processed', id \notin processed
  PROVE  /\ UNCHANGED <<orders, offset, topics>>
         /\ \/ id = Null
            \/ /\ consumer' = "order.canceled"
               /\ offset["order.canceled"] + 1 \in DOMAIN Canceled
               /\ id = Canceled[offset["order.canceled"] + 1].id
<1>1. ASSUME NEW i, KeyExpires(i) PROVE FALSE
  BY <1>1 DEF KeyExpires
<1>2. PICK t \in OrderTopics : /\ HasMessage(t) /\ Release(HeadOf(t)) /\ consumer' = t
                               /\ UNCHANGED <<orders, offset, topics>>
  BY <1>1, KeySteps
<1>3. id = HeadOf(t).id /\ offset[t] + 1 \in DOMAIN topics[t]
  BY <1>2, HeadType DEF Release, OrderTopics, Topics
<1>4. CASE t = "order.checkout.failed"
  <2>1. HeadOf(t) = Failed[offset[t] + 1]
    BY <1>4 DEF HeadOf, Failed
  <2> QED BY <1>2, <1>3, <1>4, <2>1 DEF KeysFresh, Failed
<1>5. CASE t = "order.canceled"
  BY <1>2, <1>3, <1>5 DEF HeadOf, Canceled
<1> QED BY <1>4, <1>5 DEF OrderTopics

(* Without faults, a key is set for a canceled order or for none.          *)
LEMMA KeysEndedStep ==
  ASSUME Typed, CanceledOnce, KeysFresh, KeysEnded, [Next]_vars
  PROVE  KeysEnded'
<1> SUFFICES ASSUME NoFaults', NEW id \in processed', id # Null
             PROVE  id \in OrderIds /\ orders'[id] = "canceled"
  BY DEF KeysEnded
<1>1. NoFaults
  BY FaultsStep
<1>2. CASE id \in processed
  <2>1. id \in OrderIds /\ orders[id] = "canceled"
    BY <1>1, <1>2 DEF KeysEnded
  <2> QED BY <2>1, OrderMoves
<1>3. CASE id \notin processed
  BY <1>1, <1>3, KeysAdded DEF CanceledOnce
<1> QED BY <1>2, <1>3

(* Without faults, the key of an order appears when its cancellation is    *)
(* handled.                                                                *)
LEMMA FreshStep ==
  ASSUME Typed, Offsets, MessagesFit, Ordered, CanceledOnce, KeysFresh, KeysEnded, [Next]_vars
  PROVE  KeysFresh'
<1> SUFFICES ASSUME NoFaults'
             PROVE  /\ \A i \in DOMAIN Failed' : Failed'[i].id = Null
                    /\ \A i \in DOMAIN Canceled' :
                         /\ Handled(i)' /\ Canceled'[i].items # <<>> => Canceled'[i].attempt \in given'
                         /\ ~ Handled(i)' => Canceled'[i].id \notin processed'
  BY DEF KeysFresh
<1>0. NoFaults /\ ~ Fault /\ ~ Crash /\ ~ IncrementFails /\ \A t : ~ Redeliver(t)
  BY FaultsStep
<1>1. ASSUME NEW i \in DOMAIN Failed' PROVE Failed'[i].id = Null
  <2>0. "order.checkout.failed" \in OrderTopics /\ "order.checkout.failed" \in Topics
    BY DEF OrderTopics, Topics
  <2>1. CASE i \in DOMAIN Failed
    <3>1. Failed'[i] = Failed[i]
      BY <2>0, <2>1, TopicsGrow DEF Failed
    <3> QED BY <1>0, <2>1, <3>1 DEF KeysFresh
  <2>2. CASE i \notin DOMAIN Failed
    <3>1. ASSUME NEW a, NEW id PROVE ~ RollBackCheckout(a, id)
      BY <1>0 DEF RollBackCheckout
    <3>2. PICK n : n = Failed'[i]
      OBVIOUS
    <3>3. n.id = Null
      BY <1>0, <1>1, <2>0, <2>2, <3>1, <3>2, MessageNew DEF Failed
    <3> QED BY <3>2, <3>3
  <2> QED BY <2>1, <2>2
<1>2. given \subseteq given'
  BY KeySteps DEF Release, KeyExpires, historyVars
<1>3. ASSUME NEW i \in DOMAIN Canceled
      PROVE  /\ Canceled'[i] = Canceled[i]
             /\ Handled(i)' /\ Canceled[i].items # <<>> => Canceled[i].attempt \in given'
             /\ ~ Handled(i)' => Canceled[i].id \notin processed'
  <2>1. Canceled'[i] = Canceled[i]
    BY <1>3, TopicsGrow DEF Canceled, Topics
  <2>2. CASE Handled(i)
    <3>1. Handled(i)'
      BY <1>0, <2>2, HandledMoves
    <3> QED BY <1>0, <1>2, <2>1, <2>2, <3>1 DEF KeysFresh
  <2>3. CASE ~ Handled(i) /\ Handled(i)'
    <3>1. Canceled[i].id \notin processed
      BY <1>0, <2>3 DEF KeysFresh
    <3>2. CASE Canceled[i].items = <<>>
      BY <2>1, <2>3, <3>2
    <3>3. CASE ReleaseCanceled /\ HeadOf("order.canceled") = Canceled[i]
      <4>1. Canceled[i].attempt \in given'
        BY <3>1, <3>3 DEF ReleaseCanceled, Release, Released
      <4> QED BY <2>1, <2>3, <4>1
    <3> QED BY <1>0, <2>3, <3>2, <3>3, HandledMoves
  <2>4. CASE ~ Handled(i) /\ ~ Handled(i)'
    <3>1. Canceled[i].id \notin processed /\ Canceled[i].id \in OrderIds
      BY <1>0, <2>4 DEF KeysFresh, CanceledOnce
    <3>2. ASSUME Canceled[i].id \in processed' PROVE FALSE
      <4>1. Canceled[i].id # Null
        BY <3>1, NullAssumption
      <4>2. /\ UNCHANGED offset /\ consumer' = "order.canceled"
            /\ offset["order.canceled"] + 1 \in DOMAIN Canceled
            /\ Canceled[i].id = Canceled[offset["order.canceled"] + 1].id
        BY <1>0, <3>1, <3>2, <4>1, KeysAdded
      <4>3. i = offset["order.canceled"] + 1
        BY <1>0, <1>3, <4>2 DEF CanceledOnce, NoFaults
      <4> QED BY <2>4, <4>2, <4>3 DEF Handled
    <3> QED BY <2>1, <2>4, <3>2
  <2> QED BY <2>2, <2>3, <2>4
<1>4. ASSUME NEW i \in DOMAIN Canceled', i \notin DOMAIN Canceled
      PROVE  ~ Handled(i)' /\ Canceled'[i].id \notin processed'
  <2>1. /\ i = Len(Canceled) + 1 /\ Canceled'[i].id \in OrderIds /\ orders[Canceled'[i].id] = "placed"
        /\ processed' = processed /\ offset' = offset /\ consumer' = consumer
    BY <1>0, <1>4, CanceledNew DEF stockVars
  <2>2. Canceled'[i].id \notin processed
    <3>1. Canceled'[i].id # Null
      BY <2>1, NullAssumption
    <3> QED BY <1>0, <2>1, <3>1 DEF KeysEnded
  <2>3. /\ offset["order.canceled"] <= Len(Canceled) /\ offset["order.canceled"] \in Nat
        /\ consumer = "order.canceled" => offset["order.canceled"] < Len(Canceled)
        /\ Len(Canceled) \in Nat
    BY DEF Offsets, HasMessage, Canceled, Typed, Topics
  <2>4. ~ Handled(i)
    BY <2>1, <2>3 DEF Handled
  <2> QED BY <2>1, <2>2, <2>4 DEF Handled
<1> QED BY <1>1, <1>3, <1>4

-----------------------------------------------------------------------------
(* The copies differ by the work between them and by what faults do.       *)

(* The units the database has still to lose for a checkout.                *)
Pending(a, s) == IF attempts[a].pc = "decrement" THEN Units(attempts[a].cart, s) ELSE 0
Decrementing(s) == SumFunctionOnSet([a \in Attempts |-> Pending(a, s)], Attempts)
(* The units it has still to get back from the handler at work.            *)
Halfway(s) == IF consumer = "poll" THEN 0 ELSE Units(HeadOf(consumer).items, s)
(* What the copies differ by apart from the work between them.             *)
Apart(s) == redis[s] + Decrementing(s) + Coming(s) - db[s] - Halfway(s)
Balanced == NoFaults => \A s \in Skus : Apart(s) = 0

(* What one cart or one restock can be about.                              *)
Small(n, s) == n \in Nat /\ (n \in {0, 1} \/ \E cart \in Carts : n = Units(cart, s))

(* The units of a cart are that much.                                      *)
LEMMA SmallCart ==
  ASSUME NEW cart \in Carts \cup {<<>>}, NEW s
  PROVE  Small(Units(cart, s), s)
<1>1. Units(cart, s) \in Nat
  BY CartType, UnitsType
<1> QED BY <1>1, NoUnits DEF Small

(* What the database has to lose for a checkout is a number of units.      *)
LEMMA PendingType ==
  ASSUME Typed, NEW a \in Attempts, NEW s \in Skus
  PROVE  Pending(a, s) \in Nat
<1>1. attempts[a].cart \in Carts \cup {<<>>}
  BY DEF Typed, AttemptType
<1>2. Units(attempts[a].cart, s) \in Nat
  BY <1>1, CartType, UnitsType
<1> QED BY <1>2 DEF Pending

(* And so is the sum over the checkouts.                                   *)
LEMMA DecrementingType ==
  ASSUME Typed, NEW s \in Skus
  PROVE  Decrementing(s) \in Nat
<1> DEFINE f == [a \in Attempts |-> Pending(a, s)]
<1>1. \A a \in Attempts : f[a] \in Nat
  BY PendingType
<1> HIDE DEF f
<1>2. SumFunctionOnSet(f, Attempts) \in Nat
  BY <1>1, SumGrows, AttemptsAssumption
<1> QED BY <1>2 DEF Decrementing, f

(* And what it has to get back.                                            *)
LEMMA HalfwayType ==
  ASSUME Typed, Offsets, NEW s \in Skus
  PROVE  Halfway(s) \in Nat
<1>1. ASSUME consumer # "poll" PROVE Units(HeadOf(consumer).items, s) \in Nat
  <2>1. HeadOf(consumer).items \in Seq(Lines)
    BY <1>1, HeadType DEF Typed, Offsets, OrderTopics, Topics
  <2> QED BY <2>1, UnitsType
<1> QED BY <1>1 DEF Halfway

(* The sum moves with the one checkout that does.                          *)
LEMMA DecrementingChanges ==
  ASSUME Typed, Typed', NEW s \in Skus, NEW a \in Attempts,
         \A b \in Attempts : b # a => Pending(b, s)' = Pending(b, s)
  PROVE  /\ Decrementing(s)' = Decrementing(s) - Pending(a, s) + Pending(a, s)'
         /\ Pending(a, s) \in Nat /\ Pending(a, s)' \in Nat
<1> DEFINE f == [b \in Attempts |-> Pending(b, s)]
           e == [b \in Attempts |-> Pending(b, s)']
<1>01. ASSUME NEW b \in Attempts PROVE Pending(b, s)' \in Nat
  <2>1. attempts'[b].cart \in Carts \cup {<<>>}
    BY DEF Typed, AttemptType
  <2>2. Units(attempts'[b].cart, s) \in Nat
    BY <2>1, CartType, UnitsType
  <2> QED BY <2>2 DEF Pending
<1>1. \A b \in Attempts : Pending(b, s) \in Nat /\ Pending(b, s)' \in Nat
  BY <1>01, PendingType
<1>2. \A b \in Attempts : f[b] \in Int /\ e[b] \in Int
  BY <1>1
<1>3. \A b \in Attempts \ {a} : f[b] = e[b]
  OBVIOUS
<1>4. f[a] = Pending(a, s) /\ e[a] = Pending(a, s)'
  OBVIOUS
<1>5. Decrementing(s) = SumFunctionOnSet(f, Attempts) /\ Decrementing(s)' = SumFunctionOnSet(e, Attempts)
  BY DEF Decrementing
<1> HIDE DEF f, e
<1>6. SumFunctionOnSet(e, Attempts) = SumFunctionOnSet(f, Attempts) - f[a] + e[a]
  BY <1>2, <1>3, SumChanges, AttemptsAssumption
<1> QED BY <1>1, <1>4, <1>5, <1>6

(* It stays when no checkout moves.                                        *)
LEMMA DecrementingSame ==
  ASSUME NEW s \in Skus, UNCHANGED attempts
  PROVE  Decrementing(s)' = Decrementing(s)
<1> DEFINE f == [b \in Attempts |-> Pending(b, s)]
           e == [b \in Attempts |-> Pending(b, s)']
<1>1. \A b \in Attempts : f[b] = e[b]
  BY DEF Pending
<1>2. Decrementing(s) = SumFunctionOnSet(f, Attempts) /\ Decrementing(s)' = SumFunctionOnSet(e, Attempts)
  BY DEF Decrementing
<1> HIDE DEF f, e
<1> QED BY <1>1, <1>2, SumSame, AttemptsAssumption

(* A new message does not change the one a handler works on.               *)
LEMMA HalfwaySame ==
  ASSUME Typed, Offsets, [Next]_vars, UNCHANGED <<offset, consumer>>, NEW s
  PROVE  Halfway(s)' = Halfway(s)
<1>1. CASE consumer = "poll"
  BY <1>1 DEF Halfway
<1>2. CASE consumer # "poll"
  <2>1. consumer \in Topics /\ HasMessage(consumer)
    BY <1>2 DEF Typed, Offsets, OrderTopics, Topics
  <2>2. topics'[consumer][offset[consumer] + 1] = topics[consumer][offset[consumer] + 1]
    BY <2>1, TopicsGrow, HeadType
  <2> QED BY <1>2, <2>2 DEF Halfway, HeadOf
<1> QED BY <1>1, <1>2

(* Redis loses the units of a checkout first, the database next, if not a  *)
(* fault comes between.                                                    *)
LEMMA PendingMoves ==
  ASSUME Typed, NEW a \in Attempts, AttemptStep(a), NEW s \in Skus
  PROVE  /\ UNCHANGED <<offset, consumer, restock, added>> /\ Restocks' = Restocks
         /\ \A b \in Attempts : b # a => Pending(b, s)' = Pending(b, s)
         /\ \/ redis'[s] - db'[s] = redis[s] - db[s] - (Pending(a, s)' - Pending(a, s))
            \/ LoseReservation(a) /\ UNCHANGED <<redis, db>> /\ Pending(a, s)' = 0 /\ Small(Pending(a, s), s)
         /\ redis'[s] \in Int /\ db'[s] \in Int
<1> USE DEF stockVars, kafkaVars, historyVars
<1>0. attempts[a] \in AttemptType /\ attempts \in [Attempts -> AttemptType]
      /\ redis \in [Skus -> Int] /\ db \in [Skus -> Int] /\ redis[s] \in Int /\ db[s] \in Int
  BY DEF Typed
<1>1. UNCHANGED <<offset, consumer, restock, added>> /\ Restocks' = Restocks
  BY RestocksSame DEF AttemptStep, Reserve, OutOfStock, DecrementDb, LoseReservation, PlaceOrder, RefuseCheckout,
     CancelOrder, RollBackCheckout
<1>2. \A b \in Attempts : b # a => Pending(b, s)' = Pending(b, s)
  <2>1. \A b \in Attempts : b # a => attempts'[b] = attempts[b]
    BY <1>0 DEF AttemptStep, Reserve, OutOfStock, DecrementDb, LoseReservation, PlaceOrder,
        RefuseCheckout, CancelOrder, RollBackCheckout
  <2> QED BY <2>1 DEF Pending
<1> DEFINE Goal == /\ \/ redis'[s] - db'[s] = redis[s] - db[s] - (Pending(a, s)' - Pending(a, s))
                      \/ LoseReservation(a) /\ UNCHANGED <<redis, db>> /\ Pending(a, s)' = 0 /\ Small(Pending(a, s), s)
                   /\ redis'[s] \in Int /\ db'[s] \in Int
<1>3. ASSUME NEW cart \in Carts, Reserve(a, cart) PROVE Goal
  <2>1. attempts'[a].pc = "decrement" /\ attempts'[a].cart = cart /\ attempts[a].pc = "new" /\ db' = db
    BY <1>0, <1>3 DEF Reserve, AttemptType
  <2>2. Pending(a, s) = 0 /\ Pending(a, s)' = Units(cart, s)
    BY <2>1 DEF Pending
  <2>3. cart \in Seq(Lines) /\ redis' = Minus(redis, cart)
    BY <1>3, CartType DEF Reserve
  <2>4. redis'[s] = redis[s] - Units(cart, s) /\ Units(cart, s) \in Nat
    BY <1>0, <2>3, PlusType
  <2> QED BY <1>0, <2>1, <2>2, <2>4
<1>4. ASSUME DecrementDb(a) PROVE Goal
  <2>1. attempts'[a].pc = "reserved" /\ attempts[a].pc = "decrement" /\ redis' = redis
    BY <1>0, <1>4 DEF DecrementDb, AttemptType
  <2>2. Pending(a, s) = Units(attempts[a].cart, s) /\ Pending(a, s)' = 0
    BY <2>1 DEF Pending
  <2>3. attempts[a].cart \in Seq(Lines) /\ db' = Minus(db, attempts[a].cart)
    BY <1>0, <1>4, CartType DEF DecrementDb, AttemptType
  <2>4. db'[s] = db[s] - Units(attempts[a].cart, s) /\ Units(attempts[a].cart, s) \in Nat
    BY <1>0, <2>3, PlusType
  <2> QED BY <1>0, <2>1, <2>2, <2>4
<1>5. ASSUME attempts[a].pc # "decrement", attempts'[a].pc # "decrement", UNCHANGED <<redis, db>> PROVE Goal
  <2>1. Pending(a, s) = 0 /\ Pending(a, s)' = 0
    BY <1>5 DEF Pending
  <2> QED BY <1>0, <1>5, <2>1
<1>10. ASSUME LoseReservation(a) PROVE Goal
  <2>1. UNCHANGED <<redis, db>> /\ attempts'[a].pc = "lost"
    BY <1>0, <1>10 DEF LoseReservation, AttemptType
  <2>2. Pending(a, s)' = 0
    BY <2>1 DEF Pending
  <2>3. attempts[a].cart \in Carts \cup {<<>>}
    BY <1>0 DEF AttemptType
  <2>4. Small(Pending(a, s), s)
    BY <2>3, SmallCart DEF Pending, Small
  <2> QED BY <1>0, <1>10, <2>1, <2>2, <2>4
<1>11. ASSUME NEW id, RollBackCheckout(a, id) PROVE Goal
  <2>1. UNCHANGED <<redis, db>>
    BY <1>11 DEF RollBackCheckout
  <2> QED BY <1>5, <1>11, <2>1, Ending
<1> HIDE DEF Goal
<1>6. ASSUME NEW cart \in Carts, OutOfStock(a, cart) PROVE Goal
  BY <1>0, <1>5, <1>6 DEF OutOfStock, AttemptType
<1>7. ASSUME NEW id \in OrderIds, PlaceOrder(a, id) PROVE Goal
  BY <1>0, <1>5, <1>7 DEF PlaceOrder, AttemptType
<1>8. ASSUME RefuseCheckout(a) PROVE Goal
  BY <1>0, <1>5, <1>8 DEF RefuseCheckout, AttemptType
<1>9. ASSUME CancelOrder(a) PROVE Goal
  <2>1. UNCHANGED <<redis, db>>
    BY <1>9 DEF CancelOrder
  <2> QED BY <1>5, <1>9, <2>1, Ending
<1>12. Goal
  BY <1>3, <1>4, <1>6, <1>7, <1>8, <1>9, <1>10, <1>11 DEF AttemptStep
<1> QED BY <1>1, <1>2, <1>12 DEF Goal

(* Redis gets the units of an order back first, the database next.         *)
LEMMA ReleaseHalfway ==
  ASSUME Typed, NEW t \in OrderTopics, consumer = "poll", HasMessage(t), ~ Released(HeadOf(t)), Release(HeadOf(t)),
         consumer' = t, UNCHANGED <<db, attempts, restock, topics, offset, added>>, NEW s \in Skus
  PROVE  /\ Coming(s)' = Coming(s) /\ Halfway(s) = 0 /\ Halfway(s)' \in Nat
         /\ redis'[s] = redis[s] + Halfway(s)' /\ db' = db
<1>1. Coming(s)' = Coming(s)
  BY DEF Coming, Waiting, CallsFor, Upserted, Restocks
<1>2. Halfway(s) = 0
  BY DEF Halfway
<1>3. t # "poll"
  BY DEF OrderTopics
<1>4. Halfway(s)' = Units(HeadOf(t).items, s)
  BY <1>3 DEF Halfway, HeadOf
<1>5. redis' = Plus(redis, HeadOf(t).items) /\ HeadOf(t).items \in Seq(Lines) /\ redis \in [Skus -> Int]
  BY HeadType DEF Release, Typed, OrderTopics, Topics
<1>6. redis'[s] = redis[s] + Units(HeadOf(t).items, s) /\ Units(HeadOf(t).items, s) \in Nat
  <2> DEFINE items == HeadOf(t).items
  <2> HIDE DEF items
  <2>1. redis' = Plus(redis, items) /\ items \in Seq(Lines)
    BY <1>5 DEF items
  <2>2. redis'[s] = redis[s] + Units(items, s) /\ Units(items, s) \in Nat
    BY <1>5, <2>1, PlusType
  <2> QED BY <2>2 DEF items
<1> QED BY <1>1, <1>2, <1>4, <1>6

(* The faults that lose units: Redis has them, or will have them, no more. *)
Loses == RestockFails \/ \E a \in Attempts : LoseReservation(a)

(* What moves the copies apart: a fault, and a cancellation whose units    *)
(* Redis has got before.                                                   *)
LEMMA ApartMoves ==
  ASSUME Typed, Offsets, RestocksFit, NoReplay, [Next]_vars, used'.crashes = 0, used'.duplicates = 0, NEW s \in Skus
  PROVE  /\ Apart(s) \in Int /\ Apart(s)' \in Int
         /\ \/ Apart(s)' = Apart(s)
            \/ Loses /\ \E n : Small(n, s) /\ Apart(s)' = Apart(s) - n
            \/ Fault /\ \E n : Small(n, s) /\ Apart(s)' = Apart(s) + n
            \/ /\ ReleaseCanceled /\ Released(HeadOf("order.canceled"))
               /\ Apart(s)' = Apart(s) - Units(HeadOf("order.canceled").items, s)
<1> USE DEF stockVars, kafkaVars, historyVars
<1> DEFINE Apartness == redis'[s] + Decrementing(s)' + Coming(s)' - db'[s] - Halfway(s)'
           Skips == ReleaseCanceled /\ Released(HeadOf("order.canceled"))
           Before == redis[s] + Decrementing(s) + Coming(s) - db[s] - Halfway(s)
           Goal == /\ Apartness \in Int
                   /\ \/ Apartness = Before
                      \/ Loses /\ \E n : Small(n, s) /\ Apartness = Before - n
                      \/ Fault /\ \E n : Small(n, s) /\ Apartness = Before + n
                      \/ Skips /\ Apartness = Before - Units(HeadOf("order.canceled").items, s)
<1>0. /\ ~ Crash /\ Typed' /\ used.crashes = 0 /\ used.duplicates = 0 /\ \A t : ~ Redeliver(t)
  <2>1. /\ used.crashes \in Nat /\ used'.crashes >= used.crashes
        /\ used.duplicates \in Nat /\ used'.duplicates >= used.duplicates
    BY UsedGrows DEF Kinds
  <2> QED BY <2>1, UsedGrows, TypedStep
<1>01. /\ redis[s] \in Int /\ db[s] \in Int /\ Decrementing(s) \in Nat /\ Coming(s) \in Nat /\ Halfway(s) \in Nat
       /\ redis \in [Skus -> Int] /\ db \in [Skus -> Int] /\ stocked[s] \in Int
       /\ Before \in Int
  <2>1. redis[s] \in Int /\ db[s] \in Int /\ redis \in [Skus -> Int] /\ db \in [Skus -> Int] /\ stocked[s] \in Int
    BY DEF Typed
  <2>2. Decrementing(s) \in Nat /\ Coming(s) \in Nat /\ Halfway(s) \in Nat
    BY DecrementingType, HalfwayType, WaitingFinite
  <2> QED BY <2>1, <2>2
<1>1. ASSUME NEW a \in Attempts, AttemptStep(a) PROVE Goal
  <2>1. UNCHANGED <<offset, consumer, restock, added>> /\ Restocks' = Restocks
    BY <1>1, PendingMoves
  <2>2. Halfway(s)' = Halfway(s)
    BY <2>1, HalfwaySame
  <2>3. Coming(s)' = Coming(s)
    BY <2>1 DEF Coming, Waiting, CallsFor, Upserted
  <2>4. \A b \in Attempts : b # a => Pending(b, s)' = Pending(b, s)
    BY <1>1, PendingMoves
  <2>5. Decrementing(s)' = Decrementing(s) - Pending(a, s) + Pending(a, s)' /\ Pending(a, s) \in Nat /\ Pending(a, s)' \in Nat
    BY <1>0, <2>4, DecrementingChanges
  <2>6. redis'[s] \in Int /\ db'[s] \in Int
    BY <1>1, PendingMoves
  <2>7. CASE redis'[s] - db'[s] = redis[s] - db[s] - (Pending(a, s)' - Pending(a, s))
    BY <1>01, <2>2, <2>3, <2>5, <2>6, <2>7
  <2>8. CASE LoseReservation(a) /\ UNCHANGED <<redis, db>> /\ Pending(a, s)' = 0 /\ Small(Pending(a, s), s)
    <3>1. Apartness = Before - Pending(a, s)
      BY <1>01, <2>2, <2>3, <2>5, <2>8
    <3>2. Apartness \in Int
      BY <1>01, <2>5, <3>1
    <3> HIDE DEF Apartness, Before
    <3>3. Loses
      BY <2>8 DEF Loses
    <3> QED BY <2>8, <3>1, <3>2, <3>3
  <2> QED BY <1>1, <2>7, <2>8, PendingMoves
<1>2. ASSUME RestockStep PROVE Goal
  <2>1. UNCHANGED <<offset, consumer>> /\ db' \in [Skus -> Int] /\ stocked' \in [Skus -> Int]
        /\ db'[s] - stocked'[s] = db[s] - stocked[s]
    <3>0. db \in [Skus -> Int] /\ stocked \in [Skus -> Int] /\ db' \in [Skus -> Int] /\ stocked' \in [Skus -> Int]
      BY <1>0 DEF Typed
    <3>1. ASSUME NEW z \in Skus, RestockUpsert(z)
          PROVE  UNCHANGED <<offset, consumer>> /\ db'[s] - stocked'[s] = db[s] - stocked[s]
      <4>1. db'[s] = IF z = s THEN db[s] + 1 ELSE db[s]
        BY <3>0, <3>1 DEF RestockUpsert
      <4>2. stocked'[s] = IF z = s THEN stocked[s] + 1 ELSE stocked[s]
        BY <3>0, <3>1 DEF RestockUpsert
      <4>3. UNCHANGED <<offset, consumer>>
        BY <3>1 DEF RestockUpsert
      <4> QED BY <3>0, <4>1, <4>2, <4>3
    <3>2. ASSUME RestockOutbox \/ RestockFails
          PROVE  UNCHANGED <<offset, consumer>> /\ db'[s] - stocked'[s] = db[s] - stocked[s]
      BY <3>2 DEF RestockOutbox, RestockFails
    <3> QED BY <1>2, <3>0, <3>1, <3>2 DEF RestockStep
  <2>2. Halfway(s)' = Halfway(s)
    BY <2>1, HalfwaySame
  <2>3. Decrementing(s)' = Decrementing(s) /\ redis' = redis
    BY <1>2, RestockMoves, DecrementingSame
  <2>4. Coming(s)' \in Int /\ db'[s] \in Int /\ stocked'[s] \in Int
    BY <1>2, <2>1, RestockMoves
  <2>5. CASE ~ Fault
    <3>1. Coming(s)' - stocked'[s] = Coming(s) - stocked[s]
      BY <1>2, <2>5, RestockMoves
    <3> QED BY <1>01, <2>1, <2>2, <2>3, <2>4, <3>1
  <2>6. CASE Fault
    <3>1. RestockFails \/ RestockOutbox \/ \E z \in Skus : RestockUpsert(z)
      BY <1>2 DEF RestockStep
    <3>2. ASSUME RestockOutbox \/ \E z \in Skus : RestockUpsert(z) PROVE Coming(s)' - stocked'[s] = Coming(s) - stocked[s]
      <4>1. ~ Fault
        <5>1. ASSUME RestockOutbox PROVE used'.faults = used.faults
          BY <5>1 DEF RestockOutbox
        <5>2. ASSUME NEW z \in Skus, RestockUpsert(z) PROVE used'.faults = used.faults
          BY <5>2, Spent DEF RestockUpsert, Kinds
        <5>3. Fault => used'.faults = used.faults + 1 /\ used.faults \in Nat
          BY UsedGrows DEF Kinds
        <5> QED BY <3>2, <5>1, <5>2, <5>3
      <4> QED BY <2>6, <4>1
    <3>3. ASSUME RestockFails
          PROVE  Loses /\ \E n : Small(n, s) /\ Coming(s)' = Coming(s) - n /\ stocked'[s] = stocked[s]
      <4>1. Upserted(s)' = 0 /\ Upserted(s) \in {0, 1}
        BY <3>3, UpsertedOne DEF RestockFails, Upserted
      <4>2. Waiting(s)' = Waiting(s) /\ stocked' = stocked
        BY <3>3 DEF RestockFails, Waiting, CallsFor, Restocks
      <4>3. Coming(s)' = Cardinality(Waiting(s)) + Upserted(s)' /\ Coming(s) = Cardinality(Waiting(s)) + Upserted(s)
        BY <4>2 DEF Coming
      <4>4. Cardinality(Waiting(s)) \in Nat
        BY WaitingFinite
      <4>5. Small(Upserted(s), s) /\ Coming(s)' = Coming(s) - Upserted(s)
        BY <4>1, <4>3, <4>4 DEF Small
      <4> QED BY <3>3, <4>2, <4>5 DEF Loses
    <3>4. CASE Coming(s)' - stocked'[s] = Coming(s) - stocked[s]
      BY <1>01, <2>1, <2>2, <2>3, <2>4, <3>4
    <3>5. ASSUME Loses, NEW n, Small(n, s), Coming(s)' = Coming(s) - n, stocked'[s] = stocked[s] PROVE Goal
      <4>1. n \in Nat
        BY <3>5 DEF Small
      <4>2. Apartness = Before - n
        BY <1>01, <2>1, <2>2, <2>3, <2>4, <3>5, <4>1
      <4>3. Apartness \in Int
        BY <1>01, <4>1, <4>2
      <4> HIDE DEF Apartness, Before
      <4> QED BY <3>5, <4>2, <4>3
    <3> QED BY <3>1, <3>2, <3>3, <3>4, <3>5
  <2> QED BY <2>5, <2>6
<1>3. ASSUME AddStock PROVE Goal
  <2>1. readded' = readded /\ readded[s] \in Int
    <3>1. PICK m, k : /\ k = offset["product.restock"] + 1 /\ k \in DOMAIN Restocks /\ m = Restocks[k]
                      /\ offset["product.restock"] \in Nat
                      /\ readded' = (IF m.call \in added THEN Plus(readded, m.items) ELSE readded)
      BY <1>3, Counting
    <3>2. m.call \notin added
      BY <1>0, <3>1 DEF NoReplay
    <3> QED BY <3>1, <3>2 DEF Typed
  <2>2. redis'[s] \in Int /\ Coming(s)' \in Int /\ redis'[s] + Coming(s)' - readded'[s] = redis[s] + Coming(s) - readded[s]
    BY <1>3, AddStockMoves
  <2>3. Halfway(s)' = 0 /\ Halfway(s) = 0 /\ db' = db
    BY <1>3 DEF AddStock, Done, Halfway
  <2>4. Decrementing(s)' = Decrementing(s)
    BY <1>3, DecrementingSame DEF AddStock
  <2> QED BY <1>01, <2>1, <2>2, <2>3, <2>4
<1>4. ASSUME NEW t \in OrderTopics, consumer = "poll", HasMessage(t), ~ Released(HeadOf(t)), Release(HeadOf(t)),
             consumer' = t, UNCHANGED <<db, attempts, restock, topics, offset, added>>
      PROVE  Goal
  <2>1. Decrementing(s)' = Decrementing(s)
    BY <1>4, DecrementingSame
  <2>2. /\ Coming(s)' = Coming(s) /\ Halfway(s) = 0 /\ Halfway(s)' \in Nat
        /\ redis'[s] = redis[s] + Halfway(s)' /\ db' = db
    BY <1>4, ReleaseHalfway
  <2> QED BY <1>01, <2>1, <2>2
<1>5. ASSUME ReleaseCheckoutFailed PROVE Goal
  BY <1>4, <1>5 DEF ReleaseCheckoutFailed, OrderTopics
<1>6. ASSUME ReleaseCanceled PROVE Goal
  <2>1. CASE ~ Released(HeadOf("order.canceled"))
    BY <1>4, <1>6, <2>1 DEF ReleaseCanceled, OrderTopics
  <2>2. CASE Released(HeadOf("order.canceled"))
    <3>1. UNCHANGED <<redis, db, attempts, restock, topics, offset, added>> /\ consumer = "poll" /\ consumer' = "order.canceled"
      BY <1>6, <2>2 DEF ReleaseCanceled, Release
    <3>2. Halfway(s) = 0 /\ Halfway(s)' = Units(HeadOf("order.canceled").items, s)
      BY <3>1 DEF Halfway, HeadOf
    <3>3. Coming(s)' = Coming(s) /\ Decrementing(s)' = Decrementing(s)
      BY <3>1, DecrementingSame DEF Coming, Waiting, CallsFor, Upserted, Restocks
    <3>4. Units(HeadOf("order.canceled").items, s) \in Nat
      BY <1>6, HeadType, UnitsType DEF ReleaseCanceled, OrderTopics, Topics
    <3> QED BY <1>01, <1>6, <2>2, <3>1, <3>2, <3>3, <3>4
  <2> QED BY <2>1, <2>2
<1>7. ASSUME IncrementDb PROVE Goal
  <2>1. Halfway(s)' = 0 /\ Halfway(s) = Units(HeadOf(consumer).items, s)
    BY <1>7 DEF IncrementDb, Done, Halfway
  <2>2. HeadOf(consumer).items \in Seq(Lines) /\ db \in [Skus -> Int]
    BY <1>7, HeadType DEF IncrementDb, Typed, Offsets, OrderTopics, Topics
  <2>3. Plus(db, HeadOf(consumer).items)[s] = db[s] + Units(HeadOf(consumer).items, s)
    <3> DEFINE items == HeadOf(consumer).items
    <3> HIDE DEF items
    <3>1. items \in Seq(Lines)
      BY <2>2 DEF items
    <3>2. Plus(db, items)[s] = db[s] + Units(items, s)
      BY <2>2, <3>1, PlusType
    <3> QED BY <3>2 DEF items
  <2>4. db'[s] = db[s] + Halfway(s) /\ UNCHANGED <<redis, attempts, restock, topics, added>>
    BY <1>7, <2>1, <2>3 DEF IncrementDb
  <2>5. Decrementing(s)' = Decrementing(s) /\ Coming(s)' = Coming(s)
    BY <2>4, DecrementingSame DEF Coming, Waiting, CallsFor, Upserted, Restocks
  <2> QED BY <1>01, <2>1, <2>4, <2>5
<1>8. ASSUME UNCHANGED <<redis, db, attempts, restock, topics, added>>, Halfway(s)' = Halfway(s) PROVE Goal
  <2>1. Decrementing(s)' = Decrementing(s) /\ Coming(s)' = Coming(s)
    BY <1>8, DecrementingSame DEF Coming, Waiting, CallsFor, Upserted, Restocks
  <2> QED BY <1>01, <1>8, <2>1
<1>12. ASSUME IncrementFails PROVE Goal
  <2>1. UNCHANGED <<redis, db, attempts, restock, topics, added>> /\ Fault /\ consumer # "poll" /\ consumer' = "poll"
    BY <1>12 DEF IncrementFails
  <2>2. Decrementing(s)' = Decrementing(s) /\ Coming(s)' = Coming(s)
    BY <2>1, DecrementingSame DEF Coming, Waiting, CallsFor, Upserted, Restocks
  <2>3. Halfway(s)' = 0 /\ Halfway(s) = Units(HeadOf(consumer).items, s)
    BY <2>1 DEF Halfway
  <2>4. consumer \in OrderTopics /\ consumer \in Topics /\ HasMessage(consumer)
    BY <2>1 DEF Typed, Offsets, OrderTopics, Topics
  <2>5. HeadOf(consumer).items \in Carts \cup {<<>>}
    BY <2>4, HeadType DEF MessageType
  <2>6. Small(Halfway(s), s)
    BY <2>3, <2>5, SmallCart
  <2>7. Apartness = Before + Halfway(s)
    BY <1>01, <2>1, <2>2, <2>3
  <2>8. Apartness \in Int
    BY <1>01, <2>7
  <2> HIDE DEF Apartness, Before
  <2> QED BY <2>1, <2>6, <2>7, <2>8
<1> HIDE DEF Goal
<1>9. ASSUME UNCHANGED vars \/ \E id \in OrderIds \cup {Null} : KeyExpires(id) PROVE Goal
  BY <1>8, <1>9, HalfwaySame DEF vars, KeyExpires
<1>10. ASSUME NEW t \in Topics, CommitOffset(t) PROVE Goal
  BY <1>8, <1>10, HalfwaySame DEF CommitOffset
<1>11. ASSUME SkipCheckoutFailed \/ SkipEmptyCanceled PROVE Goal
  <2>1. Halfway(s)' = Halfway(s)
    BY <1>11 DEF SkipCheckoutFailed, SkipEmptyCanceled, Done, Halfway
  <2> QED BY <1>8, <1>11, <2>1 DEF SkipCheckoutFailed, SkipEmptyCanceled
<1>13. Goal
  BY <1>0, <1>1, <1>2, <1>3, <1>5, <1>6, <1>7, <1>9, <1>10, <1>11, <1>12 DEF Next, ConsumerStep
<1>14. Apart(s) = Before /\ Apart(s)' = Apartness
  BY DEF Apart
<1>15. Before \in Int
  BY <1>01
<1> HIDE DEF Before, Apartness
<1> QED BY <1>13, <1>14, <1>15 DEF Goal

(* Without a fault, the key of a cancellation is not there yet.            *)
LEMMA BalancedStep ==
  ASSUME Typed, Offsets, RestocksFit, KeysFresh, NoReplay, Balanced, [Next]_vars
  PROVE  Balanced'
<1> SUFFICES ASSUME NoFaults', NEW s \in Skus PROVE Apart(s)' = 0
  BY DEF Balanced
<1>0. NoFaults /\ ~ Fault /\ Apart(s) = 0
  BY FaultsStep DEF Balanced
<1>1. ASSUME ReleaseCanceled PROVE ~ Released(HeadOf("order.canceled"))
  <2>1. HeadOf("order.canceled") = Canceled[offset["order.canceled"] + 1] /\ offset["order.canceled"] + 1 \in DOMAIN Canceled
    BY <1>1, HeadType DEF ReleaseCanceled, HeadOf, Canceled, Topics
  <2>2. ~ Handled(offset["order.canceled"] + 1)
    BY <1>1 DEF Handled, ReleaseCanceled, Typed, Topics
  <2> QED BY <1>0, <2>1, <2>2 DEF KeysFresh, Released
<1>2. used'.crashes = 0 /\ used'.duplicates = 0
  BY DEF NoFaults
<1>3. Loses => Fault
  BY DEF Loses, RestockFails, LoseReservation
<1> QED BY <1>0, <1>1, <1>2, <1>3, ApartMoves

-----------------------------------------------------------------------------
(* What a fault costs.  A rolled-back checkout and a handler that fails    *)
(* after the release leave a key, or the message that will set it, without *)
(* the rows in the database: when the cancellation of that order is        *)
(* handled, Redis skips it.                                                *)

Marked(id) == id \in processed \/ \E i \in DOMAIN Failed : Failed[i].id = id
Settled(id) == \E i \in DOMAIN Canceled : Canceled[i].id = id /\ Handled(i)
Debtors == {id \in OrderIds : Marked(id) /\ ~ Settled(id)}

FaultsCount ==
  used.crashes = 0 /\ used.duplicates = 0 =>
    /\ IsFiniteSet(Debtors)
    /\ \A s \in Skus :
         LET largest == LargestCart(s)
         IN  /\ Apart(s) <= largest * used.faults
             /\ - Apart(s) <= largest * used.faults - largest * Cardinality(Debtors)

(* A settled order stays so, unless its handler fails.                     *)
LEMMA SettledMoves ==
  ASSUME Typed, Offsets, CanceledOnce, used.duplicates = 0, [Next]_vars, ~ Crash, NEW id, Settled(id), ~ Settled(id)'
  PROVE  IncrementFails /\ id = Canceled[offset["order.canceled"] + 1].id
<1>1. PICK i \in DOMAIN Canceled : Canceled[i].id = id /\ Handled(i)
  BY DEF Settled
<1>2. i \in DOMAIN Canceled' /\ Canceled'[i] = Canceled[i]
  BY <1>1, TopicsGrow DEF Canceled, Topics
<1>3. ~ Handled(i)'
  BY <1>1, <1>2 DEF Settled
<1>4. IncrementFails
  BY <1>1, <1>3, HandledMoves
<1>5. offset' = offset
  BY <1>4 DEF IncrementFails
<1>6. i = offset["order.canceled"] + 1
  BY <1>1, <1>3, <1>5 DEF Handled
<1> QED BY <1>1, <1>4, <1>6

(* An order is marked by a fault, or by the handler that settles it.       *)
LEMMA MarkedMoves ==
  ASSUME Typed, [Next]_vars, used'.duplicates = 0, NEW id \in OrderIds, Marked(id)', ~ Marked(id)
  PROVE  Settled(id)' \/ \E a \in Attempts : RollBackCheckout(a, id)
<1>1. \A t : ~ Redeliver(t)
  BY UsedGrows
<1>2. id # Null
  BY NullAssumption
<1>3. ASSUME NEW i \in DOMAIN Failed', Failed'[i].id = id
      PROVE  \E a \in Attempts : RollBackCheckout(a, id)
  <2>0. "order.checkout.failed" \in OrderTopics /\ "order.checkout.failed" \in Topics
    BY DEF OrderTopics, Topics
  <2>1. i \notin DOMAIN Failed
    BY <1>3, <2>0, TopicsGrow DEF Failed, Marked
  <2>2. PICK n : n = Failed'[i]
    OBVIOUS
  <2>3. n.attempt \in Attempts /\ RollBackCheckout(n.attempt, n.id)
    BY <1>1, <1>2, <1>3, <2>0, <2>1, <2>2, MessageNew DEF Failed
  <2> QED BY <1>3, <2>2, <2>3
<1>4. ASSUME id \in processed', id \notin processed PROVE Settled(id)'
  <2>1. ~ KeyExpires(id) /\ \A j : ~ KeyExpires(j)
    BY <1>4 DEF KeyExpires
  <2>2. PICK t \in OrderTopics : /\ consumer = "poll" /\ HasMessage(t) /\ Release(HeadOf(t)) /\ consumer' = t
                                 /\ UNCHANGED <<topics, offset>>
    BY <1>4, <2>1, KeySteps
  <2>3. id = HeadOf(t).id /\ offset[t] + 1 \in DOMAIN topics[t]
    BY <1>4, <2>2, HeadType DEF Release, OrderTopics, Topics
  <2>4. t # "order.checkout.failed"
    BY <2>3 DEF Marked, HeadOf, Failed
  <2>5. t = "order.canceled"
    BY <2>2, <2>4 DEF OrderTopics
  <2>6. PICK k : k = offset["order.canceled"] + 1
    OBVIOUS
  <2>7. Handled(k)'
    BY <2>2, <2>5, <2>6 DEF Handled
  <2>8. k \in DOMAIN Canceled' /\ Canceled'[k].id = id
    BY <2>2, <2>3, <2>5, <2>6 DEF Canceled, HeadOf
  <2> QED BY <2>7, <2>8 DEF Settled
<1> QED BY <1>3, <1>4 DEF Marked

(* A fault adds one debtor at most, unless it loses units, and nothing     *)
(* else does.                                                              *)
LEMMA DebtorsStep ==
  ASSUME Typed, Offsets, CanceledOnce, [Next]_vars, used'.crashes = 0, used'.duplicates = 0
  PROVE  /\ \E x : Debtors' \subseteq Debtors \cup {x}
         /\ ~ Fault \/ Loses => Debtors' \subseteq Debtors
         /\ ReleaseCanceled /\ Released(HeadOf("order.canceled")) =>
              \E x \in Debtors : Debtors' \subseteq Debtors \ {x}
<1>0. used.duplicates = 0 /\ ~ Crash
  <2>1. used.duplicates \in Nat /\ used'.duplicates >= used.duplicates
    BY UsedGrows DEF Kinds
  <2> QED BY <2>1, UsedGrows
<1>1. ASSUME NEW id \in Debtors', id \notin Debtors
      PROVE  \/ \E a \in Attempts : RollBackCheckout(a, id)
             \/ IncrementFails /\ id = Canceled[offset["order.canceled"] + 1].id
  <2>1. id \in OrderIds /\ Marked(id)' /\ ~ Settled(id)' /\ (~ Marked(id) \/ Settled(id))
    BY <1>1 DEF Debtors
  <2> QED BY <1>0, <2>1, SettledMoves, MarkedMoves
<1>2. ASSUME ~ Fault \/ Loses PROVE Debtors' \subseteq Debtors
  <2>1. ASSUME NEW a \in Attempts, NEW id, RollBackCheckout(a, id) PROVE ~ (~ Fault \/ Loses)
    <3>1. Fault
      BY <2>1 DEF RollBackCheckout
    <3>2. attempts[a].pc = "reserved" /\ attempts'[a].pc = "refused"
      BY <2>1, Ending
    <3>3. ~ RestockFails
      BY <3>2 DEF RestockFails
    <3>4. ASSUME NEW b \in Attempts, LoseReservation(b) PROVE FALSE
      <4>1. attempts' = [attempts EXCEPT ![b].pc = "lost"] /\ attempts \in [Attempts -> AttemptType]
        BY <3>4 DEF LoseReservation, Typed
      <4>2. attempts'[a].pc \in {"lost", "reserved"}
        BY <3>2, <4>1 DEF AttemptType
      <4> QED BY <3>2, <4>2
    <3> QED BY <3>1, <3>3, <3>4 DEF Loses
  <2>2. ASSUME IncrementFails PROVE ~ (~ Fault \/ Loses)
    <3>1. Fault /\ attempts' = attempts /\ restock' = restock
      BY <2>2 DEF IncrementFails
    <3>2. ~ RestockFails
      BY <3>1 DEF RestockFails
    <3>3. ASSUME NEW b \in Attempts, LoseReservation(b) PROVE FALSE
      <4>1. attempts' = [attempts EXCEPT ![b].pc = "lost"] /\ attempts[b] \in AttemptType /\ attempts[b].pc # "lost"
            /\ attempts \in [Attempts -> AttemptType]
        BY <3>3 DEF LoseReservation, Typed
      <4>2. attempts'[b].pc = "lost"
        BY <4>1 DEF AttemptType
      <4> QED BY <3>1, <4>1, <4>2
    <3> QED BY <3>1, <3>2, <3>3 DEF Loses
  <2> QED BY <1>1, <1>2, <2>1, <2>2
<1>3. \E x : Debtors' \subseteq Debtors \cup {x}
  <2>1. CASE IncrementFails
    <3>1. \A a \in Attempts : \A id : ~ RollBackCheckout(a, id)
      <4>1. IncrementFails => attempts' = attempts
        BY DEF IncrementFails
      <4> QED BY <2>1, <4>1, Ending
    <3> QED BY <1>1, <3>1
  <2>2. CASE ~ IncrementFails
    <3>1. ASSUME NEW a \in Attempts, NEW b \in Attempts, NEW x \in OrderIds, NEW y \in OrderIds,
                 RollBackCheckout(a, x), RollBackCheckout(b, y)
          PROVE  x = y
      <4>1. DOMAIN Failed = 1 .. Len(Failed) /\ Len(Failed) \in Nat /\ Failed \in Seq(MessageType) /\ "order.checkout.failed" \in Topics
            /\ topics \in [Topics -> Seq(MessageType \cup RestockType)]
        BY DEF Typed, Topics
      <4>2. Failed' = Failed \o <<Message(x, attempts[a].cart, a)>> /\ Failed' = Failed \o <<Message(y, attempts[b].cart, b)>>
        BY <3>1, <4>1 DEF RollBackCheckout, Publish, Failed
      <4>3. ASSUME NEW m, NEW n, NEW q \in Seq(MessageType), q \o <<m>> = q \o <<n>> PROVE m = n
        <5>1. (q \o <<m>>)[Len(q) + 1] = m /\ (q \o <<n>>)[Len(q) + 1] = n
          OBVIOUS
        <5> QED BY <4>3, <5>1
      <4>4. Message(x, attempts[a].cart, a) = Message(y, attempts[b].cart, b)
        BY <4>1, <4>2, <4>3
      <4> QED BY <4>4 DEF Message
    <3>2. Debtors' \subseteq OrderIds
      BY DEF Debtors
    <3> QED BY <1>1, <2>2, <3>1, <3>2
  <2> QED BY <2>1, <2>2
<1>4. ASSUME ReleaseCanceled, Released(HeadOf("order.canceled"))
      PROVE  \E x \in Debtors : Debtors' \subseteq Debtors \ {x}
  <2>a. PICK k, x : k = offset["order.canceled"] + 1 /\ x = Canceled[k].id
    OBVIOUS
  <2>b. HasMessage("order.canceled") /\ "order.canceled" \in Topics /\ consumer = "poll"
    BY <1>4 DEF ReleaseCanceled, Topics
  <2>c. offset["order.canceled"] + 1 \in DOMAIN topics["order.canceled"] /\ offset["order.canceled"] \in Nat
    BY <2>b, HeadType DEF Typed
  <2>0. k \in DOMAIN Canceled /\ HeadOf("order.canceled") = Canceled[k] /\ k \in Nat
    BY <2>a, <2>c DEF HeadOf, Canceled
  <2>1. x \in OrderIds /\ x \in processed
    BY <1>4, <2>0, <2>a DEF CanceledOnce, Released
  <2>2. ~ Settled(x)
    <3>1. ASSUME NEW i \in DOMAIN Canceled, Canceled[i].id = x PROVE i = k
      BY <1>0, <2>0, <2>a, <3>1 DEF CanceledOnce
    <3>2. ~ Handled(k)
      BY <2>a, <2>b, <2>c DEF Handled
    <3> QED BY <3>1, <3>2 DEF Settled
  <2>3. UNCHANGED <<topics, offset>> /\ consumer' = "order.canceled"
    BY <1>4 DEF ReleaseCanceled
  <2>4. Handled(k)' /\ k \in DOMAIN Canceled' /\ Canceled'[k].id = x
    BY <2>0, <2>3, <2>a DEF Handled, Canceled
  <2>5. Settled(x)'
    BY <2>4 DEF Settled
  <2>6. x \in Debtors /\ x \notin Debtors'
    BY <2>1, <2>2, <2>5 DEF Debtors, Marked
  <2>7. ~ Fault
    <3>1. used' = used
      BY <1>4 DEF ReleaseCanceled
    <3>2. used.faults \in Nat
      BY UsedGrows DEF Kinds
    <3> QED BY <3>1, <3>2, UsedGrows
  <2> QED BY <1>2, <2>6, <2>7
<1> QED BY <1>2, <1>3, <1>4

(* The largest cart is at least as large as any.                           *)
LEMMA LargestType ==
  ASSUME IsFiniteSet(Carts), NEW s \in Skus
  PROVE  /\ LargestCart(s) \in Nat
         /\ \A n : Small(n, s) => n <= LargestCart(s)
<1> DEFINE f == [cart \in Carts |-> Units(cart, s)]
           S == {1} \cup {Units(cart, s) : cart \in Carts}
<1>1. \A cart \in Carts : Units(cart, s) \in Nat
  BY CartType, UnitsType
<1>2. {Units(cart, s) : cart \in Carts} = {f[cart] : cart \in Carts} /\ f = [cart \in Carts |-> f[cart]]
  OBVIOUS
<1>3. IsFiniteSet({Units(cart, s) : cart \in Carts})
  <2> HIDE DEF f
  <2> QED BY <1>2, ImageFinite
<1>4. IsFiniteSet(S)
  BY <1>3, FS_Singleton, FS_Union
<1>5. S # {} /\ \A x \in S : x \in Nat
  BY <1>1
<1>6. LargestCart(s) = Max(S)
  BY DEF LargestCart
<1>7. Max(S) \in S /\ \A x \in S : x <= Max(S)
  <2> HIDE DEF S
  <2> QED BY <1>4, <1>5, Largest
<1>8. ASSUME NEW n, Small(n, s) PROVE n <= Max(S)
  <2>1. n \in Nat /\ (n = 0 \/ n \in S)
    BY <1>8 DEF Small
  <2> HIDE DEF S
  <2> QED BY <1>5, <1>7, <2>1
<1> HIDE DEF S
<1> QED BY <1>5, <1>6, <1>7, <1>8

(* A set that grows by one element at most.                                *)
LEMMA OneMore ==
  ASSUME NEW S, NEW T, NEW x, IsFiniteSet(S), T \subseteq S \cup {x}
  PROVE  /\ IsFiniteSet(T) /\ Cardinality(T) \in Nat /\ Cardinality(S) \in Nat
         /\ Cardinality(T) <= Cardinality(S) + 1
<1>1. IsFiniteSet(S \cup {x}) /\ Cardinality(S \cup {x}) <= Cardinality(S) + 1 /\ Cardinality(S) \in Nat
  <2>1. Cardinality(S) \in Nat
    BY FS_CardinalityType
  <2>2. IsFiniteSet(S \cup {x}) /\ Cardinality(S \cup {x}) = (IF x \in S THEN Cardinality(S) ELSE Cardinality(S) + 1)
    BY FS_AddElement
  <2> QED BY <2>1, <2>2
<1>2. IsFiniteSet(T) /\ Cardinality(T) <= Cardinality(S \cup {x}) /\ Cardinality(T) \in Nat
  BY <1>1, FS_Subset, FS_CardinalityType
<1>3. Cardinality(S \cup {x}) \in Nat
  BY <1>1, FS_CardinalityType
<1> QED BY <1>1, <1>2, <1>3

(* Multiples of a number.                                                  *)
LEMMA Multiples ==
  ASSUME NEW l \in Nat, NEW n \in Nat, NEW m \in Nat
  PROVE  /\ l * n \in Nat /\ l * (n + 1) = l * n + l
         /\ m <= n => l * m <= l * n
<1>1. l * n \in Nat /\ l * (n + 1) = l * n + l
  OBVIOUS
<1>2. ASSUME m <= n PROVE l * m <= l * n
  <2>1. PICK k \in Nat : n = m + k
    <3>1. n - m \in Nat /\ n = m + (n - m)
      BY <1>2
    <3> QED BY <3>1
  <2>2. l * n = l * m + l * k /\ l * k \in Nat /\ l * m \in Nat
    BY <2>1
  <2> QED BY <2>2
<1> QED BY <1>1, <1>2

(* Every step keeps the count.                                             *)
LEMMA FaultsCountStep ==
  ASSUME IsFiniteSet(Carts), Typed, Offsets, RestocksFit, NoReplay, CanceledOnce, FaultsCount, [Next]_vars
  PROVE  FaultsCount'
<1> DEFINE D == Cardinality(Debtors)
           E == Cardinality(Debtors')
<1> SUFFICES ASSUME used'.crashes = 0, used'.duplicates = 0
             PROVE  /\ IsFiniteSet(Debtors')
                    /\ \A s \in Skus :
                         /\ Apart(s)' <= LargestCart(s) * used'.faults
                         /\ - Apart(s)' <= LargestCart(s) * used'.faults - LargestCart(s) * E
  BY DEF FaultsCount, LargestCart
<1>0. /\ used.crashes = 0 /\ used.duplicates = 0 /\ used.faults \in Nat /\ used'.faults \in Nat
      /\ IsFiniteSet(Debtors)
  <2>1. /\ used.crashes \in Nat /\ used'.crashes >= used.crashes
        /\ used.duplicates \in Nat /\ used'.duplicates >= used.duplicates
        /\ used.faults \in Nat /\ used'.faults \in Nat
    BY UsedGrows DEF Kinds
  <2>2. used.crashes = 0 /\ used.duplicates = 0
    BY <2>1
  <2> QED BY <2>1, <2>2 DEF FaultsCount
<1>1. /\ IsFiniteSet(Debtors') /\ E \in Nat /\ D \in Nat /\ E <= D + 1
      /\ ~ Fault \/ Loses => E <= D
      /\ ReleaseCanceled /\ Released(HeadOf("order.canceled")) => E + 1 <= D
  <2>1. IsFiniteSet(Debtors') /\ E \in Nat /\ D \in Nat /\ E <= D + 1
    BY <1>0, DebtorsStep, OneMore
  <2>2. ~ Fault \/ Loses => E <= D
    BY <1>0, DebtorsStep, FS_Subset
  <2>3. ASSUME NEW x \in Debtors, Debtors' \subseteq Debtors \ {x} PROVE E + 1 <= D
    <3>1. IsFiniteSet(Debtors \ {x}) /\ Cardinality(Debtors \ {x}) = D - 1
      BY <1>0, FS_RemoveElement
    <3>2. E <= D - 1
      BY <2>3, <3>1, FS_Subset
    <3> QED BY <2>1, <3>2
  <2> QED BY <2>1, <2>2, <2>3, DebtorsStep
<1>2. ASSUME NEW s \in Skus
      PROVE  /\ Apart(s)' <= LargestCart(s) * used'.faults
             /\ - Apart(s)' <= LargestCart(s) * used'.faults - LargestCart(s) * E
  <2>1. PICK l \in Nat : l = LargestCart(s) /\ \A n : Small(n, s) => n <= l
    BY LargestType
  <2>2. PICK e \in Nat, d \in Nat, f \in Nat, g \in Nat :
          e = E /\ d = D /\ f = used.faults /\ g = used'.faults
    BY <1>0, <1>1
  <2>3. PICK x \in Int, y \in Int : x = Apart(s) /\ y = Apart(s)'
    BY ApartMoves
  <2>4. x <= l * f /\ - x <= l * f - l * d
    BY <1>0, <2>1, <2>2, <2>3 DEF FaultsCount
  <2>5. /\ l * f \in Nat /\ l * g \in Nat /\ l * e \in Nat /\ l * d \in Nat
        /\ l * (f + 1) = l * f + l /\ l * (e + 1) = l * e + l /\ l * (d + 1) = l * d + l
        /\ e <= d => l * e <= l * d
        /\ e <= d + 1 => l * e <= l * d + l
        /\ e + 1 <= d => l * e + l <= l * d
    <3>1. d + 1 \in Nat /\ e + 1 \in Nat
      OBVIOUS
    <3> QED BY <3>1, Multiples
  <2>6. e <= d + 1 /\ (~ Fault \/ Loses => e <= d) /\ (Fault => g = f + 1) /\ (~ Fault => g = f)
    BY <1>1, <2>2, UsedGrows
  <2>7. Fault => l * g = l * f + l
    BY <2>5, <2>6
  <2>8. ~ Fault => l * g = l * f
    BY <2>6
  <2>9. y <= l * g /\ - y <= l * g - l * e
    <3>1. CASE y = x
      BY <2>4, <2>5, <2>6, <2>7, <2>8, <3>1
    <3>2. ASSUME Fault, NEW n, Small(n, s), y = x + n PROVE y <= l * g /\ - y <= l * g - l * e
      <4>1. n \in Nat /\ n <= l
        BY <2>1, <3>2 DEF Small
      <4>2. l * g = l * f + l /\ l * e <= l * d + l
        BY <2>5, <2>6, <2>7, <3>2
      <4>3. PICK P \in Nat, Q \in Nat, R \in Nat, T \in Nat : P = l * f /\ Q = l * d /\ R = l * e /\ T = l * g
        BY <2>5
      <4>4. x <= P /\ - x <= P - Q /\ T = P + l /\ R <= Q + l
        BY <2>4, <4>2, <4>3
      <4>5. y <= T /\ - y = - x - n
        BY <3>2, <4>1, <4>4
      <4>6. - y <= T - R
        BY <4>1, <4>4, <4>5
      <4> QED BY <4>3, <4>5, <4>6
    <3>4. ASSUME Loses, NEW n, Small(n, s), y = x - n PROVE y <= l * g /\ - y <= l * g - l * e
      <4>0. Fault
        BY <3>4 DEF Loses, RestockFails, LoseReservation
      <4>1. n \in Nat /\ n <= l
        BY <2>1, <3>4 DEF Small
      <4>2. l * g = l * f + l /\ l * e <= l * d
        BY <2>5, <2>6, <2>7, <3>4, <4>0
      <4>3. PICK P \in Nat, Q \in Nat, R \in Nat, T \in Nat : P = l * f /\ Q = l * d /\ R = l * e /\ T = l * g
        BY <2>5
      <4>4. x <= P /\ - x <= P - Q /\ T = P + l /\ R <= Q
        BY <2>4, <4>2, <4>3
      <4>5. y <= T /\ - y = n - x
        BY <3>4, <4>1, <4>4
      <4>6. - y <= T - R
        BY <4>1, <4>4, <4>5
      <4> QED BY <4>3, <4>5, <4>6
    <3>3. ASSUME ReleaseCanceled, Released(HeadOf("order.canceled")), y = x - Units(HeadOf("order.canceled").items, s)
          PROVE  y <= l * g /\ - y <= l * g - l * e
      <4>1. HeadOf("order.canceled").items \in Carts \cup {<<>>}
        BY <3>3, HeadType DEF ReleaseCanceled, MessageType, OrderTopics, Topics
      <4>2. PICK n \in Nat : n = Units(HeadOf("order.canceled").items, s) /\ n <= l
        BY <2>1, <4>1, SmallCart DEF Small
      <4>3. l * e + l <= l * d
        BY <1>1, <2>2, <2>5, <3>3
      <4>4. l * g = l * f \/ l * g = l * f + l
        BY <2>7, <2>8
      <4> QED BY <2>4, <2>5, <3>3, <4>2, <4>3, <4>4
    <3> QED BY <1>0, <2>3, <3>1, <3>2, <3>3, <3>4, ApartMoves
  <2> QED BY <2>1, <2>2, <2>3, <2>9
<1> QED BY <1>1, <1>2

-----------------------------------------------------------------------------
(* The theorems.                                                           *)

IInv ==
  /\ Typed /\ Offsets
  /\ MessagesFit /\ RestocksFit /\ GivenEnded /\ OneId
  /\ KeysKept /\ NoReplay /\ NothingCountedTwice
  /\ Accounts
  /\ Ordered /\ CanceledOnce /\ KeysFresh /\ KeysEnded /\ Balanced

(* The invariant holds at the start.                                       *)
LEMMA InitIInv == Init => IInv
<1> SUFFICES ASSUME Init PROVE IInv
  OBVIOUS
<1> USE DEF Init
<1>1. Typed
  <2>1. <<>> \in Seq(MessageType \cup RestockType) /\ <<>> \in Seq(MessageType) /\ <<>> \in Seq(RestockType)
    OBVIOUS
  <2>2. InitialStock \in Int
    BY NumbersAssumption
  <2>3. attempts \in [Attempts -> AttemptType]
    BY DEF AttemptType, Pcs
  <2>4. /\ redis \in [Skus -> Int] /\ db \in [Skus -> Int] /\ stocked \in [Skus -> Int]
        /\ again \in [Skus -> Int] /\ readded \in [Skus -> Int] /\ beyond \in [Skus -> Int]
    BY <2>2
  <2>5. /\ topics \in [Topics -> Seq(MessageType \cup RestockType)]
        /\ Canceled \in Seq(MessageType) /\ Failed \in Seq(MessageType) /\ Restocks \in Seq(RestockType)
    BY <2>1 DEF Topics, Canceled, Failed, Restocks
  <2>6. used \in UsedType
    BY DEF UsedType
  <2>7. offset \in [Topics -> Nat] /\ committed \in [Topics -> Nat]
    OBVIOUS
  <2>8. orders \in [OrderIds -> {"draft", "placed", "canceled"}] /\ processed \subseteq OrderIds \cup {Null}
        /\ restock \in {NoRestock} \cup [sku : Skus] /\ consumer \in {"poll"} \cup OrderTopics
        /\ given \subseteq Attempts /\ added \subseteq Nat
    OBVIOUS
  <2> QED BY <2>3, <2>4, <2>5, <2>6, <2>7, <2>8 DEF Typed
<1>2. \A t \in Topics : Len(topics[t]) = 0 /\ DOMAIN topics[t] = {}
  <2>1. \A t \in Topics : topics[t] = <<>>
    OBVIOUS
  <2>2. Len(<<>>) = 0 /\ DOMAIN <<>> = {}
    OBVIOUS
  <2> QED BY <2>1, <2>2
<1>3. Offsets
  BY <1>2 DEF Offsets, Restocks, Topics
<1>4. MessagesFit /\ RestocksFit /\ GivenEnded /\ OneId /\ KeysKept
  BY <1>2 DEF MessagesFit, RestocksFit, GivenEnded, OneId, KeysKept, OrderTopics, Topics, Failed, Restocks
<1>5. NoReplay /\ NothingCountedTwice
  BY <1>2 DEF NoReplay, NothingCountedTwice, Topics, Restocks
<1>9. ASSUME NEW s \in Skus PROVE Coming(s) = 0
  <2>1. Waiting(s) = {}
    <3>1. DOMAIN Restocks = {}
      BY <1>2 DEF Restocks, Topics
    <3> QED BY <3>1 DEF Waiting, CallsFor
  <2> QED BY <2>1, UpsertedOne, FS_EmptySet DEF Coming, Upserted
<1>6. ASSUME NEW s \in Skus PROVE redis[s] + Out(s) + Coming(s) <= stocked[s] + Extra(s)
  <2> DEFINE f == [a \in Attempts |-> Taken(a, s)]
  <2>1. \A a \in Attempts : f[a] = 0
    BY DEF Taken
  <2>2. Out(s) = SumFunctionOnSet(f, Attempts)
    BY DEF Out
  <2> HIDE DEF f
  <2>3. Out(s) = 0
    BY <2>1, <2>2, SumZero, AttemptsAssumption
  <2>6. redis[s] = InitialStock /\ stocked[s] = InitialStock /\ Extra(s) = 0 /\ InitialStock \in Nat
    BY NumbersAssumption DEF Extra
  <2> QED BY <2>3, <1>9, <2>6
<1>7. Ordered /\ CanceledOnce /\ KeysFresh /\ KeysEnded
  BY <1>2 DEF Ordered, CanceledOnce, KeysFresh, KeysEnded, Canceled, Failed, Topics
<1>8. ASSUME NEW s \in Skus PROVE Apart(s) = 0
  <2> DEFINE f == [a \in Attempts |-> Pending(a, s)]
  <2>1. \A a \in Attempts : f[a] = 0
    BY DEF Pending
  <2>2. Decrementing(s) = SumFunctionOnSet(f, Attempts)
    BY DEF Decrementing
  <2> HIDE DEF f
  <2>3. Decrementing(s) = 0
    BY <2>1, <2>2, SumZero, AttemptsAssumption
  <2>4. db[s] = InitialStock /\ redis[s] = InitialStock /\ InitialStock \in Nat /\ Halfway(s) = 0
    BY NumbersAssumption DEF Halfway
  <2> QED BY <2>3, <2>4, <1>9 DEF Apart
<1> QED BY <1>1, <1>3, <1>4, <1>5, <1>6, <1>7, <1>8 DEF IInv, Accounts, Balanced

(* Every step keeps it.                                                    *)
LEMMA StepIInv == IInv /\ [Next]_vars => IInv'
BY TypedStep, OffsetsStep, FitStep, RestocksFitStep, GivenStep, OneIdStep, KeysStep, NoReplayStep, CountedStep, AccountsStep,
   OrderedStep, CanceledStep, FreshStep, KeysEndedStep, BalancedStep
   DEF IInv

(* The inductive invariant holds in every state.                           *)
THEOREM Invariant == Spec => []IInv
BY InitIInv, StepIInv, PTL DEF Spec

(* The counters, rows, checkouts, orders and offsets have their types: a   *)
(* handler always works on a message its topic holds, and no offset is     *)
(* beyond the end of its topic.                                            *)
THEOREM TypeCorrect == Spec => []TypeOK
<1>1. IInv => TypeOK
  BY DEF IInv, Typed, TypeOK, Offsets, AttemptType, Pcs, OrderTopics, Topics
<1> QED BY <1>1, Invariant, PTL

(* RELEASE_STOCK_SCRIPT gives no reservation back twice while no           *)
(* idempotency key expires, although a refused checkout is published twice,*)
(* connectors publish again, handlers that fail run again and crashes take *)
(* the offset back; ADD_STOCK_SCRIPT counts no restock twice without       *)
(* crashes and duplicates.                                                 *)
THEOREM CountedOnce == Spec => []NothingCountedTwice
<1>1. IInv => NothingCountedTwice
  BY DEF IInv
<1> QED BY <1>1, Invariant, PTL

(* What Redis offers and checkouts hold was in stock once, or is counted   *)
(* by a history.                                                           *)
NoneInvented == \A s \in Skus : redis[s] + Held(s) <= stocked[s] + Extra(s)

(* The accounts bound what Redis offers and checkouts hold.                *)
LEMMA AccountsAdd == IInv => NoneInvented
<1> SUFFICES ASSUME IInv, NEW s \in Skus PROVE redis[s] + Held(s) <= stocked[s] + Extra(s)
  BY DEF NoneInvented
<1>0. again[s] \in Int /\ readded[s] \in Int /\ beyond[s] \in Int /\ redis[s] \in Int /\ stocked[s] \in Int
  BY DEF IInv, Typed
<1>1. Extra(s) \in Int /\ Out(s) \in Nat /\ Coming(s) \in Nat /\ redis[s] \in Int /\ stocked[s] \in Int
  BY <1>0, OutType, WaitingFinite DEF IInv, Extra
<1>2. redis[s] + Out(s) + Coming(s) <= stocked[s] + Extra(s)
  BY DEF IInv, Accounts
<1> QED BY <1>1, <1>2, HeldIsOut DEF IInv

(* What Redis offers and what checkouts hold never exceeds what was ever   *)
(* in stock, the restocks a replay counted again, the reservations an      *)
(* expired key gave back again and the rows of canceled orders beyond      *)
(* their reservations, for any carts, repeated lines included, and however *)
(* often connectors publish again, handlers fail and processes crash.      *)
THEOREM UnitsAreReal == Spec => []NoneInvented
BY Invariant, AccountsAdd, PTL

(* And no counter is taken below zero by carts that name no product twice, *)
(* the ones for which the script's check is enough.                        *)
THEOREM NoneOversold ==
  ASSUME DistinctLines
  PROVE  Spec => []NotOversold
<1>1. Init => RedisNeverNegative
  BY NumbersAssumption DEF Init, RedisNeverNegative
<1>2. IInv /\ RedisNeverNegative /\ [Next]_vars => RedisNeverNegative'
  BY NonNegativeStep DEF IInv
<1>3. IInv /\ RedisNeverNegative => NotOversold
  BY AccountsAdd DEF NotOversold, NoneInvented
<1> QED BY <1>1, <1>2, <1>3, Invariant, PTL DEF Spec

(* When nothing is under way, the copies differ by what faults have done.  *)
LEMMA AtRest ==
  ASSUME IInv, Quiet, NEW s \in Skus
  PROVE  redis[s] \in Int /\ db[s] \in Int /\ Apart(s) = redis[s] - db[s]
<1> USE DEF IInv
<1> DEFINE f == [a \in Attempts |-> Pending(a, s)]
<1>1. \A a \in Attempts : f[a] = 0
  BY DEF Pending, Quiet
<1>2. Decrementing(s) = SumFunctionOnSet(f, Attempts)
  BY DEF Decrementing
<1> HIDE DEF f
<1>3. Decrementing(s) = 0
  BY <1>1, <1>2, SumZero, AttemptsAssumption
<1>4. Waiting(s) = {}
  <2>1. "product.restock" \in Topics /\ ~ HasMessage("product.restock")
    BY DEF Topics, Quiet
  <2>2. Len(Restocks) \in Nat /\ DOMAIN Restocks = 1 .. Len(Restocks) /\ offset["product.restock"] \in Nat
    BY <2>1 DEF Typed
  <2>3. \A i \in DOMAIN Restocks : i <= offset["product.restock"]
    BY <2>1, <2>2 DEF HasMessage, Restocks
  <2>4. \A i \in DOMAIN Restocks : Restocks[i].call \in added
    BY <2>3 DEF RestocksFit
  <2> QED BY <2>4 DEF Waiting, CallsFor
<1>5. Coming(s) = 0
  BY <1>4, UpsertedOne, FS_EmptySet DEF Coming, Upserted, Quiet
<1>6. Halfway(s) = 0 /\ redis[s] \in Int /\ db[s] \in Int
  BY DEF Halfway, Quiet, Typed
<1> QED BY <1>3, <1>5, <1>6 DEF Apart

(* Without faults, crashes and duplicates, whenever nothing is under way,  *)
(* the counters and the rows agree, and the rows of every canceled order   *)
(* are back, whichever they are and whatever keys expire: what one copy is *)
(* ahead of the other is what checkouts, restocks and the handler at work  *)
(* have still to do, and no key of an order is there before the message of *)
(* its cancellation has been handled.                                      *)
THEOREM CopiesSettle == Spec => []RestsInOrder
<1>1. ASSUME IInv PROVE RestsInOrder
  <2> SUFFICES ASSUME used.faults = 0, used.crashes = 0, used.duplicates = 0, Quiet
               PROVE  CopiesAgree /\ CanceledUnitsAreBack
    BY DEF RestsInOrder
  <2> USE <1>1 DEF IInv
  <2>0. NoFaults
    BY DEF NoFaults
  <2>1. ASSUME NEW s \in Skus PROVE redis[s] = db[s]
    <3>1. Apart(s) = 0
      BY <2>0 DEF Balanced
    <3> QED BY <1>1, <3>1, AtRest
  <2>2. CopiesAgree
    BY <2>1 DEF CopiesAgree, Typed
  <2>3. ASSUME NEW i \in DOMAIN Canceled, Canceled[i].items # <<>> PROVE Canceled[i].attempt \in given
    <3>1. Handled(i)
      <4>1. "order.canceled" \in Topics /\ ~ HasMessage("order.canceled")
        BY DEF Topics, Quiet
      <4>2. Len(Canceled) \in Nat /\ i \in 1 .. Len(Canceled) /\ offset["order.canceled"] \in Nat
        BY <4>1 DEF Typed
      <4> QED BY <4>1, <4>2 DEF HasMessage, Canceled, Handled
    <3> QED BY <2>0, <2>3, <3>1 DEF KeysFresh
  <2> QED BY <2>2, <2>3 DEF CanceledUnitsAreBack, Canceled
<1> QED BY <1>1, Invariant, PTL

(* Without crashes and duplicates, for any finite set of carts, a fault    *)
(* drives the two copies apart by at most one cart: the reservation that   *)
(* was lost, the release that failed halfway, the rolled-back checkout     *)
(* whose key makes Redis skip the cancellation of the same draft.  Each    *)
(* order that Redis will skip is the debt of one fault of its own, and is  *)
(* paid once: nothing that follows from a fault adds to it.                *)
THEOREM FaultsAreBounded ==
  ASSUME IsFiniteSet(Carts)
  PROVE  Spec => []FaultsCostOneCart
<1>1. Init => FaultsCount
  <2> SUFFICES ASSUME Init PROVE IsFiniteSet(Debtors) /\ \A s \in Skus : Apart(s) = 0 /\ used.faults = 0 /\ Cardinality(Debtors) = 0
    <3>1. \A s \in Skus : LargestCart(s) * 0 = 0
      BY LargestType
    <3>2. - 0 <= 0 - 0 /\ 0 <= 0
      OBVIOUS
    <3> QED BY <3>1, <3>2 DEF FaultsCount
  <2>1. processed = {} /\ Failed = <<>> /\ used.faults = 0
    BY DEF Init, Failed, Topics
  <2>2. Debtors = {}
    BY <2>1 DEF Debtors, Marked
  <2>3. \A s \in Skus : Apart(s) = 0
    <3>1. NoFaults
      BY DEF Init, NoFaults
    <3> QED BY <3>1, InitIInv DEF IInv, Balanced
  <2> QED BY <2>1, <2>2, <2>3, FS_EmptySet
<1>2. IInv /\ FaultsCount /\ [Next]_vars => FaultsCount'
  BY FaultsCountStep DEF IInv
<1>3. ASSUME IInv, FaultsCount PROVE FaultsCostOneCart
  <2> SUFFICES ASSUME used.crashes = 0, used.duplicates = 0, Quiet, NEW s \in Skus
               PROVE  /\ redis[s] - db[s] <= used.faults * LargestCart(s)
                      /\ db[s] - redis[s] <= used.faults * LargestCart(s)
    BY DEF FaultsCostOneCart
  <2>1. redis[s] \in Int /\ db[s] \in Int /\ Apart(s) = redis[s] - db[s]
    BY <1>3, AtRest
  <2>2. PICK l \in Nat : l = LargestCart(s)
    BY LargestType
  <2>3. PICK d \in Nat : d = Cardinality(Debtors)
    BY <1>3, FS_CardinalityType DEF FaultsCount
  <2>4. PICK f \in Nat : f = used.faults
    BY <1>3 DEF IInv, Typed, UsedType
  <2>5. Apart(s) <= l * f /\ - Apart(s) <= l * f - l * d
    BY <1>3, <2>2, <2>3, <2>4 DEF FaultsCount
  <2>6. l * d \in Nat /\ l * f \in Nat /\ f * l = l * f
    BY Multiples
  <2>7. - Apart(s) = db[s] - redis[s]
    BY <2>1
  <2>8. - Apart(s) <= l * f
    BY <2>1, <2>5, <2>6
  <2> QED BY <2>1, <2>2, <2>4, <2>5, <2>6, <2>7, <2>8
<1> QED BY <1>1, <1>2, <1>3, Invariant, PTL DEF Spec
=====
