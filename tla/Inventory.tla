----------------------------- MODULE Inventory -----------------------------
(***************************************************************************)
(* The inventory service with its two copies of the stock: the counters    *)
(* inventory:product:<sku> in Redis, which decide whether a checkout may   *)
(* go on, and the stockQuantity column in the database.  Every operation   *)
(* changes one copy first and the other in a later step, or by way of a    *)
(* Kafka message.  The gateway and the order service appear as far as they *)
(* decide what becomes of a reservation.                                   *)
(***************************************************************************)
EXTENDS Integers, Sequences, FiniteSets, FiniteSetsExt

CONSTANTS
  Skus,          \* product variants
  Attempts,      \* checkouts a client asks the gateway for, one cart each
  OrderIds,      \* orders that are drafts to begin with
  Carts,         \* item lists a client may send: sequences of [sku, quantity];
                 \* a request with none fails before the script
  Null,          \* the order id of a checkout that failed before it had one
  InitialStock,  \* units of each product in both copies to begin with
  MaxRestocks,   \* bound: restock calls
  MaxFaults,     \* bound: database errors and clients or gateways that go away
  MaxCrashes,    \* bound: crashes of the inventory process
  MaxExpiries,   \* bound: idempotency keys whose hour passes
  MaxDuplicates, \* bound: restarts of a connector that publish messages again
  MaxMishaps     \* bound: faults, crashes, expiries and duplicates together

ASSUME NullAssumption == Null \notin OrderIds \cup Skus
ASSUME AttemptsAssumption == IsFiniteSet(Attempts)
ASSUME CartsAssumption ==
  Carts \subseteq Seq([sku : Skus, quantity : Nat \ {0}]) \ {<<>>}
ASSUME NumbersAssumption ==
  {InitialStock, MaxRestocks, MaxFaults, MaxCrashes, MaxExpiries, MaxDuplicates,
   MaxMishaps} \subseteq Nat

VARIABLES
  redis,      \* redis[s]: the counter in Redis
  processed,  \* order ids whose key inventory:processed:<id> exists
  db,         \* db[s]: stockQuantity
  attempts,   \* attempts[a]: how far checkout a has got, the cart it reserved, its order
  orders,     \* orders[id]: "draft", "placed" or "canceled"
  restock,    \* the restock call in flight, or NoRestock
  topics,     \* topics[t]: the messages of Kafka topic t
  offset,     \* offset[t]: how many of them the running consumer has handled
  committed,  \* committed[t]: the consumer group's committed offset
  consumer,   \* "poll", or the topic whose handler is between Redis and database
  stocked,    \* history: stocked[s] units were ever in stock
  given,      \* history: attempts whose reservation Redis has taken back
  added,      \* history: restock calls Redis has counted
  again,      \* history: again[s] units of reservations were given back a second time
  readded,    \* history: readded[s] units of restocks were counted a second time
  beyond,     \* history: beyond[s] units were given back that nobody had reserved
  used        \* how much of each bound is used up

stockVars == <<redis, processed, db>>
kafkaVars == <<topics, offset, committed, consumer>>
historyVars == <<stocked, given, added, again, readded, beyond>>
vars == <<redis, processed, db, attempts, orders, restock, topics, offset, committed,
          consumer, stocked, given, added, again, readded, beyond, used>>

Topics == {"order.canceled", "order.checkout.failed", "product.restock"}
NoRestock == [sku |-> Null]

(* A message names an order id and an item list, as its payload does, and  *)
(* the attempt or restock call it comes from, which the payload does not.  *)
Message(id, cart, a) == [id |-> id, items |-> cart, attempt |-> a]
RestockMessage(s, call) == [items |-> <<[sku |-> s, quantity |-> 1]>>, call |-> call]

Units(cart, s) ==
  MapThenSumSet(LAMBDA i : IF cart[i].sku = s THEN cart[i].quantity ELSE 0, DOMAIN cart)

Plus(stock, cart) == [s \in Skus |-> stock[s] + Units(cart, s)]
Minus(stock, cart) == [s \in Skus |-> stock[s] - Units(cart, s)]

HasMessage(t) == offset[t] < Len(topics[t])
HeadOf(t) == topics[t][offset[t] + 1]
Publish(t, messages) == topics' = [topics EXCEPT ![t] = @ \o messages]
Spend(kind, bound) == used[kind] < bound /\ used' = [used EXCEPT ![kind] = @ + 1]
Mishap(kind, bound) ==
  /\ used.faults + used.crashes + used.expiries + used.duplicates < MaxMishaps
  /\ Spend(kind, bound)
Fault == Mishap("faults", MaxFaults)

TypeOK ==
  /\ redis \in [Skus -> Int]
  /\ processed \subseteq OrderIds \cup {Null}
  /\ db \in [Skus -> Int]
  /\ attempts \in [Attempts ->
       [pc : {"new", "decrement", "reserved", "ordered", "canceled", "refused", "outOfStock", "lost"},
        cart : Carts \cup {<<>>}, order : OrderIds \cup {Null}]]
  /\ orders \in [OrderIds -> {"draft", "placed", "canceled"}]
  /\ restock \in {NoRestock} \cup [sku : Skus]
  /\ \A t \in Topics : committed[t] <= offset[t] /\ offset[t] <= Len(topics[t])
  /\ consumer \in {"poll"} \cup Topics
  /\ consumer # "poll" => HasMessage(consumer)
  /\ given \subseteq Attempts

Init ==
  /\ redis = [s \in Skus |-> InitialStock]
  /\ processed = {}
  /\ db = [s \in Skus |-> InitialStock]
  /\ attempts = [a \in Attempts |-> [pc |-> "new", cart |-> <<>>, order |-> Null]]
  /\ orders = [id \in OrderIds |-> "draft"]
  /\ restock = NoRestock
  /\ topics = [t \in Topics |-> <<>>]
  /\ offset = [t \in Topics |-> 0]
  /\ committed = [t \in Topics |-> 0]
  /\ consumer = "poll"
  /\ stocked = [s \in Skus |-> InitialStock]
  /\ given = {}
  /\ added = {}
  /\ again = [s \in Skus |-> 0]
  /\ readded = [s \in Skus |-> 0]
  /\ beyond = [s \in Skus |-> 0]
  /\ used = [restocks |-> 0, faults |-> 0, crashes |-> 0, expiries |-> 0, duplicates |-> 0]

-----------------------------------------------------------------------------
(* reserveStockInventory.                                                  *)

(* The check phase of RESERVE_STOCK_SCRIPT: each line by itself against    *)
(* the counter.                                                            *)
Available(cart) == \A i \in DOMAIN cart : redis[cart[i].sku] >= cart[i].quantity

(* The script runs alone in Redis: check, then DECRBY line by line.        *)
Reserve(a, cart) ==
  /\ attempts[a].pc = "new"
  /\ Available(cart)
  /\ redis' = Minus(redis, cart)
  /\ attempts' = [attempts EXCEPT ![a].pc = "decrement", ![a].cart = cart]
  /\ UNCHANGED <<processed, db, orders, restock, kafkaVars, historyVars, used>>

OutOfStock(a, cart) ==
  /\ attempts[a].pc = "new"
  /\ ~ Available(cart)
  /\ attempts' = [attempts EXCEPT ![a].pc = "outOfStock"]
  /\ UNCHANGED <<stockVars, orders, restock, kafkaVars, historyVars, used>>

(* The database transaction after the script.                              *)
DecrementDb(a) ==
  /\ attempts[a].pc = "decrement"
  /\ db' = Minus(db, attempts[a].cart)
  /\ attempts' = [attempts EXCEPT ![a].pc = "reserved"]
  /\ UNCHANGED <<redis, processed, orders, restock, kafkaVars, historyVars, used>>

(* The transaction fails, or the gateway gives up on the reservation:      *)
(* nothing gives Redis its units back.                                     *)
LoseReservation(a) ==
  /\ attempts[a].pc \in {"decrement", "reserved"}
  /\ Fault
  /\ attempts' = [attempts EXCEPT ![a].pc = "lost"]
  /\ UNCHANGED <<stockVars, orders, restock, kafkaVars, historyVars>>

-----------------------------------------------------------------------------
(* What the order service makes of a reservation.                          *)

PlaceOrder(a, id) ==
  /\ attempts[a].pc = "reserved"
  /\ orders[id] = "draft"
  /\ orders' = [orders EXCEPT ![id] = "placed"]
  /\ attempts' = [attempts EXCEPT ![a].pc = "ordered", ![a].order = id]
  /\ UNCHANGED <<stockVars, restock, kafkaVars, historyVars, used>>

(* orderCheckout finds no draft: the same failure is published twice, once *)
(* before the throw and once in the catch, both without an order id.       *)
RefuseCheckout(a) ==
  /\ attempts[a].pc = "reserved"
  /\ \A id \in OrderIds : orders[id] # "draft"
  /\ attempts' = [attempts EXCEPT ![a].pc = "refused"]
  /\ LET message == Message(Null, attempts[a].cart, a)
     IN  Publish("order.checkout.failed", <<message, message>>)
  /\ UNCHANGED <<stockVars, orders, restock, offset, committed, consumer, historyVars, used>>

(* Mutant: the failure is reported although the transaction is committed.  *)
RollBackCheckout_Committed(a, id) ==
  /\ attempts[a].pc = "reserved"
  /\ orders[id] = "draft"
  /\ Fault
  /\ orders' = [orders EXCEPT ![id] = "placed"]
  /\ attempts' = [attempts EXCEPT ![a].pc = "ordered", ![a].order = id]
  /\ Publish("order.checkout.failed", <<Message(id, attempts[a].cart, a)>>)
  /\ UNCHANGED <<stockVars, restock, offset, committed, consumer, historyVars>>

(* orderCheckout's transaction rolls back after it chose a draft: the      *)
(* failure carries the draft's id, and the draft stays.                    *)
RollBackCheckout(a, id) ==
  /\ attempts[a].pc = "reserved"
  /\ orders[id] = "draft"
  /\ Fault
  /\ attempts' = [attempts EXCEPT ![a].pc = "refused"]
  /\ Publish("order.checkout.failed", <<Message(id, attempts[a].cart, a)>>)
  /\ UNCHANGED <<stockVars, orders, restock, offset, committed, consumer, historyVars>>

(* order.canceled lists the rows of the order.  They are the draft's, set  *)
(* by creations, updates and synchronisations, while the reservation was   *)
(* for the items of the checkout: nothing compares the two.                *)
CancelOrder(a) ==
  /\ attempts[a].pc = "ordered"
  /\ orders' = [orders EXCEPT ![attempts[a].order] = "canceled"]
  /\ attempts' = [attempts EXCEPT ![a].pc = "canceled"]
  /\ \E rows \in Carts \cup {<<>>} :
       Publish("order.canceled", <<Message(attempts[a].order, rows, a)>>)
  /\ UNCHANGED <<stockVars, restock, offset, committed, consumer, historyVars, used>>

-----------------------------------------------------------------------------
(* restockInventory: the upsert goes through another connection than the   *)
(* transaction around it and is committed at once; the outbox row follows. *)

RestockUpsert(s) ==
  /\ restock = NoRestock
  /\ Spend("restocks", MaxRestocks)
  /\ db' = [db EXCEPT ![s] = @ + 1]
  /\ stocked' = [stocked EXCEPT ![s] = @ + 1]
  /\ restock' = [sku |-> s]
  /\ UNCHANGED <<redis, processed, attempts, orders, kafkaVars, given, added, again, readded, beyond>>

RestockOutbox ==
  /\ restock # NoRestock
  /\ Publish("product.restock", <<RestockMessage(restock.sku, used.restocks)>>)
  /\ restock' = NoRestock
  /\ UNCHANGED <<stockVars, attempts, orders, offset, committed, consumer, historyVars, used>>

RestockFails ==
  /\ restock # NoRestock
  /\ Fault
  /\ restock' = NoRestock
  /\ UNCHANGED <<stockVars, attempts, orders, kafkaVars, historyVars>>

-----------------------------------------------------------------------------
(* The consumer: one handler at a time, the offset moves when it returns.  *)

Done(t) == offset' = [offset EXCEPT ![t] = @ + 1] /\ consumer' = "poll"

(* Mutant: the script looks for no key.                                    *)
Released_Never(m) == FALSE

(* RELEASE_STOCK_SCRIPT for message m: INCRBY line by line unless the key  *)
(* of its order id exists.  The histories tell what it gives back that was *)
(* given back before, and what exceeds the reservation.                    *)
Released(m) == m.id \in processed

Excess(m, s) ==
  LET reserved == Units(attempts[m.attempt].cart, s)
  IN  IF Units(m.items, s) > reserved THEN Units(m.items, s) - reserved ELSE 0

Release(m) ==
  IF Released(m)
  THEN UNCHANGED <<redis, processed, given, again, beyond>>
  ELSE /\ redis' = Plus(redis, m.items)
       /\ processed' = processed \cup {m.id}
       /\ given' = given \cup {m.attempt}
       /\ IF m.attempt \in given
          THEN again' = Plus(again, m.items) /\ UNCHANGED beyond
          ELSE UNCHANGED again /\ beyond' = [s \in Skus |-> beyond[s] + Excess(m, s)]

(* Mutant: no early return.                                                *)
SkipCheckoutFailed_Increments ==
  /\ consumer = "poll" /\ HasMessage("order.checkout.failed")
  /\ Released(HeadOf("order.checkout.failed"))
  /\ db' = Plus(db, HeadOf("order.checkout.failed").items)
  /\ Done("order.checkout.failed")
  /\ UNCHANGED <<redis, processed, attempts, orders, restock, topics, committed, historyVars, used>>

(* processOrderCheckoutFailed returns when the script released nothing.    *)
SkipCheckoutFailed ==
  /\ consumer = "poll" /\ HasMessage("order.checkout.failed")
  /\ Released(HeadOf("order.checkout.failed"))
  /\ Done("order.checkout.failed")
  /\ UNCHANGED <<stockVars, attempts, orders, restock, topics, committed, historyVars, used>>

ReleaseCheckoutFailed ==
  /\ consumer = "poll" /\ HasMessage("order.checkout.failed")
  /\ ~ Released(HeadOf("order.checkout.failed"))
  /\ Release(HeadOf("order.checkout.failed"))
  /\ consumer' = "order.checkout.failed"
  /\ UNCHANGED <<db, attempts, orders, restock, topics, offset, committed, stocked, added, readded, used>>

(* Mutant: the early return is taken for every order.                      *)
SkipEmptyCanceled_Any ==
  /\ consumer = "poll" /\ HasMessage("order.canceled")
  /\ Done("order.canceled")
  /\ UNCHANGED <<stockVars, attempts, orders, restock, topics, committed, historyVars, used>>

(* processOrderCanceled returns at once for an order without items, and    *)
(* otherwise goes on to the database whatever the script answers.          *)
SkipEmptyCanceled ==
  /\ consumer = "poll" /\ HasMessage("order.canceled")
  /\ HeadOf("order.canceled").items = <<>>
  /\ Done("order.canceled")
  /\ UNCHANGED <<stockVars, attempts, orders, restock, topics, committed, historyVars, used>>

(* Mutant: the message is acknowledged before the database is written.     *)
ReleaseCanceled_AckFirst ==
  /\ consumer = "poll" /\ HasMessage("order.canceled")
  /\ HeadOf("order.canceled").items # <<>>
  /\ Release(HeadOf("order.canceled"))
  /\ offset' = [offset EXCEPT !["order.canceled"] = @ + 1]
  /\ consumer' = "order.canceled"
  /\ UNCHANGED <<db, attempts, orders, restock, topics, committed, stocked, added, readded, used>>

ReleaseCanceled ==
  /\ consumer = "poll" /\ HasMessage("order.canceled")
  /\ HeadOf("order.canceled").items # <<>>
  /\ Release(HeadOf("order.canceled"))
  /\ consumer' = "order.canceled"
  /\ UNCHANGED <<db, attempts, orders, restock, topics, offset, committed, stocked, added, readded, used>>

(* The database transaction of either handler.                             *)
IncrementDb ==
  /\ consumer # "poll"
  /\ db' = Plus(db, HeadOf(consumer).items)
  /\ Done(consumer)
  /\ UNCHANGED <<redis, processed, attempts, orders, restock, topics, committed, historyVars, used>>

(* It fails: the handler throws and the message will be handled again.     *)
IncrementFails ==
  /\ consumer # "poll"
  /\ Fault
  /\ consumer' = "poll"
  /\ UNCHANGED <<stockVars, attempts, orders, restock, topics, offset, committed, historyVars>>

(* redisAddStock: ADD_STOCK_SCRIPT, with nothing that notices a replay.    *)
AddStock ==
  /\ consumer = "poll" /\ HasMessage("product.restock")
  /\ LET m == HeadOf("product.restock")
     IN  /\ redis' = Plus(redis, m.items)
         /\ added' = added \cup {m.call}
         /\ readded' = IF m.call \in added THEN Plus(readded, m.items) ELSE readded
  /\ Done("product.restock")
  /\ UNCHANGED <<processed, db, attempts, orders, restock, topics, committed, stocked, given, again,
                 beyond, used>>

CommitOffset(t) ==
  /\ committed[t] # offset[t]
  /\ committed' = [committed EXCEPT ![t] = offset[t]]
  /\ UNCHANGED <<stockVars, attempts, orders, restock, topics, offset, consumer, historyVars, used>>

-----------------------------------------------------------------------------
(* What goes wrong around the service.                                     *)

(* A connector that starts again at an older position of its outbox        *)
(* publishes everything from there on once more.                           *)
Redeliver(t) ==
  /\ Mishap("duplicates", MaxDuplicates)
  /\ \E i \in DOMAIN topics[t] : Publish(t, SubSeq(topics[t], i, Len(topics[t])))
  /\ UNCHANGED <<stockVars, attempts, orders, restock, offset, committed, consumer, historyVars>>

(* The key of a released order lives for an hour.                          *)
KeyExpires(id) ==
  /\ id \in processed
  /\ Mishap("expiries", MaxExpiries)
  /\ processed' = processed \ {id}
  /\ UNCHANGED <<redis, db, attempts, orders, restock, kafkaVars, historyVars>>

(* The inventory process dies and starts again at the committed offsets;   *)
(* calls between Redis and database are lost.                              *)
Crash ==
  /\ Mishap("crashes", MaxCrashes)
  /\ attempts' = [a \in Attempts |->
       IF attempts[a].pc = "decrement" THEN [attempts[a] EXCEPT !.pc = "lost"] ELSE attempts[a]]
  /\ restock' = NoRestock
  /\ offset' = committed
  /\ consumer' = "poll"
  /\ UNCHANGED <<stockVars, orders, topics, committed, historyVars>>

AttemptStep(a) ==
  \/ \E cart \in Carts : Reserve(a, cart) \/ OutOfStock(a, cart)
  \/ DecrementDb(a)
  \/ LoseReservation(a)
  \/ \E id \in OrderIds : PlaceOrder(a, id) \/ RollBackCheckout(a, id)
  \/ RefuseCheckout(a)
  \/ CancelOrder(a)

RestockStep == (\E s \in Skus : RestockUpsert(s)) \/ RestockOutbox \/ RestockFails

ConsumerStep ==
  \/ SkipCheckoutFailed
  \/ ReleaseCheckoutFailed
  \/ SkipEmptyCanceled
  \/ ReleaseCanceled
  \/ IncrementDb
  \/ IncrementFails
  \/ AddStock
  \/ \E t \in Topics : CommitOffset(t)

Next ==
  \/ \E a \in Attempts : AttemptStep(a)
  \/ RestockStep
  \/ ConsumerStep
  \/ \E t \in Topics : Redeliver(t)
  \/ \E id \in OrderIds \cup {Null} : KeyExpires(id)
  \/ Crash

Spec == Init /\ [][Next]_vars

-----------------------------------------------------------------------------
(* Safety.                                                                 *)

(* "Runs only if everything is in stock": the commit phase of              *)
(* RESERVE_STOCK_SCRIPT never takes a counter below zero, whatever the     *)
(* other checkouts, releases and restocks do meanwhile.                    *)
RedisNeverNegative == \A s \in Skus : redis[s] >= 0

(* No counter is below zero, and what Redis still offers and what          *)
(* checkouts hold never exceeds what was ever in stock, save for what the  *)
(* code really does count without a unit behind it: restocks counted again *)
(* (ADD_STOCK_SCRIPT notices no replay), reservations given back again     *)
(* (keys expire) and rows of a canceled order beyond its reservation.      *)
(* Lost transactions, failed handlers, refused checkouts and duplicates    *)
(* may leak units, not invent them.                                        *)
Holding(a) == attempts[a].pc \in {"decrement", "reserved", "ordered"}
Held(s) ==
  MapThenSumSet(LAMBDA a : Units(attempts[a].cart, s), {a \in Attempts : Holding(a)})
Extra(s) == again[s] + readded[s] + beyond[s]

NotOversold ==
  RedisNeverNegative /\ \A s \in Skus : redis[s] + Held(s) <= stocked[s] + Extra(s)

(* The idempotency key does its work for as long as it lives: although a   *)
(* refused checkout is published twice, connectors publish again, database *)
(* errors make handlers run again and crashes take the offset back, no     *)
(* reservation is given back twice.  The offsets do theirs for the         *)
(* restocks, which have no key, while neither process crashes.             *)
NothingCountedTwice ==
  \A s \in Skus :
    /\ used.expiries = 0 => again[s] = 0
    /\ used.crashes = 0 /\ used.duplicates = 0 => readded[s] = 0

(* With no fault, crash or duplicate, whenever nothing is under way, the   *)
(* two copies of the stock agree and the rows of canceled orders are back, *)
(* whatever order the checkouts, refusals, cancellations, restocks and     *)
(* expiries came in.                                                       *)
Quiet ==
  /\ \A a \in Attempts : attempts[a].pc # "decrement"
  /\ restock = NoRestock
  /\ consumer = "poll"
  /\ \A t \in Topics : ~ HasMessage(t)

CopiesAgree == redis = db
CanceledUnitsAreBack ==
  \A i \in DOMAIN topics["order.canceled"] :
    LET m == topics["order.canceled"][i] IN m.items # <<>> => m.attempt \in given

RestsInOrder ==
  used.faults = 0 /\ used.crashes = 0 /\ used.duplicates = 0 /\ Quiet =>
    CopiesAgree /\ CanceledUnitsAreBack

(* With faults, one drives the two copies apart by at most one cart, or by *)
(* the one unit of a restock: a handler that fails after Redis was written *)
(* and runs again, a rolled-back checkout whose key makes Redis, and only  *)
(* Redis, skip the cancellation of the same draft, a lost transaction.     *)
(* Nothing that follows from a fault adds to it, however often the handler *)
(* fails or runs again on the same message.                                *)
LargestCart(s) == Max({1} \cup {Units(cart, s) : cart \in Carts})

FaultsCostOneCart ==
  used.crashes = 0 /\ used.duplicates = 0 /\ Quiet =>
    \A s \in Skus : LET cost == used.faults * LargestCart(s)
                    IN  redis[s] - db[s] <= cost /\ db[s] - redis[s] <= cost

(* "Already processed": a failed checkout whose release the script skips   *)
(* has had its units given back before.                                    *)
SkippedWasReleased ==
  [][SkipCheckoutFailed => HeadOf("order.checkout.failed").attempt \in given]_vars
=============================================================================
