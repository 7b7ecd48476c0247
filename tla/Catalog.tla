------------------------------ MODULE Catalog ------------------------------
(***************************************************************************)
(* The product service, with the stock snapshot it keeps of every variant, *)
(* and the indices the search service builds from product.created and      *)
(* order.checkout, with the queries that read them.  Nothing here goes     *)
(* through an outbox: the product service writes MongoDB and then sends,   *)
(* without waiting.  Updates and prices are sent to search.update_product, *)
(* a topic nobody reads, so that sending them changes nothing.             *)
(***************************************************************************)
EXTENDS Integers, Sequences, FiniteSets, FiniteSetsExt, Functions

CONSTANTS
  Products,    \* the ids MongoDB may give
  Skus,        \* product variants
  Requests,    \* create and createMany requests
  OrderIds,    \* orders the order service may place
  Carts,       \* their item lists: sequences of [sku, quantity]
  Null,        \* JavaScript's undefined
  Documents,   \* what clients send: [variants, isActive], a variant being [stock, price]
  Prices,      \* the prices of updatePrice
  Budgets      \* bounds, one record chosen at the start: how many creations, orders, restock
               \* events, updates of products and prices, failures (reads of names, events the
               \* broker does not take, crashes) and attempts at messages that throw

ASSUME NullAssumption == Null \notin Skus \cup Products
ASSUME CartsAssumption == Carts \subseteq Seq([sku : Skus, quantity : Nat \ {0}])
ASSUME DocumentsAssumption ==
  /\ IsFiniteSet(Documents)
  /\ \A doc \in Documents :
       /\ doc.isActive \in BOOLEAN /\ DOMAIN doc.variants \subseteq Skus
       /\ DOMAIN doc.variants # {} /\ IsFiniteSet(DOMAIN doc.variants)
       /\ \A s \in DOMAIN doc.variants : doc.variants[s] \in [stock : Nat, price : Nat]
ASSUME PricesAssumption == Prices \subseteq Nat
ASSUME BudgetsAssumption ==
  Budgets \subseteq
    [creations : Nat, orders : Nat, restocks : Nat, updates : Nat, faults : Nat, retries : Nat]

VARIABLES
  products,    \* products[p]: variants, isActive and the range of prices; NoProduct before
  calls,       \* calls[r]: the products request r has saved and not announced yet
  orders,      \* orders[id]: "none", "placed" or "canceled", with its cart
  topics,      \* topics[t]: the messages of Kafka topic t
  offset,      \* offset[s]: how many messages subscription s has handled
  committed,   \* committed[s]: the offset it would start from again
  index,       \* index[i]: the mapping of an index of Elasticsearch, and its documents
  boot,        \* boot[i]: how far the search service is with creating it
  threw,       \* history: an order.canceled was counted and its handler threw
  budget,      \* the bounds of this behaviour
  used         \* how much of each is used up, failures by kind

kafkaVars == <<offset, committed>>
searchVars == <<index, boot>>
vars == <<products, calls, orders, topics, kafkaVars, searchVars, threw, budget, used>>

NoProduct == <<>>
Topics == {"product.created", "order.checkout", "order.canceled", "product.restock"}
Subscription(g, t) == [group |-> g, topic |-> t]
Subscriptions ==
  {Subscription("product", t) : t \in {"order.checkout", "order.canceled", "product.restock"}}
    \cup {Subscription("search", t) : t \in {"product.created", "order.checkout"}}
Indices == {"products", "orders"}

Exists(p) == products[p] # NoProduct
Variants(p) == IF Exists(p) THEN products[p].variants ELSE <<>>

(* calculateMinMaxPrice, and what is stored of a document.                 *)
PriceRange(variants) ==
  LET prices == {variants[s].price : s \in DOMAIN variants}
  IN  [min |-> Min(prices), max |-> Max(prices)]
Stored(doc) ==
  [variants |-> doc.variants, isActive |-> doc.isActive, range |-> PriceRange(doc.variants)]

HasMessage(s) == offset[s] < Len(topics[s.topic])
HeadOf(s) == topics[s.topic][offset[s] + 1]
Publish(t, message) == topics' = [topics EXCEPT ![t] = Append(@, message)]
Acknowledge(s) == offset' = [offset EXCEPT ![s] = @ + 1]
Use(kind) == used' = [used EXCEPT ![kind] = @ + 1]
Spend(kind) == used[kind] < budget[kind] /\ Use(kind)
Fault(kind) == used.names + used.lost + used.crashes < budget.faults /\ Use(kind)
Pending(r) == {product.id : product \in Range(calls[r].todo)}

TypeOK ==
  /\ \A p \in Products : Exists(p) =>
       /\ DOMAIN Variants(p) \subseteq Skus /\ products[p].isActive \in BOOLEAN
       /\ \A s \in DOMAIN Variants(p) : Variants(p)[s] \in [stock : Int, price : Nat]
       /\ products[p].range.min <= products[p].range.max
  /\ \A r \in Requests :
       /\ calls[r].pc \in {"new", "announce", "done", "failed"}
       /\ Pending(r) \subseteq {p \in Products : Exists(p)}
       /\ calls[r].pc \in {"new", "done"} <=> calls[r].todo = <<>> /\ calls[r].pc # "failed"
  /\ orders \in [OrderIds -> [status : {"none", "placed", "canceled"}, cart : Carts \cup {<<>>}]]
  /\ \A s \in Subscriptions : committed[s] <= offset[s] /\ offset[s] <= Len(topics[s.topic])
  /\ \A p, q \in Products : p # q => DOMAIN Variants(p) \cap DOMAIN Variants(q) = {}
  /\ boot \in [Indices -> {"check", "create", "done"}]
  /\ \A i \in Indices :
       /\ index[i].mapping \in {"none", "designed", "dynamic"}
       /\ boot[i] = "done" => index[i].mapping # "none"
       /\ index[i].documents # <<>> => index[i].mapping # "none"
  /\ DOMAIN index["products"].documents \subseteq {p \in Products : Exists(p)}
  /\ DOMAIN index["orders"].documents \subseteq {id \in OrderIds : orders[id].status # "none"}

Init ==
  /\ products = [p \in Products |-> NoProduct]
  /\ calls = [r \in Requests |-> [pc |-> "new", todo |-> <<>>]]
  /\ orders = [id \in OrderIds |-> [status |-> "none", cart |-> <<>>]]
  /\ topics = [t \in Topics |-> <<>>]
  /\ offset = [s \in Subscriptions |-> 0]
  /\ committed = [s \in Subscriptions |-> 0]
  /\ index = [i \in Indices |-> [mapping |-> "none", documents |-> <<>>]]
  /\ boot = [i \in Indices |-> "check"]
  /\ threw = FALSE
  /\ budget \in Budgets
  /\ used = [creations |-> 0, orders |-> 0, restocks |-> 0, updates |-> 0, retries |-> 0,
             names |-> 0, lost |-> 0, crashes |-> 0]

-----------------------------------------------------------------------------
(* create and createMany.  The index on variants.sku is unique across      *)
(* products: insertMany stops at the first document with a known sku and   *)
(* leaves those before it in the collection.                               *)

KnownSkus == UNION {DOMAIN Variants(p) : p \in Products}

(* Mutant: only the batch itself is looked through.                        *)
Insertable_BatchOnly(docs, k) ==
  DOMAIN docs[k].variants \cap UNION {DOMAIN docs[i].variants : i \in 1 .. (k - 1)} = {}

Insertable(docs, k) ==
  DOMAIN docs[k].variants
    \cap (KnownSkus \cup UNION {DOMAIN docs[i].variants : i \in 1 .. (k - 1)}) = {}

Saved(ids, docs) ==
  [p \in Products |-> IF p \in Range(ids)
                      THEN Stored(docs[CHOOSE i \in DOMAIN ids : ids[i] = p])
                      ELSE products[p]]

(* The saved products as the request holds them, whatever becomes of them. *)
Saves(ids, docs, n) == [i \in 1 .. n |-> [id |-> ids[i], product |-> Stored(docs[i])]]
Fresh(ids) == IsInjective(ids) /\ \A i \in DOMAIN ids : ~ Exists(ids[i])

InsertMany(r, ids, docs) ==
  /\ calls[r].pc = "new"
  /\ Spend("creations")
  /\ Fresh(ids)
  /\ \A k \in DOMAIN docs : Insertable(docs, k)
  /\ products' = Saved(ids, docs)
  /\ calls' = [calls EXCEPT ![r] = [pc |-> "announce", todo |-> Saves(ids, docs, Len(ids))]]
  /\ UNCHANGED <<orders, topics, kafkaVars, searchVars, threw>>

InsertManyFails(r, ids, docs) ==
  /\ calls[r].pc = "new"
  /\ Spend("creations")
  /\ Fresh(ids)
  /\ \E k \in DOMAIN docs :
       /\ ~ Insertable(docs, k)
       /\ \A i \in 1 .. (k - 1) : Insertable(docs, i)
       /\ products' = Saved(SubSeq(ids, 1, k - 1), docs)
       /\ calls' = [calls EXCEPT ![r] = [pc |-> "failed", todo |-> Saves(ids, docs, k - 1)]]
  /\ UNCHANGED <<orders, topics, kafkaVars, searchVars, threw>>

(* The next product's brand and category are read and product.created is   *)
(* sent; emit is not awaited.                                              *)
Announced(r) ==
  calls' = [calls EXCEPT ![r] = [pc |-> IF Len(calls[r].todo) = 1 THEN "done" ELSE "announce",
                                 todo |-> Tail(calls[r].todo)]]

(* prepareKafkaPayloadCreate: of the stock, whether there is any.          *)
Payload(id, product) ==
  [id |-> id, isActive |-> product.isActive, range |-> product.range,
   variants |-> [s \in DOMAIN product.variants |->
                  [price |-> product.variants[s].price, inStock |-> product.variants[s].stock > 0]]]
EmitNext(r) ==
  Publish("product.created", Payload(Head(calls[r].todo).id, Head(calls[r].todo).product))

(* Mutant: one event for the whole batch.                                  *)
EmitCreated_FirstOnly(r) ==
  /\ calls[r].pc = "announce"
  /\ EmitNext(r)
  /\ calls' = [calls EXCEPT ![r] = [pc |-> "done", todo |-> <<>>]]
  /\ UNCHANGED <<products, orders, kafkaVars, searchVars, threw, used>>

EmitCreated(r) ==
  /\ calls[r].pc = "announce"
  /\ EmitNext(r)
  /\ Announced(r)
  /\ UNCHANGED <<products, orders, kafkaVars, searchVars, threw, used>>

(* The broker does not take the event, and nobody hears of it.             *)
EmitLost(r) ==
  /\ calls[r].pc = "announce"
  /\ Fault("lost")
  /\ Announced(r)
  /\ UNCHANGED <<products, orders, topics, kafkaVars, searchVars, threw>>

(* Reading the names fails: the request fails, its products stay.          *)
NamesFail(r) ==
  /\ calls[r].pc = "announce"
  /\ Fault("names")
  /\ calls' = [calls EXCEPT ![r].pc = "failed"]
  /\ UNCHANGED <<products, orders, topics, kafkaVars, searchVars, threw>>

(* update: what the client sends replaces what the product has, snapshots  *)
(* included; an empty list of variants does not arrive.  The range of      *)
(* prices stays.                                                           *)
Updated(p, variants, isActive) ==
  [products[p] EXCEPT !.variants = IF variants = <<>> THEN @ ELSE variants, !.isActive = isActive]

(* Mutant: an update announces the product again.                          *)
Update_Announces(p, variants, isActive) ==
  /\ Exists(p)
  /\ DOMAIN variants \cap UNION {DOMAIN Variants(q) : q \in Products \ {p}} = {}
  /\ Spend("updates")
  /\ products' = [products EXCEPT ![p] = Updated(p, variants, isActive)]
  /\ Publish("product.created", Payload(p, Updated(p, variants, isActive)))
  /\ UNCHANGED <<calls, orders, kafkaVars, searchVars, threw>>

Update(p, variants, isActive) ==
  /\ Exists(p)
  /\ DOMAIN variants \cap UNION {DOMAIN Variants(q) : q \in Products \ {p}} = {}
  /\ Spend("updates")
  /\ products' = [products EXCEPT ![p] = Updated(p, variants, isActive)]
  /\ UNCHANGED <<calls, orders, topics, kafkaVars, searchVars, threw>>

(* updatePrice finds the product by the variant alone, and the range it    *)
(* announces is of the prices before the update.                           *)
UpdatePrice(sku, price) ==
  /\ Spend("updates")
  /\ \E p \in Products :
       /\ sku \in DOMAIN Variants(p)
       /\ products' = [products EXCEPT ![p].variants[sku].price = price]
  /\ UNCHANGED <<calls, orders, topics, kafkaVars, searchVars, threw>>

-----------------------------------------------------------------------------
(* The topics the product service reads.  order.checkout lists the rows of *)
(* the order, whose column is productSku; order.canceled and the restock   *)
(* event name the variant sku.                                             *)

PlaceOrder(id, cart) ==
  /\ orders[id].status = "none"
  /\ Spend("orders")
  /\ orders' = [orders EXCEPT ![id] = [status |-> "placed", cart |-> cart]]
  /\ Publish("order.checkout",
       [id |-> id, userId |-> 1, status |-> "PENDING",
        items |-> [i \in DOMAIN cart |-> [productSku |-> cart[i].sku, quantity |-> cart[i].quantity]]])
  /\ UNCHANGED <<products, calls, kafkaVars, searchVars, threw>>

CancelOrder(id) ==
  /\ orders[id].status = "placed"
  /\ orders' = [orders EXCEPT ![id].status = "canceled"]
  /\ Publish("order.canceled", [id |-> id, items |-> orders[id].cart])
  /\ UNCHANGED <<products, calls, kafkaVars, searchVars, threw, used>>

PublishRestock(sku) ==
  /\ Spend("restocks")
  /\ Publish("product.restock", [items |-> <<[sku |-> sku, quantity |-> 1]>>])
  /\ UNCHANGED <<products, calls, orders, kafkaVars, searchVars, threw>>

(* Mutant: the handler finds the name of the variant wherever it stands.   *)
SkuRead_EitherName(item) == IF "sku" \in DOMAIN item THEN item.sku ELSE item.productSku

(* The handlers read item.sku.                                             *)
SkuRead(item) == IF "sku" \in DOMAIN item THEN item.sku ELSE Null

(* findOneAndUpdate finds a product with the variant, or answers null.     *)
Found(items) == \A i \in DOMAIN items : SkuRead(items[i]) \in KnownSkus

Units(items, s) ==
  MapThenSumSet(LAMBDA i : IF SkuRead(items[i]) = s THEN items[i].quantity ELSE 0, DOMAIN items)

(* The transaction: $inc for every item that is found.                     *)
Incremented(variants, items, sign) ==
  [s \in DOMAIN variants |-> [variants[s] EXCEPT !.stock = @ + sign * Units(items, s)]]

(* Mutant: a quantity is counted twice.                                    *)
Counted_Twice(items, sign) ==
  products' = [p \in Products |->
    IF Exists(p)
    THEN [products[p] EXCEPT !.variants = Incremented(Incremented(@, items, sign), items, sign)]
    ELSE NoProduct]

Counted(items, sign) ==
  products' = [p \in Products |->
    IF Exists(p)
    THEN [products[p] EXCEPT !.variants = Incremented(@, items, sign)]
    ELSE NoProduct]

Sign(t) == IF t = "order.checkout" THEN -1 ELSE 1

(* processOrderCheckout and processOrderCanceled when every item is found. *)
CountOrder(t) ==
  LET s == Subscription("product", t)
  IN  /\ HasMessage(s)
      /\ Found(HeadOf(s).items)
      /\ Counted(HeadOf(s).items, Sign(t))
      /\ Acknowledge(s)
      /\ UNCHANGED <<calls, orders, topics, committed, searchVars, threw, used>>

(* Some item is not: the transaction has committed when the loop over the  *)
(* results reads the id of null and throws, so the message comes back.     *)
CountOrderThrows(t) ==
  LET s == Subscription("product", t)
  IN  /\ HasMessage(s)
      /\ ~ Found(HeadOf(s).items)
      /\ Spend("retries")
      /\ Counted(HeadOf(s).items, Sign(t))
      /\ threw' = (threw \/ t = "order.canceled")
      /\ UNCHANGED <<calls, orders, topics, kafkaVars, searchVars>>

(* processProductRestock does not look at what it found.                   *)
CountRestock ==
  LET s == Subscription("product", "product.restock")
  IN  /\ HasMessage(s)
      /\ Counted(HeadOf(s).items, 1)
      /\ Acknowledge(s)
      /\ UNCHANGED <<calls, orders, topics, committed, searchVars, threw, used>>

-----------------------------------------------------------------------------
(* The search service.  Both indices are created when it starts, by calls  *)
(* that nobody waits for: the consumer may be there first, and a document  *)
(* for an index that does not exist makes Elasticsearch create one with a  *)
(* mapping of its own.                                                     *)

Died ==
  /\ offset' = [s \in Subscriptions |-> IF s.group = "search" THEN committed[s] ELSE offset[s]]
  /\ boot' = [i \in Indices |-> "check"]

CheckIndex(i) ==
  /\ boot[i] = "check"
  /\ boot' = [boot EXCEPT ![i] = IF index[i].mapping = "none" THEN "create" ELSE "done"]
  /\ UNCHANGED <<products, calls, orders, topics, kafkaVars, index, threw, used>>

CreateIndex(i) ==
  /\ boot[i] = "create"
  /\ index[i].mapping = "none"
  /\ index' = [index EXCEPT ![i].mapping = "designed"]
  /\ boot' = [boot EXCEPT ![i] = "done"]
  /\ UNCHANGED <<products, calls, orders, topics, kafkaVars, threw, used>>

(* The index has come into being since: the rejection is nobody's, and     *)
(* ends the process, which is started again.                               *)
CreateIndexFails(i) ==
  /\ boot[i] = "create"
  /\ index[i].mapping # "none"
  /\ Died
  /\ UNCHANGED <<products, calls, orders, topics, committed, index, threw, used>>

(* index creates the document or overwrites it.                            *)
Put(i, id, document) ==
  index' = [index EXCEPT ![i] =
    [mapping |-> IF @.mapping = "none" THEN "dynamic" ELSE @.mapping,
     documents |-> [x \in DOMAIN @.documents \cup {id} |->
                     IF x = id THEN document ELSE @.documents[x]]]]

IndexProduct ==
  LET s == Subscription("search", "product.created")
  IN  /\ HasMessage(s)
      /\ Put("products", HeadOf(s).id, HeadOf(s))
      /\ Acknowledge(s)
      /\ UNCHANGED <<products, calls, orders, topics, committed, boot, threw, used>>

IndexOrder ==
  LET s == Subscription("search", "order.checkout")
  IN  /\ HasMessage(s)
      /\ Put("orders", HeadOf(s).id, HeadOf(s))
      /\ Acknowledge(s)
      /\ UNCHANGED <<products, calls, orders, topics, committed, boot, threw, used>>

(* The queries.  A term clause asks for a value of a field; all_text is    *)
(* what the designed mapping of the products copies their texts to, and a  *)
(* text is taken to be the one that a single product has, or Null for a    *)
(* query without.                                                          *)
Indexed(i) == DOMAIN index[i].documents
Term(i, id, field, value) ==
  LET document == index[i].documents[id]
  IN  field \in DOMAIN document /\ document[field] = value
AllText(i, id, text) == i = "products" /\ index[i].mapping = "designed" /\ text = id

SearchProduct(text) ==
  {p \in Indexed("products") :
     (text # Null => AllText("products", p, text)) /\ Term("products", p, "isActive", TRUE)}

SearchProductInventory(text) ==
  {p \in Indexed("products") :
     text # Null => AllText("products", p, text) /\ Term("products", p, "userId", 1001)}

(* A text field is analysed, to lower case: only a keyword holds a status  *)
(* as it is.                                                               *)
StatusTerm(id, tab) == index["orders"].mapping = "designed" /\ Term("orders", id, "status", tab)

SearchOrders(tab, text) ==
  {id \in Indexed("orders") :
     /\ Term("orders", id, "userId", 1)
     /\ tab # "all" => StatusTerm(id, tab)
     /\ text # Null => AllText("orders", id, text) /\ Term("orders", id, "isActive", TRUE)}

-----------------------------------------------------------------------------
CommitOffset(s) ==
  /\ committed[s] # offset[s]
  /\ committed' = [committed EXCEPT ![s] = offset[s]]
  /\ UNCHANGED <<products, calls, orders, topics, offset, searchVars, threw, used>>

(* A service dies and starts again at its committed offsets; the product   *)
(* service forgets the products it has not announced.                      *)
CrashProduct ==
  /\ Fault("crashes")
  /\ offset' = [s \in Subscriptions |-> IF s.group = "product" THEN committed[s] ELSE offset[s]]
  /\ calls' = [r \in Requests |->
       IF calls[r].pc = "announce" THEN [calls[r] EXCEPT !.pc = "failed"] ELSE calls[r]]
  /\ UNCHANGED <<products, orders, topics, committed, searchVars, threw>>

CrashSearch ==
  /\ Fault("crashes")
  /\ Died
  /\ UNCHANGED <<products, calls, orders, topics, committed, index, threw>>

CreateStep(r) ==
  \/ \E n \in {1, 2} : \E ids \in [1 .. n -> Products], docs \in [1 .. n -> Documents] :
       InsertMany(r, ids, docs) \/ InsertManyFails(r, ids, docs)
  \/ EmitCreated(r)
  \/ EmitLost(r)
  \/ NamesFail(r)

OrderStep ==
  \/ \E id \in OrderIds : (\E cart \in Carts : PlaceOrder(id, cart)) \/ CancelOrder(id)
  \/ \E sku \in Skus : PublishRestock(sku)

ConsumerStep ==
  \/ \E t \in {"order.checkout", "order.canceled"} : CountOrder(t) \/ CountOrderThrows(t)
  \/ CountRestock
  \/ IndexProduct
  \/ IndexOrder
  \/ \E s \in Subscriptions : CommitOffset(s)

SearchStep == \E i \in Indices : CheckIndex(i) \/ CreateIndex(i) \/ CreateIndexFails(i)

UpdateStep ==
  \/ \E p \in Products, doc \in Documents :
       Update(p, doc.variants, doc.isActive) \/ Update(p, <<>>, doc.isActive)
  \/ \E sku \in Skus, price \in Prices : UpdatePrice(sku, price)

Step ==
  \/ \E r \in Requests : CreateStep(r)
  \/ UpdateStep
  \/ OrderStep
  \/ ConsumerStep
  \/ SearchStep
  \/ CrashProduct
  \/ CrashSearch

Next == Step /\ UNCHANGED budget

Spec == Init /\ [][Next]_vars

-----------------------------------------------------------------------------
(* The snapshot never shows more units than clients have set and           *)
(* cancellations and restocks have brought, as long as no crash repeats a  *)
(* message and no cancellation lists a variant the catalog does not have:  *)
(* that one is counted again at every attempt, until somebody creates the  *)
(* variant.                                                                *)
Brought(s) ==
  LET In(t) == MapThenSumSet(LAMBDA i : Units(topics[t][i].items, s), DOMAIN topics[t])
  IN  In("order.canceled") + In("product.restock")
MostSet(s) == Max({0} \cup {doc.variants[s].stock : doc \in {d \in Documents : s \in DOMAIN d.variants}})

SnapshotAccounted ==
  used.crashes = 0 /\ ~ threw =>
    \A p \in Products : \A s \in DOMAIN Variants(p) : Variants(p)[s].stock <= MostSet(s) + Brought(s)

(* No message lowers a snapshot: the handler of order.checkout looks for   *)
(* sku where the event has productSku, so orders are never subtracted,     *)
(* while canceled ones are added.  Only a client's update lowers it.       *)
SnapshotNeverFalls ==
  [][(\E p \in Products : \E s \in DOMAIN Variants(p) \cap DOMAIN Variants(p)' :
        Variants(p)'[s].stock < Variants(p)[s].stock) => UpdateStep]_vars

(* When the search service has read everything, what it does not find is   *)
(* a product whose create request has failed or is under way, or that was  *)
(* inactive when it was created; it finds every order in the tab of orders *)
(* under way, canceled ones too.  The broker must have taken the events,   *)
(* and for texts and tabs the search service, not Elasticsearch, must have *)
(* created the index.                                                      *)
Caught == \A s \in Subscriptions : s.group = "search" => ~ HasMessage(s)
SearchComplete ==
  Caught =>
    /\ used.lost = 0 =>
         \A p \in Products : Exists(p) =>
           p \in SearchProductInventory(Null) \/ \E r \in Requests : p \in Pending(r)
    /\ \A event \in Range(topics["product.created"]) : event.isActive =>
         /\ event.id \in SearchProduct(Null)
         /\ index["products"].mapping = "designed" => event.id \in SearchProduct(event.id)
    /\ \A id \in OrderIds : orders[id].status # "none" =>
         /\ id \in SearchOrders("all", Null)
         /\ index["orders"].mapping = "designed" => id \in SearchOrders("PENDING", Null)

(* A product that was saved and not announced never reaches the index: its *)
(* request is over, its variants cannot be created again, and no later     *)
(* operation announces it.                                                 *)
Orphan(p) ==
  /\ Exists(p)
  /\ p \notin Indexed("products") \cup {event.id : event \in Range(topics["product.created"])}
  /\ \A r \in Requests : calls[r].pc = "announce" => p \notin Pending(r)

OrphanIsForever == [][\A p \in Products : Orphan(p) => Orphan(p)']_vars

(* What the indices hold of a product or an order is what was announced    *)
(* first, for good: no new price or stock, no deactivation and no outcome  *)
(* of a payment reaches them, and replayed events bring nothing older.     *)
IndexIsFrozen ==
  [][\A i \in Indices : \A id \in Indexed(i) : index'[i].documents[id] = index[i].documents[id]]_vars
=============================================================================
